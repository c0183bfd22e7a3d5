------------------------ MODULE MCIONotifyController ------------------------
(* Small instances of IONotifyController.                                  *)
EXTENDS IONotifyController

CONSTANTS t1, t2, c1

OneThread == {t1}
TwoThreads == {t1, t2}
NoConsumers == {}
OneConsumer == {c1}
=============================================================================
