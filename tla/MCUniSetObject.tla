--------------------------- MODULE MCUniSetObject ---------------------------
(* Small instances of UniSetObject.                                        *)
EXTENDS UniSetObject

CONSTANTS p1, t1, t2

OneProducer == {p1}
NoTimers == {}
OneTimer == {t1}
TwoTimers == {t1, t2}
=============================================================================
