--------------------------- MODULE MCUNetReceiver ---------------------------
(* Small instances of UNetReceiver.                                        *)
EXTENDS UNetReceiver

CONSTANTS d1, d2, junk, MaxNum

\* Packets are numbered up to MaxNum; consecutive ones differ in their data,
\* as after a change of a sensor.  A junk datagram carries the number 1: in a
\* ring of four the landing slot is that of number 1 again when 5 is expected.
MCData == {d1, d2, junk}
MCCrc == [d \in MCData |-> CASE d = d1 -> 1 [] d = d2 -> 2 [] d = junk -> 3]
MCPackets == {[num |-> n, data |-> IF n % 2 = 0 THEN d2 ELSE d1] : n \in 1..MaxNum}
MCJunk == {[num |-> 1, data |-> junk]}
=============================================================================
