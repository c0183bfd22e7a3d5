----------------------------- MODULE MCUNetLink -----------------------------
(* Small instances of UNetLink.                                            *)
EXTENDS UNetLink

CONSTANTS v1, v2

MCValues == {v1, v2}
MCSentData == [value : MCValues, life : 1..Lives]
MCSentCrc == [d \in MCSentData |-> IF d.value = v1 THEN 1 ELSE 2]
MCSentPackets == [num : 1..MaxSent, data : MCSentData]
=============================================================================
