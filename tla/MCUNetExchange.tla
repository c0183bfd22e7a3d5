--------------------------- MODULE MCUNetExchange ---------------------------
(* Small instances of UNetExchange.                                        *)
EXTENDS UNetExchange

CONSTANT a

MCValue == {a}

\* One sensor at a time: the two parts of step() have nothing in common.
MCConfigured == {{"respond"}, {"channel"}}
=============================================================================
