-------------------------- MODULE MCTrafficTally --------------------------
(***************************************************************************)
(* TLC instances of TrafficTally: two users and one inbound, two daemon    *)
(* processes, and enough traffic for a counter to be read at two different *)
(* non-zero values.                                                        *)
(***************************************************************************)
EXTENDS TrafficTally

CONSTANTS c1, c2, vless

MCClient == {c1, c2}
MCInbound == {vless}
===========================================================================
