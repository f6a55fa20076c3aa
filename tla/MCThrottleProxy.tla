-------------------------- MODULE MCThrottleProxy --------------------------
(***************************************************************************)
(* The TLC instance of ThrottleProxy: two connections of one user.  A      *)
(* chunk is one unit, so the burst is four chunks, as in the code whenever *)
(* the rate is below 16 chunks a second.                                   *)
(***************************************************************************)
EXTENDS ThrottleProxy

CONSTANTS c1, c2, home

MCConn == {c1, c2}
MCIP == {home}
MCSourceIP == [c \in MCConn |-> home]

(* Five chunks up, more than a burst, and one down. *)
MCMaxReads == [up |-> 5, down |-> 1]
============================================================================
