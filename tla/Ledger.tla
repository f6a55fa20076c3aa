------------------------------ MODULE Ledger ------------------------------
(***************************************************************************)
(* What stats.json promises of the traffic it reports: for each key (a     *)
(* user or an inbound) and direction, a record of the bytes carried that   *)
(* never exceeds them and never goes back.  Only a keeper that could not   *)
(* read its record, and forgot, may replace it by a smaller one, once.     *)
(***************************************************************************)
EXTENDS Integers

CONSTANT Key

VARIABLES carried, recorded, forgot

LedgerDir == {"up", "down"}
Amounts == [Key -> [LedgerDir -> Nat]]
Nothing == [k \in Key |-> [d \in LedgerDir |-> 0]]

AtMost(f, g) == \A k \in Key, d \in LedgerDir : f[k][d] <= g[k][d]

Init == carried = Nothing /\ recorded = Nothing /\ forgot = FALSE

Carry(k, d) ==
  /\ carried' = [carried EXCEPT ![k][d] = @ + 1]
  /\ UNCHANGED <<recorded, forgot>>

Record ==
  /\ recorded' \in Amounts
  /\ forgot \/ AtMost(recorded, recorded')
  /\ AtMost(recorded', carried)
  /\ forgot' = FALSE
  /\ UNCHANGED carried

(* The record cannot be read: start again, now or at the next Record. *)
Forget ==
  /\ \/ recorded' = Nothing /\ forgot' = FALSE
     \/ recorded' = recorded /\ forgot' = TRUE
  /\ UNCHANGED carried

Next == (\E k \in Key, d \in LedgerDir : Carry(k, d)) \/ Record \/ Forget

Spec == Init /\ [][Next]_<<carried, recorded, forgot>>
===========================================================================
