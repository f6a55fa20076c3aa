------------------------ MODULE NetworkIdentityProofs -----------------------
(***************************************************************************)
(* Proofs about NetworkIdentity, for any addresses and countries, with or  *)
(* without a configured PublicIP and a DuckDNS name.                       *)
(***************************************************************************)
EXTENDS NetworkIdentity, TLAPS

USE AddressAssumption, CountryAssumption, DuckDNSAssumption

(* No step of the daemon, none of its failures and no restart leaves a       *)
(* variable outside its type; where an update or a lookup is under way there *)
(* is an address to do it with (refreshNetworkIdentity's early return).      *)
THEOREM TypeCorrect == Spec => []TypeOK
<1>1. Init => TypeOK
  BY DEF Init, TypeOK
<1>2. TypeOK /\ [Next]_vars => TypeOK'
  <2> SUFFICES ASSUME TypeOK, [Next]_vars PROVE TypeOK'
    OBVIOUS
  <2> USE DEF TypeOK
  <2>1. ASSUME NEW i \in IP, Move(i) PROVE TypeOK'
    BY <2>1 DEF Move
  <2>2. CASE Start
    BY <2>2 DEF Start
  <2>3. CASE Kill
    BY <2>3 DEF Kill, history
  <2>4. CASE Fetch
    BY <2>4 DEF Fetch, history
  <2>5. CASE FetchFails
    BY <2>5 DEF FetchFails, vars
  <2>6. CASE Update
    BY <2>6 DEF Update
  <2>7. CASE UpdateFails
    BY <2>7 DEF UpdateFails
  <2>8. CASE Locate
    BY <2>8 DEF Locate, history
  <2>9. CASE LocateFails
    BY <2>9 DEF LocateFails
  <2>10. CASE UNCHANGED vars
    BY <2>10 DEF vars
  <2> QED BY <2>1, <2>2, <2>3, <2>4, <2>5, <2>6, <2>7, <2>8, <2>9, <2>10
        DEF Next, Refresh
<1> QED BY <1>1, <1>2, PTL DEF Spec

(* What keeps DealtWith: as long as no update failed, lastIP is what DuckDNS *)
(* was given; since one did, the node has been at another address.           *)
Given == DuckDNS /\ PublicIP = NoIP /\ lastIP # NoIP /\ ~lost => dns = lastIP
Elsewhere == lost /\ ~back => ip # lastIP
DealtInv == TypeOK /\ Given /\ Elsewhere

LEMMA DealtStep == DealtInv /\ TypeOK' /\ [Next]_vars => DealtInv'
<1> SUFFICES ASSUME DealtInv, TypeOK', [Next]_vars PROVE Given' /\ Elsewhere'
  BY DEF DealtInv
<1> USE DEF DealtInv, TypeOK, Given, Elsewhere
<1>1. ASSUME NEW i \in IP, Move(i) PROVE Given' /\ Elsewhere'
  BY <1>1 DEF Move
<1>2. CASE Start
  BY <1>2 DEF Start
<1>3. CASE Kill \/ Fetch \/ Locate
  BY <1>3 DEF Kill, Fetch, Locate, history
<1>4. CASE FetchFails \/ UNCHANGED vars
  BY <1>4 DEF FetchFails, vars
<1>5. CASE Update
  BY <1>5 DEF Update
<1>6. CASE UpdateFails
  BY <1>6 DEF UpdateFails
<1>7. CASE LocateFails
  BY <1>7 DEF LocateFails
<1> QED BY <1>1, <1>2, <1>3, <1>4, <1>5, <1>6, <1>7 DEF Next, Refresh

(* Whatever failed, moved or restarted before: an address lastIP takes for   *)
(* dealt with is the one DuckDNS answers with, unless the node came back to  *)
(* it after an update that failed, or PublicIP put it there.                 *)
THEOREM DealtWithHolds == Spec => []DealtWith
<1>1. Init => DealtInv
  BY DEF Init, DealtInv, Given, Elsewhere, TypeOK
<1>2. DealtInv /\ TypeOK' /\ [Next]_vars => DealtInv'
  BY DealtStep
<1>3. DealtInv => DealtWith
  BY DEF DealtInv, Given, Elsewhere, DealtWith, TypeOK
<1> QED BY <1>1, <1>2, <1>3, TypeCorrect, PTL DEF Spec
=============================================================================
