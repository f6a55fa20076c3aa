------------------------ MODULE MCNetworkIdentity -------------------------
(***************************************************************************)
(* TLC instances of NetworkIdentity: four addresses in three countries, so *)
(* that a move may or may not change the country.  The state is finite     *)
(* without a bound on moves, failures or restarts.                         *)
(***************************************************************************)
EXTENDS NetworkIdentity

CONSTANTS a, b, c, d, RS, UK, DE

MCIP == {a, b, c, d}
MCLabel == {RS, UK, DE}
MCCountry == a :> RS @@ b :> RS @@ c :> UK @@ d :> DE
===========================================================================
