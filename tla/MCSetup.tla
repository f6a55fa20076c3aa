------------------------------ MODULE MCSetup -------------------------------
(***************************************************************************)
(* The TLC instance of Setup.  The operator may type the decoy site's port *)
(* and the loopback port behind VLESS's default, which may also be the     *)
(* external port VLESS is dialled at, so that every collision occurs; two  *)
(* ports are free in the recommended ranges, too few for three protocols.  *)
(***************************************************************************)
EXTENDS Setup, TLC

MCTyped ==
  [p \in Proto |-> CASE p = "vless" -> {8080}
                     [] p = "trojan" -> {8080, 18443}
                     [] OTHER -> {}]
MCDialled == [p \in Proto |-> IF p = "vless" THEN {18443} ELSE {}]

Symmetry == Permutations(Site)
=============================================================================
