-------------------------- MODULE MCConfigStore ---------------------------
(***************************************************************************)
(* TLC instances of ConfigStore: one operator session after another and    *)
(* the daemon, two UUIDs of which one or both exist at first.              *)
(***************************************************************************)
EXTENDS ConfigStore, TLC

CONSTANTS u1, u2, w1, w2, RS, UK, plain, tuned

MCClient == {u1, u2}
MCLabel == {RS, UK}
MCRest == {plain, tuned}
OneCli == {w1}
TwoCli == {w1, w2}

ClientSymmetry == Permutations(MCClient) \cup Permutations(MCLabel)
===========================================================================
