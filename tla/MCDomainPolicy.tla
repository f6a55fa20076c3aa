-------------------------- MODULE MCDomainPolicy ---------------------------
(***************************************************************************)
(* The TLC instance of DomainPolicy: two users, and source lists in which  *)
(* every kind of source occurs, alone or beside one of another kind.       *)
(***************************************************************************)
EXTENDS DomainPolicy, TLC

MCEntries == {{}, {"country"}, {"geosite", "url"}}
MCFileLines == {"plain", "country"}
MCBodies == {{"private", "nested"}, {"comment", "nosite"}, {"invalid"}}
MCDefaults == {[mode |-> "off", domains |-> {}],
               [mode |-> "whitelist", domains |-> {"file"}]}
MCBlocks == {[blockBittorrent |-> b, blockPrivate |-> b] : b \in BOOLEAN}

Symmetry == Permutations(Client)
============================================================================
