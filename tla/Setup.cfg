SPECIFICATION Spec
CONSTANTS
  Typed <- MCTyped
  Dialled <- MCDialled
  Free = {35000, 36000}
  Site = {s1, s2}
SYMMETRY Symmetry
INVARIANTS
  TypeOK
  PortsDistinct
  CredentialsComplete
  LinksNameCert
  Checkpointed
  KeepsLinks
  LinksAnswered
  RangesApart
