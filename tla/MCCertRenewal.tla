--------------------------- MODULE MCCertRenewal ---------------------------
(***************************************************************************)
(* The TLC instance of CertRenewal: it is finite without a bound on time,  *)
(* runs or renewals, because unused issues are taken again.                *)
(***************************************************************************)
EXTENDS CertRenewal
============================================================================
