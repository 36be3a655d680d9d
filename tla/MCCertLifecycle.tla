--------------------------- MODULE MCCertLifecycle ---------------------------
(* Instances of CertLifecycle for TLC.  Serial numbers and requests are      *)
(* interchangeable, which the safety runs use as a symmetry.                 *)
EXTENDS CertLifecycle, TLC

Symmetry == Permutations(Serials) \union Permutations(Workers)
=============================================================================
