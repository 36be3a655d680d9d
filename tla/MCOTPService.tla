---------------------------- MODULE MCOTPService ----------------------------
(* Instances of OTPService for TLC; requests and codes are interchangeable.  *)
EXTENDS OTPService, TLC

Symmetry == Permutations(Requests) \union Permutations(Codes)
=============================================================================
