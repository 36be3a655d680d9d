------------------------------ MODULE MCOtpLogin ------------------------------
(* Instances of OtpLogin for TLC: requests are interchangeable.               *)
EXTENDS OtpLogin, TLC

Symmetry == Permutations(Requests)
=============================================================================
