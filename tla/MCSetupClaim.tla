---------------------------- MODULE MCSetupClaim ----------------------------
(* Instances of SetupClaim for TLC; the workers are interchangeable, and so   *)
(* are the people who fill in the wizard.                                    *)
EXTENDS SetupClaim, TLC

Symmetry == Permutations(Workers) \union Permutations(Claimants)
=============================================================================
