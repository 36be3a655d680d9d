-------------------------- MODULE MCDevicePassword --------------------------
(* Instances of DevicePassword for TLC: requests are interchangeable.        *)
EXTENDS DevicePassword, TLC

Symmetry == Permutations(Requests)
=============================================================================
