--------------------------- MODULE MCUserSessions ---------------------------
(* Instances of UserSessions for TLC.  Requests and tokens are interchange-   *)
(* able, but the runs check liveness, which symmetry would not preserve.      *)
EXTENDS UserSessions
=============================================================================
