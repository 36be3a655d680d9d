--------------------------- MODULE MCTelemetryStore ---------------------------
(* The instance of TelemetryStore for TLC.  Its properties include liveness,   *)
(* so that it takes no symmetry of the requests.                               *)
EXTENDS TelemetryStore
=============================================================================
