--------------------------- MODULE MCDatabaseOutage ---------------------------
(***************************************************************************)
(* Small instances of DatabaseOutage: two slots, a login of two calls, a   *)
(* stack with room for two nested emergencies.                             *)
(***************************************************************************)
EXTENDS DatabaseOutage
=============================================================================
