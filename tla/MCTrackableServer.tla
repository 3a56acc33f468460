-------------------------- MODULE MCTrackableServer --------------------------
(***************************************************************************)
(* A small instance of TrackableServer: every address has a hash of its    *)
(* own.                                                                    *)
(***************************************************************************)
EXTENDS TrackableServer, TLC

CONSTANTS a1, a2, h1, h2

MCDistinctHash == a1 :> h1 @@ a2 :> h2
=============================================================================
