--------------------------- MODULE MCUapiSurface ---------------------------
(***************************************************************************)
(* UapiSurface with a block service that takes one command at a time and   *)
(* other services that take two: three block commands exhaust the retry,   *)
(* and two file commands go through without one.                           *)
(***************************************************************************)
EXTENDS UapiSurface

MCServiceDepth == [v \in Services |-> IF v = "block" THEN 1 ELSE 2]

=============================================================================
