---------------------------- MODULE Connections ----------------------------
(***************************************************************************)
(* The connections through which workers reach one engine.  Every one has  *)
(* an id of its own; functions are registered by a connection, and calls   *)
(* are made and answered by one.                                           *)
(***************************************************************************)
CONSTANT Workers   \* worker connections
=============================================================================
