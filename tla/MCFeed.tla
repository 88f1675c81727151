------------------------------- MODULE MCFeed -------------------------------
(* Feed for TLC. *)
EXTENDS Feed, TLC

=============================================================================
