---------------------------- MODULE MCRevokeWalk ----------------------------
(* RevokeWalk for TLC. *)
EXTENDS RevokeWalk

MCIds == 1 .. 5

=============================================================================
