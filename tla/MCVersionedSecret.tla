-------------------------- MODULE MCVersionedSecret --------------------------
(* VersionedSecret for TLC. *)
EXTENDS VersionedSecret

MCData == {"a", "b"}

=============================================================================
