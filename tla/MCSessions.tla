----------------------------- MODULE MCSessions -----------------------------
(* Sessions for TLC. *)
EXTENDS Sessions

MCTokenTTLs == {None, 1}
MCUseLimits == {0, 1}
MCLeaseTTLs == {None, 3}

=============================================================================
