------------------------ MODULE MCDeferredAcceptance ------------------------
(* Small instances of DeferredAcceptance for TLC. *)
EXTENDS DeferredAcceptance
=============================================================================
