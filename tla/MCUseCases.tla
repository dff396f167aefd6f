------------------------------ MODULE MCUseCases ------------------------------
(* Small instances of UseCases for TLC. *)
EXTENDS UseCases

AllUseCases == <<1, 2, 3>>
=============================================================================
