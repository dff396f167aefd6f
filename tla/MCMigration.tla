----------------------------- MODULE MCMigration -----------------------------
(* Small instances of Migration for TLC. *)
EXTENDS Migration

Mode(count, batch, initial, quick) ==
  [count |-> count, batch |-> batch, initial |-> initial, quick |-> quick]

\* The documented set-up, input-args.json as committed, and fleets of two in one
\* thread or in two, each as a loop and as simple-test.
AllModes == {Mode(1, 2, TRUE, FALSE), Mode(1, 2, FALSE, FALSE), Mode(2, 2, TRUE, FALSE),
             Mode(2, 2, FALSE, FALSE), Mode(1, 2, TRUE, TRUE), Mode(2, 2, TRUE, TRUE),
             Mode(2, 1, TRUE, TRUE)}
=============================================================================
