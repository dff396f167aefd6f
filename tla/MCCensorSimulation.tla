------------------------- MODULE MCCensorSimulation -------------------------
(* Small instances of CensorSimulation for TLC. *)
EXTENDS CensorSimulation

\* The order of the loops of run(), without the ratio, which only weighs choices.
AllConfigurations == <<[censor |-> "OPTIMAL",    interval |-> 1],
                       [censor |-> "OPTIMAL",    interval |-> 2],
                       [censor |-> "AGGRESSIVE", interval |-> 1],
                       [censor |-> "AGGRESSIVE", interval |-> 2]>>
Threshold == -360
=============================================================================
