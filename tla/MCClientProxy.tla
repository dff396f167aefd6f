---------------------------- MODULE MCClientProxy ----------------------------
(* ClientProxy on small instances.                                            *)
EXTENDS ClientProxy, TLC

CONSTANTS h1, h2       \* model values, the members of Handlers

\* Sound in the runs that check no temporal property.
Symmetry == Permutations(Handlers)
==============================================================================
