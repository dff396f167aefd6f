--------------------------- MODULE MCClientRestarts ---------------------------
(* ClientRestarts on small instances.                                         *)
EXTENDS ClientRestarts

CONSTANTS h1, h2       \* model values, the members of Handlers
===============================================================================
