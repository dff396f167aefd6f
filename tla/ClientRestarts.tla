---------------------------- MODULE ClientRestarts ----------------------------
(***************************************************************************)
(* The client and a server that restarts.  CONNECTION_ID_COUNTER and the   *)
(* connections are in the server's memory, so that after a restart it      *)
(* issues again the ids that handlers of the client still hold.  The steps *)
(* are those of ClientProxy; two histories tell the lives of the server    *)
(* apart.                                                                  *)
(***************************************************************************)
EXTENDS ClientProxy

VARIABLES
  boot,      \* history: how often the server has restarted
  bornIn     \* history: the boot in which a handler's connection was opened

restartVars == <<vars, boot, bornIn>>

InitR ==
  /\ Init
  /\ boot = 0
  /\ bornIn = [h \in Handlers |-> 0]

\* The connection of h is opened in this step.
OpensFor(h) == \E i \in Ids : open'[i] = h /\ open[i] # h

\* The counter goes back in a restart only.
Remember ==
  /\ boot' = IF nextId' < nextId THEN boot + 1 ELSE boot
  /\ bornIn' = [h \in Handlers |-> IF OpensFor(h) THEN boot ELSE bornIn[h]]

NextR == Next /\ Remember

SpecR == InitR /\ [][NextR]_restartVars

FairSpecR == SpecR /\ Fairness

--------------------------------------------------------------------------------
\* What of NoCrossTalk is left when the server restarts: data goes between two
\* connections only if they were opened in different lives of the server, and
\* then it is the handler with the id from the earlier life that reads and
\* writes on the newer connection, never the reverse.
CrossTalkOnlyByRestart ==
  \A h \in Handlers :
    /\ \A j \in DOMAIN got[h] :
         got[h][j].of = h \/ bornIn[h] < bornIn[got[h][j].of]
    /\ \A j \in DOMAIN arrived[h] :
         arrived[h][j].of = h \/ bornIn[arrived[h][j].of] < bornIn[h]
================================================================================
