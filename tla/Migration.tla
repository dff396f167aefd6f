------------------------------- MODULE Migration -------------------------------
(***************************************************************************)
(* The vanilla mode's moving target: the rejuvenation threads of           *)
(* function-refresher (rejuvenation.py, api.py) create Lambda functions,   *)
(* have the controller name each one's successor in a tag of the old one,  *)
(* and delete the old one later; every local proxy polls the function it   *)
(* uses for that tag and moves on.  Functions are numbered in the order    *)
(* they are created; Initial is the one set up by hand.                    *)
(***************************************************************************)
EXTENDS Integers, Sequences, FiniteSets, FiniteSetsExt

CONSTANTS Users,           \* the local proxies
          Modes,           \* PROXY_COUNT, batch_size, initial_proxy_url given, simple-test
          MaxFunctions,    \* bound: functions ever created, the initial one included
          MaxRestarts      \* bound: restarts of the refresher

Threads(m) == 1 .. (m.count + m.batch - 1) \div m.batch   \* batch_count

ASSUME MigrationAssumption ==
  /\ Modes \subseteq [count : Nat \ {0}, batch : Nat \ {0}, initial : BOOLEAN, quick : BOOLEAN]
  /\ {MaxFunctions, MaxRestarts} \subseteq Nat

Initial == 1
None    == 0    \* no function
NoFleet == -1   \* no FleetID tag

VARIABLES mode,
          fleet,     \* every function created: FleetID tag, new-lambda-url tag, is it still there
          FLEETIDX,
          thread,    \* the local variables of rejuvenate and of the calls it makes
          known,     \* the functions with a Proxy row at the controller
          url, up,   \* lambda_url of each local proxy, and whether it runs
          answer,    \* the tag of an answer on its way to it, or Waiting
          late,      \* the initial function had a successor when it, or the refresher, started
          restarts

vars == <<mode, fleet, FLEETIDX, thread, known, url, up, answer, late, restarts>>
users == <<url, up, answer, late>>

Waiting == -1   \* no answer on its way

Function(tag) == [fleet |-> tag, next |-> None, alive |-> TRUE]
Fresh(m) == [t \in Threads(m) |->
               [pc |-> "batch", remaining |-> m.count, todo |-> 0, tag |-> 0,
                list |-> <<>>, prev |-> <<>>, heard |-> {}]]

Init ==
  /\ mode \in Modes
  /\ fleet = <<Function(NoFleet)>> /\ FLEETIDX = 0
  /\ thread = Fresh(mode)
  /\ known = {Initial}
  /\ url = [u \in Users |-> Initial] /\ up = [u \in Users |-> FALSE]
  /\ answer = [u \in Users |-> Waiting] /\ late = [u \in Users |-> FALSE]
  /\ restarts = 0

At(t, label) == thread[t].pc = label
Goto(t, label) == thread' = [thread EXCEPT ![t].pc = label]
\* An exception nobody catches ends the thread.
Dies(t) == Goto(t, "dead")
-------------------------------------------------------------------------------
\* _create_fleet reads FLEETIDX and creates what remains, one after the other.
StartBatch(t) ==
  /\ At(t, "batch")
  /\ thread' = [thread EXCEPT ![t].pc = "create", ![t].tag = FLEETIDX, ![t].todo = thread[t].remaining]
  /\ UNCHANGED <<mode, fleet, FLEETIDX, known, users, restarts>>

CreateFunction(t) ==
  /\ At(t, "create") /\ thread[t].todo > 0 /\ Len(fleet) < MaxFunctions
  /\ \/ /\ fleet' = Append(fleet, Function(thread[t].tag))
        /\ thread' = [thread EXCEPT ![t].todo = @ - 1]
     \* It exists, but its URL, permission or tag could not be set.
     \/ fleet' = Append(fleet, Function(NoFleet)) /\ Dies(t)
     \* Refused, for one because a function of this second's name exists.
     \/ fleet' = fleet /\ Dies(t)
  /\ UNCHANGED <<mode, FLEETIDX, known, users, restarts>>

\* Mutant of Tagged: every function is found, whatever its tag.
TaggedAny(tag) == {f \in 2 .. Len(fleet) : fleet[f].alive}

Tagged(tag) == {f \in DOMAIN fleet : fleet[f].alive /\ fleet[f].fleet = tag}

Rest(t, found) == thread[t].remaining - Cardinality(found)

\* The batch found is added; a list with an empty batch fails at function_details[0],
\* once the loop is over.
AfterLookup(t, found) ==
  LET list == Append(thread[t].list, found)
  IN  [thread[t] EXCEPT
         !.remaining = Rest(t, found), !.list = list, !.heard = {},
         !.pc = IF Rest(t, found) > 0 THEN "batch"
                ELSE IF \E i \in DOMAIN list : list[i] = {} THEN "dead"
                ELSE IF mode.quick THEN "sleep" ELSE "notify"]

\* get_specific_functions_with_fleet_id_tag may not show all of them yet.
Lookup(t) ==
  /\ At(t, "create") /\ thread[t].todo = 0
  /\ \E found \in SUBSET Tagged(thread[t].tag) : thread' = [thread EXCEPT ![t] = AfterLookup(t, found)]
  /\ FLEETIDX' = FLEETIDX + 1
  /\ UNCHANGED <<mode, fleet, known, users, restarts>>

Listed(list) == UNION {list[i] : i \in DOMAIN list}

\* Whom a notification says is replaced: old_urls[0], or initial_proxy_url.
Old(t) == IF thread[t].prev # <<>> THEN thread[t].prev[1]
          ELSE IF mode.initial THEN {Initial} ELSE {None}

\* The assertion PROXY_COUNT == 1, then postsingleupdate: the lists have the same
\* length and the old URL is known.
Swappable(t, old) ==
  /\ thread[t].prev = <<>> /\ mode.initial => mode.count = 1
  /\ Cardinality(Listed(thread[t].list)) = 1
  /\ old \in known

Refused(t) ==
  /\ At(t, "notify") /\ Dies(t)
  /\ \E old \in Old(t) : ~Swappable(t, old)
  /\ UNCHANGED <<mode, fleet, FLEETIDX, known, users, restarts>>

Recorded(new) == known \cup {new}

Named(old, new) == [fleet EXCEPT ![old].next = new]

\* The row, then the tag; tag_resource may fail, or the answer get lost.
Notify(t) ==
  /\ At(t, "notify")
  /\ \E old \in Old(t), new \in Listed(thread[t].list) :
       /\ Swappable(t, old)
       /\ known' = Recorded(new)
       /\ \/ /\ fleet[old].alive /\ fleet' = Named(old, new)
             /\ thread' = [thread EXCEPT ![t].pc = "sleep", ![t].heard = {}]
          \/ fleet[old].alive /\ fleet' = Named(old, new) /\ Dies(t)
          \/ fleet' = fleet /\ Dies(t)
  /\ UNCHANGED <<mode, FLEETIDX, users, restarts>>

\* Mutant of PeriodOver: the functions are deleted without waiting.
PeriodOverAtOnce(t) == TRUE

\* REJUVENATION_PERIOD is as long as pollingInterval: every local proxy that runs
\* has asked once more and has dealt with the answer.
PeriodOver(t) == \A u \in Users : up[u] => u \in thread[t].heard /\ answer[u] = Waiting

NextRound(t) == [thread[t] EXCEPT !.pc = "batch", !.remaining = mode.count,
                                  !.prev = thread[t].list, !.list = <<>>]

\* After the first notification there is nothing to delete yet.
WakeFirst(t) ==
  /\ At(t, "sleep") /\ PeriodOver(t) /\ thread[t].prev = <<>> /\ ~mode.quick
  /\ thread' = [thread EXCEPT ![t] = NextRound(t)]
  /\ UNCHANGED <<mode, fleet, FLEETIDX, known, users, restarts>>

\* Mutant of Doomed: the new functions are deleted.
DoomedNew(t)  == thread[t].list

Doomed(t) == IF mode.quick THEN thread[t].list ELSE thread[t].prev

Wake(t) ==
  /\ At(t, "sleep") /\ PeriodOver(t) /\ (thread[t].prev # <<>> \/ mode.quick)
  /\ thread' = [thread EXCEPT ![t].pc = "delete", ![t].prev = Doomed(t)]
  /\ UNCHANGED <<mode, fleet, FLEETIDX, known, users, restarts>>

\* function_details[0] of each batch: the other functions of a batch stay.
Delete(t) ==
  /\ At(t, "delete") /\ thread[t].prev # <<>>
  /\ \/ \E f \in Head(thread[t].prev) :
          /\ fleet[f].alive /\ fleet' = [fleet EXCEPT ![f].alive = FALSE]
          /\ thread' = [thread EXCEPT ![t].prev = Tail(@)]
     \/ fleet' = fleet /\ Dies(t)   \* delete_function failed, or it was gone already
  /\ UNCHANGED <<mode, FLEETIDX, known, users, restarts>>

EndRound(t) ==
  /\ At(t, "delete") /\ thread[t].prev = <<>>
  /\ thread' = [thread EXCEPT ![t] = IF mode.quick THEN [@ EXCEPT !.pc = "done"] ELSE NextRound(t)]
  /\ UNCHANGED <<mode, fleet, FLEETIDX, known, users, restarts>>

ThreadStep(t) == \/ StartBatch(t) \/ CreateFunction(t) \/ Lookup(t) \/ Refused(t) \/ Notify(t)
                 \/ WakeFirst(t) \/ Wake(t) \/ Delete(t) \/ EndRound(t)

\* The process is started again: FLEETIDX counts from 0, the tags are still there.
Restart ==
  /\ restarts < MaxRestarts /\ \A t \in DOMAIN thread : thread[t].pc \in {"dead", "done"}
  /\ restarts' = restarts + 1
  /\ FLEETIDX' = 0 /\ thread' = Fresh(mode)
  /\ late' = [u \in Users |-> late[u] \/ fleet[Initial].next # None]
  /\ UNCHANGED <<mode, fleet, known, url, up, answer>>
-------------------------------------------------------------------------------
\* A local proxy starts with the URL it was configured with.
Start(u) ==
  /\ ~up[u] /\ up' = [up EXCEPT ![u] = TRUE]
  /\ url' = [url EXCEPT ![u] = Initial] /\ answer' = [answer EXCEPT ![u] = Waiting]
  /\ late' = [late EXCEPT ![u] = fleet[Initial].next # None]
  /\ UNCHANGED <<mode, fleet, FLEETIDX, thread, known, restarts>>

\* getNextURL: its own function answers with its tag, a deleted one with an error
\* in JSON that has no tags.
Poll(u) ==
  /\ up[u] /\ answer[u] = Waiting
  /\ answer' = [answer EXCEPT ![u] = IF fleet[url[u]].alive THEN fleet[url[u]].next ELSE None]
  /\ thread' = [t \in DOMAIN thread |-> [thread[t] EXCEPT !.heard = @ \cup {u}]]
  /\ UNCHANGED <<mode, fleet, FLEETIDX, known, url, up, late, restarts>>

\* Mutant of Followed: the answer is only logged.
FollowedNever(u) == url

Followed(u) == IF answer[u] = None THEN url ELSE [url EXCEPT ![u] = answer[u]]

Follow(u) ==
  /\ up[u] /\ answer[u] # Waiting
  /\ url' = Followed(u)
  /\ answer' = [answer EXCEPT ![u] = Waiting]
  /\ UNCHANGED <<mode, fleet, FLEETIDX, thread, known, up, late, restarts>>

\* An 'error' event without listener, or an answer JSON.parse rejects, ends it.
PollFails(u) ==
  /\ up[u] /\ up' = [up EXCEPT ![u] = FALSE]
  /\ UNCHANGED <<mode, fleet, FLEETIDX, thread, known, url, answer, late, restarts>>

Next == \/ \E t \in DOMAIN thread : ThreadStep(t)
        \/ Restart
        \/ \E u \in Users : Start(u) \/ Poll(u) \/ Follow(u) \/ PollFails(u)

Spec == Init /\ [][Next]_vars

\* setInterval goes on polling, and an answer arrives before the next poll.
Polling == \A u \in Users : WF_vars(Poll(u) \/ Follow(u))
FairSpec == Spec /\ Polling
-------------------------------------------------------------------------------
(***************************************************************************)
(* Properties                                                              *)
(***************************************************************************)

\* What is known of a function, and the local variables of a thread.
FunctionType == [fleet : Nat \cup {NoFleet}, next : Nat, alive : BOOLEAN]
ThreadType ==
  [pc : {"batch", "create", "notify", "sleep", "delete", "done", "dead"}, remaining : Int,
   todo : Nat, tag : Nat, list : Seq(SUBSET Nat), prev : Seq(SUBSET Nat), heard : SUBSET Users]

\* Every variable has its type; no function is its own successor.
TypeOK ==
  /\ mode \in Modes /\ FLEETIDX \in Nat /\ restarts \in 0 .. MaxRestarts
  /\ fleet \in Seq(FunctionType) /\ Initial \in DOMAIN fleet
  /\ \A f \in DOMAIN fleet : fleet[f].next \in ({None} \cup DOMAIN fleet) \ {f}
  /\ thread \in [Threads(mode) -> ThreadType]
  /\ \A t \in DOMAIN thread :
       /\ thread[t].todo <= mode.count
       /\ Listed(thread[t].list) \cup Listed(thread[t].prev) \subseteq DOMAIN fleet
  /\ known \subseteq DOMAIN fleet
  /\ url \in [Users -> DOMAIN fleet] /\ up \in [Users -> BOOLEAN] /\ late \in [Users -> BOOLEAN]
  /\ answer \in [Users -> {Waiting, None} \cup DOMAIN fleet]

Alive == {f \in DOMAIN fleet : fleet[f].alive}

\* A local proxy that has been there since before the first migration never
\* sits on a deleted function, nor on its way to one: the only time to learn of
\* a successor is while the function it polls still answers.
NobodyStranded ==
  \A u \in Users : (up[u] /\ ~late[u]) =>
    url[u] \in Alive /\ (answer[u] \in {Waiting, None} \/ answer[u] \in Alive)

\* Whatever fails on the way, no function is deleted that has no successor, and
\* the successor is still there or has one itself.
ReplacedBeforeDeleted ==
  \A f \in DOMAIN fleet \ Alive :
    mode.quick \/ (fleet[f].next # None /\ (fleet[f].next \in Alive \/ fleet[fleet[f].next].next # None))

\* The controller has a row for every function a tag leads to: a client is sent
\* nowhere the controller does not know of.
TagsAreKnown == \A f \in DOMAIN fleet : fleet[f].next # None => fleet[f].next \in known

\* "count guaranteed to be proxy_count" (line 133): true of one thread that finds
\* no tags of an earlier run; never are there fewer.
CountGuaranteed ==
  \A t \in DOMAIN thread : thread[t].pc \in {"notify", "sleep"} =>
    /\ Cardinality(Listed(thread[t].list)) >= mode.count
    /\ Cardinality(Threads(mode)) = 1 /\ restarts = 0 =>
         Cardinality(Listed(thread[t].list)) = mode.count

\* As long as a lone thread finds all it creates and nothing fails, no more than
\* two fleets run beside the initial function, however long it goes on.
AtMostTwoFleets ==
  \A t \in DOMAIN thread :
    (/\ Cardinality(Threads(mode)) = 1 /\ mode.count = 1 /\ restarts = 0 /\ thread[t].pc # "dead"
     /\ {} \notin {thread[t].list[i] : i \in DOMAIN thread[t].list})
    => Cardinality(Alive \ {Initial}) <= 2

\* simple-test, when it creates one function and gets to its end, leaves nothing
\* behind (of a larger fleet it deletes one function).
QuickCleansUp ==
  (mode.quick /\ restarts = 0 /\ thread[1].pc = "done" /\ mode.count = 1) => Alive = {Initial}

\* A local proxy that polls moves on, sooner or later, from every function whose
\* successor has been named, unless a poll fails on the way.
FollowsSuccessor ==
  \A u \in Users, f \in 1 .. MaxFunctions :
    (up[u] /\ ~late[u] /\ url[u] = f /\ fleet[f].next # None) ~> (url[u] # f \/ ~up[u] \/ late[u])

\* The chain of tags leads from every deleted function to one that is there, over
\* functions the controller knows.
TagsLeadOn == TypeOK /\ ReplacedBeforeDeleted /\ TagsAreKnown

\* The number of functions stays bounded: of those a thread has, of those it leaves
\* behind, and of those simple-test leaves.
FleetsBounded == CountGuaranteed /\ AtMostTwoFleets /\ QuickCleansUp
===============================================================================
