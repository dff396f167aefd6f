---------------------------- MODULE MigrationProofs ----------------------------
(***************************************************************************)
(* What holds of the moving target for any number of local proxies, any    *)
(* fleet and batch size, any number of functions and of restarts.          *)
(***************************************************************************)
EXTENDS Migration, FiniteSetTheorems, SequenceTheorems, TLAPS

(***************************************************************************)
(* The inductive invariant                                                 *)
(***************************************************************************)

\* The one way of running it whose notifications are ever accepted: a loop over
\* fleets of one function, started from the initial URL.
Productive == ~mode.quick /\ mode.initial /\ mode.count = 1

\* The functions whose successor has been named.
Replaced == {f \in DOMAIN fleet : fleet[f].next # None}

Before(T)    == T.pc \in {"batch", "create", "notify"}
Deleting(T)  == T.pc \in {"sleep", "delete"}
Functions(T) == Listed(T.list) \cup Listed(T.prev)

\* FLEETIDX is above the tag of every function a thread T has found, and a thread
\* finds its new functions under a tag above those of its old ones.
TagsGrow(T) ==
  /\ \A f \in Functions(T) : fleet[f].fleet \in 0 .. FLEETIDX - 1
  /\ T.pc = "create" => T.tag <= FLEETIDX /\ \A f \in Functions(T) : fleet[f].fleet < T.tag
  /\ ~mode.quick => \A f \in Listed(T.prev), g \in Listed(T.list) : fleet[f].fleet < fleet[g].fleet

\* How far a thread gets: only a productive one deletes and comes to a second round.
Reached(T) ==
  /\ T.pc \in {"batch", "create"} => T.remaining \in 1 .. mode.count
  /\ mode.quick => T.pc # "notify" /\ (T.pc \in {"batch", "create", "sleep"} => T.prev = <<>>)
  /\ ~mode.quick => T.pc # "done"
  /\ ~mode.quick /\ (T.prev # <<>> \/ Deleting(T)) => Productive /\ Initial \in Replaced

\* Functions are only replaced by a productive thread, the initial one first.
FirstReplaced ==
  /\ ~Productive => Replaced = {}
  /\ Replaced # {} => Initial \in Replaced

\* A productive thread knows one old and one new function at the most, and both
\* are there until it deletes the old one, whose successor it has named by then.
OneByOne(T) ==
  /\ T.pc \in {"batch", "create"} => Listed(T.list) = {}
  /\ Deleting(T) => /\ \E g \in Alive : Listed(T.list) = {g}
                    /\ Listed(T.prev) \subseteq Replaced
  /\ T.prev # <<>> /\ (Before(T) \/ T.pc = "sleep") => \E f \in Alive : Listed(T.prev) = {f}
  /\ Listed(T.list) \subseteq Alive

\* No function is deleted before its successor is named, nor the initial one ever.
Graves == /\ Initial \in Alive /\ fleet[Initial].fleet = NoFleet
          /\ ~mode.quick => DOMAIN fleet \ Alive \subseteq Replaced

\* The local proxies that have been there since before the first migration.
Following == {u \in Users : up[u] /\ ~late[u]}

\* Functions are replaced in the order of their tags.
InOrder(T) ==
  /\ \A f \in Replaced \ {Initial} : fleet[f].fleet \in 0 .. FLEETIDX - 1
  /\ T.pc = "create" => \A f \in Replaced \ {Initial} : fleet[f].fleet < T.tag
  /\ \A f \in Replaced \ {Initial}, g \in Listed(T.list) : fleet[f].fleet < fleet[g].fleet
  /\ Before(T) => /\ \A f \in Replaced \ {Initial}, g \in Listed(T.prev) : fleet[f].fleet < fleet[g].fleet
                  /\ T.prev = <<>> => Initial \notin Replaced

\* The function a thread is about to replace, or has just replaced.
Last(T) == IF T.prev = <<>> THEN {Initial} ELSE Listed(T.prev)

\* Where a following proxy is: on the last function until its successor is named,
\* on one of the two while the thread waits, and on the new one, with no answer
\* from the old one, when the thread deletes.
Placed(u, T) ==
  /\ Before(T) => url[u] \in Last(T) /\ answer[u] \in {Waiting, None}
  /\ T.pc = "sleep" =>
       /\ url[u] \in Last(T) \cup Listed(T.list)
       /\ answer[u] \in {Waiting, None} \cup Listed(T.list)
       /\ u \in T.heard => url[u] \in Listed(T.list) \/ answer[u] \in Listed(T.list)
       /\ \A f \in Last(T) : fleet[f].next \in Listed(T.list)
  /\ T.pc = "delete" => url[u] \in Listed(T.list) /\ answer[u] \in {Waiting, None}

\* One step behind at the most: its function is there, and so is the successor.
OneBehind(u) ==
  LET next == fleet[url[u]].next
  IN  /\ url[u] \in Alive /\ answer[u] \in {Waiting, None, next}
      /\ next # None => next \in Alive /\ fleet[next].next = None

\* Before the first name, all are where they started.
AtHome == Initial \notin Replaced =>
            \A u \in Users : url[u] = Initial /\ answer[u] \in {Waiting, None}

\* What holds of a thread, of it and the proxies that follow, and of these alone.
ThreadInv(T) == TagsGrow(T) /\ Reached(T) /\ (Productive => OneByOne(T))
FollowInv(T) ==
  (Productive /\ Following # {}) => InOrder(T) /\ \A u \in Following : Placed(u, T)

FleetInv ==
  FirstReplaced /\ Graves /\ TagsAreKnown /\ AtHome /\ \A u \in Following : OneBehind(u)

IInv ==
  /\ TypeOK /\ FleetInv
  /\ \A t \in DOMAIN thread : ThreadInv(thread[t]) /\ FollowInv(thread[t])
--------------------------------------------------------------------------------
(* The lists of batches, and the fleet, as sequences                            *)

LEMMA ListedAppend ==
  ASSUME NEW list \in Seq(SUBSET Nat), NEW S \in SUBSET Nat
  PROVE  Append(list, S) \in Seq(SUBSET Nat) /\ Listed(Append(list, S)) = Listed(list) \cup S
<1>1. /\ Append(list, S) \in Seq(SUBSET Nat)
      /\ DOMAIN Append(list, S) = DOMAIN list \cup {Len(list) + 1}
      /\ Append(list, S)[Len(list) + 1] = S
      /\ \A i \in DOMAIN list : Append(list, S)[i] = list[i]
  OBVIOUS
<1>2. QED
  BY <1>1 DEF Listed

LEMMA ListedTail ==
  ASSUME NEW list \in Seq(SUBSET Nat), list # <<>>
  PROVE  /\ Tail(list) \in Seq(SUBSET Nat) /\ Listed(Tail(list)) \subseteq Listed(list)
         /\ Head(list) \in SUBSET Nat /\ Head(list) \subseteq Listed(list)
<1>1. /\ Tail(list) \in Seq(SUBSET Nat) /\ Len(Tail(list)) = Len(list) - 1
      /\ \A i \in DOMAIN Tail(list) : i + 1 \in DOMAIN list /\ Tail(list)[i] = list[i + 1]
      /\ 1 \in DOMAIN list /\ Head(list) = list[1] /\ Head(list) \in SUBSET Nat
  OBVIOUS
<1>2. QED
  BY <1>1 DEF Listed

LEMMA ListedEmpty ==
  /\ Listed(<<>>) = {}
  /\ \A list \in Seq(SUBSET Nat) : list # <<>> => list[1] \subseteq Listed(list)
BY DEF Listed

LEMMA Append_fleet ==
  ASSUME TypeOK, NEW f \in FunctionType, fleet' = Append(fleet, f)
  PROVE  /\ fleet' \in Seq(FunctionType)
         /\ DOMAIN fleet' = DOMAIN fleet \cup {Len(fleet) + 1}
         /\ Len(fleet) + 1 \notin DOMAIN fleet /\ fleet'[Len(fleet) + 1] = f
         /\ \A g \in DOMAIN fleet : fleet'[g] = fleet[g]
BY DEF TypeOK

\* A fleet of one needs one thread.
LEMMA OneThread ==
  ASSUME NEW m \in Modes, m.count = 1
  PROVE  Threads(m) = {1}
<1>1. m.batch \in Nat /\ m.batch > 0
  BY MigrationAssumption
<1>2. m.batch \div m.batch = 1
  BY <1>1
<1>3. QED
  BY <1>1, <1>2 DEF Threads
--------------------------------------------------------------------------------
(* What each action does to the thread that takes it                            *)

\* Only thread t changes.
Moves(t) ==
  /\ thread' \in [Threads(mode) -> ThreadType] /\ DOMAIN thread' = DOMAIN thread /\ mode' = mode
  /\ \A s \in DOMAIN thread : s # t => thread'[s] = thread[s]

\* Only thread t changes, to a thread with these contents.
Becomes(t, T) == T \in ThreadType /\ Moves(t) /\ thread'[t] = T

LEMMA Update ==
  ASSUME TypeOK, NEW t \in DOMAIN thread, NEW T \in ThreadType,
         thread' = [thread EXCEPT ![t] = T], mode' = mode
  PROVE  Becomes(t, T)
BY DEF TypeOK, Becomes, Moves

LEMMA StartBatchEffect ==
  ASSUME TypeOK, NEW t \in DOMAIN thread, StartBatch(t), thread[t].remaining \in Nat
  PROVE  Becomes(t, [thread[t] EXCEPT !.pc = "create", !.tag = FLEETIDX, !.todo = thread[t].remaining])
<1>0. thread[t] \in ThreadType
  BY DEF TypeOK
<1>4. FLEETIDX \in Nat
  BY DEF TypeOK
<1>1. [thread[t] EXCEPT !.pc = "create", !.tag = FLEETIDX, !.todo = thread[t].remaining] \in ThreadType
  BY <1>0, <1>4 DEF ThreadType
<1>2. QED
  BY <1>1, Update DEF StartBatch

LEMMA DiesEffect ==
  ASSUME TypeOK, NEW t \in DOMAIN thread, Dies(t), mode' = mode
  PROVE  Becomes(t, [thread[t] EXCEPT !.pc = "dead"])
<1>0. thread[t] \in ThreadType
  BY DEF TypeOK
<1>1. [thread[t] EXCEPT !.pc = "dead"] \in ThreadType
  BY <1>0 DEF ThreadType
<1>2. QED
  BY <1>1, Update DEF Dies, Goto

LEMMA CreatedEffect ==
  ASSUME TypeOK, NEW t \in DOMAIN thread, thread[t].todo > 0, mode' = mode,
         thread' = [thread EXCEPT ![t].todo = @ - 1]
  PROVE  Becomes(t, [thread[t] EXCEPT !.todo = @ - 1])
<1>0. thread[t] \in ThreadType
  BY DEF TypeOK
<1>2. thread[t].todo \in Nat /\ thread[t].todo - 1 \in Nat
  BY <1>0 DEF ThreadType
<1>1. [thread[t] EXCEPT !.todo = @ - 1] \in ThreadType
  BY <1>0, <1>2 DEF ThreadType
<1>3. QED
  BY <1>1, Update

\* What a lookup finds is a finite set of functions.
LEMMA FoundFinite ==
  ASSUME TypeOK, NEW found \in SUBSET DOMAIN fleet
  PROVE  found \in SUBSET Nat /\ IsFiniteSet(found) /\ Cardinality(found) \in Nat
<1>1. DOMAIN fleet = 1 .. Len(fleet) /\ Len(fleet) \in Nat
  BY DEF TypeOK
<1>2. IsFiniteSet(DOMAIN fleet)
  BY <1>1, FS_Interval
<1>3. QED
  BY <1>1, <1>2, FS_Subset, FS_CardinalityType

LEMMA LookupEffect ==
  ASSUME TypeOK, NEW t \in DOMAIN thread, Lookup(t)
  PROVE  \E found \in SUBSET Tagged(thread[t].tag) :
           /\ Becomes(t, AfterLookup(t, found)) /\ Rest(t, found) \in Int
           /\ Listed(AfterLookup(t, found).list) = Listed(thread[t].list) \cup found
<1>1. PICK found \in SUBSET Tagged(thread[t].tag) : thread' = [thread EXCEPT ![t] = AfterLookup(t, found)]
  BY DEF Lookup
<1>2. found \in SUBSET Nat /\ Cardinality(found) \in Nat
  BY FoundFinite DEF Tagged
<1>3. thread[t] \in ThreadType /\ thread[t].list \in Seq(SUBSET Nat) /\ thread[t].remaining \in Int
  BY DEF TypeOK, ThreadType
<1>4. Rest(t, found) \in Int
  BY <1>2, <1>3 DEF Rest
<1>5. Append(thread[t].list, found) \in Seq(SUBSET Nat)
  BY <1>2, <1>3, ListedAppend
<1>6. AfterLookup(t, found) \in ThreadType
  <2>1. ASSUME NEW r \in ThreadType, NEW n \in Int, NEW l \in Seq(SUBSET Nat),
               NEW p \in {"batch", "dead", "sleep", "notify"}
        PROVE  [r EXCEPT !.remaining = n, !.list = l, !.heard = {}, !.pc = p] \in ThreadType
    BY DEF ThreadType
  <2>2. QED
    BY <1>3, <1>4, <1>5, <2>1 DEF AfterLookup
<1>7. AfterLookup(t, found).list = Append(thread[t].list, found)
  BY <1>3 DEF AfterLookup, ThreadType
<1>8. Becomes(t, AfterLookup(t, found))
  <2>1. PICK T \in ThreadType : T = AfterLookup(t, found)
    BY <1>6
  <2>2. mode' = mode
    BY DEF Lookup
  <2>3. QED
    BY <1>1, <2>1, <2>2, Update
<1>9. Listed(AfterLookup(t, found).list) = Listed(thread[t].list) \cup found
  BY <1>2, <1>3, <1>7, ListedAppend
<1>10. QED
  BY <1>4, <1>8, <1>9

LEMMA NotifyEffect ==
  ASSUME TypeOK, NEW t \in DOMAIN thread,
         thread' = [thread EXCEPT ![t].pc = "sleep", ![t].heard = {}], mode' = mode
  PROVE  Becomes(t, [thread[t] EXCEPT !.pc = "sleep", !.heard = {}])
<1>0. thread[t] \in ThreadType
  BY DEF TypeOK
<1>1. [thread[t] EXCEPT !.pc = "sleep", !.heard = {}] \in ThreadType
  BY <1>0 DEF ThreadType
<1>2. QED
  BY <1>1, Update

LEMMA NextRoundEffect ==
  ASSUME TypeOK, NEW t \in DOMAIN thread, thread' = [thread EXCEPT ![t] = NextRound(t)], mode' = mode
  PROVE  Becomes(t, NextRound(t))
<1>1. mode.count \in Int
  BY MigrationAssumption DEF TypeOK
<1>0. thread[t] \in ThreadType
  BY DEF TypeOK
<1>2. NextRound(t) \in ThreadType
  <2>1. ASSUME NEW r \in ThreadType, NEW n \in Int, NEW p \in Seq(SUBSET Nat), NEW l \in Seq(SUBSET Nat)
        PROVE  [r EXCEPT !.pc = "batch", !.remaining = n, !.prev = p, !.list = l] \in ThreadType
    BY DEF ThreadType
  <2>2. thread[t].list \in Seq(SUBSET Nat) /\ <<>> \in Seq(SUBSET Nat)
    BY <1>0 DEF ThreadType
  <2>3. QED
    BY <1>0, <1>1, <2>1, <2>2, Zenon DEF NextRound
<1>3. QED
  BY <1>2, Update

LEMMA WakeEffect ==
  ASSUME TypeOK, NEW t \in DOMAIN thread, Wake(t)
  PROVE  Becomes(t, [thread[t] EXCEPT !.pc = "delete", !.prev = Doomed(t)])
<1>0. thread[t] \in ThreadType
  BY DEF TypeOK
<1>1. [thread[t] EXCEPT !.pc = "delete", !.prev = Doomed(t)] \in ThreadType
  BY <1>0 DEF ThreadType, Doomed
<1>2. QED
  BY <1>1, Update DEF Wake

LEMMA DeletedEffect ==
  ASSUME TypeOK, NEW t \in DOMAIN thread, thread[t].prev # <<>>, mode' = mode,
         thread' = [thread EXCEPT ![t].prev = Tail(@)]
  PROVE  Becomes(t, [thread[t] EXCEPT !.prev = Tail(@)])
<1>1. Tail(thread[t].prev) \in Seq(SUBSET Nat)
  BY DEF TypeOK, ThreadType
<1>0. thread[t] \in ThreadType
  BY DEF TypeOK
<1>2. [thread[t] EXCEPT !.prev = Tail(@)] \in ThreadType
  BY <1>0, <1>1 DEF ThreadType
<1>3. QED
  BY <1>2, Update

LEMMA DoneEffect ==
  ASSUME TypeOK, NEW t \in DOMAIN thread, mode' = mode, thread' = [thread EXCEPT ![t] = [@ EXCEPT !.pc = "done"]]
  PROVE  Becomes(t, [thread[t] EXCEPT !.pc = "done"])
<1>0. thread[t] \in ThreadType
  BY DEF TypeOK
<1>1. [thread[t] EXCEPT !.pc = "done"] \in ThreadType
  BY <1>0 DEF ThreadType
<1>2. QED
  BY <1>1, Update
--------------------------------------------------------------------------------
(* Each action keeps the invariant                                              *)

LEMMA SameFleet ==
  ASSUME fleet' = fleet
  PROVE  Alive' = Alive /\ Replaced' = Replaced
BY DEF Alive, Replaced

\* The fleet only grows, and what is named stays named.
FleetGrows ==
  /\ fleet' \in Seq(FunctionType) /\ DOMAIN fleet \subseteq DOMAIN fleet' /\ mode' = mode
  /\ \A f \in DOMAIN fleet : /\ fleet'[f].fleet = fleet[f].fleet
                             /\ fleet[f].next # None => fleet'[f].next # None

\* A productive run has one thread; of the others' knowledge nothing is lost.
LEMMA OtherThreads ==
  ASSUME IInv, NEW t \in DOMAIN thread, Moves(t), FleetGrows,
         FLEETIDX' \in Nat, FLEETIDX <= FLEETIDX'
  PROVE  /\ Productive' = Productive /\ Replaced \subseteq Replaced'
         /\ Productive => DOMAIN thread = {t}
         /\ \A s \in DOMAIN thread \ {t} : ThreadInv(thread[s])' /\ FollowInv(thread[s])'
<1>1. Productive' = Productive
  BY DEF Productive, FleetGrows
<1>2. Replaced \subseteq Replaced'
  BY DEF Replaced, FleetGrows
<1>3. ASSUME Productive PROVE DOMAIN thread = {t}
  BY <1>3, OneThread DEF Productive, IInv, TypeOK
<1>4. ASSUME NEW s \in DOMAIN thread \ {t} PROVE ThreadInv(thread[s])' /\ FollowInv(thread[s])'
  <2>1. ~Productive /\ ~Productive'
    BY <1>1, <1>3
  <2>2. thread'[s] = thread[s] /\ Functions(thread[s]) \subseteq DOMAIN fleet /\ mode' = mode
    BY DEF IInv, TypeOK, Functions, Moves
  <2>3. TagsGrow(thread[s])'
    <3>1. TagsGrow(thread[s]) /\ FLEETIDX \in Nat
      BY DEF IInv, ThreadInv, TypeOK
    <3>2. \A f \in Functions(thread[s]) : fleet'[f].fleet = fleet[f].fleet
      BY <2>2 DEF FleetGrows
    <3>3. \A f \in Functions(thread[s]) : fleet'[f].fleet \in 0 .. FLEETIDX' - 1
      BY <3>1, <3>2 DEF TagsGrow
    <3>4. thread[s].pc = "create" => /\ thread[s].tag <= FLEETIDX'
                                     /\ \A f \in Functions(thread[s]) : fleet'[f].fleet < thread[s].tag
      BY <2>2, <3>1, <3>2 DEF TagsGrow, TypeOK, IInv, ThreadType
    <3>5. ~mode.quick => \A f \in Listed(thread[s].prev), g \in Listed(thread[s].list) :
                           fleet'[f].fleet < fleet'[g].fleet
      BY <3>1, <3>2 DEF TagsGrow, Functions
    <3>6. QED
      BY <2>2, <3>3, <3>4, <3>5 DEF TagsGrow, Functions
  <2>4. Reached(thread[s])'
    BY <1>2, <2>1, <2>2 DEF IInv, ThreadInv, Reached, Deleting
  <2>5. QED
    BY <2>1, <2>3, <2>4 DEF ThreadInv, FollowInv
<1>5. QED
  BY <1>1, <1>2, <1>3, <1>4

FleetVars == <<mode, fleet, url, up, answer, late>>

LEMMA StaysKeeps ==
  ASSUME IInv, UNCHANGED FleetVars, known \subseteq known'
  PROVE  FleetGrows /\ FleetInv' /\ Alive' = Alive /\ Replaced' = Replaced /\ Following' = Following
<1>1. FleetGrows
  BY DEF FleetGrows, FleetVars, IInv, TypeOK
<1>2. QED
  BY <1>1, SameFleet DEF FleetVars, IInv, FleetInv, FirstReplaced, Graves, TagsAreKnown, AtHome,
     OneBehind, Following, Alive, Productive

LEMMA AppendKeeps ==
  ASSUME IInv, NEW tag \in Nat \cup {NoFleet}, fleet' = Append(fleet, Function(tag)),
         UNCHANGED <<mode, known, url, up, answer, late>>
  PROVE  /\ FleetGrows /\ FleetInv' /\ Following' = Following /\ Replaced' = Replaced
         /\ Alive' = Alive \cup {Len(fleet) + 1}
<1>1. Function(tag) \in FunctionType /\ Function(tag).next = None /\ Function(tag).alive
  BY DEF Function, FunctionType, None
<1>2. /\ fleet' \in Seq(FunctionType) /\ DOMAIN fleet' = DOMAIN fleet \cup {Len(fleet) + 1}
      /\ Len(fleet) + 1 \notin DOMAIN fleet /\ fleet'[Len(fleet) + 1] = Function(tag)
      /\ \A g \in DOMAIN fleet : fleet'[g] = fleet[g]
  BY <1>1, Append_fleet DEF IInv
<1>3. Alive' = Alive \cup {Len(fleet) + 1} /\ Replaced' = Replaced
  BY <1>1, <1>2 DEF Alive, Replaced
<1>4. FleetGrows /\ Following' = Following
  BY <1>2 DEF FleetGrows, Following
<1>5. FirstReplaced' /\ Graves' /\ TagsAreKnown' /\ AtHome'
  BY <1>1, <1>2, <1>3
     DEF IInv, TypeOK, FleetInv, FirstReplaced, Graves, TagsAreKnown, AtHome, Productive
<1>6. ASSUME NEW u \in Following PROVE OneBehind(u)'
  BY <1>2, <1>3 DEF IInv, TypeOK, FleetInv, OneBehind, Following, Alive
<1>7. QED
  BY <1>3, <1>4, <1>5, <1>6 DEF FleetInv

\* What is left to show of a step of thread t.
LEMMA StepOf ==
  ASSUME IInv, NEW t \in DOMAIN thread, Moves(t), FleetGrows, FLEETIDX' \in Nat, FLEETIDX <= FLEETIDX',
         TypeOK', FleetInv', ThreadInv(thread[t])', FollowInv(thread[t])'
  PROVE  IInv'
<1>1. \A s \in DOMAIN thread \ {t} : ThreadInv(thread[s])' /\ FollowInv(thread[s])'
  BY OtherThreads
<1>2. DOMAIN thread' = DOMAIN thread
  BY DEF Moves
<1>3. QED
  BY <1>1, <1>2 DEF IInv

\* A thread that dies leaves what it knows as it was.
LEMMA DeadThread ==
  ASSUME IInv, NEW t \in DOMAIN thread, Dies(t), mode' = mode, FLEETIDX' = FLEETIDX,
         FleetGrows, Alive \subseteq Alive', Replaced' = Replaced, Following' = Following
  PROVE  /\ Moves(t) /\ ThreadInv(thread[t])' /\ FollowInv(thread[t])'
         /\ thread'[t].list = thread[t].list /\ thread'[t].prev = thread[t].prev
         /\ thread'[t].todo = thread[t].todo
<1>1. thread[t] \in ThreadType /\ Functions(thread[t]) \subseteq DOMAIN fleet
  BY DEF IInv, TypeOK, Functions
<1>2. Becomes(t, [thread[t] EXCEPT !.pc = "dead"])
  BY DiesEffect DEF IInv
<1>3. /\ Moves(t) /\ thread'[t].pc = "dead" /\ thread'[t].list = thread[t].list
      /\ thread'[t].prev = thread[t].prev /\ thread'[t].todo = thread[t].todo
  BY <1>1, <1>2 DEF Becomes, ThreadType
<1>4. Productive' = Productive /\ ThreadInv(thread[t]) /\ FollowInv(thread[t])
  BY DEF IInv, Productive
<1>5. /\ \A f \in Functions(thread[t]) : f \in DOMAIN fleet /\ fleet'[f].fleet = fleet[f].fleet
      /\ \A f \in Replaced : f \in DOMAIN fleet /\ fleet'[f].fleet = fleet[f].fleet
  BY <1>1 DEF FleetGrows, Replaced
<1>6. ThreadInv(thread[t])'
  <2>1. TagsGrow(thread[t])'
    BY <1>3, <1>4, <1>5 DEF ThreadInv, TagsGrow, Functions
  <2>2. Reached(thread[t])'
    BY <1>3, <1>4 DEF ThreadInv, Reached, Deleting
  <2>3. Productive => OneByOne(thread[t])'
    BY <1>3, <1>4 DEF ThreadInv, OneByOne, Deleting, Before
  <2>4. QED
    BY <1>4, <2>1, <2>2, <2>3 DEF ThreadInv
<1>7. FollowInv(thread[t])'
  BY <1>3, <1>4, <1>5 DEF FollowInv, InOrder, Placed, Before, Functions
<1>8. QED
  BY <1>3, <1>6, <1>7

\* A thread that dies and changes nothing else, but may have had a row added.
LEMMA DiesKeeps ==
  ASSUME IInv, NEW t \in DOMAIN thread, Dies(t), UNCHANGED <<FleetVars, FLEETIDX, restarts>>,
         known \subseteq known', known' \subseteq DOMAIN fleet
  PROVE  IInv'
<1>1. /\ FleetGrows /\ FleetInv' /\ Following' = Following /\ Replaced' = Replaced /\ Alive \subseteq Alive'
  BY StaysKeeps
<1>2. mode' = mode /\ FLEETIDX' = FLEETIDX
  BY DEF FleetVars
<1>3. /\ Moves(t) /\ ThreadInv(thread[t])' /\ FollowInv(thread[t])'
      /\ thread'[t].list = thread[t].list /\ thread'[t].prev = thread[t].prev /\ thread'[t].todo = thread[t].todo
  BY <1>1, <1>2, DeadThread
<1>4. TypeOK'
  BY <1>3 DEF IInv, TypeOK, Moves, FleetVars
<1>5. FLEETIDX' \in Nat /\ FLEETIDX <= FLEETIDX'
  BY <1>2 DEF IInv, TypeOK
<1>6. QED
  BY <1>1, <1>3, <1>4, <1>5, StepOf

LEMMA CreateFunctionKeeps ==
  ASSUME IInv, NEW t \in DOMAIN thread, CreateFunction(t)
  PROVE  IInv'
<1>1. /\ thread[t] \in ThreadType /\ thread[t].pc = "create" /\ thread[t].todo > 0
      /\ thread[t].tag \in Nat \cup {NoFleet} /\ FLEETIDX \in Nat
  BY DEF IInv, TypeOK, CreateFunction, At, ThreadType
<1>2. UNCHANGED <<mode, FLEETIDX, known, url, up, answer, late, restarts>> /\ FLEETIDX <= FLEETIDX'
  BY <1>1 DEF CreateFunction, users
<1>3. ThreadInv(thread[t]) /\ FollowInv(thread[t])
  BY DEF IInv
<1>4. ASSUME NEW tag \in Nat \cup {NoFleet}, fleet' = Append(fleet, Function(tag)),
             Moves(t), thread'[t].list = thread[t].list, thread'[t].prev = thread[t].prev,
             thread'[t].todo <= thread[t].todo
      PROVE  TypeOK'
  <2>1. Function(tag) \in FunctionType /\ Function(tag).next = None
    BY DEF Function, FunctionType, None
  <2>2. /\ fleet' \in Seq(FunctionType) /\ DOMAIN fleet' = DOMAIN fleet \cup {Len(fleet) + 1}
        /\ fleet'[Len(fleet) + 1] = Function(tag)
        /\ \A g \in DOMAIN fleet : fleet'[g] = fleet[g]
    BY <1>4, <2>1, Append_fleet DEF IInv
  <2>3. \A s \in DOMAIN thread : /\ thread'[s].todo <= mode.count
                                 /\ thread'[s].list = thread[s].list /\ thread'[s].prev = thread[s].prev
    <3>1. thread'[t].todo \in Nat /\ thread[t].todo \in Nat /\ thread[t].todo <= mode.count /\ mode.count \in Nat
      BY <1>4, MigrationAssumption DEF IInv, TypeOK, Moves, ThreadType
    <3>2. \A s \in DOMAIN thread : thread[s].todo <= mode.count
      BY DEF IInv, TypeOK
    <3>3. thread'[t].todo <= mode.count
      BY <1>4, <3>1
    <3>4. QED
      BY <1>4, <3>2, <3>3 DEF Moves
  <2>4. \A f \in DOMAIN fleet' : fleet'[f].next \in ({None} \cup DOMAIN fleet') \ {f}
    BY <2>1, <2>2, Append_fleet DEF IInv, TypeOK, None
  <2>5. QED
    BY <1>2, <1>4, <2>2, <2>3, <2>4 DEF IInv, TypeOK, Moves
<1>5. CASE fleet' = Append(fleet, Function(thread[t].tag)) /\ thread' = [thread EXCEPT ![t].todo = @ - 1]
  <2>1. Becomes(t, [thread[t] EXCEPT !.todo = @ - 1])
    BY <1>1, <1>2, <1>5, CreatedEffect DEF IInv
  <2>2. /\ Moves(t) /\ thread'[t].pc = "create" /\ thread'[t].tag = thread[t].tag
        /\ thread'[t].list = thread[t].list /\ thread'[t].prev = thread[t].prev
        /\ thread'[t].remaining = thread[t].remaining /\ thread'[t].heard = thread[t].heard
        /\ thread'[t].todo = thread[t].todo - 1 /\ thread[t].todo \in Nat
    BY <1>1, <2>1 DEF Becomes, ThreadType
  <2>3. TypeOK'
    BY <1>1, <1>4, <1>5, <2>2
  <2>4. /\ FleetGrows /\ FleetInv' /\ Following' = Following /\ Replaced' = Replaced
        /\ Alive \subseteq Alive' /\ Productive' = Productive
    BY <1>1, <1>2, <1>5, AppendKeeps DEF Productive
  <2>5. /\ \A f \in Functions(thread[t]) : f \in DOMAIN fleet /\ fleet'[f].fleet = fleet[f].fleet
        /\ \A f \in Replaced : f \in DOMAIN fleet /\ fleet'[f].fleet = fleet[f].fleet
    BY <2>4 DEF FleetGrows, Replaced, IInv, TypeOK, Functions
  <2>6. ThreadInv(thread[t])'
    <3>1. TagsGrow(thread[t])'
      BY <1>1, <1>2, <1>3, <2>2, <2>5 DEF ThreadInv, TagsGrow, Functions
    <3>2. Reached(thread[t])'
      BY <1>1, <1>2, <1>3, <2>2, <2>4 DEF ThreadInv, Reached, Deleting
    <3>3. Productive => OneByOne(thread[t])'
      BY <1>1, <1>3, <2>2, <2>4 DEF ThreadInv, OneByOne, Deleting, Before
    <3>4. QED
      BY <2>4, <3>1, <3>2, <3>3 DEF ThreadInv
  <2>7. FollowInv(thread[t])'
    <3>1. SUFFICES ASSUME Productive, Following # {}
                   PROVE  InOrder(thread[t])' /\ \A u \in Following : Placed(u, thread[t])'
      BY <2>4 DEF FollowInv
    <3>2. InOrder(thread[t]) /\ \A u \in Following : Placed(u, thread[t])
      BY <1>3, <3>1 DEF FollowInv
    <3>3. InOrder(thread[t])'
      BY <1>1, <1>2, <2>2, <2>4, <2>5, <3>2 DEF InOrder, Functions, Before
    <3>4. QED
      BY <1>1, <1>2, <2>2, <3>2, <3>3 DEF Placed, Before, Last
  <2>8. QED
    BY <1>1, <1>2, <2>2, <2>3, <2>4, <2>6, <2>7, StepOf
<1>6. CASE fleet' = Append(fleet, Function(NoFleet)) /\ Dies(t)
  <2>1. /\ FleetGrows /\ FleetInv' /\ Following' = Following /\ Replaced' = Replaced /\ Alive \subseteq Alive'
    BY <1>2, <1>6, AppendKeeps
  <2>2. /\ Moves(t) /\ ThreadInv(thread[t])' /\ FollowInv(thread[t])'
        /\ thread'[t].list = thread[t].list /\ thread'[t].prev = thread[t].prev /\ thread'[t].todo = thread[t].todo
    BY <1>2, <1>6, <2>1, DeadThread
  <2>3. thread'[t].todo <= thread[t].todo
    BY <1>1, <2>2 DEF ThreadType
  <2>4. TypeOK'
    BY <1>4, <1>6, <2>2, <2>3
  <2>5. QED
    BY <1>1, <1>2, <2>1, <2>2, <2>4, StepOf
<1>7. CASE fleet' = fleet /\ Dies(t)
  <2>1. UNCHANGED <<FleetVars, FLEETIDX, restarts>> /\ known \subseteq known' /\ known' \subseteq DOMAIN fleet
    BY <1>2, <1>7 DEF FleetVars, IInv, TypeOK
  <2>2. QED
    BY <1>7, <2>1, DiesKeeps
<1>8. QED
  BY <1>5, <1>6, <1>7 DEF CreateFunction

LEMMA StartBatchKeeps ==
  ASSUME IInv, NEW t \in DOMAIN thread, StartBatch(t)
  PROVE  IInv'
<1>1. /\ thread[t] \in ThreadType /\ thread[t].pc = "batch"
      /\ thread[t].remaining \in Nat /\ thread[t].remaining <= mode.count /\ FLEETIDX \in Nat
  <2>1. mode.count \in Nat
    BY MigrationAssumption DEF IInv, TypeOK
  <2>2. QED
    BY <2>1 DEF IInv, ThreadInv, TypeOK, StartBatch, At, Reached
<1>2. Becomes(t, [thread[t] EXCEPT !.pc = "create", !.tag = FLEETIDX, !.todo = thread[t].remaining])
  BY <1>1, StartBatchEffect DEF IInv
<1>m. Moves(t)
  BY <1>2 DEF Becomes
<1>3. /\ thread'[t].pc = "create" /\ thread'[t].tag = FLEETIDX
      /\ thread'[t].todo = thread[t].remaining /\ thread'[t].remaining = thread[t].remaining
      /\ thread'[t].list = thread[t].list /\ thread'[t].prev = thread[t].prev
      /\ thread'[t].heard = thread[t].heard
  BY <1>1, <1>2 DEF Becomes, ThreadType
<1>4. UNCHANGED <<mode, fleet, FLEETIDX, known, url, up, answer, late, restarts>>
  BY DEF StartBatch, users
<1>5. TypeOK'
  <2>1. TypeOK
    BY DEF IInv
  <2>2. thread' \in [Threads(mode') -> ThreadType] /\ DOMAIN thread' = DOMAIN thread
    BY <1>2, <1>4 DEF Becomes, Moves
  <2>3. ASSUME NEW s \in DOMAIN thread
        PROVE  /\ thread'[s].todo <= mode.count
               /\ thread'[s].list = thread[s].list /\ thread'[s].prev = thread[s].prev
    <3>1. CASE s = t
      BY <1>1, <1>3, <3>1
    <3>2. CASE s # t
      BY <1>m, <2>1, <3>2 DEF Moves, TypeOK
    <3>3. QED
      BY <3>1, <3>2
  <2>4. QED
    BY <1>4, <2>1, <2>2, <2>3 DEF TypeOK
<1>6. /\ Productive' = Productive
      /\ \A s \in DOMAIN thread \ {t} : ThreadInv(thread[s])' /\ FollowInv(thread[s])'
  <2>1. FleetGrows /\ FLEETIDX \in Nat
    BY <1>4 DEF FleetGrows, IInv, TypeOK
  <2>2. QED
    <3>1. FLEETIDX' \in Nat /\ FLEETIDX <= FLEETIDX'
      BY <1>4, <2>1
    <3>2. QED
      BY <1>m, <2>1, <3>1, OtherThreads
<1>7. ThreadInv(thread[t]) /\ FollowInv(thread[t])
  BY DEF IInv
<1>8. ThreadInv(thread[t])'
  <2>1. TagsGrow(thread[t])'
    BY <1>1, <1>3, <1>4, <1>7 DEF ThreadInv, TagsGrow, Functions
  <2>2. Reached(thread[t])'
    BY <1>1, <1>3, <1>4, <1>6, <1>7, SameFleet DEF ThreadInv, Reached, Deleting
  <2>3. Productive => OneByOne(thread[t])'
    BY <1>1, <1>3, <1>4, <1>7, SameFleet DEF ThreadInv, OneByOne, Deleting, Before
  <2>4. QED
    BY <1>6, <2>1, <2>2, <2>3 DEF ThreadInv
<1>9. FollowInv(thread[t])'
  BY <1>1, <1>3, <1>4, <1>6, <1>7, SameFleet DEF FollowInv, InOrder, Placed, Before, Last, Following
<1>10. QED
  BY <1>2, <1>4, <1>5, <1>6, <1>8, <1>9, SameFleet
  DEF IInv, FleetInv, Becomes, Moves, FirstReplaced, Graves, TagsAreKnown, AtHome, OneBehind, Following, Alive

LEMMA LookupKeeps ==
  ASSUME IInv, NEW t \in DOMAIN thread, Lookup(t)
  PROVE  IInv'
<1>1. /\ thread[t] \in ThreadType /\ thread[t].pc = "create" /\ mode.count \in Nat
      /\ FLEETIDX \in Nat /\ FLEETIDX' = FLEETIDX + 1 /\ thread[t].tag \in Nat
      /\ UNCHANGED <<mode, fleet, known, url, up, answer, late, restarts>>
  BY MigrationAssumption DEF IInv, TypeOK, Lookup, At, ThreadType, users
<1>2. PICK found \in SUBSET Tagged(thread[t].tag) :
        /\ Becomes(t, AfterLookup(t, found)) /\ Rest(t, found) \in Int
        /\ Listed(AfterLookup(t, found).list) = Listed(thread[t].list) \cup found
  BY LookupEffect DEF IInv
<1>3. /\ Moves(t) /\ thread'[t].remaining = Rest(t, found) /\ thread'[t].prev = thread[t].prev
      /\ Listed(thread'[t].list) = Listed(thread[t].list) \cup found
      /\ thread'[t].heard = {} /\ thread'[t].todo = thread[t].todo
      /\ Rest(t, found) > 0 => thread'[t].pc = "batch"
      /\ ~(Rest(t, found) > 0) => \/ thread'[t].pc = "dead"
                                  \/ thread'[t].pc = "sleep" /\ mode.quick
                                  \/ thread'[t].pc = "notify" /\ ~mode.quick
  BY <1>1, <1>2 DEF Becomes, AfterLookup, ThreadType
<1>4. /\ found \subseteq Alive /\ found \subseteq DOMAIN fleet
      /\ \A f \in found : fleet[f].fleet = thread[t].tag
  BY DEF Tagged, Alive
<1>5. /\ thread[t].remaining \in 1 .. mode.count /\ Cardinality(found) \in Nat
      /\ Rest(t, found) = thread[t].remaining - Cardinality(found)
      /\ Cardinality(found) = 0 => found = {}
  <2>1. IsFiniteSet(found) /\ Cardinality(found) \in Nat
    BY <1>4, FoundFinite DEF IInv
  <2>2. QED
    BY <1>1, <2>1, FS_EmptySet DEF IInv, ThreadInv, Reached, Rest
<1>6. /\ FleetGrows /\ FleetInv' /\ Following' = Following /\ Replaced' = Replaced /\ Alive' = Alive
      /\ Productive' = Productive
  BY <1>1, StaysKeeps DEF FleetVars, Productive
<1>7. TypeOK'
  <2>1. \A s \in DOMAIN thread : /\ thread'[s].todo <= mode.count
                                 /\ Listed(thread'[s].list) \cup Listed(thread'[s].prev) \subseteq DOMAIN fleet
    BY <1>3, <1>4 DEF IInv, TypeOK, Moves
  <2>2. QED
    BY <1>1, <1>3, <2>1 DEF IInv, TypeOK, Moves
<1>8. ThreadInv(thread[t]) /\ FollowInv(thread[t])
  BY DEF IInv
<1>9. ThreadInv(thread[t])'
  <2>1. TagsGrow(thread[t])'
    <3>1. /\ \A f \in Functions(thread[t]) : fleet[f].fleet \in 0 .. FLEETIDX - 1 /\ fleet[f].fleet < thread[t].tag
          /\ thread[t].tag <= FLEETIDX
      BY <1>1, <1>8 DEF ThreadInv, TagsGrow
    <3>2. \A f \in Functions(thread[t]) \cup found : fleet[f].fleet \in 0 .. FLEETIDX' - 1
      BY <1>1, <1>4, <3>1
    <3>3. ~mode.quick => \A f \in Listed(thread[t].prev), g \in Listed(thread[t].list) \cup found :
                           fleet[f].fleet < fleet[g].fleet
      BY <1>4, <1>8, <3>1 DEF ThreadInv, TagsGrow, Functions
    <3>4. thread'[t].pc # "create"
      BY <1>3
    <3>5. QED
      BY <1>1, <1>3, <3>2, <3>3, <3>4 DEF TagsGrow, Functions
  <2>2. Reached(thread[t])'
    <3>1. thread'[t].pc \in {"batch", "create"} => thread'[t].remaining \in 1 .. mode.count
      BY <1>1, <1>3, <1>5
    <3>2. QED
      BY <1>1, <1>3, <1>6, <1>8, <3>1 DEF ThreadInv, Reached, Deleting
  <2>3. Productive => OneByOne(thread[t])'
    <3>1. SUFFICES ASSUME Productive PROVE OneByOne(thread[t])'
      OBVIOUS
    <3>2. ~mode.quick /\ mode.count = 1
      BY <3>1 DEF Productive
    <3>3. Rest(t, found) > 0 => found = {}
      BY <1>5, <3>2
    <3>4. OneByOne(thread[t])
      BY <1>8, <3>1 DEF ThreadInv
    <3>5. /\ thread'[t].pc \in {"batch", "dead", "notify"}
          /\ thread'[t].pc = "batch" => found = {}
      BY <1>3, <3>2, <3>3
    <3>6. QED
      BY <1>1, <1>3, <1>4, <1>6, <3>4, <3>5 DEF OneByOne, Deleting, Before
  <2>4. QED
    BY <1>6, <2>1, <2>2, <2>3 DEF ThreadInv
<1>10. FollowInv(thread[t])'
  <2>1. SUFFICES ASSUME Productive, Following # {}
                 PROVE  InOrder(thread[t])' /\ \A u \in Following : Placed(u, thread[t])'
    BY <1>6 DEF FollowInv
  <2>2. InOrder(thread[t]) /\ \A u \in Following : Placed(u, thread[t])
    BY <1>8, <2>1 DEF FollowInv
  <2>3. thread'[t].pc \in {"batch", "dead", "notify"}
    BY <1>3, <2>1 DEF Productive
  <2>4. InOrder(thread[t])'
    <3>1. \A f \in Replaced \ {Initial} : fleet[f].fleet \in 0 .. FLEETIDX' - 1 /\ fleet[f].fleet < thread[t].tag
      BY <1>1, <2>2 DEF InOrder
    <3>2. QED
      BY <1>1, <1>3, <1>4, <1>6, <2>2, <2>3, <3>1 DEF InOrder, Before
  <2>5. QED
    BY <1>1, <1>3, <2>2, <2>3, <2>4 DEF Placed, Before, Last
<1>11. FLEETIDX' \in Nat /\ FLEETIDX <= FLEETIDX'
  BY <1>1
<1>12. QED
  BY <1>3, <1>6, <1>7, <1>9, <1>10, <1>11, StepOf

LEMMA RefusedKeeps ==
  ASSUME IInv, NEW t \in DOMAIN thread, Refused(t)
  PROVE  IInv'
<1>1. /\ Dies(t) /\ UNCHANGED <<FleetVars, FLEETIDX, restarts>>
      /\ known \subseteq known' /\ known' \subseteq DOMAIN fleet
  BY DEF Refused, FleetVars, users, IInv, TypeOK
<1>2. QED
  BY <1>1, DiesKeeps

\* Who names whose successor: a productive thread, that of its one old function, which
\* has an older tag than the new one.
LEMMA WhoIsNamed ==
  ASSUME IInv, NEW t \in DOMAIN thread, thread[t].pc = "notify",
         NEW old \in Old(t), NEW new \in Listed(thread[t].list), Swappable(t, old)
  PROVE  /\ Productive /\ Last(thread[t]) = {old} /\ Listed(thread[t].list) = {new}
         /\ old \in DOMAIN fleet /\ new \in Alive
         /\ thread[t].prev = <<>> => old = Initial
         /\ fleet[new].fleet \in 0 .. FLEETIDX - 1 /\ fleet[old].fleet < fleet[new].fleet
         /\ old # Initial => fleet[old].fleet \in 0 .. FLEETIDX - 1
<1>1. /\ thread[t] \in ThreadType /\ known \subseteq DOMAIN fleet /\ DOMAIN fleet \subseteq Nat \ {0}
      /\ Listed(thread[t].list) \subseteq DOMAIN fleet /\ FLEETIDX \in Nat
  BY DEF IInv, TypeOK
<1>2. /\ ~mode.quick /\ TagsGrow(thread[t])
      /\ thread[t].prev # <<>> => Productive
      /\ Productive => OneByOne(thread[t])
  BY DEF IInv, ThreadInv, Reached
<1>3. old \in DOMAIN fleet /\ old # None
  BY <1>1 DEF Swappable, None
<1>6. Productive /\ Last(thread[t]) = {old} /\ (thread[t].prev = <<>> => old = Initial)
  <2>1. CASE thread[t].prev = <<>>
    <3>1. mode.initial /\ old = Initial
      BY <1>3, <2>1 DEF Old
    <3>2. Productive
      BY <1>2, <2>1, <3>1 DEF Swappable, Productive
    <3>3. QED
      BY <2>1, <3>1, <3>2 DEF Last
  <2>2. CASE thread[t].prev # <<>>
    <3>1. Productive /\ OneByOne(thread[t])
      BY <1>2, <2>2
    <3>2. \E f \in Alive : Listed(thread[t].prev) = {f}
      BY <2>2, <3>1 DEF OneByOne, Before
    <3>3. old \in Listed(thread[t].prev)
      BY <1>1, <2>2, ListedEmpty DEF Old, ThreadType
    <3>4. QED
      BY <2>2, <3>1, <3>2, <3>3 DEF Last
  <2>3. QED
    BY <2>1, <2>2
<1>7. Listed(thread[t].list) = {new}
  <2>1. IsFiniteSet(Listed(thread[t].list)) /\ Cardinality(Listed(thread[t].list)) = 1
    BY <1>1, FoundFinite DEF IInv, Swappable
  <2>2. QED
    BY <2>1, FS_Singleton
<1>8. new \in Alive
  BY <1>2, <1>6 DEF OneByOne
<1>9. fleet[new].fleet \in 0 .. FLEETIDX - 1
  BY <1>2 DEF TagsGrow, Functions
<1>10. (old # Initial => fleet[old].fleet \in 0 .. FLEETIDX - 1) /\ fleet[old].fleet < fleet[new].fleet
  <2>1. CASE thread[t].prev = <<>>
    <3>1. fleet[old].fleet = -1 /\ old = Initial
      BY <1>6, <2>1 DEF IInv, FleetInv, Graves, NoFleet
    <3>2. QED
      BY <1>1, <1>9, <3>1
  <2>2. CASE thread[t].prev # <<>>
    <3>1. old \in Listed(thread[t].prev)
      BY <1>6, <2>2 DEF Last
    <3>2. QED
      BY <1>2, <3>1 DEF TagsGrow, Functions
  <2>3. QED
    BY <2>1, <2>2
<1>11. QED
  BY <1>3, <1>6, <1>7, <1>8, <1>9, <1>10

\* Naming a successor changes one tag.
LEMMA NamedFleet ==
  ASSUME TypeOK, NEW old \in DOMAIN fleet, NEW new \in DOMAIN fleet, fleet' = Named(old, new)
  PROVE  /\ fleet' \in Seq(FunctionType) /\ DOMAIN fleet' = DOMAIN fleet
         /\ fleet'[old].next = new /\ fleet'[old].alive = fleet[old].alive
         /\ fleet'[old].fleet = fleet[old].fleet
         /\ \A f \in DOMAIN fleet : f # old => fleet'[f] = fleet[f]
         /\ Alive' = Alive /\ Replaced' = Replaced \cup {old}
<1>1. fleet[old] \in FunctionType /\ new \in Nat /\ new # None /\ fleet \in Seq(FunctionType)
  BY DEF TypeOK, None
<1>2. /\ [fleet[old] EXCEPT !.next = new] \in FunctionType
      /\ [fleet[old] EXCEPT !.next = new].next = new
      /\ [fleet[old] EXCEPT !.next = new].alive = fleet[old].alive
      /\ [fleet[old] EXCEPT !.next = new].fleet = fleet[old].fleet
  BY <1>1 DEF FunctionType
<1>3. /\ fleet' \in Seq(FunctionType) /\ DOMAIN fleet' = DOMAIN fleet
      /\ fleet'[old] = [fleet[old] EXCEPT !.next = new]
      /\ \A f \in DOMAIN fleet : f # old => fleet'[f] = fleet[f]
  BY <1>1, <1>2 DEF Named
<1>4. /\ fleet'[old].next = new /\ fleet'[old].alive = fleet[old].alive
      /\ fleet'[old].fleet = fleet[old].fleet
  BY <1>2, <1>3
<1>5. Alive' = Alive /\ Replaced' = Replaced \cup {old}
  BY <1>1, <1>3, <1>4 DEF Alive, Replaced
<1>6. QED
  BY <1>3, <1>4, <1>5

LEMMA NotifyKeeps ==
  ASSUME IInv, NEW t \in DOMAIN thread, Notify(t)
  PROVE  IInv'
<1>1. /\ thread[t] \in ThreadType /\ thread[t].pc = "notify" /\ FLEETIDX \in Nat
      /\ UNCHANGED <<mode, FLEETIDX, url, up, answer, late, restarts>>
  BY DEF IInv, TypeOK, Notify, At, users
<1>2. FLEETIDX' \in Nat /\ FLEETIDX <= FLEETIDX'
  BY <1>1
<1>3. PICK old \in Old(t), new \in Listed(thread[t].list) :
        /\ Swappable(t, old) /\ known' = Recorded(new)
        /\ \/ /\ fleet[old].alive /\ fleet' = Named(old, new)
              /\ thread' = [thread EXCEPT ![t].pc = "sleep", ![t].heard = {}] \/ Dies(t)
           \/ fleet' = fleet /\ Dies(t)
  BY DEF Notify
<1>4. /\ Productive /\ Last(thread[t]) = {old} /\ Listed(thread[t].list) = {new}
      /\ old \in DOMAIN fleet /\ new \in Alive /\ new \in DOMAIN fleet
      /\ thread[t].prev = <<>> => old = Initial
      /\ fleet[new].fleet \in 0 .. FLEETIDX - 1 /\ fleet[old].fleet < fleet[new].fleet
      /\ old # Initial => fleet[old].fleet \in 0 .. FLEETIDX - 1
  BY <1>1, <1>3, WhoIsNamed DEF Alive
<1>5. known \subseteq known' /\ new \in known' /\ known' \subseteq DOMAIN fleet
  BY <1>3, <1>4 DEF IInv, TypeOK, Recorded
<1>6. CASE fleet' = fleet /\ Dies(t)
  <2>1. UNCHANGED <<FleetVars, FLEETIDX, restarts>>
    BY <1>1, <1>6 DEF FleetVars
  <2>2. QED
    BY <1>5, <1>6, <2>1, DiesKeeps
<1>7. ASSUME fleet[old].alive, fleet' = Named(old, new),
             thread' = [thread EXCEPT ![t].pc = "sleep", ![t].heard = {}] \/ Dies(t)
      PROVE  IInv'
  <2>1. /\ fleet' \in Seq(FunctionType) /\ DOMAIN fleet' = DOMAIN fleet
        /\ fleet'[old].next = new /\ fleet'[old].fleet = fleet[old].fleet
        /\ \A f \in DOMAIN fleet : f # old => fleet'[f] = fleet[f]
        /\ Alive' = Alive /\ Replaced' = Replaced \cup {old}
    BY <1>4, <1>7, NamedFleet DEF IInv
  <2>2. \A f \in DOMAIN fleet : fleet'[f].fleet = fleet[f].fleet
    BY <2>1
  <2>3. old # new /\ new \in Nat \ {0} /\ fleet[Initial].fleet = -1 /\ new # Initial
    BY <1>4 DEF IInv, TypeOK, FleetInv, Graves, NoFleet
  <2>4. FleetGrows /\ Productive' = Productive /\ Following' = Following
    BY <1>1, <2>1, <2>2, <2>3 DEF FleetGrows, Productive, Following, None
  <2>5. /\ Moves(t) /\ thread'[t].list = thread[t].list /\ thread'[t].prev = thread[t].prev
        /\ thread'[t].todo = thread[t].todo
        /\ thread'[t].pc = "dead" \/ (thread'[t].pc = "sleep" /\ thread'[t].heard = {})
    <3>1. CASE Dies(t)
      <4>1. Becomes(t, [thread[t] EXCEPT !.pc = "dead"])
        BY <1>1, <3>1, DiesEffect DEF IInv
      <4>2. QED
        BY <1>1, <4>1 DEF Becomes, ThreadType
    <3>2. CASE thread' = [thread EXCEPT ![t].pc = "sleep", ![t].heard = {}]
      <4>1. Becomes(t, [thread[t] EXCEPT !.pc = "sleep", !.heard = {}])
        BY <1>1, <3>2, NotifyEffect DEF IInv
      <4>2. QED
        BY <1>1, <4>1 DEF Becomes, ThreadType
    <3>3. QED
      BY <1>7, <3>1, <3>2
  <2>6. TypeOK'
    <3>1. \A f \in DOMAIN fleet' : fleet'[f].next \in ({None} \cup DOMAIN fleet') \ {f}
      BY <1>4, <2>1, <2>3 DEF IInv, TypeOK
    <3>2. \A s \in DOMAIN thread : /\ thread'[s].todo <= mode.count
                                   /\ Listed(thread'[s].list) \cup Listed(thread'[s].prev) \subseteq DOMAIN fleet
      BY <2>5 DEF IInv, TypeOK, Moves
    <3>3. QED
      BY <1>1, <1>5, <2>1, <2>5, <3>1, <3>2 DEF IInv, TypeOK, Moves
  <2>7. Initial \in Replaced'
    <3>1. thread[t].prev # <<>> => Initial \in Replaced
      BY <1>4 DEF IInv, ThreadInv, Reached, Productive
    <3>2. QED
      BY <1>4, <2>1, <3>1
  <2>8. ThreadInv(thread[t]) /\ OneByOne(thread[t])
    BY <1>4 DEF IInv, ThreadInv
  <2>9. ThreadInv(thread[t])'
    <3>1. TagsGrow(thread[t])'
      <4>1. Functions(thread[t]) \subseteq DOMAIN fleet
        BY DEF IInv, TypeOK, Functions
      <4>2. QED
        BY <1>1, <2>2, <2>5, <2>8, <4>1 DEF ThreadInv, TagsGrow, Functions
    <3>2. Reached(thread[t])'
      BY <1>1, <1>4, <2>4, <2>5, <2>7, <2>8 DEF ThreadInv, Reached, Deleting, Productive
    <3>3. OneByOne(thread[t])'
      <4>1. thread[t].prev = <<>> => Listed(thread[t].prev) = {}
        BY ListedEmpty
      <4>2. Listed(thread[t].prev) \subseteq Replaced'
        BY <1>4, <2>1, <4>1 DEF Last
      <4>3. thread[t].prev # <<>> => \E f \in Alive : Listed(thread[t].prev) = {f}
        BY <1>1, <2>8 DEF OneByOne, Before
      <4>4. QED
        BY <1>4, <2>1, <2>5, <2>8, <4>2, <4>3 DEF OneByOne, Deleting, Before
    <3>4. QED
      BY <3>1, <3>2, <3>3 DEF ThreadInv
  <2>10. ASSUME Following # {} PROVE InOrder(thread[t]) /\ \A u \in Following : Placed(u, thread[t])
    BY <1>4, <2>10 DEF IInv, FollowInv
  <2>11. FleetInv'
    <3>1. FirstReplaced' /\ Graves' /\ TagsAreKnown' /\ AtHome'
      BY <1>1, <1>4, <1>5, <2>1, <2>2, <2>4, <2>7
         DEF IInv, TypeOK, FleetInv, FirstReplaced, Graves, TagsAreKnown, AtHome
    <3>2. ASSUME NEW u \in Following PROVE OneBehind(u)'
      <4>1. url[u] = old /\ answer[u] \in {Waiting, None}
        BY <1>1, <1>4, <2>10, <3>2 DEF Placed, Before
      <4>2. new \notin Replaced
        BY <1>4, <2>3, <2>10, <3>2 DEF InOrder
      <4>3. fleet'[new].next = None
        BY <1>4, <2>1, <2>3, <4>2 DEF Replaced
      <4>4. old \in Alive
        BY <1>4, <1>7 DEF Alive
      <4>5. QED
        BY <1>1, <1>4, <2>1, <4>1, <4>3, <4>4 DEF OneBehind
    <3>3. QED
      BY <2>4, <3>1, <3>2 DEF FleetInv
  <2>12. FollowInv(thread[t])'
    <3>1. SUFFICES ASSUME Following # {}
                   PROVE  InOrder(thread[t])' /\ \A u \in Following : Placed(u, thread[t])'
      BY <2>4 DEF FollowInv
    <3>2. InOrder(thread[t]) /\ \A u \in Following : Placed(u, thread[t])
      BY <2>10, <3>1
    <3>3. InOrder(thread[t])'
      <4>1. Replaced \subseteq DOMAIN fleet
        BY DEF Replaced
      <4>2. \A f \in Replaced' \ {Initial} : fleet'[f].fleet \in 0 .. FLEETIDX - 1 /\ fleet'[f].fleet < fleet[new].fleet
        BY <1>4, <2>1, <2>2, <3>2, <4>1 DEF InOrder
      <4>3. thread'[t].pc \notin {"batch", "create", "notify"}
        BY <2>5
      <4>4. QED
        BY <1>1, <1>4, <2>2, <2>5, <4>2, <4>3 DEF InOrder, Before
    <3>4. ASSUME NEW u \in Following PROVE Placed(u, thread[t])'
      <4>1. url[u] = old /\ answer[u] \in {Waiting, None}
        BY <1>1, <1>4, <3>2 DEF Placed, Before
      <4>2. Last(thread[t])' = {old}
        BY <1>4, <2>5 DEF Last
      <4>3. QED
        BY <1>1, <1>4, <2>1, <2>5, <4>1, <4>2 DEF Placed, Before
    <3>5. QED
      BY <3>3, <3>4
  <2>13. QED
    BY <1>2, <2>4, <2>5, <2>6, <2>9, <2>11, <2>12, StepOf
<1>8. QED
  BY <1>3, <1>6, <1>7

\* No following proxy is still on the old function, or waits for its answer, when the
\* period is over.
LEMMA AllHaveMoved ==
  ASSUME IInv, Productive, NEW t \in DOMAIN thread, thread[t].pc = "sleep", PeriodOver(t),
         NEW u \in Following
  PROVE  url[u] \in Listed(thread[t].list) /\ answer[u] = Waiting
<1>1. Placed(u, thread[t])
  BY DEF IInv, FollowInv
<1>2. u \in thread[t].heard /\ answer[u] = Waiting
  BY DEF PeriodOver, Following
<1>3. Listed(thread[t].list) \subseteq DOMAIN fleet /\ DOMAIN fleet \subseteq Nat
  BY DEF IInv, TypeOK
<1>4. QED
  BY <1>1, <1>2, <1>3 DEF Placed, Waiting

\* A productive thread begins its next round with the new function as the old one.
LEMMA NextRoundKeeps ==
  ASSUME IInv, NEW t \in DOMAIN thread, Deleting(thread[t]), ~mode.quick,
         thread' = [thread EXCEPT ![t] = NextRound(t)],
         UNCHANGED <<FleetVars, FLEETIDX, known, restarts>>,
         \A u \in Following : url[u] \in Listed(thread[t].list) /\ answer[u] \in {Waiting, None}
  PROVE  IInv'
<1>1. /\ thread[t] \in ThreadType /\ FLEETIDX \in Nat /\ mode.count \in Nat \ {0}
      /\ UNCHANGED <<mode, fleet, FLEETIDX, known, url, up, answer, late, restarts>>
  BY MigrationAssumption DEF IInv, TypeOK, FleetVars
<1>2. /\ Productive /\ Initial \in Replaced /\ TagsGrow(thread[t]) /\ OneByOne(thread[t])
      /\ (Following # {} => InOrder(thread[t])) /\ thread[t].todo <= mode.count
      /\ Functions(thread[t]) \subseteq DOMAIN fleet
  BY DEF IInv, TypeOK, ThreadInv, Reached, FollowInv, Functions
<1>3. Becomes(t, NextRound(t))
  BY <1>1, NextRoundEffect DEF IInv
<1>4. /\ Moves(t) /\ thread'[t].pc = "batch" /\ thread'[t].remaining = mode.count
      /\ thread'[t].list = <<>> /\ thread'[t].prev = thread[t].list /\ thread'[t].todo = thread[t].todo
  BY <1>1, <1>3 DEF Becomes, NextRound, ThreadType
<1>5. Listed(<<>>) = {} /\ thread[t].list # <<>>
  BY <1>2, ListedEmpty DEF OneByOne
<1>6. /\ FleetGrows /\ FleetInv' /\ Alive' = Alive /\ Replaced' = Replaced /\ Following' = Following
      /\ Productive'
  BY <1>1, <1>2, StaysKeeps DEF Productive
<1>7. TypeOK'
  <2>1. \A s \in DOMAIN thread : /\ thread'[s].todo <= mode.count
                                 /\ Listed(thread'[s].list) \cup Listed(thread'[s].prev) \subseteq DOMAIN fleet
    BY <1>2, <1>4, <1>5 DEF IInv, TypeOK, Moves, Functions
  <2>2. QED
    BY <1>1, <1>4, <2>1 DEF IInv, TypeOK, Moves
<1>8. ThreadInv(thread[t])'
  <2>1. TagsGrow(thread[t])'
    BY <1>1, <1>2, <1>4, <1>5 DEF TagsGrow, Functions
  <2>2. Reached(thread[t])'
    BY <1>1, <1>2, <1>4, <1>6 DEF Reached
  <2>3. OneByOne(thread[t])'
    BY <1>2, <1>4, <1>5, <1>6 DEF OneByOne, Deleting, Before
  <2>4. QED
    BY <2>1, <2>2, <2>3 DEF ThreadInv
<1>9. FollowInv(thread[t])'
  <2>1. SUFFICES ASSUME Following # {}
                 PROVE  InOrder(thread[t])' /\ \A u \in Following : Placed(u, thread[t])'
    BY <1>6 DEF FollowInv
  <2>2. InOrder(thread[t])'
    BY <1>1, <1>2, <1>4, <1>5, <1>6, <2>1 DEF InOrder, Before
  <2>3. \A u \in Following : Placed(u, thread[t])'
    BY <1>1, <1>4, <1>5 DEF Placed, Before, Last
  <2>4. QED
    BY <2>2, <2>3
<1>10. FLEETIDX' \in Nat /\ FLEETIDX <= FLEETIDX'
  BY <1>1
<1>11. QED
  BY <1>4, <1>6, <1>7, <1>8, <1>9, <1>10, StepOf

LEMMA WakeFirstKeeps ==
  ASSUME IInv, NEW t \in DOMAIN thread, WakeFirst(t)
  PROVE  IInv'
<1>1. /\ Deleting(thread[t]) /\ thread[t].pc = "sleep" /\ ~mode.quick /\ PeriodOver(t)
      /\ thread' = [thread EXCEPT ![t] = NextRound(t)]
      /\ UNCHANGED <<FleetVars, FLEETIDX, known, restarts>>
  BY DEF WakeFirst, At, Deleting, FleetVars, users
<1>2. Productive
  BY <1>1 DEF IInv, ThreadInv, Reached
<1>3. \A u \in Following : url[u] \in Listed(thread[t].list) /\ answer[u] = Waiting
  BY <1>1, <1>2, AllHaveMoved
<1>4. QED
  BY <1>1, <1>3, NextRoundKeeps

LEMMA EndRoundKeeps ==
  ASSUME IInv, NEW t \in DOMAIN thread, EndRound(t)
  PROVE  IInv'
<1>1. /\ thread[t] \in ThreadType /\ thread[t].pc = "delete" /\ thread[t].prev = <<>> /\ Deleting(thread[t])
      /\ UNCHANGED <<FleetVars, FLEETIDX, known, restarts>> /\ FLEETIDX \in Nat
      /\ UNCHANGED <<mode, fleet, FLEETIDX, known, url, up, answer, late, restarts>>
  BY DEF EndRound, At, Deleting, FleetVars, users, IInv, TypeOK
<1>2. CASE ~mode.quick
  <2>1. thread' = [thread EXCEPT ![t] = NextRound(t)]
    BY <1>2 DEF EndRound
  <2>2. Productive
    BY <1>1, <1>2 DEF IInv, ThreadInv, Reached
  <2>3. ASSUME NEW u \in Following
        PROVE  url[u] \in Listed(thread[t].list) /\ answer[u] \in {Waiting, None}
    BY <1>1, <2>2 DEF IInv, FollowInv, Placed
  <2>4. QED
    BY <1>1, <1>2, <2>1, <2>3, NextRoundKeeps
<1>3. CASE mode.quick
  <2>1. Becomes(t, [thread[t] EXCEPT !.pc = "done"])
    BY <1>1, <1>3, DoneEffect DEF EndRound, IInv
  <2>2. /\ Moves(t) /\ thread'[t].pc = "done" /\ thread'[t].todo = thread[t].todo
        /\ thread'[t].list = thread[t].list /\ thread'[t].prev = <<>>
    BY <1>1, <2>1 DEF Becomes, ThreadType
  <2>3. /\ FleetGrows /\ FleetInv' /\ Alive' = Alive /\ Replaced' = Replaced /\ Following' = Following
        /\ ~Productive'
    BY <1>1, <1>3, StaysKeeps DEF Productive
  <2>4. TypeOK'
    BY <1>1, <2>2 DEF IInv, TypeOK, Moves
  <2>5. ThreadInv(thread[t])'
    <3>1. TagsGrow(thread[t]) /\ Listed(<<>>) = {}
      BY ListedEmpty DEF IInv, ThreadInv
    <3>2. TagsGrow(thread[t])' /\ Reached(thread[t])'
      BY <1>1, <1>3, <2>2, <3>1 DEF TagsGrow, Reached, Functions
    <3>3. QED
      BY <2>3, <3>2 DEF ThreadInv
  <2>6. FollowInv(thread[t])'
    BY <2>3 DEF FollowInv
  <2>7. FLEETIDX' \in Nat /\ FLEETIDX <= FLEETIDX'
    BY <1>1
  <2>8. QED
    BY <2>2, <2>3, <2>4, <2>5, <2>6, <2>7, StepOf
<1>4. QED
  BY <1>2, <1>3

LEMMA WakeKeeps ==
  ASSUME IInv, NEW t \in DOMAIN thread, Wake(t)
  PROVE  IInv'
<1>1. /\ thread[t] \in ThreadType /\ thread[t].pc = "sleep" /\ PeriodOver(t)
      /\ UNCHANGED <<FleetVars, FLEETIDX, known, restarts>> /\ FLEETIDX \in Nat
      /\ UNCHANGED <<mode, fleet, FLEETIDX, known, url, up, answer, late, restarts>>
  BY DEF Wake, At, FleetVars, users, IInv, TypeOK
<1>2. Becomes(t, [thread[t] EXCEPT !.pc = "delete", !.prev = Doomed(t)])
  BY WakeEffect DEF IInv
<1>3. /\ Moves(t) /\ thread'[t].pc = "delete" /\ thread'[t].prev = Doomed(t)
      /\ thread'[t].list = thread[t].list /\ thread'[t].todo = thread[t].todo
      /\ Doomed(t) \in {thread[t].list, thread[t].prev} /\ (~mode.quick => Doomed(t) = thread[t].prev)
  BY <1>1, <1>2 DEF Becomes, ThreadType, Doomed
<1>4. /\ FleetGrows /\ FleetInv' /\ Alive' = Alive /\ Replaced' = Replaced /\ Following' = Following
      /\ Productive' = Productive
  BY <1>1, StaysKeeps DEF Productive
<1>5. TypeOK'
  <2>1. \A s \in DOMAIN thread : /\ thread'[s].todo <= mode.count
                                 /\ Listed(thread'[s].list) \cup Listed(thread'[s].prev) \subseteq DOMAIN fleet
    BY <1>3 DEF IInv, TypeOK, Moves
  <2>2. QED
    BY <1>1, <1>3, <2>1 DEF IInv, TypeOK, Moves
<1>6. ThreadInv(thread[t]) /\ FollowInv(thread[t])
  BY DEF IInv
<1>7. ThreadInv(thread[t])'
  <2>1. TagsGrow(thread[t])'
    BY <1>1, <1>3, <1>6 DEF ThreadInv, TagsGrow, Functions
  <2>2. Reached(thread[t])'
    BY <1>1, <1>3, <1>4, <1>6 DEF ThreadInv, Reached, Deleting
  <2>3. ASSUME Productive PROVE OneByOne(thread[t])'
    <3>1. OneByOne(thread[t]) /\ thread'[t].prev = thread[t].prev
      BY <1>3, <1>6, <2>3 DEF ThreadInv, Productive
    <3>2. QED
      BY <1>1, <1>3, <1>4, <3>1 DEF OneByOne, Deleting, Before
  <2>4. QED
    BY <1>4, <2>1, <2>2, <2>3 DEF ThreadInv
<1>8. FollowInv(thread[t])'
  <2>1. SUFFICES ASSUME Productive, Following # {}
                 PROVE  InOrder(thread[t])' /\ \A u \in Following : Placed(u, thread[t])'
    BY <1>4 DEF FollowInv
  <2>2. InOrder(thread[t])'
    BY <1>1, <1>3, <1>4, <1>6, <2>1 DEF FollowInv, InOrder, Before
  <2>3. \A u \in Following : url[u] \in Listed(thread[t].list) /\ answer[u] = Waiting
    BY <1>1, <2>1, AllHaveMoved
  <2>4. QED
    BY <1>1, <1>3, <2>2, <2>3 DEF Placed, Before
<1>9. FLEETIDX' \in Nat /\ FLEETIDX <= FLEETIDX'
  BY <1>1
<1>10. QED
  BY <1>3, <1>4, <1>5, <1>7, <1>8, <1>9, StepOf

LEMMA DeleteKeeps ==
  ASSUME IInv, NEW t \in DOMAIN thread, Delete(t)
  PROVE  IInv'
<1>1. /\ thread[t] \in ThreadType /\ thread[t].pc = "delete" /\ thread[t].prev # <<>>
      /\ thread[t].prev \in Seq(SUBSET Nat) /\ FLEETIDX \in Nat
      /\ UNCHANGED <<mode, FLEETIDX, known, url, up, answer, late, restarts>>
  BY DEF Delete, At, users, IInv, TypeOK, ThreadType
<1>2. CASE fleet' = fleet /\ Dies(t)
  <2>1. UNCHANGED <<FleetVars, FLEETIDX, restarts>> /\ known \subseteq known' /\ known' \subseteq DOMAIN fleet
    BY <1>1, <1>2 DEF FleetVars, IInv, TypeOK
  <2>2. QED
    BY <1>2, <2>1, DiesKeeps
<1>3. ASSUME NEW f \in Head(thread[t].prev), fleet[f].alive, fleet' = [fleet EXCEPT ![f].alive = FALSE],
             thread' = [thread EXCEPT ![t].prev = Tail(@)]
      PROVE  IInv'
  <2>1. /\ Listed(Tail(thread[t].prev)) \subseteq Listed(thread[t].prev) /\ f \in Listed(thread[t].prev)
    BY <1>1, <1>3, ListedTail
  <2>2. f \in DOMAIN fleet /\ fleet[f] \in FunctionType
    BY <2>1 DEF IInv, TypeOK
  <2>3. /\ fleet' \in Seq(FunctionType) /\ DOMAIN fleet' = DOMAIN fleet
        /\ ~fleet'[f].alive /\ fleet'[f].next = fleet[f].next /\ fleet'[f].fleet = fleet[f].fleet
        /\ \A g \in DOMAIN fleet : g # f => fleet'[g] = fleet[g]
    <3>1. /\ [fleet[f] EXCEPT !.alive = FALSE] \in FunctionType
          /\ ~[fleet[f] EXCEPT !.alive = FALSE].alive
          /\ [fleet[f] EXCEPT !.alive = FALSE].next = fleet[f].next
          /\ [fleet[f] EXCEPT !.alive = FALSE].fleet = fleet[f].fleet
      BY <2>2 DEF FunctionType
    <3>2. fleet \in Seq(FunctionType)
      BY DEF IInv, TypeOK
    <3>3. /\ fleet' \in Seq(FunctionType) /\ DOMAIN fleet' = DOMAIN fleet
          /\ fleet'[f] = [fleet[f] EXCEPT !.alive = FALSE]
          /\ \A g \in DOMAIN fleet : g # f => fleet'[g] = fleet[g]
      BY <1>3, <2>2, <3>1, <3>2
    <3>4. QED
      BY <3>1, <3>3
  <2>4. /\ Alive' = Alive \ {f} /\ Replaced' = Replaced /\ Productive' = Productive /\ Following' = Following
        /\ \A g \in DOMAIN fleet : fleet'[g].next = fleet[g].next /\ fleet'[g].fleet = fleet[g].fleet
    BY <1>1, <2>3 DEF Alive, Replaced, Productive, Following
  <2>5. FleetGrows
    BY <1>1, <2>3, <2>4 DEF FleetGrows
  <2>6. Becomes(t, [thread[t] EXCEPT !.prev = Tail(@)])
    BY <1>1, <1>3, DeletedEffect DEF IInv
  <2>7. /\ Moves(t) /\ thread'[t].pc = "delete" /\ thread'[t].prev = Tail(thread[t].prev)
        /\ thread'[t].list = thread[t].list /\ thread'[t].todo = thread[t].todo
    BY <1>1, <2>6 DEF Becomes, ThreadType
  <2>8. /\ TagsGrow(thread[t]) /\ Reached(thread[t]) /\ (Productive => OneByOne(thread[t]))
        /\ FollowInv(thread[t]) /\ Functions(thread[t]) \subseteq DOMAIN fleet
    BY DEF IInv, ThreadInv, TypeOK, Functions
  <2>9. f # Initial
    <3>1. fleet[f].fleet \in 0 .. FLEETIDX - 1 /\ fleet[Initial].fleet = -1
      BY <2>1, <2>8 DEF TagsGrow, Functions, IInv, FleetInv, Graves, NoFleet
    <3>2. QED
      BY <1>1, <3>1
  <2>10. ~mode.quick => Productive /\ f \in Replaced
    BY <1>1, <2>1, <2>8 DEF Reached, OneByOne, Deleting
  <2>11. Productive => \A g \in Listed(thread[t].list) : g # f
    <3>1. SUFFICES ASSUME Productive, f \in Listed(thread[t].list) PROVE FALSE
      OBVIOUS
    <3>2. fleet[f].fleet < fleet[f].fleet /\ fleet[f].fleet \in 0 .. FLEETIDX - 1
      BY <2>1, <2>8, <3>1 DEF TagsGrow, Functions, Productive
    <3>3. QED
      BY <1>1, <3>2
  <2>12. TypeOK'
    <3>1. \A s \in DOMAIN thread : /\ thread'[s].todo <= mode.count
                                   /\ Listed(thread'[s].list) \cup Listed(thread'[s].prev) \subseteq DOMAIN fleet
      BY <2>1, <2>7 DEF IInv, TypeOK, Moves
    <3>2. \A g \in DOMAIN fleet' : fleet'[g].next \in ({None} \cup DOMAIN fleet') \ {g}
      BY <2>3, <2>4 DEF IInv, TypeOK
    <3>3. QED
      BY <1>1, <2>3, <2>7, <3>1, <3>2 DEF IInv, TypeOK, Moves
  <2>13. FleetInv'
    <3>1. FirstReplaced' /\ TagsAreKnown' /\ AtHome'
      BY <1>1, <2>3, <2>4 DEF IInv, FleetInv, FirstReplaced, TagsAreKnown, AtHome
    <3>2. Graves'
      BY <1>1, <2>3, <2>4, <2>9, <2>10 DEF IInv, TypeOK, FleetInv, Graves
    <3>3. ASSUME NEW u \in Following PROVE OneBehind(u)'
      <4>1. url[u] \in DOMAIN fleet /\ OneBehind(u) /\ u \in Users
        BY DEF IInv, TypeOK, FleetInv, Following
      <4>2. url[u] # f /\ fleet[url[u]].next = None
        <5>1. CASE Productive
          <6>1. url[u] \in Listed(thread[t].list) /\ InOrder(thread[t])
            BY <1>1, <2>8, <5>1 DEF FollowInv, Placed
          <6>2. fleet[url[u]].fleet \in 0 .. FLEETIDX - 1 /\ fleet[Initial].fleet = -1
            BY <2>8, <6>1 DEF TagsGrow, Functions, IInv, FleetInv, Graves, NoFleet
          <6>3. url[u] \notin Replaced \ {Initial} /\ url[u] # Initial
            BY <1>1, <6>1, <6>2 DEF InOrder
          <6>4. QED
            BY <2>11, <4>1, <5>1, <6>1, <6>3 DEF Replaced
        <5>2. CASE ~Productive
          <6>1. Replaced = {}
            BY <5>2 DEF IInv, FleetInv, FirstReplaced
          <6>2. QED
            BY <2>9, <4>1, <6>1 DEF IInv, FleetInv, AtHome, Replaced
        <5>3. QED
          BY <5>1, <5>2
      <4>3. QED
        BY <1>1, <2>4, <4>1, <4>2 DEF OneBehind
    <3>4. QED
      BY <2>4, <3>1, <3>2, <3>3 DEF FleetInv
  <2>14. ThreadInv(thread[t])'
    <3>1. TagsGrow(thread[t])'
      BY <1>1, <2>1, <2>4, <2>7, <2>8 DEF TagsGrow, Functions
    <3>2. Reached(thread[t])'
      BY <1>1, <2>4, <2>7, <2>8 DEF Reached, Deleting
    <3>3. Productive => OneByOne(thread[t])'
      BY <1>1, <2>1, <2>4, <2>7, <2>8, <2>11 DEF OneByOne, Deleting, Before
    <3>4. QED
      BY <2>4, <3>1, <3>2, <3>3 DEF ThreadInv
  <2>15. FollowInv(thread[t])'
    <3>1. SUFFICES ASSUME Productive, Following # {}
                   PROVE  InOrder(thread[t])' /\ \A u \in Following : Placed(u, thread[t])'
      BY <2>4 DEF FollowInv
    <3>2. InOrder(thread[t]) /\ \A u \in Following : Placed(u, thread[t])
      BY <2>8, <3>1 DEF FollowInv
    <3>3. InOrder(thread[t])'
      BY <1>1, <2>4, <2>7, <2>8, <3>2 DEF InOrder, Before, Functions, Replaced
    <3>4. QED
      BY <1>1, <2>7, <3>2, <3>3 DEF Placed, Before
  <2>16. FLEETIDX' \in Nat /\ FLEETIDX <= FLEETIDX'
    BY <1>1
  <2>17. QED
    BY <2>5, <2>7, <2>12, <2>13, <2>14, <2>15, <2>16, StepOf
<1>4. QED
  BY <1>2, <1>3 DEF Delete

\* The threads of a refresher that has just been started.
LEMMA FreshThreads ==
  ASSUME NEW m \in Modes
  PROVE  /\ Fresh(m) \in [Threads(m) -> ThreadType]
         /\ \A t \in Threads(m) :
              /\ Fresh(m)[t].pc = "batch" /\ Fresh(m)[t].remaining = m.count /\ Fresh(m)[t].todo = 0
              /\ Fresh(m)[t].list = <<>> /\ Fresh(m)[t].prev = <<>>
<1>1. m.count \in Nat /\ <<>> \in Seq(SUBSET Nat)
  BY MigrationAssumption
<1>2. QED
  BY <1>1 DEF Fresh, ThreadType

LEMMA FreshInv ==
  ASSUME mode' \in Modes, thread' = Fresh(mode'), FLEETIDX' \in Nat,
         (Following' # {}) => Replaced' = {}, AtHome'
  PROVE  \A t \in DOMAIN thread' : ThreadInv(thread[t])' /\ FollowInv(thread[t])'
<1>1. SUFFICES ASSUME NEW t \in Threads(mode') PROVE ThreadInv(thread[t])' /\ FollowInv(thread[t])'
  BY FreshThreads
<1>2. /\ thread'[t].pc = "batch" /\ thread'[t].remaining = mode'.count
      /\ thread'[t].list = <<>> /\ thread'[t].prev = <<>> /\ Listed(<<>>) = {}
      /\ mode'.count \in Nat \ {0}
  BY FreshThreads, ListedEmpty, MigrationAssumption
<1>3. TagsGrow(thread[t])' /\ Reached(thread[t])' /\ OneByOne(thread[t])'
  BY <1>2 DEF TagsGrow, Reached, OneByOne, Functions, Deleting, Before
<1>4. FollowInv(thread[t])'
  BY <1>2 DEF FollowInv, InOrder, Placed, Before, Last, AtHome, Following
<1>5. QED
  BY <1>3, <1>4 DEF ThreadInv

LEMMA RestartKeeps ==
  ASSUME IInv, Restart
  PROVE  IInv'
<1>1. /\ UNCHANGED <<mode, fleet, known, url, up, answer>> /\ FLEETIDX' = 0
      /\ thread' = Fresh(mode) /\ mode \in Modes /\ restarts' \in 0 .. MaxRestarts
      /\ late' = [u \in Users |-> late[u] \/ fleet[Initial].next # None]
  <2>1. restarts \in Nat /\ MaxRestarts \in Nat
    BY MigrationAssumption DEF IInv, TypeOK
  <2>2. QED
    BY <2>1 DEF Restart, IInv, TypeOK
<1>2. late' \in [Users -> BOOLEAN]
  BY <1>1 DEF IInv, TypeOK
<1>3. /\ Following' \subseteq Following
      /\ Following' # {} => Initial \notin Replaced
      /\ Alive' = Alive /\ Replaced' = Replaced
  BY <1>1, SameFleet DEF Following, Replaced
<1>4. /\ thread' \in [Threads(mode) -> ThreadType]
      /\ \A t \in DOMAIN thread' : /\ thread'[t].todo = 0 /\ thread'[t].list = <<>> /\ thread'[t].prev = <<>>
      /\ mode.count \in Nat /\ Listed(<<>>) = {}
  BY <1>1, FreshThreads, ListedEmpty, MigrationAssumption
<1>5. TypeOK'
  BY <1>1, <1>2, <1>4 DEF IInv, TypeOK
<1>6. FleetInv'
  BY <1>1, <1>3 DEF IInv, FleetInv, FirstReplaced, Graves, TagsAreKnown, AtHome, OneBehind, Productive
<1>7. (Following' # {}) => Replaced' = {}
  BY <1>3 DEF IInv, FleetInv, FirstReplaced
<1>8. \A t \in DOMAIN thread' : ThreadInv(thread[t])' /\ FollowInv(thread[t])'
  BY <1>1, <1>6, <1>7, FreshInv DEF FleetInv
<1>9. QED
  BY <1>5, <1>6, <1>8 DEF IInv

\* A step of a local proxy leaves the fleet and what the threads know of it alone.
LEMMA ProxyStep ==
  ASSUME IInv, UNCHANGED <<mode, fleet, FLEETIDX, known, restarts>>,
         thread' \in [Threads(mode) -> ThreadType], DOMAIN thread' = DOMAIN thread,
         \A t \in DOMAIN thread :
           /\ thread'[t].pc = thread[t].pc /\ thread'[t].tag = thread[t].tag
           /\ thread'[t].todo = thread[t].todo /\ thread'[t].remaining = thread[t].remaining
           /\ thread'[t].list = thread[t].list /\ thread'[t].prev = thread[t].prev,
         url' \in [Users -> DOMAIN fleet], up' \in [Users -> BOOLEAN], late' \in [Users -> BOOLEAN],
         answer' \in [Users -> {Waiting, None} \cup DOMAIN fleet],
         AtHome', \A u \in Following' : OneBehind(u)',
         (Productive /\ Following' # {}) =>
           \A t \in DOMAIN thread : InOrder(thread[t]) /\ \A u \in Following' : Placed(u, thread[t])'
  PROVE  IInv'
<1>1. Productive' = Productive /\ Alive' = Alive /\ Replaced' = Replaced
  BY SameFleet DEF Productive
<1>2. TypeOK'
  <2>1. \A t \in DOMAIN thread' :
          /\ thread'[t].todo <= mode.count
          /\ Listed(thread'[t].list) \cup Listed(thread'[t].prev) \subseteq DOMAIN fleet
    BY DEF IInv, TypeOK
  <2>2. QED
    BY <2>1 DEF IInv, TypeOK
<1>3. FleetInv'
  <2>1. FirstReplaced' /\ Graves' /\ TagsAreKnown'
    BY <1>1 DEF IInv, FleetInv, FirstReplaced, Graves, TagsAreKnown
  <2>2. QED
    BY <2>1 DEF FleetInv
<1>4. ASSUME NEW t \in DOMAIN thread PROVE ThreadInv(thread[t])' /\ FollowInv(thread[t])'
  <2>1. ThreadInv(thread[t])
    BY DEF IInv
  <2>2. TagsGrow(thread[t])' /\ Reached(thread[t])'
    BY <1>1, <2>1 DEF ThreadInv, TagsGrow, Reached, Functions, Deleting
  <2>3. Productive => OneByOne(thread[t])'
    BY <1>1, <2>1 DEF ThreadInv, OneByOne, Deleting, Before
  <2>4. InOrder(thread[t]) => InOrder(thread[t])'
    BY <1>1 DEF InOrder, Before
  <2>5. QED
    BY <1>1, <2>2, <2>3, <2>4 DEF ThreadInv, FollowInv
<1>5. QED
  BY <1>2, <1>3, <1>4 DEF IInv

LEMMA StartKeeps ==
  ASSUME IInv, NEW u \in Users, Start(u)
  PROVE  IInv'
<1>1. /\ up' = [up EXCEPT ![u] = TRUE] /\ url' = [url EXCEPT ![u] = Initial]
      /\ answer' = [answer EXCEPT ![u] = Waiting]
      /\ late' = [late EXCEPT ![u] = fleet[Initial].next # None]
      /\ UNCHANGED <<mode, fleet, FLEETIDX, thread, known, restarts>>
      /\ Initial \in DOMAIN fleet /\ TypeOK /\ AtHome
  BY DEF Start, IInv, TypeOK, FleetInv
<1>2. /\ url' \in [Users -> DOMAIN fleet] /\ up' \in [Users -> BOOLEAN] /\ late' \in [Users -> BOOLEAN]
      /\ answer' \in [Users -> {Waiting, None} \cup DOMAIN fleet]
  BY <1>1 DEF TypeOK
<1>3. Alive' = Alive /\ Replaced' = Replaced /\ Productive' = Productive
  BY <1>1, SameFleet DEF Productive
<1>4. AtHome'
  BY <1>1, <1>3 DEF AtHome, TypeOK
<1>5. /\ \A w \in Following' : w # u => w \in Following /\ url'[w] = url[w] /\ answer'[w] = answer[w]
      /\ u \in Following' => Initial \notin Replaced
  BY <1>1 DEF Following, TypeOK, Replaced
<1>6. Initial \in Alive /\ fleet[Initial].next \in {None} \cup DOMAIN fleet
  BY DEF IInv, FleetInv, Graves, TypeOK
<1>7. ASSUME NEW w \in Following' PROVE OneBehind(w)'
  <2>1. CASE w = u
    BY <1>1, <1>3, <1>5, <1>6, <2>1 DEF OneBehind, TypeOK, Replaced
  <2>2. CASE w # u
    BY <1>1, <1>3, <1>5, <2>2 DEF IInv, FleetInv, OneBehind
  <2>3. QED
    BY <2>1, <2>2
<1>8. ASSUME Productive, Following' # {}, NEW t \in DOMAIN thread
      PROVE  InOrder(thread[t]) /\ \A w \in Following' : Placed(w, thread[t])'
  <2>1. CASE u \in Following'
    <3>1. Initial \notin Replaced /\ Replaced = {}
      BY <1>5, <2>1 DEF IInv, FleetInv, FirstReplaced
    <3>2. thread[t].prev = <<>> /\ ~Deleting(thread[t])
      BY <1>8, <3>1 DEF IInv, ThreadInv, Reached, Productive
    <3>3. InOrder(thread[t])
      BY <3>1 DEF InOrder
    <3>4. \A w \in Following' : url'[w] = Initial /\ answer'[w] \in {Waiting, None}
      BY <1>3, <1>4, <3>1 DEF AtHome, Following
    <3>5. QED
      BY <1>1, <3>2, <3>3, <3>4 DEF Placed, Deleting, Last
  <2>2. CASE u \notin Following'
    <3>1. Following' \subseteq Following
      BY <1>5, <2>2
    <3>2. InOrder(thread[t]) /\ \A w \in Following' : Placed(w, thread[t])
      BY <1>8, <3>1 DEF IInv, FollowInv
    <3>3. QED
      BY <1>1, <1>5, <2>2, <3>2 DEF Placed, Before, Last
  <2>3. QED
    BY <2>1, <2>2
<1>9. QED
  BY <1>1, <1>2, <1>4, <1>7, <1>8, ProxyStep DEF TypeOK

\* As long as its thread finds a following proxy in place, the tag of the function it
\* uses is empty, or leads to the new function.
LEMMA TagRead ==
  ASSUME IInv, Productive, NEW u \in Following, NEW t \in DOMAIN thread
  PROVE  /\ Before(thread[t]) \/ thread[t].pc = "delete" => fleet[url[u]].next = None
         /\ thread[t].pc = "sleep" /\ url[u] \in Listed(thread[t].list) => fleet[url[u]].next = None
         /\ thread[t].pc = "sleep" /\ url[u] \notin Listed(thread[t].list) =>
              fleet[url[u]].next \in Listed(thread[t].list)
<1>1. /\ InOrder(thread[t]) /\ Placed(u, thread[t]) /\ TagsGrow(thread[t])
      /\ url[u] \in DOMAIN fleet /\ fleet[Initial].fleet = -1 /\ FLEETIDX \in Nat
  BY DEF IInv, TypeOK, FleetInv, Graves, FollowInv, ThreadInv, Following, NoFleet
<1>2. ASSUME NEW g \in Functions(thread[t]) PROVE fleet[g].fleet \in 0 .. FLEETIDX - 1 /\ g # Initial
  <2>1. fleet[g].fleet \in 0 .. FLEETIDX - 1
    BY <1>1 DEF TagsGrow
  <2>2. QED
    BY <1>1, <2>1
<1>3. ASSUME NEW g \in Listed(thread[t].list) PROVE g \notin Replaced
  <2>1. fleet[g].fleet \in 0 .. FLEETIDX - 1 /\ g # Initial
    BY <1>2 DEF Functions
  <2>2. QED
    BY <1>1, <2>1 DEF InOrder
<1>4. ASSUME Before(thread[t]), NEW g \in Last(thread[t]) PROVE g \notin Replaced
  <2>1. CASE thread[t].prev = <<>>
    BY <1>1, <1>4, <2>1 DEF Last, InOrder
  <2>2. CASE thread[t].prev # <<>>
    <3>1. g \in Listed(thread[t].prev)
      BY <1>4, <2>2 DEF Last
    <3>2. fleet[g].fleet \in 0 .. FLEETIDX - 1 /\ g # Initial
      BY <1>2, <3>1 DEF Functions
    <3>3. QED
      BY <1>1, <1>4, <3>1, <3>2 DEF InOrder
  <2>3. QED
    BY <2>1, <2>2
<1>5. QED
  BY <1>1, <1>3, <1>4 DEF Placed, Replaced, Before

LEMMA PollKeeps ==
  ASSUME IInv, NEW u \in Users, Poll(u)
  PROVE  IInv'
<1>1. /\ up[u] /\ answer[u] = Waiting
      /\ answer' = [answer EXCEPT ![u] = IF fleet[url[u]].alive THEN fleet[url[u]].next ELSE None]
      /\ thread' = [t \in DOMAIN thread |-> [thread[t] EXCEPT !.heard = @ \cup {u}]]
      /\ UNCHANGED <<mode, fleet, FLEETIDX, known, url, up, late, restarts>> /\ TypeOK
  BY DEF Poll, IInv
<1>2. /\ thread' \in [Threads(mode) -> ThreadType] /\ DOMAIN thread' = DOMAIN thread
      /\ \A t \in DOMAIN thread :
           /\ thread'[t].pc = thread[t].pc /\ thread'[t].tag = thread[t].tag
           /\ thread'[t].todo = thread[t].todo /\ thread'[t].remaining = thread[t].remaining
           /\ thread'[t].list = thread[t].list /\ thread'[t].prev = thread[t].prev
           /\ thread'[t].heard = thread[t].heard \cup {u}
  <2>1. DOMAIN thread = Threads(mode)
    BY <1>1 DEF TypeOK
  <2>2. ASSUME NEW t \in DOMAIN thread
        PROVE  LET T == [thread[t] EXCEPT !.heard = @ \cup {u}]
               IN  /\ T \in ThreadType /\ T.pc = thread[t].pc /\ T.tag = thread[t].tag
                   /\ T.todo = thread[t].todo /\ T.remaining = thread[t].remaining
                   /\ T.list = thread[t].list /\ T.prev = thread[t].prev
                   /\ T.heard = thread[t].heard \cup {u}
    <3>1. thread[t] \in ThreadType
      BY <1>1 DEF TypeOK
    <3>2. QED
      BY <3>1 DEF ThreadType
  <2>3. QED
    BY <1>1, <2>1, <2>2
<1>3. url[u] \in DOMAIN fleet /\ fleet[url[u]].next \in {None} \cup DOMAIN fleet
  BY <1>1 DEF TypeOK
<1>4. answer' \in [Users -> {Waiting, None} \cup DOMAIN fleet]
  BY <1>1, <1>3 DEF TypeOK
<1>5. Alive' = Alive /\ Replaced' = Replaced /\ Following' = Following
  BY <1>1, SameFleet DEF Following
<1>6. AtHome'
  BY <1>1, <1>3, <1>5 DEF IInv, FleetInv, AtHome, TypeOK, Replaced
<1>7. ASSUME NEW w \in Following PROVE OneBehind(w)'
  <2>1. OneBehind(w) /\ w \in Users
    BY DEF IInv, FleetInv, Following
  <2>2. answer'[w] \in {answer[w], None, fleet[url[w]].next}
    BY <1>1, <2>1 DEF TypeOK
  <2>3. QED
    BY <1>1, <1>5, <2>1, <2>2 DEF OneBehind
<1>8. ASSUME Productive, Following # {}, NEW t \in DOMAIN thread
      PROVE  InOrder(thread[t]) /\ \A w \in Following : Placed(w, thread[t])'
  <2>1. InOrder(thread[t]) /\ \A w \in Following : Placed(w, thread[t])
    BY <1>8 DEF IInv, FollowInv
  <2>2. ASSUME NEW w \in Following PROVE Placed(w, thread[t])'
    <3>1. CASE w # u
      <4>1. w \in Users /\ answer'[w] = answer[w]
        BY <1>1, <3>1 DEF Following, TypeOK
      <4>2. Placed(w, thread[t]) /\ url'[w] = url[w] /\ fleet' = fleet
        BY <1>1, <2>1
      <4>3. /\ thread'[t].pc = thread[t].pc /\ thread'[t].list = thread[t].list
            /\ thread'[t].prev = thread[t].prev
            /\ w \in thread'[t].heard <=> w \in thread[t].heard
        BY <1>2, <3>1
      <4>4. QED
        BY <4>1, <4>2, <4>3 DEF Placed, Before, Last
    <3>2. CASE w = u
      <4>1. answer'[u] = fleet[url[u]].next
        <5>1. fleet[url[u]].alive
          BY <2>2, <3>2 DEF IInv, FleetInv, OneBehind, Alive
        <5>2. QED
          BY <1>1, <5>1 DEF TypeOK
      <4>2. Placed(u, thread[t])
        BY <2>1, <2>2, <3>2
      <4>3. /\ Before(thread[t]) \/ thread[t].pc = "delete" => fleet[url[u]].next = None
            /\ thread[t].pc = "sleep" /\ url[u] \in Listed(thread[t].list) => fleet[url[u]].next = None
            /\ thread[t].pc = "sleep" /\ url[u] \notin Listed(thread[t].list) =>
                 fleet[url[u]].next \in Listed(thread[t].list)
        BY <1>8, <2>2, <3>2, TagRead
      <4>4. Placed(u, thread[t])'
        BY <1>1, <1>2, <4>1, <4>2, <4>3 DEF Placed, Before, Last
      <4>5. QED
        BY <3>2, <4>4
    <3>3. QED
      BY <3>1, <3>2
  <2>3. QED
    BY <2>1, <2>2
<1>9. QED
  BY <1>1, <1>2, <1>4, <1>5, <1>6, <1>7, <1>8, ProxyStep DEF TypeOK

LEMMA FollowKeeps ==
  ASSUME IInv, NEW u \in Users, Follow(u)
  PROVE  IInv'
<1>1. /\ answer[u] # Waiting /\ url' = Followed(u) /\ answer' = [answer EXCEPT ![u] = Waiting]
      /\ UNCHANGED <<mode, fleet, FLEETIDX, thread, known, up, late, restarts>> /\ TypeOK
  BY DEF Follow, IInv
<1>2. /\ url'[u] = IF answer[u] = None THEN url[u] ELSE answer[u]
      /\ \A w \in Users : w # u => url'[w] = url[w] /\ answer'[w] = answer[w]
      /\ answer'[u] = Waiting
      /\ url' \in [Users -> DOMAIN fleet] /\ answer' \in [Users -> {Waiting, None} \cup DOMAIN fleet]
  BY <1>1 DEF Followed, TypeOK
<1>3. Alive' = Alive /\ Replaced' = Replaced /\ Following' = Following /\ Following \subseteq Users
  BY <1>1, SameFleet DEF Following
<1>4. AtHome'
  BY <1>1, <1>2, <1>3 DEF IInv, FleetInv, AtHome
<1>5. ASSUME NEW w \in Following PROVE OneBehind(w)'
  <2>1. OneBehind(w)
    BY DEF IInv, FleetInv
  <2>2. QED
    BY <1>1, <1>2, <1>3, <2>1 DEF OneBehind
<1>6. ASSUME Productive, Following # {}, NEW t \in DOMAIN thread
      PROVE  InOrder(thread[t]) /\ \A w \in Following : Placed(w, thread[t])'
  <2>1. InOrder(thread[t]) /\ \A w \in Following : Placed(w, thread[t])
    BY <1>6 DEF IInv, FollowInv
  <2>2. None \notin Listed(thread[t].list)
    <3>1. Listed(thread[t].list) \subseteq DOMAIN fleet /\ DOMAIN fleet \subseteq Nat \ {0}
      BY <1>1 DEF TypeOK
    <3>2. QED
      BY <3>1 DEF None
  <2>3. QED
    BY <1>1, <1>2, <1>3, <2>1, <2>2 DEF Placed, Before, Last
<1>7. QED
  BY <1>1, <1>2, <1>3, <1>4, <1>5, <1>6, ProxyStep DEF TypeOK

LEMMA PollFailsKeeps ==
  ASSUME IInv, NEW u \in Users, PollFails(u)
  PROVE  IInv'
<1>1. /\ up' = [up EXCEPT ![u] = FALSE] /\ TypeOK
      /\ UNCHANGED <<mode, fleet, FLEETIDX, thread, known, url, answer, late, restarts>>
  BY DEF PollFails, IInv
<1>2. /\ Following' \subseteq Following /\ up' \in [Users -> BOOLEAN]
      /\ Alive' = Alive /\ Replaced' = Replaced
  BY <1>1, SameFleet DEF Following, TypeOK
<1>3. AtHome' /\ \A w \in Following' : OneBehind(w)'
  BY <1>1, <1>2 DEF IInv, FleetInv, AtHome, OneBehind
<1>4. ASSUME Productive, Following' # {}, NEW t \in DOMAIN thread
      PROVE  InOrder(thread[t]) /\ \A w \in Following' : Placed(w, thread[t])'
  <2>1. InOrder(thread[t]) /\ \A w \in Following : Placed(w, thread[t])
    BY <1>2, <1>4 DEF IInv, FollowInv
  <2>2. QED
    BY <1>1, <1>2, <2>1 DEF Placed, Before, Last
<1>5. QED
  BY <1>1, <1>2, <1>3, <1>4, ProxyStep DEF TypeOK

LEMMA InitIInv == Init => IInv
<1> SUFFICES ASSUME Init PROVE IInv
  OBVIOUS
<1>1. /\ fleet = <<Function(NoFleet)>> /\ mode \in Modes /\ thread = Fresh(mode)
      /\ Function(NoFleet) \in FunctionType /\ Function(NoFleet).next = None
      /\ Function(NoFleet).alive /\ Function(NoFleet).fleet = NoFleet
  BY DEF Init, Function, FunctionType, None
<1>2. /\ fleet \in Seq(FunctionType) /\ DOMAIN fleet = {Initial} /\ fleet[Initial] = Function(NoFleet)
  BY <1>1 DEF Initial
<1>3. TypeOK
  <2>1. /\ thread \in [Threads(mode) -> ThreadType] /\ mode.count \in Nat /\ Listed(<<>>) = {}
        /\ \A t \in DOMAIN thread : thread[t].todo = 0 /\ thread[t].list = <<>> /\ thread[t].prev = <<>>
    BY <1>1, FreshThreads, ListedEmpty, MigrationAssumption
  <2>2. 0 \in 0 .. MaxRestarts
    BY MigrationAssumption
  <2>3. QED
    <3>1. /\ url \in [Users -> DOMAIN fleet] /\ up \in [Users -> BOOLEAN] /\ late \in [Users -> BOOLEAN]
          /\ answer \in [Users -> {Waiting, None} \cup DOMAIN fleet] /\ known \subseteq DOMAIN fleet
          /\ FLEETIDX \in Nat /\ restarts \in 0 .. MaxRestarts
      BY <1>2, <2>2 DEF Init
    <3>2. \A f \in DOMAIN fleet : fleet[f].next \in ({None} \cup DOMAIN fleet) \ {f}
      BY <1>1, <1>2 DEF None, Initial
    <3>3. \A t \in DOMAIN thread :
            /\ thread[t].todo <= mode.count
            /\ Listed(thread[t].list) \cup Listed(thread[t].prev) \subseteq DOMAIN fleet
      BY <2>1
    <3>4. QED
      BY <1>1, <1>2, <2>1, <3>1, <3>2, <3>3 DEF TypeOK
<1>4. Replaced = {} /\ Alive = {Initial} /\ Following = {}
  BY <1>1, <1>2 DEF Init, Replaced, Alive, Following
<1>5. AtHome /\ FleetInv
  BY <1>1, <1>2, <1>4 DEF Init, AtHome, FleetInv, FirstReplaced, Graves, TagsAreKnown
<1>6. \A t \in DOMAIN thread : ThreadInv(thread[t]) /\ FollowInv(thread[t])
  <2>1. ASSUME NEW t \in Threads(mode) PROVE ThreadInv(thread[t])
    <3>1. /\ thread[t].pc = "batch" /\ thread[t].remaining = mode.count
          /\ thread[t].list = <<>> /\ thread[t].prev = <<>> /\ Listed(<<>>) = {}
          /\ mode.count \in Nat \ {0}
      BY <1>1, FreshThreads, ListedEmpty, MigrationAssumption
    <3>2. QED
      BY <3>1 DEF ThreadInv, TagsGrow, Reached, OneByOne, Functions, Deleting, Before
  <2>2. QED
    BY <1>3, <1>4, <2>1 DEF FollowInv, TypeOK
<1>7. QED
  BY <1>3, <1>5, <1>6 DEF IInv

\* The invariant is inductive.
THEOREM MigrationInductive == Spec => []IInv
<1>1. IInv /\ [Next]_vars => IInv'
  <2> SUFFICES ASSUME IInv, [Next]_vars PROVE IInv'
    OBVIOUS
  <2>1. ASSUME NEW t \in DOMAIN thread, ThreadStep(t) PROVE IInv'
    BY <2>1, StartBatchKeeps, CreateFunctionKeeps, LookupKeeps, RefusedKeeps, NotifyKeeps,
       WakeFirstKeeps, WakeKeeps, DeleteKeeps, EndRoundKeeps DEF ThreadStep
  <2>2. CASE Restart
    BY <2>2, RestartKeeps
  <2>3. ASSUME NEW u \in Users, Start(u) \/ Poll(u) \/ Follow(u) \/ PollFails(u) PROVE IInv'
    BY <2>3, StartKeeps, PollKeeps, FollowKeeps, PollFailsKeeps
  <2>4. CASE UNCHANGED vars
    <3>1. UNCHANGED <<mode, fleet, FLEETIDX, thread, known, url, up, answer, late, restarts>>
      BY <2>4 DEF vars
    <3>2. TypeOK'
      BY <3>1 DEF IInv, TypeOK
    <3>3. FleetInv'
      BY <3>1 DEF IInv, FleetInv, FirstReplaced, Graves, TagsAreKnown, AtHome, OneBehind, Following,
         Alive, Replaced, Productive
    <3>4. Alive' = Alive /\ Replaced' = Replaced /\ Productive' = Productive /\ Following' = Following
      BY <3>1 DEF Alive, Replaced, Productive, Following
    <3>5. ASSUME NEW t \in DOMAIN thread PROVE ThreadInv(thread[t])'
      <4>1. TagsGrow(thread[t]) /\ Reached(thread[t]) /\ (Productive => OneByOne(thread[t]))
        BY DEF IInv, ThreadInv
      <4>2. TagsGrow(thread[t])'
        BY <3>1, <4>1 DEF TagsGrow, Functions
      <4>3. Reached(thread[t])'
        BY <3>1, <3>4, <4>1 DEF Reached, Deleting
      <4>4. (Productive => OneByOne(thread[t]))'
        BY <3>1, <3>4, <4>1 DEF OneByOne, Before, Deleting
      <4>5. QED
        BY <4>2, <4>3, <4>4 DEF ThreadInv
    <3>6. ASSUME NEW t \in DOMAIN thread PROVE FollowInv(thread[t])'
      <4>1. FollowInv(thread[t])
        BY DEF IInv
      <4>2. InOrder(thread[t]) => InOrder(thread[t])'
        BY <3>1, <3>4 DEF InOrder, Before
      <4>3. \A u \in Following : Placed(u, thread[t]) => Placed(u, thread[t])'
        BY <3>1 DEF Placed, Before, Last
      <4>4. QED
        BY <3>4, <4>1, <4>2, <4>3 DEF FollowInv
    <3>7. QED
      BY <3>1, <3>2, <3>3, <3>5, <3>6 DEF IInv
  <2>5. QED
    BY <2>1, <2>2, <2>3, <2>4 DEF Next
<1>2. QED
  BY InitIInv, <1>1, PTL DEF Spec

\* A local proxy that has been there since before the first migration is never on a
\* deleted function nor on its way to one (getNextURL, rejuvenate).
THEOREM NobodyIsStranded == Spec => []NobodyStranded
<1>1. IInv => NobodyStranded
  BY DEF IInv, TypeOK, FleetInv, OneBehind, NobodyStranded, Following, Alive
<1>2. QED
  BY <1>1, MigrationInductive, PTL

\* No function is deleted without a successor, and tags only lead where the controller
\* knows the function.
THEOREM TagsAlwaysLeadOn == Spec => []TagsLeadOn
<1>1. IInv => TagsLeadOn
  <2> SUFFICES ASSUME IInv PROVE TagsLeadOn
    OBVIOUS
  <2>1. ReplacedBeforeDeleted
    <3>1. ASSUME NEW f \in DOMAIN fleet \ Alive, ~mode.quick
          PROVE  fleet[f].next # None /\ (fleet[f].next \in Alive \/ fleet[fleet[f].next].next # None)
      BY <3>1 DEF IInv, TypeOK, FleetInv, Graves, Replaced
    <3>2. QED
      BY <3>1 DEF ReplacedBeforeDeleted
  <2>2. QED
    BY <2>1 DEF IInv, FleetInv, TagsLeadOn
<1>2. QED
  BY <1>1, MigrationInductive, PTL

--------------------------------------------------------------------------------
(***************************************************************************)
(* How many functions there are                                            *)
(***************************************************************************)

HasNoEmpty(T) == {} \notin {T.list[i] : i \in DOMAIN T.list}
Made(T)       == {f \in DOMAIN fleet : fleet[f].fleet = T.tag}

\* A lone thread finds no tags but its own.
Lone == (\E t \in Threads(mode) : Threads(mode) = {t}) /\ restarts = 0

\* What a thread has found and what it still has to create make up the fleet.
Counted(T) ==
  /\ T.pc \in {"batch", "create"} => T.remaining + Cardinality(Listed(T.list)) = mode.count
  /\ T.pc \in {"notify", "sleep"} => Cardinality(Listed(T.list)) >= mode.count
  /\ T.pc \in {"notify", "sleep", "delete", "done"} => HasNoEmpty(T)

\* A lone thread finds no more than it created in this batch.
AsOrdered(T) ==
  /\ T.pc = "create" => /\ T.tag = FLEETIDX /\ (\A f \in DOMAIN fleet : fleet[f].fleet <= FLEETIDX)
                        /\ Cardinality(Made(T)) + T.todo <= T.remaining
  /\ T.pc # "create" => \A f \in DOMAIN fleet : fleet[f].fleet < FLEETIDX
  /\ T.pc \in {"notify", "sleep"} => Cardinality(Listed(T.list)) = mode.count

\* What a lone thread with fleets of one leaves in its lists is all there is.
AllListed(T) ==
  /\ T.list = <<>> \/ \E y \in DOMAIN fleet : T.list = <<{y}>>
  /\ T.prev = <<>> \/ \E x \in DOMAIN fleet : T.prev = <<{x}>>
  /\ T.pc \in {"batch", "create"} => T.list = <<>>
  /\ Alive \ {Initial} \subseteq
       (CASE T.pc = "create" -> Functions(T) \cup Made(T)
          [] T.pc = "delete" /\ mode.quick -> Listed(T.prev)
          [] T.pc = "done" -> {}
          [] OTHER -> Functions(T))

CountInv ==
  \A t \in DOMAIN thread :
    LET T == thread[t]
    IN  /\ Counted(T)
        /\ Lone /\ T.pc # "dead" => AsOrdered(T)
        /\ Lone /\ T.pc # "dead" /\ mode.count = 1 /\ HasNoEmpty(T) => AllListed(T)

\* What CountInv says of one thread.
CountOf(T) ==
  /\ Counted(T)
  /\ Lone /\ T.pc # "dead" => AsOrdered(T)
  /\ Lone /\ T.pc # "dead" /\ mode.count = 1 /\ HasNoEmpty(T) => AllListed(T)

LEMMA CountStep ==
  ASSUME IInv, CountInv, NEW t \in DOMAIN thread, Moves(t), restarts' = restarts, CountOf(thread[t])'
  PROVE  CountInv'
<1>1. DOMAIN thread' = DOMAIN thread /\ mode' = mode /\ DOMAIN thread = Threads(mode)
  BY DEF Moves, IInv, TypeOK
<1>2. ASSUME NEW s \in DOMAIN thread, s # t PROVE CountOf(thread[s])'
  <2>1. ~Lone'
    BY <1>1, <1>2 DEF Lone
  <2>2. thread'[s] = thread[s] /\ Counted(thread[s])
    BY <1>2 DEF CountInv, Moves
  <2>3. QED
    BY <1>1, <2>1, <2>2 DEF CountOf, Counted, HasNoEmpty
<1>3. QED
  BY <1>1, <1>2 DEF CountInv, CountOf

\* The step of a thread that leaves fleet, FLEETIDX and restarts alone.
LEMMA SameCount ==
  ASSUME UNCHANGED <<mode, fleet, FLEETIDX, restarts>>
  PROVE  Lone' = Lone /\ Alive' = Alive
BY DEF Lone, Alive

LEMMA CountDies ==
  ASSUME IInv, CountInv, NEW t \in DOMAIN thread, Dies(t), mode' = mode, restarts' = restarts
  PROVE  CountInv'
<1>1. Becomes(t, [thread[t] EXCEPT !.pc = "dead"]) /\ thread[t] \in ThreadType
  BY DiesEffect DEF IInv, TypeOK
<1>2. Moves(t) /\ thread'[t].pc = "dead"
  BY <1>1 DEF Becomes, ThreadType
<1>3. QED
  BY <1>2, CountStep DEF CountOf, Counted

LEMMA CountStartBatch ==
  ASSUME IInv, CountInv, NEW t \in DOMAIN thread, StartBatch(t)
  PROVE  CountInv'
<1>1. /\ thread[t] \in ThreadType /\ thread[t].pc = "batch" /\ thread[t].remaining \in Nat /\ FLEETIDX \in Nat
      /\ UNCHANGED <<mode, fleet, FLEETIDX, restarts>>
  <2>1. mode.count \in Nat
    BY MigrationAssumption DEF IInv, TypeOK
  <2>2. QED
    BY <2>1 DEF IInv, ThreadInv, TypeOK, StartBatch, At, Reached, users
<1>2. Becomes(t, [thread[t] EXCEPT !.pc = "create", !.tag = FLEETIDX, !.todo = thread[t].remaining])
  BY <1>1, StartBatchEffect DEF IInv
<1>3. /\ Moves(t) /\ thread'[t].pc = "create" /\ thread'[t].tag = FLEETIDX
      /\ thread'[t].todo = thread[t].remaining /\ thread'[t].remaining = thread[t].remaining
      /\ thread'[t].list = thread[t].list /\ thread'[t].prev = thread[t].prev
  BY <1>1, <1>2 DEF Becomes, ThreadType
<1>4. CountOf(thread[t])
  BY DEF CountInv, CountOf
<1>5. Lone' = Lone /\ Alive' = Alive
  BY <1>1, SameCount
<1>6. Counted(thread[t])' /\ (HasNoEmpty(thread[t])' => HasNoEmpty(thread[t]))
  BY <1>1, <1>3, <1>4 DEF CountOf, Counted, HasNoEmpty
<1>7. ASSUME Lone PROVE AsOrdered(thread[t])'
  <2>1. \A f \in DOMAIN fleet : fleet[f].fleet < FLEETIDX /\ fleet[f].fleet \in Int
    <3>1. \A f \in DOMAIN fleet : fleet[f] \in FunctionType
      BY DEF IInv, TypeOK
    <3>2. QED
      BY <1>1, <1>4, <1>7, <3>1 DEF CountOf, AsOrdered, FunctionType, NoFleet
  <2>2. Made(thread[t])' = {}
    BY <1>1, <1>3, <2>1 DEF Made
  <2>3. Cardinality(Made(thread[t])') = 0
    BY <2>2, FS_EmptySet
  <2>4. QED
    BY <1>1, <1>3, <2>1, <2>3 DEF AsOrdered
<1>8. ASSUME Lone, mode.count = 1, HasNoEmpty(thread[t]) PROVE AllListed(thread[t])'
  <2>1. AllListed(thread[t])
    BY <1>1, <1>4, <1>8 DEF CountOf
  <2>2. QED
    BY <1>1, <1>3, <1>5, <2>1 DEF AllListed, Functions
<1>9. CountOf(thread[t])'
  BY <1>1, <1>3, <1>5, <1>6, <1>7, <1>8 DEF CountOf
<1>10. QED
  BY <1>1, <1>3, <1>9, CountStep

LEMMA CountCreateFunction ==
  ASSUME IInv, CountInv, NEW t \in DOMAIN thread, CreateFunction(t)
  PROVE  CountInv'
<1>1. /\ thread[t] \in ThreadType /\ thread[t].pc = "create" /\ thread[t].todo > 0 /\ FLEETIDX \in Nat
      /\ thread[t].tag \in Nat /\ UNCHANGED <<mode, FLEETIDX, restarts>>
  BY DEF IInv, TypeOK, CreateFunction, At, users, ThreadType
<1>2. CASE Dies(t)
  BY <1>1, <1>2, CountDies
<1>3. ASSUME fleet' = Append(fleet, Function(thread[t].tag)), thread' = [thread EXCEPT ![t].todo = @ - 1]
      PROVE  CountInv'
  <2>1. Becomes(t, [thread[t] EXCEPT !.todo = @ - 1])
    BY <1>1, <1>3, CreatedEffect DEF IInv
  <2>2. /\ Moves(t) /\ thread'[t].pc = "create" /\ thread'[t].tag = thread[t].tag
        /\ thread'[t].list = thread[t].list /\ thread'[t].prev = thread[t].prev
        /\ thread'[t].remaining = thread[t].remaining
        /\ thread'[t].todo = thread[t].todo - 1 /\ thread[t].todo \in Nat /\ thread[t].remaining \in Int
    BY <1>1, <2>1 DEF Becomes, ThreadType
  <2>3. Function(thread[t].tag) \in FunctionType /\ Function(thread[t].tag).fleet = thread[t].tag
    BY <1>1 DEF Function, FunctionType, None
  <2>4. /\ DOMAIN fleet' = DOMAIN fleet \cup {Len(fleet) + 1} /\ Len(fleet) + 1 \notin DOMAIN fleet
        /\ fleet'[Len(fleet) + 1].fleet = thread[t].tag
        /\ \A g \in DOMAIN fleet : fleet'[g] = fleet[g]
    BY <1>3, <2>3, Append_fleet DEF IInv
  <2>5. Alive' \subseteq Alive \cup {Len(fleet) + 1}
    BY <2>4 DEF Alive
  <2>6. Made(thread[t])' = Made(thread[t]) \cup {Len(fleet) + 1} /\ Len(fleet) + 1 \notin Made(thread[t])
    BY <2>2, <2>4 DEF Made
  <2>7. /\ Cardinality(Made(thread[t])') = Cardinality(Made(thread[t])) + 1
        /\ Cardinality(Made(thread[t])) \in Nat
    <3>1. IsFiniteSet(Made(thread[t])) /\ Cardinality(Made(thread[t])) \in Nat
      BY FoundFinite DEF IInv, Made
    <3>2. QED
      BY <2>6, <3>1, FS_AddElement
  <2>8. CountOf(thread[t]) /\ Lone' = Lone
    BY <1>1 DEF CountInv, CountOf, Lone
  <2>9. Counted(thread[t])' /\ (HasNoEmpty(thread[t])' => HasNoEmpty(thread[t]))
    BY <1>1, <2>2, <2>8 DEF CountOf, Counted, HasNoEmpty
  <2>10. ASSUME Lone PROVE AsOrdered(thread[t])'
    <3>1. AsOrdered(thread[t])
      BY <1>1, <2>8, <2>10 DEF CountOf
    <3>2. thread[t].tag = FLEETIDX /\ Cardinality(Made(thread[t])) + thread[t].todo <= thread[t].remaining
      BY <1>1, <3>1 DEF AsOrdered
    <3>3. Cardinality(Made(thread[t])') + thread'[t].todo <= thread'[t].remaining
      BY <2>2, <2>7, <3>2
    <3>4. \A f \in DOMAIN fleet' : fleet'[f].fleet <= FLEETIDX
      BY <1>1, <2>4, <3>1, <3>2 DEF AsOrdered
    <3>5. QED
      BY <1>1, <2>2, <3>2, <3>3, <3>4 DEF AsOrdered
  <2>11. ASSUME Lone, mode.count = 1, HasNoEmpty(thread[t]) PROVE AllListed(thread[t])'
    <3>1. AllListed(thread[t])
      BY <1>1, <2>8, <2>11 DEF CountOf
    <3>2. Alive \ {Initial} \subseteq Functions(thread[t]) \cup Made(thread[t])
      BY <1>1, <3>1 DEF AllListed
    <3>3. Alive' \ {Initial} \subseteq Functions(thread[t]) \cup Made(thread[t])'
      BY <2>5, <2>6, <3>2
    <3>4. QED
      BY <1>1, <2>2, <2>4, <3>1, <3>3 DEF AllListed, Functions
  <2>12. CountOf(thread[t])'
    BY <1>1, <2>2, <2>8, <2>9, <2>10, <2>11 DEF CountOf
  <2>13. QED
    BY <1>1, <2>2, <2>12, CountStep
<1>4. QED
  BY <1>2, <1>3 DEF CreateFunction

\* A set with at most one element is empty or a singleton; one with two at the most
\* has two at the most.
LEMMA AtMostOne ==
  ASSUME NEW S, IsFiniteSet(S), Cardinality(S) <= 1, NEW x \in S
  PROVE  S = {x}
<1>1. Cardinality(S) \in Nat /\ Cardinality(S) # 0
  BY FS_CardinalityType, FS_EmptySet
<1>2. Cardinality(S) = 1
  BY <1>1
<1>3. QED
  BY <1>2, FS_Singleton

LEMMA AtMostTwo ==
  ASSUME NEW x, NEW y, NEW S \in SUBSET {x, y}
  PROVE  Cardinality(S) <= 2
<1>1. IsFiniteSet({x}) /\ Cardinality({x}) = 1
  BY FS_Singleton
<1>2. /\ IsFiniteSet({x} \cup {y})
      /\ Cardinality({x} \cup {y}) = IF y \in {x} THEN Cardinality({x}) ELSE Cardinality({x}) + 1
  BY <1>1, FS_AddElement
<1>3. {x, y} = {x} \cup {y}
  OBVIOUS
<1>4. Cardinality(S) <= Cardinality({x, y}) /\ Cardinality(S) \in Nat
  BY <1>2, <1>3, FS_Subset, FS_CardinalityType
<1>5. Cardinality({x, y}) <= 2
  BY <1>1, <1>2, <1>3
<1>6. QED
  BY <1>2, <1>3, <1>4, <1>5, FS_CardinalityType

LEMMA CountLookup ==
  ASSUME IInv, CountInv, NEW t \in DOMAIN thread, Lookup(t)
  PROVE  CountInv'
<1>1. /\ thread[t] \in ThreadType /\ thread[t].pc = "create" /\ thread[t].todo = 0 /\ mode.count \in Nat
      /\ FLEETIDX \in Nat /\ FLEETIDX' = FLEETIDX + 1 /\ thread[t].remaining \in 1 .. mode.count
      /\ thread[t].list \in Seq(SUBSET Nat)
      /\ UNCHANGED <<mode, fleet, restarts>>
  BY MigrationAssumption DEF IInv, TypeOK, ThreadInv, Reached, Lookup, At, ThreadType, users
<1>2. PICK found \in SUBSET Tagged(thread[t].tag) :
        /\ Becomes(t, AfterLookup(t, found)) /\ Rest(t, found) \in Int
        /\ Listed(AfterLookup(t, found).list) = Listed(thread[t].list) \cup found
  BY LookupEffect DEF IInv
<1>3. /\ Moves(t) /\ thread'[t].remaining = Rest(t, found) /\ thread'[t].prev = thread[t].prev
      /\ Listed(thread'[t].list) = Listed(thread[t].list) \cup found
      /\ thread'[t].list = Append(thread[t].list, found)
      /\ Rest(t, found) > 0 => thread'[t].pc = "batch"
      /\ ~(Rest(t, found) > 0) => /\ thread'[t].pc \in {"dead", "sleep", "notify"}
                                  /\ thread'[t].pc = "dead" \/ HasNoEmpty(thread'[t])
  <2>1. thread'[t] = AfterLookup(t, found)
    BY <1>2 DEF Becomes
  <2>2. ~(Rest(t, found) > 0) => thread'[t].pc \in {"dead", "sleep", "notify"}
    BY <1>1, <2>1 DEF AfterLookup, ThreadType
  <2>3. thread'[t].list = Append(thread[t].list, found)
    BY <1>1, <2>1 DEF AfterLookup, ThreadType
  <2>4. ~(Rest(t, found) > 0) /\ thread'[t].pc # "dead" => HasNoEmpty(thread'[t])
    <3>1. ASSUME ~(Rest(t, found) > 0), \E i \in DOMAIN Append(thread[t].list, found) : Append(thread[t].list, found)[i] = {}
          PROVE  thread'[t].pc = "dead"
      BY <1>1, <2>1, <3>1 DEF AfterLookup, ThreadType
    <3>2. QED
      BY <2>3, <3>1 DEF HasNoEmpty
  <2>5. QED
    BY <1>1, <1>2, <2>1, <2>2, <2>3, <2>4 DEF Becomes, AfterLookup, ThreadType
<1>4. /\ found \subseteq DOMAIN fleet /\ found \subseteq Made(thread[t]) /\ IsFiniteSet(found)
      /\ Cardinality(found) \in Nat /\ (found = {} <=> Cardinality(found) = 0)
      /\ IsFiniteSet(Listed(thread[t].list)) /\ Cardinality(Listed(thread[t].list)) \in Nat
      /\ Rest(t, found) = thread[t].remaining - Cardinality(found)
      /\ IsFiniteSet(Made(thread[t])) /\ Cardinality(Made(thread[t])) \in Nat
  <2>1. found \subseteq DOMAIN fleet /\ found \subseteq Made(thread[t]) /\ Made(thread[t]) \subseteq DOMAIN fleet
    BY DEF Tagged, Made
  <2>2. Listed(thread[t].list) \subseteq DOMAIN fleet
    BY DEF IInv, TypeOK
  <2>3. QED
    BY <2>1, <2>2, FoundFinite, FS_EmptySet DEF IInv, Rest
<1>5. \A f \in found : f \notin Listed(thread[t].list)
  <2>1. \A f \in Listed(thread[t].list) : fleet[f].fleet \in 0 .. FLEETIDX - 1 /\ fleet[f].fleet < thread[t].tag
    BY <1>1 DEF IInv, ThreadInv, TagsGrow, Functions
  <2>2. \A f \in found : fleet[f].fleet = thread[t].tag
    BY DEF Tagged
  <2>3. QED
    BY <1>1, <2>1, <2>2
<1>6. Cardinality(Listed(thread'[t].list)) = Cardinality(Listed(thread[t].list)) + Cardinality(found)
  <2>1. Listed(thread[t].list) \cap found = {}
    BY <1>5
  <2>2. Cardinality(Listed(thread[t].list) \cap found) = 0
    BY <2>1, FS_EmptySet
  <2>3. Cardinality(Listed(thread[t].list) \cup found)
          = Cardinality(Listed(thread[t].list)) + Cardinality(found) - Cardinality(Listed(thread[t].list) \cap found)
    BY <1>4, FS_Union
  <2>4. QED
    BY <1>3, <1>4, <2>2, <2>3
<1>7. CountOf(thread[t]) /\ Lone' = Lone /\ Alive' = Alive
  BY <1>1 DEF CountInv, CountOf, Lone, Alive
<1>8. thread[t].remaining + Cardinality(Listed(thread[t].list)) = mode.count
  BY <1>1, <1>7 DEF CountOf, Counted
<1>9. Counted(thread[t])'
  <2>1. thread'[t].remaining + Cardinality(Listed(thread'[t].list)) = mode.count
    BY <1>1, <1>3, <1>4, <1>6, <1>8
  <2>2. ~(Rest(t, found) > 0) => Cardinality(Listed(thread'[t].list)) >= mode.count
    BY <1>1, <1>3, <1>4, <1>6, <1>8
  <2>3. QED
    BY <1>1, <1>3, <2>1, <2>2 DEF Counted, HasNoEmpty
<1>10. ASSUME Lone, thread'[t].pc # "dead" PROVE AsOrdered(thread[t])' /\ Cardinality(Made(thread[t])) <= thread[t].remaining
  <2>1. AsOrdered(thread[t])
    BY <1>1, <1>7, <1>10 DEF CountOf
  <2>2. Cardinality(Made(thread[t])) <= thread[t].remaining
    BY <1>1, <1>4, <2>1 DEF AsOrdered
  <2>3. Cardinality(found) <= Cardinality(Made(thread[t]))
    BY <1>4, FS_Subset
  <2>4. Cardinality(found) <= thread[t].remaining
    BY <1>1, <1>4, <2>2, <2>3
  <2>5. ~(Rest(t, found) > 0) => Cardinality(Listed(thread'[t].list)) = mode.count
    BY <1>1, <1>4, <1>6, <1>8, <2>4
  <2>6. \A f \in DOMAIN fleet : fleet[f].fleet < FLEETIDX'
    <3>1. \A f \in DOMAIN fleet : fleet[f].fleet <= FLEETIDX
      BY <1>1, <2>1 DEF AsOrdered
    <3>2. \A f \in DOMAIN fleet : fleet[f] \in FunctionType
      BY DEF IInv, TypeOK
    <3>3. QED
      BY <1>1, <3>1, <3>2 DEF FunctionType, NoFleet
  <2>7. QED
    BY <1>1, <1>3, <2>2, <2>5, <2>6 DEF AsOrdered
<1>11. ASSUME Lone, thread'[t].pc # "dead", mode.count = 1, HasNoEmpty(thread'[t]) PROVE AllListed(thread[t])'
  <2>1. HasNoEmpty(thread[t]) /\ found # {}
    <3>1. \A i \in DOMAIN thread[t].list :
            i \in DOMAIN thread'[t].list /\ thread'[t].list[i] = thread[t].list[i]
      BY <1>1, <1>3, <1>4, FoundFinite DEF IInv
    <3>2. /\ Len(thread[t].list) + 1 \in DOMAIN thread'[t].list
          /\ thread'[t].list[Len(thread[t].list) + 1] = found
      BY <1>1, <1>3, <1>4, FoundFinite DEF IInv
    <3>3. QED
      BY <1>11, <3>1, <3>2 DEF HasNoEmpty
  <2>2. AllListed(thread[t]) /\ thread[t].list = <<>>
    BY <1>1, <1>7, <1>11, <2>1 DEF CountOf, AllListed
  <2>3. thread[t].remaining = 1
    BY <1>1, <1>11
  <2>4. PICK y \in found : TRUE
    BY <2>1
  <2>5. Made(thread[t]) = {y} /\ found = {y} /\ y \in DOMAIN fleet
    <3>1. Cardinality(Made(thread[t])) <= 1 /\ y \in Made(thread[t])
      BY <1>4, <1>10, <1>11, <2>3, <2>4
    <3>2. Made(thread[t]) = {y}
      BY <1>4, <3>1, AtMostOne
    <3>3. QED
      BY <1>4, <2>4, <3>2
  <2>6. Cardinality(found) = 1
    BY <2>5, FS_Singleton
  <2>7. thread'[t].pc \in {"sleep", "notify"} /\ thread'[t].list = <<{y}>>
    <3>1. ~(Rest(t, found) > 0)
      BY <1>4, <2>3, <2>6
    <3>2. Append(<<>>, {y}) = <<{y}>>
      OBVIOUS
    <3>3. QED
      BY <1>3, <1>11, <2>2, <2>5, <3>1, <3>2
  <2>8. Alive \ {Initial} \subseteq Functions(thread[t]) \cup found
    BY <1>1, <2>2, <2>5 DEF AllListed
  <2>9. Alive \ {Initial} \subseteq Functions(thread'[t])
    BY <1>3, <2>8 DEF Functions
  <2>10. QED
    BY <1>1, <1>3, <1>7, <2>2, <2>5, <2>7, <2>9 DEF AllListed, Functions
<1>12. CountOf(thread[t])'
  BY <1>1, <1>7, <1>9, <1>10, <1>11 DEF CountOf, HasNoEmpty
<1>13. QED
  BY <1>1, <1>3, <1>12, CountStep

LEMMA CountNotify ==
  ASSUME IInv, CountInv, NEW t \in DOMAIN thread, Notify(t)
  PROVE  CountInv'
<1>1. /\ thread[t] \in ThreadType /\ thread[t].pc = "notify" /\ FLEETIDX \in Nat
      /\ UNCHANGED <<mode, FLEETIDX, restarts>>
  BY DEF IInv, TypeOK, Notify, At, users
<1>2. CASE Dies(t)
  BY <1>1, <1>2, CountDies
<1>3. ASSUME NEW old \in Old(t), NEW new \in Listed(thread[t].list), Swappable(t, old),
             fleet' = Named(old, new), thread' = [thread EXCEPT ![t].pc = "sleep", ![t].heard = {}]
      PROVE  CountInv'
  <2>1. old \in DOMAIN fleet /\ new \in DOMAIN fleet
    BY <1>1, <1>3, WhoIsNamed DEF Alive
  <2>2. /\ DOMAIN fleet' = DOMAIN fleet /\ Alive' = Alive
        /\ \A f \in DOMAIN fleet : fleet'[f].fleet = fleet[f].fleet
    BY <1>3, <2>1, NamedFleet DEF IInv
  <2>3. Becomes(t, [thread[t] EXCEPT !.pc = "sleep", !.heard = {}])
    BY <1>1, <1>3, NotifyEffect DEF IInv
  <2>4. /\ Moves(t) /\ thread'[t].pc = "sleep" /\ thread'[t].list = thread[t].list
        /\ thread'[t].prev = thread[t].prev
    BY <1>1, <2>3 DEF Becomes, ThreadType
  <2>5. CountOf(thread[t]) /\ Lone' = Lone
    BY <1>1 DEF CountInv, CountOf, Lone
  <2>6. Counted(thread[t])'
    BY <1>1, <2>4, <2>5 DEF CountOf, Counted, HasNoEmpty
  <2>7. ASSUME Lone PROVE AsOrdered(thread[t])'
    BY <1>1, <2>2, <2>4, <2>5, <2>7 DEF CountOf, AsOrdered
  <2>8. ASSUME Lone, mode.count = 1, HasNoEmpty(thread[t]) PROVE AllListed(thread[t])'
    <3>1. AllListed(thread[t])
      BY <1>1, <2>5, <2>8 DEF CountOf
    <3>2. QED
      BY <1>1, <2>2, <2>4, <3>1 DEF AllListed, Functions
  <2>9. CountOf(thread[t])'
    BY <1>1, <2>4, <2>5, <2>6, <2>7, <2>8 DEF CountOf, HasNoEmpty
  <2>10. QED
    BY <1>1, <2>4, <2>9, CountStep
<1>4. QED
  BY <1>2, <1>3 DEF Notify

\* The new functions become the old ones; whatever there was before has been deleted.
LEMMA CountNextRound ==
  ASSUME IInv, CountInv, NEW t \in DOMAIN thread, thread[t].pc \in {"sleep", "delete"}, ~mode.quick,
         thread[t].prev = <<>>, thread' = [thread EXCEPT ![t] = NextRound(t)],
         UNCHANGED <<mode, fleet, FLEETIDX, restarts>>
  PROVE  CountInv'
<1>1. thread[t] \in ThreadType /\ mode.count \in Nat
  BY MigrationAssumption DEF IInv, TypeOK
<1>2. Becomes(t, NextRound(t))
  BY <1>1, NextRoundEffect DEF IInv
<1>3. /\ Moves(t) /\ thread'[t].pc = "batch" /\ thread'[t].remaining = mode.count
      /\ thread'[t].list = <<>> /\ thread'[t].prev = thread[t].list
      /\ Listed(<<>>) = {} /\ Cardinality({}) = 0
  BY <1>1, <1>2, ListedEmpty, FS_EmptySet DEF Becomes, NextRound, ThreadType
<1>4. CountOf(thread[t]) /\ Lone' = Lone /\ Alive' = Alive
  BY SameCount DEF CountInv, CountOf
<1>5. Counted(thread[t])'
  <2>1. Cardinality(Listed(thread'[t].list)) = 0
    BY <1>3
  <2>2. QED
    BY <1>1, <1>3, <2>1 DEF Counted
<1>6. ASSUME Lone PROVE AsOrdered(thread[t])'
  BY <1>3, <1>4, <1>6 DEF CountOf, AsOrdered
<1>7. ASSUME Lone, mode.count = 1 PROVE AllListed(thread[t])'
  <2>1. AllListed(thread[t]) /\ HasNoEmpty(thread[t])
    BY <1>4, <1>7 DEF CountOf, Counted
  <2>2. QED
    BY <1>3, <1>4, <2>1 DEF AllListed, Functions
<1>8. CountOf(thread[t])'
  BY <1>4, <1>5, <1>6, <1>7 DEF CountOf
<1>9. QED
  BY <1>3, <1>8, CountStep

LEMMA CountWake ==
  ASSUME IInv, CountInv, NEW t \in DOMAIN thread, Wake(t)
  PROVE  CountInv'
<1>1. /\ thread[t] \in ThreadType /\ thread[t].pc = "sleep"
      /\ UNCHANGED <<mode, fleet, FLEETIDX, restarts>>
      /\ mode.quick => thread[t].prev = <<>>
  BY DEF Wake, At, users, IInv, TypeOK, ThreadInv, Reached
<1>2. Becomes(t, [thread[t] EXCEPT !.pc = "delete", !.prev = Doomed(t)])
  BY WakeEffect DEF IInv
<1>3. /\ Moves(t) /\ thread'[t].pc = "delete" /\ thread'[t].prev = Doomed(t)
      /\ thread'[t].list = thread[t].list /\ Listed(<<>>) = {}
      /\ (~mode.quick => Doomed(t) = thread[t].prev) /\ (mode.quick => Doomed(t) = thread[t].list)
  BY <1>1, <1>2, ListedEmpty DEF Becomes, ThreadType, Doomed
<1>4. CountOf(thread[t]) /\ Lone' = Lone /\ Alive' = Alive
  BY <1>1, SameCount DEF CountInv, CountOf
<1>5. Counted(thread[t])'
  BY <1>1, <1>3, <1>4 DEF CountOf, Counted, HasNoEmpty
<1>6. ASSUME Lone PROVE AsOrdered(thread[t])'
  BY <1>1, <1>3, <1>4, <1>6 DEF CountOf, AsOrdered
<1>7. ASSUME Lone, mode.count = 1 PROVE AllListed(thread[t])'
  <2>1. AllListed(thread[t]) /\ HasNoEmpty(thread[t])
    BY <1>1, <1>4, <1>7 DEF CountOf, Counted
  <2>2. CASE mode.quick
    BY <1>1, <1>3, <1>4, <2>1, <2>2 DEF AllListed, Functions
  <2>3. CASE ~mode.quick
    BY <1>1, <1>3, <1>4, <2>1, <2>3 DEF AllListed, Functions
  <2>4. QED
    BY <2>2, <2>3
<1>8. CountOf(thread[t])'
  BY <1>1, <1>4, <1>5, <1>6, <1>7 DEF CountOf
<1>9. QED
  BY <1>1, <1>3, <1>8, CountStep

LEMMA CountDelete ==
  ASSUME IInv, CountInv, NEW t \in DOMAIN thread, Delete(t)
  PROVE  CountInv'
<1>1. /\ thread[t] \in ThreadType /\ thread[t].pc = "delete" /\ thread[t].prev # <<>>
      /\ thread[t].prev \in Seq(SUBSET Nat)
      /\ UNCHANGED <<mode, FLEETIDX, restarts>>
  BY DEF Delete, At, users, IInv, TypeOK, ThreadType
<1>2. CASE Dies(t)
  BY <1>1, <1>2, CountDies
<1>3. ASSUME NEW f \in Head(thread[t].prev), fleet' = [fleet EXCEPT ![f].alive = FALSE],
             thread' = [thread EXCEPT ![t].prev = Tail(@)]
      PROVE  CountInv'
  <2>1. Becomes(t, [thread[t] EXCEPT !.prev = Tail(@)])
    BY <1>1, <1>3, DeletedEffect DEF IInv
  <2>2. /\ Moves(t) /\ thread'[t].pc = "delete" /\ thread'[t].prev = Tail(thread[t].prev)
        /\ thread'[t].list = thread[t].list
    BY <1>1, <2>1 DEF Becomes, ThreadType
  <2>3. f \in DOMAIN fleet
    BY <1>1, <1>3, ListedTail DEF IInv, TypeOK
  <2>4. /\ DOMAIN fleet' = DOMAIN fleet /\ Alive' = Alive \ {f}
        /\ \A g \in DOMAIN fleet : fleet'[g].fleet = fleet[g].fleet
    <3>1. fleet[f] \in FunctionType /\ fleet \in Seq(FunctionType)
      BY <2>3 DEF IInv, TypeOK
    <3>2. ~[fleet[f] EXCEPT !.alive = FALSE].alive /\ [fleet[f] EXCEPT !.alive = FALSE].fleet = fleet[f].fleet
      BY <3>1 DEF FunctionType
    <3>3. /\ DOMAIN fleet' = DOMAIN fleet /\ fleet'[f] = [fleet[f] EXCEPT !.alive = FALSE]
          /\ \A g \in DOMAIN fleet : g # f => fleet'[g] = fleet[g]
      BY <1>3, <2>3, <3>1
    <3>4. QED
      BY <2>3, <3>2, <3>3 DEF Alive
  <2>5. CountOf(thread[t]) /\ Lone' = Lone
    BY <1>1 DEF CountInv, CountOf, Lone
  <2>6. Counted(thread[t])'
    BY <1>1, <2>2, <2>5 DEF CountOf, Counted, HasNoEmpty
  <2>7. ASSUME Lone PROVE AsOrdered(thread[t])'
    BY <1>1, <2>2, <2>4, <2>5, <2>7 DEF CountOf, AsOrdered
  <2>8. ASSUME Lone, mode.count = 1 PROVE AllListed(thread[t])'
    <3>1. AllListed(thread[t])
      BY <1>1, <2>5, <2>8 DEF CountOf, Counted
    <3>2. PICK x : thread[t].prev = <<{x}>>
      BY <1>1, <3>1 DEF AllListed
    <3>3. f = x /\ Tail(thread[t].prev) = <<>> /\ Listed(thread[t].prev) = {x} /\ Listed(<<>>) = {}
      BY <1>3, <3>2, ListedEmpty DEF Listed
    <3>4. CASE mode.quick
      BY <1>1, <2>2, <2>4, <3>1, <3>3, <3>4 DEF AllListed, Functions
    <3>5. CASE ~mode.quick
      BY <1>1, <2>2, <2>4, <3>1, <3>3, <3>5 DEF AllListed, Functions
    <3>6. QED
      BY <3>4, <3>5
  <2>9. CountOf(thread[t])'
    BY <1>1, <2>2, <2>5, <2>6, <2>7, <2>8 DEF CountOf
  <2>10. QED
    BY <1>1, <2>2, <2>9, CountStep
<1>4. QED
  BY <1>2, <1>3 DEF Delete

LEMMA CountEndRound ==
  ASSUME IInv, CountInv, NEW t \in DOMAIN thread, EndRound(t)
  PROVE  CountInv'
<1>1. /\ thread[t] \in ThreadType /\ thread[t].pc = "delete" /\ thread[t].prev = <<>>
      /\ UNCHANGED <<mode, fleet, FLEETIDX, restarts>>
  BY DEF EndRound, At, users, IInv, TypeOK
<1>2. CASE ~mode.quick
  BY <1>1, <1>2, CountNextRound DEF EndRound
<1>3. CASE mode.quick
  <2>1. Becomes(t, [thread[t] EXCEPT !.pc = "done"])
    BY <1>1, <1>3, DoneEffect DEF EndRound, IInv
  <2>2. /\ Moves(t) /\ thread'[t].pc = "done" /\ thread'[t].list = thread[t].list
        /\ thread'[t].prev = <<>> /\ Listed(<<>>) = {}
    BY <1>1, <2>1, ListedEmpty DEF Becomes, ThreadType
  <2>3. CountOf(thread[t]) /\ Lone' = Lone /\ Alive' = Alive
    BY <1>1, SameCount DEF CountInv, CountOf
  <2>4. Counted(thread[t])'
    BY <1>1, <2>2, <2>3 DEF CountOf, Counted, HasNoEmpty
  <2>5. ASSUME Lone PROVE AsOrdered(thread[t])'
    BY <1>1, <2>2, <2>3, <2>5 DEF CountOf, AsOrdered
  <2>6. ASSUME Lone, mode.count = 1 PROVE AllListed(thread[t])'
    <3>1. AllListed(thread[t])
      BY <1>1, <2>3, <2>6 DEF CountOf, Counted
    <3>2. QED
      BY <1>1, <1>3, <2>2, <2>3, <3>1 DEF AllListed
  <2>7. CountOf(thread[t])'
    BY <1>1, <2>3, <2>4, <2>5, <2>6 DEF CountOf
  <2>8. QED
    BY <1>1, <2>2, <2>7, CountStep
<1>4. QED
  BY <1>2, <1>3

\* The steps of the local proxies change nothing that is counted.
LEMMA CountProxy ==
  ASSUME IInv, CountInv, UNCHANGED <<mode, fleet, FLEETIDX, restarts>>, DOMAIN thread' = DOMAIN thread,
         \A t \in DOMAIN thread :
           /\ thread'[t].pc = thread[t].pc /\ thread'[t].tag = thread[t].tag
           /\ thread'[t].todo = thread[t].todo /\ thread'[t].remaining = thread[t].remaining
           /\ thread'[t].list = thread[t].list /\ thread'[t].prev = thread[t].prev
  PROVE  CountInv'
<1>1. Lone' = Lone /\ Alive' = Alive
  BY SameCount
<1>2. ASSUME NEW t \in DOMAIN thread PROVE CountOf(thread[t])'
  <2>1. CountOf(thread[t])
    BY DEF CountInv, CountOf
  <2>2. Counted(thread[t])' /\ HasNoEmpty(thread[t])' = HasNoEmpty(thread[t])
    BY <2>1 DEF CountOf, Counted, HasNoEmpty
  <2>3. AsOrdered(thread[t]) => AsOrdered(thread[t])'
    BY DEF AsOrdered, Made
  <2>4. AllListed(thread[t]) => AllListed(thread[t])'
    BY <1>1 DEF AllListed, Functions, Made
  <2>5. QED
    BY <1>1, <2>1, <2>2, <2>3, <2>4 DEF CountOf
<1>3. QED
  BY <1>2 DEF CountInv, CountOf

LEMMA InitCountInv == Init => CountInv
<1> SUFFICES ASSUME Init, NEW t \in DOMAIN thread PROVE CountOf(thread[t])
  BY DEF CountInv, CountOf
<1>1. /\ fleet = <<Function(NoFleet)>> /\ mode \in Modes /\ thread = Fresh(mode) /\ FLEETIDX = 0
      /\ Function(NoFleet).fleet = -1
  BY DEF Init, Function, NoFleet
<1>2. DOMAIN fleet = {Initial} /\ fleet[Initial].fleet = -1
  BY <1>1 DEF Initial
<1>3. /\ thread[t].pc = "batch" /\ thread[t].remaining = mode.count /\ mode.count \in Nat
      /\ thread[t].list = <<>> /\ thread[t].prev = <<>> /\ Listed(<<>>) = {} /\ Cardinality({}) = 0
  BY <1>1, FreshThreads, ListedEmpty, FS_EmptySet, MigrationAssumption
<1>4. Counted(thread[t])
  <2>1. Cardinality(Listed(thread[t].list)) = 0
    BY <1>3
  <2>2. QED
    BY <1>3, <2>1 DEF Counted
<1>5. AsOrdered(thread[t])
  BY <1>1, <1>2, <1>3 DEF AsOrdered
<1>6. AllListed(thread[t])
  BY <1>2, <1>3 DEF AllListed, Alive
<1>7. QED
  BY <1>4, <1>5, <1>6 DEF CountOf

LEMMA CountRestart ==
  ASSUME IInv, Restart
  PROVE  CountInv'
<1>1. /\ mode' = mode /\ thread' = Fresh(mode) /\ restarts' = restarts + 1 /\ restarts \in Nat /\ mode \in Modes
  BY MigrationAssumption DEF Restart, IInv, TypeOK
<1>2. ~Lone'
  BY <1>1 DEF Lone
<1>3. ASSUME NEW t \in DOMAIN thread' PROVE Counted(thread[t])'
  <2>1. /\ thread'[t].pc = "batch" /\ thread'[t].remaining = mode.count /\ mode.count \in Nat
        /\ thread'[t].list = <<>> /\ Listed(<<>>) = {} /\ Cardinality({}) = 0
    BY <1>1, FreshThreads, ListedEmpty, FS_EmptySet, MigrationAssumption
  <2>2. Cardinality(Listed(thread'[t].list)) = 0
    BY <2>1
  <2>3. QED
    BY <1>1, <2>1, <2>2 DEF Counted
<1>4. QED
  BY <1>2, <1>3 DEF CountInv

LEMMA CountPoll ==
  ASSUME IInv, CountInv, NEW u \in Users, Poll(u)
  PROVE  CountInv'
<1>1. /\ thread' = [t \in DOMAIN thread |-> [thread[t] EXCEPT !.heard = @ \cup {u}]]
      /\ UNCHANGED <<mode, fleet, FLEETIDX, restarts>>
  BY DEF Poll
<1>2. ASSUME NEW t \in DOMAIN thread
      PROVE  /\ thread'[t].pc = thread[t].pc /\ thread'[t].tag = thread[t].tag
             /\ thread'[t].todo = thread[t].todo /\ thread'[t].remaining = thread[t].remaining
             /\ thread'[t].list = thread[t].list /\ thread'[t].prev = thread[t].prev
  <2>1. thread[t] \in ThreadType /\ thread'[t] = [thread[t] EXCEPT !.heard = @ \cup {u}]
    BY <1>1 DEF IInv, TypeOK
  <2>2. QED
    BY <2>1 DEF ThreadType
<1>3. DOMAIN thread' = DOMAIN thread
  BY <1>1
<1>4. QED
  BY <1>1, <1>2, <1>3, CountProxy

THEOREM CountInductive == Spec => []CountInv
<1>1. IInv /\ CountInv /\ [Next]_vars => CountInv'
  <2> SUFFICES ASSUME IInv, CountInv, [Next]_vars PROVE CountInv'
    OBVIOUS
  <2>1. ASSUME NEW t \in DOMAIN thread, ThreadStep(t) PROVE CountInv'
    <3>1. CASE Refused(t)
      BY <3>1, CountDies DEF Refused
    <3>2. CASE WakeFirst(t)
      BY <3>2, CountNextRound DEF WakeFirst, At
    <3>3. QED
      BY <2>1, <3>1, <3>2, CountStartBatch, CountCreateFunction, CountLookup, CountNotify,
         CountWake, CountDelete, CountEndRound DEF ThreadStep
  <2>2. CASE Restart
    BY <2>2, CountRestart
  <2>3. ASSUME NEW u \in Users, Poll(u) PROVE CountInv'
    BY <2>3, CountPoll
  <2>4. ASSUME UNCHANGED <<mode, fleet, FLEETIDX, thread, restarts>> PROVE CountInv'
    BY <2>4, CountProxy
  <2>5. ASSUME NEW u \in Users, Start(u) \/ Follow(u) \/ PollFails(u) PROVE CountInv'
    BY <2>4, <2>5 DEF Start, Follow, PollFails
  <2>6. CASE UNCHANGED vars
    BY <2>4, <2>6 DEF vars
  <2>7. QED
    BY <2>1, <2>2, <2>3, <2>5, <2>6 DEF Next
<1>2. QED
  BY <1>1, InitCountInv, MigrationInductive, PTL DEF Spec

\* A thread that goes on has at least the functions it was told to create, a lone one
\* exactly these; with fleets of one it leaves no more than two running, and simple-test
\* leaves none (create_fleet, extract_urls_and_notify_controller, rejuvenate).
THEOREM FleetsStayBounded == Spec => []FleetsBounded
<1>1. IInv /\ CountInv => FleetsBounded
  <2> SUFFICES ASSUME IInv, CountInv PROVE FleetsBounded
    OBVIOUS
  <2>1. DOMAIN thread = Threads(mode) /\ Initial \in Alive /\ mode \in Modes
    BY DEF IInv, TypeOK, FleetInv, Graves
  <2>2. ASSUME Cardinality(Threads(mode)) = 1, restarts = 0 PROVE Lone
    <3>1. IsFiniteSet(Threads(mode))
      <4>1. mode.count \in Nat /\ mode.batch \in Nat \ {0}
        BY <2>1, MigrationAssumption
      <4>2. (mode.count + mode.batch - 1) \div mode.batch \in Int
        BY <4>1
      <4>3. QED
        BY <4>2, FS_Interval DEF Threads
    <3>2. QED
      BY <2>2, <3>1, FS_Singleton DEF Lone
  <2>3. CountGuaranteed
    BY <2>2 DEF CountGuaranteed, CountInv, Counted, AsOrdered
  <2>4. AtMostTwoFleets
    <3>1. SUFFICES ASSUME NEW t \in DOMAIN thread, Lone, mode.count = 1, thread[t].pc # "dead",
                          HasNoEmpty(thread[t])
                   PROVE  Cardinality(Alive \ {Initial}) <= 2
      BY <2>2 DEF AtMostTwoFleets, HasNoEmpty
    <3>2. AllListed(thread[t]) /\ AsOrdered(thread[t]) /\ Counted(thread[t])
      BY <3>1 DEF CountInv
    <3>3. \E x, y : Alive \ {Initial} \subseteq {x, y}
      <4>1. PICK x : Listed(thread[t].prev) \subseteq {x}
        BY <3>2, ListedEmpty DEF AllListed, Listed
      <4>2. PICK y : Listed(thread[t].list) \subseteq {y}
        BY <3>2, ListedEmpty DEF AllListed, Listed
      <4>3. CASE thread[t].pc = "create"
        <5>1. thread[t].list = <<>> /\ Listed(<<>>) = {} /\ Cardinality({}) = 0
          BY <3>2, <4>3, ListedEmpty, FS_EmptySet DEF AllListed
        <5>2. IsFiniteSet(Made(thread[t])) /\ Cardinality(Made(thread[t])) \in Nat /\ thread[t] \in ThreadType
          BY FoundFinite DEF IInv, Made, TypeOK
        <5>3. Cardinality(Made(thread[t])) <= 1
          <6>1. Cardinality(Listed(thread[t].list)) = 0
            BY <5>1
          <6>2. thread[t].remaining + Cardinality(Listed(thread[t].list)) = 1
            BY <3>1, <3>2, <4>3 DEF Counted
          <6>3. Cardinality(Made(thread[t])) + thread[t].todo <= thread[t].remaining
            BY <3>2, <4>3 DEF AsOrdered
          <6>4. thread[t].remaining \in Int /\ thread[t].todo \in Nat
            BY <5>2 DEF ThreadType
          <6>5. QED
            BY <5>2, <6>1, <6>2, <6>3, <6>4
        <5>4. \E z : Made(thread[t]) \subseteq {z}
          <6>1. CASE Made(thread[t]) = {}
            BY <6>1
          <6>2. CASE Made(thread[t]) # {}
            BY <5>2, <5>3, <6>2, AtMostOne
          <6>3. QED
            BY <6>1, <6>2
        <5>5. Alive \ {Initial} \subseteq Functions(thread[t]) \cup Made(thread[t])
          BY <3>2, <4>3 DEF AllListed
        <5>6. PICK z : Made(thread[t]) \subseteq {z}
          BY <5>4
        <5>7. Functions(thread[t]) \subseteq {x}
          BY <4>1, <5>1 DEF Functions
        <5>8. Alive \ {Initial} \subseteq {x, z}
          BY <5>5, <5>6, <5>7
        <5>9. QED
          BY <5>8
      <4>4. CASE thread[t].pc # "create"
        <5>1. Alive \ {Initial} \subseteq Functions(thread[t])
          BY <3>2, <4>4 DEF AllListed, Functions
        <5>2. QED
          BY <4>1, <4>2, <5>1 DEF Functions
      <4>5. QED
        BY <4>3, <4>4
    <3>4. QED
      BY <3>3, AtMostTwo
  <2>5. QuickCleansUp
    <3>1. SUFFICES ASSUME mode.quick, restarts = 0, thread[1].pc = "done", mode.count = 1
                   PROVE  Alive = {Initial}
      BY DEF QuickCleansUp
    <3>2. Threads(mode) = {1}
      BY <2>1, <3>1, OneThread
    <3>3. Lone /\ 1 \in DOMAIN thread
      BY <2>1, <3>1, <3>2 DEF Lone
    <3>4. AllListed(thread[1])
      BY <3>1, <3>3 DEF CountInv, Counted
    <3>5. Alive \ {Initial} \subseteq {}
      BY <3>1, <3>4 DEF AllListed
    <3>6. QED
      BY <2>1, <3>5
  <2>6. QED
    BY <2>3, <2>4, <2>5 DEF FleetsBounded
<1>2. QED
  BY <1>1, MigrationInductive, CountInductive, PTL
===============================================================================
