--------------------------- MODULE ProxyServerProofs ---------------------------
(***************************************************************************)
(* What the proxy server guarantees for any number of clients, requests    *)
(* and connections, any traffic and any limit.                             *)
(***************************************************************************)
EXTENDS ProxyServer, FiniteSetTheorems, TLAPS

\* A client's set of connections is finite, so its size is a number.
LEMMA FiniteConns ==
  ASSUME NEW C \in SUBSET Ids
  PROVE  IsFiniteSet(C) /\ Cardinality(C) \in Nat
<1>1. IsFiniteSet(Ids)
  BY FS_Interval, ServerAssumption DEF Ids
<1>2. QED
  BY <1>1, FS_Subset, FS_CardinalityType

\* Dropping connections never raises their number.
LEMMA FewerConns ==
  ASSUME NEW C \in SUBSET Ids, NEW D \in SUBSET C
  PROVE  Cardinality(D) <= Cardinality(C)
BY FiniteConns, FS_Subset

\* Checking a nonce leaves a well-formed validator (NonceValidator::check).
LEMMA CheckedType ==
  ASSUME NEW v \in Validator, NEW n \in Nat
  PROVE  Checked(v, n) \in Validator
<1>1. CASE ~Accepts(v, n)
  BY <1>1 DEF Checked
<1>2. CASE Accepts(v, n) /\ n > v.last
  <2>1. n - v.last \in Nat \ {0}
    BY <1>2 DEF Validator
  <2>2. Advanced(v, n).window \subseteq 0 .. W-1
    BY <2>1, WAssumption DEF Advanced, ShiftLeft, Validator
  <2>3. QED
    BY <1>2, <2>2 DEF Checked, Advanced, Validator
<1>3. CASE Accepts(v, n) /\ ~(n > v.last)
  <2>1. v.last - n - 1 \in 0 .. W-1
    BY <1>3, WAssumption DEF Accepts, Validator
  <2>2. QED
    BY <1>3, <2>1 DEF Checked, Marked, Validator
<1>4. QED
  BY <1>1, <1>2, <1>3

--------------------------------------------------------------------------------
(* Type correctness                                                             *)

LEMMA InitTypeOK == Init => TypeOK
BY ServerAssumption, WAssumption
   DEF Init, TypeOK, PC, Ids, NewValidator, Validator, NewStream, Stream, FirstId

\* The requests that arrive are well-formed.
LEMMA ArriveTypeOK ==
  ASSUME TypeOK, NEW r \in Requests, NEW m \in Traffic, Arrive(r, m)
  PROVE  TypeOK'
<1>1. m.client \in Clients /\ m.nonce \in Nat /\ m.messages \in Seq(Message)
  BY ServerAssumption
<1>2. QED
  BY <1>1 DEF Arrive, TypeOK, At, Goto, PC, clientVars, streamVars, histVars

\* Finding or creating the client's state.
LEMMA GetClientTypeOK ==
  ASSUME TypeOK, NEW r \in Requests, Discard(r) \/ Lookup(r) \/ Insert(r),
         At(r, "lookup") \/ At(r, "insert") => client[r] \in Clients
  PROVE  TypeOK'
<1>1. CASE Discard(r)
  BY <1>1 DEF Discard, TypeOK, At, Goto, PC, clientVars, streamVars, histVars
<1>2. CASE Lookup(r)
  <2>1. clients[client[r]] \in Requests \union {NoArc}
    BY <1>2 DEF Lookup, TypeOK
  <2>2. pc' \in [Requests -> PC]
    BY <1>2 DEF Lookup, TypeOK, Goto, PC
  <2>3. ref' \in [Requests -> Requests \union {NoArc}]
    BY <1>2, <2>1 DEF Lookup, TypeOK
  <2>4. QED
    BY <1>2, <2>2, <2>3 DEF Lookup, TypeOK, clientVars, streamVars, histVars
<1>3. CASE Insert(r)
  <2>1. InsertIfAbsent(r, clients[client[r]]) \in Requests
    BY <1>3 DEF Insert, TypeOK, InsertIfAbsent
  <2>2. QED
    BY <1>3, <2>1 DEF Insert, TypeOK, At, Goto, PC, streamVars, histVars
<1>4. QED
  BY <1>1, <1>2, <1>3

\* Every response pushed is well-formed.
LEMMA PushType ==
  ASSUME TypeOK, NEW r \in Requests, NEW s \in Seq(Response), Push(r, s)
  PROVE  out' \in [Requests -> Seq(Response)]
BY DEF TypeOK, Push

\* Taking the lock and checking the nonce.
LEMMA LockTypeOK ==
  ASSUME TypeOK, NEW r \in Requests, Lock(r), ref[r] \in Requests
  PROVE  TypeOK'
<1>1. validator' \in [Requests -> Validator]
  BY CheckedType DEF Lock, TypeOK
<1>2. Respond("InvalidNonce", 0) \in Seq(Response)
  BY DEF Respond, Response
<1>3. out' \in [Requests -> Seq(Response)]
  <2>1. CASE Push(r, Respond("InvalidNonce", 0))
    BY <1>2, <2>1, PushType
  <2>2. CASE UNCHANGED out
    BY <2>2 DEF TypeOK
  <2>3. QED
    BY <2>1, <2>2 DEF Lock
<1>4. pc' \in [Requests -> PC]
  BY DEF Lock, TypeOK, Goto, PC, Holding, Serving
<1>5. holder' \in [Requests -> Requests \union {Free}]
  BY DEF Lock, TypeOK
<1>6. QED
  BY <1>1, <1>3, <1>4, <1>5 DEF Lock, TypeOK, streamVars, histVars

LEMMA RespondType ==
  ASSUME NEW kind \in {"Challenge", "Close", "Error"}, NEW i \in Ids \union {0}
  PROVE  Respond(kind, i) \in Seq(Response)
BY DEF Respond, Response

\* Moving on to the next message of a request.
LEMMA ContinueType ==
  ASSUME TypeOK, NEW r \in Requests, Continue(r), todo[r] # <<>>
  PROVE  /\ todo' \in [Requests -> Seq(Message)]
         /\ pc' \in [Requests -> PC]
<1>1. Tail(todo[r]) \in Seq(Message)
  BY DEF TypeOK
<1>2. todo' \in [Requests -> Seq(Message)]
  BY <1>1 DEF TypeOK, Continue
<1>3. pc' \in [Requests -> PC]
  BY DEF TypeOK, Continue, Goto, PC, Holding, Serving
<1>4. QED
  BY <1>2, <1>3

\* Removing a connection.
LEMMA RemoveType ==
  ASSUME TypeOK, NEW r \in Requests, NEW i \in Ids,
         NEW why \in {"client", "eof", "error", "write"}, Remove(r, i, why)
  PROVE  /\ conns' \in [Requests -> SUBSET Ids]
         /\ ended' \in [Ids -> {"no", "client", "eof", "error", "write", "idle"}]
BY DEF TypeOK, Remove

\* Reading k chunks from a target.
LEMMA ReceiveType ==
  ASSUME TypeOK, NEW r \in Requests, NEW i \in Ids, NEW k \in Nat,
         NEW closing \in BOOLEAN, k <= Available(i),
         closing => MeetsEnd(i, k), Receive(r, i, k, closing)
  PROVE  /\ target' \in [Ids -> Stream]
         /\ out' \in [Requests -> Seq(Response)]
         /\ conns' \in [Requests -> SUBSET Ids]
         /\ ended' \in [Ids -> {"no", "client", "eof", "error", "write", "idle"}]
<1>1. target[i] \in Stream
  BY DEF TypeOK
<1>2. target' \in [Ids -> Stream]
  <2>1. [target[i] EXCEPT !.read = @ + k] \in Stream
    BY <1>1 DEF Stream, Available
  <2>2. target' = [target EXCEPT ![i] = [target[i] EXCEPT !.read = @ + k]]
    BY DEF Receive
  <2>3. QED
    BY <2>1, <2>2 DEF TypeOK
<1>3. Chunks(i, k) \in Seq(Response)
  <2>1. \A j \in 1 .. k : [kind |-> "Data", id |-> i, n |-> target[i].read + j] \in Response
    BY <1>1 DEF Stream, Response
  <2>2. QED
    BY <2>1 DEF Chunks
<1>4. Relay(i, k, closing) \in Seq(Response)
  <2>1. Respond("Close", i) \in Seq(Response)
    BY RespondType
  <2>2. QED
    BY <1>3, <2>1 DEF Relay
<1>5. out' \in [Requests -> Seq(Response)]
  BY <1>4, PushType DEF Receive
<1>6. CASE closing
  BY <1>1, <1>2, <1>5, <1>6, RemoveType DEF Receive, MeetsEnd, Stream
<1>7. CASE ~closing
  BY <1>2, <1>5, <1>7 DEF Receive, TypeOK
<1>8. QED
  BY <1>6, <1>7

--------------------------------------------------------------------------------
(* The inductive invariant                                                      *)

LEMMA InitIInv == Init => IInv
<1> SUFFICES ASSUME Init PROVE IInv
  OBVIOUS
<1>1. TypeOK
  BY InitTypeOK
<1>2. KnownClient /\ RefsAgree /\ ArcsOwned /\ HoldersHold /\ SweepKnown
  BY ServerAssumption
     DEF Init, KnownClient, RefsAgree, ArcsOwned, HoldersHold, SweepKnown, Holding, Serving
<1>3. OneOwner /\ FreshIds
  BY DEF Init, OneOwner, FreshIds, Live
<1>4. ConnectionLimit
  BY FS_EmptySet, ServerAssumption DEF Init, ConnectionLimit
<1>5. RoomForOne /\ MessageAtHand /\ EntryStaysDuringAwait
  BY DEF Init, RoomForOne, MessageAtHand, EntryStaysDuringAwait, At
<1>6. QED
  BY <1>1, <1>2, <1>3, <1>4, <1>5 DEF IInv

\* Two tasks past the lock work on different clients' states.
LEMMA OtherArcs ==
  ASSUME IInv, NEW r \in Requests, NEW s \in Requests, r # s,
         pc[r] \in Holding, pc[s] \in Holding
  PROVE  ref[r] # ref[s]
BY DEF IInv, HoldersHold

\* A step of a task that holds its client's lock, moves to l, and leaves the
\* connections C of those it had.
MovesTo(r, l, C) ==
  /\ pc[r] \in Holding
  /\ C \subseteq Conns(r)
  /\ \A s \in Requests : pc'[s] = IF s = r THEN l ELSE pc[s]
  /\ \A a \in Requests : conns'[a] = IF a = ref[r] THEN C ELSE conns[a]
  /\ \A s \in Requests : s # r => todo'[s] = todo[s] /\ polled'[s] = polled[s]
  /\ \A i \in Ids : i \notin Conns(r) \ C => ended'[i] = ended[i]
  /\ UNCHANGED <<client, ref, clients, holder, nextId, sweep>>
  /\ l = "connecting" => Cardinality(C) < Limit
  /\ l # "run" => todo'[r] # <<>>
  /\ l \in {"writing", "reading"} =>
       Head(todo'[r]).type = "Data" /\ Head(todo'[r]).id \in C
  /\ l = "polling" => polled'[r] \subseteq C

LEMMA HolderKeepsIInv ==
  ASSUME IInv, TypeOK', NEW r \in Requests, NEW l \in Serving, NEW C, MovesTo(r, l, C)
  PROVE  IInv'
<1> USE DEF MovesTo
<1>1. /\ ref[r] \in Requests
      /\ Conns(r) = conns[ref[r]]
      /\ C \subseteq conns[ref[r]]
      /\ conns[ref[r]] \in SUBSET Ids
  BY DEF IInv, TypeOK, RefsAgree, Conns
<1>2. l \in Holding /\ l \notin {"idle", "lookup", "insert", "lock", "done", "dropped", "rejecting"}
  BY DEF Holding, Serving
<1>3. KnownClient'
  BY <1>2 DEF IInv, KnownClient, PC, Holding, Serving
<1>4. RefsAgree'
  BY <1>2 DEF IInv, RefsAgree
<1>5. ArcsOwned'
  <2> SUFFICES ASSUME NEW c \in Clients, clients[c] # NoArc
               PROVE  client[clients[c]] = c /\ pc'[clients[c]] \notin {"idle", "lookup", "insert"}
    BY DEF ArcsOwned
  <2>1. clients[c] \in Requests
    BY DEF IInv, TypeOK
  <2>2. QED
    BY <1>2, <2>1 DEF IInv, ArcsOwned
<1>6. HoldersHold'
  BY <1>2 DEF IInv, HoldersHold
<1>7. \A a \in Requests : conns'[a] \subseteq conns[a]
  BY <1>1
<1>8. OneOwner'
  <2>1. \A a, b \in Requests : a # b => conns'[a] \intersect conns'[b] = {}
    BY <1>7 DEF IInv, OneOwner
  <2>2. ASSUME NEW i \in Ids, NEW a \in Requests, i \in conns'[a]
        PROVE  i < nextId /\ ended'[i] = "no"
    <3>1. i \in conns[a]
      BY <1>7, <2>2
    <3>2. i < nextId /\ ended[i] = "no"
      BY <3>1 DEF IInv, OneOwner, Live
    <3>3. i \notin Conns(r) \ C
      <4>1. CASE a = ref[r]
        BY <1>1, <2>2, <4>1
      <4>2. CASE a # ref[r]
        BY <1>1, <3>1, <4>2 DEF IInv, OneOwner
      <4>3. QED
        BY <4>1, <4>2
    <3>4. QED
      BY <3>2, <3>3
  <2>3. QED
    BY <2>1, <2>2 DEF OneOwner, Live
<1>9. FreshIds'
  <2> SUFFICES ASSUME NEW i \in Ids, i >= nextId PROVE ended'[i] = "no"
    BY DEF FreshIds
  <2>1. nextId \in Int /\ i \in Int
    BY DEF IInv, TypeOK, Ids
  <2>2. ~Live(i)
    BY <2>1 DEF IInv, OneOwner
  <2>3. QED
    BY <1>1, <2>2 DEF IInv, FreshIds, Live
<1>10. ConnectionLimit'
  <2> SUFFICES ASSUME NEW a \in Requests PROVE Cardinality(conns'[a]) <= Limit
    BY DEF ConnectionLimit
  <2>1. conns[a] \in SUBSET Ids /\ conns'[a] \in SUBSET conns[a]
    BY <1>7 DEF IInv, TypeOK
  <2>2. conns'[a] \in SUBSET Ids
    BY <2>1
  <2>3. /\ Cardinality(conns'[a]) <= Cardinality(conns[a])
        /\ Cardinality(conns'[a]) \in Nat
        /\ Cardinality(conns[a]) \in Nat
    BY <2>1, <2>2, FewerConns, FiniteConns
  <2>4. QED
    BY <2>3, ServerAssumption DEF IInv, ConnectionLimit
<1>11. ASSUME NEW s \in Requests, s # r, pc[s] \in Holding
       PROVE  Conns(s)' = Conns(s)
  <2>1. ref[s] # ref[r] /\ ref[s] \in Requests
    BY <1>11, OtherArcs DEF IInv, RefsAgree
  <2>2. QED
    BY <2>1 DEF Conns
<1>12. Conns(r)' = C
  BY <1>1 DEF Conns
<1>13. RoomForOne'
  <2> SUFFICES ASSUME NEW s \in Requests, pc'[s] = "connecting"
               PROVE  Cardinality(Conns(s)') < Limit
    BY DEF RoomForOne, At
  <2>1. CASE s = r
    BY <1>12, <2>1
  <2>2. CASE s # r
    <3>1. pc[s] = "connecting" /\ pc[s] \in Holding
      BY <2>2 DEF Holding, Serving
    <3>2. QED
      BY <1>11, <2>2, <3>1 DEF IInv, RoomForOne, At
  <2>3. QED
    BY <2>1, <2>2
<1>14. MessageAtHand'
  BY <1>2 DEF IInv, MessageAtHand
<1>15. EntryStaysDuringAwait'
  <2> SUFFICES ASSUME NEW s \in Requests
               PROVE  /\ pc'[s] \in {"writing", "reading"} => Head(todo'[s]).id \in Conns(s)'
                      /\ pc'[s] = "polling" => polled'[s] \subseteq Conns(s)'
    BY DEF EntryStaysDuringAwait, At, Current
  <2>1. CASE s = r
    BY <1>12, <2>1
  <2>2. CASE s # r
    <3>1. CASE pc[s] \in Holding
      BY <1>11, <2>2, <3>1 DEF IInv, EntryStaysDuringAwait, At, Current
    <3>2. CASE pc[s] \notin Holding
      BY <2>2, <3>2 DEF Holding, Serving
    <3>3. QED
      BY <3>1, <3>2
  <2>3. QED
    BY <2>1, <2>2
<1>16. SweepKnown'
  BY DEF IInv, SweepKnown
<1>17. QED
  BY <1>3, <1>4, <1>5, <1>6, <1>8, <1>9, <1>10, <1>13, <1>14, <1>15, <1>16 DEF IInv

\* What IInv says of a task that holds its client's lock.
LEMMA HolderFacts ==
  ASSUME IInv, NEW r \in Requests, pc[r] \in Holding
  PROVE  /\ ref[r] \in Requests
         /\ Conns(r) = conns[ref[r]]
         /\ Conns(r) \in SUBSET Ids
         /\ holder[ref[r]] = r
BY DEF IInv, TypeOK, RefsAgree, HoldersHold, Conns

LEMMA ProcessingFacts ==
  ASSUME IInv, NEW r \in Requests, NEW type, Processing(r, type)
  PROVE  /\ pc[r] \in Holding /\ pc[r] \in Serving
         /\ todo[r] # <<>> /\ Head(todo[r]) \in Message
         /\ type \in {"Data", "Close"} => Current(r) \in Ids
<1>1. Head(todo[r]) \in Message
  BY DEF IInv, TypeOK, Processing
<1>2. QED
  BY <1>1 DEF Processing, At, Holding, Serving, Message, Current

LEMMA GotoType ==
  ASSUME IInv, NEW r \in Requests, NEW l \in Serving, Goto(r, l)
  PROVE  pc' \in [Requests -> PC]
BY DEF IInv, TypeOK, Goto, PC, Holding

\* Steps that change nothing but where the task is.
LEMMA GotoMoves ==
  ASSUME IInv, NEW r \in Requests, NEW l \in Serving, pc[r] \in Holding, Goto(r, l),
         UNCHANGED <<client, todo, polled, ref, clients, holder, conns, nextId, sweep, ended>>,
         l = "connecting" => Cardinality(Conns(r)) < Limit,
         l # "run" => todo[r] # <<>>,
         l \in {"writing", "reading"} =>
           Head(todo[r]).type = "Data" /\ Current(r) \in Conns(r),
         l = "polling" => polled[r] \subseteq Conns(r)
  PROVE  MovesTo(r, l, Conns(r))
<1>1. \A s \in Requests : pc'[s] = IF s = r THEN l ELSE pc[s]
  BY DEF IInv, TypeOK, Goto
<1>2. QED
  BY <1>1, HolderFacts DEF MovesTo, Current

\* Steps that end with the next message and keep all connections.
LEMMA ContinueMoves ==
  ASSUME IInv, NEW r \in Requests, pc[r] \in Holding, Continue(r),
         UNCHANGED <<client, polled, ref, clients, holder, conns, nextId, sweep, ended>>
  PROVE  MovesTo(r, "run", Conns(r))
BY HolderFacts DEF IInv, TypeOK, MovesTo, Continue, Goto

\* ... or that remove one connection.
LEMMA RemoveMoves ==
  ASSUME IInv, NEW r \in Requests, pc[r] \in Holding, Continue(r),
         NEW i \in Ids, NEW why, i \in Conns(r), Remove(r, i, why),
         UNCHANGED <<client, polled, ref, clients, holder, nextId, sweep>>
  PROVE  MovesTo(r, "run", Conns(r) \ {i})
<1>1. /\ ref[r] \in Requests /\ Conns(r) = conns[ref[r]]
      /\ conns \in [Requests -> SUBSET Ids] /\ pc \in [Requests -> PC]
      /\ todo \in [Requests -> Seq(Message)] /\ DOMAIN ended = Ids
  BY HolderFacts DEF IInv, TypeOK
<1>2. \A a \in Requests : conns'[a] = IF a = ref[r] THEN Conns(r) \ {i} ELSE conns[a]
  BY <1>1 DEF Remove
<1>3. \A j \in Ids : j \notin Conns(r) \ (Conns(r) \ {i}) => ended'[j] = ended[j]
  BY <1>1 DEF Remove
<1>4. QED
  BY <1>1, <1>2, <1>3 DEF MovesTo, Continue, Goto

\* StartConnection refused, or its connect awaited or failed.
LEMMA StartKeepsIInv ==
  ASSUME IInv, NEW r \in Requests, RefuseStart(r) \/ Connect(r) \/ ConnectFails(r)
  PROVE  IInv'
<1>1. Respond("Error", 0) \in Seq(Response)
  BY RespondType
<1>2. CASE RefuseStart(r)
  <2>1. pc[r] \in Holding /\ todo[r] # <<>>
    BY <1>2, ProcessingFacts DEF RefuseStart
  <2>2. TypeOK'
    BY <1>1, <1>2, <2>1, PushType, ContinueType
       DEF RefuseStart, IInv, TypeOK, clientVars, streamVars, histVars
  <2>3. MovesTo(r, "run", Conns(r))
    BY <1>2, <2>1, ContinueMoves DEF RefuseStart, clientVars, histVars
  <2>4. QED
    BY <2>2, <2>3, HolderKeepsIInv DEF Serving
<1>3. CASE Connect(r)
  <2>1. pc[r] \in Holding /\ todo[r] # <<>>
    BY <1>3, ProcessingFacts DEF Connect
  <2>2. TypeOK'
    BY <1>3, GotoType DEF Connect, IInv, TypeOK, Serving, clientVars, streamVars, histVars
  <2>3. Cardinality(Conns(r)) < Limit
    <3>1. Cardinality(Conns(r)) \in Nat
      BY <2>1, HolderFacts, FiniteConns
    <3>2. QED
      BY <1>3, <3>1, ServerAssumption DEF Connect, LimitReached
  <2>4. MovesTo(r, "connecting", Conns(r))
    BY <1>3, <2>1, <2>3, GotoMoves DEF Connect, Serving, clientVars, histVars
  <2>5. QED
    BY <2>2, <2>4, HolderKeepsIInv DEF Serving
<1>4. CASE ConnectFails(r)
  <2>1. pc[r] \in Holding /\ todo[r] # <<>>
    BY <1>4 DEF ConnectFails, At, Holding, Serving, IInv, MessageAtHand
  <2>2. TypeOK'
    BY <1>1, <1>4, <2>1, PushType, ContinueType
       DEF ConnectFails, IInv, TypeOK, clientVars, streamVars, histVars
  <2>3. MovesTo(r, "run", Conns(r))
    BY <1>4, <2>1, ContinueMoves DEF ConnectFails, clientVars, histVars
  <2>4. QED
    BY <2>2, <2>3, HolderKeepsIInv DEF Serving
<1>5. QED
  BY <1>2, <1>3, <1>4

\* Data skipped, written, or failed to be written.
LEMMA WriteKeepsIInv ==
  ASSUME IInv, NEW r \in Requests, SkipData(r) \/ Write(r) \/ Written(r) \/ WriteFails(r)
  PROVE  IInv'
<1>1. CASE SkipData(r)
  <2>1. pc[r] \in Holding /\ todo[r] # <<>>
    BY <1>1, ProcessingFacts DEF SkipData
  <2>2. TypeOK'
    BY <1>1, <2>1, ContinueType
       DEF SkipData, IInv, TypeOK, clientVars, streamVars, histVars
  <2>3. MovesTo(r, "run", Conns(r))
    BY <1>1, <2>1, ContinueMoves DEF SkipData, clientVars, histVars
  <2>4. QED
    BY <2>2, <2>3, HolderKeepsIInv DEF Serving
<1>2. CASE Write(r)
  <2>1. pc[r] \in Holding /\ todo[r] # <<>> /\ Current(r) \in Conns(r)
    BY <1>2, ProcessingFacts DEF Write
  <2>2. Head(todo[r]).type = "Data"
    BY <1>2 DEF Write, Processing
  <2>3. TypeOK'
    BY <1>2, GotoType DEF Write, IInv, TypeOK, Serving, clientVars, histVars
  <2>4. MovesTo(r, "writing", Conns(r))
    BY <1>2, <2>1, <2>2, GotoMoves DEF Write, Serving, clientVars, histVars
  <2>5. QED
    BY <2>3, <2>4, HolderKeepsIInv DEF Serving
<1>3. CASE Written(r)
  <2>1. /\ pc[r] \in Holding /\ todo[r] # <<>> /\ Current(r) \in Conns(r)
        /\ Head(todo[r]).type = "Data"
    BY <1>3 DEF Written, At, Holding, Serving, IInv, MessageAtHand, EntryStaysDuringAwait
  <2>2. TypeOK'
    BY <1>3, GotoType DEF Written, IInv, TypeOK, Serving, clientVars, streamVars, histVars
  <2>3. MovesTo(r, "reading", Conns(r))
    BY <1>3, <2>1, GotoMoves DEF Written, Serving, clientVars, histVars
  <2>4. QED
    BY <2>2, <2>3, HolderKeepsIInv DEF Serving
<1>4. CASE WriteFails(r)
  <2>1. /\ pc[r] \in Holding /\ todo[r] # <<>> /\ Current(r) \in Conns(r)
        /\ Current(r) \in Ids
    BY <1>4, HolderFacts
       DEF WriteFails, At, Holding, Serving, IInv, MessageAtHand, EntryStaysDuringAwait
  <2>2. Respond("Close", Current(r)) \in Seq(Response)
    BY <2>1, RespondType
  <2>3. TypeOK'
    BY <1>4, <2>1, <2>2, PushType, ContinueType, RemoveType
       DEF WriteFails, IInv, TypeOK, streamVars
  <2>4. MovesTo(r, "run", Conns(r) \ {Current(r)})
    BY <1>4, <2>1, RemoveMoves DEF WriteFails
  <2>5. QED
    BY <2>3, <2>4, HolderKeepsIInv DEF Serving
<1>5. QED
  BY <1>1, <1>2, <1>3, <1>4

\* The reply to Data is read.
LEMMA ReadKeepsIInv ==
  ASSUME IInv, NEW r \in Requests, ReadReply(r)
  PROVE  IInv'
<1>1. /\ pc[r] \in Holding /\ todo[r] # <<>> /\ Current(r) \in Conns(r)
      /\ Current(r) \in Ids
  BY HolderFacts
     DEF ReadReply, At, Holding, Serving, IInv, MessageAtHand, EntryStaysDuringAwait
<1>2. PICK k \in 0 .. RespCap, closing \in BOOLEAN :
        /\ k <= Available(Current(r))
        /\ closing => MeetsEnd(Current(r), k)
        /\ Receive(r, Current(r), k, closing)
  BY DEF ReadReply
<1>3. k \in Nat
  BY ServerAssumption
<1>4. TypeOK'
  <2>1. Continue(r) /\ TypeOK
    BY DEF ReadReply, IInv
  <2>2. /\ target' \in [Ids -> Stream]
        /\ out' \in [Requests -> Seq(Response)]
        /\ conns' \in [Requests -> SUBSET Ids]
        /\ ended' \in [Ids -> {"no", "client", "eof", "error", "write", "idle"}]
    BY <1>1, <1>2, <1>3, <2>1, ReceiveType
  <2>3. todo' \in [Requests -> Seq(Message)] /\ pc' \in [Requests -> PC]
    BY <1>1, <2>1, ContinueType
  <2>4. QED
    BY <2>1, <2>2, <2>3 DEF ReadReply, TypeOK
<1>5. CASE closing
  <2>1. MovesTo(r, "run", Conns(r) \ {Current(r)})
    BY <1>1, <1>2, <1>5, RemoveMoves DEF ReadReply, Receive
  <2>2. QED
    BY <1>4, <2>1, HolderKeepsIInv DEF Serving
<1>6. CASE ~closing
  <2>1. MovesTo(r, "run", Conns(r))
    BY <1>1, <1>2, <1>6, ContinueMoves DEF ReadReply, Receive
  <2>2. QED
    BY <1>4, <2>1, HolderKeepsIInv DEF Serving
<1>7. QED
  BY <1>5, <1>6

\* A connection is closed for the client.
LEMMA CloseKeepsIInv ==
  ASSUME IInv, NEW r \in Requests, Close(r)
  PROVE  IInv'
<1>1. pc[r] \in Holding /\ todo[r] # <<>> /\ Current(r) \in Ids
  BY ProcessingFacts DEF Close
<1>2. Respond("Close", Current(r)) \in Seq(Response)
  BY <1>1, RespondType
<1>3. TypeOK /\ Continue(r)
  BY DEF IInv, Close
<1>4. todo' \in [Requests -> Seq(Message)] /\ pc' \in [Requests -> PC]
  BY <1>1, <1>3, ContinueType
<1>5. CASE Current(r) \in Conns(r)
  <2>1. Remove(r, Current(r), "client") /\ Push(r, Respond("Close", Current(r)))
    BY <1>5 DEF Close
  <2>2. TypeOK'
    BY <1>1, <1>2, <1>3, <1>4, <2>1, PushType, RemoveType DEF Close, TypeOK, streamVars
  <2>3. MovesTo(r, "run", Conns(r) \ {Current(r)})
    BY <1>1, <1>3, <1>5, <2>1, RemoveMoves DEF Close
  <2>4. QED
    BY <2>2, <2>3, HolderKeepsIInv DEF Serving
<1>6. CASE Current(r) \notin Conns(r)
  <2>1. UNCHANGED <<conns, ended, out>>
    BY <1>6 DEF Close
  <2>2. TypeOK'
    BY <1>3, <1>4, <2>1 DEF Close, TypeOK, streamVars
  <2>3. MovesTo(r, "run", Conns(r))
    BY <1>1, <1>3, <2>1, ContinueMoves DEF Close
  <2>4. QED
    BY <2>2, <2>3, HolderKeepsIInv DEF Serving
<1>7. QED
  BY <1>5, <1>6

\* The Poll loop starts, visits a connection, or ends.
LEMMA PollKeepsIInv ==
  ASSUME IInv, NEW r \in Requests, Poll(r) \/ PollDone(r)
  PROVE  IInv'
<1>1. CASE Poll(r)
  <2>1. /\ pc[r] \in Holding /\ todo[r] # <<>>
        /\ Conns(r) \in SUBSET Ids
    BY <1>1, ProcessingFacts, HolderFacts DEF Poll
  <2>2. polled' \in [Requests -> SUBSET Ids] /\ polled'[r] = Conns(r)
    BY <1>1, <2>1 DEF Poll, IInv, TypeOK
  <2>3. TypeOK'
    BY <1>1, <2>2, GotoType DEF Poll, IInv, TypeOK, Serving, clientVars, streamVars, histVars
  <2>4. MovesTo(r, "polling", Conns(r))
    <3>1. \A s \in Requests : pc'[s] = IF s = r THEN "polling" ELSE pc[s]
      BY <1>1 DEF Poll, Goto, IInv, TypeOK
    <3>2. \A s \in Requests : s # r => polled'[s] = polled[s]
      BY <1>1 DEF Poll, IInv, TypeOK
    <3>3. QED
      BY <1>1, <2>1, <2>2, <3>1, <3>2, HolderFacts DEF Poll, MovesTo, clientVars, histVars
  <2>5. QED
    BY <2>3, <2>4, HolderKeepsIInv DEF Serving
<1>2. CASE PollDone(r)
  <2>1. pc[r] \in Holding /\ todo[r] # <<>>
    BY <1>2 DEF PollDone, At, Holding, Serving, IInv, MessageAtHand
  <2>2. TypeOK'
    BY <1>2, <2>1, ContinueType
       DEF PollDone, IInv, TypeOK, clientVars, streamVars, histVars
  <2>3. MovesTo(r, "run", Conns(r))
    BY <1>2, <2>1, ContinueMoves DEF PollDone, clientVars, histVars
  <2>4. QED
    BY <2>2, <2>3, HolderKeepsIInv DEF Serving
<1>3. QED
  BY <1>1, <1>2

LEMMA PollOneKeepsIInv ==
  ASSUME IInv, NEW r \in Requests, NEW i \in Ids, PollOne(r, i)
  PROVE  IInv'
<1> DEFINE k == IF Available(i) < RespCap THEN Available(i) ELSE RespCap
           closing == MeetsEnd(i, k)
<1>1. /\ pc[r] = "polling" /\ pc[r] \in Holding /\ todo[r] # <<>>
      /\ i \in polled[r] /\ polled[r] \subseteq Conns(r)
  BY DEF PollOne, At, Holding, Serving, IInv, MessageAtHand, EntryStaysDuringAwait
<1>2. Receive(r, i, k, closing)
  BY DEF PollOne
<1>3. k \in Nat /\ k <= Available(i)
  <2>1. target[i] \in Stream
    BY DEF IInv, TypeOK
  <2>2. Available(i) \in Nat
    BY <2>1 DEF Stream, Available
  <2>3. QED
    BY <2>2, ServerAssumption
<1>4. closing \in BOOLEAN
  BY DEF MeetsEnd
<1>5. TypeOK'
  <2>1. /\ target' \in [Ids -> Stream]
        /\ out' \in [Requests -> Seq(Response)]
        /\ conns' \in [Requests -> SUBSET Ids]
        /\ ended' \in [Ids -> {"no", "client", "eof", "error", "write", "idle"}]
    <3> HIDE DEF k, closing
    <3>1. closing => MeetsEnd(i, k)
      BY DEF closing
    <3>2. QED
      BY <1>2, <1>3, <1>4, <3>1, ReceiveType DEF IInv
  <2>2. polled' \in [Requests -> SUBSET Ids] /\ idle' \in SUBSET Ids
    <3>1. polled \in [Requests -> SUBSET Ids] /\ idle \in SUBSET Ids
      BY DEF IInv, TypeOK
    <3>2. polled' = [polled EXCEPT ![r] = @ \ {i}] /\ idle' \subseteq idle
      BY DEF PollOne
    <3>3. QED
      BY <3>1, <3>2
  <2>3. QED
    BY <2>1, <2>2 DEF PollOne, IInv, TypeOK
<1>6. /\ \A s \in Requests : s # r => todo'[s] = todo[s] /\ polled'[s] = polled[s]
      /\ polled'[r] = polled[r] \ {i}
      /\ \A s \in Requests : pc'[s] = IF s = r THEN "polling" ELSE pc[s]
      /\ todo'[r] # <<>>
      /\ UNCHANGED <<client, ref, clients, holder, nextId, sweep>>
  BY <1>1 DEF PollOne, IInv, TypeOK
<1>7. CASE closing
  <2>1. /\ conns' = [conns EXCEPT ![ref[r]] = @ \ {i}]
        /\ \A j \in Ids : j # i => ended'[j] = ended[j]
    <3> HIDE DEF k, closing
    <3>1. QED
      BY <1>2, <1>7 DEF Receive, Remove, IInv, TypeOK
  <2>2. \A a \in Requests : conns'[a] = IF a = ref[r] THEN Conns(r) \ {i} ELSE conns[a]
    BY <1>1, <2>1, HolderFacts DEF IInv, TypeOK
  <2>3. MovesTo(r, "polling", Conns(r) \ {i})
    BY <1>1, <1>6, <2>1, <2>2 DEF MovesTo
  <2>4. QED
    BY <1>5, <2>3, HolderKeepsIInv DEF Serving
<1>8. CASE ~closing
  <2>1. UNCHANGED <<conns, ended>>
    <3> HIDE DEF k, closing
    <3>1. QED
      BY <1>2, <1>8 DEF Receive
  <2>2. MovesTo(r, "polling", Conns(r))
    BY <1>1, <1>6, <2>1, HolderFacts DEF MovesTo
  <2>3. QED
    BY <1>5, <2>2, HolderKeepsIInv DEF Serving
<1>9. QED
  BY <1>7, <1>8

\* The connect succeeds: the only step that adds a connection.
LEMMA ConnectedKeepsIInv ==
  ASSUME IInv, NEW r \in Requests, Connected(r)
  PROVE  IInv'
<1>1. /\ pc[r] \in Holding /\ todo[r] # <<>>
      /\ At(r, "connecting")
  BY DEF Connected, At, Holding, Serving, IInv, MessageAtHand
<1>2. /\ ref[r] \in Requests /\ Conns(r) = conns[ref[r]] /\ Conns(r) \in SUBSET Ids
  BY <1>1, HolderFacts
<1>3. nextId \in Ids /\ nextId \in Nat /\ nextId' = nextId + 1
  BY ServerAssumption DEF Connected, IInv, TypeOK, Ids
<1>4. /\ \A a \in Requests :
          conns'[a] = IF a = ref[r] THEN conns[a] \union {nextId} ELSE conns[a]
      /\ conns' \in [Requests -> SUBSET Ids]
  BY <1>3 DEF Connected, GeneratedId, IInv, TypeOK
<1>5. /\ \A s \in Requests : pc'[s] = IF s = r THEN "run" ELSE pc[s]
      /\ \A s \in Requests : s # r => todo'[s] = todo[s]
      /\ UNCHANGED <<client, polled, ref, clients, holder, sweep, ended>>
  BY DEF Connected, Continue, Goto, histVars, IInv, TypeOK
<1>6. TypeOK'
  <2>1. Respond("Challenge", nextId) \in Seq(Response)
    BY <1>3, RespondType
  <2>2. out' \in [Requests -> Seq(Response)]
    BY <2>1, PushType DEF Connected, GeneratedId, IInv
  <2>3. todo' \in [Requests -> Seq(Message)] /\ pc' \in [Requests -> PC]
    BY <1>1, ContinueType DEF Connected, IInv
  <2>4. nextId' \in 1 .. MaxId + 1
    BY <1>3, ServerAssumption DEF Ids
  <2>5. QED
    BY <1>4, <2>2, <2>3, <2>4 DEF Connected, IInv, TypeOK, streamVars, histVars
<1>7. KnownClient' /\ RefsAgree' /\ HoldersHold' /\ SweepKnown'
  BY <1>1, <1>5 DEF IInv, KnownClient, RefsAgree, HoldersHold, SweepKnown, PC, Holding, Serving
<1>8. ArcsOwned'
  <2> SUFFICES ASSUME NEW c \in Clients, clients[c] # NoArc
               PROVE  client[clients[c]] = c /\ pc'[clients[c]] \notin {"idle", "lookup", "insert"}
    BY <1>5 DEF ArcsOwned
  <2>1. clients[c] \in Requests
    BY DEF IInv, TypeOK
  <2>2. QED
    BY <1>5, <2>1 DEF IInv, ArcsOwned
<1>9. \A a \in Requests : nextId \notin conns[a]
  BY <1>3 DEF IInv, OneOwner, Live
<1>10. OneOwner'
  <2>1. \A a, b \in Requests : a # b => conns'[a] \intersect conns'[b] = {}
    BY <1>4, <1>9 DEF IInv, OneOwner
  <2>2. ASSUME NEW i \in Ids, NEW a \in Requests, i \in conns'[a]
        PROVE  i < nextId' /\ ended'[i] = "no"
    <3>1. CASE i = nextId
      BY <1>3, <1>5, <3>1 DEF IInv, FreshIds
    <3>2. CASE i # nextId
      <4>1. i < nextId /\ ended[i] = "no"
        BY <1>4, <2>2, <3>2 DEF IInv, OneOwner, Live
      <4>2. QED
        BY <1>3, <1>5, <4>1 DEF Ids
    <3>3. QED
      BY <3>1, <3>2
  <2>3. QED
    BY <2>1, <2>2 DEF OneOwner, Live
<1>11. FreshIds'
  BY <1>3, <1>5 DEF IInv, FreshIds, Ids
<1>12. ConnectionLimit'
  <2> SUFFICES ASSUME NEW a \in Requests PROVE Cardinality(conns'[a]) <= Limit
    BY DEF ConnectionLimit
  <2>1. CASE a = ref[r]
    <3>1. IsFiniteSet(conns[a]) /\ Cardinality(conns[a]) \in Nat
      BY <1>2, <2>1, FiniteConns
    <3>2. Cardinality(conns'[a]) = Cardinality(conns[a]) + 1
      BY <1>4, <1>9, <2>1, <3>1, FS_AddElement
    <3>3. Cardinality(conns[a]) < Limit
      BY <1>1, <1>2, <2>1 DEF IInv, RoomForOne
    <3>4. QED
      BY <3>1, <3>2, <3>3, ServerAssumption
  <2>2. CASE a # ref[r]
    BY <1>4, <2>2 DEF IInv, ConnectionLimit
  <2>3. QED
    BY <2>1, <2>2
<1>13. ASSUME NEW s \in Requests, s # r, pc[s] \in Holding
       PROVE  Conns(s)' = Conns(s)
  <2>1. ref[s] # ref[r] /\ ref[s] \in Requests
    BY <1>1, <1>13, OtherArcs DEF IInv, RefsAgree
  <2>2. QED
    BY <1>4, <1>5, <2>1 DEF Conns
<1>14. RoomForOne'
  <2> SUFFICES ASSUME NEW s \in Requests, pc'[s] = "connecting"
               PROVE  Cardinality(Conns(s)') < Limit
    BY DEF RoomForOne, At
  <2>1. s # r /\ pc[s] = "connecting" /\ pc[s] \in Holding
    BY <1>5 DEF Holding, Serving
  <2>2. QED
    BY <1>13, <2>1 DEF IInv, RoomForOne, At
<1>15. MessageAtHand'
  BY <1>5 DEF IInv, MessageAtHand
<1>16. EntryStaysDuringAwait'
  <2> SUFFICES ASSUME NEW s \in Requests, pc'[s] \in {"writing", "reading", "polling"}
               PROVE  /\ pc'[s] \in {"writing", "reading"} => Head(todo'[s]).id \in Conns(s)'
                      /\ pc'[s] = "polling" => polled'[s] \subseteq Conns(s)'
    BY DEF EntryStaysDuringAwait, At, Current
  <2>1. s # r /\ pc'[s] = pc[s] /\ pc[s] \in Holding
    BY <1>5 DEF Holding, Serving
  <2>2. QED
    BY <1>5, <1>13, <2>1 DEF IInv, EntryStaysDuringAwait, At, Current
<1>17. QED
  BY <1>6, <1>7, <1>8, <1>10, <1>11, <1>12, <1>14, <1>15, <1>16 DEF IInv

\* A step of a task that touches no connection and ends in no await but the
\* lock's leaves what IInv says of connections as it is.
LEMMA CalmStep ==
  ASSUME IInv, NEW r \in Requests,
         \A s \in Requests : s # r => /\ pc'[s] = pc[s] /\ ref'[s] = ref[s]
                                      /\ todo'[s] = todo[s] /\ polled'[s] = polled[s],
         pc'[r] \notin {"connecting", "writing", "reading", "polling"},
         UNCHANGED <<conns, nextId, ended>>
  PROVE  /\ OneOwner' /\ FreshIds' /\ ConnectionLimit'
         /\ RoomForOne' /\ MessageAtHand' /\ EntryStaysDuringAwait'
<1>1. OneOwner' /\ FreshIds' /\ ConnectionLimit'
  BY DEF IInv, OneOwner, FreshIds, ConnectionLimit, Live
<1>2. MessageAtHand'
  BY DEF IInv, MessageAtHand
<1>3. \A s \in Requests : s # r => Conns(s)' = Conns(s)
  BY DEF Conns
<1>4. RoomForOne' /\ EntryStaysDuringAwait'
  BY <1>3 DEF IInv, RoomForOne, EntryStaysDuringAwait, At, Current
<1>5. QED
  BY <1>1, <1>2, <1>4

\* A request arrives, or none that can be read.
LEMMA ArriveKeepsIInv ==
  ASSUME IInv, NEW r \in Requests, (\E m \in Traffic : Arrive(r, m)) \/ Discard(r)
  PROVE  IInv'
<1>1. CASE \E m \in Traffic : Arrive(r, m)
  <2>1. PICK m \in Traffic : Arrive(r, m)
    BY <1>1
  <2>2. TypeOK'
    BY <2>1, ArriveTypeOK DEF IInv
  <2>3. m.client \in Clients
    BY ServerAssumption
  <2>4. /\ pc[r] = "idle" /\ pc'[r] = "lookup" /\ client'[r] = m.client
        /\ \A s \in Requests : s # r => /\ pc'[s] = pc[s] /\ client'[s] = client[s]
                                       /\ todo'[s] = todo[s]
        /\ UNCHANGED <<polled, ref, clients, holder, conns, nextId, sweep, ended>>
    BY <2>1 DEF Arrive, At, Goto, IInv, TypeOK, clientVars, histVars
  <2>5. KnownClient'
    BY <2>3, <2>4 DEF IInv, KnownClient
  <2>6. RefsAgree' /\ HoldersHold' /\ SweepKnown'
    BY <2>4 DEF IInv, RefsAgree, HoldersHold, SweepKnown, Holding, Serving
  <2>7. ArcsOwned'
    BY <2>4 DEF IInv, ArcsOwned, TypeOK
  <2>8. QED
    BY <2>2, <2>4, <2>5, <2>6, <2>7, CalmStep DEF IInv
<1>2. CASE Discard(r)
  <2>1. TypeOK'
    BY <1>2, GetClientTypeOK DEF Discard, At, IInv
  <2>2. /\ pc[r] = "idle" /\ pc'[r] = "dropped"
        /\ \A s \in Requests : s # r => pc'[s] = pc[s]
        /\ UNCHANGED <<client, todo, polled, ref, clients, holder, conns, nextId, sweep, ended>>
    BY <1>2 DEF Discard, At, Goto, IInv, TypeOK, clientVars, histVars
  <2>3. KnownClient' /\ RefsAgree' /\ HoldersHold' /\ SweepKnown'
    BY <2>2 DEF IInv, KnownClient, RefsAgree, HoldersHold, SweepKnown, Holding, Serving
  <2>4. ArcsOwned'
    BY <2>2 DEF IInv, ArcsOwned, TypeOK
  <2>5. QED
    BY <2>1, <2>2, <2>3, <2>4, CalmStep DEF IInv
<1>3. QED
  BY <1>1, <1>2

\* The client's state is found, or created unless another task was faster.
LEMMA GetClientKeepsIInv ==
  ASSUME IInv, NEW r \in Requests, Lookup(r) \/ Insert(r)
  PROVE  IInv'
<1>1. client[r] \in Clients
  BY DEF Lookup, Insert, At, IInv, KnownClient, PC
<1>2. TypeOK'
  BY <1>1, GetClientTypeOK DEF IInv
<1>3. CASE Lookup(r)
  <2>1. /\ pc[r] = "lookup"
        /\ \A s \in Requests : s # r => pc'[s] = pc[s] /\ ref'[s] = ref[s]
        /\ UNCHANGED <<client, todo, polled, clients, holder, conns, nextId, sweep, ended>>
    BY <1>3 DEF Lookup, At, Goto, IInv, TypeOK, clientVars, histVars
  <2>2. \/ pc'[r] = "insert"
        \/ pc'[r] = "lock" /\ ref'[r] = clients[client[r]] /\ ref'[r] \in Requests
    BY <1>1, <1>3 DEF Lookup, Goto, IInv, TypeOK
  <2>3. KnownClient' /\ SweepKnown'
    BY <1>1, <2>1 DEF IInv, KnownClient, SweepKnown
  <2>4. RefsAgree'
    BY <2>1, <2>2 DEF IInv, RefsAgree, Holding, Serving
  <2>5. HoldersHold'
    BY <2>1, <2>2 DEF IInv, HoldersHold, Holding, Serving
  <2>6. ArcsOwned'
    BY <2>1 DEF IInv, ArcsOwned, TypeOK
  <2>7. QED
    BY <1>2, <2>1, <2>2, <2>3, <2>4, <2>5, <2>6, CalmStep DEF IInv
<1>4. CASE Insert(r)
  <2> DEFINE a == InsertIfAbsent(r, clients[client[r]])
  <2>1. /\ pc[r] = "insert" /\ pc'[r] = "lock"
        /\ \A s \in Requests : s # r => pc'[s] = pc[s] /\ ref'[s] = ref[s]
        /\ UNCHANGED <<client, todo, polled, holder, conns, nextId, sweep, ended>>
    BY <1>4 DEF Insert, At, Goto, IInv, TypeOK, histVars
  <2>2. /\ ref'[r] = a /\ clients'[client[r]] = a
        /\ \A c \in Clients : c # client[r] => clients'[c] = clients[c]
    BY <1>1, <1>4 DEF Insert, IInv, TypeOK
  <2>3. a \in Requests /\ (clients[client[r]] # NoArc => a = clients[client[r]])
    BY <1>1 DEF InsertIfAbsent, IInv, TypeOK
  <2>4. clients[client[r]] = NoArc => a = r
    BY DEF InsertIfAbsent
  <2> HIDE DEF a
  <2>5. KnownClient'
    BY <1>1, <2>1 DEF IInv, KnownClient
  <2>6. SweepKnown'
    BY <2>1, <2>2, <2>3, ServerAssumption DEF IInv, SweepKnown
  <2>7. RefsAgree'
    <3> SUFFICES ASSUME NEW s \in Requests, pc'[s] \in Holding \union {"lock"}
                 PROVE  ref'[s] \in Requests /\ ref'[s] = clients'[client[s]]
      BY <2>1 DEF RefsAgree
    <3>1. CASE s = r
      BY <2>2, <2>3, <3>1
    <3>2. CASE s # r
      <4>1. /\ pc[s] \in Holding \union {"lock"} /\ ref'[s] = ref[s]
            /\ ref[s] \in Requests /\ ref[s] = clients[client[s]]
        BY <2>1, <3>2 DEF IInv, RefsAgree
      <4>2. client[s] \in Clients
        BY <4>1 DEF IInv, KnownClient, PC, Holding, Serving
      <4>3. QED
        BY <2>2, <2>3, <4>1, <4>2, ServerAssumption
    <3>3. QED
      BY <3>1, <3>2
  <2>8. HoldersHold'
    BY <2>1 DEF IInv, HoldersHold, Holding, Serving
  <2>9. ArcsOwned'
    <3> SUFFICES ASSUME NEW c \in Clients, clients'[c] # NoArc
                 PROVE  /\ client[clients'[c]] = c
                        /\ pc'[clients'[c]] \notin {"idle", "lookup", "insert"}
      BY <2>1 DEF ArcsOwned
    <3>1. CASE c = client[r] /\ clients[c] = NoArc
      BY <2>1, <2>2, <2>4, <3>1
    <3>2. CASE clients[c] # NoArc
      <4>1. clients'[c] = clients[c] /\ clients[c] \in Requests
        BY <2>2, <2>3, <3>2 DEF IInv, TypeOK
      <4>2. QED
        BY <2>1, <3>2, <4>1 DEF IInv, ArcsOwned
    <3>3. QED
      BY <2>2, <3>1, <3>2
  <2>10. QED
    BY <1>2, <2>1, <2>5, <2>6, <2>7, <2>8, <2>9, CalmStep DEF IInv
<1>5. QED
  BY <1>3, <1>4

\* The client's lock is taken by one task at a time.
LEMMA LockKeepsIInv ==
  ASSUME IInv, NEW r \in Requests, Lock(r)
  PROVE  IInv'
<1>1. /\ pc[r] = "lock" /\ ref[r] \in Requests /\ holder[ref[r]] = Free
      /\ client[r] \in Clients
  BY DEF Lock, Unlocked, At, IInv, RefsAgree, KnownClient, PC
<1>2. TypeOK'
  BY <1>1, LockTypeOK DEF IInv
<1>3. /\ pc'[r] \in {"run", "rejecting"}
      /\ \A s \in Requests : s # r => pc'[s] = pc[s]
      /\ \A a \in Requests : holder'[a] = IF a = ref[r] THEN r ELSE holder[a]
      /\ UNCHANGED <<client, todo, polled, ref, clients, conns, nextId, sweep, ended>>
  BY <1>1 DEF Lock, Goto, IInv, TypeOK, histVars
<1>4. KnownClient' /\ SweepKnown'
  BY <1>1, <1>3 DEF IInv, KnownClient, SweepKnown
<1>5. RefsAgree'
  BY <1>1, <1>3 DEF IInv, RefsAgree
<1>6. ArcsOwned'
  BY <1>3 DEF IInv, ArcsOwned, TypeOK
<1>7. HoldersHold'
  <2> SUFFICES ASSUME NEW s \in Requests, pc'[s] \in Holding
               PROVE  holder'[ref[s]] = s
    BY <1>3 DEF HoldersHold
  <2>1. CASE s = r
    BY <1>1, <1>3, <2>1
  <2>2. CASE s # r
    <3>1. holder[ref[s]] = s /\ ref[s] \in Requests
      BY <1>3, <2>2 DEF IInv, HoldersHold, RefsAgree
    <3>2. QED
      BY <1>1, <1>3, <3>1, ServerAssumption
  <2>3. QED
    BY <2>1, <2>2
<1>8. QED
  BY <1>2, <1>3, <1>4, <1>5, <1>6, <1>7, CalmStep DEF IInv

\* The response is written or lost, and the lock released.
LEMMA EndKeepsIInv ==
  ASSUME IInv, NEW r \in Requests, Reply(r) \/ ReplyFails(r)
  PROVE  IInv'
<1>1. End(r) /\ Finished(r)
  BY DEF Reply, ReplyFails
<1>2. pc[r] \in Holding
  BY <1>1 DEF Finished, At, Holding, Serving
<1>3. ref[r] \in Requests /\ client[r] \in Clients
  BY <1>2 DEF IInv, RefsAgree, KnownClient, PC, Holding, Serving
<1>4. /\ pc'[r] \in {"done", "dropped"}
      /\ \A s \in Requests : s # r => pc'[s] = pc[s] /\ todo'[s] = todo[s]
      /\ \A a \in Requests : holder'[a] = IF a = ref[r] THEN Free ELSE holder[a]
      /\ UNCHANGED <<client, polled, ref, clients, conns, nextId, sweep, ended>>
  BY <1>1, <1>3 DEF End, Unlock, Goto, IInv, TypeOK
<1>5. lost' \in [Ids -> SUBSET Nat]
  <2>1. CASE Reply(r)
    BY <2>1 DEF Reply, IInv, TypeOK
  <2>2. CASE ReplyFails(r)
    <3>1. \A j \in DOMAIN out[r] : out[r][j].n \in Nat
      <4>1. out[r] \in Seq(Response)
        BY DEF IInv, TypeOK
      <4>2. \A j \in DOMAIN out[r] : out[r][j] \in Response
        BY <4>1
      <4>3. QED
        BY <4>2 DEF Response
    <3>2. \A i \in Ids : {out[r][j].n : j \in {j \in DOMAIN out[r] :
                             out[r][j].id = i /\ out[r][j].kind = "Data"}} \subseteq Nat
      BY <3>1
    <3>3. \A i \in Ids : lost[i] \in SUBSET Nat
      BY DEF IInv, TypeOK
    <3>4. QED
      BY <2>2, <3>2, <3>3 DEF ReplyFails
  <2>3. QED
    BY <2>1, <2>2
<1>6. TypeOK'
  <2>1. /\ pc' \in [Requests -> PC]
        /\ holder' \in [Requests -> Requests \union {Free}]
        /\ out' \in [Requests -> Seq(Response)]
        /\ todo' \in [Requests -> Seq(Message)]
    <3>1. (IF At(r, "rejecting") THEN "dropped" ELSE "done") \in PC
      BY DEF PC
    <3>2. <<>> \in Seq(Response) /\ <<>> \in Seq(Message)
      OBVIOUS
    <3>3. QED
      BY <1>1, <3>1, <3>2 DEF End, Unlock, Goto, IInv, TypeOK
  <2>2. wire' \in [Clients -> Seq(Response)]
    <3>1. wire \in [Clients -> Seq(Response)] /\ out[r] \in Seq(Response)
      BY DEF IInv, TypeOK
    <3>2. wire[client[r]] \o out[r] \in Seq(Response)
      BY <1>3, <3>1
    <3>3. QED
      BY <3>1, <3>2 DEF Reply, ReplyFails
  <2>3. QED
    BY <1>1, <1>5, <2>1, <2>2 DEF End, IInv, TypeOK, streamVars
<1>7. KnownClient' /\ SweepKnown'
  BY <1>3, <1>4 DEF IInv, KnownClient, SweepKnown
<1>8. RefsAgree'
  BY <1>4 DEF IInv, RefsAgree, Holding, Serving
<1>9. ArcsOwned'
  BY <1>4 DEF IInv, ArcsOwned, TypeOK
<1>10. HoldersHold'
  <2> SUFFICES ASSUME NEW s \in Requests, pc'[s] \in Holding
               PROVE  holder'[ref[s]] = s
    BY <1>4 DEF HoldersHold
  <2>1. s # r /\ pc[s] \in Holding
    BY <1>4 DEF Holding, Serving
  <2>2. ref[s] # ref[r] /\ ref[s] \in Requests /\ holder[ref[s]] = s
    BY <1>2, <2>1, OtherArcs DEF IInv, RefsAgree, HoldersHold
  <2>3. QED
    BY <1>4, <2>2
<1>11. QED
  BY <1>4, <1>6, <1>7, <1>8, <1>9, <1>10, CalmStep DEF IInv

\* The clean-up task.
LEMMA CleanupKeepsIInv ==
  ASSUME IInv, CleanupNext
  PROVE  IInv'
<1>1. CASE Tick \/ \E c \in Clients : Visit(c)
  <2>1. UNCHANGED <<taskVars, clientVars, streamVars, histVars>>
    BY <1>1 DEF Tick, Visit
  <2>2. /\ sweep' \in [todo : SUBSET Clients, at : Clients \union {NoClient}]
        /\ SweepKnown'
    <3>1. CASE Tick
      <4>1. sweep'.todo = {c \in Clients : clients[c] # NoArc} /\ sweep'.at = NoClient
        BY <3>1 DEF Tick, IInv, TypeOK
      <4>2. sweep' \in [todo : SUBSET Clients, at : Clients \union {NoClient}]
        BY <3>1 DEF Tick, IInv, TypeOK
      <4>3. QED
        BY <2>1, <4>1, <4>2, ServerAssumption DEF SweepKnown, clientVars
    <3>2. ASSUME NEW c \in Clients, Visit(c)
          PROVE  /\ sweep' \in [todo : SUBSET Clients, at : Clients \union {NoClient}]
                 /\ SweepKnown'
      BY <2>1, <3>2 DEF Visit, IInv, TypeOK, SweepKnown, clientVars
    <3>3. QED
      BY <1>1, <3>1, <3>2
  <2>3. TypeOK'
    BY <2>1, <2>2 DEF IInv, TypeOK, taskVars, clientVars, streamVars, histVars
  <2>4. /\ KnownClient' /\ RefsAgree' /\ ArcsOwned' /\ HoldersHold' /\ OneOwner'
        /\ FreshIds' /\ ConnectionLimit' /\ MessageAtHand'
    BY <2>1 DEF IInv, KnownClient, RefsAgree, ArcsOwned, HoldersHold, OneOwner, Live,
       FreshIds, ConnectionLimit, MessageAtHand, taskVars, clientVars, histVars
  <2>5. RoomForOne' /\ EntryStaysDuringAwait'
    BY <2>1 DEF IInv, RoomForOne, EntryStaysDuringAwait, At, Conns, Current,
       taskVars, clientVars
  <2>6. QED
    BY <2>2, <2>3, <2>4, <2>5 DEF IInv
<1>2. CASE Sweep
  <2> DEFINE a == clients[sweep.at]
             D == conns[a] \intersect idle
  <2>1. sweep.at \in Clients /\ a \in Requests /\ holder[a] = Free
    BY <1>2 DEF Sweep, Unlocked, IInv, TypeOK, SweepKnown
  <2>2. /\ conns' = [conns EXCEPT ![a] = @ \ idle]
        /\ ended' = [i \in Ids |-> IF i \in D THEN "idle" ELSE ended[i]]
        /\ idle' = idle \ conns[a]
        /\ sweep' = [sweep EXCEPT !.at = NoClient]
        /\ UNCHANGED <<taskVars, clients, holder, validator, nextId, target, wire, lost>>
    BY <1>2 DEF Sweep
  <2> HIDE DEF a
  <2>3. TypeOK'
    BY <2>1, <2>2 DEF IInv, TypeOK, taskVars
  <2>4. KnownClient' /\ RefsAgree' /\ ArcsOwned' /\ HoldersHold' /\ MessageAtHand'
    BY <2>2 DEF IInv, KnownClient, RefsAgree, ArcsOwned, HoldersHold, MessageAtHand, taskVars
  <2>5. SweepKnown'
    BY <2>1, <2>2, ServerAssumption DEF IInv, SweepKnown, TypeOK
  <2>6. /\ \A b \in Requests : conns'[b] = IF b = a THEN conns[b] \ idle ELSE conns[b]
        /\ \A b \in Requests : conns[b] \in SUBSET Ids
    BY <2>1, <2>2 DEF IInv, TypeOK
  <2>7. OneOwner'
    <3>1. \A b, c \in Requests : b # c => conns'[b] \intersect conns'[c] = {}
      BY <2>6 DEF IInv, OneOwner
    <3>2. ASSUME NEW i \in Ids, NEW b \in Requests, i \in conns'[b]
          PROVE  i < nextId' /\ ended'[i] = "no"
      <4>1. i \in conns[b] /\ i \notin D
        BY <2>1, <2>6, <3>2 DEF IInv, OneOwner
      <4>2. i < nextId /\ ended[i] = "no"
        BY <4>1 DEF IInv, OneOwner, Live
      <4>3. QED
        BY <2>2, <4>1, <4>2
    <3>3. QED
      BY <3>1, <3>2 DEF OneOwner, Live
  <2>8. FreshIds'
    <3> SUFFICES ASSUME NEW i \in Ids, i >= nextId PROVE ended'[i] = "no"
      BY <2>2 DEF FreshIds
    <3>1. nextId \in Int /\ i \in Int
      BY DEF IInv, TypeOK, Ids
    <3>2. i \notin conns[a]
      BY <2>1, <3>1 DEF IInv, OneOwner, Live
    <3>3. QED
      BY <2>2, <3>2 DEF IInv, FreshIds
  <2>9. ConnectionLimit'
    <3> SUFFICES ASSUME NEW b \in Requests PROVE Cardinality(conns'[b]) <= Limit
      BY DEF ConnectionLimit
    <3>1. conns[b] \in SUBSET Ids /\ conns'[b] \in SUBSET conns[b]
      BY <2>6
    <3>2. conns'[b] \in SUBSET Ids
      BY <3>1
    <3>3. /\ Cardinality(conns'[b]) <= Cardinality(conns[b])
          /\ Cardinality(conns'[b]) \in Nat
          /\ Cardinality(conns[b]) \in Nat
      BY <3>1, <3>2, FewerConns, FiniteConns
    <3>4. QED
      BY <3>3, ServerAssumption DEF IInv, ConnectionLimit
  <2>10. ASSUME NEW r \in Requests, pc[r] \in Holding
         PROVE  Conns(r)' = Conns(r)
    <3>1. ref[r] \in Requests /\ holder[ref[r]] = r
      BY <2>10, HolderFacts
    <3>2. ref[r] # a
      BY <2>1, <3>1, ServerAssumption
    <3>3. QED
      BY <2>2, <2>6, <3>1, <3>2 DEF Conns, taskVars
  <2>11. RoomForOne' /\ EntryStaysDuringAwait'
    BY <2>2, <2>10
       DEF IInv, RoomForOne, EntryStaysDuringAwait, At, Current, taskVars, Holding, Serving
  <2>12. QED
    BY <2>3, <2>4, <2>5, <2>7, <2>8, <2>9, <2>11 DEF IInv
<1>3. QED
  BY <1>1, <1>2 DEF CleanupNext

\* Steps that leave all but the streams, idle and history alone.
LEMMA OutsideStep ==
  ASSUME IInv, TypeOK', UNCHANGED <<taskVars, clientVars, sweep, histVars>>
  PROVE  IInv'
<1>1. /\ KnownClient' /\ RefsAgree' /\ ArcsOwned' /\ HoldersHold' /\ OneOwner'
      /\ FreshIds' /\ ConnectionLimit' /\ MessageAtHand' /\ SweepKnown'
  BY DEF IInv, KnownClient, RefsAgree, ArcsOwned, HoldersHold, OneOwner, Live, SweepKnown,
     FreshIds, ConnectionLimit, MessageAtHand, taskVars, clientVars, histVars
<1>2. RoomForOne' /\ EntryStaysDuringAwait'
  BY DEF IInv, RoomForOne, EntryStaysDuringAwait, At, Conns, Current, taskVars, clientVars
<1>3. QED
  BY <1>1, <1>2 DEF IInv

\* The targets and the clock.
LEMMA TargetKeepsIInv ==
  ASSUME IInv, NEW i \in Ids, TargetNext(i)
  PROVE  IInv'
<1>1. target[i] \in Stream /\ target \in [Ids -> Stream]
  BY DEF IInv, TypeOK
<1>2. ASSUME NEW t \in Stream, TargetStep(i, t)
      PROVE  IInv'
  <2>1. TypeOK'
    BY <1>1, <1>2 DEF TargetStep, IInv, TypeOK, taskVars, clientVars, histVars
  <2>2. QED
    BY <1>2, <2>1, OutsideStep DEF TargetStep
<1>3. CASE TargetSends(i)
  <2>1. [target[i] EXCEPT !.sent = @ + 1] \in Stream
    BY <1>1 DEF Stream
  <2>2. QED
    BY <1>2, <1>3, <2>1 DEF TargetSends
<1>4. ASSUME NEW how \in {"eof", "error"}, TargetEnds(i, how)
      PROVE  IInv'
  <2>1. [target[i] EXCEPT !.state = how] \in Stream
    BY <1>1 DEF Stream
  <2>2. QED
    BY <1>2, <1>4, <2>1 DEF TargetEnds
<1>5. CASE TargetStalls(i)
  <2>1. [target[i] EXCEPT !.stalled = TRUE] \in Stream
    BY <1>1 DEF Stream
  <2>2. QED
    BY <1>2, <1>5, <2>1 DEF TargetStalls
<1>6. CASE Elapse(i)
  <2>1. TypeOK'
    BY <1>6 DEF Elapse, IInv, TypeOK, taskVars, clientVars, histVars
  <2>2. QED
    BY <1>6, <2>1, OutsideStep DEF Elapse
<1>7. QED
  BY <1>3, <1>4, <1>5, <1>6 DEF TargetNext

\* Every step of the system keeps the invariant.
LEMMA StepKeepsIInv == IInv /\ [Next]_vars => IInv'
<1> SUFFICES ASSUME IInv, [Next]_vars PROVE IInv'
  OBVIOUS
<1>1. ASSUME NEW r \in Requests, TaskNext(r)
      PROVE  IInv'
  <2>1. CASE (\E m \in Traffic : Arrive(r, m)) \/ Discard(r)
    BY <2>1, ArriveKeepsIInv
  <2>2. CASE Lookup(r) \/ Insert(r)
    BY <2>2, GetClientKeepsIInv
  <2>3. CASE Lock(r)
    BY <2>3, LockKeepsIInv
  <2>4. CASE RefuseStart(r) \/ Connect(r) \/ ConnectFails(r)
    BY <2>4, StartKeepsIInv
  <2>5. CASE Connected(r)
    BY <2>5, ConnectedKeepsIInv
  <2>6. CASE SkipData(r) \/ Write(r) \/ Written(r) \/ WriteFails(r)
    BY <2>6, WriteKeepsIInv
  <2>7. CASE ReadReply(r)
    BY <2>7, ReadKeepsIInv
  <2>8. CASE Close(r)
    BY <2>8, CloseKeepsIInv
  <2>9. CASE Poll(r) \/ PollDone(r)
    BY <2>9, PollKeepsIInv
  <2>10. CASE \E i \in Ids : PollOne(r, i)
    BY <2>10, PollOneKeepsIInv
  <2>11. CASE Reply(r) \/ ReplyFails(r)
    BY <2>11, EndKeepsIInv
  <2>12. QED
    BY <1>1, <2>1, <2>2, <2>3, <2>4, <2>5, <2>6, <2>7, <2>8, <2>9, <2>10, <2>11
       DEF TaskNext, TaskStep
<1>2. CASE CleanupNext
  BY <1>2, CleanupKeepsIInv
<1>3. ASSUME NEW i \in Ids, TargetNext(i)
      PROVE  IInv'
  BY <1>3, TargetKeepsIInv
<1>4. CASE UNCHANGED vars
  <2>1. TypeOK'
    BY <1>4 DEF vars, IInv, TypeOK, taskVars, clientVars, streamVars, histVars
  <2>2. QED
    BY <1>4, <2>1, OutsideStep DEF vars
<1>5. QED
  BY <1>1, <1>2, <1>3, <1>4 DEF Next

--------------------------------------------------------------------------------
(* The theorems                                                                 *)

\* The inductive invariant holds of every behaviour of the server.
THEOREM ServerInvariant == Spec => []IInv
<1>1. Init => IInv
  BY InitIInv
<1>2. IInv /\ [Next]_vars => IInv'
  BY StepKeepsIInv
<1>3. QED
  BY <1>1, <1>2, PTL DEF Spec

\* The state of the server is always well-formed; in particular nobody reads
\* more from a target than the target sent.
THEOREM ServerTypeCorrect == Spec => []TypeOK
<1>1. IInv => TypeOK
  BY DEF IInv
<1>2. QED
  BY <1>1, ServerInvariant, PTL

\* connections_per_pkey holds although a connect is awaited between the look
\* at the limit and the new entry.
THEOREM ServerConnectionLimit == Spec => []ConnectionLimit
<1>1. IInv => ConnectionLimit
  BY DEF IInv
<1>2. QED
  BY <1>1, ServerInvariant, PTL

\* No connection id is in two clients' maps, or in one after it was removed.
THEOREM ServerOneOwner == Spec => []OneOwner
<1>1. IInv => OneOwner
  BY DEF IInv
<1>2. QED
  BY <1>1, ServerInvariant, PTL

\* Requests of one client are served one at a time, the race to create the
\* client's state included.
THEOREM ServerOneTaskPerClient == Spec => []OneTaskPerClient
<1>1. IInv => OneTaskPerClient
  <2> SUFFICES ASSUME IInv, NEW r \in Requests, NEW s \in Requests, r # s,
                      pc[r] \in Holding, pc[s] \in Holding
               PROVE  client[r] # client[s]
    BY DEF OneTaskPerClient
  <2>1. ref[r] # ref[s]
    BY OtherArcs
  <2>2. ref[r] = clients[client[r]] /\ ref[s] = clients[client[s]]
    BY DEF IInv, RefsAgree
  <2>3. QED
    BY <2>1, <2>2
<1>2. QED
  BY <1>1, ServerInvariant, PTL

\* The entries a task works on are still there after every await.
THEOREM ServerEntryStays == Spec => []EntryStaysDuringAwait
<1>1. IInv => EntryStaysDuringAwait
  BY DEF IInv
<1>2. QED
  BY <1>1, ServerInvariant, PTL

--------------------------------------------------------------------------------
(* Draining a connection before it is closed                                    *)

\* A connection in the table of a task's client has not been closed.
LEMMA ReadsLive ==
  ASSUME IInv, NEW r \in Requests, NEW i \in Conns(r), pc[r] \in Holding
  PROVE  ended[i] = "no" /\ i \in Ids
<1>1. ref[r] \in Requests
  BY DEF IInv, RefsAgree
<1>2. i \in Ids
  BY <1>1 DEF IInv, TypeOK, Conns
<1>3. Live(i)
  BY <1>1 DEF Conns, Live
<1>4. QED
  BY <1>2, <1>3 DEF IInv, OneOwner

\* A read that meets the end of the stream takes all there is.
LEMMA ReceiveDrains ==
  ASSUME TypeOK, DrainedBeforeClose, NEW r \in Requests, NEW i \in Ids, NEW k \in Nat,
         NEW closing \in BOOLEAN, closing => MeetsEnd(i, k),
         ended[i] = "no", Receive(r, i, k, closing)
  PROVE  DrainedBeforeClose'
<1> SUFFICES ASSUME NEW j \in Ids, ended'[j] \in {"eof", "error"}
             PROVE  Available(j)' = 0
  BY DEF DrainedBeforeClose
<1>1. /\ target \in [Ids -> Stream]
      /\ ended \in [Ids -> {"no", "client", "eof", "error", "write", "idle"}]
  BY DEF TypeOK
<1>2. CASE j = i
  <2>1. closing
    BY <1>2 DEF Receive
  <2>2. k = target[i].sent - target[i].read /\ target[i] \in Stream
    BY <1>1, <2>1 DEF MeetsEnd, Available
  <2>3. target'[i].sent = target[i].sent /\ target'[i].read = target[i].read + k
    BY <1>1, <2>2 DEF Receive, Stream
  <2>4. QED
    BY <1>2, <2>2, <2>3 DEF Available, Stream
<1>3. CASE j # i
  <2>1. target'[j] = target[j] /\ ended'[j] = ended[j]
    BY <1>1, <1>3 DEF Receive, Remove
  <2>2. QED
    BY <2>1 DEF DrainedBeforeClose, Available
<1>4. QED
  BY <1>2, <1>3

LEMMA DrainedStep == IInv /\ DrainedBeforeClose /\ [Next]_vars => DrainedBeforeClose'
<1> SUFFICES ASSUME IInv, DrainedBeforeClose, [Next]_vars
             PROVE  DrainedBeforeClose'
  OBVIOUS
<1>1. TypeOK
  BY DEF IInv
<1>2. ASSUME UNCHANGED <<target, ended>>
      PROVE  DrainedBeforeClose'
  BY <1>2 DEF DrainedBeforeClose, Available
<1>3. ASSUME UNCHANGED target, NEW s \in SUBSET Ids, NEW why \in {"client", "write", "idle"},
             ended' = [i \in Ids |-> IF i \in s THEN why ELSE ended[i]]
      PROVE  DrainedBeforeClose'
  BY <1>3 DEF DrainedBeforeClose, Available
<1>4. ASSUME NEW r \in Requests, TaskNext(r)
      PROVE  DrainedBeforeClose'
  <2>1. CASE ReadReply(r)
    <3>1. Current(r) \in Ids /\ ended[Current(r)] = "no"
      <4>1. Current(r) \in Conns(r) /\ pc[r] \in Holding
        BY <2>1 DEF ReadReply, IInv, EntryStaysDuringAwait, At, Holding, Serving
      <4>2. QED
        BY <4>1, ReadsLive
    <3>2. PICK k \in 0 .. RespCap, closing \in BOOLEAN :
            (closing => MeetsEnd(Current(r), k)) /\ Receive(r, Current(r), k, closing)
      BY <2>1 DEF ReadReply
    <3>3. k \in Nat
      BY <3>2, ServerAssumption
    <3>4. QED
      BY <1>1, <3>1, <3>2, <3>3, ReceiveDrains
  <2>2. CASE \E i \in Ids : PollOne(r, i)
    <3>1. PICK i \in Ids : PollOne(r, i)
      BY <2>2
    <3>2. ended[i] = "no"
      <4>1. i \in Conns(r) /\ pc[r] \in Holding
        BY <3>1 DEF PollOne, IInv, EntryStaysDuringAwait, At, Holding, Serving
      <4>2. QED
        BY <4>1, ReadsLive
    <3>3. PICK k : /\ k = (IF Available(i) < RespCap THEN Available(i) ELSE RespCap)
                   /\ Receive(r, i, k, MeetsEnd(i, k))
      BY <3>1 DEF PollOne
    <3>4. k \in Nat /\ MeetsEnd(i, k) \in BOOLEAN
      BY <1>1, <3>3, ServerAssumption DEF TypeOK, Stream, Available, MeetsEnd
    <3>5. QED
      BY <1>1, <3>2, <3>3, <3>4, ReceiveDrains
  <2>3. CASE WriteFails(r) \/ Close(r)
    <3>1. CASE UNCHANGED ended
      BY <1>2, <2>3, <3>1 DEF WriteFails, Close, streamVars
    <3>2. CASE \E i, why : why \in {"client", "write"} /\ Remove(r, i, why)
      <4>1. PICK i, why : why \in {"client", "write"} /\ Remove(r, i, why)
        BY <3>2
      <4>2. ended' = [j \in Ids |-> IF j \in {i} \intersect Ids THEN why ELSE ended[j]]
        BY <1>1, <4>1 DEF Remove, TypeOK
      <4>3. UNCHANGED target
        BY <2>3 DEF WriteFails, Close, streamVars
      <4>4. QED
        BY <1>3, <4>1, <4>2, <4>3
    <3>3. QED
      BY <2>3, <3>1, <3>2 DEF WriteFails, Close
  <2>4. CASE ~(ReadReply(r) \/ (\E i \in Ids : PollOne(r, i)) \/ WriteFails(r) \/ Close(r))
    <3>1. UNCHANGED <<target, ended>>
      BY <1>4, <2>4
         DEF TaskNext, TaskStep, Arrive, Discard, Lookup, Insert, Lock, RefuseStart, Connect,
             Connected, ConnectFails, SkipData, Write, Written, Poll, PollDone, Reply,
             ReplyFails, End, streamVars, histVars
    <3>2. QED
      BY <1>2, <3>1
  <2>5. QED
    BY <2>1, <2>2, <2>3, <2>4
<1>5. CASE CleanupNext
  <2>1. CASE Sweep
    BY <1>3, <2>1, <1>1 DEF Sweep, TypeOK
  <2>2. CASE Tick \/ \E c \in Clients : Visit(c)
    BY <1>2, <2>2 DEF Tick, Visit, streamVars, histVars
  <2>3. QED
    BY <1>5, <2>1, <2>2 DEF CleanupNext
<1>6. ASSUME NEW i \in Ids, TargetNext(i)
      PROVE  DrainedBeforeClose'
  <2>1. CASE Elapse(i)
    BY <1>2, <2>1 DEF Elapse, histVars
  <2>2. ASSUME NEW t, TargetStep(i, t)
        PROVE  DrainedBeforeClose'
    <3>1. ended' = ended /\ ended[i] = "no"
      BY <2>2 DEF TargetStep, histVars, IInv, OneOwner
    <3>2. \A j \in Ids \ {i} : target'[j] = target[j]
      BY <1>1, <2>2 DEF TargetStep, TypeOK
    <3>3. QED
      BY <3>1, <3>2 DEF DrainedBeforeClose, Available
  <2>3. QED
    BY <1>6, <2>1, <2>2 DEF TargetNext, TargetSends, TargetEnds, TargetStalls
<1>7. CASE UNCHANGED vars
  BY <1>2, <1>7 DEF vars, streamVars, histVars
<1>8. QED
  BY <1>4, <1>5, <1>6, <1>7 DEF Next

\* When the server closes a connection because its target ended, everything the
\* target sent has been read, whichever of Data and Poll met the end.
THEOREM ServerDrained == Spec => []DrainedBeforeClose
<1>1. Init => DrainedBeforeClose
  BY DEF Init, DrainedBeforeClose
<1>2. IInv /\ DrainedBeforeClose /\ [Next]_vars => DrainedBeforeClose'
  BY DrainedStep
<1>3. QED
  BY <1>1, <1>2, ServerInvariant, PTL DEF Spec

--------------------------------------------------------------------------------
(* What reaches the clients, and what is lost on the way                        *)

\* What stays true of a response x that client c was told or is about to be told:
\* its connection was issued, is nobody else's, and is gone if x closes it.
Known(c, x) ==
  /\ x.id < nextId
  /\ \A b \in Requests : x.id \in conns[b] => b = clients[c]
  /\ x.kind = "Data" => x.n <= target[x.id].read
  /\ x.kind = "Close" => ~Live(x.id)

Good(c, s) ==
  \A j \in DOMAIN s : s[j].id \in Ids =>
    /\ Known(c, s[j])
    /\ \A k \in DOMAIN s : j < k /\ s[k].id = s[j].id => Precedes(s[j], s[k])

\* What c was told, and what it will have been told if a response now being
\* prepared reaches it.
Streams(c) == {wire[c]} \union {wire[c] \o out[r] : r \in {q \in Requests : client[q] = c}}

Mentions(s, i) == \E j \in DOMAIN s : s[j].id = i

OutHeld == \A r \in Requests : pc[r] \notin Holding => out[r] = <<>>

StreamsGood == \A c \in Clients : \A s \in Streams(c) : Good(c, s)

StreamsApart ==
  \A c, d \in Clients : \A s \in Streams(c), t \in Streams(d), i \in Ids :
    Mentions(s, i) /\ Mentions(t, i) => c = d

WireInv == OutHeld /\ StreamsGood /\ StreamsApart

\* Ids, streams and the map of clients only move on.
Evolves ==
  /\ nextId' \in Nat /\ nextId <= nextId'
  /\ \A b \in Requests : conns'[b] \subseteq conns[b] \union {nextId}
  /\ \A i \in Ids : target'[i].read \in Nat /\ target[i].read <= target'[i].read
  /\ \A c \in Clients : clients'[c] = clients[c] \/ clients[c] = NoArc

LEMMA StillKnown ==
  ASSUME IInv, Evolves, NEW c \in Clients, NEW x \in Response, x.id \in Ids, Known(c, x)
  PROVE  Known(c, x)'
<1>1. x.id \in Nat /\ x.n \in Nat /\ nextId \in Nat
  BY DEF Ids, Response, IInv, TypeOK
<1>2. x.id < nextId' /\ x.id # nextId
  BY <1>1 DEF Evolves, Known
<1>3. \A b \in Requests : x.id \in conns'[b] => x.id \in conns[b]
  BY <1>2 DEF Evolves
<1>4. \A b \in Requests : x.id \in conns'[b] => b = clients'[c]
  BY <1>3, ServerAssumption DEF Evolves, Known
<1>5. x.kind = "Data" => x.n <= target'[x.id].read
  <2>1. target[x.id] \in Stream
    BY DEF IInv, TypeOK
  <2>2. target[x.id].read \in Nat /\ target'[x.id].read \in Nat
    BY <2>1 DEF Stream, Evolves
  <2>3. QED
    BY <1>1, <2>2 DEF Evolves, Known
<1>6. x.kind = "Close" => ~Live(x.id)'
  BY <1>3 DEF Live, Known
<1>7. QED
  BY <1>2, <1>4, <1>5, <1>6 DEF Known

LEMMA StreamType ==
  ASSUME IInv, NEW c \in Clients, NEW s \in Streams(c)
  PROVE  s \in Seq(Response)
<1>1. wire[c] \in Seq(Response) /\ \A r \in Requests : out[r] \in Seq(Response)
  BY DEF IInv, TypeOK
<1>2. ASSUME NEW r \in Requests PROVE wire[c] \o out[r] \in Seq(Response)
  BY <1>1
<1>3. QED
  BY <1>1, <1>2 DEF Streams

LEMMA StillGood ==
  ASSUME IInv, Evolves, NEW c \in Clients, NEW s \in Streams(c), Good(c, s)
  PROVE  Good(c, s)'
<1>1. \A j \in DOMAIN s : s[j] \in Response
  BY StreamType
<1>2. \A j \in DOMAIN s : s[j].id \in Ids /\ Known(c, s[j]) => Known(c, s[j])'
  BY <1>1, StillKnown
<1>3. QED
  BY <1>2 DEF Good, Precedes

\* New responses to c continue what it was told.
Fits(c, t) ==
  \A j \in DOMAIN t : t[j].id \in Ids =>
    /\ Known(c, t[j])'
    /\ \A k \in DOMAIN t : j < k /\ t[k].id = t[j].id => Precedes(t[j], t[k])
    /\ \/ t[j].id = nextId
       \/ /\ clients[c] \in Requests /\ t[j].id \in conns[clients[c]]
          /\ t[j].kind # "Challenge"
          /\ t[j].kind = "Data" => t[j].n > target[t[j].id].read

Pushes(r, t) ==
  /\ pc'[r] \in Holding /\ (\A q \in Requests : q # r => pc'[q] = pc[q])
  /\ out' = [out EXCEPT ![r] = @ \o t]
  /\ UNCHANGED <<client, wire, lost>>
  /\ \E c \in Clients : c = client[r] /\ Fits(c, t)
  /\ \A i \in Ids : \A n \in Nat : n <= target'[i].read => n <= target[i].read \/ Carries(t, i, n)

Quiet ==
  /\ UNCHANGED <<out, wire, lost>>
  /\ \A i \in Ids : target'[i].read = target[i].read
  /\ \A r \in Requests : /\ client'[r] = client[r] \/ pc[r] = "idle"
                         /\ pc[r] \in Holding => pc'[r] \in Holding

LEMMA AppendGood ==
  ASSUME IInv, Evolves, NEW c \in Clients, NEW s \in Streams(c), Good(c, s),
         NEW t \in Seq(Response), Fits(c, t)
  PROVE  Good(c, s \o t)'
<1> DEFINE u == s \o t
<1>1. s \in Seq(Response)
  BY StreamType
<1>2. /\ Len(s) \in Nat /\ Len(t) \in Nat
      /\ DOMAIN u = 1 .. Len(s) + Len(t)
      /\ \A j \in DOMAIN u :
           \/ j \in DOMAIN s /\ u[j] = s[j]
           \/ j > Len(s) /\ j - Len(s) \in DOMAIN t /\ u[j] = t[j - Len(s)]
  BY <1>1
<1>3. \A j \in DOMAIN s : s[j] \in Response
  BY <1>1
<1>4. \A j \in DOMAIN t : t[j] \in Response
  OBVIOUS
<1> HIDE DEF u
<1>5. \A j \in DOMAIN s : s[j].id \in Ids => Known(c, s[j])'
  BY <1>3, StillKnown DEF Good
<1>6. ASSUME NEW j \in DOMAIN u, u[j].id \in Ids
      PROVE  Known(c, u[j])'
  BY <1>2, <1>5, <1>6 DEF Fits
<1>7. ASSUME NEW j \in DOMAIN u, NEW k \in DOMAIN u, j < k, u[j].id \in Ids, u[k].id = u[j].id
      PROVE  Precedes(u[j], u[k])
  <2>1. CASE k \in DOMAIN s /\ u[k] = s[k]
    <3>1. j \in DOMAIN s /\ u[j] = s[j]
      BY <1>1, <1>2, <1>7, <2>1
    <3>2. QED
      BY <1>7, <2>1, <3>1 DEF Good
  <2>2. CASE j > Len(s) /\ j - Len(s) \in DOMAIN t /\ u[j] = t[j - Len(s)]
    <3>1. k - Len(s) \in DOMAIN t /\ u[k] = t[k - Len(s)] /\ j - Len(s) < k - Len(s)
      BY <1>1, <1>2, <1>7, <2>2
    <3>2. QED
      BY <1>7, <2>2, <3>1 DEF Fits
  <2>3. CASE /\ j \in DOMAIN s /\ u[j] = s[j]
             /\ k > Len(s) /\ k - Len(s) \in DOMAIN t /\ u[k] = t[k - Len(s)]
    <3> DEFINE x == s[j]
               y == t[k - Len(s)]
    <3>1. x \in Response /\ y \in Response /\ x.id \in Ids /\ y.id = x.id /\ Known(c, x)
      BY <1>3, <1>4, <1>7, <2>3 DEF Good
    <3>2. y.id # nextId
      BY <3>1 DEF Known, Ids, IInv, TypeOK
    <3>3. /\ clients[c] \in Requests /\ y.id \in conns[clients[c]] /\ y.kind # "Challenge"
          /\ y.kind = "Data" => y.n > target[y.id].read
      BY <1>7, <2>3, <3>2 DEF Fits
    <3>4. x.kind # "Close"
      BY <3>1, <3>3 DEF Known, Live
    <3>5. target[x.id].read \in Nat /\ x.n \in Nat /\ y.n \in Nat
      BY <3>1 DEF IInv, TypeOK, Stream, Response
    <3>6. x.kind = "Data" /\ y.kind = "Data" => x.n < y.n
      BY <3>1, <3>3, <3>5 DEF Known
    <3>7. QED
      BY <2>3, <3>3, <3>4, <3>6 DEF Precedes
  <2>4. QED
    BY <1>2, <2>1, <2>2, <2>3
<1>8. QED
  BY <1>6, <1>7 DEF Good, Precedes, u

\* A connection whose responses fit c's stream is in nobody else's.
LEMMA AppendApart ==
  ASSUME IInv, StreamsGood, NEW c \in Clients, NEW d \in Clients, c # d,
         NEW t \in Seq(Response), Fits(c, t), NEW s \in Streams(d), NEW i \in Ids,
         Mentions(t, i)
  PROVE  ~Mentions(s, i)
<1> SUFFICES ASSUME Mentions(s, i) PROVE FALSE
  OBVIOUS
<1>1. PICK j \in DOMAIN t : t[j].id = i
  BY DEF Mentions
<1>2. PICK k \in DOMAIN s : s[k].id = i
  BY DEF Mentions
<1>3. Known(d, s[k])
  BY <1>2 DEF StreamsGood, Good
<1>4. i # nextId
  BY <1>2, <1>3 DEF Known, Ids, IInv, TypeOK
<1>5. clients[c] \in Requests /\ i \in conns[clients[c]]
  BY <1>1, <1>4 DEF Fits
<1>6. clients[c] = clients[d]
  BY <1>2, <1>3, <1>5 DEF Known
<1>7. QED
  BY <1>5, <1>6, ServerAssumption DEF IInv, ArcsOwned

LEMMA ConcatAgain ==
  ASSUME NEW a \in Seq(Response), NEW b \in Seq(Response), NEW d \in Seq(Response)
  PROVE  /\ a \o (b \o d) = (a \o b) \o d
         /\ a \o <<>> = a
         /\ \A i : Mentions(a \o b, i) => Mentions(a, i) \/ Mentions(b, i)
<1>1. a \o (b \o d) = (a \o b) \o d
  OBVIOUS
<1>2. a \o <<>> = a
  OBVIOUS
<1>3. ASSUME NEW i, Mentions(a \o b, i) PROVE Mentions(a, i) \/ Mentions(b, i)
  <2>1. PICK j \in DOMAIN (a \o b) : (a \o b)[j].id = i
    BY <1>3 DEF Mentions
  <2>2. CASE j <= Len(a)
    BY <2>1, <2>2 DEF Mentions
  <2>3. CASE j > Len(a)
    <3>1. j - Len(a) \in DOMAIN b /\ (a \o b)[j] = b[j - Len(a)]
      BY <2>1, <2>3
    <3>2. QED
      BY <2>1, <3>1 DEF Mentions
  <2>4. QED
    BY <2>1, <2>2, <2>3
<1>4. QED
  BY <1>1, <1>2, <1>3

\* The step of a task that prepares more of its response.
LEMMA PushKeepsWire ==
  ASSUME IInv, WireInv, Evolves, NEW r \in Requests, NEW t \in Seq(Response), Pushes(r, t)
  PROVE  WireInv'
<1>a. PICK c : c = client[r]
  OBVIOUS
<1>b. PICK u : u = wire[c] \o out[r]
  OBVIOUS
<1>1. /\ c \in Clients /\ Fits(c, t) /\ UNCHANGED <<wire, client>> /\ u \in Streams(c)
      /\ \A q \in Requests : out'[q] = IF q = r THEN out[r] \o t ELSE out[q]
      /\ wire[c] \in Seq(Response) /\ out[r] \in Seq(Response)
  BY <1>a, <1>b DEF Pushes, IInv, TypeOK, Streams
<1>2. ASSUME NEW d \in Clients, NEW s \in Streams(d)'
      PROVE  s \in Streams(d) \/ (d = c /\ s = u \o t)
  <2>1. CASE s = wire[d]
    BY <2>1 DEF Streams
  <2>2. CASE \E q \in Requests : q # r /\ client[q] = d /\ s = wire[d] \o out[q]
    BY <2>2 DEF Streams
  <2>3. CASE d = c /\ s = wire[c] \o (out[r] \o t)
    <3>1. wire[c] \in Seq(Response) /\ out[r] \in Seq(Response)
      BY <1>1
    <3>x. PICK x \in Seq(Response), y \in Seq(Response) : x = wire[c] /\ y = out[r]
      BY <3>1
    <3>y. x \o (y \o t) = (x \o y) \o t
      BY ConcatAgain
    <3>2. wire[c] \o (out[r] \o t) = (wire[c] \o out[r]) \o t
      BY <3>x, <3>y
    <3>3. QED
      BY <1>b, <2>3, <3>2
  <2>4. QED
    BY <1>1, <1>2, <1>a, <2>1, <2>2, <2>3 DEF Streams
<1>3. OutHeld'
  BY <1>1 DEF WireInv, OutHeld, Pushes
<1>4. StreamsGood'
  <2> SUFFICES ASSUME NEW d \in Clients, NEW s \in Streams(d)' PROVE Good(d, s)'
    BY DEF StreamsGood
  <2>1. CASE s \in Streams(d)
    BY <2>1, StillGood DEF WireInv, StreamsGood
  <2>2. CASE d = c /\ s = u \o t
    <3>1. Good(c, u)
      BY <1>1 DEF WireInv, StreamsGood
    <3>2. Good(c, u \o t)'
      BY <1>1, <3>1, AppendGood
    <3>3. QED
      BY <2>2, <3>2
  <2>3. QED
    BY <1>2, <2>1, <2>2
<1>5. ASSUME NEW d \in Clients, NEW s \in Streams(d)', NEW i \in Ids, Mentions(s, i)
      PROVE  \/ \E s1 \in Streams(d) : Mentions(s1, i)
             \/ d = c /\ Mentions(t, i)
  <2>1. u \in Seq(Response)
    BY <1>1, StreamType
  <2>2. CASE s \in Streams(d)
    BY <1>5, <2>2
  <2>3. CASE d = c /\ s = u \o t
    <3>1. Mentions(u, i) \/ Mentions(t, i)
      BY <1>5, <2>1, <2>3, ConcatAgain
    <3>2. QED
      BY <1>1, <2>3, <3>1
  <2>4. QED
    BY <1>2, <2>2, <2>3
<1>6. StreamsApart'
  <2> SUFFICES ASSUME NEW d \in Clients, NEW e \in Clients, d # e,
                      NEW s \in Streams(d)', NEW v \in Streams(e)', NEW i \in Ids,
                      Mentions(s, i), Mentions(v, i)
               PROVE  FALSE
    BY DEF StreamsApart, Mentions
  <2>1. CASE \E s1 \in Streams(d), v1 \in Streams(e) : Mentions(s1, i) /\ Mentions(v1, i)
    BY <2>1 DEF WireInv, StreamsApart
  <2>2. CASE d = c /\ Mentions(t, i) /\ \E v1 \in Streams(e) : Mentions(v1, i)
    BY <1>1, <2>2, AppendApart DEF WireInv
  <2>3. CASE e = c /\ Mentions(t, i) /\ \E s1 \in Streams(d) : Mentions(s1, i)
    BY <1>1, <2>3, AppendApart DEF WireInv
  <2>4. QED
    BY <1>5, <2>1, <2>2, <2>3
<1>7. QED
  BY <1>3, <1>4, <1>6 DEF WireInv

\* Steps that change no stream, or only shorten one.
LEMMA NoNewStreams ==
  ASSUME IInv, WireInv, Evolves, OutHeld', \A c \in Clients : Streams(c)' \subseteq Streams(c)
  PROVE  WireInv'
<1>1. StreamsGood'
  <2> SUFFICES ASSUME NEW d \in Clients, NEW s \in Streams(d)' PROVE Good(d, s)'
    BY DEF StreamsGood
  <2>1. s \in Streams(d) /\ Good(d, s)
    BY DEF WireInv, StreamsGood
  <2>2. QED
    BY <2>1, StillGood
<1>2. StreamsApart'
  BY DEF WireInv, StreamsApart, Mentions
<1>3. QED
  BY <1>1, <1>2 DEF WireInv

LEMMA QuietKeepsWire ==
  ASSUME IInv, WireInv, Evolves, Quiet
  PROVE  WireInv'
<1>1. OutHeld'
  BY DEF Quiet, WireInv, OutHeld
<1>2. ASSUME NEW c \in Clients, NEW s \in Streams(c)' PROVE s \in Streams(c)
  <2>1. UNCHANGED <<wire, out>>
    BY DEF Quiet
  <2>2. CASE s = wire[c]
    BY <2>2 DEF Streams
  <2>3. ASSUME NEW r \in Requests, s = wire[c] \o out[r], client'[r] = c PROVE s \in Streams(c)
    <3>1. CASE client[r] = c
      BY <2>3, <3>1 DEF Streams
    <3>2. CASE pc[r] = "idle"
      <4>1. out[r] = <<>> /\ wire[c] \in Seq(Response)
        BY <3>2 DEF WireInv, OutHeld, IInv, TypeOK, Holding, Serving
      <4>2. s = wire[c]
        BY <2>3, <4>1
      <4>3. QED
        BY <4>2 DEF Streams
    <3>3. QED
      BY <2>3, <3>1, <3>2 DEF Quiet
  <2>4. QED
    BY <1>2, <2>1, <2>2, <2>3 DEF Streams
<1>3. QED
  BY <1>1, <1>2, NoNewStreams

\* The response is written or lost.
LEMMA EndKeepsWire ==
  ASSUME IInv, WireInv, Evolves, NEW r \in Requests, Reply(r) \/ ReplyFails(r)
  PROVE  WireInv'
<1>1. End(r) /\ pc[r] \in Holding
  BY DEF Reply, ReplyFails, Finished, At, Holding, Serving
<1>2. /\ client' = client /\ client[r] \in Clients
      /\ \A q \in Requests : out'[q] = IF q = r THEN <<>> ELSE out[q]
      /\ \A q \in Requests : q # r => pc'[q] = pc[q]
  BY <1>1 DEF End, Goto, IInv, TypeOK, KnownClient, PC, Holding, Serving
<1>3. OutHeld'
  BY <1>2 DEF WireInv, OutHeld
<1>4. ASSUME NEW q \in Requests, q # r, client[q] = client[r] PROVE out[q] = <<>>
  <2>1. pc[q] \notin Holding
    BY <1>1, <1>2, <1>4, OtherArcs DEF IInv, RefsAgree
  <2>2. QED
    BY <2>1 DEF WireInv, OutHeld
<1>5. ASSUME NEW c \in Clients, NEW s \in Streams(c)' PROVE s \in Streams(c)
  <2>0. wire[c] \in Seq(Response) /\ out[r] \in Seq(Response)
    BY DEF IInv, TypeOK
  <2>1. CASE c # client[r] \/ ReplyFails(r)
    <3>1. wire'[c] = wire[c]
      BY <2>1 DEF Reply, ReplyFails, IInv, TypeOK
    <3>2. CASE s = wire[c]
      BY <3>2 DEF Streams
    <3>3. CASE s = wire[c] \o <<>>
      <4>1. s = wire[c]
        BY <2>0, <3>3
      <4>2. QED
        BY <4>1 DEF Streams
    <3>4. CASE \E q \in Requests : client[q] = c /\ s = wire[c] \o out[q]
      BY <3>4 DEF Streams
    <3>5. QED
      BY <1>2, <1>5, <3>1, <3>2, <3>3, <3>4 DEF Streams
  <2>2. CASE c = client[r] /\ Reply(r)
    <3>1. wire'[c] = wire[c] \o out[r] /\ wire[c] \o out[r] \in Seq(Response)
      BY <2>0, <2>2 DEF Reply, IInv, TypeOK
    <3>2. \A q \in Requests : client[q] = c => out'[q] = <<>>
      BY <1>2, <1>4, <2>2
    <3>3. s = wire'[c]
      <4>1. CASE s = wire'[c]
        BY <4>1
      <4>2. ASSUME NEW q \in Requests, client'[q] = c, s = wire'[c] \o out'[q]
            PROVE  s = wire'[c]
        <5>1. out'[q] = <<>>
          BY <1>2, <3>2, <4>2
        <5>2. QED
          BY <3>1, <4>2, <5>1
      <4>3. QED
        BY <1>5, <4>1, <4>2 DEF Streams
    <3>4. QED
      BY <2>2, <3>1, <3>3 DEF Streams
  <2>3. QED
    BY <2>1, <2>2
<1>6. QED
  BY <1>3, <1>5, NoNewStreams

\* Reading from a target only moves on.
LEMMA ReceiveReads ==
  ASSUME IInv, NEW r \in Requests, NEW i \in Ids, NEW k \in Nat, NEW closing \in BOOLEAN,
         Receive(r, i, k, closing)
  PROVE  /\ target'[i].read = target[i].read + k /\ target[i].read \in Nat
         /\ \A j \in Ids : j # i => target'[j] = target[j]
         /\ \A j \in Ids : target[j].read \in Nat
<1>1. target \in [Ids -> Stream] /\ \A j \in Ids : target[j] \in Stream
  BY DEF IInv, TypeOK
<1>2. \A j \in Ids : target[j].read \in Nat
  BY <1>1 DEF Stream
<1>3. target' = [target EXCEPT ![i] = [target[i] EXCEPT !.read = target[i].read + k]]
  BY DEF Receive
<1>4. [target[i] EXCEPT !.read = target[i].read + k].read = target[i].read + k
  BY <1>1 DEF Stream
<1>5. QED
  BY <1>1, <1>2, <1>3, <1>4

LEMMA ReceiveConns ==
  ASSUME IInv, NEW r \in Requests, NEW i \in Ids, NEW k \in Nat, NEW closing \in BOOLEAN,
         Receive(r, i, k, closing)
  PROVE  /\ \A b \in Requests : conns'[b] \subseteq conns[b]
         /\ closing /\ ref[r] \in Requests => i \notin conns'[ref[r]]
<1>1. DOMAIN conns = Requests
  BY DEF IInv, TypeOK
<1>2. CASE closing
  <2>1. conns' = [conns EXCEPT ![ref[r]] = @ \ {i}]
    BY <1>2 DEF Receive, Remove
  <2>2. QED
    BY <1>1, <2>1
<1>3. CASE ~closing
  BY <1>3 DEF Receive
<1>4. QED
  BY <1>2, <1>3

LEMMA ReceiveEvolves ==
  ASSUME IInv, NEW r \in Requests, NEW i \in Ids, NEW k \in Nat, NEW closing \in BOOLEAN,
         Receive(r, i, k, closing), UNCHANGED <<nextId, clients>>
  PROVE  Evolves
<1>1. \A b \in Requests : conns'[b] \subseteq conns[b]
  BY ReceiveConns
<1>2. nextId' \in Nat /\ nextId <= nextId'
  BY DEF IInv, TypeOK
<1>3. \A j \in Ids : target'[j].read \in Nat /\ target[j].read <= target'[j].read
  BY ReceiveReads
<1>4. QED
  BY <1>1, <1>2, <1>3 DEF Evolves

LEMMA CalmEvolves ==
  ASSUME IInv, nextId' = nextId, \A b \in Requests : conns'[b] \subseteq conns[b],
         \A i \in Ids : target'[i].read = target[i].read,
         \A c \in Clients : clients'[c] = clients[c] \/ clients[c] = NoArc
  PROVE  Evolves
<1>1. nextId' \in Nat /\ nextId <= nextId'
  BY DEF IInv, TypeOK
<1>2. \A i \in Ids : target[i] \in Stream
  BY DEF IInv, TypeOK
<1>3. \A i \in Ids : target'[i].read \in Nat /\ target[i].read <= target'[i].read
  BY <1>2 DEF Stream
<1>4. QED
  BY <1>1, <1>3 DEF Evolves

IsChunk(x, i, m) == x = [kind |-> "Data", id |-> i, n |-> m]

LEMMA RelayShape ==
  ASSUME NEW i \in Ids, NEW k \in Nat, NEW closing \in BOOLEAN, target[i].read \in Nat,
         NEW R, R = Relay(i, k, closing)
  PROVE  /\ R \in Seq(Response)
         /\ \A j \in DOMAIN R : j \in 1 .. k \/ (j = k + 1 /\ closing)
         /\ \A j \in 1 .. k : j \in DOMAIN R /\ IsChunk(R[j], i, target[i].read + j)
         /\ closing => R[k + 1].id = i /\ R[k + 1].kind = "Close"
<1>1. PICK C : C = Chunks(i, k)
  OBVIOUS
<1>2. C \in Seq(Response) /\ Len(C) = k /\ \A j \in 1 .. k : IsChunk(C[j], i, target[i].read + j)
  <2>1. C = [j \in 1 .. k |-> [kind |-> "Data", id |-> i, n |-> target[i].read + j]]
    BY <1>1 DEF Chunks
  <2>2. \A j \in 1 .. k : C[j] \in Response /\ IsChunk(C[j], i, target[i].read + j)
    <3> SUFFICES ASSUME NEW j \in 1 .. k
                 PROVE  C[j] \in Response /\ IsChunk(C[j], i, target[i].read + j)
      OBVIOUS
    <3>1. C[j] = [kind |-> "Data", id |-> i, n |-> target[i].read + j]
      BY <2>1
    <3>2. target[i].read + j \in Nat
      OBVIOUS
    <3>3. QED
      BY <3>1, <3>2 DEF IsChunk, Response
  <2>3. DOMAIN C = 1 .. k /\ C = [j \in 1 .. k |-> C[j]]
    BY <2>1
  <2>4. C \in [1 .. k -> Response]
    BY <2>2, <2>3
  <2>5. C \in Seq(Response)
    BY <2>4
  <2>6. Len(C) = k
    BY <2>3, <2>5
  <2>7. QED
    BY <2>2, <2>5, <2>6
<1>3. CASE closing
  <2>1. PICK e : e = [kind |-> "Close", id |-> i, n |-> 0]
    OBVIOUS
  <2>2. e \in Response /\ e.id = i /\ e.kind = "Close"
    BY <2>1 DEF Response
  <2>3. R = C \o <<e>>
    BY <1>1, <1>3, <2>1 DEF Relay, Respond
  <2>4. C \in Seq(Response) /\ <<e>> \in Seq(Response) /\ Len(C) = k /\ Len(<<e>>) = 1
    BY <1>2, <2>2
  <2>5. R \in Seq(Response) /\ DOMAIN R = 1 .. k + 1
    <3>1. R \in Seq(Response) /\ Len(R) = k + 1
      BY <2>3, <2>4
    <3>2. QED
      BY <3>1
  <2>6. R[k + 1] = e
    <3>1. k + 1 \in 1 .. Len(C) + Len(<<e>>) /\ ~(k + 1 <= Len(C)) /\ (k + 1) - Len(C) = 1
      BY <2>4
    <3>2. (C \o <<e>>)[k + 1] = <<e>>[1]
      BY <2>4, <3>1
    <3>3. QED
      BY <2>3, <3>2
  <2>7. \A j \in 1 .. k : R[j] = C[j] /\ j \in 1 .. k + 1
    BY <2>3, <2>4
  <2>8. \A j \in 1 .. k : j \in DOMAIN R /\ IsChunk(R[j], i, target[i].read + j)
    <3> SUFFICES ASSUME NEW j \in 1 .. k
                 PROVE  j \in DOMAIN R /\ IsChunk(R[j], i, target[i].read + j)
      OBVIOUS
    <3>1. IsChunk(C[j], i, target[i].read + j)
      BY <1>2
    <3>2. R[j] = C[j] /\ j \in DOMAIN R
      BY <2>5, <2>7
    <3>3. QED
      BY <3>1, <3>2
  <2>9. \A j \in DOMAIN R : j \in 1 .. k \/ (j = k + 1 /\ closing)
    <3>1. \A j \in 1 .. k + 1 : j \in 1 .. k \/ j = k + 1
      OBVIOUS
    <3>2. QED
      BY <1>3, <2>5, <3>1
  <2>10. QED
    BY <2>2, <2>5, <2>6, <2>8, <2>9
<1>4. CASE ~closing
  <2>1. R = C
    BY <1>1, <1>2, <1>4 DEF Relay
  <2>2. DOMAIN R = 1 .. k
    BY <1>2, <2>1
  <2>3. QED
    BY <1>2, <1>4, <2>1, <2>2
<1>5. QED
  BY <1>3, <1>4

\* What a read gives fits: new chunks of a connection that is there, and its Close last.
LEMMA RelayFits ==
  ASSUME IInv, IInv', NEW r \in Requests, pc[r] \in Holding, NEW i \in Conns(r), NEW k \in Nat,
         NEW closing \in BOOLEAN, k <= Available(i), closing => MeetsEnd(i, k),
         Receive(r, i, k, closing), UNCHANGED <<client, ref, clients, nextId>>,
         NEW c, c = client[r], NEW R, R = Relay(i, k, closing)
  PROVE  /\ c \in Clients /\ R \in Seq(Response) /\ Fits(c, R)
         /\ \A n \in Nat : n <= target'[i].read => n <= target[i].read \/ Carries(R, i, n)
<1>1. /\ ref[r] \in Requests /\ Conns(r) = conns[ref[r]] /\ i \in Ids
      /\ c \in Clients /\ ref[r] = clients[c]
  BY HolderFacts DEF IInv, RefsAgree, KnownClient, PC, Holding, Serving
<1>2. target'[i].read = target[i].read + k /\ target[i].read \in Nat
  BY <1>1, ReceiveReads
<1>3. /\ R \in Seq(Response)
      /\ \A j \in DOMAIN R : j \in 1 .. k \/ (j = k + 1 /\ closing)
      /\ \A j \in 1 .. k : j \in DOMAIN R /\ IsChunk(R[j], i, target[i].read + j)
      /\ closing => R[k + 1].id = i /\ R[k + 1].kind = "Close"
  <2>1. i \in Ids /\ target[i].read \in Nat
    BY <1>1, <1>2
  <2>2. QED
    BY <2>1, RelayShape
<1>4. \A x, n : IsChunk(x, i, n) => x.kind = "Data" /\ x.id = i /\ x.n = n
  BY DEF IsChunk
<1>5. \A j \in 1 .. k : /\ R[j].kind = "Data" /\ R[j].id = i /\ R[j].n = target[i].read + j
                        /\ j \in DOMAIN R
  BY <1>3, <1>4
<1>6. ASSUME NEW b \in Requests, i \in conns'[b] PROVE b = clients'[c]
  <2>1. i \in conns[b]
    BY <1>1, <1>6, ReceiveConns
  <2>2. QED
    BY <1>1, <2>1 DEF IInv, OneOwner
<1>7. closing => ~Live(i)'
  <2>1. closing => i \notin conns'[ref[r]]
    BY <1>1, ReceiveConns
  <2>2. QED
    BY <1>1, <1>6, <2>1 DEF Live
<1>8. i < nextId'
  BY <1>1 DEF IInv, OneOwner, Live
<1>9. ASSUME NEW j \in DOMAIN R PROVE Known(c, R[j])'
  <2>1. CASE j \in 1 .. k
    <3>1. target[i].read + j <= target'[i].read
      BY <1>2, <2>1
    <3>2. QED
      BY <1>3, <1>5, <1>6, <1>8, <2>1, <3>1 DEF Known
  <2>2. CASE j = k + 1 /\ closing
    BY <1>3, <1>5, <1>6, <1>7, <1>8, <2>2 DEF Known
  <2>3. QED
    BY <1>3, <2>1, <2>2
<1>10. ASSUME NEW j \in DOMAIN R, NEW m \in DOMAIN R, j < m PROVE Precedes(R[j], R[m])
  <2>1. CASE m \in 1 .. k
    <3>1. j \in 1 .. k /\ target[i].read + j < target[i].read + m
      BY <1>2, <1>3, <1>10, <2>1
    <3>2. QED
      BY <1>3, <1>5, <2>1, <3>1 DEF Precedes
  <2>2. CASE m = k + 1 /\ closing
    <3>1. j \in 1 .. k
      <4>1. j \in 1 .. k \/ j = k + 1
        BY <1>3
      <4>2. QED
        BY <1>10, <2>2, <4>1
    <3>2. QED
      BY <1>3, <1>5, <2>2, <3>1 DEF Precedes
  <2>3. QED
    BY <1>3, <2>1, <2>2
<1>11. ASSUME NEW j \in DOMAIN R
       PROVE  R[j].id = i /\ R[j].kind # "Challenge" /\ (R[j].kind = "Data" => R[j].n > target[i].read)
  <2>1. CASE j \in 1 .. k
    <3>1. target[i].read + j > target[i].read
      BY <1>2, <2>1
    <3>2. QED
      BY <1>3, <1>5, <2>1, <3>1
  <2>2. CASE j = k + 1 /\ closing
    BY <1>3, <1>5, <2>2
  <2>3. QED
    BY <1>3, <2>1, <2>2
<1>12. Fits(c, R)
  BY <1>1, <1>9, <1>10, <1>11 DEF Fits
<1>13. ASSUME NEW n \in Nat, n <= target'[i].read, ~(n <= target[i].read) PROVE Carries(R, i, n)
  <2>1. n - target[i].read \in 1 .. k /\ target[i].read + (n - target[i].read) = n
    BY <1>2, <1>13
  <2>2. n - target[i].read \in DOMAIN R /\ IsChunk(R[n - target[i].read], i, n)
    BY <1>3, <2>1
  <2>3. QED
    BY <2>2 DEF Carries, IsChunk
<1>14. QED
  BY <1>1, <1>3, <1>12, <1>13

\* Where a task of the map's client goes that moves on.
LEMMA TaskOthers ==
  ASSUME IInv, NEW r \in Requests, NEW l, pc' = [pc EXCEPT ![r] = l]
  PROVE  pc'[r] = l /\ \A q \in Requests : q # r => pc'[q] = pc[q]
BY DEF IInv, TypeOK

LEMMA QuietTask ==
  ASSUME IInv, NEW r \in Requests, UNCHANGED <<out, wire, lost, target>>,
         \A q \in Requests : q # r => pc'[q] = pc[q] /\ client'[q] = client[q],
         client'[r] = client[r] \/ pc[r] = "idle", pc[r] \in Holding => pc'[r] \in Holding
  PROVE  Quiet
BY DEF Quiet

\* One response that is no data.
LEMMA PushOne ==
  ASSUME IInv, NEW r \in Requests, NEW l \in Holding, Goto(r, l),
         NEW kind \in {"Challenge", "Close", "Error", "InvalidNonce"}, NEW i \in Ids \union {0},
         Push(r, Respond(kind, i)), UNCHANGED <<client, target, wire, lost>>,
         NEW c \in Clients, c = client[r],
         i \in Ids => /\ i < nextId' /\ \A b \in Requests : i \in conns'[b] => b = clients'[c]
                      /\ kind = "Close" => ~Live(i)'
                      /\ \/ i = nextId
                         \/ clients[c] \in Requests /\ i \in conns[clients[c]] /\ kind # "Challenge"
  PROVE  \E t \in Seq(Response) : Pushes(r, t)
<1>1. PICK x : x = [kind |-> kind, id |-> i, n |-> 0]
  OBVIOUS
<1>2. x \in Response /\ x.kind = kind /\ x.id = i
  BY <1>1 DEF Response
<1>3. PICK t : t = <<x>>
  OBVIOUS
<1>4. t \in Seq(Response) /\ (\A j \in DOMAIN t : t[j] = x) /\ (\A j, k \in DOMAIN t : ~(j < k))
  BY <1>2, <1>3
<1>5. out' = [out EXCEPT ![r] = @ \o t]
  BY <1>1, <1>3 DEF Push, Respond
<1>6. i \in Ids => Known(c, x)'
  BY <1>2 DEF Known
<1>7. Fits(c, t)
  <2> SUFFICES ASSUME NEW j \in DOMAIN t, t[j].id \in Ids
               PROVE  /\ Known(c, t[j])'
                      /\ \/ i = nextId
                         \/ clients[c] \in Requests /\ i \in conns[clients[c]] /\ kind # "Challenge"
    BY <1>2, <1>4 DEF Fits
  <2>1. t[j] = x /\ i \in Ids
    BY <1>2, <1>4
  <2>2. Known(c, t[j])'
    BY <1>6, <2>1
  <2>3. QED
    BY <2>1, <2>2
<1>8. pc'[r] \in Holding /\ \A q \in Requests : q # r => pc'[q] = pc[q]
  <2>1. pc' = [pc EXCEPT ![r] = l] /\ DOMAIN pc = Requests
    BY DEF Goto, IInv, TypeOK
  <2>2. QED
    BY <2>1
<1>9. Pushes(r, t)
  BY <1>5, <1>7, <1>8 DEF Pushes
<1>10. QED
  BY <1>4, <1>9

\* Reading, whether after Data or in the Poll loop.
LEMMA PushRelay ==
  ASSUME IInv, IInv', NEW r \in Requests, pc[r] \in Holding, NEW l \in Holding, Goto(r, l),
         NEW i \in Conns(r), NEW k \in Nat, NEW closing \in BOOLEAN, k <= Available(i),
         closing => MeetsEnd(i, k), Receive(r, i, k, closing),
         UNCHANGED <<client, ref, clients, nextId, wire, lost>>
  PROVE  \E t \in Seq(Response) : Pushes(r, t)
<1>1. PICK c : c = client[r]
  OBVIOUS
<1>2. PICK t : t = Relay(i, k, closing)
  OBVIOUS
<1>3. i \in Ids
  BY HolderFacts
<1>4. /\ c \in Clients /\ t \in Seq(Response) /\ Fits(c, t)
      /\ \A n \in Nat : n <= target'[i].read => n <= target[i].read \/ Carries(t, i, n)
  BY <1>1, <1>2, RelayFits
<1>5. out' = [out EXCEPT ![r] = @ \o t]
  BY <1>2 DEF Receive, Push
<1>6. pc'[r] \in Holding /\ \A q \in Requests : q # r => pc'[q] = pc[q]
  BY TaskOthers DEF Goto
<1>7. \A j \in Ids : j # i => target'[j] = target[j]
  BY <1>3, ReceiveReads
<1>8. Pushes(r, t)
  BY <1>1, <1>4, <1>5, <1>6, <1>7 DEF Pushes
<1>9. QED
  BY <1>4, <1>8

\* Every step of a task is quiet, prepares more of the response, or ends the task.
LEMMA TaskKinds ==
  ASSUME IInv, IInv', NEW r \in Requests, TaskNext(r)
  PROVE  /\ Evolves
         /\ \/ Quiet
            \/ \E t \in Seq(Response) : Pushes(r, t)
            \/ Reply(r) \/ ReplyFails(r)
<1>1. /\ DOMAIN pc = Requests /\ DOMAIN client = Requests /\ DOMAIN ref = Requests
      /\ DOMAIN clients = Clients /\ DOMAIN conns = Requests
  BY DEF IInv, TypeOK
<1>2. /\ pc[r] \in Holding \union {"lookup", "insert", "lock"} => client[r] \in Clients
      /\ pc[r] \in Holding => /\ ref[r] \in Requests /\ ref[r] = clients[client[r]]
                              /\ Conns(r) = conns[ref[r]] /\ Conns(r) \in SUBSET Ids
  BY HolderFacts DEF IInv, KnownClient, RefsAgree, PC, Holding, Serving
<1>3. CASE \/ (\E m \in Traffic : Arrive(r, m)) \/ Discard(r) \/ Lookup(r) \/ Insert(r)
  <2>1. /\ UNCHANGED <<conns, nextId, target, out, wire, lost>> /\ pc[r] \notin Holding
        /\ client' = client \/ pc[r] = "idle"
        /\ \A c \in Clients : clients'[c] = clients[c] \/ clients[c] = NoArc
        /\ \A q \in Requests : q # r => pc'[q] = pc[q] /\ client'[q] = client[q]
    <3>1. CASE (\E m \in Traffic : Arrive(r, m)) \/ Discard(r)
      BY <1>1, <3>1 DEF Arrive, Discard, At, Goto, clientVars, streamVars, histVars, Holding, Serving
    <3>2. CASE Lookup(r)
      BY <1>1, <3>2 DEF Lookup, At, Goto, clientVars, streamVars, histVars, Holding, Serving
    <3>3. CASE Insert(r)
      BY <1>1, <3>3 DEF Insert, InsertIfAbsent, At, Goto, streamVars, histVars, Holding, Serving
    <3>4. QED
      BY <1>3, <3>1, <3>2, <3>3
  <2>2. Quiet
    BY <2>1, QuietTask
  <2>3. Evolves
    BY <2>1, CalmEvolves
  <2>4. QED
    BY <2>2, <2>3
<1>4. CASE Lock(r)
  <2>1. UNCHANGED <<client, clients, conns, nextId, target, wire, lost>> /\ pc[r] = "lock"
    BY <1>4 DEF Lock, At, streamVars, histVars
  <2>2. Evolves
    BY <2>1, CalmEvolves
  <2>3. CASE Goto(r, "run") /\ UNCHANGED out
    <3>1. Quiet
      BY <1>1, <2>1, <2>3, QuietTask DEF Goto, Holding, Serving
    <3>2. QED
      BY <2>2, <3>1
  <2>4. CASE Goto(r, "rejecting") /\ Push(r, Respond("InvalidNonce", 0))
    <3>1. 0 \notin Ids /\ "rejecting" \in Holding /\ client[r] \in Clients
      BY <1>2, <2>1 DEF Ids, Holding
    <3>2. \E t \in Seq(Response) : Pushes(r, t)
      BY <2>1, <2>4, <3>1, PushOne
    <3>3. QED
      BY <2>2, <3>2
  <2>5. QED
    BY <1>4, <2>3, <2>4 DEF Lock
<1>5. CASE RefuseStart(r) \/ ConnectFails(r)
  <2>1. /\ UNCHANGED <<client, clients, conns, nextId, target, wire, lost>> /\ pc[r] \in Holding
        /\ Goto(r, "run") /\ Push(r, Respond("Error", 0))
    BY <1>5 DEF RefuseStart, ConnectFails, Processing, At, Continue, clientVars, streamVars, histVars,
                Holding, Serving
  <2>2. Evolves
    BY <2>1, CalmEvolves
  <2>3. 0 \notin Ids /\ "run" \in Holding /\ client[r] \in Clients
    BY <1>2, <2>1 DEF Ids, Holding, Serving
  <2>4. \E t \in Seq(Response) : Pushes(r, t)
    BY <2>1, <2>3, PushOne
  <2>5. QED
    BY <2>2, <2>4
<1>6. CASE Connected(r)
  <2>1. /\ UNCHANGED <<client, clients, target, wire, lost>> /\ pc[r] \in Holding
        /\ Goto(r, "run") /\ Push(r, Respond("Challenge", nextId))
        /\ nextId \in Ids /\ nextId' = nextId + 1 /\ nextId < nextId'
        /\ conns' = [conns EXCEPT ![ref[r]] = @ \union {nextId}]
    BY <1>6 DEF Connected, GeneratedId, At, Continue, streamVars, histVars, Holding, Serving,
                IInv, TypeOK, Ids
  <2>2. Evolves
    <3>1. nextId' \in Nat /\ nextId <= nextId'
      BY <2>1 DEF Ids
    <3>2. \A b \in Requests : conns'[b] \subseteq conns[b] \union {nextId}
      BY <1>1, <2>1
    <3>3. \A i \in Ids : target[i].read \in Nat
      BY DEF IInv, TypeOK, Stream
    <3>4. QED
      BY <2>1, <3>1, <3>2, <3>3 DEF Evolves
  <2>3. \A b \in Requests : nextId \in conns'[b] => b = ref[r]
    BY <1>1, <2>1 DEF IInv, OneOwner, Live, Ids
  <2>4. "run" \in Holding /\ client[r] \in Clients /\ ref[r] = clients'[client[r]]
    BY <1>2, <2>1 DEF Holding, Serving
  <2>5. \E t \in Seq(Response) : Pushes(r, t)
    BY <2>1, <2>3, <2>4, PushOne
  <2>6. QED
    BY <2>2, <2>5
<1>7. CASE Connect(r) \/ SkipData(r) \/ Write(r) \/ Written(r) \/ Poll(r) \/ PollDone(r)
  <2>1. /\ UNCHANGED <<client, clients, conns, nextId, target, out, wire, lost>>
        /\ \E l \in Holding : Goto(r, l)
    BY <1>7 DEF Connect, SkipData, Write, Written, Poll, PollDone, Continue,
                clientVars, streamVars, histVars, Holding, Serving
  <2>2. Quiet
    BY <1>1, <2>1, QuietTask DEF Goto
  <2>3. Evolves
    BY <2>1, CalmEvolves
  <2>4. QED
    BY <2>2, <2>3
<1>8. CASE WriteFails(r) \/ Close(r)
  <2> DEFINE i == Current(r)
  <2>1. /\ UNCHANGED <<client, clients, nextId, target, wire, lost>> /\ pc[r] \in Holding
        /\ Goto(r, "run")
    BY <1>8 DEF WriteFails, Close, Processing, At, Continue, streamVars, Holding, Serving
  <2>2. CASE i \notin Conns(r)
    <3>1. UNCHANGED <<conns, out>>
      BY <1>8, <2>2 DEF WriteFails, Close, IInv, EntryStaysDuringAwait, At
    <3>2. Quiet
      BY <1>1, <2>1, <3>1, QuietTask DEF Goto, Holding, Serving
    <3>3. Evolves
      BY <2>1, <3>1, CalmEvolves
    <3>4. QED
      BY <3>2, <3>3
  <2>3. CASE i \in Conns(r)
    <3>1. /\ conns' = [conns EXCEPT ![ref[r]] = @ \ {i}] /\ Push(r, Respond("Close", i))
          /\ i \in Ids
      BY <1>2, <1>8, <2>1, <2>3 DEF WriteFails, Close, Remove
    <3>2. \A b \in Requests : conns'[b] \subseteq conns[b]
      BY <1>1, <3>1
    <3>3. Evolves
      BY <2>1, <3>2, CalmEvolves
    <3>4. \A b \in Requests : i \notin conns'[b]
      BY <1>1, <1>2, <2>1, <2>3, <3>1 DEF IInv, OneOwner
    <3>5. PICK j : j = i
      OBVIOUS
    <3>6. /\ j \in Ids /\ j < nextId' /\ ~Live(j)' /\ j \in conns[clients[client[r]]]
          /\ \A b \in Requests : j \notin conns'[b]
      BY <1>2, <2>1, <2>3, <3>1, <3>4, <3>5 DEF IInv, OneOwner, Live
    <3>7. "run" \in Holding /\ client[r] \in Clients /\ clients[client[r]] \in Requests
      BY <1>2, <2>1 DEF Holding, Serving
    <3>8. Push(r, Respond("Close", j))
      BY <3>1, <3>5
    <3>9. \E t \in Seq(Response) : Pushes(r, t)
      BY <2>1, <3>6, <3>7, <3>8, PushOne
    <3>10. QED
      BY <3>3, <3>9
  <2>4. QED
    BY <2>2, <2>3
<1>9. CASE ReadReply(r)
  <2>1. PICK i : i = Current(r)
    OBVIOUS
  <2>2. /\ UNCHANGED <<client, ref, clients, nextId, wire, lost>> /\ pc[r] \in Holding
        /\ Goto(r, "run") /\ i \in Conns(r) /\ "run" \in Holding
    BY <1>9, <2>1 DEF ReadReply, At, Continue, Holding, Serving, IInv, EntryStaysDuringAwait
  <2>3. PICK k \in 0 .. RespCap, closing \in BOOLEAN :
          k <= Available(i) /\ (closing => MeetsEnd(i, k)) /\ Receive(r, i, k, closing)
    BY <1>9, <2>1 DEF ReadReply
  <2>4. k \in Nat /\ i \in Ids
    BY <1>2, <2>2, ServerAssumption
  <2>5. Evolves
    BY <2>2, <2>3, <2>4, ReceiveEvolves
  <2>6. \E t \in Seq(Response) : Pushes(r, t)
    BY <2>2, <2>3, <2>4, PushRelay
  <2>7. QED
    BY <2>5, <2>6
<1>10. CASE \E i \in Ids : PollOne(r, i)
  <2>1. PICK i \in Ids : PollOne(r, i)
    BY <1>10
  <2>2. /\ UNCHANGED <<client, ref, clients, nextId, wire, lost>> /\ pc[r] = "polling" /\ pc[r] \in Holding
        /\ i \in Conns(r) /\ "polling" \in Holding /\ pc' = pc
    BY <2>1 DEF PollOne, At, Holding, Serving, IInv, EntryStaysDuringAwait
  <2>3. Goto(r, "polling")
    BY <1>1, <2>2 DEF Goto, IInv, TypeOK
  <2>4. PICK k : k = IF Available(i) < RespCap THEN Available(i) ELSE RespCap
    OBVIOUS
  <2>5. PICK closing \in BOOLEAN : closing = MeetsEnd(i, k)
    BY DEF MeetsEnd
  <2>6. Receive(r, i, k, closing)
    BY <2>1, <2>4, <2>5 DEF PollOne
  <2>7. k \in Nat /\ k <= Available(i)
    <3>1. target[i] \in Stream
      BY DEF IInv, TypeOK
    <3>2. Available(i) \in Nat
      BY <3>1 DEF Stream, Available
    <3>3. QED
      BY <2>4, <3>2, ServerAssumption
  <2>8. Evolves
    BY <2>2, <2>6, <2>7, ReceiveEvolves
  <2>9. \E t \in Seq(Response) : Pushes(r, t)
    BY <2>2, <2>3, <2>5, <2>6, <2>7, PushRelay
  <2>10. QED
    BY <2>8, <2>9
<1>11. CASE Reply(r) \/ ReplyFails(r)
  <2>1. UNCHANGED <<clients, conns, nextId, target>>
    BY <1>11 DEF Reply, ReplyFails, End, streamVars
  <2>2. QED
    BY <1>11, <2>1, CalmEvolves
<1>12. QED
  BY <1>3, <1>4, <1>5, <1>6, <1>7, <1>8, <1>9, <1>10, <1>11 DEF TaskNext, TaskStep

\* ... and every step of the others is quiet.
LEMMA StepKinds ==
  ASSUME IInv, IInv', [Next]_vars
  PROVE  /\ Evolves
         /\ \/ Quiet
            \/ \E r \in Requests : \/ \E t \in Seq(Response) : Pushes(r, t)
                                   \/ Reply(r) \/ ReplyFails(r)
<1>1. ASSUME UNCHANGED <<pc, client, out, clients, nextId, wire, lost>>,
             \A b \in Requests : conns'[b] \subseteq conns[b],
             \A i \in Ids : target'[i].read = target[i].read
      PROVE  Evolves /\ Quiet
  BY <1>1, CalmEvolves DEF Quiet
<1>2. ASSUME NEW r \in Requests, TaskNext(r)
      PROVE  /\ Evolves
             /\ Quiet \/ (\E t \in Seq(Response) : Pushes(r, t)) \/ Reply(r) \/ ReplyFails(r)
  BY <1>2, TaskKinds
<1>3. CASE CleanupNext
  <2>1. UNCHANGED <<taskVars, clients, nextId, target, wire, lost>>
    BY <1>3 DEF CleanupNext, Tick, Visit, Sweep, clientVars, streamVars, histVars
  <2>2. \A b \in Requests : conns'[b] \subseteq conns[b]
    <3>1. CASE Sweep
      <4>1. PICK a : conns' = [conns EXCEPT ![a] = @ \ idle]
        BY <3>1 DEF Sweep
      <4>2. DOMAIN conns = Requests
        BY DEF IInv, TypeOK
      <4>3. QED
        BY <4>1, <4>2
    <3>2. CASE UNCHANGED conns
      BY <3>2
    <3>3. QED
      BY <1>3, <3>1, <3>2 DEF CleanupNext, Tick, Visit, clientVars
  <2>3. QED
    BY <1>1, <2>1, <2>2 DEF taskVars
<1>4. ASSUME NEW i \in Ids, TargetNext(i)
      PROVE  Evolves /\ Quiet
  <2>1. UNCHANGED <<taskVars, clientVars, histVars>>
    BY <1>4 DEF TargetNext, TargetSends, TargetEnds, TargetStalls, TargetStep, Elapse
  <2>2. target[i] \in Stream /\ DOMAIN target = Ids
    BY DEF IInv, TypeOK
  <2>3. CASE \E t : target' = [target EXCEPT ![i] = t] /\ t.read = target[i].read
    <3>1. \A j \in Ids : target'[j].read = target[j].read
      BY <2>2, <2>3
    <3>2. QED
      BY <1>1, <2>1, <3>1 DEF taskVars, clientVars, histVars
  <2>4. CASE UNCHANGED target
    BY <1>1, <2>1, <2>4 DEF taskVars, clientVars, histVars
  <2>5. CASE Elapse(i)
    BY <2>4, <2>5 DEF Elapse
  <2>6. CASE TargetSends(i)
    <3>1. [target[i] EXCEPT !.sent = @ + 1].read = target[i].read
      BY <2>2 DEF Stream
    <3>2. QED
      BY <2>3, <2>6, <3>1 DEF TargetSends, TargetStep
  <2>7. ASSUME NEW how \in {"eof", "error"}, TargetEnds(i, how) PROVE Evolves /\ Quiet
    <3>1. [target[i] EXCEPT !.state = how].read = target[i].read
      BY <2>2 DEF Stream
    <3>2. QED
      BY <2>3, <2>7, <3>1 DEF TargetEnds, TargetStep
  <2>8. CASE TargetStalls(i)
    <3>1. [target[i] EXCEPT !.stalled = TRUE].read = target[i].read
      BY <2>2 DEF Stream
    <3>2. QED
      BY <2>3, <2>8, <3>1 DEF TargetStalls, TargetStep
  <2>9. QED
    BY <1>4, <2>5, <2>6, <2>7, <2>8 DEF TargetNext
<1>5. CASE UNCHANGED vars
  BY <1>1, <1>5 DEF vars, taskVars, clientVars, streamVars, histVars
<1>6. QED
  BY <1>2, <1>3, <1>1, <1>4, <1>5 DEF Next

LEMMA InitWireInv == Init => WireInv
<1> SUFFICES ASSUME Init PROVE WireInv
  OBVIOUS
<1>1. ASSUME NEW c \in Clients, NEW s \in Streams(c) PROVE s = <<>>
  BY <1>1, ServerAssumption DEF Init, Streams
<1>2. QED
  BY <1>1 DEF Init, WireInv, OutHeld, StreamsGood, StreamsApart, Good, Mentions

LEMMA StepKeepsWireInv ==
  ASSUME IInv, IInv', WireInv, [Next]_vars
  PROVE  WireInv'
<1>1. Evolves
  BY StepKinds
<1>2. CASE Quiet
  BY <1>1, <1>2, QuietKeepsWire
<1>3. ASSUME NEW r \in Requests, NEW t \in Seq(Response), Pushes(r, t) PROVE WireInv'
  BY <1>1, <1>3, PushKeepsWire
<1>4. ASSUME NEW r \in Requests, Reply(r) \/ ReplyFails(r) PROVE WireInv'
  BY <1>1, <1>4, EndKeepsWire
<1>5. QED
  BY <1>2, <1>3, <1>4, StepKinds

THEOREM ServerWireInvariant == Spec => []WireInv
<1>1. Init => WireInv
  BY InitWireInv
<1>2. IInv /\ IInv' /\ WireInv /\ [Next]_vars => WireInv'
  BY StepKeepsWireInv
<1>3. QED
  BY <1>1, <1>2, ServerInvariant, PTL DEF Spec

\* What reaches the Lambdas about a connection is told to one client only, the Challenge
\* first, the target's chunks in their order and once, and the Close last.
THEOREM ServerWireInOrder == Spec => []WireInOrder
<1>1. WireInv => WireInOrder
  <2> SUFFICES ASSUME WireInv, NEW c \in Clients, NEW d \in Clients,
                      NEW j \in DOMAIN wire[c], NEW k \in DOMAIN wire[d],
                      wire[c][j].id = wire[d][k].id, wire[c][j].id \in Ids
               PROVE  c = d /\ (j < k => Precedes(wire[c][j], wire[c][k]))
    BY DEF WireInOrder
  <2>1. wire[c] \in Streams(c) /\ wire[d] \in Streams(d)
    BY DEF Streams
  <2>2. c = d
    BY <2>1 DEF WireInv, StreamsApart, Mentions
  <2>3. Good(c, wire[c])
    BY <2>1 DEF WireInv, StreamsGood
  <2>4. k \in DOMAIN wire[c] /\ wire[c][k].id = wire[c][j].id
    BY <2>2
  <2>5. j < k => Precedes(wire[c][j], wire[c][k])
    BY <2>3, <2>4 DEF Good
  <2>6. QED
    BY <2>2, <2>5
<1>2. QED
  BY <1>1, ServerWireInvariant, PTL

--------------------------------------------------------------------------------
(* No read is forgotten                                                         *)

LEMMA CarriesConcat ==
  ASSUME NEW a \in Seq(Response), NEW b \in Seq(Response), NEW i, NEW n,
         Carries(a, i, n) \/ Carries(b, i, n)
  PROVE  Carries(a \o b, i, n)
<1>1. CASE Carries(a, i, n)
  <2>1. PICK j \in DOMAIN a : a[j] = [kind |-> "Data", id |-> i, n |-> n]
    BY <1>1 DEF Carries
  <2>2. j \in DOMAIN (a \o b) /\ (a \o b)[j] = a[j]
    BY <2>1
  <2>3. QED
    BY <2>1, <2>2 DEF Carries
<1>2. CASE Carries(b, i, n)
  <2>1. PICK j \in DOMAIN b : b[j] = [kind |-> "Data", id |-> i, n |-> n]
    BY <1>2 DEF Carries
  <2>2. j + Len(a) \in DOMAIN (a \o b) /\ (a \o b)[j + Len(a)] = b[j]
    BY <2>1
  <2>3. QED
    BY <2>1, <2>2 DEF Carries
<1>3. QED
  BY <1>1, <1>2

Kept(i, n) == Relayed(i, n) \/ n \in lost[i]

\* What was kept stays kept, whichever kind a step is of.
LEMMA StaysKept ==
  ASSUME IInv, IInv', [Next]_vars, NEW i \in Ids, NEW n \in Nat, Kept(i, n)
  PROVE  Kept(i, n)'
<1>1. /\ \A c \in Clients : wire[c] \in Seq(Response)
      /\ \A r \in Requests : out[r] \in Seq(Response)
      /\ DOMAIN out = Requests /\ DOMAIN wire = Clients
  BY DEF IInv, TypeOK
<1>2. CASE Quiet
  BY <1>2 DEF Quiet, Kept, Relayed, Carries
<1>3. ASSUME NEW r \in Requests, NEW t \in Seq(Response), Pushes(r, t) PROVE Kept(i, n)'
  <2>1. wire' = wire /\ lost' = lost /\ out' = [out EXCEPT ![r] = @ \o t]
    BY <1>3 DEF Pushes
  <2>2. ASSUME NEW q \in Requests, Carries(out[q], i, n) PROVE Carries(out'[q], i, n)
    <3>1. CASE q = r
      <4>1. Carries(out[r] \o t, i, n)
        BY <1>1, <2>2, <3>1, CarriesConcat
      <4>2. QED
        BY <1>1, <2>1, <3>1, <4>1
    <3>2. CASE q # r
      BY <1>1, <2>1, <2>2, <3>2
    <3>3. QED
      BY <3>1, <3>2
  <2>3. CASE n \in lost[i] \/ \E c \in Clients : Carries(wire[c], i, n)
    BY <2>1, <2>3 DEF Kept, Relayed, Carries
  <2>4. CASE \E q \in Requests : Carries(out[q], i, n)
    BY <2>2, <2>4 DEF Kept, Relayed, Carries
  <2>5. QED
    BY <2>3, <2>4 DEF Kept, Relayed
<1>4. ASSUME NEW r \in Requests, Reply(r) \/ ReplyFails(r) PROVE Kept(i, n)'
  <2>1. /\ \A q \in Requests : q # r => out'[q] = out[q]
        /\ client[r] \in Clients
    BY <1>1, <1>4 DEF Reply, ReplyFails, End, Finished, At, IInv, KnownClient, PC, Holding, Serving
  <2>2. \A c \in Clients : Carries(wire[c], i, n) => Carries(wire'[c], i, n)
    <3>1. CASE Reply(r)
      <4> SUFFICES ASSUME NEW c \in Clients, Carries(wire[c], i, n) PROVE Carries(wire'[c], i, n)
        OBVIOUS
      <4>1. wire'[c] = IF c = client[r] THEN wire[c] \o out[r] ELSE wire[c]
        BY <1>1, <3>1 DEF Reply
      <4>2. Carries(wire[c] \o out[r], i, n)
        BY <1>1, CarriesConcat
      <4>3. QED
        BY <4>1, <4>2
    <3>2. CASE ReplyFails(r)
      BY <3>2 DEF ReplyFails
    <3>3. QED
      BY <1>4, <3>1, <3>2
  <2>3. n \in lost[i] => n \in lost'[i]
    BY <1>4 DEF Reply, ReplyFails
  <2>4. CASE Carries(out[r], i, n)
    <3>1. CASE Reply(r)
      <4>1. Carries(wire[client[r]] \o out[r], i, n)
        BY <1>1, <2>1, <2>4, CarriesConcat
      <4>2. wire'[client[r]] = wire[client[r]] \o out[r]
        BY <1>1, <2>1, <3>1 DEF Reply
      <4>3. \E c \in Clients : Carries(wire'[c], i, n)
        BY <2>1, <4>1, <4>2
      <4>4. QED
        BY <4>3 DEF Kept, Relayed, Carries
    <3>2. CASE ReplyFails(r)
      <4>1. PICK j \in DOMAIN out[r] : out[r][j] = [kind |-> "Data", id |-> i, n |-> n]
        BY <2>4 DEF Carries
      <4>2. out[r][j].id = i /\ out[r][j].kind = "Data" /\ out[r][j].n = n
        BY <4>1
      <4>3. n \in lost'[i]
        BY <3>2, <4>2 DEF ReplyFails
      <4>4. QED
        BY <4>3 DEF Kept
    <3>3. QED
      BY <1>4, <3>1, <3>2
  <2>5. CASE n \in lost[i]
    BY <2>3, <2>5 DEF Kept
  <2>6. CASE \E c \in Clients : Carries(wire[c], i, n)
    BY <2>2, <2>6 DEF Kept, Relayed, Carries
  <2>7. CASE \E q \in Requests : q # r /\ Carries(out[q], i, n)
    BY <2>1, <2>7 DEF Kept, Relayed, Carries
  <2>8. QED
    BY <2>4, <2>5, <2>6, <2>7 DEF Kept, Relayed
<1>5. QED
  BY <1>2, <1>3, <1>4, StepKinds

LEMMA StepForgetsNothing ==
  ASSUME IInv, IInv', NoReadForgotten, [Next]_vars
  PROVE  NoReadForgotten'
<1> SUFFICES ASSUME NEW i \in Ids, NEW n \in Nat, 1 <= n, n <= target'[i].read
             PROVE  Kept(i, n)'
  <2>1. \A i \in Ids : target'[i].read \in Nat
    BY StepKinds DEF Evolves
  <2>2. QED
    BY <2>1 DEF NoReadForgotten, Kept
<1>1. target[i].read \in Nat
  BY DEF IInv, TypeOK, Stream
<1>2. CASE n <= target[i].read
  <2>1. Kept(i, n)
    BY <1>1, <1>2 DEF NoReadForgotten, Kept
  <2>2. QED
    BY <2>1, StaysKept
<1>3. CASE ~(n <= target[i].read)
  <2>1. PICK r \in Requests, t \in Seq(Response) : Pushes(r, t)
    <3>1. ~Quiet
      BY <1>3 DEF Quiet
    <3>2. ASSUME NEW r \in Requests, Reply(r) \/ ReplyFails(r) PROVE FALSE
      <4>1. target' = target
        BY <3>2 DEF Reply, ReplyFails, End, streamVars
      <4>2. QED
        BY <1>3, <4>1
    <3>3. QED
      BY <3>1, <3>2, StepKinds
  <2>2. Carries(t, i, n) /\ out' = [out EXCEPT ![r] = @ \o t]
    BY <1>3, <2>1 DEF Pushes
  <2>3. out[r] \in Seq(Response) /\ DOMAIN out = Requests
    BY DEF IInv, TypeOK
  <2>4. Carries(out[r] \o t, i, n)
    BY <2>2, <2>3, CarriesConcat
  <2>5. Carries(out'[r], i, n)
    BY <2>2, <2>3, <2>4
  <2>6. QED
    BY <2>5 DEF Kept, Relayed, Carries
<1>4. QED
  BY <1>2, <1>3

\* Every chunk read from a target is in the response being prepared, has reached a
\* Lambda, or was in a response that could not be written.
THEOREM ServerForgetsNothing == Spec => []NoReadForgotten
<1>1. Init => NoReadForgotten
  BY DEF Init, NoReadForgotten, NewStream
<1>2. IInv /\ IInv' /\ NoReadForgotten /\ [Next]_vars => NoReadForgotten'
  BY StepForgetsNothing
<1>3. QED
  BY <1>1, <1>2, ServerInvariant, PTL DEF Spec

--------------------------------------------------------------------------------
(* No request is served twice                                                   *)

Spread == \A m, n \in Traffic : m.nonce - n.nonce < W

\* The validator knows a nonce: it is the highest one, or its bit is set.
Remembers(v, n) == n = v.last \/ (n < v.last /\ v.last - n - 1 \in v.window)

InTraffic(n) == \E m \in Traffic : m.nonce = n

\* The nonce of every request served is known to the validator of its client.
WindowInv ==
  /\ \A r \in Requests : pc[r] \notin {"idle", "dropped"} => InTraffic(nonce[r])
  /\ \A r \in Requests : Served(r) =>
       /\ client[r] \in Clients /\ clients[client[r]] \in Requests
       /\ Remembers(validator[clients[client[r]]], nonce[r])
  /\ \A r, s \in Requests :
       r # s /\ Served(r) /\ Served(s) /\ client[r] = client[s] => nonce[r] # nonce[s]

\* What check accepts it did not know, and what it knew it still knows.
LEMMA CheckedRemembers ==
  ASSUME NEW v \in Validator, NEW n \in Nat, Accepts(v, n)
  PROVE  /\ Remembers(Checked(v, n), n)
         /\ ~Remembers(v, n)
         /\ \A k \in Nat : Remembers(v, k) /\ n - k < W => Remembers(Checked(v, n), k)
<1>1. v.last \in Nat /\ v.window \subseteq 0 .. W-1 /\ W \in Nat \ {0}
  BY WAssumption DEF Validator
<1>2. ~Remembers(v, n)
  BY <1>1 DEF Accepts, Remembers
<1>3. CASE n > v.last
  <2>1. Checked(v, n).last = n
    BY <1>3 DEF Checked, Advanced
  <2>2. ASSUME NEW k \in Nat, Remembers(v, k), n - k < W PROVE Remembers(Checked(v, n), k)
    <3>1. k <= v.last /\ k < n /\ n - v.last < W
      BY <1>1, <1>3, <2>2 DEF Remembers
    <3>2. Checked(v, n).window = ShiftLeft(v.window, n - v.last) \union {n - v.last - 1}
      BY <1>1, <1>3, <3>1 DEF Checked, Advanced
    <3>3. CASE k = v.last
      BY <2>1, <3>1, <3>2, <3>3 DEF Remembers
    <3>4. CASE k # v.last
      <4>1. v.last - k - 1 \in v.window
        BY <2>2, <3>4 DEF Remembers
      <4>2. (n - k - 1) - (n - v.last) = v.last - k - 1 /\ n - k - 1 \in (n - v.last) .. W-1
        BY <1>1, <1>3, <2>2, <3>1, <3>4
      <4>3. n - k - 1 \in ShiftLeft(v.window, n - v.last)
        BY <4>1, <4>2 DEF ShiftLeft
      <4>4. QED
        BY <2>1, <3>1, <3>2, <4>3 DEF Remembers
    <3>5. QED
      BY <3>3, <3>4
  <2>3. QED
    BY <1>2, <2>1, <2>2 DEF Remembers
<1>4. CASE ~(n > v.last)
  <2>1. /\ v.last - n \in 1 .. W /\ n < v.last
        /\ Checked(v, n) = [v EXCEPT !.window = @ \union {v.last - n - 1}]
    BY <1>1, <1>4 DEF Accepts, Checked, Marked
  <2>2. /\ Checked(v, n).last = v.last
        /\ Checked(v, n).window = v.window \union {v.last - n - 1}
    BY <2>1 DEF Validator
  <2>3. QED
    BY <1>2, <2>1, <2>2 DEF Remembers
<1>5. QED
  BY <1>3, <1>4

\* Steps that let no request in.
LEMMA CalmWindow ==
  ASSUME IInv, WindowInv, validator' = validator,
         \A c \in Clients : clients'[c] = clients[c] \/ clients[c] = NoArc,
         \A r \in Requests :
           /\ Served(r)' => Served(r)
           /\ (nonce'[r] = nonce[r] /\ client'[r] = client[r]) \/ pc[r] = "idle"
           /\ pc'[r] \notin {"idle", "dropped"} => InTraffic(nonce'[r])
  PROVE  WindowInv'
<1>1. ASSUME NEW r \in Requests, Served(r)'
      PROVE  /\ Served(r) /\ nonce'[r] = nonce[r] /\ client'[r] = client[r]
             /\ clients'[client[r]] = clients[client[r]]
  <2>1. Served(r) /\ pc[r] # "idle"
    BY <1>1 DEF Served, Serving
  <2>2. clients[client[r]] # NoArc /\ client[r] \in Clients
    BY <2>1, ServerAssumption DEF WindowInv
  <2>3. QED
    BY <2>1, <2>2
<1>2. \A r \in Requests : pc'[r] \notin {"idle", "dropped"} => InTraffic(nonce'[r])
  OBVIOUS
<1>3. \A r \in Requests : Served(r)' =>
        /\ client'[r] \in Clients /\ clients'[client'[r]] \in Requests
        /\ Remembers(validator'[clients'[client'[r]]], nonce'[r])
  BY <1>1 DEF WindowInv
<1>4. \A r, s \in Requests :
        r # s /\ Served(r)' /\ Served(s)' /\ client'[r] = client'[s] => nonce'[r] # nonce'[s]
  BY <1>1 DEF WindowInv
<1>5. QED
  BY <1>2, <1>3, <1>4 DEF WindowInv, InTraffic, Remembers

\* The one step that lets a request in.
LEMMA LockWindow ==
  ASSUME Spread, IInv, WindowInv, NEW r \in Requests, Lock(r)
  PROVE  WindowInv'
<1> DEFINE a == ref[r]
           v == validator[a]
<1>1. /\ pc[r] = "lock" /\ client[r] \in Clients /\ a \in Requests /\ a = clients[client[r]]
      /\ v \in Validator /\ nonce[r] \in Nat /\ InTraffic(nonce[r]) /\ ~Served(r)
  BY DEF Lock, At, IInv, TypeOK, KnownClient, RefsAgree, PC, WindowInv, Served, Serving
<1>2. /\ UNCHANGED <<client, nonce, clients>>
      /\ \A b \in Requests : validator'[b] = IF b = a THEN Checked(v, nonce[r]) ELSE validator[b]
      /\ \A q \in Requests : q # r => pc'[q] = pc[q]
  BY <1>1 DEF Lock, Goto, IInv, TypeOK
<1>3. CASE ~Accepts(v, nonce[r])
  <2>1. validator' = validator
    <3>1. Checked(v, nonce[r]) = v
      BY <1>3 DEF Checked
    <3>2. QED
      BY <1>1, <3>1 DEF Lock, IInv, TypeOK
  <2>2. pc'[r] = "rejecting"
    BY <1>1, <1>3 DEF Lock, Goto, IInv, TypeOK
  <2>3. QED
    BY <1>1, <1>2, <2>1, <2>2, CalmWindow DEF Served, Serving, WindowInv
<1>4. CASE Accepts(v, nonce[r])
  <2>1. pc'[r] = "run"
    BY <1>1, <1>4 DEF Lock, Goto, IInv, TypeOK
  <2>2. /\ Remembers(Checked(v, nonce[r]), nonce[r]) /\ ~Remembers(v, nonce[r])
        /\ \A k \in Nat : Remembers(v, k) /\ nonce[r] - k < W => Remembers(Checked(v, nonce[r]), k)
    BY <1>1, <1>4, CheckedRemembers
  <2>3. \A q \in Requests : q # r => (Served(q)' <=> Served(q))
    BY <1>2 DEF Served
  <2>4. ASSUME NEW q \in Requests, q # r, Served(q)
        PROVE  /\ client[q] \in Clients /\ clients[client[q]] \in Requests
               /\ Remembers(validator'[clients[client[q]]], nonce[q])
               /\ client[q] = client[r] => nonce[q] # nonce[r]
    <3>1. /\ client[q] \in Clients /\ clients[client[q]] \in Requests
          /\ Remembers(validator[clients[client[q]]], nonce[q]) /\ nonce[q] \in Nat
      BY <2>4 DEF WindowInv, IInv, TypeOK
    <3>2. nonce[r] - nonce[q] < W
      <4>1. InTraffic(nonce[q])
        BY <2>4 DEF WindowInv, Served, Serving
      <4>2. QED
        BY <1>1, <4>1 DEF InTraffic, Spread
    <3>3. CASE clients[client[q]] = a
      BY <1>2, <2>2, <3>1, <3>2, <3>3
    <3>4. CASE clients[client[q]] # a
      BY <1>1, <1>2, <3>1, <3>4
    <3>5. QED
      BY <3>3, <3>4
  <2>5. \A q \in Requests : pc'[q] \notin {"idle", "dropped"} => InTraffic(nonce'[q])
    BY <1>1, <1>2 DEF WindowInv
  <2>6. Remembers(validator'[a], nonce[r])
    BY <1>1, <1>2, <2>2
  <2>7. \A q \in Requests : Served(q)' =>
          /\ client'[q] \in Clients /\ clients'[client'[q]] \in Requests
          /\ Remembers(validator'[clients'[client'[q]]], nonce'[q])
    BY <1>1, <1>2, <2>3, <2>4, <2>6
  <2>8. \A q, s \in Requests :
          q # s /\ Served(q)' /\ Served(s)' /\ client'[q] = client'[s] => nonce'[q] # nonce'[s]
    BY <1>2, <2>3, <2>4 DEF WindowInv
  <2>9. QED
    BY <2>5, <2>7, <2>8 DEF WindowInv, InTraffic, Remembers
<1>5. QED
  BY <1>3, <1>4

LEMMA StepKeepsWindow ==
  ASSUME Spread, IInv, WindowInv, [Next]_vars
  PROVE  WindowInv'
<1>1. DOMAIN pc = Requests /\ DOMAIN client = Requests /\ DOMAIN nonce = Requests /\ DOMAIN clients = Clients
  BY DEF IInv, TypeOK
<1>2. \A r \in Requests : pc[r] \notin {"idle", "dropped"} => InTraffic(nonce[r])
  BY DEF WindowInv
<1>3. ASSUME UNCHANGED <<pc, client, nonce, clients, validator>> PROVE WindowInv'
  BY <1>2, <1>3, CalmWindow DEF Served
<1>4. ASSUME NEW r \in Requests, UNCHANGED <<client, nonce, validator>>, NEW l, Goto(r, l),
             \A c \in Clients : clients'[c] = clients[c] \/ clients[c] = NoArc,
             l \in Serving \union {"done"} => pc[r] \in Serving \union {"done"},
             l \notin {"idle", "dropped"} => pc[r] \notin {"idle", "dropped"}
      PROVE  WindowInv'
  <2>1. pc'[r] = l /\ \A q \in Requests : q # r => pc'[q] = pc[q]
    BY <1>1, <1>4 DEF Goto
  <2>2. QED
    BY <1>2, <1>4, <2>1, CalmWindow DEF Served
<1>5. ASSUME NEW r \in Requests, TaskNext(r) PROVE WindowInv'
  <2>1. CASE \E m \in Traffic : Arrive(r, m)
    <3>1. PICK m \in Traffic : Arrive(r, m)
      BY <2>1
    <3>2. /\ pc[r] = "idle" /\ pc'[r] = "lookup" /\ nonce'[r] = m.nonce
          /\ \A q \in Requests : q # r => pc'[q] = pc[q] /\ nonce'[q] = nonce[q] /\ client'[q] = client[q]
          /\ UNCHANGED <<clients, validator>>
      BY <1>1, <3>1 DEF Arrive, At, Goto, clientVars
    <3>3. InTraffic(nonce'[r])
      BY <3>2 DEF InTraffic
    <3>4. QED
      BY <1>2, <3>2, <3>3, CalmWindow DEF Served, Serving
  <2>2. CASE Discard(r)
    BY <1>4, <2>2 DEF Discard, At, clientVars, Serving
  <2>3. CASE Lookup(r)
    BY <1>4, <2>3 DEF Lookup, At, clientVars, Serving
  <2>4. CASE Insert(r)
    <3>1. \A c \in Clients : clients'[c] = clients[c] \/ clients[c] = NoArc
      BY <1>1, <2>4 DEF Insert, InsertIfAbsent
    <3>2. QED
      BY <1>4, <2>4, <3>1 DEF Insert, At, Serving
  <2>5. CASE Lock(r)
    BY <2>5, LockWindow
  <2>6. CASE \E i \in Ids : PollOne(r, i)
    BY <1>3, <2>6 DEF PollOne
  <2>7. CASE Reply(r) \/ ReplyFails(r)
    <3>1. UNCHANGED <<client, nonce, clients, validator>> /\ Finished(r)
          /\ Goto(r, IF At(r, "rejecting") THEN "dropped" ELSE "done")
      BY <2>7 DEF Reply, ReplyFails, End
    <3>2. CASE At(r, "rejecting")
      BY <1>4, <3>1, <3>2 DEF At, Serving
    <3>3. CASE ~At(r, "rejecting")
      BY <1>4, <3>1, <3>3 DEF At, Finished, Serving
    <3>4. QED
      BY <3>2, <3>3
  <2>8. CASE \/ RefuseStart(r) \/ Connect(r) \/ Connected(r) \/ ConnectFails(r)
             \/ SkipData(r) \/ Write(r) \/ Written(r) \/ WriteFails(r) \/ ReadReply(r)
             \/ Close(r) \/ Poll(r) \/ PollDone(r)
    <3>1. /\ UNCHANGED <<client, nonce, clients, validator>> /\ pc[r] \in Serving
          /\ \E l \in Serving : Goto(r, l)
      BY <2>8 DEF RefuseStart, Connect, Connected, ConnectFails, SkipData, Write, Written, WriteFails,
                  ReadReply, Close, Poll, PollDone, Continue, Processing, At, clientVars, Serving
    <3>2. QED
      BY <1>4, <3>1 DEF Serving
  <2>9. QED
    BY <1>5, <2>1, <2>2, <2>3, <2>4, <2>5, <2>6, <2>7, <2>8 DEF TaskNext, TaskStep
<1>6. CASE CleanupNext
  BY <1>3, <1>6 DEF CleanupNext, Tick, Visit, Sweep, taskVars, clientVars
<1>7. ASSUME NEW i \in Ids, TargetNext(i) PROVE WindowInv'
  BY <1>3, <1>7 DEF TargetNext, TargetSends, TargetEnds, TargetStalls, TargetStep, Elapse, taskVars, clientVars
<1>8. CASE UNCHANGED vars
  BY <1>3, <1>8 DEF vars, taskVars, clientVars
<1>9. QED
  BY <1>5, <1>6, <1>7, <1>8 DEF Next

\* Of the requests with one key and nonce one is served at most, whatever races created
\* the client's state, provided the nonces in use are less than W apart.
THEOREM ServerServesOnce == Spec => []ServedOnce
<1>1. Init => WindowInv
  BY DEF Init, WindowInv, Served, Serving
<1>2. (Spread => WindowInv) /\ IInv /\ [Next]_vars => (Spread => WindowInv)'
  <2> SUFFICES ASSUME Spread, WindowInv, IInv, [Next]_vars PROVE WindowInv'
    BY DEF Spread
  <2>1. QED
    BY StepKeepsWindow
<1>3. (Spread => WindowInv) => ServedOnce
  BY DEF ServedOnce, Spread, WindowInv
<1>4. QED
  BY <1>1, <1>2, <1>3, ServerInvariant, PTL DEF Spec
================================================================================
