------------------------------ MODULE ProxyServer ------------------------------
(***************************************************************************)
(* The proxy server (server/src/main.rs).  Every TCP connection from a     *)
(* Lambda is one request, handled by a task of its own.  A task finds or   *)
(* creates the state of the request's client, locks it, and keeps the lock *)
(* until the response is written, across every await.  Beside the tasks    *)
(* run the clean-up task and the target hosts.                             *)
(*                                                                         *)
(* A client's state is an Arc<Mutex<ClientState>>; an Arc is named by the  *)
(* request whose task allocated it.  Data is counted in chunks, what one   *)
(* read() of a target's stream returns.                                    *)
(***************************************************************************)
EXTENDS NonceValidator, Sequences, FiniteSets

CONSTANTS
  Clients,       \* client public keys
  Requests,      \* TCP connections accepted from Lambdas, one task each
  Traffic,       \* bound: what each request may carry in the instance
  Limit,         \* connections_per_pkey
  RespCap,       \* MAX_RESPONSE_DATA, in chunks
  MaxId,         \* bound: connection ids the run may issue
  MaxSent,       \* bound: chunks a target sends
  Environment,   \* bound: what targets and the clock may do in the instance
  NoArc, Free, NoClient

Ids == 1 .. MaxId

Message ==
  [type : {"StartConnection", "Poll"}] \union [type : {"Data", "Close"}, id : Ids]

ASSUME ServerAssumption ==
  /\ Traffic \subseteq [to : Requests, client : Clients, nonce : Nat, messages : Seq(Message)]
  /\ Limit \in Nat /\ RespCap \in Nat \ {0} /\ MaxId \in Nat /\ MaxSent \in Nat
  /\ Environment \subseteq {"eof", "error", "stall", "idle"}
  /\ NoArc \notin Requests
  /\ Free \notin Requests
  /\ NoClient \notin Clients

VARIABLES
  pc,          \* where the task of a request is
  client,      \* client_msg.client_public_key
  nonce,       \* client_msg.nonce
  todo,        \* the messages not yet processed
  polled,      \* connections the Poll loop has still to visit
  out,         \* responses pushed so far
  ref,         \* client_arc
  clients,     \* the map from public keys to Arcs
  holder,      \* who holds the Mutex of an Arc
  validator,   \* ClientState.nonce of an Arc
  conns,       \* keys of ClientState.connections of an Arc
  nextId,      \* CONNECTION_ID_COUNTER
  idle,        \* connections whose last_activity is older than idle_timeout
  target,      \* the stream to a target: chunks sent, chunks read, how it stands
  sweep,       \* the clean-up task: clients to visit, and the one it is at
  wire,        \* history: the responses to a client that reached a Lambda
  lost,        \* history: chunks read from a target whose response was lost
  ended        \* history: why a connection was removed

taskVars   == <<pc, client, nonce, todo, polled, out, ref>>
clientVars == <<clients, holder, validator, conns, nextId>>
streamVars == <<idle, target>>
histVars   == <<wire, lost, ended>>
vars       == <<taskVars, clientVars, streamVars, sweep, histVars>>

--------------------------------------------------------------------------------
\* Where a task is while it holds its client's lock, and where it can be.
Serving == {"run", "connecting", "writing", "reading", "polling"}
Holding == Serving \union {"rejecting"}
PC      == {"idle", "lookup", "insert", "lock", "done", "dropped"} \union Holding

Response == [kind : {"Challenge", "Data", "Close", "Error", "InvalidNonce"},
             id : Ids \union {0}, n : Nat]

\* No more is read from a stream than its target has sent.
Stream ==
  {t \in [sent : Nat, read : Nat, state : {"open", "eof", "error"}, stalled : BOOLEAN] :
     t.read <= t.sent}

NewStream == [sent |-> 0, read |-> 0, state |-> "open", stalled |-> FALSE]

TypeOK ==
  /\ pc \in [Requests -> PC]
  /\ client \in [Requests -> Clients \union {NoClient}]
  /\ nonce \in [Requests -> Nat]
  /\ todo \in [Requests -> Seq(Message)]
  /\ polled \in [Requests -> SUBSET Ids]
  /\ out \in [Requests -> Seq(Response)]
  /\ ref \in [Requests -> Requests \union {NoArc}]
  /\ clients \in [Clients -> Requests \union {NoArc}]
  /\ holder \in [Requests -> Requests \union {Free}]
  /\ validator \in [Requests -> Validator]
  /\ conns \in [Requests -> SUBSET Ids]
  /\ nextId \in 1 .. MaxId + 1
  /\ idle \in SUBSET Ids
  /\ target \in [Ids -> Stream]
  /\ sweep \in [todo : SUBSET Clients, at : Clients \union {NoClient}]
  /\ wire \in [Clients -> Seq(Response)]
  /\ lost \in [Ids -> SUBSET Nat]
  /\ ended \in [Ids -> {"no", "client", "eof", "error", "write", "idle"}]

FirstId == 1

Init ==
  /\ pc = [r \in Requests |-> "idle"]
  /\ client = [r \in Requests |-> NoClient]
  /\ nonce = [r \in Requests |-> 0]
  /\ todo = [r \in Requests |-> <<>>]
  /\ polled = [r \in Requests |-> {}]
  /\ out = [r \in Requests |-> <<>>]
  /\ ref = [r \in Requests |-> NoArc]
  /\ clients = [c \in Clients |-> NoArc]
  /\ holder = [r \in Requests |-> Free]
  /\ validator = [r \in Requests |-> NewValidator]
  /\ conns = [r \in Requests |-> {}]
  /\ nextId = FirstId
  /\ idle = {}
  /\ target = [i \in Ids |-> NewStream]
  /\ sweep = [todo |-> {}, at |-> NoClient]
  /\ wire = [c \in Clients |-> <<>>]
  /\ lost = [i \in Ids |-> {}]
  /\ ended = [i \in Ids |-> "no"]

Live(i) == \E a \in Requests : i \in conns[a]

--------------------------------------------------------------------------------
(* What the actions of a task have in common.                                   *)

At(r, l)      == pc[r] = l
Goto(r, l)    == pc' = [pc EXCEPT ![r] = l]
Conns(r)      == conns[ref[r]]
Processing(r, type) == At(r, "run") /\ todo[r] # <<>> /\ Head(todo[r]).type = type
Current(r)    == Head(todo[r]).id

Respond(kind, i) == <<[kind |-> kind, id |-> i, n |-> 0]>>
Push(r, s)    == out' = [out EXCEPT ![r] = @ \o s]

\* The match arm ends: on to the next message of the request.
Continue(r) ==
  /\ todo' = [todo EXCEPT ![r] = Tail(@)]
  /\ Goto(r, "run")

Remove(r, i, why) ==
  /\ conns' = [conns EXCEPT ![ref[r]] = @ \ {i}]
  /\ ended' = [ended EXCEPT ![i] = why]

--------------------------------------------------------------------------------
(* From the accepted socket to the client's lock.                               *)

\* The request is read to its end, decrypted and deserialised.
Arrive(r, m) ==
  /\ At(r, "idle")
  /\ m.to = r
  /\ client' = [client EXCEPT ![r] = m.client]
  /\ nonce' = [nonce EXCEPT ![r] = m.nonce]
  /\ todo' = [todo EXCEPT ![r] = m.messages]
  /\ Goto(r, "lookup")
  /\ UNCHANGED <<polled, out, ref, clientVars, streamVars, sweep, histVars>>

\* It is empty, or does not decrypt or deserialise: no response.
Discard(r) ==
  /\ At(r, "idle")
  /\ Goto(r, "dropped")
  /\ UNCHANGED <<client, nonce, todo, polled, out, ref, clientVars, streamVars, sweep, histVars>>

\* get_client under the read lock.
Lookup(r) ==
  /\ At(r, "lookup")
  /\ LET a == clients[client[r]] IN
       IF a = NoArc THEN Goto(r, "insert") /\ UNCHANGED ref
       ELSE Goto(r, "lock") /\ ref' = [ref EXCEPT ![r] = a]
  /\ UNCHANGED <<client, nonce, todo, polled, out, clientVars, streamVars, sweep, histVars>>

\* get_client under the write lock: entry().or_insert_with() looks again.
\*
\* Mutant: insert() without the second look.
InsertAlways(r, a) == r

InsertIfAbsent(r, a) == IF a = NoArc THEN r ELSE a

Insert(r) ==
  /\ At(r, "insert")
  /\ LET c == client[r]
         a == InsertIfAbsent(r, clients[c])
     IN  /\ clients' = [clients EXCEPT ![c] = a]
         /\ ref' = [ref EXCEPT ![r] = a]
  /\ Goto(r, "lock")
  /\ UNCHANGED <<client, nonce, todo, polled, out, holder, validator, conns, nextId,
                 streamVars, sweep, histVars>>

\* Mutant: nobody waits for the Mutex.
UnlockedAlways(a) == TRUE

Unlocked(a) == holder[a] = Free

\* client_arc.lock().await returns and the nonce is checked.
Lock(r) ==
  LET a == ref[r] IN
  /\ At(r, "lock")
  /\ Unlocked(a)
  /\ holder' = [holder EXCEPT ![a] = r]
  /\ validator' = [validator EXCEPT ![a] = Checked(@, nonce[r])]
  /\ IF Accepts(validator[a], nonce[r])
     THEN Goto(r, "run") /\ UNCHANGED out
     ELSE Goto(r, "rejecting") /\ Push(r, Respond("InvalidNonce", 0))
  /\ UNCHANGED <<client, nonce, todo, polled, ref, clients, conns, nextId,
                 streamVars, sweep, histVars>>

--------------------------------------------------------------------------------
(* StartConnection                                                              *)

\* Mutant: one connection too many.
LimitPassed(open) == Cardinality(open) > Limit

LimitReached(open) == Cardinality(open) >= Limit

\* Over the limit, or the host is a private address: an error response.
RefuseStart(r) ==
  /\ Processing(r, "StartConnection")
  /\ Push(r, Respond("Error", 0))
  /\ Continue(r)
  /\ UNCHANGED <<client, nonce, polled, ref, clientVars, streamVars, sweep, histVars>>

\* TcpStream::connect is awaited, for at most config.timeout.
Connect(r) ==
  /\ Processing(r, "StartConnection")
  /\ ~LimitReached(Conns(r))
  /\ Goto(r, "connecting")
  /\ UNCHANGED <<client, nonce, todo, polled, out, ref, clientVars, streamVars, sweep, histVars>>

\* Mutant: the lowest id that is not in use now.
LowestFreeId == CHOOSE i \in Ids : ~Live(i) /\ \A j \in Ids : j < i => Live(j)

\* CONNECTION_ID_COUNTER.fetch_add(1)
GeneratedId == nextId

Connected(r) ==
  /\ At(r, "connecting")
  /\ nextId <= MaxId
  /\ nextId' = nextId + 1
  /\ conns' = [conns EXCEPT ![ref[r]] = @ \union {GeneratedId}]
  /\ Push(r, Respond("Challenge", GeneratedId))
  /\ Continue(r)
  /\ UNCHANGED <<client, nonce, polled, ref, clients, holder, validator,
                 streamVars, sweep, histVars>>

\* Refused, unreachable or timed out.
ConnectFails(r) ==
  /\ At(r, "connecting")
  /\ Push(r, Respond("Error", 0))
  /\ Continue(r)
  /\ UNCHANGED <<client, nonce, polled, ref, clientVars, streamVars, sweep, histVars>>

--------------------------------------------------------------------------------
(* Data                                                                         *)

\* The connection is not in the client's map: closed, dropped as idle, or never
\* the client's.  No response tells the client.
SkipData(r) ==
  /\ Processing(r, "Data")
  /\ Current(r) \notin Conns(r)
  /\ Continue(r)
  /\ UNCHANGED <<client, nonce, polled, out, ref, clientVars, streamVars, sweep, histVars>>

\* last_activity is refreshed and write_all awaited, without a timeout.
Write(r) ==
  /\ Processing(r, "Data")
  /\ Current(r) \in Conns(r)
  /\ idle' = idle \ {Current(r)}
  /\ Goto(r, "writing")
  /\ UNCHANGED <<client, nonce, todo, polled, out, ref, clientVars, target, sweep, histVars>>

Written(r) ==
  /\ At(r, "writing")
  /\ ~target[Current(r)].stalled
  /\ Goto(r, "reading")
  /\ UNCHANGED <<client, nonce, todo, polled, out, ref, clientVars, streamVars, sweep, histVars>>

WriteFails(r) ==
  /\ At(r, "writing")
  /\ Push(r, Respond("Close", Current(r)))
  /\ Remove(r, Current(r), "write")
  /\ Continue(r)
  /\ UNCHANGED <<client, nonce, polled, ref, clients, holder, validator, nextId,
                 streamVars, sweep, wire, lost>>

Available(i) == target[i].sent - target[i].read

Chunks(i, k) ==
  [j \in 1 .. k |-> [kind |-> "Data", id |-> i, n |-> target[i].read + j]]

\* Mutant: the Close overtakes the data read before it.
RelayCloseFirst(i, k, closing) ==
  (IF closing THEN Respond("Close", i) ELSE <<>>) \o Chunks(i, k)

\* Mutant: what was read before the stream's end is dropped.
RelayCloseOnly(i, k, closing) ==
  IF closing THEN Respond("Close", i) ELSE Chunks(i, k)

\* The responses for k chunks, and for the end of the stream if it was met:
\* the data first, then the Close.
Relay(i, k, closing) ==
  Chunks(i, k) \o (IF closing THEN Respond("Close", i) ELSE <<>>)

\* k chunks are read; the connection goes if the stream's end was met as well.
Receive(r, i, k, closing) ==
  /\ target' = [target EXCEPT ![i].read = @ + k]
  /\ Push(r, Relay(i, k, closing))
  /\ IF closing THEN Remove(r, i, target[i].state) ELSE UNCHANGED <<conns, ended>>

\* Mutant: the stream's end is reported while there is data left.
MeetsEndEarly(i, k) == target[i].state # "open"

\* The stream has ended and the reader that takes k chunks gets that far.
MeetsEnd(i, k) == target[i].state # "open" /\ k = Available(i) /\ k < RespCap

\* Read until a short read, RespCap or the deadline read_timeout: at least
\* what is there now, and the end of the stream at once if nothing else is.
ReadReply(r) ==
  LET i == Current(r) IN
  /\ At(r, "reading")
  /\ \E k \in 0 .. RespCap, closing \in BOOLEAN :
       /\ k <= Available(i)
       /\ k = 0 => Available(i) = 0
       /\ closing => MeetsEnd(i, k)
       /\ k = 0 /\ MeetsEnd(i, k) => closing
       /\ Receive(r, i, k, closing)
  /\ Continue(r)
  /\ UNCHANGED <<client, nonce, polled, ref, clients, holder, validator, nextId,
                 idle, sweep, wire, lost>>

--------------------------------------------------------------------------------
(* Close and Poll                                                               *)

Close(r) ==
  LET i == Current(r) IN
  /\ Processing(r, "Close")
  /\ IF i \in Conns(r)
     THEN Remove(r, i, "client") /\ Push(r, Respond("Close", i))
     ELSE UNCHANGED <<conns, ended, out>>
  /\ Continue(r)
  /\ UNCHANGED <<client, nonce, polled, ref, clients, holder, validator, nextId,
                 streamVars, sweep, wire, lost>>

Poll(r) ==
  /\ Processing(r, "Poll")
  /\ polled' = [polled EXCEPT ![r] = Conns(r)]
  /\ Goto(r, "polling")
  /\ UNCHANGED <<client, nonce, todo, out, ref, clientVars, streamVars, sweep, histVars>>

\* try_read until it would block, the stream ends or RespCap is reached.
PollOne(r, i) ==
  LET k == IF Available(i) < RespCap THEN Available(i) ELSE RespCap IN
  /\ At(r, "polling")
  /\ i \in polled[r]
  /\ polled' = [polled EXCEPT ![r] = @ \ {i}]
  /\ Receive(r, i, k, MeetsEnd(i, k))
  /\ idle' = IF k > 0 THEN idle \ {i} ELSE idle
  /\ UNCHANGED <<pc, client, nonce, todo, ref, clients, holder, validator, nextId,
                 sweep, wire, lost>>

PollDone(r) ==
  /\ At(r, "polling")
  /\ polled[r] = {}
  /\ Continue(r)
  /\ UNCHANGED <<client, nonce, polled, out, ref, clientVars, streamVars, sweep, histVars>>

--------------------------------------------------------------------------------
(* The response                                                                 *)

Finished(r) == At(r, "rejecting") \/ (At(r, "run") /\ todo[r] = <<>>)

\* Mutant: a request with nothing to answer leaves the Mutex locked.
UnlockAnswered(r) ==
  IF out[r] = <<>> THEN holder ELSE [holder EXCEPT ![ref[r]] = Free]

Unlock(r) == [holder EXCEPT ![ref[r]] = Free]

\* The task ends and its guard on the client's state is dropped.
End(r) ==
  /\ Goto(r, IF At(r, "rejecting") THEN "dropped" ELSE "done")
  /\ holder' = Unlock(r)
  /\ out' = [out EXCEPT ![r] = <<>>]
  /\ todo' = [todo EXCEPT ![r] = <<>>]
  /\ UNCHANGED <<client, nonce, polled, ref, clients, validator, conns, nextId,
                 streamVars, sweep, ended>>

Reply(r) ==
  /\ Finished(r)
  /\ wire' = [wire EXCEPT ![client[r]] = @ \o out[r]]
  /\ End(r)
  /\ UNCHANGED lost

\* The Lambda has gone: write_all fails and the response is dropped.
ReplyFails(r) ==
  /\ Finished(r)
  /\ lost' = [i \in Ids |-> lost[i] \union
                {out[r][j].n : j \in {j \in DOMAIN out[r] :
                                        out[r][j].id = i /\ out[r][j].kind = "Data"}}]
  /\ End(r)
  /\ UNCHANGED wire

--------------------------------------------------------------------------------
(* The clean-up task, once a minute                                             *)

Tick ==
  /\ sweep.todo = {} /\ sweep.at = NoClient
  /\ sweep' = [sweep EXCEPT !.todo = {c \in Clients : clients[c] # NoArc}]
  /\ UNCHANGED <<taskVars, clientVars, streamVars, histVars>>

\* The next key is taken and its lock awaited.
Visit(c) ==
  /\ sweep.at = NoClient
  /\ c \in sweep.todo
  /\ sweep' = [todo |-> sweep.todo \ {c}, at |-> c]
  /\ UNCHANGED <<taskVars, clientVars, streamVars, histVars>>

Sweep ==
  /\ sweep.at # NoClient
  /\ LET a == clients[sweep.at] IN
       /\ Unlocked(a)
       /\ conns' = [conns EXCEPT ![a] = @ \ idle]
       /\ ended' = [i \in Ids |-> IF i \in conns[a] \intersect idle THEN "idle" ELSE ended[i]]
       /\ idle' = idle \ conns[a]
  /\ sweep' = [sweep EXCEPT !.at = NoClient]
  /\ UNCHANGED <<taskVars, clients, holder, validator, nextId, target, wire, lost>>

--------------------------------------------------------------------------------
(* The target hosts and the passing of time                                     *)

TargetStep(i, t) ==
  /\ Live(i)
  /\ target' = [target EXCEPT ![i] = t]
  /\ UNCHANGED <<taskVars, clientVars, idle, sweep, histVars>>

TargetSends(i) ==
  /\ target[i].state = "open" /\ target[i].sent < MaxSent
  /\ TargetStep(i, [target[i] EXCEPT !.sent = @ + 1])

TargetEnds(i, how) ==
  /\ how \in Environment
  /\ target[i].state = "open"
  /\ TargetStep(i, [target[i] EXCEPT !.state = how])

\* The target stops reading, and goes on answering window probes.
TargetStalls(i) ==
  /\ "stall" \in Environment
  /\ ~target[i].stalled
  /\ TargetStep(i, [target[i] EXCEPT !.stalled = TRUE])

\* idle_timeout has passed since the last activity on the connection.
Elapse(i) ==
  /\ "idle" \in Environment
  /\ Live(i)
  /\ idle' = idle \union {i}
  /\ UNCHANGED <<taskVars, clientVars, target, sweep, histVars>>

--------------------------------------------------------------------------------
\* The steps a task takes by itself once it has its request, the awaited lock
\* and the failures of other machines excepted.
TaskStep(r) ==
  \/ Lookup(r) \/ Insert(r)
  \/ RefuseStart(r) \/ Connect(r) \/ Connected(r) \/ ConnectFails(r)
  \/ SkipData(r) \/ Write(r) \/ Written(r) \/ ReadReply(r)
  \/ Close(r)
  \/ Poll(r) \/ (\E i \in Ids : PollOne(r, i)) \/ PollDone(r)
  \/ Reply(r)

TaskNext(r) ==
  \/ \E m \in Traffic : Arrive(r, m)
  \/ Discard(r)
  \/ Lock(r)
  \/ TaskStep(r)
  \/ WriteFails(r) \/ ReplyFails(r)

CleanupNext == Tick \/ (\E c \in Clients : Visit(c)) \/ Sweep

TargetNext(i) ==
  TargetSends(i) \/ (\E how \in {"eof", "error"} : TargetEnds(i, how))
    \/ TargetStalls(i) \/ Elapse(i)

Next ==
  \/ \E r \in Requests : TaskNext(r)
  \/ CleanupNext
  \/ \E i \in Ids : TargetNext(i)

Spec == Init /\ [][Next]_vars

\* The runtime schedules every task that can run, and tokio's Mutex serves its
\* waiters first come, first served.
Fairness ==
  /\ \A r \in Requests : WF_vars(TaskStep(r)) /\ SF_vars(Lock(r))
  /\ WF_vars(Tick) /\ WF_vars(\E c \in Clients : Visit(c)) /\ SF_vars(Sweep)

FairSpec == Spec /\ Fairness

--------------------------------------------------------------------------------
(* Safety                                                                       *)

\* No client ever has more than connections_per_pkey connections, though the
\* limit is looked at before the connect is awaited and the connection added
\* after it.
ConnectionLimit == \A a \in Requests : Cardinality(conns[a]) <= Limit

\* Two requests of one client are never served at the same time, even when
\* both found no state for their client and both went to create it.
OneTaskPerClient ==
  \A r, s \in Requests :
    r # s /\ pc[r] \in Holding /\ pc[s] \in Holding
      => client[r] # client[s]

\* A connection id names one connection of one client: ids come from one
\* counter, and no two clients' maps share one.
OneOwner ==
  /\ \A a, b \in Requests : a # b => conns[a] \intersect conns[b] = {}
  /\ \A i \in Ids : Live(i) => i < nextId /\ ended[i] = "no"

\* The entry a task works on stays in the map while the task awaits the
\* target: neither the clean-up task nor another request takes it away.
EntryStaysDuringAwait ==
  \A r \in Requests :
    /\ pc[r] \in {"writing", "reading"} => Current(r) \in Conns(r)
    /\ At(r, "polling") => polled[r] \subseteq Conns(r)

\* What reaches the Lambdas about a connection, over all requests, reaches one
\* client only: the Challenge comes first, chunks come in the order the target
\* sent them and none comes twice, and nothing follows the Close.
Precedes(x, y) ==
  /\ x.kind # "Close" /\ y.kind # "Challenge"
  /\ x.kind = "Data" /\ y.kind = "Data" => x.n < y.n

WireInOrder ==
  \A c, d \in Clients : \A j \in DOMAIN wire[c], k \in DOMAIN wire[d] :
    wire[c][j].id = wire[d][k].id /\ wire[c][j].id \in Ids =>
      c = d /\ (j < k => Precedes(wire[c][j], wire[c][k]))

\* A chunk read from a target is on its way in the response being prepared,
\* has reached a Lambda, or went down with a response that could not be
\* written: no branch of the handler drops what it has read.
Carries(s, i, n) == \E j \in DOMAIN s : s[j] = [kind |-> "Data", id |-> i, n |-> n]

Relayed(i, n) ==
  \/ \E c \in Clients : Carries(wire[c], i, n)
  \/ \E r \in Requests : Carries(out[r], i, n)

NoReadForgotten ==
  \A i \in Ids : \A n \in 1 .. target[i].read : Relayed(i, n) \/ n \in lost[i]

\* When the server closes a connection because the target ended it, everything
\* the target sent before has been read.
DrainedBeforeClose ==
  \A i \in Ids : ended[i] \in {"eof", "error"} => Available(i) = 0

\* Of the requests that carry the same key and nonce at most one is served,
\* provided the nonces in use are less than W apart.
Served(r) == pc[r] \in Serving \union {"done"}

ServedOnce ==
  (\A m, n \in Traffic : m.nonce - n.nonce < W) =>
    \A r, s \in Requests :
      r # s /\ Served(r) /\ Served(s) /\ client[r] = client[s] => nonce[r] # nonce[s]

--------------------------------------------------------------------------------
(* Liveness                                                                     *)

SomeTargetStalls == \E i \in Ids : target[i].stalled

\* Every request that was deserialised is served or rejected, and its client's
\* lock released, unless a target stops reading: the write to a target is the
\* one await without a bound.
EveryRequestEnds ==
  \A r \in Requests :
    At(r, "lookup") ~> pc[r] \in {"done", "dropped"} \/ SomeTargetStalls

\* A connection nobody uses is dropped by the clean-up task or used again,
\* unless a target stops reading.
IdleReclaimed ==
  \A i \in Ids :
    Live(i) /\ i \in idle ~> ~Live(i) \/ i \notin idle \/ SomeTargetStalls

--------------------------------------------------------------------------------
(***************************************************************************)
(* The inductive invariant behind the safety properties above: all tasks   *)
(* of a client refer to one Arc, only the holder of its Mutex is past the  *)
(* lock, and what a task established before an await still stands after    *)
(* it.                                                                     *)
(***************************************************************************)
KnownClient ==
  \A r \in Requests : pc[r] \in PC \ {"idle", "dropped"} => client[r] \in Clients

RefsAgree ==
  \A r \in Requests :
    pc[r] \in Holding \union {"lock"} =>
      ref[r] \in Requests /\ ref[r] = clients[client[r]]

\* An Arc is named by a request of its client that is past get_client.
ArcsOwned ==
  \A c \in Clients : clients[c] # NoArc =>
    /\ client[clients[c]] = c
    /\ pc[clients[c]] \notin {"idle", "lookup", "insert"}

HoldersHold == \A r \in Requests : pc[r] \in Holding => holder[ref[r]] = r

\* Ids not issued yet have no history.
FreshIds == \A i \in Ids : i >= nextId => ended[i] = "no"

RoomForOne == \A r \in Requests : At(r, "connecting") => Cardinality(Conns(r)) < Limit

MessageAtHand ==
  \A r \in Requests :
    /\ pc[r] \in {"connecting", "writing", "reading", "polling"} => todo[r] # <<>>
    /\ pc[r] \in {"writing", "reading"} => Head(todo[r]).type = "Data"

SweepKnown ==
  \A c \in Clients : c \in sweep.todo \/ sweep.at = c => clients[c] # NoArc

IInv ==
  /\ TypeOK
  /\ KnownClient /\ RefsAgree /\ ArcsOwned /\ HoldersHold
  /\ OneOwner /\ FreshIds
  /\ ConnectionLimit /\ RoomForOne
  /\ MessageAtHand /\ EntryStaysDuringAwait
  /\ SweepKnown
================================================================================
