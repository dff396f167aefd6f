------------------------------ MODULE ClientProxy ------------------------------
(***************************************************************************)
(* The local SOCKS proxy (client/src/main.rs): a handler per SOCKS         *)
(* connection, one sender task that makes all HTTP calls to the Lambda one *)
(* after the other, the poll and the clean-up task.  The Lambda and the    *)
(* server are what the client sees of them: a call fails before or after   *)
(* the server has acted on it, or returns the server's responses.          *)
(*                                                                         *)
(* The map of connections is behind a Mutex that is never held across an   *)
(* await, so each use of it is one step.  The only server a handler uses   *)
(* is servers[0].                                                          *)
(***************************************************************************)
EXTENDS Naturals, Sequences, FiniteSets, SequencesExt

CONSTANTS
  Handlers,      \* SOCKS connections accepted
  MaxReads,      \* bound: chunks an application sends on one of them
  MaxChunks,     \* bound: chunks a target sends on one connection
  MaxId,         \* bound: connection ids the server issues
  Environment,   \* what may happen around the client in the instance
  NoHandler

Ids == 1 .. MaxId

ASSUME ClientAssumption ==
  /\ MaxReads \in Nat /\ MaxChunks \in Nat /\ MaxId \in Nat
  /\ Environment \subseteq {"refuse", "lose_request", "lose_response", "target_ends",
                            "restart", "hang", "socks_fails", "socks_ends", "idle"}
  /\ NoHandler \notin Handlers

VARIABLES
  task,      \* where a handler is
  id,        \* its connection_id
  reads,     \* chunks it has read from its application
  inbox,     \* its response channel
  entries,   \* ClientState.connections: whose response_tx an id has
  old,       \* entries whose last_activity is older than idle_timeout
  channel,   \* the channel to the sender task
  pending,   \* pending_messages of the sender task
  sender,    \* where the sender is, and what it does after the call it awaits
  batch,     \* the messages of the call in flight
  served,    \* how many of them the server has processed
  response,  \* the server's responses to them, by what they are routed by
  open,      \* the server's connections: whose StartConnection an id answered
  nextId,    \* the server's counter
  sent,      \* chunks the server has returned on a connection
  arrived,   \* history: chunks written to the target a handler asked for
  got,       \* history: chunks written to a handler's application
  failed,    \* history: messages of calls that failed before the server acted
  missed,    \* history: chunks in lost responses; Challenges as chunk 0
  unrouted,  \* history: chunks that came before their handler was registered
  dropped    \* history: handlers whose StartConnection was dropped

handlerVars == <<task, id, reads, inbox>>
tableVars   == <<entries, old>>
senderVars  == <<pending, sender, batch>>
serverVars  == <<served, response, open, nextId, sent, arrived>>
lossVars    == <<failed, missed, unrouted, dropped>>
vars == <<handlerVars, tableVars, channel, senderVars, serverVars, got, lossVars>>

--------------------------------------------------------------------------------
Start(h)      == [type |-> "StartConnection", by |-> h]
Data(h)       == [type |-> "Data", id |-> id[h], by |-> h, n |-> reads[h] + 1]
CloseOf(i)    == [type |-> "Close", id |-> i]
PollMessage   == [type |-> "Poll"]

\* by is history: the message itself has the connection's id only.
Outgoing ==
  [type : {"StartConnection"}, by : Handlers]
    \union [type : {"Data"}, id : Ids, by : Handlers, n : 1 .. MaxReads]
    \union [type : {"Close"}, id : Ids] \union [type : {"Poll"}]

\* of is history: whose target the chunk comes from.
Chunk == [of : Handlers, n : Nat]

Response ==
  [kind : {"Challenge", "Close"}, id : Ids] \union [kind : {"Error"}]
    \union [kind : {"Data"}, id : Ids, of : Handlers, n : 1 .. MaxChunks]

\* What a response is routed by: its connection's id, or 0 for a Challenge and
\* an Error, which go to the sender of the StartConnection.  The order between
\* connections is that of a HashMap, and no handler can tell.
Routes      == Ids \union {0}
NoResponses == [i \in Routes |-> <<>>]

IsStart(m) == m.type = "StartConnection"

Relaying == {"relay", "removing"}
Task     == {"idle", "waiting", "registering", "replying", "refused", "ended"} \union Relaying

TypeOK ==
  /\ task \in [Handlers -> Task]
  /\ id \in [Handlers -> Ids \union {0}]
  /\ reads \in [Handlers -> 0 .. MaxReads]
  /\ inbox \in [Handlers -> Seq(Response)]
  /\ entries \in [Ids -> Handlers \union {NoHandler}]
  /\ old \subseteq Ids
  /\ channel \in Seq(Outgoing)
  /\ pending \in Seq(Outgoing)
  /\ sender \in [at : {"recv", "drain", "window", "last", "call", "hung"},
                 held : Handlers \union {NoHandler},
                 then : {"recv", "drain", "last"}]
  /\ batch \in Seq(Outgoing)
  /\ served \in 0 .. Len(batch)
  /\ response \in [Routes -> Seq(Response)]
  /\ open \in [Ids -> Handlers \union {NoHandler}]
  /\ nextId \in 1 .. MaxId + 1
  /\ sent \in [Ids -> 0 .. MaxChunks]
  /\ arrived \in [Handlers -> Seq(Chunk)]
  /\ got \in [Handlers -> Seq(Chunk)]
  /\ failed \subseteq Outgoing
  /\ missed \in [Handlers -> SUBSET Nat]
  /\ unrouted \in [Handlers -> SUBSET Nat]
  /\ dropped \subseteq Handlers

Init ==
  /\ task = [h \in Handlers |-> "idle"]
  /\ id = [h \in Handlers |-> 0]
  /\ reads = [h \in Handlers |-> 0]
  /\ inbox = [h \in Handlers |-> <<>>]
  /\ entries = [i \in Ids |-> NoHandler]
  /\ old = {}
  /\ channel = <<>>
  /\ pending = <<>>
  /\ sender = [at |-> "recv", held |-> NoHandler, then |-> "recv"]
  /\ batch = <<>>
  /\ served = 0
  /\ response = NoResponses
  /\ open = [i \in Ids |-> NoHandler]
  /\ nextId = 1
  /\ sent = [i \in Ids |-> 0]
  /\ arrived = [h \in Handlers |-> <<>>]
  /\ got = [h \in Handlers |-> <<>>]
  /\ failed = {}
  /\ missed = [h \in Handlers |-> {}]
  /\ unrouted = [h \in Handlers |-> {}]
  /\ dropped = {}

\* The message is on its way to the server.
Coming(m) ==
  \/ m \in Range(channel) \union Range(pending)
  \/ \E j \in served + 1 .. Len(batch) : batch[j] = m
  \/ sender.held # NoHandler /\ m = Start(sender.held)

--------------------------------------------------------------------------------
(* handle_socks_connection                                                      *)

At(h, l)    == task[h] = l
Goto(h, l)  == task' = [task EXCEPT ![h] = l]
Queue(m)    == channel' = Append(channel, m)
Heard(h, k) == inbox[h] # <<>> /\ Head(inbox[h]).kind \in k
Consume(h)  == inbox' = [inbox EXCEPT ![h] = Tail(@)]

\* A CONNECT command: the StartConnection carries the handler's response_tx,
\* of which the handler keeps a clone.
Connect(h) ==
  /\ At(h, "idle")
  /\ Queue(Start(h))
  /\ Goto(h, "waiting")
  /\ UNCHANGED <<id, reads, inbox, tableVars, senderVars, serverVars, got, lossVars>>

\* Mutant: the id in the Challenge is not taken.
IdKept(h) == id[h]

IdOffered(h) == Head(inbox[h]).id

Challenged(h) ==
  /\ At(h, "waiting") /\ Heard(h, {"Challenge"})
  /\ id' = [id EXCEPT ![h] = IdOffered(h)]
  /\ Consume(h)
  /\ Goto(h, "registering")
  /\ UNCHANGED <<reads, tableVars, channel, senderVars, serverVars, got, lossVars>>

\* Any other response: the application gets a failure reply.
Refused(h) ==
  /\ At(h, "waiting") /\ Heard(h, {"Error", "Close", "Data"})
  /\ inbox' = [inbox EXCEPT ![h] = <<>>]
  /\ Goto(h, "refused")
  /\ UNCHANGED <<id, reads, tableVars, channel, senderVars, serverVars, got, lossVars>>

Register(h) ==
  /\ At(h, "registering")
  /\ entries' = [entries EXCEPT ![id[h]] = h]
  /\ old' = old \ {id[h]}
  /\ Goto(h, "replying")
  /\ UNCHANGED <<id, reads, inbox, channel, senderVars, serverVars, got, lossVars>>

Replied(h) ==
  /\ At(h, "replying")
  /\ Goto(h, "relay")
  /\ UNCHANGED <<id, reads, inbox, tableVars, channel, senderVars, serverVars, got, lossVars>>

\* The handler returns, the entry stays.
End(h) ==
  /\ Goto(h, "ended")
  /\ inbox' = [inbox EXCEPT ![h] = <<>>]

ReplyFails(h) ==
  /\ "socks_fails" \in Environment
  /\ At(h, "replying")
  /\ End(h)
  /\ UNCHANGED <<id, reads, tableVars, channel, senderVars, serverVars, got, lossVars>>

--------------------------------------------------------------------------------
(* The relay task's select loop.                                                *)

\* last_activity of whatever entry has the id now.
Touch(h) == old' = old \ {id[h]}

Read(h) ==
  /\ At(h, "relay")
  /\ reads[h] < MaxReads
  /\ reads' = [reads EXCEPT ![h] = @ + 1]
  /\ Touch(h)
  /\ Queue(Data(h))
  /\ UNCHANGED <<task, id, inbox, entries, senderVars, serverVars, got, lossVars>>

\* The application closes its side, or reading from it fails.
Eof(h) ==
  /\ "socks_ends" \in Environment
  /\ At(h, "relay")
  /\ Queue(CloseOf(id[h]))
  /\ Goto(h, "removing")
  /\ UNCHANGED <<id, reads, inbox, tableVars, senderVars, serverVars, got, lossVars>>

Deliver(h) ==
  /\ At(h, "relay") /\ Heard(h, {"Data"})
  /\ LET x == Head(inbox[h]) IN
       got' = [got EXCEPT ![h] = Append(@, [of |-> x.of, n |-> x.n])]
  /\ Consume(h)
  /\ Touch(h)
  /\ UNCHANGED <<task, id, reads, entries, channel, senderVars, serverVars, lossVars>>

\* write_all fails: the loop ends without a Close, the entry stays.
DeliverFails(h) ==
  /\ "socks_fails" \in Environment
  /\ At(h, "relay") /\ Heard(h, {"Data"})
  /\ Touch(h)
  /\ End(h)
  /\ UNCHANGED <<id, reads, entries, channel, senderVars, serverVars, got, lossVars>>

Closed(h) ==
  /\ At(h, "relay") /\ Heard(h, {"Close"})
  /\ Goto(h, "removing")
  /\ UNCHANGED <<id, reads, inbox, tableVars, channel, senderVars, serverVars, got, lossVars>>

\* recv() returns None: the last sender was in the entry that is gone.
Orphaned(h) ==
  /\ At(h, "relay") /\ inbox[h] = <<>>
  /\ \A i \in Ids : entries[i] # h
  /\ Goto(h, "removing")
  /\ UNCHANGED <<id, reads, inbox, tableVars, channel, senderVars, serverVars, got, lossVars>>

RemoveEntry(h) ==
  /\ At(h, "removing")
  /\ entries' = [entries EXCEPT ![id[h]] = NoHandler]
  /\ old' = old \ {id[h]}
  /\ End(h)
  /\ UNCHANGED <<id, reads, channel, senderVars, serverVars, got, lossVars>>

--------------------------------------------------------------------------------
(* poll_task and cleanup_task                                                   *)

\* Bound: one Poll on its way at a time.
PollTick ==
  /\ \E i \in Ids : entries[i] # NoHandler
  /\ ~Coming(PollMessage)
  /\ Queue(PollMessage)
  /\ UNCHANGED <<handlerVars, tableVars, senderVars, serverVars, got, lossVars>>

\* Mutant: the server is not told of the idle connections that are removed.
ClosesNobody(idle) == <<>>

ClosesOf(idle) == SetToSeq({CloseOf(i) : i \in idle})

Cleanup ==
  LET idle == {i \in old : entries[i] # NoHandler} IN
  /\ idle # {}
  /\ channel' = channel \o ClosesOf(idle)
  /\ entries' = [i \in Ids |-> IF i \in idle THEN NoHandler ELSE entries[i]]
  /\ old' = old \ idle
  /\ UNCHANGED <<handlerVars, senderVars, serverVars, got, lossVars>>

\* idle_timeout has passed since the last activity.
Elapse(i) ==
  /\ "idle" \in Environment
  /\ entries[i] # NoHandler
  /\ old' = old \union {i}
  /\ UNCHANGED <<handlerVars, entries, channel, senderVars, serverVars, got, lossVars>>

--------------------------------------------------------------------------------
(* lambda_sender_task                                                           *)

SenderAt(l) == sender.at = l
Next1       == Head(channel)
TakeNext    == channel' = Tail(channel)
Resume(l)   == /\ sender' = [at |-> l, held |-> NoHandler, then |-> "recv"]
               /\ UNCHANGED <<batch, served, response>>

\* send_to_lambda: the call of b is awaited, then that of a held
\* StartConnection, then the sender goes on.
Call(b, h, then) ==
  /\ sender' = [at |-> "call", held |-> h, then |-> then]
  /\ batch' = b
  /\ served' = 0
  /\ response' = NoResponses

\* Mutant: the StartConnection is forgotten once the batch is flushed.
FlushOnly(h, then) ==
  /\ pending' = <<>>
  /\ IF pending = <<>> THEN Call(<<Start(h)>>, NoHandler, then)
     ELSE Call(pending, NoHandler, then)

\* flush_pending, then a StartConnection that was found behind it.
FlushAndStart(h, then) ==
  /\ pending' = <<>>
  /\ IF pending = <<>> THEN Call(<<Start(h)>>, NoHandler, then)
     ELSE Call(pending, h, then)

\* Mutant: the newest message goes first.
BatchedInFront(m) == <<m>> \o pending

\* queue_message
Batched(m) == Append(pending, m)

senderRest == <<handlerVars, tableVars, open, nextId, sent, arrived, got>>

\* The first message: a StartConnection is sent at once, alone.
SenderTakes ==
  /\ SenderAt("recv") /\ channel # <<>>
  /\ TakeNext
  /\ IF IsStart(Next1)
     THEN Call(<<Next1>>, NoHandler, "recv") /\ UNCHANGED pending
     ELSE pending' = <<Next1>> /\ Resume("drain")
  /\ UNCHANGED <<senderRest, lossVars>>

\* try_recv until the channel is empty.
SenderDrains ==
  /\ SenderAt("drain") /\ channel # <<>>
  /\ TakeNext
  /\ IF IsStart(Next1) THEN FlushAndStart(Next1.by, "drain")
     ELSE pending' = Batched(Next1) /\ Resume("drain")
  /\ UNCHANGED <<senderRest, lossVars>>

SenderDrained ==
  /\ SenderAt("drain") /\ channel = <<>>
  /\ Resume(IF pending = <<>> THEN "recv" ELSE "window")
  /\ UNCHANGED <<senderRest, channel, pending, lossVars>>

\* select: one more message, or config.timeout passes.
WindowMessage ==
  /\ SenderAt("window") /\ channel # <<>>
  /\ TakeNext
  /\ IF IsStart(Next1) THEN FlushAndStart(Next1.by, "last")
     ELSE pending' = Batched(Next1) /\ Resume("last")
  /\ UNCHANGED <<senderRest, lossVars>>

WindowOver ==
  /\ SenderAt("window")
  /\ Resume("last")
  /\ UNCHANGED <<senderRest, channel, pending, lossVars>>

LastDrains ==
  /\ SenderAt("last") /\ channel # <<>> /\ ~IsStart(Next1)
  /\ TakeNext
  /\ pending' = Batched(Next1)
  /\ Resume("last")
  /\ UNCHANGED <<senderRest, lossVars>>

\* The last drain ends on an empty channel or on a StartConnection, which
\* try_recv has taken out and the match drops.
LastFlush ==
  /\ SenderAt("last")
  /\ \/ channel = <<>> /\ UNCHANGED <<channel, dropped>>
     \/ /\ channel # <<>> /\ IsStart(Next1)
        /\ TakeNext
        /\ dropped' = dropped \union {Next1.by}
  /\ pending' = <<>>
  /\ IF pending = <<>> THEN Resume("recv") ELSE Call(pending, NoHandler, "recv")
  /\ UNCHANGED <<senderRest, failed, missed, unrouted>>

--------------------------------------------------------------------------------
(* The call, as the Lambda and the server treat it.                             *)

\* The call returns: the held StartConnection is sent, or the sender goes on.
Returns ==
  IF sender.held # NoHandler THEN Call(<<Start(sender.held)>>, NoHandler, sender.then)
  ELSE /\ sender' = [at |-> sender.then, held |-> NoHandler, then |-> "recv"]
       /\ batch' = <<>>
       /\ served' = 0
       /\ response' = NoResponses

InCall     == SenderAt("call")
Processing(type) == InCall /\ served < Len(batch) /\ batch[served + 1].type = type
Message    == batch[served + 1]
Answer(i, s) == response' = [response EXCEPT ![i] = @ \o s]
serveRest  == <<handlerVars, tableVars, channel, senderVars, got, lossVars>>

IsOpen(i) == open[i] # NoHandler

\* The Lambda refuses, throttles, or cannot reach the server; send_to_lambda
\* returns an error, which is logged.
LoseRequest ==
  /\ "lose_request" \in Environment
  /\ InCall /\ served = 0
  /\ failed' = failed \union Range(batch)
  /\ Returns
  /\ UNCHANGED <<handlerVars, tableVars, channel, pending, open, nextId, sent, arrived, got,
                 missed, unrouted, dropped>>

\* The network swallows the call: the HTTP client has no timeout, so the
\* sender waits for ever.
Hang ==
  /\ "hang" \in Environment
  /\ InCall
  /\ sender' = [sender EXCEPT !.at = "hung"]
  /\ UNCHANGED <<handlerVars, tableVars, channel, pending, batch, serverVars, got, lossVars>>

NewId == nextId

ServeStart ==
  /\ Processing("StartConnection")
  /\ served' = served + 1
  /\ \/ /\ nextId <= MaxId
        /\ open' = [open EXCEPT ![NewId] = Message.by]
        /\ nextId' = nextId + 1
        /\ Answer(0, <<[kind |-> "Challenge", id |-> NewId]>>)
     \/ /\ "refuse" \in Environment \/ nextId > MaxId
        /\ Answer(0, <<[kind |-> "Error"]>>)
        /\ UNCHANGED <<open, nextId>>
  /\ UNCHANGED <<serveRest, sent, arrived>>

\* What is returned of a connection: a chunk if there is one, then the Close
\* if the target has ended.
Relayed(i, more, ends) ==
  (IF more THEN <<[kind |-> "Data", id |-> i, of |-> open[i], n |-> sent[i] + 1]>> ELSE <<>>)
    \o (IF ends THEN <<[kind |-> "Close", id |-> i]>> ELSE <<>>)

\* Of the connections in visited, those in more return a chunk and those in
\* ends are closed.
Visit(visited, more, ends) ==
  /\ more \subseteq {i \in visited : sent[i] < MaxChunks}
  /\ ends \subseteq visited
  /\ "target_ends" \in Environment \/ ends = {}
  /\ sent' = [i \in Ids |-> IF i \in more THEN sent[i] + 1 ELSE sent[i]]
  /\ open' = [i \in Ids |-> IF i \in ends THEN NoHandler ELSE open[i]]
  /\ response' = [i \in Routes |->
       response[i] \o (IF i \in visited THEN Relayed(i, i \in more, i \in ends) ELSE <<>>)]

ServeData ==
  /\ Processing("Data")
  /\ served' = served + 1
  /\ IF IsOpen(Message.id)
     THEN /\ \E more \in SUBSET {Message.id}, ends \in SUBSET {Message.id} :
               Visit({Message.id}, more, ends)
          /\ arrived' = [arrived EXCEPT ![open[Message.id]] =
                           Append(@, [of |-> Message.by, n |-> Message.n])]
     ELSE UNCHANGED <<response, open, sent, arrived>>
  /\ UNCHANGED <<serveRest, nextId>>

ServeClose ==
  /\ Processing("Close")
  /\ served' = served + 1
  /\ IF IsOpen(Message.id)
     THEN /\ open' = [open EXCEPT ![Message.id] = NoHandler]
          /\ Answer(Message.id, <<[kind |-> "Close", id |-> Message.id]>>)
     ELSE UNCHANGED <<response, open>>
  /\ UNCHANGED <<serveRest, nextId, sent, arrived>>

ServePoll ==
  /\ Processing("Poll")
  /\ served' = served + 1
  /\ LET opened == {i \in Ids : IsOpen(i)}
     IN  \E more \in SUBSET opened, ends \in SUBSET opened : Visit(opened, more, ends)
  /\ UNCHANGED <<serveRest, nextId, arrived>>

\* Whose channel a response goes to: a Challenge or an Error to the sender of
\* the StartConnection, a batch has none.
Starter == IF IsStart(batch[1]) THEN batch[1].by ELSE NoHandler

\* Mutant: the entries are keyed by the server alone, the last one stands for all.
RecipientOfServer(i) ==
  LET known == {j \in Ids : entries[j] # NoHandler}
  IN  IF i = 0 THEN Starter
      ELSE IF known = {} THEN NoHandler ELSE entries[CHOOSE j \in known : \A k \in known : k <= j]

Recipient(i) == IF i = 0 THEN Starter ELSE entries[i]

\* What is for h: a handler has one id at most, and none while it waits.
ResponsesFor(h) ==
  LET mine == {i \in Routes : response[i] # <<>> /\ Recipient(i) = h}
  IN  IF mine = {} THEN <<>> ELSE response[CHOOSE i \in mine : TRUE]

\* Mutant: routing returns after the first response it has found a channel for.
RoutedFirst(h) == SubSeq(ResponsesFor(h), 1, IF ResponsesFor(h) = <<>> THEN 0 ELSE 1)

Routed(h) == ResponsesFor(h)

Answered == InCall /\ served = Len(batch)

\* The chunks of h's target among the responses.
ChunksFor(h) ==
  UNION {{x.n : x \in {y \in Range(response[i]) : y.kind = "Data" /\ y.of = h}} : i \in Ids}

\* The response is routed under the lock of the map; who has no entry gets
\* nothing, and a channel whose receiver is gone takes nothing.
Route ==
  /\ Answered
  /\ inbox' = [h \in Handlers |->
       IF At(h, "ended") THEN <<>>
       ELSE inbox[h] \o Routed(h)]
  /\ unrouted' = [h \in Handlers |->
       IF task[h] \in {"waiting", "registering"} THEN unrouted[h] \union ChunksFor(h)
       ELSE unrouted[h]]
  /\ Returns
  /\ UNCHANGED <<task, id, reads, tableVars, channel, pending, open, nextId, sent, arrived, got,
                 failed, missed, dropped>>

\* The Lambda's read timed out, or the answer is not a whole message.
LoseResponse ==
  /\ "lose_response" \in Environment
  /\ Answered
  /\ missed' = [h \in Handlers |->
       missed[h] \union ChunksFor(h) \union (IF Starter = h THEN {0} ELSE {})]
  /\ Returns
  /\ UNCHANGED <<handlerVars, tableVars, channel, pending, open, nextId, sent, arrived, got,
                 failed, unrouted, dropped>>

\* The server restarts: its connections are gone and its counter starts anew.
\* A restart in the middle of a call is a lost response and then this.
Restart ==
  /\ "restart" \in Environment
  /\ ~InCall
  /\ nextId # 1
  /\ open' = [i \in Ids |-> NoHandler]
  /\ nextId' = 1
  /\ sent' = [i \in Ids |-> 0]
  /\ UNCHANGED <<handlerVars, tableVars, channel, senderVars, served, response, arrived, got,
                 lossVars>>

--------------------------------------------------------------------------------
HandlerStep(h) ==
  \/ Challenged(h) \/ Refused(h) \/ Register(h) \/ Replied(h)
  \/ Deliver(h) \/ Closed(h) \/ Orphaned(h) \/ RemoveEntry(h)

HandlerNext(h) ==
  \/ Connect(h) \/ HandlerStep(h) \/ Read(h)
  \/ ReplyFails(h) \/ Eof(h) \/ DeliverFails(h)

SenderStep ==
  \/ SenderTakes \/ SenderDrains \/ SenderDrained
  \/ WindowMessage \/ WindowOver \/ LastDrains \/ LastFlush

CallStep ==
  \/ LoseRequest
  \/ ServeStart \/ ServeData \/ ServeClose \/ ServePoll
  \/ Route \/ LoseResponse

Next ==
  \/ \E h \in Handlers : HandlerNext(h)
  \/ PollTick \/ Cleanup \/ (\E i \in Ids : Elapse(i))
  \/ SenderStep
  \/ CallStep
  \/ Hang
  \/ Restart

Spec == Init /\ [][Next]_vars

\* The runtime schedules what can run, the timers fire, and a call that does
\* not hang returns or fails.
Fairness ==
  /\ \A h \in Handlers : WF_vars(HandlerStep(h))
  /\ WF_vars(SenderStep) /\ WF_vars(CallStep) /\ WF_vars(Cleanup)

FairSpec == Spec /\ Fairness

--------------------------------------------------------------------------------
(* Safety                                                                       *)

Increasing(s) == \A j, k \in DOMAIN s : j < k => s[j].n < s[k].n

\* Of the chunks that came from its target, an application gets those before
\* any it has got already: in order, none twice, and none missing but those
\* in a response that was lost or came before the handler had registered.
DeliveredInOrder ==
  \A h \in Handlers :
    /\ Increasing(got[h])
    /\ \A j \in DOMAIN got[h] : \A n \in 1 .. got[h][j].n :
         \/ \E k \in DOMAIN got[h] : got[h][k].n = n
         \/ n \in missed[h] \union unrouted[h]

\* What an application sends reaches its target in order, with no gap but the
\* messages of calls that failed: batches, held StartConnections and the
\* sender's three drains never reorder it.
ArrivedInOrder ==
  \A h \in Handlers :
    /\ Increasing(arrived[h])
    /\ \A j \in DOMAIN arrived[h] : \A n \in 1 .. arrived[h][j].n :
         \/ \E k \in DOMAIN arrived[h] : arrived[h][k].n = n
         \/ \E m \in failed : m.type = "Data" /\ m.by = h /\ m.n = n

\* A connection of a handler that is over is still in the map, for the
\* clean-up to find, or its Close is on its way to the server; the one
\* exception is a call that failed.
CloseNotForgotten ==
  \A i \in Ids :
    IsOpen(i) /\ At(open[i], "ended")
      => entries[i] = open[i] \/ Coming(CloseOf(i)) \/ CloseOf(i) \in failed

\* A handler that waits for its connection is owed an answer, unless the call
\* failed or the sender dropped its StartConnection.
Promised(h) ==
  \/ Coming(Start(h))
  \/ batch # <<>> /\ Starter = h
  \/ inbox[h] # <<>>

AnswerOwed ==
  \A h \in Handlers : At(h, "waiting") =>
    Promised(h) \/ Start(h) \in failed \/ 0 \in missed[h] \/ h \in dropped

\* The comment on lambda_sender_task: it serializes all outgoing messages.  Of
\* the calls that do not fail, each handler's StartConnection is one.
NoStartDropped == \A h \in Handlers : At(h, "waiting") => Promised(h)

\* DESIGN.md, Server: ids come from a global counter to ensure uniqueness; so
\* no handler's data goes to, or comes from, the target of another.
NoCrossTalk ==
  \A h \in Handlers :
    /\ \A j \in DOMAIN got[h] : got[h][j].of = h
    /\ \A j \in DOMAIN arrived[h] : arrived[h][j].of = h

--------------------------------------------------------------------------------
(* Liveness                                                                     *)

\* Every CONNECT is answered, unless its call failed, the sender dropped it or
\* hangs.
EveryConnectAnswered ==
  \A h \in Handlers :
    At(h, "waiting") ~>
      \/ ~At(h, "waiting")
      \/ Start(h) \in failed \/ 0 \in missed[h] \/ h \in dropped
      \/ SenderAt("hung")

\* An entry nobody uses any more is removed and its connection closed at the
\* server, unless the call with its Close failed or the sender hangs.  A server
\* that restarts may give its id to a second handler; then each of the two may
\* remove the entry of the other, and nobody is left to tell the server.
LeftoversClosed ==
  \A i \in Ids :
    entries[i] # NoHandler /\ i \in old ~>
      \/ i \notin old /\ entries[i] # NoHandler
      \/ ~IsOpen(i)
      \/ CloseOf(i) \in failed
      \/ SenderAt("hung")
      \/ \E g, h \in Handlers : g # h /\ id[g] = i /\ id[h] = i
================================================================================
