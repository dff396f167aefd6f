--------------------------- MODULE ClientProxyProofs ---------------------------
(***************************************************************************)
(* What holds of the local SOCKS proxy for any number of handlers, chunks  *)
(* and connection ids, whatever fails around it.                           *)
(***************************************************************************)
EXTENDS ClientRestarts, FiniteSetTheorems, SequenceTheorems, TLAPS

(***************************************************************************)
(* The invariants                                                          *)
(***************************************************************************)

In(s, m)    == \E j \in DOMAIN s : s[j] = m
Unserved(m) == \E j \in served + 1 .. Len(batch) : batch[j] = m
Offer(i)    == [kind |-> "Challenge", id |-> i]

\* The call in flight is that of h's StartConnection.
Starting(h) == batch # <<>> /\ batch[1] = Start(h)

\* Where a handler is, and what it holds there: an id from the Challenge on,
\* and an entry from its registration on.
HandlerShape ==
  \A h \in Handlers :
    /\ task[h] \in {"idle", "waiting", "refused"} <=> id[h] = 0
    /\ task[h] = "ended" => inbox[h] = <<>>

EntryShape ==
  \A i \in Ids, h \in Handlers :
    entries[i] = h => id[h] = i /\ task[h] \in {"replying", "ended"} \union Relaying

\* A batch is awaited in a call only, and holds a StartConnection only alone.
SenderShape ==
  /\ batch # <<>> <=> sender.at \in {"call", "hung"}
  /\ sender.at \in {"recv", "call", "hung"} => pending = <<>>
  /\ sender.held # NoHandler => batch # <<>> /\ ~IsStart(batch[1])
  /\ \A j \in DOMAIN pending : ~IsStart(pending[j])
  /\ \A j \in DOMAIN batch : IsStart(batch[j]) => Len(batch) = 1

\* Responses are kept by what they are routed by, and those to a StartConnection
\* come alone.
ResponseShape ==
  /\ served = 0 => response = NoResponses
  /\ batch # <<>> /\ IsStart(batch[1]) /\ served = 1 => response[0] # <<>>
  /\ batch # <<>> /\ IsStart(batch[1]) => \A i \in Ids : response[i] = <<>>
  /\ batch # <<>> /\ ~IsStart(batch[1]) => response[0] = <<>>
  /\ \A j \in DOMAIN response[0] : response[0][j].kind \in {"Challenge", "Error"}
  /\ \A i \in Ids : \A j \in DOMAIN response[i] :
       response[i][j].kind \in {"Data", "Close"} /\ response[i][j].id = i

Base == TypeOK /\ HandlerShape /\ EntryShape /\ SenderShape /\ ResponseShape

--------------------------------------------------------------------------------
(* Each StartConnection is somewhere once, and until it is served its handler   *)
(* has nothing.                                                                 *)

\* No StartConnection of h has been served yet.
Newborn(h) ==
  \/ task[h] = "idle"
  \/ In(channel, Start(h)) \/ Unserved(Start(h)) \/ sender.held = h

Untouched(h) ==
  /\ task[h] \in {"idle", "waiting"} /\ inbox[h] = <<>> /\ reads[h] = 0
  /\ got[h] = <<>> /\ arrived[h] = <<>>
  /\ \A i \in Ids : open[i] # h

Once(s, m) == \A j, k \in DOMAIN s : s[j] = m /\ s[k] = m => j = k

StartInv ==
  \A h \in Handlers :
    /\ Newborn(h) => Untouched(h)
    /\ task[h] = "idle" => ~In(channel, Start(h)) /\ sender.held # h
    /\ Starting(h) => task[h] = "waiting" /\ inbox[h] = <<>>
    /\ sender.held = h => ~In(channel, Start(h))
    /\ Starting(h) => ~In(channel, Start(h)) /\ sender.held # h
    /\ Once(channel, Start(h))

--------------------------------------------------------------------------------
(* Ids are not shared: the counter starts anew with a server that restarts, so  *)
(* either it does not, or there is one handler only.                            *)

NobodyShares == "restart" \notin Environment \/ \A g, h \in Handlers : g = h

\* i is the id of h's connection, or is on its way to h.
Uses(h, i) ==
  \/ open[i] = h
  \/ id[h] = i
  \/ In(inbox[h], Offer(i))
  \/ Starting(h) /\ In(response[0], Offer(i))

IdsApart ==
  /\ \A g, h \in Handlers, i \in Ids : Uses(g, i) /\ Uses(h, i) => g = h
  /\ \A h \in Handlers, i, j \in Ids : Uses(h, i) /\ Uses(h, j) => i = j
  /\ \A g, h \in Handlers, i \in Ids : Newborn(g) /\ Uses(h, i) => i < nextId

\* Whoever reads from h's application writes h's id on it.
Owned(m) == m.type = "Data" => m.id = id[m.by] /\ m.n <= reads[m.by]

DataOwned ==
  /\ \A j \in DOMAIN channel : Owned(channel[j])
  /\ \A j \in DOMAIN pending : Owned(pending[j])
  /\ \A j \in DOMAIN batch : Owned(batch[j])

\* Everything on its way to h is of h's target.
AllOf(s, h) == \A j \in DOMAIN s : s[j].kind = "Data" => s[j].of = h

OwnChunks ==
  /\ \A h \in Handlers : AllOf(inbox[h], h)
  /\ \A h \in Handlers, i \in Ids : Uses(h, i) => AllOf(response[i], h)

IdInv == IdsApart /\ DataOwned /\ OwnChunks /\ NoCrossTalk

--------------------------------------------------------------------------------
(* A handler that is over has an entry still, or its Close is on its way.       *)

Closes(s)    == \E j \in DOMAIN s : s[j].kind = "Close"
CloseSent(i) == Coming(CloseOf(i)) \/ CloseOf(i) \in failed

\* The server closes a connection before it says so.
ClosedFirst ==
  /\ \A i \in Ids : Closes(response[i]) => open[i] = NoHandler
  /\ \A h \in Handlers, i \in Ids : Closes(inbox[h]) => open[i] # h

Followed ==
  \A h \in Handlers, i \in Ids : open[i] = h =>
    /\ task[h] \in {"replying", "relay", "ended"} => entries[i] = h \/ CloseSent(i)
    /\ task[h] = "removing" => CloseSent(i)

CloseInv == ClosedFirst /\ Followed

--------------------------------------------------------------------------------
(* What an application sends.                                                   *)

DataOf(h, m) == m.type = "Data" /\ m.by = h

\* The data of h in a sequence is in order, and that of s comes before that of t.
Sorted(s, h)   == \A j, k \in DOMAIN s : j < k /\ DataOf(h, s[j]) /\ DataOf(h, s[k]) => s[j].n < s[k].n
Ahead(s, t, h) == \A j \in DOMAIN s, k \in DOMAIN t : DataOf(h, s[j]) /\ DataOf(h, t[k]) => s[j].n < t[k].n

Lined(h) ==
  /\ Sorted(batch, h) /\ Sorted(pending, h) /\ Sorted(channel, h)
  /\ Ahead(batch, pending, h) /\ Ahead(batch, channel, h) /\ Ahead(pending, channel, h)

\* ... and what has reached the server is before what has not.
OutOrder(h) ==
  /\ Lined(h)
  /\ \A m \in Outgoing : DataOf(h, m) /\ Coming(m) => \A k \in DOMAIN arrived[h] : arrived[h][k].n < m.n
  /\ Increasing(arrived[h])

\* The n-th chunk of h's application reached its target, is on its way, or was
\* in a call that failed; or it came after the connection was closed, and so
\* after all that has arrived.
OnItsWay(h, n) == \E m \in Outgoing : DataOf(h, m) /\ m.n = n /\ Coming(m)
TooLate(h, n) ==
  /\ \A i \in Ids : open[i] # h
  /\ \A k \in DOMAIN arrived[h] : arrived[h][k].n < n

OutWhole(h) ==
  /\ \A k \in DOMAIN arrived[h] : arrived[h][k].n <= reads[h]
  /\ \A n \in 1 .. reads[h] :
       \/ \E k \in DOMAIN arrived[h] : arrived[h][k].n = n
       \/ \E m \in failed : DataOf(h, m) /\ m.n = n
       \/ OnItsWay(h, n) \/ TooLate(h, n)

OutInv == \A h \in Handlers : OutOrder(h) /\ OutWhole(h)

--------------------------------------------------------------------------------
(* What a target sends.                                                         *)

ChunkNo(s, n) == \E j \in DOMAIN s : s[j].kind = "Data" /\ s[j].n = n
GotNo(h, n)   == \E j \in DOMAIN got[h] : got[h][j].n = n
LostNo(h, n)  == n \in missed[h] \union unrouted[h]

\* No response will be routed to h any more, or what is routed is thrown away.
Deaf(h) ==
  \/ task[h] \in {"refused", "removing", "ended"}
  \/ task[h] \in {"replying", "relay"} /\ entries[id[h]] # h

InNumbers(s) ==
  \A j, k \in DOMAIN s : j < k /\ s[j].kind = "Data" /\ s[k].kind = "Data" => s[j].n < s[k].n

\* got, inbox and response, one after the other, are in order.
InOrder(h) ==
  /\ Increasing(got[h]) /\ InNumbers(inbox[h])
  /\ \A n, k \in Nat : GotNo(h, n) /\ ChunkNo(inbox[h], k) => n < k
  /\ \A i \in Ids : Uses(h, i) =>
       /\ InNumbers(response[i])
       /\ \A n, k \in Nat : (GotNo(h, n) \/ ChunkNo(inbox[h], n)) /\ ChunkNo(response[i], k) => n < k
       /\ open[i] = h => \A n \in Nat :
            GotNo(h, n) \/ ChunkNo(inbox[h], n) \/ ChunkNo(response[i], n) => n <= sent[i]

\* None is missing in front of any of them but those named.
InWhole(h) ==
  /\ \A k \in Nat : \A n \in 1 .. k : GotNo(h, k) => GotNo(h, n) \/ LostNo(h, n)
  /\ task[h] # "removing" => \A k \in Nat : \A n \in 1 .. k : ChunkNo(inbox[h], k) =>
       GotNo(h, n) \/ ChunkNo(inbox[h], n) \/ LostNo(h, n)
  /\ ~Deaf(h) => \A i \in Ids : Uses(h, i) =>
       /\ \A k \in Nat : \A n \in 1 .. k : ChunkNo(response[i], k) =>
            GotNo(h, n) \/ ChunkNo(inbox[h], n) \/ ChunkNo(response[i], n) \/ LostNo(h, n)
       /\ open[i] = h => \A n \in 1 .. sent[i] :
            GotNo(h, n) \/ ChunkNo(inbox[h], n) \/ ChunkNo(response[i], n) \/ LostNo(h, n)

\* A connection that was not opened yet has sent nothing.
NoneYet == \A i \in Ids : nextId <= i => sent[i] = 0 /\ open[i] = NoHandler

InInv == NoneYet /\ \A h \in Handlers : InOrder(h) /\ InWhole(h)

--------------------------------------------------------------------------------
(* Sequences, messages and responses                                            *)

LEMMA AppendFacts ==
  ASSUME NEW S, NEW s \in Seq(S), NEW e \in S
  PROVE  /\ Append(s, e) \in Seq(S) /\ Len(Append(s, e)) = Len(s) + 1
         /\ DOMAIN Append(s, e) = DOMAIN s \union {Len(s) + 1} /\ Len(s) + 1 \notin DOMAIN s
         /\ \A j \in DOMAIN s : Append(s, e)[j] = s[j] /\ j < Len(s) + 1
         /\ Append(s, e)[Len(s) + 1] = e
OBVIOUS

LEMMA TailFacts ==
  ASSUME NEW S, NEW s \in Seq(S), s # <<>>
  PROVE  /\ Head(s) \in S /\ Head(s) = s[1] /\ 1 \in DOMAIN s
         /\ Tail(s) \in Seq(S) /\ DOMAIN Tail(s) = 1 .. Len(s) - 1 /\ Len(s) \in Nat \ {0}
         /\ \A j \in DOMAIN Tail(s) : Tail(s)[j] = s[j + 1] /\ j + 1 \in DOMAIN s
         /\ \A j \in DOMAIN s : j # 1 => j - 1 \in DOMAIN Tail(s) /\ s[j] = Tail(s)[j - 1]
<1>1. Len(s) \in Nat \ {0} /\ DOMAIN s = 1 .. Len(s)
  OBVIOUS
<1>2. /\ Head(s) \in S /\ Head(s) = s[1] /\ Tail(s) \in Seq(S) /\ Len(Tail(s)) = Len(s) - 1
      /\ \A j \in 1 .. Len(s) - 1 : Tail(s)[j] = s[j + 1]
  BY HeadTailProperties, <1>1
<1>3. DOMAIN Tail(s) = 1 .. Len(s) - 1
  BY <1>2, <1>1
<1>4. \A j \in 1 .. Len(s) - 1 : j + 1 \in 1 .. Len(s)
  BY <1>1
<1>5. \A j \in 1 .. Len(s) : j # 1 => j - 1 \in 1 .. Len(s) - 1 /\ s[j] = Tail(s)[j - 1]
  BY <1>1, <1>2
<1>6. QED
  BY <1>1, <1>2, <1>3, <1>4, <1>5

LEMMA ConcatFacts ==
  ASSUME NEW S, NEW s \in Seq(S), NEW t \in Seq(S)
  PROVE  /\ s \o t \in Seq(S) /\ DOMAIN (s \o t) = 1 .. Len(s) + Len(t)
         /\ Len(s) \in Nat /\ Len(t) \in Nat /\ DOMAIN s = 1 .. Len(s) /\ DOMAIN t = 1 .. Len(t)
         /\ \A j \in DOMAIN s : (s \o t)[j] = s[j] /\ j \in DOMAIN (s \o t)
         /\ \A j \in DOMAIN t : (s \o t)[Len(s) + j] = t[j] /\ Len(s) + j \in DOMAIN (s \o t)
         /\ \A j \in DOMAIN (s \o t) : j \notin DOMAIN s =>
              j - Len(s) \in DOMAIN t /\ (s \o t)[j] = t[j - Len(s)]
<1>1. /\ Len(s) \in Nat /\ Len(t) \in Nat /\ DOMAIN s = 1 .. Len(s) /\ DOMAIN t = 1 .. Len(t)
  OBVIOUS
<1>2. /\ s \o t \in Seq(S) /\ Len(s \o t) = Len(s) + Len(t)
      /\ \A i \in 1 .. Len(s) + Len(t) : (s \o t)[i] = IF i <= Len(s) THEN s[i] ELSE t[i - Len(s)]
  BY ConcatProperties
<1>3. DOMAIN (s \o t) = 1 .. Len(s) + Len(t)
  BY <1>2, <1>1
<1>4. QED
  BY <1>1, <1>2, <1>3

LEMMA OneFacts ==
  ASSUME NEW S, NEW e \in S
  PROVE  /\ <<e>> \in Seq(S) /\ Len(<<e>>) = 1 /\ DOMAIN <<e>> = {1} /\ <<e>>[1] = e
         /\ <<>> \in Seq(S) /\ Len(<<>>) = 0 /\ DOMAIN <<>> = {} /\ <<e>> # <<>>
         /\ Append(<<>>, e) = <<e>>
OBVIOUS

LEMMA MessageFacts ==
  ASSUME NEW m \in Outgoing
  PROVE  /\ m.type \in {"StartConnection", "Data", "Close", "Poll"}
         /\ IsStart(m) => m.by \in Handlers /\ m = Start(m.by)
         /\ m.type = "Data" => m.id \in Ids /\ m.by \in Handlers /\ m.n \in 1 .. MaxReads
         /\ m.type = "Close" => m.id \in Ids /\ m = CloseOf(m.id)
BY DEF Outgoing, IsStart, Start, CloseOf

LEMMA ResponseFacts ==
  ASSUME NEW x \in Response
  PROVE  /\ x.kind \in {"Challenge", "Close", "Error", "Data"}
         /\ x.kind # "Error" => x.id \in Ids
         /\ x.kind = "Challenge" => x = Offer(x.id)
         /\ x.kind = "Data" => x.of \in Handlers /\ x.n \in 1 .. MaxChunks
BY DEF Response, Offer

LEMMA SentFacts ==
  /\ \A h \in Handlers : Start(h) \in Outgoing /\ IsStart(Start(h)) /\ Start(h).by = h
  /\ \A i \in Ids : CloseOf(i) \in Outgoing /\ CloseOf(i).type = "Close" /\ CloseOf(i).id = i
  /\ PollMessage \in Outgoing /\ PollMessage.type = "Poll"
BY DEF Start, IsStart, CloseOf, PollMessage, Outgoing

LEMMA AnswerFacts ==
  /\ \A i \in Ids : Offer(i) \in Response /\ Offer(i).kind = "Challenge" /\ Offer(i).id = i
  /\ \A i \in Ids : [kind |-> "Close", id |-> i] \in Response
  /\ [kind |-> "Error"] \in Response
  /\ \A i \in Ids, h \in Handlers, n \in 1 .. MaxChunks :
       [kind |-> "Data", id |-> i, of |-> h, n |-> n] \in Response
BY DEF Offer, Response

LEMMA RouteFacts ==
  /\ Ids \subseteq Nat \ {0} /\ 0 \in Routes /\ Ids \subseteq Routes /\ 0 \notin Ids
  /\ NoResponses \in [Routes -> Seq(Response)] /\ \A i \in Routes : NoResponses[i] = <<>>
  /\ NoHandler \notin Handlers
  /\ \A i \in Routes : i # 0 => i \in Ids
<1>1. MaxId \in Nat /\ NoHandler \notin Handlers
  BY ClientAssumption
<1>2. <<>> \in Seq(Response)
  OBVIOUS
<1>3. QED
  BY <1>1, <1>2 DEF Ids, Routes, NoResponses

\* The Closes of the clean-up task, in whatever order it finds the connections.
LEMMA ClosesFacts ==
  ASSUME NEW idle, idle \subseteq Ids
  PROVE  /\ ClosesOf(idle) \in Seq(Outgoing)
         /\ \A j \in DOMAIN ClosesOf(idle) : \E i \in idle : ClosesOf(idle)[j] = CloseOf(i)
         /\ \A i \in idle : In(ClosesOf(idle), CloseOf(i))
<1> DEFINE S == {CloseOf(i) : i \in idle}
           f == [i \in idle |-> CloseOf(i)]
           n == Cardinality(S)
<1>1. IsFiniteSet(idle)
  <2>1. MaxId \in Int /\ 1 \in Int
    BY ClientAssumption
  <2>2. IsFiniteSet(Ids)
    BY <2>1, FS_Interval DEF Ids
  <2>3. QED
    BY <2>2, FS_Subset
<1>2. IsFiniteSet(S)
  <2>1. f \in Surjection(idle, S)
    BY DEF Surjection
  <2>2. QED
    BY <2>1, <1>1, FS_Surjection
<1>3. n \in Nat /\ ExistsBijection(1 .. n, S)
  BY <1>2, FS_CardinalityType
<1>4. \E g \in [1 .. n -> S] : IsInjective(g)
  BY <1>3 DEF ExistsBijection, Bijection, Injection
<1>5. SetToSeq(S) \in [1 .. n -> S] /\ IsInjective(SetToSeq(S))
  BY <1>4 DEF SetToSeq
<1>6. SetToSeq(S) \in Surjection(1 .. n, S)
  <2>1. SetToSeq(S) \in Injection(1 .. n, S)
    BY <1>5 DEF Injection
  <2>2. 1 \in Int /\ n \in Int
    BY <1>3
  <2>3. Cardinality(1 .. n) = n
    BY <2>2, <1>3, FS_Interval
  <2>4. QED
    BY <2>1, <2>3, <1>2, FS_Injection
<1>7. S \subseteq Outgoing
  BY SentFacts
<1>8. SetToSeq(S) \in Seq(Outgoing) /\ DOMAIN SetToSeq(S) = 1 .. n
  <2>1. SetToSeq(S) \in [1 .. n -> Outgoing]
    BY <1>5, <1>7
  <2>2. QED
    BY <2>1, <1>3
<1>9. \A m \in S : \E j \in 1 .. n : SetToSeq(S)[j] = m
  BY <1>6 DEF Surjection
<1>10. QED
  BY <1>5, <1>8, <1>9 DEF ClosesOf, In

--------------------------------------------------------------------------------
(* Type correctness                                                             *)

LEMMA InboxHead ==
  ASSUME TypeOK, NEW h \in Handlers, inbox[h] # <<>>
  PROVE  Head(inbox[h]) \in Response /\ Tail(inbox[h]) \in Seq(Response)
<1>1. inbox[h] \in Seq(Response)
  BY DEF TypeOK
<1>2. QED
  BY <1>1, TailFacts

LEMMA NextFacts ==
  ASSUME TypeOK, channel # <<>>
  PROVE  Next1 \in Outgoing /\ Tail(channel) \in Seq(Outgoing)
<1>1. channel \in Seq(Outgoing)
  BY DEF TypeOK
<1>2. QED
  BY <1>1, TailFacts DEF Next1

LEMMA QueueType ==
  ASSUME TypeOK, NEW m \in Outgoing, Queue(m)
  PROVE  channel' \in Seq(Outgoing)
BY AppendFacts DEF TypeOK, Queue

LEMMA CallType ==
  ASSUME NEW b \in Seq(Outgoing), NEW h \in Handlers \union {NoHandler},
         NEW then \in {"recv", "drain", "last"}, Call(b, h, then)
  PROVE  /\ sender' \in [at : {"recv", "drain", "window", "last", "call", "hung"},
                         held : Handlers \union {NoHandler},
                         then : {"recv", "drain", "last"}]
         /\ batch' \in Seq(Outgoing) /\ served' \in 0 .. Len(batch')
         /\ response' \in [Routes -> Seq(Response)]
BY RouteFacts DEF Call

LEMMA ResumeType ==
  ASSUME TypeOK, NEW l \in {"recv", "drain", "window", "last"}, Resume(l)
  PROVE  /\ sender' \in [at : {"recv", "drain", "window", "last", "call", "hung"},
                         held : Handlers \union {NoHandler},
                         then : {"recv", "drain", "last"}]
         /\ batch' \in Seq(Outgoing) /\ served' \in 0 .. Len(batch')
         /\ response' \in [Routes -> Seq(Response)]
BY DEF TypeOK, Resume

LEMMA ReturnsType ==
  ASSUME TypeOK, Returns
  PROVE  /\ sender' \in [at : {"recv", "drain", "window", "last", "call", "hung"},
                         held : Handlers \union {NoHandler},
                         then : {"recv", "drain", "last"}]
         /\ batch' \in Seq(Outgoing) /\ served' \in 0 .. Len(batch')
         /\ response' \in [Routes -> Seq(Response)]
<1>1. sender.held \in Handlers \union {NoHandler} /\ sender.then \in {"recv", "drain", "last"}
  BY DEF TypeOK
<1>2. CASE sender.held # NoHandler
  <2>1. <<Start(sender.held)>> \in Seq(Outgoing)
    BY <1>1, <1>2, SentFacts, OneFacts
  <2>2. Call(<<Start(sender.held)>>, NoHandler, sender.then)
    BY <1>2 DEF Returns
  <2>3. QED
    BY <2>1, <2>2, <1>1, CallType
<1>3. CASE sender.held = NoHandler
  <2>1. /\ sender' = [at |-> sender.then, held |-> NoHandler, then |-> "recv"]
        /\ batch' = <<>> /\ served' = 0 /\ response' = NoResponses
    BY <1>3 DEF Returns
  <2>2. batch' \in Seq(Outgoing) /\ served' \in 0 .. Len(batch')
    BY <2>1
  <2>3. sender' \in [at : {"recv", "drain", "window", "last", "call", "hung"},
                     held : Handlers \union {NoHandler}, then : {"recv", "drain", "last"}]
    BY <2>1, <1>1
  <2>4. QED
    BY <2>1, <2>2, <2>3, RouteFacts
<1>4. QED
  BY <1>2, <1>3

LEMMA HandlerTypes ==
  ASSUME Base, NEW h \in Handlers, HandlerNext(h)
  PROVE  TypeOK'
<1>0. TypeOK /\ HandlerShape
  BY DEF Base
<1>1. CASE Connect(h)
  <2>1. channel' \in Seq(Outgoing)
    BY <1>0, <1>1, SentFacts, QueueType DEF Connect
  <2>2. QED
    BY <1>0, <1>1, <2>1 DEF TypeOK, Connect, Goto, Task, tableVars, senderVars, serverVars, lossVars
<1>2. CASE Challenged(h)
  <2>1. Head(inbox[h]) \in Response /\ Tail(inbox[h]) \in Seq(Response)
    BY <1>0, <1>2, InboxHead DEF Challenged, Heard
  <2>2. IdOffered(h) \in Ids
    BY <2>1, <1>2, ResponseFacts DEF Challenged, Heard, IdOffered
  <2>3. QED
    BY <1>0, <1>2, <2>1, <2>2
    DEF TypeOK, Challenged, Consume, Goto, Task, tableVars, senderVars, serverVars, lossVars
<1>3. CASE Refused(h)
  BY <1>0, <1>3 DEF TypeOK, Refused, Goto, Task, tableVars, senderVars, serverVars, lossVars
<1>4. CASE Register(h)
  <2>1. id[h] \in Ids
    BY <1>0, <1>4 DEF Register, At, HandlerShape, TypeOK
  <2>2. QED
    BY <1>0, <1>4 DEF TypeOK, Register, Goto, Task, senderVars, serverVars, lossVars
<1>5. CASE Replied(h)
  BY <1>0, <1>5 DEF TypeOK, Replied, Goto, Task, Relaying, tableVars, senderVars, serverVars, lossVars
<1>6. CASE ReplyFails(h)
  BY <1>0, <1>6 DEF TypeOK, ReplyFails, End, Goto, Task, tableVars, senderVars, serverVars, lossVars
<1>7. CASE Read(h)
  <2>0. id[h] \in Ids
    BY <1>0, <1>7 DEF Read, At, HandlerShape, TypeOK
  <2>6. reads[h] \in 0 .. MaxReads /\ reads[h] < MaxReads /\ MaxReads \in Nat
    BY <1>0, <1>7, ClientAssumption DEF Read, TypeOK
  <2>1. id[h] \in Ids /\ reads[h] + 1 \in 1 .. MaxReads
    BY <2>0, <2>6
  <2>2. Data(h) \in Outgoing
    BY <2>1 DEF Data, Outgoing
  <2>3. channel' \in Seq(Outgoing)
    BY <1>0, <1>7, <2>2, QueueType DEF Read
  <2>4. reads' \in [Handlers -> 0 .. MaxReads]
    BY <1>0, <1>7, <2>1, ClientAssumption DEF Read, TypeOK
  <2>5. QED
    BY <1>0, <1>7, <2>3, <2>4 DEF TypeOK, Read, Touch, senderVars, serverVars, lossVars
<1>8. CASE Eof(h)
  <2>1. id[h] \in Ids
    BY <1>0, <1>8 DEF Eof, At, HandlerShape, TypeOK
  <2>2. channel' \in Seq(Outgoing)
    BY <1>0, <1>8, <2>1, SentFacts, QueueType DEF Eof
  <2>3. QED
    BY <1>0, <1>8, <2>2 DEF TypeOK, Eof, Goto, Task, Relaying, tableVars, senderVars, serverVars, lossVars
<1>9. CASE Deliver(h)
  <2>1. Head(inbox[h]) \in Response /\ Tail(inbox[h]) \in Seq(Response)
    BY <1>0, <1>9, InboxHead DEF Deliver, Heard
  <2> DEFINE x == Head(inbox[h])
             c == [of |-> x.of, n |-> x.n]
  <2>2. c \in Chunk
    BY <2>1, <1>9, ResponseFacts, ClientAssumption DEF Deliver, Heard, Chunk
  <2>3. got[h] \in Seq(Chunk)
    BY <1>0 DEF TypeOK
  <2>4. Append(got[h], c) \in Seq(Chunk)
    BY <2>2, <2>3, AppendFacts
  <2>5. got' = [got EXCEPT ![h] = Append(got[h], c)]
    BY <1>9 DEF Deliver
  <2>6. got' \in [Handlers -> Seq(Chunk)]
    BY <1>0, <2>4, <2>5 DEF TypeOK
  <2>7. QED
    BY <1>0, <1>9, <2>1, <2>6 DEF TypeOK, Deliver, Consume, Touch, senderVars, serverVars, lossVars
<1>10. CASE DeliverFails(h)
  BY <1>0, <1>10 DEF TypeOK, DeliverFails, Touch, End, Goto, Task, senderVars, serverVars, lossVars
<1>11. CASE Closed(h)
  BY <1>0, <1>11 DEF TypeOK, Closed, Goto, Task, Relaying, tableVars, senderVars, serverVars, lossVars
<1>12. CASE Orphaned(h)
  BY <1>0, <1>12 DEF TypeOK, Orphaned, Goto, Task, Relaying, tableVars, senderVars, serverVars, lossVars
<1>13. CASE RemoveEntry(h)
  <2>1. id[h] \in Ids
    BY <1>0, <1>13 DEF RemoveEntry, At, HandlerShape, TypeOK
  <2>2. entries' \in [Ids -> Handlers \union {NoHandler}]
    BY <1>0, <1>13, <2>1 DEF RemoveEntry, TypeOK
  <2>3. inbox' \in [Handlers -> Seq(Response)]
    BY <1>0, <1>13 DEF RemoveEntry, End, TypeOK
  <2>4. QED
    BY <1>0, <1>13, <2>2, <2>3
    DEF TypeOK, RemoveEntry, End, Goto, Task, senderVars, serverVars, lossVars
<1>14. QED
  BY <1>1, <1>2, <1>3, <1>4, <1>5, <1>6, <1>7, <1>8, <1>9, <1>10, <1>11, <1>12, <1>13
  DEF HandlerNext, HandlerStep

LEMMA TaskTypes ==
  ASSUME Base, PollTick \/ Cleanup \/ \E i \in Ids : Elapse(i)
  PROVE  TypeOK'
<1>0. TypeOK
  BY DEF Base
<1>1. CASE PollTick
  <2>1. channel' \in Seq(Outgoing)
    BY <1>0, <1>1, SentFacts, QueueType DEF PollTick
  <2>2. QED
    BY <1>0, <1>1, <2>1 DEF TypeOK, PollTick, handlerVars, tableVars, senderVars, serverVars, lossVars
<1>2. CASE Cleanup
  <2> DEFINE idle == {i \in old : entries[i] # NoHandler}
  <2>1. idle \subseteq Ids
    BY <1>0 DEF TypeOK
  <2>2. ClosesOf(idle) \in Seq(Outgoing) /\ channel \in Seq(Outgoing)
    BY <1>0, <2>1, ClosesFacts DEF TypeOK
  <2>3. channel' \in Seq(Outgoing)
    BY <1>2, <2>2, ConcatFacts DEF Cleanup
  <2>4. QED
    BY <1>0, <1>2, <2>3 DEF TypeOK, Cleanup, handlerVars, senderVars, serverVars, lossVars
<1>3. CASE \E i \in Ids : Elapse(i)
  BY <1>0, <1>3 DEF TypeOK, Elapse, handlerVars, senderVars, serverVars, lossVars
<1>4. QED
  BY <1>1, <1>2, <1>3

LEMMA SenderTypes ==
  ASSUME Base, SenderStep
  PROVE  TypeOK'
<1>0. TypeOK /\ SenderShape
  BY DEF Base
<1>1. pending \in Seq(Outgoing) /\ channel \in Seq(Outgoing) /\ <<>> \in Seq(Outgoing)
  BY <1>0 DEF TypeOK
<1>2. /\ channel' \in Seq(Outgoing) /\ pending' \in Seq(Outgoing) /\ dropped' \subseteq Handlers
      /\ \/ \E l \in {"recv", "drain", "window", "last"} : Resume(l)
         \/ \E b \in Seq(Outgoing), h \in Handlers \union {NoHandler},
               then \in {"recv", "drain", "last"} : Call(b, h, then)
  <2>1. \A m \in Outgoing : Append(pending, m) \in Seq(Outgoing) /\ <<m>> \in Seq(Outgoing)
    BY <1>1, AppendFacts, OneFacts
  <2>2. ASSUME NEW m \in Outgoing, IsStart(m), NEW then \in {"recv", "drain", "last"},
               FlushAndStart(m.by, then)
        PROVE  /\ pending' = <<>>
               /\ \E b \in Seq(Outgoing), h \in Handlers \union {NoHandler} : Call(b, h, then)
    <3>1. m.by \in Handlers /\ <<Start(m.by)>> \in Seq(Outgoing)
      BY <2>1, <2>2, MessageFacts
    <3>2. QED
      BY <1>1, <2>2, <3>1 DEF FlushAndStart
  <2>3. ASSUME channel # <<>> PROVE Next1 \in Outgoing /\ Tail(channel) \in Seq(Outgoing)
    BY <1>0, <2>3, NextFacts
  <2>4. dropped \subseteq Handlers
    BY <1>0 DEF TypeOK
  <2>5. CASE SenderTakes
    <3>1. Next1 \in Outgoing /\ Tail(channel) \in Seq(Outgoing)
      BY <2>3, <2>5 DEF SenderTakes
    <3>2. channel' \in Seq(Outgoing) /\ dropped' \subseteq Handlers
      BY <3>1, <2>5, <2>4 DEF SenderTakes, TakeNext, lossVars
    <3>3. CASE IsStart(Next1)
      BY <3>1, <3>2, <3>3, <2>1, <2>5, <1>1 DEF SenderTakes
    <3>4. CASE ~IsStart(Next1)
      BY <3>1, <3>2, <3>4, <2>1, <2>5, <1>1 DEF SenderTakes
    <3>5. QED
      BY <3>3, <3>4
  <2>6. CASE SenderDrains
    <3>1. Next1 \in Outgoing /\ Tail(channel) \in Seq(Outgoing)
      BY <2>3, <2>6 DEF SenderDrains
    <3>2. channel' \in Seq(Outgoing) /\ dropped' \subseteq Handlers
      BY <3>1, <2>6, <2>4 DEF SenderDrains, TakeNext, lossVars
    <3>3. CASE IsStart(Next1)
      BY <3>1, <3>2, <3>3, <2>2, <2>6, <1>1 DEF SenderDrains
    <3>4. CASE ~IsStart(Next1)
      BY <3>1, <3>2, <3>4, <2>1, <2>6, <1>1 DEF SenderDrains, Batched
    <3>5. QED
      BY <3>3, <3>4
  <2>7. CASE SenderDrained
    BY <1>1, <2>4, <2>7 DEF SenderDrained, lossVars
  <2>8. CASE WindowMessage
    <3>1. Next1 \in Outgoing /\ Tail(channel) \in Seq(Outgoing)
      BY <2>3, <2>8 DEF WindowMessage
    <3>2. channel' \in Seq(Outgoing) /\ dropped' \subseteq Handlers
      BY <3>1, <2>8, <2>4 DEF WindowMessage, TakeNext, lossVars
    <3>3. CASE IsStart(Next1)
      BY <3>1, <3>2, <3>3, <2>2, <2>8, <1>1 DEF WindowMessage
    <3>4. CASE ~IsStart(Next1)
      BY <3>1, <3>2, <3>4, <2>1, <2>8, <1>1 DEF WindowMessage, Batched
    <3>5. QED
      BY <3>3, <3>4
  <2>9. CASE WindowOver
    BY <1>1, <2>4, <2>9 DEF WindowOver, lossVars
  <2>10. CASE LastDrains
    <3>1. Next1 \in Outgoing /\ Tail(channel) \in Seq(Outgoing)
      BY <2>3, <2>10 DEF LastDrains
    <3>2. QED
      BY <3>1, <2>1, <2>4, <2>10, <1>1 DEF LastDrains, TakeNext, Batched, lossVars
  <2>11. CASE LastFlush
    <3>1. channel' \in Seq(Outgoing) /\ dropped' \subseteq Handlers
      <4>1. CASE UNCHANGED <<channel, dropped>>
        BY <4>1, <1>1, <2>4
      <4>2. CASE channel # <<>> /\ IsStart(Next1) /\ TakeNext /\ dropped' = dropped \union {Next1.by}
        BY <4>2, <2>3, <2>4, MessageFacts DEF TakeNext
      <4>3. QED
        BY <4>1, <4>2, <2>11 DEF LastFlush
    <3>2. QED
      BY <3>1, <1>1, <2>11 DEF LastFlush
  <2>12. QED
    BY <2>5, <2>6, <2>7, <2>8, <2>9, <2>10, <2>11 DEF SenderStep
<1>3. /\ sender' \in [at : {"recv", "drain", "window", "last", "call", "hung"},
                      held : Handlers \union {NoHandler},
                      then : {"recv", "drain", "last"}]
      /\ batch' \in Seq(Outgoing) /\ served' \in 0 .. Len(batch')
      /\ response' \in [Routes -> Seq(Response)]
  BY <1>0, <1>2, CallType, ResumeType
<1>4. UNCHANGED <<senderRest, failed, missed, unrouted>>
  BY DEF SenderStep, SenderTakes, SenderDrains, SenderDrained, WindowMessage, WindowOver,
         LastDrains, LastFlush, lossVars
<1>5. QED
  BY <1>0, <1>2, <1>3, <1>4 DEF TypeOK, senderRest, handlerVars, tableVars

\* What is returned of one connection: a chunk of whoever has it open, if there
\* is more, and a Close, if it ends.
LEMMA RelayedFacts ==
  ASSUME TypeOK, NEW i \in Ids, IsOpen(i), NEW more \in BOOLEAN, NEW ends \in BOOLEAN,
         more => sent[i] < MaxChunks
  PROVE  LET R == Relayed(i, more, ends)
             d == [kind |-> "Data", id |-> i, of |-> open[i], n |-> sent[i] + 1]
             c == [kind |-> "Close", id |-> i]
         IN  /\ R \in Seq(Response)
             /\ \A j \in DOMAIN R : \/ more /\ R[j] = d /\ j = 1
                                    \/ ends /\ R[j] = c
             /\ more => In(R, d)
             /\ ends => In(R, c)
<1> DEFINE d == [kind |-> "Data", id |-> i, of |-> open[i], n |-> sent[i] + 1]
           c == [kind |-> "Close", id |-> i]
           M == IF more THEN <<d>> ELSE <<>>
           E == IF ends THEN <<c>> ELSE <<>>
<1>1. open[i] \in Handlers /\ sent[i] \in 0 .. MaxChunks /\ MaxChunks \in Nat
  BY ClientAssumption DEF TypeOK, IsOpen
<1>2. c \in Response /\ (more => d \in Response)
  <2>1. more => sent[i] + 1 \in 1 .. MaxChunks
    BY <1>1
  <2>2. QED
    BY <2>1, <1>1, AnswerFacts
<1>3. /\ M \in Seq(Response) /\ E \in Seq(Response)
      /\ more => M = <<d>> /\ Len(M) = 1 /\ DOMAIN M = {1} /\ M[1] = d
      /\ ~more => M = <<>> /\ Len(M) = 0 /\ DOMAIN M = {}
      /\ ends => E = <<c>> /\ DOMAIN E = {1} /\ E[1] = c
      /\ ~ends => E = <<>> /\ DOMAIN E = {}
  <2>1. <<>> \in Seq(Response) /\ <<c>> \in Seq(Response) /\ DOMAIN <<c>> = {1} /\ <<c>>[1] = c
    BY <1>2, OneFacts
  <2>2. more => <<d>> \in Seq(Response) /\ Len(<<d>>) = 1 /\ DOMAIN <<d>> = {1} /\ <<d>>[1] = d
    BY <1>2, OneFacts
  <2>3. QED
    BY <2>1, <2>2
<1> HIDE DEF d, c, M, E
<1>4. Relayed(i, more, ends) = M \o E
  BY DEF Relayed, M, E, d, c
<1>5. /\ M \o E \in Seq(Response)
      /\ \A j \in DOMAIN M : (M \o E)[j] = M[j] /\ j \in DOMAIN (M \o E)
      /\ \A j \in DOMAIN E : (M \o E)[Len(M) + j] = E[j] /\ Len(M) + j \in DOMAIN (M \o E)
      /\ \A j \in DOMAIN (M \o E) : j \notin DOMAIN M =>
           j - Len(M) \in DOMAIN E /\ (M \o E)[j] = E[j - Len(M)]
  BY <1>3, ConcatFacts
<1>6. \A j \in DOMAIN (M \o E) : \/ more /\ (M \o E)[j] = d /\ j = 1
                                 \/ ends /\ (M \o E)[j] = c
  BY <1>3, <1>5
<1>7. (more => In(M \o E, d)) /\ (ends => In(M \o E, c))
  BY <1>3, <1>5 DEF In
<1>8. QED
  BY <1>4, <1>5, <1>6, <1>7 DEF d, c

\* What the visit of these connections, with data for some and the end of some,
\* leaves behind.
Visited(visited, more, ends) ==
  /\ \A i \in more : sent[i] < MaxChunks
  /\ sent' \in [Ids -> 0 .. MaxChunks] /\ open' \in [Ids -> Handlers \union {NoHandler}]
  /\ \A i \in Ids : /\ sent'[i] = IF i \in more THEN sent[i] + 1 ELSE sent[i]
                    /\ open'[i] = IF i \in ends THEN NoHandler ELSE open[i]
  /\ response' \in [Routes -> Seq(Response)] /\ response'[0] = response[0]
  /\ \A i \in visited : \E m, e \in BOOLEAN :
       /\ (m <=> i \in more) /\ (e <=> i \in ends)
       /\ response'[i] = response[i] \o Relayed(i, m, e)
  /\ \A i \in Ids \ visited : response'[i] = response[i]

LEMMA VisitFacts ==
  ASSUME TypeOK, NEW visited \in SUBSET Ids, \A i \in visited : IsOpen(i),
         NEW more \in SUBSET visited, NEW ends \in SUBSET visited, Visit(visited, more, ends)
  PROVE  Visited(visited, more, ends)
<1>1. MaxChunks \in Nat /\ sent \in [Ids -> 0 .. MaxChunks] /\ response \in [Routes -> Seq(Response)]
  BY ClientAssumption DEF TypeOK
<1>2. \A i \in more : sent[i] < MaxChunks
  BY DEF Visit
<1>3. ASSUME NEW i \in visited
      PROVE  Relayed(i, i \in more, i \in ends) \in Seq(Response)
  <2>1. i \in Ids /\ IsOpen(i) /\ (i \in more) \in BOOLEAN /\ (i \in ends) \in BOOLEAN
    OBVIOUS
  <2>2. (i \in more) => sent[i] < MaxChunks
    BY <1>2
  <2> DEFINE m == i \in more
             e == i \in ends
  <2>3. m \in BOOLEAN /\ e \in BOOLEAN /\ (m => sent[i] < MaxChunks)
    BY <2>2
  <2> HIDE DEF m, e
  <2>4. Relayed(i, m, e) \in Seq(Response)
    BY <2>1, <2>3, RelayedFacts
  <2>5. QED
    BY <2>4 DEF m, e
<1>4. \A i \in Routes : response[i] \o <<>> = response[i]
  BY <1>1, ConcatEmptySeq
<1>5. \A i \in visited : response[i] \o Relayed(i, i \in more, i \in ends) \in Seq(Response)
  BY <1>1, <1>3, ConcatFacts, RouteFacts
<1>6. /\ \A i \in Routes : i \notin visited => response'[i] = response[i]
      /\ \A i \in visited : response'[i] = response[i] \o Relayed(i, i \in more, i \in ends)
      /\ DOMAIN response' = Routes /\ response' = [i \in Routes |-> response'[i]]
  BY <1>4, RouteFacts DEF Visit
<1>7. response' \in [Routes -> Seq(Response)]
  <2>1. \A i \in Routes : response'[i] \in Seq(Response)
    BY <1>1, <1>5, <1>6
  <2>2. QED
    BY <2>1, <1>6
<1>8. sent' = [i \in Ids |-> IF i \in more THEN sent[i] + 1 ELSE sent[i]]
  BY DEF Visit
<1>9. sent' \in [Ids -> 0 .. MaxChunks]
  <2>1. \A i \in Ids : (IF i \in more THEN sent[i] + 1 ELSE sent[i]) \in 0 .. MaxChunks
    BY <1>1, <1>2
  <2>2. QED
    BY <2>1, <1>8
<1>10. /\ open' \in [Ids -> Handlers \union {NoHandler}]
       /\ \A i \in Ids : open'[i] = IF i \in ends THEN NoHandler ELSE open[i]
  BY DEF Visit, TypeOK
<1>11. ASSUME NEW i \in visited
       PROVE  \E m, e \in BOOLEAN :
                /\ (m <=> i \in more) /\ (e <=> i \in ends)
                /\ response'[i] = response[i] \o Relayed(i, m, e)
  <2> DEFINE m == i \in more
             e == i \in ends
  <2>1. response'[i] = response[i] \o Relayed(i, m, e)
    BY <1>6
  <2>2. m \in BOOLEAN /\ e \in BOOLEAN /\ (m <=> i \in more) /\ (e <=> i \in ends)
    OBVIOUS
  <2> HIDE DEF m, e
  <2>3. QED
    BY <2>1, <2>2
<1>12. \A i \in Ids \ visited : response'[i] = response[i]
  BY <1>6, RouteFacts
<1>13. response'[0] = response[0]
  BY <1>6, RouteFacts
<1>14. \A i \in Ids : sent'[i] = IF i \in more THEN sent[i] + 1 ELSE sent[i]
  BY <1>8
<1>15. QED
  BY <1>2, <1>7, <1>9, <1>10, <1>11, <1>12, <1>13, <1>14 DEF Visited

LEMMA AnswerType ==
  ASSUME TypeOK, NEW i \in Routes, NEW x \in Response, Answer(i, <<x>>)
  PROVE  /\ response' \in [Routes -> Seq(Response)]
         /\ response'[i] = Append(response[i], x)
         /\ \A j \in Routes \ {i} : response'[j] = response[j]
<1>1. response \in [Routes -> Seq(Response)] /\ response[i] \in Seq(Response) /\ <<x>> \in Seq(Response)
  BY OneFacts DEF TypeOK
<1>2. response[i] \o <<x>> = Append(response[i], x) /\ Append(response[i], x) \in Seq(Response)
  BY <1>1
<1>3. response' = [response EXCEPT ![i] = Append(response[i], x)]
  BY <1>2 DEF Answer
<1>4. QED
  BY <1>1, <1>2, <1>3

\* The message that is processed.
LEMMA MessageInBatch ==
  ASSUME TypeOK, InCall, served < Len(batch)
  PROVE  /\ Message \in Outgoing /\ served + 1 \in 1 .. Len(batch) /\ served + 1 \in DOMAIN batch
         /\ served \in Nat /\ Len(batch) \in Nat /\ DOMAIN batch = 1 .. Len(batch)
<1>1. batch \in Seq(Outgoing) /\ served \in 0 .. Len(batch)
  BY DEF TypeOK
<1>2. Len(batch) \in Nat /\ DOMAIN batch = 1 .. Len(batch)
  BY <1>1
<1>3. served + 1 \in 1 .. Len(batch)
  BY <1>1, <1>2
<1>4. QED
  BY <1>1, <1>2, <1>3 DEF Message

LEMMA ServeTypes ==
  ASSUME Base, ServeStart \/ ServeData \/ ServeClose \/ ServePoll
  PROVE  TypeOK'
<1>0. TypeOK
  BY DEF Base
<1>1. InCall /\ served < Len(batch)
  BY DEF ServeStart, ServeData, ServeClose, ServePoll, Processing
<1>2. /\ Message \in Outgoing /\ served' = served + 1 /\ served + 1 \in 0 .. Len(batch)
      /\ UNCHANGED serveRest
  BY <1>0, <1>1, MessageInBatch DEF ServeStart, ServeData, ServeClose, ServePoll, serveRest, senderVars
<1>3. /\ response' \in [Routes -> Seq(Response)] /\ open' \in [Ids -> Handlers \union {NoHandler}]
      /\ nextId' \in 1 .. MaxId + 1 /\ sent' \in [Ids -> 0 .. MaxChunks]
      /\ arrived' \in [Handlers -> Seq(Chunk)]
  <2>0. /\ response \in [Routes -> Seq(Response)] /\ open \in [Ids -> Handlers \union {NoHandler}]
        /\ nextId \in 1 .. MaxId + 1 /\ sent \in [Ids -> 0 .. MaxChunks]
        /\ arrived \in [Handlers -> Seq(Chunk)]
    BY <1>0 DEF TypeOK
  <2>1. CASE ServeStart
    <3>1. UNCHANGED <<sent, arrived>> /\ Message.by \in Handlers
      BY <2>1, <1>2, MessageFacts DEF ServeStart, Processing, Message, IsStart
    <3>2. CASE /\ nextId <= MaxId /\ open' = [open EXCEPT ![NewId] = Message.by]
               /\ nextId' = nextId + 1 /\ Answer(0, <<[kind |-> "Challenge", id |-> NewId]>>)
      <4>1. NewId \in Ids /\ nextId' \in 1 .. MaxId + 1
        BY <3>2, <2>0, ClientAssumption DEF NewId, Ids
      <4>2. [kind |-> "Challenge", id |-> NewId] \in Response
        BY <4>1, AnswerFacts DEF Offer
      <4>3. QED
        BY <1>0, <2>0, <3>1, <3>2, <4>1, <4>2, AnswerType, RouteFacts
    <3>3. CASE Answer(0, <<[kind |-> "Error"]>>) /\ UNCHANGED <<open, nextId>>
      BY <1>0, <2>0, <3>1, <3>3, AnswerType, AnswerFacts, RouteFacts
    <3>4. QED
      BY <2>1, <3>2, <3>3 DEF ServeStart
  <2>2. CASE ServeData
    <3>1. Message.id \in Ids /\ Message.by \in Handlers /\ Message.n \in 1 .. MaxReads /\ nextId' = nextId
      BY <2>2, <1>2, MessageFacts DEF ServeData, Processing, Message
    <3>2. CASE IsOpen(Message.id)
      <4>1. PICK more \in SUBSET {Message.id}, ends \in SUBSET {Message.id} :
              Visit({Message.id}, more, ends)
        BY <2>2, <3>2 DEF ServeData
      <4>2. /\ response' \in [Routes -> Seq(Response)] /\ open' \in [Ids -> Handlers \union {NoHandler}]
            /\ sent' \in [Ids -> 0 .. MaxChunks]
        BY <1>0, <3>1, <3>2, <4>1, VisitFacts DEF Visited
      <4>3. open[Message.id] \in Handlers
        BY <2>0, <3>1, <3>2 DEF IsOpen
      <4>4. [of |-> Message.by, n |-> Message.n] \in Chunk
        BY <3>1, ClientAssumption DEF Chunk
      <4>5. Append(arrived[open[Message.id]], [of |-> Message.by, n |-> Message.n]) \in Seq(Chunk)
        BY <4>3, <4>4, <2>0, AppendFacts
      <4>6. arrived' \in [Handlers -> Seq(Chunk)]
        BY <2>0, <2>2, <3>2, <4>5 DEF ServeData
      <4>7. QED
        BY <4>2, <4>6, <3>1, <2>0
    <3>3. CASE ~IsOpen(Message.id)
      BY <2>0, <2>2, <3>1, <3>3 DEF ServeData
    <3>4. QED
      BY <3>2, <3>3
  <2>3. CASE ServeClose
    <3>1. Message.id \in Ids /\ UNCHANGED <<nextId, sent, arrived>>
      BY <2>3, <1>2, MessageFacts DEF ServeClose, Processing, Message
    <3>2. CASE IsOpen(Message.id)
      <4>1. response' \in [Routes -> Seq(Response)]
        BY <1>0, <2>3, <3>1, <3>2, AnswerType, AnswerFacts, RouteFacts DEF ServeClose
      <4>2. QED
        BY <2>0, <2>3, <3>1, <3>2, <4>1 DEF ServeClose
    <3>3. CASE ~IsOpen(Message.id)
      BY <2>0, <2>3, <3>1, <3>3 DEF ServeClose
    <3>4. QED
      BY <3>2, <3>3
  <2>4. CASE ServePoll
    <3> DEFINE opened == {i \in Ids : IsOpen(i)}
    <3>1. PICK more \in SUBSET opened, ends \in SUBSET opened : Visit(opened, more, ends)
      BY <2>4 DEF ServePoll
    <3>2. opened \in SUBSET Ids /\ \A i \in opened : IsOpen(i)
      OBVIOUS
    <3>3. /\ response' \in [Routes -> Seq(Response)] /\ open' \in [Ids -> Handlers \union {NoHandler}]
          /\ sent' \in [Ids -> 0 .. MaxChunks]
      BY <1>0, <3>1, <3>2, VisitFacts DEF Visited
    <3>4. QED
      BY <2>0, <2>4, <3>3 DEF ServePoll
  <2>5. QED
    BY <2>1, <2>2, <2>3, <2>4
<1>4. QED
  BY <1>0, <1>2, <1>3 DEF TypeOK, serveRest, handlerVars, tableVars, senderVars, lossVars

\* A handler is the recipient of at most one sequence of responses, and gets the
\* whole of it.
LEMMA RoutedFacts ==
  ASSUME Base, NEW h \in Handlers
  PROVE  /\ Routed(h) \in Seq(Response)
         /\ Routed(h) # <<>> => \E i \in Routes : Recipient(i) = h /\ Routed(h) = response[i]
         /\ \A i \in Routes : Recipient(i) = h /\ response[i] # <<>> => Routed(h) = response[i]
<1> DEFINE mine == {i \in Routes : response[i] # <<>> /\ Recipient(i) = h}
           k == CHOOSE i \in mine : TRUE
<1>0. TypeOK /\ EntryShape /\ ResponseShape
  BY DEF Base
<1>1. response \in [Routes -> Seq(Response)] /\ batch \in Seq(Outgoing) /\ served \in 0 .. Len(batch)
  BY <1>0 DEF TypeOK
<1>2. ASSUME response[0] # <<>>
      PROVE  \A i \in Ids : response[i] = <<>>
  <2>1. served # 0
    BY <1>0, <1>2, RouteFacts DEF ResponseShape
  <2>2. batch # <<>>
    BY <2>1, <1>1
  <2>3. IsStart(batch[1])
    BY <2>2, <1>2, <1>0 DEF ResponseShape
  <2>4. QED
    BY <2>2, <2>3, <1>0 DEF ResponseShape
<1>3. \A i, j \in mine : i = j
  <2>1. ASSUME NEW i \in mine, NEW j \in mine, i # j
        PROVE  FALSE
    <3>1. i \in Ids /\ j \in Ids
      BY <2>1, <1>2, RouteFacts
    <3>2. entries[i] = h /\ entries[j] = h
      BY <3>1, RouteFacts DEF Recipient
    <3>3. QED
      BY <3>1, <3>2, <2>1, <1>0 DEF EntryShape
  <2>2. QED
    BY <2>1
<1>4. Routed(h) = IF mine = {} THEN <<>> ELSE response[k]
  BY DEF Routed, ResponsesFor
<1>5. mine # {} => k \in mine
  OBVIOUS
<1>6. <<>> \in Seq(Response)
  OBVIOUS
<1> HIDE DEF k
<1>7. QED
  BY <1>1, <1>3, <1>4, <1>5, <1>6

LEMMA CallTypes ==
  ASSUME Base, LoseRequest \/ Route \/ LoseResponse \/ Hang \/ Restart
  PROVE  TypeOK'
<1>0. TypeOK
  BY DEF Base
<1>1. \A h \in Handlers : ChunksFor(h) \subseteq Nat
  <2>1. ASSUME NEW h \in Handlers, NEW i \in Ids, NEW y \in Range(response[i]), y.kind = "Data"
        PROVE  y.n \in Nat
    <3>1. response[i] \in Seq(Response)
      BY <1>0, RouteFacts DEF TypeOK
    <3>2. y \in Response
      BY <2>1, <3>1, ElementOfSeq DEF Range
    <3>3. QED
      BY <2>1, <3>2, ResponseFacts, ClientAssumption
  <2>2. QED
    BY <2>1 DEF ChunksFor
<1>2. CASE LoseRequest
  <2>1. Range(batch) \subseteq Outgoing
    BY <1>0, ElementOfSeq DEF TypeOK, Range
  <2>2. Returns
    BY <1>2 DEF LoseRequest
  <2>3. QED
    BY <1>0, <1>2, <2>1, <2>2, ReturnsType DEF TypeOK, LoseRequest, handlerVars, tableVars
<1>3. CASE Route
  <2>1. \A h \in Handlers : inbox[h] \in Seq(Response) /\ Routed(h) \in Seq(Response) /\ <<>> \in Seq(Response)
    BY <1>0, RoutedFacts DEF TypeOK
  <2>2. \A h \in Handlers : inbox[h] \o Routed(h) \in Seq(Response)
    BY <2>1, ConcatFacts
  <2>3. inbox' \in [Handlers -> Seq(Response)]
    BY <1>3, <2>1, <2>2 DEF Route
  <2>4. unrouted' \in [Handlers -> SUBSET Nat]
    <3>1. \A h \in Handlers : unrouted[h] \in SUBSET Nat
      BY <1>0 DEF TypeOK
    <3>2. QED
      BY <3>1, <1>1, <1>3 DEF Route
  <2>5. Returns
    BY <1>3 DEF Route
  <2>6. QED
    BY <1>0, <1>3, <2>3, <2>4, <2>5, ReturnsType DEF TypeOK, Route, tableVars
<1>4. CASE LoseResponse
  <2>1. missed' \in [Handlers -> SUBSET Nat]
    <3>1. \A h \in Handlers : missed[h] \in SUBSET Nat
      BY <1>0 DEF TypeOK
    <3>2. QED
      BY <3>1, <1>1, <1>4 DEF LoseResponse
  <2>2. Returns
    BY <1>4 DEF LoseResponse
  <2>3. QED
    BY <1>0, <1>4, <2>1, <2>2, ReturnsType DEF TypeOK, LoseResponse, handlerVars, tableVars
<1>5. CASE Hang
  BY <1>0, <1>5 DEF TypeOK, Hang, handlerVars, tableVars, serverVars, lossVars
<1>6. CASE Restart
  <2>1. open' \in [Ids -> Handlers \union {NoHandler}] /\ nextId' \in 1 .. MaxId + 1 /\ sent' \in [Ids -> 0 .. MaxChunks]
    BY <1>6, ClientAssumption DEF Restart
  <2>2. QED
    BY <1>0, <1>6, <2>1 DEF TypeOK, Restart, handlerVars, tableVars, senderVars, lossVars
<1>7. QED
  BY <1>2, <1>3, <1>4, <1>5, <1>6

LEMMA TypesKept ==
  ASSUME Base, [Next]_vars
  PROVE  TypeOK'
<1>1. CASE Next
  BY <1>1, HandlerTypes, TaskTypes, SenderTypes, ServeTypes, CallTypes DEF Next, CallStep
<1>2. CASE UNCHANGED vars
  BY <1>2 DEF Base, TypeOK, vars, handlerVars, tableVars, senderVars, serverVars, lossVars
<1>3. QED
  BY <1>1, <1>2

--------------------------------------------------------------------------------
(* What the steps of the sender and of a call do, whatever the action           *)

\* The sender does nothing to messages, at most moves on.
Still == UNCHANGED <<channel, pending, batch, served, response, sender.held>>

\* One message goes from the channel to the batch being made.
Taken ==
  /\ channel # <<>> /\ ~IsStart(Next1)
  /\ channel' = Tail(channel) /\ pending' = Append(pending, Next1)
  /\ UNCHANGED <<batch, served, response, sender.held>>

\* The StartConnection of h ends the batch: it is sent after it, or at once.
Flushed(h) ==
  /\ channel # <<>> /\ Next1 = Start(h)
  /\ channel' = Tail(channel) /\ pending' = <<>>
  /\ served' = 0 /\ response' = NoResponses
  /\ \/ pending = <<>> /\ batch' = <<Start(h)>> /\ sender'.held = NoHandler
     \/ pending # <<>> /\ batch' = pending /\ sender'.held = h

\* The batch is sent; a StartConnection behind it is dropped.
FlushedLast ==
  /\ \/ channel' = channel /\ dropped' = dropped
     \/ /\ channel # <<>> /\ IsStart(Next1)
        /\ channel' = Tail(channel) /\ dropped' = dropped \union {Next1.by}
  /\ batch' = pending /\ pending' = <<>>
  /\ served' = 0 /\ response' = NoResponses /\ sender'.held = NoHandler

\* Nothing is in flight when the sender takes a message.
Idle == batch = <<>> /\ sender.held = NoHandler /\ served = 0 /\ response = NoResponses

LEMMA IdleSender ==
  ASSUME Base, sender.at \notin {"call", "hung"}
  PROVE  Idle
<1>1. batch = <<>> /\ (sender.held # NoHandler => batch # <<>>)
  BY DEF Base, SenderShape
<1>2. served = 0
  BY <1>1 DEF Base, TypeOK
<1>3. QED
  BY <1>1, <1>2 DEF Base, ResponseShape, Idle

LEMMA SenderSteps ==
  ASSUME Base, SenderStep
  PROVE  /\ UNCHANGED <<senderRest, failed, missed, unrouted>> /\ Idle
         /\ \/ /\ Still /\ UNCHANGED dropped /\ sender'.at \in {"recv", "drain", "window", "last"}
               /\ sender'.at = "recv" => pending = <<>>
            \/ Taken /\ UNCHANGED dropped /\ sender'.at \in {"drain", "last"}
            \/ UNCHANGED dropped /\ sender'.at = "call" /\ \E h \in Handlers : Flushed(h)
            \/ FlushedLast /\ sender'.at = IF pending = <<>> THEN "recv" ELSE "call"
<1>0. TypeOK /\ SenderShape
  BY DEF Base
<1>1. sender.at \notin {"call", "hung"}
  BY DEF SenderStep, SenderTakes, SenderDrains, SenderDrained, WindowMessage, WindowOver, LastDrains,
         LastFlush, SenderAt
<1>2. Idle
  BY <1>1, IdleSender
<1>3. UNCHANGED <<senderRest, failed, missed, unrouted>>
  BY DEF SenderStep, SenderTakes, SenderDrains, SenderDrained, WindowMessage, WindowOver,
         LastDrains, LastFlush, lossVars
<1>4. ASSUME channel # <<>>, IsStart(Next1), TakeNext, UNCHANGED lossVars,
             NEW then \in {"recv", "drain", "last"}, FlushAndStart(Next1.by, then)
      PROVE  UNCHANGED dropped /\ sender'.at = "call" /\ \E h \in Handlers : Flushed(h)
  <2>1. Next1.by \in Handlers /\ Next1 = Start(Next1.by)
    BY <1>0, <1>4, NextFacts, MessageFacts
  <2>2. Flushed(Next1.by) /\ sender'.at = "call"
    BY <1>4, <2>1 DEF Flushed, FlushAndStart, Call, TakeNext
  <2>3. QED
    BY <1>4, <2>1, <2>2 DEF lossVars
<1>5. ASSUME channel # <<>>, ~IsStart(Next1), TakeNext, UNCHANGED lossVars,
             NEW l \in {"drain", "last"}, Resume(l), pending' = Batched(Next1)
      PROVE  Taken /\ UNCHANGED dropped /\ sender'.at \in {"drain", "last"}
  <2>1. sender'.held = NoHandler /\ sender'.at = l
    BY <1>5 DEF Resume
  <2>2. QED
    BY <1>2, <1>5, <2>1 DEF Taken, TakeNext, Batched, lossVars, Idle, Resume
<1>6. CASE SenderTakes
  <2>1. pending = <<>> /\ channel # <<>> /\ TakeNext /\ UNCHANGED lossVars
    BY <1>0, <1>6 DEF SenderTakes, SenderAt, SenderShape
  <2>2. Next1 \in Outgoing
    BY <1>0, <2>1, NextFacts
  <2>3. CASE IsStart(Next1)
    <3>1. Next1.by \in Handlers /\ Next1 = Start(Next1.by)
      BY <2>2, <2>3, MessageFacts
    <3>2. Call(<<Next1>>, NoHandler, "recv") /\ pending' = pending
      BY <1>6, <2>3 DEF SenderTakes
    <3>3. Flushed(Next1.by) /\ sender'.at = "call"
      BY <2>1, <3>1, <3>2 DEF Flushed, Call, TakeNext
    <3>4. QED
      BY <1>2, <1>3, <2>1, <3>1, <3>3 DEF lossVars
  <2>4. CASE ~IsStart(Next1)
    <3>1. pending' = Batched(Next1) /\ Resume("drain")
      BY <1>6, <2>1, <2>2, <2>4, OneFacts DEF SenderTakes, Batched
    <3>2. QED
      BY <1>2, <1>3, <1>5, <2>1, <2>4, <3>1
  <2>5. QED
    BY <2>3, <2>4
<1>7. CASE SenderDrains
  BY <1>2, <1>3, <1>4, <1>5, <1>7 DEF SenderDrains
<1>8. CASE SenderDrained
  <2>1. PICK l \in {"recv", "window"} : Resume(l) /\ (l = "recv" => pending = <<>>)
    BY <1>8 DEF SenderDrained
  <2>2. QED
    BY <1>2, <1>3, <1>8, <2>1 DEF SenderDrained, Resume, Still, Idle, lossVars
<1>9. CASE WindowMessage
  BY <1>2, <1>3, <1>4, <1>5, <1>9 DEF WindowMessage
<1>10. CASE WindowOver
  BY <1>2, <1>3, <1>10 DEF WindowOver, Resume, Still, Idle, lossVars
<1>11. CASE LastDrains
  BY <1>2, <1>3, <1>5, <1>11 DEF LastDrains
<1>12. CASE LastFlush
  <2>1. /\ \/ channel' = channel /\ dropped' = dropped
           \/ /\ channel # <<>> /\ IsStart(Next1)
              /\ channel' = Tail(channel) /\ dropped' = dropped \union {Next1.by}
        /\ pending' = <<>>
    BY <1>12 DEF LastFlush, TakeNext
  <2>2. CASE pending = <<>>
    <3>1. Resume("recv")
      BY <1>12, <2>2 DEF LastFlush
    <3>2. QED
      BY <1>2, <1>3, <2>1, <2>2, <3>1 DEF FlushedLast, Resume, Idle
  <2>3. CASE pending # <<>>
    <3>1. Call(pending, NoHandler, "recv")
      BY <1>12, <2>3 DEF LastFlush
    <3>2. QED
      BY <1>2, <1>3, <2>1, <2>3, <3>1 DEF FlushedLast, Call
  <2>4. QED
    BY <2>2, <2>3
<1>13. QED
  BY <1>6, <1>7, <1>8, <1>9, <1>10, <1>11, <1>12 DEF SenderStep

\* The sender comes back from a call, to make that of the held StartConnection.
Back ==
  /\ batch # <<>> /\ pending = <<>>
  /\ UNCHANGED <<channel, pending>>
  /\ served' = 0 /\ response' = NoResponses /\ sender'.held = NoHandler
  /\ \/ sender.held # NoHandler /\ batch' = <<Start(sender.held)>>
     \/ sender.held = NoHandler /\ batch' = <<>>

LEMMA BackFacts ==
  ASSUME Base, LoseRequest \/ Route \/ LoseResponse
  PROVE  /\ Back /\ UNCHANGED <<task, id, reads, tableVars, open, nextId, sent, arrived, got, dropped>>
         /\ sender'.at = IF sender.held # NoHandler THEN "call" ELSE sender.then
         /\ sender.then \in {"recv", "drain", "last"}
<1>0. TypeOK /\ SenderShape
  BY DEF Base
<1>1. Returns /\ InCall /\ UNCHANGED <<channel, pending>>
  BY DEF LoseRequest, Route, LoseResponse, Answered
<1>2. batch # <<>> /\ pending = <<>>
  BY <1>0, <1>1 DEF InCall, SenderAt, SenderShape
<1>3. Back /\ sender'.at = IF sender.held # NoHandler THEN "call" ELSE sender.then
  BY <1>1, <1>2 DEF Back, Returns, Call
<1>4. UNCHANGED <<task, id, reads, tableVars, open, nextId, sent, arrived, got, dropped>>
  BY DEF LoseRequest, Route, LoseResponse, handlerVars
<1>5. QED
  BY <1>0, <1>3, <1>4 DEF TypeOK

\* The next message of the batch has been served.
Served ==
  /\ served < Len(batch) /\ served' = served + 1
  /\ UNCHANGED <<channel, pending, batch, sender>>

\* Connection i answers a message: with a chunk if there is more, with a Close
\* if it ends.
Answers(i, more, ends) ==
  /\ more \/ ends => IsOpen(i)
  /\ more => sent[i] < MaxChunks
  /\ sent'[i] = (IF more THEN sent[i] + 1 ELSE sent[i])
  /\ open'[i] = (IF ends THEN NoHandler ELSE open[i])
  /\ response'[i] \in Seq(Response)
  /\ \A j \in DOMAIN response[i] : j \in DOMAIN response'[i] /\ response'[i][j] = response[i][j]
  /\ \A j \in DOMAIN response'[i] : j \notin DOMAIN response[i] =>
       /\ \A k \in DOMAIN response[i] : k < j
       /\ \/ /\ more /\ j = Len(response[i]) + 1
             /\ response'[i][j] = [kind |-> "Data", id |-> i, of |-> open[i], n |-> sent[i] + 1]
          \/ ends /\ response'[i][j] = [kind |-> "Close", id |-> i]
  /\ more => In(response'[i], [kind |-> "Data", id |-> i, of |-> open[i], n |-> sent[i] + 1])

LEMMA QuietAnswer ==
  ASSUME TypeOK, NEW i \in Ids,
         sent'[i] = sent[i], open'[i] = open[i], response'[i] = response[i]
  PROVE  Answers(i, FALSE, FALSE)
<1>1. response[i] \in Seq(Response)
  BY RouteFacts DEF TypeOK
<1>2. QED
  BY <1>1 DEF Answers

LEMMA CloseAnswer ==
  ASSUME TypeOK, NEW i \in Ids, IsOpen(i), sent'[i] = sent[i], open'[i] = NoHandler,
         response'[i] = Append(response[i], [kind |-> "Close", id |-> i])
  PROVE  Answers(i, FALSE, TRUE)
<1>1. response[i] \in Seq(Response) /\ [kind |-> "Close", id |-> i] \in Response
  BY RouteFacts, AnswerFacts DEF TypeOK
<1> DEFINE s == response[i]
           c == [kind |-> "Close", id |-> i]
           t == Append(s, c)
<1>2. /\ t \in Seq(Response) /\ DOMAIN t = DOMAIN s \union {Len(s) + 1}
      /\ \A j \in DOMAIN s : t[j] = s[j] /\ j < Len(s) + 1
      /\ t[Len(s) + 1] = c
  BY <1>1, AppendFacts
<1> HIDE DEF s, c, t
<1>3. response'[i] = t /\ response[i] = s
  BY DEF s, c, t
<1>4. QED
  BY <1>2, <1>3 DEF Answers, c

LEMMA VisitAnswer ==
  ASSUME TypeOK, NEW i \in Ids, IsOpen(i), NEW more \in BOOLEAN, NEW ends \in BOOLEAN,
         more => sent[i] < MaxChunks,
         sent'[i] = IF more THEN sent[i] + 1 ELSE sent[i],
         open'[i] = IF ends THEN NoHandler ELSE open[i],
         response'[i] = response[i] \o Relayed(i, more, ends)
  PROVE  Answers(i, more, ends)
<1> DEFINE s == response[i]
           R == Relayed(i, more, ends)
           d == [kind |-> "Data", id |-> i, of |-> open[i], n |-> sent[i] + 1]
           c == [kind |-> "Close", id |-> i]
<1>1. s \in Seq(Response)
  BY RouteFacts DEF TypeOK
<1>2. /\ R \in Seq(Response)
      /\ \A j \in DOMAIN R : (more /\ R[j] = d /\ j = 1) \/ (ends /\ R[j] = c)
      /\ more => In(R, d)
  BY RelayedFacts
<1> HIDE DEF s, R, d, c
<1>3. /\ s \o R \in Seq(Response) /\ DOMAIN (s \o R) = 1 .. Len(s) + Len(R)
      /\ Len(s) \in Nat /\ Len(R) \in Nat /\ DOMAIN s = 1 .. Len(s) /\ DOMAIN R = 1 .. Len(R)
      /\ \A j \in DOMAIN s : (s \o R)[j] = s[j] /\ j \in DOMAIN (s \o R)
      /\ \A j \in DOMAIN R : (s \o R)[Len(s) + j] = R[j] /\ Len(s) + j \in DOMAIN (s \o R)
      /\ \A j \in DOMAIN (s \o R) : j \notin DOMAIN s =>
           j - Len(s) \in DOMAIN R /\ (s \o R)[j] = R[j - Len(s)]
  BY <1>1, <1>2, ConcatFacts
<1>4. \A j \in DOMAIN (s \o R) : j \notin DOMAIN s =>
        /\ \A k \in DOMAIN s : k < j
        /\ \/ more /\ j = Len(s) + 1 /\ (s \o R)[j] = d
           \/ ends /\ (s \o R)[j] = c
  <2>1. ASSUME NEW j \in DOMAIN (s \o R), j \notin DOMAIN s
        PROVE  /\ \A k \in DOMAIN s : k < j
               /\ \/ more /\ j = Len(s) + 1 /\ (s \o R)[j] = d
                  \/ ends /\ (s \o R)[j] = c
    <3>1. j \in Nat /\ j > Len(s)
      BY <1>3, <2>1
    <3>2. j - Len(s) \in DOMAIN R /\ (s \o R)[j] = R[j - Len(s)]
      BY <1>3, <2>1
    <3>3. \/ more /\ R[j - Len(s)] = d /\ j - Len(s) = 1
          \/ ends /\ R[j - Len(s)] = c
      BY <1>2, <3>2
    <3>4. QED
      BY <3>1, <3>2, <3>3, <1>3
  <2>2. QED
    BY <2>1
<1>5. ASSUME more PROVE In(s \o R, d)
  <2>1. PICK j \in DOMAIN R : R[j] = d
    BY <1>2, <1>5 DEF In
  <2>2. Len(s) + j \in DOMAIN (s \o R) /\ (s \o R)[Len(s) + j] = d
    BY <1>3, <2>1
  <2>3. QED
    BY <2>2 DEF In
<1>6. response'[i] = s \o R /\ response[i] = s
  BY DEF s, R
<1>7. QED
  BY <1>3, <1>4, <1>5, <1>6 DEF Answers, d, c

LEMMA ServeSteps ==
  ASSUME Base, ServeData \/ ServeClose \/ ServePoll
  PROVE  /\ Served /\ InCall /\ UNCHANGED <<serveRest, nextId>>
         /\ Message \in Outgoing /\ ~IsStart(Message) /\ response'[0] = response[0]
         /\ \A i \in Ids : \E more, ends \in BOOLEAN : Answers(i, more, ends)
<1>0. TypeOK
  BY DEF Base
<1>1. /\ Served /\ InCall /\ UNCHANGED <<serveRest, nextId>> /\ served < Len(batch)
      /\ ~IsStart(Message)
  BY DEF ServeData, ServeClose, ServePoll, Served, Processing, serveRest, senderVars, Message, IsStart
<1>2. Message \in Outgoing
  BY <1>0, <1>1, MessageInBatch
<1>3. ASSUME NEW visited \in SUBSET Ids, \A i \in visited : IsOpen(i),
             NEW more \in SUBSET visited, NEW ends \in SUBSET visited, Visit(visited, more, ends)
      PROVE  /\ response'[0] = response[0]
             /\ \A i \in Ids : \E m, e \in BOOLEAN : Answers(i, m, e)
  <2>0. TypeOK /\ visited \in SUBSET Ids /\ (\A i \in visited : IsOpen(i)) /\ more \in SUBSET visited
        /\ ends \in SUBSET visited /\ Visit(visited, more, ends)
    BY <1>0, <1>3
  <2>1. Visited(visited, more, ends)
    BY <2>0, VisitFacts
  <2>4. \A i \in more : sent[i] < MaxChunks
    BY <2>1 DEF Visited
  <2>5. \A i \in Ids : sent'[i] = IF i \in more THEN sent[i] + 1 ELSE sent[i]
    BY <2>1 DEF Visited
  <2>6. \A i \in Ids : open'[i] = IF i \in ends THEN NoHandler ELSE open[i]
    BY <2>1 DEF Visited
  <2>7. response'[0] = response[0]
    BY <2>1 DEF Visited
  <2>8. \A i \in visited : \E m, e \in BOOLEAN :
          /\ (m <=> i \in more) /\ (e <=> i \in ends)
          /\ response'[i] = response[i] \o Relayed(i, m, e)
    BY <2>1, Zenon DEF Visited
  <2>9. \A i \in Ids \ visited : response'[i] = response[i]
    BY <2>1 DEF Visited
  <2>2. ASSUME NEW i \in Ids
        PROVE  \E m, e \in BOOLEAN : Answers(i, m, e)
    <3>1. CASE i \in visited
      <4>1. PICK m \in BOOLEAN, e \in BOOLEAN :
              /\ (m <=> i \in more) /\ (e <=> i \in ends)
              /\ response'[i] = response[i] \o Relayed(i, m, e)
        BY <2>8, <3>1
      <4>4. /\ IsOpen(i) /\ (m => sent[i] < MaxChunks)
            /\ sent'[i] = (IF m THEN sent[i] + 1 ELSE sent[i])
            /\ open'[i] = (IF e THEN NoHandler ELSE open[i])
        BY <1>3, <2>4, <2>5, <2>6, <3>1, <4>1
      <4>2. Answers(i, m, e)
        BY <1>0, <4>1, <4>4, VisitAnswer
      <4>3. QED
        BY <4>1, <4>2
    <3>2. CASE i \notin visited
      <4>1. sent'[i] = sent[i] /\ open'[i] = open[i] /\ response'[i] = response[i]
        BY <1>3, <2>5, <2>6, <2>9, <3>2
      <4>2. Answers(i, FALSE, FALSE)
        BY <1>0, <4>1, QuietAnswer
      <4>3. QED
        BY <4>2
    <3>3. QED
      BY <3>1, <3>2
  <2>3. QED
    BY <2>7, <2>2
<1>4. ASSUME UNCHANGED <<response, open, sent>>
      PROVE  response'[0] = response[0] /\ \A i \in Ids : \E m, e \in BOOLEAN : Answers(i, m, e)
  <2>1. \A i \in Ids : Answers(i, FALSE, FALSE)
    BY <1>0, <1>4, QuietAnswer
  <2>2. QED
    BY <1>4, <2>1
<1>5. CASE ServeData
  <2>1. Message.id \in Ids
    BY <1>2, <1>5, MessageFacts DEF ServeData, Processing, Message
  <2>2. CASE IsOpen(Message.id)
    <3>1. PICK more \in SUBSET {Message.id}, ends \in SUBSET {Message.id} :
            Visit({Message.id}, more, ends)
      BY <1>5, <2>2 DEF ServeData
    <3>2. QED
      BY <1>1, <1>2, <1>3, <2>1, <2>2, <3>1
  <2>3. CASE ~IsOpen(Message.id)
    BY <1>1, <1>2, <1>4, <1>5, <2>3 DEF ServeData
  <2>4. QED
    BY <2>2, <2>3
<1>6. CASE ServeClose
  <2>1. Message.id \in Ids /\ sent' = sent
    BY <1>2, <1>6, MessageFacts DEF ServeClose, Processing, Message
  <2>2. CASE IsOpen(Message.id)
    <3>1. /\ open' = [open EXCEPT ![Message.id] = NoHandler]
          /\ Answer(Message.id, <<[kind |-> "Close", id |-> Message.id]>>)
      BY <1>6, <2>2 DEF ServeClose
    <3>2. /\ response'[Message.id] = Append(response[Message.id], [kind |-> "Close", id |-> Message.id])
          /\ \A j \in Routes \ {Message.id} : response'[j] = response[j]
      BY <1>0, <2>1, <3>1, AnswerType, AnswerFacts, RouteFacts
    <3>3. open'[Message.id] = NoHandler /\ \A i \in Ids \ {Message.id} : open'[i] = open[i]
      BY <1>0, <2>1, <3>1 DEF TypeOK
    <3>4. Answers(Message.id, FALSE, TRUE)
      BY <1>0, <2>1, <2>2, <3>2, <3>3, CloseAnswer
    <3>5. \A i \in Ids \ {Message.id} : Answers(i, FALSE, FALSE)
      BY <1>0, <2>1, <3>2, <3>3, RouteFacts, QuietAnswer
    <3>6. response'[0] = response[0]
      BY <2>1, <3>2, RouteFacts
    <3>7. QED
      BY <1>1, <1>2, <3>4, <3>5, <3>6
  <2>3. CASE ~IsOpen(Message.id)
    BY <1>1, <1>2, <1>4, <1>6, <2>1, <2>3 DEF ServeClose
  <2>4. QED
    BY <2>2, <2>3
<1>7. CASE ServePoll
  <2> DEFINE opened == {i \in Ids : IsOpen(i)}
  <2>1. PICK more \in SUBSET opened, ends \in SUBSET opened : Visit(opened, more, ends)
    BY <1>7 DEF ServePoll
  <2>2. opened \in SUBSET Ids /\ \A i \in opened : IsOpen(i)
    OBVIOUS
  <2> HIDE DEF opened
  <2>3. QED
    BY <1>1, <1>2, <1>3, <2>1, <2>2
<1>8. QED
  BY <1>5, <1>6, <1>7

\* A StartConnection is answered: by a Challenge with a new id, or an Error.
Opened(h) ==
  /\ nextId <= MaxId /\ nextId' = nextId + 1
  /\ nextId \in Ids /\ open'[nextId] = h /\ \A i \in Ids \ {nextId} : open'[i] = open[i]
  /\ response'[0] = <<Offer(nextId)>>
NotOpened ==
  UNCHANGED <<open, nextId>> /\ response'[0] = <<[kind |-> "Error"]>>

LEMMA StartStep ==
  ASSUME Base, ServeStart
  PROVE  /\ Served /\ InCall /\ UNCHANGED <<serveRest, sent, arrived>>
         /\ served = 0 /\ Len(batch) = 1
         /\ \A i \in Ids : response[i] = <<>> /\ response'[i] = <<>>
         /\ \E h \in Handlers : batch[1] = Start(h) /\ Message = Start(h) /\ (Opened(h) \/ NotOpened)
<1>0. TypeOK /\ SenderShape /\ ResponseShape
  BY DEF Base
<1>1. /\ Served /\ InCall /\ UNCHANGED <<serveRest, sent, arrived>> /\ served < Len(batch)
      /\ IsStart(Message)
  BY DEF ServeStart, Served, Processing, serveRest, senderVars, Message, IsStart
<1>2. Message \in Outgoing /\ served + 1 \in DOMAIN batch /\ served \in Nat /\ Len(batch) \in Nat
  BY <1>0, <1>1, MessageInBatch
<1>3. Len(batch) = 1 /\ served = 0 /\ Message = batch[1]
  BY <1>0, <1>1, <1>2 DEF SenderShape, Message
<1>4. PICK h \in Handlers : Message = Start(h) /\ Message.by = h
  BY <1>1, <1>2, MessageFacts
<1>5. response = NoResponses
  BY <1>0, <1>3 DEF ResponseShape
<1>6. \A x \in Response : Answer(0, <<x>>) => response'[0] = <<x>> /\ \A i \in Ids : response'[i] = <<>>
  <2>1. ASSUME NEW x \in Response, Answer(0, <<x>>)
        PROVE  response'[0] = <<x>> /\ \A i \in Ids : response'[i] = <<>>
    <3>1. response'[0] = Append(response[0], x) /\ \A j \in Routes \ {0} : response'[j] = response[j]
      BY <1>0, <2>1, AnswerType, RouteFacts
    <3>2. Append(<<>>, x) = <<x>>
      OBVIOUS
    <3>3. QED
      BY <1>5, <3>1, <3>2, RouteFacts
  <2>2. QED
    BY <2>1
<1>7. CASE /\ nextId <= MaxId /\ open' = [open EXCEPT ![NewId] = Message.by]
           /\ nextId' = nextId + 1 /\ Answer(0, <<[kind |-> "Challenge", id |-> NewId]>>)
  <2>1. nextId \in Ids
    BY <1>0, <1>7, ClientAssumption DEF TypeOK, Ids
  <2>2. Offer(nextId) \in Response /\ Answer(0, <<Offer(nextId)>>)
    BY <2>1, <1>7, AnswerFacts DEF Offer, NewId
  <2>3. open'[nextId] = h /\ \A i \in Ids \ {nextId} : open'[i] = open[i]
    BY <1>0, <1>4, <1>7, <2>1 DEF TypeOK, NewId
  <2>4. Opened(h)
    BY <1>6, <1>7, <2>1, <2>2, <2>3 DEF Opened
  <2>5. QED
    BY <1>1, <1>3, <1>4, <1>5, <1>6, <2>2, <2>4, RouteFacts
<1>8. CASE Answer(0, <<[kind |-> "Error"]>>) /\ UNCHANGED <<open, nextId>>
  BY <1>1, <1>3, <1>4, <1>5, <1>6, <1>8, AnswerFacts, RouteFacts DEF NotOpened
<1>9. QED
  BY <1>7, <1>8 DEF ServeStart

--------------------------------------------------------------------------------
(* Base is inductive                                                            *)

LEMMA InitBase == Init => Base
<1> SUFFICES ASSUME Init PROVE Base
  OBVIOUS
<1>0. <<>> \in Seq(Outgoing) /\ <<>> \in Seq(Response) /\ <<>> \in Seq(Chunk)
  OBVIOUS
<1>1. TypeOK
  BY <1>0, RouteFacts, ClientAssumption DEF Init, TypeOK, Task
<1>2. HandlerShape /\ EntryShape /\ SenderShape
  BY RouteFacts DEF Init, HandlerShape, EntryShape, SenderShape
<1>3. ResponseShape
  BY RouteFacts DEF Init, ResponseShape
<1>4. QED
  BY <1>1, <1>2, <1>3 DEF Base

LEMMA HandlerBase ==
  ASSUME Base, NEW h \in Handlers, HandlerNext(h)
  PROVE  HandlerShape' /\ EntryShape'
<1>0. TypeOK /\ HandlerShape /\ EntryShape /\ NoHandler \notin Handlers
  BY RouteFacts DEF Base
<1>a. /\ task \in [Handlers -> Task] /\ inbox \in [Handlers -> Seq(Response)]
      /\ id \in [Handlers -> Ids \union {0}] /\ entries \in [Ids -> Handlers \union {NoHandler}]
  BY <1>0 DEF TypeOK
<1>1. CASE Connect(h)
  BY <1>0, <1>a, <1>1 DEF Connect, At, Goto, HandlerShape, EntryShape, tableVars, Relaying
<1>2. CASE Challenged(h)
  <2>1. Head(inbox[h]) \in Response
    BY <1>0, <1>2, InboxHead DEF Challenged, Heard
  <2>2. IdOffered(h) \in Ids /\ 0 \notin Ids
    BY <2>1, <1>2, ResponseFacts, RouteFacts DEF Challenged, Heard, IdOffered
  <2>3. QED
    BY <1>0, <1>a, <1>2, <2>2
    DEF Challenged, At, Goto, Consume, HandlerShape, EntryShape, tableVars, Relaying
<1>3. CASE Refused(h)
  BY <1>0, <1>a, <1>3 DEF Refused, At, Goto, HandlerShape, EntryShape, tableVars, Relaying
<1>4. CASE Register(h)
  <2>1. HandlerShape'
    BY <1>0, <1>a, <1>4 DEF Register, At, Goto, HandlerShape
  <2>2. id[h] \in Ids
    BY <1>0, <1>a, <1>4 DEF Register, At, HandlerShape
  <2>3. EntryShape'
    BY <1>0, <1>a, <1>4, <2>2 DEF Register, At, Goto, EntryShape
  <2>4. QED
    BY <2>1, <2>3
<1>5. CASE Replied(h)
  BY <1>0, <1>a, <1>5 DEF Replied, At, Goto, HandlerShape, EntryShape, tableVars, Relaying
<1>6. CASE ReplyFails(h)
  BY <1>0, <1>a, <1>6 DEF ReplyFails, At, End, Goto, HandlerShape, EntryShape, tableVars, Relaying
<1>7. CASE Read(h)
  BY <1>0, <1>a, <1>7 DEF Read, HandlerShape, EntryShape
<1>8. CASE Eof(h)
  BY <1>0, <1>a, <1>8 DEF Eof, At, Goto, HandlerShape, EntryShape, tableVars, Relaying
<1>9. CASE Deliver(h)
  BY <1>0, <1>a, <1>9 DEF Deliver, At, Consume, HandlerShape, EntryShape, Relaying
<1>10. CASE DeliverFails(h)
  BY <1>0, <1>a, <1>10 DEF DeliverFails, At, End, Goto, HandlerShape, EntryShape, Relaying
<1>11. CASE Closed(h)
  BY <1>0, <1>a, <1>11 DEF Closed, At, Goto, HandlerShape, EntryShape, tableVars, Relaying
<1>12. CASE Orphaned(h)
  BY <1>0, <1>a, <1>12 DEF Orphaned, At, Goto, HandlerShape, EntryShape, tableVars, Relaying
<1>13. CASE RemoveEntry(h)
  <2>1. HandlerShape'
    BY <1>0, <1>a, <1>13 DEF RemoveEntry, At, End, Goto, HandlerShape
  <2>2. id[h] \in Ids
    BY <1>0, <1>a, <1>13 DEF RemoveEntry, At, HandlerShape
  <2>3. EntryShape'
    BY <1>0, <1>a, <1>13, <2>2 DEF RemoveEntry, At, End, Goto, EntryShape, Relaying
  <2>4. QED
    BY <2>1, <2>3
<1>14. QED
  BY <1>1, <1>2, <1>3, <1>4, <1>5, <1>6, <1>7, <1>8, <1>9, <1>10, <1>11, <1>12, <1>13
  DEF HandlerNext, HandlerStep

LEMMA NoneIn == DOMAIN <<>> = {} /\ 0 # 1
OBVIOUS

LEMMA SenderBase ==
  ASSUME Base, SenderStep
  PROVE  SenderShape' /\ ResponseShape'
<1>0. TypeOK /\ SenderShape /\ ResponseShape
  BY DEF Base
<1>1. pending \in Seq(Outgoing) /\ Idle
  BY <1>0, SenderSteps DEF TypeOK
<1>2. ASSUME response' = NoResponses, served' = 0
      PROVE  ResponseShape'
  BY <1>2, RouteFacts, NoneIn DEF ResponseShape
<1>3. CASE /\ Still /\ sender'.at \in {"recv", "drain", "window", "last"}
           /\ sender'.at = "recv" => pending = <<>>
  <2>1. ResponseShape'
    BY <1>1, <1>2, <1>3 DEF Still, Idle
  <2>2. SenderShape'
    BY <1>0, <1>1, <1>3 DEF SenderShape, Still, Idle
  <2>3. QED
    BY <2>1, <2>2
<1>4. CASE Taken /\ sender'.at \in {"drain", "last"}
  <2>1. Next1 \in Outgoing
    BY <1>0, <1>4, NextFacts DEF Taken
  <2>2. \A j \in DOMAIN pending' : ~IsStart(pending'[j])
    <3>1. \A j \in DOMAIN pending : ~IsStart(pending[j])
      BY <1>0 DEF SenderShape
    <3>2. QED
      BY <1>1, <1>4, <2>1, <3>1, AppendFacts DEF Taken
  <2>3. ResponseShape'
    BY <1>1, <1>2, <1>4 DEF Taken, Idle
  <2>4. SenderShape'
    BY <1>0, <1>1, <1>4, <2>2 DEF SenderShape, Taken, Idle
  <2>5. QED
    BY <2>3, <2>4
<1>5. CASE sender'.at = "call" /\ \E h \in Handlers : Flushed(h)
  <2>1. PICK h \in Handlers : Flushed(h)
    BY <1>5
  <2>2. ResponseShape'
    BY <1>2, <2>1 DEF Flushed
  <2>3. CASE pending = <<>> /\ batch' = <<Start(h)>> /\ sender'.held = NoHandler
    <3>1. Start(h) \in Outgoing
      BY SentFacts
    <3>2. Len(batch') = 1 /\ batch' # <<>> /\ DOMAIN batch' = {1}
      BY <2>3, <3>1, OneFacts
    <3>3. SenderShape'
      BY <1>5, <2>1, <2>3, <3>2 DEF SenderShape, Flushed
    <3>4. QED
      BY <2>2, <3>3
  <2>4. CASE pending # <<>> /\ batch' = pending /\ sender'.held = h
    <3>1. \A j \in DOMAIN pending : ~IsStart(pending[j])
      BY <1>0 DEF SenderShape
    <3>2. ~IsStart(pending[1])
      BY <1>1, <2>4, <3>1, TailFacts
    <3>3. SenderShape'
      BY <1>5, <2>1, <2>4, <3>1, <3>2 DEF SenderShape, Flushed
    <3>4. QED
      BY <2>2, <3>3
  <2>5. QED
    BY <2>1, <2>3, <2>4 DEF Flushed
<1>6. CASE FlushedLast /\ sender'.at = IF pending = <<>> THEN "recv" ELSE "call"
  <2>1. ResponseShape'
    BY <1>2, <1>6 DEF FlushedLast
  <2>2. SenderShape'
    BY <1>0, <1>6 DEF SenderShape, FlushedLast
  <2>3. QED
    BY <2>1, <2>2
<1>7. QED
  BY <1>3, <1>4, <1>5, <1>6, SenderSteps

LEMMA BackBase ==
  ASSUME Base, LoseRequest \/ Route \/ LoseResponse
  PROVE  SenderShape' /\ ResponseShape'
<1>0. TypeOK /\ SenderShape /\ ResponseShape
  BY DEF Base
<1>1. /\ Back /\ sender'.at = IF sender.held # NoHandler THEN "call" ELSE sender.then
      /\ sender.then \in {"recv", "drain", "last"}
  BY BackFacts
<1>2. ResponseShape'
  BY <1>1, RouteFacts DEF ResponseShape, Back
<1>3. CASE sender.held # NoHandler
  <2>1. Start(sender.held) \in Outgoing
    BY <1>0, <1>3, SentFacts DEF TypeOK
  <2>2. batch' = <<Start(sender.held)>>
    BY <1>1, <1>3 DEF Back
  <2>3. Len(batch') = 1 /\ batch' # <<>> /\ DOMAIN batch' = {1}
    BY <2>1, <2>2, OneFacts
  <2>4. SenderShape'
    BY <1>0, <1>1, <1>3, <2>3 DEF SenderShape, Back
  <2>5. QED
    BY <1>2, <2>4
<1>4. CASE sender.held = NoHandler
  <2>1. SenderShape'
    BY <1>0, <1>1, <1>4 DEF SenderShape, Back
  <2>2. QED
    BY <1>2, <2>1
<1>5. QED
  BY <1>3, <1>4

LEMMA ServeBase ==
  ASSUME Base, ServeStart \/ ServeData \/ ServeClose \/ ServePoll
  PROVE  SenderShape' /\ ResponseShape'
<1>0. TypeOK /\ SenderShape /\ ResponseShape
  BY DEF Base
<1>1. Served /\ InCall
  BY StartStep, ServeSteps
<1>2. SenderShape'
  BY <1>0, <1>1 DEF SenderShape, Served
<1>3. served + 1 \in DOMAIN batch /\ served \in Nat /\ served' # 0
  BY <1>0, <1>1, MessageInBatch DEF Served
<1>4. CASE ServeStart
  <2>1. PICK h \in Handlers : batch[1] = Start(h) /\ (Opened(h) \/ NotOpened)
    BY <1>4, StartStep
  <2>2. \A i \in Ids : response'[i] = <<>>
    BY <1>4, StartStep
  <2>3. PICK x : response'[0] = <<x>> /\ x.kind \in {"Challenge", "Error"}
    BY <2>1 DEF Opened, NotOpened, Offer
  <2>4. DOMAIN <<x>> = {1} /\ <<x>>[1] = x /\ <<x>> # <<>>
    OBVIOUS
  <2>5. IsStart(batch'[1])
    BY <1>1, <2>1, SentFacts DEF Served
  <2>6. ResponseShape'
    BY <1>3, <2>2, <2>3, <2>4, <2>5 DEF ResponseShape
  <2>7. QED
    BY <1>2, <2>6
<1>5. CASE ServeData \/ ServeClose \/ ServePoll
  <2>1. /\ ~IsStart(Message) /\ response'[0] = response[0] /\ batch' = batch
        /\ \A i \in Ids : \E more, ends \in BOOLEAN : Answers(i, more, ends)
    BY <1>5, ServeSteps DEF Served
  <2>2. batch # <<>> /\ ~IsStart(batch[1])
    <3>1. ASSUME IsStart(batch[1])
          PROVE  FALSE
      <4>1. 1 \in DOMAIN batch
        BY <1>0, <1>1, <1>3 DEF TypeOK
      <4>2. Len(batch) = 1
        BY <1>0, <3>1, <4>1 DEF SenderShape
      <4>3. served = 0
        BY <1>1, <1>3, <4>2 DEF Served
      <4>4. QED
        BY <2>1, <3>1, <4>3 DEF Message
    <3>2. QED
      BY <1>0, <1>1, <3>1 DEF InCall, SenderAt, SenderShape
  <2>3. ASSUME NEW i \in Ids, NEW j \in DOMAIN response'[i]
        PROVE  response'[i][j].kind \in {"Data", "Close"} /\ response'[i][j].id = i
    <3>1. PICK more \in BOOLEAN, ends \in BOOLEAN : Answers(i, more, ends)
      BY <2>1
    <3>2. CASE j \in DOMAIN response[i]
      BY <1>0, <3>1, <3>2 DEF Answers, ResponseShape
    <3>3. CASE j \notin DOMAIN response[i]
      BY <2>3, <3>1, <3>3 DEF Answers
    <3>4. QED
      BY <3>2, <3>3
  <2>4. ResponseShape'
    BY <1>0, <1>3, <2>1, <2>2, <2>3 DEF ResponseShape
  <2>5. QED
    BY <1>2, <2>4
<1>6. QED
  BY <1>4, <1>5

LEMMA BaseKept ==
  ASSUME Base, [Next]_vars
  PROVE  Base'
<1>0. TypeOK' /\ TypeOK /\ HandlerShape /\ EntryShape /\ SenderShape /\ ResponseShape
  BY TypesKept DEF Base
<1>1. ASSUME UNCHANGED <<senderVars, served, response>>
      PROVE  SenderShape' /\ ResponseShape'
  <2>1. UNCHANGED <<pending, sender, batch, served, response>>
    BY <1>1 DEF senderVars
  <2>2. SenderShape'
    BY <1>0, <2>1 DEF SenderShape
  <2>3. ResponseShape'
    BY <1>0, <2>1 DEF ResponseShape
  <2>4. QED
    BY <2>2, <2>3
<1>2. ASSUME UNCHANGED <<task, id, inbox, entries>>
      PROVE  HandlerShape' /\ EntryShape'
  BY <1>0, <1>2 DEF HandlerShape, EntryShape
<1>3. ASSUME NEW h \in Handlers, HandlerNext(h)
      PROVE  UNCHANGED <<senderVars, serverVars>>
  BY <1>3 DEF HandlerNext, HandlerStep, Connect, Challenged, Refused, Register, Replied, ReplyFails, Read,
              Eof, Deliver, DeliverFails, Closed, Orphaned, RemoveEntry
<1>4. CASE \E h \in Handlers : HandlerNext(h)
  BY <1>0, <1>1, <1>3, <1>4, HandlerBase DEF Base, senderVars, serverVars
<1>5. CASE PollTick \/ \E i \in Ids : Elapse(i)
  BY <1>0, <1>1, <1>2, <1>5 DEF Base, PollTick, Elapse, handlerVars, tableVars, senderVars, serverVars
<1>6. CASE Cleanup
  <2>1. UNCHANGED <<senderVars, served, response, task, id, inbox>>
    BY <1>6 DEF Cleanup, handlerVars, serverVars
  <2>2. HandlerShape'
    BY <1>0, <2>1 DEF HandlerShape
  <2>3. \A i \in Ids : entries'[i] \in {entries[i], NoHandler}
    BY <1>6 DEF Cleanup
  <2>4. EntryShape'
    BY <1>0, <2>1, <2>3, RouteFacts DEF EntryShape
  <2>5. QED
    BY <1>0, <1>1, <2>1, <2>2, <2>4 DEF Base
<1>7. CASE SenderStep
  <2>1. UNCHANGED <<task, id, inbox, entries>>
    BY <1>7, SenderSteps DEF senderRest, handlerVars, tableVars
  <2>2. QED
    BY <1>0, <1>2, <1>7, <2>1, SenderBase DEF Base
<1>8. CASE ServeStart \/ ServeData \/ ServeClose \/ ServePoll
  <2>1. UNCHANGED <<task, id, inbox, entries>>
    BY <1>8 DEF ServeStart, ServeData, ServeClose, ServePoll, serveRest, handlerVars, tableVars
  <2>2. QED
    BY <1>0, <1>2, <1>8, <2>1, ServeBase DEF Base
<1>9. CASE LoseRequest \/ LoseResponse
  <2>1. UNCHANGED <<task, id, inbox, entries>>
    BY <1>9 DEF LoseRequest, LoseResponse, handlerVars, tableVars
  <2>2. QED
    BY <1>0, <1>2, <1>9, <2>1, BackBase DEF Base
<1>10. CASE Route
  <2>1. UNCHANGED <<task, id, entries>>
    BY <1>10 DEF Route, tableVars
  <2>2. EntryShape'
    BY <1>0, <2>1 DEF EntryShape
  <2>3. HandlerShape'
    <3>1. \A h \in Handlers : task[h] = "ended" => inbox'[h] = <<>>
      BY <1>10 DEF Route, At
    <3>2. QED
      BY <1>0, <2>1, <3>1 DEF HandlerShape
  <2>4. QED
    BY <1>0, <1>10, <2>2, <2>3, BackBase DEF Base
<1>11. CASE Hang
  <2>1. sender.at = "call" /\ sender'.at = "hung" /\ sender'.held = sender.held
    BY <1>0, <1>11 DEF Hang, InCall, SenderAt, TypeOK
  <2>2. SenderShape' /\ ResponseShape'
    BY <1>0, <1>11, <2>1 DEF Hang, SenderShape, ResponseShape, serverVars
  <2>3. QED
    BY <1>0, <1>2, <1>11, <2>2 DEF Base, Hang, handlerVars, tableVars
<1>12. CASE Restart
  BY <1>0, <1>1, <1>2, <1>12 DEF Base, Restart, handlerVars, tableVars, senderVars
<1>13. CASE UNCHANGED vars
  BY <1>0, <1>1, <1>2, <1>13 DEF Base, vars, handlerVars, tableVars, senderVars, serverVars
<1>14. QED
  BY <1>4, <1>5, <1>6, <1>7, <1>8, <1>9, <1>10, <1>11, <1>12, <1>13 DEF Next, CallStep

--------------------------------------------------------------------------------
(* Membership                                                                   *)

LEMMA InNone == \A m : ~In(<<>>, m)
BY DEF In

LEMMA InOne ==
  ASSUME NEW e, NEW m
  PROVE  In(<<e>>, m) <=> m = e
<1>1. DOMAIN <<e>> = {1} /\ <<e>>[1] = e
  OBVIOUS
<1>2. QED
  BY <1>1 DEF In

LEMMA InAppend ==
  ASSUME NEW S, NEW s \in Seq(S), NEW e \in S, NEW m
  PROVE  In(Append(s, e), m) <=> In(s, m) \/ m = e
BY AppendFacts DEF In

LEMMA InTail ==
  ASSUME NEW S, NEW s \in Seq(S), s # <<>>, NEW m
  PROVE  In(s, m) <=> m = Head(s) \/ In(Tail(s), m)
<1>1. /\ Head(s) = s[1] /\ 1 \in DOMAIN s
      /\ \A j \in DOMAIN Tail(s) : Tail(s)[j] = s[j + 1] /\ j + 1 \in DOMAIN s
      /\ \A j \in DOMAIN s : j # 1 => j - 1 \in DOMAIN Tail(s) /\ s[j] = Tail(s)[j - 1]
  BY TailFacts
<1>2. QED
  BY <1>1 DEF In

LEMMA InConcat ==
  ASSUME NEW S, NEW s \in Seq(S), NEW t \in Seq(S), NEW m
  PROVE  In(s \o t, m) <=> In(s, m) \/ In(t, m)
<1>1. /\ \A j \in DOMAIN s : (s \o t)[j] = s[j] /\ j \in DOMAIN (s \o t)
      /\ \A j \in DOMAIN t : (s \o t)[Len(s) + j] = t[j] /\ Len(s) + j \in DOMAIN (s \o t)
      /\ \A j \in DOMAIN (s \o t) : j \notin DOMAIN s =>
           j - Len(s) \in DOMAIN t /\ (s \o t)[j] = t[j - Len(s)]
  BY ConcatFacts
<1>2. QED
  BY <1>1 DEF In

LEMMA Apart ==
  /\ \A g, h \in Handlers : Start(g) = Start(h) => g = h
  /\ \A h \in Handlers : \A m : m.type # "StartConnection" => m # Start(h)
  /\ \A i, j \in Ids : CloseOf(i) = CloseOf(j) => i = j
  /\ \A i, j \in Ids : Offer(i) = Offer(j) => i = j
BY DEF Start, CloseOf, Offer

--------------------------------------------------------------------------------
(* What a step of a handler does to the others                                  *)

\* What h has.
Same(h) ==
  /\ task'[h] = task[h] /\ id'[h] = id[h] /\ reads'[h] = reads[h]
  /\ inbox'[h] = inbox[h] /\ got'[h] = got[h]

Queued(m) == m \in Outgoing /\ channel' = Append(channel, m)

LEMMA HandlerSteps ==
  ASSUME Base, NEW h \in Handlers, HandlerNext(h)
  PROVE  /\ UNCHANGED <<senderVars, serverVars, lossVars>>
         /\ \A g \in Handlers \ {h} : Same(g)
         /\ \/ channel' = channel
            \/ Queued(Start(h)) /\ Connect(h)
            \/ Queued(Data(h)) /\ Read(h)
            \/ Queued(CloseOf(id[h])) /\ Eof(h)
         /\ \/ Connect(h)
            \/ /\ task[h] # "idle" /\ task'[h] \notin {"idle", "waiting"}
               /\ task[h] = "waiting" => inbox[h] # <<>>
<1>0. TypeOK /\ HandlerShape
  BY DEF Base
<1>1. /\ task \in [Handlers -> Task] /\ inbox \in [Handlers -> Seq(Response)]
      /\ id \in [Handlers -> Ids \union {0}] /\ reads \in [Handlers -> 0 .. MaxReads]
      /\ got \in [Handlers -> Seq(Chunk)]
  BY <1>0 DEF TypeOK
<1>2. UNCHANGED <<senderVars, serverVars, lossVars>>
  BY DEF HandlerNext, HandlerStep, Connect, Challenged, Refused, Register, Replied, ReplyFails, Read,
         Eof, Deliver, DeliverFails, Closed, Orphaned, RemoveEntry
<1>3. CASE Connect(h)
  BY <1>1, <1>2, <1>3, SentFacts DEF Connect, Goto, Queue, Queued, Same
<1>4. CASE Challenged(h)
  BY <1>1, <1>2, <1>4 DEF Challenged, At, Heard, Goto, Consume, Same
<1>5. CASE Refused(h)
  BY <1>1, <1>2, <1>5 DEF Refused, At, Heard, Goto, Same
<1>6. CASE Register(h)
  BY <1>1, <1>2, <1>6 DEF Register, At, Goto, Same
<1>7. CASE Replied(h)
  BY <1>1, <1>2, <1>7 DEF Replied, At, Goto, Same
<1>8. CASE ReplyFails(h)
  BY <1>1, <1>2, <1>8 DEF ReplyFails, At, End, Goto, Same
<1>9. CASE Read(h)
  <2>1. id[h] \in Ids
    BY <1>0, <1>1, <1>9 DEF Read, At, HandlerShape
  <2>2. reads[h] + 1 \in 1 .. MaxReads
    <3>1. reads[h] \in 0 .. MaxReads /\ reads[h] < MaxReads /\ MaxReads \in Nat
      BY <1>1, <1>9, ClientAssumption DEF Read
    <3>2. QED
      BY <3>1
  <2>3. Data(h) \in Outgoing
    BY <2>1, <2>2 DEF Data, Outgoing
  <2>4. /\ task[h] = "relay" /\ task' = task /\ id' = id /\ inbox' = inbox /\ got' = got
        /\ reads' = [reads EXCEPT ![h] = @ + 1] /\ channel' = Append(channel, Data(h))
    BY <1>9 DEF Read, At, Queue
  <2>5. \A g \in Handlers \ {h} : Same(g)
    BY <1>1, <2>4 DEF Same
  <2>6. QED
    BY <1>2, <1>9, <2>3, <2>4, <2>5 DEF Queued
<1>10. CASE Eof(h)
  <2>1. CloseOf(id[h]) \in Outgoing
    <3>1. task[h] = "relay"
      BY <1>10 DEF Eof, At
    <3>2. id[h] \in Ids
      BY <1>0, <1>1, <3>1 DEF HandlerShape
    <3>3. QED
      BY <3>2, SentFacts
  <2>2. QED
    BY <1>1, <1>2, <1>10, <2>1 DEF Eof, At, Goto, Queue, Queued, Same
<1>11. CASE Deliver(h)
  BY <1>1, <1>2, <1>11 DEF Deliver, At, Consume, Same
<1>12. CASE DeliverFails(h)
  BY <1>1, <1>2, <1>12 DEF DeliverFails, At, End, Goto, Same
<1>13. CASE Closed(h)
  BY <1>1, <1>2, <1>13 DEF Closed, At, Goto, Same
<1>14. CASE Orphaned(h)
  BY <1>1, <1>2, <1>14 DEF Orphaned, At, Goto, Same
<1>15. CASE RemoveEntry(h)
  BY <1>1, <1>2, <1>15 DEF RemoveEntry, At, End, Goto, Same
<1>16. QED
  BY <1>3, <1>4, <1>5, <1>6, <1>7, <1>8, <1>9, <1>10, <1>11, <1>12, <1>13, <1>14, <1>15
  DEF HandlerNext, HandlerStep

\* The poll and the clean-up task only queue messages, none of them a StartConnection.
Told ==
  \E s \in Seq(Outgoing) :
    /\ channel' = channel \o s
    /\ \A j \in DOMAIN s : s[j].type \in {"Poll", "Close"}

LEMMA TaskSteps ==
  ASSUME Base, PollTick \/ Cleanup \/ \E i \in Ids : Elapse(i)
  PROVE  UNCHANGED <<handlerVars, senderVars, serverVars, got, lossVars>> /\ Told
<1>0. TypeOK
  BY DEF Base
<1>1. channel \in Seq(Outgoing)
  BY <1>0 DEF TypeOK
<1>2. CASE PollTick
  <2>1. <<PollMessage>> \in Seq(Outgoing) /\ DOMAIN <<PollMessage>> = {1} /\ <<PollMessage>>[1] = PollMessage
    BY SentFacts, OneFacts
  <2>2. channel' = channel \o <<PollMessage>>
    BY <1>1, <1>2, SentFacts DEF PollTick, Queue
  <2>3. \A j \in DOMAIN <<PollMessage>> : <<PollMessage>>[j].type \in {"Poll", "Close"}
    BY <2>1, SentFacts
  <2>4. Told
    BY <2>1, <2>2, <2>3 DEF Told
  <2>5. QED
    BY <1>2, <2>4 DEF PollTick
<1>3. CASE Cleanup
  <2> DEFINE idle == {i \in old : entries[i] # NoHandler}
  <2>1. idle \subseteq Ids
    BY <1>0 DEF TypeOK
  <2>2. channel' = channel \o ClosesOf(idle)
    BY <1>3 DEF Cleanup
  <2> HIDE DEF idle
  <2>3. /\ ClosesOf(idle) \in Seq(Outgoing)
        /\ \A j \in DOMAIN ClosesOf(idle) : ClosesOf(idle)[j].type = "Close"
    BY <2>1, ClosesFacts, SentFacts
  <2>4. Told
    BY <2>2, <2>3 DEF Told
  <2>5. QED
    BY <1>3, <2>4 DEF Cleanup
<1>4. CASE \E i \in Ids : Elapse(i)
  <2>1. <<>> \in Seq(Outgoing) /\ DOMAIN <<>> = {} /\ channel \o <<>> = channel
    BY <1>1
  <2>2. channel' = channel
    BY <1>4 DEF Elapse
  <2>3. Told
    BY <2>1, <2>2 DEF Told
  <2>4. QED
    BY <1>4, <2>3 DEF Elapse
<1>5. QED
  BY <1>2, <1>3, <1>4

\* What the channel holds after such a step.
LEMMA Queues ==
  /\ \A h \in Handlers : Base /\ HandlerNext(h) =>
       /\ \A m : In(channel, m) => In(channel', m)
       /\ \A g \in Handlers : In(channel', Start(g)) <=> In(channel, Start(g)) \/ (g = h /\ Connect(h))
  /\ Base /\ (PollTick \/ Cleanup \/ \E i \in Ids : Elapse(i)) =>
       /\ \A m : In(channel, m) => In(channel', m)
       /\ \A g \in Handlers : In(channel', Start(g)) <=> In(channel, Start(g))
<1>1. ASSUME NEW h \in Handlers, Base, HandlerNext(h)
      PROVE  /\ \A m : In(channel, m) => In(channel', m)
             /\ \A g \in Handlers : In(channel', Start(g)) <=> In(channel, Start(g)) \/ (g = h /\ Connect(h))
  <2>1. channel \in Seq(Outgoing)
    BY <1>1 DEF Base, TypeOK
  <2>2. Connect(h) <=> Queued(Start(h)) /\ Connect(h)
    BY <1>1, SentFacts DEF Connect, Queued, Queue
  <2>3. ASSUME NEW m, Queued(m)
        PROVE  \A l : In(channel', l) <=> In(channel, l) \/ l = m
    BY <2>1, <2>3, InAppend DEF Queued
  <2>4. CASE Connect(h)
    <3>1. \A l : In(channel', l) <=> In(channel, l) \/ l = Start(h)
      BY <2>2, <2>3, <2>4
    <3>2. QED
      BY <2>4, <3>1, Apart
  <2>5. CASE ~Connect(h) /\ channel' = channel
    BY <2>5
  <2>6. CASE Queued(Data(h)) /\ Read(h)
    <3>1. \A l : In(channel', l) <=> In(channel, l) \/ l = Data(h)
      BY <2>3, <2>6
    <3>2. ~Connect(h)
      BY <2>6 DEF Connect, Read, At
    <3>3. \A g \in Handlers : Data(h) # Start(g)
      BY Apart DEF Data
    <3>4. QED
      BY <3>1, <3>2, <3>3
  <2>7. CASE Queued(CloseOf(id[h])) /\ Eof(h)
    <3>1. \A l : In(channel', l) <=> In(channel, l) \/ l = CloseOf(id[h])
      BY <2>3, <2>7
    <3>2. ~Connect(h)
      BY <2>7 DEF Connect, Eof, At
    <3>3. \A g \in Handlers : CloseOf(id[h]) # Start(g)
      BY Apart DEF CloseOf
    <3>4. QED
      BY <3>1, <3>2, <3>3
  <2>8. QED
    BY <1>1, <2>4, <2>5, <2>6, <2>7, HandlerSteps
<1>2. ASSUME Base, PollTick \/ Cleanup \/ \E i \in Ids : Elapse(i)
      PROVE  /\ \A m : In(channel, m) => In(channel', m)
             /\ \A g \in Handlers : In(channel', Start(g)) <=> In(channel, Start(g))
  <2>1. channel \in Seq(Outgoing) /\ Told
    BY <1>2, TaskSteps DEF Base, TypeOK
  <2>2. PICK s \in Seq(Outgoing) : channel' = channel \o s /\ \A j \in DOMAIN s : s[j].type \in {"Poll", "Close"}
    BY <2>1 DEF Told
  <2>3. \A m : In(channel', m) <=> In(channel, m) \/ In(s, m)
    BY <2>1, <2>2, InConcat
  <2>4. \A g \in Handlers : ~In(s, Start(g))
    BY <2>2, Apart DEF In
  <2>5. QED
    BY <2>3, <2>4
<1>3. QED
  BY <1>1, <1>2

\* What the sender takes from the channel.
LEMMA Takes ==
  ASSUME Base, SenderStep, NEW m
  PROVE  /\ In(channel', m) => In(channel, m)
         /\ In(channel, m) => In(channel', m) \/ (channel # <<>> /\ m = Next1)
<1>1. channel \in Seq(Outgoing)
  BY DEF Base, TypeOK
<1>2. channel' = channel \/ (channel # <<>> /\ channel' = Tail(channel))
  BY SenderSteps DEF Still, Taken, Flushed, FlushedLast
<1>3. QED
  BY <1>1, <1>2, InTail DEF Next1

LEMMA StepCases ==
  [Next]_vars =>
    \/ \E h \in Handlers : HandlerNext(h)
    \/ PollTick \/ Cleanup \/ (\E i \in Ids : Elapse(i))
    \/ SenderStep \/ ServeStart \/ ServeData \/ ServeClose \/ ServePoll
    \/ LoseRequest \/ Route \/ LoseResponse \/ Hang \/ Restart \/ UNCHANGED vars
BY DEF Next, CallStep

\* What a StartConnection brings is routed to the handler that sent it.
LEMMA StartRouted ==
  ASSUME Base, InCall, NEW h \in Handlers, Starting(h)
  PROVE  /\ Starter = h /\ Len(batch) = 1 /\ IsStart(batch[1])
         /\ \A i \in Ids : response[i] = <<>>
         /\ Routed(h) = response[0]
         /\ \A g \in Handlers \ {h} : Routed(g) = <<>>
<1>1. IsStart(batch[1]) /\ batch[1].by = h /\ batch # <<>>
  BY SentFacts DEF Starting
<1>2. 1 \in DOMAIN batch
  BY <1>1 DEF Base, TypeOK
<1>3. Starter = h /\ Len(batch) = 1
  BY <1>1, <1>2 DEF Starter, Base, SenderShape
<1>4. \A i \in Ids : response[i] = <<>>
  BY <1>1 DEF Base, ResponseShape
<1>5. \A g \in Handlers : {i \in Routes : response[i] # <<>> /\ Recipient(i) = g}
        = IF response[0] # <<>> /\ g = h THEN {0} ELSE {}
  BY <1>3, <1>4, RouteFacts DEF Recipient
<1>6. \A S : S = {0} => (CHOOSE i \in S : TRUE) = 0 /\ S # {}
  OBVIOUS
<1>7. \A g \in Handlers : Routed(g) = IF response[0] # <<>> /\ g = h THEN response[0] ELSE <<>>
  <2>1. ASSUME NEW g \in Handlers PROVE Routed(g) = IF response[0] # <<>> /\ g = h THEN response[0] ELSE <<>>
    <3> DEFINE mine == {i \in Routes : response[i] # <<>> /\ Recipient(i) = g}
    <3>1. Routed(g) = IF mine = {} THEN <<>> ELSE response[CHOOSE i \in mine : TRUE]
      BY DEF Routed, ResponsesFor
    <3>2. mine = IF response[0] # <<>> /\ g = h THEN {0} ELSE {}
      BY <1>5
    <3> HIDE DEF mine
    <3>3. QED
      BY <3>1, <3>2, <1>6
  <2>2. QED
    BY <2>1
<1>8. QED
  BY <1>1, <1>3, <1>4, <1>7

--------------------------------------------------------------------------------
(* A handler that waits is owed an answer                                       *)

Awaited(h) ==
  \/ In(channel, Start(h)) \/ sender.held = h \/ Starting(h) \/ inbox[h] # <<>>
  \/ Start(h) \in failed \/ 0 \in missed[h] \/ h \in dropped

OwedInv == \A h \in Handlers : At(h, "waiting") => Awaited(h)

LEMMA OwedKept ==
  ASSUME Base, OwedInv, [Next]_vars
  PROVE  OwedInv'
<1> USE DEF At
<1>0. TypeOK /\ SenderShape /\ ResponseShape
  BY DEF Base
<1>1. ASSUME NEW g \in Handlers, HandlerNext(g)
      PROVE  OwedInv'
  <2>1. UNCHANGED <<senderVars, serverVars, lossVars>> /\ \A h \in Handlers \ {g} : Same(h)
    BY <1>1, HandlerSteps
  <2>2. /\ \A m : In(channel, m) => In(channel', m)
        /\ Connect(g) => In(channel', Start(g))
    BY <1>1, Queues
  <2>3. Connect(g) \/ task'[g] # "waiting"
    BY <1>1, HandlerSteps
  <2>4. ASSUME NEW h \in Handlers, task'[h] = "waiting" PROVE Awaited(h)'
    <3>1. CASE h = g
      BY <2>2, <2>3, <2>4, <3>1 DEF Awaited
    <3>2. CASE h # g
      <4>1. Same(h) /\ Awaited(h)
        BY <2>1, <2>4, <3>2 DEF Same, OwedInv
      <4>2. QED
        BY <2>1, <2>2, <4>1 DEF Same, Awaited, Starting, Start, senderVars, lossVars
    <3>3. QED
      BY <3>1, <3>2
  <2>5. QED
    BY <2>4 DEF OwedInv
<1>2. CASE PollTick \/ Cleanup \/ \E i \in Ids : Elapse(i)
  <2>1. UNCHANGED <<handlerVars, senderVars, lossVars>>
    BY <1>2, TaskSteps
  <2>2. \A m : In(channel, m) => In(channel', m)
    BY <1>2, Queues
  <2>3. QED
    BY <2>1, <2>2 DEF OwedInv, Awaited, Starting, Start, handlerVars, senderVars, lossVars
<1>3. CASE SenderStep
  <2>1. UNCHANGED <<task, inbox, failed, missed>> /\ Idle /\ dropped \subseteq dropped'
    BY <1>3, SenderSteps DEF senderRest, handlerVars, FlushedLast
  <2>2. ASSUME NEW h \in Handlers, task'[h] = "waiting" PROVE Awaited(h)'
    <3>1. Awaited(h) /\ ~Starting(h) /\ sender.held # h
      BY <2>1, <2>2, RouteFacts DEF OwedInv, Idle, Starting
    <3>2. CASE In(channel, Start(h)) /\ ~In(channel', Start(h))
      <4>1. channel # <<>> /\ Next1 = Start(h) /\ IsStart(Next1) /\ Next1.by = h /\ channel' # channel
        BY <1>3, <3>2, Takes, SentFacts
      <4>2. CASE \E f \in Handlers : Flushed(f)
        <5>1. PICK f \in Handlers : Flushed(f)
          BY <4>2
        <5>2. f = h
          BY <4>1, <5>1, Apart DEF Flushed
        <5>3. (batch' = <<Start(h)>> \/ sender'.held = h)
          BY <5>1, <5>2 DEF Flushed
        <5>4. <<Start(h)>> # <<>> /\ <<Start(h)>>[1] = Start(h)
          OBVIOUS
        <5>5. QED
          BY <5>3, <5>4 DEF Awaited, Starting, Start
      <4>3. CASE FlushedLast
        BY <4>1, <4>3 DEF FlushedLast, Awaited
      <4>4. QED
        BY <1>3, <4>1, <4>2, <4>3, SenderSteps DEF Still, Taken
    <3>3. CASE ~(In(channel, Start(h)) /\ ~In(channel', Start(h)))
      <4>1. \/ In(channel', Start(h)) \/ inbox'[h] # <<>>
            \/ Start(h) \in failed' \/ 0 \in missed'[h] \/ h \in dropped'
        BY <2>1, <3>1, <3>3 DEF Awaited
      <4>2. QED
        BY <4>1 DEF Awaited, Start
    <3>4. QED
      BY <3>2, <3>3
  <2>3. QED
    BY <2>2 DEF OwedInv
<1>4. CASE ServeStart \/ ServeData \/ ServeClose \/ ServePoll
  <2>1. Served /\ UNCHANGED serveRest
    BY <1>4, StartStep, ServeSteps, <1>0 DEF Base
  <2>2. QED
    BY <2>1 DEF Served, serveRest, OwedInv, Awaited, Starting, Start, handlerVars, lossVars
<1>5. CASE LoseRequest \/ Route \/ LoseResponse
  <2>1. Back /\ UNCHANGED <<task, dropped>>
    BY <1>5, BackFacts
  <2>2. /\ InCall /\ failed \subseteq failed' /\ \A h \in Handlers : missed[h] \subseteq missed'[h]
        /\ \A h \in Handlers : inbox[h] # <<>> /\ task[h] = "waiting" => inbox'[h] # <<>>
    <3>1. CASE LoseRequest
      BY <3>1 DEF LoseRequest, handlerVars
    <3>2. CASE Route
      <4>1. \A h \in Handlers : inbox[h] \in Seq(Response) /\ Routed(h) \in Seq(Response)
        BY <1>0, RoutedFacts DEF TypeOK, Base
      <4>2. \A h \in Handlers : inbox[h] # <<>> => inbox[h] \o Routed(h) # <<>>
        BY <4>1
      <4>3. QED
        BY <3>2, <4>2 DEF Route, Answered
    <3>3. CASE LoseResponse
      BY <3>3, <1>0 DEF LoseResponse, Answered, handlerVars, TypeOK
    <3>4. QED
      BY <1>5, <3>1, <3>2, <3>3
  <2>3. ASSUME NEW h \in Handlers, task'[h] = "waiting" PROVE Awaited(h)'
    <3>1. Awaited(h)
      BY <2>1, <2>3 DEF OwedInv
    <3>2. CASE sender.held = h
      <4>1. batch' = <<Start(h)>>
        BY <2>1, <3>2, RouteFacts DEF Back
      <4>2. <<Start(h)>> # <<>> /\ <<Start(h)>>[1] = Start(h)
        OBVIOUS
      <4>3. QED
        BY <4>1, <4>2 DEF Awaited, Starting, Start
    <3>3. CASE Starting(h)
      <4>1. /\ Starter = h /\ Len(batch) = 1 /\ IsStart(batch[1]) /\ Routed(h) = response[0]
        BY <2>2, <3>3, StartRouted
      <4>2. CASE LoseRequest
        <5>1. Start(h) \in Range(batch)
          BY <1>0, <3>3, <4>1 DEF Range, Starting, TypeOK
        <5>2. QED
          BY <4>2, <5>1 DEF LoseRequest, Awaited, Start
      <4>3. CASE Route
        <5>1. response[0] # <<>>
          BY <1>0, <3>3, <4>1, <4>3 DEF Route, Answered, Starting, ResponseShape
        <5>2. inbox'[h] = inbox[h] \o response[0]
          BY <2>1, <2>3, <4>1, <4>3 DEF Route
        <5>3. inbox[h] \in Seq(Response) /\ response[0] \in Seq(Response)
          BY <1>0, RouteFacts DEF TypeOK
        <5>4. inbox'[h] # <<>>
          BY <5>1, <5>2, <5>3
        <5>5. QED
          BY <5>4 DEF Awaited
      <4>4. CASE LoseResponse
        BY <4>1, <4>4 DEF LoseResponse, Awaited
      <4>5. QED
        BY <1>5, <4>2, <4>3, <4>4
    <3>4. CASE sender.held # h /\ ~Starting(h)
      <4>1. channel' = channel
        BY <2>1 DEF Back
      <4>2. \/ In(channel', Start(h)) \/ inbox'[h] # <<>>
            \/ Start(h) \in failed' \/ 0 \in missed'[h] \/ h \in dropped'
        BY <2>1, <2>2, <2>3, <3>1, <3>4, <4>1 DEF Awaited
      <4>3. QED
        BY <4>2 DEF Awaited, Start
    <3>5. QED
      BY <3>2, <3>3, <3>4
  <2>4. QED
    BY <2>3 DEF OwedInv
<1>6. CASE Hang
  <2>1. sender'.held = sender.held
    BY <1>0, <1>6 DEF Hang, TypeOK
  <2>2. QED
    BY <1>6, <2>1 DEF Hang, OwedInv, Awaited, Starting, Start, handlerVars, serverVars, lossVars
<1>7. CASE Restart
  BY <1>7 DEF Restart, OwedInv, Awaited, Starting, Start, handlerVars, senderVars, lossVars
<1>8. CASE UNCHANGED vars
  BY <1>8 DEF vars, OwedInv, Awaited, Starting, Start, handlerVars, senderVars, lossVars
<1>9. QED
  BY <1>1, <1>2, <1>3, <1>4, <1>5, <1>6, <1>7, <1>8, StepCases

LEMMA InvariantBase == Spec => []Base
<1>1. Init => Base
  BY InitBase
<1>2. Base /\ [Next]_vars => Base'
  BY BaseKept
<1>3. QED
  BY <1>1, <1>2, PTL DEF Spec

\* The variables of the client keep their types: what the channels hold are
\* messages and responses, and an entry, an open connection and a handler's id
\* are of the ids the server issues.
THEOREM ClientTypeCorrect == Spec => []TypeOK
<1>1. Base => TypeOK
  BY DEF Base
<1>2. QED
  BY <1>1, InvariantBase, PTL

\* A handler that waits for its connection is always owed an answer, whatever
\* else fails: its StartConnection is on its way or in the call, or its answer
\* is in the handler's channel, unless the call failed, the response was lost
\* or the sender's last drain dropped it.
THEOREM ClientOwesAnswer == Spec => []AnswerOwed
<1>1. Init => OwedInv
  BY DEF Init, OwedInv, At
<1>2. Base /\ OwedInv => AnswerOwed
  <2>1. ASSUME Base, OwedInv, NEW h \in Handlers, At(h, "waiting")
        PROVE  Promised(h) \/ Start(h) \in failed \/ 0 \in missed[h] \/ h \in dropped
    <3>1. Awaited(h)
      BY <2>1 DEF OwedInv
    <3>2. In(channel, Start(h)) => Coming(Start(h))
      BY DEF In, Coming, Range
    <3>3. sender.held = h => Coming(Start(h))
      BY RouteFacts DEF Coming
    <3>4. Starting(h) => batch # <<>> /\ Starter = h
      BY SentFacts DEF Starting, Starter
    <3>5. QED
      BY <3>1, <3>2, <3>3, <3>4 DEF Awaited, Promised
  <2>2. QED
    BY <2>1 DEF AnswerOwed
<1>3. OwedInv /\ Base /\ [Next]_vars => OwedInv'
  BY OwedKept
<1>4. QED
  BY <1>1, <1>2, <1>3, InvariantBase, PTL DEF Spec

--------------------------------------------------------------------------------
(* Each StartConnection is somewhere once                                       *)

LEMMA OnceAppend ==
  ASSUME NEW S, NEW s \in Seq(S), NEW e \in S, NEW m, Once(s, m), e # m \/ ~In(s, m)
  PROVE  Once(Append(s, e), m)
BY AppendFacts DEF Once, In

LEMMA OnceTail ==
  ASSUME NEW S, NEW s \in Seq(S), s # <<>>, NEW m, Once(s, m)
  PROVE  Once(Tail(s), m) /\ (Head(s) = m => ~In(Tail(s), m))
<1>1. /\ Head(s) = s[1] /\ 1 \in DOMAIN s /\ DOMAIN Tail(s) = 1 .. Len(s) - 1 /\ Len(s) \in Nat
      /\ \A j \in DOMAIN Tail(s) : Tail(s)[j] = s[j + 1] /\ j + 1 \in DOMAIN s
  BY TailFacts
<1>2. QED
  BY <1>1 DEF Once, In

LEMMA OnceConcat ==
  ASSUME NEW S, NEW s \in Seq(S), NEW t \in Seq(S), NEW m, Once(s, m), ~In(t, m)
  PROVE  Once(s \o t, m)
<1>1. \A j \in DOMAIN (s \o t) : (s \o t)[j] = m => j \in DOMAIN s /\ (s \o t)[j] = s[j]
  <2>1. /\ \A j \in DOMAIN s : (s \o t)[j] = s[j] /\ j \in DOMAIN (s \o t)
        /\ \A j \in DOMAIN (s \o t) : j \notin DOMAIN s =>
              j - Len(s) \in DOMAIN t /\ (s \o t)[j] = t[j - Len(s)]
    BY ConcatFacts
  <2>2. QED
    BY <2>1 DEF In
<1>2. QED
  BY <1>1 DEF Once

\* Routing gives a handler what its entry is for, if it has one.
LEMMA RouteCases ==
  ASSUME Base, InCall, NEW h \in Handlers, ~Starting(h)
  PROVE  /\ (\A i \in Ids : entries[i] # h) => Routed(h) = <<>>
         /\ \A i \in Ids : entries[i] = h => Routed(h) = response[i]
<1>0. TypeOK /\ SenderShape /\ EntryShape
  BY DEF Base
<1>1. batch # <<>> /\ batch \in Seq(Outgoing)
  BY <1>0 DEF InCall, SenderAt, SenderShape, TypeOK
<1>2. batch[1] \in Outgoing
  BY <1>1, TailFacts
<1>3. Starter # h
  BY <1>1, <1>2, MessageFacts, RouteFacts DEF Starter, Starting
<1> DEFINE mine == {i \in Routes : response[i] # <<>> /\ Recipient(i) = h}
           k == CHOOSE i \in mine : TRUE
<1>4. Routed(h) = IF mine = {} THEN <<>> ELSE response[k]
  BY DEF Routed, ResponsesFor
<1>5. mine # {} => k \in mine
  OBVIOUS
<1>6. \A i \in mine : i \in Ids /\ entries[i] = h
  BY <1>3, RouteFacts DEF Recipient
<1>7. ASSUME NEW i \in Ids, entries[i] = h
      PROVE  Routed(h) = response[i]
  <2>1. \A j \in mine : j = i
    <3>1. \A j \in mine : id[h] = j
      BY <1>0, <1>6 DEF EntryShape
    <3>2. id[h] = i
      BY <1>0, <1>7 DEF EntryShape
    <3>3. QED
      BY <3>1, <3>2
  <2>2. mine = {} => response[i] = <<>>
    BY <1>7, RouteFacts DEF Recipient
  <2> HIDE DEF k, mine
  <2>3. QED
    BY <1>4, <1>5, <2>1, <2>2
<1>8. ASSUME \A i \in Ids : entries[i] # h
      PROVE  Routed(h) = <<>>
  <2>1. mine = {}
    BY <1>6, <1>8
  <2>2. QED
    BY <1>4, <2>1
<1>9. QED
  BY <1>7, <1>8

\* The message served is the next of the batch.
LEMMA ServedFacts ==
  ASSUME TypeOK, Served
  PROVE  /\ served + 1 \in DOMAIN batch /\ Message = batch[served + 1] /\ served \in Nat
         /\ served' \in Nat /\ Len(batch) \in Nat
         /\ \A m : Unserved(m) <=> Unserved(m)' \/ m = Message
<1>1. batch \in Seq(Outgoing) /\ served \in 0 .. Len(batch) /\ Len(batch) \in Nat
  BY DEF TypeOK
<1>2. served + 1 .. Len(batch) = {served + 1} \union (served' + 1 .. Len(batch'))
  BY <1>1 DEF Served
<1>3. batch' = batch
  BY DEF Served
<1>4. QED
  BY <1>1, <1>2, <1>3 DEF Unserved, Message, Served

\* A chunk of an application arrives at the target its message's id is for.
Arrives(h) ==
  /\ Message.type = "Data" /\ open[Message.id] = h
  /\ arrived'[h] = Append(arrived[h], [of |-> Message.by, n |-> Message.n])

LEMMA ArriveSteps ==
  ASSUME Base, ServeData \/ ServeClose \/ ServePoll
  PROVE  /\ \A h \in Handlers : arrived'[h] = arrived[h] \/ Arrives(h)
         /\ Message.type = "Data" => IF IsOpen(Message.id)
                                     THEN Message.id \in Ids /\ open[Message.id] \in Handlers
                                            /\ Arrives(open[Message.id])
                                     ELSE arrived' = arrived
<1>0. /\ TypeOK /\ Message \in Outgoing
  BY ServeSteps DEF Base
<1>1. arrived \in [Handlers -> Seq(Chunk)] /\ open \in [Ids -> Handlers \union {NoHandler}]
  BY <1>0 DEF TypeOK
<1>2. CASE ServeData
  <2>1. Message.type = "Data" /\ Message.id \in Ids
    BY <1>0, <1>2, MessageFacts DEF ServeData, Processing, Message
  <2>2. CASE IsOpen(Message.id)
    <3>1. open[Message.id] \in Handlers
      BY <1>1, <2>1, <2>2 DEF IsOpen
    <3>2. arrived' = [arrived EXCEPT ![open[Message.id]] = Append(@, [of |-> Message.by, n |-> Message.n])]
      BY <1>2, <2>2 DEF ServeData
    <3>3. QED
      BY <1>1, <2>1, <2>2, <3>1, <3>2 DEF Arrives
  <2>3. CASE ~IsOpen(Message.id)
    BY <1>2, <2>3 DEF ServeData
  <2>4. QED
    BY <2>2, <2>3
<1>3. CASE ServeClose \/ ServePoll
  BY <1>3 DEF ServeClose, ServePoll, Processing, Message
<1>4. QED
  BY <1>2, <1>3

\* Nothing else arrives anywhere.
LEMMA ArrivalSteps ==
  ASSUME Base, [Next]_vars, NEW h \in Handlers
  PROVE  \/ arrived'[h] = arrived[h]
         \/ (ServeData \/ ServeClose \/ ServePoll) /\ Arrives(h)
<1>1. CASE \E g \in Handlers : HandlerNext(g)
  BY <1>1, HandlerSteps DEF serverVars
<1>2. CASE PollTick \/ Cleanup \/ \E j \in Ids : Elapse(j)
  BY <1>2, TaskSteps DEF serverVars
<1>3. CASE SenderStep
  BY <1>3, SenderSteps DEF senderRest
<1>4. CASE ServeStart
  BY <1>4, StartStep
<1>5. CASE ServeData \/ ServeClose \/ ServePoll
  BY <1>5, ArriveSteps
<1>6. CASE LoseRequest \/ Route \/ LoseResponse
  BY <1>6, BackFacts
<1>7. CASE Hang \/ Restart \/ UNCHANGED vars
  BY <1>7 DEF Hang, Restart, vars, serverVars
<1>8. QED
  BY <1>1, <1>2, <1>3, <1>4, <1>5, <1>6, <1>7, StepCases

\* What is new in the sender's hands is what it took from the channel.
LEMMA StartTaken ==
  ASSUME Base, SenderStep, NEW h \in Handlers
  PROVE  /\ Starting(h)' \/ sender'.held = h \/ Unserved(Start(h))' => Flushed(h)
         /\ Flushed(h) => In(channel, Start(h)) /\ Next1 = Start(h) /\ ~(Starting(h)' /\ sender'.held = h)
<1>0. SenderShape /\ channel \in Seq(Outgoing) /\ pending \in Seq(Outgoing)
  BY DEF Base, TypeOK
<1>1. Idle /\ ~Starting(h) /\ ~Unserved(Start(h)) /\ sender.held # h
  BY SenderSteps, RouteFacts DEF Idle, Starting, Unserved
<1>2. ~In(pending, Start(h)) /\ (pending # <<>> => pending[1] # Start(h))
  <2>1. \A j \in DOMAIN pending : pending[j] # Start(h)
    BY <1>0, SentFacts DEF SenderShape
  <2>2. pending # <<>> => 1 \in DOMAIN pending
    BY <1>0
  <2>3. QED
    BY <2>1, <2>2 DEF In
<1>3. CASE Still \/ Taken
  BY <1>1, <1>3 DEF Still, Taken, Starting, Unserved, Start, Flushed, Idle
<1>4. CASE \E g \in Handlers : Flushed(g)
  <2>1. PICK g \in Handlers : Flushed(g)
    BY <1>4
  <2>2. In(channel, Start(g)) /\ Next1 = Start(g)
    BY <1>0, <2>1, TailFacts DEF Flushed, In, Next1
  <2>3. CASE pending = <<>> /\ batch' = <<Start(g)>> /\ sender'.held = NoHandler
    <3>1. DOMAIN <<Start(g)>> = {1} /\ <<Start(g)>>[1] = Start(g) /\ Len(<<Start(g)>>) = 1
      OBVIOUS
    <3>2. Starting(h)' \/ Unserved(Start(h))' => Start(g) = Start(h)
      BY <2>1, <2>3, <3>1 DEF Starting, Unserved, Start, Flushed
    <3>3. QED
      BY <2>1, <2>2, <2>3, <3>2, Apart, RouteFacts DEF Flushed
  <2>4. CASE pending # <<>> /\ batch' = pending /\ sender'.held = g
    <3>1. ~Unserved(Start(h))' /\ ~Starting(h)'
      BY <1>0, <1>2, <2>1, <2>4 DEF Unserved, Starting, Start, In, Flushed
    <3>2. QED
      BY <2>1, <2>2, <2>4, <3>1, Apart DEF Flushed
  <2>5. QED
    BY <2>1, <2>3, <2>4 DEF Flushed
<1>5. CASE FlushedLast
  <2>1. ~Unserved(Start(h))' /\ ~Starting(h)' /\ sender'.held # h
    BY <1>0, <1>2, <1>5, RouteFacts DEF Unserved, Starting, Start, In, FlushedLast
  <2>2. ~Flushed(h)
    <3>1. batch' # <<Start(h)>>
      <4>1. <<Start(h)>> # <<>> /\ <<Start(h)>>[1] = Start(h)
        OBVIOUS
      <4>2. QED
        BY <1>2, <1>5, <4>1 DEF FlushedLast
    <3>2. QED
      BY <2>1, <3>1 DEF Flushed
  <2>3. QED
    BY <2>1, <2>2
<1>6. QED
  BY <1>3, <1>4, <1>5, SenderSteps

LEMMA StartHandler ==
  ASSUME Base, StartInv, NEW g \in Handlers, HandlerNext(g)
  PROVE  StartInv' /\ \A h \in Handlers : Newborn(h)' => Newborn(h)
<1>0. channel \in Seq(Outgoing)
  BY DEF Base, TypeOK
<1>1. /\ UNCHANGED <<senderVars, serverVars, lossVars>> /\ \A h \in Handlers \ {g} : Same(h)
      /\ \/ Connect(g)
         \/ /\ task[g] # "idle" /\ task'[g] \notin {"idle", "waiting"}
            /\ task[g] = "waiting" => inbox[g] # <<>>
  BY HandlerSteps
<1>2. /\ UNCHANGED <<batch, sender, served, open, arrived>>
      /\ \A h \in Handlers : /\ In(channel', Start(h)) <=> In(channel, Start(h)) \/ (h = g /\ Connect(g))
                             /\ Unserved(Start(h))' <=> Unserved(Start(h))
                             /\ Starting(h)' <=> Starting(h)
  BY <1>1, Queues DEF senderVars, serverVars, Unserved, Starting, Start
<1>3. \A h \in Handlers : Once(channel', Start(h))
  <2>1. ASSUME NEW h \in Handlers PROVE Once(channel', Start(h))
    <3>1. Once(channel, Start(h))
      BY DEF StartInv
    <3>2. PICK m : channel' = channel \/ (Queued(m) /\ ((m = Start(g) /\ Connect(g)) \/ m = Data(g) \/ m = CloseOf(id[g])))
      BY HandlerSteps
    <3>3. CASE channel' = channel
      BY <3>1, <3>3
    <3>4. CASE Queued(m) /\ m = Start(g) /\ Connect(g)
      <4>1. h # g => m # Start(h)
        BY <3>4, Apart
      <4>2. h = g => ~In(channel, Start(h))
        BY <3>4 DEF Connect, At, StartInv
      <4>3. QED
        BY <1>0, <3>1, <3>4, <4>1, <4>2, OnceAppend DEF Queued
    <3>5. CASE Queued(m) /\ (m = Data(g) \/ m = CloseOf(id[g]))
      <4>1. m # Start(h)
        BY <3>5 DEF Data, CloseOf, Start
      <4>2. QED
        BY <1>0, <3>1, <3>5, <4>1, OnceAppend DEF Queued
    <3>6. QED
      BY <3>2, <3>3, <3>4, <3>5
  <2>2. QED
    BY <2>1
<1>4. ASSUME NEW h \in Handlers
      PROVE  /\ Newborn(h)' => Untouched(h)'
             /\ task'[h] = "idle" => ~In(channel', Start(h)) /\ sender'.held # h
             /\ Starting(h)' => task'[h] = "waiting" /\ inbox'[h] = <<>>
             /\ sender'.held = h => ~In(channel', Start(h))
             /\ Starting(h)' => ~In(channel', Start(h)) /\ sender'.held # h
             /\ Newborn(h)' => Newborn(h)
  <2>0. /\ Newborn(h) => Untouched(h)
        /\ task[h] = "idle" => ~In(channel, Start(h)) /\ sender.held # h
        /\ Starting(h) => task[h] = "waiting" /\ inbox[h] = <<>>
        /\ sender.held = h => ~In(channel, Start(h))
        /\ Starting(h) => ~In(channel, Start(h)) /\ sender.held # h
    BY DEF StartInv
  <2>1. CASE h # g
    <3>1. Same(h)
      BY <1>1, <2>1
    <3>2. Newborn(h)' => Newborn(h)
      BY <1>2, <2>1, <3>1 DEF Newborn, Same, Start
    <3>3. Untouched(h) => Untouched(h)'
      BY <1>2, <3>1 DEF Untouched, Same
    <3>4. QED
      BY <1>2, <2>0, <2>1, <3>1, <3>2, <3>3 DEF Same
  <2>2. CASE h = g /\ Connect(g)
    <3>1. task[h] = "idle" /\ task'[h] = "waiting" /\ UNCHANGED <<inbox, reads, got>>
      BY <2>2 DEF Connect, At, Goto, Base, TypeOK
    <3>2. Newborn(h)
      BY <3>1 DEF Newborn
    <3>3. Untouched(h)'
      BY <1>2, <2>0, <3>1, <3>2 DEF Untouched
    <3>4. QED
      BY <1>2, <2>0, <3>1, <3>2, <3>3
  <2>3. CASE h = g /\ ~Connect(g)
    <3>1. task[h] # "idle" /\ task'[h] \notin {"idle", "waiting"} /\ (task[h] = "waiting" => inbox[h] # <<>>)
      BY <1>1, <2>3
    <3>2. ~Newborn(h) /\ ~Starting(h)
      BY <2>0, <3>1 DEF Untouched
    <3>3. ~Newborn(h)'
      BY <1>2, <2>3, <3>1, <3>2 DEF Newborn, Start
    <3>4. QED
      BY <1>2, <2>3, <3>1, <3>2, <3>3 DEF Newborn
  <2>4. QED
    BY <2>1, <2>2, <2>3
<1>5. QED
  BY <1>3, <1>4 DEF StartInv, Start

LEMMA StartSender ==
  ASSUME Base, StartInv, SenderStep
  PROVE  StartInv' /\ \A h \in Handlers : Newborn(h)' => Newborn(h)
<1>0. channel \in Seq(Outgoing)
  BY DEF Base, TypeOK
<1>1. UNCHANGED <<task, id, reads, inbox, open, arrived, got>>
  BY SenderSteps DEF senderRest, handlerVars
<1>2. ASSUME NEW h \in Handlers
      PROVE  /\ Newborn(h)' => Untouched(h)'
             /\ task'[h] = "idle" => ~In(channel', Start(h)) /\ sender'.held # h
             /\ Starting(h)' => task'[h] = "waiting" /\ inbox'[h] = <<>>
             /\ sender'.held = h => ~In(channel', Start(h))
             /\ Starting(h)' => ~In(channel', Start(h)) /\ sender'.held # h
             /\ Once(channel', Start(h))
             /\ Newborn(h)' => Newborn(h)
  <2>0. /\ Newborn(h) => Untouched(h)
        /\ task[h] = "idle" => ~In(channel, Start(h)) /\ sender.held # h
        /\ Once(channel, Start(h))
    BY DEF StartInv
  <2>1. /\ Starting(h)' \/ sender'.held = h \/ Unserved(Start(h))' => Flushed(h)
        /\ Flushed(h) => In(channel, Start(h)) /\ Next1 = Start(h) /\ ~(Starting(h)' /\ sender'.held = h)
    BY StartTaken
  <2>2. In(channel', Start(h)) => In(channel, Start(h))
    BY Takes
  <2>3. Flushed(h) => ~In(channel', Start(h))
    BY <1>0, <2>0, <2>1, OnceTail DEF Flushed, Next1
  <2>4. Once(channel', Start(h))
    <3>1. channel' = channel \/ (channel # <<>> /\ channel' = Tail(channel))
      BY SenderSteps DEF Still, Taken, Flushed, FlushedLast
    <3>2. QED
      BY <1>0, <2>0, <3>1, OnceTail
  <2>5. Newborn(h)' => Newborn(h)
    BY <1>1, <2>1, <2>2 DEF Newborn, Start
  <2>6. Untouched(h) => Untouched(h)'
    BY <1>1 DEF Untouched
  <2>7. Flushed(h) => Untouched(h) /\ task[h] # "idle"
    BY <2>0, <2>1 DEF Newborn
  <2>8. QED
    BY <1>1, <2>0, <2>1, <2>2, <2>3, <2>4, <2>5, <2>6, <2>7 DEF Untouched
<1>3. QED
  BY <1>2 DEF StartInv, Start

LEMMA StartServe ==
  ASSUME Base, StartInv, ServeStart \/ ServeData \/ ServeClose \/ ServePoll
  PROVE  StartInv' /\ \A h \in Handlers : Newborn(h)' => Newborn(h)
<1>0. TypeOK
  BY DEF Base
<1>1. Served /\ UNCHANGED <<task, inbox, reads, got, channel, batch, sender>>
  BY StartStep, ServeSteps DEF serveRest, handlerVars, Served
<1>2. \A h \in Handlers : /\ Newborn(h)' => Newborn(h)
                          /\ Starting(h)' <=> Starting(h)
                          /\ In(channel', Start(h)) <=> In(channel, Start(h))
  BY <1>0, <1>1, ServedFacts DEF Newborn, Starting, Start
<1>3. ASSUME NEW h \in Handlers, Newborn(h)', Untouched(h)
      PROVE  Untouched(h)'
  <2>1. CASE ServeStart
    <3>1. PICK g \in Handlers : batch[1] = Start(g) /\ (Opened(g) \/ NotOpened)
      BY <2>1, StartStep
    <3>2. served = 0 /\ Len(batch) = 1 /\ arrived' = arrived
      BY <2>1, StartStep
    <3>3. batch # <<>> /\ Starting(g) /\ ~Unserved(Start(h))'
      BY <1>1, <3>1, <3>2 DEF Starting, Unserved, Served
    <3>4. h # g
      BY <1>1, <1>3, <3>3 DEF Newborn, StartInv, Start
    <3>5. \A i \in Ids : open'[i] # h
      BY <1>3, <3>1, <3>4 DEF Opened, NotOpened, Untouched
    <3>6. QED
      BY <1>1, <1>3, <3>2, <3>5 DEF Untouched
  <2>2. CASE ServeData \/ ServeClose \/ ServePoll
    <3>1. \A i \in Ids : open'[i] # h
      <4>1. ASSUME NEW i \in Ids PROVE open'[i] # h
        <5>1. PICK more \in BOOLEAN, ends \in BOOLEAN : Answers(i, more, ends)
          BY <2>2, ServeSteps
        <5>2. QED
          BY <1>3, <5>1, RouteFacts DEF Answers, Untouched
      <4>2. QED
        BY <4>1
    <3>2. arrived'[h] = arrived[h]
      <4>1. arrived'[h] = arrived[h] \/ Arrives(h)
        BY <2>2, ArriveSteps
      <4>2. Message \in Outgoing
        BY <2>2, ServeSteps
      <4>3. ~Arrives(h)
        BY <1>3, <4>2, MessageFacts DEF Arrives, Untouched
      <4>4. QED
        BY <4>1, <4>3
    <3>3. QED
      BY <1>1, <1>3, <3>1, <3>2 DEF Untouched
  <2>3. QED
    BY <2>1, <2>2
<1>4. QED
  BY <1>1, <1>2, <1>3 DEF StartInv, Start

LEMMA StartBack ==
  ASSUME Base, StartInv, LoseRequest \/ Route \/ LoseResponse
  PROVE  StartInv' /\ \A h \in Handlers : Newborn(h)' => Newborn(h)
<1>0. TypeOK /\ EntryShape /\ SenderShape
  BY DEF Base
<1>1. Back /\ UNCHANGED <<task, id, reads, open, got, arrived>> /\ InCall
  BY BackFacts DEF LoseRequest, Route, LoseResponse, Answered
<1>2. ASSUME NEW h \in Handlers
      PROVE  /\ Starting(h)' \/ Unserved(Start(h))' => sender.held = h
             /\ sender'.held # h /\ channel' = channel
  <2>1. channel' = channel /\ sender'.held = NoHandler /\ served' = 0
    BY <1>1 DEF Back
  <2>2. CASE sender.held # NoHandler /\ batch' = <<Start(sender.held)>>
    <3>1. DOMAIN <<Start(sender.held)>> = {1} /\ <<Start(sender.held)>>[1] = Start(sender.held)
          /\ Len(<<Start(sender.held)>>) = 1
      OBVIOUS
    <3>2. Starting(h)' \/ Unserved(Start(h))' => Start(h) = Start(sender.held)
      BY <2>1, <2>2, <3>1 DEF Starting, Unserved, Start
    <3>3. sender.held \in Handlers
      BY <1>0, <2>2 DEF TypeOK
    <3>4. QED
      BY <2>1, <3>2, <3>3, Apart, RouteFacts
  <2>3. CASE batch' = <<>>
    <3>1. Len(<<>>) = 0
      OBVIOUS
    <3>2. ~Starting(h)' /\ ~Unserved(Start(h))'
      BY <2>1, <2>3, <3>1 DEF Starting, Unserved
    <3>3. QED
      BY <2>1, <3>2, RouteFacts
  <2>4. QED
    BY <1>1, <2>2, <2>3 DEF Back
<1>3. ASSUME NEW h \in Handlers, Newborn(h)
      PROVE  inbox'[h] = <<>>
  <2>1. Untouched(h)
    BY <1>3 DEF StartInv
  <2>2. CASE Route
    <3>1. served = Len(batch)
      BY <2>2 DEF Route, Answered
    <3>2. ~Unserved(Start(h))
      BY <1>0, <3>1 DEF Unserved, TypeOK
    <3>3. ~Starting(h)
      BY <1>3, <3>2 DEF Newborn, StartInv
    <3>4. \A i \in Ids : entries[i] # h
      BY <1>0, <2>1 DEF EntryShape, Untouched, Relaying
    <3>5. Routed(h) = <<>>
      BY <1>1, <3>3, <3>4, RouteCases
    <3>6. QED
      BY <2>1, <2>2, <3>5 DEF Route, Untouched
  <2>3. CASE LoseRequest \/ LoseResponse
    BY <2>1, <2>3 DEF LoseRequest, LoseResponse, handlerVars, Untouched
  <2>4. QED
    BY <2>2, <2>3
<1>4. ASSUME NEW h \in Handlers
      PROVE  /\ Newborn(h)' => Newborn(h)
             /\ Newborn(h) => Untouched(h)'
  <2>1. Newborn(h)' => Newborn(h)
    BY <1>1, <1>2 DEF Newborn, Start
  <2>2. Newborn(h) => Untouched(h)'
    BY <1>1, <1>3 DEF StartInv, Untouched
  <2>3. QED
    BY <2>1, <2>2
<1>5. ASSUME NEW h \in Handlers
      PROVE  /\ Newborn(h)' => Untouched(h)'
             /\ task'[h] = "idle" => ~In(channel', Start(h)) /\ sender'.held # h
             /\ Starting(h)' => task'[h] = "waiting" /\ inbox'[h] = <<>>
             /\ sender'.held = h => ~In(channel', Start(h))
             /\ Starting(h)' => ~In(channel', Start(h)) /\ sender'.held # h
             /\ Once(channel', Start(h))
             /\ Newborn(h)' => Newborn(h)
  <2>0. /\ task[h] = "idle" => ~In(channel, Start(h)) /\ sender.held # h
        /\ sender.held = h => ~In(channel, Start(h))
        /\ Once(channel, Start(h))
    BY DEF StartInv
  <2>1. Starting(h)' => task'[h] = "waiting" /\ inbox'[h] = <<>>
    <3>1. Starting(h)' => Newborn(h) /\ sender.held = h
      BY <1>2 DEF Newborn
    <3>2. QED
      BY <1>1, <1>4, <2>0, <3>1 DEF Untouched
  <2>2. QED
    BY <1>1, <1>2, <1>4, <2>0, <2>1
<1>6. QED
  BY <1>5 DEF StartInv, Start

LEMMA StartKept ==
  ASSUME Base, StartInv, [Next]_vars
  PROVE  StartInv' /\ \A h \in Handlers : Newborn(h)' => Newborn(h)
<1>0. TypeOK
  BY DEF Base
<1>1. CASE PollTick \/ Cleanup \/ \E i \in Ids : Elapse(i)
  <2>1. /\ UNCHANGED <<task, inbox, reads, got, arrived, open, batch, sender, served>> /\ Told
        /\ channel \in Seq(Outgoing)
    BY <1>0, <1>1, TaskSteps DEF handlerVars, senderVars, serverVars, TypeOK
  <2>2. \A h \in Handlers : In(channel', Start(h)) <=> In(channel, Start(h))
    BY <1>1, Queues
  <2>3. \A h \in Handlers : Once(channel', Start(h))
    <3>1. PICK s \in Seq(Outgoing) : channel' = channel \o s /\ \A j \in DOMAIN s : s[j].type \in {"Poll", "Close"}
      BY <2>1 DEF Told
    <3>2. \A h \in Handlers : ~In(s, Start(h)) /\ Once(channel, Start(h))
      BY <3>1, Apart DEF In, StartInv
    <3>3. QED
      BY <2>1, <3>1, <3>2, OnceConcat
  <2>4. \A h \in Handlers : /\ Newborn(h)' <=> Newborn(h)
                            /\ Untouched(h)' <=> Untouched(h)
                            /\ Starting(h)' <=> Starting(h)
    BY <2>1, <2>2 DEF Newborn, Untouched, Starting, Unserved, Start
  <2>5. QED
    BY <2>1, <2>2, <2>3, <2>4 DEF StartInv, Start
<1>2. CASE Hang \/ Restart \/ UNCHANGED vars
  <2>1. /\ UNCHANGED <<channel, task, inbox, reads, got, arrived, batch, served, sender.held>>
        /\ \A i \in Ids : open'[i] \in {open[i], NoHandler}
    BY <1>0, <1>2 DEF Hang, Restart, vars, handlerVars, senderVars, serverVars, TypeOK
  <2>2. \A h \in Handlers : /\ Newborn(h)' <=> Newborn(h)
                            /\ Untouched(h) => Untouched(h)'
                            /\ Starting(h)' <=> Starting(h)
    BY <2>1, RouteFacts DEF Newborn, Untouched, Starting, Unserved, Start
  <2>3. QED
    BY <2>1, <2>2 DEF StartInv, Start
<1>3. QED
  BY <1>1, <1>2, StartHandler, StartSender, StartServe, StartBack, StepCases

LEMMA InvariantStart == Spec => []StartInv
<1>1. Init => StartInv
  <2>1. \A m : ~In(<<>>, m) /\ Once(<<>>, m)
    BY NoneIn DEF In, Once
  <2>2. QED
    BY <2>1, RouteFacts DEF Init, StartInv, Starting, Untouched
<1>2. Base /\ StartInv /\ [Next]_vars => StartInv'
  BY StartKept
<1>3. QED
  BY <1>1, <1>2, InvariantBase, PTL DEF Spec

--------------------------------------------------------------------------------
(* Ids are not shared                                                           *)

\* What a handler's step does with what the handler has.
LEMMA HandlerHas ==
  ASSUME Base, NEW h \in Handlers, HandlerNext(h)
  PROVE  /\ \A x : In(inbox'[h], x) => In(inbox[h], x)
         /\ \/ id'[h] = id[h]
            \/ id[h] = 0 /\ id'[h] \in Ids /\ In(inbox[h], Offer(id'[h]))
         /\ \/ got'[h] = got[h]
            \/ /\ Deliver(h) /\ inbox[h] # <<>> /\ Head(inbox[h]).kind = "Data" /\ inbox'[h] = Tail(inbox[h])
               /\ got'[h] = Append(got[h], [of |-> Head(inbox[h]).of, n |-> Head(inbox[h]).n])
         /\ \/ reads'[h] = reads[h] /\ ~Read(h)
            \/ reads'[h] = reads[h] + 1 /\ Read(h)
<1>0. TypeOK /\ HandlerShape
  BY DEF Base
<1>1. /\ inbox \in [Handlers -> Seq(Response)] /\ inbox[h] \in Seq(Response)
      /\ id \in [Handlers -> Ids \union {0}] /\ reads \in [Handlers -> 0 .. MaxReads]
      /\ got \in [Handlers -> Seq(Chunk)]
  BY <1>0 DEF TypeOK
<1>2. \A x : ~In(<<>>, x)
  BY InNone
<1>3. inbox[h] # <<>> => \A x : In(Tail(inbox[h]), x) => In(inbox[h], x)
  BY <1>1, InTail
<1>4. CASE Challenged(h)
  <2>1. inbox[h] # <<>> /\ Head(inbox[h]).kind = "Challenge" /\ task[h] = "waiting"
    BY <1>4 DEF Challenged, Heard, At
  <2>2. Head(inbox[h]) \in Response
    BY <1>0, <2>1, InboxHead
  <2>3. Head(inbox[h]).id \in Ids /\ Head(inbox[h]) = Offer(Head(inbox[h]).id)
    BY <2>1, <2>2, ResponseFacts
  <2>4. In(inbox[h], Head(inbox[h]))
    BY <1>1, <2>1, InTail
  <2>5. id'[h] = Head(inbox[h]).id /\ id[h] = 0 /\ inbox'[h] = Tail(inbox[h])
    BY <1>0, <1>1, <1>4, <2>1 DEF Challenged, Consume, IdOffered, HandlerShape
  <2>6. got' = got /\ reads' = reads /\ ~Read(h)
    BY <1>4, <2>1 DEF Challenged, Read, At
  <2>7. QED
    BY <1>3, <2>1, <2>3, <2>4, <2>5, <2>6
<1>5. CASE Deliver(h)
  <2>1. inbox[h] # <<>> /\ Head(inbox[h]).kind = "Data" /\ inbox'[h] = Tail(inbox[h]) /\ UNCHANGED <<id, reads>>
    BY <1>1, <1>5 DEF Deliver, Heard, Consume
  <2>2. got'[h] = Append(got[h], [of |-> Head(inbox[h]).of, n |-> Head(inbox[h]).n])
    BY <1>1, <1>5 DEF Deliver
  <2>3. ~Read(h)
    BY <1>1, <2>1 DEF Read
  <2>4. QED
    BY <1>3, <1>5, <2>1, <2>2, <2>3
<1>6. CASE Read(h)
  BY <1>1, <1>6 DEF Read
<1>7. CASE Connect(h) \/ Register(h) \/ Replied(h) \/ Eof(h) \/ Closed(h) \/ Orphaned(h)
  <2>1. UNCHANGED <<id, reads, inbox, got>>
    BY <1>7 DEF Connect, Register, Replied, Eof, Closed, Orphaned
  <2>2. ~Read(h)
    BY <1>1, <2>1 DEF Read
  <2>3. QED
    BY <2>1, <2>2
<1>8. CASE Refused(h) \/ ReplyFails(h) \/ DeliverFails(h) \/ RemoveEntry(h)
  <2>1. UNCHANGED <<id, reads, got>> /\ inbox'[h] = <<>>
    BY <1>1, <1>8 DEF Refused, ReplyFails, DeliverFails, RemoveEntry, End
  <2>2. ~Read(h)
    BY <1>1, <2>1 DEF Read
  <2>3. QED
    BY <1>2, <2>1, <2>2
<1>9. QED
  BY <1>4, <1>5, <1>6, <1>7, <1>8 DEF HandlerNext, HandlerStep

\* No StartConnection of a newborn is served, so that no id is its own.
LEMMA NewbornUses ==
  ASSUME Base, StartInv, NEW h \in Handlers, Newborn(h), NEW i \in Ids
  PROVE  ~Uses(h, i)
<1>0. TypeOK /\ HandlerShape /\ ResponseShape /\ SenderShape /\ Untouched(h)
  BY DEF Base, StartInv
<1>1. open[i] # h /\ id[h] # i /\ ~In(inbox[h], Offer(i))
  BY <1>0, RouteFacts, InNone DEF Untouched, HandlerShape
<1>2. CASE Starting(h)
  <2>1. Unserved(Start(h))
    BY <1>2 DEF Newborn, StartInv
  <2>2. IsStart(batch[1]) /\ 1 \in DOMAIN batch
    BY <1>0, <1>2, SentFacts DEF Starting, TypeOK
  <2>3. Len(batch) = 1
    BY <1>0, <2>2 DEF SenderShape
  <2>4. served = 0
    BY <1>0, <2>1, <2>3 DEF Unserved, TypeOK
  <2>5. response[0] = <<>>
    BY <1>0, <2>4, RouteFacts DEF ResponseShape
  <2>6. QED
    BY <1>1, <2>5, InNone DEF Uses
<1>3. QED
  BY <1>1, <1>2 DEF Uses

\* Whoever gets an id has it from its own Challenge.
LEMMA UsesSteps ==
  ASSUME Base, StartInv, [Next]_vars, NEW h \in Handlers, NEW i \in Ids, Uses(h, i)'
  PROVE  \/ Uses(h, i)
         \/ ServeStart /\ Opened(h) /\ Newborn(h) /\ i = nextId
<1>0. TypeOK /\ SenderShape /\ ResponseShape /\ EntryShape
  BY DEF Base
<1>1. ASSUME NEW g \in Handlers, HandlerNext(g) PROVE Uses(h, i)
  <2>1. UNCHANGED <<open, batch, response>>
    BY <1>1, HandlerSteps DEF senderVars, serverVars
  <2>2. CASE g = h
    BY <1>1, <2>1, <2>2, HandlerHas DEF Uses, Starting, Start, Offer
  <2>3. CASE g # h
    <3>1. Same(h)
      BY <1>1, <2>3, HandlerSteps
    <3>2. QED
      BY <2>1, <3>1 DEF Uses, Starting, Start, Offer, Same
  <2>4. QED
    BY <2>2, <2>3
<1>2. CASE PollTick \/ Cleanup \/ \E j \in Ids : Elapse(j)
  <2>1. UNCHANGED <<open, id, inbox, batch, response>>
    BY <1>2, TaskSteps DEF handlerVars, senderVars, serverVars
  <2>2. QED
    BY <2>1 DEF Uses, Starting, Start, Offer
<1>3. CASE SenderStep
  <2>1. UNCHANGED <<open, id, inbox>> /\ response' = NoResponses
    BY <1>3, SenderSteps DEF senderRest, handlerVars, Still, Taken, Flushed, FlushedLast, Idle
  <2>2. ~In(response'[0], Offer(i)')
    BY <2>1, RouteFacts, InNone
  <2>3. QED
    BY <2>1, <2>2 DEF Uses, Offer
<1>4. CASE ServeStart
  <2>1. PICK g \in Handlers : batch[1] = Start(g) /\ Message = Start(g) /\ (Opened(g) \/ NotOpened)
    BY <1>4, StartStep
  <2>2. Served /\ served = 0 /\ Len(batch) = 1 /\ UNCHANGED <<id, inbox>>
    BY <1>4, StartStep DEF serveRest, handlerVars
  <2>3. Newborn(g) /\ batch' = batch
    BY <1>0, <2>1, <2>2, ServedFacts DEF Newborn, Served
  <2>4. Starting(h)' => h = g
    BY <2>1, <2>3, Apart DEF Starting, Start
  <2>5. CASE Opened(g)
    <3>1. \A m : In(response'[0], m) <=> m = Offer(nextId)
      BY <2>5, InOne DEF Opened
    <3>2. Starting(h)' /\ In(response'[0], Offer(i)) => h = g /\ i = nextId
      <4>1. nextId \in Ids
        BY <2>5 DEF Opened
      <4>2. QED
        BY <2>4, <3>1, <4>1, Apart
    <3>3. open'[i] = h => open[i] = h \/ (h = g /\ i = nextId)
      BY <2>5 DEF Opened
    <3>4. QED
      BY <1>4, <2>2, <2>3, <2>5, <3>2, <3>3 DEF Uses, Offer
  <2>6. CASE NotOpened
    <3>1. \A m : In(response'[0], m) <=> m = [kind |-> "Error"]
      BY <2>6, InOne DEF NotOpened
    <3>2. Offer(i) # [kind |-> "Error"]
      <4>1. Offer(i).kind = "Challenge" /\ [kind |-> "Error"].kind = "Error"
        BY AnswerFacts
      <4>2. QED
        BY <4>1
    <3>3. QED
      BY <2>2, <2>6, <3>1, <3>2 DEF Uses, NotOpened, Offer
  <2>7. QED
    BY <2>1, <2>5, <2>6
<1>5. CASE ServeData \/ ServeClose \/ ServePoll
  <2>1. UNCHANGED <<id, inbox, batch>> /\ response'[0] = response[0]
    BY <1>5, ServeSteps DEF Served, serveRest, handlerVars
  <2>2. PICK more \in BOOLEAN, ends \in BOOLEAN : Answers(i, more, ends)
    BY <1>5, ServeSteps
  <2>3. open'[i] = h => open[i] = h
    BY <2>2, RouteFacts DEF Answers
  <2>4. QED
    BY <2>1, <2>3 DEF Uses, Starting, Start, Offer
<1>6. CASE LoseRequest \/ Route \/ LoseResponse
  <2>1. Back /\ UNCHANGED <<id, open>>
    BY <1>6, BackFacts
  <2>2. response'[0] = <<>>
    BY <2>1, RouteFacts DEF Back
  <2>3. In(inbox'[h], Offer(i)) => Uses(h, i)
    <3>1. CASE Route
      <4>0. InCall /\ inbox'[h] = IF At(h, "ended") THEN <<>> ELSE inbox[h] \o Routed(h)
        BY <3>1 DEF Route, Answered
      <4>1. inbox[h] \in Seq(Response) /\ Routed(h) \in Seq(Response)
        BY <1>0, RoutedFacts DEF Base, TypeOK
      <4>2. In(inbox'[h], Offer(i)) => In(inbox[h], Offer(i)) \/ In(Routed(h), Offer(i))
        BY <4>0, <4>1, InConcat, InNone
      <4>3. CASE Starting(h)
        <5>1. Routed(h) = response[0]
          BY <4>0, <4>3, StartRouted
        <5>2. QED
          BY <4>2, <4>3, <5>1 DEF Uses
      <4>4. CASE ~Starting(h)
        <5>1. Routed(h) = <<>> \/ \E k \in Ids : Routed(h) = response[k]
          BY <4>0, <4>4, RouteCases
        <5>2. \A k \in Ids : ~In(response[k], Offer(i))
          BY <1>0, AnswerFacts DEF ResponseShape, In
        <5>3. ~In(Routed(h), Offer(i))
          BY <5>1, <5>2, InNone
        <5>4. QED
          BY <4>2, <5>3 DEF Uses
      <4>5. QED
        BY <4>3, <4>4
    <3>2. CASE LoseRequest \/ LoseResponse
      BY <3>2 DEF LoseRequest, LoseResponse, handlerVars, Uses
    <3>3. QED
      BY <1>6, <3>1, <3>2
  <2>4. QED
    BY <2>1, <2>2, <2>3, InNone DEF Uses, Offer
<1>7. CASE Hang \/ Restart \/ UNCHANGED vars
  <2>1. UNCHANGED <<id, inbox, batch, response>> /\ open'[i] \in {open[i], NoHandler}
    BY <1>7 DEF Hang, Restart, vars, handlerVars, senderVars, serverVars
  <2>2. QED
    BY <2>1, RouteFacts DEF Uses, Starting, Start, Offer
<1>8. QED
  BY <1>1, <1>2, <1>3, <1>4, <1>5, <1>6, <1>7, StepCases

\* The counter goes back in a restart only.
LEMMA CounterSteps ==
  ASSUME Base, [Next]_vars, ~Restart
  PROVE  nextId \in Nat /\ nextId' \in Nat /\ nextId <= nextId'
<1>1. nextId \in Nat /\ nextId' \in Nat
  BY TypesKept, ClientAssumption DEF Base, TypeOK
<1>2. CASE \E h \in Handlers : HandlerNext(h)
  BY <1>1, <1>2, HandlerSteps DEF serverVars
<1>3. CASE PollTick \/ Cleanup \/ \E j \in Ids : Elapse(j)
  BY <1>1, <1>3, TaskSteps DEF serverVars
<1>4. CASE SenderStep
  BY <1>1, <1>4, SenderSteps DEF senderRest
<1>5. CASE ServeStart
  BY <1>1, <1>5, StartStep DEF Opened, NotOpened
<1>6. CASE ServeData \/ ServeClose \/ ServePoll
  BY <1>1, <1>6, ServeSteps
<1>7. CASE LoseRequest \/ Route \/ LoseResponse
  BY <1>1, <1>7, BackFacts
<1>8. CASE Hang \/ UNCHANGED vars
  BY <1>1, <1>8 DEF Hang, vars, serverVars
<1>9. QED
  BY <1>2, <1>3, <1>4, <1>5, <1>6, <1>7, <1>8, StepCases

LEMMA ApartKept ==
  ASSUME Base, StartInv, IdsApart, NobodyShares, [Next]_vars
  PROVE  IdsApart'
<1>0. \A h \in Handlers : Newborn(h)' => Newborn(h)
  BY StartKept
<1>1. nextId \in Nat /\ nextId' \in Nat
  BY TypesKept, ClientAssumption DEF Base, TypeOK
<1>2. \/ nextId' >= nextId
      \/ \A g, h \in Handlers : g = h
  <2>1. CASE ~Restart
    BY <2>1, CounterSteps
  <2>2. CASE Restart
    BY <2>2 DEF Restart, NobodyShares
  <2>3. QED
    BY <2>1, <2>2
<1>3. ASSUME NEW g \in Handlers, NEW h \in Handlers, NEW i \in Ids, Uses(g, i)', Uses(h, i)'
      PROVE  g = h
  <2>1. CASE Uses(g, i) /\ Uses(h, i)
    BY <2>1 DEF IdsApart
  <2>2. CASE Uses(g, i) /\ Newborn(h) /\ i = nextId
    BY <1>1, <2>2 DEF IdsApart
  <2>3. CASE Uses(h, i) /\ Newborn(g) /\ i = nextId
    BY <1>1, <2>3 DEF IdsApart
  <2>4. CASE ServeStart /\ Opened(g) /\ Opened(h)
    BY <2>4 DEF Opened
  <2>5. QED
    BY <1>3, <2>1, <2>2, <2>3, <2>4, UsesSteps
<1>4. ASSUME NEW h \in Handlers, NEW i \in Ids, NEW j \in Ids, Uses(h, i)', Uses(h, j)'
      PROVE  i = j
  <2>1. CASE Uses(h, i) /\ Uses(h, j)
    BY <2>1 DEF IdsApart
  <2>2. CASE Newborn(h)
    <3>1. ~Uses(h, i) /\ ~Uses(h, j)
      BY <2>2, NewbornUses
    <3>2. i = nextId /\ j = nextId
      BY <1>4, <3>1, UsesSteps
    <3>3. QED
      BY <3>2
  <2>3. QED
    BY <1>4, <2>1, <2>2, UsesSteps
<1>5. ASSUME NEW g \in Handlers, NEW h \in Handlers, NEW i \in Ids, Newborn(g)', Uses(h, i)'
      PROVE  i < nextId'
  <2>1. Newborn(g)
    BY <1>0, <1>5
  <2>2. CASE ServeStart /\ Opened(h) /\ i = nextId
    BY <1>1, <2>2 DEF Opened
  <2>3. CASE Uses(h, i)
    <3>1. i < nextId
      BY <2>1, <2>3 DEF IdsApart
    <3>2. CASE \A f, k \in Handlers : f = k
      <4>1. g = h
        BY <3>2
      <4>2. QED
        BY <2>1, <2>3, <4>1, NewbornUses
    <3>3. CASE nextId' >= nextId
      BY <1>1, <3>1, <3>3, RouteFacts
    <3>4. QED
      BY <1>2, <3>2, <3>3
  <2>4. QED
    BY <1>5, <2>2, <2>3, UsesSteps
<1>6. QED
  BY <1>3, <1>4, <1>5 DEF IdsApart

\* What a message in the client's hands has come from.
Riding(m) == In(channel, m) \/ In(pending, m) \/ In(batch, m)

LEMMA RidingFacts ==
  /\ DataOwned <=> \A m : Riding(m) => Owned(m)
  /\ TypeOK => \A m : Riding(m) => m \in Outgoing
<1>1. DataOwned <=> \A m : Riding(m) => Owned(m)
  BY DEF Riding, In, DataOwned
<1>2. ASSUME TypeOK, NEW m, Riding(m) PROVE m \in Outgoing
  <2>1. channel \in Seq(Outgoing) /\ pending \in Seq(Outgoing) /\ batch \in Seq(Outgoing)
    BY <1>2 DEF TypeOK
  <2>2. QED
    BY <1>2, <2>1, ElementOfSeq DEF Riding, In
<1>3. QED
  BY <1>1, <1>2

LEMMA RidingSteps ==
  ASSUME Base, [Next]_vars, NEW m, m.type = "Data", Riding(m)'
  PROVE  Riding(m) \/ \E h \in Handlers : Read(h) /\ HandlerNext(h) /\ m = Data(h)
<1>0. /\ SenderShape /\ channel \in Seq(Outgoing) /\ pending \in Seq(Outgoing) /\ batch \in Seq(Outgoing)
  BY DEF Base, TypeOK
<1>1. CASE \E h \in Handlers : HandlerNext(h)
  <2>1. PICK h \in Handlers : HandlerNext(h)
    BY <1>1
  <2>2. UNCHANGED <<pending, batch>>
    BY <2>1, HandlerSteps DEF senderVars
  <2>3. PICK e : channel' = channel \/ (Queued(e) /\ (e = Start(h) \/ (e = Data(h) /\ Read(h)) \/ e = CloseOf(id[h])))
    BY <2>1, HandlerSteps
  <2>4. Queued(e) => (In(channel', m) <=> In(channel, m) \/ m = e)
    BY <1>0, InAppend DEF Queued
  <2>5. m # Start(h) /\ m # CloseOf(id[h])
    BY DEF Start, CloseOf
  <2>6. QED
    BY <2>1, <2>2, <2>3, <2>4, <2>5 DEF Riding
<1>2. CASE PollTick \/ Cleanup \/ \E j \in Ids : Elapse(j)
  <2>1. UNCHANGED <<pending, batch>> /\ Told
    BY <1>2, TaskSteps DEF senderVars
  <2>2. PICK s \in Seq(Outgoing) : channel' = channel \o s /\ \A j \in DOMAIN s : s[j].type \in {"Poll", "Close"}
    BY <2>1 DEF Told
  <2>3. In(channel', m) => In(channel, m)
    <3>1. ~In(s, m)
      BY <2>2 DEF In
    <3>2. QED
      BY <1>0, <2>2, <3>1, InConcat
  <2>4. QED
    BY <2>1, <2>3 DEF Riding
<1>3. CASE SenderStep
  <2>1. In(channel', m) => In(channel, m)
    BY <1>3, Takes
  <2>2. In(pending', m) => Riding(m)
    <3>1. CASE Taken
      <4>1. Next1 \in Outgoing /\ In(channel, Next1)
        BY <1>0, <3>1, InTail, TailFacts DEF Taken, Next1
      <4>2. In(pending', m) => In(pending, m) \/ m = Next1
        BY <1>0, <3>1, <4>1, InAppend DEF Taken
      <4>3. QED
        BY <4>1, <4>2 DEF Riding
    <3>2. QED
      BY <1>3, <3>1, SenderSteps, InNone DEF Still, Flushed, FlushedLast, Riding
  <2>3. In(batch', m) => Riding(m)
    <3>1. CASE \E h \in Handlers : Flushed(h)
      <4>1. PICK h \in Handlers : Flushed(h)
        BY <3>1
      <4>2. m # Start(h)
        BY DEF Start
      <4>3. QED
        BY <4>1, <4>2, InOne DEF Flushed, Riding
    <3>2. QED
      BY <1>3, <3>1, SenderSteps DEF Still, Taken, FlushedLast, Riding
  <2>4. QED
    BY <2>1, <2>2, <2>3 DEF Riding
<1>4. CASE ServeStart \/ ServeData \/ ServeClose \/ ServePoll
  <2>1. UNCHANGED <<channel, pending, batch>>
    BY <1>4, StartStep, ServeSteps DEF Served
  <2>2. QED
    BY <2>1 DEF Riding
<1>5. CASE LoseRequest \/ Route \/ LoseResponse
  <2>1. Back
    BY <1>5, BackFacts
  <2>2. m # Start(sender.held)
    BY DEF Start
  <2>3. ~In(batch', m)
    BY <2>1, <2>2, InOne, InNone DEF Back
  <2>4. QED
    BY <2>1, <2>3 DEF Riding, Back
<1>6. CASE Hang \/ Restart \/ UNCHANGED vars
  BY <1>6 DEF Hang, Restart, vars, senderVars, Riding
<1>7. QED
  BY <1>1, <1>2, <1>3, <1>4, <1>5, <1>6, StepCases

\* A handler that has an id keeps it, and what it has read it does not take back.
LEMMA HandlerKeeps ==
  ASSUME Base, [Next]_vars, NEW h \in Handlers
  PROVE  /\ id[h] # 0 => id'[h] = id[h]
         /\ reads[h] \in Nat /\ reads'[h] \in Nat /\ reads[h] <= reads'[h]
<1>0. TypeOK /\ TypeOK'
  BY BaseKept DEF Base
<1>1. reads[h] \in Nat /\ reads'[h] \in Nat
  BY <1>0, ClientAssumption DEF TypeOK
<1>2. CASE UNCHANGED <<id, reads>>
  BY <1>1, <1>2
<1>3. ASSUME NEW g \in Handlers, HandlerNext(g)
      PROVE  (id[h] # 0 => id'[h] = id[h]) /\ reads[h] <= reads'[h]
  <2>1. CASE g = h
    <3>1. HandlerNext(h)
      BY <1>3, <2>1
    <3>2. id'[h] = id[h] \/ id[h] = 0
      BY <3>1, HandlerHas
    <3>3. reads'[h] = reads[h] \/ reads'[h] = reads[h] + 1
      BY <3>1, HandlerHas
    <3>4. QED
      BY <1>1, <3>2, <3>3
  <2>2. CASE g # h
    BY <1>1, <1>3, <2>2, HandlerSteps DEF Same
  <2>3. QED
    BY <2>1, <2>2
<1>4. CASE ~\E g \in Handlers : HandlerNext(g)
  <2>1. UNCHANGED <<id, reads>>
    <3>1. CASE PollTick \/ Cleanup \/ \E j \in Ids : Elapse(j)
      BY <3>1, TaskSteps DEF handlerVars
    <3>2. CASE SenderStep
      BY <3>2, SenderSteps DEF senderRest, handlerVars
    <3>3. CASE ServeStart \/ ServeData \/ ServeClose \/ ServePoll
      BY <3>3, StartStep, ServeSteps DEF serveRest, handlerVars
    <3>4. CASE LoseRequest \/ Route \/ LoseResponse
      BY <3>4, BackFacts
    <3>5. CASE Hang \/ Restart \/ UNCHANGED vars
      BY <3>5 DEF Hang, Restart, vars, handlerVars
    <3>6. QED
      BY <1>4, <3>1, <3>2, <3>3, <3>4, <3>5, StepCases
  <2>2. QED
    BY <1>2, <2>1
<1>5. QED
  BY <1>1, <1>3, <1>4

LEMMA OwnedKept ==
  ASSUME Base, DataOwned, [Next]_vars
  PROVE  DataOwned'
<1>0. TypeOK /\ HandlerShape
  BY DEF Base
<1>1. ASSUME NEW m, Riding(m)', m.type = "Data"
      PROVE  m.id = id'[m.by] /\ m.n <= reads'[m.by]
  <2>1. CASE Riding(m)
    <3>1. m \in Outgoing /\ Owned(m)
      BY <1>0, <2>1, RidingFacts
    <3>2. m.id \in Ids /\ m.by \in Handlers /\ m.n \in 1 .. MaxReads /\ MaxReads \in Nat
      BY <1>1, <3>1, MessageFacts, ClientAssumption
    <3>3. id[m.by] = m.id /\ m.id # 0 /\ m.n <= reads[m.by]
      BY <1>1, <3>1, <3>2, RouteFacts DEF Owned
    <3>4. id'[m.by] = id[m.by] /\ reads[m.by] \in Nat /\ reads'[m.by] \in Nat /\ reads[m.by] <= reads'[m.by]
      BY <3>2, <3>3, HandlerKeeps
    <3>5. QED
      BY <3>2, <3>3, <3>4
  <2>2. ASSUME NEW h \in Handlers, Read(h), HandlerNext(h), m = Data(h)
        PROVE  m.id = id'[m.by] /\ m.n <= reads'[m.by]
    <3>1. m.by = h /\ m.id = id[h] /\ m.n = reads[h] + 1
      BY <2>2 DEF Data
    <3>2. id[h] # 0
      BY <1>0, <2>2 DEF Read, At, HandlerShape
    <3>3. reads'[h] = reads[h] + 1
      BY <2>2, HandlerHas
    <3>4. id'[h] = id[h] /\ reads[h] \in Nat
      BY <3>2, HandlerKeeps
    <3>5. QED
      BY <3>1, <3>3, <3>4
  <2>3. QED
    BY <1>1, <2>1, <2>2, RidingSteps
<1>2. \A m : Riding(m)' => Owned(m)'
  BY <1>1 DEF Owned
<1>3. DataOwned'
  BY <1>2 DEF Riding, In, DataOwned, Owned
<1>4. QED
  BY <1>3

\* What an application gets, and what a target gets, is of the connection's own ends.
LEMMA InboxSteps ==
  ASSUME Base, [Next]_vars, NEW h \in Handlers, NEW x, In(inbox'[h], x)
  PROVE  In(inbox[h], x) \/ (Route /\ In(Routed(h), x))
<1>1. CASE Route
  <2>1. inbox[h] \in Seq(Response) /\ Routed(h) \in Seq(Response)
    BY RoutedFacts DEF Base, TypeOK
  <2>2. inbox'[h] = IF At(h, "ended") THEN <<>> ELSE inbox[h] \o Routed(h)
    BY <1>1 DEF Route
  <2>3. QED
    BY <1>1, <2>1, <2>2, InConcat, InNone
<1>2. ASSUME NEW g \in Handlers, HandlerNext(g) PROVE In(inbox[h], x)
  BY <1>2, HandlerSteps, HandlerHas DEF Same
<1>3. CASE PollTick \/ Cleanup \/ \E j \in Ids : Elapse(j)
  BY <1>3, TaskSteps DEF handlerVars
<1>4. CASE SenderStep
  BY <1>4, SenderSteps DEF senderRest, handlerVars
<1>5. CASE ServeStart \/ ServeData \/ ServeClose \/ ServePoll
  BY <1>5, StartStep, ServeSteps DEF serveRest, handlerVars
<1>6. CASE LoseRequest \/ LoseResponse \/ Hang \/ Restart \/ UNCHANGED vars
  BY <1>6 DEF LoseRequest, LoseResponse, Hang, Restart, vars, handlerVars
<1>7. QED
  BY <1>1, <1>2, <1>3, <1>4, <1>5, <1>6, StepCases

\* A Data response that is routed is one of the connection the handler uses.
LEMMA DataRouted ==
  ASSUME Base, InCall, NEW h \in Handlers, NEW x, In(Routed(h), x), x.kind \in {"Data", "Close"}
  PROVE  \E i \in Ids : entries[i] = h /\ id[h] = i /\ Uses(h, i) /\ In(response[i], x) /\ Routed(h) = response[i]
<1>0. ResponseShape /\ EntryShape
  BY DEF Base
<1>1. CASE Starting(h)
  <2>1. In(response[0], x)
    BY <1>1, StartRouted
  <2>2. QED
    BY <1>0, <2>1 DEF ResponseShape, In
<1>2. CASE ~Starting(h)
  <2>1. Routed(h) # <<>>
    BY InNone
  <2>2. PICK i \in Ids : entries[i] = h /\ Routed(h) = response[i]
    BY <1>2, <2>1, RouteCases
  <2>3. id[h] = i
    BY <1>0, <2>2 DEF EntryShape
  <2>4. QED
    BY <2>2, <2>3 DEF Uses
<1>3. QED
  BY <1>1, <1>2

\* Data is served on the connection of the handler that has sent it.
LEMMA ServesOwn ==
  ASSUME Base, IdInv, ServeData \/ ServeClose \/ ServePoll, Message.type = "Data"
  PROVE  /\ Message.id \in Ids /\ Message.by \in Handlers /\ Message.n \in Nat \ {0}
         /\ [of |-> Message.by, n |-> Message.n] \in Chunk
         /\ Uses(Message.by, Message.id) /\ Message.n <= reads[Message.by]
<1>1. Message \in Outgoing /\ Served /\ TypeOK /\ DataOwned
  BY ServeSteps DEF Base, IdInv
<1>2. Message.id \in Ids /\ Message.by \in Handlers /\ Message.n \in Nat \ {0}
  BY <1>1, MessageFacts, ClientAssumption
<1>3. Owned(Message)
  BY <1>1, ServedFacts DEF DataOwned
<1>4. [of |-> Message.by, n |-> Message.n] \in Chunk
  BY <1>2 DEF Chunk
<1>5. QED
  BY <1>2, <1>3, <1>4 DEF Owned, Uses

LEMMA ArrivesOwn ==
  ASSUME Base, IdInv, ServeData \/ ServeClose \/ ServePoll, NEW h \in Handlers, Arrives(h)
  PROVE  Message.by = h /\ [of |-> Message.by, n |-> Message.n] \in Chunk
<1>1. /\ Message.id \in Ids /\ Message.by \in Handlers /\ Uses(Message.by, Message.id)
      /\ [of |-> Message.by, n |-> Message.n] \in Chunk
  BY ServesOwn DEF Arrives
<1>2. Uses(h, Message.id)
  BY DEF Arrives, Uses
<1>3. QED
  BY <1>1, <1>2 DEF IdInv, IdsApart

LEMMA OwnKept ==
  ASSUME Base, StartInv, IdInv, [Next]_vars
  PROVE  OwnChunks' /\ NoCrossTalk'
<1>0. TypeOK /\ IdsApart /\ DataOwned /\ OwnChunks /\ NoCrossTalk
  BY DEF Base, IdInv
<1>1. /\ \A h \in Handlers : \A x : In(inbox[h], x) /\ x.kind = "Data" => x.of = h
      /\ \A h \in Handlers, i \in Ids : Uses(h, i) => \A x : In(response[i], x) /\ x.kind = "Data" => x.of = h
  BY <1>0 DEF OwnChunks, AllOf, In
<1>2. ASSUME NEW h \in Handlers, NEW x, In(inbox'[h], x), x.kind = "Data"
      PROVE  x.of = h
  <2>1. CASE In(inbox[h], x)
    BY <1>1, <1>2, <2>1
  <2>2. CASE Route /\ In(Routed(h), x)
    <3>1. InCall
      BY <2>2 DEF Route, Answered
    <3>2. PICK i \in Ids : Uses(h, i) /\ In(response[i], x)
      BY <1>2, <2>2, <3>1, DataRouted
    <3>3. QED
      BY <1>1, <1>2, <3>2
  <2>3. QED
    BY <1>2, <2>1, <2>2, InboxSteps
<1>3. ASSUME NEW h \in Handlers, NEW i \in Ids, Uses(h, i)', NEW x, In(response'[i], x), x.kind = "Data"
      PROVE  x.of = h
  <2>1. CASE response'[i] = <<>>
    BY <1>3, <2>1, InNone
  <2>2. CASE response' = response
    <3>1. CASE Uses(h, i)
      BY <1>1, <1>3, <2>2, <3>1
    <3>2. CASE ServeStart
      BY <1>3, <2>1, <3>2, StartStep
    <3>3. QED
      BY <1>3, <3>1, <3>2, UsesSteps
  <2>3. CASE ServeData \/ ServeClose \/ ServePoll
    <3>1. Uses(h, i)
      BY <1>3, <2>3, UsesSteps DEF ServeStart, ServeData, ServeClose, ServePoll, Processing
    <3>2. PICK more \in BOOLEAN, ends \in BOOLEAN : Answers(i, more, ends)
      BY <2>3, ServeSteps
    <3>3. CASE In(response[i], x)
      BY <1>1, <1>3, <3>1, <3>3
    <3>4. CASE ~In(response[i], x)
      <4>1. more /\ x = [kind |-> "Data", id |-> i, of |-> open[i], n |-> sent[i] + 1]
        <5>1. PICK j \in DOMAIN response'[i] : response'[i][j] = x
          BY <1>3 DEF In
        <5>2. j \notin DOMAIN response[i]
          BY <3>2, <3>4, <5>1 DEF Answers, In
        <5>3. x # [kind |-> "Close", id |-> i]
          BY <1>3
        <5>4. QED
          BY <3>2, <5>1, <5>2, <5>3 DEF Answers
      <4>2. x.of = open[i] /\ open[i] \in Handlers
        BY <1>0, <3>2, <4>1 DEF Answers, IsOpen, TypeOK
      <4>3. Uses(open[i], i)
        BY DEF Uses
      <4>4. QED
        BY <1>0, <3>1, <4>2, <4>3 DEF IdsApart
    <3>5. QED
      BY <3>3, <3>4
  <2>4. CASE ServeStart \/ LoseRequest \/ Route \/ LoseResponse
    BY <2>1, <2>4, StartStep, BackFacts, RouteFacts DEF Back
  <2>5. CASE \E g \in Handlers : HandlerNext(g)
    BY <2>2, <2>5, HandlerSteps DEF serverVars
  <2>6. CASE PollTick \/ Cleanup \/ \E j \in Ids : Elapse(j)
    BY <2>2, <2>6, TaskSteps DEF serverVars
  <2>7. CASE SenderStep
    <3>1. response' = NoResponses
      BY <2>7, SenderSteps DEF Still, Taken, Flushed, FlushedLast, Idle
    <3>2. QED
      BY <2>1, <3>1, RouteFacts
  <2>8. CASE Hang \/ Restart \/ UNCHANGED vars
    BY <2>2, <2>8 DEF Hang, Restart, vars, serverVars
  <2>9. QED
    BY <2>3, <2>4, <2>5, <2>6, <2>7, <2>8, StepCases
<1>4. OwnChunks'
  <2>1. \A h \in Handlers : \A j \in DOMAIN inbox'[h] : In(inbox'[h], inbox'[h][j])
    BY DEF In
  <2>2. \A i \in Ids : \A j \in DOMAIN response'[i] : In(response'[i], response'[i][j])
    BY DEF In
  <2>3. QED
    BY <1>2, <1>3, <2>1, <2>2 DEF OwnChunks, AllOf
<1>5. ASSUME NEW h \in Handlers PROVE \A j \in DOMAIN got'[h] : got'[h][j].of = h
  <2>1. \A j \in DOMAIN got[h] : got[h][j].of = h
    BY <1>0 DEF NoCrossTalk
  <2>2. got[h] \in Seq(Chunk) /\ inbox[h] \in Seq(Response)
    BY <1>0 DEF TypeOK
  <2>3. CASE got'[h] = got[h]
    BY <2>1, <2>3
  <2>4. CASE HandlerNext(h) /\ got'[h] # got[h]
    <3>1. /\ inbox[h] # <<>> /\ Head(inbox[h]).kind = "Data"
          /\ got'[h] = Append(got[h], [of |-> Head(inbox[h]).of, n |-> Head(inbox[h]).n])
      BY <2>4, HandlerHas
    <3>2. In(inbox[h], Head(inbox[h])) /\ Head(inbox[h]) \in Response
      BY <2>2, <3>1, InTail, TailFacts
    <3>3. Head(inbox[h]).of = h
      BY <1>1, <3>1, <3>2
    <3>4. [of |-> Head(inbox[h]).of, n |-> Head(inbox[h]).n] \in Chunk
      BY <3>1, <3>2, ResponseFacts, ClientAssumption DEF Chunk
    <3>5. QED
      BY <2>1, <2>2, <3>1, <3>3, <3>4, AppendFacts
  <2>5. CASE ~\E g \in Handlers : HandlerNext(g)
    <3>1. got' = got
      <4>1. CASE PollTick \/ Cleanup \/ \E j \in Ids : Elapse(j)
        BY <4>1, TaskSteps
      <4>2. CASE SenderStep
        BY <4>2, SenderSteps DEF senderRest
      <4>3. CASE ServeStart \/ ServeData \/ ServeClose \/ ServePoll
        BY <4>3, StartStep, ServeSteps DEF serveRest
      <4>4. CASE LoseRequest \/ Route \/ LoseResponse
        BY <4>4, BackFacts
      <4>5. CASE Hang \/ Restart \/ UNCHANGED vars
        BY <4>5 DEF Hang, Restart, vars
      <4>6. QED
        BY <2>5, <4>1, <4>2, <4>3, <4>4, <4>5, StepCases
    <3>2. QED
      BY <2>3, <3>1
  <2>6. CASE \E g \in Handlers \ {h} : HandlerNext(g)
    BY <2>3, <2>6, HandlerSteps DEF Same
  <2>7. QED
    BY <2>3, <2>4, <2>5, <2>6
<1>6. ASSUME NEW h \in Handlers PROVE \A j \in DOMAIN arrived'[h] : arrived'[h][j].of = h
  <2>1. \A j \in DOMAIN arrived[h] : arrived[h][j].of = h
    BY <1>0 DEF NoCrossTalk
  <2>2. CASE arrived'[h] = arrived[h]
    BY <2>1, <2>2
  <2>3. CASE (ServeData \/ ServeClose \/ ServePoll) /\ Arrives(h)
    <3>1. /\ Message.by = h /\ [of |-> Message.by, n |-> Message.n] \in Chunk
          /\ arrived'[h] = Append(arrived[h], [of |-> Message.by, n |-> Message.n])
      BY <2>3, ArrivesOwn DEF Arrives
    <3>2. arrived[h] \in Seq(Chunk)
      BY <1>0 DEF TypeOK
    <3>3. QED
      BY <2>1, <3>1, <3>2, AppendFacts
  <2>4. QED
    BY <2>2, <2>3, ArrivalSteps
<1>7. NoCrossTalk'
  BY <1>5, <1>6 DEF NoCrossTalk
<1>8. QED
  BY <1>4, <1>7

LEMMA IdInit ==
  ASSUME Init
  PROVE  IdInv
<1>1. DOMAIN <<>> = {} /\ \A m : ~In(<<>>, m)
  BY NoneIn, InNone
<1>2. \A h \in Handlers, i \in Ids : ~Uses(h, i)
  BY <1>1, RouteFacts DEF Init, Uses, Starting
<1>3. \A i \in Ids : response[i] = <<>>
  BY RouteFacts DEF Init
<1>4. QED
  BY <1>1, <1>2, <1>3 DEF Init, IdInv, IdsApart, DataOwned, OwnChunks, AllOf, NoCrossTalk

LEMMA InvariantId ==
  ASSUME NobodyShares
  PROVE  Spec => []IdInv
<1>1. Init => IdInv
  BY IdInit
<1>2. Base /\ StartInv /\ IdInv /\ [Next]_vars => IdInv'
  <2>1. ASSUME Base, StartInv, IdInv, [Next]_vars PROVE IdInv'
    <3>1. IdsApart'
      BY <2>1, ApartKept DEF IdInv
    <3>2. DataOwned'
      BY <2>1, OwnedKept DEF IdInv
    <3>3. OwnChunks' /\ NoCrossTalk'
      BY <2>1, OwnKept
    <3>4. QED
      BY <3>1, <3>2, <3>3 DEF IdInv
  <2>2. QED
    BY <2>1
<1>3. QED
  BY <1>1, <1>2, InvariantBase, InvariantStart, PTL DEF Spec

\* DESIGN.md, Server: ids come from a global counter to ensure uniqueness.  As
\* long as the server does not restart, or serves one connection only, no
\* handler's data goes to, or comes from, the target of another.
THEOREM ClientsApart ==
  ASSUME NobodyShares
  PROVE  Spec => []NoCrossTalk
<1>1. IdInv => NoCrossTalk
  BY DEF IdInv
<1>2. QED
  BY <1>1, InvariantId, PTL

--------------------------------------------------------------------------------
(* A message on its way                                                         *)

LEMMA ComingFacts ==
  ASSUME NEW m, ~IsStart(m)
  PROVE  /\ Coming(m) <=> In(channel, m) \/ In(pending, m) \/ Unserved(m)
         /\ Coming(m)' <=> In(channel', m) \/ In(pending', m) \/ Unserved(m)'
<1>1. \A s : m \in Range(s) <=> In(s, m)
  BY DEF Range, In
<1>2. \A h : m # Start(h)
  BY DEF Start, IsStart
<1>3. Coming(m) <=> In(channel, m) \/ In(pending, m) \/ Unserved(m)
  BY <1>1, <1>2 DEF Coming, Unserved
<1>4. Coming(m)' <=> In(channel', m) \/ In(pending', m) \/ Unserved(m)'
  BY <1>1, <1>2 DEF Coming, Unserved, Start
<1>5. QED
  BY <1>3, <1>4

\* It stays so until the server serves it or its call fails.
LEMMA ComingKept ==
  ASSUME Base, [Next]_vars, NEW m, ~IsStart(m), Coming(m)
  PROVE  \/ Coming(m)' \/ m \in failed'
         \/ m = Message /\ (ServeData \/ ServeClose \/ ServePoll)
<1>0. /\ TypeOK /\ SenderShape /\ channel \in Seq(Outgoing) /\ pending \in Seq(Outgoing)
      /\ batch \in Seq(Outgoing) /\ Len(batch) \in Nat /\ DOMAIN batch = 1 .. Len(batch)
  BY DEF Base, TypeOK
<1>1. In(channel, m) \/ In(pending, m) \/ Unserved(m)
  BY ComingFacts
<1>2. CASE \E h \in Handlers : HandlerNext(h)
  <2>1. UNCHANGED <<pending, batch, served>> /\ (In(channel, m) => In(channel', m))
    BY <1>2, HandlerSteps, Queues DEF senderVars, serverVars
  <2>2. QED
    BY <1>1, <2>1, ComingFacts DEF Unserved
<1>3. CASE PollTick \/ Cleanup \/ \E j \in Ids : Elapse(j)
  <2>1. UNCHANGED <<pending, batch, served>> /\ (In(channel, m) => In(channel', m))
    BY <1>3, TaskSteps, Queues DEF senderVars, serverVars
  <2>2. QED
    BY <1>1, <2>1, ComingFacts DEF Unserved
<1>4. CASE SenderStep
  <2>1. ~Unserved(m)
    BY <1>4, SenderSteps DEF Idle, Unserved
  <2>2. In(channel, m) => In(channel', m) \/ (channel # <<>> /\ m = Next1)
    BY <1>4, Takes
  <2>3. CASE Still
    BY <1>1, <2>1, <2>3, ComingFacts DEF Still
  <2>4. CASE Taken
    <3>1. Next1 \in Outgoing
      BY <1>0, <2>4, TailFacts DEF Taken, Next1
    <3>2. In(pending', m) <=> In(pending, m) \/ m = Next1
      BY <1>0, <2>4, <3>1, InAppend DEF Taken
    <3>3. QED
      BY <1>1, <2>1, <2>2, <3>2, ComingFacts
  <2>5. CASE (\E h \in Handlers : Flushed(h)) \/ FlushedLast
    <3>1. In(channel, m) => In(channel', m)
      <4>1. m = Next1 /\ channel # <<>> => channel' = channel
        BY <2>5, SentFacts DEF Flushed, FlushedLast
      <4>2. QED
        BY <2>2, <4>1
    <3>2. In(pending, m) => batch' = pending /\ served' = 0
      BY <2>5, InNone DEF Flushed, FlushedLast
    <3>3. In(pending, m) => Unserved(m)'
      BY <1>0, <3>2 DEF Unserved, In
    <3>4. QED
      BY <1>1, <2>1, <3>1, <3>3, ComingFacts
  <2>6. QED
    BY <1>4, <2>3, <2>4, <2>5, SenderSteps
<1>5. CASE ServeStart \/ ServeData \/ ServeClose \/ ServePoll
  <2>1. Served
    BY <1>5, StartStep, ServeSteps
  <2>2. Unserved(m) => Unserved(m)' \/ m = Message
    BY <1>0, <2>1, ServedFacts
  <2>3. ServeStart => m # Message
    BY StartStep, SentFacts
  <2>4. QED
    BY <1>1, <1>5, <2>1, <2>2, <2>3, ComingFacts DEF Served
<1>6. CASE LoseRequest \/ Route \/ LoseResponse
  <2>1. Back
    BY <1>6, BackFacts
  <2>2. CASE LoseRequest
    <3>1. Unserved(m) => m \in failed'
      BY <1>0, <2>2 DEF LoseRequest, Unserved, Range
    <3>2. QED
      BY <1>1, <2>1, <3>1, ComingFacts DEF Back
  <2>3. CASE Route \/ LoseResponse
    <3>1. ~Unserved(m)
      BY <1>0, <2>3 DEF Route, LoseResponse, Answered, Unserved
    <3>2. QED
      BY <1>1, <2>1, <3>1, ComingFacts DEF Back
  <2>4. QED
    BY <1>6, <2>2, <2>3
<1>7. CASE Hang \/ Restart \/ UNCHANGED vars
  <2>1. UNCHANGED <<channel, pending, batch, served>>
    BY <1>7 DEF Hang, Restart, vars, senderVars, serverVars
  <2>2. QED
    BY <1>1, <2>1, ComingFacts DEF Unserved
<1>8. QED
  BY <1>2, <1>3, <1>4, <1>5, <1>6, <1>7, StepCases

LEMMA FailedKept ==
  ASSUME Base, [Next]_vars
  PROVE  failed \subseteq failed'
<1>1. CASE \E h \in Handlers : HandlerNext(h)
  BY <1>1, HandlerSteps DEF lossVars
<1>2. CASE PollTick \/ Cleanup \/ \E j \in Ids : Elapse(j)
  BY <1>2, TaskSteps DEF lossVars
<1>3. CASE SenderStep
  BY <1>3, SenderSteps
<1>4. CASE ServeStart \/ ServeData \/ ServeClose \/ ServePoll
  BY <1>4, StartStep, ServeSteps DEF serveRest, lossVars
<1>5. CASE LoseRequest \/ Route \/ LoseResponse \/ Hang \/ Restart \/ UNCHANGED vars
  BY <1>5 DEF LoseRequest, Route, LoseResponse, Hang, Restart, vars, lossVars
<1>6. QED
  BY <1>1, <1>2, <1>3, <1>4, <1>5, StepCases

\* A connection is the same until the server closes it, and new for a newborn.
LEMMA OpenSteps ==
  ASSUME Base, [Next]_vars, NEW i \in Ids, NEW h \in Handlers, open'[i] = h
  PROVE  \/ open[i] = h /\ ~(ServeClose /\ Message = CloseOf(i))
         \/ ServeStart /\ Opened(h) /\ i = nextId /\ Newborn(h)
<1>0. TypeOK
  BY DEF Base
<1>2. CASE ServeStart
  <2>1. PICK g \in Handlers : batch[1] = Start(g) /\ Message = Start(g) /\ (Opened(g) \/ NotOpened)
    BY <1>2, StartStep
  <2>2. Newborn(g)
    BY <1>0, <1>2, <2>1, StartStep, ServedFacts DEF Newborn
  <2>3. Message # CloseOf(i)
    BY <2>1 DEF Start, CloseOf
  <2>4. QED
    BY <1>2, <2>1, <2>2, <2>3 DEF Opened, NotOpened
<1>3. CASE ServeData \/ ServeClose \/ ServePoll
  <2>1. PICK more \in BOOLEAN, ends \in BOOLEAN : Answers(i, more, ends)
    BY <1>3, ServeSteps
  <2>2. open[i] = h
    BY <2>1, RouteFacts DEF Answers
  <2>3. ASSUME ServeClose, Message = CloseOf(i) PROVE FALSE
    <3>1. Message.id = i /\ IsOpen(i)
      BY <2>2, <2>3, RouteFacts DEF CloseOf, IsOpen
    <3>2. open'[i] = NoHandler
      BY <1>0, <2>3, <3>1 DEF ServeClose, TypeOK
    <3>3. QED
      BY <3>2, RouteFacts
  <2>4. QED
    BY <2>2, <2>3
<1>4. CASE \E g \in Handlers : HandlerNext(g)
  <2>1. UNCHANGED <<open, served>>
    BY <1>4, HandlerSteps DEF serverVars
  <2>2. ~ServeClose
    BY <1>0, <2>1 DEF ServeClose, TypeOK
  <2>3. QED
    BY <2>1, <2>2
<1>5. CASE PollTick \/ Cleanup \/ \E j \in Ids : Elapse(j)
  <2>1. UNCHANGED <<open, served>>
    BY <1>5, TaskSteps DEF serverVars
  <2>2. ~ServeClose
    BY <1>0, <2>1 DEF ServeClose, TypeOK
  <2>3. QED
    BY <2>1, <2>2
<1>6. CASE SenderStep
  <2>1. UNCHANGED open /\ Idle
    BY <1>6, SenderSteps DEF senderRest
  <2>2. ~ServeClose
    BY <2>1 DEF ServeClose, Processing, Idle
  <2>3. QED
    BY <2>1, <2>2
<1>7. CASE LoseRequest \/ Route \/ LoseResponse
  <2>1. UNCHANGED open /\ Back
    BY <1>7, BackFacts
  <2>2. ~ServeClose
    <3>1. ServeClose => served' = served + 1 /\ served \in Nat
      BY <1>0 DEF ServeClose, TypeOK
    <3>2. QED
      BY <2>1, <3>1 DEF Back
  <2>3. QED
    BY <2>1, <2>2
<1>8. CASE Hang \/ Restart \/ UNCHANGED vars
  <2>1. open'[i] \in {open[i], NoHandler} /\ UNCHANGED served
    BY <1>8 DEF Hang, Restart, vars, serverVars
  <2>2. ~ServeClose
    BY <1>0, <2>1 DEF ServeClose, TypeOK
  <2>3. QED
    BY <2>1, <2>2, RouteFacts
<1>9. QED
  BY <1>2, <1>3, <1>4, <1>5, <1>6, <1>7, <1>8, StepCases

--------------------------------------------------------------------------------
(* A handler that is over has an entry still, or its Close is on its way        *)

LEMMA QuietSteps ==
  ASSUME Base, [Next]_vars, ~\E h \in Handlers : HandlerNext(h)
  PROVE  /\ UNCHANGED <<task, id, reads, got>>
         /\ ~Cleanup => UNCHANGED entries
<1>1. CASE PollTick \/ Cleanup \/ \E j \in Ids : Elapse(j)
  BY <1>1, TaskSteps DEF handlerVars, PollTick, Elapse, tableVars
<1>2. CASE SenderStep
  BY <1>2, SenderSteps DEF senderRest, handlerVars, tableVars
<1>3. CASE ServeStart \/ ServeData \/ ServeClose \/ ServePoll
  BY <1>3, StartStep, ServeSteps DEF serveRest, handlerVars, tableVars
<1>4. CASE LoseRequest \/ Route \/ LoseResponse
  BY <1>4, BackFacts DEF tableVars
<1>5. CASE Hang \/ Restart \/ UNCHANGED vars
  BY <1>5 DEF Hang, Restart, vars, handlerVars, tableVars
<1>6. QED
  BY <1>1, <1>2, <1>3, <1>4, <1>5, StepCases

\* What a handler's step does to the table, and where the handler goes.
LEMMA EntrySteps ==
  ASSUME Base, NEW h \in Handlers, HandlerNext(h)
  PROVE  \/ /\ entries' = entries /\ task[h] \in {"idle", "waiting"}
            /\ task'[h] \in {"waiting", "registering", "refused"}
         \/ task[h] = "registering" /\ task'[h] = "replying" /\ entries' = [entries EXCEPT ![id[h]] = h]
         \/ entries' = entries /\ task[h] \in {"replying", "relay"} /\ task'[h] \in {"replying", "relay", "ended"}
         \/ entries' = entries /\ task[h] = "relay" /\ task'[h] = "removing" /\ In(channel', CloseOf(id[h]))
         \/ entries' = entries /\ task[h] = "relay" /\ task'[h] = "removing" /\ Closes(inbox[h])
         \/ /\ entries' = entries /\ task[h] = "relay" /\ task'[h] = "removing"
            /\ \A i \in Ids : entries[i] # h
         \/ task[h] = "removing" /\ task'[h] = "ended" /\ entries' = [entries EXCEPT ![id[h]] = NoHandler]
<1>0. TypeOK
  BY DEF Base
<1>1. task \in [Handlers -> Task] /\ channel \in Seq(Outgoing) /\ inbox[h] \in Seq(Response)
  BY <1>0 DEF TypeOK
<1>2. CASE Connect(h) \/ Challenged(h) \/ Refused(h)
  BY <1>1, <1>2 DEF Connect, Challenged, Refused, At, Goto, tableVars
<1>3. CASE Register(h)
  BY <1>1, <1>3 DEF Register, At, Goto
<1>4. CASE Replied(h) \/ ReplyFails(h) \/ Read(h) \/ Deliver(h) \/ DeliverFails(h)
  BY <1>1, <1>4 DEF Replied, ReplyFails, Read, Deliver, DeliverFails, At, Goto, End, tableVars
<1>5. CASE Eof(h)
  <2>1. Queued(CloseOf(id[h]))
    <3>1. id[h] \in Ids
      BY <1>5 DEF Eof, At, Base, TypeOK, HandlerShape
    <3>2. QED
      BY <1>5, <3>1, SentFacts DEF Eof, Queue, Queued
  <2>2. In(channel', CloseOf(id[h]))
    BY <1>1, <2>1, InAppend DEF Queued
  <2>3. QED
    BY <1>1, <1>5, <2>2 DEF Eof, At, Goto, tableVars
<1>6. CASE Closed(h)
  <2>1. inbox[h] # <<>> /\ Head(inbox[h]).kind = "Close"
    BY <1>6 DEF Closed, Heard
  <2>2. Closes(inbox[h])
    BY <1>1, <2>1, TailFacts DEF Closes
  <2>3. QED
    BY <1>1, <1>6, <2>2 DEF Closed, At, Goto, tableVars
<1>7. CASE Orphaned(h)
  BY <1>1, <1>7 DEF Orphaned, At, Goto, tableVars
<1>8. CASE RemoveEntry(h)
  BY <1>1, <1>8 DEF RemoveEntry, At, Goto, End
<1>9. QED
  BY <1>2, <1>3, <1>4, <1>5, <1>6, <1>7, <1>8 DEF HandlerNext, HandlerStep

LEMMA ClosedKept ==
  ASSUME Base, StartInv, IdInv, ClosedFirst, [Next]_vars
  PROVE  ClosedFirst'
<1>0. TypeOK /\ IdsApart
  BY DEF Base, IdInv
<1>1. /\ \A s : Closes(s) <=> \E x : In(s, x) /\ x.kind = "Close"
      /\ \A s : Closes(s)' <=> Closes(s')
  BY DEF Closes, In
<1>2. ASSUME NEW i \in Ids, Closes(response'[i]), NEW h \in Handlers, open'[i] = h
      PROVE  FALSE
  <2>0. response'[i] # <<>>
    BY <1>1, <1>2, InNone
  <2>1. CASE ServeData \/ ServeClose \/ ServePoll
    <3>1. PICK more \in BOOLEAN, ends \in BOOLEAN : Answers(i, more, ends)
      BY <2>1, ServeSteps
    <3>2. ~ends /\ open[i] = h
      BY <1>2, <3>1, RouteFacts DEF Answers
    <3>3. ~Closes(response[i])
      BY <3>2, RouteFacts DEF ClosedFirst
    <3>4. PICK j \in DOMAIN response'[i] : response'[i][j].kind = "Close"
      BY <1>2 DEF Closes
    <3>5. j \notin DOMAIN response[i]
      BY <3>1, <3>3, <3>4 DEF Answers, Closes
    <3>6. response'[i][j].kind = "Data"
      BY <3>1, <3>2, <3>5, <3>4 DEF Answers
    <3>7. QED
      BY <3>4, <3>6
  <2>2. CASE ServeStart \/ LoseRequest \/ Route \/ LoseResponse
    BY <2>0, <2>2, StartStep, BackFacts, RouteFacts DEF Back
  <2>3. CASE SenderStep
    <3>1. response' = NoResponses
      BY <2>3, SenderSteps DEF Still, Taken, Flushed, FlushedLast, Idle
    <3>2. QED
      BY <2>0, <3>1, RouteFacts
  <2>4. CASE response' = response /\ ~ServeStart
    <3>1. open[i] = h
      BY <1>2, <2>4, OpenSteps
    <3>2. QED
      BY <1>2, <2>4, <3>1, RouteFacts DEF ClosedFirst
  <2>5. CASE ((\E g \in Handlers : HandlerNext(g)) \/ PollTick \/ Cleanup \/ (\E j \in Ids : Elapse(j))) /\ ~ServeStart
    BY <2>4, <2>5, HandlerSteps, TaskSteps DEF serverVars
  <2>6. CASE (Hang \/ Restart \/ UNCHANGED vars) /\ ~ServeStart
    BY <2>4, <2>6 DEF Hang, Restart, vars, serverVars
  <2>7. QED
    BY <2>1, <2>2, <2>3, <2>5, <2>6, StepCases
<1>3. ASSUME NEW h \in Handlers, NEW i \in Ids, Closes(inbox'[h]), open'[i] = h
      PROVE  FALSE
  <2>1. PICK x : In(inbox'[h], x) /\ x.kind = "Close"
    BY <1>1, <1>3
  <2>2. CASE In(inbox[h], x)
    <3>1. Closes(inbox[h]) /\ inbox[h] # <<>>
      BY <1>1, <2>1, <2>2, InNone
    <3>2. open[i] # h
      BY <3>1 DEF ClosedFirst
    <3>3. ~Newborn(h)
      BY <3>1 DEF StartInv, Untouched
    <3>4. QED
      BY <1>3, <3>2, <3>3, OpenSteps
  <2>3. CASE Route /\ In(Routed(h), x)
    <3>1. InCall /\ UNCHANGED open
      BY <2>3 DEF Route, Answered
    <3>2. PICK k \in Ids : Uses(h, k) /\ In(response[k], x)
      BY <2>1, <2>3, <3>1, DataRouted
    <3>3. open[k] = NoHandler
      BY <1>1, <2>1, <3>2 DEF ClosedFirst
    <3>4. Uses(h, i)
      BY <1>3, <3>1 DEF Uses
    <3>5. k = i
      BY <1>0, <3>2, <3>4 DEF IdsApart
    <3>6. QED
      BY <1>3, <3>1, <3>3, <3>5, RouteFacts
  <2>4. QED
    BY <2>1, <2>2, <2>3, InboxSteps
<1>4. \A i \in Ids : open'[i] \in Handlers \union {NoHandler}
  BY TypesKept DEF TypeOK
<1>5. QED
  BY <1>2, <1>3, <1>4 DEF ClosedFirst, Closes

LEMMA SentKept ==
  ASSUME Base, [Next]_vars, NEW i \in Ids, CloseSent(i), ~(ServeClose /\ Message = CloseOf(i))
  PROVE  CloseSent(i)'
<1>1. CloseOf(i).type = "Close" /\ ~IsStart(CloseOf(i))
  BY SentFacts DEF IsStart
<1>2. CASE CloseOf(i) \in failed
  BY <1>2, FailedKept DEF CloseSent, CloseOf
<1>3. CASE Coming(CloseOf(i))
  <2>1. ~(CloseOf(i) = Message /\ (ServeData \/ ServeClose \/ ServePoll))
    BY <1>1 DEF ServeData, ServePoll, Processing, Message
  <2>2. Coming(CloseOf(i))' \/ CloseOf(i) \in failed'
    BY <1>1, <1>3, <2>1, ComingKept
  <2>3. QED
    BY <2>2 DEF CloseSent, CloseOf
<1>4. QED
  BY <1>2, <1>3 DEF CloseSent

LEMMA FollowedKept ==
  ASSUME Base, StartInv, IdInv, CloseInv, [Next]_vars
  PROVE  Followed'
<1>0. TypeOK /\ HandlerShape /\ EntryShape /\ IdsApart /\ ClosedFirst /\ Followed
  BY DEF Base, IdInv, CloseInv
<1>1. /\ task \in [Handlers -> Task] /\ entries \in [Ids -> Handlers \union {NoHandler}]
      /\ id \in [Handlers -> Ids \union {0}] /\ channel \in Seq(Outgoing)
  BY <1>0 DEF TypeOK
<1>2. ASSUME NEW i \in Ids, In(channel', CloseOf(i)) PROVE CloseSent(i)'
  <2>1. ~IsStart(CloseOf(i))
    BY SentFacts DEF IsStart
  <2>2. QED
    BY <1>2, <2>1, ComingFacts DEF CloseSent, CloseOf
<1>3. ASSUME NEW h \in Handlers, NEW i \in Ids, open'[i] = h
      PROVE  /\ task'[h] \in {"replying", "relay", "ended"} => entries'[i] = h \/ CloseSent(i)'
             /\ task'[h] = "removing" => CloseSent(i)'
  <2>1. CASE ServeStart /\ Newborn(h)
    <3>1. task'[h] = task[h] /\ task[h] \in {"idle", "waiting"}
      BY <2>1, StartStep DEF serveRest, handlerVars, StartInv, Untouched
    <3>2. QED
      BY <3>1
  <2>2. CASE open[i] = h /\ ~(ServeClose /\ Message = CloseOf(i))
    <3>1. /\ CloseSent(i) => CloseSent(i)'
          /\ task[h] \in {"replying", "relay", "ended"} => entries[i] = h \/ CloseSent(i)
          /\ task[h] = "removing" => CloseSent(i)
      BY <1>0, <2>2, SentKept DEF Followed
    <3>2. Uses(h, i) /\ \A g \in Handlers : id[g] = i => g = h
      BY <1>0, <2>2 DEF Uses, IdsApart
    <3>3. task[h] \notin {"idle", "waiting", "refused"} => id[h] = i
      BY <1>0, <1>1, <3>2 DEF HandlerShape, Uses, IdsApart
    <3>4. CASE HandlerNext(h)
      <4>1. CASE /\ entries' = entries /\ task[h] \in {"idle", "waiting"}
                 /\ task'[h] \in {"waiting", "registering", "refused"}
        BY <4>1
      <4>2. CASE task[h] = "registering" /\ task'[h] = "replying" /\ entries' = [entries EXCEPT ![id[h]] = h]
        BY <1>1, <3>3, <4>2
      <4>3. CASE /\ entries' = entries /\ task[h] \in {"replying", "relay"}
                 /\ task'[h] \in {"replying", "relay", "ended"}
        BY <3>1, <4>3
      <4>4. CASE entries' = entries /\ task[h] = "relay" /\ task'[h] = "removing" /\ In(channel', CloseOf(id[h]))
        BY <1>2, <3>3, <4>4
      <4>5. CASE entries' = entries /\ task[h] = "relay" /\ task'[h] = "removing" /\ Closes(inbox[h])
        BY <1>0, <2>2, <4>5 DEF ClosedFirst
      <4>6. CASE /\ entries' = entries /\ task[h] = "relay" /\ task'[h] = "removing"
                 /\ \A k \in Ids : entries[k] # h
        BY <3>1, <4>6
      <4>7. CASE /\ task[h] = "removing" /\ task'[h] = "ended"
                 /\ entries' = [entries EXCEPT ![id[h]] = NoHandler]
        BY <3>1, <4>7
      <4>8. QED
        BY <3>4, <4>1, <4>2, <4>3, <4>4, <4>5, <4>6, <4>7, EntrySteps
    <3>5. ASSUME NEW g \in Handlers \ {h}, HandlerNext(g)
          PROVE  task'[h] = task[h] /\ entries'[i] = entries[i]
      <4>1. task'[h] = task[h]
        BY <3>5, HandlerSteps DEF Same
      <4>2. id[g] # i
        BY <3>2, <3>5
      <4>3. \/ entries' = entries \/ entries' = [entries EXCEPT ![id[g]] = g]
            \/ entries' = [entries EXCEPT ![id[g]] = NoHandler]
        BY <3>5, EntrySteps
      <4>4. QED
        BY <1>1, <4>1, <4>2, <4>3
    <3>6. CASE Cleanup /\ ~\E g \in Handlers : HandlerNext(g)
      <4> DEFINE idle == {k \in old : entries[k] # NoHandler}
      <4>1. task' = task
        BY <3>6, QuietSteps
      <4>2. idle \subseteq Ids
        BY <1>0 DEF TypeOK
      <4>3. channel' = channel \o ClosesOf(idle)
            /\ entries' = [k \in Ids |-> IF k \in idle THEN NoHandler ELSE entries[k]]
        BY <3>6 DEF Cleanup
      <4> HIDE DEF idle
      <4>4. i \in idle => In(channel', CloseOf(i))
        BY <1>1, <4>2, <4>3, ClosesFacts, InConcat
      <4>5. QED
        BY <1>2, <3>1, <4>1, <4>3, <4>4
    <3>7. CASE ~Cleanup /\ ~\E g \in Handlers : HandlerNext(g)
      BY <3>1, <3>7, QuietSteps
    <3>8. QED
      BY <3>1, <3>4, <3>5, <3>6, <3>7
  <2>3. QED
    BY <1>3, <2>1, <2>2, OpenSteps
<1>4. QED
  BY <1>3 DEF Followed, CloseSent, CloseOf

LEMMA InvariantClose ==
  ASSUME NobodyShares
  PROVE  Spec => []CloseInv
<1>1. Init => CloseInv
  <2>1. ASSUME Init PROVE CloseInv
    <3>1. /\ \A i \in Ids : response[i] = <<>> /\ open[i] = NoHandler
          /\ \A h \in Handlers : inbox[h] = <<>>
      BY <2>1, RouteFacts DEF Init
    <3>2. ~Closes(<<>>)
      BY NoneIn DEF Closes
    <3>3. QED
      BY <3>1, <3>2, RouteFacts DEF CloseInv, ClosedFirst, Followed
  <2>2. QED
    BY <2>1
<1>2. Base /\ StartInv /\ IdInv /\ CloseInv /\ [Next]_vars => CloseInv'
  BY ClosedKept, FollowedKept DEF CloseInv
<1>3. QED
  BY <1>1, <1>2, InvariantBase, InvariantStart, InvariantId, PTL DEF Spec

\* A connection whose handler is over is not left open at the server in
\* silence: its entry is still there for the clean-up task, its Close is on its
\* way, or the call that carried the Close failed.
THEOREM ClosesAreSent ==
  ASSUME NobodyShares
  PROVE  Spec => []CloseNotForgotten
<1>1. Base /\ CloseInv => CloseNotForgotten
  <2>1. ASSUME CloseInv, NEW i \in Ids, IsOpen(i), At(open[i], "ended"), open[i] \in Handlers
        PROVE  entries[i] = open[i] \/ Coming(CloseOf(i)) \/ CloseOf(i) \in failed
    BY <2>1 DEF CloseInv, Followed, At, CloseSent
  <2>2. QED
    BY <2>1 DEF CloseNotForgotten, Base, TypeOK, IsOpen
<1>2. QED
  BY <1>1, InvariantClose, InvariantBase, PTL

--------------------------------------------------------------------------------
(* What an application sends                                                    *)

LEMMA AheadIn ==
  ASSUME NEW s, NEW t, NEW h
  PROVE  Ahead(s, t, h) <=>
           \A a, b : In(s, a) /\ In(t, b) /\ DataOf(h, a) /\ DataOf(h, b) => a.n < b.n
BY DEF Ahead, In

LEMMA SortedAppend ==
  ASSUME NEW S, NEW s \in Seq(S), NEW e \in S, NEW h, Sorted(s, h),
         \A m : In(s, m) /\ DataOf(h, m) /\ DataOf(h, e) => m.n < e.n
  PROVE  Sorted(Append(s, e), h)
<1>1. /\ DOMAIN Append(s, e) = DOMAIN s \union {Len(s) + 1} /\ Len(s) + 1 \notin DOMAIN s
      /\ \A j \in DOMAIN s : Append(s, e)[j] = s[j] /\ j < Len(s) + 1
      /\ Append(s, e)[Len(s) + 1] = e
  BY AppendFacts
<1>2. \A j \in DOMAIN s : j \in Nat /\ Len(s) \in Nat /\ In(s, s[j])
  BY DEF In
<1>3. ASSUME NEW j \in DOMAIN Append(s, e), NEW k \in DOMAIN Append(s, e), j < k,
             DataOf(h, Append(s, e)[j]), DataOf(h, Append(s, e)[k])
      PROVE  Append(s, e)[j].n < Append(s, e)[k].n
  <2>1. CASE j \in DOMAIN s /\ k \in DOMAIN s
    BY <1>1, <1>3, <2>1 DEF Sorted
  <2>2. CASE j \in DOMAIN s /\ k = Len(s) + 1
    BY <1>1, <1>2, <1>3, <2>2
  <2>3. CASE j = Len(s) + 1
    <3>1. k \in DOMAIN s => k < j
      BY <1>1, <2>3
    <3>2. k = j \/ k < j
      BY <1>1, <2>3, <3>1
    <3>3. j \in Nat /\ k \in Nat
      BY <1>1, <1>2, <2>3, <3>2
    <3>4. QED
      BY <1>3, <3>2, <3>3
  <2>4. QED
    BY <1>1, <2>1, <2>2, <2>3
<1>4. QED
  BY <1>3 DEF Sorted

LEMMA SortedTail ==
  ASSUME NEW S, NEW s \in Seq(S), s # <<>>, NEW h, Sorted(s, h)
  PROVE  /\ Sorted(Tail(s), h)
         /\ \A m : In(Tail(s), m) /\ DataOf(h, Head(s)) /\ DataOf(h, m) => Head(s).n < m.n
<1>1. /\ Head(s) = s[1] /\ 1 \in DOMAIN s /\ DOMAIN Tail(s) = 1 .. Len(s) - 1 /\ Len(s) \in Nat \ {0}
      /\ \A j \in DOMAIN Tail(s) : Tail(s)[j] = s[j + 1] /\ j + 1 \in DOMAIN s
  BY TailFacts
<1>2. \A j, k \in DOMAIN Tail(s) : (j < k => j + 1 < k + 1) /\ 1 < k + 1
  BY <1>1
<1>3. QED
  BY <1>1, <1>2 DEF Sorted, In

LEMMA SortedQuiet ==
  ASSUME NEW S, NEW s \in Seq(S), NEW t \in Seq(S), NEW h, Sorted(s, h),
         \A m : In(t, m) => ~DataOf(h, m)
  PROVE  Sorted(s \o t, h)
<1>1. \A j \in DOMAIN (s \o t) : DataOf(h, (s \o t)[j]) => j \in DOMAIN s /\ (s \o t)[j] = s[j]
  <2>1. /\ \A j \in DOMAIN s : (s \o t)[j] = s[j] /\ j \in DOMAIN (s \o t)
        /\ \A j \in DOMAIN (s \o t) : j \notin DOMAIN s =>
              j - Len(s) \in DOMAIN t /\ (s \o t)[j] = t[j - Len(s)]
    BY ConcatFacts
  <2>2. QED
    BY <2>1 DEF In
<1>2. QED
  BY <1>1 DEF Sorted

LEMMA SortedFew ==
  ASSUME NEW h
  PROVE  Sorted(<<>>, h) /\ \A g \in Handlers : Sorted(<<Start(g)>>, h)
<1>1. DOMAIN <<>> = {} /\ \A g : DOMAIN <<Start(g)>> = {1} /\ <<Start(g)>>[1] = Start(g)
  OBVIOUS
<1>2. \A g : ~DataOf(h, Start(g))
  BY DEF DataOf, Start
<1>3. QED
  BY <1>1, <1>2 DEF Sorted

\* A chunk is on its way from its Read on.
LEMMA ComingFrom ==
  ASSUME Base, [Next]_vars, NEW m, m.type = "Data", Coming(m)'
  PROVE  Coming(m) \/ \E h \in Handlers : Read(h) /\ HandlerNext(h) /\ m = Data(h)
<1>0. /\ TypeOK /\ channel \in Seq(Outgoing) /\ pending \in Seq(Outgoing) /\ batch \in Seq(Outgoing)
      /\ ~IsStart(m) /\ Len(pending) \in Nat /\ DOMAIN pending = 1 .. Len(pending)
  BY DEF Base, TypeOK, IsStart
<1>1. In(channel', m) \/ In(pending', m) \/ Unserved(m)'
  BY <1>0, ComingFacts
<1>2. CASE \E h \in Handlers : HandlerNext(h)
  <2>1. PICK h \in Handlers : HandlerNext(h)
    BY <1>2
  <2>2. UNCHANGED <<pending, batch, served>>
    BY <2>1, HandlerSteps DEF senderVars, serverVars
  <2>3. PICK e : channel' = channel \/ (Queued(e) /\ (e = Start(h) \/ (e = Data(h) /\ Read(h)) \/ e = CloseOf(id[h])))
    BY <2>1, HandlerSteps
  <2>4. Queued(e) => (In(channel', m) <=> In(channel, m) \/ m = e)
    BY <1>0, InAppend DEF Queued
  <2>5. m # Start(h) /\ m # CloseOf(id[h])
    BY DEF Start, CloseOf
  <2>6. Unserved(m)' <=> Unserved(m)
    BY <2>2 DEF Unserved
  <2>7. QED
    BY <1>0, <1>1, <2>1, <2>2, <2>3, <2>4, <2>5, <2>6, ComingFacts
<1>3. CASE PollTick \/ Cleanup \/ \E j \in Ids : Elapse(j)
  <2>1. UNCHANGED <<pending, batch, served>> /\ Told
    BY <1>3, TaskSteps DEF senderVars, serverVars
  <2>2. PICK s \in Seq(Outgoing) : channel' = channel \o s /\ \A j \in DOMAIN s : s[j].type \in {"Poll", "Close"}
    BY <2>1 DEF Told
  <2>3. In(channel', m) => In(channel, m)
    <3>1. ~In(s, m)
      BY <2>2 DEF In
    <3>2. QED
      BY <1>0, <2>2, <3>1, InConcat
  <2>4. Unserved(m)' <=> Unserved(m)
    BY <2>1 DEF Unserved
  <2>5. QED
    BY <1>0, <1>1, <2>1, <2>3, <2>4, ComingFacts
<1>4. CASE SenderStep
  <2>1. In(channel', m) => In(channel, m)
    BY <1>4, Takes
  <2>2. In(pending', m) => In(channel, m) \/ In(pending, m)
    <3>1. CASE Taken
      <4>1. Next1 \in Outgoing /\ In(channel, Next1)
        BY <1>0, <3>1, InTail, TailFacts DEF Taken, Next1
      <4>2. In(pending', m) => In(pending, m) \/ m = Next1
        BY <1>0, <3>1, <4>1, InAppend DEF Taken
      <4>3. QED
        BY <4>1, <4>2
    <3>2. QED
      BY <1>4, <3>1, SenderSteps, InNone DEF Still, Flushed, FlushedLast
  <2>3. Unserved(m)' => In(pending, m) \/ Unserved(m)
    <3>1. CASE Still \/ Taken
      BY <3>1 DEF Still, Taken, Unserved
    <3>2. CASE FlushedLast
      BY <1>0, <3>2 DEF FlushedLast, Unserved, In
    <3>3. CASE \E h \in Handlers : Flushed(h)
      <4>1. PICK h \in Handlers : Flushed(h)
        BY <3>3
      <4>2. CASE batch' = <<Start(h)>>
        <5>1. DOMAIN <<Start(h)>> = {1} /\ <<Start(h)>>[1] = Start(h) /\ Len(<<Start(h)>>) = 1
          OBVIOUS
        <5>2. m # Start(h)
          BY DEF Start
        <5>3. QED
          BY <4>1, <4>2, <5>1, <5>2 DEF Flushed, Unserved
      <4>3. CASE batch' = pending
        BY <1>0, <4>1, <4>3 DEF Flushed, Unserved, In
      <4>4. QED
        BY <4>1, <4>2, <4>3 DEF Flushed
    <3>4. QED
      BY <1>4, <3>1, <3>2, <3>3, SenderSteps
  <2>4. QED
    BY <1>0, <1>1, <2>1, <2>2, <2>3, ComingFacts
<1>5. CASE ServeStart \/ ServeData \/ ServeClose \/ ServePoll
  <2>1. Served
    BY <1>5, StartStep, ServeSteps
  <2>2. QED
    BY <1>0, <1>1, <2>1, ServedFacts, ComingFacts DEF Served
<1>6. CASE LoseRequest \/ Route \/ LoseResponse
  <2>1. Back
    BY <1>6, BackFacts
  <2>2. DOMAIN <<>> = {} /\ Len(<<>>) = 0 /\ Len(<<Start(sender.held)>>) = 1
        /\ <<Start(sender.held)>>[1] = Start(sender.held)
    OBVIOUS
  <2>3. m # Start(sender.held)
    BY DEF Start
  <2>4. ~Unserved(m)'
    BY <2>1, <2>2, <2>3 DEF Back, Unserved
  <2>5. QED
    BY <1>0, <1>1, <2>1, <2>4, ComingFacts DEF Back
<1>7. CASE Hang \/ Restart \/ UNCHANGED vars
  <2>1. UNCHANGED <<channel, pending, batch, served>>
    BY <1>7 DEF Hang, Restart, vars, senderVars, serverVars
  <2>2. QED
    BY <1>0, <1>1, <2>1, ComingFacts DEF Unserved
<1>8. QED
  BY <1>2, <1>3, <1>4, <1>5, <1>6, <1>7, StepCases

LEMMA LinedKept ==
  ASSUME Base, DataOwned, [Next]_vars, NEW h \in Handlers, Lined(h)
  PROVE  Lined(h)'
<1>0. /\ TypeOK /\ channel \in Seq(Outgoing) /\ pending \in Seq(Outgoing) /\ batch \in Seq(Outgoing)
  BY DEF Base, TypeOK
<1>1. /\ Sorted(batch, h) /\ Sorted(pending, h) /\ Sorted(channel, h)
      /\ \A a, b : In(batch, a) /\ In(pending, b) /\ DataOf(h, a) /\ DataOf(h, b) => a.n < b.n
      /\ \A a, b : In(batch, a) /\ In(channel, b) /\ DataOf(h, a) /\ DataOf(h, b) => a.n < b.n
      /\ \A a, b : In(pending, a) /\ In(channel, b) /\ DataOf(h, a) /\ DataOf(h, b) => a.n < b.n
  BY AheadIn DEF Lined
<1>2. ASSUME Sorted(batch', h), Sorted(pending', h), Sorted(channel', h),
             \A a, b : In(batch', a) /\ In(pending', b) /\ DataOf(h, a) /\ DataOf(h, b) => a.n < b.n,
             \A a, b : In(batch', a) /\ In(channel', b) /\ DataOf(h, a) /\ DataOf(h, b) => a.n < b.n,
             \A a, b : In(pending', a) /\ In(channel', b) /\ DataOf(h, a) /\ DataOf(h, b) => a.n < b.n
      PROVE  Lined(h)'
  <2>1. Ahead(batch', pending', h) /\ Ahead(batch', channel', h) /\ Ahead(pending', channel', h)
    BY <1>2, AheadIn
  <2>2. QED
    BY <1>2, <2>1 DEF Lined, Sorted, Ahead, DataOf
<1>3. ASSUME UNCHANGED <<channel, pending, batch>>
      PROVE  Lined(h)'
  BY <1>1, <1>2, <1>3
<1>4. CASE \E g \in Handlers : HandlerNext(g)
  <2>1. PICK g \in Handlers : HandlerNext(g)
    BY <1>4
  <2>2. UNCHANGED <<pending, batch>>
    BY <2>1, HandlerSteps DEF senderVars
  <2>3. PICK e : channel' = channel \/ (Queued(e) /\ (e = Start(g) \/ (e = Data(g) /\ Read(g)) \/ e = CloseOf(id[g])))
    BY <2>1, HandlerSteps
  <2>4. CASE channel' = channel
    BY <1>3, <2>2, <2>4
  <2>5. CASE channel' # channel
    <3>1. e \in Outgoing /\ channel' = Append(channel, e)
      BY <2>3, <2>5 DEF Queued
    <3>2. \A m : In(channel', m) <=> In(channel, m) \/ m = e
      BY <1>0, <3>1, InAppend
    <3>3. ASSUME NEW m, Riding(m), DataOf(h, m), DataOf(h, e) PROVE m.n < e.n
      <4>1. e = Data(g) /\ e.by = h
        BY <2>3, <2>5, <3>3 DEF DataOf, Start, CloseOf
      <4>2. e.n = reads[h] + 1
        BY <4>1 DEF Data
      <4>3. m \in Outgoing /\ Owned(m)
        BY <1>0, <3>3, RidingFacts
      <4>4. m.n <= reads[h] /\ m.n \in Nat
        BY <3>3, <4>3, MessageFacts, ClientAssumption DEF Owned, DataOf
      <4>5. reads[h] \in Nat
        BY HandlerKeeps
      <4>6. QED
        BY <4>2, <4>4, <4>5
    <3>4. Sorted(channel', h)
      BY <1>0, <1>1, <3>1, <3>3, SortedAppend DEF Riding
    <3>5. QED
      BY <1>1, <1>2, <2>2, <3>2, <3>3, <3>4 DEF Riding
  <2>6. QED
    BY <2>4, <2>5
<1>5. CASE PollTick \/ Cleanup \/ \E j \in Ids : Elapse(j)
  <2>1. UNCHANGED <<pending, batch>> /\ Told
    BY <1>5, TaskSteps DEF senderVars
  <2>2. PICK s \in Seq(Outgoing) : channel' = channel \o s /\ \A j \in DOMAIN s : s[j].type \in {"Poll", "Close"}
    BY <2>1 DEF Told
  <2>3. \A m : In(s, m) => ~DataOf(h, m)
    BY <2>2 DEF In, DataOf
  <2>4. Sorted(channel', h) /\ \A m : In(channel', m) /\ DataOf(h, m) => In(channel, m)
    BY <1>0, <1>1, <2>2, <2>3, SortedQuiet, InConcat
  <2>5. QED
    BY <1>1, <1>2, <2>1, <2>4
<1>6. CASE SenderStep
  <2>1. /\ batch = <<>>
        /\ channel' = channel \/ (channel # <<>> /\ channel' = Tail(channel))
    BY <1>6, SenderSteps DEF Idle, Still, Taken, Flushed, FlushedLast
  <2>2. Sorted(channel', h) /\ \A m : In(channel', m) => In(channel, m)
    BY <1>0, <1>1, <1>6, <2>1, SortedTail, Takes
  <2>3. CASE Still
    BY <1>3, <2>3 DEF Still
  <2>4. CASE Taken
    <3>1. channel # <<>> /\ channel' = Tail(channel) /\ pending' = Append(pending, Next1) /\ batch' = <<>>
      BY <2>1, <2>4 DEF Taken
    <3>2. Next1 \in Outgoing /\ In(channel, Next1)
      BY <1>0, <3>1, InTail, TailFacts DEF Next1
    <3>3. \A m : In(pending', m) <=> In(pending, m) \/ m = Next1
      BY <1>0, <3>1, <3>2, InAppend
    <3>4. Sorted(pending', h)
      BY <1>0, <1>1, <3>1, <3>2, SortedAppend
    <3>5. \A m : In(channel', m) /\ DataOf(h, Next1) /\ DataOf(h, m) => Next1.n < m.n
      BY <1>0, <1>1, <3>1, SortedTail DEF Next1
    <3>6. Sorted(batch', h) /\ \A m : ~In(batch', m)
      BY <3>1, SortedFew, InNone
    <3>7. QED
      BY <1>1, <1>2, <2>2, <3>3, <3>4, <3>5, <3>6
  <2>5. CASE (\E g \in Handlers : Flushed(g)) \/ FlushedLast
    <3>1. pending' = <<>> /\ (batch' = pending \/ \E g \in Handlers : batch' = <<Start(g)>>)
      BY <2>5 DEF Flushed, FlushedLast
    <3>2. Sorted(pending', h) /\ \A m : ~In(pending', m)
      BY <3>1, SortedFew, InNone
    <3>3. Sorted(batch', h) /\ \A m : In(batch', m) /\ DataOf(h, m) => In(pending, m)
      <4>1. \A g \in Handlers : \A m : In(<<Start(g)>>, m) => ~DataOf(h, m)
        BY InOne DEF DataOf, Start
      <4>2. QED
        BY <1>1, <3>1, <4>1, SortedFew
    <3>4. QED
      BY <1>1, <1>2, <2>2, <3>2, <3>3
  <2>6. QED
    BY <1>6, <2>3, <2>4, <2>5, SenderSteps
<1>7. CASE ServeStart \/ ServeData \/ ServeClose \/ ServePoll
  BY <1>3, <1>7, StartStep, ServeSteps DEF Served
<1>8. CASE LoseRequest \/ Route \/ LoseResponse
  <2>1. Back
    BY <1>8, BackFacts
  <2>2. UNCHANGED <<channel, pending>>
    BY <2>1 DEF Back
  <2>3. Sorted(batch', h) /\ \A m : In(batch', m) => ~DataOf(h, m)
    <3>1. batch' = <<>> \/ \E g \in Handlers : batch' = <<Start(g)>>
      BY <1>0, <2>1 DEF Back, TypeOK
    <3>2. \A g \in Handlers : \A m : In(<<Start(g)>>, m) => ~DataOf(h, m)
      BY InOne DEF DataOf, Start
    <3>3. QED
      BY <3>1, <3>2, SortedFew, InNone
  <2>4. QED
    BY <1>1, <1>2, <2>2, <2>3
<1>9. CASE Hang \/ Restart \/ UNCHANGED vars
  BY <1>3, <1>9 DEF Hang, Restart, vars, senderVars
<1>10. QED
  BY <1>4, <1>5, <1>6, <1>7, <1>8, <1>9, StepCases

\* What a step does to what has arrived.
LEMMA ArrivedSteps ==
  ASSUME Base, IdInv, [Next]_vars, NEW h \in Handlers
  PROVE  \/ arrived'[h] = arrived[h]
         \/ /\ ServeData /\ Message.type = "Data" /\ Message.by = h /\ Message \in Outgoing
            /\ [of |-> Message.by, n |-> Message.n] \in Chunk /\ arrived[h] \in Seq(Chunk)
            /\ arrived'[h] = Append(arrived[h], [of |-> Message.by, n |-> Message.n])
            /\ Message.id \in Ids /\ open[Message.id] = h
<1>1. CASE (ServeData \/ ServeClose \/ ServePoll) /\ Arrives(h)
  <2>1. Message.by = h /\ [of |-> Message.by, n |-> Message.n] \in Chunk
    BY <1>1, ArrivesOwn
  <2>2. Message \in Outgoing
    BY <1>1, ServeSteps
  <2>3. ServeData
    BY <1>1 DEF Arrives, ServeClose, ServePoll, Processing, Message
  <2>4. Message.id \in Ids
    BY <1>1, <2>2, MessageFacts DEF Arrives
  <2>5. QED
    BY <1>1, <2>1, <2>2, <2>3, <2>4 DEF Arrives, Base, TypeOK
<1>2. QED
  BY <1>1, ArrivalSteps

LEMMA ChunkTypes ==
  ASSUME NEW s \in Seq(Chunk)
  PROVE  \A k \in DOMAIN s : s[k].of \in Handlers /\ s[k].n \in Nat
<1>1. \A k \in DOMAIN s : s[k] \in Chunk
  BY ElementOfSeq
<1>2. QED
  BY <1>1 DEF Chunk

LEMMA OutOrderKept ==
  ASSUME Base, IdInv, OutInv, [Next]_vars, NEW h \in Handlers
  PROVE  OutOrder(h)'
<1>0. /\ TypeOK /\ DataOwned /\ OutOrder(h) /\ OutWhole(h)
  BY DEF Base, IdInv, OutInv
<1>1. Lined(h)'
  BY <1>0, LinedKept DEF OutOrder
<1>2. ASSUME ServeData, Message.type = "Data", Message.by = h, Message \in Outgoing
      PROVE  \A k \in DOMAIN arrived[h] : arrived[h][k].n < Message.n
  <2>1. Served
    BY <1>2, ServeSteps
  <2>2. Unserved(Message)
    BY <1>0, <2>1, ServedFacts
  <2>3. Coming(Message)
    BY <1>2, <2>2, ComingFacts DEF IsStart
  <2>4. QED
    BY <1>0, <1>2, <2>3 DEF OutOrder, DataOf
<1>3. Increasing(arrived'[h])
  <2>1. Increasing(arrived[h])
    BY <1>0 DEF OutOrder
  <2>2. CASE arrived'[h] = arrived[h]
    BY <2>1, <2>2
  <2>3. CASE /\ ServeData /\ Message.type = "Data" /\ Message.by = h /\ Message \in Outgoing
             /\ [of |-> Message.by, n |-> Message.n] \in Chunk /\ arrived[h] \in Seq(Chunk)
             /\ arrived'[h] = Append(arrived[h], [of |-> Message.by, n |-> Message.n])
    <3> DEFINE s == arrived[h]
               e == [of |-> Message.by, n |-> Message.n]
    <3>1. /\ DOMAIN Append(s, e) = DOMAIN s \union {Len(s) + 1} /\ Len(s) + 1 \notin DOMAIN s
          /\ \A j \in DOMAIN s : Append(s, e)[j] = s[j] /\ j < Len(s) + 1
          /\ Append(s, e)[Len(s) + 1] = e
      BY <2>3, AppendFacts
    <3>2. \A j \in DOMAIN s : s[j].n < e.n /\ j \in Nat /\ Len(s) + 1 \in Nat
      BY <1>2, <2>3
    <3>3. \A j, k \in DOMAIN s : j < k => s[j].n < s[k].n
      BY <2>1 DEF Increasing
    <3>4. Len(s) + 1 \in Nat
      BY <2>3
    <3> HIDE DEF s, e
    <3>5. \A j, k \in DOMAIN Append(s, e) : j < k => Append(s, e)[j].n < Append(s, e)[k].n
      BY <3>1, <3>2, <3>3, <3>4
    <3>6. QED
      BY <2>3, <3>5 DEF Increasing, s, e
  <2>4. QED
    BY <2>2, <2>3, ArrivedSteps
<1>4. ASSUME NEW m \in Outgoing, DataOf(h, m), Coming(m)', NEW k \in DOMAIN arrived'[h]
      PROVE  arrived'[h][k].n < m.n
  <2>1. m.type = "Data" /\ m.by = h /\ ~IsStart(m) /\ m.n \in Nat
    BY <1>4, MessageFacts, ClientAssumption DEF DataOf, IsStart
  <2>2. CASE arrived'[h] = arrived[h]
    <3>1. CASE Coming(m)
      BY <1>0, <1>4, <2>2, <3>1 DEF OutOrder
    <3>2. CASE \E g \in Handlers : Read(g) /\ HandlerNext(g) /\ m = Data(g)
      <4>1. m.n = reads[h] + 1
        BY <2>1, <3>2 DEF Data
      <4>2. arrived[h][k].n <= reads[h]
        BY <1>0, <1>4, <2>2 DEF OutWhole
      <4>3. arrived[h][k].n \in Nat /\ reads[h] \in Nat
        <5>1. arrived[h] \in Seq(Chunk)
          BY <1>0 DEF TypeOK
        <5>2. QED
          BY <1>4, <2>2, <5>1, ChunkTypes, HandlerKeeps
      <4>4. QED
        BY <2>2, <4>1, <4>2, <4>3
    <3>3. QED
      BY <1>4, <2>1, <3>1, <3>2, ComingFrom
  <2>3. CASE /\ ServeData /\ Message.type = "Data" /\ Message.by = h /\ Message \in Outgoing
             /\ [of |-> Message.by, n |-> Message.n] \in Chunk /\ arrived[h] \in Seq(Chunk)
             /\ arrived'[h] = Append(arrived[h], [of |-> Message.by, n |-> Message.n])
    <3>1. Served /\ reads' = reads
      BY <2>3, ServeSteps DEF serveRest, handlerVars
    <3>2. /\ served + 1 \in DOMAIN batch /\ Message = batch[served + 1] /\ In(batch, Message)
          /\ served \in Nat /\ Len(batch) \in Nat
      BY <1>0, <3>1, ServedFacts DEF In
    <3>3. /\ \A a, b : In(batch, a) /\ In(pending, b) /\ DataOf(h, a) /\ DataOf(h, b) => a.n < b.n
          /\ \A a, b : In(batch, a) /\ In(channel, b) /\ DataOf(h, a) /\ DataOf(h, b) => a.n < b.n
      BY <1>0, AheadIn DEF OutOrder, Lined
    <3>4. DataOf(h, Message)
      BY <2>3 DEF DataOf
    <3>5. Message.n < m.n
      <4>1. In(channel', m) \/ In(pending', m) \/ Unserved(m)'
        BY <1>4, <2>1, ComingFacts
      <4>2. CASE In(channel', m) \/ In(pending', m)
        BY <1>4, <3>1, <3>2, <3>3, <3>4, <4>2 DEF Served
      <4>3. CASE Unserved(m)'
        <5>1. PICK j \in served + 2 .. Len(batch) : batch[j] = m
          BY <3>1, <3>2, <4>3 DEF Unserved, Served
        <5>2. j \in DOMAIN batch /\ served + 1 < j
          BY <1>0, <3>2, <5>1 DEF TypeOK
        <5>3. QED
          BY <1>0, <1>4, <3>2, <3>4, <5>1, <5>2 DEF OutOrder, Lined, Sorted
      <4>4. QED
        BY <4>1, <4>2, <4>3
    <3>6. CASE k \in DOMAIN arrived[h]
      <4>1. arrived'[h][k] = arrived[h][k]
        BY <2>3, <3>6, AppendFacts
      <4>2. ~\E g \in Handlers : Read(g) /\ HandlerNext(g) /\ m = Data(g)
        BY <1>0, <3>1 DEF Read, TypeOK
      <4>3. Coming(m)
        BY <1>4, <2>1, <4>2, ComingFrom
      <4>4. QED
        BY <1>0, <1>4, <3>6, <4>1, <4>3 DEF OutOrder
    <3>7. CASE k \notin DOMAIN arrived[h]
      <4>1. arrived'[h][k] = [of |-> Message.by, n |-> Message.n]
        BY <1>4, <2>3, <3>7, AppendFacts
      <4>2. QED
        BY <3>5, <4>1
    <3>8. QED
      BY <3>6, <3>7
  <2>4. QED
    BY <2>2, <2>3, ArrivedSteps
<1>5. QED
  BY <1>1, <1>3, <1>4 DEF OutOrder, Increasing, DataOf

LEMMA OutWholeKept ==
  ASSUME Base, StartInv, IdInv, OutInv, [Next]_vars, NEW h \in Handlers
  PROVE  OutWhole(h)'
<1>0. /\ TypeOK /\ IdsApart /\ OutOrder(h) /\ OutWhole(h) /\ arrived[h] \in Seq(Chunk)
      /\ reads[h] \in Nat /\ reads'[h] \in Nat /\ reads[h] <= reads'[h]
  BY HandlerKeeps DEF Base, IdInv, OutInv, TypeOK
<1> DEFINE Reached(n) == \E k \in DOMAIN arrived[h] : arrived[h][k].n = n
           Arriving == /\ ServeData /\ Message.type = "Data" /\ Message.by = h /\ Message \in Outgoing
                       /\ [of |-> Message.by, n |-> Message.n] \in Chunk /\ arrived[h] \in Seq(Chunk)
                       /\ arrived'[h] = Append(arrived[h], [of |-> Message.by, n |-> Message.n])
                       /\ Message.id \in Ids /\ open[Message.id] = h
<1>1. arrived'[h] = arrived[h] \/ Arriving
  BY ArrivedSteps
<1>2. \A k \in DOMAIN arrived[h] : arrived[h][k].n \in Nat /\ arrived[h][k].n <= reads[h]
  BY <1>0, ChunkTypes DEF OutWhole
<1>3. ASSUME NEW k \in DOMAIN arrived'[h] PROVE arrived'[h][k].n <= reads'[h]
  <2>1. CASE arrived'[h] = arrived[h]
    BY <1>0, <1>2, <1>3, <2>1
  <2>2. CASE Arriving
    <3>1. Message.n <= reads[h] /\ Message.n \in Nat
      BY <2>2, ServesOwn
    <3>2. arrived'[h][k].n = Message.n \/ (k \in DOMAIN arrived[h] /\ arrived'[h][k] = arrived[h][k])
      BY <1>3, <2>2, AppendFacts
    <3>3. QED
      BY <1>0, <1>2, <3>1, <3>2
  <2>3. QED
    BY <1>1, <2>1, <2>2
<1>4. ASSUME NEW n, Reached(n) PROVE \E k \in DOMAIN arrived'[h] : arrived'[h][k].n = n
  BY <1>1, <1>4, AppendFacts
<1>5. ASSUME NEW n \in 1 .. reads'[h]
      PROVE  \/ \E k \in DOMAIN arrived'[h] : arrived'[h][k].n = n
             \/ \E m \in failed' : DataOf(h, m) /\ m.n = n
             \/ OnItsWay(h, n)' \/ TooLate(h, n)'
  <2>1. CASE n \notin 1 .. reads[h]
    <3>1. HandlerNext(h) /\ Read(h) /\ n = reads[h] + 1
      <4>1. reads'[h] # reads[h]
        BY <1>0, <1>5, <2>1
      <4>2. PICK g \in Handlers : HandlerNext(g)
        BY <4>1, QuietSteps
      <4>3. g = h
        BY <4>1, <4>2, HandlerSteps DEF Same
      <4>4. Read(h) /\ reads'[h] = reads[h] + 1
        BY <4>1, <4>2, <4>3, HandlerHas
      <4>5. QED
        BY <1>0, <1>5, <2>1, <4>2, <4>3, <4>4
    <3>2. Queued(Data(h))
      <4>1. channel' = Append(channel, Data(h))
        BY <3>1 DEF Read, Queue
      <4>2. Data(h) \in Outgoing
        <5>1. id[h] \in Ids
          BY <1>0, <3>1 DEF Read, At, Base, HandlerShape, TypeOK
        <5>2. reads[h] + 1 \in 1 .. MaxReads
          BY <1>0, <3>1, ClientAssumption DEF Read
        <5>3. QED
          BY <5>1, <5>2 DEF Data, Outgoing
      <4>3. QED
        BY <4>1, <4>2 DEF Queued
    <3>3. In(channel', Data(h)) /\ Data(h) \in Outgoing
      BY <1>0, <3>2, InAppend DEF Queued, TypeOK
    <3>4. DataOf(h, Data(h)) /\ Data(h).n = n /\ ~IsStart(Data(h))
      BY <3>1 DEF DataOf, Data, IsStart
    <3> DEFINE m == Data(h)
    <3>5. m \in Outgoing /\ In(channel', m) /\ DataOf(h, m) /\ m.n = n /\ ~IsStart(m)
      BY <3>3, <3>4
    <3>6. \E l \in Outgoing : In(channel', l) /\ DataOf(h, l) /\ l.n = n /\ ~IsStart(l)
      BY <3>5
    <3>7. PICK l \in Outgoing : In(channel', l) /\ DataOf(h, l) /\ l.n = n /\ ~IsStart(l)
      BY <3>6
    <3>8. Coming(l)'
      BY <3>7, ComingFacts
    <3>9. QED
      BY <3>7, <3>8 DEF OnItsWay, DataOf
  <2>2. CASE n \in 1 .. reads[h] /\ Reached(n)
    BY <1>4, <2>2
  <2>3. CASE \E m \in failed : DataOf(h, m) /\ m.n = n
    BY <2>3, FailedKept
  <2>4. CASE OnItsWay(h, n)
    <3>1. PICK m \in Outgoing : DataOf(h, m) /\ m.n = n /\ Coming(m)
      BY <2>4 DEF OnItsWay
    <3>2. ~IsStart(m)
      BY <3>1 DEF DataOf, IsStart
    <3>3. CASE Coming(m)'
      BY <3>1, <3>3 DEF OnItsWay, DataOf
    <3>4. CASE m \in failed'
      BY <3>1, <3>4
    <3>5. CASE m = Message /\ (ServeData \/ ServeClose \/ ServePoll)
      <4>1. Message.type = "Data" /\ Message.by = h /\ Message.n = n
        BY <3>1, <3>5 DEF DataOf
      <4>2. /\ Message.id \in Ids /\ Uses(h, Message.id)
            /\ [of |-> Message.by, n |-> Message.n] \in Chunk
        BY <3>5, <4>1, ServesOwn
      <4>3. CASE IsOpen(Message.id)
        <5>1. open[Message.id] \in Handlers /\ Arrives(open[Message.id])
          BY <3>5, <4>1, <4>3, ArriveSteps
        <5>2. Uses(open[Message.id], Message.id)
          BY DEF Uses
        <5>3. open[Message.id] = h
          BY <1>0, <4>2, <5>1, <5>2 DEF IdsApart
        <5>4. arrived'[h] = Append(arrived[h], [of |-> Message.by, n |-> Message.n])
          BY <5>1, <5>3 DEF Arrives
        <5>5. QED
          BY <1>0, <4>1, <4>2, <5>4, AppendFacts
      <4>4. CASE ~IsOpen(Message.id)
        <5>1. arrived' = arrived
          BY <3>5, <4>1, <4>4, ArriveSteps
        <5>2. \A k \in DOMAIN arrived[h] : arrived[h][k].n < n
          BY <1>0, <3>1 DEF OutOrder
        <5>3. ASSUME NEW i \in Ids, open'[i] = h PROVE FALSE
          <6>1. ~ServeStart
            BY <3>5, <4>1 DEF ServeStart, Processing, Message
          <6>2. open[i] = h
            BY <5>3, <6>1, OpenSteps
          <6>3. i = Message.id
            BY <1>0, <4>2, <6>2 DEF IdsApart, Uses
          <6>4. QED
            BY <4>4, <6>2, <6>3, RouteFacts DEF IsOpen
        <5>4. TooLate(h, n)'
          BY <5>1, <5>2, <5>3 DEF TooLate
        <5>5. QED
          BY <5>4
      <4>5. QED
        BY <4>3, <4>4
    <3>6. QED
      BY <3>1, <3>2, <3>3, <3>4, <3>5, ComingKept
  <2>5. CASE n \in 1 .. reads[h] /\ TooLate(h, n)
    <3>1. arrived'[h] = arrived[h]
      BY <1>1, <2>5 DEF TooLate
    <3>2. ~Newborn(h)
      BY <2>5 DEF StartInv, Untouched
    <3>3. \A i \in Ids : open'[i] # h
      BY <2>5, <3>2, OpenSteps DEF TooLate
    <3>4. TooLate(h, n)'
      BY <2>5, <3>1, <3>3 DEF TooLate
    <3>5. QED
      BY <3>4
  <2>6. QED
    BY <1>0, <2>1, <2>2, <2>3, <2>4, <2>5 DEF OutWhole
<1>6. QED
  BY <1>3, <1>5 DEF OutWhole, DataOf

LEMMA InvariantOut ==
  ASSUME NobodyShares
  PROVE  Spec => []OutInv
<1>1. Init => OutInv
  <2>1. ASSUME Init, NEW h \in Handlers PROVE OutOrder(h) /\ OutWhole(h)
    <3>1. DOMAIN <<>> = {} /\ 1 .. 0 = {} /\ \A m : ~In(<<>>, m)
      BY NoneIn, InNone
    <3>2. arrived[h] = <<>> /\ reads[h] = 0 /\ channel = <<>> /\ pending = <<>> /\ batch = <<>>
      BY <2>1 DEF Init
    <3>3. Lined(h)
      BY <3>1, <3>2 DEF Lined, Sorted, Ahead
    <3>4. \A m \in Outgoing : DataOf(h, m) => \A k \in DOMAIN arrived[h] : arrived[h][k].n < m.n
      BY <3>1, <3>2
    <3>5. QED
      BY <3>1, <3>2, <3>3, <3>4 DEF OutOrder, OutWhole, Increasing
  <2>2. QED
    BY <2>1 DEF OutInv
<1>2. Base /\ StartInv /\ IdInv /\ OutInv /\ [Next]_vars => OutInv'
  BY OutOrderKept, OutWholeKept DEF OutInv
<1>3. QED
  BY <1>1, <1>2, InvariantBase, InvariantStart, InvariantId, PTL DEF Spec

\* What an application sends reaches its target in the order in which it was
\* sent, none twice, and none missing in front of one that arrived but those of
\* calls that failed: the batches, the StartConnections held behind them and
\* the sender's three drains reorder nothing.
THEOREM ArrivesInOrder ==
  ASSUME NobodyShares
  PROVE  Spec => []ArrivedInOrder
<1>1. Base /\ OutInv => ArrivedInOrder
  <2>1. ASSUME Base, OutInv, NEW h \in Handlers
        PROVE  /\ Increasing(arrived[h])
               /\ \A j \in DOMAIN arrived[h] : \A n \in 1 .. arrived[h][j].n :
                    \/ \E k \in DOMAIN arrived[h] : arrived[h][k].n = n
                    \/ \E m \in failed : m.type = "Data" /\ m.by = h /\ m.n = n
    <3>1. OutOrder(h) /\ OutWhole(h) /\ arrived[h] \in Seq(Chunk) /\ reads[h] \in Nat
      BY <2>1, ClientAssumption DEF OutInv, Base, TypeOK
    <3>2. ASSUME NEW j \in DOMAIN arrived[h], NEW n \in 1 .. arrived[h][j].n
          PROVE  \/ \E k \in DOMAIN arrived[h] : arrived[h][k].n = n
                 \/ \E m \in failed : m.type = "Data" /\ m.by = h /\ m.n = n
      <4>1. arrived[h][j].n \in Nat /\ arrived[h][j].n <= reads[h]
        BY <3>1, ChunkTypes DEF OutWhole
      <4>2. n \in 1 .. reads[h] /\ ~(arrived[h][j].n < n)
        BY <3>1, <3>2, <4>1
      <4>3. ~OnItsWay(h, n) /\ ~TooLate(h, n)
        BY <3>1, <3>2, <4>2 DEF OnItsWay, TooLate, OutOrder
      <4>4. QED
        BY <3>1, <4>2, <4>3 DEF OutWhole, DataOf
    <3>3. QED
      BY <3>1, <3>2 DEF OutOrder
  <2>2. QED
    BY <2>1 DEF ArrivedInOrder
<1>2. QED
  BY <1>1, InvariantBase, InvariantOut, PTL

--------------------------------------------------------------------------------
(* What a target sends                                                          *)

LEMMA NumberFacts ==
  /\ \A n : ~ChunkNo(<<>>, n)
  /\ \A s, n : ChunkNo(s, n) <=> \E x : In(s, x) /\ x.kind = "Data" /\ x.n = n
  /\ \A s \in Seq(Response) : \A n : ChunkNo(s, n) => n \in Nat
<1>1. \A n : ~ChunkNo(<<>>, n)
  BY NoneIn DEF ChunkNo
<1>2. \A s, n : ChunkNo(s, n) <=> \E x : In(s, x) /\ x.kind = "Data" /\ x.n = n
  BY DEF ChunkNo, In
<1>3. ASSUME NEW s \in Seq(Response), NEW j \in DOMAIN s, s[j].kind = "Data"
      PROVE  s[j].n \in Nat
  <2>1. s[j] \in Response
    BY <1>3, ElementOfSeq
  <2>2. QED
    BY <1>3, <2>1, ResponseFacts, ClientAssumption
<1>4. \A s \in Seq(Response) : \A n : ChunkNo(s, n) => n \in Nat
  BY <1>3 DEF ChunkNo
<1>5. QED
  BY <1>1, <1>2, <1>4

LEMMA NumbersConcat ==
  ASSUME NEW s \in Seq(Response), NEW t \in Seq(Response)
  PROVE  /\ \A n : ChunkNo(s \o t, n) <=> ChunkNo(s, n) \/ ChunkNo(t, n)
         /\ InNumbers(s) /\ InNumbers(t) /\ (\A n, k \in Nat : ChunkNo(s, n) /\ ChunkNo(t, k) => n < k)
              => InNumbers(s \o t)
<1>1. /\ Len(s) \in Nat /\ Len(t) \in Nat /\ DOMAIN s = 1 .. Len(s) /\ DOMAIN t = 1 .. Len(t)
      /\ DOMAIN (s \o t) = 1 .. Len(s) + Len(t)
      /\ \A j \in DOMAIN s : (s \o t)[j] = s[j] /\ j \in DOMAIN (s \o t)
      /\ \A j \in DOMAIN t : (s \o t)[Len(s) + j] = t[j] /\ Len(s) + j \in DOMAIN (s \o t)
      /\ \A j \in DOMAIN (s \o t) : j \notin DOMAIN s =>
           j - Len(s) \in DOMAIN t /\ (s \o t)[j] = t[j - Len(s)]
  BY ConcatFacts
<1>2. \A n : ChunkNo(s \o t, n) <=> ChunkNo(s, n) \/ ChunkNo(t, n)
  <2>1. \A x : In(s \o t, x) <=> In(s, x) \/ In(t, x)
    BY InConcat
  <2>2. QED
    BY <2>1, NumberFacts
<1>3. ASSUME InNumbers(s), InNumbers(t), \A n, k \in Nat : ChunkNo(s, n) /\ ChunkNo(t, k) => n < k,
             NEW j \in DOMAIN (s \o t), NEW k \in DOMAIN (s \o t), j < k,
             (s \o t)[j].kind = "Data", (s \o t)[k].kind = "Data"
      PROVE  (s \o t)[j].n < (s \o t)[k].n
  <2>1. CASE k \in DOMAIN s
    <3>1. j \in DOMAIN s
      BY <1>1, <1>3, <2>1
    <3>2. QED
      BY <1>1, <1>3, <2>1, <3>1 DEF InNumbers
  <2>2. CASE j \notin DOMAIN s
    <3>1. k \notin DOMAIN s
      BY <1>1, <1>3, <2>2
    <3>2. /\ j - Len(s) \in DOMAIN t /\ (s \o t)[j] = t[j - Len(s)]
          /\ k - Len(s) \in DOMAIN t /\ (s \o t)[k] = t[k - Len(s)]
      BY <1>1, <1>3, <2>2, <3>1
    <3>3. j - Len(s) < k - Len(s)
      BY <1>1, <1>3
    <3>4. QED
      BY <1>3, <3>2, <3>3 DEF InNumbers
  <2>3. CASE j \in DOMAIN s /\ k \notin DOMAIN s
    <3>1. (s \o t)[j] = s[j] /\ k - Len(s) \in DOMAIN t /\ (s \o t)[k] = t[k - Len(s)]
      BY <1>1, <1>3, <2>3
    <3>2. ChunkNo(s, (s \o t)[j].n) /\ ChunkNo(t, (s \o t)[k].n)
      BY <1>3, <2>3, <3>1 DEF ChunkNo
    <3>3. (s \o t)[j].n \in Nat /\ (s \o t)[k].n \in Nat
      BY <3>2, NumberFacts
    <3>4. QED
      BY <1>3, <3>2, <3>3
  <2>4. QED
    BY <2>1, <2>2, <2>3
<1>4. QED
  BY <1>2, <1>3 DEF InNumbers

LEMMA NumbersTail ==
  ASSUME NEW s \in Seq(Response), s # <<>>, InNumbers(s)
  PROVE  /\ InNumbers(Tail(s))
         /\ \A n : ChunkNo(s, n) <=> (Head(s).kind = "Data" /\ Head(s).n = n) \/ ChunkNo(Tail(s), n)
         /\ Head(s).kind = "Data" => \A n : ChunkNo(Tail(s), n) => Head(s).n < n
<1>1. /\ Head(s) = s[1] /\ 1 \in DOMAIN s /\ DOMAIN Tail(s) = 1 .. Len(s) - 1 /\ Len(s) \in Nat \ {0}
      /\ \A j \in DOMAIN Tail(s) : Tail(s)[j] = s[j + 1] /\ j + 1 \in DOMAIN s
      /\ \A j \in DOMAIN s : j # 1 => j - 1 \in DOMAIN Tail(s) /\ s[j] = Tail(s)[j - 1]
  BY TailFacts
<1>2. \A j, k \in DOMAIN Tail(s) : (j < k => j + 1 < k + 1) /\ 1 < k + 1
  BY <1>1
<1>3. InNumbers(Tail(s))
  BY <1>1, <1>2 DEF InNumbers
<1>4. \A n : ChunkNo(s, n) <=> (Head(s).kind = "Data" /\ Head(s).n = n) \/ ChunkNo(Tail(s), n)
  BY <1>1 DEF ChunkNo
<1>5. Head(s).kind = "Data" => \A n : ChunkNo(Tail(s), n) => Head(s).n < n
  BY <1>1, <1>2 DEF ChunkNo, InNumbers
<1>6. QED
  BY <1>3, <1>4, <1>5

LEMMA NumbersAnswered ==
  ASSUME TypeOK, NEW i \in Ids, NEW more \in BOOLEAN, NEW ends \in BOOLEAN, Answers(i, more, ends)
  PROVE  /\ \A n : ChunkNo(response'[i], n) <=> ChunkNo(response[i], n) \/ (more /\ n = sent[i] + 1)
         /\ InNumbers(response[i]) /\ (more => \A k \in Nat : ChunkNo(response[i], k) => k <= sent[i])
              => InNumbers(response'[i])
<1> DEFINE s == response[i]
           t == response'[i]
           d == [kind |-> "Data", id |-> i, of |-> open[i], n |-> sent[i] + 1]
           c == [kind |-> "Close", id |-> i]
<1>1. s \in Seq(Response) /\ t \in Seq(Response) /\ sent[i] \in Nat /\ Len(s) \in Nat
  BY RouteFacts, ClientAssumption DEF TypeOK, Answers
<1>2. /\ \A j \in DOMAIN s : j \in DOMAIN t /\ t[j] = s[j]
      /\ \A j \in DOMAIN t : j \notin DOMAIN s =>
           /\ \A k \in DOMAIN s : k < j
           /\ (more /\ j = Len(s) + 1 /\ t[j] = d) \/ (ends /\ t[j] = c)
      /\ more => In(t, d)
  BY DEF Answers
<1>3. d.kind = "Data" /\ d.n = sent[i] + 1 /\ c.kind = "Close"
  OBVIOUS
<1> HIDE DEF s, t, d, c
<1>4. \A n : ChunkNo(t, n) <=> ChunkNo(s, n) \/ (more /\ n = sent[i] + 1)
  <2>1. ASSUME NEW n, ChunkNo(t, n) PROVE ChunkNo(s, n) \/ (more /\ n = sent[i] + 1)
    <3>1. PICK j \in DOMAIN t : t[j].kind = "Data" /\ t[j].n = n
      BY <2>1 DEF ChunkNo
    <3>2. CASE j \in DOMAIN s
      BY <1>2, <3>1, <3>2 DEF ChunkNo
    <3>3. CASE j \notin DOMAIN s
      BY <1>2, <1>3, <3>1, <3>3
    <3>4. QED
      BY <3>2, <3>3
  <2>2. \A n : ChunkNo(s, n) => ChunkNo(t, n)
    BY <1>2 DEF ChunkNo
  <2>3. more => ChunkNo(t, sent[i] + 1)
    BY <1>2, <1>3 DEF ChunkNo, In
  <2>4. QED
    BY <2>1, <2>2, <2>3
<1>5. ASSUME InNumbers(s), more => \A k \in Nat : ChunkNo(s, k) => k <= sent[i],
             NEW j \in DOMAIN t, NEW k \in DOMAIN t, j < k, t[j].kind = "Data", t[k].kind = "Data"
      PROVE  t[j].n < t[k].n
  <2>1. j \in Nat /\ k \in Nat
    BY <1>1
  <2>2. CASE j \in DOMAIN s /\ k \in DOMAIN s
    BY <1>2, <1>5, <2>2 DEF InNumbers
  <2>3. CASE j \in DOMAIN s /\ k \notin DOMAIN s
    <3>1. more /\ t[k].n = sent[i] + 1
      BY <1>2, <1>3, <1>5, <2>3
    <3>2. ChunkNo(s, t[j].n) /\ t[j].n \in Nat
      <4>1. ChunkNo(s, t[j].n)
        BY <1>2, <1>5, <2>3 DEF ChunkNo
      <4>2. QED
        BY <1>1, <4>1, NumberFacts
    <3>3. t[j].n <= sent[i]
      BY <1>5, <3>1, <3>2
    <3>4. QED
      BY <1>1, <3>1, <3>2, <3>3
  <2>4. CASE j \notin DOMAIN s /\ k \in DOMAIN s
    BY <1>2, <1>5, <2>1, <2>4
  <2>5. CASE j \notin DOMAIN s /\ k \notin DOMAIN s
    BY <1>1, <1>2, <1>3, <1>5, <2>5
  <2>6. QED
    BY <2>2, <2>3, <2>4, <2>5
<1>6. QED
  BY <1>4, <1>5 DEF InNumbers, s, t


LEMMA NumberTypes ==
  ASSUME TypeOK, NEW h \in Handlers
  PROVE  /\ \A n : GotNo(h, n) => n \in Nat
         /\ \A n : ChunkNo(inbox[h], n) => n \in Nat
         /\ \A i \in Ids : sent[i] \in Nat /\ \A n : ChunkNo(response[i], n) => n \in Nat
<1>1. got[h] \in Seq(Chunk) /\ inbox[h] \in Seq(Response)
  BY DEF TypeOK
<1>2. \A i \in Ids : sent[i] \in Nat /\ response[i] \in Seq(Response)
  BY RouteFacts, ClientAssumption DEF TypeOK
<1>3. \A n : GotNo(h, n) => n \in Nat
  BY <1>1, ChunkTypes DEF GotNo
<1>4. QED
  BY <1>1, <1>2, <1>3, NumberFacts

\* Nothing new comes to h.
LEMMA InSame ==
  ASSUME TypeOK, NEW h \in Handlers, InOrder(h), InWhole(h),
         task'[h] = task[h], got'[h] = got[h], inbox'[h] = inbox[h],
         \A n : LostNo(h, n) => LostNo(h, n)',
         Deaf(h) => Deaf(h)',
         \A i \in Ids : Uses(h, i)' =>
           /\ Uses(h, i)
           /\ response'[i] = response[i] \/ response'[i] = <<>>
           /\ open'[i] = h => open[i] = h /\ sent'[i] = sent[i]
           /\ Deaf(h)' \/ \A n : ChunkNo(response[i], n) => ChunkNo(response'[i], n) \/ LostNo(h, n)'
  PROVE  InOrder(h)' /\ InWhole(h)'
<1>1. \A n : ~ChunkNo(<<>>, n)
  BY NumberFacts
<1>2. \A n : GotNo(h, n)' <=> GotNo(h, n)
  BY DEF GotNo
<1>3. InNumbers(<<>>)
  BY NoneIn DEF InNumbers
<1>4. Increasing(got'[h]) /\ InNumbers(inbox'[h])
  BY DEF InOrder
<1>5. \A n, k \in Nat : GotNo(h, n)' /\ ChunkNo(inbox'[h], k) => n < k
  BY <1>2 DEF InOrder
<1>6. ASSUME NEW i \in Ids, Uses(h, i)'
      PROVE  /\ InNumbers(response'[i])
             /\ \A n, k \in Nat : (GotNo(h, n)' \/ ChunkNo(inbox'[h], n)) /\ ChunkNo(response'[i], k) => n < k
             /\ open'[i] = h => \A n \in Nat :
                  GotNo(h, n)' \/ ChunkNo(inbox'[h], n) \/ ChunkNo(response'[i], n) => n <= sent'[i]
  <2>1. Uses(h, i) /\ (response'[i] = response[i] \/ response'[i] = <<>>)
    BY <1>6
  <2>2. open'[i] = h => open[i] = h /\ sent'[i] = sent[i]
    BY <1>6
  <2>3. QED
    BY <1>1, <1>2, <1>3, <2>1, <2>2 DEF InOrder
<1>7. InOrder(h)'
  BY <1>4, <1>5, <1>6 DEF InOrder
<1>8. \A k \in Nat : \A n \in 1 .. k : GotNo(h, k)' => GotNo(h, n)' \/ LostNo(h, n)'
  BY <1>2 DEF InWhole
<1>9. task'[h] # "removing" => \A k \in Nat : \A n \in 1 .. k : ChunkNo(inbox'[h], k) =>
        GotNo(h, n)' \/ ChunkNo(inbox'[h], n) \/ LostNo(h, n)'
  BY <1>2 DEF InWhole
<1>10. ASSUME ~Deaf(h)', NEW i \in Ids, Uses(h, i)'
       PROVE  /\ \A k \in Nat : \A n \in 1 .. k : ChunkNo(response'[i], k) =>
                   GotNo(h, n)' \/ ChunkNo(inbox'[h], n) \/ ChunkNo(response'[i], n) \/ LostNo(h, n)'
              /\ open'[i] = h => \A n \in 1 .. sent'[i] :
                   GotNo(h, n)' \/ ChunkNo(inbox'[h], n) \/ ChunkNo(response'[i], n) \/ LostNo(h, n)'
  <2>1. Uses(h, i) /\ (response'[i] = response[i] \/ response'[i] = <<>>) /\ ~Deaf(h)
    BY <1>10
  <2>2. open'[i] = h => open[i] = h /\ sent'[i] = sent[i]
    BY <1>10
  <2>3. \A n : ChunkNo(response[i], n) => ChunkNo(response'[i], n) \/ LostNo(h, n)'
    BY <1>10
  <2>4. \A k \in Nat : \A n \in 1 .. k : ChunkNo(response'[i], k) =>
          GotNo(h, n)' \/ ChunkNo(inbox'[h], n) \/ ChunkNo(response'[i], n) \/ LostNo(h, n)'
    BY <1>1, <1>2, <2>1, <2>3 DEF InWhole
  <2>5. open'[i] = h => \A n \in 1 .. sent'[i] :
          GotNo(h, n)' \/ ChunkNo(inbox'[h], n) \/ ChunkNo(response'[i], n) \/ LostNo(h, n)'
    BY <1>2, <2>1, <2>2, <2>3 DEF InWhole
  <2>6. QED
    BY <2>4, <2>5
<1>11. InWhole(h)'
  BY <1>8, <1>9, <1>10 DEF InWhole
<1>12. QED
  BY <1>7, <1>11

\* What h has in its channel it takes, in order, or throws away.
Heeds(h) ==
  \/ got'[h] = got[h] /\ inbox'[h] = inbox[h] /\ task[h] # "removing"
  \/ got'[h] = got[h] /\ inbox'[h] = <<>> /\ task'[h] \in {"refused", "ended"}
  \/ /\ got'[h] = got[h] /\ inbox[h] # <<>> /\ Head(inbox[h]).kind # "Data" /\ inbox'[h] = Tail(inbox[h])
     /\ task[h] # "removing"
  \/ /\ inbox[h] # <<>> /\ Head(inbox[h]).kind = "Data" /\ inbox'[h] = Tail(inbox[h])
     /\ got'[h] = Append(got[h], [of |-> Head(inbox[h]).of, n |-> Head(inbox[h]).n])
     /\ task[h] # "removing"

LEMMA HandlerHears ==
  ASSUME Base, NEW h \in Handlers, HandlerNext(h)
  PROVE  Heeds(h)
<1>0. TypeOK
  BY DEF Base
<1>1. task \in [Handlers -> Task] /\ inbox \in [Handlers -> Seq(Response)] /\ got \in [Handlers -> Seq(Chunk)]
  BY <1>0 DEF TypeOK
<1>2. CASE Connect(h) \/ Register(h) \/ Replied(h) \/ Read(h) \/ Eof(h) \/ Closed(h) \/ Orphaned(h)
  BY <1>2 DEF Connect, Register, Replied, Read, Eof, Closed, Orphaned, At, Heeds
<1>3. CASE Refused(h)
  BY <1>1, <1>3 DEF Refused, Goto, Heeds
<1>4. CASE ReplyFails(h) \/ DeliverFails(h) \/ RemoveEntry(h)
  BY <1>1, <1>4 DEF ReplyFails, DeliverFails, RemoveEntry, End, Goto, Heeds
<1>5. CASE Challenged(h)
  BY <1>1, <1>5 DEF Challenged, Heard, Consume, At, Heeds
<1>6. CASE Deliver(h)
  BY <1>1, <1>6 DEF Deliver, Heard, Consume, At, Heeds
<1>7. QED
  BY <1>2, <1>3, <1>4, <1>5, <1>6 DEF HandlerNext, HandlerStep

LEMMA InMoved ==
  ASSUME TypeOK, TypeOK', NEW h \in Handlers, InOrder(h), InWhole(h), Heeds(h),
         UNCHANGED <<response, sent, open, missed, unrouted>>,
         Deaf(h) => Deaf(h)',
         \A i \in Ids : Uses(h, i)' => Uses(h, i)
  PROVE  InOrder(h)' /\ InWhole(h)'
<1> DEFINE G(n) == GotNo(h, n)
           B(n) == ChunkNo(inbox[h], n)
<1>0. inbox[h] \in Seq(Response) /\ got[h] \in Seq(Chunk) /\ got'[h] \in Seq(Chunk)
  BY DEF TypeOK
<1>1. \A n : ~ChunkNo(<<>>, n)
  BY NumberFacts
<1>2. InNumbers(<<>>)
  BY NoneIn DEF InNumbers
<1>3. /\ \A n : G(n) => n \in Nat
      /\ \A n : B(n) => n \in Nat
      /\ \A i \in Ids : \A n : ChunkNo(response[i], n) => n \in Nat
  BY NumberTypes
<1>4. /\ Increasing(got[h]) /\ InNumbers(inbox[h])
      /\ \A n, k \in Nat : G(n) /\ B(k) => n < k
  BY DEF InOrder
<1>5. \A n : LostNo(h, n)' <=> LostNo(h, n)
  BY DEF LostNo
<1>6. CASE got'[h] = got[h] /\ inbox'[h] = <<>> /\ task'[h] \in {"refused", "ended"}
  <2>1. Deaf(h)'
    BY <1>6 DEF Deaf
  <2>2. \A n : GotNo(h, n)' <=> G(n)
    BY <1>6 DEF GotNo
  <2>3. InOrder(h)'
    <3>1. Increasing(got'[h]) /\ InNumbers(inbox'[h])
      BY <1>2, <1>4, <1>6
    <3>2. \A n, k \in Nat : GotNo(h, n)' /\ ChunkNo(inbox'[h], k) => n < k
      BY <1>1, <1>6
    <3>3. ASSUME NEW i \in Ids, Uses(h, i)'
          PROVE  /\ InNumbers(response'[i])
                 /\ \A n, k \in Nat : (GotNo(h, n)' \/ ChunkNo(inbox'[h], n)) /\ ChunkNo(response'[i], k) => n < k
                 /\ open'[i] = h => \A n \in Nat :
                      GotNo(h, n)' \/ ChunkNo(inbox'[h], n) \/ ChunkNo(response'[i], n) => n <= sent'[i]
      BY <1>1, <1>6, <2>2, <3>3 DEF InOrder
    <3>4. QED
      BY <3>1, <3>2, <3>3 DEF InOrder
  <2>4. QED
    BY <1>1, <1>5, <1>6, <2>1, <2>2, <2>3 DEF InWhole
<1>7. ASSUME task[h] # "removing",
             Increasing(got'[h]), InNumbers(inbox'[h]),
             \A n, k \in Nat : GotNo(h, n)' /\ ChunkNo(inbox'[h], k) => n < k,
             \A n : GotNo(h, n)' \/ ChunkNo(inbox'[h], n) <=> G(n) \/ B(n),
             \A k \in Nat : \A n \in 1 .. k : GotNo(h, k)' => GotNo(h, n)' \/ LostNo(h, n)
      PROVE  InOrder(h)' /\ InWhole(h)'
  <2>1. ASSUME NEW i \in Ids, Uses(h, i)'
        PROVE  /\ InNumbers(response'[i])
               /\ \A n, k \in Nat : (GotNo(h, n)' \/ ChunkNo(inbox'[h], n)) /\ ChunkNo(response'[i], k) => n < k
               /\ open'[i] = h => \A n \in Nat :
                    GotNo(h, n)' \/ ChunkNo(inbox'[h], n) \/ ChunkNo(response'[i], n) => n <= sent'[i]
    BY <1>7, <2>1 DEF InOrder
  <2>2. InOrder(h)'
    BY <1>7, <2>1 DEF InOrder
  <2>3. ASSUME NEW k \in Nat, NEW n \in 1 .. k, ChunkNo(inbox'[h], k)
        PROVE  GotNo(h, n)' \/ ChunkNo(inbox'[h], n) \/ LostNo(h, n)
    <3>1. (G(k) \/ B(k)) /\ (G(n) \/ B(n) \/ LostNo(h, n) => GotNo(h, n)' \/ ChunkNo(inbox'[h], n) \/ LostNo(h, n))
      BY <1>7, <2>3
    <3>2. G(n) \/ B(n) \/ LostNo(h, n)
      BY <1>7, <3>1 DEF InWhole
    <3>3. QED
      BY <3>1, <3>2
  <2>4. ASSUME ~Deaf(h)', NEW i \in Ids, Uses(h, i)'
        PROVE  /\ \A k \in Nat : \A n \in 1 .. k : ChunkNo(response'[i], k) =>
                    GotNo(h, n)' \/ ChunkNo(inbox'[h], n) \/ ChunkNo(response'[i], n) \/ LostNo(h, n)
               /\ open'[i] = h => \A n \in 1 .. sent'[i] :
                    GotNo(h, n)' \/ ChunkNo(inbox'[h], n) \/ ChunkNo(response'[i], n) \/ LostNo(h, n)
    <3>1. ~Deaf(h) /\ Uses(h, i)
      BY <2>4
    <3>2. /\ \A k \in Nat : \A n \in 1 .. k : ChunkNo(response[i], k) =>
               G(n) \/ B(n) \/ ChunkNo(response[i], n) \/ LostNo(h, n)
          /\ open[i] = h => \A n \in 1 .. sent[i] :
               G(n) \/ B(n) \/ ChunkNo(response[i], n) \/ LostNo(h, n)
      BY <3>1 DEF InWhole
    <3>3. QED
      BY <1>7, <3>2
  <2>5. InWhole(h)'
    BY <1>5, <1>7, <2>3, <2>4 DEF InWhole
  <2>6. QED
    BY <2>2, <2>5
<1>8. \A k \in Nat : \A n \in 1 .. k : G(k) => G(n) \/ LostNo(h, n)
  BY DEF InWhole
<1>9. CASE got'[h] = got[h] /\ inbox'[h] = inbox[h] /\ task[h] # "removing"
  <2>1. \A n : GotNo(h, n)' <=> G(n)
    BY <1>9 DEF GotNo
  <2>2. QED
    BY <1>4, <1>7, <1>8, <1>9, <2>1
<1>10. ASSUME inbox[h] # <<>>, inbox'[h] = Tail(inbox[h])
       PROVE  /\ InNumbers(inbox'[h])
              /\ \A n : B(n) <=> (Head(inbox[h]).kind = "Data" /\ Head(inbox[h]).n = n) \/ ChunkNo(inbox'[h], n)
              /\ Head(inbox[h]).kind = "Data" => \A n : ChunkNo(inbox'[h], n) => Head(inbox[h]).n < n
  BY <1>0, <1>4, <1>10, NumbersTail
<1>11. CASE /\ got'[h] = got[h] /\ inbox[h] # <<>> /\ Head(inbox[h]).kind # "Data" /\ inbox'[h] = Tail(inbox[h])
            /\ task[h] # "removing"
  <2>1. \A n : GotNo(h, n)' <=> G(n)
    BY <1>11 DEF GotNo
  <2>2. InNumbers(inbox'[h]) /\ \A n : B(n) <=> ChunkNo(inbox'[h], n)
    BY <1>10, <1>11
  <2>3. QED
    BY <1>4, <1>7, <1>8, <1>11, <2>1, <2>2
<1>12. CASE /\ inbox[h] # <<>> /\ Head(inbox[h]).kind = "Data" /\ inbox'[h] = Tail(inbox[h])
            /\ got'[h] = Append(got[h], [of |-> Head(inbox[h]).of, n |-> Head(inbox[h]).n])
            /\ task[h] # "removing"
  <2> DEFINE x == Head(inbox[h])
             e == [of |-> x.of, n |-> x.n]
  <2>1. /\ InNumbers(inbox'[h])
        /\ \A n : B(n) <=> x.n = n \/ ChunkNo(inbox'[h], n)
        /\ \A n : ChunkNo(inbox'[h], n) => x.n < n
    BY <1>10, <1>12
  <2>2. x \in Response
    BY <1>12, InboxHead
  <2>3. e \in Chunk /\ e.n = x.n /\ x.n \in Nat
    <3>1. x.of \in Handlers /\ x.n \in 1 .. MaxChunks
      BY <1>12, <2>2, ResponseFacts
    <3>2. QED
      BY <3>1, ClientAssumption DEF Chunk
  <2>4. /\ DOMAIN got'[h] = DOMAIN got[h] \union {Len(got[h]) + 1} /\ Len(got[h]) + 1 \notin DOMAIN got[h]
        /\ \A j \in DOMAIN got[h] : got'[h][j] = got[h][j] /\ j < Len(got[h]) + 1
        /\ got'[h][Len(got[h]) + 1] = e
    BY <1>0, <1>12, <2>3, AppendFacts
  <2>5. \A n : GotNo(h, n)' <=> G(n) \/ n = x.n
    BY <2>3, <2>4 DEF GotNo
  <2>6. \A n : G(n) => n < x.n
    BY <1>3, <1>4, <2>1, <2>3
  <2>7. Increasing(got'[h])
    <3>1. \A j \in DOMAIN got[h] : got[h][j].n < x.n /\ j \in Nat
      BY <1>0, <2>6 DEF GotNo
    <3>2. Len(got[h]) + 1 \in Nat
      BY <1>0
    <3>3. QED
      BY <1>4, <2>3, <2>4, <3>1, <3>2 DEF Increasing
  <2>8. \A n : GotNo(h, n)' \/ ChunkNo(inbox'[h], n) <=> G(n) \/ B(n)
    BY <2>1, <2>5
  <2>9. \A n, k \in Nat : GotNo(h, n)' /\ ChunkNo(inbox'[h], k) => n < k
    BY <1>4, <2>1, <2>5
  <2>10. ASSUME NEW k \in Nat, NEW n \in 1 .. k, GotNo(h, k)'
         PROVE  GotNo(h, n)' \/ LostNo(h, n)
    <3>1. CASE G(k)
      BY <1>8, <2>5, <3>1
    <3>2. CASE k = x.n
      <4>1. B(k)
        BY <2>1, <3>2
      <4>2. G(n) \/ B(n) \/ LostNo(h, n)
        BY <1>12, <4>1 DEF InWhole
      <4>3. ~ChunkNo(inbox'[h], n)
        BY <2>1, <2>3, <3>2
      <4>4. QED
        BY <2>1, <2>5, <4>2, <4>3
    <3>3. QED
      BY <2>5, <2>10, <3>1, <3>2
  <2>11. QED
    BY <1>7, <1>12, <2>1, <2>7, <2>8, <2>9, <2>10
<1>13. QED
  BY <1>6, <1>9, <1>11, <1>12 DEF Heeds

\* Who hears nothing more never will.
LEMMA DeafKept ==
  ASSUME Base, [Next]_vars, NEW h \in Handlers, Deaf(h)
  PROVE  Deaf(h)'
<1>0. TypeOK /\ HandlerShape
  BY DEF Base
<1>1. /\ entries \in [Ids -> Handlers \union {NoHandler}] /\ NoHandler # h
      /\ id[h] \in Ids \union {0}
  BY <1>0, RouteFacts DEF TypeOK
<1>2. task[h] \in {"replying", "relay"} => id[h] \in Ids /\ id'[h] = id[h]
  <2>1. task[h] \in {"replying", "relay"} => id[h] # 0
    BY <1>0 DEF HandlerShape
  <2>2. id[h] # 0 => id'[h] = id[h]
    BY HandlerKeeps
  <2>3. QED
    BY <1>1, <2>1, <2>2
<1>3. CASE HandlerNext(h)
  <2>1. CASE task[h] \in {"refused", "ended"}
    BY <1>3, <2>1, EntrySteps
  <2>2. CASE task[h] = "removing"
    BY <1>3, <2>2, EntrySteps DEF Deaf
  <2>3. CASE task[h] \in {"replying", "relay"} /\ entries[id[h]] # h
    <3>1. task'[h] \in {"replying", "relay", "ended", "removing"} /\ entries' = entries
      BY <1>3, <2>3, EntrySteps
    <3>2. QED
      BY <1>2, <2>3, <3>1 DEF Deaf
  <2>4. QED
    BY <2>1, <2>2, <2>3 DEF Deaf
<1>4. ASSUME NEW g \in Handlers \ {h}, HandlerNext(g)
      PROVE  Deaf(h)'
  <2>1. task'[h] = task[h] /\ id'[h] = id[h]
    BY <1>4, HandlerSteps DEF Same
  <2>2. \/ entries' = entries
        \/ entries' = [entries EXCEPT ![id[g]] = g]
        \/ entries' = [entries EXCEPT ![id[g]] = NoHandler]
    BY <1>4, EntrySteps
  <2>3. \A i \in Ids : entries[i] # h => entries'[i] # h
    BY <1>1, <2>2
  <2>4. QED
    BY <1>2, <2>1, <2>3 DEF Deaf
<1>5. CASE ~\E g \in Handlers : HandlerNext(g)
  <2>1. UNCHANGED <<task, id>> /\ (~Cleanup => UNCHANGED entries)
    BY <1>5, QuietSteps
  <2>2. Cleanup => \A i \in Ids : entries[i] # h => entries'[i] # h
    BY <1>1 DEF Cleanup
  <2>3. \A i \in Ids : entries[i] # h => entries'[i] # h
    BY <2>1, <2>2
  <2>4. QED
    BY <1>2, <2>1, <2>3 DEF Deaf
<1>6. QED
  BY <1>3, <1>4, <1>5

\* What is lost is not found again.
LEMMA LostKept ==
  ASSUME Base, [Next]_vars, NEW h \in Handlers
  PROVE  \A n : LostNo(h, n) => LostNo(h, n)'
<1>1. missed[h] \subseteq missed'[h] /\ unrouted[h] \subseteq unrouted'[h]
  <2>1. CASE \E g \in Handlers : HandlerNext(g)
    BY <2>1, HandlerSteps DEF lossVars
  <2>2. CASE PollTick \/ Cleanup \/ \E j \in Ids : Elapse(j)
    BY <2>2, TaskSteps DEF lossVars
  <2>3. CASE SenderStep
    BY <2>3, SenderSteps
  <2>4. CASE ServeStart \/ ServeData \/ ServeClose \/ ServePoll
    BY <2>4, StartStep, ServeSteps DEF serveRest, lossVars
  <2>5. CASE LoseRequest \/ Hang \/ Restart \/ UNCHANGED vars
    BY <2>5 DEF LoseRequest, Hang, Restart, vars, lossVars
  <2>6. CASE Route
    BY <2>6 DEF Route
  <2>7. CASE LoseResponse
    BY <2>7 DEF LoseResponse
  <2>8. QED
    BY <2>1, <2>2, <2>3, <2>4, <2>5, <2>6, <2>7, StepCases
<1>2. QED
  BY <1>1 DEF LostNo

\* A connection that is not open yet stays so.
LEMMA NoneKept ==
  ASSUME Base, NoneYet, [Next]_vars
  PROVE  NoneYet'
<1>0. TypeOK
  BY DEF Base
<1>1. nextId \in 1 .. MaxId + 1 /\ MaxId \in Nat /\ Ids \subseteq Nat
  BY <1>0, ClientAssumption, RouteFacts DEF TypeOK
<1>2. CASE UNCHANGED <<nextId, sent, open>>
  BY <1>2 DEF NoneYet
<1>3. CASE ServeStart
  <2>1. /\ UNCHANGED sent
        /\ \E h \in Handlers : Opened(h) \/ NotOpened
    BY <1>3, StartStep
  <2>2. CASE NotOpened
    BY <2>1, <2>2 DEF NotOpened, NoneYet
  <2>3. ASSUME NEW h \in Handlers, Opened(h) PROVE NoneYet'
    <3>1. nextId' = nextId + 1 /\ \A i \in Ids \ {nextId} : open'[i] = open[i]
      BY <2>3 DEF Opened
    <3>2. nextId \in Nat
      BY <1>1
    <3>3. \A i \in Ids : nextId' <= i => nextId <= i /\ i # nextId
      BY <1>1, <3>1, <3>2
    <3>4. QED
      BY <2>1, <3>1, <3>3 DEF NoneYet
  <2>4. QED
    BY <2>1, <2>2, <2>3
<1>4. CASE ServeData \/ ServeClose \/ ServePoll
  <2>1. nextId' = nextId
    BY <1>4, ServeSteps
  <2>2. ASSUME NEW i \in Ids, nextId <= i PROVE sent'[i] = 0 /\ open'[i] = NoHandler
    <3>1. PICK more \in BOOLEAN, ends \in BOOLEAN : Answers(i, more, ends)
      BY <1>4, ServeSteps
    <3>2. sent[i] = 0 /\ open[i] = NoHandler
      BY <2>2 DEF NoneYet
    <3>3. QED
      BY <3>1, <3>2 DEF Answers, IsOpen
  <2>3. QED
    BY <2>1, <2>2 DEF NoneYet
<1>5. CASE Restart
  BY <1>5 DEF Restart, NoneYet
<1>6. CASE \E g \in Handlers : HandlerNext(g)
  BY <1>2, <1>6, HandlerSteps DEF serverVars
<1>7. CASE PollTick \/ Cleanup \/ \E j \in Ids : Elapse(j)
  BY <1>2, <1>7, TaskSteps DEF serverVars
<1>8. CASE SenderStep
  BY <1>2, <1>8, SenderSteps DEF senderRest
<1>9. CASE LoseRequest \/ Route \/ LoseResponse
  BY <1>2, <1>9, BackFacts
<1>10. CASE Hang \/ UNCHANGED vars
  BY <1>2, <1>10 DEF Hang, vars, serverVars
<1>11. QED
  BY <1>3, <1>4, <1>5, <1>6, <1>7, <1>8, <1>9, <1>10, StepCases

\* Steps that bring h no response.
LEMMA InQuiet ==
  ASSUME Base, StartInv, InInv, [Next]_vars, NEW h \in Handlers,
         ~ServeData, ~ServeClose, ~ServePoll, ~Route, ~LoseResponse, ~HandlerNext(h),
         ~(ServeStart /\ Opened(h))
  PROVE  InOrder(h)' /\ InWhole(h)'
<1>0. TypeOK /\ InOrder(h) /\ InWhole(h) /\ Base'
  BY BaseKept DEF Base, InInv
<1>1. \A i \in Ids : Uses(h, i)' => Uses(h, i)
  BY UsesSteps
<1>2. (\A n : LostNo(h, n) => LostNo(h, n)') /\ (Deaf(h) => Deaf(h)')
  BY LostKept, DeafKept
<1>3. h # NoHandler
  BY RouteFacts
<1>4. ASSUME task'[h] = task[h], got'[h] = got[h], inbox'[h] = inbox[h],
             \A i \in Ids : response'[i] = response[i],
             \A i \in Ids : open'[i] = h => open[i] = h /\ sent'[i] = sent[i]
      PROVE  InOrder(h)' /\ InWhole(h)'
  BY <1>0, <1>1, <1>2, <1>4, InSame
<1>5. ASSUME NEW g \in Handlers, HandlerNext(g)
      PROVE  InOrder(h)' /\ InWhole(h)'
  <2>1. Same(h) /\ UNCHANGED serverVars
    BY <1>5, HandlerSteps
  <2>2. QED
    BY <1>4, <2>1 DEF Same, serverVars
<1>6. CASE PollTick \/ Cleanup \/ \E j \in Ids : Elapse(j)
  BY <1>4, <1>6, TaskSteps DEF handlerVars, serverVars
<1>7. CASE SenderStep
  <2>1. UNCHANGED senderRest /\ Idle
    BY <1>7, SenderSteps
  <2>2. response' = NoResponses
    <3>1. response = NoResponses
      BY <2>1 DEF Idle
    <3>2. /\ \A l : Resume(l) => response' = NoResponses
          /\ \A b, g, then : Call(b, g, then) => response' = NoResponses
          /\ \A g, then : FlushAndStart(g, then) => response' = NoResponses
      BY <3>1 DEF Resume, Call, FlushAndStart
    <3>3. CASE SenderTakes \/ SenderDrains
      BY <3>2, <3>3 DEF SenderTakes, SenderDrains
    <3>4. CASE SenderDrained \/ WindowMessage \/ WindowOver
      BY <3>2, <3>4 DEF SenderDrained, WindowMessage, WindowOver
    <3>5. CASE LastDrains \/ LastFlush
      BY <3>2, <3>5 DEF LastDrains, LastFlush
    <3>6. QED
      BY <1>7, <3>3, <3>4, <3>5 DEF SenderStep
  <2>3. QED
    BY <1>4, <2>1, <2>2 DEF senderRest, handlerVars, Idle
<1>8. CASE LoseRequest
  <2>1. response' = NoResponses /\ UNCHANGED <<task, open, sent, got>>
    BY <1>8, BackFacts DEF Back
  <2>2. UNCHANGED inbox /\ served = 0
    BY <1>8 DEF LoseRequest, handlerVars
  <2>3. response = NoResponses
    BY <2>2 DEF Base, ResponseShape
  <2>4. QED
    BY <1>4, <2>1, <2>2, <2>3
<1>9. CASE Hang \/ UNCHANGED vars
  BY <1>4, <1>9 DEF Hang, vars, handlerVars, serverVars
<1>10. CASE Restart
  BY <1>3, <1>4, <1>10 DEF Restart, handlerVars
<1>11. CASE ServeStart
  <2>1. /\ UNCHANGED <<serveRest, sent>>
        /\ \A i \in Ids : response[i] = <<>> /\ response'[i] = <<>>
        /\ \E g \in Handlers : Opened(g) \/ NotOpened
    BY <1>11, StartStep
  <2>2. \A i \in Ids : open'[i] = h => open[i] = h
    BY <1>11, <2>1 DEF Opened, NotOpened
  <2>3. QED
    BY <1>4, <2>1, <2>2 DEF serveRest, handlerVars
<1>12. QED
  BY <1>5, <1>6, <1>7, <1>8, <1>9, <1>10, <1>11, StepCases

\* A connection that opens has brought nothing yet.
LEMMA InOpened ==
  ASSUME Base, StartInv, InInv, [Next]_vars, NEW h \in Handlers, ServeStart, Opened(h)
  PROVE  InOrder(h)' /\ InWhole(h)'
<1>1. /\ UNCHANGED <<serveRest, sent>> /\ served = 0
      /\ \A i \in Ids : response'[i] = <<>>
      /\ \E g \in Handlers : Message = Start(g) /\ (Opened(g) \/ NotOpened)
  BY StartStep
<1>0. NoneYet /\ nextId \in Ids /\ nextId <= nextId /\ open'[nextId] = h
  BY RouteFacts DEF InInv, Opened
<1>2. Newborn(h)
  <2>1. open[nextId] # h
    BY <1>0, RouteFacts DEF NoneYet
  <2>2. QED
    BY <1>0, <2>1, OpenSteps
<1>3. inbox'[h] = <<>> /\ got'[h] = <<>> /\ \A i \in Ids : open[i] # h
  BY <1>1, <1>2 DEF StartInv, Untouched, serveRest, handlerVars
<1>4. \A i \in Ids : open'[i] = h => sent'[i] = 0
  BY <1>0, <1>1, <1>3 DEF Opened, NoneYet
<1>5. \A n : ~ChunkNo(inbox'[h], n) /\ ~GotNo(h, n)' /\ \A i \in Ids : ~ChunkNo(response'[i], n)
  BY <1>1, <1>3, NumberFacts, NoneIn DEF GotNo
<1>6. Increasing(got'[h]) /\ InNumbers(inbox'[h]) /\ \A i \in Ids : InNumbers(response'[i])
  BY <1>1, <1>3, NoneIn DEF Increasing, InNumbers
<1>7. InOrder(h)'
  BY <1>5, <1>6 DEF InOrder
<1>8. 1 .. 0 = {}
  OBVIOUS
<1>9. InWhole(h)'
  BY <1>4, <1>5, <1>8 DEF InWhole
<1>10. QED
  BY <1>7, <1>9

\* A chunk that is returned is the next one.
LEMMA InAnswered ==
  ASSUME Base, StartInv, IdInv, InInv, [Next]_vars, NEW h \in Handlers,
         ServeData \/ ServeClose \/ ServePoll
  PROVE  InOrder(h)' /\ InWhole(h)'
<1>0. TypeOK /\ InOrder(h) /\ InWhole(h) /\ IdsApart
  BY DEF Base, InInv, IdInv
<1>1. UNCHANGED <<task, inbox, got, missed, unrouted>>
  BY ServeSteps DEF serveRest, handlerVars, lossVars
<1>2. ASSUME NEW i \in Ids, Uses(h, i)' PROVE Uses(h, i)
  <2>1. ~ServeStart
    BY ServeSteps DEF ServeStart, Processing, IsStart, Message
  <2>2. QED
    BY <1>2, <2>1, UsesSteps
<1>3. Deaf(h) => Deaf(h)'
  BY DeafKept
<1>4. /\ \A n : GotNo(h, n)' <=> GotNo(h, n)
      /\ \A n : LostNo(h, n)' <=> LostNo(h, n)
  BY <1>1 DEF GotNo, LostNo
<1>5. /\ \A n : GotNo(h, n) => n \in Nat
      /\ \A n : ChunkNo(inbox[h], n) => n \in Nat
      /\ \A i \in Ids : sent[i] \in Nat /\ \A n : ChunkNo(response[i], n) => n \in Nat
  BY <1>0, NumberTypes
<1> DEFINE GB(n) == GotNo(h, n) \/ ChunkNo(inbox[h], n)
<1>6. ASSUME NEW i \in Ids, Uses(h, i)'
      PROVE  /\ /\ InNumbers(response'[i])
                /\ \A n, k \in Nat : GB(n) /\ ChunkNo(response'[i], k) => n < k
                /\ open'[i] = h => \A n \in Nat : GB(n) \/ ChunkNo(response'[i], n) => n <= sent'[i]
             /\ ~Deaf(h) =>
                /\ \A k \in Nat : \A n \in 1 .. k : ChunkNo(response'[i], k) =>
                     GB(n) \/ ChunkNo(response'[i], n) \/ LostNo(h, n)
                /\ open'[i] = h => \A n \in 1 .. sent'[i] :
                     GB(n) \/ ChunkNo(response'[i], n) \/ LostNo(h, n)
  <2>0. PICK more \in BOOLEAN, ends \in BOOLEAN : Answers(i, more, ends)
    BY ServeSteps
  <2>1. Uses(h, i) /\ sent[i] \in Nat
    BY <1>2, <1>5, <1>6
  <2>2. more => open[i] = h
    <3>1. open[i] \in Handlers \union {NoHandler}
      BY <1>0 DEF TypeOK
    <3>2. ASSUME more PROVE open[i] = h
      <4>1. open[i] \in Handlers
        BY <2>0, <3>1, <3>2 DEF Answers, IsOpen
      <4>2. Uses(open[i], i)
        BY DEF Uses
      <4>3. QED
        BY <1>0, <2>1, <4>1, <4>2 DEF IdsApart
    <3>3. QED
      BY <3>2
  <2>3. open'[i] = h => open[i] = h
    BY <2>0, RouteFacts DEF Answers
  <2>4. sent'[i] = IF more THEN sent[i] + 1 ELSE sent[i]
    BY <2>0 DEF Answers
  <2>5. /\ InNumbers(response[i])
        /\ \A n, k \in Nat : GB(n) /\ ChunkNo(response[i], k) => n < k
        /\ open[i] = h => \A n \in Nat : GB(n) \/ ChunkNo(response[i], n) => n <= sent[i]
    BY <1>0, <2>1 DEF InOrder
  <2>6. ~Deaf(h) =>
          /\ \A k \in Nat : \A n \in 1 .. k : ChunkNo(response[i], k) =>
               GB(n) \/ ChunkNo(response[i], n) \/ LostNo(h, n)
          /\ open[i] = h => \A n \in 1 .. sent[i] :
               GB(n) \/ ChunkNo(response[i], n) \/ LostNo(h, n)
    BY <1>0, <2>1 DEF InWhole
  <2>7. /\ \A n : ChunkNo(response'[i], n) <=> ChunkNo(response[i], n) \/ (more /\ n = sent[i] + 1)
        /\ InNumbers(response'[i])
    <3>1. more => \A k \in Nat : ChunkNo(response[i], k) => k <= sent[i]
      BY <2>2, <2>5
    <3>2. QED
      BY <1>0, <2>0, <2>5, <3>1, NumbersAnswered
  <2> HIDE DEF GB
  <2>8. \A n, k \in Nat : GB(n) /\ ChunkNo(response'[i], k) => n < k
    BY <2>1, <2>2, <2>5, <2>7
  <2>9. open'[i] = h => \A n \in Nat : GB(n) \/ ChunkNo(response'[i], n) => n <= sent'[i]
    BY <2>1, <2>3, <2>4, <2>5, <2>7
  <2>10. ASSUME ~Deaf(h), open[i] = h, NEW n \in 1 .. sent'[i]
         PROVE  GB(n) \/ ChunkNo(response'[i], n) \/ LostNo(h, n)
    <3>1. n \in 1 .. sent[i] \/ (more /\ n = sent[i] + 1)
      BY <2>1, <2>4, <2>10
    <3>2. QED
      BY <2>6, <2>7, <2>10, <3>1
  <2>11. ASSUME ~Deaf(h), NEW k \in Nat, NEW n \in 1 .. k, ChunkNo(response'[i], k)
         PROVE  GB(n) \/ ChunkNo(response'[i], n) \/ LostNo(h, n)
    <3>1. CASE ChunkNo(response[i], k)
      BY <2>6, <2>7, <2>11, <3>1
    <3>2. CASE more /\ k = sent[i] + 1
      BY <2>2, <2>4, <2>10, <2>11, <3>2
    <3>3. QED
      BY <2>7, <2>11, <3>1, <3>2
  <2>12. QED
    BY <2>3, <2>7, <2>8, <2>9, <2>10, <2>11
<1>7. InOrder(h)'
  <2>1. /\ Increasing(got'[h]) /\ InNumbers(inbox'[h])
        /\ \A n, k \in Nat : GotNo(h, n)' /\ ChunkNo(inbox'[h], k) => n < k
    BY <1>0, <1>1, <1>4 DEF InOrder
  <2>2. \A i \in Ids : Uses(h, i)' =>
          /\ InNumbers(response'[i])
          /\ \A n, k \in Nat : (GotNo(h, n)' \/ ChunkNo(inbox'[h], n)) /\ ChunkNo(response'[i], k) => n < k
          /\ open'[i] = h => \A n \in Nat :
               GotNo(h, n)' \/ ChunkNo(inbox'[h], n) \/ ChunkNo(response'[i], n) => n <= sent'[i]
    BY <1>1, <1>4, <1>6
  <2>3. QED
    BY <2>1, <2>2 DEF InOrder
<1>8. InWhole(h)'
  <2>1. /\ \A k \in Nat : \A n \in 1 .. k : GotNo(h, k)' => GotNo(h, n)' \/ LostNo(h, n)'
        /\ task'[h] # "removing" => \A k \in Nat : \A n \in 1 .. k : ChunkNo(inbox'[h], k) =>
             GotNo(h, n)' \/ ChunkNo(inbox'[h], n) \/ LostNo(h, n)'
    BY <1>0, <1>1, <1>4 DEF InWhole
  <2>2. ASSUME ~Deaf(h)', NEW i \in Ids, Uses(h, i)'
        PROVE  /\ \A k \in Nat : \A n \in 1 .. k : ChunkNo(response'[i], k) =>
                    GotNo(h, n)' \/ ChunkNo(inbox'[h], n) \/ ChunkNo(response'[i], n) \/ LostNo(h, n)'
               /\ open'[i] = h => \A n \in 1 .. sent'[i] :
                    GotNo(h, n)' \/ ChunkNo(inbox'[h], n) \/ ChunkNo(response'[i], n) \/ LostNo(h, n)'
    BY <1>1, <1>3, <1>4, <1>6, <2>2
  <2>3. QED
    BY <2>1, <2>2 DEF InWhole
<1>9. QED
  BY <1>7, <1>8

\* The chunks on a connection of h are those of its target.
LEMMA ChunksKnown ==
  ASSUME OwnChunks, NEW h \in Handlers, NEW i \in Ids, Uses(h, i), NEW n, ChunkNo(response[i], n)
  PROVE  n \in ChunksFor(h)
<1>1. PICK j \in DOMAIN response[i] : response[i][j].kind = "Data" /\ response[i][j].n = n
  BY DEF ChunkNo
<1>2. response[i][j].of = h
  BY <1>1 DEF OwnChunks, AllOf
<1>3. response[i][j] \in Range(response[i])
  BY DEF Range
<1>4. QED
  BY <1>1, <1>2, <1>3 DEF ChunksFor

\* A response that is lost leaves a gap that is accounted for.
LEMMA InLost ==
  ASSUME Base, StartInv, IdInv, InInv, [Next]_vars, NEW h \in Handlers, LoseResponse
  PROVE  InOrder(h)' /\ InWhole(h)'
<1>0. TypeOK /\ InOrder(h) /\ InWhole(h) /\ OwnChunks
  BY DEF Base, InInv, IdInv
<1>1. response' = NoResponses /\ UNCHANGED <<task, open, nextId, sent, got>>
  BY BackFacts DEF Back
<1>2. UNCHANGED inbox /\ ChunksFor(h) \subseteq missed'[h]
  BY DEF LoseResponse, handlerVars
<1>3. \A i \in Ids : response'[i] = <<>>
  BY <1>1, RouteFacts
<1>4. nextId \in Nat
  BY <1>0, ClientAssumption DEF TypeOK
<1>5. \A i \in Ids : Uses(h, i)' => Uses(h, i)
  BY <1>1, <1>4, UsesSteps DEF Opened
<1>6. \A i \in Ids : Uses(h, i) => \A n : ChunkNo(response[i], n) => LostNo(h, n)'
  BY <1>0, <1>2, ChunksKnown DEF LostNo
<1>7. (\A n : LostNo(h, n) => LostNo(h, n)') /\ (Deaf(h) => Deaf(h)')
  BY LostKept, DeafKept
<1>8. QED
  BY <1>0, <1>1, <1>2, <1>3, <1>5, <1>6, <1>7, InSame

\* What is routed to h, and what passes it by.
LEMMA RoutedNumbers ==
  ASSUME Base, StartInv, IdInv, InInv, NEW h \in Handlers, Route
  PROVE  /\ Routed(h) \in Seq(Response) /\ InNumbers(Routed(h))
         /\ \A n, k \in Nat : (GotNo(h, n) \/ ChunkNo(inbox[h], n)) /\ ChunkNo(Routed(h), k) => n < k
         /\ \A i \in Ids : Uses(h, i) /\ open[i] = h =>
              \A n \in Nat : ChunkNo(Routed(h), n) => n <= sent[i]
         /\ task[h] \notin {"removing", "ended"} =>
              \A k \in Nat : \A n \in 1 .. k : ChunkNo(Routed(h), k) =>
                GotNo(h, n) \/ ChunkNo(inbox[h], n) \/ ChunkNo(Routed(h), n) \/ LostNo(h, n)
         /\ ~Deaf(h) => \A i \in Ids : Uses(h, i) =>
              \A n : ChunkNo(response[i], n) => ChunkNo(Routed(h), n) \/ LostNo(h, n)'
<1>0. TypeOK /\ InOrder(h) /\ InWhole(h) /\ IdsApart /\ OwnChunks /\ HandlerShape /\ EntryShape /\ ResponseShape
  BY DEF Base, InInv, IdInv
<1>1. InCall
  BY DEF Route, Answered
<1>2. Routed(h) \in Seq(Response)
  BY RoutedFacts
<1>3. \A n : ~ChunkNo(<<>>, n)
  BY NumberFacts
<1>4. ASSUME \A n : ~ChunkNo(Routed(h), n),
             ~Deaf(h) => \A i \in Ids : Uses(h, i) =>
               \A n : ChunkNo(response[i], n) => ChunkNo(Routed(h), n) \/ LostNo(h, n)'
      PROVE  /\ InNumbers(Routed(h))
             /\ \A n, k \in Nat : (GotNo(h, n) \/ ChunkNo(inbox[h], n)) /\ ChunkNo(Routed(h), k) => n < k
             /\ \A i \in Ids : Uses(h, i) /\ open[i] = h =>
                  \A n \in Nat : ChunkNo(Routed(h), n) => n <= sent[i]
             /\ \A k \in Nat : \A n \in 1 .. k : ChunkNo(Routed(h), k) =>
                  GotNo(h, n) \/ ChunkNo(inbox[h], n) \/ ChunkNo(Routed(h), n) \/ LostNo(h, n)
             /\ ~Deaf(h) => \A i \in Ids : Uses(h, i) =>
                  \A n : ChunkNo(response[i], n) => ChunkNo(Routed(h), n) \/ LostNo(h, n)'
  <2>1. \A j \in DOMAIN Routed(h) : Routed(h)[j].kind # "Data"
    BY <1>4 DEF ChunkNo
  <2>2. InNumbers(Routed(h))
    BY <2>1 DEF InNumbers
  <2>3. QED
    BY <1>4, <2>2
<1>5. CASE Starting(h)
  <2>1. Routed(h) = response[0] /\ \A i \in Ids : response[i] = <<>>
    BY <1>1, <1>5, StartRouted
  <2>2. \A n : ~ChunkNo(Routed(h), n)
    BY <1>0, <2>1 DEF ResponseShape, ChunkNo
  <2>3. \A i \in Ids : \A n : ~ChunkNo(response[i], n)
    BY <1>3, <2>1
  <2>4. QED
    BY <1>2, <1>4, <2>2, <2>3
<1>6. CASE ~Starting(h) /\ \A i \in Ids : entries[i] # h
  <2>1. Routed(h) = <<>>
    BY <1>1, <1>6, RouteCases
  <2>2. ASSUME ~Deaf(h), NEW i \in Ids, Uses(h, i), NEW n, ChunkNo(response[i], n)
        PROVE  LostNo(h, n)'
    <3>1. task[h] \in {"waiting", "registering"}
      <4>1. task[h] \in Task
        BY <1>0 DEF TypeOK
      <4>2. task[h] # "idle"
        BY <2>2, NewbornUses DEF Newborn
      <4>3. ~(task[h] \in {"replying", "relay"})
        <5>1. id[h] \in Ids \union {0}
          BY <1>0 DEF TypeOK
        <5>2. task[h] \in {"replying", "relay"} => id[h] # 0
          BY <1>0 DEF HandlerShape
        <5>3. QED
          BY <1>6, <2>2, <5>1, <5>2 DEF Deaf
      <4>4. QED
        BY <2>2, <4>1, <4>2, <4>3 DEF Deaf, Task, Relaying
    <3>2. n \in ChunksFor(h)
      BY <1>0, <2>2, ChunksKnown
    <3>3. n \in unrouted'[h]
      BY <3>1, <3>2 DEF Route
    <3>4. QED
      BY <3>3 DEF LostNo
  <2>3. QED
    BY <1>2, <1>3, <1>4, <2>1, <2>2
<1>7. ASSUME ~Starting(h), NEW j \in Ids, entries[j] = h
      PROVE  /\ InNumbers(Routed(h))
             /\ \A n, k \in Nat : (GotNo(h, n) \/ ChunkNo(inbox[h], n)) /\ ChunkNo(Routed(h), k) => n < k
             /\ \A i \in Ids : Uses(h, i) /\ open[i] = h =>
                  \A n \in Nat : ChunkNo(Routed(h), n) => n <= sent[i]
             /\ task[h] \notin {"removing", "ended"} =>
                  \A k \in Nat : \A n \in 1 .. k : ChunkNo(Routed(h), k) =>
                    GotNo(h, n) \/ ChunkNo(inbox[h], n) \/ ChunkNo(Routed(h), n) \/ LostNo(h, n)
             /\ ~Deaf(h) => \A i \in Ids : Uses(h, i) =>
                  \A n : ChunkNo(response[i], n) => ChunkNo(Routed(h), n) \/ LostNo(h, n)'
  <2>1. Routed(h) = response[j]
    BY <1>1, <1>7, RouteCases
  <2>2. Uses(h, j) /\ id[h] = j /\ task[h] \in {"replying", "ended", "relay", "removing"}
    BY <1>0, <1>7 DEF EntryShape, Relaying, Uses
  <2>3. \A i \in Ids : Uses(h, i) => i = j
    BY <1>0, <2>2 DEF IdsApart
  <2>4. task[h] \notin {"removing", "ended"} => ~Deaf(h)
    BY <1>7, <2>2 DEF Deaf
  <2>5. /\ InNumbers(Routed(h))
        /\ \A n, k \in Nat : (GotNo(h, n) \/ ChunkNo(inbox[h], n)) /\ ChunkNo(Routed(h), k) => n < k
        /\ open[j] = h => \A n \in Nat : ChunkNo(Routed(h), n) => n <= sent[j]
    BY <1>0, <2>1, <2>2 DEF InOrder
  <2>6. ~Deaf(h) => \A k \in Nat : \A n \in 1 .. k : ChunkNo(Routed(h), k) =>
          GotNo(h, n) \/ ChunkNo(inbox[h], n) \/ ChunkNo(Routed(h), n) \/ LostNo(h, n)
    BY <1>0, <2>1, <2>2 DEF InWhole
  <2>7. QED
    BY <2>1, <2>3, <2>4, <2>5, <2>6
<1>8. QED
  BY <1>2, <1>5, <1>6, <1>7

LEMMA InRouted ==
  ASSUME Base, StartInv, IdInv, InInv, [Next]_vars, NEW h \in Handlers, Route
  PROVE  InOrder(h)' /\ InWhole(h)'
<1>0. TypeOK /\ InOrder(h) /\ InWhole(h)
  BY DEF Base, InInv
<1>1. /\ response' = NoResponses /\ UNCHANGED <<task, open, nextId, sent, got>>
      /\ \A i \in Ids : response'[i] = <<>>
  BY BackFacts, RouteFacts DEF Back
<1>2. inbox'[h] = IF task[h] = "ended" THEN <<>> ELSE inbox[h] \o Routed(h)
  BY DEF Route, At
<1>3. nextId \in Nat /\ inbox[h] \in Seq(Response)
  BY <1>0, ClientAssumption DEF TypeOK
<1>4. \A i \in Ids : Uses(h, i)' => Uses(h, i)
  BY <1>1, <1>3, UsesSteps DEF Opened
<1>5. (\A n : LostNo(h, n) => LostNo(h, n)') /\ (Deaf(h) => Deaf(h)')
  BY LostKept, DeafKept
<1>6. /\ \A n : GotNo(h, n)' <=> GotNo(h, n)
      /\ \A n : ~ChunkNo(<<>>, n)
      /\ \A i \in Ids : \A n : ~ChunkNo(response'[i], n)
  BY <1>1, NumberFacts DEF GotNo
<1>7. Increasing(got'[h])
  BY <1>0, <1>1 DEF InOrder
<1>8. InNumbers(<<>>) /\ \A i \in Ids : InNumbers(response'[i])
  BY <1>1, NoneIn DEF InNumbers
<1>9. CASE task[h] = "ended"
  <2>1. inbox'[h] = <<>> /\ Deaf(h)'
    BY <1>1, <1>2, <1>9 DEF Deaf
  <2>2. InOrder(h)'
    BY <1>0, <1>1, <1>4, <1>6, <1>7, <1>8, <2>1 DEF InOrder
  <2>3. InWhole(h)'
    BY <1>0, <1>5, <1>6, <2>1 DEF InWhole
  <2>4. QED
    BY <2>2, <2>3
<1>10. CASE task[h] # "ended"
  <2>1. /\ Routed(h) \in Seq(Response) /\ InNumbers(Routed(h))
        /\ \A n, k \in Nat : (GotNo(h, n) \/ ChunkNo(inbox[h], n)) /\ ChunkNo(Routed(h), k) => n < k
        /\ \A i \in Ids : Uses(h, i) /\ open[i] = h =>
             \A n \in Nat : ChunkNo(Routed(h), n) => n <= sent[i]
        /\ task[h] \notin {"removing", "ended"} =>
             \A k \in Nat : \A n \in 1 .. k : ChunkNo(Routed(h), k) =>
               GotNo(h, n) \/ ChunkNo(inbox[h], n) \/ ChunkNo(Routed(h), n) \/ LostNo(h, n)
        /\ ~Deaf(h) => \A i \in Ids : Uses(h, i) =>
             \A n : ChunkNo(response[i], n) => ChunkNo(Routed(h), n) \/ LostNo(h, n)'
    BY RoutedNumbers
  <2>2. /\ \A n : ChunkNo(inbox'[h], n) <=> ChunkNo(inbox[h], n) \/ ChunkNo(Routed(h), n)
        /\ InNumbers(inbox'[h])
    <3>1. InNumbers(inbox[h])
      BY <1>0 DEF InOrder
    <3>2. QED
      BY <1>2, <1>3, <1>10, <2>1, <3>1, NumbersConcat
  <2>3. InOrder(h)'
    <3>1. \A n, k \in Nat : GotNo(h, n)' /\ ChunkNo(inbox'[h], k) => n < k
      BY <1>0, <1>6, <2>1, <2>2 DEF InOrder
    <3>2. ASSUME NEW i \in Ids, Uses(h, i)', open'[i] = h, NEW n \in Nat,
                 GotNo(h, n)' \/ ChunkNo(inbox'[h], n) \/ ChunkNo(response'[i], n)
          PROVE  n <= sent'[i]
      <4>1. Uses(h, i) /\ open[i] = h /\ sent'[i] = sent[i]
        BY <1>1, <1>4, <3>2
      <4>2. GotNo(h, n) \/ ChunkNo(inbox[h], n) => n <= sent[i]
        BY <1>0, <4>1 DEF InOrder
      <4>3. QED
        BY <1>6, <2>1, <2>2, <3>2, <4>1, <4>2
    <3>3. QED
      BY <1>6, <1>7, <1>8, <2>2, <3>1, <3>2 DEF InOrder
  <2>4. InWhole(h)'
    <3>1. \A k \in Nat : \A n \in 1 .. k : GotNo(h, k)' => GotNo(h, n)' \/ LostNo(h, n)'
      BY <1>0, <1>5, <1>6 DEF InWhole
    <3>2. ASSUME task'[h] # "removing", NEW k \in Nat, NEW n \in 1 .. k, ChunkNo(inbox'[h], k)
          PROVE  GotNo(h, n)' \/ ChunkNo(inbox'[h], n) \/ LostNo(h, n)'
      <4>1. task[h] \notin {"removing", "ended"}
        BY <1>1, <1>10, <3>2
      <4>2. ChunkNo(inbox[h], k) => GotNo(h, n) \/ ChunkNo(inbox[h], n) \/ LostNo(h, n)
        BY <1>0, <4>1 DEF InWhole
      <4>3. QED
        BY <1>5, <1>6, <2>1, <2>2, <3>2, <4>1, <4>2
    <3>3. ASSUME ~Deaf(h)', NEW i \in Ids, Uses(h, i)', open'[i] = h, NEW n \in 1 .. sent'[i]
          PROVE  GotNo(h, n)' \/ ChunkNo(inbox'[h], n) \/ ChunkNo(response'[i], n) \/ LostNo(h, n)'
      <4>1. Uses(h, i) /\ open[i] = h /\ n \in 1 .. sent[i] /\ ~Deaf(h)
        BY <1>1, <1>4, <1>5, <3>3
      <4>2. GotNo(h, n) \/ ChunkNo(inbox[h], n) \/ ChunkNo(response[i], n) \/ LostNo(h, n)
        BY <1>0, <4>1 DEF InWhole
      <4>3. ChunkNo(response[i], n) => ChunkNo(Routed(h), n) \/ LostNo(h, n)'
        BY <2>1, <4>1
      <4>4. QED
        BY <1>5, <1>6, <2>2, <4>2, <4>3
    <3>4. QED
      BY <1>6, <3>1, <3>2, <3>3 DEF InWhole
  <2>5. QED
    BY <2>3, <2>4
<1>11. QED
  BY <1>9, <1>10

LEMMA InHandled ==
  ASSUME Base, StartInv, InInv, [Next]_vars, NEW h \in Handlers, HandlerNext(h)
  PROVE  InOrder(h)' /\ InWhole(h)'
<1>0. TypeOK /\ TypeOK' /\ InOrder(h) /\ InWhole(h)
  BY BaseKept DEF Base, InInv
<1>1. UNCHANGED <<response, sent, open, nextId, missed, unrouted>>
  BY HandlerSteps DEF serverVars, lossVars
<1>2. nextId \in Nat
  BY <1>0, ClientAssumption DEF TypeOK
<1>3. \A i \in Ids : Uses(h, i)' => Uses(h, i)
  BY <1>1, <1>2, UsesSteps DEF Opened
<1>4. Heeds(h) /\ (Deaf(h) => Deaf(h)')
  BY HandlerHears, DeafKept
<1>5. QED
  BY <1>0, <1>1, <1>3, <1>4, InMoved

LEMMA InvariantIn ==
  ASSUME NobodyShares
  PROVE  Spec => []InInv
<1>1. Init => InInv
  <2>1. ASSUME Init PROVE InInv
    <3>1. NoneYet
      BY <2>1 DEF Init, NoneYet
    <3>2. ASSUME NEW h \in Handlers PROVE InOrder(h) /\ InWhole(h)
      <4>1. /\ got[h] = <<>> /\ inbox[h] = <<>>
            /\ \A i \in Ids : response[i] = <<>> /\ open[i] = NoHandler
        BY <2>1, RouteFacts DEF Init
      <4>2. h # NoHandler
        BY RouteFacts
      <4>3. \A n : ~GotNo(h, n) /\ ~ChunkNo(inbox[h], n) /\ \A i \in Ids : ~ChunkNo(response[i], n)
        BY <4>1, NumberFacts, NoneIn DEF GotNo
      <4>4. Increasing(got[h]) /\ InNumbers(inbox[h]) /\ \A i \in Ids : InNumbers(response[i])
        BY <4>1, NoneIn DEF Increasing, InNumbers
      <4>5. InOrder(h)
        BY <4>3, <4>4 DEF InOrder
      <4>6. InWhole(h)
        BY <4>1, <4>2, <4>3 DEF InWhole
      <4>7. QED
        BY <4>5, <4>6
    <3>3. QED
      BY <3>1, <3>2 DEF InInv
  <2>2. QED
    BY <2>1
<1>2. Base /\ StartInv /\ IdInv /\ InInv /\ [Next]_vars => InInv'
  <2>1. ASSUME Base, StartInv, IdInv, InInv, [Next]_vars PROVE InInv'
    <3>1. NoneYet'
      BY <2>1, NoneKept DEF InInv
    <3>2. ASSUME NEW h \in Handlers PROVE InOrder(h)' /\ InWhole(h)'
      <4>1. CASE HandlerNext(h)
        BY <2>1, <4>1, InHandled
      <4>2. CASE ServeStart /\ Opened(h)
        BY <2>1, <4>2, InOpened
      <4>3. CASE ServeData \/ ServeClose \/ ServePoll
        BY <2>1, <4>3, InAnswered
      <4>4. CASE Route
        BY <2>1, <4>4, InRouted
      <4>5. CASE LoseResponse
        BY <2>1, <4>5, InLost
      <4>6. QED
        BY <2>1, <4>1, <4>2, <4>3, <4>4, <4>5, InQuiet
    <3>3. QED
      BY <3>1, <3>2 DEF InInv
  <2>2. QED
    BY <2>1
<1>3. QED
  BY <1>1, <1>2, InvariantBase, InvariantStart, InvariantId, PTL DEF Spec

\* An application gets its target's chunks in order, none twice, and none
\* missing in front of one it got but those that were in a lost response or
\* came before the handler had registered.
THEOREM DeliversInOrder ==
  ASSUME NobodyShares
  PROVE  Spec => []DeliveredInOrder
<1>1. Base /\ InInv => DeliveredInOrder
  <2>1. ASSUME Base, InInv, NEW h \in Handlers
        PROVE  /\ Increasing(got[h])
               /\ \A j \in DOMAIN got[h] : \A n \in 1 .. got[h][j].n :
                    \/ \E k \in DOMAIN got[h] : got[h][k].n = n
                    \/ n \in missed[h] \union unrouted[h]
    <3>1. InOrder(h) /\ InWhole(h) /\ got[h] \in Seq(Chunk)
      BY <2>1 DEF InInv, Base, TypeOK
    <3>2. ASSUME NEW j \in DOMAIN got[h], NEW n \in 1 .. got[h][j].n
          PROVE  \/ \E k \in DOMAIN got[h] : got[h][k].n = n
                 \/ n \in missed[h] \union unrouted[h]
      <4>1. got[h][j].n \in Nat /\ GotNo(h, got[h][j].n)
        BY <3>1, ChunkTypes DEF GotNo
      <4>2. GotNo(h, n) \/ LostNo(h, n)
        BY <3>1, <3>2, <4>1 DEF InWhole
      <4>3. QED
        BY <4>2 DEF GotNo, LostNo
    <3>3. QED
      BY <3>1, <3>2 DEF InOrder
  <2>2. QED
    BY <2>1 DEF DeliveredInOrder
<1>2. QED
  BY <1>1, InvariantBase, InvariantIn, PTL

--------------------------------------------------------------------------------
(* A server that restarts                                                       *)

\* The boots count up, and who is open was opened in the present one.
AgeShape ==
  /\ boot \in Nat
  /\ bornIn \in [Handlers -> Nat]
  /\ \A h \in Handlers : bornIn[h] <= boot
  /\ \A i \in Ids, h \in Handlers : open[i] = h => bornIn[h] = boot

\* Within one boot no id is shared, and those of the present are all counted.
LivesApart ==
  /\ \A g, h \in Handlers, i \in Ids : Uses(g, i) /\ Uses(h, i) /\ bornIn[g] = bornIn[h] => g = h
  /\ \A h \in Handlers, i, j \in Ids : Uses(h, i) /\ Uses(h, j) => i = j
  /\ \A h \in Handlers, i \in Ids : Uses(h, i) /\ bornIn[h] = boot => i < nextId

\* g had its connection first, in an earlier boot, or it is h itself.
Precedes(g, h) == g = h \/ bornIn[g] < bornIn[h]

\* The data of g may be on its way to h; no age is still to change.
Comes(g, h) == ~Newborn(g) /\ Precedes(h, g)

Carries(s, g) == \E j \in DOMAIN s : s[j].kind = "Data" /\ s[j].of = g
Holds(s, g)   == \E j \in DOMAIN s : s[j].of = g

ChunksCome ==
  \A g, h \in Handlers :
    /\ Carries(inbox[h], g) => Comes(g, h)
    /\ \A i \in Ids : Uses(h, i) /\ Carries(response[i], g) => Comes(g, h)
    /\ Holds(got[h], g) => Comes(g, h)

MessagesGo ==
  \A g, h \in Handlers : Holds(arrived[h], g) => ~Newborn(g) /\ Precedes(g, h)

AgeInv == AgeShape /\ LivesApart /\ DataOwned /\ ChunksCome /\ MessagesGo

\* What a step does to the histories: the age of a handler is set when its
\* connection is opened, once.
LEMMA AgeSteps ==
  ASSUME Base, StartInv, AgeShape, [NextR]_restartVars
  PROVE  /\ [Next]_vars /\ boot \in Nat
         /\ \/ boot' = boot + 1 /\ Restart
            \/ boot' = boot /\ nextId \in Nat /\ nextId' \in Nat /\ nextId <= nextId'
         /\ bornIn' \in [Handlers -> Nat]
         /\ \A h \in Handlers : ~Newborn(h) => bornIn'[h] = bornIn[h]
         /\ \A h \in Handlers : ServeStart /\ Opened(h) /\ Newborn(h) => bornIn'[h] = boot /\ boot' = boot
         /\ \A h \in Handlers : bornIn'[h] \in {boot, bornIn[h]}
<1>1. [Next]_vars
  BY DEF NextR, restartVars
<1>2. boot \in Nat /\ bornIn \in [Handlers -> Nat]
  BY DEF AgeShape
<1>3. CASE UNCHANGED restartVars
  <2>1. UNCHANGED <<nextId, boot, bornIn, open, served>>
    BY <1>3 DEF restartVars, vars, serverVars
  <2>2. nextId \in Nat
    BY ClientAssumption DEF Base, TypeOK
  <2>3. ~ServeStart
    <3>1. served \in Nat
      BY DEF Base, TypeOK
    <3>2. QED
      BY <2>1, <3>1 DEF ServeStart
  <2>4. nextId \in Nat /\ nextId' \in Nat /\ nextId <= nextId'
    BY <2>1, <2>2
  <2>5. \A h \in Handlers : bornIn'[h] = bornIn[h]
    BY <2>1
  <2>6. QED
    BY <1>1, <1>2, <2>1, <2>3, <2>4, <2>5
<1>4. CASE Next /\ Remember
  <2>1. \A h \in Handlers : OpensFor(h) => ServeStart /\ Opened(h) /\ Newborn(h)
    BY <1>1, OpenSteps DEF OpensFor
  <2>2. ASSUME NEW h \in Handlers, Opened(h), Newborn(h) PROVE OpensFor(h)
    BY <2>2 DEF Opened, OpensFor, StartInv, Untouched
  <2>3. bornIn' = [h \in Handlers |-> IF OpensFor(h) THEN boot ELSE bornIn[h]]
    BY <1>4 DEF Remember
  <2>4. boot' = IF nextId' < nextId THEN boot + 1 ELSE boot
    BY <1>4 DEF Remember
  <2>5. CASE Restart
    <3>1. nextId' < nextId
      <4>1. nextId \in 1 .. MaxId + 1 /\ MaxId \in Nat /\ nextId' = 1 /\ nextId # 1
        BY <2>5, ClientAssumption DEF Base, TypeOK, Restart
      <4>2. QED
        BY <4>1
    <3>2. boot' = boot + 1 /\ \A h \in Handlers : ~OpensFor(h)
      BY <2>4, <2>5, <3>1, RouteFacts DEF Restart, OpensFor
    <3>3. \A h \in Handlers : ~(Opened(h) /\ Newborn(h))
      BY <2>2, <3>2
    <3>4. QED
      BY <1>1, <1>2, <2>3, <2>5, <3>2, <3>3
  <2>6. CASE ~Restart
    <3>1. nextId \in Nat /\ nextId' \in Nat /\ nextId <= nextId'
      BY <1>1, <2>6, CounterSteps
    <3>2. boot' = boot
      BY <2>4, <3>1
    <3>3. \A h \in Handlers : bornIn'[h] = IF OpensFor(h) THEN boot ELSE bornIn[h]
      BY <2>3
    <3>4. bornIn' \in [Handlers -> Nat] /\ \A h \in Handlers : bornIn'[h] \in {boot, bornIn[h]}
      BY <1>2, <2>3
    <3>5. QED
      BY <1>1, <1>2, <2>1, <2>2, <3>1, <3>2, <3>3, <3>4
  <2>7. QED
    BY <2>5, <2>6
<1>5. QED
  BY <1>3, <1>4 DEF NextR

LEMMA ShapeKept ==
  ASSUME Base, StartInv, AgeShape, [NextR]_restartVars
  PROVE  AgeShape'
<1>0. bornIn \in [Handlers -> Nat]
  BY DEF AgeShape
<1>1. [Next]_vars /\ boot \in Nat /\ boot' \in {boot, boot + 1} /\ bornIn' \in [Handlers -> Nat]
  BY AgeSteps
<1>2. ASSUME NEW h \in Handlers PROVE bornIn'[h] <= boot'
  <2>1. bornIn'[h] \in {boot, bornIn[h]} /\ bornIn[h] <= boot /\ bornIn[h] \in Nat
    BY <1>0, AgeSteps DEF AgeShape
  <2>2. QED
    BY <1>1, <2>1
<1>3. ASSUME NEW i \in Ids, NEW h \in Handlers, open'[i] = h PROVE bornIn'[h] = boot'
  <2>1. CASE open[i] = h
    <3>1. ~Newborn(h)
      BY <2>1 DEF StartInv, Untouched
    <3>2. ~Restart
      BY <1>3, RouteFacts DEF Restart
    <3>3. QED
      BY <2>1, <3>1, <3>2, AgeSteps DEF AgeShape
  <2>2. CASE ServeStart /\ Opened(h) /\ Newborn(h)
    BY <2>2, AgeSteps
  <2>3. QED
    BY <1>1, <1>3, <2>1, <2>2, OpenSteps
<1>4. QED
  BY <1>1, <1>2, <1>3 DEF AgeShape

LEMMA LivesKept ==
  ASSUME Base, StartInv, AgeShape, LivesApart, [NextR]_restartVars
  PROVE  LivesApart'
<1>1. [Next]_vars /\ boot \in Nat /\ bornIn \in [Handlers -> Nat]
  BY AgeSteps DEF AgeShape
<1>2. \A h \in Handlers, i \in Ids : Uses(h, i) => bornIn'[h] = bornIn[h]
  BY NewbornUses, AgeSteps
<1>3. ASSUME NEW g \in Handlers, NEW h \in Handlers, NEW i \in Ids,
             Uses(g, i), ServeStart, Opened(h), Newborn(h), i = nextId
      PROVE  bornIn'[g] # bornIn'[h]
  <2>1. bornIn'[h] = boot /\ bornIn'[g] = bornIn[g] /\ nextId \in Nat
    BY <1>2, <1>3, AgeSteps DEF Opened, Ids
  <2>2. bornIn[g] # boot
    BY <1>3, <2>1 DEF LivesApart
  <2>3. QED
    BY <2>1, <2>2
<1>4. ASSUME NEW g \in Handlers, NEW h \in Handlers, NEW i \in Ids,
             Uses(g, i)', Uses(h, i)', bornIn'[g] = bornIn'[h]
      PROVE  g = h
  <2>1. CASE Uses(g, i) /\ Uses(h, i)
    BY <1>2, <1>4, <2>1 DEF LivesApart
  <2>2. CASE ServeStart /\ Opened(g) /\ Opened(h)
    BY <2>2 DEF Opened
  <2>3. QED
    BY <1>1, <1>3, <1>4, <2>1, <2>2, UsesSteps
<1>5. ASSUME NEW h \in Handlers, NEW i \in Ids, NEW j \in Ids, Uses(h, i)', Uses(h, j)'
      PROVE  i = j
  <2>1. CASE Uses(h, i) /\ Uses(h, j)
    BY <2>1 DEF LivesApart
  <2>2. CASE Newborn(h)
    <3>1. ~Uses(h, i) /\ ~Uses(h, j)
      BY <2>2, NewbornUses
    <3>2. i = nextId /\ j = nextId
      BY <1>1, <1>5, <3>1, UsesSteps
    <3>3. QED
      BY <3>2
  <2>3. QED
    BY <1>1, <1>5, <2>1, <2>2, UsesSteps
<1>6. ASSUME NEW h \in Handlers, NEW i \in Ids, Uses(h, i)', bornIn'[h] = boot'
      PROVE  i < nextId'
  <2>1. CASE ServeStart /\ Opened(h) /\ i = nextId
    BY <2>1 DEF Opened, Ids
  <2>2. CASE Uses(h, i)
    <3>1. bornIn'[h] = bornIn[h] /\ bornIn[h] <= boot /\ bornIn[h] \in Nat
      BY <1>1, <1>2, <2>2 DEF AgeShape
    <3>2. boot' # boot + 1
      BY <1>1, <1>6, <3>1
    <3>3. boot' = boot /\ nextId \in Nat /\ nextId' \in Nat /\ nextId <= nextId'
      BY <3>2, AgeSteps
    <3>4. i < nextId
      BY <1>6, <2>2, <3>1, <3>3 DEF LivesApart
    <3>5. QED
      BY <3>3, <3>4, RouteFacts
  <2>3. QED
    BY <1>1, <1>6, <2>1, <2>2, UsesSteps
<1>7. QED
  BY <1>4, <1>5, <1>6 DEF LivesApart

\* Of two handlers that have their connections the ages stay.
LEMMA PrecedesKept ==
  ASSUME Base, StartInv, AgeShape, [NextR]_restartVars,
         NEW g \in Handlers, NEW h \in Handlers, ~Newborn(g), ~Newborn(h), Precedes(g, h)
  PROVE  ~Newborn(g)' /\ ~Newborn(h)' /\ Precedes(g, h)'
<1>1. bornIn'[g] = bornIn[g] /\ bornIn'[h] = bornIn[h] /\ [Next]_vars
  BY AgeSteps
<1>2. QED
  BY <1>1, StartKept DEF Precedes

\* A chunk comes into a response when the server answers a message.
LEMMA NewChunks ==
  ASSUME Base, [Next]_vars, NEW i \in Ids, NEW x, In(response'[i], x), ~In(response[i], x)
  PROVE  ServeData \/ ServeClose \/ ServePoll
<1>1. response'[i] # <<>> /\ response' # response
  BY InNone
<1>2. CASE \E h \in Handlers : HandlerNext(h)
  BY <1>1, <1>2, HandlerSteps DEF serverVars
<1>3. CASE PollTick \/ Cleanup \/ \E j \in Ids : Elapse(j)
  BY <1>1, <1>3, TaskSteps DEF serverVars
<1>4. CASE SenderStep
  <2>1. response' = NoResponses \/ response' = response
    BY <1>4, SenderSteps DEF Still, Taken, Flushed, FlushedLast
  <2>2. QED
    BY <1>1, <2>1, RouteFacts
<1>5. CASE ServeStart \/ LoseRequest \/ Route \/ LoseResponse
  BY <1>1, <1>5, StartStep, BackFacts, RouteFacts DEF Back
<1>6. CASE Hang \/ Restart \/ UNCHANGED vars
  BY <1>1, <1>6 DEF Hang, Restart, vars, serverVars
<1>7. QED
  BY <1>2, <1>3, <1>4, <1>5, <1>6, StepCases

LEMMA ComesKept ==
  ASSUME Base, StartInv, AgeInv, [NextR]_restartVars
  PROVE  ChunksCome'
<1>0. TypeOK /\ [Next]_vars /\ AgeShape /\ LivesApart /\ ChunksCome
  BY AgeSteps DEF Base, AgeInv
<1>1. ASSUME NEW g \in Handlers, NEW h \in Handlers, Comes(g, h), ~Newborn(h)
      PROVE  Comes(g, h)'
  <2>1. ~Newborn(g) /\ Precedes(h, g)
    BY <1>1 DEF Comes
  <2>2. ~Newborn(g)' /\ Precedes(h, g)'
    BY <1>0, <1>1, <2>1, PrecedesKept
  <2>3. QED
    BY <2>2 DEF Comes
<1>2. ASSUME NEW g \in Handlers, NEW h \in Handlers, Carries(inbox[h], g)'
      PROVE  Comes(g, h)'
  <2>1. PICK x : In(inbox'[h], x) /\ x.kind = "Data" /\ x.of = g
    BY <1>2 DEF Carries, In
  <2>2. CASE In(inbox[h], x)
    <3>1. ~Newborn(h)
      BY <2>2, InNone DEF StartInv, Untouched
    <3>2. Comes(g, h)
      BY <1>0, <2>1, <2>2 DEF ChunksCome, Carries, In
    <3>3. QED
      BY <1>1, <3>1, <3>2
  <2>3. CASE Route /\ In(Routed(h), x)
    <3>1. InCall
      BY <2>3 DEF Route, Answered
    <3>2. PICK i \in Ids : Uses(h, i) /\ In(response[i], x)
      BY <2>1, <2>3, <3>1, DataRouted
    <3>3. Comes(g, h) /\ ~Newborn(h)
      BY <1>0, <2>1, <3>2, NewbornUses DEF ChunksCome, Carries, In
    <3>4. QED
      BY <1>1, <3>3
  <2>4. QED
    BY <1>0, <2>1, <2>2, <2>3, InboxSteps
<1>3. ASSUME NEW g \in Handlers, NEW h \in Handlers, NEW i \in Ids, Uses(h, i)', Carries(response[i], g)'
      PROVE  Comes(g, h)'
  <2>1. PICK x : In(response'[i], x) /\ x.kind = "Data" /\ x.of = g
    BY <1>3 DEF Carries, In
  <2>2. Uses(h, i)
    <3>1. response'[i] # <<>>
      BY <2>1, InNone
    <3>2. QED
      BY <1>0, <1>3, <3>1, StartStep, UsesSteps
  <2>3. ~Newborn(h)
    BY <2>2, NewbornUses
  <2>4. CASE In(response[i], x)
    <3>1. Comes(g, h)
      BY <1>0, <2>1, <2>2, <2>4 DEF ChunksCome, Carries, In
    <3>2. QED
      BY <1>1, <2>3, <3>1
  <2>5. CASE ~In(response[i], x)
    <3>1. ServeData \/ ServeClose \/ ServePoll
      BY <1>0, <2>1, <2>5, NewChunks
    <3>2. PICK more \in BOOLEAN, ends \in BOOLEAN : Answers(i, more, ends)
      BY <3>1, ServeSteps
    <3>3. open[i] = g
      <4>1. PICK j \in DOMAIN response'[i] : response'[i][j] = x
        BY <2>1 DEF In
      <4>2. j \notin DOMAIN response[i]
        BY <2>5, <3>2, <4>1 DEF Answers, In
      <4>3. x # [kind |-> "Close", id |-> i]
        BY <2>1
      <4>4. QED
        BY <2>1, <3>2, <4>1, <4>2, <4>3 DEF Answers
    <3>4. Uses(g, i) /\ bornIn[g] = boot
      BY <1>0, <3>3 DEF Uses, AgeShape
    <3>5. Precedes(h, g)
      <4>1. bornIn[h] \in Nat /\ boot \in Nat /\ bornIn[h] <= boot
        BY <1>0 DEF AgeShape
      <4>2. bornIn[h] = bornIn[g] => h = g
        BY <1>0, <2>2, <3>4 DEF LivesApart
      <4>3. QED
        BY <3>4, <4>1, <4>2 DEF Precedes
    <3>6. Comes(g, h)
      BY <3>4, <3>5, NewbornUses DEF Comes
    <3>7. QED
      BY <1>1, <2>3, <3>6
  <2>6. QED
    BY <2>4, <2>5
<1>4. ASSUME NEW g \in Handlers, NEW h \in Handlers, Holds(got[h], g)'
      PROVE  Comes(g, h)'
  <2>1. got[h] \in Seq(Chunk) /\ inbox[h] \in Seq(Response)
    BY <1>0 DEF TypeOK
  <2>2. CASE Holds(got[h], g)
    <3>1. Comes(g, h)
      BY <1>0, <2>2 DEF ChunksCome
    <3>2. ~Newborn(h)
      BY <2>2, NoneIn DEF StartInv, Untouched, Holds
    <3>3. QED
      BY <1>1, <3>1, <3>2
  <2>3. CASE got'[h] = got[h]
    BY <1>4, <2>2, <2>3 DEF Holds
  <2>4. CASE HandlerNext(h) /\ got'[h] # got[h] /\ ~Holds(got[h], g)
    <3>1. /\ inbox[h] # <<>> /\ Head(inbox[h]).kind = "Data"
          /\ got'[h] = Append(got[h], [of |-> Head(inbox[h]).of, n |-> Head(inbox[h]).n])
      BY <2>4, HandlerHas DEF Base
    <3>2. In(inbox[h], Head(inbox[h])) /\ Head(inbox[h]) \in Response
      BY <2>1, <3>1, InTail, TailFacts
    <3>3. [of |-> Head(inbox[h]).of, n |-> Head(inbox[h]).n] \in Chunk
      BY <3>1, <3>2, ResponseFacts, ClientAssumption DEF Chunk
    <3>4. Head(inbox[h]).of = g
      BY <1>4, <2>1, <2>4, <3>1, <3>3, AppendFacts DEF Holds
    <3>5. Comes(g, h)
      BY <1>0, <3>1, <3>2, <3>4 DEF ChunksCome, Carries, In
    <3>6. ~Newborn(h)
      BY <3>1 DEF StartInv, Untouched
    <3>7. QED
      BY <1>1, <3>5, <3>6
  <2>5. CASE \E f \in Handlers \ {h} : HandlerNext(f)
    BY <2>3, <2>5, HandlerSteps DEF Same
  <2>6. CASE ~\E f \in Handlers : HandlerNext(f)
    BY <1>0, <2>3, <2>6, QuietSteps
  <2>7. QED
    BY <2>2, <2>3, <2>4, <2>5, <2>6
<1>5. QED
  BY <1>2, <1>3, <1>4 DEF ChunksCome

LEMMA GoesKept ==
  ASSUME Base, StartInv, AgeInv, [NextR]_restartVars
  PROVE  MessagesGo'
<1>0. TypeOK /\ [Next]_vars /\ AgeShape /\ LivesApart /\ DataOwned /\ MessagesGo
  BY AgeSteps DEF Base, AgeInv
<1>1. ASSUME NEW g \in Handlers, NEW h \in Handlers, ~Newborn(g), Precedes(g, h), ~Newborn(h)
      PROVE  ~Newborn(g)' /\ Precedes(g, h)'
  BY <1>0, <1>1, PrecedesKept
<1>2. ASSUME NEW g \in Handlers, NEW h \in Handlers, Holds(arrived[h], g)'
      PROVE  ~Newborn(g)' /\ Precedes(g, h)'
  <2>1. arrived[h] \in Seq(Chunk)
    BY <1>0 DEF TypeOK
  <2>2. CASE Holds(arrived[h], g)
    <3>1. ~Newborn(g) /\ Precedes(g, h)
      BY <1>0, <2>2 DEF MessagesGo
    <3>2. ~Newborn(h)
      BY <2>2, NoneIn DEF StartInv, Untouched, Holds
    <3>3. QED
      BY <1>1, <3>1, <3>2
  <2>3. CASE arrived'[h] = arrived[h]
    BY <1>2, <2>2, <2>3 DEF Holds
  <2>4. CASE (ServeData \/ ServeClose \/ ServePoll) /\ Arrives(h) /\ ~Holds(arrived[h], g)
    <3>1. Message \in Outgoing /\ Served /\ Message.type = "Data" /\ open[Message.id] = h
      BY <2>4, ServeSteps DEF Arrives
    <3>2. Message.id \in Ids /\ Message.by \in Handlers /\ Message.n \in Nat
      BY <3>1, MessageFacts, ClientAssumption
    <3>3. [of |-> Message.by, n |-> Message.n] \in Chunk
      BY <3>2 DEF Chunk
    <3>4. Message.by = g
      BY <1>2, <2>1, <2>4, <3>3, AppendFacts DEF Arrives, Holds
    <3>5. Owned(Message)
      BY <1>0, <3>1, ServedFacts DEF DataOwned
    <3>6. Uses(g, Message.id) /\ Uses(h, Message.id)
      BY <3>1, <3>4, <3>5 DEF Owned, Uses
    <3>7. ~Newborn(g) /\ ~Newborn(h)
      BY <3>2, <3>6, NewbornUses
    <3>8. Precedes(g, h)
      <4>1. bornIn[h] = boot /\ bornIn[g] \in Nat /\ boot \in Nat /\ bornIn[g] <= boot
        BY <1>0, <3>1, <3>2 DEF AgeShape
      <4>2. bornIn[g] = bornIn[h] => g = h
        BY <1>0, <3>2, <3>6 DEF LivesApart
      <4>3. QED
        BY <4>1, <4>2 DEF Precedes
    <3>9. QED
      BY <1>1, <3>7, <3>8
  <2>5. QED
    BY <1>0, <2>2, <2>3, <2>4, ArrivalSteps
<1>3. QED
  BY <1>2 DEF MessagesGo

\* The histories take nothing from the client's behaviours.
LEMMA RestartsRefine == SpecR => Spec
<1>1. InitR => Init
  BY DEF InitR
<1>2. [NextR]_restartVars => [Next]_vars
  BY DEF NextR, restartVars
<1>3. QED
  BY <1>1, <1>2, PTL DEF SpecR, Spec

LEMMA InvariantAge == SpecR => []AgeInv
<1>1. InitR => AgeInv
  <2>1. ASSUME InitR PROVE AgeInv
    <3>1. Init /\ boot = 0 /\ bornIn = [h \in Handlers |-> 0]
      BY <2>1 DEF InitR
    <3>2. IdInv
      BY <3>1, IdInit
    <3>3. DOMAIN <<>> = {} /\ \A m : ~In(<<>>, m)
      BY NoneIn, InNone
    <3>4. \A h \in Handlers, i \in Ids : ~Uses(h, i)
      BY <3>1, <3>3, RouteFacts DEF Init, Uses, Starting
    <3>5. AgeShape /\ LivesApart
      BY <3>1, <3>4 DEF AgeShape, LivesApart, Uses
    <3>6. ChunksCome /\ MessagesGo
      BY <3>1, <3>3, <3>4 DEF Init, ChunksCome, MessagesGo, Carries, Holds
    <3>7. QED
      BY <3>2, <3>5, <3>6 DEF AgeInv, IdInv
  <2>2. QED
    BY <2>1
<1>2. Base /\ StartInv /\ AgeInv /\ [NextR]_restartVars => AgeInv'
  <2>1. ASSUME Base, StartInv, AgeInv, [NextR]_restartVars PROVE AgeInv'
    <3>1. AgeShape' /\ LivesApart'
      BY <2>1, ShapeKept, LivesKept DEF AgeInv
    <3>2. DataOwned'
      BY <2>1, AgeSteps, OwnedKept DEF AgeInv
    <3>3. ChunksCome' /\ MessagesGo'
      BY <2>1, ComesKept, GoesKept
    <3>4. QED
      BY <3>1, <3>2, <3>3 DEF AgeInv
  <2>2. QED
    BY <2>1
<1>3. QED
  BY <1>1, <1>2, RestartsRefine, InvariantBase, InvariantStart, PTL DEF SpecR

\* A server that restarts issues its ids again, and connections may meet; but
\* only those of different lives of the server: the one that holds an id from
\* before reads and writes as the one that has it now, never the reverse, and
\* within one life no id names two connections.
THEOREM RestartsPartLives == SpecR => []CrossTalkOnlyByRestart
<1>1. Base /\ AgeInv => CrossTalkOnlyByRestart
  <2>1. ASSUME Base, AgeInv, NEW h \in Handlers
        PROVE  /\ \A j \in DOMAIN got[h] : Precedes(h, got[h][j].of)
               /\ \A j \in DOMAIN arrived[h] : Precedes(arrived[h][j].of, h)
    <3>1. /\ \A j \in DOMAIN got[h] : got[h][j].of \in Handlers
          /\ \A j \in DOMAIN arrived[h] : arrived[h][j].of \in Handlers
      BY <2>1, ChunkTypes DEF Base, TypeOK
    <3>2. QED
      BY <2>1, <3>1 DEF AgeInv, ChunksCome, MessagesGo, Comes, Holds
  <2>2. QED
    BY <2>1 DEF CrossTalkOnlyByRestart, Precedes
<1>2. SpecR => []Base
  BY InvariantBase, RestartsRefine, PTL
<1>3. QED
  BY <1>1, <1>2, InvariantAge, PTL
================================================================================
