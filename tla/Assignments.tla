------------------------------ MODULE Assignments ------------------------------
(***************************************************************************)
(* The controller's request handlers (assignments/views.py).  The server   *)
(* runs each request in a thread of its own and Django commits every       *)
(* statement by itself, so a handler is a sequence of steps, one for each  *)
(* query or write, and those of other handlers come in between.  A key is  *)
(* the place of a Proxy row in proxies; what a handler has read is in its  *)
(* local variables.                                                        *)
(***************************************************************************)
EXTENDS Integers, Sequences, FiniteSets, Bags

CONSTANTS Requests, Clients,
          Setup,      \* the URLs of the Proxy rows created by hand
          Old,        \* the client that was assigned to the first of them by hand
          Capacity,   \* of a new row
          Calls       \* what a request may ask for

\* The requests that the URLs of the app lead to, by the fields of their bodies.
CallTypes == [kind : {"getnew"}, client : Clients]
             \cup [kind : {"update"}, olds : Seq(STRING), news : Seq(STRING)]
             \cup [kind : {"getid", "reset"}]

ASSUME AssignmentsAssumption ==
  /\ IsFiniteSet(Requests) /\ Calls \subseteq CallTypes
  /\ Setup \in Seq(STRING) /\ Setup # <<>>
  /\ \A p, q \in DOMAIN Setup : Setup[p] = Setup[q] => p = q   \* each URL was entered once
  /\ Old \in Clients /\ Capacity \in Nat \ {0}

VARIABLES proxies,    \* Proxy rows: url, room (capacity), there (not deleted), by (the request that made it)
          clients,    \* the primary keys of the Client rows
          rows,       \* the bag of Assignment rows, each <<proxy, client>>
          counter,    \* the number of IDClientCounter rows
          tags,       \* the new-lambda-url tags set: <<old, new>>
          req,        \* call and local variables of every request
          \* History, for the properties:
          met,        \* pairs of requests that ran at the same time
          before      \* the clients of each Proxy row when a request arrived

vars == <<proxies, clients, rows, counter, tags, req, met, before>>
history == <<met, before>>

Idle == [call |-> [kind |-> "none"], pc |-> "idle", i |-> 1, old |-> 0, new |-> 0, read |-> 0,
         todo |-> EmptyBag, result |-> 0]
ByHand == "setup"
Row(url, by) == [url |-> url, room |-> Capacity, there |-> TRUE, by |-> by]

Init ==
  /\ proxies = [p \in DOMAIN Setup |-> Row(Setup[p], ByHand)]
  /\ clients = {Old} /\ rows = SetToBag({<<1, Old>>})
  /\ counter = 0 /\ tags = {}
  /\ req = [r \in Requests |-> Idle]
  /\ met = {} /\ before = [r \in Requests |-> <<>>]

Running(r) == req[r].pc \notin {"idle", "answered", "failed"}
At(r, kind, pc) == req[r].call.kind = kind /\ req[r].pc = pc
Goto(r, pc) == req' = [req EXCEPT ![r].pc = pc]
Answers(r) == Goto(r, "answered")
\* An exception (500) or an error response (400).
Fails(r) == Goto(r, "failed")

Named(url) == {p \in DOMAIN proxies : proxies[p].there /\ proxies[p].url = url}
ClientsOf(p) == {c \in clients : BagIn(<<p, c>>, rows)}

Arrive(r) ==
  /\ req[r].pc = "idle"
  /\ \E call \in Calls : req' = [req EXCEPT ![r].call = call, ![r].pc = "begin"]
  /\ met' = met \cup {{r, s} : s \in {q \in Requests : Running(q)}}
  /\ before' = [before EXCEPT ![r] = [p \in DOMAIN proxies |-> ClientsOf(p)]]
  /\ UNCHANGED <<proxies, clients, rows, counter, tags>>
-------------------------------------------------------------------------------
\* AssignmentView.get.  A client that has a row already fails at the filter on
\* is_blocked, a field Assignment does not have.
FindClient(r) ==
  /\ At(r, "getnew", "begin")
  /\ IF req[r].call.client \in clients THEN Fails(r) ELSE Goto(r, "create")
  /\ UNCHANGED <<proxies, clients, rows, counter, tags, history>>

\* Mutant of Taken: get_or_create, that a client of the same key does not stop.
TakenNever(r) == FALSE

\* Two first requests of a client: the primary key refuses the second row.
Taken(r) == req[r].call.client \in clients

CreateClient(r) ==
  /\ At(r, "getnew", "create")
  /\ IF Taken(r) THEN Fails(r) ELSE Goto(r, "choose")
  /\ clients' = clients \cup {req[r].call.client}
  /\ UNCHANGED <<proxies, rows, counter, tags, history>>

Open == {p \in DOMAIN proxies : proxies[p].there /\ proxies[p].room > 0}

\* randint(0, -1) raises.
NoProxy(r) == Fails(r)

\* One of the rows read by len().
Choose(r) ==
  /\ At(r, "getnew", "choose")
  /\ \/ \E p \in Open : req' = [req EXCEPT ![r].pc = "assign", ![r].new = p, ![r].read = proxies[p].room]
     \/ Open = {} /\ NoProxy(r)
  /\ UNCHANGED <<proxies, clients, rows, counter, tags, history>>

\* The foreign key refuses a row for a proxy deleted meanwhile.
Assign(r) ==
  /\ At(r, "getnew", "assign")
  /\ LET p == req[r].new
     IN IF proxies[p].there THEN rows' = rows (+) SetToBag({<<p, req[r].call.client>>}) /\ Goto(r, "save")
                            ELSE rows' = rows /\ Fails(r)
  /\ UNCHANGED <<proxies, clients, counter, tags, history>>

\* Mutant of Saved: the row is saved as it was read.
SavedAsRead(r) == [proxies EXCEPT ![req[r].new].room = req[r].read, ![req[r].new].there = TRUE]

\* save() writes what was read, and inserts the row again if it is not there.
Saved(r) == [proxies EXCEPT ![req[r].new].room = req[r].read - 1, ![req[r].new].there = TRUE]

Save(r) ==
  /\ At(r, "getnew", "save")
  /\ proxies' = Saved(r)
  /\ Answers(r)
  /\ UNCHANGED <<clients, rows, counter, tags, history>>
-------------------------------------------------------------------------------
\* RealProxyUpdateView.post: which of its branches the two lists choose.
Post(r) ==
  /\ At(r, "update", "begin")
  /\ LET olds == req[r].call.olds
         news == req[r].call.news
     IN \/ olds = <<>> /\ news = <<>> /\ Fails(r)
        \/ olds = <<>> /\ news # <<>> /\ Goto(r, "add")
        \/ olds # <<>> /\ news = <<>> /\ Goto(r, "remove")
        \/ olds # <<>> /\ news # <<>> /\ Len(olds) # Len(news) /\ Fails(r)
        \/ olds # <<>> /\ Len(olds) = Len(news) /\ Goto(r, "swap")
  /\ UNCHANGED <<proxies, clients, rows, counter, tags, history>>

OldUrl(r) == req[r].call.olds[req[r].i]
NewUrl(r) == req[r].call.news[req[r].i]

\* The next element of the lists, or the answer after the last one.
NextElement(r, pc, n) ==
  req' = [req EXCEPT ![r].i = IF req[r].i < n THEN @ + 1 ELSE @,
                     ![r].pc = IF req[r].i < n THEN pc ELSE "answered"]

Add(r) ==
  /\ At(r, "update", "add")
  /\ proxies' = Append(proxies, Row(NewUrl(r), r))
  /\ NextElement(r, "add", Len(req[r].call.news))
  /\ UNCHANGED <<clients, rows, counter, tags, history>>

\* objects.get raises unless there is exactly one row.
GetOld(r, pc, next) ==
  /\ At(r, "update", pc)
  /\ \/ \E p \in Named(OldUrl(r)) : /\ Named(OldUrl(r)) = {p}
                                    /\ req' = [req EXCEPT ![r].old = p, ![r].pc = next]
     \/ Cardinality(Named(OldUrl(r))) # 1 /\ Fails(r)
  /\ UNCHANGED <<proxies, clients, rows, counter, tags, history>>

\* delete() and the cascade to the assignments
Delete(r) ==
  /\ At(r, "update", "delete")
  /\ proxies' = [proxies EXCEPT ![req[r].old].there = FALSE]
  /\ rows' = [x \in {y \in DOMAIN rows : y[1] # req[r].old} |-> rows[x]]
  /\ NextElement(r, "remove", Len(req[r].call.olds))
  /\ UNCHANGED <<clients, counter, tags, history>>

\* Mutant of Existing: the new URL is created whether it is there or not.
ExistingNone(r) == {}

Existing(r) == Named(NewUrl(r))

\* Proxy.objects.get_or_create: a query, then an insert that nothing refuses.
GetNew(r) ==
  /\ At(r, "update", "get")
  /\ \/ \E p \in Existing(r) : Existing(r) = {p} /\ req' = [req EXCEPT ![r].new = p, ![r].pc = "read"]
     \/ Existing(r) = {} /\ Goto(r, "insert")
     \/ Cardinality(Existing(r)) > 1 /\ Fails(r)
  /\ UNCHANGED <<proxies, clients, rows, counter, tags, history>>

Insert(r) ==
  /\ At(r, "update", "insert")
  /\ proxies' = Append(proxies, Row(NewUrl(r), r))
  /\ req' = [req EXCEPT ![r].new = Len(proxies) + 1, ![r].pc = "read"]
  /\ UNCHANGED <<clients, rows, counter, tags, history>>

\* The rows the lazy queryset finds once the loop begins.
Copied(r) == [x \in {y \in DOMAIN rows : y[1] = req[r].old} |-> rows[x]]

Read(r) ==
  /\ At(r, "update", "read")
  /\ req' = [req EXCEPT ![r].todo = Copied(r), ![r].pc = "copy"]
  /\ UNCHANGED <<proxies, clients, rows, counter, tags, history>>

WithCopy(r, x) == rows (+) SetToBag({<<req[r].new, x[2]>>})

Copy(r) ==
  /\ At(r, "update", "copy")
  /\ \E x \in DOMAIN req[r].todo :
       IF proxies[req[r].new].there
       THEN /\ rows' = WithCopy(r, x)
            /\ req' = [req EXCEPT ![r].todo = @ (-) SetToBag({x})]
       ELSE rows' = rows /\ Fails(r)
  /\ UNCHANGED <<proxies, clients, counter, tags, history>>

\* Mutant of AllCopied: the tag is set before the rows are copied.
AllCopiedOrNot(r) == TRUE

AllCopied(r) == req[r].todo = EmptyBag

\* tag_resource and list_tags; either may raise.
Tag(r) ==
  /\ At(r, "update", "copy") /\ AllCopied(r)
  /\ \/ /\ tags' = tags \cup {<<OldUrl(r), NewUrl(r)>>}
        /\ NextElement(r, "swap", Len(req[r].call.olds)) \/ Fails(r)
     \/ tags' = tags /\ Fails(r)
  /\ UNCHANGED <<proxies, clients, rows, counter, history>>
-------------------------------------------------------------------------------
\* IDAssignmentView: the count, then the row; post deletes them all.
GetId(r) ==
  /\ At(r, "getid", "begin")
  /\ req' = [req EXCEPT ![r].result = counter + 3, ![r].pc = "count"]
  /\ UNCHANGED <<proxies, clients, rows, counter, tags, history>>

Counted == counter + 1

CountId(r) ==
  /\ At(r, "getid", "count")
  /\ counter' = Counted
  /\ Answers(r)
  /\ UNCHANGED <<proxies, clients, rows, tags, history>>

Reset(r) ==
  /\ At(r, "reset", "begin")
  /\ counter' = 0
  /\ Answers(r)
  /\ UNCHANGED <<proxies, clients, rows, tags, history>>

Step(r) ==
  \/ Arrive(r) \/ FindClient(r) \/ CreateClient(r) \/ Choose(r) \/ Assign(r) \/ Save(r)
  \/ Post(r) \/ Add(r) \/ GetOld(r, "remove", "delete") \/ Delete(r)
  \/ GetOld(r, "swap", "get") \/ GetNew(r) \/ Insert(r) \/ Read(r) \/ Copy(r) \/ Tag(r)
  \/ GetId(r) \/ CountId(r) \/ Reset(r)

Next == \E r \in Requests : Step(r)

Spec == Init /\ [][Next]_vars
-------------------------------------------------------------------------------
(***************************************************************************)
(* Properties                                                              *)
(***************************************************************************)

\* Every variable has its type; assignments are of proxies that are there.
TypeOK ==
  /\ \A p \in DOMAIN proxies : proxies[p].room \in 0 .. Capacity /\ proxies[p].by \in Requests \cup {ByHand}
  /\ clients \subseteq Clients /\ counter \in 0 .. Cardinality(Requests)
  /\ IsABag(rows)
  /\ \A x \in DOMAIN rows : x[2] \in clients /\ x[1] \in DOMAIN proxies /\ proxies[x[1]].there
  /\ \A r \in Requests : {req[r].old, req[r].new} \subseteq 0 .. Len(proxies)
  /\ met \subseteq SUBSET Requests

Done(r, kind) == req[r].call.kind = kind /\ req[r].pc = "answered"

\* Requests of the same client that race each other get one assignment between
\* them, whatever the order of their queries.
ClientOnce ==
  \A r, s \in Requests : Done(r, "getnew") /\ Done(s, "getnew") /\ req[r].call.client = req[s].call.client
                         => r = s

Granted(p) == {r \in Requests : Done(r, "getnew") /\ req[r].new = p}

\* Capacities saved from stale reads never go below zero (TypeOK), and err to one
\* side only: a place may be given twice, none is lost; and none is given twice
\* unless two requests ran at the same time.
RoomErrsHigh ==
  TypeOK /\ \A p \in DOMAIN proxies :
    /\ Capacity - proxies[p].room <= Cardinality(Granted(p))
    /\ (\A r, s \in Granted(p) : {r, s} \in met => r = s) =>
         Capacity - proxies[p].room = Cardinality(Granted(p))

Removing(r) == req[r].call.kind = "update" /\ req[r].call.news = <<>>

\* A client that was answered is assigned to the proxy it was told of, and only
\* a removal can take that from it.
AnsweredIsAssigned ==
  \A r \in Requests : Done(r, "getnew") =>
    \/ req[r].call.client \in ClientsOf(req[r].new)
    \/ \E s \in Requests : Removing(s)

\* A client row without any assignment, which no later request can use, is left
\* only by a request that was answered with an error, or by a removal after the
\* client had been given a proxy.
NoClientLeftBare ==
  \A c \in clients :
    \/ \E p \in DOMAIN proxies : c \in ClientsOf(p)
    \/ c = Old /\ \E s \in Requests : Removing(s)
    \/ \E r \in Requests : /\ req[r].call.kind = "getnew" /\ req[r].call.client = c
                           /\ \/ Running(r) \/ req[r].pc = "failed"
                              \/ req[r].new # 0 /\ \E s \in Requests : Removing(s)

\* The tag that sends clients on comes last: whoever was assigned to the old row
\* when the swap arrived has been assigned to the new one by then, although the
\* handler may stop half way, be repeated, or run beside others.
TaggedAfterCopying ==
  \A r \in Requests :
    (req[r].call.kind = "update" /\ req[r].call.news # <<>> /\ ~ \E s \in Requests : Removing(s)) =>
      \A i \in DOMAIN req[r].call.olds : i < req[r].i \/ Done(r, "update") =>
        \A p \in DOMAIN before[r] : Named(req[r].call.olds[i]) = {p} =>
          \A c \in before[r][p] : \E q \in Named(req[r].call.news[i]) : c \in ClientsOf(q)

\* A client was given the row by a request that a removal ran beside: its save may
\* have brought the row back after that.
Revived(p) == \E r \in Granted(p) : \E s \in Requests : Removing(s) /\ {r, s} \in met

\* A repeated swap makes no second row of its new URL, unless it runs beside the
\* first, the URL was added by a creation, that does not look, or one of the two
\* rows was away when the swap looked.
SecondRowOnlyByRace ==
  \A p, q \in DOMAIN proxies :
    (p < q /\ proxies[p].url = proxies[q].url /\ proxies[p].there /\ proxies[q].there) =>
      \/ {proxies[p].by, proxies[q].by} \in met
      \/ \E r \in Requests : proxies[q].by = r /\ req[r].call.olds = <<>>
      \/ Revived(p) \/ Revived(q)

\* Ids are given twice only to requests that overlap, or across a reset.
IdsApart ==
  \A r, s \in Requests : (r # s /\ Done(r, "getid") /\ Done(s, "getid") /\ req[r].result = req[s].result)
    => {r, s} \in met \/ \E q \in Requests : Done(q, "reset")

\* A client row stands for one client with the proxy it was told of.
ClientsKept == ClientOnce /\ AnsweredIsAssigned /\ NoClientLeftBare

\* URLs and ids, neither of which has a unique constraint, are doubled only by
\* requests that overlap (or by a reset, or a creation that does not look).
TwiceOnlyByRace == SecondRowOnlyByRace /\ IdsApart
===============================================================================
