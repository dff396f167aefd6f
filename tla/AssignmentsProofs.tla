--------------------------- MODULE AssignmentsProofs ---------------------------
(***************************************************************************)
(* What the controller's handlers keep, for any number of requests of any  *)
(* kind, clients and proxies, however their statements fall between each   *)
(* other.                                                                  *)
(***************************************************************************)
EXTENDS Assignments, FiniteSetTheorems, SequenceTheorems, TLAPS

NoCall == [kind |-> "none"]

\* Bags of Assignment rows.
RowBags == UNION {[S -> Nat \ {0}] : S \in SUBSET (Nat \X Clients)}

Rows == [url : STRING, room : 0 .. Capacity, there : BOOLEAN, by : Requests \cup {ByHand}]

Pcs == {"idle", "begin", "create", "choose", "assign", "save", "add", "remove", "delete", "swap", "get",
        "insert", "read", "copy", "count", "answered", "failed"}

Handlers == [call : Calls \cup {NoCall}, pc : Pcs, i : Nat, old : Nat, new : Nat, read : Nat,
             todo : RowBags, result : Nat]

-------------------------------------------------------------------------------
(***************************************************************************)
(* The invariants                                                          *)
(***************************************************************************)

\* The types of the tables and of the handlers' local variables.
Types ==
  /\ proxies \in Seq(Rows)
  /\ clients \subseteq Clients /\ Old \in clients
  /\ rows \in RowBags
  /\ counter \in Nat
  /\ req \in [Requests -> Handlers]
  /\ met \subseteq SUBSET Requests
  /\ DOMAIN before = Requests

\* Assignments are of clients and proxies that are there.
RowsPoint == \A x \in DOMAIN rows : x[2] \in clients /\ x[1] \in 1 .. Len(proxies) /\ proxies[x[1]].there

\* How far each kind of handler has got and what it has read by then, for n proxy
\* rows and the client rows cs.
GetNewShape(t, n, cs) ==
  /\ t.pc \in {"begin", "create", "choose", "assign", "save", "answered", "failed"}
  /\ t.pc \in {"choose", "assign", "save", "answered"} => t.call.client \in cs
  /\ t.pc \in {"assign", "save", "answered"} => t.new \in 1 .. n /\ t.read \in 1 .. Capacity

UpdateShape(t, n, cs) ==
  /\ t.pc \in {"begin", "add", "remove", "delete", "swap", "get", "insert", "read", "copy", "answered", "failed"}
  /\ t.pc = "begin" => t.i = 1
  /\ t.pc = "add" => t.call.olds = <<>> /\ t.i \in 1 .. Len(t.call.news)
  /\ t.pc \in {"remove", "delete"} => t.call.news = <<>> /\ t.i \in 1 .. Len(t.call.olds)
  /\ t.pc \in {"swap", "get", "insert", "read", "copy"} =>
       t.call.news # <<>> /\ Len(t.call.olds) = Len(t.call.news) /\ t.i \in 1 .. Len(t.call.olds)
  /\ t.pc \in {"delete", "get", "insert", "read", "copy"} => t.old \in 1 .. n
  /\ t.pc \in {"read", "copy"} => t.new \in 1 .. n
  /\ t.pc = "copy" => \A x \in DOMAIN t.todo : x[2] \in cs

Shape(t, n, cs) ==
  /\ t.old \in 0 .. n /\ t.new \in 0 .. n
  /\ \/ t.call.kind = "none" /\ t.pc = "idle" /\ t.i = 1
     \/ t.call.kind = "getnew" /\ GetNewShape(t, n, cs)
     \/ t.call.kind = "update" /\ UpdateShape(t, n, cs)
     \/ t.call.kind = "getid" /\ t.pc \in {"begin", "count", "answered"}
     \/ t.call.kind = "reset" /\ t.pc \in {"begin", "answered"}

Shapes == \A r \in Requests : Shape(req[r], Len(proxies), clients)

\* Two handlers that run at the same time have met.
Meet == \A r, s \in Requests : r # s /\ Running(r) /\ Running(s) => {r, s} \in met

Base == Types /\ RowsPoint /\ Shapes /\ Meet

-------------------------------------------------------------------------------
(***************************************************************************)
(* Bags, calls and the parts of a step                                     *)
(***************************************************************************)

LEMMA Constants ==
  /\ Calls \subseteq CallTypes /\ Capacity \in Nat /\ Capacity >= 1 /\ Old \in Clients
  /\ Setup \in Seq(STRING) /\ Len(Setup) \in Nat /\ Len(Setup) >= 1
  /\ DOMAIN Setup = 1 .. Len(Setup)
  /\ \A p, q \in 1 .. Len(Setup) : Setup[p] = Setup[q] => p = q
<1>1. Setup \in Seq(STRING) /\ Setup # <<>>
  BY AssignmentsAssumption
<1>2. Len(Setup) \in Nat /\ Len(Setup) >= 1 /\ DOMAIN Setup = 1 .. Len(Setup)
  BY <1>1, EmptySeq, LenProperties
<1>3. QED
  BY <1>1, <1>2, AssignmentsAssumption

\* A row more.
LEMMA OneMore ==
  ASSUME NEW b \in RowBags, NEW x \in Nat \X Clients
  PROVE  b (+) SetToBag({x}) \in RowBags /\ DOMAIN (b (+) SetToBag({x})) = DOMAIN b \cup {x}
<1> DEFINE c == b (+) SetToBag({x})
<1>1. PICK S \in SUBSET (Nat \X Clients) : b \in [S -> Nat \ {0}]
  BY DEF RowBags
<1>2. DOMAIN b = S
  BY <1>1
<1>3. SetToBag({x}) = [e \in {x} |-> 1]
  BY DEF SetToBag
<1>4. DOMAIN SetToBag({x}) = {x} /\ SetToBag({x})[x] = 1
  BY <1>3
<1>5. c = [e \in DOMAIN b \cup {x} |-> (IF e \in DOMAIN b THEN b[e] ELSE 0)
                                       + (IF e \in {x} THEN SetToBag({x})[e] ELSE 0)]
  BY <1>4 DEF (+)
<1>6. DOMAIN c = S \cup {x}
  BY <1>2, <1>5
<1>7. ASSUME NEW e \in S \cup {x}
      PROVE  c[e] \in Nat \ {0}
  <2>1. \A f \in S : b[f] \in Nat \ {0}
    BY <1>1
  <2>2. c[e] = (IF e \in S THEN b[e] ELSE 0) + (IF e \in {x} THEN SetToBag({x})[e] ELSE 0)
    BY <1>2, <1>5
  <2> HIDE DEF c
  <2>3. CASE e \in S /\ e = x
    <3>1. c[e] = b[e] + 1 /\ b[e] \in Nat \ {0}
      BY <1>4, <2>1, <2>3, <2>2
    <3>2. QED
      BY <3>1
  <2>4. CASE e \in S /\ e # x
    <3>1. c[e] = b[e] + 0 /\ b[e] \in Nat \ {0}
      BY <2>1, <2>4, <2>2
    <3>2. QED
      BY <3>1
  <2>5. CASE e \notin S
    <3>1. c[e] = 0 + 1
      BY <1>4, <2>5, <2>2
    <3>2. QED
      BY <3>1
  <2>6. QED
    BY <2>3, <2>4, <2>5
<1>8. c \in [S \cup {x} -> Nat \ {0}] /\ S \cup {x} \in SUBSET (Nat \X Clients)
  BY <1>5, <1>2, <1>7
<1>9. QED
  BY <1>2, <1>6, <1>8 DEF RowBags

\* A row less: only that one goes, if it was there once.
LEMMA OneLess ==
  ASSUME NEW b \in RowBags, NEW x \in DOMAIN b
  PROVE  /\ b (-) SetToBag({x}) \in RowBags
         /\ DOMAIN b \ {x} \subseteq DOMAIN (b (-) SetToBag({x}))
         /\ DOMAIN (b (-) SetToBag({x})) \subseteq DOMAIN b
<1>1. PICK S \in SUBSET (Nat \X Clients) : b \in [S -> Nat \ {0}]
  BY DEF RowBags
<1>2. DOMAIN b = S
  BY <1>1
<1>3. SetToBag({x}) = [e \in {x} |-> 1]
  BY DEF SetToBag
<1>4. DOMAIN SetToBag({x}) = {x} /\ SetToBag({x})[x] = 1
  BY <1>3
<1> DEFINE d == [e \in DOMAIN b |-> IF e \in {x} THEN b[e] - SetToBag({x})[e] ELSE b[e]]
           T == {e \in DOMAIN d : d[e] > 0}
           c == [e \in T |-> d[e]]
<1>5. b (-) SetToBag({x}) = c
  BY <1>4 DEF (-)
<1>6. T \subseteq S /\ S \ {x} \subseteq T
  BY <1>1, <1>2
<1>7. \A e \in T : d[e] \in Nat \ {0}
  BY <1>1, <1>2, <1>4
<1>8. c \in [T -> Nat \ {0}] /\ T \in SUBSET (Nat \X Clients)
  BY <1>6, <1>7
<1>9. DOMAIN c = T
  OBVIOUS
<1> HIDE DEF c, T, d
<1>10. c \in RowBags
  BY <1>8 DEF RowBags
<1>11. QED
  BY <1>2, <1>5, <1>6, <1>9, <1>10

\* Part of a bag.
LEMMA PartOfBag ==
  ASSUME NEW b \in RowBags, NEW T, T \subseteq DOMAIN b
  PROVE  [x \in T |-> b[x]] \in RowBags /\ DOMAIN [x \in T |-> b[x]] = T
<1>1. PICK S \in SUBSET (Nat \X Clients) : b \in [S -> Nat \ {0}]
  BY DEF RowBags
<1>2. DOMAIN b = S
  BY <1>1
<1>3. [x \in T |-> b[x]] \in [T -> Nat \ {0}] /\ T \in SUBSET (Nat \X Clients)
  BY <1>1, <1>2
<1>4. QED
  BY <1>3 DEF RowBags

LEMMA BagsOfRows ==
  ASSUME NEW b \in RowBags
  PROVE  DOMAIN b \subseteq Nat \X Clients /\ IsABag(b)
<1>1. PICK S \in SUBSET (Nat \X Clients) : b \in [S -> Nat \ {0}]
  BY DEF RowBags
<1>2. DOMAIN b = S
  BY <1>1
<1>3. b \in [DOMAIN b -> {n \in Nat : n > 0}]
  BY <1>1, <1>2
<1>4. QED
  BY <1>1, <1>2, <1>3 DEF IsABag

LEMMA NoRows == EmptyBag \in RowBags /\ DOMAIN EmptyBag = {}
<1>1. EmptyBag = [x \in {} |-> 1]
  BY DEF EmptyBag, SetToBag
<1>2. EmptyBag \in [{} -> Nat \ {0}] /\ {} \in SUBSET (Nat \X Clients)
  BY <1>1
<1>3. QED
  BY <1>1, <1>2 DEF RowBags

\* What a call carries.
LEMMA CallFields ==
  ASSUME NEW call \in Calls \cup {NoCall}
  PROVE  /\ call.kind \in {"none", "getnew", "update", "getid", "reset"}
         /\ call.kind = "none" => call = NoCall
         /\ call.kind # "none" => call \in Calls
         /\ call.kind = "getnew" => call.client \in Clients
         /\ call.kind = "update" =>
              /\ call.olds \in Seq(STRING) /\ Len(call.olds) \in Nat
              /\ DOMAIN call.olds = 1 .. Len(call.olds)
              /\ call.news \in Seq(STRING) /\ Len(call.news) \in Nat
              /\ DOMAIN call.news = 1 .. Len(call.news)
<1>1. CASE call = NoCall
  BY <1>1 DEF NoCall
<1>2. CASE call \in [kind : {"getnew"}, client : Clients]
  BY <1>2, Constants DEF NoCall
<1>3. CASE call \in [kind : {"update"}, olds : Seq(STRING), news : Seq(STRING)]
  BY <1>3 DEF NoCall
<1>4. CASE call \in [kind : {"getid", "reset"}]
  BY <1>4 DEF NoCall
<1>5. QED
  BY <1>1, <1>2, <1>3, <1>4, Constants DEF CallTypes

\* A handler's step changes its own local variables alone.
Local(r) ==
  /\ req' \in [Requests -> Handlers]
  /\ \A s \in Requests : s # r => req'[s] = req[s]

\* Which of them it keeps.
KeepsCall(r) == req'[r].call = req[r].call
KeepsPlace(r) == req'[r].i = req[r].i /\ req'[r].result = req[r].result
KeepsRows(r) == req'[r].old = req[r].old /\ req'[r].new = req[r].new
KeepsRead(r) == req'[r].read = req[r].read /\ req'[r].todo = req[r].todo

\* The statement of a handler that only leads to another one.
Only(r, pc) ==
  Local(r) /\ req'[r].pc = pc /\ KeepsCall(r) /\ KeepsPlace(r) /\ KeepsRows(r) /\ KeepsRead(r)

LEMMA HandlerFields ==
  ASSUME Types, NEW r \in Requests
  PROVE  /\ req[r] \in Handlers /\ req[r].call \in Calls \cup {NoCall} /\ req[r].pc \in Pcs
         /\ req[r].i \in Nat /\ req[r].old \in Nat /\ req[r].new \in Nat /\ req[r].read \in Nat
         /\ req[r].todo \in RowBags /\ req[r].result \in Nat
BY DEF Types, Handlers

LEMMA LocalIs ==
  ASSUME Types, NEW r \in Requests, NEW t \in Handlers, req' = [req EXCEPT ![r] = t]
  PROVE  Local(r) /\ req'[r] = t
BY DEF Types, Local

LEMMA GotoIs ==
  ASSUME Types, NEW r \in Requests, NEW x \in Pcs, Goto(r, x)
  PROVE  Only(r, x)
<1>1. req \in [Requests -> Handlers] /\ req[r] \in Handlers
  BY DEF Types
<1>2. PICK t : t = [req[r] EXCEPT !.pc = x]
  OBVIOUS
<1>3. /\ t \in Handlers /\ t.pc = x /\ t.call = req[r].call /\ t.i = req[r].i /\ t.old = req[r].old
      /\ t.new = req[r].new /\ t.read = req[r].read /\ t.todo = req[r].todo /\ t.result = req[r].result
  BY <1>1, <1>2 DEF Handlers
<1>4. req' = [req EXCEPT ![r] = t]
  BY <1>2 DEF Goto
<1>5. Local(r) /\ req'[r] = t
  BY <1>3, <1>4, LocalIs
<1>6. QED
  BY <1>3, <1>5 DEF Only, KeepsCall, KeepsPlace, KeepsRows, KeepsRead

LEMMA FailsIs ==
  ASSUME Types, NEW r \in Requests, Fails(r)
  PROVE  Only(r, "failed")
<1>1. Goto(r, "failed") /\ "failed" \in Pcs
  BY DEF Fails, Pcs
<1>2. QED
  BY <1>1, GotoIs

LEMMA AnswersIs ==
  ASSUME Types, NEW r \in Requests, Answers(r)
  PROVE  Only(r, "answered")
<1>1. Goto(r, "answered") /\ "answered" \in Pcs
  BY DEF Answers, Pcs
<1>2. QED
  BY <1>1, GotoIs

-------------------------------------------------------------------------------
(***************************************************************************)
(* What each statement does                                                *)
(***************************************************************************)

LEMMA ArriveIs ==
  ASSUME Types, NEW r \in Requests, Arrive(r)
  PROVE  /\ req[r].pc = "idle"
         /\ Local(r) /\ req'[r].call \in Calls /\ req'[r].pc = "begin" /\ KeepsPlace(r) /\ KeepsRows(r)
         /\ met' = met \cup {{r, s} : s \in {q \in Requests : Running(q)}}
         /\ before' = [before EXCEPT ![r] = [p \in DOMAIN proxies |-> ClientsOf(p)]]
         /\ UNCHANGED <<proxies, clients, rows, counter, tags>>
<1>1. PICK call \in Calls : req' = [req EXCEPT ![r].call = call, ![r].pc = "begin"]
  BY DEF Arrive
<1>2. PICK t : t = [req[r] EXCEPT !.call = call, !.pc = "begin"]
  OBVIOUS
<1>3. t \in Handlers /\ t.call = call /\ t.pc = "begin" /\ t.old = req[r].old /\ t.new = req[r].new
      /\ t.i = req[r].i /\ t.result = req[r].result
  BY <1>2, HandlerFields DEF Handlers, Pcs
<1>4. req' = [req EXCEPT ![r] = t]
  BY <1>1, <1>2 DEF Types
<1>5. Local(r) /\ req'[r] = t
  BY <1>3, <1>4, LocalIs
<1>6. QED
  BY <1>3, <1>5 DEF Arrive, KeepsPlace, KeepsRows

LEMMA FindClientIs ==
  ASSUME Types, NEW r \in Requests, FindClient(r)
  PROVE  /\ At(r, "getnew", "begin")
         /\ Only(r, "failed") \/ (Only(r, "create") /\ req[r].call.client \notin clients)
         /\ UNCHANGED <<proxies, clients, rows, counter, tags, history>>
<1>1. Fails(r) => Only(r, "failed")
  BY FailsIs
<1>2. "create" \in Pcs
  BY DEF Pcs
<1>3. Goto(r, "create") => Only(r, "create")
  BY <1>2, GotoIs
<1>4. QED
  BY <1>1, <1>3 DEF FindClient

LEMMA CreateClientIs ==
  ASSUME Types, NEW r \in Requests, CreateClient(r)
  PROVE  /\ At(r, "getnew", "create")
         /\ \/ Only(r, "failed") /\ req[r].call.client \in clients
            \/ Only(r, "choose") /\ req[r].call.client \notin clients
         /\ clients' = clients \cup {req[r].call.client}
         /\ UNCHANGED <<proxies, rows, counter, tags, history>>
<1>1. Fails(r) => Only(r, "failed")
  BY FailsIs
<1>2. "choose" \in Pcs
  BY DEF Pcs
<1>3. Goto(r, "choose") => Only(r, "choose")
  BY <1>2, GotoIs
<1>4. QED
  BY <1>1, <1>3 DEF CreateClient, Taken

\* A proxy row, by its key.
LEMMA ProxyRow ==
  ASSUME Types, NEW p \in DOMAIN proxies
  PROVE  /\ p \in Nat /\ p \in 1 .. Len(proxies) /\ Len(proxies) \in Nat
         /\ proxies[p] \in Rows /\ proxies[p].room \in 0 .. Capacity /\ proxies[p].room \in Nat
<1>1. proxies \in Seq(Rows) /\ p \in 1 .. Len(proxies) /\ Len(proxies) \in Nat
  BY LenProperties DEF Types
<1>2. proxies[p] \in Rows
  BY <1>1, ElementOfSeq
<1>3. QED
  BY <1>1, <1>2, Constants DEF Rows

\* What Choose reads of the row.
Chosen(r) ==
  /\ Local(r) /\ req'[r].pc = "assign" /\ KeepsCall(r) /\ KeepsPlace(r) /\ req'[r].old = req[r].old
  /\ req'[r].new \in DOMAIN proxies /\ proxies[req'[r].new].there /\ proxies[req'[r].new].room > 0
  /\ req'[r].read = proxies[req'[r].new].room

LEMMA ChooseIs ==
  ASSUME Types, NEW r \in Requests, Choose(r)
  PROVE  /\ At(r, "getnew", "choose")
         /\ Only(r, "failed") \/ Chosen(r)
         /\ UNCHANGED <<proxies, clients, rows, counter, tags, history>>
<1>1. Fails(r) => Only(r, "failed")
  BY FailsIs
<1>2. ASSUME NEW p \in Open, req' = [req EXCEPT ![r].pc = "assign", ![r].new = p, ![r].read = proxies[p].room]
      PROVE  Chosen(r)
  <2>1. p \in DOMAIN proxies /\ proxies[p].there /\ proxies[p].room > 0
    BY DEF Open
  <2>2. p \in Nat /\ proxies[p].room \in Nat
    BY <2>1, ProxyRow
  <2>3. PICK t : t = [req[r] EXCEPT !.pc = "assign", !.new = p, !.read = proxies[p].room]
    OBVIOUS
  <2>4. /\ t \in Handlers /\ t.pc = "assign" /\ t.call = req[r].call /\ t.i = req[r].i /\ t.old = req[r].old
        /\ t.new = p /\ t.read = proxies[p].room /\ t.result = req[r].result
    BY <2>2, <2>3, HandlerFields DEF Handlers, Pcs
  <2>5. req' = [req EXCEPT ![r] = t]
    BY <1>2, <2>3 DEF Types
  <2>6. Local(r) /\ req'[r] = t
    BY <2>4, <2>5, LocalIs
  <2>7. QED
    BY <2>1, <2>4, <2>6 DEF Chosen, KeepsCall, KeepsPlace
<1>3. QED
  BY <1>1, <1>2 DEF Choose, NoProxy

LEMMA AssignIs ==
  ASSUME Types, NEW r \in Requests, Assign(r)
  PROVE  /\ At(r, "getnew", "assign")
         /\ \/ Only(r, "failed") /\ rows' = rows
            \/ /\ Only(r, "save") /\ proxies[req[r].new].there
               /\ rows' = rows (+) SetToBag({<<req[r].new, req[r].call.client>>})
         /\ UNCHANGED <<proxies, clients, counter, tags, history>>
<1>1. Fails(r) => Only(r, "failed")
  BY FailsIs
<1>2. "save" \in Pcs
  BY DEF Pcs
<1>3. Goto(r, "save") => Only(r, "save")
  BY <1>2, GotoIs
<1>4. QED
  BY <1>1, <1>3 DEF Assign

LEMMA SaveIs ==
  ASSUME Types, NEW r \in Requests, Save(r)
  PROVE  /\ At(r, "getnew", "save")
         /\ Only(r, "answered")
         /\ proxies' = [proxies EXCEPT ![req[r].new].room = req[r].read - 1, ![req[r].new].there = TRUE]
         /\ UNCHANGED <<clients, rows, counter, tags, history>>
BY AnswersIs DEF Save, Saved

LEMMA PostIs ==
  ASSUME Types, NEW r \in Requests, Post(r)
  PROVE  /\ At(r, "update", "begin")
         /\ \/ Only(r, "failed")
            \/ Only(r, "add") /\ req[r].call.olds = <<>> /\ req[r].call.news # <<>>
            \/ Only(r, "remove") /\ req[r].call.olds # <<>> /\ req[r].call.news = <<>>
            \/ /\ Only(r, "swap") /\ req[r].call.olds # <<>> /\ req[r].call.news # <<>>
               /\ Len(req[r].call.olds) = Len(req[r].call.news)
         /\ UNCHANGED <<proxies, clients, rows, counter, tags, history>>
<1>1. Fails(r) => Only(r, "failed")
  BY FailsIs
<1>2. "add" \in Pcs /\ "remove" \in Pcs /\ "swap" \in Pcs
  BY DEF Pcs
<1>3. /\ Goto(r, "add") => Only(r, "add")
      /\ Goto(r, "remove") => Only(r, "remove")
      /\ Goto(r, "swap") => Only(r, "swap")
  BY <1>2, GotoIs
<1>4. req[r].call.olds # <<>> /\ Len(req[r].call.olds) = Len(req[r].call.news) => req[r].call.news # <<>>
  <2>1. req[r].call.kind = "update" /\ req[r].call \in Calls \cup {NoCall}
    BY HandlerFields DEF Post, At
  <2>2. req[r].call.olds \in Seq(STRING)
    BY <2>1, CallFields
  <2>3. Len(<<>>) = 0
    OBVIOUS
  <2>4. QED
    BY <2>2, <2>3, EmptySeq
<1>5. QED
  BY <1>1, <1>3, <1>4 DEF Post

\* The next element of a list, or the answer after the last one.
Advances(r, pc, n) ==
  /\ Local(r) /\ KeepsCall(r) /\ KeepsRows(r) /\ KeepsRead(r) /\ req'[r].result = req[r].result
  /\ \/ req[r].i < n /\ req'[r].i = req[r].i + 1 /\ req'[r].pc = pc
     \/ ~(req[r].i < n) /\ req'[r].i = req[r].i /\ req'[r].pc = "answered"

LEMMA NextElementIs ==
  ASSUME Types, NEW r \in Requests, NEW pc \in Pcs, NEW n, NextElement(r, pc, n)
  PROVE  Advances(r, pc, n)
<1>1. PICK j \in Nat : j = (IF req[r].i < n THEN req[r].i + 1 ELSE req[r].i)
  BY HandlerFields
<1>2. PICK x \in Pcs : x = (IF req[r].i < n THEN pc ELSE "answered")
  BY DEF Pcs
<1>3. PICK t : t = [req[r] EXCEPT !.i = j, !.pc = x]
  OBVIOUS
<1>4. /\ t \in Handlers /\ t.call = req[r].call /\ t.i = j /\ t.pc = x /\ t.result = req[r].result
      /\ t.old = req[r].old /\ t.new = req[r].new /\ t.todo = req[r].todo /\ t.read = req[r].read
  BY <1>3, HandlerFields DEF Handlers, Pcs
<1>5. req' = [req EXCEPT ![r] = t]
  BY <1>1, <1>2, <1>3 DEF Types, NextElement
<1>6. Local(r) /\ req'[r] = t
  BY <1>4, <1>5, LocalIs
<1>7. QED
  BY <1>1, <1>2, <1>4, <1>6 DEF Advances, KeepsCall, KeepsRows, KeepsRead

LEMMA AddIs ==
  ASSUME Types, NEW r \in Requests, Add(r)
  PROVE  /\ At(r, "update", "add")
         /\ Advances(r, "add", Len(req[r].call.news))
         /\ proxies' = Append(proxies, Row(NewUrl(r), r))
         /\ UNCHANGED <<clients, rows, counter, tags, history>>
<1>1. "add" \in Pcs
  BY DEF Pcs
<1>2. QED
  BY <1>1, NextElementIs DEF Add

\* What GetOld finds.
FoundOld(r, next) ==
  /\ Local(r) /\ req'[r].pc = next /\ KeepsCall(r) /\ KeepsPlace(r) /\ KeepsRead(r) /\ req'[r].new = req[r].new
  /\ Named(OldUrl(r)) = {req'[r].old}

LEMMA GetOldIs ==
  ASSUME Types, NEW r \in Requests, NEW pc, NEW next \in Pcs, GetOld(r, pc, next)
  PROVE  /\ At(r, "update", pc)
         /\ Only(r, "failed") \/ FoundOld(r, next)
         /\ UNCHANGED <<proxies, clients, rows, counter, tags, history>>
<1>1. Fails(r) => Only(r, "failed")
  BY FailsIs
<1>2. ASSUME NEW p \in Named(OldUrl(r)), Named(OldUrl(r)) = {p},
             req' = [req EXCEPT ![r].old = p, ![r].pc = next]
      PROVE  FoundOld(r, next)
  <2>1. p \in Nat
    BY ProxyRow DEF Named
  <2>2. PICK t : t = [req[r] EXCEPT !.old = p, !.pc = next]
    OBVIOUS
  <2>3. /\ t \in Handlers /\ t.pc = next /\ t.call = req[r].call /\ t.i = req[r].i /\ t.new = req[r].new
        /\ t.old = p /\ t.todo = req[r].todo /\ t.read = req[r].read /\ t.result = req[r].result
    BY <2>1, <2>2, HandlerFields DEF Handlers, Pcs
  <2>4. req' = [req EXCEPT ![r] = t]
    BY <1>2, <2>2 DEF Types
  <2>5. Local(r) /\ req'[r] = t
    BY <2>3, <2>4, LocalIs
  <2>6. QED
    BY <1>2, <2>3, <2>5 DEF FoundOld, KeepsCall, KeepsPlace, KeepsRead
<1>3. (\E p \in Named(OldUrl(r)) : Named(OldUrl(r)) = {p} /\ req' = [req EXCEPT ![r].old = p, ![r].pc = next])
      \/ Fails(r)
  BY DEF GetOld
<1>4. Only(r, "failed") \/ FoundOld(r, next)
  BY <1>1, <1>2, <1>3
<1>5. QED
  BY <1>4 DEF GetOld

LEMMA DeleteIs ==
  ASSUME Types, NEW r \in Requests, Delete(r)
  PROVE  /\ At(r, "update", "delete")
         /\ Advances(r, "remove", Len(req[r].call.olds))
         /\ proxies' = [proxies EXCEPT ![req[r].old].there = FALSE]
         /\ rows' = [x \in {y \in DOMAIN rows : y[1] # req[r].old} |-> rows[x]]
         /\ UNCHANGED <<clients, counter, tags, history>>
<1>1. "remove" \in Pcs
  BY DEF Pcs
<1>2. Advances(r, "remove", Len(req[r].call.olds))
  BY <1>1, NextElementIs DEF Delete
<1>3. QED
  BY <1>2 DEF Delete

\* The row that a swap takes for its new URL.
FoundNew(r) ==
  /\ Local(r) /\ req'[r].pc = "read" /\ KeepsCall(r) /\ KeepsPlace(r) /\ req'[r].old = req[r].old

LEMMA GetNewIs ==
  ASSUME Types, NEW r \in Requests, GetNew(r)
  PROVE  /\ At(r, "update", "get")
         /\ \/ Only(r, "failed")
            \/ Only(r, "insert") /\ Named(NewUrl(r)) = {}
            \/ FoundNew(r) /\ Named(NewUrl(r)) = {req'[r].new}
         /\ UNCHANGED <<proxies, clients, rows, counter, tags, history>>
<1>1. Fails(r) => Only(r, "failed")
  BY FailsIs
<1>2. "insert" \in Pcs
  BY DEF Pcs
<1>3. Goto(r, "insert") => Only(r, "insert")
  BY <1>2, GotoIs
<1>4. ASSUME NEW p \in Named(NewUrl(r)), Named(NewUrl(r)) = {p},
             req' = [req EXCEPT ![r].new = p, ![r].pc = "read"]
      PROVE  FoundNew(r) /\ Named(NewUrl(r)) = {req'[r].new}
  <2>1. p \in Nat
    BY ProxyRow DEF Named
  <2>2. PICK t : t = [req[r] EXCEPT !.new = p, !.pc = "read"]
    OBVIOUS
  <2>3. /\ t \in Handlers /\ t.pc = "read" /\ t.call = req[r].call /\ t.i = req[r].i /\ t.old = req[r].old
        /\ t.new = p /\ t.result = req[r].result
    BY <2>1, <2>2, HandlerFields DEF Handlers, Pcs
  <2>4. req' = [req EXCEPT ![r] = t]
    BY <1>4, <2>2 DEF Types
  <2>5. Local(r) /\ req'[r] = t
    BY <2>3, <2>4, LocalIs
  <2>6. QED
    BY <1>4, <2>3, <2>5 DEF FoundNew, KeepsCall, KeepsPlace
<1>5. \/ \E p \in Named(NewUrl(r)) : Named(NewUrl(r)) = {p} /\ req' = [req EXCEPT ![r].new = p, ![r].pc = "read"]
      \/ Named(NewUrl(r)) = {} /\ Goto(r, "insert")
      \/ Fails(r)
  BY DEF GetNew, Existing
<1>6. \/ Only(r, "failed")
      \/ Only(r, "insert") /\ Named(NewUrl(r)) = {}
      \/ FoundNew(r) /\ Named(NewUrl(r)) = {req'[r].new}
  BY <1>1, <1>3, <1>4, <1>5
<1>7. QED
  BY <1>6 DEF GetNew

LEMMA InsertIs ==
  ASSUME Types, NEW r \in Requests, Insert(r)
  PROVE  /\ At(r, "update", "insert")
         /\ FoundNew(r) /\ req'[r].new = Len(proxies) + 1
         /\ proxies' = Append(proxies, Row(NewUrl(r), r))
         /\ UNCHANGED <<clients, rows, counter, tags, history>>
<1>1. Len(proxies) + 1 \in Nat
  BY LenProperties DEF Types
<1>2. PICK t : t = [req[r] EXCEPT !.new = Len(proxies) + 1, !.pc = "read"]
  OBVIOUS
<1>3. /\ t \in Handlers /\ t.pc = "read" /\ t.call = req[r].call /\ t.i = req[r].i /\ t.old = req[r].old
      /\ t.new = Len(proxies) + 1 /\ t.result = req[r].result
  BY <1>1, <1>2, HandlerFields DEF Handlers, Pcs
<1>4. req' = [req EXCEPT ![r] = t]
  BY <1>2 DEF Types, Insert
<1>5. Local(r) /\ req'[r] = t
  BY <1>3, <1>4, LocalIs
<1>6. FoundNew(r) /\ req'[r].new = Len(proxies) + 1
  BY <1>3, <1>5 DEF FoundNew, KeepsCall, KeepsPlace
<1>7. QED
  BY <1>6 DEF Insert

LEMMA ReadIs ==
  ASSUME Types, NEW r \in Requests, Read(r)
  PROVE  /\ At(r, "update", "read")
         /\ Local(r) /\ req'[r].pc = "copy" /\ KeepsCall(r) /\ KeepsPlace(r) /\ KeepsRows(r)
         /\ DOMAIN req'[r].todo = {y \in DOMAIN rows : y[1] = req[r].old}
         /\ UNCHANGED <<proxies, clients, rows, counter, tags, history>>
<1>1. PICK b : b = Copied(r)
  OBVIOUS
<1>2. b \in RowBags /\ DOMAIN b = {y \in DOMAIN rows : y[1] = req[r].old}
  BY <1>1, PartOfBag DEF Copied, Types
<1>3. PICK t : t = [req[r] EXCEPT !.todo = b, !.pc = "copy"]
  OBVIOUS
<1>4. /\ t \in Handlers /\ t.pc = "copy" /\ t.call = req[r].call /\ t.i = req[r].i /\ t.old = req[r].old
      /\ t.new = req[r].new /\ t.todo = b /\ t.result = req[r].result
  BY <1>2, <1>3, HandlerFields DEF Handlers, Pcs
<1>5. req' = [req EXCEPT ![r] = t]
  BY <1>1, <1>3 DEF Types, Read
<1>6. Local(r) /\ req'[r] = t
  BY <1>4, <1>5, LocalIs
<1>7. /\ Local(r) /\ req'[r].pc = "copy" /\ KeepsCall(r) /\ KeepsPlace(r) /\ KeepsRows(r)
      /\ DOMAIN req'[r].todo = {y \in DOMAIN rows : y[1] = req[r].old}
  BY <1>2, <1>4, <1>6 DEF KeepsCall, KeepsPlace, KeepsRows
<1>8. QED
  BY <1>7 DEF Read

\* One of the rows read before is copied.
CopiesRow(r, x) ==
  /\ Local(r) /\ req'[r].pc = "copy" /\ KeepsCall(r) /\ KeepsPlace(r) /\ KeepsRows(r)
  /\ DOMAIN req[r].todo \ {x} \subseteq DOMAIN req'[r].todo
  /\ DOMAIN req'[r].todo \subseteq DOMAIN req[r].todo
  /\ proxies[req[r].new].there
  /\ rows' = rows (+) SetToBag({<<req[r].new, x[2]>>})

LEMMA CopyIs ==
  ASSUME Types, NEW r \in Requests, Copy(r)
  PROVE  /\ At(r, "update", "copy")
         /\ \/ Only(r, "failed") /\ rows' = rows
            \/ \E x \in DOMAIN req[r].todo : CopiesRow(r, x)
         /\ UNCHANGED <<proxies, clients, counter, tags, history>>
<1>1. PICK x \in DOMAIN req[r].todo :
        IF proxies[req[r].new].there
        THEN /\ rows' = WithCopy(r, x)
             /\ req' = [req EXCEPT ![r].todo = req[r].todo (-) SetToBag({x})]
        ELSE rows' = rows /\ Fails(r)
  BY DEF Copy, Types
<1>2. CASE ~proxies[req[r].new].there
  <2>1. rows' = rows /\ Only(r, "failed")
    BY <1>1, <1>2, FailsIs
  <2>2. QED
    BY <2>1 DEF Copy
<1>3. CASE proxies[req[r].new].there
  <2>1. PICK b : b = req[r].todo (-) SetToBag({x})
    OBVIOUS
  <2>2. b \in RowBags /\ DOMAIN req[r].todo \ {x} \subseteq DOMAIN b /\ DOMAIN b \subseteq DOMAIN req[r].todo
    BY <2>1, OneLess, HandlerFields
  <2>3. PICK t : t = [req[r] EXCEPT !.todo = b]
    OBVIOUS
  <2>4. /\ t \in Handlers /\ t.pc = req[r].pc /\ t.call = req[r].call /\ t.i = req[r].i /\ t.old = req[r].old
        /\ t.new = req[r].new /\ t.todo = b /\ t.result = req[r].result
    BY <2>2, <2>3, HandlerFields DEF Handlers, Pcs
  <2>5. req' = [req EXCEPT ![r] = t]
    BY <1>1, <1>3, <2>1, <2>3 DEF Types
  <2>6. Local(r) /\ req'[r] = t
    BY <2>4, <2>5, LocalIs
  <2>7. rows' = rows (+) SetToBag({<<req[r].new, x[2]>>})
    BY <1>1, <1>3 DEF WithCopy
  <2>8. req[r].pc = "copy"
    BY DEF Copy, At
  <2>9. CopiesRow(r, x)
    BY <1>3, <2>2, <2>4, <2>6, <2>7, <2>8 DEF CopiesRow, KeepsCall, KeepsPlace, KeepsRows
  <2>10. QED
    BY <2>9 DEF Copy
<1>4. QED
  BY <1>2, <1>3

LEMMA TagIs ==
  ASSUME Types, NEW r \in Requests, Tag(r)
  PROVE  /\ At(r, "update", "copy") /\ DOMAIN req[r].todo = {}
         /\ Only(r, "failed") \/ Advances(r, "swap", Len(req[r].call.olds))
         /\ UNCHANGED <<proxies, clients, rows, counter, history>>
<1>1. DOMAIN req[r].todo = {}
  BY NoRows DEF Tag, AllCopied
<1>2. Fails(r) => Only(r, "failed")
  BY FailsIs
<1>3. "swap" \in Pcs
  BY DEF Pcs
<1>4. NextElement(r, "swap", Len(req[r].call.olds)) => Advances(r, "swap", Len(req[r].call.olds))
  BY <1>3, NextElementIs
<1>5. QED
  BY <1>1, <1>2, <1>4 DEF Tag

LEMMA GetIdIs ==
  ASSUME Types, NEW r \in Requests, GetId(r)
  PROVE  /\ At(r, "getid", "begin")
         /\ Local(r) /\ req'[r].pc = "count" /\ KeepsCall(r) /\ KeepsRows(r) /\ req'[r].result = counter + 3
         /\ UNCHANGED <<proxies, clients, rows, counter, tags, history>>
<1>1. counter + 3 \in Nat
  BY DEF Types
<1>2. PICK t : t = [req[r] EXCEPT !.result = counter + 3, !.pc = "count"]
  OBVIOUS
<1>3. /\ t \in Handlers /\ t.pc = "count" /\ t.call = req[r].call /\ t.result = counter + 3
      /\ t.old = req[r].old /\ t.new = req[r].new
  BY <1>1, <1>2, HandlerFields DEF Handlers, Pcs
<1>4. req' = [req EXCEPT ![r] = t]
  BY <1>2 DEF Types, GetId
<1>5. Local(r) /\ req'[r] = t
  BY <1>3, <1>4, LocalIs
<1>6. Local(r) /\ req'[r].pc = "count" /\ KeepsCall(r) /\ KeepsRows(r) /\ req'[r].result = counter + 3
  BY <1>3, <1>5 DEF KeepsCall, KeepsRows
<1>7. QED
  BY <1>6 DEF GetId

LEMMA CountIdIs ==
  ASSUME Types, NEW r \in Requests, CountId(r)
  PROVE  /\ At(r, "getid", "count") /\ Only(r, "answered")
         /\ counter' = counter + 1
         /\ UNCHANGED <<proxies, clients, rows, tags, history>>
BY AnswersIs DEF CountId, Counted

LEMMA ResetIs ==
  ASSUME Types, NEW r \in Requests, Reset(r)
  PROVE  /\ At(r, "reset", "begin") /\ Only(r, "answered")
         /\ counter' = 0
         /\ UNCHANGED <<proxies, clients, rows, tags, history>>
BY AnswersIs DEF Reset

-------------------------------------------------------------------------------
(***************************************************************************)
(* The basic invariant                                                     *)
(***************************************************************************)

LEMMA NewRow ==
  ASSUME Types, NEW u \in STRING, NEW r \in Requests, proxies' = Append(proxies, Row(u, r))
  PROVE  /\ proxies' \in Seq(Rows) /\ Len(proxies') = Len(proxies) + 1
         /\ \A p \in 1 .. Len(proxies) : proxies'[p] = proxies[p]
         /\ proxies'[Len(proxies) + 1] = Row(u, r)
<1>1. proxies \in Seq(Rows)
  BY DEF Types
<1>2. Row(u, r) \in Rows
  BY Constants DEF Row, Rows
<1>3. PICK x \in Rows : x = Row(u, r)
  BY <1>2
<1>4. proxies' = Append(proxies, x)
  BY <1>3
<1>5. /\ proxies' \in Seq(Rows) /\ Len(proxies') = Len(proxies) + 1
      /\ \A p \in 1 .. Len(proxies) : proxies'[p] = proxies[p]
      /\ proxies'[Len(proxies) + 1] = x
  BY <1>1, <1>4, AppendProperties
<1>6. QED
  BY <1>3, <1>5

\* A row, of which only the place left and whether it is there change.
LEMMA ChangedRow ==
  ASSUME Types, NEW k \in 1 .. Len(proxies), NEW x \in Rows, proxies' = [proxies EXCEPT ![k] = x]
  PROVE  /\ proxies' \in Seq(Rows) /\ Len(proxies') = Len(proxies)
         /\ \A p \in 1 .. Len(proxies) : p # k => proxies'[p] = proxies[p]
         /\ proxies'[k] = x
<1>1. proxies \in Seq(Rows)
  BY DEF Types
<1>2. PICK y : y = [proxies EXCEPT ![k] = x]
  OBVIOUS
<1>3. y \in Seq(Rows) /\ Len(y) = Len(proxies) /\ \A j \in 1 .. Len(proxies) : y[j] = IF j = k THEN x ELSE proxies[j]
  BY <1>1, <1>2, ExceptSeq
<1>4. QED
  BY <1>2, <1>3

LEMMA SavedRow ==
  ASSUME Types, NEW k \in 1 .. Len(proxies), NEW room \in 0 .. Capacity,
         proxies' = [proxies EXCEPT ![k].room = room, ![k].there = TRUE]
  PROVE  /\ proxies' \in Seq(Rows) /\ Len(proxies') = Len(proxies)
         /\ \A p \in 1 .. Len(proxies) : p # k => proxies'[p] = proxies[p]
         /\ proxies'[k].room = room /\ proxies'[k].there
         /\ proxies'[k].url = proxies[k].url /\ proxies'[k].by = proxies[k].by
<1>1. proxies[k] \in Rows
  BY LenProperties, ElementOfSeq DEF Types
<1>2. PICK x : x = [proxies[k] EXCEPT !.room = room, !.there = TRUE]
  OBVIOUS
<1>3. x \in Rows /\ x.room = room /\ x.there /\ x.url = proxies[k].url /\ x.by = proxies[k].by
  BY <1>1, <1>2 DEF Rows
<1>4. proxies' = [proxies EXCEPT ![k] = x]
  BY <1>2, LenProperties DEF Types
<1>5. QED
  BY <1>3, <1>4, ChangedRow

LEMMA DeletedRow ==
  ASSUME Types, NEW k \in 1 .. Len(proxies), proxies' = [proxies EXCEPT ![k].there = FALSE]
  PROVE  /\ proxies' \in Seq(Rows) /\ Len(proxies') = Len(proxies)
         /\ \A p \in 1 .. Len(proxies) : p # k => proxies'[p] = proxies[p]
         /\ ~proxies'[k].there
         /\ proxies'[k].room = proxies[k].room /\ proxies'[k].url = proxies[k].url /\ proxies'[k].by = proxies[k].by
<1>1. proxies[k] \in Rows
  BY LenProperties, ElementOfSeq DEF Types
<1>2. PICK x : x = [proxies[k] EXCEPT !.there = FALSE]
  OBVIOUS
<1>3. x \in Rows /\ ~x.there /\ x.room = proxies[k].room /\ x.url = proxies[k].url /\ x.by = proxies[k].by
  BY <1>1, <1>2 DEF Rows
<1>4. proxies' = [proxies EXCEPT ![k] = x]
  BY <1>2, LenProperties DEF Types
<1>5. QED
  BY <1>3, <1>4, ChangedRow

LEMMA ShapeGrows ==
  ASSUME NEW t, NEW n \in Nat, NEW m \in Nat, n <= m, NEW cs, NEW ds, cs \subseteq ds, Shape(t, n, cs)
  PROVE  Shape(t, m, ds)
<1>1. GetNewShape(t, n, cs) => GetNewShape(t, m, ds)
  BY DEF GetNewShape
<1>2. UpdateShape(t, n, cs) => UpdateShape(t, m, ds)
  BY DEF UpdateShape
<1>3. t.old \in 0 .. m /\ t.new \in 0 .. m
  BY DEF Shape
<1>4. QED
  BY <1>1, <1>2, <1>3 DEF Shape

\* What the step of a handler does to the tables, at most.
Tables(r) ==
  /\ proxies' \in Seq(Rows) /\ Len(proxies') \in Nat /\ Len(proxies) \in Nat /\ Len(proxies) <= Len(proxies')
  /\ \A p \in 1 .. Len(proxies) : proxies'[p].url = proxies[p].url /\ proxies'[p].by = proxies[p].by
  /\ clients' \subseteq Clients /\ clients \subseteq clients'
  /\ rows' \in RowBags /\ counter' \in Nat
  /\ met' \subseteq SUBSET Requests /\ met \subseteq met'
  /\ DOMAIN before' = Requests
  /\ RowsPoint'

\* No table changes.
Quiet == UNCHANGED <<proxies, clients, rows, counter, met, before>>

LEMMA QuietTables ==
  ASSUME Base, NEW r \in Requests, Quiet
  PROVE  Tables(r)
BY LenProperties DEF Base, Types, RowsPoint, Tables, Quiet

LEMMA BaseIf ==
  ASSUME Base, NEW r \in Requests, Local(r), Tables(r), Shape(req'[r], Len(proxies'), clients'),
         Running(r) \/ \A s \in Requests : Running(s) => {r, s} \in met'
  PROVE  Base'
<1>1. Types'
  BY DEF Base, Types, Local, Tables
<1>2. ASSUME NEW s \in Requests
      PROVE  Shape(req[s], Len(proxies), clients)'
  <2>1. CASE s = r
    BY <2>1
  <2>2. CASE s # r
    <3>1. req'[s] = req[s]
      BY <2>2 DEF Local
    <3>2. Shape(req[s], Len(proxies), clients)
      BY DEF Base, Shapes
    <3>3. Shape(req[s], Len(proxies'), clients')
      BY <3>2, ShapeGrows DEF Tables
    <3>4. QED
      BY <3>1, <3>3
  <2>3. QED
    BY <2>1, <2>2
<1>3. Shapes'
  BY <1>2 DEF Shapes
<1>4. ASSUME NEW a \in Requests, NEW b \in Requests, a # b, Running(a)', Running(b)'
      PROVE  {a, b} \in met'
  <2>1. a # r /\ b # r => {a, b} \in met
    <3>1. a # r /\ b # r => Running(a) /\ Running(b)
      BY <1>4 DEF Local, Running
    <3>2. QED
      BY <1>4, <3>1 DEF Base, Meet
  <2>2. a = r => {a, b} \in met'
    <3>1. a = r => Running(b)
      BY <1>4 DEF Local, Running
    <3>2. QED
      BY <1>4, <3>1 DEF Base, Meet, Tables
  <2>3. b = r => {a, b} \in met'
    <3>1. b = r => Running(a)
      BY <1>4 DEF Local, Running
    <3>2. {a, b} = {b, a}
      OBVIOUS
    <3>3. QED
      BY <1>4, <3>1, <3>2 DEF Base, Meet, Tables
  <2>4. QED
    BY <2>1, <2>2, <2>3 DEF Tables
<1>5. Meet'
  BY <1>4 DEF Meet
<1>6. QED
  BY <1>1, <1>3, <1>5 DEF Base, Tables

\* The kind of a handler's call says how far it can be.
LEMMA ShapeOf ==
  ASSUME Base, NEW r \in Requests
  PROVE  /\ Shape(req[r], Len(proxies), clients) /\ Len(proxies) \in Nat
         /\ req[r].call.kind = "getnew" => GetNewShape(req[r], Len(proxies), clients)
         /\ req[r].call.kind = "update" => UpdateShape(req[r], Len(proxies), clients)
         /\ req[r].old \in 0 .. Len(proxies) /\ req[r].new \in 0 .. Len(proxies)
         /\ req[r].pc = "idle" => req[r].call.kind = "none" /\ req[r].i = 1
<1>1. Shape(req[r], Len(proxies), clients) /\ Len(proxies) \in Nat
  BY LenProperties DEF Base, Types, Shapes
<1>2. req[r].pc = "idle" => req[r].call.kind = "none" /\ req[r].i = 1
  BY <1>1 DEF Shape, GetNewShape, UpdateShape
<1>3. QED
  BY <1>1, <1>2 DEF Shape

\* What the handler found by its kind and place stays true of the rows it holds.
LEMMA ArriveBase ==
  ASSUME Base, NEW r \in Requests, Arrive(r)
  PROVE  Base' /\ Tables(r)
<1>1. Types
  BY DEF Base
<1> USE <1>1
<1>2. Tables(r)
  <2>1. /\ UNCHANGED <<proxies, clients, rows, counter>>
        /\ met' = met \cup {{r, s} : s \in {q \in Requests : Running(q)}}
        /\ before' = [before EXCEPT ![r] = [p \in DOMAIN proxies |-> ClientsOf(p)]]
    BY ArriveIs
  <2>2. met' \subseteq SUBSET Requests /\ met \subseteq met' /\ DOMAIN before' = Requests
    BY <2>1 DEF Types
  <2>3. QED
    BY <2>1, <2>2, LenProperties DEF Base, Types, Tables, RowsPoint
<1>3. \A s \in Requests : Running(s) => {r, s} \in met'
  BY ArriveIs
<1>4. Shape(req'[r], Len(proxies'), clients')
  <2>1. /\ req'[r].call \in Calls /\ req'[r].pc = "begin" /\ req'[r].old = req[r].old /\ req'[r].new = req[r].new
        /\ req'[r].i = req[r].i /\ req[r].pc = "idle" /\ UNCHANGED <<proxies, clients>>
    BY ArriveIs DEF KeepsRows, KeepsPlace
  <2>2. req'[r].call.kind \in {"getnew", "update", "getid", "reset"}
    BY <2>1, Constants DEF CallTypes
  <2>3. req'[r].old \in 0 .. Len(proxies') /\ req'[r].new \in 0 .. Len(proxies')
    BY <2>1, ShapeOf
  <2>4. req'[r].i = 1
    BY <2>1, ShapeOf
  <2>5. QED
    BY <2>1, <2>2, <2>3, <2>4 DEF Shape, GetNewShape, UpdateShape
<1>5. Local(r)
  BY ArriveIs
<1>6. QED
  BY <1>2, <1>3, <1>4, <1>5, BaseIf

\* The step of a handler that knows its call.
LEMMA MovesBase ==
  ASSUME Base, NEW r \in Requests, Running(r), Local(r), KeepsCall(r), Tables(r),
         req'[r].old \in 0 .. Len(proxies'), req'[r].new \in 0 .. Len(proxies'),
         \/ req[r].call.kind = "getnew" /\ GetNewShape(req'[r], Len(proxies'), clients')
         \/ req[r].call.kind = "update" /\ UpdateShape(req'[r], Len(proxies'), clients')
         \/ req[r].call.kind = "getid" /\ req'[r].pc \in {"begin", "count", "answered"}
         \/ req[r].call.kind = "reset" /\ req'[r].pc \in {"begin", "answered"}
  PROVE  Base'
<1>1. Shape(req'[r], Len(proxies'), clients')
  BY DEF Shape, KeepsCall
<1>2. QED
  BY <1>1, BaseIf

LEMMA FailsBase ==
  ASSUME Base, NEW r \in Requests, Running(r), Only(r, "failed"), Tables(r),
         req[r].call.kind \in {"getnew", "update"}
  PROVE  Base'
<1>1. GetNewShape(req'[r], Len(proxies'), clients') /\ UpdateShape(req'[r], Len(proxies'), clients')
  BY DEF GetNewShape, UpdateShape, Only
<1>2. req'[r].old \in 0 .. Len(proxies') /\ req'[r].new \in 0 .. Len(proxies')
  BY ShapeOf DEF Only, KeepsRows, Tables
<1>3. QED
  BY <1>1, <1>2, MovesBase DEF Only

LEMMA FindClientBase ==
  ASSUME Base, NEW r \in Requests, FindClient(r)
  PROVE  Base' /\ Tables(r)
<1>1. At(r, "getnew", "begin") /\ (Only(r, "failed") \/ Only(r, "create")) /\ Quiet
  BY FindClientIs DEF Base, Quiet, history
<1>2. Tables(r) /\ Running(r)
  BY <1>1, QuietTables DEF Running, At
<1>3. CASE Only(r, "failed")
  BY <1>1, <1>2, <1>3, FailsBase DEF At
<1>4. CASE Only(r, "create")
  <2>1. GetNewShape(req'[r], Len(proxies'), clients')
    BY <1>4 DEF Only, GetNewShape
  <2>2. QED
    BY <1>1, <1>2, <1>4, <2>1, ShapeOf, MovesBase DEF Only, KeepsRows, Tables, At
<1>5. QED
  BY <1>1, <1>2, <1>3, <1>4

LEMMA CreateClientBase ==
  ASSUME Base, NEW r \in Requests, CreateClient(r)
  PROVE  Base' /\ Tables(r)
<1>1. /\ At(r, "getnew", "create") /\ (Only(r, "failed") \/ Only(r, "choose"))
      /\ clients' = clients \cup {req[r].call.client}
      /\ UNCHANGED <<proxies, rows, counter, met, before>>
  BY CreateClientIs DEF Base, history
<1>2. req[r].call.client \in Clients
  BY <1>1, HandlerFields, CallFields DEF At, Base
<1>3. Tables(r) /\ Running(r)
  BY <1>1, <1>2, LenProperties DEF Running, At, Base, Types, RowsPoint, Tables
<1>4. CASE Only(r, "failed")
  BY <1>1, <1>3, <1>4, FailsBase DEF At
<1>5. CASE Only(r, "choose")
  <2>1. GetNewShape(req'[r], Len(proxies'), clients')
    BY <1>1, <1>5 DEF Only, GetNewShape, KeepsCall
  <2>2. QED
    BY <1>1, <1>3, <1>5, <2>1, ShapeOf, MovesBase DEF Only, KeepsRows, Tables, At
<1>6. QED
  BY <1>1, <1>3, <1>4, <1>5

LEMMA ChooseBase ==
  ASSUME Base, NEW r \in Requests, Choose(r)
  PROVE  Base' /\ Tables(r)
<1>1. At(r, "getnew", "choose") /\ (Only(r, "failed") \/ Chosen(r)) /\ Quiet
  BY ChooseIs DEF Base, Quiet, history
<1>2. Tables(r) /\ Running(r)
  BY <1>1, QuietTables DEF Running, At
<1>3. CASE Only(r, "failed")
  BY <1>1, <1>2, <1>3, FailsBase DEF At
<1>4. CASE Chosen(r)
  <2>1. /\ req'[r].pc = "assign" /\ KeepsCall(r) /\ req'[r].old = req[r].old /\ Local(r)
        /\ req'[r].new \in DOMAIN proxies /\ req'[r].read = proxies[req'[r].new].room /\ req'[r].read > 0
    BY <1>4 DEF Chosen
  <2>2. req'[r].new \in 1 .. Len(proxies) /\ req'[r].read \in 1 .. Capacity
    BY <2>1, ProxyRow, Constants DEF Base
  <2>3. req[r].call.client \in clients
    BY <1>1, ShapeOf DEF At, GetNewShape
  <2>4. GetNewShape(req'[r], Len(proxies'), clients')
    BY <1>1, <2>1, <2>2, <2>3 DEF GetNewShape, KeepsCall, Quiet
  <2>5. req'[r].old \in 0 .. Len(proxies') /\ req'[r].new \in 0 .. Len(proxies')
    BY <1>1, <2>1, <2>2, ShapeOf DEF Quiet
  <2>6. QED
    BY <1>1, <1>2, <2>1, <2>4, <2>5, MovesBase DEF At
<1>5. QED
  BY <1>1, <1>2, <1>3, <1>4

LEMMA AssignBase ==
  ASSUME Base, NEW r \in Requests, Assign(r)
  PROVE  Base' /\ Tables(r)
<1>1. /\ At(r, "getnew", "assign")
      /\ \/ Only(r, "failed") /\ rows' = rows
         \/ /\ Only(r, "save") /\ proxies[req[r].new].there
            /\ rows' = rows (+) SetToBag({<<req[r].new, req[r].call.client>>})
      /\ UNCHANGED <<proxies, clients, counter, met, before>>
  BY AssignIs DEF Base, history
<1>2. Running(r)
  BY <1>1 DEF Running, At
<1>3. CASE Only(r, "failed") /\ rows' = rows
  <2>1. Tables(r)
    BY <1>1, <1>3, QuietTables DEF Quiet
  <2>2. QED
    BY <1>1, <1>2, <1>3, <2>1, FailsBase DEF At
<1>4. CASE /\ Only(r, "save") /\ proxies[req[r].new].there
           /\ rows' = rows (+) SetToBag({<<req[r].new, req[r].call.client>>})
  <2>1. req[r].call.client \in clients /\ req[r].new \in 1 .. Len(proxies) /\ req[r].read \in 1 .. Capacity
    BY <1>1, ShapeOf DEF At, GetNewShape
  <2>2. req[r].call.client \in Clients /\ req[r].new \in Nat
    BY <2>1 DEF Base, Types
  <2>3. PICK x : x = <<req[r].new, req[r].call.client>>
    OBVIOUS
  <2>4. x \in Nat \X Clients /\ x[1] = req[r].new /\ x[2] = req[r].call.client
    BY <2>2, <2>3
  <2>5. rows' \in RowBags /\ DOMAIN rows' = DOMAIN rows \cup {x}
    BY <1>4, <2>3, <2>4, OneMore DEF Base, Types
  <2>6. RowsPoint'
    BY <1>1, <1>4, <2>1, <2>4, <2>5 DEF Base, RowsPoint
  <2>7. Tables(r)
    BY <1>1, <2>5, <2>6, LenProperties DEF Base, Types, Tables
  <2>8. GetNewShape(req'[r], Len(proxies'), clients')
    BY <1>1, <1>4, <2>1 DEF Only, GetNewShape, KeepsCall, KeepsRows, KeepsRead
  <2>9. QED
    BY <1>1, <1>2, <1>4, <2>7, <2>8, ShapeOf, MovesBase DEF Only, KeepsRows, At
<1>5. QED
  BY <1>1, <1>3, <1>4

LEMMA SaveBase ==
  ASSUME Base, NEW r \in Requests, Save(r)
  PROVE  Base' /\ Tables(r)
<1>1. /\ At(r, "getnew", "save") /\ Only(r, "answered")
      /\ proxies' = [proxies EXCEPT ![req[r].new].room = req[r].read - 1, ![req[r].new].there = TRUE]
      /\ UNCHANGED <<clients, rows, counter, met, before>>
  BY SaveIs DEF Base, history
<1>2. Running(r)
  BY <1>1 DEF Running, At
<1>3. req[r].call.client \in clients /\ req[r].new \in 1 .. Len(proxies) /\ req[r].read \in 1 .. Capacity
  BY <1>1, ShapeOf DEF At, GetNewShape
<1>4. req[r].read - 1 \in 0 .. Capacity
  BY <1>3, Constants
<1>5. /\ proxies' \in Seq(Rows) /\ Len(proxies') = Len(proxies)
      /\ \A p \in 1 .. Len(proxies) : p # req[r].new => proxies'[p] = proxies[p]
      /\ proxies'[req[r].new].there
      /\ proxies'[req[r].new].url = proxies[req[r].new].url /\ proxies'[req[r].new].by = proxies[req[r].new].by
  BY <1>1, <1>3, <1>4, SavedRow DEF Base
<1>6. RowsPoint'
  BY <1>1, <1>5 DEF Base, RowsPoint
<1>7. Tables(r)
  BY <1>1, <1>5, <1>6, LenProperties DEF Base, Types, Tables
<1>8. GetNewShape(req'[r], Len(proxies'), clients')
  BY <1>1, <1>3, <1>5 DEF Only, GetNewShape, KeepsCall, KeepsRows, KeepsRead
<1>9. QED
  BY <1>1, <1>2, <1>5, <1>7, <1>8, ShapeOf, MovesBase DEF Only, KeepsRows, At

\* A row that the handler appends.
LEMMA AddedTables ==
  ASSUME Base, NEW r \in Requests, NEW u \in STRING, proxies' = Append(proxies, Row(u, r)),
         UNCHANGED <<clients, rows, counter, met, before>>
  PROVE  /\ Tables(r) /\ Len(proxies') = Len(proxies) + 1 /\ proxies'[Len(proxies) + 1] = Row(u, r)
         /\ \A p \in 1 .. Len(proxies) : proxies'[p] = proxies[p]
<1>1. /\ proxies' \in Seq(Rows) /\ Len(proxies') = Len(proxies) + 1
      /\ \A p \in 1 .. Len(proxies) : proxies'[p] = proxies[p]
      /\ proxies'[Len(proxies) + 1] = Row(u, r)
  BY NewRow DEF Base
<1>2. Len(proxies) \in Nat
  BY LenProperties DEF Base, Types
<1>3. RowsPoint'
  BY <1>1, <1>2 DEF Base, RowsPoint
<1>4. Len(proxies') \in Nat /\ Len(proxies) <= Len(proxies')
  BY <1>1, <1>2
<1>5. \A p \in 1 .. Len(proxies) : proxies'[p].url = proxies[p].url /\ proxies'[p].by = proxies[p].by
  BY <1>1
<1>6. Tables(r)
  BY <1>1, <1>2, <1>3, <1>4, <1>5 DEF Base, Types, Tables
<1>7. QED
  BY <1>1, <1>6

LEMMA PostBase ==
  ASSUME Base, NEW r \in Requests, Post(r)
  PROVE  Base' /\ Tables(r)
<1>1. /\ At(r, "update", "begin") /\ Quiet
      /\ \/ Only(r, "failed")
         \/ Only(r, "add") /\ req[r].call.olds = <<>> /\ req[r].call.news # <<>>
         \/ Only(r, "remove") /\ req[r].call.olds # <<>> /\ req[r].call.news = <<>>
         \/ /\ Only(r, "swap") /\ req[r].call.olds # <<>> /\ req[r].call.news # <<>>
            /\ Len(req[r].call.olds) = Len(req[r].call.news)
  BY PostIs DEF Base, Quiet, history
<1>2. Tables(r) /\ Running(r)
  BY <1>1, QuietTables DEF Running, At
<1>3. CASE Only(r, "failed")
  BY <1>1, <1>2, <1>3, FailsBase DEF At
<1>4. CASE ~Only(r, "failed")
  <2>1. req[r].i = 1
    BY <1>1, ShapeOf DEF At, UpdateShape
  <2>2. req[r].call.olds \in Seq(STRING) /\ req[r].call.news \in Seq(STRING)
    BY <1>1, HandlerFields, CallFields DEF At, Base
  <2>3. /\ req[r].call.olds # <<>> => 1 \in 1 .. Len(req[r].call.olds)
        /\ req[r].call.news # <<>> => 1 \in 1 .. Len(req[r].call.news)
    BY <2>2, EmptySeq, LenProperties
  <2>4. Local(r) /\ KeepsCall(r) /\ KeepsRows(r) /\ req'[r].i = 1
    BY <1>1, <2>1 DEF Only, KeepsPlace
  <2>5. UpdateShape(req'[r], Len(proxies'), clients')
    BY <1>1, <1>4, <2>3, <2>4 DEF Only, UpdateShape, KeepsCall
  <2>6. QED
    BY <1>1, <1>2, <2>4, <2>5, ShapeOf, MovesBase DEF KeepsRows, At, Quiet
<1>5. QED
  BY <1>3, <1>4

\* The element of the list that the handler is at.
LEMMA UrlOf ==
  ASSUME Base, NEW r \in Requests, req[r].call.kind = "update"
  PROVE  /\ Len(req[r].call.olds) \in Nat /\ Len(req[r].call.news) \in Nat
         /\ req[r].i \in 1 .. Len(req[r].call.olds) => OldUrl(r) \in STRING
         /\ req[r].i \in 1 .. Len(req[r].call.news) => NewUrl(r) \in STRING
<1>1. req[r].call.olds \in Seq(STRING) /\ req[r].call.news \in Seq(STRING)
  BY HandlerFields, CallFields DEF Base
<1>2. QED
  BY <1>1, LenProperties, ElementOfSeq DEF OldUrl, NewUrl

LEMMA AddBase ==
  ASSUME Base, NEW r \in Requests, Add(r)
  PROVE  /\ Base' /\ Tables(r) /\ Len(proxies') = Len(proxies) + 1
         /\ proxies'[Len(proxies) + 1] = Row(NewUrl(r), r) /\ NewUrl(r) \in STRING
         /\ \A p \in 1 .. Len(proxies) : proxies'[p] = proxies[p]
<1>1. /\ At(r, "update", "add")
      /\ Advances(r, "add", Len(req[r].call.news))
      /\ proxies' = Append(proxies, Row(NewUrl(r), r))
      /\ UNCHANGED <<clients, rows, counter, met, before>>
  BY AddIs DEF Base, history
<1>2. req[r].call.olds = <<>> /\ req[r].i \in 1 .. Len(req[r].call.news)
  BY <1>1, ShapeOf DEF At, UpdateShape
<1>3. NewUrl(r) \in STRING /\ Len(req[r].call.news) \in Nat
  BY <1>1, <1>2, UrlOf DEF At
<1>4. /\ Tables(r) /\ Len(proxies') = Len(proxies) + 1
      /\ proxies'[Len(proxies) + 1] = Row(NewUrl(r), r)
      /\ \A p \in 1 .. Len(proxies) : proxies'[p] = proxies[p]
  BY <1>1, <1>3, AddedTables
<1>5. UpdateShape(req'[r], Len(proxies'), clients')
  <2>1. req'[r].call.olds = <<>> /\ req'[r].call.news = req[r].call.news
    BY <1>1, <1>2 DEF Advances, KeepsCall
  <2>2. CASE req[r].i < Len(req[r].call.news) /\ req'[r].i = req[r].i + 1 /\ req'[r].pc = "add"
    <3>1. req'[r].i \in 1 .. Len(req'[r].call.news)
      BY <1>2, <1>3, <2>1, <2>2
    <3>2. QED
      BY <2>1, <2>2, <3>1 DEF UpdateShape
  <2>3. CASE req'[r].pc = "answered"
    BY <2>3 DEF UpdateShape
  <2>4. QED
    BY <1>1, <2>2, <2>3 DEF Advances
<1>6. Local(r) /\ KeepsCall(r) /\ KeepsRows(r)
  BY <1>1 DEF Advances
<1>7. req'[r].old \in 0 .. Len(proxies') /\ req'[r].new \in 0 .. Len(proxies')
  BY <1>4, <1>6, ShapeOf DEF KeepsRows
<1>8. Base'
  BY <1>1, <1>4, <1>5, <1>6, <1>7, MovesBase DEF At, Running
<1>9. QED
  BY <1>3, <1>4, <1>8

LEMMA GetOldBase ==
  ASSUME Base, NEW r \in Requests,
         GetOld(r, "remove", "delete") \/ GetOld(r, "swap", "get")
  PROVE  Base' /\ Tables(r)
<1>1. "delete" \in Pcs /\ "get" \in Pcs
  BY DEF Pcs
<1>2. /\ Quiet
      /\ \/ At(r, "update", "remove") /\ (Only(r, "failed") \/ FoundOld(r, "delete"))
         \/ At(r, "update", "swap") /\ (Only(r, "failed") \/ FoundOld(r, "get"))
  BY <1>1, GetOldIs DEF Base, Quiet, history
<1>3. Tables(r) /\ Running(r) /\ req[r].call.kind = "update"
  BY <1>2, QuietTables DEF Running, At
<1>4. CASE Only(r, "failed")
  BY <1>3, <1>4, FailsBase
<1>5. CASE ~Only(r, "failed")
  <2>1. Named(OldUrl(r)) = {req'[r].old}
    BY <1>2, <1>5 DEF FoundOld
  <2>2. req'[r].old \in 1 .. Len(proxies)
    BY <2>1, ProxyRow DEF Named, Base
  <2>3. Local(r) /\ KeepsCall(r) /\ req'[r].i = req[r].i /\ req'[r].new = req[r].new
    BY <1>2, <1>5 DEF FoundOld, KeepsPlace
  <2>4. UpdateShape(req'[r], Len(proxies'), clients')
    BY <1>2, <1>3, <1>5, <2>2, <2>3, ShapeOf DEF FoundOld, At, UpdateShape, KeepsCall, Quiet
  <2>5. QED
    BY <1>2, <1>3, <2>2, <2>3, <2>4, ShapeOf, MovesBase DEF Quiet
<1>6. QED
  BY <1>4, <1>5, <1>3

LEMMA DeleteBase ==
  ASSUME Base, NEW r \in Requests, Delete(r)
  PROVE  Base' /\ Tables(r)
<1>1. /\ At(r, "update", "delete")
      /\ Advances(r, "remove", Len(req[r].call.olds))
      /\ proxies' = [proxies EXCEPT ![req[r].old].there = FALSE]
      /\ rows' = [x \in {y \in DOMAIN rows : y[1] # req[r].old} |-> rows[x]]
      /\ UNCHANGED <<clients, counter, met, before>>
  BY DeleteIs DEF Base, history
<1>2. /\ req[r].call.news = <<>> /\ req[r].i \in 1 .. Len(req[r].call.olds) /\ req[r].old \in 1 .. Len(proxies)
      /\ Len(req[r].call.olds) \in Nat
  BY <1>1, ShapeOf, UrlOf DEF At, UpdateShape
<1>3. /\ proxies' \in Seq(Rows) /\ Len(proxies') = Len(proxies)
      /\ \A p \in 1 .. Len(proxies) : p # req[r].old => proxies'[p] = proxies[p]
      /\ proxies'[req[r].old].url = proxies[req[r].old].url /\ proxies'[req[r].old].by = proxies[req[r].old].by
  BY <1>1, <1>2, DeletedRow DEF Base
<1>4. rows' \in RowBags /\ DOMAIN rows' = {y \in DOMAIN rows : y[1] # req[r].old}
  <2>1. {y \in DOMAIN rows : y[1] # req[r].old} \subseteq DOMAIN rows
    OBVIOUS
  <2>2. QED
    BY <1>1, <2>1, PartOfBag DEF Base, Types
<1>5. RowsPoint'
  BY <1>1, <1>3, <1>4 DEF Base, RowsPoint
<1>6. Tables(r)
  BY <1>1, <1>3, <1>4, <1>5, LenProperties DEF Base, Types, Tables
<1>7. UpdateShape(req'[r], Len(proxies'), clients')
  BY <1>1, <1>2 DEF Advances, UpdateShape, KeepsCall
<1>8. QED
  BY <1>1, <1>3, <1>6, <1>7, ShapeOf, MovesBase DEF Advances, KeepsRows, At, Running

LEMMA GetNewBase ==
  ASSUME Base, NEW r \in Requests, GetNew(r)
  PROVE  Base' /\ Tables(r)
<1>1. /\ At(r, "update", "get") /\ Quiet
      /\ \/ Only(r, "failed")
         \/ Only(r, "insert")
         \/ FoundNew(r) /\ Named(NewUrl(r)) = {req'[r].new}
  BY GetNewIs DEF Base, Quiet, history
<1>2. Tables(r) /\ Running(r)
  BY <1>1, QuietTables DEF Running, At
<1>3. CASE Only(r, "failed")
  BY <1>1, <1>2, <1>3, FailsBase DEF At
<1>4. CASE Only(r, "insert")
  <2>1. UpdateShape(req'[r], Len(proxies'), clients')
    BY <1>1, <1>4, ShapeOf DEF At, Only, UpdateShape, KeepsCall, KeepsPlace, KeepsRows, Quiet
  <2>2. QED
    BY <1>1, <1>2, <1>4, <2>1, ShapeOf, MovesBase DEF At, Only, KeepsRows, Quiet
<1>5. CASE FoundNew(r) /\ Named(NewUrl(r)) = {req'[r].new}
  <2>1. req'[r].new \in 1 .. Len(proxies)
    BY <1>5, ProxyRow DEF Named, Base
  <2>2. UpdateShape(req'[r], Len(proxies'), clients')
    BY <1>1, <1>5, <2>1, ShapeOf DEF At, FoundNew, UpdateShape, KeepsCall, KeepsPlace, Quiet
  <2>3. QED
    BY <1>1, <1>2, <1>5, <2>1, <2>2, ShapeOf, MovesBase DEF At, FoundNew, Quiet
<1>6. QED
  BY <1>1, <1>2, <1>3, <1>4, <1>5

LEMMA InsertBase ==
  ASSUME Base, NEW r \in Requests, Insert(r)
  PROVE  /\ Base' /\ Tables(r) /\ Len(proxies') = Len(proxies) + 1
         /\ proxies'[Len(proxies) + 1] = Row(NewUrl(r), r) /\ NewUrl(r) \in STRING
         /\ \A p \in 1 .. Len(proxies) : proxies'[p] = proxies[p]
<1>1. /\ At(r, "update", "insert")
      /\ FoundNew(r) /\ req'[r].new = Len(proxies) + 1
      /\ proxies' = Append(proxies, Row(NewUrl(r), r))
      /\ UNCHANGED <<clients, rows, counter, met, before>>
  BY InsertIs DEF Base, history
<1>2. /\ req[r].call.news # <<>> /\ Len(req[r].call.olds) = Len(req[r].call.news)
      /\ req[r].i \in 1 .. Len(req[r].call.olds) /\ req[r].old \in 1 .. Len(proxies) /\ Len(proxies) \in Nat
  BY <1>1, ShapeOf DEF At, UpdateShape
<1>3. NewUrl(r) \in STRING
  BY <1>1, <1>2, UrlOf DEF At
<1>4. /\ Tables(r) /\ Len(proxies') = Len(proxies) + 1
      /\ proxies'[Len(proxies) + 1] = Row(NewUrl(r), r)
      /\ \A p \in 1 .. Len(proxies) : proxies'[p] = proxies[p]
  BY <1>1, <1>3, AddedTables
<1>5. req'[r].new \in 1 .. Len(proxies') /\ req'[r].old \in 1 .. Len(proxies')
  BY <1>1, <1>2, <1>4 DEF FoundNew
<1>6. UpdateShape(req'[r], Len(proxies'), clients')
  BY <1>1, <1>2, <1>5 DEF FoundNew, UpdateShape, KeepsCall, KeepsPlace
<1>7. Base'
  BY <1>1, <1>4, <1>5, <1>6, MovesBase DEF At, Running, FoundNew
<1>8. QED
  BY <1>3, <1>4, <1>7

LEMMA ReadBase ==
  ASSUME Base, NEW r \in Requests, Read(r)
  PROVE  Base' /\ Tables(r)
<1>1. /\ At(r, "update", "read") /\ Quiet
      /\ Local(r) /\ req'[r].pc = "copy" /\ KeepsCall(r) /\ KeepsPlace(r) /\ KeepsRows(r)
      /\ DOMAIN req'[r].todo = {y \in DOMAIN rows : y[1] = req[r].old}
  BY ReadIs DEF Base, Quiet, history
<1>2. Tables(r) /\ Running(r)
  BY <1>1, QuietTables DEF Running, At
<1>3. \A x \in DOMAIN req'[r].todo : x[2] \in clients
  BY <1>1 DEF Base, RowsPoint
<1>4. UpdateShape(req'[r], Len(proxies'), clients')
  BY <1>1, <1>3, ShapeOf DEF At, UpdateShape, KeepsCall, KeepsPlace, KeepsRows, Quiet
<1>5. QED
  BY <1>1, <1>2, <1>4, ShapeOf, MovesBase DEF At, KeepsRows, Quiet

LEMMA CopyBase ==
  ASSUME Base, NEW r \in Requests, Copy(r)
  PROVE  Base' /\ Tables(r)
<1>1. /\ At(r, "update", "copy")
      /\ \/ Only(r, "failed") /\ rows' = rows
         \/ \E x \in DOMAIN req[r].todo : CopiesRow(r, x)
      /\ UNCHANGED <<proxies, clients, counter, met, before>>
  BY CopyIs DEF Base, history
<1>2. Running(r)
  BY <1>1 DEF Running, At
<1>3. CASE Only(r, "failed") /\ rows' = rows
  <2>1. Tables(r)
    BY <1>1, <1>3, QuietTables DEF Quiet
  <2>2. QED
    BY <1>1, <1>2, <1>3, <2>1, FailsBase DEF At
<1>4. ASSUME NEW x \in DOMAIN req[r].todo, CopiesRow(r, x)
      PROVE  Base' /\ Tables(r)
  <2>1. /\ req[r].new \in 1 .. Len(proxies) /\ x[2] \in clients
        /\ \A y \in DOMAIN req[r].todo : y[2] \in clients
    BY <1>1, ShapeOf DEF At, UpdateShape
  <2>2. x[2] \in Clients /\ req[r].new \in Nat
    BY <2>1 DEF Base, Types
  <2>3. PICK y : y = <<req[r].new, x[2]>>
    OBVIOUS
  <2>4. y \in Nat \X Clients /\ y[1] = req[r].new /\ y[2] = x[2]
    BY <2>2, <2>3
  <2>5. rows' \in RowBags /\ DOMAIN rows' = DOMAIN rows \cup {y}
    BY <1>4, <2>3, <2>4, OneMore DEF Base, Types, CopiesRow
  <2>6. RowsPoint'
    BY <1>1, <1>4, <2>1, <2>4, <2>5 DEF Base, RowsPoint, CopiesRow
  <2>7. Tables(r)
    BY <1>1, <2>5, <2>6, LenProperties DEF Base, Types, Tables
  <2>8. UpdateShape(req'[r], Len(proxies'), clients')
    BY <1>1, <1>4, <2>1, ShapeOf DEF At, CopiesRow, UpdateShape, KeepsCall, KeepsPlace, KeepsRows
  <2>9. QED
    BY <1>1, <1>2, <1>4, <2>7, <2>8, ShapeOf, MovesBase DEF CopiesRow, KeepsRows, At
<1>5. QED
  BY <1>1, <1>3, <1>4

LEMMA TagBase ==
  ASSUME Base, NEW r \in Requests, Tag(r)
  PROVE  Base' /\ Tables(r)
<1>1. /\ At(r, "update", "copy") /\ Quiet
      /\ Only(r, "failed") \/ Advances(r, "swap", Len(req[r].call.olds))
  BY TagIs DEF Base, Quiet, history
<1>2. Tables(r) /\ Running(r)
  BY <1>1, QuietTables DEF Running, At
<1>3. CASE Only(r, "failed")
  BY <1>1, <1>2, <1>3, FailsBase DEF At
<1>4. CASE Advances(r, "swap", Len(req[r].call.olds))
  <2>1. Len(req[r].call.olds) \in Nat
    BY <1>1, UrlOf DEF At
  <2>2. UpdateShape(req'[r], Len(proxies'), clients')
    BY <1>1, <1>4, <2>1, ShapeOf DEF At, Advances, UpdateShape, KeepsCall
  <2>3. QED
    BY <1>1, <1>2, <1>4, <2>2, ShapeOf, MovesBase DEF At, Advances, KeepsRows, Quiet
<1>5. QED
  BY <1>1, <1>2, <1>3, <1>4

LEMMA GetIdBase ==
  ASSUME Base, NEW r \in Requests, GetId(r)
  PROVE  Base' /\ Tables(r)
<1>1. /\ At(r, "getid", "begin") /\ Quiet
      /\ Local(r) /\ req'[r].pc = "count" /\ KeepsCall(r) /\ KeepsRows(r)
  BY GetIdIs DEF Base, Quiet, history
<1>2. Tables(r) /\ Running(r)
  BY <1>1, QuietTables DEF Running, At
<1>3. QED
  BY <1>1, <1>2, ShapeOf, MovesBase DEF At, KeepsRows, Quiet

LEMMA CounterBase ==
  ASSUME Base, NEW r \in Requests, CountId(r) \/ Reset(r)
  PROVE  Base' /\ Tables(r)
<1>1. /\ At(r, "getid", "count") \/ At(r, "reset", "begin")
      /\ Only(r, "answered") /\ counter' \in Nat
      /\ UNCHANGED <<proxies, clients, rows, met, before>>
  BY CountIdIs, ResetIs DEF Base, Types, history
<1>2. Tables(r) /\ Running(r)
  BY <1>1, LenProperties DEF Running, At, Base, Types, RowsPoint, Tables
<1>3. QED
  BY <1>1, <1>2, ShapeOf, MovesBase DEF At, Only, KeepsRows

LEMMA BaseStep ==
  ASSUME Base, NEW r \in Requests, Step(r)
  PROVE  Base' /\ Tables(r)
BY ArriveBase, FindClientBase, CreateClientBase, ChooseBase, AssignBase, SaveBase, PostBase, AddBase,
   GetOldBase, DeleteBase, GetNewBase, InsertBase, ReadBase, CopyBase, TagBase, GetIdBase, CounterBase
   DEF Step

-------------------------------------------------------------------------------
(***************************************************************************)
(* What any step leaves as it was                                          *)
(***************************************************************************)

SomeRemoving == \E s \in Requests : Removing(s)

\* Rows go only when something is being removed.
RowsStay ==
  /\ DOMAIN rows \subseteq DOMAIN rows'
  /\ \A p \in 1 .. Len(proxies) : proxies[p].there => proxies'[p].there

Goes(r) ==
  /\ Local(r) /\ req[r].pc \notin {"answered", "failed"}
  /\ req[r].pc # "idle" => Running(r) /\ KeepsCall(r) /\ UNCHANGED <<met, before>>
  /\ Removing(r) \/ RowsStay

LEMMA MoreRows ==
  ASSUME Base, NEW p \in Nat, NEW c \in Clients, rows' = rows (+) SetToBag({<<p, c>>})
  PROVE  rows' \in RowBags /\ DOMAIN rows' = DOMAIN rows \cup {<<p, c>>}
<1>1. PICK x \in Nat \X Clients : x = <<p, c>>
  OBVIOUS
<1>2. rows (+) SetToBag({x}) \in RowBags /\ DOMAIN (rows (+) SetToBag({x})) = DOMAIN rows \cup {x}
  BY OneMore DEF Base, Types
<1>3. QED
  BY <1>1, <1>2

LEMMA QuietGoes ==
  ASSUME NEW r \in Requests, Quiet, Local(r), KeepsCall(r), req[r].pc \notin {"idle", "answered", "failed"}
  PROVE  Goes(r)
BY DEF Quiet, Goes, Running, RowsStay

LEMMA ArriveGoes ==
  ASSUME Base, NEW r \in Requests, Arrive(r)
  PROVE  Goes(r)
BY ArriveIs DEF Base, Goes, RowsStay

LEMMA GetNewGoes ==
  ASSUME Base, NEW r \in Requests,
         FindClient(r) \/ CreateClient(r) \/ Choose(r) \/ Assign(r) \/ Save(r)
  PROVE  Goes(r)
<1>1. CASE FindClient(r)
  <2>1. At(r, "getnew", "begin") /\ Local(r) /\ KeepsCall(r) /\ Quiet
    BY <1>1, FindClientIs DEF Base, Quiet, history, Only
  <2>2. QED
    BY <2>1, QuietGoes DEF At
<1>2. CASE CreateClient(r)
  <2>1. At(r, "getnew", "create") /\ Local(r) /\ KeepsCall(r) /\ UNCHANGED <<proxies, rows, met, before>>
    BY <1>2, CreateClientIs DEF Base, history, Only
  <2>2. QED
    BY <2>1 DEF At, Goes, Running, RowsStay
<1>3. CASE Choose(r)
  <2>1. At(r, "getnew", "choose") /\ Local(r) /\ KeepsCall(r) /\ Quiet
    BY <1>3, ChooseIs DEF Base, Quiet, history, Only, Chosen
  <2>2. QED
    BY <2>1, QuietGoes DEF At
<1>4. CASE Assign(r)
  <2>1. /\ At(r, "getnew", "assign") /\ Local(r) /\ KeepsCall(r) /\ UNCHANGED <<proxies, met, before>>
        /\ rows' = rows \/ rows' = rows (+) SetToBag({<<req[r].new, req[r].call.client>>})
    BY <1>4, AssignIs DEF Base, history, Only
  <2>2. req[r].call.client \in Clients /\ req[r].new \in Nat
    BY <2>1, HandlerFields, CallFields DEF At, Base
  <2>3. rows' = rows (+) SetToBag({<<req[r].new, req[r].call.client>>}) => DOMAIN rows \subseteq DOMAIN rows'
    BY <2>2, MoreRows
  <2>4. QED
    BY <2>1, <2>3 DEF At, Goes, Running, RowsStay
<1>5. CASE Save(r)
  <2>1. /\ At(r, "getnew", "save") /\ Local(r) /\ KeepsCall(r) /\ UNCHANGED <<rows, met, before>>
        /\ proxies' = [proxies EXCEPT ![req[r].new].room = req[r].read - 1, ![req[r].new].there = TRUE]
    BY <1>5, SaveIs DEF Base, history, Only
  <2>2. req[r].new \in 1 .. Len(proxies) /\ req[r].read - 1 \in 0 .. Capacity
    BY <2>1, ShapeOf, Constants DEF At, GetNewShape
  <2>3. \A p \in 1 .. Len(proxies) : proxies[p].there => proxies'[p].there
    BY <2>1, <2>2, SavedRow DEF Base
  <2>4. QED
    BY <2>1, <2>3 DEF At, Goes, Running, RowsStay
<1>6. QED
  BY <1>1, <1>2, <1>3, <1>4, <1>5

LEMMA UpdateGoes ==
  ASSUME Base, NEW r \in Requests,
         \/ Post(r) \/ Add(r) \/ GetOld(r, "remove", "delete") \/ Delete(r)
         \/ GetOld(r, "swap", "get") \/ GetNew(r) \/ Insert(r) \/ Read(r) \/ Copy(r) \/ Tag(r)
  PROVE  Goes(r)
<1>1. CASE Post(r)
  <2>1. At(r, "update", "begin") /\ Local(r) /\ KeepsCall(r) /\ Quiet
    BY <1>1, PostIs DEF Base, Quiet, history, Only
  <2>2. QED
    BY <2>1, QuietGoes DEF At
<1>2. CASE Add(r)
  <2>1. At(r, "update", "add") /\ Local(r) /\ KeepsCall(r) /\ UNCHANGED <<rows, met, before>>
    BY <1>2, AddIs DEF Base, history, Advances
  <2>2. \A p \in 1 .. Len(proxies) : proxies'[p] = proxies[p]
    BY <1>2, AddBase
  <2>3. QED
    BY <2>1, <2>2 DEF At, Goes, Running, RowsStay
<1>3. CASE GetOld(r, "remove", "delete") \/ GetOld(r, "swap", "get")
  <2>1. "delete" \in Pcs /\ "get" \in Pcs
    BY DEF Pcs
  <2>2. (At(r, "update", "remove") \/ At(r, "update", "swap")) /\ Local(r) /\ KeepsCall(r) /\ Quiet
    BY <1>3, <2>1, GetOldIs DEF Base, Quiet, history, Only, FoundOld
  <2>3. QED
    BY <2>2, QuietGoes DEF At
<1>4. CASE Delete(r)
  <2>1. At(r, "update", "delete") /\ Local(r) /\ KeepsCall(r) /\ UNCHANGED <<met, before>>
    BY <1>4, DeleteIs DEF Base, history, Advances
  <2>2. Removing(r)
    BY <2>1, ShapeOf DEF At, UpdateShape, Removing
  <2>3. QED
    BY <2>1, <2>2 DEF At, Goes, Running
<1>5. CASE GetNew(r)
  <2>1. At(r, "update", "get") /\ Local(r) /\ KeepsCall(r) /\ Quiet
    BY <1>5, GetNewIs DEF Base, Quiet, history, Only, FoundNew
  <2>2. QED
    BY <2>1, QuietGoes DEF At
<1>6. CASE Insert(r)
  <2>1. At(r, "update", "insert") /\ Local(r) /\ KeepsCall(r) /\ UNCHANGED <<rows, met, before>>
    BY <1>6, InsertIs DEF Base, history, FoundNew
  <2>2. \A p \in 1 .. Len(proxies) : proxies'[p] = proxies[p]
    BY <1>6, InsertBase
  <2>3. QED
    BY <2>1, <2>2 DEF At, Goes, Running, RowsStay
<1>7. CASE Read(r)
  <2>1. At(r, "update", "read") /\ Local(r) /\ KeepsCall(r) /\ Quiet
    BY <1>7, ReadIs DEF Base, Quiet, history
  <2>2. QED
    BY <2>1, QuietGoes DEF At
<1>8. CASE Copy(r)
  <2>1. /\ At(r, "update", "copy") /\ Local(r) /\ KeepsCall(r) /\ UNCHANGED <<proxies, met, before>>
        /\ rows' = rows \/ \E x \in DOMAIN req[r].todo : rows' = rows (+) SetToBag({<<req[r].new, x[2]>>})
    BY <1>8, CopyIs DEF Base, history, Only, CopiesRow
  <2>2. ASSUME NEW x \in DOMAIN req[r].todo, rows' = rows (+) SetToBag({<<req[r].new, x[2]>>})
        PROVE  DOMAIN rows \subseteq DOMAIN rows'
    <3>1. x[2] \in Clients /\ req[r].new \in Nat
      BY <2>1, ShapeOf DEF At, UpdateShape, Base, Types
    <3>2. QED
      BY <2>2, <3>1, MoreRows
  <2>3. DOMAIN rows \subseteq DOMAIN rows'
    BY <2>1, <2>2
  <2>4. QED
    BY <2>1, <2>3 DEF At, Goes, Running, RowsStay
<1>9. CASE Tag(r)
  <2>1. At(r, "update", "copy") /\ Local(r) /\ KeepsCall(r) /\ Quiet
    BY <1>9, TagIs DEF Base, Quiet, history, Only, Advances
  <2>2. QED
    BY <2>1, QuietGoes DEF At
<1>10. QED
  BY <1>1, <1>2, <1>3, <1>4, <1>5, <1>6, <1>7, <1>8, <1>9

LEMMA IdGoes ==
  ASSUME Base, NEW r \in Requests, GetId(r) \/ CountId(r) \/ Reset(r)
  PROVE  Goes(r)
<1>1. /\ At(r, "getid", "begin") \/ At(r, "getid", "count") \/ At(r, "reset", "begin")
      /\ Local(r) /\ KeepsCall(r) /\ UNCHANGED <<proxies, rows, met, before>>
  BY GetIdIs, CountIdIs, ResetIs DEF Base, history, Only
<1>2. QED
  BY <1>1 DEF At, Goes, Running, RowsStay

LEMMA AnyGoes ==
  ASSUME Base, NEW r \in Requests, Step(r)
  PROVE  Goes(r) /\ Base' /\ Tables(r)
BY ArriveGoes, GetNewGoes, UpdateGoes, IdGoes, BaseStep DEF Step

\* A removal that was asked for stays one.
LEMMA RemovingStays ==
  ASSUME Base, NEW r \in Requests, Goes(r), NEW s \in Requests, Removing(s)
  PROVE  Removing(s)'
<1>1. req[s].pc # "idle"
  BY ShapeOf DEF Removing
<1>2. req'[s].call = req[s].call
  BY <1>1 DEF Goes, Local, KeepsCall
<1>3. QED
  BY <1>2 DEF Removing

LEMMA SomeRemovingStays ==
  ASSUME Base, NEW r \in Requests, Goes(r)
  PROVE  SomeRemoving => SomeRemoving'
BY RemovingStays DEF SomeRemoving

LEMMA InitBase ==
  ASSUME Init
  PROVE  Base
<1>1. proxies = [p \in 1 .. Len(Setup) |-> Row(Setup[p], ByHand)] /\ Len(Setup) \in Nat
  BY Constants DEF Init
<1>2. \A p \in 1 .. Len(Setup) : Row(Setup[p], ByHand) \in Rows
  BY Constants, ElementOfSeq DEF Row, Rows
<1>3. proxies \in Seq(Rows) /\ Len(proxies) = Len(Setup)
  BY <1>1, <1>2, IsASeq, LenProperties
<1>4. rows \in RowBags /\ DOMAIN rows = {<<1, Old>>}
  <2>1. rows = [e \in {<<1, Old>>} |-> 1]
    BY DEF Init, SetToBag
  <2>2. <<1, Old>> \in Nat \X Clients
    BY Constants
  <2>3. rows \in [{<<1, Old>>} -> Nat \ {0}] /\ {<<1, Old>>} \in SUBSET (Nat \X Clients)
    BY <2>1, <2>2
  <2>4. QED
    BY <2>1, <2>3 DEF RowBags
<1>5. req = [r \in Requests |-> Idle] /\ Idle \in Handlers
  BY NoRows DEF Init, Idle, Handlers, NoCall, Pcs
<1>6. Types
  BY <1>3, <1>4, <1>5, Constants DEF Init, Types
<1>7. RowsPoint
  <2>1. proxies[1].there /\ 1 \in 1 .. Len(proxies)
    BY <1>1, <1>3, Constants DEF Row
  <2>2. PICK x : x = <<1, Old>>
    OBVIOUS
  <2>3. x[1] = 1 /\ x[2] = Old /\ Old \in clients
    BY <2>2 DEF Init
  <2>4. QED
    BY <1>4, <2>1, <2>2, <2>3 DEF RowsPoint
<1>8. \A r \in Requests : req[r].pc = "idle" /\ req[r].call.kind = "none" /\ req[r].i = 1 /\ req[r].old = 0 /\ req[r].new = 0
  BY <1>5 DEF Idle
<1>9. Shapes
  BY <1>3, <1>8 DEF Shapes, Shape
<1>10. Meet
  BY <1>8 DEF Meet, Running
<1>11. QED
  BY <1>6, <1>7, <1>9, <1>10 DEF Base

\* The tables and handlers that stay as they are.
LEMMA StutterBase ==
  ASSUME Base, UNCHANGED vars
  PROVE  Base'
BY DEF Base, Types, RowsPoint, Shapes, Meet, Running, vars

-------------------------------------------------------------------------------
(***************************************************************************)
(* Clients                                                                 *)
(***************************************************************************)

\* A request past the creation of its client, one that has assigned it a proxy, and
\* one that may have left a client row behind.
Created(t) == t.call.kind = "getnew" /\ t.pc \in {"choose", "assign", "save", "answered"}
Told(t) == t.call.kind = "getnew" /\ t.pc \in {"save", "answered"}
Owner(t) == t.call.kind = "getnew" /\ t.pc \in {"choose", "assign", "save", "answered", "failed"}

OneEach ==
  \A r, s \in Requests : Created(req[r]) /\ Created(req[s]) /\ req[r].call.client = req[s].call.client => r = s

ToldOfRow ==
  \A r \in Requests : Told(req[r]) => <<req[r].new, req[r].call.client>> \in DOMAIN rows \/ SomeRemoving

Owned ==
  \A c \in clients :
    \/ c = Old /\ (<<1, Old>> \in DOMAIN rows \/ SomeRemoving)
    \/ \E r \in Requests : Owner(req[r]) /\ req[r].call.client = c

ClientsInv == OneEach /\ ToldOfRow /\ Owned

\* What a step has to do for that.
ClientsIf(r) ==
  /\ Created(req'[r]) => \/ Created(req[r]) /\ KeepsCall(r)
                         \/ req'[r].call.client \notin clients
  /\ Told(req'[r]) => \/ Told(req[r]) /\ KeepsCall(r) /\ KeepsRows(r)
                      \/ <<req'[r].new, req'[r].call.client>> \in DOMAIN rows'
  /\ Owner(req[r]) => Owner(req'[r]) /\ KeepsCall(r)
  /\ \A c \in clients' : c \in clients \/ (Owner(req'[r]) /\ req'[r].call.client = c)

LEMMA CreatedClient ==
  ASSUME Base, NEW s \in Requests, Created(req[s])
  PROVE  req[s].call.client \in clients
BY ShapeOf DEF Created, GetNewShape

LEMMA ClientsFromIf ==
  ASSUME Base, ClientsInv, NEW r \in Requests, Goes(r), ClientsIf(r)
  PROVE  ClientsInv'
<1>1. \A s \in Requests : s # r => req'[s] = req[s]
  BY DEF Goes, Local
<1>2. SomeRemoving => SomeRemoving'
  BY SomeRemovingStays
<1>3. SomeRemoving' \/ DOMAIN rows \subseteq DOMAIN rows'
  BY RemovingStays DEF Goes, RowsStay, SomeRemoving
<1>4. ASSUME NEW a \in Requests, NEW b \in Requests, Created(req'[a]), Created(req'[b]),
             req'[a].call.client = req'[b].call.client, a # b
      PROVE  FALSE
  <2>1. a # r /\ b # r => FALSE
    BY <1>1, <1>4 DEF ClientsInv, OneEach
  <2>2. a = r => FALSE
    <3>1. a = r => Created(req[b]) /\ req'[b] = req[b] /\ req[b].call.client \in clients
      BY <1>1, <1>4, CreatedClient
    <3>2. QED
      BY <1>4, <3>1 DEF ClientsInv, OneEach, ClientsIf, KeepsCall
  <2>3. b = r => FALSE
    <3>1. b = r => Created(req[a]) /\ req'[a] = req[a] /\ req[a].call.client \in clients
      BY <1>1, <1>4, CreatedClient
    <3>2. QED
      BY <1>4, <3>1 DEF ClientsInv, OneEach, ClientsIf, KeepsCall
  <2>4. QED
    BY <2>1, <2>2, <2>3
<1>5. OneEach'
  BY <1>4 DEF OneEach
<1>6. ASSUME NEW s \in Requests, Told(req'[s])
      PROVE  <<req'[s].new, req'[s].call.client>> \in DOMAIN rows' \/ SomeRemoving'
  <2>1. CASE s # r
    BY <1>1, <1>2, <1>3, <1>6, <2>1 DEF ClientsInv, ToldOfRow
  <2>2. CASE s = r
    BY <1>2, <1>3, <1>6, <2>2 DEF ClientsInv, ToldOfRow, ClientsIf, KeepsCall, KeepsRows
  <2>3. QED
    BY <2>1, <2>2
<1>7. ToldOfRow'
  BY <1>6 DEF ToldOfRow
<1>8. ASSUME NEW c \in clients'
      PROVE  \/ c = Old /\ (<<1, Old>> \in DOMAIN rows' \/ SomeRemoving')
             \/ \E s \in Requests : Owner(req'[s]) /\ req'[s].call.client = c
  <2>1. CASE Owner(req'[r]) /\ req'[r].call.client = c
    BY <2>1
  <2>2. CASE c \in clients /\ c = Old /\ (<<1, Old>> \in DOMAIN rows \/ SomeRemoving)
    BY <1>2, <1>3, <2>2
  <2>3. ASSUME NEW s \in Requests, Owner(req[s]), req[s].call.client = c
        PROVE  \E q \in Requests : Owner(req'[q]) /\ req'[q].call.client = c
    <3>1. CASE s = r
      BY <2>3, <3>1 DEF ClientsIf, KeepsCall
    <3>2. CASE s # r
      BY <1>1, <2>3, <3>2
    <3>3. QED
      BY <3>1, <3>2
  <2>4. QED
    BY <2>1, <2>2, <2>3 DEF ClientsInv, Owned, ClientsIf
<1>9. Owned'
  BY <1>8 DEF Owned
<1>10. QED
  BY <1>5, <1>7, <1>9 DEF ClientsInv

LEMMA ClientsStep ==
  ASSUME Base, ClientsInv, NEW r \in Requests, Step(r)
  PROVE  ClientsInv'
<1>1. Goes(r) /\ Base' /\ Tables(r)
  BY AnyGoes
<1>2. CASE Arrive(r)
  <2>1. req'[r].pc = "begin" /\ req[r].pc = "idle" /\ clients' = clients
    BY <1>2, ArriveIs DEF Base
  <2>2. QED
    BY <1>1, <2>1, ClientsFromIf DEF ClientsIf, Created, Told, Owner
<1>3. CASE FindClient(r)
  <2>1. /\ At(r, "getnew", "begin") /\ req'[r].pc \in {"failed", "create"} /\ clients' = clients
    BY <1>3, FindClientIs DEF Base, Only
  <2>2. QED
    BY <1>1, <2>1, ClientsFromIf DEF ClientsIf, Created, Told, Owner, At
<1>4. CASE CreateClient(r)
  <2>1. /\ At(r, "getnew", "create") /\ KeepsCall(r)
        /\ \/ req'[r].pc = "failed" /\ req[r].call.client \in clients
           \/ req'[r].pc = "choose" /\ req[r].call.client \notin clients
        /\ clients' = clients \cup {req[r].call.client}
    BY <1>4, CreateClientIs DEF Base, Only
  <2>2. QED
    BY <1>1, <2>1, ClientsFromIf DEF ClientsIf, Created, Told, Owner, At, KeepsCall
<1>5. CASE Choose(r)
  <2>1. /\ At(r, "getnew", "choose") /\ KeepsCall(r) /\ req'[r].pc \in {"failed", "assign"} /\ clients' = clients
    BY <1>5, ChooseIs DEF Base, Only, Chosen
  <2>2. QED
    BY <1>1, <2>1, ClientsFromIf DEF ClientsIf, Created, Told, Owner, At, KeepsCall
<1>6. CASE Assign(r)
  <2>1. /\ At(r, "getnew", "assign") /\ KeepsCall(r) /\ KeepsRows(r) /\ clients' = clients
        /\ \/ req'[r].pc = "failed"
           \/ /\ req'[r].pc = "save"
              /\ rows' = rows (+) SetToBag({<<req[r].new, req[r].call.client>>})
    BY <1>6, AssignIs DEF Base, Only
  <2>2. req[r].call.client \in Clients /\ req[r].new \in Nat
    BY <2>1, HandlerFields, CallFields DEF At, Base
  <2>3. req'[r].pc = "save" => <<req[r].new, req[r].call.client>> \in DOMAIN rows'
    BY <2>1, <2>2, MoreRows
  <2>4. ClientsIf(r)
    BY <2>1, <2>3 DEF ClientsIf, Created, Told, Owner, At, KeepsCall, KeepsRows
  <2>5. QED
    BY <1>1, <2>4, ClientsFromIf
<1>7. CASE Save(r)
  <2>1. /\ At(r, "getnew", "save") /\ KeepsCall(r) /\ KeepsRows(r) /\ clients' = clients
        /\ req'[r].pc = "answered"
    BY <1>7, SaveIs DEF Base, Only
  <2>2. QED
    BY <1>1, <2>1, ClientsFromIf DEF ClientsIf, Created, Told, Owner, At, KeepsCall
<1>8. CASE req[r].call.kind # "getnew" /\ clients' = clients /\ req[r].pc # "idle"
  <2>1. req'[r].call = req[r].call
    BY <1>1, <1>8 DEF Goes, KeepsCall
  <2>2. QED
    BY <1>1, <1>8, <2>1, ClientsFromIf DEF ClientsIf, Created, Told, Owner
<1>9. CASE \/ Post(r) \/ Add(r) \/ GetOld(r, "remove", "delete") \/ Delete(r)
           \/ GetOld(r, "swap", "get") \/ GetNew(r) \/ Insert(r) \/ Read(r) \/ Copy(r) \/ Tag(r)
           \/ GetId(r) \/ CountId(r) \/ Reset(r)
  <2>1. clients' = clients /\ req[r].call.kind \in {"update", "getid", "reset"} /\ req[r].pc # "idle"
    BY <1>9 DEF Post, Add, GetOld, Delete, GetNew, Insert, Read, Copy, Tag, GetId, CountId, Reset, At
  <2>2. QED
    BY <1>8, <2>1
<1>10. QED
  BY <1>2, <1>3, <1>4, <1>5, <1>6, <1>7, <1>9 DEF Step

\* An assignment, by its fields.
LEMMA RowIn ==
  ASSUME Base
  PROVE  /\ DOMAIN proxies = 1 .. Len(proxies) /\ Len(proxies) \in Nat
         /\ \A p, c : <<p, c>> \in DOMAIN rows => p \in DOMAIN proxies /\ proxies[p].there /\ c \in ClientsOf(p)
         /\ \A p, c : c \in ClientsOf(p) => <<p, c>> \in DOMAIN rows /\ c \in clients
<1>1. DOMAIN proxies = 1 .. Len(proxies) /\ Len(proxies) \in Nat
  BY LenProperties DEF Base, Types
<1>2. ASSUME NEW p, NEW c, <<p, c>> \in DOMAIN rows
      PROVE  p \in DOMAIN proxies /\ proxies[p].there /\ c \in ClientsOf(p)
  <2>1. PICK x : x = <<p, c>>
    OBVIOUS
  <2>2. x[1] = p /\ x[2] = c /\ x \in DOMAIN rows
    BY <1>2, <2>1
  <2>3. p \in 1 .. Len(proxies) /\ proxies[p].there /\ c \in clients
    BY <2>2 DEF Base, RowsPoint
  <2>4. c \in ClientsOf(p)
    BY <1>2, <2>3 DEF ClientsOf, BagIn, BagToSet
  <2>5. QED
    BY <1>1, <2>3, <2>4
<1>3. ASSUME NEW p, NEW c, c \in ClientsOf(p)
      PROVE  <<p, c>> \in DOMAIN rows /\ c \in clients
  BY <1>3 DEF ClientsOf, BagIn, BagToSet
<1>4. QED
  BY <1>1, <1>2, <1>3

LEMMA ClientsFollow ==
  ASSUME Base, ClientsInv
  PROVE  ClientsKept
<1>1. ClientOnce
  BY DEF ClientOnce, Done, ClientsInv, OneEach, Created
<1>2. ASSUME NEW r \in Requests, Told(req[r]), ~SomeRemoving
      PROVE  req[r].call.client \in ClientsOf(req[r].new) /\ req[r].new \in DOMAIN proxies
  <2>1. <<req[r].new, req[r].call.client>> \in DOMAIN rows
    BY <1>2 DEF ClientsInv, ToldOfRow
  <2>2. req[r].call.client \in clients /\ req[r].new \in 1 .. Len(proxies)
    BY <1>2, ShapeOf DEF Told, GetNewShape
  <2>3. req[r].call.client \in ClientsOf(req[r].new)
    BY <2>1, <2>2, RowIn
  <2>4. QED
    BY <2>2, <2>3, RowIn
<1>3. AnsweredIsAssigned
  BY <1>2 DEF AnsweredIsAssigned, Done, Told, SomeRemoving
<1>4. ASSUME NEW c \in clients
      PROVE  \/ \E p \in DOMAIN proxies : c \in ClientsOf(p)
             \/ c = Old /\ SomeRemoving
             \/ \E r \in Requests : /\ req[r].call.kind = "getnew" /\ req[r].call.client = c
                                    /\ \/ Running(r) \/ req[r].pc = "failed"
                                       \/ req[r].new # 0 /\ SomeRemoving
  <2>1. CASE c = Old /\ (<<1, Old>> \in DOMAIN rows \/ SomeRemoving)
    <3>1. <<1, Old>> \in DOMAIN rows => Old \in ClientsOf(1) /\ 1 \in DOMAIN proxies
      BY RowIn
    <3>2. QED
      BY <2>1, <3>1
  <2>2. ASSUME NEW r \in Requests, Owner(req[r]), req[r].call.client = c
        PROVE  \/ \E p \in DOMAIN proxies : c \in ClientsOf(p)
               \/ /\ req[r].call.kind = "getnew" /\ req[r].call.client = c
                  /\ \/ Running(r) \/ req[r].pc = "failed"
                     \/ req[r].new # 0 /\ SomeRemoving
    <3>1. CASE req[r].pc \in {"choose", "assign", "save", "failed"}
      BY <2>2, <3>1 DEF Owner, Running
    <3>2. CASE req[r].pc = "answered" /\ ~SomeRemoving
      BY <1>2, <2>2, <3>2 DEF Owner, Told
    <3>3. CASE req[r].pc = "answered" /\ SomeRemoving
      <4>1. req[r].new # 0
        BY <2>2, <3>3, ShapeOf DEF Owner, GetNewShape
      <4>2. QED
        BY <2>2, <3>3, <4>1 DEF Owner
    <3>4. QED
      BY <2>2, <3>1, <3>2, <3>3 DEF Owner
  <2>3. QED
    BY <2>1, <2>2 DEF ClientsInv, Owned
<1>5. NoClientLeftBare
  BY <1>4 DEF NoClientLeftBare, SomeRemoving
<1>6. QED
  BY <1>1, <1>3, <1>5 DEF ClientsKept

LEMMA InitClients ==
  ASSUME Init
  PROVE  ClientsInv
<1>1. \A r \in Requests : req[r].pc = "idle"
  BY DEF Init, Idle
<1>2. DOMAIN rows = {<<1, Old>>} /\ clients = {Old}
  BY DEF Init, SetToBag
<1>3. QED
  BY <1>1, <1>2 DEF ClientsInv, OneEach, ToldOfRow, Owned, Created, Told

\* A client row stands for one client, answered with the proxy it was assigned to;
\* one without assignments was left by an error or a removal
\* (AssignmentView.get, the primary keys of Client and Assignment).
THEOREM ClientRowsAreKept == Spec => []ClientsKept
<1>1. Init => Base /\ ClientsInv
  BY InitBase, InitClients
<1>2. Base /\ ClientsInv /\ [Next]_vars => (Base /\ ClientsInv)'
  <2>1. ASSUME Base, ClientsInv, NEW r \in Requests, Step(r)
        PROVE  Base' /\ ClientsInv'
    BY <2>1, AnyGoes, ClientsStep
  <2>2. ASSUME Base, ClientsInv, UNCHANGED vars
        PROVE  Base' /\ ClientsInv'
    BY <2>2, StutterBase DEF ClientsInv, OneEach, ToldOfRow, Owned, SomeRemoving, Removing, vars
  <2>3. QED
    BY <2>1, <2>2 DEF Next
<1>3. Base /\ ClientsInv => ClientsKept
  BY ClientsFollow
<1>4. QED
  BY <1>1, <1>2, <1>3, PTL DEF Spec

-------------------------------------------------------------------------------
(***************************************************************************)
(* Places                                                                  *)
(***************************************************************************)

Given(p) == Capacity - proxies[p].room

\* Nobody who was given a place of the proxy met another one who was.
Alone(p) == \A r, s \in Granted(p) : {r, s} \in met => r = s

GivenToSome == \A p \in 1 .. Len(proxies) : Given(p) <= Cardinality(Granted(p))

GivenToOneEach == \A p \in 1 .. Len(proxies) : Alone(p) => Given(p) = Cardinality(Granted(p))

\* What a request that chose a proxy has read of it: no more than was given, and
\* what is there still unless one it has met saved the row since.
Holding(t) == t.call.kind = "getnew" /\ t.pc \in {"assign", "save"}

ReadOf(t, r, p) ==
  /\ Capacity - t.read <= Cardinality(Granted(p))
  /\ t.read = proxies[p].room \/ \E s \in Granted(p) : {r, s} \in met

ReadIsOld == \A r \in Requests, p \in 1 .. Len(proxies) :
               Holding(req[r]) /\ req[r].new = p => ReadOf(req[r], r, p)

CountedIds == counter <= Cardinality({r \in Requests : Done(r, "getid")})

RoomInv == GivenToSome /\ GivenToOneEach /\ ReadIsOld

LEMMA GrantedIs ==
  ASSUME Base, NEW p
  PROVE  /\ IsFiniteSet(Granted(p)) /\ Cardinality(Granted(p)) \in Nat
         /\ p \in 1 .. Len(proxies) => Given(p) \in 0 .. Capacity
         /\ ~(p \in 1 .. Len(proxies)) => Granted(p) = {}
<1>1. Granted(p) \subseteq Requests /\ IsFiniteSet(Requests)
  BY AssignmentsAssumption DEF Granted
<1>2. IsFiniteSet(Granted(p)) /\ Cardinality(Granted(p)) \in Nat
  BY <1>1, FS_Subset, FS_CardinalityType
<1>3. p \in 1 .. Len(proxies) => Given(p) \in 0 .. Capacity
  <2>1. p \in 1 .. Len(proxies) => proxies[p].room \in 0 .. Capacity
    BY ProxyRow, RowIn DEF Base
  <2>2. QED
    BY <2>1, Constants DEF Given
<1>4. \A r \in Granted(p) : p \in 1 .. Len(proxies)
  BY ShapeOf DEF Granted, Done, GetNewShape
<1>5. QED
  BY <1>2, <1>3, <1>4

\* A step that gives no place.
LEMMA NoPlaceGiven ==
  ASSUME Base, Base', RoomInv, NEW r \in Requests, Goes(r), Tables(r), ~Done(r, "getnew")',
         \A p \in 1 .. Len(proxies) : proxies'[p].room = proxies[p].room,
         \A p \in 1 .. Len(proxies') : p \notin 1 .. Len(proxies) => proxies'[p].room = Capacity,
         Holding(req'[r]) => \/ Holding(req[r]) /\ KeepsRows(r) /\ KeepsRead(r)
                             \/ req'[r].new \in 1 .. Len(proxies) /\ req'[r].read = proxies[req'[r].new].room
  PROVE  RoomInv'
<1>1. /\ \A s \in Requests : s # r => req'[s] = req[s]
      /\ ~Done(r, "getnew") /\ met \subseteq met'
  BY DEF Goes, Local, Done, Tables
<1>2. ASSUME NEW p
      PROVE  Granted(p)' = Granted(p)
  BY <1>1 DEF Granted, Done
<1>3. ASSUME NEW p \in 1 .. Len(proxies), p \in 1 .. Len(proxies')
      PROVE  Given(p)' = Given(p) /\ (Alone(p)' => Alone(p))
  BY <1>1, <1>2 DEF Given, Alone
<1>4. ASSUME NEW p \in 1 .. Len(proxies'), p \notin 1 .. Len(proxies)
      PROVE  Given(p)' = 0 /\ Cardinality(Granted(p))' = 0
  <2>1. Granted(p)' = {}
    BY <1>2, <1>4, GrantedIs
  <2>2. QED
    BY <1>4, <2>1, FS_EmptySet, Constants DEF Given
<1>5. GivenToSome'
  <2>1. ASSUME NEW p \in 1 .. Len(proxies')
        PROVE  Given(p)' <= Cardinality(Granted(p))'
    <3>1. CASE p \in 1 .. Len(proxies)
      BY <1>2, <1>3, <3>1 DEF RoomInv, GivenToSome
    <3>2. CASE p \notin 1 .. Len(proxies)
      BY <1>4, <3>2
    <3>3. QED
      BY <3>1, <3>2
  <2>2. QED
    BY <2>1 DEF GivenToSome
<1>6. GivenToOneEach'
  <2>1. ASSUME NEW p \in 1 .. Len(proxies'), Alone(p)'
        PROVE  Given(p)' = Cardinality(Granted(p))'
    <3>1. CASE p \in 1 .. Len(proxies)
      BY <1>2, <1>3, <2>1, <3>1 DEF RoomInv, GivenToOneEach
    <3>2. CASE p \notin 1 .. Len(proxies)
      BY <1>4, <3>2
    <3>3. QED
      BY <3>1, <3>2
  <2>2. QED
    BY <2>1 DEF GivenToOneEach
<1>7. ASSUME NEW s \in Requests, NEW p \in 1 .. Len(proxies'), Holding(req'[s]), req'[s].new = p
      PROVE  /\ Capacity - req'[s].read <= Cardinality(Granted(p))
             /\ req'[s].read = proxies'[p].room \/ \E q \in Granted(p) : {s, q} \in met'
  <2>1. CASE s # r \/ (Holding(req[r]) /\ KeepsRows(r) /\ KeepsRead(r))
    <3>1. Holding(req[s]) /\ req[s].new = p /\ req'[s].read = req[s].read
      BY <1>1, <1>7, <2>1 DEF KeepsRows, KeepsRead
    <3>2. p \in 1 .. Len(proxies)
      BY <3>1, ShapeOf DEF Holding, GetNewShape
    <3>3. ReadOf(req[s], s, p)
      BY <3>1, <3>2 DEF RoomInv, ReadIsOld
    <3>4. QED
      BY <1>1, <3>1, <3>2, <3>3 DEF ReadOf
  <2>2. CASE s = r /\ ~(Holding(req[r]) /\ KeepsRows(r) /\ KeepsRead(r))
    <3>1. p \in 1 .. Len(proxies) /\ req'[s].read = proxies[p].room
      BY <1>7, <2>2
    <3>2. Given(p) <= Cardinality(Granted(p))
      BY <3>1 DEF RoomInv, GivenToSome
    <3>3. QED
      BY <3>1, <3>2 DEF Given
  <2>3. QED
    BY <2>1, <2>2
<1>8. ReadIsOld'
  BY <1>2, <1>7 DEF ReadIsOld, ReadOf
<1>9. QED
  BY <1>5, <1>6, <1>8 DEF RoomInv

\* A place is given: the row is saved with one less than was read.
LEMMA PlaceGiven ==
  ASSUME Base, Base', RoomInv, NEW r \in Requests, Save(r)
  PROVE  RoomInv'
<1>1. /\ At(r, "getnew", "save") /\ Only(r, "answered")
      /\ proxies' = [proxies EXCEPT ![req[r].new].room = req[r].read - 1, ![req[r].new].there = TRUE]
      /\ UNCHANGED met
  BY SaveIs DEF Base, history
<1>2. PICK k : k = req[r].new
  OBVIOUS
<1>3. k \in 1 .. Len(proxies) /\ req[r].read \in 1 .. Capacity /\ req[r].read - 1 \in 0 .. Capacity
  BY <1>1, <1>2, ShapeOf, Constants DEF At, GetNewShape
<1>4. /\ Len(proxies') = Len(proxies) /\ proxies'[k].room = req[r].read - 1
      /\ \A p \in 1 .. Len(proxies) : p # k => proxies'[p] = proxies[p]
  BY <1>1, <1>2, <1>3, SavedRow DEF Base
<1>5. /\ \A s \in Requests : s # r => req'[s] = req[s]
      /\ req'[r].call = req[r].call /\ req'[r].new = k /\ req'[r].pc = "answered"
  BY <1>1, <1>2 DEF Only, Local, KeepsCall, KeepsRows
<1>6. Granted(k)' = Granted(k) \cup {r} /\ r \notin Granted(k)
  BY <1>1, <1>5 DEF Granted, Done, At
<1>7. ASSUME NEW p, p # k
      PROVE  Granted(p)' = Granted(p)
  BY <1>1, <1>2, <1>5, <1>7 DEF Granted, Done, At
<1>8. Cardinality(Granted(k))' = Cardinality(Granted(k)) + 1 /\ Cardinality(Granted(k)) \in Nat
  <2>1. IsFiniteSet(Granted(k)) /\ Cardinality(Granted(k)) \in Nat
    BY GrantedIs, Zenon
  <2>2. Cardinality(Granted(k) \cup {r}) = Cardinality(Granted(k)) + 1
    BY <1>6, <2>1, FS_AddElement
  <2>3. QED
    BY <1>6, <2>1, <2>2
<1>9. ReadOf(req[r], r, k)
  BY <1>1, <1>2, <1>3 DEF RoomInv, ReadIsOld, Holding, At
<1>10. Given(k)' = Capacity - req[r].read + 1
  BY <1>3, <1>4, Constants DEF Given
<1>11. Given(k)' <= Cardinality(Granted(k))'
  BY <1>3, <1>8, <1>9, <1>10, Constants DEF ReadOf
<1>12. ASSUME Alone(k)'
       PROVE  Given(k)' = Cardinality(Granted(k))'
  <2>1. Alone(k)
    BY <1>1, <1>6, <1>12 DEF Alone
  <2>2. ~\E s \in Granted(k) : {r, s} \in met
    BY <1>1, <1>6, <1>12 DEF Alone
  <2>3. req[r].read = proxies[k].room /\ Given(k) = Cardinality(Granted(k))
    BY <1>3, <1>9, <2>1, <2>2 DEF ReadOf, RoomInv, GivenToOneEach
  <2>4. QED
    BY <1>3, <1>8, <1>10, <2>3, Constants DEF Given
<1>13. ASSUME NEW p \in 1 .. Len(proxies), p # k
       PROVE  Given(p)' = Given(p) /\ (Alone(p)' => Alone(p))
  BY <1>1, <1>4, <1>7, <1>13 DEF Given, Alone
<1>14. GivenToSome'
  <2>1. ASSUME NEW p \in 1 .. Len(proxies)
        PROVE  Given(p)' <= Cardinality(Granted(p))'
    <3>1. CASE p = k
      BY <1>11, <3>1
    <3>2. CASE p # k
      BY <1>7, <1>13, <3>2 DEF RoomInv, GivenToSome
    <3>3. QED
      BY <3>1, <3>2
  <2>2. QED
    BY <1>4, <2>1 DEF GivenToSome
<1>15. GivenToOneEach'
  <2>1. ASSUME NEW p \in 1 .. Len(proxies), Alone(p)'
        PROVE  Given(p)' = Cardinality(Granted(p))'
    <3>1. CASE p = k
      BY <1>12, <2>1, <3>1
    <3>2. CASE p # k
      BY <1>7, <1>13, <2>1, <3>2 DEF RoomInv, GivenToOneEach
    <3>3. QED
      BY <3>1, <3>2
  <2>2. QED
    BY <1>4, <2>1 DEF GivenToOneEach
<1>16. ASSUME NEW s \in Requests, NEW p \in 1 .. Len(proxies), Holding(req'[s]), req'[s].new = p
       PROVE  /\ Capacity - req'[s].read <= Cardinality(Granted(p))'
              /\ req'[s].read = proxies'[p].room \/ \E q \in Granted(p)' : {s, q} \in met'
  <2>1. s # r /\ req'[s] = req[s] /\ Holding(req[s]) /\ req[s].new = p
    BY <1>5, <1>16 DEF Holding
  <2>2. ReadOf(req[s], s, p)
    BY <2>1 DEF RoomInv, ReadIsOld
  <2>3. CASE p # k
    BY <1>1, <1>4, <1>7, <2>1, <2>2, <2>3 DEF ReadOf
  <2>4. CASE p = k
    <3>1. Running(s) /\ Running(r)
      BY <1>1, <2>1 DEF Holding, Running, At
    <3>2. {s, r} \in met' /\ r \in Granted(p)'
      BY <1>1, <1>6, <2>1, <2>4, <3>1 DEF Base, Meet
    <3>3. req[s].read \in Nat /\ Capacity \in Nat
      BY HandlerFields, Constants DEF Base
    <3>4. Capacity - req'[s].read <= Cardinality(Granted(p))'
      BY <1>8, <2>1, <2>2, <2>4, <3>3 DEF ReadOf
    <3>5. QED
      BY <3>2, <3>4
  <2>5. QED
    BY <2>3, <2>4
<1>17. ReadIsOld'
  BY <1>4, <1>16 DEF ReadIsOld, ReadOf
<1>18. QED
  BY <1>14, <1>15, <1>17 DEF RoomInv

LEMMA RoomStep ==
  ASSUME Base, RoomInv, NEW r \in Requests, Step(r)
  PROVE  RoomInv'
<1>1. Goes(r) /\ Base' /\ Tables(r)
  BY AnyGoes
<1>2. CASE Save(r)
  BY <1>1, <1>2, PlaceGiven
<1>3. CASE Arrive(r) \/ FindClient(r) \/ CreateClient(r) \/ Assign(r)
  <2>1. proxies' = proxies
    BY <1>3 DEF Arrive, FindClient, CreateClient, Assign
  <2>2. req'[r].pc # "answered" /\ (Holding(req'[r]) => Holding(req[r]) /\ KeepsRows(r) /\ KeepsRead(r))
    BY <1>3, ArriveIs, FindClientIs, CreateClientIs, AssignIs DEF Base, Only, Holding, KeepsCall, At
  <2>3. ~Done(r, "getnew")'
    BY <2>2 DEF Done
  <2>4. QED
    BY <1>1, <2>1, <2>2, <2>3, NoPlaceGiven
<1>4. CASE Choose(r)
  <2>1. proxies' = proxies
    BY <1>4 DEF Choose
  <2>2. /\ req'[r].pc # "answered"
        /\ Holding(req'[r]) => req'[r].new \in DOMAIN proxies /\ req'[r].read = proxies[req'[r].new].room
    BY <1>4, ChooseIs DEF Base, Only, Chosen, Holding
  <2>3. ~Done(r, "getnew")' /\ DOMAIN proxies = 1 .. Len(proxies)
    BY <2>2, RowIn DEF Done
  <2>4. QED
    BY <1>1, <2>1, <2>2, <2>3, NoPlaceGiven
<1>5. CASE /\ req[r].call.kind # "getnew" /\ req[r].pc # "idle"
           /\ \A p \in 1 .. Len(proxies) : proxies'[p].room = proxies[p].room
           /\ \A p \in 1 .. Len(proxies') : p \notin 1 .. Len(proxies) => proxies'[p].room = Capacity
  <2>1. req'[r].call = req[r].call
    BY <1>1, <1>5 DEF Goes, KeepsCall
  <2>2. ~Done(r, "getnew")' /\ ~Holding(req'[r])
    BY <1>5, <2>1 DEF Done, Holding
  <2>3. QED
    BY <1>1, <1>5, <2>2, NoPlaceGiven
<1>6. CASE Add(r) \/ Insert(r)
  <2>1. /\ Len(proxies') = Len(proxies) + 1 /\ proxies'[Len(proxies) + 1] = Row(NewUrl(r), r)
        /\ \A p \in 1 .. Len(proxies) : proxies'[p] = proxies[p]
    BY <1>6, AddBase, InsertBase
  <2>2. proxies'[Len(proxies) + 1].room = Capacity /\ Len(proxies) \in Nat
    BY <2>1, RowIn DEF Row
  <2>3. \A p \in 1 .. Len(proxies') : p \notin 1 .. Len(proxies) => p = Len(proxies) + 1
    BY <2>1, <2>2
  <2>4. req[r].call.kind = "update" /\ req[r].pc # "idle"
    BY <1>6 DEF Add, Insert, At
  <2>5. QED
    BY <1>5, <2>1, <2>2, <2>3, <2>4
<1>7. CASE Delete(r)
  <2>1. req[r].call.kind = "update" /\ req[r].pc = "delete" /\ proxies' = [proxies EXCEPT ![req[r].old].there = FALSE]
    BY <1>7 DEF Delete, At
  <2>2. req[r].old \in 1 .. Len(proxies)
    BY <2>1, ShapeOf DEF UpdateShape
  <2>3. Len(proxies') = Len(proxies) /\ \A p \in 1 .. Len(proxies) : proxies'[p].room = proxies[p].room
    BY <2>1, <2>2, DeletedRow DEF Base
  <2>4. QED
    BY <1>5, <2>1, <2>3
<1>8. CASE \/ Post(r) \/ GetOld(r, "remove", "delete") \/ GetOld(r, "swap", "get") \/ GetNew(r) \/ Read(r)
           \/ Copy(r) \/ Tag(r) \/ GetId(r) \/ CountId(r) \/ Reset(r)
  <2>1. proxies' = proxies /\ req[r].call.kind # "getnew" /\ req[r].pc # "idle"
    BY <1>8 DEF Post, GetOld, GetNew, Read, Copy, Tag, GetId, CountId, Reset, At
  <2>2. QED
    BY <1>5, <2>1
<1>9. QED
  BY <1>2, <1>3, <1>4, <1>6, <1>7, <1>8 DEF Step

Ided == {r \in Requests : Done(r, "getid")}

LEMMA IdedIs ==
  IsFiniteSet(Ided) /\ Cardinality(Ided) \in Nat /\ Cardinality(Ided) <= Cardinality(Requests)
  /\ Cardinality(Requests) \in Nat
<1>1. Ided \subseteq Requests /\ IsFiniteSet(Requests)
  BY AssignmentsAssumption DEF Ided
<1>2. QED
  BY <1>1, FS_Subset, FS_CardinalityType

\* Every id row was made by a request that was answered.
LEMMA CountedStep ==
  ASSUME Base, CountedIds, NEW r \in Requests, Step(r)
  PROVE  CountedIds'
<1>1. Goes(r) /\ counter \in Nat /\ counter <= Cardinality(Ided)
  BY AnyGoes DEF Base, Types, CountedIds, Ided
<1>2. \A s \in Requests : s # r => req'[s] = req[s]
  BY <1>1 DEF Goes, Local
<1>3. CASE CountId(r)
  <2>1. At(r, "getid", "count") /\ KeepsCall(r) /\ req'[r].pc = "answered" /\ counter' = counter + 1
    BY <1>3, CountIdIs DEF Base, Only
  <2>2. Ided' = Ided \cup {r} /\ r \notin Ided
    BY <1>2, <2>1 DEF Ided, Done, At, KeepsCall
  <2>3. Cardinality(Ided') = Cardinality(Ided) + 1
    BY <2>2, IdedIs, FS_AddElement
  <2>4. counter' <= Cardinality(Ided')
    BY <1>1, <2>1, <2>3, IdedIs
  <2>5. QED
    BY <2>4 DEF CountedIds, Ided
<1>4. CASE counter' \in 0 .. counter /\ ~CountId(r)
  <2>1. Ided \subseteq Ided'
    BY <1>1, <1>2 DEF Ided, Done, Goes
  <2>2. Ided' \subseteq Requests /\ IsFiniteSet(Requests)
    BY AssignmentsAssumption DEF Ided
  <2>3. IsFiniteSet(Ided') /\ Cardinality(Ided') \in Nat
    BY <2>2, FS_Subset, FS_CardinalityType
  <2>4. Cardinality(Ided) <= Cardinality(Ided')
    BY <2>1, <2>3, FS_Subset
  <2>5. counter' <= Cardinality(Ided')
    BY <1>1, <1>4, <2>3, <2>4, IdedIs
  <2>6. QED
    BY <2>5 DEF CountedIds, Ided
<1>5. ~CountId(r) => counter' = counter \/ counter' = 0
  BY DEF Step, Arrive, FindClient, CreateClient, Choose, Assign, Save, Post, Add, GetOld, Delete, GetNew, Insert,
         Read, Copy, Tag, GetId, Reset
<1>6. QED
  BY <1>1, <1>3, <1>4, <1>5

LEMMA RoomFollows ==
  ASSUME Base, RoomInv, CountedIds
  PROVE  RoomErrsHigh
<1>1. DOMAIN proxies = 1 .. Len(proxies) /\ Len(proxies) \in Nat
  BY RowIn
<1>2. \A p \in DOMAIN proxies : proxies[p].room \in 0 .. Capacity /\ proxies[p].by \in Requests \cup {ByHand}
  BY ProxyRow DEF Base, Rows
<1>3. counter \in 0 .. Cardinality(Requests)
  BY IdedIs DEF CountedIds, Ided, Base, Types
<1>4. IsABag(rows)
  BY BagsOfRows DEF Base, Types
<1>5. \A r \in Requests : {req[r].old, req[r].new} \subseteq 0 .. Len(proxies)
  BY ShapeOf
<1>6. TypeOK
  BY <1>1, <1>2, <1>3, <1>4, <1>5 DEF TypeOK, Base, Types, RowsPoint
<1>7. QED
  BY <1>1, <1>6 DEF RoomErrsHigh, RoomInv, GivenToSome, GivenToOneEach, Given, Alone

LEMMA InitRoom ==
  ASSUME Init
  PROVE  RoomInv /\ CountedIds
<1>1. Base /\ \A r \in Requests : req[r].pc = "idle"
  BY InitBase DEF Init, Idle
<1>2. \A p \in 1 .. Len(proxies) : proxies[p].room = Capacity
  BY <1>1, RowIn DEF Init, Row
<1>3. \A p : Granted(p) = {}
  BY <1>1 DEF Granted, Done
<1>4. RoomInv
  <2>1. \A p : Cardinality(Granted(p)) = 0
    BY <1>3, FS_EmptySet
  <2>2. \A p \in 1 .. Len(proxies) : Given(p) = 0
    BY <1>2, Constants DEF Given
  <2>3. GivenToSome /\ GivenToOneEach
    BY <2>1, <2>2 DEF GivenToSome, GivenToOneEach
  <2>4. ReadIsOld
    BY <1>1 DEF ReadIsOld, Holding
  <2>5. QED
    BY <2>3, <2>4 DEF RoomInv
<1>5. counter = 0
  BY DEF Init
<1>6. CountedIds
  BY <1>5, IdedIs DEF CountedIds, Ided
<1>7. QED
  BY <1>4, <1>6

LEMMA StutterRoom ==
  ASSUME RoomInv, CountedIds, UNCHANGED vars
  PROVE  RoomInv' /\ CountedIds'
<1>1. RoomInv'
  <2>1. proxies' = proxies /\ req' = req /\ met' = met
    BY DEF vars
  <2>2. \A p : Granted(p)' = Granted(p)
    BY <2>1 DEF Granted, Done
  <2>3. GivenToSome'
    BY <2>1, <2>2 DEF RoomInv, GivenToSome, Given
  <2>4. GivenToOneEach'
    BY <2>1, <2>2 DEF RoomInv, GivenToOneEach, Given, Alone
  <2>5. ReadIsOld'
    BY <2>1, <2>2 DEF RoomInv, ReadIsOld, ReadOf
  <2>6. QED
    BY <2>3, <2>4, <2>5 DEF RoomInv
<1>2. CountedIds'
  BY DEF CountedIds, Done, vars
<1>3. QED
  BY <1>1, <1>2

\* Saves of stale capacities lose no place and never go below zero; a place is given
\* twice only to requests that ran at the same time (AssignmentView.get: save()).
THEOREM PlacesErrHigh == Spec => []RoomErrsHigh
<1>1. Init => Base /\ RoomInv /\ CountedIds
  BY InitBase, InitRoom
<1>2. Base /\ RoomInv /\ CountedIds /\ [Next]_vars => (Base /\ RoomInv /\ CountedIds)'
  <2>1. ASSUME Base, RoomInv, CountedIds, NEW r \in Requests, Step(r)
        PROVE  Base' /\ RoomInv' /\ CountedIds'
    BY <2>1, AnyGoes, RoomStep, CountedStep
  <2>2. ASSUME Base, RoomInv, CountedIds, UNCHANGED vars
        PROVE  Base' /\ RoomInv' /\ CountedIds'
    BY <2>2, StutterBase, StutterRoom
  <2>3. QED
    BY <2>1, <2>2 DEF Next
<1>3. Base /\ RoomInv /\ CountedIds => RoomErrsHigh
  BY RoomFollows
<1>4. QED
  BY <1>1, <1>2, <1>3, PTL DEF Spec

-------------------------------------------------------------------------------
(***************************************************************************)
(* Second rows and second ids                                              *)
(***************************************************************************)

\* Row q was made by a creation, that does not look.
ByCreation(q) == \E r \in Requests : proxies[q].by = r /\ req[r].pc # "idle" /\ req[r].call.olds = <<>>

Excused(p, q) == {proxies[p].by, proxies[q].by} \in met \/ ByCreation(q) \/ Revived(p) \/ Revived(q)

Seconds ==
  \A p, q \in 1 .. Len(proxies) :
    p < q /\ proxies[p].url = proxies[q].url /\ proxies[p].there /\ proxies[q].there => Excused(p, q)

\* A swap that found no row of its new URL: one that is there by now was made by a
\* handler beside it, or is back.
Looked ==
  \A r \in Requests : At(r, "update", "insert") =>
    \A p \in 1 .. Len(proxies) :
      proxies[p].there /\ proxies[p].url = NewUrl(r) => {proxies[p].by, r} \in met \/ Revived(p)

\* A chosen row that is not there was removed beside the request that chose it.
Missing ==
  \A r \in Requests, p \in 1 .. Len(proxies) :
    Holding(req[r]) /\ req[r].new = p /\ ~proxies[p].there => \E s \in Requests : Removing(s) /\ {r, s} \in met

RowsInv == Seconds /\ Looked /\ Missing

\* The rows that a step leaves, brings back or makes.
RowsIf(r) ==
  /\ \A p \in 1 .. Len(proxies) : proxies'[p].there => proxies[p].there \/ Revived(p)'
  /\ \A q \in 1 .. Len(proxies') : q \notin 1 .. Len(proxies) =>
       /\ q = Len(proxies) + 1 /\ proxies'[q].by = r /\ req[r].pc # "idle"
       /\ req[r].call.olds = <<>> \/ (At(r, "update", "insert") /\ proxies'[q].url = NewUrl(r))
  /\ At(r, "update", "insert")' => Named(NewUrl(r)) = {} /\ KeepsCall(r) /\ KeepsPlace(r) /\ proxies' = proxies
  /\ Holding(req'[r]) => \/ Holding(req[r]) /\ KeepsRows(r)
                         \/ req'[r].new \in 1 .. Len(proxies) /\ proxies'[req'[r].new].there

LEMMA RevivedStays ==
  ASSUME Base, NEW r \in Requests, Goes(r), Tables(r), NEW p, Revived(p)
  PROVE  Revived(p)'
<1>1. PICK a \in Granted(p), s \in Requests : Removing(s) /\ {a, s} \in met
  BY DEF Revived
<1>2. a \in Granted(p)'
  BY <1>1 DEF Granted, Done, Goes, Local
<1>3. Removing(s)' /\ {a, s} \in met'
  BY <1>1, RemovingStays DEF Tables
<1>4. QED
  BY <1>2, <1>3 DEF Revived

LEMMA NeverIdleAgain ==
  ASSUME Base, Base', NEW r \in Requests, Goes(r), NEW s \in Requests, req[s].pc # "idle"
  PROVE  req'[s].pc # "idle" /\ req'[s].call = req[s].call
<1>1. req'[s].call = req[s].call
  BY DEF Goes, Local, KeepsCall
<1>2. req[s].call.kind # "none"
  BY ShapeOf DEF Shape
<1>3. Shape(req'[s], Len(proxies'), clients')
  BY DEF Base, Shapes
<1>4. QED
  BY <1>1, <1>2, <1>3 DEF Shape, GetNewShape, UpdateShape

LEMMA RowsFromIf ==
  ASSUME Base, Base', RowsInv, NEW r \in Requests, Goes(r), Tables(r), RowsIf(r)
  PROVE  RowsInv'
<1>1. /\ \A s \in Requests : s # r => req'[s] = req[s]
      /\ met \subseteq met' /\ Len(proxies) \in Nat /\ Len(proxies') \in Nat /\ Len(proxies) <= Len(proxies')
      /\ \A p \in 1 .. Len(proxies) : proxies'[p].url = proxies[p].url /\ proxies'[p].by = proxies[p].by
  BY DEF Goes, Local, Tables
<1>2. ASSUME NEW p \in 1 .. Len(proxies), NEW q \in 1 .. Len(proxies), Excused(p, q)
      PROVE  Excused(p, q)'
  <2>1. Revived(p) \/ Revived(q) => Revived(p)' \/ Revived(q)'
    BY RevivedStays
  <2>2. ByCreation(q) => ByCreation(q)'
    BY <1>1, NeverIdleAgain DEF ByCreation
  <2>3. {proxies[p].by, proxies[q].by} \in met => {proxies'[p].by, proxies'[q].by} \in met'
    BY <1>1
  <2>4. QED
    BY <1>2, <2>1, <2>2, <2>3 DEF Excused
<1>3. ASSUME NEW p \in 1 .. Len(proxies'), NEW q \in 1 .. Len(proxies'), p < q,
             proxies'[p].url = proxies'[q].url, proxies'[p].there, proxies'[q].there
      PROVE  Excused(p, q)'
  <2>1. CASE q \in 1 .. Len(proxies)
    <3>1. p \in 1 .. Len(proxies) /\ proxies[p].url = proxies[q].url
      BY <1>1, <1>3, <2>1
    <3>2. CASE proxies[p].there /\ proxies[q].there
      BY <1>2, <1>3, <2>1, <3>1, <3>2 DEF RowsInv, Seconds
    <3>3. CASE ~proxies[p].there \/ ~proxies[q].there
      BY <1>3, <2>1, <3>1, <3>3 DEF RowsIf, Excused
    <3>4. QED
      BY <3>2, <3>3
  <2>2. CASE q \notin 1 .. Len(proxies)
    <3>1. /\ q = Len(proxies) + 1 /\ proxies'[q].by = r /\ req[r].pc # "idle"
          /\ req[r].call.olds = <<>> \/ (At(r, "update", "insert") /\ proxies'[q].url = NewUrl(r))
      BY <2>2 DEF RowsIf
    <3>2. p \in 1 .. Len(proxies)
      BY <1>1, <1>3, <3>1
    <3>3. CASE req[r].call.olds = <<>>
      BY <3>1, <3>3, NeverIdleAgain DEF Excused, ByCreation
    <3>4. CASE At(r, "update", "insert") /\ proxies'[q].url = NewUrl(r)
      <4>1. CASE proxies[p].there
        <5>1. {proxies[p].by, r} \in met \/ Revived(p)
          BY <1>1, <1>3, <3>2, <3>4, <4>1 DEF RowsInv, Looked
        <5>2. Revived(p) => Revived(p)'
          BY RevivedStays
        <5>3. {proxies[p].by, r} \in met => {proxies'[p].by, proxies'[q].by} \in met'
          BY <1>1, <3>1, <3>2
        <5>4. QED
          BY <5>1, <5>2, <5>3 DEF Excused
      <4>2. CASE ~proxies[p].there
        BY <1>3, <3>2, <4>2 DEF RowsIf, Excused
      <4>3. QED
        BY <4>1, <4>2
    <3>5. QED
      BY <3>1, <3>3, <3>4
  <2>3. QED
    BY <2>1, <2>2
<1>4. Seconds'
  BY <1>3 DEF Seconds
<1>5. ASSUME NEW s \in Requests, At(s, "update", "insert")', NEW p \in 1 .. Len(proxies'),
             proxies'[p].there, proxies'[p].url = NewUrl(s)'
      PROVE  {proxies'[p].by, s} \in met' \/ Revived(p)'
  <2>1. CASE s = r
    <3>1. Named(NewUrl(r)) = {} /\ NewUrl(r)' = NewUrl(r) /\ proxies' = proxies
      BY <1>5, <2>1 DEF RowsIf, KeepsCall, KeepsPlace, NewUrl
    <3>2. p \in Named(NewUrl(r))
      BY <1>5, <2>1, <3>1, RowIn DEF Named
    <3>3. QED
      BY <3>1, <3>2
  <2>2. CASE s # r
    <3>1. At(s, "update", "insert") /\ NewUrl(s)' = NewUrl(s)
      BY <1>1, <1>5, <2>2 DEF At, NewUrl
    <3>2. CASE p \in 1 .. Len(proxies) /\ proxies[p].there
      <4>1. {proxies[p].by, s} \in met \/ Revived(p)
        BY <1>1, <1>5, <3>1, <3>2 DEF RowsInv, Looked
      <4>2. QED
        BY <1>1, <3>2, <4>1, RevivedStays
    <3>3. CASE p \in 1 .. Len(proxies) /\ ~proxies[p].there
      BY <1>5, <3>3 DEF RowsIf
    <3>4. CASE p \notin 1 .. Len(proxies)
      <4>1. proxies'[p].by = r /\ Running(r) /\ Running(s)
        BY <3>1, <3>4 DEF RowsIf, Goes, Running, At
      <4>2. {r, s} \in met'
        BY <1>1, <2>2, <4>1 DEF Base, Meet
      <4>3. QED
        BY <4>1, <4>2
    <3>5. QED
      BY <3>2, <3>3, <3>4
  <2>3. QED
    BY <2>1, <2>2
<1>6. Looked'
  BY <1>5 DEF Looked
<1>7. ASSUME NEW s \in Requests, NEW p \in 1 .. Len(proxies'), Holding(req'[s]), req'[s].new = p, ~proxies'[p].there
      PROVE  \E a \in Requests : Removing(a)' /\ {s, a} \in met'
  <2>1. s = r => Holding(req[r]) /\ KeepsRows(r)
    BY <1>7 DEF RowsIf
  <2>2. Holding(req[s]) /\ req[s].new = p
    BY <1>1, <1>7, <2>1 DEF KeepsRows
  <2>3. p \in 1 .. Len(proxies)
    BY <2>2, ShapeOf DEF Holding, GetNewShape
  <2>4. CASE ~proxies[p].there
    <3>1. PICK a \in Requests : Removing(a) /\ {s, a} \in met
      BY <2>2, <2>3, <2>4 DEF RowsInv, Missing
    <3>2. QED
      BY <1>1, <3>1, RemovingStays
  <2>5. CASE proxies[p].there
    <3>1. Removing(r)
      BY <1>7, <2>3, <2>5 DEF Goes, RowsStay
    <3>2. r # s /\ req[r].pc # "idle"
      BY <2>2, <3>1, ShapeOf DEF Holding, Removing
    <3>3. Running(r) /\ Running(s)
      BY <2>2, <3>2 DEF Holding, Running, Goes
    <3>4. {s, r} \in met
      BY <3>2, <3>3 DEF Base, Meet
    <3>5. QED
      BY <1>1, <3>1, <3>4, RemovingStays
  <2>6. QED
    BY <2>4, <2>5
<1>8. Missing'
  BY <1>7 DEF Missing
<1>9. QED
  BY <1>4, <1>6, <1>8 DEF RowsInv

LEMMA RowsStep ==
  ASSUME Base, RowsInv, NEW r \in Requests, Step(r)
  PROVE  RowsInv'
<1>1. Goes(r) /\ Base' /\ Tables(r)
  BY AnyGoes
<1>2. DOMAIN proxies = 1 .. Len(proxies) /\ Len(proxies) \in Nat
  BY RowIn
<1>3. CASE /\ proxies' = proxies /\ req'[r].pc # "insert"
           /\ Holding(req'[r]) => Holding(req[r]) /\ KeepsRows(r)
  <2>1. RowsIf(r)
    BY <1>3 DEF RowsIf, At
  <2>2. QED
    BY <1>1, <2>1, RowsFromIf
<1>4. CASE Arrive(r) \/ FindClient(r) \/ CreateClient(r) \/ Assign(r)
  <2>1. proxies' = proxies
    BY <1>4 DEF Arrive, FindClient, CreateClient, Assign
  <2>2. req'[r].pc # "insert" /\ (Holding(req'[r]) => Holding(req[r]) /\ KeepsRows(r))
    BY <1>4, ArriveIs, FindClientIs, CreateClientIs, AssignIs DEF Base, Only, Holding, KeepsCall, At
  <2>3. QED
    BY <1>3, <2>1, <2>2
<1>5. CASE Choose(r)
  <2>1. proxies' = proxies
    BY <1>5 DEF Choose
  <2>2. /\ req'[r].pc # "insert"
        /\ Holding(req'[r]) => req'[r].new \in DOMAIN proxies /\ proxies[req'[r].new].there
    BY <1>5, ChooseIs DEF Base, Only, Chosen, Holding
  <2>3. RowsIf(r)
    BY <1>2, <2>1, <2>2 DEF RowsIf, At
  <2>4. QED
    BY <1>1, <2>3, RowsFromIf
<1>6. CASE Save(r)
  <2>1. /\ At(r, "getnew", "save") /\ Only(r, "answered") /\ met' = met
        /\ proxies' = [proxies EXCEPT ![req[r].new].room = req[r].read - 1, ![req[r].new].there = TRUE]
    BY <1>6, SaveIs DEF Base, history
  <2>2. req[r].new \in 1 .. Len(proxies) /\ req[r].read - 1 \in 0 .. Capacity
    BY <2>1, ShapeOf, Constants DEF At, GetNewShape
  <2>3. /\ Len(proxies') = Len(proxies)
        /\ \A p \in 1 .. Len(proxies) : p # req[r].new => proxies'[p] = proxies[p]
    BY <2>1, <2>2, SavedRow DEF Base
  <2>4. ASSUME NEW p \in 1 .. Len(proxies), p = req[r].new, ~proxies[p].there
        PROVE  Revived(p)'
    <3>1. PICK s \in Requests : Removing(s) /\ {r, s} \in met
      BY <2>1, <2>4 DEF RowsInv, Missing, Holding, At
    <3>2. r \in Granted(p)'
      BY <2>1, <2>4 DEF Granted, Done, Only, KeepsCall, KeepsRows, At
    <3>3. Removing(s)'
      BY <1>1, <3>1, RemovingStays
    <3>4. QED
      BY <2>1, <3>1, <3>2, <3>3 DEF Revived
  <2>5. RowsIf(r)
    BY <2>1, <2>3, <2>4 DEF RowsIf, Only, At, Holding
  <2>6. QED
    BY <1>1, <2>5, RowsFromIf
<1>7. CASE Add(r) \/ Insert(r)
  <2>1. /\ Len(proxies') = Len(proxies) + 1 /\ proxies'[Len(proxies) + 1] = Row(NewUrl(r), r)
        /\ \A p \in 1 .. Len(proxies) : proxies'[p] = proxies[p]
    BY <1>7, AddBase, InsertBase
  <2>2. proxies'[Len(proxies) + 1].by = r /\ proxies'[Len(proxies) + 1].url = NewUrl(r)
    BY <2>1 DEF Row
  <2>3. \A p \in 1 .. Len(proxies') : p \notin 1 .. Len(proxies) => p = Len(proxies) + 1
    BY <1>2, <2>1
  <2>4. req[r].call.olds = <<>> \/ At(r, "update", "insert")
    <3>1. Add(r) => req[r].call.olds = <<>>
      BY ShapeOf DEF Add, At, UpdateShape
    <3>2. QED
      BY <1>7, <3>1 DEF Insert
  <2>5. req[r].call.kind = "update" /\ req[r].pc # "idle"
    BY <1>7 DEF Add, Insert, At
  <2>6. req'[r].pc # "insert" /\ ~Holding(req'[r])
    <3>1. req'[r].pc \in {"add", "answered", "read"}
      BY <1>7, AddIs, InsertIs DEF Base, Advances, FoundNew
    <3>2. req'[r].call.kind = "update"
      BY <1>1, <2>5 DEF Goes, KeepsCall
    <3>3. QED
      BY <3>1, <3>2 DEF Holding
  <2>7. RowsIf(r)
    BY <2>1, <2>2, <2>3, <2>4, <2>5, <2>6 DEF RowsIf, At
  <2>8. QED
    BY <1>1, <2>7, RowsFromIf
<1>8. CASE Delete(r)
  <2>1. /\ req[r].call.kind = "update" /\ req[r].pc = "delete" /\ proxies' = [proxies EXCEPT ![req[r].old].there = FALSE]
        /\ req'[r].pc \in {"remove", "answered"}
    BY <1>8, DeleteIs DEF Delete, At, Base, Advances
  <2>2. req[r].old \in 1 .. Len(proxies)
    BY <2>1, ShapeOf DEF UpdateShape
  <2>3. /\ Len(proxies') = Len(proxies)
        /\ \A p \in 1 .. Len(proxies) : proxies'[p].there => proxies[p].there
    BY <2>1, <2>2, DeletedRow DEF Base
  <2>4. ~Holding(req'[r])
    BY <1>1, <2>1 DEF Goes, KeepsCall, Holding
  <2>5. RowsIf(r)
    BY <2>1, <2>3, <2>4 DEF RowsIf, At
  <2>6. QED
    BY <1>1, <2>5, RowsFromIf
<1>9. CASE GetNew(r)
  <2>1. /\ At(r, "update", "get") /\ proxies' = proxies
        /\ \/ req'[r].pc \in {"failed", "read"}
           \/ Only(r, "insert") /\ Named(NewUrl(r)) = {}
    BY <1>9, GetNewIs DEF Base, Only, FoundNew
  <2>2. ~Holding(req'[r])
    BY <1>1, <2>1 DEF Goes, KeepsCall, Holding, At
  <2>3. RowsIf(r)
    BY <2>1, <2>2 DEF RowsIf, At, Only
  <2>4. QED
    BY <1>1, <2>3, RowsFromIf
<1>10. CASE \/ Post(r) \/ GetOld(r, "remove", "delete") \/ GetOld(r, "swap", "get") \/ Read(r)
            \/ Copy(r) \/ Tag(r) \/ GetId(r) \/ CountId(r) \/ Reset(r)
  <2>1. proxies' = proxies /\ req[r].call.kind # "getnew" /\ req[r].pc # "idle"
    BY <1>10 DEF Post, GetOld, Read, Copy, Tag, GetId, CountId, Reset, At
  <2>2. "delete" \in Pcs /\ "get" \in Pcs
    BY DEF Pcs
  <2>3. req'[r].pc # "insert"
    <3>1. Post(r) \/ Read(r) \/ Copy(r) \/ Tag(r) => req'[r].pc # "insert"
      BY PostIs, ReadIs, CopyIs, TagIs DEF Base, Only, CopiesRow, Advances
    <3>2. GetOld(r, "remove", "delete") \/ GetOld(r, "swap", "get") => req'[r].pc # "insert"
      BY <2>2, GetOldIs DEF Base, Only, FoundOld
    <3>3. GetId(r) \/ CountId(r) \/ Reset(r) => req'[r].pc # "insert"
      BY GetIdIs, CountIdIs, ResetIs DEF Base, Only
    <3>4. QED
      BY <1>10, <3>1, <3>2, <3>3
  <2>4. ~Holding(req'[r])
    BY <1>1, <2>1 DEF Goes, KeepsCall, Holding
  <2>5. QED
    BY <1>3, <2>1, <2>3, <2>4
<1>11. QED
  BY <1>4, <1>5, <1>6, <1>7, <1>8, <1>9, <1>10 DEF Step

\* Ids: none that was counted is ahead of the counter, and those of requests that did
\* not meet are apart, unless there was a reset.
ResetDone == \E q \in Requests : Done(q, "reset")

Numbered(t) == t.call.kind = "getid" /\ t.pc \in {"count", "answered"}

IdsInv ==
  ResetDone \/
    /\ \A r \in Requests : Numbered(req[r]) => req[r].result < (IF req[r].pc = "count" THEN counter + 4 ELSE counter + 3)
    /\ \A r, s \in Requests :
         r # s /\ Numbered(req[r]) /\ Numbered(req[s]) /\ req[r].result = req[s].result => {r, s} \in met

LEMMA IdsStep ==
  ASSUME Base, IdsInv, NEW r \in Requests, Step(r)
  PROVE  IdsInv'
<1>1. Goes(r) /\ Tables(r) /\ counter \in Nat
  BY AnyGoes DEF Base, Types
<1>2. /\ \A s \in Requests : s # r => req'[s] = req[s]
      /\ met \subseteq met'
      /\ \A s \in Requests : req[s].result \in Nat
  BY <1>1, HandlerFields DEF Goes, Local, Tables, Base
<1>3. ResetDone => ResetDone'
  BY <1>1, <1>2 DEF ResetDone, Done, Goes
<1>4. CASE ResetDone
  BY <1>3, <1>4 DEF IdsInv
<1>5. CASE ~ResetDone /\ GetId(r)
  <2>1. /\ At(r, "getid", "begin") /\ KeepsCall(r) /\ req'[r].pc = "count" /\ req'[r].result = counter + 3
        /\ counter' = counter
    BY <1>5, GetIdIs DEF Base
  <2>2. ASSUME NEW s \in Requests, s # r, Numbered(req[s]), req[s].result = counter + 3
        PROVE  {s, r} \in met'
    <3>1. req[s].pc = "count"
      BY <1>1, <1>2, <1>5, <2>2 DEF IdsInv, Numbered
    <3>2. Running(s) /\ Running(r)
      BY <2>1, <3>1 DEF Running, At
    <3>3. QED
      BY <1>2, <2>2, <3>2 DEF Base, Meet
  <2>3. \A s \in Requests : {s, r} = {r, s}
    OBVIOUS
  <2>4. \A s \in Requests : Numbered(req'[s]) =>
          req'[s].result < (IF req'[s].pc = "count" THEN counter' + 4 ELSE counter' + 3)
    BY <1>1, <1>2, <1>5, <2>1 DEF IdsInv
  <2>5. \A a, b \in Requests :
          a # b /\ Numbered(req'[a]) /\ Numbered(req'[b]) /\ req'[a].result = req'[b].result => {a, b} \in met'
    BY <1>2, <1>5, <2>1, <2>2, <2>3 DEF IdsInv
  <2>6. QED
    BY <2>4, <2>5 DEF IdsInv
<1>6. CASE ~ResetDone /\ CountId(r)
  <2>1. /\ At(r, "getid", "count") /\ KeepsCall(r) /\ req'[r].pc = "answered" /\ req'[r].result = req[r].result
        /\ counter' = counter + 1
    BY <1>6, CountIdIs DEF Base, Only, KeepsPlace
  <2>2. Numbered(req[r]) /\ req[r].result < counter + 4
    BY <1>6, <2>1 DEF Numbered, At, IdsInv
  <2>3. \A s \in Requests : Numbered(req'[s]) =>
          req'[s].result < (IF req'[s].pc = "count" THEN counter' + 4 ELSE counter' + 3)
    <3>1. ASSUME NEW s \in Requests, Numbered(req'[s]), s # r
          PROVE  req'[s].result < (IF req'[s].pc = "count" THEN counter' + 4 ELSE counter' + 3)
      <4>1. req'[s] = req[s] /\ req[s].result \in Nat
        BY <1>2, <3>1
      <4>2. req[s].result < (IF req[s].pc = "count" THEN counter + 4 ELSE counter + 3)
        BY <1>6, <3>1, <4>1 DEF IdsInv
      <4>3. QED
        BY <1>1, <2>1, <4>1, <4>2
    <3>2. req'[r].result < counter' + 3
      BY <1>1, <1>2, <2>1, <2>2
    <3>3. QED
      BY <2>1, <3>1, <3>2
  <2>4. \A a, b \in Requests :
          a # b /\ Numbered(req'[a]) /\ Numbered(req'[b]) /\ req'[a].result = req'[b].result => {a, b} \in met'
    BY <1>2, <1>6, <2>1, <2>2 DEF IdsInv
  <2>5. QED
    BY <2>3, <2>4 DEF IdsInv
<1>7. CASE Reset(r)
  <2>1. Done(r, "reset")'
    BY <1>7, ResetIs DEF Base, Only, Done, KeepsCall, At
  <2>2. QED
    BY <2>1 DEF IdsInv, ResetDone
<1>8. CASE ~ResetDone /\ ~GetId(r) /\ ~CountId(r) /\ ~Reset(r)
  <2>1. counter' = counter /\ (req[r].pc = "idle" \/ req[r].call.kind # "getid")
    BY <1>8 DEF Step, Arrive, FindClient, CreateClient, Choose, Assign, Save, Post, Add, GetOld, Delete, GetNew,
                Insert, Read, Copy, Tag, At
  <2>2. req[r].pc = "idle" => req'[r].pc = "begin"
    BY <1>8, ArriveIs DEF Step, FindClient, CreateClient, Choose, Assign, Save, Post, Add, GetOld, Delete, GetNew,
                Insert, Read, Copy, Tag, At, Base
  <2>3. ~Numbered(req'[r])
    BY <1>1, <2>1, <2>2 DEF Numbered, Goes, KeepsCall
  <2>4. QED
    BY <1>2, <1>8, <2>1, <2>3 DEF IdsInv
<1>9. QED
  BY <1>4, <1>5, <1>6, <1>7, <1>8

LEMMA TwiceFollows ==
  ASSUME Base, RowsInv, IdsInv
  PROVE  TwiceOnlyByRace
<1>1. DOMAIN proxies = 1 .. Len(proxies)
  BY RowIn
<1>2. SecondRowOnlyByRace
  BY <1>1 DEF SecondRowOnlyByRace, RowsInv, Seconds, Excused, ByCreation
<1>3. IdsApart
  BY DEF IdsApart, IdsInv, ResetDone, Numbered, Done
<1>4. QED
  BY <1>2, <1>3 DEF TwiceOnlyByRace

LEMMA InitTwice ==
  ASSUME Init
  PROVE  RowsInv /\ IdsInv
<1>1. \A r \in Requests : req[r].pc = "idle"
  BY DEF Init, Idle
<1>2. DOMAIN proxies = 1 .. Len(proxies) /\ DOMAIN proxies = 1 .. Len(Setup)
  BY InitBase, RowIn, Constants DEF Init
<1>3. \A p \in 1 .. Len(proxies) : proxies[p].url = Setup[p]
  BY <1>2 DEF Init, Row
<1>4. \A p, q \in 1 .. Len(proxies) : proxies[p].url = proxies[q].url => p = q
  BY <1>2, <1>3, Constants
<1>5. Seconds
  BY <1>2, <1>4 DEF Seconds
<1>6. QED
  BY <1>1, <1>5 DEF RowsInv, Looked, Missing, At, Holding, IdsInv, Numbered

LEMMA StutterTwice ==
  ASSUME RowsInv, IdsInv, UNCHANGED vars
  PROVE  RowsInv' /\ IdsInv'
<1>1. proxies' = proxies /\ req' = req /\ met' = met /\ counter' = counter
  BY DEF vars
<1>2. \A p : Revived(p)' <=> Revived(p)
  BY <1>1 DEF Revived, Granted, Done, Removing
<1>3. Seconds'
  BY <1>1, <1>2 DEF RowsInv, Seconds, Excused, ByCreation
<1>4. Looked'
  BY <1>1, <1>2 DEF RowsInv, Looked, At, NewUrl
<1>5. Missing'
  BY <1>1 DEF RowsInv, Missing, Holding, Removing
<1>6. IdsInv'
  BY <1>1 DEF IdsInv, ResetDone, Done, Numbered
<1>7. QED
  BY <1>3, <1>4, <1>5, <1>6 DEF RowsInv

\* A URL has two rows, or an id two clients, only by requests that ran at the same
\* time, a creation, a removed row that was saved, or a reset
\* (RealProxyUpdateView.post: get_or_create; IDAssignmentView.get: count).
THEOREM DoubledOnlyByRace == Spec => []TwiceOnlyByRace
<1>1. Init => Base /\ RowsInv /\ IdsInv
  BY InitBase, InitTwice
<1>2. Base /\ RowsInv /\ IdsInv /\ [Next]_vars => (Base /\ RowsInv /\ IdsInv)'
  <2>1. ASSUME Base, RowsInv, IdsInv, NEW r \in Requests, Step(r)
        PROVE  Base' /\ RowsInv' /\ IdsInv'
    BY <2>1, AnyGoes, RowsStep, IdsStep
  <2>2. ASSUME Base, RowsInv, IdsInv, UNCHANGED vars
        PROVE  Base' /\ RowsInv' /\ IdsInv'
    BY <2>2, StutterBase, StutterTwice
  <2>3. QED
    BY <2>1, <2>2 DEF Next
<1>3. Base /\ RowsInv /\ IdsInv => TwiceOnlyByRace
  BY TwiceFollows
<1>4. QED
  BY <1>1, <1>2, <1>3, PTL DEF Spec

-------------------------------------------------------------------------------
(***************************************************************************)
(* Swaps                                                                   *)
(***************************************************************************)

\* Whoever was assigned to the old row of element i, by the assignments b, is
\* assigned to the new one.
Finished(b, call, i) ==
  \A p \in DOMAIN b : Named(call.olds[i]) = {p} =>
    \A c \in b[p] : \E q \in Named(call.news[i]) : c \in ClientsOf(q)

\* How far the swap t is, that came when the assignments were b.
Swap(t, b) ==
  /\ \A i \in DOMAIN t.call.olds : i < t.i \/ t.pc = "answered" => Finished(b, t.call, i)
  /\ t.pc \in {"get", "insert", "read", "copy"} => t.old \in Named(t.call.olds[t.i])
  /\ t.pc \in {"read", "copy"} => t.new \in Named(t.call.news[t.i])
  /\ t.pc = "copy" /\ t.old \in DOMAIN b =>
       \A c \in b[t.old] : (\E x \in DOMAIN t.todo : x[2] = c) \/ c \in ClientsOf(t.new)

IsSwap(t) == t.call.kind = "update" /\ t.call.news # <<>>

\* Assignments that have been made since stay.
Since(b) == DOMAIN b \subseteq 1 .. Len(proxies) /\ \A p \in DOMAIN b : b[p] \subseteq ClientsOf(p)

AllThere == \A p \in 1 .. Len(proxies) : proxies[p].there

Swaps == AllThere /\ \A r \in Requests : Since(before[r]) /\ (IsSwap(req[r]) => Swap(req[r], before[r]))

TagInv == SomeRemoving \/ Swaps

LEMMA NamedStay ==
  ASSUME Base, AllThere, NEW r \in Requests, Tables(r), RowsStay, NEW u
  PROVE  /\ Named(u) \subseteq Named(u)'
         /\ \A p \in Named(u)' : p \in 1 .. Len(proxies) => p \in Named(u)
<1>1. DOMAIN proxies = 1 .. Len(proxies) /\ DOMAIN proxies' = 1 .. Len(proxies') /\ Len(proxies) \in Nat
  BY RowIn, LenProperties DEF Tables
<1>2. QED
  BY <1>1 DEF Named, Tables, RowsStay, AllThere

LEMMA ClientsStay ==
  ASSUME NEW r \in Requests, Tables(r), RowsStay, NEW p
  PROVE  ClientsOf(p) \subseteq ClientsOf(p)'
BY DEF ClientsOf, BagIn, BagToSet, Tables, RowsStay

LEMMA FinishedStays ==
  ASSUME Base, AllThere, NEW r \in Requests, Tables(r), RowsStay,
         NEW b, Since(b), NEW call, NEW i, Finished(b, call, i)
  PROVE  Finished(b, call, i)'
<1>1. ASSUME NEW p \in DOMAIN b, Named(call.olds[i])' = {p}, NEW c \in b[p]
      PROVE  \E q \in Named(call.news[i])' : c \in ClientsOf(q)'
  <2>1. p \in 1 .. Len(proxies)
    BY DEF Since
  <2>2. Named(call.olds[i]) = {p}
    BY <1>1, <2>1, NamedStay
  <2>3. PICK q \in Named(call.news[i]) : c \in ClientsOf(q)
    BY <2>2 DEF Finished
  <2>4. q \in Named(call.news[i])' /\ c \in ClientsOf(q)'
    BY <2>3, NamedStay, ClientsStay
  <2>5. QED
    BY <2>4
<1>2. QED
  BY <1>1 DEF Finished

LEMMA SwapStays ==
  ASSUME Base, AllThere, NEW r \in Requests, Tables(r), RowsStay, NEW t, NEW b, Since(b), Swap(t, b)
  PROVE  Swap(t, b)'
<1>1. \A i \in DOMAIN t.call.olds : i < t.i \/ t.pc = "answered" => Finished(b, t.call, i)'
  BY FinishedStays DEF Swap
<1>2. t.pc \in {"get", "insert", "read", "copy"} => t.old \in Named(t.call.olds[t.i])'
  BY NamedStay DEF Swap
<1>3. t.pc \in {"read", "copy"} => t.new \in Named(t.call.news[t.i])'
  BY NamedStay DEF Swap
<1>4. t.pc = "copy" /\ t.old \in DOMAIN b =>
        \A c \in b[t.old] : (\E x \in DOMAIN t.todo : x[2] = c) \/ c \in ClientsOf(t.new)'
  BY ClientsStay DEF Swap
<1>5. QED
  BY <1>1, <1>2, <1>3, <1>4 DEF Swap

LEMMA SinceStays ==
  ASSUME Base, NEW r \in Requests, Tables(r), RowsStay, NEW b, Since(b)
  PROVE  Since(b)'
<1>1. DOMAIN b \subseteq 1 .. Len(proxies')
  BY DEF Since, Tables
<1>2. QED
  BY <1>1, ClientsStay DEF Since

\* The handler's own step, given what still holds of it as it was.
SwapMoves(t, u, b) ==
  /\ \A i \in DOMAIN u.call.olds : i < u.i \/ u.pc = "answered" => i < t.i \/ Finished(b, t.call, i)'
  /\ u.pc \in {"get", "insert", "read", "copy"} => u.old \in Named(u.call.olds[u.i])'
  /\ u.pc \in {"read", "copy"} => u.new \in Named(u.call.news[u.i])'
  /\ u.pc = "copy" /\ u.old \in DOMAIN b =>
       \A c \in b[u.old] : (\E x \in DOMAIN u.todo : x[2] = c) \/ c \in ClientsOf(u.new)'

LEMMA SwapAfterMove ==
  ASSUME NEW t, NEW u, NEW b, u.call = t.call, Swap(t, b)', SwapMoves(t, u, b)
  PROVE  Swap(u, b)'
<1>1. \A i \in DOMAIN u.call.olds : i < u.i \/ u.pc = "answered" => Finished(b, u.call, i)'
  BY DEF Swap, SwapMoves
<1>2. QED
  BY <1>1 DEF Swap, SwapMoves

LEMMA SwapStep ==
  ASSUME Base, Swaps, NEW r \in Requests, Step(r), Goes(r), Tables(r), RowsStay, req[r].pc # "idle",
         IsSwap(req[r]), NEW t, t = req[r], NEW u, u = req'[r], NEW b, b = before[r]
  PROVE  SwapMoves(t, u, b)
<1>1. /\ t.call.kind = "update" /\ t.call.news # <<>> /\ u.call = t.call
      /\ OldUrl(r) = t.call.olds[t.i] /\ NewUrl(r) = t.call.news[t.i]
      /\ DOMAIN t.call.olds = 1 .. Len(t.call.olds) /\ Len(t.call.olds) \in Nat /\ AllThere
  BY HandlerFields, CallFields DEF IsSwap, Goes, KeepsCall, OldUrl, NewUrl, Base, Swaps
<1>2. UpdateShape(t, Len(proxies), clients) /\ Since(b) /\ Swap(t, b)
  BY <1>1, ShapeOf DEF Swaps
<1>3. Swap(t, b)'
  BY <1>1, <1>2, SwapStays
<1>4. /\ t.pc \in {"get", "insert", "read", "copy"} => t.old \in Named(t.call.olds[t.i])'
      /\ t.pc \in {"read", "copy"} => t.new \in Named(t.call.news[t.i])'
      /\ t.pc = "copy" /\ t.old \in DOMAIN b =>
           \A c \in b[t.old] : (\E x \in DOMAIN t.todo : x[2] = c) \/ c \in ClientsOf(t.new)'
  BY <1>3 DEF Swap
<1>5. CASE Only(r, "failed")
  BY <1>5 DEF SwapMoves, Only, KeepsPlace
<1>6. CASE Post(r)
  <2>1. t.pc = "begin" /\ t.i = 1 /\ (Only(r, "failed") \/ Only(r, "add") \/ Only(r, "swap") \/ Only(r, "remove"))
    BY <1>2, <1>6, PostIs DEF Base, At, UpdateShape
  <2>2. u.i = 1 /\ u.pc \in {"failed", "add", "swap", "remove"}
    BY <2>1 DEF Only, KeepsPlace
  <2>3. QED
    BY <1>1, <2>2 DEF SwapMoves
<1>7. CASE Add(r)
  <2>1. t.pc = "add" /\ u.pc \in {"add", "answered"}
    BY <1>7, AddIs DEF Base, At, Advances
  <2>2. DOMAIN t.call.olds = {}
    BY <1>2, <2>1 DEF UpdateShape
  <2>3. QED
    BY <1>1, <2>1, <2>2 DEF SwapMoves
<1>8. CASE GetOld(r, "swap", "get")
  <2>1. "get" \in Pcs
    BY DEF Pcs
  <2>2. Only(r, "failed") \/ FoundOld(r, "get")
    BY <1>8, <2>1, GetOldIs DEF Base
  <2>3. CASE FoundOld(r, "get")
    <3>1. u.i = t.i /\ u.pc = "get" /\ u.old \in Named(t.call.olds[t.i])
      BY <1>1, <2>3 DEF FoundOld, KeepsPlace
    <3>2. u.old \in Named(t.call.olds[t.i])'
      BY <1>1, <3>1, NamedStay
    <3>3. QED
      BY <1>1, <3>1, <3>2 DEF SwapMoves
  <2>4. QED
    BY <1>5, <2>2, <2>3
<1>9. CASE GetNew(r)
  <2>1. t.pc = "get" /\ (Only(r, "failed") \/ Only(r, "insert") \/ (FoundNew(r) /\ Named(NewUrl(r)) = {u.new}))
    BY <1>9, GetNewIs DEF Base, At
  <2>2. CASE Only(r, "insert")
    <3>1. u.i = t.i /\ u.pc = "insert" /\ u.old = t.old
      BY <2>2 DEF Only, KeepsPlace, KeepsRows
    <3>2. QED
      BY <1>1, <1>4, <2>1, <3>1 DEF SwapMoves
  <2>3. CASE FoundNew(r) /\ Named(NewUrl(r)) = {u.new}
    <3>1. u.i = t.i /\ u.pc = "read" /\ u.old = t.old /\ u.new \in Named(t.call.news[t.i])
      BY <1>1, <2>3 DEF FoundNew, KeepsPlace
    <3>2. u.new \in Named(t.call.news[t.i])'
      BY <1>1, <3>1, NamedStay
    <3>3. QED
      BY <1>1, <1>4, <2>1, <3>1, <3>2 DEF SwapMoves
  <2>4. QED
    BY <1>5, <2>1, <2>2, <2>3
<1>10. CASE Insert(r)
  <2>1. t.pc = "insert" /\ u.i = t.i /\ u.pc = "read" /\ u.old = t.old /\ u.new = Len(proxies) + 1
    BY <1>10, InsertIs DEF Base, At, FoundNew, KeepsPlace
  <2>2. /\ Len(proxies') = Len(proxies) + 1 /\ proxies'[Len(proxies) + 1] = Row(t.call.news[t.i], r)
        /\ Len(proxies) \in Nat /\ DOMAIN proxies' = 1 .. Len(proxies')
    BY <1>1, <1>10, InsertBase, RowIn, LenProperties DEF Tables
  <2>3. u.new \in Named(t.call.news[t.i])'
    BY <2>1, <2>2 DEF Named, Row
  <2>4. QED
    BY <1>1, <1>4, <2>1, <2>3 DEF SwapMoves
<1>11. CASE Read(r)
  <2>1. /\ t.pc = "read" /\ u.i = t.i /\ u.pc = "copy" /\ u.old = t.old /\ u.new = t.new
        /\ DOMAIN u.todo = {y \in DOMAIN rows : y[1] = t.old}
    BY <1>11, ReadIs DEF Base, At, KeepsPlace, KeepsRows
  <2>2. ASSUME t.old \in DOMAIN b, NEW c \in b[t.old]
        PROVE  \E x \in DOMAIN u.todo : x[2] = c
    <3>1. c \in ClientsOf(t.old)
      BY <1>2, <2>2 DEF Since
    <3>2. PICK x \in DOMAIN rows : x = <<t.old, c>>
      BY <3>1, RowIn
    <3>3. x[1] = t.old /\ x[2] = c
      BY <3>2
    <3>4. QED
      BY <2>1, <3>2, <3>3
  <2>3. QED
    BY <1>1, <1>4, <2>1, <2>2 DEF SwapMoves
<1>12. CASE Copy(r)
  <2>1. t.pc = "copy" /\ (Only(r, "failed") \/ \E x \in DOMAIN t.todo : CopiesRow(r, x))
    BY <1>12, CopyIs DEF Base, At
  <2>2. ASSUME NEW x \in DOMAIN t.todo, CopiesRow(r, x)
        PROVE  SwapMoves(t, u, b)
    <3>1. /\ u.i = t.i /\ u.pc = "copy" /\ u.old = t.old /\ u.new = t.new
          /\ DOMAIN t.todo \ {x} \subseteq DOMAIN u.todo
          /\ rows' = rows (+) SetToBag({<<t.new, x[2]>>})
      BY <2>2 DEF CopiesRow, KeepsPlace, KeepsRows
    <3>2. x[2] \in clients /\ t.new \in Nat /\ x[2] \in Clients
      BY <1>2, <2>1 DEF UpdateShape, Base, Types
    <3>3. <<t.new, x[2]>> \in DOMAIN rows' /\ clients \subseteq clients'
      <4>1. rows' = rows (+) SetToBag({<<t.new, x[2]>>}) /\ t.new \in Nat /\ x[2] \in Clients
        BY <3>1, <3>2
      <4>2. DOMAIN rows' = DOMAIN rows \cup {<<t.new, x[2]>>}
        BY <4>1, MoreRows
      <4>3. QED
        BY <4>2 DEF Tables
    <3>4. x[2] \in ClientsOf(t.new)'
      BY <3>2, <3>3 DEF ClientsOf, BagIn, BagToSet
    <3>5. ASSUME t.old \in DOMAIN b, NEW c \in b[t.old]
          PROVE  (\E y \in DOMAIN u.todo : y[2] = c) \/ c \in ClientsOf(t.new)'
      <4>1. (\E y \in DOMAIN t.todo : y[2] = c) \/ c \in ClientsOf(t.new)'
        BY <1>4, <2>1, <3>5
      <4>2. CASE c = x[2]
        BY <3>4, <4>2
      <4>3. CASE c # x[2]
        BY <3>1, <4>1, <4>3
      <4>4. QED
        BY <4>2, <4>3
    <3>6. QED
      BY <1>1, <1>4, <2>1, <3>1, <3>5 DEF SwapMoves
  <2>3. QED
    BY <1>5, <2>1, <2>2
<1>13. CASE Tag(r)
  <2>1. t.pc = "copy" /\ DOMAIN t.todo = {} /\ (Only(r, "failed") \/ Advances(r, "swap", Len(t.call.olds)))
    BY <1>1, <1>13, TagIs DEF Base, At
  <2>2. CASE Advances(r, "swap", Len(t.call.olds))
    <3>1. /\ t.i \in 1 .. Len(t.call.olds)
          /\ \/ t.i < Len(t.call.olds) /\ u.i = t.i + 1 /\ u.pc = "swap"
             \/ ~(t.i < Len(t.call.olds)) /\ u.i = t.i /\ u.pc = "answered"
      BY <1>2, <2>1, <2>2 DEF UpdateShape, Advances
    <3>2. Finished(b, t.call, t.i)'
      <4>1. ASSUME NEW p \in DOMAIN b, Named(t.call.olds[t.i])' = {p}, NEW c \in b[p]
            PROVE  \E q \in Named(t.call.news[t.i])' : c \in ClientsOf(q)'
        <5>1. p = t.old
          BY <1>4, <2>1, <4>1
        <5>2. c \in ClientsOf(t.new)'
          BY <1>4, <2>1, <4>1, <5>1
        <5>3. QED
          BY <1>4, <2>1, <5>2
      <4>2. QED
        BY <4>1 DEF Finished
    <3>3. \A i \in DOMAIN t.call.olds : i < u.i \/ u.pc = "answered" => i < t.i \/ i = t.i
      BY <1>1, <3>1
    <3>4. QED
      BY <1>1, <3>1, <3>2, <3>3 DEF SwapMoves
  <2>3. QED
    BY <1>5, <2>1, <2>2
<1>14. ~GetOld(r, "remove", "delete") /\ ~Delete(r)
  BY <1>1, <1>2 DEF GetOld, Delete, At, UpdateShape
<1>15. Post(r) \/ Add(r) \/ GetOld(r, "swap", "get") \/ GetNew(r) \/ Insert(r) \/ Read(r) \/ Copy(r) \/ Tag(r)
  BY <1>1, <1>14 DEF Step, Arrive, FindClient, CreateClient, Choose, Assign, Save, GetId, CountId, Reset, At
<1>16. QED
  BY <1>6, <1>7, <1>8, <1>9, <1>10, <1>11, <1>12, <1>13, <1>15

\* Only an arrival is written down.
LEMMA StepHistory ==
  ASSUME Base, NEW r \in Requests, Goes(r), Step(r), NEW s \in Requests, before'[s] # before[s]
  PROVE  Arrive(r) /\ s = r
<1>1. req[r].pc = "idle"
  BY DEF Goes
<1>2. Arrive(r)
  BY <1>1 DEF Step, FindClient, CreateClient, Choose, Assign, Save, Post, Add, GetOld, Delete, GetNew, Insert,
              Read, Copy, Tag, GetId, CountId, Reset, At
<1>3. before' = [before EXCEPT ![r] = [p \in DOMAIN proxies |-> ClientsOf(p)]] /\ DOMAIN before = Requests
  BY <1>2, ArriveIs DEF Base, Types
<1>4. QED
  BY <1>2, <1>3

LEMMA TagStep ==
  ASSUME Base, TagInv, NEW r \in Requests, Step(r)
  PROVE  TagInv'
<1>1. Goes(r) /\ Base' /\ Tables(r)
  BY AnyGoes
<1>2. CASE SomeRemoving
  BY <1>1, <1>2, SomeRemovingStays DEF TagInv
<1>3. CASE ~SomeRemoving /\ SomeRemoving'
  BY <1>3 DEF TagInv
<1>4. CASE ~SomeRemoving /\ ~SomeRemoving'
  <2>1. RowsStay /\ Swaps
    BY <1>1, <1>4 DEF Goes, SomeRemoving, TagInv
  <2>2. AllThere'
    <3>1. CASE proxies' = proxies
      BY <2>1, <3>1 DEF Swaps, AllThere
    <3>2. CASE Add(r) \/ Insert(r)
      <4>1. /\ Len(proxies') = Len(proxies) + 1 /\ proxies'[Len(proxies) + 1] = Row(NewUrl(r), r)
            /\ Len(proxies) \in Nat
        BY <3>2, AddBase, InsertBase, RowIn
      <4>2. proxies'[Len(proxies) + 1].there
        BY <4>1 DEF Row
      <4>3. QED
        BY <2>1, <4>1, <4>2 DEF Swaps, AllThere, RowsStay
    <3>3. CASE Save(r) \/ Delete(r)
      <4>1. Len(proxies') = Len(proxies)
        <5>1. CASE Save(r)
          <6>1. /\ At(r, "getnew", "save")
                /\ proxies' = [proxies EXCEPT ![req[r].new].room = req[r].read - 1, ![req[r].new].there = TRUE]
            BY <5>1, SaveIs DEF Base
          <6>2. req[r].new \in 1 .. Len(proxies) /\ req[r].read - 1 \in 0 .. Capacity
            BY <6>1, ShapeOf, Constants DEF At, GetNewShape
          <6>3. QED
            BY <6>1, <6>2, SavedRow DEF Base
        <5>2. CASE Delete(r)
          <6>1. At(r, "update", "delete") /\ proxies' = [proxies EXCEPT ![req[r].old].there = FALSE]
            BY <5>2, DeleteIs DEF Base
          <6>2. req[r].old \in 1 .. Len(proxies)
            BY <6>1, ShapeOf DEF At, UpdateShape
          <6>3. QED
            BY <6>1, <6>2, DeletedRow DEF Base
        <5>3. QED
          BY <3>3, <5>1, <5>2
      <4>2. QED
        BY <2>1, <4>1 DEF Swaps, AllThere, RowsStay
    <3>4. proxies' = proxies \/ Add(r) \/ Insert(r) \/ Save(r) \/ Delete(r)
      BY DEF Step, Arrive, FindClient, CreateClient, Choose, Assign, Post, GetOld, GetNew, Read, Copy, Tag, GetId,
             CountId, Reset
    <3>5. QED
      BY <3>1, <3>2, <3>3, <3>4
  <2>3. ASSUME NEW s \in Requests, NEW b, b = before'[s]
        PROVE  Since(b)'
    <3>1. CASE before'[s] = before[s]
      BY <2>1, <2>3, <3>1, <1>1, SinceStays DEF Swaps
    <3>2. CASE before'[s] # before[s]
      <4>1. Arrive(r)
        BY <1>1, <3>2, StepHistory
      <4>2. before' = [before EXCEPT ![r] = [p \in DOMAIN proxies |-> ClientsOf(p)]] /\ DOMAIN before = Requests
        BY <4>1, ArriveIs DEF Base, Types
      <4>3. s = r /\ b = [p \in DOMAIN proxies |-> ClientsOf(p)]
        BY <2>3, <3>2, <4>2
      <4>4. DOMAIN b = 1 .. Len(proxies) /\ \A p \in DOMAIN b : b[p] = ClientsOf(p)
        BY <4>3, RowIn
      <4>5. Since(b)
        BY <4>4 DEF Since
      <4>6. QED
        BY <1>1, <2>1, <4>5, SinceStays
    <3>3. QED
      BY <3>1, <3>2
  <2>4. ASSUME NEW s \in Requests, IsSwap(req'[s]), NEW b, b = before'[s], NEW u, u = req'[s]
        PROVE  Swap(u, b)'
    <3>1. CASE s # r
      <4>1. u = req[s] /\ b = before[s]
        BY <1>1, <2>4, <3>1, StepHistory DEF Goes, Local
      <4>2. Since(b) /\ Swap(u, b) /\ AllThere
        BY <2>1, <2>4, <4>1 DEF Swaps
      <4>3. QED
        BY <1>1, <2>1, <4>2, SwapStays
    <3>2. CASE s = r /\ req[r].pc # "idle"
      <4>1. PICK t : t = req[r]
        OBVIOUS
      <4>2. b = before[r] /\ t.call = u.call /\ IsSwap(req[r])
        BY <1>1, <2>4, <3>2, <4>1 DEF Goes, KeepsCall, IsSwap
      <4>3. SwapMoves(t, u, b)
        BY <1>1, <2>1, <2>4, <3>2, <4>1, <4>2, SwapStep
      <4>4. Since(b) /\ Swap(t, b) /\ AllThere
        BY <2>1, <4>1, <4>2 DEF Swaps
      <4>5. Swap(t, b)'
        BY <1>1, <2>1, <4>4, SwapStays
      <4>6. QED
        BY <4>2, <4>3, <4>5, SwapAfterMove
    <3>3. CASE s = r /\ req[r].pc = "idle"
      <4>1. Arrive(r)
        BY <3>3 DEF Step, FindClient, CreateClient, Choose, Assign, Save, Post, Add, GetOld, Delete, GetNew, Insert,
                    Read, Copy, Tag, GetId, CountId, Reset, At
      <4>2. u.pc = "begin" /\ u.i = 1
        BY <2>4, <3>3, <4>1, ArriveIs, ShapeOf DEF KeepsPlace, Base
      <4>3. u.call \in Calls \cup {NoCall} /\ u.call.kind = "update"
        BY <1>1, <2>4 DEF Base, Types, Handlers, IsSwap
      <4>4. DOMAIN u.call.olds = 1 .. Len(u.call.olds) /\ Len(u.call.olds) \in Nat
        BY <4>3, CallFields
      <4>5. QED
        BY <4>2, <4>4 DEF Swap
    <3>4. QED
      BY <3>1, <3>2, <3>3
  <2>5. Swaps'
    BY <2>2, <2>3, <2>4 DEF Swaps
  <2>6. QED
    BY <2>5 DEF TagInv
<1>5. QED
  BY <1>2, <1>3, <1>4

LEMMA InitTag ==
  ASSUME Init
  PROVE  TagInv
<1>1. \A r \in Requests : before[r] = <<>> /\ req[r].call.kind = "none"
  BY DEF Init, Idle
<1>2. DOMAIN proxies = 1 .. Len(proxies) /\ \A p \in DOMAIN proxies : proxies[p].there
  BY InitBase, RowIn DEF Init, Row
<1>3. \A r \in Requests : DOMAIN before[r] = {}
  BY <1>1
<1>4. QED
  BY <1>1, <1>2, <1>3 DEF TagInv, Swaps, AllThere, Since, IsSwap

LEMMA StutterTag ==
  ASSUME TagInv, UNCHANGED vars
  PROVE  TagInv'
<1>1. /\ proxies' = proxies /\ clients' = clients /\ rows' = rows /\ req' = req /\ before' = before
      /\ SomeRemoving' <=> SomeRemoving
  BY DEF vars, SomeRemoving, Removing
<1>2. \A u, p : Named(u)' = Named(u) /\ ClientsOf(p)' = ClientsOf(p)
  BY <1>1 DEF Named, ClientsOf
<1>3. \A b : Since(b) <=> Since(b)'
  BY <1>1, <1>2 DEF Since
<1>4. \A b, call, i : Finished(b, call, i) <=> Finished(b, call, i)'
  BY <1>2 DEF Finished
<1>5. \A t, b : Swap(t, b) => Swap(t, b)'
  BY <1>2, <1>4 DEF Swap
<1>6. QED
  BY <1>1, <1>3, <1>5 DEF TagInv, Swaps, AllThere

LEMMA TagFollows ==
  ASSUME Base, TagInv
  PROVE  TaggedAfterCopying
<1>1. ASSUME ~SomeRemoving, NEW r \in Requests, IsSwap(req[r]), NEW i \in DOMAIN req[r].call.olds,
             i < req[r].i \/ Done(r, "update")
      PROVE  Finished(before[r], req[r].call, i)
  <2>1. Swap(req[r], before[r])
    BY <1>1 DEF TagInv, Swaps
  <2>2. i < req[r].i \/ req[r].pc = "answered"
    BY <1>1 DEF Done
  <2>3. QED
    BY <1>1, <2>1, <2>2 DEF Swap
<1>2. QED
  BY <1>1 DEF TaggedAfterCopying, IsSwap, SomeRemoving, Finished

\* A tag sends clients on to a row that has all the assignments the old one had when
\* the swap came, whatever other handlers run beside it, as long as none removes
\* (RealProxyUpdateView.post, the loop before tag_resource).
THEOREM TagsComeLast == Spec => []TaggedAfterCopying
<1>1. Init => Base /\ TagInv
  BY InitBase, InitTag
<1>2. Base /\ TagInv /\ [Next]_vars => (Base /\ TagInv)'
  <2>1. ASSUME Base, TagInv, NEW r \in Requests, Step(r)
        PROVE  Base' /\ TagInv'
    BY <2>1, AnyGoes, TagStep
  <2>2. ASSUME Base, TagInv, UNCHANGED vars
        PROVE  Base' /\ TagInv'
    BY <2>2, StutterBase, StutterTag
  <2>3. QED
    BY <2>1, <2>2 DEF Next
<1>3. Base /\ TagInv => TaggedAfterCopying
  BY TagFollows
<1>4. QED
  BY <1>1, <1>2, <1>3, PTL DEF Spec

===============================================================================
