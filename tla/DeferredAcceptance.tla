-------------------------- MODULE DeferredAcceptance --------------------------
(***************************************************************************)
(* get_matched_clients of scripts/deferred_acceptance.py, one action per   *)
(* turn of its inner loop.  A proxy's list is modelled by the rank of each *)
(* client in it (list.index), and the sorted list of those it has accepted *)
(* by their set: its last element is the one with the highest rank.  The   *)
(* loop goes through its copy of waiting_clients in any order, which       *)
(* includes the order of the list.                                         *)
(***************************************************************************)
EXTENDS Naturals, Sequences, FiniteSets, Functions

CONSTANTS Clients, Proxies,
          Nobody,      \* no proxy
          Capacities   \* the values of proxy.capacity in request_new_proxy

ASSUME MatchingAssumption ==
  /\ IsFiniteSet(Clients) /\ IsFiniteSet(Proxies)
  /\ Nobody \notin Proxies
  /\ Capacities \subseteq Nat \ {0}    \* active_proxies are filtered by capacity__gt=0

VARIABLES prefs,     \* client_prefrences at the call: proxies, best first
          ranks,     \* proxy_prefrences[p].index(c)
          capacity,  \* capacities
          asked,     \* how many elements client_prefrences[c].pop(0) has taken
          waiting,   \* waiting_clients
          pass,      \* the part of waiting_clients.copy() the for loop has still to visit
          accepted   \* assignment_results

input == <<prefs, ranks, capacity>>
vars  == <<prefs, ranks, capacity, asked, waiting, pass, accepted>>

Orders(S) == Bijection(1 .. Cardinality(S), S)

\* The local variables of the call: those who propose wait, nobody is accepted.
Started(proposing) ==
  /\ asked    = [c \in Clients |-> 0]
  /\ waiting  = proposing
  /\ pass     = {}
  /\ accepted = [p \in Proxies |-> {}]

Init ==
  /\ prefs    \in [Clients -> Orders(Proxies)]
  /\ ranks    \in [Proxies -> Bijection(Clients, 1 .. Cardinality(Clients))]
  /\ capacity \in [Proxies -> Capacities]
  /\ Started(Clients)
-------------------------------------------------------------------------------

HasRoom(p) == Cardinality(accepted[p]) < capacity[p]

\* Mutant of Last: assignment_results[choice][0] instead of [-1].
First(p, d) == d \in accepted[p] /\ \A e \in accepted[p] : ranks[p][d] <= ranks[p][e]

Last(p, d) == d \in accepted[p] /\ \A e \in accepted[p] : ranks[p][e] <= ranks[p][d]

\* while waiting_clients: for student in waiting_clients.copy()
NextPass ==
  /\ pass = {} /\ waiting # {}
  /\ pass' = waiting
  /\ UNCHANGED <<prefs, ranks, capacity, asked, waiting, accepted>>

\* if not client_prefrences[student]: nobody left to ask
GiveUp(c) ==
  /\ asked[c] = Len(prefs[c])
  /\ waiting' = waiting \ {c}
  /\ UNCHANGED <<prefs, ranks, capacity, asked, accepted>>

Choice(c) == prefs[c][asked[c] + 1]

\* Mutant of Ask: the choice is read and not popped.
AskWithoutPop(c) == /\ asked[c] < Len(prefs[c])
                    /\ UNCHANGED <<prefs, ranks, capacity, asked>>

Ask(c) == /\ asked[c] < Len(prefs[c])
          /\ asked' = [asked EXCEPT ![c] = @ + 1]
          /\ UNCHANGED <<prefs, ranks, capacity>>

Accept(c) ==
  /\ Ask(c)
  /\ HasRoom(Choice(c))
  /\ accepted' = [accepted EXCEPT ![Choice(c)] = @ \cup {c}]
  /\ waiting'  = waiting \ {c}

\* Mutant of Displace: the one pushed out is not put back to wait.
DisplaceForgotten(c, d) ==
  /\ Ask(c)
  /\ ~HasRoom(Choice(c)) /\ Last(Choice(c), d)
  /\ ranks[Choice(c)][c] < ranks[Choice(c)][d]
  /\ accepted' = [accepted EXCEPT ![Choice(c)] = (@ \ {d}) \cup {c}]
  /\ waiting'  = waiting \ {c}

\* The new one is liked better than the last one accepted, who waits again.
Displace(c, d) ==
  /\ Ask(c)
  /\ ~HasRoom(Choice(c)) /\ Last(Choice(c), d)
  /\ ranks[Choice(c)][c] < ranks[Choice(c)][d]
  /\ accepted' = [accepted EXCEPT ![Choice(c)] = (@ \ {d}) \cup {c}]
  /\ waiting'  = (waiting \ {c}) \cup {d}

Refuse(c, d) ==
  /\ Ask(c)
  /\ ~HasRoom(Choice(c)) /\ Last(Choice(c), d)
  /\ ~(ranks[Choice(c)][c] < ranks[Choice(c)][d])
  /\ UNCHANGED <<accepted, waiting>>

Turn(c) == /\ c \in pass
           /\ pass' = pass \ {c}
           /\ \/ GiveUp(c)
              \/ Accept(c)
              \/ \E d \in Clients : Displace(c, d)
              \/ \E d \in Clients : Refuse(c, d)

Next == NextPass \/ \E c \in Clients : Turn(c)

Spec == Init /\ [][Next]_vars

\* The loop is sequential code: it goes on as long as it can.
FairSpec == Spec /\ WF_vars(Next)

Finished == waiting = {} /\ pass = {}
-------------------------------------------------------------------------------
(***************************************************************************)
(* Properties                                                              *)
(***************************************************************************)

\* Every variable has its type; who is still to be visited in a pass waits.
TypeOK ==
  /\ prefs \in [Clients -> Seq(Proxies)]
  /\ ranks \in [Proxies -> [Clients -> Nat]]
  /\ capacity \in [Proxies -> Nat]
  /\ asked \in [Clients -> Nat] /\ \A c \in Clients : asked[c] <= Len(prefs[c])
  /\ waiting \subseteq Clients /\ pass \subseteq waiting
  /\ accepted \in [Proxies -> SUBSET Clients]

\* However often clients push each other out, no proxy ever holds more than its
\* capacity (request_new_proxy subtracts the number of those matched from it).
WithinCapacity == \A p \in Proxies : Cardinality(accepted[p]) <= capacity[p]

\* A client holds at most one place, and none while it waits: one that was
\* pushed out and asks on may not be left behind in a list.
OnePlace ==
  /\ \A p, q \in Proxies : p # q => accepted[p] \cap accepted[q] = {}
  /\ \A p \in Proxies : accepted[p] \cap waiting = {}

\* A proxy that has turned a client down, or pushed it out, never regrets it:
\* it stays full, and of clients it likes better.
NoRegret ==
  \A c \in Clients : \A i \in 1 .. asked[c] :
    LET p == prefs[c][i]
    IN  \/ c \in accepted[p]
        \/ /\ ~HasRoom(p)
           /\ \A d \in accepted[p] : ranks[p][d] < ranks[p][c]

\* Nobody is dropped from waiting_clients without a place unless every proxy of
\* its list has turned it down.
NobodyDropped ==
  \A c \in Clients : c \in waiting \/ asked[c] = Len(prefs[c])
                     \/ \E p \in Proxies : c \in accepted[p]

\* The clients that may ask p.
Listed(p) == {c \in Clients : \E i \in 1 .. Len(prefs[c]) : prefs[c][i] = p}

\* sorted() has no ties between two clients: each has one place in the list of a proxy
\* it may ask.
RanksApart == \A p \in Proxies : \A c, d \in Listed(p) : ranks[p][c] = ranks[p][d] => c = d

\* Nobody is given a proxy it did not ask for.
OnlyListed == \A p \in Proxies : accepted[p] \subseteq Listed(p)

\* The inductive invariant, of which the properties above are the parts: a refusal
\* is final because a full proxy only ever changes for the better.
IInv ==
  TypeOK /\ RanksApart /\ OnlyListed /\ WithinCapacity /\ OnePlace /\ NoRegret /\ NobodyDropped

\* Every call returns, although those pushed out are put back in the list the
\* outer loop waits for.
Returns == <>Finished
-------------------------------------------------------------------------------
\* What the call returns once it has finished, as one matching.
Result == IF Finished
          THEN [c \in Clients |-> IF \E p \in Proxies : c \in accepted[p]
                                  THEN CHOOSE p \in Proxies : c \in accepted[p]
                                  ELSE Nobody]
          ELSE <<>>

Abstract == INSTANCE StableMatching WITH result <- Result

\* Refinement: the matching returned is the stable one that is best for the
\* clients, whatever the order in which they were visited.
ImplementsStableMatching == Abstract!Spec
===============================================================================
