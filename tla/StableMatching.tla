---------------------------- MODULE StableMatching ----------------------------
(***************************************************************************)
(* What "the deferred acceptance algorithm from the Enem19 paper"          *)
(* (deferred_acceptance.py) promises: from the preferences of the clients  *)
(* and of the proxies it returns the stable matching that every client     *)
(* likes best.  Nothing is said of how it is found.                        *)
(***************************************************************************)
EXTENDS Naturals, Sequences, FiniteSets

CONSTANTS Clients, Proxies, Nobody

VARIABLES prefs,     \* prefs[c]: the proxies client c asks for, best first
          ranks,     \* ranks[p][c]: the place of c in the list of proxy p, 1 is best
          capacity,  \* capacity[p]: how many clients p takes
          result     \* the matching returned, <<>> before

vars == <<prefs, ranks, capacity, result>>

Pending == <<>>

Matchings == [Clients -> Proxies \cup {Nobody}]

Asked(c) == {prefs[c][i] : i \in DOMAIN prefs[c]}

\* The place of p in the list of c; no proxy at all comes after the last one.
Place(c, p) == IF p = Nobody THEN Len(prefs[c]) + 1
               ELSE CHOOSE i \in DOMAIN prefs[c] : prefs[c][i] = p

Taken(m, p) == {c \in Clients : m[c] = p}

Feasible(m) ==
  /\ \A c \in Clients : m[c] \in Asked(c) \cup {Nobody}
  /\ \A p \in Proxies : Cardinality(Taken(m, p)) <= capacity[p]

\* c and p would both rather have each other than what m gives them.
Blocks(m, c, p) ==
  /\ Place(c, p) < Place(c, m[c])
  /\ \/ Cardinality(Taken(m, p)) < capacity[p]
     \/ \E d \in Taken(m, p) : ranks[p][c] < ranks[p][d]

Stable(m) == /\ Feasible(m)
             /\ \A c \in Clients : \A p \in Asked(c) : ~Blocks(m, c, p)

StableMatchings == {m \in Matchings : Stable(m)}

\* A stable matching in which no client is worse off than in any other.
BestForClients ==
  LET all == StableMatchings
  IN  {m \in all : \A n \in all : \A c \in Clients : Place(c, m[c]) <= Place(c, n[c])}

Init == result = Pending

Return == /\ result = Pending
          /\ result' \in BestForClients
          /\ UNCHANGED <<prefs, ranks, capacity>>

Spec == Init /\ [][Return]_vars
===============================================================================
