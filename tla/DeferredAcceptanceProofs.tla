------------------------ MODULE DeferredAcceptanceProofs ------------------------
(***************************************************************************)
(* What get_matched_clients guarantees for all finite sets of clients and  *)
(* proxies, all their preferences and all capacities.                      *)
(***************************************************************************)
EXTENDS DeferredAcceptance, FiniteSetTheorems, TLAPS

\* The lists the loop keeps are of finitely many clients.
LEMMA AcceptedFinite ==
  ASSUME TypeOK, NEW p \in Proxies
  PROVE  IsFiniteSet(accepted[p]) /\ Cardinality(accepted[p]) \in Nat
<1>1. accepted[p] \in SUBSET Clients
  BY DEF TypeOK
<1>2. QED
  BY <1>1, FS_Subset, FS_CardinalityType, MatchingAssumption

\* A list of preferences is a sequence without gaps.
LEMMA OrdersAreSeqs ==
  ASSUME NEW f \in Orders(Proxies)
  PROVE  f \in Seq(Proxies) /\ Len(f) \in Nat
<1>1. Cardinality(Proxies) \in Nat
  BY FS_CardinalityType, MatchingAssumption
<1>2. f \in [1 .. Cardinality(Proxies) -> Proxies]
  BY DEF Orders, Bijection, Injection
<1>3. QED
  BY <1>1, <1>2

\* The call begins with empty lists, nobody asked and everybody waiting.
LEMMA InitIInv == Init => IInv
<1> SUFFICES ASSUME Init PROVE IInv
  OBVIOUS
<1>1. prefs \in [Clients -> Seq(Proxies)] /\ \A c \in Clients : Len(prefs[c]) \in Nat
  BY OrdersAreSeqs DEF Init
<1>2. ranks \in [Proxies -> [Clients -> Nat]] /\ RanksApart
  <2>1. Cardinality(Clients) \in Nat
    BY FS_CardinalityType, MatchingAssumption
  <2>2. ASSUME NEW p \in Proxies
        PROVE  /\ ranks[p] \in [Clients -> Nat]
               /\ \A c, d \in Clients : ranks[p][c] = ranks[p][d] => c = d
    <3>1. ranks[p] \in Bijection(Clients, 1 .. Cardinality(Clients))
      BY DEF Init
    <3>2. /\ ranks[p] \in [Clients -> 1 .. Cardinality(Clients)]
          /\ \A c, d \in Clients : ranks[p][c] = ranks[p][d] => c = d
      BY <3>1 DEF Bijection, Injection, IsInjective
    <3>3. QED
      BY <2>1, <3>2
  <2>3. QED
    BY <2>2 DEF Init, RanksApart, Listed
<1>3. capacity \in [Proxies -> Nat]
  BY MatchingAssumption DEF Init
<1>4. TypeOK
  BY <1>1, <1>2, <1>3 DEF Init, Started, TypeOK
<1>5. WithinCapacity
  BY <1>3, FS_EmptySet DEF Init, Started, WithinCapacity
<1>6. OnlyListed /\ OnePlace /\ NoRegret /\ NobodyDropped
  BY DEF Init, Started, OnlyListed, OnePlace, NoRegret, NobodyDropped
<1>7. QED
  BY <1>2, <1>4, <1>5, <1>6 DEF IInv

\* A pass of the for loop goes through a copy of waiting_clients.
LEMMA NextPassKeepsIInv ==
  ASSUME IInv, NextPass PROVE IInv'
BY DEF IInv, NextPass, TypeOK, RanksApart, OnlyListed, Listed, WithinCapacity, OnePlace, NoRegret, NobodyDropped, HasRoom

\* The lists are not changed by the call.
LEMMA ListsStay ==
  ASSUME IInv, prefs' = prefs, ranks' = ranks
  PROVE  /\ \A q \in Proxies : Listed(q)' = Listed(q)
         /\ RanksApart'
<1>1. \A q \in Proxies : Listed(q)' = Listed(q)
  BY DEF Listed
<1>2. QED
  BY <1>1 DEF IInv, RanksApart

\* What every turn of the loop leaves alone, and what pop(0) does.
LEMMA AskTypes ==
  ASSUME IInv, NEW c \in pass, Ask(c)
  PROVE  /\ c \in Clients /\ c \in waiting
         /\ Choice(c) \in Proxies /\ c \in Listed(Choice(c))
         /\ c \notin accepted[Choice(c)]
         /\ asked \in [Clients -> Nat]
         /\ asked' \in [Clients -> Nat] /\ \A e \in Clients : asked'[e] <= Len(prefs[e])
         /\ \A e \in Clients : asked'[e] = IF e = c THEN asked[c] + 1 ELSE asked[e]
         /\ prefs' = prefs /\ ranks' = ranks /\ capacity' = capacity
<1>0. asked \in [Clients -> Nat]
  BY DEF IInv, TypeOK
<1>1. c \in Clients /\ c \in waiting /\ prefs[c] \in Seq(Proxies) /\ asked[c] \in Nat
  BY DEF IInv, TypeOK
<1>2. asked[c] < Len(prefs[c]) /\ asked' = [asked EXCEPT ![c] = @ + 1]
  BY DEF Ask
<1>3. Choice(c) \in Proxies /\ c \in Listed(Choice(c))
  BY <1>1, <1>2 DEF Choice, Listed
<1>4. c \notin accepted[Choice(c)]
  BY <1>1, <1>3 DEF IInv, OnePlace
<1>5. \A e \in Clients : asked'[e] = IF e = c THEN asked[c] + 1 ELSE asked[e]
  BY <1>1, <1>2 DEF IInv, TypeOK
<1>6. asked' \in [Clients -> Nat]
  BY <1>1, <1>2 DEF IInv, TypeOK
<1>7. \A e \in Clients : asked'[e] <= Len(prefs[e])
  BY <1>1, <1>2, <1>5 DEF IInv, TypeOK
<1>8. prefs' = prefs /\ ranks' = ranks /\ capacity' = capacity
  BY DEF Ask
<1>9. QED
  BY <1>0, <1>1, <1>3, <1>4, <1>5, <1>6, <1>7, <1>8

\* A client whose list is used up stops waiting.
LEMMA GiveUpKeepsIInv ==
  ASSUME IInv, NEW c \in pass, pass' = pass \ {c}, GiveUp(c)
  PROVE  IInv'
<1> USE DEF GiveUp
<1>1. TypeOK'
  BY DEF IInv, TypeOK
<1>2. RanksApart' /\ OnlyListed' /\ WithinCapacity' /\ OnePlace' /\ NoRegret'
  BY DEF IInv, RanksApart, OnlyListed, Listed, WithinCapacity, OnePlace, NoRegret, HasRoom
<1>3. NobodyDropped'
  BY DEF IInv, NobodyDropped
<1>4. QED
  BY <1>1, <1>2, <1>3 DEF IInv

\* A proxy with a free place takes whoever asks.
LEMMA AcceptKeepsIInv ==
  ASSUME IInv, NEW c \in pass, pass' = pass \ {c}, Accept(c)
  PROVE  IInv'
<1>p. PICK p : p = Choice(c)
  OBVIOUS
<1>1. /\ Ask(c) /\ HasRoom(p)
      /\ accepted' = [accepted EXCEPT ![p] = @ \cup {c}]
      /\ waiting' = waiting \ {c}
  BY <1>p DEF Accept
<1>2. /\ c \in Clients /\ c \in waiting /\ p \in Proxies /\ c \in Listed(p) /\ c \notin accepted[p]
      /\ asked \in [Clients -> Nat]
      /\ asked' \in [Clients -> Nat] /\ \A e \in Clients : asked'[e] <= Len(prefs[e])
      /\ \A e \in Clients : asked'[e] = IF e = c THEN asked[c] + 1 ELSE asked[e]
      /\ prefs' = prefs /\ ranks' = ranks /\ capacity' = capacity
  BY <1>p, <1>1, AskTypes
<1>3. /\ accepted' \in [Proxies -> SUBSET Clients]
      /\ \A q \in Proxies : accepted'[q] = IF q = p THEN accepted[p] \cup {c} ELSE accepted[q]
  BY <1>1, <1>2 DEF IInv, TypeOK
<1>4. TypeOK' /\ RanksApart' /\ OnlyListed'
  <2>1. TypeOK'
    BY <1>1, <1>2, <1>3 DEF IInv, TypeOK
  <2>2. QED
    BY <1>2, <1>3, <2>1, ListsStay DEF IInv, OnlyListed
<1>5. WithinCapacity'
  <2>1. IsFiniteSet(accepted[p]) /\ Cardinality(accepted[p]) \in Nat
    BY <1>2, AcceptedFinite DEF IInv
  <2>2. Cardinality(accepted[p] \cup {c}) = Cardinality(accepted[p]) + 1
    BY <1>2, <2>1, FS_AddElement
  <2>3. Cardinality(accepted'[p]) <= capacity[p]
    BY <1>1, <1>2, <1>3, <2>1, <2>2 DEF HasRoom, IInv, TypeOK
  <2>4. QED
    BY <1>2, <1>3, <2>3 DEF IInv, WithinCapacity
<1>6. OnePlace'
  BY <1>1, <1>2, <1>3 DEF IInv, OnePlace
<1>7. NoRegret'
  <2> SUFFICES ASSUME NEW e \in Clients, NEW i \in 1 .. asked'[e]
               PROVE  \/ e \in accepted'[prefs[e][i]]
                      \/ /\ ~HasRoom(prefs[e][i])'
                         /\ \A d \in accepted'[prefs[e][i]] : ranks[prefs[e][i]][d] < ranks[prefs[e][i]][e]
    BY <1>2 DEF NoRegret, HasRoom
  <2> DEFINE q == prefs[e][i]
  <2>1. q \in Proxies
    BY <1>2 DEF IInv, TypeOK
  <2>2. CASE e = c /\ i = asked[c] + 1
    BY <1>p, <1>2, <1>3, <2>2 DEF Choice
  <2>3. CASE ~(e = c /\ i = asked[c] + 1)
    <3>1. i \in 1 .. asked[e]
      BY <1>2, <2>3
    <3>2. \/ e \in accepted[q]
          \/ ~HasRoom(q) /\ \A d \in accepted[q] : ranks[q][d] < ranks[q][e]
      BY <3>1 DEF IInv, NoRegret
    <3>3. CASE q = p
      BY <1>1, <1>2, <1>3, <3>2, <3>3
    <3>4. CASE q # p
      BY <1>2, <1>3, <2>1, <3>2, <3>4 DEF HasRoom
    <3>5. QED
      BY <3>3, <3>4
  <2>4. QED
    BY <2>2, <2>3
<1>8. NobodyDropped'
  BY <1>1, <1>2, <1>3 DEF IInv, NobodyDropped
<1>9. QED
  BY <1>4, <1>5, <1>6, <1>7, <1>8 DEF IInv

\* A full proxy exchanges the last client it accepted for a better one.
LEMMA DisplaceKeepsIInv ==
  ASSUME IInv, NEW c \in pass, pass' = pass \ {c}, NEW d \in Clients, Displace(c, d)
  PROVE  IInv'
<1>p. PICK p : p = Choice(c)
  OBVIOUS
<1>1. /\ Ask(c) /\ ~HasRoom(p) /\ Last(p, d) /\ ranks[p][c] < ranks[p][d]
      /\ accepted' = [accepted EXCEPT ![p] = (@ \ {d}) \cup {c}]
      /\ waiting' = (waiting \ {c}) \cup {d}
  BY <1>p DEF Displace
<1>2. /\ c \in Clients /\ c \in waiting /\ p \in Proxies /\ c \in Listed(p) /\ c \notin accepted[p]
      /\ asked \in [Clients -> Nat]
      /\ asked' \in [Clients -> Nat] /\ \A e \in Clients : asked'[e] <= Len(prefs[e])
      /\ \A e \in Clients : asked'[e] = IF e = c THEN asked[c] + 1 ELSE asked[e]
      /\ prefs' = prefs /\ ranks' = ranks /\ capacity' = capacity
  BY <1>p, <1>1, AskTypes
<1>3. /\ accepted' \in [Proxies -> SUBSET Clients]
      /\ \A q \in Proxies : accepted'[q] = IF q = p THEN (accepted[p] \ {d}) \cup {c} ELSE accepted[q]
  BY <1>1, <1>2 DEF IInv, TypeOK
<1>4. d \in accepted[p] /\ \A e \in accepted[p] : ranks[p][e] <= ranks[p][d]
  BY <1>1 DEF Last
<1>5. ranks[p] \in [Clients -> Nat] /\ accepted[p] \subseteq Clients
  BY <1>2 DEF IInv, TypeOK
<1>6. d \notin waiting /\ d # c /\ \A q \in Proxies : d \in accepted[q] => q = p
  BY <1>2, <1>4 DEF IInv, OnePlace
<1>7. TypeOK' /\ RanksApart' /\ OnlyListed'
  <2>1. /\ waiting \subseteq Clients /\ pass \subseteq waiting
        /\ prefs \in [Clients -> Seq(Proxies)] /\ capacity \in [Proxies -> Nat]
        /\ ranks \in [Proxies -> [Clients -> Nat]] /\ RanksApart /\ OnlyListed
    BY DEF IInv, TypeOK
  <2>2. waiting' \subseteq Clients /\ pass' \subseteq waiting'
    BY <1>1, <1>2, <2>1
  <2>3. QED
    <3>1. TypeOK'
      BY <1>2, <1>3, <2>1, <2>2 DEF TypeOK
    <3>2. RanksApart' /\ \A q \in Proxies : Listed(q)' = Listed(q)
      BY <1>2, ListsStay
    <3>3. ASSUME NEW q \in Proxies, NEW x \in accepted'[q] PROVE x \in Listed(q)
      BY <1>2, <1>3, <2>1, <3>3 DEF OnlyListed
    <3>4. QED
      BY <3>1, <3>2, <3>3 DEF OnlyListed
<1>8. Cardinality(accepted'[p]) = Cardinality(accepted[p])
  <2>1. IsFiniteSet(accepted[p]) /\ Cardinality(accepted[p]) \in Nat
    BY <1>2, AcceptedFinite DEF IInv
  <2>2. /\ IsFiniteSet(accepted[p] \ {d})
        /\ Cardinality(accepted[p] \ {d}) = Cardinality(accepted[p]) - 1
    BY <1>4, <2>1, FS_RemoveElement
  <2>3. Cardinality((accepted[p] \ {d}) \cup {c}) = Cardinality(accepted[p] \ {d}) + 1
    BY <1>2, <2>2, FS_AddElement
  <2>4. Cardinality((accepted[p] \ {d}) \cup {c}) = Cardinality(accepted[p])
    BY <2>1, <2>2, <2>3
  <2>5. QED
    BY <1>2, <1>3, <2>4
<1>9. WithinCapacity'
  BY <1>2, <1>3, <1>8 DEF IInv, WithinCapacity
<1>10. OnePlace'
  BY <1>1, <1>2, <1>3, <1>6 DEF IInv, OnePlace
<1>11. NoRegret'
  <2> SUFFICES ASSUME NEW e \in Clients, NEW i \in 1 .. asked'[e]
               PROVE  \/ e \in accepted'[prefs[e][i]]
                      \/ /\ ~HasRoom(prefs[e][i])'
                         /\ \A x \in accepted'[prefs[e][i]] : ranks[prefs[e][i]][x] < ranks[prefs[e][i]][e]
    BY <1>2 DEF NoRegret, HasRoom
  <2> DEFINE q == prefs[e][i]
  <2>1. q \in Proxies
    BY <1>2 DEF IInv, TypeOK
  <2>2. CASE e = c /\ i = asked[c] + 1
    BY <1>p, <1>2, <1>3, <2>2 DEF Choice
  <2>3. CASE ~(e = c /\ i = asked[c] + 1)
    <3>1. i \in 1 .. asked[e]
      BY <1>2, <2>3
    <3>2. \/ e \in accepted[q]
          \/ ~HasRoom(q) /\ \A x \in accepted[q] : ranks[q][x] < ranks[q][e]
      BY <3>1 DEF IInv, NoRegret
    <3>3. CASE q # p
      BY <1>2, <1>3, <2>1, <3>2, <3>3 DEF HasRoom
    <3>4. CASE q = p
      <4>1. ~HasRoom(p)'
        BY <1>1, <1>2, <1>8 DEF HasRoom
      <4>2. CASE e = d
        <5>1. \A x \in accepted[p] \ {d} : ranks[p][x] < ranks[p][d]
          BY <1>2, <1>4, <1>5 DEF IInv, RanksApart, OnlyListed
        <5>2. QED
          BY <1>1, <1>2, <1>3, <3>4, <4>1, <4>2, <5>1
      <4>3. CASE e \in accepted[p] /\ e # d
        BY <1>2, <1>3, <3>4, <4>3
      <4>4. CASE e \notin accepted[p]
        <5>1. \A x \in accepted[p] : ranks[p][x] < ranks[p][e]
          BY <3>2, <3>4, <4>4
        <5>2. ranks[p][c] < ranks[p][e]
          BY <1>1, <1>2, <1>4, <1>5, <5>1
        <5>3. QED
          BY <1>2, <1>3, <3>4, <4>1, <5>1, <5>2
      <4>5. QED
        BY <1>4, <4>2, <4>3, <4>4
    <3>5. QED
      BY <3>3, <3>4
  <2>4. QED
    BY <2>2, <2>3
<1>12. NobodyDropped'
  BY <1>1, <1>2, <1>3 DEF IInv, NobodyDropped
<1>13. QED
  BY <1>7, <1>9, <1>10, <1>11, <1>12 DEF IInv

\* A full proxy that likes all it has better turns the client down.
LEMMA RefuseKeepsIInv ==
  ASSUME IInv, NEW c \in pass, pass' = pass \ {c}, NEW d \in Clients, Refuse(c, d)
  PROVE  IInv'
<1>p. PICK p : p = Choice(c)
  OBVIOUS
<1>1. /\ Ask(c) /\ ~HasRoom(p) /\ Last(p, d) /\ ~(ranks[p][c] < ranks[p][d])
      /\ accepted' = accepted /\ waiting' = waiting
  BY <1>p DEF Refuse
<1>2. /\ c \in Clients /\ c \in waiting /\ p \in Proxies /\ c \in Listed(p) /\ c \notin accepted[p]
      /\ asked \in [Clients -> Nat]
      /\ asked' \in [Clients -> Nat] /\ \A e \in Clients : asked'[e] <= Len(prefs[e])
      /\ \A e \in Clients : asked'[e] = IF e = c THEN asked[c] + 1 ELSE asked[e]
      /\ prefs' = prefs /\ ranks' = ranks /\ capacity' = capacity
  BY <1>p, <1>1, AskTypes
<1>3. \A e \in accepted[p] : ranks[p][e] <= ranks[p][d]
  BY <1>1 DEF Last
<1>4. ranks[p] \in [Clients -> Nat] /\ accepted[p] \subseteq Clients
  BY <1>2 DEF IInv, TypeOK
<1>5. TypeOK' /\ RanksApart' /\ OnlyListed' /\ WithinCapacity' /\ OnePlace'
  <2>1. TypeOK' /\ WithinCapacity' /\ OnePlace'
    BY <1>1, <1>2 DEF IInv, TypeOK, WithinCapacity, OnePlace
  <2>2. QED
    BY <1>1, <1>2, <2>1, ListsStay DEF IInv, OnlyListed
<1>6. \A x \in accepted[p] : ranks[p][x] < ranks[p][c]
  BY <1>1, <1>2, <1>3, <1>4 DEF IInv, RanksApart, OnlyListed
<1>7. NoRegret'
  <2> SUFFICES ASSUME NEW e \in Clients, NEW i \in 1 .. asked'[e]
               PROVE  \/ e \in accepted[prefs[e][i]]
                      \/ /\ ~HasRoom(prefs[e][i])
                         /\ \A x \in accepted[prefs[e][i]] : ranks[prefs[e][i]][x] < ranks[prefs[e][i]][e]
    BY <1>1, <1>2 DEF NoRegret, HasRoom
  <2>1. CASE e = c /\ i = asked[c] + 1
    BY <1>p, <1>1, <1>6, <2>1 DEF Choice
  <2>2. CASE ~(e = c /\ i = asked[c] + 1)
    <3>1. i \in 1 .. asked[e]
      BY <1>2, <2>2
    <3>2. QED
      BY <3>1 DEF IInv, NoRegret
  <2>3. QED
    BY <2>1, <2>2
<1>8. NobodyDropped'
  BY <1>1, <1>2 DEF IInv, NobodyDropped
<1>9. QED
  BY <1>5, <1>7, <1>8 DEF IInv

\* Every turn of the loop keeps it, for the lists and capacities of any call.
LEMMA NextKeepsIInv == ASSUME IInv, Next PROVE IInv'
<1>1. CASE NextPass
  BY <1>1, NextPassKeepsIInv
<1>2. ASSUME NEW c \in Clients, Turn(c) PROVE IInv'
  <2>1. c \in pass /\ pass' = pass \ {c}
    BY <1>2 DEF Turn
  <2>2. CASE GiveUp(c)
    BY <2>1, <2>2, GiveUpKeepsIInv
  <2>3. CASE Accept(c)
    BY <2>1, <2>3, AcceptKeepsIInv
  <2>4. ASSUME NEW d \in Clients, Displace(c, d) PROVE IInv'
    BY <2>1, <2>4, DisplaceKeepsIInv
  <2>5. ASSUME NEW d \in Clients, Refuse(c, d) PROVE IInv'
    BY <2>1, <2>5, RefuseKeepsIInv
  <2>6. QED
    BY <1>2, <2>2, <2>3, <2>4, <2>5 DEF Turn
<1>3. QED
  BY <1>1, <1>2 DEF Next

\* The inductive invariant of get_matched_clients: whoever pushes whom out, and in
\* whatever order the loop visits the clients.
THEOREM MatchingInvariant == Spec => []IInv
<1>1. ASSUME IInv, UNCHANGED vars PROVE IInv'
  BY <1>1 DEF vars, IInv, TypeOK, RanksApart, OnlyListed, Listed, WithinCapacity, OnePlace,
              NoRegret, NobodyDropped, HasRoom
<1>2. QED
  BY InitIInv, NextKeepsIInv, <1>1, PTL DEF Spec

\* The state of the call is well-formed.
THEOREM MatchingTypeOK == Spec => []TypeOK
<1>1. IInv => TypeOK
  BY DEF IInv
<1>2. QED
  BY MatchingInvariant, <1>1, PTL

\* No proxy is ever matched with more clients than its capacity.
THEOREM MatchingWithinCapacity == Spec => []WithinCapacity
<1>1. IInv => WithinCapacity
  BY DEF IInv
<1>2. QED
  BY MatchingInvariant, <1>1, PTL

\* No client ever holds two places, nor waits while it holds one.
THEOREM MatchingOnePlace == Spec => []OnePlace
<1>1. IInv => OnePlace
  BY DEF IInv
<1>2. QED
  BY MatchingInvariant, <1>1, PTL

\* A proxy that has turned a client down stays full, of clients it likes better.
THEOREM MatchingNoRegret == Spec => []NoRegret
<1>1. IInv => NoRegret
  BY DEF IInv
<1>2. QED
  BY MatchingInvariant, <1>1, PTL

\* A client that neither waits nor has a place has asked every proxy of its list.
THEOREM MatchingNobodyDropped == Spec => []NobodyDropped
<1>1. IInv => NobodyDropped
  BY DEF IInv
<1>2. QED
  BY MatchingInvariant, <1>1, PTL

-------------------------------------------------------------------------------
(***************************************************************************)
(* The refinement: what the call returns is the stable matching that every *)
(* client likes best.                                                      *)
(***************************************************************************)

\* A client's list names every proxy once (request_new_proxy ranks them all).
ListsWhole == prefs \in [Clients -> Orders(Proxies)]

\* The proxy that holds a client is the last one it asked.
HeldIsLastAsked ==
  \A c \in Clients : \A p \in Proxies :
    c \in accepted[p] => asked[c] \in 1 .. Len(prefs[c]) /\ prefs[c][asked[c]] = p

\* A proxy that has turned a client down does not have it in any stable matching.
NoFalseHope ==
  \A m \in Abstract!StableMatchings : \A c \in Clients : \A i \in 1 .. asked[c] :
    c \notin accepted[prefs[c][i]] => m[c] # prefs[c][i]

\* The invariant the refinement rests on.
RefinementInv == IInv /\ ListsWhole /\ HeldIsLastAsked /\ NoFalseHope

\* An order of a finite set, as a sequence.
LEMMA OrdersExact ==
  ASSUME NEW f \in Orders(Proxies)
  PROVE  /\ f \in Seq(Proxies) /\ Len(f) \in Nat
         /\ \A i, j \in 1 .. Len(f) : f[i] = f[j] => i = j
         /\ \A p \in Proxies : \E i \in 1 .. Len(f) : f[i] = p
<1>1. Cardinality(Proxies) \in Nat
  BY FS_CardinalityType, MatchingAssumption
<1>2. PICK n \in Nat : n = Cardinality(Proxies)
  BY <1>1
<1>3. /\ f \in [1 .. n -> Proxies] /\ IsInjective(f)
      /\ \A p \in Proxies : \E i \in 1 .. n : f[i] = p
  BY <1>2 DEF Orders, Bijection, Injection, Surjection
<1>4. f \in Seq(Proxies) /\ Len(f) = n
  BY <1>3
<1>5. \A i, j \in 1 .. n : f[i] = f[j] => i = j
  BY <1>3 DEF IsInjective
<1>6. QED
  BY <1>2, <1>3, <1>4, <1>5

\* The list of a client, in the shape the proofs use it.
LEMMA ListsExact ==
  ASSUME ListsWhole, NEW c \in Clients
  PROVE  /\ prefs[c] \in Seq(Proxies) /\ Len(prefs[c]) \in Nat
         /\ DOMAIN prefs[c] = 1 .. Len(prefs[c])
         /\ \A i \in 1 .. Len(prefs[c]) : prefs[c][i] \in Proxies
         /\ \A i, j \in 1 .. Len(prefs[c]) : prefs[c][i] = prefs[c][j] => i = j
         /\ \A p \in Proxies : \E i \in 1 .. Len(prefs[c]) : prefs[c][i] = p
<1>1. prefs[c] \in Orders(Proxies)
  BY DEF ListsWhole
<1>2. QED
  BY <1>1, OrdersExact

\* The place of a proxy is where it stands in the list, that of nobody is past its end.
LEMMA PlaceIs ==
  ASSUME ListsWhole, NEW c \in Clients
  PROVE  /\ Abstract!Place(c, Nobody) = Len(prefs[c]) + 1
         /\ \A i \in 1 .. Len(prefs[c]) : Abstract!Place(c, prefs[c][i]) = i
<1>1. Abstract!Place(c, Nobody) = Len(prefs[c]) + 1
  BY DEF Abstract!Place
<1>2. ASSUME NEW i \in 1 .. Len(prefs[c]) PROVE Abstract!Place(c, prefs[c][i]) = i
  <2>1. prefs[c][i] # Nobody
    BY ListsExact, MatchingAssumption
  <2>2. \A j \in DOMAIN prefs[c] : prefs[c][j] = prefs[c][i] => j = i
    BY ListsExact
  <2>3. i \in DOMAIN prefs[c]
    BY ListsExact
  <2>4. (CHOOSE j \in DOMAIN prefs[c] : prefs[c][j] = prefs[c][i]) = i
    BY <2>2, <2>3
  <2>5. QED
    BY <2>1, <2>4 DEF Abstract!Place
<1>3. QED
  BY <1>1, <1>2

\* Every proxy is in every list.
LEMMA EveryProxyIsListed ==
  ASSUME ListsWhole, NEW c \in Clients, NEW p \in Proxies
  PROVE  p \in Abstract!Asked(c)
<1>1. PICK i \in 1 .. Len(prefs[c]) : prefs[c][i] = p
  BY ListsExact
<1>2. i \in DOMAIN prefs[c]
  BY ListsExact
<1>3. QED
  BY <1>1, <1>2 DEF Abstract!Asked

\* What a client is asking for is one of its list or nobody, and has its place there.
LEMMA FeasibleIsListed ==
  ASSUME ListsWhole, NEW m, Abstract!Feasible(m), NEW c \in Clients
  PROVE  \/ m[c] = Nobody
         \/ \E i \in 1 .. Len(prefs[c]) : m[c] = prefs[c][i] /\ Abstract!Place(c, m[c]) = i
<1>1. m[c] \in Abstract!Asked(c) \cup {Nobody}
  BY DEF Abstract!Feasible
<1>2. CASE m[c] \in Abstract!Asked(c)
  <2>1. PICK i \in DOMAIN prefs[c] : m[c] = prefs[c][i]
    BY <1>2 DEF Abstract!Asked
  <2>2. i \in 1 .. Len(prefs[c])
    BY <2>1, ListsExact
  <2>3. QED
    BY <2>1, <2>2, PlaceIs
<1>3. QED
  BY <1>1, <1>2

\* A client that no earlier proxy of its list can have gets the k-th one or does worse.
LEMMA KthOrWorse ==
  ASSUME ListsWhole, NEW m, Abstract!Feasible(m), NEW c \in Clients,
         NEW k \in 1 .. Len(prefs[c]),
         \A j \in 1 .. k - 1 : m[c] # prefs[c][j]
  PROVE  \/ m[c] = prefs[c][k]
         \/ Abstract!Place(c, prefs[c][k]) < Abstract!Place(c, m[c])
<1>1. Abstract!Place(c, prefs[c][k]) = k /\ Len(prefs[c]) \in Nat
  BY PlaceIs, ListsExact
<1>2. CASE m[c] = Nobody
  BY <1>1, <1>2, PlaceIs
<1>3. CASE m[c] # Nobody
  <2>1. PICK i \in 1 .. Len(prefs[c]) : m[c] = prefs[c][i] /\ Abstract!Place(c, m[c]) = i
    BY <1>3, FeasibleIsListed
  <2>2. ~(i \in 1 .. k - 1)
    BY <2>1
  <2>3. i = k \/ k < i
    BY <1>1, <2>1, <2>2
  <2>4. QED
    BY <1>1, <2>1, <2>3
<1>4. QED
  BY <1>2, <1>3

\* The abstract specification counts as this one does.
LEMMA SameCount == \A S : Abstract!Cardinality(S) = Cardinality(S)
BY DEF Abstract!Cardinality, Cardinality

\* The pigeonhole of the algorithm.  A proxy that is full of clients it likes better
\* than x, of which each would rather have it than anything else a stable matching
\* can give, does not have x in that matching.
LEMMA RefusedForGood ==
  ASSUME TypeOK, ListsWhole,
         NEW m \in Abstract!StableMatchings, NEW p \in Proxies,
         NEW held \in SUBSET Clients, ~(Cardinality(held) < capacity[p]),
         NEW x \in Clients, x \notin held,
         \A e \in held : ranks[p][e] < ranks[p][x],
         \A e \in held : m[e] = p \/ Abstract!Place(e, p) < Abstract!Place(e, m[e])
  PROVE  m[x] # p
<1> SUFFICES ASSUME m[x] = p PROVE FALSE
  OBVIOUS
<1>1. Abstract!Stable(m) /\ Abstract!Feasible(m)
  BY DEF Abstract!StableMatchings, Abstract!Stable
<1>2. PICK taken \in SUBSET Clients : taken = Abstract!Taken(m, p)
  BY DEF Abstract!Taken
<1>3. x \in taken /\ Cardinality(taken) <= capacity[p]
  BY <1>1, <1>2, SameCount DEF Abstract!Taken, Abstract!Feasible
<1>4. capacity[p] \in Nat
  BY DEF TypeOK
<1>5. PICK e \in held : m[e] # p
  <2> SUFFICES ASSUME \A e \in held : m[e] = p PROVE FALSE
    OBVIOUS
  <2>1. held \cup {x} \subseteq taken
    BY <1>2, <1>3 DEF Abstract!Taken
  <2>2. IsFiniteSet(held) /\ IsFiniteSet(taken)
    BY FS_Subset, MatchingAssumption
  <2>3. Cardinality(held \cup {x}) = Cardinality(held) + 1
    BY <2>2, FS_AddElement
  <2>4. Cardinality(held \cup {x}) <= Cardinality(taken)
    BY <2>1, <2>2, FS_Subset
  <2>5. Cardinality(held) \in Nat /\ Cardinality(taken) \in Nat
    BY <2>2, FS_CardinalityType
  <2>6. QED
    BY <1>3, <1>4, <2>3, <2>4, <2>5
<1>6. Abstract!Blocks(m, e, p)
  BY <1>2, <1>3, <1>5 DEF Abstract!Blocks
<1>7. p \in Abstract!Asked(e)
  BY EveryProxyIsListed
<1>8. QED
  BY <1>1, <1>6, <1>7 DEF Abstract!Stable

\* The parts of the refinement's invariant that a turn must keep, as facts about
\* what it finds.
LEMMA OldRefusals ==
  ASSUME RefinementInv, NEW m \in Abstract!StableMatchings,
         NEW e \in Clients, NEW p \in Proxies, e \in accepted[p],
         NEW j \in 1 .. asked[e] - 1
  PROVE  m[e] # prefs[e][j]
<1>1. asked[e] \in 1 .. Len(prefs[e]) /\ prefs[e][asked[e]] = p
  BY DEF RefinementInv, HeldIsLastAsked
<1>2. Len(prefs[e]) \in Nat
  BY ListsExact DEF RefinementInv
<1>3. j \in 1 .. Len(prefs[e]) /\ j # asked[e] /\ j \in 1 .. asked[e]
  BY <1>1, <1>2
<1>4. prefs[e][j] # p /\ prefs[e][j] \in Proxies
  BY <1>1, <1>3, ListsExact DEF RefinementInv
<1>5. e \notin accepted[prefs[e][j]]
  BY <1>4 DEF RefinementInv, IInv, OnePlace
<1>6. QED
  BY <1>3, <1>5 DEF RefinementInv, NoFalseHope

\* A client in the list of p gets p from a stable matching, or does worse.
LEMMA HeldDoNoBetter ==
  ASSUME RefinementInv, NEW m \in Abstract!StableMatchings,
         NEW e \in Clients, NEW p \in Proxies, e \in accepted[p]
  PROVE  m[e] = p \/ Abstract!Place(e, p) < Abstract!Place(e, m[e])
<1>1. asked[e] \in 1 .. Len(prefs[e]) /\ prefs[e][asked[e]] = p
  BY DEF RefinementInv, HeldIsLastAsked
<1>2. \A j \in 1 .. asked[e] - 1 : m[e] # prefs[e][j]
  BY OldRefusals
<1>3. Abstract!Feasible(m)
  BY DEF Abstract!StableMatchings, Abstract!Stable
<1>4. PICK k \in 1 .. Len(prefs[e]) : k = asked[e]
  BY <1>1
<1>5. \A j \in 1 .. k - 1 : m[e] # prefs[e][j]
  BY <1>2, <1>4
<1>6. QED
  BY <1>1, <1>3, <1>4, <1>5, KthOrWorse DEF RefinementInv

\* So does the client whose turn it is, with the proxy it is about to ask.
LEMMA AskerDoesNoBetter ==
  ASSUME RefinementInv, NEW m \in Abstract!StableMatchings,
         NEW c \in pass, Ask(c)
  PROVE  m[c] = Choice(c) \/ Abstract!Place(c, Choice(c)) < Abstract!Place(c, m[c])
<1>1. c \in Clients /\ c \in waiting /\ asked[c] \in Nat /\ asked[c] < Len(prefs[c])
  BY DEF RefinementInv, IInv, TypeOK, Ask
<1>2. Len(prefs[c]) \in Nat /\ \A i \in 1 .. Len(prefs[c]) : prefs[c][i] \in Proxies
  BY <1>1, ListsExact DEF RefinementInv
<1>3. PICK k \in 1 .. Len(prefs[c]) : k = asked[c] + 1
  BY <1>1, <1>2
<1>4. ASSUME NEW j \in 1 .. k - 1 PROVE m[c] # prefs[c][j]
  <2>1. j \in 1 .. asked[c] /\ prefs[c][j] \in Proxies
    BY <1>1, <1>2, <1>3
  <2>2. c \notin accepted[prefs[c][j]]
    BY <1>1, <2>1 DEF RefinementInv, IInv, OnePlace
  <2>3. QED
    BY <1>1, <2>1, <2>2 DEF RefinementInv, NoFalseHope
<1>5. Abstract!Feasible(m)
  BY DEF Abstract!StableMatchings, Abstract!Stable
<1>6. m[c] = prefs[c][k] \/ Abstract!Place(c, prefs[c][k]) < Abstract!Place(c, m[c])
  BY <1>1, <1>4, <1>5, KthOrWorse DEF RefinementInv
<1>7. QED
  BY <1>3, <1>6 DEF Choice

\* What every kind of turn that asks a proxy does: the proxy p keeps a set of
\* clients, held, out of those it had and the one that asks.
Asks(c, p, held) ==
  /\ Ask(c) /\ p = Choice(c)
  /\ held \subseteq accepted[p] \cup {c}
  /\ accepted' = [accepted EXCEPT ![p] = held]

LEMMA TurnAsks ==
  ASSUME IInv, NEW c \in pass,
         Accept(c) \/ (\E d \in Clients : Displace(c, d) \/ Refuse(c, d))
  PROVE  \E p \in Proxies : \E held \in SUBSET Clients : Asks(c, p, held)
<1>1. Ask(c)
  BY DEF Accept, Displace, Refuse
<1>2. PICK p \in Proxies : p = Choice(c)
  BY <1>1, AskTypes
<1>3. accepted \in [Proxies -> SUBSET Clients] /\ c \in Clients
  BY DEF IInv, TypeOK
<1>4. CASE Accept(c)
  <2>1. accepted' = [accepted EXCEPT ![p] = accepted[p] \cup {c}]
    BY <1>2, <1>4 DEF Accept
  <2>2. QED
    BY <1>1, <1>2, <1>3, <2>1 DEF Asks
<1>5. ASSUME NEW d \in Clients, Displace(c, d)
      PROVE  \E held \in SUBSET Clients : Asks(c, p, held)
  <2>1. accepted' = [accepted EXCEPT ![p] = (accepted[p] \ {d}) \cup {c}]
    BY <1>2, <1>5 DEF Displace
  <2>2. QED
    BY <1>1, <1>2, <1>3, <2>1 DEF Asks
<1>6. ASSUME NEW d \in Clients, Refuse(c, d)
      PROVE  \E held \in SUBSET Clients : Asks(c, p, held)
  <2>1. accepted' = [accepted EXCEPT ![p] = accepted[p]]
    BY <1>2, <1>3, <1>6 DEF Refuse
  <2>2. QED
    BY <1>1, <1>2, <1>3, <2>1 DEF Asks
<1>7. QED
  BY <1>2, <1>4, <1>5, <1>6

\* A turn that asks keeps the held clients at the last proxy they asked.
LEMMA AskKeepsHeld ==
  ASSUME RefinementInv, NEW c \in pass, NEW p \in Proxies, NEW held \in SUBSET Clients,
         Asks(c, p, held)
  PROVE  HeldIsLastAsked'
<1>1. /\ c \in Clients /\ c \in waiting
      /\ \A e \in Clients : asked'[e] = IF e = c THEN asked[c] + 1 ELSE asked[e]
      /\ prefs' = prefs
  BY AskTypes DEF RefinementInv, Asks
<1>2. accepted \in [Proxies -> SUBSET Clients]
  BY DEF RefinementInv, IInv, TypeOK
<1>3. \A q \in Proxies : accepted'[q] = IF q = p THEN held ELSE accepted[q]
  BY <1>2 DEF Asks
<1>4. SUFFICES ASSUME NEW e \in Clients, NEW q \in Proxies, e \in accepted'[q]
               PROVE  asked'[e] \in 1 .. Len(prefs[e]) /\ prefs[e][asked'[e]] = q
  BY <1>1 DEF HeldIsLastAsked
<1>5. \A r \in Proxies : c \notin accepted[r]
  BY <1>1 DEF RefinementInv, IInv, OnePlace
<1>6. CASE e = c
  <2>1. q = p
    BY <1>3, <1>4, <1>5, <1>6
  <2>2. asked[c] \in Nat /\ asked[c] < Len(prefs[c]) /\ Len(prefs[c]) \in Nat
    BY <1>1, ListsExact DEF RefinementInv, IInv, TypeOK, Asks, Ask
  <2>3. QED
    BY <1>1, <1>6, <2>1, <2>2 DEF Asks, Choice
<1>7. CASE e # c
  <2>1. e \in accepted[q]
    BY <1>3, <1>4, <1>7 DEF Asks
  <2>2. QED
    BY <1>1, <1>7, <2>1 DEF RefinementInv, HeldIsLastAsked
<1>8. QED
  BY <1>6, <1>7

\* A turn that asks turns nobody down that a stable matching could give the proxy.
LEMMA AskKeepsHope ==
  ASSUME RefinementInv, NoRegret', NEW c \in pass, NEW p \in Proxies,
         NEW held \in SUBSET Clients, Asks(c, p, held)
  PROVE  NoFalseHope'
<1>1. /\ c \in Clients /\ c \in waiting
      /\ \A e \in Clients : asked'[e] = IF e = c THEN asked[c] + 1 ELSE asked[e]
      /\ prefs' = prefs /\ ranks' = ranks /\ capacity' = capacity
  BY AskTypes DEF RefinementInv, Asks
<1>2. accepted \in [Proxies -> SUBSET Clients] /\ asked \in [Clients -> Nat]
  BY DEF RefinementInv, IInv, TypeOK
<1>3. \A q \in Proxies : accepted'[q] = IF q = p THEN held ELSE accepted[q]
  BY <1>2 DEF Asks
<1>4. Abstract!StableMatchings' = Abstract!StableMatchings
  BY <1>1 DEF Abstract!StableMatchings, Abstract!Stable, Abstract!Feasible, Abstract!Blocks,
              Abstract!Place, Abstract!Asked, Abstract!Taken, Abstract!Matchings
<1>5. SUFFICES ASSUME NEW m \in Abstract!StableMatchings, NEW x \in Clients,
                      NEW i \in 1 .. asked'[x], x \notin accepted'[prefs[x][i]]
               PROVE  m[x] # prefs[x][i]
  BY <1>1, <1>4 DEF NoFalseHope
<1>6. prefs[x][i] \in Proxies
  <2>1. asked'[x] \in Nat /\ asked'[x] <= Len(prefs[x])
    BY AskTypes DEF RefinementInv, Asks
  <2>2. i \in 1 .. Len(prefs[x])
    BY <2>1, ListsExact DEF RefinementInv
  <2>3. QED
    BY <2>2, ListsExact DEF RefinementInv
<1>7. CASE i \in 1 .. asked[x] /\ x \notin accepted[prefs[x][i]]
  BY <1>5, <1>7 DEF RefinementInv, NoFalseHope
<1>8. CASE ~(i \in 1 .. asked[x] /\ x \notin accepted[prefs[x][i]])
  <2>1. prefs[x][i] = p
    <3>1. CASE x = c /\ i = asked[c] + 1
      BY <3>1 DEF Asks, Choice
    <3>2. CASE ~(x = c /\ i = asked[c] + 1)
      <4>1. i \in 1 .. asked[x]
        BY <1>1, <1>2, <3>2
      <4>2. x \in accepted[prefs[x][i]]
        BY <1>8, <4>1
      <4>3. QED
        BY <1>3, <1>5, <1>6, <4>2
    <3>3. QED
      BY <3>1, <3>2
  <2>2. x \notin held
    BY <1>3, <1>5, <2>1
  <2>3. ~(Cardinality(held) < capacity[p]) /\ \A e \in held : ranks[p][e] < ranks[p][x]
    BY <1>1, <1>3, <2>1, <2>2 DEF NoRegret, HasRoom
  <2>4. ASSUME NEW e \in held
        PROVE  m[e] = p \/ Abstract!Place(e, p) < Abstract!Place(e, m[e])
    <3>1. CASE e = c
      BY <3>1, AskerDoesNoBetter DEF Asks
    <3>2. CASE e # c
      <4>1. e \in accepted[p]
        BY <3>2 DEF Asks
      <4>2. QED
        BY <4>1, HeldDoNoBetter
    <3>3. QED
      BY <3>1, <3>2
  <2>5. m[x] # p
    BY <2>2, <2>3, <2>4, RefusedForGood DEF RefinementInv, IInv
  <2>6. QED
    BY <2>1, <2>5
<1>9. QED
  BY <1>7, <1>8

\* Before the first turn nobody has been turned down.
LEMMA InitRefinementInv == Init => RefinementInv
<1> SUFFICES ASSUME Init PROVE RefinementInv
  OBVIOUS
<1>1. ListsWhole
  BY DEF Init, ListsWhole
<1>2. HeldIsLastAsked /\ NoFalseHope
  BY DEF Init, Started, HeldIsLastAsked, NoFalseHope
<1>3. QED
  BY <1>1, <1>2, InitIInv DEF RefinementInv

\* A step that changes neither the lists nor what has been asked turns nobody down.
LEMMA QuietKeepsHope ==
  ASSUME RefinementInv, UNCHANGED <<prefs, ranks, capacity, asked, accepted>>
  PROVE  ListsWhole' /\ HeldIsLastAsked' /\ NoFalseHope'
<1>1. ListsWhole' /\ HeldIsLastAsked'
  BY DEF RefinementInv, ListsWhole, HeldIsLastAsked
<1>2. Abstract!StableMatchings' = Abstract!StableMatchings
  BY DEF Abstract!StableMatchings, Abstract!Stable, Abstract!Feasible, Abstract!Blocks,
         Abstract!Place, Abstract!Asked, Abstract!Taken, Abstract!Matchings
<1>3. NoFalseHope'
  BY <1>2 DEF RefinementInv, NoFalseHope
<1>4. QED
  BY <1>1, <1>3

\* No stable matching gives a client a proxy that has turned it down: at every
\* moment of the call, whatever the order of the turns.
THEOREM RefusalsAreFinal == Spec => []RefinementInv
<1>1. ASSUME IInv', RefinementInv, [Next]_vars PROVE RefinementInv'
  <2>1. CASE NextPass \/ UNCHANGED vars
    BY <1>1, <2>1, QuietKeepsHope DEF NextPass, vars, RefinementInv
  <2>2. ASSUME NEW c \in Clients, Turn(c) PROVE RefinementInv'
    <3>1. c \in pass
      BY <2>2 DEF Turn
    <3>2. CASE GiveUp(c)
      BY <1>1, <3>2, QuietKeepsHope DEF GiveUp, RefinementInv
    <3>3. CASE Accept(c) \/ (\E d \in Clients : Displace(c, d) \/ Refuse(c, d))
      <4>1. PICK p \in Proxies, held \in SUBSET Clients : Asks(c, p, held)
        BY <1>1, <3>1, <3>3, TurnAsks DEF RefinementInv
      <4>2. NoRegret'
        BY <1>1 DEF IInv
      <4>3. HeldIsLastAsked' /\ NoFalseHope'
        BY <1>1, <3>1, <4>1, <4>2, AskKeepsHeld, AskKeepsHope
      <4>4. ListsWhole'
        BY <1>1, <4>1 DEF RefinementInv, ListsWhole, Asks, Ask
      <4>5. QED
        BY <1>1, <4>3, <4>4 DEF RefinementInv
    <3>4. QED
      BY <2>2, <3>2, <3>3 DEF Turn
  <2>3. QED
    BY <1>1, <2>1, <2>2 DEF Next
<1>2. QED
  BY InitRefinementInv, MatchingInvariant, <1>1, PTL DEF Spec

\* What the call returns gives each client the proxy that holds it.
LEMMA ResultIs ==
  ASSUME RefinementInv, Finished
  PROVE  /\ Result \in Abstract!Matchings
         /\ \A c \in Clients : \A p \in Proxies : Result[c] = p <=> c \in accepted[p]
<1> DEFINE R == [c \in Clients |-> IF \E p \in Proxies : c \in accepted[p]
                                   THEN CHOOSE p \in Proxies : c \in accepted[p]
                                   ELSE Nobody]
<1>1. Result = R
  BY DEF Result
<1>2. ASSUME NEW c \in Clients
      PROVE  /\ R[c] \in Proxies \cup {Nobody}
             /\ \A p \in Proxies : R[c] = p <=> c \in accepted[p]
  <2>1. CASE \E p \in Proxies : c \in accepted[p]
    <3>1. R[c] = CHOOSE p \in Proxies : c \in accepted[p]
      BY <2>1
    <3>2. R[c] \in Proxies /\ c \in accepted[R[c]]
      BY <2>1, <3>1
    <3>3. \A p \in Proxies : c \in accepted[p] => p = R[c]
      BY <3>2 DEF RefinementInv, IInv, OnePlace
    <3>4. QED
      BY <3>2, <3>3
  <2>2. CASE ~\E p \in Proxies : c \in accepted[p]
    BY <2>2, MatchingAssumption
  <2>3. QED
    BY <2>1, <2>2
<1>3. R \in Abstract!Matchings
  BY <1>2 DEF Abstract!Matchings
<1>4. QED
  BY <1>1, <1>2, <1>3

\* What a client gets is the last proxy it asked, or it has asked them all.
LEMMA ResultPlace ==
  ASSUME RefinementInv, Finished, NEW c \in Clients
  PROVE  /\ Abstract!Place(c, Result[c]) \in Nat
         /\ \A i \in 1 .. Len(prefs[c]) : i < Abstract!Place(c, Result[c])
              => i \in 1 .. asked[c] /\ c \notin accepted[prefs[c][i]]
         /\ Abstract!Place(c, Result[c]) <= Len(prefs[c]) + 1
<1>1. asked[c] \in Nat /\ Len(prefs[c]) \in Nat
  BY ListsExact DEF RefinementInv, IInv, TypeOK
<1>2. \A p \in Proxies : Result[c] = p <=> c \in accepted[p]
  BY ResultIs
<1>3. Result[c] \in Proxies \cup {Nobody}
  BY ResultIs DEF Abstract!Matchings
<1>4. CASE Result[c] = Nobody
  <2>1. Abstract!Place(c, Result[c]) = Len(prefs[c]) + 1
    BY <1>4, PlaceIs DEF RefinementInv
  <2>2. \A p \in Proxies : c \notin accepted[p]
    BY <1>2, <1>4, MatchingAssumption
  <2>3. asked[c] = Len(prefs[c])
    BY <2>2 DEF RefinementInv, IInv, NobodyDropped, Finished
  <2>4. \A i \in 1 .. Len(prefs[c]) : prefs[c][i] \in Proxies
    BY ListsExact DEF RefinementInv
  <2>5. QED
    BY <1>1, <2>1, <2>2, <2>3, <2>4
<1>5. CASE Result[c] # Nobody
  <2>1. PICK p \in Proxies : Result[c] = p /\ c \in accepted[p]
    BY <1>2, <1>3, <1>5
  <2>2. asked[c] \in 1 .. Len(prefs[c]) /\ prefs[c][asked[c]] = p
    BY <2>1 DEF RefinementInv, HeldIsLastAsked
  <2>3. Abstract!Place(c, Result[c]) = asked[c]
    BY <2>1, <2>2, PlaceIs DEF RefinementInv
  <2>4. ASSUME NEW i \in 1 .. Len(prefs[c]), i < asked[c]
        PROVE  i \in 1 .. asked[c] /\ c \notin accepted[prefs[c][i]]
    <3>1. i \in 1 .. asked[c] /\ i # asked[c]
      BY <1>1, <2>4
    <3>2. prefs[c][i] # p /\ prefs[c][i] \in Proxies
      BY <2>2, <3>1, ListsExact DEF RefinementInv
    <3>3. QED
      BY <2>1, <3>1, <3>2 DEF RefinementInv, IInv, OnePlace
  <2>5. QED
    BY <1>1, <2>2, <2>3, <2>4
<1>6. QED
  BY <1>4, <1>5

\* The matching returned is stable.
LEMMA ResultIsStable ==
  ASSUME RefinementInv, Finished PROVE Result \in Abstract!StableMatchings
<1>1. Result \in Abstract!Matchings /\ \A p \in Proxies : Abstract!Taken(Result, p) = accepted[p]
  <2>1. ASSUME NEW p \in Proxies PROVE Abstract!Taken(Result, p) = accepted[p]
    <3>1. accepted[p] \subseteq Clients
      BY DEF RefinementInv, IInv, TypeOK
    <3>2. \A c \in Clients : Result[c] = p <=> c \in accepted[p]
      BY ResultIs
    <3>3. QED
      BY <3>1, <3>2 DEF Abstract!Taken
  <2>2. QED
    BY <2>1, ResultIs
<1>2. Abstract!Feasible(Result)
  <2>1. ASSUME NEW c \in Clients PROVE Result[c] \in Abstract!Asked(c) \cup {Nobody}
    <3>1. Result[c] \in Proxies \cup {Nobody}
      BY <1>1 DEF Abstract!Matchings
    <3>2. QED
      BY <3>1, EveryProxyIsListed DEF RefinementInv
  <2>2. ASSUME NEW p \in Proxies PROVE Abstract!Cardinality(Abstract!Taken(Result, p)) <= capacity[p]
    BY <1>1, SameCount DEF RefinementInv, IInv, WithinCapacity
  <2>3. QED
    BY <2>1, <2>2 DEF Abstract!Feasible
<1>3. ASSUME NEW c \in Clients, NEW p \in Abstract!Asked(c), Abstract!Blocks(Result, c, p)
      PROVE  FALSE
  <2>1. PICK i \in 1 .. Len(prefs[c]) : p = prefs[c][i] /\ p \in Proxies
    BY ListsExact DEF Abstract!Asked, RefinementInv
  <2>2. i < Abstract!Place(c, Result[c])
    BY <1>3, <2>1, PlaceIs DEF Abstract!Blocks, RefinementInv
  <2>3. i \in 1 .. asked[c] /\ c \notin accepted[p]
    BY <2>1, <2>2, ResultPlace
  <2>4. ~HasRoom(p) /\ \A d \in accepted[p] : ranks[p][d] < ranks[p][c]
    BY <2>1, <2>3 DEF RefinementInv, IInv, NoRegret
  <2>5. \A d \in accepted[p] : ~(ranks[p][c] < ranks[p][d])
    <3>1. accepted[p] \subseteq Clients /\ ranks[p] \in [Clients -> Nat]
      BY <2>1 DEF RefinementInv, IInv, TypeOK
    <3>2. QED
      BY <2>4, <3>1
  <2>6. ~(Abstract!Cardinality(Abstract!Taken(Result, p)) < capacity[p])
    BY <1>1, <2>1, <2>4, SameCount DEF HasRoom
  <2>7. QED
    BY <1>1, <1>3, <2>1, <2>5, <2>6 DEF Abstract!Blocks
<1>4. QED
  BY <1>1, <1>2, <1>3 DEF Abstract!StableMatchings, Abstract!Stable

\* And no stable matching is better for any client.
LEMMA ResultIsBest ==
  ASSUME RefinementInv, Finished PROVE Result \in Abstract!BestForClients
<1>1. ASSUME NEW n \in Abstract!StableMatchings, NEW c \in Clients
      PROVE  Abstract!Place(c, Result[c]) <= Abstract!Place(c, n[c])
  <2>1. Abstract!Feasible(n)
    BY DEF Abstract!StableMatchings, Abstract!Stable
  <2>2. CASE n[c] = Nobody
    BY <2>2, PlaceIs, ResultPlace DEF RefinementInv
  <2>3. CASE n[c] # Nobody
    <3>1. PICK i \in 1 .. Len(prefs[c]) : n[c] = prefs[c][i] /\ Abstract!Place(c, n[c]) = i
      BY <2>1, <2>3, FeasibleIsListed DEF RefinementInv
    <3>2. ~(i \in 1 .. asked[c] /\ c \notin accepted[prefs[c][i]])
      BY <3>1 DEF RefinementInv, NoFalseHope
    <3>3. ~(i < Abstract!Place(c, Result[c]))
      BY <3>2, ResultPlace
    <3>4. QED
      BY <3>1, <3>3, ResultPlace
  <2>4. QED
    BY <2>2, <2>3
<1>2. QED
  BY <1>1, ResultIsStable DEF Abstract!BestForClients

\* A call with no clients returns the empty matching at once.
LEMMA StartsPending == Init => Result = <<>>
<1> SUFFICES ASSUME Init, Finished PROVE Result = <<>>
  BY DEF Result
<1>1. Clients = {}
  BY DEF Init, Started, Finished
<1>2. Result = [c \in {} |-> Nobody]
  BY <1>1 DEF Result
<1>3. QED
  BY <1>2

\* Every turn leaves the abstract state as it is or returns the matching.
LEMMA TurnsReturn ==
  ASSUME [Next]_vars, Finished' => (Result \in Abstract!BestForClients)'
  PROVE  [Abstract!Return]_Abstract!vars
<1>1. prefs' = prefs /\ ranks' = ranks /\ capacity' = capacity
  BY DEF Next, NextPass, Turn, GiveUp, Accept, Displace, Refuse, Ask, vars
<1>2. CASE Finished
  <2>1. UNCHANGED vars
    BY <1>2 DEF Finished, Next, NextPass, Turn
  <2>2. Result' = Result
    BY <2>1 DEF vars, Result, Finished
  <2>3. QED
    BY <1>1, <2>2 DEF Abstract!vars
<1>3. CASE ~Finished /\ ~Finished'
  BY <1>1, <1>3 DEF Result, Abstract!vars
<1>4. CASE ~Finished /\ Finished'
  <2>1. Abstract!BestForClients' = Abstract!BestForClients
    BY <1>1 DEF Abstract!BestForClients, Abstract!StableMatchings, Abstract!Stable,
                Abstract!Feasible, Abstract!Blocks, Abstract!Place, Abstract!Asked,
                Abstract!Taken, Abstract!Matchings
  <2>2. Result = <<>> /\ Result' \in Abstract!BestForClients
    BY <1>4, <2>1 DEF Result
  <2>3. QED
    BY <1>1, <2>2 DEF Abstract!Return, Abstract!Pending
<1>5. QED
  BY <1>2, <1>3, <1>4

\* get_matched_clients implements its specification: whatever the order of the
\* turns, what it returns is the stable matching that is best for every client.
THEOREM MatchingIsBest == Spec => ImplementsStableMatching
<1>1. Init => Abstract!Init
  BY StartsPending DEF Abstract!Init, Abstract!Pending
<1>2. RefinementInv => (Finished => Result \in Abstract!BestForClients)
  BY ResultIsBest
<1>3. RefinementInv' => (Finished' => (Result \in Abstract!BestForClients)')
  BY <1>2, PTL
<1>4. RefinementInv' /\ [Next]_vars => [Abstract!Return]_Abstract!vars
  BY <1>3, TurnsReturn
<1>5. QED
  BY RefusalsAreFinal, <1>1, <1>4, PTL DEF Spec, ImplementsStableMatching, Abstract!Spec

=================================================================================
