------------------------ MODULE CensorSimulationProofs ------------------------
(***************************************************************************)
(* What the simulation of run_simulation.py keeps in order, for every      *)
(* sequence of configurations, every duration and interval, every capacity *)
(* and every threshold: the places, the charts, and who is left without a  *)
(* proxy.  The matching inside a step is the one of                        *)
(* DeferredAcceptanceProofs, whose lemmas are used for it.                 *)
(***************************************************************************)
EXTENDS CensorSimulation, FiniteSetTheorems, FunctionTheorems, WellFoundedInduction, TLAPS

MP == INSTANCE DeferredAcceptanceProofs WITH capacity <- Room, Capacities <- 1 .. MaxCapacity

(***************************************************************************)
(* Numbers and sums                                                        *)
(***************************************************************************)

\* Every set of numbers that is not empty has a least one.
LEMMA LeastNumber ==
  ASSUME NEW T \in SUBSET Nat, T # {}
  PROVE  \E n \in T : \A m \in T : n <= m
<1> DEFINE R == OpToRel(<, Nat)
<1>1. \E n \in T : \A m \in T : <<m, n>> \notin R
  <2>1. IsWellFoundedOn(R, Nat)
    BY NatLessThanWellFounded, Zenon
  <2> HIDE DEF R
  <2>2. QED
    BY <2>1, WFMin
<1>2. \A m, n \in Nat : m < n => <<m, n>> \in R
  BY DEF OpToRel
<1> HIDE DEF R
<1>3. PICK n \in T : \A m \in T : <<m, n>> \notin R
  BY <1>1
<1>4. ASSUME NEW m \in T PROVE n <= m
  <2>1. m \in Nat /\ n \in Nat
    OBVIOUS
  <2>2. ~(m < n)
    BY <1>2, <1>3, <2>1
  <2>3. QED
    BY <2>1, <2>2
<1>5. QED
  BY <1>4

\* f[s] is the sum of w over s, for the sets s of D, added up in the order of CHOOSE.
Summed(w, f, D) ==
  \A s \in D : f[s] = IF s = {} THEN 0 ELSE w[CHOOSE x \in s : TRUE] + f[s \ {CHOOSE x \in s : TRUE}]

UpTo(S, n) == {s \in SUBSET S : Cardinality(s) <= n}

\* Sums over sets with one element more.
LEMMA SumUpTo ==
  ASSUME NEW S, IsFiniteSet(S), NEW w \in [S -> Int], NEW n \in Nat,
         NEW f \in [UpTo(S, n) -> Int], Summed(w, f, UpTo(S, n))
  PROVE  \E g \in [UpTo(S, n + 1) -> Int] : Summed(w, g, UpTo(S, n + 1))
<1> DEFINE pick(s) == CHOOSE x \in s : TRUE
           g == [s \in UpTo(S, n + 1) |->
                   IF s = {} THEN 0 ELSE w[pick(s)] + f[s \ {pick(s)}]]
<1>1. ASSUME NEW s \in UpTo(S, n + 1), s # {}
      PROVE  s \ {pick(s)} \in UpTo(S, n) /\ pick(s) \in S
  <2>1. s \subseteq S /\ IsFiniteSet(s) /\ Cardinality(s) \in Nat /\ Cardinality(s) <= n + 1
    BY <1>1, FS_Subset, FS_CardinalityType DEF UpTo
  <2>2. pick(s) \in s
    BY <1>1
  <2>3. Cardinality(s \ {pick(s)}) = Cardinality(s) - 1
    BY <2>1, <2>2, FS_RemoveElement
  <2>4. QED
    BY <2>1, <2>2, <2>3 DEF UpTo
<1>2. g \in [UpTo(S, n + 1) -> Int]
  BY <1>1
<1>3. \A s \in UpTo(S, n) : g[s] = f[s]
  <2>1. \A s \in UpTo(S, n) : s \in UpTo(S, n + 1)
    BY FS_Subset, FS_CardinalityType DEF UpTo
  <2>2. QED
    BY <2>1 DEF Summed
<1>4. Summed(w, g, UpTo(S, n + 1))
  <2>1. ASSUME NEW s \in UpTo(S, n + 1)
        PROVE  g[s] = IF s = {} THEN 0 ELSE w[pick(s)] + g[s \ {pick(s)}]
    <3>1. g[s] = IF s = {} THEN 0 ELSE w[pick(s)] + f[s \ {pick(s)}]
      OBVIOUS
    <3>2. s # {} => g[s \ {pick(s)}] = f[s \ {pick(s)}]
      BY <1>1, <1>3
    <3>3. QED
      BY <3>1, <3>2
  <2> HIDE DEF g
  <2>2. QED
    BY <2>1 DEF Summed
<1>5. QED
  BY <1>2, <1>4

\* The recursion of a sum over a finite set has a solution: induction on the size of the set.
LEMMA SumExists ==
  ASSUME NEW S, IsFiniteSet(S), NEW w \in [S -> Int]
  PROVE  \E f \in [SUBSET S -> Int] : Summed(w, f, SUBSET S)
<1> DEFINE T == {n \in Nat : ~ \E f \in [UpTo(S, n) -> Int] : Summed(w, f, UpTo(S, n))}
<1>1. T = {}
  <2> SUFFICES ASSUME T # {} PROVE FALSE
    OBVIOUS
  <2>1. PICK n \in T : \A m \in T : n <= m
    BY LeastNumber
  <2>2. CASE n = 0
    <3>1. UpTo(S, 0) = {{}}
      <4>1. \A s \in SUBSET S : Cardinality(s) <= 0 <=> s = {}
        BY FS_Subset, FS_CardinalityType, FS_EmptySet
      <4>2. QED
        BY <4>1 DEF UpTo
    <3>2. [s \in {{}} |-> 0] \in [{{}} -> Int] /\ Summed(w, [s \in {{}} |-> 0], {{}})
      BY DEF Summed
    <3>3. QED
      BY <2>2, <3>1, <3>2
  <2>3. CASE n # 0
    <3>1. n - 1 \in Nat /\ n - 1 \notin T
      BY <2>1, <2>3
    <3>2. PICK f \in [UpTo(S, n - 1) -> Int] : Summed(w, f, UpTo(S, n - 1))
      BY <3>1
    <3>3. \E g \in [UpTo(S, n - 1 + 1) -> Int] : Summed(w, g, UpTo(S, n - 1 + 1))
      BY <3>1, <3>2, SumUpTo
    <3>4. n - 1 + 1 = n
      BY <2>1
    <3>5. QED
      BY <2>1, <3>3, <3>4
  <2>4. QED
    BY <2>2, <2>3
<1>2. Cardinality(S) \in Nat /\ UpTo(S, Cardinality(S)) = SUBSET S
  BY FS_CardinalityType, FS_Subset DEF UpTo
<1>3. Cardinality(S) \notin T
  BY <1>1
<1>4. \E f \in [UpTo(S, Cardinality(S)) -> Int] : Summed(w, f, UpTo(S, Cardinality(S)))
  BY <1>2, <1>3
<1>5. QED
  BY <1>2, <1>4

(***************************************************************************)
(* The invariants                                                          *)
(***************************************************************************)

\* The rows created before step s.
ProxiesBy(s) == IF s = 0 THEN 1 ELSE (s - 1) \div ProxyEvery + 2
ClientsBy(s) == IF s = 0 THEN 0 ELSE (s - 1) \div UserEvery + 1

ProxyRow  == [blocked : BOOLEAN, blockedAt : Nat, room : 0 .. MaxCapacity, place : Nat]
ClientRow == [agent : BOOLEAN, flagged : BOOLEAN, requests : Nat, known : Nat, born : Nat, place : Nat]
RowType   == [proxy : Nat, client : Nat, time : Nat]

Early == {"censor", "record", "rejuvenate", "request", "match"}

\* Values of the fields, positions and times.
Typed ==
  /\ conf \in 1 .. Len(Configurations) /\ step \in 0 .. Duration - 1
  /\ pc \in Early \cup {"grow", "users", "write", "flush", "done", "crashed"}
  /\ proxy \in [DOMAIN proxy -> ProxyRow] /\ client \in [DOMAIN client -> ClientRow]
  /\ \A p \in DOMAIN proxy : proxy[p].blockedAt <= step
  /\ \A c \in DOMAIN client : client[c].born <= step
  /\ chart \in [usable : Int, connected : Int] /\ charted \in Nat /\ results \in Seq(Nat)

\* The ids are those the code gives them, one after the other, at the steps the intervals
\* say: how many rows there are follows from the step.
Sized ==
  /\ \E n \in 1 .. ProxiesBy(Duration) : DOMAIN proxy = 1 .. n
  /\ \E m \in 0 .. ClientsBy(Duration) : DOMAIN client = 0 .. m - 1
  /\ pc \in Early \cup {"grow"} => DOMAIN proxy = 1 .. ProxiesBy(step)
  /\ pc = "users" => DOMAIN proxy = 1 .. ProxiesBy(step + 1)
  /\ pc \in Early \cup {"grow", "users"} => DOMAIN client = 0 .. ClientsBy(step) - 1

\* The assignments are about rows that exist, and are not of the future.
Linked ==
  /\ IsFiniteSet(rows) /\ rows \subseteq RowType
  /\ \A r \in rows : r.proxy \in DOMAIN proxy /\ r.client \in DOMAIN client /\ r.time <= step
  /\ affected \subseteq (DOMAIN proxy) \X (DOMAIN client)
  /\ pc \in {"censor", "write", "flush"} => affected = {}

\* Outside a call of get_matched_clients nobody waits and nothing is kept.
Idle ==
  /\ prefs = NoPrefs /\ ranks = NoRanks /\ asked = [c \in Clients |-> 0]
  /\ waiting = {} /\ pass = {} /\ accepted = [p \in Proxies |-> {}]

\* Within one, those affected who are not flagged have asked for the active proxies.
Asking ==
  /\ \A c \in Clients : \A i \in 1 .. Len(prefs[c]) : prefs[c][i] \in Active
  /\ \A c \in Affected : ~client[c].flagged =>
                           \A p \in Active : \E i \in 1 .. Len(prefs[c]) : prefs[c][i] = p
  /\ waiting \subseteq {c \in Affected : ~client[c].flagged}
  /\ \A p \in Proxies : accepted[p] \subseteq {c \in Affected : ~client[c].flagged}

Base ==
  /\ Typed /\ Sized /\ Linked
  /\ IF pc = "match" THEN Matching!IInv /\ Asking ELSE Idle

\* Who has just lost a proxy has none.
Dry == pc \in {"record", "rejuvenate", "request", "match"} => \A c \in Affected : LiveRows(c) = {}

\* blocked_clients lists nobody twice.
OneEach == \A a, b \in affected : a[2] = b[2] => a = b

\* Nobody who had a proxy to lose was flagged.
UnflaggedAffected == pc \in {"record", "rejuvenate", "request"} => \A c \in Affected : ~client[c].flagged

\* A user asks for at most one proxy in a step, and loses at most one.
Limits == \A c \in DOMAIN client :
  /\ client[c].requests <= IF pc \in Early THEN step ELSE step + 1
  /\ client[c].known <= IF pc = "censor" THEN step ELSE step + 1

\* The charts between their record and the rejuvenation.
ChartsRight ==
  pc = "rejuvenate" =>
    /\ chart.usable = IF Rejuvenating THEN Cardinality(DOMAIN proxy)
                      ELSE Cardinality({p \in DOMAIN proxy : Usable(p)})
    /\ chart.connected = Cardinality({c \in DOMAIN client \ FlaggedUsers :
                                        c \in Affected => Rejuvenating})

\* A rejuvenation leaves no proxy blocked, and none is blocked later in the step.
AllUsable == pc \in {"request", "match", "grow", "users"} /\ Rejuvenating =>
               \A p \in DOMAIN proxy : Usable(p)

Unflagged == {c \in DOMAIN client : ~client[c].flagged}

\* With a rejuvenation in every step, who is not flagged has a proxy or has just lost one,
\* and they are no more than the places.
Served == Interval = 1 =>
  /\ pc \in {"censor", "grow", "users"} => \A c \in Unflagged : LiveRows(c) # {}
  /\ pc \in {"record", "rejuvenate", "request", "match"} =>
        /\ \A c \in Unflagged : c \in Affected \/ LiveRows(c) # {}
        /\ Cardinality(Unflagged) <= MaxCapacity * Cardinality(DOMAIN proxy)

\* One value in every chart for every step that was recorded.
Recorded ==
  /\ ResultsApart
  /\ pc \in {"censor", "record"} => charted = step
  /\ pc \in {"rejuvenate", "request", "match", "grow", "users"} => charted = step + 1
  /\ pc = "write" => charted = Duration

(***************************************************************************)
(* Arithmetic of the intervals                                             *)
(***************************************************************************)

\* The parameters are positive numbers.
LEMMA Parameters ==
  /\ Duration \in Nat \ {0} /\ UserEvery \in Nat \ {0} /\ ProxyEvery \in Nat \ {0}
  /\ MaxCapacity \in Nat \ {0} /\ FlagBelow \in Int
  /\ ProxyPlaces \subseteq Nat /\ ClientPlaces \subseteq Nat
BY SimulationAssumption

LEMMA DivMod ==
  ASSUME NEW a \in Nat, NEW k \in Nat \ {0}
  PROVE  /\ a \div k \in Nat /\ a % k \in 0 .. k - 1
         /\ a = k * (a \div k) + (a % k)
OBVIOUS

LEMMA DivModUnique ==
  ASSUME NEW k \in Nat \ {0}, NEW q \in Nat, NEW r \in 0 .. k - 1,
         NEW x \in Nat, NEW y \in 0 .. k - 1, k * q + r = k * x + y
  PROVE  q = x /\ r = y
<1>1. CASE q = x
  BY <1>1
<1>2. CASE q < x
  <2>1. PICK d \in Nat \ {0} : x = q + d
    <3>1. x - q \in Nat \ {0} /\ x = q + (x - q)
      BY <1>2
    <3>2. QED
      BY <3>1
  <2>2. k * x = k * q + k * d /\ k * d >= k
    BY <2>1
  <2>3. k * q \in Nat /\ k * d \in Nat
    BY <2>1
  <2>4. QED
    BY <2>2, <2>3
<1>3. CASE x < q
  <2>1. PICK d \in Nat \ {0} : q = x + d
    <3>1. q - x \in Nat \ {0} /\ q = x + (q - x)
      BY <1>3
    <3>2. QED
      BY <3>1
  <2>2. k * q = k * x + k * d /\ k * d >= k
    BY <2>1
  <2>3. k * x \in Nat /\ k * d \in Nat
    BY <2>1
  <2>4. QED
    BY <2>2, <2>3
<1>4. QED
  BY <1>1, <1>2, <1>3

LEMMA DivNext ==
  ASSUME NEW s \in Nat, NEW k \in Nat \ {0}
  PROVE  (s + 1) \div k = IF (s + 1) % k = 0 THEN (s \div k) + 1 ELSE s \div k
<1> DEFINE q == s \div k
           r == s % k
           x == (s + 1) \div k
           y == (s + 1) % k
<1>1. q \in Nat /\ r \in 0 .. k - 1 /\ s = k * q + r
  BY DivMod
<1>0. s + 1 \in Nat
  OBVIOUS
<1>2. x \in Nat /\ y \in 0 .. k - 1 /\ s + 1 = k * x + y
  BY <1>0, DivMod
<1> HIDE DEF q, r, x, y
<1>3. CASE r + 1 < k
  <2>1. k * q + (r + 1) = k * x + y /\ r + 1 \in 0 .. k - 1
    <3>1. k * q \in Nat /\ k * x \in Nat
      BY <1>1, <1>2
    <3>2. QED
      BY <1>1, <1>2, <1>3, <3>1
  <2>2. q = x /\ r + 1 = y
    BY <1>1, <1>2, <2>1, DivModUnique
  <2>3. QED
    BY <1>1, <2>2 DEF q, x, y
<1>4. CASE r + 1 = k
  <2>1. k * (q + 1) + 0 = k * x + y /\ q + 1 \in Nat /\ 0 \in 0 .. k - 1
    <3>1. k * q \in Nat /\ k * x \in Nat /\ k * (q + 1) = k * q + k
      BY <1>1, <1>2
    <3>2. QED
      BY <1>1, <1>2, <1>4, <3>1
  <2>2. q + 1 = x /\ 0 = y
    BY <1>2, <2>1, DivModUnique
  <2>3. QED
    BY <2>2 DEF q, x, y
<1>5. QED
  BY <1>1, <1>3, <1>4

LEMMA DivMonotone ==
  ASSUME NEW a \in Nat, NEW b \in Nat, a <= b, NEW k \in Nat \ {0}
  PROVE  a \div k <= b \div k
<1> DEFINE q == a \div k
           x == b \div k
<1>1. q \in Nat /\ a % k \in 0 .. k - 1 /\ a = k * q + (a % k)
  BY DivMod
<1>2. x \in Nat /\ b % k \in 0 .. k - 1 /\ b = k * x + (b % k)
  BY DivMod
<1> HIDE DEF q, x
<1>3. SUFFICES ASSUME x < q PROVE FALSE
  BY <1>1, <1>2 DEF q, x
<1>4. PICK d \in Nat \ {0} : q = x + d
  <2>1. q - x \in Nat \ {0} /\ q = x + (q - x)
    BY <1>1, <1>2, <1>3
  <2>2. QED
    BY <2>1
<1>5. k * q = k * x + k * d /\ k * d >= k
  BY <1>2, <1>4
<1>6. k * x \in Nat /\ k * d \in Nat
  BY <1>2, <1>4
<1>7. QED
  BY <1>1, <1>2, <1>5, <1>6

\* A step that is a multiple of k is one of every divisor of k.
LEMMA MultipleOfMultiple ==
  ASSUME NEW a \in Nat, NEW k \in Nat \ {0}, NEW j \in Nat \ {0}, a % k = 0, k % j = 0
  PROVE  a % j = 0
<1> DEFINE m == a \div k
           n == k \div j
<1>1. m \in Nat /\ a = k * m
  BY DivMod
<1>2. n \in Nat /\ k = j * n
  BY DivMod
<1> HIDE DEF m, n
<1>3. m * n \in Nat /\ a = j * (m * n)
  BY <1>1, <1>2
<1>4. a \div j \in Nat /\ a % j \in 0 .. j - 1 /\ a = j * (a \div j) + (a % j)
  BY DivMod
<1> DEFINE x == m * n
           y == a \div j
           z == a % j
<1>5. x \in Nat /\ y \in Nat /\ z \in 0 .. j - 1 /\ 0 \in 0 .. j - 1 /\ a = j * x /\ a = j * y + z
  BY <1>3, <1>4
<1> HIDE DEF x, y, z
<1>6. j * x + 0 = j * y + z
  <2>1. j * x \in Nat
    BY <1>5
  <2>2. QED
    BY <1>5, <2>1
<1>7. z = 0
  BY <1>5, <1>6, DivModUnique
<1>8. QED
  BY <1>7 DEF z

\* One proxy is created in the steps that ProxyEvery divides, one client in those that
\* UserEvery divides: the counts before a step, after it, and never more than there are ids.
LEMMA CountsBy ==
  ASSUME NEW s \in 0 .. Duration - 1
  PROVE  /\ ProxiesBy(s) \in Nat \ {0} /\ ClientsBy(s) \in Nat
         /\ ProxiesBy(s + 1) = IF s % ProxyEvery = 0 THEN ProxiesBy(s) + 1 ELSE ProxiesBy(s)
         /\ ClientsBy(s + 1) = IF s % UserEvery = 0 THEN ClientsBy(s) + 1 ELSE ClientsBy(s)
         /\ ProxiesBy(s + 1) <= ProxiesBy(Duration) /\ ClientsBy(s + 1) <= ClientsBy(Duration)
         /\ ProxiesBy(s) <= ProxiesBy(Duration) /\ ClientsBy(s) <= ClientsBy(Duration)
         /\ ProxiesBy(s + 1) \in Nat /\ ClientsBy(s + 1) \in Nat
         /\ ProxiesBy(Duration) \in Nat /\ ClientsBy(Duration) \in Nat
<1>1. Duration \in Nat \ {0} /\ UserEvery \in Nat \ {0} /\ ProxyEvery \in Nat \ {0} /\ s \in Nat
  BY Parameters
<1>2. /\ ProxiesBy(s + 1) = (s \div ProxyEvery) + 2
      /\ ClientsBy(s + 1) = (s \div UserEvery) + 1
      /\ ProxiesBy(Duration) = ((Duration - 1) \div ProxyEvery) + 2
      /\ ClientsBy(Duration) = ((Duration - 1) \div UserEvery) + 1
  <2>1. s + 1 # 0 /\ (s + 1) - 1 = s /\ Duration # 0
    BY <1>1
  <2>2. QED
    BY <2>1 DEF ProxiesBy, ClientsBy
<1>3. Duration - 1 \in Nat /\ s <= Duration - 1
  BY <1>1
<1>4. /\ s \div ProxyEvery \in Nat /\ s \div UserEvery \in Nat
      /\ (Duration - 1) \div ProxyEvery \in Nat /\ (Duration - 1) \div UserEvery \in Nat
      /\ s \div ProxyEvery <= (Duration - 1) \div ProxyEvery
      /\ s \div UserEvery <= (Duration - 1) \div UserEvery
  BY <1>1, <1>3, DivMonotone, DivMod
<1>5. CASE s = 0
  <2>1. 0 \div ProxyEvery = 0 /\ 0 \div UserEvery = 0 /\ 0 % ProxyEvery = 0 /\ 0 % UserEvery = 0
    BY <1>1
  <2>2. ProxiesBy(s) = 1 /\ ClientsBy(s) = 0
    BY <1>5 DEF ProxiesBy, ClientsBy
  <2> HIDE DEF ProxiesBy, ClientsBy
  <2>3. QED
    BY <1>2, <1>4, <1>5, <2>1, <2>2
<1>6. CASE s # 0
  <2>1. s - 1 \in Nat /\ s - 1 + 1 = s /\ s - 1 <= Duration - 1
    BY <1>1, <1>6
  <2>2. /\ s \div ProxyEvery = IF s % ProxyEvery = 0 THEN ((s - 1) \div ProxyEvery) + 1
                                                     ELSE (s - 1) \div ProxyEvery
        /\ s \div UserEvery = IF s % UserEvery = 0 THEN ((s - 1) \div UserEvery) + 1
                                                   ELSE (s - 1) \div UserEvery
    <3>1. \A k \in Nat \ {0} : (s - 1 + 1) \div k = IF (s - 1 + 1) % k = 0 THEN ((s - 1) \div k) + 1
                                                                           ELSE (s - 1) \div k
      BY <2>1, DivNext
    <3>2. QED
      BY <1>1, <2>1, <3>1
  <2>3. /\ (s - 1) \div ProxyEvery \in Nat /\ (s - 1) \div UserEvery \in Nat
        /\ (s - 1) \div ProxyEvery <= (Duration - 1) \div ProxyEvery
        /\ (s - 1) \div UserEvery <= (Duration - 1) \div UserEvery
    BY <1>1, <1>3, <2>1, DivMonotone, DivMod
  <2>4. ProxiesBy(s) = ((s - 1) \div ProxyEvery) + 2 /\ ClientsBy(s) = ((s - 1) \div UserEvery) + 1
    BY <1>6 DEF ProxiesBy, ClientsBy
  <2>5. QED
    BY <1>2, <1>4, <2>2, <2>3, <2>4
<1>7. QED
  BY <1>5, <1>6

\* The ids are those of the rows created by the end.
LEMMA IdsAre ==
  /\ Proxies = 1 .. ProxiesBy(Duration) /\ Clients = 0 .. ClientsBy(Duration) - 1
  /\ ProxiesBy(Duration) \in Nat \ {0} /\ ClientsBy(Duration) \in Nat
  /\ IsFiniteSet(Proxies) /\ IsFiniteSet(Clients)
<1>1. Duration \in Nat \ {0} /\ UserEvery \in Nat \ {0} /\ ProxyEvery \in Nat \ {0} /\ Duration - 1 \in Nat
  BY Parameters
<1>2. (Duration - 1) \div ProxyEvery \in Nat /\ (Duration - 1) \div UserEvery \in Nat
  BY <1>1, DivMod
<1>3. /\ ProxiesBy(Duration) = ((Duration - 1) \div ProxyEvery) + 2
      /\ ClientsBy(Duration) = ((Duration - 1) \div UserEvery) + 1
  BY <1>1 DEF ProxiesBy, ClientsBy
<1>4. /\ Proxies = 1 .. ProxiesBy(Duration) /\ Clients = 0 .. ClientsBy(Duration) - 1
      /\ ProxiesBy(Duration) \in Nat \ {0} /\ ClientsBy(Duration) \in Nat
  BY <1>2, <1>3 DEF Proxies, Clients
<1>5. QED
  BY <1>4, FS_Interval

(***************************************************************************)
(* Sorted lists                                                            *)
(***************************************************************************)

\* sorted() puts no two elements in the same place, and fills the places from the first on.
LEMMA PlacesInOrder ==
  ASSUME NEW S \in SUBSET Int, IsFiniteSet(S), NEW u \in [S -> Int]
  PROVE  /\ \A x \in S : Before(S, u, x) \in 0 .. Cardinality(S) - 1
         /\ \A x, y \in S : Before(S, u, x) = Before(S, u, y) => x = y
         /\ \A i \in 0 .. Cardinality(S) - 1 : \E x \in S : Before(S, u, x) = i
<1> DEFINE better(x) == {y \in S : u[y] > u[x] \/ (u[y] = u[x] /\ y > x)}
<1>1. \A x \in S : Before(S, u, x) = Cardinality(better(x))
  BY DEF Before
<1>2. \A x \in S : /\ IsFiniteSet(better(x)) /\ Cardinality(better(x)) \in Nat
                   /\ x \notin better(x) /\ better(x) \subseteq S
  <2>1. ASSUME NEW x \in S
        PROVE  better(x) \in SUBSET S /\ x \notin better(x)
    <3>1. u[x] \in Int /\ x \in Int
      OBVIOUS
    <3>2. QED
      BY <3>1
  <2> HIDE DEF better
  <2>2. QED
    BY <2>1, FS_Subset, FS_CardinalityType
<1>3. ASSUME NEW x \in S, NEW y \in S, x \in better(y)
      PROVE  Cardinality(better(x)) < Cardinality(better(y))
  <2>1. better(x) \cup {x} \subseteq better(y)
    <3>1. ASSUME NEW z \in better(x) PROVE z \in better(y)
      <4>1. u[x] \in Int /\ u[y] \in Int /\ u[z] \in Int /\ x \in Int /\ y \in Int /\ z \in Int
        BY <3>1
      <4>2. QED
        BY <1>3, <3>1, <4>1
    <3>2. QED
      BY <1>3, <3>1
  <2> HIDE DEF better
  <2>2. Cardinality(better(x) \cup {x}) = Cardinality(better(x)) + 1
    BY <1>2, FS_AddElement
  <2>3. Cardinality(better(x) \cup {x}) <= Cardinality(better(y))
    BY <1>2, <2>1, FS_Subset
  <2>4. QED
    BY <1>2, <2>2, <2>3
<1>4. \A x, y \in S : x # y => x \in better(y) \/ y \in better(x)
  <2>1. ASSUME NEW x \in S, NEW y \in S, x # y
        PROVE  x \in better(y) \/ y \in better(x)
    <3>1. u[x] \in Int /\ u[y] \in Int /\ x \in Int /\ y \in Int
      OBVIOUS
    <3>2. QED
      BY <2>1, <3>1
  <2>2. QED
    BY <2>1
<1> HIDE DEF better
<1>5. \A x, y \in S : Cardinality(better(x)) = Cardinality(better(y)) => x = y
  BY <1>2, <1>3, <1>4
<1>6. Cardinality(S) \in Nat
  BY FS_CardinalityType
<1>7. \A x \in S : Cardinality(better(x)) \in 0 .. Cardinality(S) - 1
  <2>1. ASSUME NEW x \in S PROVE Cardinality(better(x)) + 1 <= Cardinality(S)
    <3>1. better(x) \cup {x} \in SUBSET S
      BY <1>2
    <3>2. Cardinality(better(x) \cup {x}) = Cardinality(better(x)) + 1
      BY <1>2, FS_AddElement
    <3>3. QED
      BY <3>1, <3>2, FS_Subset
  <2>2. QED
    BY <1>2, <1>6, <2>1
<1> DEFINE b == [x \in S |-> Cardinality(better(x))]
<1>8. b \in Injection(S, 0 .. Cardinality(S) - 1)
  BY <1>5, <1>7 DEF Injection, IsInjective
<1>9. b \in Surjection(S, 0 .. Cardinality(S) - 1)
  <2>1. IsFiniteSet(0 .. Cardinality(S) - 1) /\ Cardinality(0 .. Cardinality(S) - 1) = Cardinality(S)
    BY <1>6, FS_Interval
  <2> HIDE DEF b
  <2>2. QED
    BY <1>8, <2>1, FS_Injection
<1>10. \A i \in 0 .. Cardinality(S) - 1 : \E x \in S : b[x] = i
  BY <1>9 DEF Surjection
<1>11. QED
  BY <1>1, <1>5, <1>7, <1>10

\* A sorted list is a sequence of the set that has every element of it.
LEMMA SortedIs ==
  ASSUME NEW S \in SUBSET Int, IsFiniteSet(S), NEW u \in [S -> Int]
  PROVE  /\ Sorted(S, u) \in Seq(S) /\ Len(Sorted(S, u)) = Cardinality(S)
         /\ \A i \in 1 .. Len(Sorted(S, u)) : Sorted(S, u)[i] \in S
         /\ \A x \in S : \E i \in 1 .. Len(Sorted(S, u)) : Sorted(S, u)[i] = x
<1>1. /\ \A x \in S : Before(S, u, x) \in 0 .. Cardinality(S) - 1
      /\ \A x, y \in S : Before(S, u, x) = Before(S, u, y) => x = y
      /\ \A i \in 0 .. Cardinality(S) - 1 : \E x \in S : Before(S, u, x) = i
  BY PlacesInOrder
<1>2. Cardinality(S) \in Nat
  BY FS_CardinalityType
<1> DEFINE n == Cardinality(S)
           at(i) == CHOOSE x \in S : Before(S, u, x) = i - 1
<1>3. \A i \in 1 .. n : at(i) \in S /\ Before(S, u, at(i)) = i - 1
  <2>1. ASSUME NEW i \in 1 .. n PROVE \E x \in S : Before(S, u, x) = i - 1
    BY <1>1, <1>2
  <2>2. QED
    BY <2>1
<1>4. Sorted(S, u) = [i \in 1 .. n |-> at(i)]
  BY DEF Sorted
<1> HIDE DEF at
<1>5. Sorted(S, u) \in [1 .. n -> S]
  BY <1>3, <1>4
<1>6. Sorted(S, u) \in Seq(S) /\ Len(Sorted(S, u)) = n
  BY <1>2, <1>5
<1>7. ASSUME NEW x \in S PROVE \E i \in 1 .. n : Sorted(S, u)[i] = x
  <2>1. PICK i \in 1 .. n : i - 1 = Before(S, u, x)
    <3>1. Before(S, u, x) \in 0 .. n - 1
      BY <1>1
    <3> DEFINE k == Before(S, u, x) + 1
    <3>2. k \in 1 .. n /\ k - 1 = Before(S, u, x)
      BY <1>2, <3>1
    <3> HIDE DEF k
    <3>3. QED
      BY <3>2
  <2>2. at(i) = x
    BY <1>1, <1>3, <2>1
  <2>3. QED
    BY <1>4, <2>2
<1>8. QED
  BY <1>5, <1>6, <1>7

(***************************************************************************)
(* Utilities are numbers                                                   *)
(***************************************************************************)

\* The rows of the database, and what they refer to.
LEMMA TablesAre ==
  ASSUME Typed, Sized, Linked
  PROVE  /\ step \in Nat /\ DOMAIN proxy \subseteq Nat \ {0} /\ DOMAIN client \subseteq Nat
         /\ IsFiniteSet(DOMAIN proxy) /\ IsFiniteSet(DOMAIN client)
         /\ DOMAIN proxy \subseteq Proxies /\ DOMAIN client \subseteq Clients
         /\ \A p \in DOMAIN proxy : proxy[p] \in ProxyRow /\ proxy[p].room \in 0 .. MaxCapacity
         /\ \A c \in DOMAIN client : client[c] \in ClientRow
         /\ \A r \in rows : /\ r \in RowType /\ r.time \in Nat
                            /\ r.proxy \in DOMAIN proxy /\ r.client \in DOMAIN client
         /\ \A p : IsFiniteSet(RowsOf(p)) /\ Cardinality(RowsOf(p)) \in Nat
<1>1. PICK n \in 1 .. ProxiesBy(Duration), m \in 0 .. ClientsBy(Duration) :
        DOMAIN proxy = 1 .. n /\ DOMAIN client = 0 .. m - 1
  BY DEF Sized
<1>2. ProxiesBy(Duration) \in Nat /\ ClientsBy(Duration) \in Nat
  BY IdsAre
<1>3. /\ DOMAIN proxy \subseteq Nat \ {0} /\ DOMAIN client \subseteq Nat
      /\ IsFiniteSet(DOMAIN proxy) /\ IsFiniteSet(DOMAIN client)
      /\ DOMAIN proxy \subseteq Proxies /\ DOMAIN client \subseteq Clients
  <2>1. n \in Nat /\ m \in Nat /\ n <= ProxiesBy(Duration) /\ m <= ClientsBy(Duration)
    BY <1>2
  <2>2. IsFiniteSet(1 .. n) /\ IsFiniteSet(0 .. m - 1)
    BY <2>1, FS_Interval
  <2>3. DOMAIN proxy \subseteq Nat \ {0} /\ DOMAIN client \subseteq Nat
    BY <1>1, <2>1
  <2>4. DOMAIN proxy \subseteq Proxies /\ DOMAIN client \subseteq Clients
    BY <1>1, <1>2, <2>1, IdsAre
  <2>5. QED
    BY <1>1, <2>2, <2>3, <2>4
<1>4. /\ \A p \in DOMAIN proxy : proxy[p] \in ProxyRow /\ proxy[p].room \in 0 .. MaxCapacity
      /\ \A c \in DOMAIN client : client[c] \in ClientRow
  <2>1. proxy \in [DOMAIN proxy -> ProxyRow] /\ client \in [DOMAIN client -> ClientRow]
    BY DEF Typed
  <2>2. \A p \in DOMAIN proxy : proxy[p] \in ProxyRow
    BY <2>1
  <2>3. \A c \in DOMAIN client : client[c] \in ClientRow
    BY <2>1
  <2>4. QED
    BY <2>2, <2>3 DEF ProxyRow
<1>5. \A r \in rows : /\ r \in RowType /\ r.time \in Nat
                      /\ r.proxy \in DOMAIN proxy /\ r.client \in DOMAIN client
  BY DEF Linked, RowType
<1>6. \A p : IsFiniteSet(RowsOf(p)) /\ Cardinality(RowsOf(p)) \in Nat
  BY FS_Subset, FS_CardinalityType DEF Linked, RowsOf
<1>7. step \in Nat
  BY Parameters DEF Typed
<1>8. QED
  BY <1>3, <1>4, <1>5, <1>6, <1>7

\* The sum over the rows of blocked proxies (general_client_utilities) is a number.
LEMMA UsageIsNumber ==
  ASSUME Typed, Sized, Linked, NEW c
  PROVE  BlockedUsage(c) \in Int
<1> DEFINE S == {r \in rows : r.client = c /\ ~Usable(r.proxy)}
           w == [r \in S |-> proxy[r.proxy].blockedAt - r.time]
           pick(s) == CHOOSE x \in s : TRUE
           Defines(f) == f = [s \in SUBSET S |->
                                IF s = {} THEN 0
                                ELSE (proxy[pick(s).proxy].blockedAt - pick(s).time) + f[s \ {pick(s)}]]
           iter == CHOOSE f : Defines(f)
<1>1. BlockedUsage(c) = iter[S]
  BY DEF BlockedUsage, MapThenSumSet, MapThenFoldSet
<1>2. IsFiniteSet(S)
  BY FS_Subset DEF Linked
<1>3. w \in [S -> Int]
  <2>1. \A r \in S : proxy[r.proxy].blockedAt \in Nat /\ r.time \in Nat
    BY TablesAre DEF ProxyRow
  <2>2. QED
    BY <2>1
<1>4. \A s \in SUBSET S : s # {} => pick(s) \in S /\ pick(s) \in s
  OBVIOUS
<1> HIDE DEF S
<1>5. Defines(iter)
  <2>1. PICK f \in [SUBSET S -> Int] : Summed(w, f, SUBSET S)
    BY <1>2, <1>3, SumExists
  <2>2. \A s \in SUBSET S : f[s] = IF s = {} THEN 0
                                   ELSE (proxy[pick(s).proxy].blockedAt - pick(s).time) + f[s \ {pick(s)}]
    BY <1>4, <2>1 DEF Summed
  <2>3. Defines(f)
    BY <2>1, <2>2
  <2>4. QED
    BY <2>3
<1>6. \A s \in SUBSET S : iter[s] = IF s = {} THEN 0 ELSE w[pick(s)] + iter[s \ {pick(s)}]
  BY <1>4, <1>5
<1> HIDE DEF iter, Defines, w
<1> DEFINE T == {n \in Nat : \E s \in SUBSET S : Cardinality(s) = n /\ iter[s] \notin Int}
<1>7. T = {}
  <2> SUFFICES ASSUME T # {} PROVE FALSE
    OBVIOUS
  <2>1. PICK n \in T : \A m \in T : n <= m
    BY LeastNumber
  <2>2. PICK s \in SUBSET S : Cardinality(s) = n /\ iter[s] \notin Int
    BY <2>1
  <2>3. s # {}
    <3>1. s = {} => iter[s] = 0
      BY <1>6, <2>2
    <3>2. QED
      BY <2>2, <3>1
  <2>4. pick(s) \in s /\ w[pick(s)] \in Int
    BY <1>3, <1>4, <2>2, <2>3
  <2>5. IsFiniteSet(s)
    BY <1>2, <2>2, FS_Subset
  <2>6. IsFiniteSet(s \ {pick(s)}) /\ Cardinality(s \ {pick(s)}) = n - 1
    BY <2>2, <2>4, <2>5, FS_RemoveElement
  <2>7. n - 1 \in Nat
    BY <2>1, <2>6, FS_CardinalityType
  <2>8. iter[s \ {pick(s)}] \in Int
    BY <2>1, <2>2, <2>6, <2>7
  <2>9. iter[s] = w[pick(s)] + iter[s \ {pick(s)}]
    BY <1>6, <2>2, <2>3
  <2>10. QED
    BY <2>2, <2>4, <2>8, <2>9
<1>8. Cardinality(S) \in Nat
  BY <1>2, FS_CardinalityType
<1>9. QED
  BY <1>1, <1>7, <1>8

\* What clients and proxies are sorted by.
LEMMA UtilitiesAreNumbers ==
  ASSUME Typed, Sized, Linked, NEW p \in DOMAIN proxy, NEW c \in DOMAIN client
  PROVE  ClientUtility(p, c) \in Int /\ ProxyUtility(p, c) \in Int
<1>1. /\ proxy[p].place \in Nat /\ proxy[p].room \in Nat /\ client[c].place \in Nat
      /\ client[c].requests \in Nat /\ client[c].known \in Nat /\ client[c].born \in Nat
      /\ step \in Nat /\ MaxCapacity \in Nat
  BY TablesAre, Parameters DEF ProxyRow, ClientRow
<1>2. Distance(p, c) \in Int
  BY <1>1 DEF Distance
<1>3. BlockedUsage(c) \in Int
  BY UsageIsNumber
<1>4. Cardinality({r.client : r \in RowsOf(p)}) \in Int
  <2>1. {r.client : r \in RowsOf(p)} \in SUBSET (DOMAIN client)
    BY TablesAre DEF RowsOf
  <2>2. QED
    BY <2>1, TablesAre, FS_Subset, FS_CardinalityType
<1>5. ClientUtility(p, c) \in Int
  <2>1. (IF client[c].agent THEN 4 ELSE 10) \in Int
    OBVIOUS
  <2> DEFINE weight == IF client[c].agent THEN 4 ELSE 10
  <2>2. weight \in Int
    BY <2>1
  <2> HIDE DEF weight
  <2>3. 2 * weight * (step - client[c].born) \in Int
    BY <1>1, <2>2
  <2>4. QED
    BY <1>1, <1>2, <1>3, <2>3 DEF ClientUtility, weight
<1>6. ProxyUtility(p, c) \in Int
  BY <1>1, <1>2, <1>4 DEF ProxyUtility
<1>7. QED
  BY <1>5, <1>6

(***************************************************************************)
(* Counting places                                                         *)
(***************************************************************************)

\* There are no more than k rows for each of the n proxies; if every one has k, there are
\* just as many.
RowsWithin(R, n, k) ==
  /\ Cardinality(R) <= k * n
  /\ (\A p \in 1 .. n : Cardinality({r \in R : r.proxy = p}) = k) => Cardinality(R) = k * n

LEMMA RowsAreCounted ==
  ASSUME NEW R, IsFiniteSet(R), NEW n \in Nat, NEW k \in Nat,
         \A r \in R : r.proxy \in 1 .. n,
         \A p \in 1 .. n : Cardinality({r \in R : r.proxy = p}) <= k
  PROVE  RowsWithin(R, n, k)
<1> DEFINE of(p) == {r \in R : r.proxy = p}
           size(p) == Cardinality(of(p))
           B(p) == Bijection(of(p), 1 .. size(p))
           g == [p \in 1 .. n |-> CHOOSE f : f \in B(p)]
           F == [r \in R |-> <<r.proxy, g[r.proxy][r]>>]
<1>1. \A p \in 1 .. n : IsFiniteSet(of(p)) /\ size(p) \in Nat
  BY FS_Subset, FS_CardinalityType
<1>2. \A p \in 1 .. n : g[p] \in B(p)
  <2>1. ASSUME NEW p \in 1 .. n PROVE \E f : f \in B(p)
    <3>1. ExistsBijection(1 .. size(p), of(p))
      BY <1>1, FS_CardinalityType
    <3>2. ExistsBijection(of(p), 1 .. size(p))
      BY <3>1, Fun_ExistsBijSymmetric
    <3>3. QED
      BY <3>2 DEF ExistsBijection
  <2> HIDE DEF B
  <2>2. QED
    BY <2>1
<1>3. \A p \in 1 .. n : /\ \A r \in of(p) : g[p][r] \in 1 .. size(p)
                        /\ \A r, s \in of(p) : g[p][r] = g[p][s] => r = s
                        /\ \A i \in 1 .. size(p) : \E r \in of(p) : g[p][r] = i
  <2>1. ASSUME NEW p \in 1 .. n, NEW f, f \in B(p)
        PROVE  /\ \A r \in of(p) : f[r] \in 1 .. size(p)
               /\ \A r, s \in of(p) : f[r] = f[s] => r = s
               /\ \A i \in 1 .. size(p) : \E r \in of(p) : f[r] = i
    <3> HIDE DEF of, size
    <3>1. f \in Bijection(of(p), 1 .. size(p))
      BY <2>1
    <3>2. QED
      BY <3>1 DEF Bijection, Injection, Surjection, IsInjective
  <2> HIDE DEF g, B, of, size
  <2>2. QED
    BY <1>2, <2>1
<1>0. \A p \in 1 .. n : size(p) <= k
  OBVIOUS
<1> HIDE DEF g, B
<1>4. \A r \in R : r.proxy \in 1 .. n /\ r \in of(r.proxy)
  OBVIOUS
<1>5. F \in Injection(R, (1 .. n) \X (1 .. k))
  <2>1. ASSUME NEW r \in R PROVE F[r] \in (1 .. n) \X (1 .. k)
    <3>1. g[r.proxy][r] \in 1 .. size(r.proxy) /\ size(r.proxy) \in Nat /\ size(r.proxy) <= k
      <4> HIDE DEF of, size
      <4>1. QED
        BY <1>0, <1>1, <1>3, <1>4
    <3>2. g[r.proxy][r] \in 1 .. k
      BY <3>1
    <3>3. QED
      BY <1>4, <3>2
  <2>2. ASSUME NEW r \in R, NEW s \in R, F[r] = F[s] PROVE r = s
    <3>1. r.proxy = s.proxy /\ g[r.proxy][r] = g[s.proxy][s]
      BY <2>2
    <3>2. QED
      BY <1>3, <1>4, <3>1
  <2>3. F \in [R -> (1 .. n) \X (1 .. k)]
    BY <2>1
  <2> HIDE DEF F
  <2>4. QED
    BY <2>2, <2>3 DEF Injection, IsInjective
<1>6. /\ IsFiniteSet((1 .. n) \X (1 .. k))
      /\ Cardinality((1 .. n) \X (1 .. k)) = k * n
  <2>1. /\ IsFiniteSet(1 .. n) /\ Cardinality(1 .. n) = n
        /\ IsFiniteSet(1 .. k) /\ Cardinality(1 .. k) = k
    BY FS_Interval
  <2>2. /\ IsFiniteSet((1 .. n) \X (1 .. k))
        /\ Cardinality((1 .. n) \X (1 .. k)) = n * k
    <3>1. /\ IsFiniteSet((1 .. n) \X (1 .. k))
          /\ Cardinality((1 .. n) \X (1 .. k)) = Cardinality(1 .. n) * Cardinality(1 .. k)
      BY <2>1, FS_Product, Zenon
    <3>2. QED
      BY <2>1, <3>1, Zenon
  <2>3. n * k = k * n
    OBVIOUS
  <2>4. QED
    BY <2>2, <2>3, Zenon
<1>7. ASSUME \A p \in 1 .. n : size(p) = k
      PROVE  F \in Surjection(R, (1 .. n) \X (1 .. k))
  <2>1. ASSUME NEW z \in (1 .. n) \X (1 .. k) PROVE \E r \in R : F[r] = z
    <3>1. PICK r \in of(z[1]) : g[z[1]][r] = z[2]
      <4> HIDE DEF of, size
      <4>1. z[1] \in 1 .. n /\ z[2] \in 1 .. size(z[1])
        BY <1>7
      <4>2. QED
        BY <1>3, <4>1
    <3>2. r \in R /\ r.proxy = z[1]
      BY <3>1
    <3>3. F[r] = <<z[1], z[2]>>
      BY <3>1, <3>2
    <3>4. QED
      BY <3>2, <3>3
  <2>2. F \in [R -> (1 .. n) \X (1 .. k)]
    BY <1>5 DEF Injection
  <2> HIDE DEF F
  <2>3. QED
    BY <2>1, <2>2 DEF Surjection
<1> HIDE DEF F, size
<1>8. /\ Cardinality(R) <= k * n
      /\ F \in Surjection(R, (1 .. n) \X (1 .. k)) => Cardinality(R) = k * n
  BY <1>5, <1>6, FS_Injection
<1>9. QED
  BY <1>7, <1>8 DEF size, RowsWithin

(***************************************************************************)
(* The tables stay in order                                                *)
(***************************************************************************)

\* What is proved of get_matched_clients holds for the calls of the simulation.
LEMMA CallsAreMatchings == MP!MatchingAssumption
<1>1. IsFiniteSet(Clients) /\ IsFiniteSet(Proxies) /\ Proxies \subseteq Nat
  BY IdsAre
<1>2. MP!IsFiniteSet(Clients) /\ MP!IsFiniteSet(Proxies)
  BY <1>1 DEF IsFiniteSet, MP!IsFiniteSet
<1>3. Nobody \notin Proxies /\ 1 .. MaxCapacity \subseteq Nat \ {0}
  <2>1. Nobody \notin Nat
    BY SimulationAssumption
  <2>2. Nobody \notin Proxies
    BY <1>1, <2>1, Zenon
  <2>3. 1 .. MaxCapacity \subseteq Nat \ {0}
    BY Parameters
  <2>4. QED
    BY <2>2, <2>3
<1>4. QED
  BY <1>2, <1>3 DEF MP!MatchingAssumption

LEMMA SameMatching ==
  /\ Matching!IInv <=> MP!IInv
  /\ Matching!IInv' <=> MP!IInv'
  /\ Matching!Next <=> MP!Next
<1>1. Matching!IInv <=> MP!IInv
  BY DEF Matching!IInv, MP!IInv, Matching!TypeOK, MP!TypeOK, Matching!RanksApart, MP!RanksApart,
         Matching!OnlyListed, MP!OnlyListed, Matching!WithinCapacity, MP!WithinCapacity,
         Matching!OnePlace, MP!OnePlace, Matching!NoRegret, MP!NoRegret,
         Matching!NobodyDropped, MP!NobodyDropped, Matching!Listed, MP!Listed,
         Matching!HasRoom, MP!HasRoom, Matching!Cardinality, MP!Cardinality
<1>2. Matching!IInv' <=> MP!IInv'
  BY DEF Matching!IInv, MP!IInv, Matching!TypeOK, MP!TypeOK, Matching!RanksApart, MP!RanksApart,
         Matching!OnlyListed, MP!OnlyListed, Matching!WithinCapacity, MP!WithinCapacity,
         Matching!OnePlace, MP!OnePlace, Matching!NoRegret, MP!NoRegret,
         Matching!NobodyDropped, MP!NobodyDropped, Matching!Listed, MP!Listed,
         Matching!HasRoom, MP!HasRoom, Matching!Cardinality, MP!Cardinality
<1>3. Matching!Next <=> MP!Next
  BY DEF Matching!Next, MP!Next, Matching!NextPass, MP!NextPass, Matching!Turn, MP!Turn,
         Matching!GiveUp, MP!GiveUp, Matching!Accept, MP!Accept, Matching!Displace, MP!Displace,
         Matching!Refuse, MP!Refuse, Matching!Ask, MP!Ask, Matching!Choice, MP!Choice,
         Matching!Last, MP!Last, Matching!HasRoom, MP!HasRoom, Matching!Cardinality, MP!Cardinality
<1>4. QED
  BY <1>1, <1>2, <1>3

\* The script starts with one proxy and no client.
LEMMA InitBase ==
  ASSUME Init
  PROVE  Base
<1>1. PICK place \in ProxyPlaces : proxy = [p \in {1} |-> NewProxy(place)]
  BY DEF Init
<1>2. DOMAIN proxy = 1 .. 1 /\ \A p \in DOMAIN proxy : proxy[p] = NewProxy(place)
  BY <1>1
<1>3. place \in Nat /\ MaxCapacity \in Nat /\ NewProxy(place) \in ProxyRow
  BY Parameters DEF NewProxy, ProxyRow
<1>4. Len(Configurations) \in Nat \ {0}
  BY SimulationAssumption
<1>5. client = <<>> /\ DOMAIN client = {} /\ client \in [DOMAIN client -> ClientRow]
  BY DEF Init
<1>6. Typed
  <2>1. proxy \in [DOMAIN proxy -> ProxyRow]
    BY <1>1, <1>3
  <2>5. \A p \in DOMAIN proxy : proxy[p].blockedAt <= step
    <3>1. step = 0 /\ NewProxy(place).blockedAt = 0
      BY DEF Init, NewProxy
    <3>2. QED
      BY <1>2, <3>1
  <2>2. conf \in 1 .. Len(Configurations) /\ step \in 0 .. Duration - 1 /\ pc \in Early
    BY <1>4, Parameters DEF Init, Early
  <2>3. chart \in [usable : Int, connected : Int] /\ charted \in Nat /\ results \in Seq(Nat)
    BY DEF Init
  <2>4. QED
    BY <1>5, <2>1, <2>2, <2>3, <2>5 DEF Typed
<1>7. Sized
  <2>1. ProxiesBy(0) = 1 /\ ClientsBy(0) = 0 /\ ProxiesBy(Duration) \in Nat \ {0} /\ ClientsBy(Duration) \in Nat
    BY IdsAre DEF ProxiesBy, ClientsBy
  <2>2. step = 0 /\ pc = "censor"
    BY DEF Init
  <2>3. DOMAIN client = 0 .. 0 - 1
    BY <1>5
  <2>4. QED
    BY <1>2, <2>1, <2>2, <2>3 DEF Sized
<1>8. Linked
  BY FS_EmptySet DEF Init, Linked
<1>9. QED
  BY <1>6, <1>7, <1>8 DEF Base, Init, Idle, Matching!Started

\* save() of a row changes a column and leaves the others.
Blocking(r, n)   == [r EXCEPT !.blocked = TRUE, !.blockedAt = n]
Restoring(r)     == [r EXCEPT !.blocked = FALSE, !.room = MaxCapacity]
Taking(r, n)     == [r EXCEPT !.room = @ - n]
Knowing(r, n)    == [r EXCEPT !.known = @ + n]
Requesting(r, n) == [r EXCEPT !.requests = @ + n]
FlaggingIf(r, f) == [r EXCEPT !.flagged = @ \/ f]

LEMMA BlockingSaves ==
  ASSUME NEW r \in ProxyRow, NEW n \in Nat
  PROVE  /\ Blocking(r, n) \in ProxyRow /\ Blocking(r, n).blocked = TRUE
         /\ Blocking(r, n).blockedAt = n /\ Blocking(r, n).room = r.room
BY DEF ProxyRow, Blocking

LEMMA RestoringSaves ==
  ASSUME NEW r \in ProxyRow
  PROVE  /\ Restoring(r) \in ProxyRow /\ Restoring(r).blocked = FALSE
         /\ Restoring(r).blockedAt = r.blockedAt /\ Restoring(r).room = MaxCapacity
<1>1. MaxCapacity \in 0 .. MaxCapacity
  BY Parameters
<1>2. QED
  BY <1>1 DEF ProxyRow, Restoring

LEMMA TakingSaves ==
  ASSUME NEW r \in ProxyRow, NEW n \in Nat, n <= r.room
  PROVE  /\ Taking(r, n) \in ProxyRow /\ Taking(r, n).blocked = r.blocked
         /\ Taking(r, n).blockedAt = r.blockedAt /\ Taking(r, n).room = r.room - n
<1>1. r.room \in 0 .. MaxCapacity /\ r.room - n \in 0 .. MaxCapacity
  BY Parameters DEF ProxyRow
<1>2. QED
  BY <1>1 DEF ProxyRow, Taking

LEMMA KnowingSaves ==
  ASSUME NEW r \in ClientRow, NEW n \in Nat
  PROVE  /\ Knowing(r, n) \in ClientRow /\ Knowing(r, n).known = r.known + n
         /\ Knowing(r, n).requests = r.requests /\ Knowing(r, n).born = r.born
         /\ Knowing(r, n).flagged = r.flagged /\ Knowing(r, n).agent = r.agent
<1>1. r.known + n \in Nat
  BY DEF ClientRow
<1>2. QED
  BY <1>1 DEF ClientRow, Knowing

LEMMA RequestingSaves ==
  ASSUME NEW r \in ClientRow, NEW n \in Nat
  PROVE  /\ Requesting(r, n) \in ClientRow /\ Requesting(r, n).known = r.known
         /\ Requesting(r, n).requests = r.requests + n /\ Requesting(r, n).born = r.born
         /\ Requesting(r, n).flagged = r.flagged /\ Requesting(r, n).agent = r.agent
<1>1. r.requests + n \in Nat
  BY DEF ClientRow
<1>2. QED
  BY <1>1 DEF ClientRow, Requesting

LEMMA FlaggingSaves ==
  ASSUME NEW r \in ClientRow, NEW f \in BOOLEAN
  PROVE  /\ FlaggingIf(r, f) \in ClientRow /\ FlaggingIf(r, f).known = r.known
         /\ FlaggingIf(r, f).requests = r.requests /\ FlaggingIf(r, f).born = r.born
         /\ FlaggingIf(r, f).flagged = (r.flagged \/ f) /\ FlaggingIf(r, f).agent = r.agent
<1>1. (r.flagged \/ f) \in BOOLEAN
  OBVIOUS
<1>2. QED
  BY <1>1 DEF ClientRow, FlaggingIf

\* censor.run: who is blocked, and what that counts.
LEMMA CensorDoes ==
  ASSUME Base, Censor
  PROVE  /\ DOMAIN proxy' = DOMAIN proxy /\ DOMAIN client' = DOMAIN client
         /\ Discovered \subseteq DOMAIN proxy
         /\ \A p \in DOMAIN proxy :
              /\ proxy'[p] \in ProxyRow /\ proxy'[p].room = proxy[p].room
              /\ proxy'[p].blockedAt <= step
              /\ proxy'[p].blocked <=> proxy[p].blocked \/ p \in Discovered
         /\ \A c \in DOMAIN client :
              /\ client'[c] \in ClientRow /\ client'[c].flagged = client[c].flagged
              /\ client'[c].requests = client[c].requests /\ client'[c].born = client[c].born
              /\ client'[c].known = client[c].known + Cardinality(KnownTo(c) \cap Discovered)
              /\ IsFiniteSet(KnownTo(c) \cap Discovered)
              /\ Cardinality(KnownTo(c) \cap Discovered) \in Nat
<1>1. /\ proxy' = [p \in DOMAIN proxy |->
                     IF p \in Discovered THEN Blocking(proxy[p], step) ELSE proxy[p]]
      /\ client' = [c \in DOMAIN client |->
                      Knowing(client[c], Cardinality(KnownTo(c) \cap Discovered))]
      /\ pc = "censor"
  BY DEF Censor, Blocking, Knowing
<1>2. Discovered \subseteq DOMAIN proxy
  BY DEF Discovered
<1>3. Typed /\ Sized /\ Linked /\ step \in Nat
  BY <1>1, TablesAre DEF Base
<1>4. ASSUME NEW p \in DOMAIN proxy
      PROVE  /\ proxy'[p] \in ProxyRow /\ proxy'[p].room = proxy[p].room
             /\ proxy'[p].blockedAt <= step
             /\ proxy'[p].blocked <=> proxy[p].blocked \/ p \in Discovered
  <2>1. proxy[p] \in ProxyRow /\ proxy[p].blockedAt <= step
    BY <1>3, TablesAre DEF Typed
  <2>2. proxy'[p] = IF p \in Discovered THEN Blocking(proxy[p], step) ELSE proxy[p]
    BY <1>1
  <2>3. QED
    <3>1. CASE p \in Discovered
      <4>1. proxy'[p] = Blocking(proxy[p], step)
        BY <2>2, <3>1
      <4>0. proxy[p] \in ProxyRow /\ step \in Nat
        BY <1>3, <2>1
      <4>5. /\ Blocking(proxy[p], step) \in ProxyRow /\ Blocking(proxy[p], step).room = proxy[p].room
            /\ Blocking(proxy[p], step).blockedAt = step
        BY <4>0, BlockingSaves
      <4>2. proxy'[p].blocked
        BY <1>3, <2>1, <4>1, BlockingSaves
      <4>3. /\ proxy'[p] \in ProxyRow /\ proxy'[p].room = proxy[p].room
            /\ proxy'[p].blockedAt = step
        BY <4>1, <4>5
      <4>4. QED
        BY <1>3, <3>1, <4>2, <4>3
    <3>2. CASE p \notin Discovered
      BY <2>1, <2>2, <3>2
    <3>3. QED
      BY <3>1, <3>2
<1>5. ASSUME NEW c \in DOMAIN client
      PROVE  /\ client'[c] \in ClientRow /\ client'[c].flagged = client[c].flagged
             /\ client'[c].requests = client[c].requests /\ client'[c].born = client[c].born
             /\ client'[c].known = client[c].known + Cardinality(KnownTo(c) \cap Discovered)
             /\ IsFiniteSet(KnownTo(c) \cap Discovered)
             /\ Cardinality(KnownTo(c) \cap Discovered) \in Nat
  <2>1. IsFiniteSet(KnownTo(c) \cap Discovered) /\ Cardinality(KnownTo(c) \cap Discovered) \in Nat
    <3>1. KnownTo(c) \cap Discovered \in SUBSET (DOMAIN proxy) /\ IsFiniteSet(DOMAIN proxy)
      BY <1>2, <1>3, TablesAre
    <3>2. QED
      BY <3>1, FS_Subset, FS_CardinalityType
  <2>2. client[c] \in ClientRow
    BY <1>3, TablesAre
  <2>3. client'[c] = Knowing(client[c], Cardinality(KnownTo(c) \cap Discovered))
    BY <1>1
  <2>4. QED
    BY <2>1, <2>2, <2>3, KnowingSaves
<1>6. DOMAIN proxy' = DOMAIN proxy /\ DOMAIN client' = DOMAIN client
  BY <1>1
<1>7. QED
  BY <1>2, <1>4, <1>5, <1>6

LEMMA CensorBase ==
  ASSUME Base, Censor
  PROVE  Base'
<1>1. /\ pc = "censor" /\ pc' = "record"
      /\ affected' = {a \in Discovered \X (DOMAIN client) : a[1] \in KnownTo(a[2])}
      /\ conf' = conf /\ step' = step /\ rows' = rows /\ chart' = chart /\ charted' = charted
      /\ results' = results /\ UNCHANGED matching
      /\ proxy' = [p \in DOMAIN proxy' |-> proxy'[p]] /\ client' = [c \in DOMAIN client' |-> client'[c]]
  BY DEF Censor
<1>2. Typed /\ Sized /\ Linked /\ Idle
  BY <1>1 DEF Base
<1>3. Typed'
  <2>1. proxy' \in [DOMAIN proxy' -> ProxyRow] /\ client' \in [DOMAIN client' -> ClientRow]
    BY <1>1, CensorDoes
  <2>2. /\ \A p \in DOMAIN proxy' : proxy'[p].blockedAt <= step'
        /\ \A c \in DOMAIN client' : client'[c].born <= step'
    BY <1>1, <1>2, CensorDoes DEF Typed
  <2>3. QED
    BY <1>1, <1>2, <2>1, <2>2 DEF Typed, Early
<1>4. Sized'
  BY <1>1, <1>2, CensorDoes DEF Sized, Early
<1>5. Linked'
  <2>1. affected' \subseteq (DOMAIN proxy') \X (DOMAIN client')
    BY <1>1, CensorDoes
  <2>2. QED
    BY <1>1, <1>2, <2>1, CensorDoes DEF Linked
<1>6. Idle'
  BY <1>1, <1>2 DEF Idle, matching
<1>7. QED
  BY <1>1, <1>3, <1>4, <1>5, <1>6 DEF Base

LEMMA RecordBase ==
  ASSUME Base, Record
  PROVE  Base'
<1>1. /\ pc = "record" /\ pc' = "rejuvenate" /\ proxy' = proxy /\ client' = client /\ rows' = rows
      /\ conf' = conf /\ step' = step /\ affected' = affected /\ charted' = charted + 1
      /\ results' = results /\ UNCHANGED matching
  BY DEF Record, database
<1>2. Typed /\ Sized /\ Linked /\ Idle
  BY <1>1 DEF Base
<1>3. chart' \in [usable : Int, connected : Int]
  <2>1. /\ Cardinality(DOMAIN proxy) \in Int /\ Cardinality(DOMAIN client) \in Int
        /\ Cardinality({p \in DOMAIN proxy : ~Usable(p)}) \in Int
        /\ Cardinality(FlaggedUsers) \in Int
    <3>1. FlaggedUsers \subseteq DOMAIN client
      BY DEF FlaggedUsers
    <3>2. QED
      BY <1>2, <3>1, TablesAre, FS_Subset, FS_CardinalityType
  <2>2. Cardinality(affected) \in Int
    <3>1. IsFiniteSet((DOMAIN proxy) \X (DOMAIN client))
      BY <1>2, TablesAre, FS_Product
    <3>2. QED
      BY <1>2, <3>1, FS_Subset, FS_CardinalityType DEF Linked
  <2>3. QED
    BY <2>1, <2>2 DEF Record
<1>4. Typed'
  BY <1>1, <1>2, <1>3 DEF Typed, Early
<1>5. Sized'
  BY <1>1, <1>2 DEF Sized, Early
<1>6. Linked'
  BY <1>1, <1>2 DEF Linked
<1>7. Idle'
  BY <1>1, <1>2 DEF Idle, matching
<1>8. QED
  BY <1>1, <1>4, <1>5, <1>6, <1>7 DEF Base

\* rejuvinate: which proxies work again, and whose rows are gone.
LEMMA RejuvenateDoes ==
  ASSUME Base, Rejuvenate
  PROVE  /\ DOMAIN proxy' = DOMAIN proxy
         /\ rows' = IF Rejuvenating THEN rows \ Forgotten ELSE rows
         /\ \A p \in DOMAIN proxy :
              /\ proxy'[p] \in ProxyRow /\ proxy'[p].blockedAt <= step
              /\ proxy'[p].blocked <=> proxy[p].blocked /\ ~Rejuvenating
              /\ proxy'[p].room = IF Rejuvenating /\ proxy[p].blocked THEN MaxCapacity ELSE proxy[p].room
<1>1. Typed /\ Sized /\ Linked
  BY DEF Base
<1>2. \A p \in DOMAIN proxy : proxy[p] \in ProxyRow /\ proxy[p].blockedAt <= step
  BY <1>1, TablesAre DEF Typed
<1>3. CASE Rejuvenating
  <2>1. proxy' = [p \in DOMAIN proxy |-> IF proxy[p].blocked THEN Restoring(proxy[p]) ELSE proxy[p]]
    BY <1>3 DEF Rejuvenate, Rejuvenated, Restoring, Usable
  <2>2. rows' = rows \ Forgotten
    BY <1>3 DEF Rejuvenate
  <2>3. ASSUME NEW p \in DOMAIN proxy
        PROVE  /\ proxy'[p] \in ProxyRow /\ proxy'[p].blockedAt <= step
               /\ ~proxy'[p].blocked
               /\ proxy'[p].room = IF proxy[p].blocked THEN MaxCapacity ELSE proxy[p].room
    <3>1. proxy'[p] = IF proxy[p].blocked THEN Restoring(proxy[p]) ELSE proxy[p]
      BY <2>1
    <3>3. proxy[p] \in ProxyRow /\ proxy[p].blockedAt <= step
      BY <1>2
    <3>2. QED
      <4>1. CASE proxy[p].blocked
        <5>1. proxy'[p] = Restoring(proxy[p])
          BY <3>1, <4>1
        <5>2. ~proxy'[p].blocked
          BY <3>3, <5>1, RestoringSaves
        <5>3. /\ proxy'[p] \in ProxyRow /\ proxy'[p].blockedAt = proxy[p].blockedAt
              /\ proxy'[p].room = MaxCapacity
          BY <3>3, <5>1, RestoringSaves
        <5>4. QED
          BY <3>3, <4>1, <5>2, <5>3
      <4>2. CASE ~proxy[p].blocked
        BY <1>2, <3>1, <4>2
      <4>3. QED
        BY <4>1, <4>2
  <2>4. QED
    BY <1>3, <2>1, <2>2, <2>3
<1>4. CASE ~Rejuvenating
  BY <1>2, <1>4 DEF Rejuvenate
<1>5. QED
  BY <1>3, <1>4

LEMMA RejuvenateBase ==
  ASSUME Base, Rejuvenate
  PROVE  Base'
<1>1. /\ pc = "rejuvenate" /\ pc' = "request" /\ client' = client
      /\ conf' = conf /\ step' = step /\ affected' = affected /\ chart' = chart /\ charted' = charted
      /\ results' = results /\ UNCHANGED matching
      /\ rows' \subseteq rows
  BY DEF Rejuvenate
<1>2. Typed /\ Sized /\ Linked /\ Idle
  BY <1>1 DEF Base
<1>3. Typed'
  <2>1. proxy' = [p \in DOMAIN proxy' |-> proxy'[p]]
    BY <1>2 DEF Rejuvenate, Typed
  <2>2. proxy' \in [DOMAIN proxy' -> ProxyRow]
    BY <2>1, RejuvenateDoes
  <2>3. QED
    BY <1>1, <1>2, <2>2, RejuvenateDoes DEF Typed, Early
<1>4. Sized'
  BY <1>1, <1>2, RejuvenateDoes DEF Sized, Early
<1>5. Linked'
  BY <1>1, <1>2, RejuvenateDoes, FS_Subset DEF Linked
<1>6. Idle'
  BY <1>1, <1>2 DEF Idle, matching
<1>7. QED
  BY <1>1, <1>3, <1>4, <1>5, <1>6 DEF Base

\* request_new_proxy up to the matching: who is flagged, who proposes, and to whom.
LEMMA RequestDoes ==
  ASSUME Base, Request
  PROVE  /\ DOMAIN client' = DOMAIN client
         /\ Active \subseteq DOMAIN proxy /\ Proposing \subseteq Affected /\ Affected \subseteq DOMAIN client
         /\ \A c \in DOMAIN client :
              /\ client'[c] \in ClientRow /\ client'[c].flagged = (client[c].flagged \/ c \in Flagging)
              /\ client'[c].requests = client[c].requests /\ client'[c].known = client[c].known
              /\ client'[c].born = client[c].born
         /\ Proposing = {c \in Affected : ~client'[c].flagged}
<1>1. pc = "request" /\ client' = [c \in DOMAIN client |-> FlaggingIf(client[c], c \in Flagging)]
  BY DEF Request, FlaggingIf
<1>2. Typed /\ Sized /\ Linked
  BY DEF Base
<1>3. ASSUME NEW c \in DOMAIN client
      PROVE  /\ client'[c] \in ClientRow /\ client'[c].flagged = (client[c].flagged \/ c \in Flagging)
             /\ client'[c].requests = client[c].requests /\ client'[c].known = client[c].known
             /\ client'[c].born = client[c].born
  <2> DEFINE r == client[c]
             f == c \in Flagging
  <2>1. r \in ClientRow /\ f \in BOOLEAN
    BY <1>2, TablesAre
  <2>2. client'[c] = FlaggingIf(r, f)
    BY <1>1
  <2> HIDE DEF r, f
  <2>3. /\ FlaggingIf(r, f) \in ClientRow /\ FlaggingIf(r, f).known = r.known
        /\ FlaggingIf(r, f).requests = r.requests /\ FlaggingIf(r, f).born = r.born
        /\ FlaggingIf(r, f).flagged = (r.flagged \/ f)
    BY <2>1, FlaggingSaves
  <2>4. QED
    BY <2>2, <2>3 DEF r, f
<1>4. Affected \subseteq DOMAIN client
  BY <1>2 DEF Linked, Affected
<1>5. Active \subseteq DOMAIN proxy /\ Proposing \subseteq Affected
  BY DEF Active, Proposing
<1>6. Proposing = {c \in Affected : ~client'[c].flagged}
  <2>1. \A c \in Affected : client'[c].flagged = (client[c].flagged \/ c \in Flagging)
    BY <1>3, <1>4
  <2>2. QED
    BY <2>1 DEF Proposing
<1>7. DOMAIN client' = DOMAIN client
  BY <1>1
<1>8. QED
  BY <1>3, <1>4, <1>5, <1>6, <1>7

\* The lists of those who propose are the active proxies, all of them; the ranks of a proxy
\* keep them apart.
LEMMA RequestLists ==
  ASSUME Base, Request
  PROVE  /\ \A c \in Proposing : /\ prefs'[c] \in Seq(Active)
                                 /\ \A i \in 1 .. Len(prefs'[c]) : prefs'[c][i] \in Active
                                 /\ \A p \in Active : \E i \in 1 .. Len(prefs'[c]) : prefs'[c][i] = p
         /\ \A c \in Clients \ Proposing : prefs'[c] = <<>>
         /\ ranks' \in [Proxies -> [Clients -> Nat]]
         /\ \A p \in Active : \A c, d \in Proposing : ranks'[p][c] = ranks'[p][d] => c = d
<1>1. Typed /\ Sized /\ Linked
  BY DEF Base
<1>2. /\ Active \subseteq DOMAIN proxy /\ Proposing \subseteq Affected /\ Affected \subseteq DOMAIN client
      /\ DOMAIN proxy \subseteq Proxies /\ DOMAIN client \subseteq Clients
      /\ DOMAIN proxy \subseteq Nat \ {0} /\ DOMAIN client \subseteq Nat
      /\ IsFiniteSet(DOMAIN proxy) /\ IsFiniteSet(DOMAIN client)
  BY <1>1, TablesAre, RequestDoes
<1>3. /\ Active \in SUBSET Int /\ IsFiniteSet(Active)
      /\ Proposing \in SUBSET Int /\ IsFiniteSet(Proposing)
  <2>1. IsFiniteSet(Active) /\ IsFiniteSet(Proposing)
    BY <1>2, FS_Subset
  <2>2. QED
    BY <1>2, <2>1
<1>4. ASSUME NEW c \in Proposing
      PROVE  /\ prefs'[c] \in Seq(Active)
             /\ \A i \in 1 .. Len(prefs'[c]) : prefs'[c][i] \in Active
             /\ \A p \in Active : \E i \in 1 .. Len(prefs'[c]) : prefs'[c][i] = p
  <2> DEFINE u == [p \in Active |-> ProxyUtility(p, c)]
  <2>1. u \in [Active -> Int]
    BY <1>1, <1>2, UtilitiesAreNumbers
  <2>2. prefs'[c] = Sorted(Active, u)
    BY <1>2 DEF Request
  <2> HIDE DEF u
  <2>3. /\ Sorted(Active, u) \in Seq(Active)
        /\ \A i \in 1 .. Len(Sorted(Active, u)) : Sorted(Active, u)[i] \in Active
        /\ \A p \in Active : \E i \in 1 .. Len(Sorted(Active, u)) : Sorted(Active, u)[i] = p
    BY <1>3, <2>1, SortedIs
  <2> DEFINE s == Sorted(Active, u)
  <2>4. /\ s \in Seq(Active) /\ prefs'[c] = s
        /\ \A i \in 1 .. Len(s) : s[i] \in Active
        /\ \A p \in Active : \E i \in 1 .. Len(s) : s[i] = p
    BY <2>2, <2>3
  <2> HIDE DEF s
  <2>5. QED
    BY <2>4
<1>5. \A c \in Clients \ Proposing : prefs'[c] = <<>>
  BY DEF Request
<1> DEFINE u(p) == [d \in Proposing |-> ClientUtility(p, d)]
           rank(p, c) == Before(Proposing, u(p), c)
<1>6. ranks' = [p \in Proxies |-> [c \in Clients |->
                  IF p \in Active /\ c \in Proposing THEN rank(p, c) + 1 ELSE 0]]
  BY DEF Request
<1>7. ASSUME NEW p \in Active
      PROVE  /\ \A c \in Proposing : rank(p, c) \in Nat
             /\ \A c, d \in Proposing : rank(p, c) = rank(p, d) => c = d
  <2> DEFINE v == u(p)
  <2>1. v \in [Proposing -> Int]
    BY <1>1, <1>2, UtilitiesAreNumbers
  <2> HIDE DEF v
  <2>2. /\ \A x \in Proposing : Before(Proposing, v, x) \in 0 .. Cardinality(Proposing) - 1
        /\ \A x, y \in Proposing : Before(Proposing, v, x) = Before(Proposing, v, y) => x = y
    BY <1>3, <2>1, PlacesInOrder
  <2>3. Cardinality(Proposing) \in Nat
    BY <1>3, FS_CardinalityType
  <2>4. \A x \in Proposing : Before(Proposing, v, x) \in Nat
    BY <2>2, <2>3
  <2>5. QED
    BY <2>2, <2>4 DEF v
<1> HIDE DEF rank
<1>8. ranks' \in [Proxies -> [Clients -> Nat]]
  <2>1. \A p \in Proxies, c \in Clients :
          (IF p \in Active /\ c \in Proposing THEN rank(p, c) + 1 ELSE 0) \in Nat
    BY <1>7
  <2>2. QED
    BY <1>6, <2>1
<1>9. \A p \in Active : \A c, d \in Proposing : ranks'[p][c] = ranks'[p][d] => c = d
  <2>1. ASSUME NEW p \in Active, NEW c \in Proposing, NEW d \in Proposing, ranks'[p][c] = ranks'[p][d]
        PROVE  c = d
    <3>1. p \in Proxies /\ c \in Clients /\ d \in Clients
      BY <1>2
    <3>2. ranks'[p][c] = rank(p, c) + 1 /\ ranks'[p][d] = rank(p, d) + 1
      BY <1>6, <3>1
    <3>3. rank(p, c) \in Nat /\ rank(p, d) \in Nat /\ (rank(p, c) = rank(p, d) => c = d)
      BY <1>7
    <3>4. rank(p, c) + 1 = rank(p, d) + 1
      BY <2>1, <3>2
    <3>5. rank(p, c) = rank(p, d)
      BY <3>3, <3>4
    <3>6. QED
      BY <3>3, <3>5
  <2>2. QED
    BY <2>1
<1>10. QED
  BY <1>4, <1>5, <1>8, <1>9

\* The capacities the matching reads are those of the rows.
LEMMA RoomIs ==
  ASSUME Typed, Sized, Linked
  PROVE  /\ Room \in [Proxies -> Nat]
         /\ \A p \in DOMAIN proxy : Room[p] = proxy[p].room
<1>1. \A p \in Proxies : (IF p \in DOMAIN proxy THEN proxy[p].room ELSE 0) \in Nat
  BY TablesAre, Parameters
<1>2. DOMAIN proxy \subseteq Proxies
  BY TablesAre
<1>3. QED
  BY <1>1, <1>2 DEF Room

LEMMA RequestBase ==
  ASSUME Base, Request
  PROVE  Base'
<1>1. /\ pc = "request" /\ pc' = "match" /\ proxy' = proxy /\ rows' = rows
      /\ conf' = conf /\ step' = step /\ affected' = affected /\ chart' = chart /\ charted' = charted
      /\ results' = results /\ asked' = asked /\ pass' = pass /\ accepted' = accepted
      /\ waiting' = Proposing
  BY DEF Request
<1>2. Typed /\ Sized /\ Linked /\ Idle
  BY <1>1 DEF Base
<1>3. Typed'
  <2>1. client' = [c \in DOMAIN client' |-> client'[c]]
    BY DEF Request
  <2>2. client' \in [DOMAIN client' -> ClientRow]
    BY <2>1, RequestDoes
  <2>3. QED
    BY <1>1, <1>2, <2>2, RequestDoes DEF Typed, Early
<1>4. Sized'
  BY <1>1, <1>2, RequestDoes DEF Sized, Early
<1>5. Linked'
  BY <1>1, <1>2, RequestDoes DEF Linked
<1>6. Room' = Room /\ Active' = Active /\ Affected' = Affected
  BY <1>1 DEF Room, Active, Usable, Affected
<1>7. Room \in [Proxies -> Nat] /\ Proposing \subseteq Clients /\ Active \subseteq Proxies
  BY <1>2, RoomIs, RequestDoes, TablesAre
<1>8. /\ asked' = [c \in Clients |-> 0] /\ pass' = {} /\ accepted' = [p \in Proxies |-> {}]
  BY <1>1, <1>2 DEF Idle
<1>9. /\ DOMAIN prefs' = Clients /\ \A c \in Clients : prefs'[c] \in Seq(Proxies)
      /\ prefs' = [c \in Clients |-> prefs'[c]]
  <2>1. DOMAIN prefs' = Clients /\ prefs' = [c \in Clients |-> prefs'[c]]
    BY DEF Request
  <2>2. \A c \in Proposing : prefs'[c] \in Seq(Proxies)
    BY <1>7, RequestLists
  <2>3. \A c \in Clients \ Proposing : prefs'[c] \in Seq(Proxies)
    <3>1. <<>> \in Seq(Proxies)
      OBVIOUS
    <3>2. QED
      BY <3>1, RequestLists
  <2>4. \A c \in Clients : prefs'[c] \in Seq(Proxies)
    BY <2>2, <2>3
  <2>5. QED
    BY <2>1, <2>4
<1>10. Matching!IInv'
  <2>1. Matching!TypeOK'
    <3>1. prefs' \in [Clients -> Seq(Proxies)]
      BY <1>9
    <3>2. ranks' \in [Proxies -> [Clients -> Nat]]
      BY RequestLists
    <3>3. \A c \in Clients : Len(prefs'[c]) \in Nat
      BY <1>9
    <3>4. QED
      BY <1>1, <1>6, <1>7, <1>8, <3>1, <3>2, <3>3 DEF Matching!TypeOK
  <2>2. Matching!RanksApart'
    <3>1. \A p \in Proxies : Matching!Listed(p)' \subseteq IF p \in Active THEN Proposing ELSE {}
      <4>1. ASSUME NEW p \in Proxies, NEW c \in Clients, NEW i \in 1 .. Len(prefs'[c]), prefs'[c][i] = p
            PROVE  p \in Active /\ c \in Proposing
        <5>1. CASE c \in Proposing
          BY <4>1, <5>1, RequestLists
        <5>2. CASE c \notin Proposing
          <6>1. prefs'[c] = <<>>
            BY <5>2, RequestLists
          <6>2. QED
            BY <6>1
        <5>3. QED
          BY <5>1, <5>2
      <4>2. QED
        BY <4>1 DEF Matching!Listed
    <3>2. QED
      BY <3>1, RequestLists DEF Matching!RanksApart
  <2>3. Matching!OnlyListed'
    BY <1>8 DEF Matching!OnlyListed
  <2>4. Matching!WithinCapacity'
    <3>1. \A p \in Proxies : accepted'[p] = {} /\ Room'[p] \in Nat
      BY <1>6, <1>7, <1>8
    <3>2. Cardinality({}) = 0
      BY FS_EmptySet
    <3>3. \A p \in Proxies : Cardinality(accepted'[p]) <= Room'[p]
      BY <3>1, <3>2
    <3>4. QED
      BY <3>3 DEF Matching!WithinCapacity, Matching!Cardinality, Cardinality
  <2>5. Matching!OnePlace'
    BY <1>8 DEF Matching!OnePlace
  <2>6. Matching!NoRegret'
    BY <1>8 DEF Matching!NoRegret
  <2>7. Matching!NobodyDropped'
    <3>1. ASSUME NEW c \in Clients PROVE c \in waiting' \/ asked'[c] = Len(prefs'[c])
      <4>1. c \notin Proposing => prefs'[c] = <<>>
        BY RequestLists
      <4>2. QED
        BY <1>1, <1>8, <4>1
    <3>2. QED
      BY <3>1 DEF Matching!NobodyDropped
  <2>8. QED
    BY <2>1, <2>2, <2>3, <2>4, <2>5, <2>6, <2>7 DEF Matching!IInv
<1>11. Asking'
  <2>1. \A c \in Clients : \A i \in 1 .. Len(prefs'[c]) : prefs'[c][i] \in Active
    <3>1. ASSUME NEW c \in Clients, NEW i \in 1 .. Len(prefs'[c]) PROVE prefs'[c][i] \in Active
      <4>1. c \notin Proposing => prefs'[c] = <<>>
        BY RequestLists
      <4>2. c \in Proposing
        BY <4>1
      <4>3. QED
        BY <4>2, RequestLists
    <3>2. QED
      BY <3>1
  <2>2. \A c \in Affected : ~client'[c].flagged =>
                              \A p \in Active : \E i \in 1 .. Len(prefs'[c]) : prefs'[c][i] = p
    BY RequestDoes, RequestLists
  <2>3. /\ waiting' \subseteq {c \in Affected : ~client'[c].flagged}
        /\ \A p \in Proxies : accepted'[p] \subseteq {c \in Affected : ~client'[c].flagged}
    BY <1>1, <1>8, RequestDoes
  <2>4. QED
    BY <1>6, <2>1, <2>2, <2>3 DEF Asking
<1>12. QED
  BY <1>1, <1>3, <1>4, <1>5, <1>10, <1>11 DEF Base

\* A turn of the matching moves clients between those who wait and those accepted.
LEMMA MatchMoves ==
  ASSUME Matching!TypeOK, Matching!Next, NEW W, waiting \subseteq W,
         \A p \in Proxies : accepted[p] \subseteq W
  PROVE  prefs' = prefs /\ waiting' \subseteq W /\ \A p \in Proxies : accepted'[p] \subseteq W
<1>1. CASE Matching!NextPass
  BY <1>1 DEF Matching!NextPass
<1>2. ASSUME NEW c \in Clients, Matching!Turn(c)
      PROVE  prefs' = prefs /\ waiting' \subseteq W /\ \A p \in Proxies : accepted'[p] \subseteq W
  <2>1. c \in pass /\ pass \subseteq waiting /\ c \in W /\ accepted \in [Proxies -> SUBSET Clients]
    BY <1>2 DEF Matching!Turn, Matching!TypeOK
  <2>2. CASE Matching!GiveUp(c)
    BY <2>2 DEF Matching!GiveUp
  <2>3. CASE Matching!Accept(c)
    BY <2>1, <2>3 DEF Matching!Accept, Matching!Ask
  <2>4. ASSUME NEW d \in Clients, Matching!Displace(c, d)
        PROVE  prefs' = prefs /\ waiting' \subseteq W /\ \A p \in Proxies : accepted'[p] \subseteq W
    <3>1. Matching!Choice(c) \in Proxies
      BY <2>4 DEF Matching!Displace, Matching!Ask, Matching!Choice, Matching!TypeOK
    <3>2. d \in accepted[Matching!Choice(c)]
      BY <2>4 DEF Matching!Displace, Matching!Last
    <3>3. d \in W
      BY <3>1, <3>2
    <3>4. QED
      BY <2>1, <2>4, <3>3 DEF Matching!Displace, Matching!Ask
  <2>5. ASSUME NEW d \in Clients, Matching!Refuse(c, d)
        PROVE  prefs' = prefs /\ waiting' \subseteq W /\ \A p \in Proxies : accepted'[p] \subseteq W
    BY <2>5 DEF Matching!Refuse, Matching!Ask
  <2>6. QED
    BY <1>2, <2>2, <2>3, <2>4, <2>5 DEF Matching!Turn
<1>3. QED
  BY <1>1, <1>2 DEF Matching!Next

LEMMA MatchBase ==
  ASSUME Base, Match
  PROVE  Base'
<1>1. /\ pc = "match" /\ pc' = pc /\ proxy' = proxy /\ client' = client /\ rows' = rows
      /\ conf' = conf /\ step' = step /\ affected' = affected /\ chart' = chart /\ charted' = charted
      /\ results' = results /\ Matching!Next
  BY DEF Match, database
<1>2. Typed /\ Sized /\ Linked /\ Matching!IInv /\ Asking
  BY <1>1 DEF Base
<1>3. Matching!IInv'
  <2>1. MP!IInv /\ MP!Next /\ MP!MatchingAssumption
    BY <1>1, <1>2, SameMatching, CallsAreMatchings
  <2>2. MP!IInv'
    BY <2>1, MP!NextKeepsIInv
  <2>3. QED
    BY <2>2, SameMatching
<1>4. Asking'
  <2> DEFINE W == {c \in Affected : ~client[c].flagged}
  <2>1. Matching!TypeOK
    BY <1>2 DEF Matching!IInv
  <2>2. waiting \subseteq W /\ \A p \in Proxies : accepted[p] \subseteq W
    BY <1>2 DEF Asking
  <2> HIDE DEF W
  <2>3. prefs' = prefs /\ waiting' \subseteq W /\ \A p \in Proxies : accepted'[p] \subseteq W
    BY <1>1, <2>1, <2>2, MatchMoves
  <2>4. Active' = Active /\ Affected' = Affected
    BY <1>1 DEF Active, Usable, Affected
  <2>5. QED
    BY <1>1, <1>2, <2>3, <2>4 DEF Asking, W
<1>5. Typed' /\ Sized' /\ Linked'
  BY <1>1, <1>2 DEF Typed, Sized, Linked
<1>6. QED
  BY <1>1, <1>3, <1>4, <1>5 DEF Base

\* What the matching returns: users that were affected, at active proxies, one place each
\* and no more than there are.
LEMMA MatchedAre ==
  ASSUME Base, pc = "match"
  PROVE  /\ \A p \in Proxies : /\ accepted[p] \subseteq {c \in Affected : ~client[c].flagged}
                               /\ accepted[p] \subseteq DOMAIN client
                               /\ IsFiniteSet(accepted[p]) /\ Cardinality(accepted[p]) \in Nat
                               /\ accepted[p] # {} => p \in Active
         /\ \A p \in DOMAIN proxy : Cardinality(accepted[p]) <= proxy[p].room
         /\ \A p, q \in Proxies : p # q => accepted[p] \cap accepted[q] = {}
<1>1. Typed /\ Sized /\ Linked /\ Matching!IInv /\ Asking
  BY DEF Base
<1>2. Affected \subseteq DOMAIN client /\ IsFiniteSet(DOMAIN client)
  BY <1>1, TablesAre DEF Linked, Affected
<1>3. ASSUME NEW p \in Proxies
      PROVE  /\ accepted[p] \subseteq {c \in Affected : ~client[c].flagged}
             /\ accepted[p] \subseteq DOMAIN client
             /\ IsFiniteSet(accepted[p]) /\ Cardinality(accepted[p]) \in Nat
             /\ accepted[p] # {} => p \in Active
  <2>1. accepted[p] \subseteq {c \in Affected : ~client[c].flagged}
    BY <1>1 DEF Asking
  <2>2. accepted[p] \in SUBSET (DOMAIN client)
    BY <1>2, <2>1
  <2>3. IsFiniteSet(accepted[p]) /\ Cardinality(accepted[p]) \in Nat
    BY <1>2, <2>2, FS_Subset, FS_CardinalityType
  <2>4. accepted[p] # {} => p \in Active
    <3>1. accepted[p] \subseteq Matching!Listed(p)
      BY <1>1 DEF Matching!IInv, Matching!OnlyListed
    <3>2. \A c \in Matching!Listed(p) : p \in Active
      BY <1>1 DEF Matching!Listed, Asking
    <3>3. QED
      BY <3>1, <3>2
  <2>5. QED
    BY <2>1, <2>2, <2>3, <2>4
<1>4. ASSUME NEW p \in DOMAIN proxy PROVE Cardinality(accepted[p]) <= proxy[p].room
  <2>1. p \in Proxies /\ Room[p] = proxy[p].room
    BY <1>1, TablesAre, RoomIs
  <2>2. Cardinality(accepted[p]) <= Room[p]
    BY <1>1, <2>1 DEF Matching!IInv, Matching!WithinCapacity, Matching!Cardinality, Cardinality
  <2>3. QED
    BY <2>1, <2>2
<1>5. \A p, q \in Proxies : p # q => accepted[p] \cap accepted[q] = {}
  BY <1>1 DEF Matching!IInv, Matching!OnePlace
<1>6. QED
  BY <1>3, <1>4, <1>5

\* The rows and columns that request_new_proxy writes after the matching.
LEMMA AssignDoes ==
  ASSUME Base, Assign
  PROVE  /\ DOMAIN proxy' = DOMAIN proxy /\ DOMAIN client' = DOMAIN client
         /\ rows' = rows \cup {r \in [proxy : Active, client : Affected, time : {step}] :
                                 r.client \in accepted[r.proxy]}
         /\ \A p \in DOMAIN proxy :
              /\ proxy'[p] \in ProxyRow /\ proxy'[p].blocked = proxy[p].blocked
              /\ proxy'[p].blockedAt = proxy[p].blockedAt
              /\ proxy'[p].room = proxy[p].room - Cardinality(accepted[p])
         /\ \A c \in DOMAIN client :
              /\ client'[c] \in ClientRow /\ client'[c].flagged = client[c].flagged
              /\ client'[c].known = client[c].known /\ client'[c].born = client[c].born
              /\ client'[c].requests = client[c].requests + Cardinality({p \in Proxies : c \in accepted[p]})
              /\ Cardinality({p \in Proxies : c \in accepted[p]}) \in Nat
<1>1. /\ pc = "match"
      /\ proxy' = [p \in DOMAIN proxy |-> Taking(proxy[p], Cardinality(accepted[p]))]
      /\ client' = [c \in DOMAIN client |->
                      Requesting(client[c], Cardinality({p \in Proxies : c \in accepted[p]}))]
      /\ rows' = rows \cup {[proxy |-> m[1], client |-> m[2], time |-> step] :
                              m \in {m \in Proxies \X Clients : m[2] \in accepted[m[1]]}}
  BY DEF Assign, Taking, Requesting
<1>2. Typed /\ Sized /\ Linked
  BY DEF Base
<1>3. DOMAIN proxy \subseteq Proxies /\ DOMAIN client \subseteq Clients /\ Affected \subseteq DOMAIN client
  BY <1>2, TablesAre DEF Linked, Affected
<1>4. rows' = rows \cup {r \in [proxy : Active, client : Affected, time : {step}] :
                           r.client \in accepted[r.proxy]}
  <2> DEFINE New == {[proxy |-> m[1], client |-> m[2], time |-> step] :
                       m \in {m \in Proxies \X Clients : m[2] \in accepted[m[1]]}}
             Made == {r \in [proxy : Active, client : Affected, time : {step}] :
                        r.client \in accepted[r.proxy]}
  <2>1. New \subseteq Made
    <3>1. ASSUME NEW p \in Proxies, NEW c \in accepted[p]
          PROVE  [proxy |-> p, client |-> c, time |-> step] \in Made
      <4>1. p \in Active /\ c \in Affected
        BY <1>1, MatchedAre
      <4>2. QED
        BY <4>1
    <3> HIDE DEF Made
    <3>2. QED
      BY <3>1
  <2>2. Made \subseteq New
    <3>1. ASSUME NEW r \in Made PROVE r \in New
      <4> DEFINE m == <<r.proxy, r.client>>
      <4>1. r = [proxy |-> m[1], client |-> m[2], time |-> step]
        OBVIOUS
      <4>2. m \in Proxies \X Clients /\ m[2] \in accepted[m[1]]
        BY <1>3 DEF Active
      <4> HIDE DEF m
      <4>3. QED
        BY <4>1, <4>2
    <3>2. QED
      BY <3>1
  <2>3. QED
    BY <1>1, <2>1, <2>2
<1>5. ASSUME NEW p \in DOMAIN proxy
      PROVE  /\ proxy'[p] \in ProxyRow /\ proxy'[p].blocked = proxy[p].blocked
             /\ proxy'[p].blockedAt = proxy[p].blockedAt
             /\ proxy'[p].room = proxy[p].room - Cardinality(accepted[p])
  <2> DEFINE r == proxy[p]
             n == Cardinality(accepted[p])
  <2>1. r \in ProxyRow /\ n \in Nat /\ n <= r.room
    BY <1>1, <1>2, <1>3, TablesAre, MatchedAre
  <2>2. proxy'[p] = Taking(r, n)
    BY <1>1
  <2> HIDE DEF r, n
  <2>3. /\ Taking(r, n) \in ProxyRow /\ Taking(r, n).blocked = r.blocked
        /\ Taking(r, n).blockedAt = r.blockedAt /\ Taking(r, n).room = r.room - n
    BY <2>1, TakingSaves
  <2>4. QED
    BY <2>2, <2>3 DEF r, n
<1>6. ASSUME NEW c \in DOMAIN client
      PROVE  /\ client'[c] \in ClientRow /\ client'[c].flagged = client[c].flagged
             /\ client'[c].known = client[c].known /\ client'[c].born = client[c].born
             /\ client'[c].requests = client[c].requests + Cardinality({p \in Proxies : c \in accepted[p]})
             /\ Cardinality({p \in Proxies : c \in accepted[p]}) \in Nat
  <2> DEFINE r == client[c]
             n == Cardinality({p \in Proxies : c \in accepted[p]})
  <2>1. n \in Nat
    BY IdsAre, FS_Subset, FS_CardinalityType
  <2>2. r \in ClientRow
    BY <1>2, TablesAre
  <2>3. client'[c] = Requesting(r, n)
    BY <1>1
  <2> HIDE DEF r, n
  <2>4. /\ Requesting(r, n) \in ClientRow /\ Requesting(r, n).known = r.known
        /\ Requesting(r, n).requests = r.requests + n /\ Requesting(r, n).born = r.born
        /\ Requesting(r, n).flagged = r.flagged
    BY <2>1, <2>2, RequestingSaves
  <2>5. QED
    BY <2>1, <2>3, <2>4 DEF r, n
<1>7. DOMAIN proxy' = DOMAIN proxy /\ DOMAIN client' = DOMAIN client
  BY <1>1
<1>8. QED
  BY <1>4, <1>5, <1>6, <1>7

LEMMA AssignBase ==
  ASSUME Base, Assign
  PROVE  Base'
<1>1. /\ pc = "match" /\ pc' = "grow" /\ conf' = conf /\ step' = step /\ affected' = affected
      /\ chart' = chart /\ charted' = charted /\ results' = results
      /\ waiting = {} /\ pass = {} /\ waiting' = waiting /\ pass' = pass
      /\ prefs' = NoPrefs /\ ranks' = NoRanks
      /\ asked' = [c \in Clients |-> 0] /\ accepted' = [p \in Proxies |-> {}]
      /\ proxy' = [p \in DOMAIN proxy' |-> proxy'[p]] /\ client' = [c \in DOMAIN client' |-> client'[c]]
  BY DEF Assign, Matching!Finished
<1>2. Typed /\ Sized /\ Linked
  BY DEF Base
<1>3. Typed'
  <2>1. proxy' \in [DOMAIN proxy' -> ProxyRow] /\ client' \in [DOMAIN client' -> ClientRow]
    BY <1>1, AssignDoes
  <2>2. /\ \A p \in DOMAIN proxy' : proxy'[p].blockedAt <= step'
        /\ \A c \in DOMAIN client' : client'[c].born <= step'
    BY <1>1, <1>2, AssignDoes DEF Typed
  <2>3. QED
    BY <1>1, <1>2, <2>1, <2>2 DEF Typed
<1>4. Sized'
  BY <1>1, <1>2, AssignDoes DEF Sized, Early
<1>5. Linked'
  <2> DEFINE New == {r \in [proxy : Active, client : Affected, time : {step}] :
                       r.client \in accepted[r.proxy]}
  <2>1. /\ Active \subseteq DOMAIN proxy /\ Affected \subseteq DOMAIN client
        /\ IsFiniteSet(DOMAIN proxy) /\ IsFiniteSet(DOMAIN client)
        /\ DOMAIN proxy \subseteq Nat /\ DOMAIN client \subseteq Nat /\ step \in Nat
    BY <1>2, TablesAre DEF Linked, Affected, Active
  <2>2. \A r \in New : /\ r \in RowType /\ r.proxy \in DOMAIN proxy /\ r.client \in DOMAIN client
                       /\ r.time <= step
    BY <2>1 DEF RowType
  <2>3. IsFiniteSet(New)
    <3> DEFINE All == {[proxy |-> m[1], client |-> m[2], time |-> step] :
                         m \in (DOMAIN proxy) \X (DOMAIN client)}
               f == [m \in (DOMAIN proxy) \X (DOMAIN client) |->
                       [proxy |-> m[1], client |-> m[2], time |-> step]]
    <3>1. IsFiniteSet((DOMAIN proxy) \X (DOMAIN client))
      BY <2>1, FS_Product
    <3>2. f \in Surjection((DOMAIN proxy) \X (DOMAIN client), All)
      BY DEF Surjection
    <3>3. IsFiniteSet(All)
      <4> HIDE DEF f, All
      <4>1. QED
        BY <3>1, <3>2, FS_Surjection
    <3>4. New \subseteq All
      <4>1. ASSUME NEW r \in New PROVE r \in All
        <5> DEFINE m == <<r.proxy, r.client>>
        <5>1. r = [proxy |-> m[1], client |-> m[2], time |-> step]
          OBVIOUS
        <5>2. m \in (DOMAIN proxy) \X (DOMAIN client)
          BY <2>1
        <5> HIDE DEF m, New
        <5>3. QED
          BY <5>1, <5>2
      <4>2. QED
        BY <4>1
    <3>5. QED
      BY <3>3, <3>4, FS_Subset
  <2>4. rows' = rows \cup New
    BY AssignDoes
  <2> HIDE DEF New
  <2>5. IsFiniteSet(rows')
    BY <1>2, <2>3, <2>4, FS_Union DEF Linked
  <2>6. QED
    BY <1>1, <1>2, <2>2, <2>4, <2>5, AssignDoes DEF Linked
<1>6. Idle'
  BY <1>1 DEF Idle
<1>7. QED
  BY <1>1, <1>3, <1>4, <1>5, <1>6 DEF Base

\* create_proxy: a proxy more, in the steps of its interval.
LEMMA CreateProxyDoes ==
  ASSUME Base, CreateProxy
  PROVE  /\ DOMAIN proxy = 1 .. ProxiesBy(step) /\ DOMAIN proxy' = 1 .. ProxiesBy(step + 1)
         /\ DOMAIN proxy \subseteq DOMAIN proxy'
         /\ \A p \in DOMAIN proxy : proxy'[p] = proxy[p]
         /\ \A p \in DOMAIN proxy' \ DOMAIN proxy :
              /\ proxy'[p] \in ProxyRow /\ proxy'[p].blocked = FALSE
              /\ proxy'[p].blockedAt = 0 /\ proxy'[p].room = MaxCapacity
<1>1. Typed /\ Sized /\ pc = "grow" /\ step \in 0 .. Duration - 1
  BY DEF Base, CreateProxy, Typed
<1>2. DOMAIN proxy = 1 .. ProxiesBy(step)
  BY <1>1 DEF Sized
<1>3. /\ ProxiesBy(step) \in Nat \ {0}
      /\ ProxiesBy(step + 1) = IF step % ProxyEvery = 0 THEN ProxiesBy(step) + 1 ELSE ProxiesBy(step)
  BY <1>1, CountsBy
<1>4. CASE step % ProxyEvery = 0
  <2> DEFINE n == ProxiesBy(step)
  <2>1. PICK place \in ProxyPlaces :
          proxy' = [p \in DOMAIN proxy \cup {Cardinality(DOMAIN proxy) + 1} |->
                      IF p \in DOMAIN proxy THEN proxy[p] ELSE NewProxy(place)]
    BY <1>4 DEF CreateProxy
  <2>2. n \in Nat /\ Cardinality(DOMAIN proxy) = n /\ DOMAIN proxy = 1 .. n /\ ProxiesBy(step + 1) = n + 1
    BY <1>2, <1>3, <1>4, FS_Interval
  <2>3. NewProxy(place) \in ProxyRow
    BY Parameters DEF NewProxy, ProxyRow
  <2> HIDE DEF n
  <2>4. DOMAIN proxy' = 1 .. n + 1
    BY <2>1, <2>2
  <2>5. /\ \A p \in DOMAIN proxy : proxy'[p] = proxy[p]
        /\ \A p \in DOMAIN proxy' \ DOMAIN proxy : proxy'[p] = NewProxy(place)
    BY <2>1
  <2>6. /\ NewProxy(place).blocked = FALSE /\ NewProxy(place).blockedAt = 0
        /\ NewProxy(place).room = MaxCapacity
    BY DEF NewProxy
  <2>7. DOMAIN proxy \subseteq DOMAIN proxy'
    BY <2>2, <2>4
  <2>8. QED
    BY <1>2, <2>2, <2>3, <2>4, <2>5, <2>6, <2>7
<1>5. CASE step % ProxyEvery # 0
  BY <1>2, <1>3, <1>5 DEF CreateProxy
<1>6. QED
  BY <1>4, <1>5

LEMMA CreateProxyBase ==
  ASSUME Base, CreateProxy
  PROVE  Base'
<1>1. /\ pc = "grow" /\ pc' = "users" /\ client' = client /\ rows' = rows
      /\ conf' = conf /\ step' = step /\ affected' = affected /\ chart' = chart /\ charted' = charted
      /\ results' = results /\ UNCHANGED matching
  BY DEF CreateProxy
<1>2. Typed /\ Sized /\ Linked /\ Idle
  BY <1>1 DEF Base
<1>3. \A p \in DOMAIN proxy : proxy[p] \in ProxyRow /\ proxy[p].blockedAt <= step /\ step \in Nat
  BY <1>2, TablesAre DEF Typed
<1>4. Typed'
  <2>1. \A p \in DOMAIN proxy' : proxy'[p] \in ProxyRow /\ proxy'[p].blockedAt <= step'
    <3>1. ASSUME NEW p \in DOMAIN proxy' PROVE proxy'[p] \in ProxyRow /\ proxy'[p].blockedAt <= step
      <4>1. CASE p \in DOMAIN proxy
        BY <1>3, <4>1, CreateProxyDoes
      <4>2. CASE p \notin DOMAIN proxy
        <5>1. proxy'[p] \in ProxyRow /\ proxy'[p].blockedAt = 0
          BY <4>2, CreateProxyDoes
        <5>2. step \in Nat
          BY <1>2, TablesAre
        <5>3. QED
          BY <5>1, <5>2
      <4>3. QED
        BY <4>1, <4>2
    <3>2. QED
      BY <1>1, <3>1
  <2>2. proxy' = [p \in DOMAIN proxy' |-> proxy'[p]]
    BY <1>2 DEF CreateProxy, Typed
  <2>3. proxy' \in [DOMAIN proxy' -> ProxyRow]
    BY <2>1, <2>2
  <2>4. QED
    BY <1>1, <1>2, <2>1, <2>3 DEF Typed
<1>5. Sized'
  <2>1. /\ ProxiesBy(step + 1) \in Nat /\ ProxiesBy(step + 1) <= ProxiesBy(Duration)
        /\ ProxiesBy(step) \in Nat \ {0} /\ ProxiesBy(Duration) \in Nat
        /\ ProxiesBy(step + 1) = IF step % ProxyEvery = 0 THEN ProxiesBy(step) + 1 ELSE ProxiesBy(step)
    BY <1>2, CountsBy DEF Typed
  <2>2. ProxiesBy(step + 1) \in 1 .. ProxiesBy(Duration)
    BY <2>1
  <2>3. DOMAIN proxy' = 1 .. ProxiesBy(step + 1)
    BY CreateProxyDoes
  <2>4. QED
    BY <1>1, <1>2, <2>2, <2>3 DEF Sized, Early
<1>6. Linked'
  <2>1. DOMAIN proxy \subseteq DOMAIN proxy'
    BY CreateProxyDoes
  <2>2. affected' \subseteq (DOMAIN proxy') \X (DOMAIN client')
    BY <1>1, <1>2, <2>1 DEF Linked
  <2>3. QED
    BY <1>1, <1>2, <2>1, <2>2 DEF Linked
<1>7. Idle'
  BY <1>1, <1>2 DEF Idle, matching
<1>8. QED
  BY <1>1, <1>4, <1>5, <1>6, <1>7 DEF Base

\* The end of a step: the next one, or the results.
LEMMA NextStepDoes ==
  ASSUME Typed, NextStep
  PROVE  /\ affected' = {} /\ conf' = conf /\ chart' = chart /\ charted' = charted /\ results' = results
         /\ UNCHANGED matching /\ step' \in 0 .. Duration - 1
         /\ step \in 0 .. Duration - 1 /\ Duration \in Nat
         /\ \/ pc' = "censor" /\ step' = step + 1
            \/ pc' = "write" /\ step' = step /\ step = Duration - 1
<1>1. step \in 0 .. Duration - 1 /\ Duration \in Nat
  BY Parameters DEF Typed
<1>2. QED
  BY <1>1 DEF NextStep

\* create_new_client and its first request: a client more, at the first proxy with room.
LEMMA CreateClientDoes ==
  ASSUME Base, CreateClient
  PROVE  LET c == ClientsBy(step)
             p == Min(Active)
         IN  /\ DOMAIN client = 0 .. c - 1 /\ c \in Nat /\ c \notin DOMAIN client
             /\ DOMAIN client' = 0 .. c /\ DOMAIN client' = DOMAIN client \cup {c}
             /\ DOMAIN proxy' = DOMAIN proxy
             /\ \A d \in DOMAIN client : client'[d] = client[d]
             /\ client'[c] \in ClientRow /\ client'[c].flagged = FALSE /\ client'[c].requests = 1
             /\ client'[c].known = 0 /\ client'[c].born = step
             /\ p \in Active /\ Active \subseteq DOMAIN proxy
             /\ rows' = rows \cup {[proxy |-> p, client |-> c, time |-> step]}
             /\ \A q \in DOMAIN proxy \ {p} : proxy'[q] = proxy[q]
             /\ proxy'[p] \in ProxyRow /\ proxy'[p].blocked = proxy[p].blocked
             /\ proxy'[p].blockedAt = proxy[p].blockedAt /\ proxy'[p].room = proxy[p].room - 1
<1> DEFINE c == ClientsBy(step)
           p == Min(Active)
<1>1. Typed /\ Sized /\ Linked /\ pc = "users" /\ step \in 0 .. Duration - 1
  BY DEF Base, CreateClient, Typed
<1>2. c \in Nat /\ DOMAIN client = 0 .. c - 1
  <2>1. c \in Nat
    BY <1>1, CountsBy
  <2>2. QED
    BY <1>1, <2>1 DEF Sized
<1>3. Cardinality(DOMAIN client) = c
  BY <1>2, FS_Interval
<1>4. p \in Active /\ Active \subseteq DOMAIN proxy
  <2>1. Active \subseteq DOMAIN proxy /\ Active # {} /\ DOMAIN proxy \subseteq Nat
    BY <1>1, TablesAre DEF CreateClient, Active
  <2>2. \E n \in Active : \A m \in Active : n <= m
    BY <2>1, LeastNumber
  <2>3. QED
    BY <2>1, <2>2 DEF Min
<1> DEFINE k == Cardinality(DOMAIN client)
<1>5. PICK agent \in BOOLEAN, place \in ClientPlaces :
        client' = [d \in DOMAIN client \cup {k} |->
                     IF d # k THEN client[d]
                     ELSE [agent |-> agent, flagged |-> FALSE, requests |-> 1, known |-> 0,
                           born |-> step, place |-> place]]
  BY DEF CreateClient
<1>6. /\ rows' = rows \cup {[proxy |-> p, client |-> c, time |-> step]}
      /\ proxy' = [proxy EXCEPT ![p].room = @ - 1]
  BY <1>3 DEF CreateClient
<1>7. c \notin DOMAIN client /\ DOMAIN client' = DOMAIN client \cup {c} /\ DOMAIN client' = 0 .. c
  <2>1. DOMAIN client' = DOMAIN client \cup {c}
    <3>1. DOMAIN client' = DOMAIN client \cup {k}
      BY <1>5
    <3>2. QED
      BY <1>3, <3>1
  <2> HIDE DEF c
  <2>2. c \notin DOMAIN client /\ DOMAIN client \cup {c} = 0 .. c
    BY <1>2
  <2>3. QED
    BY <2>1, <2>2
<1>8. /\ client'[c] \in ClientRow /\ client'[c].flagged = FALSE /\ client'[c].requests = 1
      /\ client'[c].known = 0 /\ client'[c].born = step
  <2> DEFINE new == [agent |-> agent, flagged |-> FALSE, requests |-> 1, known |-> 0,
                     born |-> step, place |-> place]
  <2>1. client'[c] = new
    <3>1. client'[k] = new
      BY <1>5
    <3>2. QED
      BY <1>3, <3>1
  <2>2. place \in Nat /\ step \in Nat
    BY <1>1, Parameters
  <2>3. new \in ClientRow
    BY <2>2 DEF ClientRow
  <2>4. /\ new.flagged = FALSE /\ new.requests = 1 /\ new.known = 0 /\ new.born = step
    OBVIOUS
  <2> HIDE DEF new, c
  <2>5. QED
    BY <2>1, <2>3, <2>4
<1>9. \A d \in DOMAIN client : client'[d] = client[d]
  <2>1. k \notin DOMAIN client
    BY <1>3, <1>7
  <2> HIDE DEF k
  <2>2. QED
    BY <1>5, <2>1
<1>10. /\ DOMAIN proxy' = DOMAIN proxy
       /\ \A q \in DOMAIN proxy \ {p} : proxy'[q] = proxy[q]
       /\ proxy'[p] = Taking(proxy[p], 1)
  BY <1>4, <1>6 DEF Taking
<1>11. /\ proxy'[p] \in ProxyRow /\ proxy'[p].blocked = proxy[p].blocked
       /\ proxy'[p].blockedAt = proxy[p].blockedAt /\ proxy'[p].room = proxy[p].room - 1
  <2> DEFINE r == proxy[p]
  <2>1. r \in ProxyRow /\ r.room \in Nat /\ r.room > 0
    BY <1>1, <1>4, TablesAre, Parameters DEF Active
  <2>2. proxy'[p] = Taking(r, 1)
    BY <1>10
  <2> HIDE DEF r
  <2>3. 1 \in Nat /\ 1 <= r.room
    BY <2>1
  <2>4. /\ Taking(r, 1) \in ProxyRow /\ Taking(r, 1).blocked = r.blocked
        /\ Taking(r, 1).blockedAt = r.blockedAt /\ Taking(r, 1).room = r.room - 1
    BY <2>1, <2>3, TakingSaves
  <2>5. QED
    BY <2>2, <2>4 DEF r
<1> HIDE DEF c, p
<1>12. /\ DOMAIN client = 0 .. c - 1 /\ c \in Nat /\ c \notin DOMAIN client
       /\ DOMAIN client' = 0 .. c /\ DOMAIN client' = DOMAIN client \cup {c}
       /\ DOMAIN proxy' = DOMAIN proxy
  BY <1>2, <1>7, <1>10
<1>13. QED
  BY <1>4, <1>6, <1>8, <1>9, <1>10, <1>11, <1>12 DEF c, p

LEMMA CreateClientBase ==
  ASSUME Base, CreateClient
  PROVE  Base'
<1> DEFINE c == ClientsBy(step)
           p == Min(Active)
<1>1. /\ DOMAIN client = 0 .. c - 1 /\ c \in Nat
      /\ DOMAIN client' = 0 .. c /\ DOMAIN client' = DOMAIN client \cup {c}
      /\ DOMAIN proxy' = DOMAIN proxy
      /\ \A d \in DOMAIN client : client'[d] = client[d]
      /\ client'[c] \in ClientRow /\ client'[c].born = step
      /\ p \in DOMAIN proxy
      /\ rows' = rows \cup {[proxy |-> p, client |-> c, time |-> step]}
      /\ \A q \in DOMAIN proxy \ {p} : proxy'[q] = proxy[q]
      /\ proxy'[p] \in ProxyRow /\ proxy'[p].blockedAt = proxy[p].blockedAt
  BY CreateClientDoes
<1>2. Typed /\ Sized /\ Linked /\ Idle /\ pc = "users" /\ step % UserEvery = 0 /\ NextStep
  BY DEF Base, CreateClient
<1>3. /\ affected' = {} /\ conf' = conf /\ chart' = chart /\ charted' = charted /\ results' = results
      /\ UNCHANGED matching /\ step' \in 0 .. Duration - 1
      /\ step \in 0 .. Duration - 1 /\ Duration \in Nat
      /\ \/ pc' = "censor" /\ step' = step + 1
         \/ pc' = "write" /\ step' = step /\ step = Duration - 1
  BY <1>2, NextStepDoes
<1>4. /\ c \in Nat /\ ClientsBy(step + 1) = c + 1
      /\ c + 1 <= ClientsBy(Duration) /\ ClientsBy(Duration) \in Nat
  BY <1>2, <1>3, CountsBy
<1> HIDE DEF c, p
<1>5. Typed'
  <2>1. \A q \in DOMAIN proxy' : proxy'[q] \in ProxyRow /\ proxy'[q].blockedAt <= step'
    <3>1. ASSUME NEW q \in DOMAIN proxy
          PROVE  proxy'[q] \in ProxyRow /\ proxy'[q].blockedAt <= step'
      <4>1. proxy[q] \in ProxyRow /\ proxy[q].blockedAt <= step /\ proxy[q].blockedAt \in Nat
        BY <1>2, TablesAre DEF Typed, ProxyRow
      <4>2. proxy'[q] \in ProxyRow /\ proxy'[q].blockedAt = proxy[q].blockedAt
        BY <1>1, <4>1
      <4>3. QED
        BY <1>3, <4>1, <4>2
    <3>2. QED
      BY <1>1, <3>1
  <2>2. \A d \in DOMAIN client' : client'[d] \in ClientRow /\ client'[d].born <= step'
    <3>1. ASSUME NEW d \in DOMAIN client
          PROVE  client'[d] \in ClientRow /\ client'[d].born <= step'
      <4>1. client[d] \in ClientRow /\ client[d].born <= step /\ client[d].born \in Nat
        BY <1>2, TablesAre DEF Typed, ClientRow
      <4>2. client'[d] = client[d]
        BY <1>1
      <4>3. QED
        BY <1>3, <4>1, <4>2
    <3>2. client'[c].born <= step'
      BY <1>1, <1>3
    <3>3. QED
      BY <1>1, <3>1, <3>2
  <2>3. proxy' = [q \in DOMAIN proxy' |-> proxy'[q]] /\ client' = [d \in DOMAIN client' |-> client'[d]]
    <3>1. proxy' = [q \in DOMAIN proxy' |-> proxy'[q]]
      BY <1>2 DEF CreateClient, Typed
    <3>2. client' = [d \in DOMAIN client' |-> client'[d]]
      BY DEF CreateClient
    <3>3. QED
      BY <3>1, <3>2
  <2>4. proxy' \in [DOMAIN proxy' -> ProxyRow] /\ client' \in [DOMAIN client' -> ClientRow]
    BY <2>1, <2>2, <2>3
  <2>5. pc' \in Early \cup {"write"}
    BY <1>3 DEF Early
  <2>6. QED
    BY <1>2, <1>3, <2>1, <2>2, <2>4, <2>5 DEF Typed
<1>6. Sized'
  <2>1. DOMAIN client' = 0 .. (c + 1) - 1 /\ c + 1 \in 0 .. ClientsBy(Duration)
    BY <1>1, <1>4
  <2>2. DOMAIN proxy' = 1 .. ProxiesBy(step + 1)
    BY <1>1, <1>2 DEF Sized
  <2>3. \E n \in 1 .. ProxiesBy(Duration) : DOMAIN proxy' = 1 .. n
    BY <1>1, <1>2 DEF Sized
  <2>4. \E m \in 0 .. ClientsBy(Duration) : DOMAIN client' = 0 .. m - 1
    BY <2>1
  <2>5. pc' = "censor" => DOMAIN proxy' = 1 .. ProxiesBy(step') /\ DOMAIN client' = 0 .. ClientsBy(step') - 1
    BY <1>3, <1>4, <2>1, <2>2
  <2>6. pc' \in Early \cup {"grow", "users"} => pc' = "censor"
    BY <1>3 DEF Early
  <2>7. QED
    BY <2>3, <2>4, <2>5, <2>6 DEF Sized
<1>7. Linked'
  <2> DEFINE new == [proxy |-> p, client |-> c, time |-> step]
  <2>1. /\ new \in RowType /\ new.proxy \in DOMAIN proxy' /\ new.client \in DOMAIN client'
        /\ new.time <= step'
    <3>1. p \in Nat /\ step \in Nat
      BY <1>1, <1>2, TablesAre
    <3>2. QED
      BY <1>1, <1>3, <3>1 DEF RowType
  <2> HIDE DEF new
  <2>2. rows' = rows \cup {new}
    BY <1>1 DEF new
  <2>3. IsFiniteSet(rows')
    BY <1>2, <2>2, FS_AddElement DEF Linked
  <2>4. \A r \in rows : /\ r \in RowType /\ r.proxy \in DOMAIN proxy' /\ r.client \in DOMAIN client'
                        /\ r.time <= step'
    <3>1. ASSUME NEW r \in rows
          PROVE  /\ r \in RowType /\ r.proxy \in DOMAIN proxy' /\ r.client \in DOMAIN client'
                 /\ r.time <= step'
      <4>1. /\ r \in RowType /\ r.proxy \in DOMAIN proxy /\ r.client \in DOMAIN client
            /\ r.time <= step /\ r.time \in Nat
        BY <1>2 DEF Linked, RowType
      <4>2. QED
        BY <1>1, <1>3, <4>1
    <3>2. QED
      BY <3>1
  <2>5. QED
    BY <1>3, <2>1, <2>2, <2>3, <2>4 DEF Linked
<1>8. Idle'
  BY <1>2, <1>3 DEF Idle, matching
<1>9. pc' # "match"
  BY <1>3
<1>10. QED
  BY <1>5, <1>6, <1>7, <1>8, <1>9 DEF Base

LEMMA NoNewClientBase ==
  ASSUME Base, NoNewClient
  PROVE  Base'
<1>1. /\ pc = "users" /\ step % UserEvery # 0 /\ proxy' = proxy /\ client' = client /\ rows' = rows /\ NextStep
  BY DEF NoNewClient, database
<1>2. Typed /\ Sized /\ Linked /\ Idle
  BY <1>1 DEF Base
<1>3. /\ affected' = {} /\ conf' = conf /\ chart' = chart /\ charted' = charted /\ results' = results
      /\ UNCHANGED matching /\ step' \in 0 .. Duration - 1
      /\ step \in 0 .. Duration - 1 /\ Duration \in Nat
      /\ \/ pc' = "censor" /\ step' = step + 1
         \/ pc' = "write" /\ step' = step /\ step = Duration - 1
  BY <1>1, <1>2, NextStepDoes
<1>4. Typed'
  <2>1. \A p \in DOMAIN proxy' : proxy'[p].blockedAt <= step'
    <3>1. ASSUME NEW p \in DOMAIN proxy PROVE proxy[p].blockedAt <= step'
      <4>1. proxy[p] \in ProxyRow /\ proxy[p].blockedAt <= step /\ proxy[p].blockedAt \in Nat
        BY <1>2, TablesAre DEF Typed, ProxyRow
      <4>2. QED
        BY <1>3, <4>1
    <3>2. QED
      BY <1>1, <3>1
  <2>2. \A c \in DOMAIN client' : client'[c].born <= step'
    <3>1. ASSUME NEW c \in DOMAIN client PROVE client[c].born <= step'
      <4>1. client[c] \in ClientRow /\ client[c].born <= step /\ client[c].born \in Nat
        BY <1>2, TablesAre DEF Typed, ClientRow
      <4>2. QED
        BY <1>3, <4>1
    <3>2. QED
      BY <1>1, <3>1
  <2>3. pc' \in Early \cup {"write"}
    BY <1>3 DEF Early
  <2>4. QED
    BY <1>1, <1>2, <1>3, <2>1, <2>2, <2>3 DEF Typed
<1>5. Sized'
  <2>1. ClientsBy(step + 1) = ClientsBy(step)
    BY <1>1, <1>3, CountsBy
  <2>2. DOMAIN proxy' = 1 .. ProxiesBy(step + 1) /\ DOMAIN client' = 0 .. ClientsBy(step) - 1
    BY <1>1, <1>2 DEF Sized
  <2>3. /\ \E n \in 1 .. ProxiesBy(Duration) : DOMAIN proxy' = 1 .. n
        /\ \E m \in 0 .. ClientsBy(Duration) : DOMAIN client' = 0 .. m - 1
    BY <1>1, <1>2 DEF Sized
  <2>4. pc' = "censor" => DOMAIN proxy' = 1 .. ProxiesBy(step') /\ DOMAIN client' = 0 .. ClientsBy(step') - 1
    BY <1>3, <2>1, <2>2
  <2>5. pc' \in Early \cup {"grow", "users"} => pc' = "censor"
    BY <1>3 DEF Early
  <2>6. QED
    BY <2>3, <2>4, <2>5 DEF Sized
<1>6. Linked'
  <2>1. \A r \in rows : r.time <= step'
    <3>1. ASSUME NEW r \in rows PROVE r.time <= step'
      <4>1. r.time <= step /\ r.time \in Nat
        BY <1>2 DEF Linked, RowType
      <4>2. QED
        BY <1>3, <4>1
    <3>2. QED
      BY <3>1
  <2>2. QED
    BY <1>1, <1>2, <1>3, <2>1 DEF Linked
<1>7. Idle'
  BY <1>2, <1>3 DEF Idle, matching
<1>8. QED
  BY <1>3, <1>4, <1>5, <1>6, <1>7 DEF Base

\* os.system(flush) and the first proxy of the next configuration.
LEMMA FlushBase ==
  ASSUME Base, Flush
  PROVE  Base'
<1>1. /\ pc = "flush" /\ client' = <<>> /\ rows' = {} /\ chart' = [usable |-> 0, connected |-> 0]
      /\ charted' = 0 /\ step' = 0 /\ affected' = affected /\ results' = results /\ UNCHANGED matching
      /\ \/ conf < Len(Configurations) /\ conf' = conf + 1 /\ pc' = "censor"
         \/ conf' = conf /\ pc' = "done"
  BY DEF Flush, Flushed
<1>2. Typed /\ Sized /\ Linked /\ Idle
  BY <1>1 DEF Base
<1>3. PICK place \in ProxyPlaces : proxy' = [p \in {1} |-> NewProxy(place)]
  BY DEF Flush
<1>4. DOMAIN proxy' = 1 .. 1 /\ \A p \in DOMAIN proxy' : proxy'[p] = NewProxy(place)
  BY <1>3
<1>5. place \in Nat /\ MaxCapacity \in Nat /\ NewProxy(place) \in ProxyRow
  BY Parameters DEF NewProxy, ProxyRow
<1>6. DOMAIN client' = {} /\ client' \in [DOMAIN client' -> ClientRow]
  BY <1>1
<1>7. Typed'
  <2>1. proxy' \in [DOMAIN proxy' -> ProxyRow]
    BY <1>3, <1>5
  <2>2. \A p \in DOMAIN proxy' : proxy'[p].blockedAt <= step'
    <3>1. NewProxy(place).blockedAt = 0
      BY DEF NewProxy
    <3>2. QED
      BY <1>1, <1>4, <3>1
  <2>3. conf' \in 1 .. Len(Configurations)
    <3>1. conf \in 1 .. Len(Configurations) /\ Len(Configurations) \in Nat
      BY <1>2, SimulationAssumption DEF Typed
    <3>2. QED
      BY <1>1, <3>1
  <2>4. step' \in 0 .. Duration - 1 /\ pc' \in Early \cup {"done"}
    BY <1>1, Parameters DEF Early
  <2>5. chart' \in [usable : Int, connected : Int] /\ charted' \in Nat /\ results' \in Seq(Nat)
    BY <1>1, <1>2 DEF Typed
  <2>6. QED
    BY <1>6, <2>1, <2>2, <2>3, <2>4, <2>5 DEF Typed
<1>8. Sized'
  <2>1. ProxiesBy(0) = 1 /\ ClientsBy(0) = 0 /\ ProxiesBy(Duration) \in Nat \ {0} /\ ClientsBy(Duration) \in Nat
    BY IdsAre DEF ProxiesBy, ClientsBy
  <2>2. DOMAIN client' = 0 .. 0 - 1
    BY <1>6
  <2>3. pc' \in Early \cup {"done"} /\ pc' # "users"
    BY <1>1 DEF Early
  <2>4. QED
    BY <1>1, <1>4, <2>1, <2>2, <2>3 DEF Sized
<1>9. Linked'
  <2>1. affected' = {}
    BY <1>1, <1>2 DEF Linked
  <2>2. QED
    BY <1>1, <2>1, FS_EmptySet DEF Linked
<1>10. Idle'
  BY <1>1, <1>2 DEF Idle, matching
<1>11. QED
  BY <1>1, <1>7, <1>8, <1>9, <1>10 DEF Base

\* The steps of the script, and those that leave everything alone.
LEMMA BaseKept ==
  ASSUME Base, [Next]_vars
  PROVE  Base'
<1>1. CASE Censor
  BY <1>1, CensorBase
<1>2. CASE Record
  BY <1>2, RecordBase
<1>3. CASE Rejuvenate
  BY <1>3, RejuvenateBase
<1>4. CASE Request
  BY <1>4, RequestBase
<1>5. CASE Match
  BY <1>5, MatchBase
<1>6. CASE Assign
  BY <1>6, AssignBase
<1>7. CASE CreateProxy
  BY <1>7, CreateProxyBase
<1>8. CASE CreateClient
  BY <1>8, CreateClientBase
<1>9. CASE NoNewClient
  BY <1>9, NoNewClientBase
<1>10. CASE NoProxyForClient
  <2>1. /\ pc = "users" /\ pc' = "crashed"
        /\ UNCHANGED <<conf, step, proxy, client, rows, affected, chart, charted, results>> /\ UNCHANGED matching
    BY <1>10 DEF NoProxyForClient, database
  <2>2. Typed /\ Sized /\ Linked /\ Idle
    BY <2>1 DEF Base
  <2>3. QED
    BY <2>1, <2>2 DEF Base, Typed, Sized, Linked, Idle, matching, Early
<1>11. CASE WriteResults
  <2>1. /\ pc = "write" /\ pc' = "flush" /\ results' = Append(results, charted)
        /\ UNCHANGED <<conf, step, proxy, client, rows, affected, chart, charted>> /\ UNCHANGED matching
    BY <1>11 DEF WriteResults, database
  <2>2. Typed /\ Sized /\ Linked /\ Idle
    BY <2>1 DEF Base
  <2>3. results' \in Seq(Nat)
    BY <2>1, <2>2 DEF Typed
  <2>4. Typed'
    BY <2>1, <2>2, <2>3 DEF Typed
  <2>5. QED
    BY <2>1, <2>2, <2>4 DEF Base, Sized, Linked, Idle, matching, Early
<1>12. CASE Flush
  BY <1>12, FlushBase
<1>13. CASE FlushFails
  <2>1. /\ pc = "flush" /\ pc' \in {"crashed", "done"}
        /\ UNCHANGED <<conf, step, proxy, client, rows, affected, chart, charted, results>> /\ UNCHANGED matching
    BY <1>13 DEF FlushFails, database
  <2>2. Typed /\ Sized /\ Linked /\ Idle
    BY <2>1 DEF Base
  <2>3. QED
    BY <2>1, <2>2 DEF Base, Typed, Sized, Linked, Idle, matching, Early
<1>14. CASE UNCHANGED vars
  <2>1. UNCHANGED <<conf, step, pc, proxy, client, rows, affected, chart, charted, results,
                    prefs, ranks, asked, waiting, pass, accepted>>
    BY <1>14 DEF vars, database, matching
  <2>2. Room' = Room /\ Active' = Active /\ Affected' = Affected
    BY <2>1 DEF Room, Active, Usable, Affected
  <2>3. CASE pc = "match"
    <3>1. Matching!IInv'
      <4>1. Matching!IInv
        BY <2>3 DEF Base
      <4>2. QED
        BY <2>1, <2>2, <4>1 DEF Matching!IInv, Matching!TypeOK, Matching!RanksApart, Matching!OnlyListed,
          Matching!WithinCapacity, Matching!OnePlace, Matching!NoRegret, Matching!NobodyDropped,
          Matching!Listed, Matching!HasRoom
    <3>2. QED
      BY <2>1, <2>2, <2>3, <3>1 DEF Base, Typed, Sized, Linked, Asking
  <2>4. CASE pc # "match"
    BY <2>1, <2>4 DEF Base, Typed, Sized, Linked, Idle
  <2>5. QED
    BY <2>3, <2>4
<1>15. QED
  BY <1>1, <1>2, <1>3, <1>4, <1>5, <1>6, <1>7, <1>8, <1>9, <1>10, <1>11, <1>12, <1>13, <1>14 DEF Next

\* The tables keep their types and their links, ids are given one after the other without
\* end or gap, and what get_matched_clients works on is there only while it works.
THEOREM BaseInvariant == Spec => []Base
<1>1. Init => Base
  BY InitBase
<1>2. Base /\ [Next]_vars => Base'
  BY BaseKept
<1>3. QED
  BY <1>1, <1>2, PTL DEF Spec

\* In every call the simulation makes of it, get_matched_clients keeps what is proved of it
\* alone: no proxy holds more than its capacity, nobody has two places, nobody is turned down
\* for one liked less, and nobody is dropped before the whole list has turned it down.
THEOREM CallsKeepTheirPromise == Spec => [](pc = "match" => Matching!IInv)
<1>1. Base => (pc = "match" => Matching!IInv)
  BY DEF Base
<1>2. QED
  BY <1>1, BaseInvariant, PTL

(***************************************************************************)
(* The results                                                             *)
(***************************************************************************)

LEMMA RecordedKept ==
  ASSUME Base, Recorded, [Next]_vars
  PROVE  Recorded'
<1>1. step \in 0 .. Duration - 1 /\ Duration \in Nat \ {0} /\ charted \in Nat /\ results \in Seq(Nat)
  BY Parameters DEF Base, Typed
<1>2. CASE Censor \/ Rejuvenate \/ Request \/ Match \/ Assign \/ CreateProxy \/ NoProxyForClient \/ FlushFails
  <2>1. results' = results /\ charted' = charted /\ step' = step
    BY <1>2 DEF Censor, Rejuvenate, Request, Match, Assign, CreateProxy, NoProxyForClient, FlushFails
  <2>2. \/ pc = "censor" /\ pc' = "record"
        \/ pc \in {"rejuvenate", "request", "match", "grow"} /\ pc' \in {"request", "match", "grow", "users"}
        \/ pc' \in {"crashed", "done"}
    BY <1>2 DEF Censor, Rejuvenate, Request, Match, Assign, CreateProxy, NoProxyForClient, FlushFails
  <2>3. QED
    BY <2>1, <2>2 DEF Recorded, ResultsApart
<1>3. CASE Record
  <2>1. pc = "record" /\ pc' = "rejuvenate" /\ results' = results /\ charted' = charted + 1 /\ step' = step
    BY <1>3 DEF Record
  <2>2. QED
    BY <2>1 DEF Recorded, ResultsApart
<1>4. CASE CreateClient \/ NoNewClient
  <2>1. pc = "users" /\ NextStep
    BY <1>4 DEF CreateClient, NoNewClient
  <2>2. /\ results' = results /\ charted' = charted
        /\ \/ pc' = "censor" /\ step' = step + 1
           \/ pc' = "write" /\ step' = step /\ step = Duration - 1
    BY <2>1, NextStepDoes DEF Base
  <2>3. QED
    BY <1>1, <2>1, <2>2 DEF Recorded, ResultsApart
<1>5. CASE WriteResults
  <2>1. pc = "write" /\ pc' = "flush" /\ results' = Append(results, charted) /\ charted = Duration
    BY <1>5 DEF WriteResults, Recorded
  <2>2. ASSUME NEW i \in DOMAIN results' PROVE results'[i] = Duration
    <3>1. i \in 1 .. Len(results) + 1 /\ Len(results) \in Nat
      BY <1>1, <2>1
    <3>2. CASE i \in 1 .. Len(results)
      <4>1. results'[i] = results[i] /\ i \in DOMAIN results
        BY <1>1, <2>1, <3>2
      <4>2. QED
        BY <4>1 DEF Recorded, ResultsApart
    <3>3. CASE i = Len(results) + 1
      BY <1>1, <2>1, <3>3
    <3>4. QED
      BY <3>1, <3>2, <3>3
  <2>3. QED
    BY <2>1, <2>2 DEF Recorded, ResultsApart
<1>6. CASE Flush
  <2>1. pc' \in {"censor", "done"} /\ results' = results /\ charted' = 0 /\ step' = 0
    BY <1>6 DEF Flush, Flushed
  <2>2. QED
    BY <2>1 DEF Recorded, ResultsApart
<1>7. CASE UNCHANGED vars
  BY <1>7 DEF vars, Recorded, ResultsApart
<1>8. QED
  BY <1>2, <1>3, <1>4, <1>5, <1>6, <1>7 DEF Next

\* Each results file has the rows of its own configuration: the charts are emptied between two.
THEOREM ResultsAreApart == Spec => []ResultsApart
<1>1. Init => Recorded
  BY DEF Init, Recorded, ResultsApart
<1>2. Base /\ Recorded /\ [Next]_vars => Recorded'
  BY RecordedKept
<1>3. Recorded => ResultsApart
  BY DEF Recorded
<1>4. QED
  BY <1>1, <1>2, <1>3, BaseInvariant, PTL DEF Spec

(***************************************************************************)
(* The places                                                              *)
(***************************************************************************)

\* No two rows of a user at proxies that work.
OneLive == \A c \in DOMAIN client : \A r, s \in LiveRows(c) : r = s

Held == OneLive /\ CapacityExact /\ FlaggedHasNothing /\ Dry /\ OneEach /\ UnflaggedAffected

LEMMA CensorHeld ==
  ASSUME Base, Held, Censor
  PROVE  Held'
<1>1. /\ pc = "censor" /\ pc' = "record" /\ rows' = rows
      /\ affected' = {a \in Discovered \X (DOMAIN client) : a[1] \in KnownTo(a[2])}
      /\ DOMAIN proxy' = DOMAIN proxy /\ DOMAIN client' = DOMAIN client
  BY CensorDoes DEF Censor
<1>2. Typed /\ Sized /\ Linked
  BY DEF Base
<1>3. \A r \in rows : r.proxy \in DOMAIN proxy /\ r.client \in DOMAIN client
  BY <1>2 DEF Linked
<1>4. \A p \in DOMAIN proxy : Usable(p)' <=> Usable(p) /\ p \notin Discovered
  BY CensorDoes DEF Usable
<1>5. \A c : LiveRows(c)' = {r \in LiveRows(c) : r.proxy \notin Discovered}
  BY <1>1, <1>3, <1>4 DEF LiveRows
<1>6. ASSUME NEW a \in affected'
      PROVE  \E r \in LiveRows(a[2]) : r.proxy = a[1] /\ a[1] \in Discovered /\ a[2] \in DOMAIN client
  BY <1>1 DEF KnownTo, LiveRows, Discovered
<1>7. \A c \in Affected' : /\ c \in DOMAIN client
                           /\ \E r \in LiveRows(c) : r.proxy \in Discovered
  BY <1>6 DEF Affected
<1>8. OneLive'
  BY <1>1, <1>5 DEF OneLive, Held
<1>9. CapacityExact'
  <2>1. \A p \in DOMAIN proxy : proxy'[p].room = proxy[p].room
    BY CensorDoes
  <2>2. QED
    BY <1>1, <2>1 DEF CapacityExact, Held, RowsOf
<1>10. FlaggedHasNothing'
  <2>1. \A c \in DOMAIN client : client'[c].flagged = client[c].flagged
    BY CensorDoes
  <2>2. QED
    BY <1>1, <1>5, <2>1 DEF FlaggedHasNothing, Held
<1>11. Dry'
  BY <1>5, <1>7 DEF Dry, OneLive, Held
<1>12. OneEach'
  <2>1. ASSUME NEW a \in affected', NEW b \in affected', a[2] = b[2] PROVE a = b
    <3>1. PICK r \in LiveRows(a[2]) : r.proxy = a[1] /\ a[2] \in DOMAIN client
      BY <1>6
    <3>2. PICK s \in LiveRows(b[2]) : s.proxy = b[1]
      BY <1>6
    <3>3. r = s
      BY <2>1, <3>1 DEF OneLive, Held
    <3>4. a = <<a[1], a[2]>> /\ b = <<b[1], b[2]>>
      BY <1>1
    <3>5. QED
      BY <2>1, <3>1, <3>2, <3>3, <3>4
  <2>2. QED
    BY <2>1 DEF OneEach
<1>13. UnflaggedAffected'
  <2>1. \A c \in DOMAIN client : client'[c].flagged = client[c].flagged
    BY CensorDoes
  <2>2. \A c \in Affected' : ~client[c].flagged
    BY <1>7 DEF FlaggedHasNothing, Held
  <2>3. QED
    BY <1>7, <2>1, <2>2 DEF UnflaggedAffected
<1>14. QED
  BY <1>8, <1>9, <1>10, <1>11, <1>12, <1>13 DEF Held

LEMMA RejuvenateHeld ==
  ASSUME Base, Held, Rejuvenate
  PROVE  /\ Held'
         /\ \A c : LiveRows(c)' = LiveRows(c)
<1>1. /\ pc = "rejuvenate" /\ pc' = "request" /\ client' = client /\ affected' = affected
      /\ DOMAIN proxy' = DOMAIN proxy
      /\ rows' = IF Rejuvenating THEN rows \ Forgotten ELSE rows
  BY RejuvenateDoes DEF Rejuvenate
<1>2. Typed /\ Sized /\ Linked
  BY DEF Base
<1>3. \A r \in rows : r.proxy \in DOMAIN proxy /\ r.client \in DOMAIN client
  BY <1>2 DEF Linked
<1>4. \A p \in DOMAIN proxy : Usable(p)' <=> Usable(p) \/ Rejuvenating
  BY RejuvenateDoes DEF Usable
<1>5. \A c : LiveRows(c)' = LiveRows(c)
  BY <1>1, <1>3, <1>4 DEF LiveRows, Forgotten
<1>6. Affected' = Affected
  BY <1>1 DEF Affected
<1>7. CapacityExact'
  <2>1. ASSUME NEW p \in DOMAIN proxy
        PROVE  proxy'[p].room = MaxCapacity - Cardinality(RowsOf(p)')
    <3>1. proxy'[p].room = IF Rejuvenating /\ proxy[p].blocked THEN MaxCapacity ELSE proxy[p].room
      BY RejuvenateDoes
    <3>2. RowsOf(p)' = IF Rejuvenating /\ proxy[p].blocked THEN {} ELSE RowsOf(p)
      BY <1>1 DEF RowsOf, Forgotten, Usable
    <3>3. proxy[p].room = MaxCapacity - Cardinality(RowsOf(p))
      BY DEF CapacityExact, Held
    <3>4. MaxCapacity = MaxCapacity - Cardinality({})
      BY FS_EmptySet, Parameters
    <3>5. QED
      BY <3>1, <3>2, <3>3, <3>4
  <2>2. QED
    BY <1>1, <2>1 DEF CapacityExact
<1>8. OneLive' /\ FlaggedHasNothing' /\ Dry' /\ OneEach' /\ UnflaggedAffected'
  BY <1>1, <1>5, <1>6 DEF OneLive, FlaggedHasNothing, Dry, OneEach, UnflaggedAffected, Held
<1>9. QED
  BY <1>5, <1>7, <1>8 DEF Held

LEMMA RequestHeld ==
  ASSUME Base, Held, Request
  PROVE  Held'
<1>1. /\ pc = "request" /\ pc' = "match" /\ proxy' = proxy /\ rows' = rows /\ affected' = affected
      /\ DOMAIN client' = DOMAIN client
  BY RequestDoes DEF Request
<1>2. (\A c : LiveRows(c)' = LiveRows(c)) /\ Affected' = Affected
  BY <1>1 DEF LiveRows, Usable, Affected
<1>3. FlaggedHasNothing'
  <2>1. \A c \in DOMAIN client : client'[c].flagged = (client[c].flagged \/ c \in Flagging)
    BY RequestDoes
  <2>2. \A c \in Flagging : LiveRows(c) = {}
    BY <1>1 DEF Flagging, Dry, Held
  <2>3. QED
    BY <1>1, <1>2, <2>1, <2>2 DEF FlaggedHasNothing, Held
<1>4. OneLive' /\ CapacityExact' /\ Dry' /\ OneEach' /\ UnflaggedAffected'
  BY <1>1, <1>2 DEF OneLive, CapacityExact, RowsOf, Dry, OneEach, UnflaggedAffected, Held
<1>5. QED
  BY <1>3, <1>4 DEF Held

\* What the matching adds to the rows of a proxy and to those of a user.
LEMMA AssignRows ==
  ASSUME Base, Held, Assign
  PROVE  /\ \A p \in DOMAIN proxy : Cardinality(RowsOf(p)') = Cardinality(RowsOf(p)) + Cardinality(accepted[p])
         /\ \A c : LiveRows(c)' = LiveRows(c) \cup
                     {[proxy |-> p, client |-> c, time |-> step] : p \in {q \in Active : c \in accepted[q]}}
         /\ \A p \in Proxies : \A c \in accepted[p] : /\ p \in Active /\ LiveRows(c) = {}
                                                      /\ c \in Affected /\ ~client[c].flagged
<1> DEFINE New == {r \in [proxy : Active, client : Affected, time : {step}] :
                     r.client \in accepted[r.proxy]}
           row(p, c) == [proxy |-> p, client |-> c, time |-> step]
<1>1. /\ pc = "match" /\ DOMAIN proxy' = DOMAIN proxy
      /\ rows' = rows \cup New
      /\ \A p \in DOMAIN proxy : Usable(p)' <=> Usable(p)
  BY AssignDoes DEF Assign, Usable
<1>2. Typed /\ Sized /\ Linked
  BY DEF Base
<1>3. /\ \A r \in rows : r.proxy \in DOMAIN proxy /\ r.client \in DOMAIN client
      /\ DOMAIN proxy \subseteq Proxies /\ Active \subseteq DOMAIN proxy
      /\ \A p \in Active : Usable(p)
  BY <1>2, TablesAre DEF Linked, Active
<1>4. \A p \in Proxies : \A c \in accepted[p] : /\ p \in Active /\ LiveRows(c) = {}
                                                /\ c \in Affected /\ ~client[c].flagged
  BY <1>1, MatchedAre DEF Dry, Held
<1>5. ASSUME NEW p \in DOMAIN proxy
      PROVE  Cardinality(RowsOf(p)') = Cardinality(RowsOf(p)) + Cardinality(accepted[p])
  <2> DEFINE Mine == {row(p, c) : c \in accepted[p]}
             f == [c \in accepted[p] |-> row(p, c)]
  <2>1. RowsOf(p)' = RowsOf(p) \cup Mine
    <3>1. {r \in New : r.proxy = p} = Mine
      <4>1. {r \in New : r.proxy = p} \subseteq Mine
        <5>1. ASSUME NEW r \in New, r.proxy = p PROVE r \in Mine
          <6>1. r = row(p, r.client) /\ r.client \in accepted[p]
            BY <5>1
          <6>2. QED
            BY <6>1
        <5>2. QED
          BY <5>1
      <4>2. Mine \subseteq {r \in New : r.proxy = p}
        <5>1. ASSUME NEW c \in accepted[p] PROVE row(p, c) \in New /\ row(p, c).proxy = p
          <6>1. p \in Active /\ c \in Affected
            BY <1>3, <1>4
          <6>2. QED
            BY <6>1
        <5> HIDE DEF New
        <5>2. QED
          BY <5>1
      <4>3. QED
        BY <4>1, <4>2
    <3> HIDE DEF New, Mine
    <3>2. QED
      BY <1>1, <3>1 DEF RowsOf
  <2>2. RowsOf(p) \cap Mine = {}
    <3>1. ASSUME NEW c \in accepted[p], row(p, c) \in RowsOf(p) PROVE FALSE
      <4>1. Usable(p) /\ LiveRows(c) = {}
        BY <1>3, <1>4
      <4>2. row(p, c) \in rows /\ row(p, c).client = c /\ row(p, c).proxy = p
        BY <3>1 DEF RowsOf
      <4>3. row(p, c) \in LiveRows(c)
        BY <4>1, <4>2 DEF LiveRows
      <4>4. QED
        BY <4>1, <4>3
    <3>2. QED
      BY <3>1
  <2>3. IsFiniteSet(RowsOf(p)) /\ Cardinality(RowsOf(p)) \in Nat
    BY <1>2, TablesAre
  <2>4. IsFiniteSet(accepted[p]) /\ Cardinality(accepted[p]) \in Nat
    BY <1>1, <1>3, MatchedAre
  <2>5. IsFiniteSet(Mine) /\ Cardinality(Mine) = Cardinality(accepted[p])
    <3>1. f \in Bijection(accepted[p], Mine)
      <4>1. f \in [accepted[p] -> Mine]
        OBVIOUS
      <4>2. \A c, d \in accepted[p] : f[c] = f[d] => c = d
        <5>1. ASSUME NEW c \in accepted[p], NEW d \in accepted[p], f[c] = f[d] PROVE c = d
          <6>1. row(p, c).client = row(p, d).client
            BY <5>1
          <6>2. QED
            BY <6>1
        <5>2. QED
          BY <5>1
      <4>3. \A r \in Mine : \E c \in accepted[p] : f[c] = r
        OBVIOUS
      <4> HIDE DEF f, Mine
      <4>4. QED
        BY <4>1, <4>2, <4>3 DEF Bijection, Injection, Surjection, IsInjective
    <3> DEFINE A == accepted[p]
    <3>2. IsFiniteSet(A) /\ f \in Bijection(A, Mine)
      BY <2>4, <3>1
    <3> HIDE DEF f, Mine, A
    <3>3. IsFiniteSet(Mine) /\ Cardinality(Mine) = Cardinality(A)
      <4>1. ExistsBijection(A, Mine)
        BY <3>2 DEF ExistsBijection
      <4>2. QED
        BY <3>2, <4>1, FS_Bijection
    <3>4. QED
      BY <3>3 DEF A
  <2> HIDE DEF Mine
  <2>6. Cardinality(RowsOf(p) \cup Mine) =
          Cardinality(RowsOf(p)) + Cardinality(Mine) - Cardinality(RowsOf(p) \cap Mine)
    BY <2>3, <2>5, FS_Union
  <2>7. Cardinality(RowsOf(p) \cap Mine) = 0
    BY <2>2, FS_EmptySet
  <2>8. QED
    BY <2>1, <2>3, <2>4, <2>5, <2>6, <2>7
<1>6. ASSUME NEW c
      PROVE  LiveRows(c)' = LiveRows(c) \cup {row(p, c) : p \in {q \in Active : c \in accepted[q]}}
  <2> DEFINE Mine == {row(p, c) : p \in {q \in Active : c \in accepted[q]}}
  <2>1. \A r \in rows : Usable(r.proxy)' <=> Usable(r.proxy)
    BY <1>1, <1>3
  <2>2. {r \in New : r.client = c} = Mine
    <3>1. ASSUME NEW r \in New, r.client = c PROVE r \in Mine
      <4>1. r = row(r.proxy, c) /\ r.proxy \in Active /\ c \in accepted[r.proxy]
        BY <3>1
      <4>2. QED
        BY <4>1
    <3>2. ASSUME NEW p \in Active, c \in accepted[p] PROVE row(p, c) \in New /\ row(p, c).client = c
      <4>1. c \in Affected
        BY <1>3, <1>4, <3>2
      <4>2. QED
        BY <3>2, <4>1
    <3>3. {r \in New : r.client = c} \subseteq Mine
      BY <3>1
    <3>4. Mine \subseteq {r \in New : r.client = c}
      <4> HIDE DEF New
      <4>1. QED
        BY <3>2
    <3>5. QED
      BY <3>3, <3>4
  <2>3. \A r \in New : Usable(r.proxy)'
    <3>1. \A r \in New : r.proxy \in Active
      OBVIOUS
    <3>2. QED
      BY <1>1, <1>3, <3>1
  <2> HIDE DEF New, Mine
  <2>4. LiveRows(c)' = LiveRows(c) \cup Mine
    BY <1>1, <2>1, <2>2, <2>3 DEF LiveRows
  <2>5. QED
    BY <2>4 DEF Mine
<1>7. QED
  BY <1>4, <1>5, <1>6

LEMMA AssignHeld ==
  ASSUME Base, Held, Assign
  PROVE  Held'
<1>1. /\ pc = "match" /\ pc' = "grow" /\ affected' = affected
      /\ DOMAIN proxy' = DOMAIN proxy /\ DOMAIN client' = DOMAIN client
  BY AssignDoes DEF Assign
<1>2. DOMAIN proxy \subseteq Proxies /\ Active \subseteq Proxies
  BY TablesAre DEF Base, Active
<1> DEFINE Mine(c) == {[proxy |-> p, client |-> c, time |-> step] : p \in {q \in Active : c \in accepted[q]}}
<1>3. \A c : LiveRows(c)' = LiveRows(c) \cup Mine(c)
  BY AssignRows
<1>4. \A c : Mine(c) # {} => LiveRows(c) = {} /\ ~client[c].flagged
  BY <1>2, AssignRows
<1>5. OneLive'
  <2>1. ASSUME NEW c \in DOMAIN client, NEW r \in Mine(c), NEW s \in Mine(c) PROVE r = s
    <3>1. PICK p \in Active : c \in accepted[p] /\ r = [proxy |-> p, client |-> c, time |-> step]
      OBVIOUS
    <3>2. PICK q \in Active : c \in accepted[q] /\ s = [proxy |-> q, client |-> c, time |-> step]
      OBVIOUS
    <3>3. p = q
      BY <1>1, <1>2, <3>1, <3>2, MatchedAre
    <3>4. QED
      BY <3>1, <3>2, <3>3
  <2> HIDE DEF Mine
  <2>2. QED
    BY <1>1, <1>3, <1>4, <2>1 DEF OneLive, Held
<1>6. FlaggedHasNothing'
  <2>1. \A c \in DOMAIN client : client'[c].flagged = client[c].flagged
    BY AssignDoes
  <2> HIDE DEF Mine
  <2>2. QED
    BY <1>1, <1>3, <1>4, <2>1 DEF FlaggedHasNothing, Held
<1>7. CapacityExact'
  <2>1. ASSUME NEW p \in DOMAIN proxy
        PROVE  proxy'[p].room = MaxCapacity - Cardinality(RowsOf(p)')
    <3>1. proxy'[p].room = proxy[p].room - Cardinality(accepted[p])
      BY AssignDoes
    <3>2. proxy[p].room = MaxCapacity - Cardinality(RowsOf(p))
      BY DEF CapacityExact, Held
    <3>3. Cardinality(RowsOf(p)') = Cardinality(RowsOf(p)) + Cardinality(accepted[p])
      BY AssignRows
    <3>4. Cardinality(RowsOf(p)) \in Nat /\ Cardinality(accepted[p]) \in Nat /\ MaxCapacity \in Nat
      BY <1>1, <1>2, MatchedAre, TablesAre, Parameters DEF Base
    <3>5. QED
      BY <3>1, <3>2, <3>3, <3>4
  <2>2. QED
    BY <1>1, <2>1 DEF CapacityExact
<1>8. Dry' /\ OneEach' /\ UnflaggedAffected'
  BY <1>1 DEF Dry, OneEach, UnflaggedAffected, Held
<1>9. QED
  BY <1>5, <1>6, <1>7, <1>8 DEF Held

LEMMA CreateProxyHeld ==
  ASSUME Base, Held, CreateProxy
  PROVE  /\ Held'
         /\ \A c : LiveRows(c)' = LiveRows(c)
<1>1. /\ pc = "grow" /\ pc' = "users" /\ client' = client /\ rows' = rows /\ affected' = affected
  BY DEF CreateProxy
<1>2. /\ \A p \in DOMAIN proxy : p \in DOMAIN proxy' /\ proxy'[p] = proxy[p]
      /\ \A p \in DOMAIN proxy' \ DOMAIN proxy : proxy'[p].room = MaxCapacity
  BY CreateProxyDoes
<1>3. \A r \in rows : r.proxy \in DOMAIN proxy
  BY DEF Base, Linked
<1>4. \A c : LiveRows(c)' = LiveRows(c)
  BY <1>1, <1>2, <1>3 DEF LiveRows, Usable
<1>5. CapacityExact'
  <2>1. ASSUME NEW p \in DOMAIN proxy' PROVE proxy'[p].room = MaxCapacity - Cardinality(RowsOf(p))
    <3>1. CASE p \in DOMAIN proxy
      BY <1>2, <3>1 DEF CapacityExact, Held
    <3>2. CASE p \notin DOMAIN proxy
      <4>1. RowsOf(p) = {}
        BY <1>3, <3>2 DEF RowsOf
      <4>2. proxy'[p].room = MaxCapacity
        BY <1>2, <3>2
      <4>3. MaxCapacity = MaxCapacity - Cardinality({})
        BY FS_EmptySet, Parameters
      <4>4. QED
        BY <4>1, <4>2, <4>3
    <3>3. QED
      BY <3>1, <3>2
  <2>2. QED
    BY <1>1, <2>1 DEF CapacityExact, RowsOf
<1>6. OneLive' /\ FlaggedHasNothing' /\ Dry' /\ OneEach' /\ UnflaggedAffected'
  BY <1>1, <1>4 DEF OneLive, FlaggedHasNothing, Dry, OneEach, UnflaggedAffected, Held
<1>7. QED
  BY <1>4, <1>5, <1>6 DEF Held

LEMMA CreateClientHeld ==
  ASSUME Base, Held, CreateClient
  PROVE  /\ Held'
         /\ \A c \in DOMAIN client : LiveRows(c)' = LiveRows(c)
         /\ \A c \in DOMAIN client' \ DOMAIN client : LiveRows(c)' # {}
<1>k. PICK k : k = ClientsBy(step)
  OBVIOUS
<1>p. PICK p : p = Min(Active)
  OBVIOUS
<1>t. PICK t : t = step
  OBVIOUS
<1> DEFINE new == [proxy |-> p, client |-> k, time |-> t]
<1>1. /\ k \notin DOMAIN client /\ DOMAIN client' = DOMAIN client \cup {k} /\ DOMAIN proxy' = DOMAIN proxy
      /\ \A d \in DOMAIN client : client'[d] = client[d]
      /\ client'[k].flagged = FALSE
      /\ p \in Active /\ p \in DOMAIN proxy
      /\ rows' = rows \cup {new}
      /\ \A q \in DOMAIN proxy \ {p} : proxy'[q] = proxy[q]
      /\ proxy'[p].blocked = proxy[p].blocked /\ proxy'[p].room = proxy[p].room - 1
  BY <1>k, <1>p, <1>t, CreateClientDoes
<1>2. affected' = {} /\ pc' \in {"censor", "write"}
  BY NextStepDoes DEF CreateClient, Base
<1>3. new.proxy = p /\ new.client = k
  OBVIOUS
<1> HIDE DEF new
<1>4. \A r \in rows : r.proxy \in DOMAIN proxy /\ r.client \in DOMAIN client
  BY DEF Base, Linked
<1>5. \A q \in DOMAIN proxy : Usable(q)' <=> Usable(q)
  BY <1>1 DEF Usable
<1>6. new \notin rows /\ Usable(p) /\ Usable(p)'
  <2>1. Usable(p)
    BY <1>1 DEF Active
  <2>2. Usable(p)'
    BY <1>1, <1>5, <2>1
  <2>3. new \notin rows
    BY <1>1, <1>3, <1>4
  <2>4. QED
    BY <2>1, <2>2, <2>3
<1>7. \A c \in DOMAIN client : LiveRows(c)' = LiveRows(c)
  BY <1>1, <1>3, <1>4, <1>5 DEF LiveRows
<1>8. LiveRows(k)' = {new}
  <2>1. \A r \in rows : r.client # k
    BY <1>1, <1>4
  <2>2. QED
    BY <1>1, <1>3, <1>6, <2>1 DEF LiveRows
<1>9. CapacityExact'
  <2>1. ASSUME NEW q \in DOMAIN proxy PROVE proxy'[q].room = MaxCapacity - Cardinality(RowsOf(q)')
    <3>1. proxy[q].room = MaxCapacity - Cardinality(RowsOf(q))
      BY DEF CapacityExact, Held
    <3>2. IsFiniteSet(RowsOf(q)) /\ Cardinality(RowsOf(q)) \in Nat /\ MaxCapacity \in Nat
      BY TablesAre, Parameters DEF Base
    <3>3. CASE q = p
      <4>1. RowsOf(q)' = RowsOf(q) \cup {new} /\ new \notin RowsOf(q)
        BY <1>1, <1>3, <1>6, <3>3 DEF RowsOf
      <4>2. Cardinality(RowsOf(q)') = Cardinality(RowsOf(q)) + 1
        BY <3>2, <4>1, FS_AddElement
      <4>3. proxy'[q].room = proxy[q].room - 1
        BY <1>1, <3>3
      <4>4. QED
        BY <3>1, <3>2, <4>2, <4>3
    <3>4. CASE q # p
      <4>1. RowsOf(q)' = RowsOf(q)
        BY <1>1, <1>3, <3>4 DEF RowsOf
      <4>2. QED
        BY <1>1, <3>1, <3>4, <4>1
    <3>5. QED
      BY <3>3, <3>4
  <2>2. QED
    BY <1>1, <2>1 DEF CapacityExact
<1>10. OneLive'
  <2>1. \A c \in DOMAIN client : \A r, s \in LiveRows(c)' : r = s
    BY <1>7 DEF OneLive, Held
  <2>2. \A r, s \in LiveRows(k)' : r = s
    BY <1>8
  <2>3. QED
    BY <1>1, <2>1, <2>2 DEF OneLive
<1>11. FlaggedHasNothing'
  BY <1>1, <1>7 DEF FlaggedHasNothing, Held
<1>12. Dry' /\ OneEach' /\ UnflaggedAffected'
  BY <1>2 DEF Dry, OneEach, UnflaggedAffected
<1>13. \A c \in DOMAIN client' \ DOMAIN client : LiveRows(c)' # {}
  BY <1>1, <1>8
<1>14. QED
  BY <1>7, <1>9, <1>10, <1>11, <1>12, <1>13 DEF Held

\* No rows, no clients, one proxy.
LEMMA FreshHeld ==
  /\ Init => Held
  /\ Base /\ Held /\ Flush => Held'
<1>1. \A place : NewProxy(place).room = MaxCapacity - Cardinality({})
  BY FS_EmptySet, Parameters DEF NewProxy
<1>2. ASSUME Init PROVE Held
  <2>1. rows = {} /\ DOMAIN client = {} /\ affected = {} /\ pc = "censor"
    BY <1>2 DEF Init
  <2>2. CapacityExact
    <3>1. \A p \in DOMAIN proxy : proxy[p].room = MaxCapacity - Cardinality({}) /\ RowsOf(p) = {}
      BY <1>1, <1>2, <2>1 DEF Init, RowsOf
    <3>2. QED
      BY <3>1 DEF CapacityExact
  <2>3. QED
    BY <2>1, <2>2 DEF Held, OneLive, FlaggedHasNothing, Dry, OneEach, UnflaggedAffected
<1>3. ASSUME Base, Held, Flush PROVE Held'
  <2>1. rows' = {} /\ DOMAIN client' = {} /\ affected' = affected /\ pc' \in {"censor", "done"}
    BY <1>3 DEF Flush, Flushed
  <2>2. CapacityExact'
    <3>1. \A p \in DOMAIN proxy' : proxy'[p].room = MaxCapacity - Cardinality({}) /\ RowsOf(p)' = {}
      BY <1>1, <1>3, <2>1 DEF Flush, RowsOf
    <3>2. QED
      BY <3>1 DEF CapacityExact
  <2>3. OneEach'
    BY <1>3, <2>1 DEF OneEach, Held
  <2>4. QED
    BY <2>1, <2>2, <2>3 DEF Held, OneLive, FlaggedHasNothing, Dry, UnflaggedAffected
<1>4. QED
  BY <1>2, <1>3

LEMMA HeldKept ==
  ASSUME Base, Held, [Next]_vars
  PROVE  Held'
<1>1. CASE Record \/ Match \/ NoProxyForClient \/ WriteResults \/ FlushFails \/ UNCHANGED vars
  <2>1. proxy' = proxy /\ client' = client /\ rows' = rows /\ affected' = affected
    BY <1>1 DEF Record, Match, NoProxyForClient, WriteResults, FlushFails, vars, database
  <2>2. \/ pc' = pc
        \/ pc = "record" /\ pc' = "rejuvenate"
        \/ pc' \in {"crashed", "flush", "done"}
    BY <1>1 DEF Record, Match, NoProxyForClient, WriteResults, FlushFails, vars
  <2>3. Affected' = Affected /\ \A c : LiveRows(c)' = LiveRows(c)
    BY <2>1 DEF Affected, LiveRows, Usable
  <2>4. QED
    BY <2>1, <2>2, <2>3 DEF Held, OneLive, CapacityExact, RowsOf, FlaggedHasNothing, Dry, OneEach, UnflaggedAffected
<1>2. CASE NoNewClient
  <2>1. proxy' = proxy /\ client' = client /\ rows' = rows /\ affected' = {} /\ pc' \in {"censor", "write"}
    BY <1>2, NextStepDoes DEF NoNewClient, database, Base
  <2>2. \A c : LiveRows(c)' = LiveRows(c)
    BY <2>1 DEF LiveRows, Usable
  <2>3. QED
    BY <2>1, <2>2 DEF Held, OneLive, CapacityExact, RowsOf, FlaggedHasNothing, Dry, OneEach, UnflaggedAffected
<1>3. QED
  BY <1>1, <1>2, CensorHeld, RejuvenateHeld, RequestHeld, AssignHeld, CreateProxyHeld, CreateClientHeld,
     FreshHeld DEF Next

\* The places in capacities, in rows and in users, and the list of those who just lost one,
\* which names nobody twice and nobody who holds or is flagged.
THEOREM HeldInvariant == Spec => []Held
<1>1. Init => Held
  BY FreshHeld
<1>2. Base /\ Held /\ [Next]_vars => Held'
  BY HeldKept
<1>3. QED
  BY <1>1, <1>2, BaseInvariant, PTL DEF Spec

\* A set in which no two are apart has one element or none.
LEMMA AtMostOne ==
  ASSUME NEW S, \A x, y \in S : x = y
  PROVE  IsFiniteSet(S) /\ Cardinality(S) \in Nat /\ Cardinality(S) <= 1
<1>1. CASE S = {}
  BY <1>1, FS_EmptySet
<1>2. CASE S # {}
  <2>1. PICK x \in S : TRUE
    BY <1>2
  <2>2. S = {x}
    BY <2>1
  <2>3. QED
    BY <2>2, FS_Singleton
<1>3. QED
  BY <1>1, <1>2

\* A user asks for at most one proxy in a step, and loses at most one.
LEMMA LimitsKept ==
  ASSUME Base, Held, Limits, [Next]_vars
  PROVE  Limits'
<1>1. Typed /\ step \in Nat
  BY TablesAre DEF Base
<1>2. \A c \in DOMAIN client : client[c].requests \in Nat /\ client[c].known \in Nat
  BY TablesAre DEF Base, ClientRow
<1>3. CASE Censor
  <2>1. pc = "censor" /\ pc' = "record" /\ step' = step
    BY <1>3 DEF Censor
  <2>2. ASSUME NEW c \in DOMAIN client
        PROVE  client'[c].requests <= step /\ client'[c].known <= step + 1
    <3>1. /\ client'[c].requests = client[c].requests
          /\ client'[c].known = client[c].known + Cardinality(KnownTo(c) \cap Discovered)
      BY <1>3, CensorDoes
    <3>2. ASSUME NEW p \in KnownTo(c) \cap Discovered
          PROVE  \E r \in LiveRows(c) : r.proxy = p
      BY DEF KnownTo, Discovered, LiveRows
    <3>3. \A p, q \in KnownTo(c) \cap Discovered : p = q
      BY <3>2 DEF Held, OneLive
    <3>4. Cardinality(KnownTo(c) \cap Discovered) \in Nat /\ Cardinality(KnownTo(c) \cap Discovered) <= 1
      BY <3>3, AtMostOne
    <3>5. client[c].requests <= step /\ client[c].known <= step
      BY <2>1 DEF Limits, Early
    <3>6. QED
      BY <1>1, <1>2, <3>1, <3>4, <3>5
  <2>3. DOMAIN client' = DOMAIN client
    BY <1>3, CensorDoes
  <2>4. QED
    BY <2>1, <2>2, <2>3 DEF Limits, Early
<1>4. CASE Record \/ Rejuvenate \/ Match \/ CreateProxy \/ NoProxyForClient \/ WriteResults \/ FlushFails
           \/ UNCHANGED vars
  <2>1. client' = client /\ step' = step
    BY <1>4 DEF Record, Rejuvenate, Match, CreateProxy, NoProxyForClient, WriteResults, FlushFails, vars, database
  <2>2. \/ pc' = pc
        \/ pc \in Early \ {"censor"} /\ pc' \in Early \ {"censor"}
        \/ pc \in {"grow", "users", "write", "flush"} /\ pc' \notin Early
    BY <1>4 DEF Record, Rejuvenate, Match, CreateProxy, NoProxyForClient, WriteResults, FlushFails, vars, Early
  <2>3. pc' \notin Early => pc' # "censor"
    BY DEF Early
  <2>4. pc \in {"grow", "users", "write", "flush"} => pc \notin Early
    BY DEF Early
  <2>5. QED
    BY <2>1, <2>2, <2>3, <2>4 DEF Limits
<1>5. CASE Request
  <2>1. pc = "request" /\ pc' = "match" /\ step' = step
    BY <1>5 DEF Request
  <2>2. /\ DOMAIN client' = DOMAIN client
        /\ \A c \in DOMAIN client : /\ client'[c].requests = client[c].requests
                                    /\ client'[c].known = client[c].known
    BY <1>5, RequestDoes
  <2>3. QED
    BY <2>1, <2>2 DEF Limits, Early
<1>6. CASE Assign
  <2>1. pc = "match" /\ pc' = "grow" /\ step' = step
    BY <1>6 DEF Assign
  <2>2. DOMAIN client' = DOMAIN client
    BY <1>6, AssignDoes
  <2>3. ASSUME NEW c \in DOMAIN client
        PROVE  client'[c].requests <= step + 1 /\ client'[c].known <= step + 1
    <3>1. /\ client'[c].requests = client[c].requests + Cardinality({p \in Proxies : c \in accepted[p]})
          /\ client'[c].known = client[c].known
      BY <1>6, AssignDoes
    <3>2. \A p, q \in {p \in Proxies : c \in accepted[p]} : p = q
      BY <2>1, MatchedAre
    <3>3. /\ Cardinality({p \in Proxies : c \in accepted[p]}) \in Nat
          /\ Cardinality({p \in Proxies : c \in accepted[p]}) <= 1
      BY <3>2, AtMostOne
    <3>4. client[c].requests <= step /\ client[c].known <= step + 1
      BY <2>1 DEF Limits, Early
    <3>5. QED
      BY <1>1, <1>2, <3>1, <3>3, <3>4
  <2>4. QED
    BY <2>1, <2>2, <2>3 DEF Limits, Early
<1>7. CASE CreateClient \/ NoNewClient
  <2>1. pc = "users" /\ pc \notin Early /\ pc # "censor" /\ NextStep
    BY <1>7 DEF CreateClient, NoNewClient, Early
  <2>2. \/ pc' = "censor" /\ step' = step + 1
        \/ pc' = "write" /\ step' = step
    BY <1>1, <2>1, NextStepDoes
  <2>3. \A c \in DOMAIN client : client[c].requests <= step + 1 /\ client[c].known <= step + 1
    BY <2>1 DEF Limits
  <2>4. \A c \in DOMAIN client' : client'[c].requests <= step + 1 /\ client'[c].known <= step + 1
    <3>1. CASE NoNewClient
      BY <2>3, <3>1 DEF NoNewClient, database
    <3>2. CASE CreateClient
      <4>1. PICK k : k = ClientsBy(step)
        OBVIOUS
      <4>2. /\ DOMAIN client' = DOMAIN client \cup {k} /\ \A d \in DOMAIN client : client'[d] = client[d]
            /\ client'[k].requests = 1 /\ client'[k].known = 0
        BY <3>2, <4>1, CreateClientDoes
      <4>3. 1 <= step + 1 /\ 0 <= step + 1
        BY <1>1
      <4>4. QED
        BY <2>3, <4>2, <4>3
    <3>3. QED
      BY <1>7, <3>1, <3>2
  <2>5. QED
    BY <2>2, <2>4 DEF Limits, Early
<1>8. CASE Flush
  <2>1. DOMAIN client' = {}
    BY <1>8 DEF Flush, Flushed
  <2>2. QED
    BY <2>1 DEF Limits
<1>9. QED
  BY <1>3, <1>4, <1>5, <1>6, <1>7, <1>8 DEF Next

\* The invariants give the types and the counts that a run checks.
LEMMA CountsFollow ==
  ASSUME Base, Held, Limits
  PROVE  PlacesCounted
<1>1. Typed /\ Sized /\ Linked
  BY DEF Base
<1>2. step \in Nat /\ Duration \in Nat /\ step <= Duration - 1
  BY <1>1, TablesAre, Parameters DEF Typed
<1>3. TypeOK
  <2>1. conf \in DOMAIN Configurations
    BY <1>1, SimulationAssumption DEF Typed
  <2>2. \A p \in DOMAIN proxy : proxy[p].blockedAt \in 0 .. step /\ proxy[p].room \in 0 .. MaxCapacity
    <3>1. ASSUME NEW p \in DOMAIN proxy PROVE proxy[p].blockedAt \in 0 .. step
      <4>1. proxy[p].blockedAt \in Nat /\ proxy[p].blockedAt <= step
        BY <1>1, TablesAre DEF Typed, ProxyRow
      <4>2. QED
        BY <1>2, <4>1
    <3>2. QED
      BY <1>1, <3>1, TablesAre
  <2>3. \A c \in DOMAIN client : {client[c].requests, client[c].known, client[c].born} \subseteq 0 .. Duration
    <3>1. ASSUME NEW c \in DOMAIN client
          PROVE  {client[c].requests, client[c].known, client[c].born} \subseteq 0 .. Duration
      <4>1. client[c].requests \in Nat /\ client[c].known \in Nat /\ client[c].born \in Nat
        BY <1>1, TablesAre DEF ClientRow
      <4>2. client[c].requests <= step + 1 /\ client[c].known <= step + 1 /\ client[c].born <= step
        <5>1. client[c].born <= step
          BY <1>1 DEF Typed
        <5>2. client[c].requests <= IF pc \in Early THEN step ELSE step + 1
          BY DEF Limits
        <5>3. client[c].known <= IF pc = "censor" THEN step ELSE step + 1
          BY DEF Limits
        <5>4. QED
          BY <1>2, <4>1, <5>1, <5>2, <5>3
      <4>3. QED
        BY <1>2, <4>1, <4>2
    <3>2. QED
      BY <3>1
  <2>4. rows \subseteq [proxy : DOMAIN proxy, client : DOMAIN client, time : 0 .. step]
    <3>1. ASSUME NEW r \in rows
          PROVE  r \in [proxy : DOMAIN proxy, client : DOMAIN client, time : 0 .. step]
      <4>1. /\ r \in RowType /\ r.proxy \in DOMAIN proxy /\ r.client \in DOMAIN client
            /\ r.time <= step /\ r.time \in Nat
        BY <1>1, TablesAre DEF Linked
      <4>2. r.time \in 0 .. step
        BY <1>2, <4>1
      <4>3. QED
        BY <4>1, <4>2 DEF RowType
    <3>2. QED
      BY <3>1
  <2>5. \A p \in Proxies : waiting \cup accepted[p] \subseteq Affected
    <3>1. CASE pc = "match"
      BY <3>1 DEF Base, Asking
    <3>2. CASE pc # "match"
      BY <3>2 DEF Base, Idle
    <3>3. QED
      BY <3>1, <3>2
  <2>6. /\ DOMAIN proxy \subseteq Proxies /\ DOMAIN client \subseteq Clients
        /\ affected \subseteq (DOMAIN proxy) \X (DOMAIN client)
    BY <1>1, TablesAre DEF Linked
  <2>7. /\ step \in 0 .. Duration - 1
        /\ pc \in {"censor", "record", "rejuvenate", "request", "match", "grow", "users",
                   "write", "flush", "done", "crashed"}
    BY <1>1 DEF Typed, Early
  <2>8. QED
    BY <2>1, <2>2, <2>3, <2>4, <2>5, <2>6, <2>7 DEF TypeOK
<1>4. OneLiveProxy
  BY AtMostOne DEF OneLiveProxy, Held, OneLive
<1>5. QED
  BY <1>3, <1>4 DEF PlacesCounted, Held

\* Through blocking, rejuvenation, matching and new users nobody holds two proxies that work,
\* capacities are what the rows leave of them, and those flagged hold nothing.
THEOREM PlacesAreCounted == Spec => []PlacesCounted
<1>1. Init => Limits
  BY DEF Init, Limits
<1>2. Base /\ Held /\ Limits /\ [Next]_vars => Limits'
  BY LimitsKept
<1>3. Base /\ Held /\ Limits => PlacesCounted
  BY CountsFollow
<1>4. QED
  BY <1>1, <1>2, <1>3, BaseInvariant, HeldInvariant, PTL DEF Spec

(***************************************************************************)
(* The charts                                                              *)
(***************************************************************************)

\* What is left of a set without a part of it.
LEMMA Remaining ==
  ASSUME NEW S, IsFiniteSet(S), NEW T \in SUBSET S
  PROVE  Cardinality(S \ T) = Cardinality(S) - Cardinality(T) /\ IsFiniteSet(S \ T)
<1>1. S \cap T = T
  OBVIOUS
<1>2. Cardinality(S \ T) = Cardinality(S) - Cardinality(S \cap T)
  BY FS_Difference
<1>3. IsFiniteSet(S \ T)
  BY FS_Difference
<1>4. QED
  BY <1>1, <1>2, <1>3

\* blocked_clients lists nobody twice.
LEMMA AffectedCounted ==
  ASSUME Base, Held
  PROVE  Cardinality(affected) = Cardinality(Affected) /\ Affected \subseteq DOMAIN client
<1> DEFINE f == [a \in affected |-> a[2]]
<1>1. affected \subseteq (DOMAIN proxy) \X (DOMAIN client) /\ \A a, b \in affected : a[2] = b[2] => a = b
  BY DEF Base, Linked, Held, OneEach
<1>2. IsFiniteSet(affected)
  <2>1. IsFiniteSet((DOMAIN proxy) \X (DOMAIN client))
    BY TablesAre, FS_Product DEF Base
  <2>2. QED
    BY <1>1, <2>1, FS_Subset
<1>3. f \in Bijection(affected, Affected)
  <2>1. f \in [affected -> Affected]
    BY DEF Affected
  <2>2. \A a, b \in affected : f[a] = f[b] => a = b
    BY <1>1
  <2>3. \A c \in Affected : \E a \in affected : f[a] = c
    BY DEF Affected
  <2> HIDE DEF f
  <2>4. QED
    BY <2>1, <2>2, <2>3 DEF Bijection, Injection, Surjection, IsInjective
<1>4. Cardinality(Affected) = Cardinality(affected)
  <2>1. ExistsBijection(affected, Affected)
    BY <1>3 DEF ExistsBijection
  <2>2. QED
    BY <1>2, <2>1, FS_Bijection
<1>5. QED
  BY <1>1, <1>4 DEF Affected

LEMMA RecordCharts ==
  ASSUME Base, Held, Record
  PROVE  ChartsRight'
<1>1. /\ pc = "record" /\ proxy' = proxy /\ client' = client /\ affected' = affected
      /\ step' = step /\ conf' = conf
  BY DEF Record, database
<1> DEFINE Shown == {c \in DOMAIN client \ FlaggedUsers : c \in Affected => Rejuvenating}
           Blocked == {p \in DOMAIN proxy : ~Usable(p)}
<1>2. /\ (Rejuvenating' <=> Rejuvenating) /\ Affected' = Affected /\ FlaggedUsers' = FlaggedUsers
      /\ Shown' = Shown /\ \A p : Usable(p)' <=> Usable(p)
  BY <1>1 DEF Rejuvenating, Interval, Affected, FlaggedUsers, Usable
<1>3. /\ IsFiniteSet(DOMAIN proxy) /\ IsFiniteSet(DOMAIN client)
      /\ FlaggedUsers \in SUBSET (DOMAIN client) /\ Affected \subseteq DOMAIN client
  BY TablesAre, AffectedCounted DEF Base, FlaggedUsers
<1>4. /\ Cardinality(DOMAIN client \ FlaggedUsers) = Cardinality(DOMAIN client) - Cardinality(FlaggedUsers)
      /\ IsFiniteSet(DOMAIN client \ FlaggedUsers)
  BY <1>3, Remaining
<1>5. CASE Rejuvenating
  <2>1. chart' = [usable |-> Cardinality(DOMAIN proxy),
                  connected |-> Cardinality(DOMAIN client) - Cardinality(FlaggedUsers)]
    BY <1>5 DEF Record
  <2>2. Shown = DOMAIN client \ FlaggedUsers
    BY <1>5
  <2> HIDE DEF Shown
  <2>3. /\ chart'.usable = Cardinality(DOMAIN proxy')
        /\ chart'.connected = Cardinality(Shown')
    BY <1>1, <1>2, <1>4, <2>1, <2>2
  <2>4. QED
    BY <1>2, <1>5, <2>3 DEF ChartsRight, Shown
<1>6. CASE ~Rejuvenating
  <2>1. chart' = [usable |-> Cardinality(DOMAIN proxy) - Cardinality(Blocked),
                  connected |-> Cardinality(DOMAIN client) - Cardinality(FlaggedUsers) - Cardinality(affected)]
    BY <1>6 DEF Record
  <2>2. {p \in DOMAIN proxy : Usable(p)} = DOMAIN proxy \ Blocked
    OBVIOUS
  <2>3. Cardinality(DOMAIN proxy \ Blocked) = Cardinality(DOMAIN proxy) - Cardinality(Blocked)
    BY <1>3, Remaining
  <2>4. Shown = (DOMAIN client \ FlaggedUsers) \ Affected
    BY <1>6
  <2>5. Affected \in SUBSET (DOMAIN client \ FlaggedUsers)
    BY <1>1, <1>3 DEF Held, UnflaggedAffected, FlaggedUsers
  <2> HIDE DEF Shown, Blocked
  <2>6. Cardinality(Shown) = Cardinality(DOMAIN client \ FlaggedUsers) - Cardinality(Affected)
    BY <1>4, <2>4, <2>5, Remaining
  <2>7. chart'.usable = Cardinality({p \in DOMAIN proxy' : Usable(p)'})
    <3>1. {p \in DOMAIN proxy' : Usable(p)'} = {p \in DOMAIN proxy : Usable(p)}
      BY <1>1, <1>2
    <3>2. QED
      BY <2>1, <2>2, <2>3, <3>1
  <2>8. chart'.connected = Cardinality(Shown')
    BY <1>2, <1>4, <2>1, <2>6, AffectedCounted
  <2>9. QED
    BY <1>2, <1>6, <2>7, <2>8 DEF ChartsRight, Shown
<1>7. QED
  BY <1>5, <1>6

LEMMA RejuvenateCharts ==
  ASSUME Base, ChartsRight, Rejuvenate
  PROVE  ChartAgrees'
<1>1. /\ pc = "rejuvenate" /\ client' = client /\ affected' = affected /\ step' = step /\ conf' = conf
      /\ chart' = chart /\ DOMAIN proxy' = DOMAIN proxy
  BY RejuvenateDoes DEF Rejuvenate
<1>2. \A p \in DOMAIN proxy : Usable(p)' <=> Usable(p) \/ Rejuvenating
  BY RejuvenateDoes DEF Usable
<1>3. chart.usable = Cardinality({p \in DOMAIN proxy' : Usable(p)'})
  <2>1. {p \in DOMAIN proxy' : Usable(p)'} =
          IF Rejuvenating THEN DOMAIN proxy ELSE {p \in DOMAIN proxy : Usable(p)}
    BY <1>1, <1>2
  <2>2. QED
    BY <1>1, <2>1 DEF ChartsRight
<1> DEFINE Shown == {c \in DOMAIN client \ FlaggedUsers : c \in Affected => Rejuvenating}
<1>4. Shown' = Shown
  BY <1>1 DEF FlaggedUsers, Affected, Rejuvenating, Interval
<1>5. chart.connected = Cardinality(Shown')
  BY <1>1, <1>4 DEF ChartsRight
<1>6. QED
  BY <1>1, <1>3, <1>5 DEF ChartAgrees

LEMMA ChartsKept ==
  ASSUME Base, Held, ChartsRight, ChartAgrees, [Next]_vars
  PROVE  ChartsRight' /\ ChartAgrees'
<1>1. CASE Record
  <2>1. pc' # "request"
    BY <1>1 DEF Record
  <2>2. QED
    BY <1>1, <2>1, RecordCharts DEF ChartAgrees
<1>2. CASE Rejuvenate
  <2>1. pc' # "rejuvenate"
    BY <1>2 DEF Rejuvenate
  <2>2. QED
    BY <1>2, <2>1, RejuvenateCharts DEF ChartsRight
<1>3. CASE Censor \/ Request \/ Match \/ Assign \/ CreateProxy \/ CreateClient \/ NoProxyForClient
           \/ NoNewClient \/ WriteResults \/ Flush \/ FlushFails
  <2>1. pc' \notin {"rejuvenate", "request"}
    BY <1>3 DEF Censor, Request, Match, Assign, CreateProxy, CreateClient, NoProxyForClient,
                NoNewClient, WriteResults, Flush, FlushFails, NextStep
  <2>2. QED
    BY <2>1 DEF ChartsRight, ChartAgrees
<1>4. CASE UNCHANGED vars
  <2>1. /\ pc' = pc /\ proxy' = proxy /\ client' = client /\ affected' = affected /\ chart' = chart
        /\ step' = step /\ conf' = conf
    BY <1>4 DEF vars, database
  <2>2. QED
    BY <2>1 DEF ChartsRight, ChartAgrees, Rejuvenating, Interval, Usable, FlaggedUsers, Affected
<1>5. QED
  BY <1>1, <1>2, <1>3, <1>4 DEF Next

\* The charts are written from counts taken before the rejuvenation, and agree with the
\* database after it.
THEOREM ChartsAgree == Spec => []ChartAgrees
<1>1. Init => ChartsRight /\ ChartAgrees
  BY DEF Init, ChartsRight, ChartAgrees
<1>2. Base /\ Held /\ ChartsRight /\ ChartAgrees /\ [Next]_vars => ChartsRight' /\ ChartAgrees'
  BY ChartsKept
<1>3. QED
  BY <1>1, <1>2, BaseInvariant, HeldInvariant, PTL DEF Spec

(***************************************************************************)
(* Who is left without a proxy                                             *)
(***************************************************************************)

\* A step that every interval divides, and the new users' one, rejuvenates.
LEMMA IntervalsDivide ==
  ASSUME Typed
  PROVE  /\ Interval \in Nat \ {0}
         /\ step % UserEvery = 0 => Rejuvenating
         /\ Interval = 1 => Rejuvenating
<1>1. step \in Nat /\ UserEvery \in Nat \ {0}
  BY Parameters DEF Typed
<1>2. conf \in DOMAIN Configurations
  BY SimulationAssumption DEF Typed
<1>3. Interval \in Nat \ {0} /\ UserEvery % Interval = 0
  <2>1. Configurations[conf] \in [censor : {"OPTIMAL", "AGGRESSIVE"}, interval : Nat \ {0}]
    <3> DEFINE X == [censor : {"OPTIMAL", "AGGRESSIVE"}, interval : Nat \ {0}]
    <3>1. Configurations \in Seq(X) /\ conf \in 1 .. Len(Configurations)
      BY SimulationAssumption DEF Typed
    <3> HIDE DEF X
    <3>2. Configurations[conf] \in X
      BY <3>1
    <3>3. QED
      BY <3>2 DEF X
  <2>2. UserEvery % Configurations[conf].interval = 0
    BY <1>2, SimulationAssumption, Zenon
  <2>3. Configurations[conf].interval \in Nat \ {0}
    BY <2>1
  <2>4. QED
    BY <2>2, <2>3 DEF Interval
<1>4. step % UserEvery = 0 => Rejuvenating
  BY <1>1, <1>3, MultipleOfMultiple DEF Rejuvenating
<1>5. Interval = 1 => Rejuvenating
  <2>1. step % 1 = 0
    BY <1>1
  <2>2. QED
    BY <2>1 DEF Rejuvenating
<1>6. QED
  BY <1>3, <1>4, <1>5

LEMMA AllUsableKept ==
  ASSUME Base, AllUsable, [Next]_vars
  PROVE  AllUsable'
<1>1. CASE Censor \/ Record \/ WriteResults \/ FlushFails \/ Flush \/ NoProxyForClient \/ CreateClient \/ NoNewClient
  <2>1. pc' \notin {"request", "match", "grow", "users"}
    BY <1>1 DEF Censor, Record, WriteResults, FlushFails, Flush, NoProxyForClient, CreateClient, NoNewClient, NextStep
  <2>2. QED
    BY <2>1 DEF AllUsable
<1>2. CASE Rejuvenate
  <2>1. DOMAIN proxy' = DOMAIN proxy /\ step' = step /\ conf' = conf
    BY <1>2, RejuvenateDoes DEF Rejuvenate
  <2>2. Rejuvenating => \A p \in DOMAIN proxy : Usable(p)'
    BY <1>2, RejuvenateDoes DEF Usable
  <2>3. QED
    BY <2>1, <2>2 DEF AllUsable, Rejuvenating, Interval
<1>3. CASE Request \/ Match \/ UNCHANGED vars
  <2>1. /\ proxy' = proxy /\ step' = step /\ conf' = conf
        /\ pc' \in {"request", "match", "grow", "users"} => pc \in {"request", "match", "grow", "users"}
    BY <1>3 DEF Request, Match, vars, database
  <2>2. QED
    BY <2>1 DEF AllUsable, Rejuvenating, Interval, Usable
<1>4. CASE Assign
  <2>1. step' = step /\ conf' = conf /\ pc = "match"
    BY <1>4 DEF Assign
  <2>2. DOMAIN proxy' = DOMAIN proxy /\ \A p \in DOMAIN proxy : Usable(p)' <=> Usable(p)
    BY <1>4, AssignDoes DEF Usable
  <2>3. QED
    BY <2>1, <2>2 DEF AllUsable, Rejuvenating, Interval
<1>5. CASE CreateProxy
  <2>1. step' = step /\ conf' = conf /\ pc = "grow"
    BY <1>5 DEF CreateProxy
  <2>2. /\ \A p \in DOMAIN proxy : Usable(p)' <=> Usable(p)
        /\ \A p \in DOMAIN proxy' \ DOMAIN proxy : Usable(p)'
    BY <1>5, CreateProxyDoes DEF Usable
  <2>3. QED
    BY <2>1, <2>2 DEF AllUsable, Rejuvenating, Interval
<1>6. QED
  BY <1>1, <1>2, <1>3, <1>4, <1>5 DEF Next

\* A rejuvenation leaves no proxy blocked, and none is blocked later in the step.
THEOREM AllUsableInvariant == Spec => []AllUsable
<1>1. Init => AllUsable
  BY DEF Init, AllUsable
<1>2. Base /\ AllUsable /\ [Next]_vars => AllUsable'
  BY AllUsableKept
<1>3. QED
  BY <1>1, <1>2, BaseInvariant, PTL DEF Spec

\* No proxy has more rows than places; when none has a place left, there are as many rows
\* as places.
LEMMA RowsAndPlaces ==
  ASSUME Base, CapacityExact
  PROVE  /\ Cardinality(rows) \in Nat /\ Cardinality(DOMAIN proxy) \in Nat
         /\ Cardinality(rows) <= MaxCapacity * Cardinality(DOMAIN proxy)
         /\ (\A p \in DOMAIN proxy : proxy[p].room = 0) =>
              Cardinality(rows) = MaxCapacity * Cardinality(DOMAIN proxy)
<1>1. Typed /\ Sized /\ Linked /\ MaxCapacity \in Nat
  BY Parameters DEF Base
<1>2. PICK n \in Nat : DOMAIN proxy = 1 .. n
  BY <1>1, IdsAre DEF Sized
<1>3. Cardinality(DOMAIN proxy) = n
  BY <1>2, FS_Interval
<1>4. \A p \in 1 .. n : /\ proxy[p].room \in 0 .. MaxCapacity
                        /\ Cardinality({r \in rows : r.proxy = p}) \in Nat
                        /\ proxy[p].room = MaxCapacity - Cardinality({r \in rows : r.proxy = p})
  BY <1>1, <1>2, TablesAre DEF CapacityExact, RowsOf
<1>5. \A p \in 1 .. n : /\ Cardinality({r \in rows : r.proxy = p}) <= MaxCapacity
                        /\ proxy[p].room = 0 => Cardinality({r \in rows : r.proxy = p}) = MaxCapacity
  <2>1. ASSUME NEW p \in 1 .. n
        PROVE  /\ Cardinality({r \in rows : r.proxy = p}) <= MaxCapacity
               /\ proxy[p].room = 0 => Cardinality({r \in rows : r.proxy = p}) = MaxCapacity
    <3> DEFINE k == Cardinality({r \in rows : r.proxy = p})
    <3>1. proxy[p].room \in 0 .. MaxCapacity /\ k \in Nat /\ proxy[p].room = MaxCapacity - k
      BY <1>4
    <3> HIDE DEF k
    <3>2. k <= MaxCapacity /\ (proxy[p].room = 0 => k = MaxCapacity)
      BY <1>1, <3>1
    <3>3. QED
      BY <3>2 DEF k
  <2>2. QED
    BY <2>1
<1>6. IsFiniteSet(rows) /\ \A r \in rows : r.proxy \in 1 .. n
  BY <1>1, <1>2 DEF Linked
<1>7. /\ Cardinality(rows) <= MaxCapacity * n
      /\ (\A p \in 1 .. n : Cardinality({r \in rows : r.proxy = p}) = MaxCapacity) =>
           Cardinality(rows) = MaxCapacity * n
  <2>1. \A p \in 1 .. n : Cardinality({r \in rows : r.proxy = p}) <= MaxCapacity
    BY <1>5
  <2>2. n \in Nat /\ MaxCapacity \in Nat
    BY <1>1
  <2>3. RowsWithin(rows, n, MaxCapacity)
    BY <1>6, <2>1, <2>2, RowsAreCounted
  <2>4. QED
    BY <2>3 DEF RowsWithin
<1>8. (\A p \in DOMAIN proxy : proxy[p].room = 0) =>
        \A p \in 1 .. n : Cardinality({r \in rows : r.proxy = p}) = MaxCapacity
  BY <1>2, <1>5
<1>9. Cardinality(rows) \in Nat
  BY <1>6, FS_CardinalityType
<1>10. QED
  BY <1>3, <1>7, <1>8, <1>9

\* The script ends for want of a proxy only when all places of all proxies are taken.
LEMMA CrashFollows ==
  ASSUME Base, Held, AllUsable
  PROVE  CrashOnlyWhenFull
<1> SUFFICES ASSUME pc = "users", step % UserEvery = 0, Active = {}
             PROVE  Cardinality(rows) = MaxCapacity * Cardinality(DOMAIN proxy)
  BY DEF CrashOnlyWhenFull
<1>1. \A p \in DOMAIN proxy : Usable(p)
  BY IntervalsDivide DEF Base, AllUsable
<1>2. \A p \in DOMAIN proxy : proxy[p].room \in Nat /\ ~(proxy[p].room > 0)
  BY <1>1, TablesAre, Parameters DEF Base, Active
<1>3. \A p \in DOMAIN proxy : proxy[p].room = 0
  BY <1>2
<1>4. QED
  BY <1>3, RowsAndPlaces DEF Held

\* Who asked and got no proxy was turned down by all of those active, which are full now.
LEMMA AssignLeavesNone ==
  ASSUME Base, Held, Assign
  PROVE  \A c \in Affected : client[c].flagged \/ LiveRows(c)' # {} \/ Active' = {}
<1> SUFFICES ASSUME NEW c \in Affected, ~client[c].flagged, LiveRows(c)' = {}
             PROVE  Active' = {}
  OBVIOUS
<1>1. pc = "match" /\ waiting = {} /\ Matching!IInv /\ Asking
  BY DEF Assign, Matching!Finished, Base
<1>2. Affected \subseteq Clients /\ Active \subseteq Proxies /\ DOMAIN proxy \subseteq Proxies
  BY TablesAre DEF Base, Linked, Affected, Active
<1>3. \A p \in Proxies : c \notin accepted[p]
  <2>1. ASSUME NEW p \in Proxies, c \in accepted[p] PROVE FALSE
    <3>1. p \in Active
      BY <2>1, AssignRows
    <3>2. [proxy |-> p, client |-> c, time |-> step] \in
            {[proxy |-> q, client |-> c, time |-> step] : q \in {q \in Active : c \in accepted[q]}}
      BY <2>1, <3>1
    <3>3. QED
      BY <3>2, AssignRows
  <2>2. QED
    BY <2>1
<1>4. asked[c] = Len(prefs[c])
  BY <1>1, <1>2, <1>3 DEF Matching!IInv, Matching!NobodyDropped
<1>5. ASSUME NEW p \in Active PROVE ~(Cardinality(accepted[p]) < proxy[p].room)
  <2>1. PICK i \in 1 .. Len(prefs[c]) : prefs[c][i] = p
    BY <1>1 DEF Asking
  <2>2. ~Matching!HasRoom(p)
    BY <1>1, <1>2, <1>3, <1>4, <2>1 DEF Matching!IInv, Matching!NoRegret
  <2>3. Room[p] = proxy[p].room
    BY RoomIs DEF Base, Active
  <2>4. QED
    BY <2>2, <2>3 DEF Matching!HasRoom, Matching!Cardinality, Cardinality
<1>6. ASSUME NEW p \in Active' PROVE FALSE
  <2>1. p \in DOMAIN proxy /\ ~proxy'[p].blocked /\ proxy'[p].room > 0
    BY AssignDoes DEF Active, Usable
  <2>2. /\ proxy'[p].blocked = proxy[p].blocked
        /\ proxy'[p].room = proxy[p].room - Cardinality(accepted[p])
    BY <2>1, AssignDoes
  <2>3. proxy[p].room \in Nat /\ Cardinality(accepted[p]) \in Nat
    BY <1>1, <1>2, <2>1, TablesAre, Parameters, MatchedAre DEF Base
  <2>4. p \in Active
    BY <2>1, <2>2, <2>3 DEF Active, Usable
  <2>5. QED
    BY <1>5, <2>1, <2>2, <2>3, <2>4
<1>7. QED
  BY <1>6

LEMMA UnmatchedKept ==
  ASSUME Base, Held, UnmatchedOnlyWhenFull, [Next]_vars
  PROVE  UnmatchedOnlyWhenFull'
<1>1. CASE Assign
  <2>1. affected' = affected /\ Affected' = Affected
    BY <1>1 DEF Assign, Affected
  <2>2. \A c \in Affected : client'[c].flagged = client[c].flagged
    BY <1>1, AssignDoes DEF Base, Linked, Affected
  <2>3. QED
    BY <1>1, <2>1, <2>2, AssignLeavesNone DEF UnmatchedOnlyWhenFull
<1>2. CASE UNCHANGED vars
  BY <1>2 DEF vars, database, UnmatchedOnlyWhenFull, Affected, LiveRows, Usable, Active
<1>3. CASE ~Assign /\ ~UNCHANGED vars
  <2>1. pc' # "grow"
    BY <1>3 DEF Next, Censor, Record, Rejuvenate, Request, Match, CreateProxy, CreateClient, NoProxyForClient,
                NoNewClient, WriteResults, Flush, FlushFails, NextStep
  <2>2. QED
    BY <2>1 DEF UnmatchedOnlyWhenFull
<1>4. QED
  BY <1>1, <1>2, <1>3

\* Rows and users, counted against each other.
LEMMA OneRowEach ==
  ASSUME NEW R, NEW U, IsFiniteSet(U), \A r \in R : r.client \in U,
         \A r, s \in R : r.client = s.client => r = s
  PROVE  Cardinality(R) <= Cardinality(U)
<1> DEFINE f == [r \in R |-> r.client]
<1>1. f \in Injection(R, U)
  <2>1. f \in [R -> U] /\ \A r, s \in R : f[r] = f[s] => r = s
    OBVIOUS
  <2> HIDE DEF f
  <2>2. QED
    BY <2>1 DEF Injection, IsInjective
<1>2. QED
  BY <1>1, FS_Injection

LEMMA ARowEach ==
  ASSUME NEW R, NEW U, IsFiniteSet(R), \A c \in U : \E r \in R : r.client = c
  PROVE  IsFiniteSet(U) /\ Cardinality(U) <= Cardinality(R)
<1> DEFINE f == [c \in U |-> CHOOSE r \in R : r.client = c]
<1>1. f \in Injection(U, R)
  <2>1. \A c \in U : f[c] \in R /\ f[c].client = c
    OBVIOUS
  <2>2. f \in [U -> R]
    BY <2>1
  <2> HIDE DEF f
  <2>3. \A c, d \in U : f[c] = f[d] => c = d
    BY <2>1
  <2>4. QED
    BY <2>2, <2>3 DEF Injection, IsInjective
<1>2. QED
  BY <1>1, FS_Injection

\* As in RowsAndPlaces, after a step.
LEMMA PlacesAfter ==
  Base' /\ Held' /\ (\A p \in DOMAIN proxy' : proxy'[p].room = 0) =>
    Cardinality(rows') = MaxCapacity * Cardinality(DOMAIN proxy')
<1>1. Base /\ Held => ((\A p \in DOMAIN proxy : proxy[p].room = 0) =>
                          Cardinality(rows) = MaxCapacity * Cardinality(DOMAIN proxy))
  BY RowsAndPlaces DEF Held
<1>2. (Base /\ Held => ((\A p \in DOMAIN proxy : proxy[p].room = 0) =>
                          Cardinality(rows) = MaxCapacity * Cardinality(DOMAIN proxy)))'
  BY <1>1, PTL
<1>3. QED
  BY <1>2

\* The censor takes a proxy from those it affects and from nobody else; the users who had
\* one before were no more than the places.
LEMMA CensorServed ==
  ASSUME Base, Held, Served, Censor
  PROVE  Served'
<1> SUFFICES ASSUME Interval' = 1 PROVE Served'
  BY DEF Served
<1>1. /\ pc = "censor" /\ pc' = "record" /\ rows' = rows /\ conf' = conf
      /\ affected' = {a \in Discovered \X (DOMAIN client) : a[1] \in KnownTo(a[2])}
      /\ DOMAIN proxy' = DOMAIN proxy
  BY CensorDoes DEF Censor
<1>2. \A c \in Unflagged : LiveRows(c) # {}
  BY <1>1 DEF Served, Interval
<1>3. Unflagged' = Unflagged /\ Unflagged \subseteq DOMAIN client
  BY CensorDoes DEF Unflagged
<1>4. ASSUME NEW c \in Unflagged PROVE c \in Affected' \/ LiveRows(c)' # {}
  <2>1. PICK r \in rows : r.client = c /\ Usable(r.proxy)
    BY <1>2, <1>4 DEF LiveRows
  <2>2. r.proxy \in DOMAIN proxy
    BY DEF Base, Linked
  <2>3. CASE r.proxy \in Discovered
    <3>1. <<r.proxy, c>> \in affected'
      BY <1>1, <1>3, <1>4, <2>1, <2>3 DEF KnownTo
    <3>2. QED
      BY <3>1 DEF Affected
  <2>4. CASE r.proxy \notin Discovered
    <3>1. ~proxy'[r.proxy].blocked
      BY <2>1, <2>2, <2>4, CensorDoes DEF Usable
    <3>2. r \in LiveRows(c)'
      BY <1>1, <2>1, <3>1 DEF LiveRows, Usable
    <3>3. QED
      BY <3>2
  <2>5. QED
    BY <2>3, <2>4
<1>5. Cardinality(Unflagged) <= MaxCapacity * Cardinality(DOMAIN proxy)
  <2>1. IsFiniteSet(rows)
    BY DEF Base, Linked
  <2>2. \A c \in Unflagged : \E r \in rows : r.client = c
    BY <1>2 DEF LiveRows
  <2>3. IsFiniteSet(Unflagged) /\ Cardinality(Unflagged) <= Cardinality(rows)
    BY <2>1, <2>2, ARowEach
  <2>4. /\ Cardinality(rows) \in Nat /\ Cardinality(DOMAIN proxy) \in Nat
        /\ Cardinality(rows) <= MaxCapacity * Cardinality(DOMAIN proxy)
    BY RowsAndPlaces DEF Held
  <2>5. Cardinality(Unflagged) \in Nat
    BY <2>3, FS_CardinalityType
  <2> DEFINE u == Cardinality(Unflagged)
             r == Cardinality(rows)
             m == MaxCapacity * Cardinality(DOMAIN proxy)
  <2>6. m \in Nat
    BY <2>4, Parameters
  <2>7. u \in Nat /\ r \in Nat /\ u <= r /\ r <= m
    BY <2>3, <2>4, <2>5
  <2> HIDE DEF u, r, m
  <2>8. u <= m
    BY <2>6, <2>7
  <2>9. QED
    BY <2>8 DEF u, m
<1>6. QED
  BY <1>1, <1>3, <1>4, <1>5 DEF Served

\* Were a user that is not flagged left out, all places would be taken, by others who are
\* not flagged; but there are not that many.
LEMMA AssignServed ==
  ASSUME Base, Held, AllUsable, Served, Assign, Base', Held', AllUsable'
  PROVE  Served'
<1> SUFFICES ASSUME Interval' = 1 PROVE Served'
  BY DEF Served
<1>1. pc = "match" /\ pc' = "grow" /\ conf' = conf /\ step' = step
  BY DEF Assign
<1>2. /\ \A c \in Unflagged : c \in Affected \/ LiveRows(c) # {}
      /\ Cardinality(Unflagged) <= MaxCapacity * Cardinality(DOMAIN proxy)
  BY <1>1 DEF Served, Interval
<1>3. /\ Unflagged' = Unflagged /\ Unflagged \subseteq DOMAIN client
      /\ DOMAIN client' = DOMAIN client /\ DOMAIN proxy' = DOMAIN proxy
  BY AssignDoes DEF Unflagged
<1>4. SUFFICES ASSUME NEW c \in Unflagged, LiveRows(c)' = {} PROVE FALSE
  BY <1>1, <1>3 DEF Served
<1>5. LiveRows(c) \subseteq LiveRows(c)'
  BY AssignRows
<1>6. Active' = {}
  <2>1. c \in Affected /\ ~client[c].flagged
    BY <1>2, <1>4, <1>5 DEF Unflagged
  <2>2. QED
    BY <1>4, <2>1, AssignLeavesNone
<1>7. Rejuvenating'
  <2>1. Interval = 1
    BY <1>1 DEF Interval
  <2>2. Rejuvenating
    BY <2>1, IntervalsDivide DEF Base
  <2>3. QED
    BY <1>1, <2>2 DEF Rejuvenating, Interval
<1>8. \A p \in DOMAIN proxy' : Usable(p)'
  BY <1>1, <1>7 DEF AllUsable
<1>9. \A p \in DOMAIN proxy' : proxy'[p].room = 0
  <2>1. ASSUME NEW p \in DOMAIN proxy' PROVE proxy'[p].room = 0
    <3>1. proxy'[p].room \in 0 .. MaxCapacity
      BY <2>1, AssignDoes, <1>3 DEF ProxyRow
    <3>2. ~(proxy'[p].room > 0)
      BY <1>6, <1>8, <2>1 DEF Active
    <3>3. QED
      BY <3>1, <3>2, Parameters
  <2>2. QED
    BY <2>1
<1>10. Cardinality(rows') = MaxCapacity * Cardinality(DOMAIN proxy)
  BY <1>3, <1>9, PlacesAfter
<1>11. \A r \in rows' : r \in LiveRows(r.client)' /\ r.client \in DOMAIN client'
  <2>1. \A r \in rows' : r.proxy \in DOMAIN proxy' /\ r.client \in DOMAIN client'
    BY DEF Base, Linked
  <2>2. QED
    BY <1>8, <2>1 DEF LiveRows
<1>12. \A r \in rows' : r.client \in Unflagged \ {c}
  <2>1. ASSUME NEW r \in rows' PROVE r.client \in Unflagged \ {c}
    <3>1. r.client \in DOMAIN client' /\ LiveRows(r.client)' # {}
      BY <1>11
    <3>2. ~client'[r.client].flagged
      BY <3>1 DEF Held, FlaggedHasNothing
    <3>3. r.client \in Unflagged
      BY <1>3, <3>1, <3>2 DEF Unflagged
    <3>4. QED
      BY <1>4, <3>1, <3>3
  <2>2. QED
    BY <2>1
<1>13. \A r, s \in rows' : r.client = s.client => r = s
  <2>1. \A d \in DOMAIN client' : \A r, s \in LiveRows(d)' : r = s
    BY DEF Held, OneLive
  <2>2. QED
    BY <1>11, <2>1
<1>14. IsFiniteSet(Unflagged)
  BY <1>3, TablesAre, FS_Subset DEF Base
<1>15. IsFiniteSet(Unflagged \ {c}) /\ Cardinality(Unflagged \ {c}) = Cardinality(Unflagged) - 1
  BY <1>4, <1>14, FS_RemoveElement
<1>16. Cardinality(rows') <= Cardinality(Unflagged \ {c})
  BY <1>12, <1>13, <1>15, OneRowEach
<1>17. MaxCapacity * Cardinality(DOMAIN proxy) \in Nat
  BY RowsAndPlaces, Parameters DEF Held
<1> DEFINE u == Cardinality(Unflagged)
           m == MaxCapacity * Cardinality(DOMAIN proxy)
<1>18. u \in Nat /\ m \in Nat /\ m <= u - 1 /\ u <= m
  BY <1>2, <1>10, <1>14, <1>15, <1>16, <1>17, FS_CardinalityType
<1> HIDE DEF u, m
<1>19. QED
  BY <1>18

LEMMA ServedKept ==
  ASSUME Base, Held, AllUsable, Served, [Next]_vars, Base', Held', AllUsable'
  PROVE  Served'
<1>1. CASE Censor
  BY <1>1, CensorServed
<1>2. CASE Record \/ Match \/ UNCHANGED vars
  <2>1. /\ proxy' = proxy /\ client' = client /\ rows' = rows /\ affected' = affected /\ conf' = conf
        /\ \/ pc' = pc
           \/ {pc, pc'} \subseteq {"record", "rejuvenate", "request", "match"}
    BY <1>2 DEF Record, Match, vars, database
  <2>2. QED
    BY <2>1 DEF Served, Unflagged, LiveRows, Usable, Affected, Interval
<1>3. CASE Rejuvenate
  <2>1. /\ pc = "rejuvenate" /\ pc' = "request" /\ client' = client /\ affected' = affected /\ conf' = conf
        /\ DOMAIN proxy' = DOMAIN proxy /\ \A c : LiveRows(c)' = LiveRows(c)
    BY <1>3, RejuvenateDoes, RejuvenateHeld DEF Rejuvenate
  <2>2. Unflagged' = Unflagged /\ Affected' = Affected /\ Interval' = Interval
    BY <2>1 DEF Unflagged, Affected, Interval
  <2>3. QED
    BY <2>1, <2>2 DEF Served
<1>4. CASE Request
  <2>1. /\ pc = "request" /\ pc' = "match" /\ proxy' = proxy /\ rows' = rows /\ affected' = affected /\ conf' = conf
    BY <1>4 DEF Request
  <2>2. Unflagged' \subseteq Unflagged /\ Unflagged \subseteq DOMAIN client
    BY <1>4, RequestDoes DEF Unflagged
  <2>3. /\ Affected' = Affected /\ Interval' = Interval /\ \A c : LiveRows(c)' = LiveRows(c)
    BY <2>1 DEF Affected, Interval, LiveRows, Usable
  <2>4. Cardinality(Unflagged') <= Cardinality(Unflagged) /\ Cardinality(Unflagged') \in Nat /\ Cardinality(Unflagged) \in Nat
    BY <2>2, TablesAre, FS_Subset, FS_CardinalityType DEF Base
  <2>5. MaxCapacity * Cardinality(DOMAIN proxy) \in Nat
    BY RowsAndPlaces, Parameters DEF Held
  <2> DEFINE u == Cardinality(Unflagged)
             v == Cardinality(Unflagged')
             m == MaxCapacity * Cardinality(DOMAIN proxy)
  <2>6. u \in Nat /\ v \in Nat /\ m \in Nat /\ v <= u
    BY <2>4, <2>5
  <2>7. Interval = 1 => u <= m /\ \A c \in Unflagged : c \in Affected \/ LiveRows(c) # {}
    BY <2>1 DEF Served
  <2> HIDE DEF u, v, m
  <2>8. Interval = 1 => v <= m
    BY <2>6, <2>7
  <2>9. Interval = 1 => Cardinality(Unflagged') <= MaxCapacity * Cardinality(DOMAIN proxy')
    BY <2>1, <2>8 DEF v, m
  <2>10. QED
    BY <2>1, <2>2, <2>3, <2>7, <2>9 DEF Served
<1>5. CASE Assign
  BY <1>5, AssignServed
<1>6. CASE CreateProxy
  <2>1. /\ pc = "grow" /\ pc' = "users" /\ client' = client /\ conf' = conf
        /\ \A c : LiveRows(c)' = LiveRows(c)
    BY <1>6, CreateProxyHeld DEF CreateProxy
  <2>2. Unflagged' = Unflagged /\ Interval' = Interval
    BY <2>1 DEF Unflagged, Interval
  <2>3. QED
    BY <2>1, <2>2 DEF Served
<1>7. CASE CreateClient
  <2>1. pc = "users" /\ pc' \in {"censor", "write"} /\ conf' = conf
    BY <1>7 DEF CreateClient, NextStep
  <2>2. /\ \A c \in DOMAIN client : LiveRows(c)' = LiveRows(c)
        /\ \A c \in DOMAIN client' \ DOMAIN client : LiveRows(c)' # {}
    BY <1>7, CreateClientHeld
  <2>3. \A c \in DOMAIN client : client'[c] = client[c]
    BY <1>7, CreateClientDoes
  <2>4. \A c \in Unflagged' : LiveRows(c)' # {} \/ c \in Unflagged
    BY <2>2, <2>3 DEF Unflagged
  <2>5. Interval' = Interval
    BY <2>1 DEF Interval
  <2>6. Interval = 1 => \A c \in Unflagged' : LiveRows(c)' # {}
    BY <2>1, <2>2, <2>4 DEF Served, Unflagged
  <2>7. QED
    BY <2>1, <2>5, <2>6 DEF Served
<1>8. CASE NoNewClient
  <2>1. /\ pc = "users" /\ pc' \in {"censor", "write"} /\ conf' = conf
        /\ client' = client /\ proxy' = proxy /\ rows' = rows
    BY <1>8 DEF NoNewClient, NextStep, database
  <2>2. Unflagged' = Unflagged /\ Interval' = Interval /\ \A c : LiveRows(c)' = LiveRows(c)
    BY <2>1 DEF Unflagged, Interval, LiveRows, Usable
  <2>3. QED
    BY <2>1, <2>2 DEF Served
<1>9. CASE NoProxyForClient \/ WriteResults \/ FlushFails
  <2>1. pc' \in {"crashed", "flush", "done"}
    BY <1>9 DEF NoProxyForClient, WriteResults, FlushFails
  <2>2. QED
    BY <2>1 DEF Served
<1>10. CASE Flush
  <2>1. pc' \in {"censor", "done"} /\ client' = <<>>
    BY <1>10 DEF Flush, Flushed
  <2>2. Unflagged' = {}
    BY <2>1 DEF Unflagged
  <2>3. QED
    BY <2>1, <2>2 DEF Served
<1>11. QED
  BY <1>1, <1>2, <1>3, <1>4, <1>5, <1>6, <1>7, <1>8, <1>9, <1>10 DEF Next

\* With a rejuvenation in every step, who is not flagged has a proxy or has just lost one.
THEOREM ServedInvariant == Spec => []Served
<1>1. Init => Served
  BY DEF Init, Served, Unflagged
<1>2. Base /\ Held /\ AllUsable /\ Served /\ [Next]_vars /\ Base' /\ Held' /\ AllUsable' => Served'
  BY ServedKept
<1>3. QED
  BY <1>1, <1>2, BaseInvariant, HeldInvariant, AllUsableInvariant, PTL DEF Spec

\* Who asks for a proxy gets one or there is none, a new user included.
THEOREM NobodyIsLeftOut == Spec => []NobodyLeftOut
<1>1. Init => UnmatchedOnlyWhenFull
  BY DEF Init, UnmatchedOnlyWhenFull
<1>2. Base /\ Held /\ UnmatchedOnlyWhenFull /\ [Next]_vars => UnmatchedOnlyWhenFull'
  BY UnmatchedKept
<1>3. Base /\ Held /\ AllUsable => CrashOnlyWhenFull
  BY CrashFollows
<1>4. Served => NobodyForgotten
  BY DEF Served, NobodyForgotten, Unflagged
<1>5. QED
  BY <1>1, <1>2, <1>3, <1>4, BaseInvariant, HeldInvariant, AllUsableInvariant, ServedInvariant, PTL
     DEF Spec, NobodyLeftOut
===============================================================================
