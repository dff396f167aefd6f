--------------------------- MODULE CensorSimulation ---------------------------
(***************************************************************************)
(* scripts/run_simulation.py: the censor blocks proxies, their users ask   *)
(* for others (request_new_proxy, whose matching is DeferredAcceptance),   *)
(* proxies and users are added, step after step, one configuration after   *)
(* the other over one database.  The script is sequential: pc says which   *)
(* part of a step comes next, and what is random in the code (agents,      *)
(* places) is a choice.  Utilities are kept in tenths, as an agent's time  *)
(* counts 4/10, and without the cap of 24000 on that time, which no        *)
(* simulated duration reaches.  A place is one coordinate.                 *)
(***************************************************************************)
EXTENDS Integers, Sequences, FiniteSets, FiniteSetsExt, Functions

CONSTANTS Configurations,   \* the sequence of [censor, interval] of run()
          Duration,         \* BIRTH_PERIOD + SIMULATION_DURATION
          UserEvery,        \* NEW_USER_RATE_INTERVAL; NEW_USER_COUNT is 1
          ProxyEvery,       \* NEW_PROXY_INTERVAL; NEW_PROXY_COUNT is 1
          MaxCapacity,      \* MAX_PROXY_CAPACITY
          FlagBelow,        \* CLIENT_UTILITY_THRESHOLD, in tenths
          ProxyPlaces, ClientPlaces, Nobody

ASSUME SimulationAssumption ==
  /\ Configurations \in Seq([censor : {"OPTIMAL", "AGGRESSIVE"}, interval : Nat \ {0}])
  /\ Configurations # <<>>
  /\ {Duration, UserEvery, ProxyEvery, MaxCapacity} \subseteq Nat \ {0}
  /\ FlagBelow \in Int /\ ProxyPlaces \subseteq Nat /\ ClientPlaces \subseteq Nat
  /\ Nobody \notin Nat
  \* The intervals of run() divide NEW_USER_RATE_INTERVAL.
  /\ \A i \in DOMAIN Configurations : UserEvery % Configurations[i].interval = 0

Clients == 0 .. ((Duration - 1) \div UserEvery)
Proxies == 1 .. (Duration - 1) \div ProxyEvery + 2

VARIABLES conf,     \* index of the running configuration
          step, pc,
          proxy,    \* the Proxy rows by id: blocked, blockedAt, room (capacity), place
          client,   \* the Client rows by number: agent, flagged, requests, known, born, place
          rows,     \* the Assignment rows: proxy, client, time
          affected, \* blocked_clients, each with the proxy it was found by
          chart,    \* the last values recorded: usable, connected
          charted,  \* the number of rows of a chart
          results,  \* the rows of every results file written, by configuration
          prefs, ranks, asked, waiting, pass, accepted   \* of get_matched_clients

matching == <<prefs, ranks, asked, waiting, pass, accepted>>
database == <<proxy, client, rows>>
vars == <<conf, step, pc, database, affected, chart, charted, results, matching>>

Room == [p \in Proxies |-> IF p \in DOMAIN proxy THEN proxy[p].room ELSE 0]

Matching == INSTANCE DeferredAcceptance WITH capacity <- Room, Capacities <- 1 .. MaxCapacity

Interval == Configurations[conf].interval
Rejuvenating == step % Interval = 0
Usable(p) == ~proxy[p].blocked
KnownTo(c) == {r.proxy : r \in {s \in rows : s.client = c}}
RowsOf(p) == {r \in rows : r.proxy = p}
Affected == {a[2] : a \in affected}

NewProxy(place) == [blocked |-> FALSE, blockedAt |-> 0, room |-> MaxCapacity, place |-> place]

NoPrefs == [c \in Clients |-> <<>>]
NoRanks == [p \in Proxies |-> [c \in Clients |-> 0]]

Init ==
  /\ conf = 1 /\ step = 0 /\ pc = "censor"
  /\ \E place \in ProxyPlaces : proxy = [p \in {1} |-> NewProxy(place)]
  /\ client = <<>> /\ rows = {} /\ affected = {}
  /\ chart = [usable |-> 0, connected |-> 0] /\ charted = 0 /\ results = <<>>
  /\ prefs = NoPrefs /\ ranks = NoRanks /\ Matching!Started({})
-------------------------------------------------------------------------------
\* censor.run: the usable proxies an agent knows, for the optimal censor of an
\* assignment that is old enough.
Discovered ==
  {p \in DOMAIN proxy :
     /\ Usable(p)
     /\ \E r \in RowsOf(p) : /\ client[r.client].agent
                             /\ Configurations[conf].censor = "OPTIMAL" => r.time < step - 2}

Censor ==
  /\ pc = "censor" /\ pc' = "record"
  /\ LET B == Discovered
     IN  /\ proxy' = [p \in DOMAIN proxy |->
                        IF p \in B THEN [proxy[p] EXCEPT !.blocked = TRUE, !.blockedAt = step]
                                   ELSE proxy[p]]
         /\ affected' = {a \in B \X (DOMAIN client) : a[1] \in KnownTo(a[2])}
         /\ client' = [c \in DOMAIN client |->
                         [client[c] EXCEPT !.known = @ + Cardinality(KnownTo(c) \cap B)]]
  /\ UNCHANGED <<conf, step, rows, chart, charted, results, matching>>

FlaggedUsers == {c \in DOMAIN client : client[c].flagged /\ ~client[c].agent}

\* The three charts: on a step that rejuvenates every proxy counts, and those
\* whose proxy was just blocked count as connected.
Record ==
  /\ pc = "record" /\ pc' = "rejuvenate"
  /\ LET users == Cardinality(DOMAIN client) - Cardinality(FlaggedUsers)
     IN chart' = IF Rejuvenating
                 THEN [usable |-> Cardinality(DOMAIN proxy), connected |-> users]
                 ELSE [usable |-> Cardinality(DOMAIN proxy)
                                    - Cardinality({p \in DOMAIN proxy : ~Usable(p)}),
                       connected |-> users - Cardinality(affected)]
  /\ charted' = charted + 1
  /\ UNCHANGED <<conf, step, database, affected, results, matching>>

\* Mutants of Rejuvenated: the capacity is not reset, or the proxy stays blocked.
RejuvenatedStillFull(p) == [proxy[p] EXCEPT !.blocked = FALSE]
RejuvenatedStillBlocked(p) == [proxy[p] EXCEPT !.room = MaxCapacity]

Rejuvenated(p) == IF Usable(p) THEN proxy[p]
                  ELSE [proxy[p] EXCEPT !.blocked = FALSE, !.room = MaxCapacity]

\* Mutant of Forgotten: the old users of a blocked proxy stay assigned to it.
ForgottenNone == {}

\* Assignment.objects.filter(proxy=proxy).delete() of rejuvinate
Forgotten == {r \in rows : ~Usable(r.proxy)}

Rejuvenate ==
  /\ pc = "rejuvenate" /\ pc' = "request"
  /\ IF Rejuvenating
     THEN /\ proxy' = [p \in DOMAIN proxy |-> Rejuvenated(p)]
          /\ rows' = rows \ Forgotten
     ELSE UNCHANGED <<proxy, rows>>
  /\ UNCHANGED <<conf, step, client, affected, chart, charted, results, matching>>
-------------------------------------------------------------------------------
Distance(p, c) == IF proxy[p].place > client[c].place THEN proxy[p].place - client[c].place
                                                      ELSE client[c].place - proxy[p].place

\* general_client_utilities, less what the distance costs
BlockedUsage(c) == MapThenSumSet(LAMBDA r : proxy[r.proxy].blockedAt - r.time,
                                 {r \in rows : r.client = c /\ ~Usable(r.proxy)})
ClientUtility(p, c) ==
  2 * (IF client[c].agent THEN 4 ELSE 10) * (step - client[c].born)
    - 10 * client[c].requests - 10 * BlockedUsage(c) - 20 * client[c].known
    - 100 * Distance(p, c)

ProxyUtility(p, c) ==
  10 * (Cardinality({r.client : r \in RowsOf(p)}) + MaxCapacity - proxy[p].room) - 10 * Distance(p, c)

\* reversed(sorted(S, key=u)): the best first, and the last of those as good.
Before(S, u, x) == Cardinality({y \in S : u[y] > u[x] \/ (u[y] = u[x] /\ y > x)})
Sorted(S, u) == [i \in 1 .. Cardinality(S) |-> CHOOSE x \in S : Before(S, u, x) = i - 1]

Active == {p \in DOMAIN proxy : Usable(p) /\ proxy[p].room > 0}

Flagging  == {c \in Affected : ~client[c].flagged /\ \E p \in Active : ClientUtility(p, c) < FlagBelow}
Proposing == {c \in Affected : ~client[c].flagged} \ Flagging

\* request_new_proxy up to the call of get_matched_clients
Request ==
  /\ pc = "request" /\ pc' = "match"
  /\ client' = [c \in DOMAIN client |-> [client[c] EXCEPT !.flagged = @ \/ c \in Flagging]]
  /\ prefs' = [c \in Clients |-> IF c \in Proposing
                                 THEN Sorted(Active, [p \in Active |-> ProxyUtility(p, c)]) ELSE <<>>]
  /\ ranks' = [p \in Proxies |-> [c \in Clients |->
                 IF p \in Active /\ c \in Proposing
                 THEN Before(Proposing, [d \in Proposing |-> ClientUtility(p, d)], c) + 1 ELSE 0]]
  /\ waiting' = Proposing
  /\ UNCHANGED <<conf, step, proxy, rows, affected, chart, charted, results, asked, pass, accepted>>

\* get_matched_clients
Match ==
  /\ pc = "match"
  /\ UNCHANGED <<conf, step, pc, database, affected, chart, charted, results>>
  /\ Matching!Next

Assign ==
  /\ pc = "match" /\ Matching!Finished /\ pc' = "grow"
  /\ LET matched == {m \in Proxies \X Clients : m[2] \in accepted[m[1]]}
     IN  /\ rows' = rows \cup {[proxy |-> m[1], client |-> m[2], time |-> step] : m \in matched}
         /\ client' = [c \in DOMAIN client |-> [client[c] EXCEPT !.requests =
                         @ + Cardinality({p \in Proxies : c \in accepted[p]})]]
  /\ proxy' = [p \in DOMAIN proxy |-> [proxy[p] EXCEPT !.room = @ - Cardinality(accepted[p])]]
  /\ prefs' = NoPrefs /\ ranks' = NoRanks
  /\ asked' = [c \in Clients |-> 0] /\ accepted' = [p \in Proxies |-> {}]
  /\ UNCHANGED <<conf, step, affected, chart, charted, results, waiting, pass>>
-------------------------------------------------------------------------------
CreateProxy ==
  /\ pc = "grow" /\ pc' = "users"
  /\ IF step % ProxyEvery = 0
     THEN \E place \in ProxyPlaces :
            proxy' = [p \in DOMAIN proxy \cup {Cardinality(DOMAIN proxy) + 1} |->
                        IF p \in DOMAIN proxy THEN proxy[p] ELSE NewProxy(place)]
     ELSE UNCHANGED proxy
  /\ UNCHANGED <<conf, step, client, rows, affected, chart, charted, results, matching>>

\* range(duration): the next step, or the results file.
NextStep ==
  /\ affected' = {}
  /\ IF step + 1 < Duration THEN step' = step + 1 /\ pc' = "censor"
                            ELSE step' = step /\ pc' = "write"
  /\ UNCHANGED <<conf, chart, charted, results, matching>>

\* create_new_client and request_new_proxy_new_client: the first proxy with room
CreateClient ==
  /\ pc = "users" /\ step % UserEvery = 0 /\ Active # {}
  /\ \E agent \in BOOLEAN, place \in ClientPlaces :
       LET c == Cardinality(DOMAIN client)
           p == Min(Active)
       IN  /\ client' = [d \in DOMAIN client \cup {c} |->
                 IF d # c THEN client[d]
                 ELSE [agent |-> agent, flagged |-> FALSE, requests |-> 1, known |-> 0,
                       born |-> step, place |-> place]]
           /\ rows' = rows \cup {[proxy |-> p, client |-> c, time |-> step]}
           /\ proxy' = [proxy EXCEPT ![p].room = @ - 1]
  /\ NextStep

\* first() is None: its capacity raises AttributeError and the script ends.
NoProxyForClient ==
  /\ pc = "users" /\ step % UserEvery = 0 /\ Active = {}
  /\ pc' = "crashed"
  /\ UNCHANGED <<conf, step, database, affected, chart, charted, results, matching>>

NoNewClient ==
  /\ pc = "users" /\ step % UserEvery # 0
  /\ UNCHANGED database
  /\ NextStep

WriteResults ==
  /\ pc = "write" /\ pc' = "flush"
  /\ results' = Append(results, charted)
  /\ UNCHANGED <<conf, step, database, affected, chart, charted, matching>>

\* Mutant of Flushed: the charts are not emptied.
FlushedButCharts == /\ client' = <<>> /\ rows' = {}
                    /\ UNCHANGED <<chart, charted>>

Flushed == /\ client' = <<>> /\ rows' = {}
           /\ chart' = [usable |-> 0, connected |-> 0] /\ charted' = 0

\* os.system(... flush): then the first proxy of the next configuration
Flush ==
  /\ pc = "flush"
  /\ Flushed
  /\ step' = 0
  /\ IF conf < Len(Configurations) THEN conf' = conf + 1 /\ pc' = "censor"
                                   ELSE conf' = conf /\ pc' = "done"
  /\ \E place \in ProxyPlaces : proxy' = [p \in {1} |-> NewProxy(place)]
  /\ UNCHANGED <<affected, results, matching>>

\* Its exit status is not looked at: the next configuration finds the rows of
\* this one and raises IntegrityError when it creates the first client again.
FlushFails ==
  /\ pc = "flush"
  /\ pc' = IF conf < Len(Configurations) THEN "crashed" ELSE "done"
  /\ UNCHANGED <<conf, step, database, affected, chart, charted, results, matching>>

Next == \/ Censor \/ Record \/ Rejuvenate \/ Request \/ Match \/ Assign
        \/ CreateProxy \/ CreateClient \/ NoProxyForClient \/ NoNewClient
        \/ WriteResults \/ Flush \/ FlushFails

Spec == Init /\ [][Next]_vars
FairSpec == Spec /\ WF_vars(Next)
-------------------------------------------------------------------------------
(***************************************************************************)
(* Properties                                                              *)
(***************************************************************************)

\* Every variable has its type; flags, counts and rows are about rows that exist.
TypeOK ==
  /\ conf \in DOMAIN Configurations /\ step \in 0 .. Duration - 1
  /\ pc \in {"censor", "record", "rejuvenate", "request", "match", "grow", "users",
             "write", "flush", "done", "crashed"}
  /\ DOMAIN proxy \subseteq Proxies /\ DOMAIN client \subseteq Clients
  /\ \A p \in DOMAIN proxy : proxy[p].blockedAt \in 0 .. step /\ proxy[p].room \in 0 .. MaxCapacity
  /\ \A c \in DOMAIN client : {client[c].requests, client[c].known, client[c].born} \subseteq 0 .. Duration
  /\ rows \subseteq [proxy : DOMAIN proxy, client : DOMAIN client, time : 0 .. step]
  /\ affected \subseteq (DOMAIN proxy) \X (DOMAIN client)
  /\ \A p \in Proxies : waiting \cup accepted[p] \subseteq Affected

LiveRows(c) == {r \in rows : r.client = c /\ Usable(r.proxy)}

\* Through blocking, rejuvenation and matching no user ever holds two proxies
\* that work: so the list of those affected needs no distinct (the TODO of
\* line 90), and nobody proposes twice in one matching.
OneLiveProxy == \A c \in DOMAIN client : Cardinality(LiveRows(c)) <= 1

\* The capacity that is counted down, reset and counted down again always is
\* what the assignments leave of MAX_PROXY_CAPACITY.
CapacityExact == \A p \in DOMAIN proxy : proxy[p].room = MaxCapacity - Cardinality(RowsOf(p))

\* A user that is flagged has lost its proxy and never gets another one; agents
\* flagged this way can block nothing any more.
FlaggedHasNothing == \A c \in DOMAIN client : client[c].flagged => LiveRows(c) = {}

\* The charts are written before the rejuvenation and agree with the database
\* after it, although they subtract numbers counted apart from each other.
ChartAgrees ==
  pc = "request" =>
    /\ chart.usable = Cardinality({p \in DOMAIN proxy : Usable(p)})
    /\ chart.connected = Cardinality({c \in DOMAIN client \ FlaggedUsers :
                                        c \in Affected => Rejuvenating})

\* A user that asked and got nothing leaves no place free anywhere.
UnmatchedOnlyWhenFull ==
  pc = "grow" => \A c \in Affected : client[c].flagged \/ LiveRows(c) # {} \/ Active = {}

\* When proxies are rejuvenated at every step, every user that is not flagged leaves
\* every step with a proxy that works: those who lose one never are more than the
\* places they leave behind.
NobodyForgotten ==
  (pc = "censor" /\ Interval = 1) =>
    \A c \in DOMAIN client : client[c].flagged \/ LiveRows(c) # {}

\* A new user finds a place as long as the rows of the flagged and the others
\* together leave one: only then does the script go on.
CrashOnlyWhenFull ==
  pc = "users" /\ step % UserEvery = 0 /\ Active = {} =>
    Cardinality(rows) = MaxCapacity * Cardinality(DOMAIN proxy)

\* Every results file has one row for each step of its own configuration.
ResultsApart == \A i \in DOMAIN results : results[i] = Duration

\* The places, counted three ways: in capacities, in rows, and in the users that
\* hold one.
PlacesCounted == TypeOK /\ OneLiveProxy /\ CapacityExact /\ FlaggedHasNothing

\* Who asks for a proxy gets one or there is none, a new user included.
NobodyLeftOut == UnmatchedOnlyWhenFull /\ NobodyForgotten /\ CrashOnlyWhenFull
===============================================================================
