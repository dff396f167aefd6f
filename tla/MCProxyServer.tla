---------------------------- MODULE MCProxyServer ----------------------------
(* ProxyServer on small instances.  As the client's sender does, a            *)
(* StartConnection travels alone and the other messages in batches.           *)
EXTENDS ProxyServer, TLC

CONSTANTS c1, c2, r1, r2, r3      \* model values, members of Clients and Requests

Start   == <<[type |-> "StartConnection"]>>
PollAll == <<[type |-> "Poll"]>>
Data(i) == <<[type |-> "Data", id |-> i]>>
Bye(i)  == <<[type |-> "Close", id |-> i]>>

Carry(requests, senders, nonces, batches) ==
  [to : requests, client : senders, nonce : nonces, messages : batches]

\* Anybody opens a connection or writes to the first one, with one of two
\* nonces: races for the lock, the limit, the creation of a client's state.
TaskTraffic == Carry(Requests, Clients, {1, 2}, {Start, Data(1)})

\* One connection is opened, then used and closed by requests that may be
\* served in either order.
StreamTraffic ==
  Carry({r1}, Clients, {1}, {Start})
    \union Carry({r2, r3}, Clients, {2, 3},
                 {PollAll, Data(1), Bye(1), Data(1) \o Bye(1), Data(1) \o PollAll})

\* Two requests of a client that may carry the same nonce.
PairTraffic == Carry(Requests, Clients, {1, 2}, {Start, Data(1), PollAll})

\* Sound in the runs that check no temporal property and treat all requests
\* alike.
Symmetry == Permutations(Clients) \union Permutations(Requests)
==============================================================================
