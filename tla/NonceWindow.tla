------------------------------ MODULE NonceWindow ------------------------------
(***************************************************************************)
(* One client's validator, fed with nonces in any order and any number of  *)
(* times: requests travel through Lambda invocations, so they may be       *)
(* delayed past one another, and a request that timed out may be repeated. *)
(***************************************************************************)
EXTENDS NonceValidator

CONSTANT Nonces            \* the values the u64 nonce field may take

ASSUME NoncesAssumption == Nonces \subseteq Nat

VARIABLES
  validator,   \* NonceValidator of the client
  times        \* history: how often each nonce has been accepted

vars == <<validator, times>>

TypeOK ==
  /\ validator \in Validator
  /\ times \in [Nonces -> Nat]

Init ==
  /\ validator = NewValidator
  /\ times = [n \in Nonces |-> 0]

Accept(n) ==
  /\ Accepts(validator, n)
  /\ validator' = Checked(validator, n)
  /\ times' = [times EXCEPT ![n] = @ + 1]

Reject(n) ==
  /\ ~Accepts(validator, n)
  /\ validator' = Checked(validator, n)
  /\ UNCHANGED times

Next == \E n \in Nonces : Accept(n) \/ Reject(n)

Spec == Init /\ [][Next]_vars

--------------------------------------------------------------------------------
Behind(n) == validator.last - n

\* A nonce that was never accepted and lies at most W behind the highest one
\* is accepted when it comes: the mask never holds a bit of a request that
\* was not processed (nonce 0 excepted, which is never legal).
NoFalseReject ==
  \A n \in Nonces \ {0} :
    times[n] = 0 /\ Behind(n) <= W => Accepts(validator, n)

\* A nonce accepted before and less than W behind the highest one is
\* rejected when it comes again.
RepeatRejectedInsideWindow ==
  \A n \in Nonces :
    times[n] > 0 /\ Behind(n) < W => ~Accepts(validator, n)

\* However requests are reordered and repeated, no nonce is accepted more
\* than twice.
AtMostTwice == \A n \in Nonces : times[n] <= 2

\* The one step that can accept a nonce again is at distance exactly W from
\* the highest nonce, where the shift of W cleared the mask instead of
\* marking the old highest nonce in its top bit.
RepeatOnlyAtWindowEdge ==
  [][\A n \in Nonces : times[n] > 0 /\ times'[n] > times[n]
                         => Behind(n) = W /\ validator'.last = validator.last]_vars

--------------------------------------------------------------------------------
(***************************************************************************)
(* The inductive invariant: each set bit stands for an accepted nonce (or  *)
(* for nonce 0), and each accepted nonce is the last one, has its bit set, *)
(* is the one at the edge of the window, or is out of reach.               *)
(***************************************************************************)
BitsWereAccepted ==
  \A i \in validator.window :
    LET n == validator.last - 1 - i
    IN  n = 0 \/ (n \in Nonces /\ times[n] > 0)

LastWasAccepted ==
  validator.last = 0 \/ (validator.last \in Nonces /\ times[validator.last] > 0)

AcceptedIsRemembered ==
  \A n \in Nonces : times[n] > 0 =>
    /\ n # 0
    /\ n <= validator.last
    /\ Behind(n) \in 1 .. W-1 => Behind(n) - 1 \in validator.window

TwiceOnlyAtEdge ==
  \A n \in Nonces :
    /\ times[n] <= 2
    /\ times[n] = 2 => /\ Behind(n) >= W
                       /\ Behind(n) = W => W - 1 \in validator.window

IInv ==
  /\ TypeOK
  /\ BitsWereAccepted
  /\ LastWasAccepted
  /\ AcceptedIsRemembered
  /\ TwiceOnlyAtEdge
================================================================================
