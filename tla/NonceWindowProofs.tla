--------------------------- MODULE NonceWindowProofs ---------------------------
(***************************************************************************)
(* What the server's nonce window guarantees for every width W of the mask *)
(* and every set of nonces.                                                *)
(***************************************************************************)
EXTENDS NonceWindow, TLAPS

\* Checking a nonce leaves a well-formed validator (NonceValidator::check).
LEMMA CheckedType ==
  ASSUME NEW v \in Validator, NEW n \in Nat
  PROVE  Checked(v, n) \in Validator
<1>1. CASE ~Accepts(v, n)
  BY <1>1 DEF Checked
<1>2. CASE Accepts(v, n) /\ n > v.last
  <2>1. n - v.last \in Nat \ {0}
    BY <1>2 DEF Validator
  <2>2. Advanced(v, n).window \subseteq 0 .. W-1
    BY <2>1, WAssumption DEF Advanced, ShiftLeft, Validator
  <2>3. QED
    BY <1>2, <2>2 DEF Checked, Advanced, Validator
<1>3. CASE Accepts(v, n) /\ ~(n > v.last)
  <2>1. v.last - n - 1 \in 0 .. W-1
    BY <1>3, WAssumption DEF Accepts, Validator
  <2>2. QED
    BY <1>3, <2>1 DEF Checked, Marked, Validator
<1>4. QED
  BY <1>1, <1>2, <1>3

\* The initial validator has seen nothing (NonceValidator::new).
LEMMA InitIInv == Init => IInv
<1> SUFFICES ASSUME Init PROVE IInv
  OBVIOUS
<1>1. TypeOK
  BY DEF Init, NewValidator, TypeOK, Validator
<1>2. BitsWereAccepted /\ LastWasAccepted /\ AcceptedIsRemembered /\ TwiceOnlyAtEdge
  BY NoncesAssumption, WAssumption
     DEF Init, NewValidator, BitsWereAccepted, LastWasAccepted,
         AcceptedIsRemembered, TwiceOnlyAtEdge, Behind
<1>3. QED
  BY <1>1, <1>2 DEF IInv

\* A nonce above the highest one moves the window (the shift branch of check).
LEMMA AdvanceKeepsIInv ==
  ASSUME IInv, NEW n \in Nonces, Accept(n), n > validator.last
  PROVE  IInv'
<1> DEFINE shift == n - validator.last
<1> USE NoncesAssumption, WAssumption
<1>1. /\ validator \in Validator
      /\ validator.last \in Nat
      /\ validator.window \subseteq 0 .. W-1
      /\ times \in [Nonces -> Nat]
      /\ n \in Nat \ {0}
      /\ shift \in Nat \ {0}
  BY DEF IInv, TypeOK, Validator
<1>2. /\ validator' = Advanced(validator, n)
      /\ times' = [times EXCEPT ![n] = @ + 1]
  BY DEF Accept, Checked
<1>3. /\ validator'.last = n
      /\ validator'.window = IF shift >= W THEN {}
                             ELSE ShiftLeft(validator.window, shift) \union {shift - 1}
  BY <1>2 DEF Advanced
<1>4. \A m \in Nonces : times'[m] = IF m = n THEN times[m] + 1 ELSE times[m]
  BY <1>1, <1>2
<1>5. times[n] = 0
  BY <1>1 DEF IInv, AcceptedIsRemembered
<1>6. TypeOK'
  <2>1. validator' \in Validator
    BY <1>1, CheckedType DEF Accept
  <2>2. times' \in [Nonces -> Nat]
    BY <1>1, <1>2
  <2>3. QED
    BY <2>1, <2>2 DEF TypeOK
<1>7. BitsWereAccepted'
  <2> SUFFICES ASSUME NEW i \in validator'.window
               PROVE  LET m == validator'.last - 1 - i
                      IN  m = 0 \/ (m \in Nonces /\ times'[m] > 0)
    BY DEF BitsWereAccepted
  <2>1. shift < W
    BY <1>1, <1>3
  <2>2. CASE i = shift - 1
    <3>1. validator'.last - 1 - i = validator.last
      BY <1>1, <1>3, <2>2
    <3>2. QED
      BY <1>1, <1>4, <3>1 DEF IInv, LastWasAccepted
  <2>3. CASE i \in ShiftLeft(validator.window, shift)
    <3>1. i - shift \in validator.window /\ i \in Int
      BY <1>1, <2>3 DEF ShiftLeft
    <3>2. validator'.last - 1 - i = validator.last - 1 - (i - shift)
      BY <1>1, <1>3, <3>1
    <3>3. QED
      BY <1>1, <1>4, <3>1, <3>2 DEF IInv, BitsWereAccepted
  <2>4. QED
    BY <1>3, <2>1, <2>2, <2>3
<1>8. LastWasAccepted'
  BY <1>1, <1>3, <1>4 DEF LastWasAccepted
<1>9. AcceptedIsRemembered'
  <2> SUFFICES ASSUME NEW m \in Nonces, times'[m] > 0
               PROVE  /\ m # 0
                      /\ m <= n
                      /\ n - m \in 1 .. W-1 => n - m - 1 \in validator'.window
    BY <1>3 DEF AcceptedIsRemembered, Behind
  <2>1. CASE m = n
    BY <1>1, <2>1
  <2>2. CASE m # n
    <3>1. /\ times[m] > 0
          /\ m \in Nat \ {0}
          /\ m <= validator.last
          /\ validator.last - m \in 1 .. W-1 => validator.last - m - 1 \in validator.window
      BY <1>4, <2>2 DEF IInv, AcceptedIsRemembered, Behind
    <3>2. CASE m = validator.last
      BY <1>1, <1>3, <3>1, <3>2
    <3>3. CASE m # validator.last
      <4> SUFFICES ASSUME n - m \in 1 .. W-1
                   PROVE  n - m - 1 \in ShiftLeft(validator.window, shift)
        BY <1>1, <1>3, <3>1
      <4>1. validator.last - m \in 1 .. W-1
        BY <1>1, <3>1, <3>3
      <4>2. n - m - 1 - shift = validator.last - m - 1
        BY <1>1, <3>1
      <4>3. QED
        BY <1>1, <3>1, <4>1, <4>2 DEF ShiftLeft
    <3>4. QED
      BY <3>2, <3>3
  <2>3. QED
    BY <2>1, <2>2
<1>10. TwiceOnlyAtEdge'
  <2> SUFFICES ASSUME NEW m \in Nonces
               PROVE  /\ times'[m] <= 2
                      /\ times'[m] = 2 => /\ n - m >= W
                                          /\ n - m = W => W - 1 \in validator'.window
    BY <1>3 DEF TwiceOnlyAtEdge, Behind
  <2>1. CASE m = n
    BY <1>1, <1>4, <1>5, <2>1
  <2>2. CASE m # n
    BY <1>1, <1>4, <2>2 DEF IInv, TwiceOnlyAtEdge, Behind
  <2>3. QED
    BY <2>1, <2>2
<1>11. QED
  BY <1>6, <1>7, <1>8, <1>9, <1>10 DEF IInv

\* A nonce inside the window sets its bit (the last branch of check).
LEMMA MarkKeepsIInv ==
  ASSUME IInv, NEW n \in Nonces, Accept(n), ~(n > validator.last)
  PROVE  IInv'
<1> DEFINE last == validator.last
<1> USE NoncesAssumption, WAssumption
<1>1. /\ validator \in Validator
      /\ last \in Nat
      /\ validator.window \subseteq 0 .. W-1
      /\ times \in [Nonces -> Nat]
      /\ n \in Nat \ {0}
      /\ last - n \in 1 .. W
      /\ last - n - 1 \notin validator.window
  BY DEF IInv, TypeOK, Validator, Accept, Accepts
<1>2. /\ validator' = Marked(validator, n)
      /\ times' = [times EXCEPT ![n] = @ + 1]
  BY DEF Accept, Checked
<1>3. /\ validator'.last = last
      /\ validator'.window = validator.window \union {last - n - 1}
  BY <1>1, <1>2 DEF Marked, Validator
<1>4. \A m \in Nonces : times'[m] = IF m = n THEN times[m] + 1 ELSE times[m]
  BY <1>1, <1>2
<1>5. times[n] > 0 => last - n = W
  BY <1>1 DEF IInv, AcceptedIsRemembered, Behind
<1>6. TypeOK'
  <2>1. validator' \in Validator
    BY <1>1, CheckedType DEF Accept
  <2>2. times' \in [Nonces -> Nat]
    BY <1>1, <1>2
  <2>3. QED
    BY <2>1, <2>2 DEF TypeOK
<1>7. BitsWereAccepted'
  <2> SUFFICES ASSUME NEW i \in validator'.window
               PROVE  LET m == last - 1 - i
                      IN  m = 0 \/ (m \in Nonces /\ times'[m] > 0)
    BY <1>3 DEF BitsWereAccepted
  <2>1. CASE i = last - n - 1
    BY <1>1, <1>4, <2>1
  <2>2. CASE i \in validator.window
    BY <1>1, <1>4, <2>2 DEF IInv, BitsWereAccepted
  <2>3. QED
    BY <1>3, <2>1, <2>2
<1>8. LastWasAccepted'
  BY <1>1, <1>3, <1>4 DEF IInv, LastWasAccepted
<1>9. AcceptedIsRemembered'
  BY <1>1, <1>3, <1>4 DEF IInv, AcceptedIsRemembered, Behind
<1>10. TwiceOnlyAtEdge'
  <2> SUFFICES ASSUME NEW m \in Nonces
               PROVE  /\ times'[m] <= 2
                      /\ times'[m] = 2 => /\ last - m >= W
                                          /\ last - m = W => W - 1 \in validator'.window
    BY <1>3 DEF TwiceOnlyAtEdge, Behind
  <2>1. CASE m = n
    <3>1. times[n] <= 2 /\ times[n] # 2
      BY <1>1, <1>5 DEF IInv, TwiceOnlyAtEdge, Behind
    <3>2. QED
      BY <1>1, <1>3, <1>4, <1>5, <2>1, <3>1
  <2>2. CASE m # n
    BY <1>1, <1>3, <1>4, <2>2 DEF IInv, TwiceOnlyAtEdge, Behind
  <2>3. QED
    BY <2>1, <2>2
<1>11. QED
  BY <1>6, <1>7, <1>8, <1>9, <1>10 DEF IInv

\* A rejected nonce changes nothing: check returns false before any assignment.
LEMMA RejectKeepsIInv ==
  ASSUME IInv, NEW n \in Nonces, Reject(n)
  PROVE  IInv'
<1>1. UNCHANGED vars
  BY DEF Reject, Checked, vars
<1>2. QED
  BY <1>1 DEF vars, IInv, TypeOK, BitsWereAccepted, LastWasAccepted,
              AcceptedIsRemembered, TwiceOnlyAtEdge, Behind

LEMMA StepKeepsIInv == IInv /\ [Next]_vars => IInv'
<1> SUFFICES ASSUME IInv, [Next]_vars PROVE IInv'
  OBVIOUS
<1>1. ASSUME NEW n \in Nonces, Accept(n) PROVE IInv'
  BY <1>1, AdvanceKeepsIInv, MarkKeepsIInv
<1>2. ASSUME NEW n \in Nonces, Reject(n) PROVE IInv'
  BY <1>2, RejectKeepsIInv
<1>3. CASE UNCHANGED vars
  BY <1>3 DEF vars, IInv, TypeOK, BitsWereAccepted, LastWasAccepted,
              AcceptedIsRemembered, TwiceOnlyAtEdge, Behind
<1>4. QED
  BY <1>1, <1>2, <1>3 DEF Next

\* The inductive invariant holds of every behaviour of the validator.
THEOREM NonceInvariant == Spec => []IInv
<1>1. QED
  BY InitIInv, StepKeepsIInv, PTL DEF Spec

\* The validator keeps its type: the mask never has a bit outside its width.
THEOREM NonceTypeCorrect == Spec => []TypeOK
<1>1. IInv => TypeOK
  BY DEF IInv
<1>2. QED
  BY <1>1, NonceInvariant, PTL

\* check() never turns away a request it has not processed while the request
\* is within W of the newest one.
THEOREM NonceNoFalseReject == Spec => []NoFalseReject
<1>1. IInv => NoFalseReject
  <2> SUFFICES ASSUME IInv, NEW n \in Nonces \ {0}, times[n] = 0, Behind(n) <= W
               PROVE  Accepts(validator, n)
    BY DEF NoFalseReject
  <2>1. validator.last \in Nat /\ n \in Nat \ {0} /\ times[n] = 0
    BY NoncesAssumption DEF IInv, TypeOK, Validator
  <2>2. CASE n > validator.last
    BY <2>1, <2>2 DEF Accepts
  <2>3. CASE n <= validator.last
    <3>1. validator.last # n
      BY <2>1, <2>3 DEF IInv, LastWasAccepted
    <3>2. validator.last - n \in 1 .. W
      BY <2>1, <2>3, <3>1, WAssumption DEF Behind
    <3>3. validator.last - n - 1 \notin validator.window
      <4>1. SUFFICES ASSUME validator.last - n - 1 \in validator.window
                     PROVE  FALSE
        OBVIOUS
      <4>2. validator.last - 1 - (validator.last - n - 1) = n
        BY <2>1
      <4>3. QED
        BY <2>1, <4>1, <4>2 DEF IInv, BitsWereAccepted
    <3>4. QED
      BY <2>1, <3>2, <3>3 DEF Accepts
  <2>4. QED
    BY <2>1, <2>2, <2>3
<1>2. QED
  BY <1>1, NonceInvariant, PTL

\* check() turns away every repeat that is less than W behind the newest nonce.
THEOREM NonceRepeatRejected == Spec => []RepeatRejectedInsideWindow
<1>1. IInv => RepeatRejectedInsideWindow
  BY NoncesAssumption, WAssumption
     DEF IInv, TypeOK, Validator, AcceptedIsRemembered, RepeatRejectedInsideWindow,
         Behind, Accepts
<1>2. QED
  BY <1>1, NonceInvariant, PTL

\* However requests are reordered and repeated, check() accepts a nonce at
\* most twice, for every width of the mask.
THEOREM NonceAtMostTwice == Spec => []AtMostTwice
<1>1. IInv => AtMostTwice
  BY DEF IInv, TwiceOnlyAtEdge, AtMostTwice
<1>2. QED
  BY <1>1, NonceInvariant, PTL

\* A second acceptance happens only at distance exactly W, in a step that does
\* not move the window.
THEOREM NonceRepeatOnlyAtEdge == Spec => RepeatOnlyAtWindowEdge
<1> DEFINE Edge == \A n \in Nonces : times[n] > 0 /\ times'[n] > times[n]
                     => Behind(n) = W /\ validator'.last = validator.last
<1>1. IInv /\ [Next]_vars => [Edge]_vars
  <2> SUFFICES ASSUME IInv, Next,
                      NEW n \in Nonces, times[n] > 0, times'[n] > times[n]
               PROVE  Behind(n) = W /\ validator'.last = validator.last
    BY DEF Edge
  <2>1. times \in [Nonces -> Nat] /\ validator \in Validator /\ validator.last \in Nat /\ n \in Nat
    BY NoncesAssumption DEF IInv, TypeOK, Validator
  <2>2. PICK m \in Nonces : Accept(m)
    BY <2>1 DEF Next, Reject
  <2>3. m = n
    BY <2>1, <2>2 DEF Accept
  <2>4. n <= validator.last /\ (Behind(n) \in 1 .. W-1 => Behind(n) - 1 \in validator.window)
    BY DEF IInv, AcceptedIsRemembered
  <2>5. Behind(n) = W
    BY <2>1, <2>2, <2>3, <2>4, WAssumption DEF Accept, Accepts, Behind
  <2>6. validator' = Marked(validator, n)
    BY <2>1, <2>2, <2>3, <2>4 DEF Accept, Checked
  <2>7. QED
    BY <2>1, <2>5, <2>6 DEF Marked, Validator
<1>2. QED
  BY <1>1, NonceInvariant, PTL DEF Spec, RepeatOnlyAtWindowEdge
================================================================================
