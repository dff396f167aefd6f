---------------------------- MODULE NonceValidator ----------------------------
(***************************************************************************)
(* The sliding window that the server keeps per client public key to       *)
(* recognise requests it has already processed (server/src/main.rs, struct *)
(* NonceValidator).  A validator is a record: last is the highest nonce    *)
(* accepted so far, window the set of indices of the bits that are set in  *)
(* the bitmask.  Bit i stands for the nonce last - 1 - i.                  *)
(***************************************************************************)
EXTENDS Integers

CONSTANT W                 \* width of the bitmask: 64 in the code

ASSUME WAssumption == W \in Nat \ {0}

Validator == [last : Nat, window : SUBSET (0 .. W-1)]

NewValidator == [last |-> 0, window |-> {}]

\* n << shift on a W-bit word: the bits that pass the top are lost.
ShiftLeft(bits, shift) == {i \in shift .. W-1 : i - shift \in bits}

(***************************************************************************)
(* check(nonce): what it answers, and the validator it leaves behind.      *)
(***************************************************************************)
\* Mutant: diff >= W is already too old.
AcceptsShortWindow(v, n) ==
  /\ n # 0
  /\ \/ n > v.last
     \/ /\ v.last - n \in 1 .. W-1
        /\ v.last - n - 1 \notin v.window

Accepts(v, n) ==
  /\ n # 0
  /\ \/ n > v.last
     \/ /\ v.last - n \in 1 .. W
        /\ v.last - n - 1 \notin v.window

\* Mutant: the old last is not marked.
AdvancedUnmarked(v, n) ==
  LET shift == n - v.last
  IN  [last   |-> n,
       window |-> IF shift >= W THEN {} ELSE ShiftLeft(v.window, shift)]

\* Mutant: the mask is cleared one step too early.
AdvancedEarlyClear(v, n) ==
  LET shift == n - v.last
  IN  [last   |-> n,
       window |-> IF shift >= W - 1 THEN {}
                  ELSE ShiftLeft(v.window, shift) \union {shift - 1}]

\* A jump of W or more clears the mask; a shorter one shifts it and marks
\* the old last.
Advanced(v, n) ==
  LET shift == n - v.last
  IN  [last   |-> n,
       window |-> IF shift >= W THEN {}
                  ELSE ShiftLeft(v.window, shift) \union {shift - 1}]

\* Mutant: the nonce is accepted but its bit is not set.
MarkedNothing(v, n) == v

Marked(v, n) == [v EXCEPT !.window = @ \union {v.last - n - 1}]

Checked(v, n) ==
  IF ~Accepts(v, n) THEN v
  ELSE IF n > v.last THEN Advanced(v, n) ELSE Marked(v, n)
===============================================================================
