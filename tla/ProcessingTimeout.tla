-------------------------- MODULE ProcessingTimeout --------------------------
(***************************************************************************)
(* The pass counter of case processing (main.c): an inner counter i, an    *)
(* unsigned int that wraps around, and an outer counter j that counts how  *)
(* often i passes a value.  Terminal.tla abstracts both to "ticks".        *)
(***************************************************************************)
EXTENDS Integers

CONSTANTS
  IntSize,    \* number of values of an unsigned int: 2^16 on the ATmega32
  InnerLimit, \* the value of i that is counted: 50000 in the code
  OuterLimit  \* the count that is the timeout: 10 in the code

ASSUME SizesAssumption ==
  /\ IntSize \in Nat /\ InnerLimit \in 1..(IntSize - 1)
  /\ OuterLimit \in 1..255

VARIABLES
  i, j,       \* the counters, of 16 and 8 bits
  timedOut,   \* is the response set to 99?
  passes      \* history: passes of the main loop through the case

vars == <<i, j, timedOut, passes>>

CharSize == 256

(* i = j = 0 on the first step *)
Init == i = 0 /\ j = 0 /\ timedOut = FALSE /\ passes = 0

(* Slip: the outer counter is compared before it is incremented. *)
PassLate ==
  /\ ~timedOut /\ passes' = passes + 1
  /\ i' = (i + 1) % IntSize
  /\ j' = IF i' = InnerLimit THEN (j + 1) % CharSize ELSE j
  /\ timedOut' = (i' = InnerLimit /\ j = OuterLimit)

Pass ==
  /\ ~timedOut /\ passes' = passes + 1
  /\ i' = (i + 1) % IntSize
  /\ j' = IF i' = InnerLimit THEN (j + 1) % CharSize ELSE j
  /\ timedOut' = (i' = InnerLimit /\ j' = OuterLimit)

Next == Pass

Spec == Init /\ [][Next]_vars

-----------------------------------------------------------------------------
(* Between two counts the inner counter runs through all its values. *)
PassesToTimeout == InnerLimit + (OuterLimit - 1) * IntSize

(* An unanswered customer is told so after exactly that many passes: neither is
   the outer counter, which is compared with "==", ever past its limit, nor does
   its own width let it wrap around before.  The comment at main.c:462 says 500.000, ten
   times the 50000 of the inner counter, which is not reset when it is counted. *)
TimesOutExactly ==
  /\ timedOut => passes = PassesToTimeout
  /\ ~timedOut => passes < PassesToTimeout
=============================================================================
