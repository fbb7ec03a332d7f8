---------------------- MODULE ProcessingTimeout_proofs ----------------------
(***************************************************************************)
(* Proof that the timeout of case processing takes the same number of      *)
(* passes whatever the width of an unsigned int and the two limits are.    *)
(***************************************************************************)
EXTENDS ProcessingTimeout, TLAPS

(* How often the inner counter has wrapped around: once for each time it was
   counted, but for the last one, which it has not followed by wrapping yet. *)
Wraps == IF i < InnerLimit THEN j ELSE j - 1

(* The counters tell the number of passes; the outer one, compared with "==",
   is below its limit as long as the timeout has not been given. *)
CountersTell ==
  /\ i \in 0..(IntSize - 1) /\ j \in 0..OuterLimit /\ passes \in Nat
  /\ passes = Wraps * IntSize + i
  /\ i >= InnerLimit => j >= 1
  /\ timedOut => i = InnerLimit /\ j = OuterLimit
  /\ ~timedOut => j < OuterLimit

LEMMA Remainder ==
  ASSUME NEW n \in Nat, NEW m \in Nat \ {0}, n < m PROVE n % m = n
  OBVIOUS

LEMMA RemainderOfSelf ==
  ASSUME NEW m \in Nat \ {0} PROVE m % m = 0
  OBVIOUS

LEMMA ProductsOrdered ==
  ASSUME NEW a \in Int, NEW b \in Int, NEW s \in Nat, a <= b PROVE a * s <= b * s
  OBVIOUS

(* The timeout takes exactly InnerLimit + (OuterLimit - 1) * IntSize passes
   (TimesOutExactly), not the product of the two limits. *)
THEOREM TimesOutExactlyHolds == Spec => []TimesOutExactly
<1> USE SizesAssumption
<1> IntSize \in Nat /\ InnerLimit \in Nat /\ OuterLimit \in Nat
    /\ 1 <= InnerLimit /\ InnerLimit < IntSize /\ 1 <= OuterLimit /\ OuterLimit <= 255
  OBVIOUS
<1>1. Init => CountersTell
  <2> SUFFICES ASSUME Init PROVE CountersTell
    OBVIOUS
  <2>1. Wraps * IntSize = 0
    BY DEF Init, Wraps
  <2>2. QED
    BY <2>1 DEF Init, CountersTell
<1>2. CountersTell /\ [Next]_vars => CountersTell'
  <2> SUFFICES ASSUME CountersTell, Next PROVE CountersTell'
    BY DEF vars, CountersTell, Wraps
  <2> USE DEF CountersTell
  <2>1. i \in Nat /\ j \in Nat /\ passes \in Nat /\ j < OuterLimit /\ i < IntSize /\ ~timedOut
    BY DEF Next, Pass
  <2>2. (j + 1) % CharSize = j + 1
    BY <2>1, Remainder, j + 1 < 256 DEF CharSize
  <2>3. timedOut' <=> i' = InnerLimit /\ j' = OuterLimit
    BY Zenon DEF Next, Pass
  <2>4. passes' = passes + 1 /\ i' = (i + 1) % IntSize
        /\ j' = IF i' = InnerLimit THEN (j + 1) % CharSize ELSE j
    BY DEF Next, Pass
  <2>5. CASE i + 1 = IntSize
    <3>1. i' = 0
      BY <2>4, <2>5, RemainderOfSelf
    <3>2. j' = j /\ Wraps = j - 1 /\ Wraps' = j
      BY <2>1, <2>4, <2>5, <3>1 DEF Wraps
    <3>3. passes' = j * IntSize
      <4>1. passes' = (j - 1) * IntSize + IntSize
        BY <2>1, <2>4, <2>5, <3>2
      <4>2. QED
        BY <2>1, <4>1
    <3>4. QED
      BY <2>1, <2>3, <3>1, <3>2, <3>3
  <2>6. CASE i + 1 < IntSize
    <3>1. i' = i + 1
      BY <2>1, <2>4, <2>6, Remainder
    <3>2. j' = IF i' = InnerLimit THEN j + 1 ELSE j
      BY <2>2, <2>4
    <3>3. Wraps' = Wraps
      BY <2>1, <3>1, <3>2 DEF Wraps
    <3>4. passes' = Wraps' * IntSize + i'
      BY <2>1, <2>4, <3>1, <3>3 DEF Wraps
    <3>5. i' \in 0..(IntSize - 1) /\ j' \in 0..OuterLimit /\ passes' \in Nat
          /\ (i' >= InnerLimit => j' >= 1)
      BY <2>1, <2>4, <2>6, <3>1, <3>2
    <3>6. ~timedOut' => j' < OuterLimit
      BY <2>1, <2>3, <3>2
    <3>7. QED
      BY <2>3, <3>4, <3>5, <3>6
  <2>7. QED
    BY <2>1, <2>5, <2>6
<1>3. CountersTell => TimesOutExactly
  <2> SUFFICES ASSUME CountersTell PROVE TimesOutExactly
    OBVIOUS
  <2>1. CASE timedOut
    BY <2>1 DEF CountersTell, TimesOutExactly, Wraps, PassesToTimeout
  <2>2. CASE ~timedOut /\ i < InnerLimit
    <3>1. j * IntSize <= (OuterLimit - 1) * IntSize
      BY <2>2, ProductsOrdered DEF CountersTell
    <3>2. passes = j * IntSize + i
      BY <2>2 DEF CountersTell, Wraps
    <3>3. QED
      BY <2>2, <3>1, <3>2 DEF CountersTell, TimesOutExactly, PassesToTimeout
  <2>3. CASE ~timedOut /\ i >= InnerLimit
    <3>1. (j - 1) * IntSize <= (OuterLimit - 2) * IntSize
      BY <2>3, ProductsOrdered DEF CountersTell
    <3>2. passes = (j - 1) * IntSize + i /\ i < IntSize
      BY <2>3 DEF CountersTell, Wraps
    <3>3. (OuterLimit - 2) * IntSize + IntSize = (OuterLimit - 1) * IntSize
      OBVIOUS
    <3>4. QED
      BY <2>3, <3>1, <3>2, <3>3 DEF CountersTell, TimesOutExactly, PassesToTimeout
  <2>4. QED
    BY <2>1, <2>2, <2>3 DEF CountersTell
<1>4. QED
  BY <1>1, <1>2, <1>3, PTL DEF Spec
=============================================================================
