------------------------- MODULE CardReader_proofs -------------------------
(***************************************************************************)
(* Proofs about CardReader, for any number of reads, resets and answers    *)
(* that are broken off.                                                    *)
(***************************************************************************)
EXTENDS CardReader, SequenceTheorems, TLAPS

(* What the reader has still to be fetched of the answer to the last command:
   from its n-th byte on, each in its place, and nothing after the last. *)
InOrder(n) ==
  /\ Ready => shown[1] = [of |-> asked, n |-> n]
  /\ \A k \in 1..Len(answers) : answers[k] = [of |-> asked, n |-> n + Len(shown) + k - 1]
  /\ n + Len(shown) + Len(answers) <= 8

(* The reader has no card. *)
Refusal == [of |-> asked, n |-> NAK]
Refused ==
  \/ shown = <<Refusal>> /\ answers = <<>>
  \/ shown = <<>> /\ answers = <<Refusal>>

Nothing == shown = <<>> /\ answers = <<>>

(* While a read is under way that no older answer can disturb, the reader has
   just the rest of its own answer to give. *)
OwnAnswer ==
  ~overtaken =>
    /\ pc \in {"command", "done"} => Nothing
    /\ pc = "status" => InOrder(0) \/ Refused
    /\ pc = "bytes"  => InOrder(i + 1)

(* The bytes received so far are the first of that answer. *)
OwnBytes ==
  ~overtaken /\ (pc = "bytes" \/ result = "ok") =>
    \A k \in 1..i : buffer[k] = [of |-> asked, n |-> k]

(* A result is there only when the read is done, and then all bytes are. *)
ResultWhenDone ==
  /\ result # "none" => pc = "done"
  /\ result = "ok" => i = 7

(* A read that has been started can be asked for. *)
CommandLeft == pc \in {"empty", "command"} => asked < MaxReads

-----------------------------------------------------------------------------
(* An answer is a sequence of at most eight bytes. *)
LEMMA AnswerIsSequence ==
  ASSUME asked \in Nat, asked < MaxReads, NEW a \in Answers
  PROVE  /\ a \in Seq(Bytes)
         /\ \/ a = <<>>
            \/ a = <<[of |-> asked + 1, n |-> NAK]>>
            \/ /\ Len(a) = 8
               /\ \A k \in 1..8 : a[k] = [of |-> asked + 1, n |-> k - 1]
<1> DEFINE identifier == [k \in 1..8 |-> [of |-> asked + 1, n |-> k - 1]]
<1>1. /\ identifier \in Seq(Bytes) /\ Len(identifier) = 8
      /\ \A k \in 1..8 : identifier[k] = [of |-> asked + 1, n |-> k - 1]
  <2>1. \A k \in 1..8 : [of |-> asked + 1, n |-> k - 1] \in Bytes
    BY BoundsAssumption DEF Bytes, NAK
  <2>2. QED
    BY <2>1, IsASeq
<1>2. <<[of |-> asked + 1, n |-> NAK]>> \in Seq(Bytes)
  BY BoundsAssumption DEF Bytes, NAK
<1>3. a \in {<<>>, <<[of |-> asked + 1, n |-> NAK]>>, identifier}
  BY DEF Answers
<1>4. <<>> \in Seq(Bytes)
  OBVIOUS
<1> HIDE DEF identifier
<1>5. QED
  BY <1>1, <1>2, <1>3, <1>4

(* A byte that is presented is fetched. *)
LEMMA Fetched ==
  ASSUME TypeOK, Receive
  PROVE  /\ Len(shown) = 1 /\ Head(shown) = shown[1] /\ Head(shown) \in Bytes
         /\ shown' = <<>> /\ Len(shown') = 0 /\ answers' = answers
<1>1. shown \in Seq(Bytes) /\ shown # <<>> /\ Len(shown) <= 1 /\ shown' = <<>> /\ answers' = answers
  BY DEF TypeOK, Receive, Ready
<1>2. Len(shown) = 1
  <2>1. Len(shown) \in Int /\ Len(shown) > 0
    BY <1>1, EmptySeq
  <2>2. Len(shown) <= 1
    BY <1>1
  <2>3. QED
    BY <2>1, <2>2
<1>3. Head(shown) = shown[1] /\ Head(shown) \in Bytes
  BY <1>1, HeadTailProperties
<1>4. QED
  BY <1>1, <1>2, <1>3

(* Every variable keeps its type; a read that has been started is within the
   bound. *)
THEOREM Typing == Spec => [](TypeOK /\ CommandLeft)
<1> /\ <<>> \in Seq(Bytes) /\ Len(<<>>) = 0
  BY EmptySeq
<1>a. Zero \in Bytes /\ [k \in 1..8 |-> Zero] \in [1..8 -> Bytes]
  BY BoundsAssumption DEF Bytes, Zero, NAK
<1>1. Init => TypeOK /\ CommandLeft
  <2> SUFFICES ASSUME Init PROVE TypeOK /\ CommandLeft
    OBVIOUS
  <2>1. buffer \in [1..8 -> Bytes]
    BY <1>a DEF Init
  <2>2. shown \in Seq(Bytes) /\ Len(shown) <= 1 /\ answers \in Seq(Bytes)
    BY DEF Init
  <2>3. overtaken \in BOOLEAN /\ pc \in {"idle", "empty", "command", "status", "bytes", "done"}
        /\ result \in {"none", "ok", "failed"} /\ pc = "idle"
    BY DEF Init
  <2>4. i \in 0..7 /\ asked \in 0..MaxReads /\ resets \in 0..MaxResets /\ broken \in 0..MaxBroken
    BY BoundsAssumption DEF Init
  <2>5. QED
    BY <2>1, <2>2, <2>3, <2>4 DEF TypeOK, CommandLeft
<1>2. TypeOK /\ CommandLeft /\ [Next]_vars => (TypeOK /\ CommandLeft)'
  <2> SUFFICES ASSUME TypeOK, CommandLeft, [Next]_vars PROVE (TypeOK /\ CommandLeft)'
    OBVIOUS
  <2>f. Receive => Head(shown) \in Bytes /\ shown' = <<>> /\ answers' = answers
    BY Fetched
  <2> USE BoundsAssumption DEF TypeOK, CommandLeft
  <2>2. CASE GetCardId
    BY <1>a, <2>2 DEF GetCardId, Goto, reader, faults
  <2>3. CASE EmptyBuffer
    <3>1. /\ shown' = <<>>
          /\ UNCHANGED <<pc, i, buffer, result, answers, asked, overtaken, resets, broken>>
      BY <2>3, <2>f DEF EmptyBuffer, driver, faults
    <3>2. QED
      BY <3>1
  <2>4. CASE Emptied
    BY <2>4 DEF Emptied, Goto, reader, faults
  <2>5. CASE Transmit
    <3>1. PICK a \in Answers : answers' = answers \o a
      BY <2>5 DEF Transmit
    <3>2. answers' \in Seq(Bytes)
      BY <2>5, <3>1, AnswerIsSequence, ConcatProperties DEF Transmit, Goto
    <3>3. /\ pc' = "status" /\ asked' = asked + 1 /\ asked < MaxReads /\ shown' = <<>>
          /\ UNCHANGED <<i, buffer, result, overtaken, resets, broken>>
      BY <2>5 DEF Transmit, Goto, faults
    <3>4. QED
      BY <3>2, <3>3
  <2>6. CASE Status
    <3>1. /\ shown' = <<>> /\ UNCHANGED <<buffer, answers, asked, overtaken, resets, broken>>
          /\ pc' \in {"bytes", "done"} /\ i' \in 0..7 /\ result' \in {"none", "ok", "failed"}
      BY <2>6, <2>f DEF Status, faults
    <3>2. QED
      BY <3>1
  <2>7. CASE ReceiveByte
    <3>1. /\ shown' = <<>> /\ UNCHANGED <<pc, result, answers, asked, overtaken, resets, broken>>
      BY <2>7, <2>f DEF ReceiveByte, faults
    <3>2. i \in 0..6 /\ i' = i + 1 /\ buffer' \in [1..8 -> Bytes]
      BY <2>7, <2>f DEF ReceiveByte, IdLength
    <3>3. QED
      BY <3>1, <3>2
  <2>8. CASE Success
    BY <2>8 DEF Success, Goto, reader, faults
  <2>9. CASE Return
    BY <1>a, <2>9 DEF Return, Goto, reader, faults
  <2>10. CASE Present
    BY <2>10, HeadTailProperties DEF Present, Ready, driver, faults
  <2>11. CASE BreakOff
    BY <2>11 DEF BreakOff, driver
  <2>12. CASE Watchdog \/ Reset
    BY <1>a, <2>12 DEF Watchdog, Reset, Restarts, reader
  <2>13. CASE UNCHANGED vars
    BY <2>13 DEF vars, driver, reader, faults
  <2>14. QED
    BY <2>2, <2>3, <2>4, <2>5, <2>6, <2>7, <2>8, <2>9, <2>10, <2>11, <2>12, <2>13
       DEF Next, RFID_GetCardId
<1>3. QED
  BY <1>1, <1>2, PTL DEF Spec

(* Every variable has its type. *)
THEOREM TypeHolds == Spec => []TypeOK
BY Typing, PTL

-----------------------------------------------------------------------------
(* What is still to come stays in order, whether its next byte is fetched, ... *)
LEMMA FetchedInOrder ==
  ASSUME TypeOK, Receive, UNCHANGED asked, NEW n \in 0..8, InOrder(n)
  PROVE  shown[1] = [of |-> asked, n |-> n] /\ InOrder(n + 1)'
<1>1. /\ Len(shown) = 1 /\ shown' = <<>> /\ Len(shown') = 0 /\ answers' = answers
      /\ Len(answers) \in Nat /\ asked' = asked /\ Ready
  BY Fetched DEF TypeOK, Receive
<1>2. ~Ready'
  BY <1>1 DEF Ready
<1>3. QED
  BY <1>1, <1>2 DEF InOrder

(* ... presented, ... *)
LEMMA PresentedInOrder ==
  ASSUME TypeOK, Present, NEW n \in 0..8, InOrder(n)
  PROVE  InOrder(n)'
<1>1. /\ shown = <<>> /\ Len(shown) = 0 /\ answers \in Seq(Bytes) /\ answers # <<>>
      /\ shown' = <<Head(answers)>> /\ answers' = Tail(answers) /\ asked' = asked
  BY EmptySeq DEF TypeOK, Present, Ready
<1>2. /\ Head(answers) = answers[1] /\ Len(answers) \in Nat /\ Len(answers) >= 1
      /\ Len(answers') = Len(answers) - 1
      /\ \A k \in 1..Len(answers') : answers'[k] = answers[k + 1]
  BY <1>1, HeadTailProperties, LenProperties, EmptySeq
<1>3. Len(shown') = 1 /\ shown'[1] = answers[1]
  BY <1>1, <1>2
<1>4. QED
  BY <1>1, <1>2, <1>3 DEF InOrder

(* ... or broken off. *)
LEMMA BrokenOffInOrder ==
  ASSUME TypeOK, BreakOff, NEW n \in 0..8, InOrder(n)
  PROVE  InOrder(n)'
<1>1. /\ answers' = <<>> /\ Len(answers') = 0 /\ shown' = shown /\ asked' = asked
      /\ Len(shown) \in Nat /\ Len(answers) \in Nat
  BY EmptySeq DEF TypeOK, BreakOff
<1>2. Ready' = Ready
  BY <1>1 DEF Ready
<1>3. QED
  BY <1>1, <1>2 DEF InOrder

(* An answer to a command sent to a reader that has nothing else to give is a
   refusal, or in order from its status on. *)
LEMMA AnsweredInOrder ==
  ASSUME TypeOK, CommandLeft, Transmit, Nothing
  PROVE  InOrder(0)' \/ Refused'
<1>1. PICK a \in Answers : answers' = answers \o a
  BY DEF Transmit
<1>2. /\ asked \in Nat /\ asked < MaxReads /\ asked' = asked + 1 /\ shown' = <<>>
      /\ answers = <<>> /\ pc' = "status"
  BY BoundsAssumption DEF Transmit, Goto, TypeOK, CommandLeft, Nothing
<1>3. /\ a \in Seq(Bytes)
      /\ \/ a = <<>>
         \/ a = <<[of |-> asked + 1, n |-> NAK]>>
         \/ Len(a) = 8 /\ \A k \in 1..8 : a[k] = [of |-> asked + 1, n |-> k - 1]
  BY <1>2, AnswerIsSequence
<1>4. answers' = a
  BY <1>1, <1>2, <1>3
<1>5. ~Ready' /\ Len(shown') = 0
  BY <1>2, EmptySeq DEF Ready
<1>6. CASE a = <<>>
  <2>1. Len(answers') = 0
    BY <1>4, <1>6, EmptySeq
  <2>2. QED
    BY <1>5, <2>1 DEF InOrder
<1>7. CASE a = <<[of |-> asked + 1, n |-> NAK]>>
  BY <1>2, <1>4, <1>7 DEF Refused, Refusal
<1>8. CASE Len(a) = 8 /\ \A k \in 1..8 : a[k] = [of |-> asked + 1, n |-> k - 1]
  BY <1>2, <1>4, <1>5, <1>8 DEF InOrder
<1>9. QED
  BY <1>3, <1>6, <1>7, <1>8

-----------------------------------------------------------------------------
(* What OwnIdentifier rests on *)
Undisturbed == OwnAnswer /\ OwnBytes /\ ResultWhenDone

(* Steps that leave the driver alone keep the bytes it has received. *)
LEMMA DriverKept ==
  ASSUME OwnBytes, ResultWhenDone, UNCHANGED <<pc, i, buffer, result, asked, overtaken>>
  PROVE  OwnBytes' /\ ResultWhenDone'
BY DEF OwnBytes, ResultWhenDone

(* A restart leaves no read under way. *)
LEMMA Restarted ==
  ASSUME Restarts
  PROVE  Undisturbed'
BY DEF Restarts, Undisturbed, OwnAnswer, OwnBytes, ResultWhenDone

(* The status received is that of the command just sent. *)
LEMMA StatusReceived ==
  ASSUME TypeOK, Undisturbed, Status
  PROVE  Undisturbed'
<1>1. /\ Receive /\ pc = "status" /\ UNCHANGED <<buffer, asked, overtaken>>
      /\ Len(shown) = 1 /\ Head(shown) = shown[1] /\ shown' = <<>> /\ answers' = answers
      /\ result = "none"
  BY Fetched DEF Status, TypeOK, Undisturbed, ResultWhenDone
<1>2. PICK ack \in Acknowledges(shown[1]) :
        IF ack THEN pc' = "bytes" /\ i' = 0 /\ UNCHANGED result
        ELSE pc' = "done" /\ result' = "failed" /\ UNCHANGED i
  BY <1>1 DEF Status
<1>3. ack \in BOOLEAN
  BY <1>2 DEF Acknowledges
<1>4. ResultWhenDone' /\ OwnBytes'
  BY <1>1, <1>2, <1>3 DEF ResultWhenDone, OwnBytes
<1>5. CASE overtaken
  BY <1>1, <1>4, <1>5 DEF Undisturbed, OwnAnswer
<1>6. CASE ~overtaken /\ InOrder(0)
  <2>1. shown[1].n = 0 /\ InOrder(0 + 1)'
    BY <1>1, <1>6, FetchedInOrder
  <2>2. pc' = "bytes" /\ i' = 0
    BY <1>2, <2>1 DEF Acknowledges
  <2>3. InOrder(i + 1)'
    BY <2>1, <2>2
  <2>4. QED
    BY <1>4, <2>2, <2>3 DEF Undisturbed, OwnAnswer
<1>7. CASE ~overtaken /\ Refused
  <2>1. shown[1].n = NAK /\ answers = <<>>
    BY <1>1, <1>7, EmptySeq DEF Refused, Refusal
  <2>2. pc' = "done"
    BY <1>2, <2>1 DEF Acknowledges, NAK
  <2>3. QED
    BY <1>1, <1>4, <2>1, <2>2 DEF Undisturbed, OwnAnswer, Nothing
<1>8. QED
  BY <1>1, <1>5, <1>6, <1>7 DEF Undisturbed, OwnAnswer

(* A byte received is the next of the identifier. *)
LEMMA ByteReceived ==
  ASSUME TypeOK, Undisturbed, ReceiveByte
  PROVE  Undisturbed'
<1>1. /\ Receive /\ pc = "bytes" /\ UNCHANGED <<pc, result, asked, overtaken>>
      /\ Head(shown) = shown[1] /\ result = "none"
      /\ i \in 0..6 /\ i' = i + 1 /\ buffer' = [buffer EXCEPT ![i + 1] = Head(shown)]
      /\ buffer \in [1..8 -> Bytes]
  BY Fetched DEF ReceiveByte, IdLength, TypeOK, Undisturbed, ResultWhenDone
<1>2. ResultWhenDone'
  BY <1>1 DEF ResultWhenDone
<1>3. CASE overtaken
  BY <1>1, <1>2, <1>3 DEF Undisturbed, OwnAnswer, OwnBytes
<1>4. CASE ~overtaken
  <2>1. PICK n \in 0..8 : n = i + 1
    BY <1>1
  <2>2. InOrder(n) /\ \A k \in 1..i : buffer[k] = [of |-> asked, n |-> k]
    BY <1>1, <1>4, <2>1 DEF Undisturbed, OwnAnswer, OwnBytes
  <2>3. shown[1] = [of |-> asked, n |-> n] /\ InOrder(n + 1)'
    BY <1>1, <2>2, FetchedInOrder
  <2>4. InOrder(i + 1)'
    BY <1>1, <2>1, <2>3
  <2>5. \A k \in 1..i' : buffer'[k] = [of |-> asked', n |-> k]
    BY <1>1, <2>1, <2>2, <2>3
  <2>6. QED
    BY <1>1, <1>2, <2>4, <2>5 DEF Undisturbed, OwnAnswer, OwnBytes
<1>5. QED
  BY <1>3, <1>4

(* After the last byte the reader has nothing more to give. *)
LEMMA ReadSucceeded ==
  ASSUME TypeOK, Undisturbed, Success
  PROVE  Undisturbed'
<1>1. /\ pc = "bytes" /\ pc' = "done" /\ i = 7 /\ result' = "ok"
      /\ UNCHANGED <<i, buffer, shown, answers, asked, overtaken>>
  BY DEF Success, Goto, IdLength, reader
<1>2. ~overtaken => Nothing
  <2>1. ~overtaken => InOrder(8)
    BY <1>1 DEF Undisturbed, OwnAnswer
  <2>2. Len(shown) \in Nat /\ Len(answers) \in Nat /\ shown \in Seq(Bytes) /\ answers \in Seq(Bytes)
    BY DEF TypeOK
  <2>3. QED
    BY <2>1, <2>2, EmptySeq DEF InOrder, Nothing
<1>3. OwnBytes' /\ ResultWhenDone'
  BY <1>1 DEF Undisturbed, OwnBytes, ResultWhenDone
<1>4. QED
  BY <1>1, <1>2, <1>3 DEF Undisturbed, OwnAnswer, Nothing

(* What the reader does by itself, it does in order. *)
LEMMA ReaderMoves ==
  ASSUME TypeOK, Undisturbed, Present \/ BreakOff
  PROVE  Undisturbed'
<1>1. /\ UNCHANGED <<pc, i, buffer, result, asked, overtaken>> /\ answers # <<>> /\ i \in 0..7
  BY DEF Present, BreakOff, driver, TypeOK
<1>2. OwnBytes' /\ ResultWhenDone'
  BY <1>1, DriverKept DEF Undisturbed
<1>3. \A n \in 0..8 : InOrder(n) => InOrder(n)'
  BY PresentedInOrder, BrokenOffInOrder
<1>4. Refused => Refused' \/ InOrder(0)'
  <2> SUFFICES ASSUME Refused PROVE Refused' \/ InOrder(0)'
    OBVIOUS
  <2>1. shown = <<>> /\ answers = <<Refusal>>
    BY <1>1 DEF Refused
  <2>2. CASE Present
    BY <1>1, <2>1, <2>2 DEF Present, Refused, Refusal
  <2>3. CASE BreakOff
    <3>1. /\ shown' = <<>> /\ Len(shown') = 0 /\ answers' = <<>> /\ Len(answers') = 0
          /\ ~Ready'
      BY <2>1, <2>3, EmptySeq DEF BreakOff, Ready
    <3>2. QED
      BY <3>1 DEF InOrder
  <2>4. QED
    BY <2>2, <2>3
<1>5. ~overtaken /\ pc = "bytes" => InOrder(i + 1)'
  <2> SUFFICES ASSUME ~overtaken, pc = "bytes" PROVE InOrder(i + 1)'
    OBVIOUS
  <2>1. PICK n \in 0..8 : n = i + 1
    BY <1>1
  <2>2. InOrder(n)
    BY <2>1 DEF Undisturbed, OwnAnswer
  <2>3. InOrder(n)' /\ i' + 1 = n
    BY <1>1, <1>3, <2>1, <2>2
  <2>4. QED
    BY <2>3
<1>6. QED
  BY <1>1, <1>2, <1>3, <1>4, <1>5 DEF Undisturbed, OwnAnswer, Nothing

(* The reader's answers stay those of the read under way, for any number of
   resets in between. *)
THEOREM Invariance == Spec => []Undisturbed
<1>1. Init => Undisturbed
  BY DEF Init, Undisturbed, OwnAnswer, OwnBytes, ResultWhenDone
<1>2. TypeOK /\ CommandLeft /\ Undisturbed /\ [Next]_vars => Undisturbed'
  <2> SUFFICES ASSUME TypeOK, CommandLeft, Undisturbed, [Next]_vars PROVE Undisturbed'
    OBVIOUS
  <2> USE DEF Undisturbed, OwnAnswer, OwnBytes, ResultWhenDone
  <2>1. CASE GetCardId
    BY <2>1 DEF GetCardId, Goto, reader
  <2>2. CASE EmptyBuffer
    BY <2>2 DEF EmptyBuffer, driver
  <2>3. CASE Emptied
    BY <2>3 DEF Emptied, Goto, Ready, Nothing, reader
  <2>4. CASE Transmit
    <3>1. /\ pc = "command" /\ pc' = "status" /\ UNCHANGED <<result, overtaken>>
      BY <2>4 DEF Transmit, Goto
    <3>2. ~overtaken => InOrder(0)' \/ Refused'
      BY <2>4, <3>1, AnsweredInOrder
    <3>3. QED
      BY <3>1, <3>2
  <2>5. CASE Status
    BY <2>5, StatusReceived
  <2>6. CASE ReceiveByte
    BY <2>6, ByteReceived
  <2>7. CASE Success
    BY <2>7, ReadSucceeded
  <2>8. CASE Return
    BY <2>8 DEF Return, Goto
  <2>9. CASE Present \/ BreakOff
    BY <2>9, ReaderMoves
  <2>10. CASE Watchdog \/ Reset
    BY <2>10, Restarted DEF Watchdog, Reset
  <2>11. CASE UNCHANGED vars
    BY <2>11 DEF vars, driver, reader, Nothing, InOrder, Refused, Refusal, Ready
  <2>12. QED
    BY <2>1, <2>2, <2>3, <2>4, <2>5, <2>6, <2>7, <2>8, <2>9, <2>10, <2>11
       DEF Next, RFID_GetCardId
<1>3. QED
  BY <1>1, <1>2, Typing, PTL DEF Spec

(* An identifier that is returned is that of the card the last command was for,
   unless an older answer was late when the command was sent. *)
THEOREM OwnIdentifierHolds == Spec => []OwnIdentifier
<1>1. Undisturbed => OwnIdentifier
  BY DEF Undisturbed, OwnBytes, ResultWhenDone, OwnIdentifier
<1>2. QED
  BY <1>1, Invariance, PTL

(* A read that was not disturbed leaves the next one nothing to read. *)
THEOREM LeavesNothingHolds == Spec => []LeavesNothing
<1>1. Undisturbed => LeavesNothing
  BY DEF Undisturbed, OwnAnswer, Nothing, LeavesNothing, Ready
<1>2. QED
  BY <1>1, Invariance, PTL
=============================================================================
