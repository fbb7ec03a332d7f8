----------------------------- MODULE CardReader -----------------------------
(***************************************************************************)
(* Reading a card: RFID_GetCardId (rfid.c) over the SPI (spi.c), against a *)
(* reader that answers in its own time, one byte after the other, and that *)
(* is not reset when the terminal is: the bytes of an answer nobody waited *)
(* for are still to come.                                                  *)
(***************************************************************************)
EXTENDS Integers, Sequences

CONSTANTS
  MaxReads,   \* bound: identifiers asked for
  MaxResets,  \* bound: resets other than the watchdog's
  MaxBroken   \* bound: answers the reader does not send to their end

ASSUME BoundsAssumption == MaxReads \in Nat /\ MaxResets \in Nat /\ MaxBroken \in Nat

VARIABLES
  pc,        \* where RFID_GetCardId is
  i, buffer, \* its counter, and the identifier
  result,    \* what it returned
  shown,     \* reader: the byte it presents, if any; RFID_DATA_READY says so
  answers,   \* reader: the bytes it has still to present
  asked,     \* history: commands sent
  overtaken, \* history: the last one was sent while an older answer was late
  resets, broken \* history: faults so far

driver  == <<pc, i, buffer, result>>
reader  == <<shown, answers>>
faults  == <<resets, broken>>
vars    == <<driver, reader, asked, overtaken, faults>>

(* A byte is the n-th of the answer to a command: 0 is the acknowledgement,
   RFID_RESP_ACK, and NAK any other status; the rest is the identifier. *)
NAK == 8
Zero == [of |-> 0, n |-> 0]

(* Slip: the last byte is left to the reader. *)
OneByteLess == 6

(* Slip: the buffer has eight bytes. *)
OneByteMore == 8

(* How many bytes are read after the status *)
IdLength == 7

Ready == shown # <<>>

Init ==
  /\ pc = "idle" /\ i = 0 /\ buffer = [k \in 1..8 |-> Zero] /\ result = "none"
  /\ shown = <<>> /\ answers = <<>>
  /\ asked = 0 /\ overtaken = FALSE /\ resets = 0 /\ broken = 0

-----------------------------------------------------------------------------
(* RFID_GetCardId and the SPI *)

Goto(from, to) == pc = from /\ pc' = to

(* memset clears as many bytes as a pointer has, two. *)
GetCardId ==
  /\ Goto("idle", "empty") /\ asked < MaxReads
  /\ buffer' = [buffer EXCEPT ![1] = Zero, ![2] = Zero] /\ result' = "none"
  /\ UNCHANGED <<i, reader, asked, overtaken, faults>>

(* SPI_Receive; what the reader presents is fetched, whatever the driver sends. *)
Receive == Ready /\ shown' = <<>> /\ UNCHANGED answers

EmptyBuffer ==
  /\ pc = "empty" /\ Receive
  /\ UNCHANGED <<driver, asked, overtaken, faults>>

(* Slip: what the reader presents stays there. *)
EmptiedSoon ==
  /\ Goto("empty", "command")
  /\ overtaken' = (~Ready /\ answers # <<>>)
  /\ UNCHANGED <<i, buffer, result, reader, asked, faults>>

(* The reader presents nothing, or nothing yet. *)
Emptied ==
  /\ Goto("empty", "command") /\ ~Ready
  /\ overtaken' = (answers # <<>>)
  /\ UNCHANGED <<i, buffer, result, reader, asked, faults>>

(* The reader's answer: none, that it has no card, or an identifier *)
Answers ==
  {<<>>, <<[of |-> asked + 1, n |-> NAK]>>, [k \in 1..8 |-> [of |-> asked + 1, n |-> k - 1]]}

(* SPI_Transmit, which also fetches a byte that is presented *)
Transmit ==
  /\ Goto("command", "status") /\ asked' = asked + 1
  /\ \E a \in Answers : answers' = answers \o a
  /\ shown' = <<>>
  /\ UNCHANGED <<i, buffer, result, overtaken, faults>>

(* Slip: the status is not compared. *)
AnyStatus(b) == {TRUE}

(* May a status be taken for the acknowledgement?  The byte of an identifier can
   have any value. *)
Acknowledges(b) == IF b.n = 0 THEN {TRUE} ELSE IF b.n = NAK THEN {FALSE} ELSE BOOLEAN

Status ==
  /\ pc = "status" /\ Receive
  /\ \E ack \in Acknowledges(Head(shown)) :
       IF ack THEN pc' = "bytes" /\ i' = 0 /\ UNCHANGED result
       ELSE pc' = "done" /\ result' = "failed" /\ UNCHANGED i
  /\ UNCHANGED <<buffer, asked, overtaken, faults>>

(* The loop waits for each byte, and feeds the watchdog meanwhile. *)
ReceiveByte ==
  /\ pc = "bytes" /\ i < IdLength /\ Receive
  /\ buffer' = [buffer EXCEPT ![i + 1] = Head(shown)] /\ i' = i + 1
  /\ UNCHANGED <<pc, result, asked, overtaken, faults>>

Success ==
  /\ Goto("bytes", "done") /\ i = IdLength /\ result' = "ok"
  /\ UNCHANGED <<i, buffer, reader, asked, overtaken, faults>>

(* The caller goes on; it clears the identifier when the answer has been shown, and
   not when the connection is lost meanwhile. *)
Return ==
  /\ Goto("done", "idle") /\ buffer' \in {[k \in 1..8 |-> Zero], buffer} /\ result' = "none"
  /\ UNCHANGED <<i, reader, asked, overtaken, faults>>

-----------------------------------------------------------------------------
(* The reader, and resets of the terminal *)

Present ==
  /\ ~Ready /\ answers # <<>> /\ shown' = <<Head(answers)>> /\ answers' = Tail(answers)
  /\ UNCHANGED <<driver, asked, overtaken, faults>>

(* The card is taken away in the middle of its identifier. *)
BreakOff ==
  /\ answers # <<>> /\ answers' = <<>>
  /\ broken < MaxBroken /\ broken' = broken + 1
  /\ UNCHANGED <<driver, shown, asked, overtaken, resets>>

Restarts ==
  /\ pc' = "idle" /\ i' = 0 /\ buffer' = [k \in 1..8 |-> Zero] /\ result' = "none"
  /\ UNCHANGED <<reader, asked, overtaken, broken>>

(* Nothing feeds the watchdog while the status is awaited. *)
Watchdog == pc = "status" /\ Restarts /\ UNCHANGED resets

Reset == resets < MaxResets /\ resets' = resets + 1 /\ Restarts

-----------------------------------------------------------------------------
RFID_GetCardId ==
  EmptyBuffer \/ Emptied \/ Transmit \/ Status \/ ReceiveByte \/ Success
Next == GetCardId \/ RFID_GetCardId \/ Return \/ Present \/ BreakOff \/ Watchdog \/ Reset

Spec == Init /\ [][Next]_vars

(* The processor runs, the watchdog bites, and the reader presents what it has. *)
FairSpec == Spec /\ WF_vars(RFID_GetCardId) /\ WF_vars(Watchdog) /\ WF_vars(Present)

-----------------------------------------------------------------------------
Bytes == [of : 0..MaxReads, n : 0..NAK]

TypeOK ==
  /\ pc \in {"idle", "empty", "command", "status", "bytes", "done"} /\ i \in 0..7
  /\ buffer \in [1..8 -> Bytes]
  /\ result \in {"none", "ok", "failed"}
  /\ shown \in Seq(Bytes) /\ Len(shown) <= 1 /\ answers \in Seq(Bytes)
  /\ asked \in 0..MaxReads /\ overtaken \in BOOLEAN
  /\ resets \in 0..MaxResets /\ broken \in 0..MaxBroken

(* An identifier that is returned is that of the card the last command was for,
   its bytes complete and in order, although a reset may have left the reader
   with an answer to an earlier one; unless EmptyBuffer came before the reader
   presented the next byte of it. *)
OwnIdentifier ==
  result = "ok" /\ ~overtaken =>
    \A k \in 1..7 : buffer[k] = [of |-> asked, n |-> k]

(* A read that was not disturbed itself leaves the next one nothing to read. *)
LeavesNothing == pc = "done" /\ ~overtaken => ~Ready /\ answers = <<>>

(* A read ends, if only by the watchdog; the loop over the bytes may wait for
   ever only if the reader breaks off, or an older answer was late: one of its
   bytes may have passed for the acknowledgement of a read that failed. *)
ReadEnds == pc = "empty" ~> pc \in {"done", "idle"} \/ overtaken \/ broken > 0
=============================================================================
