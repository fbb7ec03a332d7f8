------------------------ MODULE HardwareTest_proofs ------------------------
(***************************************************************************)
(* Proofs about HardwareTest, for tests of any length and any number of    *)
(* presses, of echo commands and of repeated ones.                         *)
(***************************************************************************)
EXTENDS HardwareTest, SequenceTheorems, TLAPS

(* The loops that count do not run past their ends. *)
InUsbTest == at \in {"await", "decide", "clear", "ready", "set"}
CountsWithin ==
  /\ InUsbTest => test = "usb" /\ i < TestLength
  /\ test = "button" => i <= TestPresses

(* A press that is waited for, or seen, has not been paid with a step. *)
StepPaid ==
  /\ at = "hold" => steps = 0
  /\ at # "hold" /\ pressed => steps < presses
  /\ at = "release" => steps < presses
  /\ steps <= presses

(* The endpoint: the test calls usbSetInterrupt only when the buffer is empty,
   and the host has no reason to drop a packet. *)
Refilling == pc \in {"copy_head", "copy_tail", "arm"}
EndpointWaits ==
  /\ pc # "withdraw" /\ (pc # "idle" => at = "set")
  /\ Pipe!Armed => pc = "idle"
  /\ IF Pipe!Armed \/ Refilling THEN token = expected ELSE token # expected

(* An echo command that is held has no answer yet: it waits in the buffer of
   usbFunctionWrite, is being copied, or waits for the host. *)
Held == echo_ready \/ at = "ready" \/ pc # "idle" \/ Pipe!Armed

(* At most one command is held, in one place; the two halves of the message come
   from it when they have been copied. *)
OneHeld ==
  /\ echo_buffer = echoes
  /\ echoes = Len(answers) + (IF Held THEN 1 ELSE 0)
  /\ echo_ready => at # "ready" /\ pc = "idle" /\ ~Pipe!Armed
  /\ at = "ready" => ~Pipe!Armed
  /\ at = "clear" => echo_ready
  /\ pc \in {"copy_tail", "arm"} \/ Pipe!Armed => message.head = echoes
  /\ pc = "arm" \/ Pipe!Armed => message.tail = echoes
  /\ \A n \in DOMAIN answers : answers[n] = [head |-> n, tail |-> n]
EchoHeld == ~overran /\ repeats = 0 /\ brief = 0 => OneHeld

-----------------------------------------------------------------------------
(* The tests that begin *)
LEMMA Begins ==
  ASSUME ButtonTest \/ DisplayTest \/ UsbTest \/ BuzzerTest \/ RfidTest
  PROVE  /\ at = "body" /\ i' = 0 /\ at' = IF test = "usb" THEN "await" ELSE "press"
         /\ UNCHANGED <<test, steps, button, echo, message, answers, brief, endpoint>>
BY DEF ButtonTest, DisplayTest, UsbTest, BuzzerTest, RfidTest, Begin, Goto

(* Every variable has its type, and no counter leaves its range. *)
THEOREM Typing == Spec => [](TypeOK /\ CountsWithin /\ EndpointWaits)
<1> DEFINE Pair == [head : Commands, tail : Commands]
<1> /\ TestPresses \in Int /\ TestLength \in Int /\ MaxPresses \in Int /\ MaxEchoes \in Int
    /\ TestPresses > 0 /\ TestLength > 0 /\ MaxPresses >= 0 /\ MaxEchoes >= 0
    /\ MaxRepeats \in Int /\ MaxRepeats >= 0
  BY LengthsAssumption, BoundsAssumption
<1>1. Init => TypeOK /\ CountsWithin /\ EndpointWaits
  <2> SUFFICES ASSUME Init PROVE TypeOK /\ CountsWithin /\ EndpointWaits
    OBVIOUS
  <2>1. Pipe!TypeOK /\ EndpointWaits
    BY DEF Init, Pipe!Init, Pipe!TypeOK, EndpointWaits, Pipe!Armed, Refilling
  <2>2. answers \in Seq(Pair) /\ message \in Pair
    BY DEF Init, Commands
  <2>3. pressed \in BOOLEAN /\ echo_ready \in BOOLEAN /\ overran \in BOOLEAN
    BY DEF Init
  <2>4. test \in DOMAIN NextTest /\ test = "start" /\ at = "hold"
    BY DEF Init, NextTest
  <2>5. QED
    BY <2>1, <2>2, <2>3, <2>4 DEF Init, TypeOK, CountsWithin, InUsbTest, Commands
<1>2. TypeOK /\ CountsWithin /\ EndpointWaits /\ [Next]_vars =>
        (TypeOK /\ CountsWithin /\ EndpointWaits)'
  <2> SUFFICES ASSUME TypeOK, CountsWithin, EndpointWaits, [Next]_vars
               PROVE  (TypeOK /\ CountsWithin /\ EndpointWaits)'
    OBVIOUS
  <2> USE DEF CountsWithin, InUsbTest
  <2>1. ASSUME UNCHANGED endpoint, pc = "idle" \/ at' = "set"
        PROVE  Pipe!TypeOK' /\ EndpointWaits'
    BY <2>1 DEF TypeOK, Pipe!TypeOK, EndpointWaits, Pipe!Armed, Refilling, endpoint
  <2>2. CASE Hold \/ Press \/ Await \/ Decide
    <3>1. UNCHANGED endpoint /\ pc = "idle"
      BY <2>2 DEF Hold, Press, Await, Decide, Goto, EndpointWaits
    <3>2. QED
      BY <2>1, <2>2, <3>1 DEF Hold, Press, Await, Decide, Goto, TypeOK, button, echo
  <2>3. CASE ButtonTest \/ DisplayTest \/ UsbTest \/ BuzzerTest \/ RfidTest
    <3>1. UNCHANGED endpoint /\ pc = "idle"
      BY <2>3, Begins DEF EndpointWaits
    <3>2. QED
      BY <2>1, <2>3, <3>1, Begins DEF TypeOK, button, echo
  <2>4. CASE Release
    <3>1. UNCHANGED endpoint /\ pc = "idle"
      BY <2>4 DEF Release, EndpointWaits
    <3>2. NextTest[test] \in DOMAIN NextTest
      BY DEF TypeOK, NextTest
    <3>3. QED
      BY <2>1, <2>4, <3>1, <3>2 DEF Release, TypeOK, button, echo
  <2>5. CASE Clear
    <3>1. UNCHANGED endpoint /\ pc = "idle"
      BY <2>5 DEF Clear, Goto, EndpointWaits
    <3>2. QED
      BY <2>1, <2>5, <3>1 DEF Clear, Goto, TypeOK, button
  <2>6. CASE SetInterrupt
    <3>1. Pipe!TypeOK' /\ EndpointWaits'
      BY <2>6 DEF SetInterrupt, Goto, TypeOK, Pipe!SetInterrupt, Pipe!Goto, Pipe!TypeOK, Pipe!host,
                  Pipe!counts, EndpointWaits, Pipe!Armed, Refilling
    <3>2. QED
      BY <2>6, <3>1 DEF SetInterrupt, Goto, TypeOK, button, echo
  <2>7. CASE SetInterruptGoesOn
    <3>1. Pipe!TypeOK' /\ EndpointWaits'
      <4> USE DEF SetInterruptGoesOn, TypeOK, tester, Pipe!Goto, Pipe!TypeOK, Pipe!host, Pipe!counts,
                  EndpointWaits, Pipe!Armed, Refilling
      <4>1. CASE Pipe!CopyHead
        BY <2>7, <4>1 DEF Pipe!CopyHead
      <4>2. CASE Pipe!CopyTail
        BY <2>7, <4>2 DEF Pipe!CopyTail
      <4>3. CASE Pipe!Toggle
        BY <2>7, <4>3 DEF Pipe!Toggle, Pipe!Flip
      <4>4. CASE Pipe!Withdraw \/ Pipe!Arm
        BY <2>7, <4>4 DEF Pipe!Withdraw, Pipe!Arm
      <4>5. QED
        BY <2>7, <4>1, <4>2, <4>3, <4>4 DEF Copy
    <3>2. message' \in Pair
      BY <2>7 DEF SetInterruptGoesOn, Copy, TypeOK
    <3>3. QED
      BY <2>7, <3>1, <3>2 DEF SetInterruptGoesOn, tester, button, echo, TypeOK
  <2>8. CASE Sent
    <3>1. UNCHANGED endpoint /\ pc = "idle"
      BY <2>8 DEF Sent
    <3>2. QED
      BY <2>1, <2>8, <3>1 DEF Sent, TypeOK, button, echo
  <2>9. CASE PressButton \/ ReleaseButton
    <3>1. UNCHANGED endpoint /\ (pc = "idle" \/ at' = "set")
      BY <2>9 DEF PressButton, ReleaseButton, EndpointWaits, tester
    <3>2. pressed' \in BOOLEAN
      BY <2>9 DEF PressButton, ReleaseButton
    <3>3. QED
      BY <2>1, <2>9, <3>1, <3>2 DEF PressButton, ReleaseButton, TypeOK, tester, echo
  <2>10. CASE Echo \/ EchoAgain
    <3>1. UNCHANGED endpoint /\ (pc = "idle" \/ at' = "set")
      BY <2>10 DEF Echo, EchoAgain, EndpointWaits, tester
    <3>2. overran' \in BOOLEAN
      BY <2>10 DEF Echo, EchoAgain, TypeOK
    <3>3. CASE Echo
      BY <2>1, <3>1, <3>2, <3>3 DEF Echo, TypeOK, tester, button, Commands
    <3>4. CASE EchoAgain
      BY <2>1, <3>1, <3>2, <3>4 DEF EchoAgain, TypeOK, tester, button
    <3>5. QED
      BY <2>10, <3>3, <3>4
  <2>11. CASE InToken
    <3>1. Pipe!Armed /\ token = expected
      BY <2>11 DEF InToken, Pipe!Accepted, Pipe!Dropped, Pipe!HandleIn1, EndpointWaits
    <3>2. Pipe!Accepted /\ answers' = Append(answers, message)
      BY <2>11, <3>1 DEF InToken, Pipe!Dropped
    <3>3. [head |-> head, tail |-> tail] \in [head : Nat, tail : Nat]
      BY DEF TypeOK, Pipe!TypeOK
    <3>4. received' \in Seq([head : Nat, tail : Nat])
      BY <3>2, <3>3 DEF Pipe!Accepted, TypeOK, Pipe!TypeOK
    <3>5. Pipe!TypeOK' /\ EndpointWaits'
      BY <2>11, <3>1, <3>2, <3>4
         DEF InToken, tester, TypeOK, Pipe!TypeOK, Pipe!Accepted, Pipe!HandleIn1, Pipe!CountRace,
             Pipe!Flip, Pipe!Armed, EndpointWaits, Refilling
    <3>6. answers' \in Seq(Pair)
      BY <3>2 DEF TypeOK
    <3>7. QED
      BY <2>11, <3>5, <3>6 DEF InToken, tester, button, echo, TypeOK
  <2>12. CASE UNCHANGED vars
    BY <2>12 DEF vars, tester, button, echo, endpoint, TypeOK, Pipe!TypeOK, EndpointWaits,
                 Pipe!Armed, Refilling
  <2>13. QED
    BY <2>2, <2>3, <2>4, <2>5, <2>6, <2>7, <2>8, <2>9, <2>10, <2>11, <2>12 DEF Next, Tester
<1>3. QED
  BY <1>1, <1>2, PTL DEF Spec

(* Every variable has its type. *)
THEOREM TypeHolds == Spec => []TypeOK
BY Typing, PTL

(* A press leads on by one step at most. *)
THEOREM PressesPayForStepsHolds == Spec => []PressesPayForSteps
<1>1. Init => StepPaid
  BY DEF Init, StepPaid
<1>2. TypeOK /\ StepPaid /\ [Next]_vars => StepPaid'
  <2> SUFFICES ASSUME TypeOK, StepPaid, [Next]_vars PROVE StepPaid'
    OBVIOUS
  <2>1. steps \in Int /\ presses \in Int
    BY BoundsAssumption DEF TypeOK
  <2> USE <2>1 DEF StepPaid
  <2>2. CASE Hold \/ Press \/ Await \/ Decide \/ Clear \/ Sent
    BY <2>2 DEF Hold, Press, Await, Decide, Clear, Sent, Goto, button
  <2>3. CASE ButtonTest \/ DisplayTest \/ UsbTest \/ BuzzerTest \/ RfidTest
    BY <2>3, Begins DEF button
  <2>4. CASE Release
    <3>1. at' # "hold" /\ at' # "release" /\ steps' = steps + 1 /\ UNCHANGED <<pressed, presses>>
      BY <2>4 DEF Release, button
    <3>2. at = "release" /\ ~pressed
      BY <2>4 DEF Release
    <3>3. QED
      BY <3>1, <3>2
  <2>5. CASE SetInterrupt \/ SetInterruptGoesOn
    BY <2>5 DEF SetInterrupt, SetInterruptGoesOn, Goto, tester, button
  <2>6. CASE PressButton \/ ReleaseButton
    BY <2>6 DEF PressButton, ReleaseButton, tester
  <2>7. CASE Echo \/ EchoAgain \/ InToken \/ UNCHANGED vars
    BY <2>7 DEF Echo, EchoAgain, InToken, vars, tester, button
  <2>8. QED
    BY <2>2, <2>3, <2>4, <2>5, <2>6, <2>7 DEF Next, Tester
<1>3. StepPaid => PressesPayForSteps
  BY DEF StepPaid, PressesPayForSteps
<1>4. QED
  BY <1>1, <1>2, <1>3, Typing, PTL DEF Spec

-----------------------------------------------------------------------------
(* Steps of the tester that touch neither the flag nor the endpoint, and neither
   reach nor leave the wait for the endpoint, hold what was held. *)
LEMMA HeldStays ==
  ASSUME OneHeld, UNCHANGED <<echo_ready, echo_buffer, echoes, message, answers, pc, usbTxLen1>>,
         at # "ready", at' # "ready", at' = "clear" => echo_ready
  PROVE  OneHeld'
BY DEF OneHeld, Held, Pipe!Armed

(* The host gets the answer to the command that is held, whole. *)
LEMMA AnswerFetched ==
  ASSUME TypeOK, EndpointWaits, OneHeld, InToken
  PROVE  OneHeld'
<1>1. /\ Pipe!Armed /\ Pipe!Accepted /\ answers' = Append(answers, message)
      /\ UNCHANGED <<at, pc, echo_ready, echo_buffer, echoes, message>>
  BY DEF InToken, Pipe!Accepted, Pipe!Dropped, Pipe!HandleIn1, EndpointWaits, tester, echo
<1>2. /\ ~Pipe!Armed' /\ pc = "idle" /\ at # "ready" /\ ~echo_ready
  BY <1>1 DEF Pipe!Accepted, Pipe!HandleIn1, Pipe!Armed, EndpointWaits, OneHeld
<1>3. Held /\ ~Held'
  BY <1>1, <1>2 DEF Held
<1>4. message = [head |-> echoes, tail |-> echoes] /\ echoes = Len(answers) + 1
  BY <1>1, <1>3 DEF TypeOK, OneHeld
<1>5. /\ answers \in Seq([head : Commands, tail : Commands]) /\ Len(answers) \in Nat
      /\ Len(answers') = Len(answers) + 1 /\ DOMAIN answers' = 1..Len(answers')
      /\ DOMAIN answers = 1..Len(answers)
      /\ answers'[Len(answers) + 1] = message
      /\ \A n \in 1..Len(answers) : answers'[n] = answers[n]
  BY <1>1 DEF TypeOK
<1>6. \A n \in DOMAIN answers' : answers'[n] = [head |-> n, tail |-> n]
  <2>1. \A n \in 1..Len(answers) : answers[n] = [head |-> n, tail |-> n]
    BY <1>5 DEF OneHeld
  <2>2. SUFFICES ASSUME NEW n \in 1..Len(answers) + 1
                 PROVE  answers'[n] = [head |-> n, tail |-> n]
    BY <1>5
  <2>3. CASE n = Len(answers) + 1
    BY <1>4, <1>5, <2>3
  <2>4. CASE n \in 1..Len(answers)
    BY <1>5, <2>1, <2>4
  <2>5. QED
    BY <1>5, <2>2, <2>3, <2>4
<1>7. QED
  BY <1>1, <1>2, <1>3, <1>4, <1>5, <1>6 DEF OneHeld

(* The two halves of the message are copied from the buffer before the next
   command comes. *)
LEMMA CommandCopied ==
  ASSUME TypeOK, EndpointWaits, OneHeld, SetInterruptGoesOn
  PROVE  OneHeld'
<1>1. /\ UNCHANGED <<at, echo_ready, echo_buffer, echoes, answers>> /\ pc # "idle" /\ pc # "withdraw"
      /\ ~Pipe!Armed /\ ~echo_ready /\ at = "set" /\ Held
  BY DEF SetInterruptGoesOn, Copy, tester, echo, EndpointWaits, OneHeld, Held, Pipe!CopyHead,
         Pipe!CopyTail, Pipe!Toggle, Pipe!Withdraw, Pipe!Arm, Pipe!Goto, Pipe!Armed
<1>2. CASE pc' # "idle"
  <2>1. Held' /\ ~Pipe!Armed'
    BY <1>1, <1>2 DEF Held, SetInterruptGoesOn, Copy, Pipe!CopyHead, Pipe!CopyTail, Pipe!Toggle,
                      Pipe!Withdraw, Pipe!Arm, Pipe!Goto, Pipe!Armed
  <2>2. QED
    BY <1>1, <1>2, <2>1 DEF TypeOK, OneHeld, SetInterruptGoesOn, Copy, Pipe!CopyHead, Pipe!CopyTail,
                            Pipe!Toggle, Pipe!Withdraw, Pipe!Arm, Pipe!Goto
<1>3. CASE pc' = "idle"
  <2>1. pc = "arm" /\ Pipe!Armed' /\ Held' /\ UNCHANGED message
    BY <1>1, <1>3 DEF Held, SetInterruptGoesOn, Copy, Pipe!CopyHead, Pipe!CopyTail, Pipe!Toggle,
                      Pipe!Withdraw, Pipe!Arm, Pipe!Goto, Pipe!Armed
  <2>2. QED
    BY <1>1, <1>3, <2>1 DEF OneHeld
<1>4. QED
  BY <1>2, <1>3

(* A command that comes when nothing is held, is held. *)
LEMMA CommandComes ==
  ASSUME TypeOK, OneHeld, Echo, ~overran'
  PROVE  OneHeld'
<1>1. /\ echoes' = echoes + 1 /\ echo_buffer' = echoes + 1 /\ echo_ready' = TRUE
      /\ ~(Len(answers) < echoes) /\ UNCHANGED <<at, message, answers, pc, usbTxLen1>>
  BY DEF Echo, tester, endpoint
<1>2. echoes \in Int /\ Len(answers) \in Int
  BY DEF TypeOK
<1>3. ~Held
  BY <1>1, <1>2 DEF OneHeld
<1>4. Held'
  BY <1>1 DEF Held
<1>5. /\ at # "ready" /\ pc = "idle" /\ ~Pipe!Armed /\ ~Pipe!Armed' /\ echoes = Len(answers)
      /\ \A n \in DOMAIN answers : answers[n] = [head |-> n, tail |-> n]
  BY <1>1, <1>2, <1>3 DEF Held, OneHeld, Pipe!Armed
<1>6. QED
  BY <1>1, <1>4, <1>5 DEF OneHeld

(* What the host gets back is what it sent, each command once and in order, for
   any number of commands, if it waits for every answer, no command comes twice
   and no press is brief. *)
THEOREM EchoIsOwnHolds == Spec => []EchoIsOwn
<1>1. Init => EchoHeld
  BY DEF Init, Pipe!Init, EchoHeld, OneHeld, Held, Pipe!Armed
<1>2. TypeOK /\ EndpointWaits /\ EchoHeld /\ [Next]_vars => EchoHeld'
  <2> SUFFICES ASSUME TypeOK, EndpointWaits, EchoHeld, [Next]_vars, ~overran', repeats' = 0, brief' = 0
               PROVE  OneHeld'
    BY DEF EchoHeld
  <2>1. OneHeld
    <3>1. overran => overran'
      BY DEF Next, Tester, Hold, Press, Release, ButtonTest, DisplayTest, UsbTest, BuzzerTest, RfidTest,
             Begin, Await, Decide, Clear, SetInterrupt, SetInterruptGoesOn, Sent, PressButton,
             ReleaseButton, Echo, EchoAgain, InToken, vars, echo
    <3>2. brief \in Nat /\ (brief' = brief \/ brief' = brief + 1)
      BY DEF TypeOK, Next, Tester, Hold, Press, Release, ButtonTest, DisplayTest, UsbTest, BuzzerTest,
             RfidTest, Begin, Await, Decide, Clear, SetInterrupt, SetInterruptGoesOn, Sent,
             PressButton, ReleaseButton, Echo, EchoAgain, InToken, vars
    <3>3. repeats \in Nat /\ (repeats' = repeats \/ repeats' = repeats + 1)
      BY DEF TypeOK, Next, Tester, Hold, Press, Release, ButtonTest, DisplayTest, UsbTest, BuzzerTest,
             RfidTest, Begin, Await, Decide, Clear, SetInterrupt, SetInterruptGoesOn, Sent,
             PressButton, ReleaseButton, Echo, EchoAgain, InToken, vars, echo
    <3>4. repeats = 0 /\ ~EchoAgain
      BY <3>3 DEF EchoAgain
    <3>5. QED
      BY <3>1, <3>2, <3>4 DEF EchoHeld
  <2>2. CASE Hold \/ Press \/ Await \/ Release \/ Sent
    BY <2>1, <2>2, HeldStays DEF Hold, Press, Await, Release, Sent, Goto, echo, endpoint
  <2>3. CASE ButtonTest \/ DisplayTest \/ UsbTest \/ BuzzerTest \/ RfidTest
    BY <2>1, <2>3, Begins, HeldStays DEF echo, endpoint
  <2>4. CASE Decide
    <3>1. ~pressed => echo_ready
      BY <2>4 DEF Decide, TypeOK
    <3>2. QED
      BY <2>1, <2>4, <3>1, HeldStays DEF Decide, Goto, echo, endpoint
  <2>5. CASE Clear
    BY <2>1, <2>5 DEF Clear, Goto, OneHeld, Held, Pipe!Armed, endpoint
  <2>6. CASE SetInterrupt
    BY <2>1, <2>6 DEF SetInterrupt, Goto, Pipe!SetInterrupt, Pipe!Goto, OneHeld, Held, Pipe!Armed, echo
  <2>7. CASE SetInterruptGoesOn
    BY <2>1, <2>7, CommandCopied
  <2>8. CASE PressButton \/ ReleaseButton \/ UNCHANGED vars
    BY <2>1, <2>8 DEF PressButton, ReleaseButton, vars, tester, echo, endpoint, OneHeld, Held, Pipe!Armed
  <2>9. CASE Echo
    BY <2>1, <2>9, CommandComes
  <2>10. CASE InToken
    BY <2>1, <2>10, AnswerFetched
  <2>11. ~EchoAgain
    BY DEF EchoAgain, TypeOK
  <2>12. QED
    BY <2>2, <2>3, <2>4, <2>5, <2>6, <2>7, <2>8, <2>9, <2>10, <2>11 DEF Next, Tester
<1>3. EchoHeld => EchoIsOwn
  BY DEF EchoHeld, OneHeld, EchoIsOwn
<1>4. QED
  BY <1>1, <1>2, <1>3, Typing, PTL DEF Spec
=============================================================================
