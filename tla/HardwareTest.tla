---------------------------- MODULE HardwareTest ----------------------------
(***************************************************************************)
(* The hardware test (test.c), which main enters when the button is held   *)
(* at power-up: a ring of tests, each left by a press of the button; in the*)
(* test of the USB the host's echo commands, which usbFunctionWrite stores *)
(* (main.c), are answered through the interrupt endpoint (InterruptPipe).  *)
(* The watchdog is off: whatever waits, waits for ever.                    *)
(***************************************************************************)
EXTENDS Integers, Sequences

CONSTANTS
  TestPresses, \* presses the test of the button asks for; 10 in test.c
  TestLength,  \* echoes the test of the USB makes; 100 in test.c
  MaxPresses,  \* bound: presses of the button after power-up
  MaxEchoes,   \* bound: echo commands of the host
  MaxRepeats   \* bound: commands the host repeats, their acknowledgement lost

ASSUME LengthsAssumption == TestPresses \in Nat \ {0} /\ TestLength \in 1..255
ASSUME BoundsAssumption  == MaxPresses \in Nat /\ MaxEchoes \in Nat /\ MaxRepeats \in Nat

VARIABLES
  test,          \* the test under way
  at, i,         \* where it is, and its counter
  pressed,       \* is the button pressed?
  echo_ready,    \* set by usbFunctionWrite
  echo_buffer,   \* the number of the echo command the buffer holds
  message,       \* of which commands the two halves of usbTxBuf1 come
  answers,       \* host: the commands it has had answered, likewise
  presses, steps,\* history: presses since power-up; waits for one that have ended
  echoes,        \* history: echo commands so far
  overran,       \* history: did the host send one before it had the answer to the last?
  repeats,       \* history: commands that came again
  brief,         \* history: presses the first look at the button saw, the second did not
  pc, usbTxLen1, token, head, tail, made, expected, received, drops, races

tester   == <<test, at, i, steps>>
button   == <<pressed, presses>>
echo     == <<echo_ready, echo_buffer, echoes, overran, repeats>>
endpoint == <<pc, usbTxLen1, token, head, tail, made, expected, received, drops, races>>
vars     == <<tester, button, echo, message, answers, brief, endpoint>>

(* The endpoint, on a line that loses no answer; a press, and a command that comes
   again, may cause an answer too many. *)
Pipe ==
  INSTANCE InterruptPipe WITH
    Waits <- TRUE, MaxMessages <- MaxEchoes + MaxPresses + MaxRepeats,
    MaxCorrupted <- 0, MaxConfigured <- 0, MaxSelected <- 0,
    corrupted <- 0, configured <- 0, selected <- 0

(* test_state_t: what follows each test *)
NextTest ==
  [start |-> "button", button |-> "display", display |-> "usb", usb |-> "buzzer",
   buzzer |-> "rfid", rfid |-> "button"]

Init ==
  /\ test = "start" /\ at = "hold" /\ i = 0 /\ steps = 0
  /\ pressed = TRUE /\ presses = 0
  /\ echo_ready = FALSE /\ echo_buffer = 0 /\ echoes = 0 /\ overran = FALSE /\ repeats = 0
  /\ message = [head |-> 0, tail |-> 0] /\ answers = <<>> /\ brief = 0
  /\ Pipe!Init

-----------------------------------------------------------------------------
(* test *)

Goto(from, to) == at = from /\ at' = to

(* Slip: the release of the button held at power-up is not waited for. *)
NotHeld ==
  /\ Goto("hold", "press")
  /\ UNCHANGED <<test, i, steps, button, echo, message, answers, brief, endpoint>>

(* Wait for the user to release the button. *)
Hold ==
  /\ Goto("hold", "press") /\ ~pressed
  /\ UNCHANGED <<test, i, steps, button, echo, message, answers, brief, endpoint>>

(* A test prints what it is, does its work, and asks for a press; that of the
   button and that of the USB have work that goes on. *)
Begin(name, next) ==
  /\ test = name /\ Goto("body", next) /\ i' = 0
  /\ UNCHANGED <<test, steps, button, echo, message, answers, brief, endpoint>>

ButtonTest  == Begin("button", "press")
DisplayTest == Begin("display", "press")
UsbTest     == Begin("usb", "await")
BuzzerTest  == Begin("buzzer", "press")

(* It waits for a card and reads it, which CardReader is about. *)
RfidTest    == Begin("rfid", "press")

(* waitForPressAndRelease, ... *)
Press ==
  /\ Goto("press", "release") /\ pressed
  /\ UNCHANGED <<test, i, steps, button, echo, message, answers, brief, endpoint>>

(* ... and what follows it: one more press, or the next test *)
Release ==
  /\ at = "release" /\ ~pressed /\ steps' = steps + 1
  /\ IF test = "button" /\ i < TestPresses
       THEN i' = i + 1 /\ at' = "press" /\ UNCHANGED test
       ELSE test' = NextTest[test] /\ at' = "body" /\ i' = 0
  /\ UNCHANGED <<button, echo, message, answers, brief, endpoint>>

(* The inner loop ends with an echo command, or when the button is pressed; *)
Await ==
  /\ Goto("await", "decide") /\ (echo_ready \/ pressed)
  /\ UNCHANGED <<test, i, steps, button, echo, message, answers, brief, endpoint>>

(* then the button is read again, and if it is not pressed, echo_ready is not. *)
Decide ==
  /\ Goto("decide", IF pressed THEN "press" ELSE "clear")
  /\ brief' = brief + (IF ~pressed /\ ~echo_ready THEN 1 ELSE 0)
  /\ UNCHANGED <<test, i, steps, button, echo, message, answers, endpoint>>

(* Slip: the flag stays set. *)
ClearNothing ==
  /\ Goto("clear", "ready")
  /\ UNCHANGED <<test, i, steps, button, echo, message, answers, brief, endpoint>>

Clear ==
  /\ Goto("clear", "ready") /\ echo_ready' = FALSE
  /\ UNCHANGED <<test, i, steps, button, echo_buffer, echoes, overran, repeats,
                 message, answers, brief, endpoint>>

(* while (!usbInterruptIsReady()), which no press ends; then usbSetInterrupt *)
SetInterrupt ==
  /\ Goto("ready", "set") /\ Pipe!SetInterrupt
  /\ UNCHANGED <<test, i, steps, button, echo, message, answers, brief>>

(* usbSetInterrupt copies echo_buffer, which usbFunctionWrite may fill meanwhile. *)
Copy ==
  \/ Pipe!CopyHead /\ message' = [message EXCEPT !.head = echo_buffer]
  \/ Pipe!CopyTail /\ message' = [message EXCEPT !.tail = echo_buffer]
  \/ (Pipe!Toggle \/ Pipe!Withdraw \/ Pipe!Arm) /\ UNCHANGED message

SetInterruptGoesOn ==
  /\ Copy /\ UNCHANGED <<tester, button, echo, answers, brief>>

(* Slip: the count is compared before it is increased. *)
SentLate ==
  /\ at = "set" /\ pc = "idle" /\ i' = i + 1
  /\ at' = (IF i = TestLength THEN "press" ELSE "await")
  /\ UNCHANGED <<test, steps, button, echo, message, answers, brief, endpoint>>

(* Slip: the flag is cleared when the answer is on its way. *)
SentClears ==
  /\ at = "set" /\ pc = "idle" /\ i' = i + 1
  /\ at' = (IF i' = TestLength THEN "press" ELSE "await")
  /\ echo_ready' = FALSE
  /\ UNCHANGED <<test, steps, button, echo_buffer, echoes, overran, repeats,
                 message, answers, brief, endpoint>>

Sent ==
  /\ at = "set" /\ pc = "idle" /\ i' = i + 1
  /\ at' = (IF i' = TestLength THEN "press" ELSE "await")
  /\ UNCHANGED <<test, steps, button, echo, message, answers, brief, endpoint>>

-----------------------------------------------------------------------------
(* The button, and the host *)

PressButton ==
  /\ ~pressed /\ pressed' = TRUE /\ presses < MaxPresses /\ presses' = presses + 1
  /\ UNCHANGED <<tester, echo, message, answers, brief, endpoint>>

ReleaseButton ==
  /\ pressed /\ pressed' = FALSE
  /\ UNCHANGED <<tester, presses, echo, message, answers, brief, endpoint>>

(* usbFunctionWrite, CMD_ECHO; usbPoll runs it in TIMER0's interrupt. *)
Echo ==
  /\ echoes < MaxEchoes /\ echoes' = echoes + 1
  /\ echo_buffer' = echoes + 1 /\ echo_ready' = TRUE
  /\ overran' = (overran \/ Len(answers) < echoes)
  /\ UNCHANGED <<tester, button, repeats, message, answers, brief, endpoint>>

(* The host missed the acknowledgement: usbFunctionWrite stores the data again. *)
EchoAgain ==
  /\ echoes > 0 /\ repeats < MaxRepeats /\ repeats' = repeats + 1
  /\ echo_ready' = TRUE
  /\ UNCHANGED <<tester, button, echo_buffer, echoes, overran, message, answers, brief, endpoint>>

(* The host reads the endpoint. *)
InToken ==
  /\ \/ Pipe!Accepted /\ answers' = Append(answers, message)
     \/ Pipe!Dropped /\ UNCHANGED answers
  /\ UNCHANGED <<tester, button, echo, message, brief>>

-----------------------------------------------------------------------------
Tester ==
  \/ Hold \/ Press \/ Release
  \/ ButtonTest \/ DisplayTest \/ UsbTest \/ BuzzerTest \/ RfidTest
  \/ Await \/ Decide \/ Clear \/ SetInterrupt \/ SetInterruptGoesOn \/ Sent
Next == Tester \/ PressButton \/ ReleaseButton \/ Echo \/ EchoAgain \/ InToken

Spec == Init /\ [][Next]_vars

(* The processor runs, a button is not pressed for ever, the host polls. *)
FairSpec == Spec /\ WF_vars(Tester) /\ WF_vars(ReleaseButton) /\ WF_vars(InToken)

-----------------------------------------------------------------------------
Commands == 0..MaxEchoes

TypeOK ==
  /\ test \in DOMAIN NextTest
  /\ at \in {"hold", "body", "press", "release", "await", "decide", "clear", "ready", "set"}
  /\ i \in 0..TestLength \cup 0..TestPresses
  /\ pressed \in BOOLEAN /\ echo_ready \in BOOLEAN /\ overran \in BOOLEAN
  /\ echo_buffer \in Commands /\ message \in [head : Commands, tail : Commands]
  /\ answers \in Seq([head : Commands, tail : Commands])
  /\ presses \in 0..MaxPresses /\ echoes \in 0..MaxEchoes /\ repeats \in 0..MaxRepeats
  /\ steps \in Nat /\ brief \in Nat
  /\ Pipe!TypeOK

(* What the host gets back is what it sent, each command once and in order, as
   long as it waits for every answer, no acknowledgement of a command is lost on
   the line, which brings the command twice and so its answer, and no press was
   so brief that only the first of the two looks at the button saw it: then the
   buffer is sent without a command, whatever it holds. *)
EchoIsOwn ==
  ~overran /\ repeats = 0 /\ brief = 0 =>
    \A n \in DOMAIN answers : answers[n] = [head |-> n, tail |-> n]

(* A press leads on by one step at most: that which started the test counts for
   none, and that which skips the test of the USB is the one that leaves it. *)
PressesPayForSteps == steps <= presses

(* A command that comes while the test of the USB is under way is answered, if
   the button does not end it and no other command comes before. *)
EchoAnswered ==
  \A n \in 1..MaxEchoes :
    echoes = n /\ at \in {"await", "decide", "clear", "ready", "set"} ~>
      \/ \E k \in DOMAIN answers : answers[k].tail = n
      \/ echoes > n \/ at \notin {"await", "decide", "clear", "ready", "set"}

(* The test waits for the endpoint: every message it sets arrives. *)
EveryMessageArrives == Pipe!EveryMessageArrives
=============================================================================
