---------------------------- MODULE InterruptPipe ----------------------------
(***************************************************************************)
(* Interrupt endpoint 1, through which the terminal reports card scans:    *)
(* usbSetInterrupt (usbdrv.c), which the main loop runs with interrupts    *)
(* enabled, against the receiver interrupt that answers the host's IN      *)
(* tokens (asmcommon.inc), and the host with its own data toggle.          *)
(***************************************************************************)
EXTENDS Integers, Sequences

CONSTANTS
  Waits,         \* does the caller wait until the endpoint is ready?
                 \* test.c: while(!usbInterruptIsReady()); main.c: if(...)
  MaxMessages,   \* bound: messages made
  MaxCorrupted,  \* bound: packets the host receives with errors
  MaxConfigured, \* bound: SET_CONFIGURATION requests
  MaxSelected    \* bound: SET_INTERFACE requests

ASSUME WaitsAssumption == Waits \in BOOLEAN
ASSUME BoundsAssumption ==
  MaxMessages \in Nat /\ MaxCorrupted \in Nat /\ MaxConfigured \in Nat /\ MaxSelected \in Nat

VARIABLES
  pc,         \* where usbSetInterrupt is
  usbTxLen1,  \* the length of the message in the buffer, or the NAK handshake
  token,      \* 0 for DATA0, 1 for DATA1 in the first byte of the buffer
  head, tail, \* the message the two halves of the buffer's data come from
  made,       \* messages made so far; the last one is being set or was set
  expected,   \* host: the data token it expects next
  received,   \* host: the messages it accepted
  drops,      \* history: packets the host took for repeated ones
  races,      \* history: packets sent between usbSetInterrupt's test and NAK
  corrupted, configured, selected  \* history: faults and requests so far

driver == <<pc, usbTxLen1, token, head, tail, made>>
host   == <<expected, received, drops>>
counts == <<races, corrupted, configured, selected>>
vars   == <<driver, host, counts>>

(* Slip: the tokens' difference is added, not flipped. *)
FlipByAdding(t) == t + 1

Flip(t) == 1 - t

Armed == usbTxLen1 # "NAK"

(* usbInit, and a host that has just configured the device. *)
Init ==
  /\ pc = "idle" /\ usbTxLen1 = "NAK" /\ token = 1 /\ head = 0 /\ tail = 0 /\ made = 0
  /\ expected = 0 /\ received = <<>> /\ drops = 0
  /\ races = 0 /\ corrupted = 0 /\ configured = 0 /\ selected = 0

-----------------------------------------------------------------------------
(* The caller and usbGenericSetInterrupt. *)

Goto(from, to) == pc = from /\ pc' = to

(* The test whether the buffer was empty. *)
SetInterrupt ==
  /\ Goto("idle", IF Armed THEN "withdraw" ELSE "toggle")
  /\ Waits => ~Armed
  /\ made < MaxMessages /\ made' = made + 1
  /\ UNCHANGED <<usbTxLen1, token, head, tail, host, counts>>

(* Slip: a message for an empty buffer keeps the token of the one before. *)
ToggleNothing ==
  /\ Goto("toggle", "copy_head")
  /\ UNCHANGED <<usbTxLen1, token, head, tail, made, host, counts>>

Toggle ==
  /\ Goto("toggle", "copy_head") /\ token' = Flip(token)
  /\ UNCHANGED <<usbTxLen1, head, tail, made, host, counts>>

(* Slip: the outdated message stays armed while it is overwritten. *)
WithdrawNothing ==
  /\ Goto("withdraw", "copy_head")
  /\ UNCHANGED <<usbTxLen1, token, head, tail, made, host, counts>>

(* Slip: the token is flipped for a message that replaces an unsent one. *)
WithdrawAndToggle ==
  /\ Goto("withdraw", "copy_head") /\ usbTxLen1' = "NAK" /\ token' = Flip(token)
  /\ UNCHANGED <<head, tail, made, host, counts>>

Withdraw ==
  /\ Goto("withdraw", "copy_head") /\ usbTxLen1' = "NAK"
  /\ UNCHANGED <<token, head, tail, made, host, counts>>

CopyHead ==
  /\ Goto("copy_head", "copy_tail") /\ head' = made
  /\ UNCHANGED <<usbTxLen1, token, tail, made, host, counts>>

(* The rest of the bytes, and the CRC over all of them. *)
CopyTail ==
  /\ Goto("copy_tail", "arm") /\ tail' = made
  /\ UNCHANGED <<usbTxLen1, token, head, made, host, counts>>

Arm ==
  /\ Goto("arm", "idle") /\ usbTxLen1' = "length"
  /\ UNCHANGED <<token, head, tail, made, host, counts>>

-----------------------------------------------------------------------------
(* The receiver interrupt, and what the host does with the packet.  The length
   becomes NAK as the packet is sent, whatever the host's answer will be. *)

CountRace == races' = races + (IF pc = "withdraw" THEN 1 ELSE 0)

HandleIn1 ==
  /\ Armed /\ usbTxLen1' = "NAK" /\ CountRace
  /\ UNCHANGED <<pc, token, head, tail, made>>

Accepted ==
  /\ HandleIn1 /\ token = expected
  /\ expected' = Flip(expected) /\ received' = Append(received, [head |-> head, tail |-> tail])
  /\ UNCHANGED <<drops, corrupted, configured, selected>>

(* The host acknowledges a packet with the other token and drops it. *)
Dropped ==
  /\ HandleIn1 /\ token # expected /\ drops' = drops + 1
  /\ UNCHANGED <<expected, received, corrupted, configured, selected>>

Corrupted ==
  /\ HandleIn1
  /\ corrupted < MaxCorrupted /\ corrupted' = corrupted + 1
  /\ UNCHANGED <<host, configured, selected>>

(* SET_CONFIGURATION: the host starts over with DATA0, the driver does not. *)
SetConfiguration ==
  /\ configured < MaxConfigured /\ configured' = configured + 1
  /\ expected' = 0
  /\ UNCHANGED <<driver, received, drops, races, corrupted, selected>>

(* SET_INTERFACE: usbResetDataToggling. *)
SetInterface ==
  /\ selected < MaxSelected /\ selected' = selected + 1
  /\ expected' = 0 /\ token' = 1
  /\ UNCHANGED <<pc, usbTxLen1, head, tail, made, received, drops,
                 races, corrupted, configured>>

-----------------------------------------------------------------------------
Caller == SetInterrupt \/ Toggle \/ Withdraw \/ CopyHead \/ CopyTail \/ Arm
InToken == Accepted \/ Dropped \/ Corrupted
Next == Caller \/ InToken \/ SetConfiguration \/ SetInterface

Spec == Init /\ [][Next]_vars

(* The processor runs usbSetInterrupt to its end; the host polls the endpoint
   at the interval its descriptor asks for. *)
FairSpec ==
  /\ Spec /\ WF_vars(Toggle \/ Withdraw \/ CopyHead \/ CopyTail \/ Arm) /\ WF_vars(InToken)

-----------------------------------------------------------------------------
TypeOK ==
  /\ pc \in {"idle", "toggle", "withdraw", "copy_head", "copy_tail", "arm"}
  /\ usbTxLen1 \in {"NAK", "length"} /\ token \in {0, 1} /\ expected \in {0, 1}
  /\ made \in 0..MaxMessages /\ head \in 0..made /\ tail \in 0..made
  /\ received \in Seq([head : Nat, tail : Nat])
  /\ drops \in Nat /\ races \in Nat
  /\ corrupted \in 0..MaxCorrupted /\ configured \in 0..MaxConfigured
  /\ selected \in 0..MaxSelected

(* The endpoint is a mailbox: what the host accepts is whole, in order and
   never twice, although the buffer is refilled while the host may fetch it,
   and although the two data tokens may get out of step. *)
Endpoint ==
  INSTANCE Mailbox WITH
    put       <- IF pc = "idle" THEN made ELSE made - 1,
    slot      <- IF Armed THEN {[head |-> head, tail |-> tail]} ELSE {},
    delivered <- received
IsMailbox == Endpoint!Spec

(* A message the driver sent and the host received without error is dropped
   only for a cause, and each cause costs one message at most: a corrupted
   packet, a change of configuration or interface, or a packet sent while
   usbSetInterrupt believed it was still in the buffer. *)
LossIsAccountedFor == drops <= corrupted + configured + selected + races

(* A caller that waits for the endpoint, on a line without errors, loses
   nothing: every message it set is accepted, in the order it set them. *)
EveryMessageArrives ==
  \A n \in 1..MaxMessages : made >= n ~> Len(received) >= n /\ received[n].tail = n

(* usbdrv.h:228, "If you set a new interrupt message before the old was sent,
   the message already buffered will be lost": the new one is not. *)
NewMessageIsSent ==
  pc = "idle" /\ ~Armed /\ made > 0 =>
    received # <<>> /\ received[Len(received)].head = made
=============================================================================
