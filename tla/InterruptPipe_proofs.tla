------------------------ MODULE InterruptPipe_proofs ------------------------
(***************************************************************************)
(* Proofs about InterruptPipe, for callers that wait and callers that do   *)
(* not, and for any number of messages, errors and requests.               *)
(***************************************************************************)
EXTENDS InterruptPipe, TLAPS

(* The host would accept the next packet: one in the buffer, or one being put
   there, has the token it expects; otherwise the next one is flipped first. *)
Refilling == pc \in {"withdraw", "copy_head", "copy_tail", "arm"}
InStep == IF Armed \/ Refilling THEN token = expected ELSE token # expected

(* A packet to be dropped has been paid for already. *)
Causes == corrupted + configured + selected + races
LossPaid ==
  /\ InStep => drops <= Causes
  /\ ~InStep => drops + 1 <= Causes

(* The buffer is armed only outside of the copy loop, and then it holds one
   message; at the end of the call it holds the one the call was made for. *)
BufferWhole ==
  /\ Armed => pc \in {"idle", "withdraw"} /\ head = tail
  /\ Armed /\ pc = "idle" => head = made
  /\ pc = "copy_tail" => head = made
  /\ pc = "arm" => head = made /\ tail = made

(* Every variable keeps its type. *)
THEOREM Typing == Spec => []TypeOK
<1>1. Init => TypeOK
  BY BoundsAssumption DEF Init, TypeOK
<1>2. TypeOK /\ [Next]_vars => TypeOK'
  <2> SUFFICES ASSUME TypeOK, [Next]_vars PROVE TypeOK'
    OBVIOUS
  <2> USE BoundsAssumption DEF TypeOK, Armed
  <2>1. CASE SetInterrupt
    BY <2>1 DEF SetInterrupt, Goto, host, counts
  <2>2. CASE Toggle \/ Withdraw \/ CopyHead \/ CopyTail \/ Arm
    BY <2>2 DEF Toggle, Withdraw, CopyHead, CopyTail, Arm, Goto, Flip, host, counts
  <2>3. CASE Accepted
    <3>1. [head |-> head, tail |-> tail] \in [head : Nat, tail : Nat]
      OBVIOUS
    <3>2. received' \in Seq([head : Nat, tail : Nat])
      BY <2>3, <3>1 DEF Accepted
    <3>3. QED
      BY <2>3, <3>2 DEF Accepted, HandleIn1, CountRace, Flip
  <2>4. CASE Dropped
    BY <2>4 DEF Dropped, HandleIn1, CountRace
  <2>5. CASE Corrupted
    BY <2>5 DEF Corrupted, HandleIn1, CountRace, host
  <2>6. CASE SetConfiguration
    BY <2>6 DEF SetConfiguration, driver
  <2>7. CASE SetInterface
    BY <2>7 DEF SetInterface
  <2>8. CASE UNCHANGED vars
    BY <2>8 DEF vars, driver, host, counts
  <2>9. QED
    BY <2>1, <2>2, <2>3, <2>4, <2>5, <2>6, <2>7, <2>8 DEF Next, Caller, InToken
<1>3. QED
  BY <1>1, <1>2, PTL DEF Spec

LEMMA BufferInvariance == Spec => []BufferWhole
<1>1. Init => BufferWhole
  BY DEF Init, BufferWhole, Armed
<1>2. TypeOK /\ BufferWhole /\ [Next]_vars => BufferWhole'
  <2> SUFFICES ASSUME TypeOK, BufferWhole, [Next]_vars PROVE BufferWhole'
    OBVIOUS
  <2> USE DEF TypeOK, BufferWhole, Armed
  <2>1. CASE Caller
    BY <2>1 DEF Caller, SetInterrupt, Toggle, Withdraw, CopyHead, CopyTail, Arm,
                Goto, host, counts
  <2>2. CASE InToken
    BY <2>2 DEF InToken, Accepted, Dropped, Corrupted, HandleIn1, host
  <2>3. CASE SetConfiguration \/ SetInterface
    BY <2>3 DEF SetConfiguration, SetInterface, driver
  <2>4. CASE UNCHANGED vars
    BY <2>4 DEF vars, driver, host, counts
  <2>5. QED
    BY <2>1, <2>2, <2>3, <2>4 DEF Next
<1>3. QED
  BY <1>1, <1>2, Typing, PTL DEF Spec

(* A dropped message has a cause of its own (LossIsAccountedFor): a new message
   keeps the token of the unsent one it replaces, a sent one's is flipped. *)
THEOREM LossIsAccountedForHolds == Spec => []LossIsAccountedFor
<1> USE DEF InStep, Refilling, Armed
<1>1. Init => LossPaid
  BY DEF Init, LossPaid, Causes
<1>2. TypeOK /\ BufferWhole /\ LossPaid /\ [Next]_vars => LossPaid'
  <2> SUFFICES ASSUME TypeOK, BufferWhole, LossPaid, [Next]_vars PROVE LossPaid'
    OBVIOUS
  <2>1. /\ corrupted \in Int /\ configured \in Int /\ selected \in Int /\ races \in Int
        /\ drops \in Int /\ token \in {0, 1} /\ expected \in {0, 1}
        /\ Armed => pc \in {"idle", "withdraw"}
    BY BoundsAssumption DEF TypeOK, BufferWhole
  <2>2. CASE SetInterrupt
    BY <2>1, <2>2 DEF SetInterrupt, Goto, host, counts, LossPaid, Causes
  <2>3. CASE Toggle
    <3>1. ~Armed /\ ~Armed' /\ Refilling' /\ ~Refilling
      BY <2>1, <2>3 DEF Toggle, Goto
    <3>2. InStep' <=> InStep
      BY <2>1, <2>3, <3>1 DEF Toggle, Flip, host
    <3>3. drops' = drops /\ Causes' = Causes
      BY <2>3 DEF Toggle, host, counts, Causes
    <3>4. QED
      BY <3>2, <3>3 DEF LossPaid
  <2>4. CASE Withdraw \/ CopyHead \/ CopyTail \/ Arm
    BY <2>1, <2>4 DEF Withdraw, CopyHead, CopyTail, Arm, Goto, host, counts, LossPaid, Causes
  <2>5. ASSUME HandleIn1 PROVE
           /\ Armed /\ ~Armed' /\ token' = token
           /\ \/ pc = "idle" /\ ~Refilling' /\ races' = races
              \/ pc = "withdraw" /\ Refilling' /\ races' = races + 1
    BY <2>1, <2>5 DEF HandleIn1, CountRace
  <2>6. CASE Accepted
    <3>1. InStep /\ (InStep' <=> ~Refilling')
      BY <2>1, <2>5, <2>6 DEF Accepted, Flip
    <3>2. drops' = drops /\ Causes' = Causes + (races' - races)
      BY <2>1, <2>5, <2>6 DEF Accepted, Causes
    <3>3. QED
      BY <2>1, <2>5, <2>6, <3>1, <3>2 DEF LossPaid, Causes, Accepted
  <2>7. CASE Dropped
    <3>1. ~InStep /\ (InStep' <=> ~Refilling')
      BY <2>1, <2>5, <2>7 DEF Dropped
    <3>2. drops' = drops + 1 /\ Causes' = Causes + (races' - races)
      BY <2>1, <2>5, <2>7 DEF Dropped, Causes
    <3>3. QED
      BY <2>1, <2>5, <2>7, <3>1, <3>2 DEF LossPaid, Causes, Dropped
  <2>8. CASE Corrupted \/ SetConfiguration \/ SetInterface
    <3>1. drops' = drops
      BY <2>8 DEF Corrupted, SetConfiguration, SetInterface, host
    <3>2. Causes' >= Causes + 1
      <4>1. CASE Corrupted
        BY <2>1, <2>5, <4>1 DEF Corrupted, Causes
      <4>2. CASE SetConfiguration \/ SetInterface
        BY <2>1, <4>2 DEF SetConfiguration, SetInterface, Causes
      <4>3. QED
        BY <2>8, <4>1, <4>2
    <3>3. Causes \in Int /\ Causes' \in Int
      <4>1. CASE Corrupted
        BY <2>1, <2>5, <4>1 DEF Corrupted, Causes
      <4>2. CASE SetConfiguration \/ SetInterface
        BY <2>1, <4>2 DEF SetConfiguration, SetInterface, Causes
      <4>3. QED
        BY <2>8, <4>1, <4>2
    <3>4. QED
      BY <2>1, <3>1, <3>2, <3>3 DEF LossPaid
  <2>9. CASE UNCHANGED vars
    BY <2>9 DEF vars, driver, host, counts, LossPaid, Causes
  <2>10. QED
    BY <2>2, <2>3, <2>4, <2>6, <2>7, <2>8, <2>9 DEF Next, Caller, InToken
<1>3. TypeOK /\ LossPaid => LossIsAccountedFor
  BY BoundsAssumption DEF TypeOK, LossIsAccountedFor, LossPaid, Causes
<1>4. QED
  BY <1>1, <1>2, <1>3, Typing, BufferInvariance, PTL DEF Spec

(* The endpoint implements a mailbox (IsMailbox): the call of usbSetInterrupt
   that ends puts its message, the IN token that is answered delivers or loses
   it, the NAK that withdraws it loses it, and all other steps change nothing. *)
THEOREM IsMailboxHolds == Spec => IsMailbox
<1> DEFINE Put   == IF pc = "idle" THEN made ELSE made - 1
           Slot  == IF Armed THEN {[head |-> head, tail |-> tail]} ELSE {}
<1>1. Init => Endpoint!Init
  BY DEF Init, Endpoint!Init, Armed
<1>2. TypeOK /\ BufferWhole /\ [Next]_vars => [Endpoint!Next]_Endpoint!mailbox
  <2> SUFFICES ASSUME TypeOK, BufferWhole, [Next]_vars
               PROVE  Endpoint!Put \/ Endpoint!Deliver \/ Endpoint!Lose
                        \/ UNCHANGED Endpoint!mailbox
    BY DEF Endpoint!Next
  <2> USE DEF TypeOK, BufferWhole, Armed
  <2>1. CASE SetInterrupt \/ Toggle \/ CopyHead \/ CopyTail
    <3>1. UNCHANGED Put
      BY <2>1 DEF SetInterrupt, Toggle, CopyHead, CopyTail, Goto
    <3>2. UNCHANGED Slot /\ UNCHANGED received
      BY <2>1 DEF SetInterrupt, Toggle, CopyHead, CopyTail, Goto, host
    <3>3. QED
      BY <3>1, <3>2 DEF Endpoint!mailbox
  <2>2. CASE Arm
    BY <2>2 DEF Arm, Goto, host, Endpoint!Put, Endpoint!Whole
  <2>3. CASE Withdraw
    BY <2>3 DEF Withdraw, Goto, host, Endpoint!Lose, Endpoint!mailbox
  <2>4. CASE Accepted
    BY <2>4 DEF Accepted, HandleIn1, Endpoint!Deliver
  <2>5. CASE Dropped \/ Corrupted
    BY <2>5 DEF Dropped, Corrupted, HandleIn1, host, Endpoint!Lose
  <2>6. CASE SetConfiguration \/ SetInterface \/ UNCHANGED vars
    BY <2>6 DEF SetConfiguration, SetInterface, vars, driver, host, Endpoint!mailbox
  <2>7. QED
    BY <2>1, <2>2, <2>3, <2>4, <2>5, <2>6 DEF Next, Caller, InToken
<1>3. QED
  BY <1>1, <1>2, Typing, BufferInvariance, PTL DEF Spec, IsMailbox, Endpoint!Spec
=============================================================================
