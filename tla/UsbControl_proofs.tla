------------------------- MODULE UsbControl_proofs -------------------------
(***************************************************************************)
(* Proofs about UsbControl, for any number of transfers, resets, restarts  *)
(* and losses, and for any reads, lengths of writes and addresses.         *)
(***************************************************************************)
EXTENDS UsbControl, TLAPS

(* The device is connected, and its interrupt enabled. *)
On == pc \notin {"off", "disconnected"}

(* A SETUP packet, or what is taken for one, waits for usbPoll, or is being
   processed. *)
SetupWaits == \E p \in rx : p.tok = "SETUP" /\ p.len = 8

(* How usbPoll and the receiver share the buffers; what a device that is off
   keeps; and how far the host is when the device has a packet to process. *)
Structure ==
  /\ ~On => rx = {} /\ tx = {} /\ usbDeviceAddr = 0 /\ usbNewDeviceAddr = 0
  /\ pc = "disconnected" => bus = "detached"
  /\ pc # "off" /\ bus # "idle" => stage = "aborted" /\ request = NoRequest /\ address = 0
  /\ pc \in {"process", "setup", "free"} => rx # {}
  /\ pc = "setup" => SetupWaits /\ tx = {} /\ txToken = 0
  /\ pc \in {"build", "arm"} => tx = {}
  /\ pc = "build" => usbMsgLen # USB_NO_MSG
  /\ SetupWaits => stage # "done" /\ (stage = "status" => request.kind # "read")
  /\ SetupWaits \/ stage \in {"setup", "aborted"} \/ request.kind # "read" =>
       hostToken = 1 /\ got = 0
  /\ \A n \in mistaken : n <= no

(* Data received is that of the transfer that was set up last, or mistaken. *)
DataFollows == \A p \in rx : p.tok = "OUT" => p.of = setups \/ p.of \in mistaken

(* The host is past the SETUP stage of a transfer with a device that is on, and
   no packet of it has been mistaken. *)
Underway == On /\ stage \notin {"setup", "aborted"} /\ no \notin mistaken

(* What waits in the receive buffer then is of that transfer, and is its SETUP
   packet, or the data of a write. *)
ReceivedIsOwn ==
  \A p \in rx :
    /\ p.of = no /\ p.request = request
    /\ request.kind # "write" => p.tok = "SETUP" /\ p.len = 8

(* The SETUP packet has been processed. *)
Served == ~SetupWaits \/ pc = "free"

(* The packet the host has not fetched yet *)
Outgoing == tx \cup (IF pc = "arm" THEN {block} ELSE {})

(* A read: each block follows on the bytes the host has, with the data token
   the host expects; what ends the reply is its last block. *)
BlocksInTurn ==
  LET len == Reply(request) IN
  /\ usbMsgLen # USB_NO_MSG => usbMsgLen = len - usbMsgPtr.at
  /\ usbMsgPtr.at <= len
  /\ Outgoing = {} => txToken # hostToken /\ usbMsgPtr.at = got
  /\ \A p \in Outgoing :
       /\ txToken = hostToken /\ p.at = got /\ p.at + p.len = usbMsgPtr.at
       /\ p.len < PacketSize => usbMsgPtr.at = len
  /\ stage \in {"status", "done"} => got = len

(* All that the device has is of the transfer under way. *)
Handled ==
  /\ setups = no /\ usbMsgPtr.of = no
  /\ \A p \in Outgoing : p.of = no
  /\ request.kind = "address" => usbNewDeviceAddr = request.value
  /\ request.kind = "address" /\ ~estranged /\ stage = "status" =>
       (Outgoing = {} <=> txToken # hostToken)
  /\ request.kind = "write" /\ (Outgoing # {} \/ usbMsgLen # USB_NO_MSG) => no \in writes
  /\ request.kind # "read" => usbMsgLen \in {0, USB_NO_MSG} /\ \A p \in Outgoing : p.len = 0
  /\ request.kind = "read" /\ no \notin damaged => BlocksInTurn

OwnTransfer ==
  /\ Underway => ReceivedIsOwn
  /\ Underway /\ Served => Handled

(* An address is being assigned: until then both sides use 0, and the device may
   have the new one in store.  At all other times it has the one in use, and
   nothing in its buffer that could change it. *)
Assigning ==
  /\ address = 0 /\ usbNewDeviceAddr \in {0, request.value}
  /\ \A p \in rx :
       p.tok = "SETUP" /\ p.len = 8 /\ p.request.kind = "address" => p.request = request
Settled == usbNewDeviceAddr = address /\ ~AddressWaits
AddressInUse ==
  On /\ ~estranged =>
    /\ request.kind = "address" => no \notin mistaken
    /\ bus = "idle" => usbDeviceAddr = address
    /\ bus = "idle" => IF AddressAbandoned THEN Assigning ELSE Settled
    /\ bus # "idle" => ~AddressWaits
    /\ bus = "reset_seen" => usbDeviceAddr = 0 /\ usbNewDeviceAddr = 0

-----------------------------------------------------------------------------
(* What a transfer asks for has its type. *)
LEMMA RequestFields ==
  ASSUME NEW r \in Contents
  PROVE  /\ r.kind \in {"none", "write", "address", "read"} /\ r.value \in Addresses \cup {0}
         /\ r.what \in DOMAIN ReplyLen \cup {"message"} /\ r.want \in 0..(USB_NO_MSG - 1)
         /\ r.what = "message" => r.kind = "read"
<1> "other" \in DOMAIN ReplyLen /\ "other" # "message"
  BY DEF ReplyLen
<1>1. CASE r \in [kind : {"none"}, value : {0}, what : {"other"}, want : {0}]
  BY <1>1 DEF USB_NO_MSG
<1>2. CASE r \in [kind : {"write"}, value : {0}, what : {"other"}, want : WriteLens]
  <2>1. r.want \in 1..8
    BY <1>2, LengthsAssumption
  <2>2. QED
    BY <1>2, <2>1 DEF USB_NO_MSG
<1>3. CASE r \in [kind : {"address"}, value : Addresses \cup {0}, what : {"other"}, want : {0}]
  BY <1>3 DEF USB_NO_MSG
<1>4. CASE r \in [kind : {"read"}, value : {0}, what : Asked, want : Wants]
  <2>1. r.want \in 1..(USB_NO_MSG - 1)
    BY <1>4, LengthsAssumption
  <2>2. r.what \in DOMAIN ReplyLen \cup {"message"}
    BY <1>4, AskedAssumption
  <2>3. QED
    BY <1>4, <2>1, <2>2 DEF USB_NO_MSG
<1>5. QED
  BY <1>1, <1>2, <1>3, <1>4 DEF Contents, Requests

(* A reply is at most as long as a packet counter allows: that to a read, but no
   other, as long as the host asks for, at most; and there is none to a request
   without data. *)
LEMMA ReplyFits ==
  ASSUME NEW r \in Contents
  PROVE  /\ Reply(r) \in 0..USB_NO_MSG
         /\ r.kind = "write" => Reply(r) = USB_NO_MSG
         /\ r.kind # "write" => Reply(r) <= r.want
         /\ r.kind \in {"none", "address"} => Reply(r) = 0
<1>1. \A what \in DOMAIN ReplyLen : ReplyLen[what] \in 0..25
  BY DEF ReplyLen, StringLen
<1>2. /\ r.kind \in {"none", "write", "address", "read"} /\ r.want \in 0..(USB_NO_MSG - 1)
      /\ r.what \in DOMAIN ReplyLen \cup {"message"} /\ (r.what = "message" => r.kind = "read")
  BY RequestFields
<1>3. r.kind \in {"none", "address"} => r.want = 0
  BY DEF Contents, Requests
<1>4. CASE r.kind = "write"
  BY <1>4 DEF Reply, UsesUserRW, USB_NO_MSG
<1>5. CASE r.what = "message"
  BY <1>2, <1>5 DEF Reply, UsesUserRW, USB_NO_MSG
<1>6. CASE r.kind # "write" /\ r.what # "message"
  <2>1. ReplyLen[r.what] \in 0..25
    BY <1>1, <1>2, <1>6
  <2>2. Reply(r) = IF ReplyLen[r.what] <= r.want THEN ReplyLen[r.what] ELSE r.want
    BY <1>6 DEF Reply, UsesUserRW
  <2>3. QED
    BY <1>2, <1>3, <1>6, <2>1, <2>2 DEF USB_NO_MSG
<1>7. QED
  BY <1>4, <1>5, <1>6

(* Every variable has its type. *)
THEOREM Typing == Spec => []TypeOK
<1> /\ MaxTransfers \in Int /\ MaxTransfers >= 0 /\ MaxLostAcks \in Int /\ MaxLostAcks >= 0
    /\ MaxLostTokens \in Int /\ MaxLostTokens >= 0 /\ MaxResets \in Int /\ MaxResets >= 0
    /\ MaxRestarts \in Int /\ MaxRestarts >= 0
  BY BoundsAssumption
<1>a. NoRequest \in Requests
  BY DEF NoRequest, Requests
<1>b. Nothing \in [of : Transfers, at : Nat, len : 0..PacketSize]
  BY DEF Nothing, Transfers, PacketSize
<1>1. Init => TypeOK
  <2> SUFFICES ASSUME Init PROVE TypeOK
    OBVIOUS
  <2>1. userRW \in BOOLEAN /\ estranged \in BOOLEAN /\ request \in Requests
    BY <1>a DEF Init
  <2>2. usbMsgPtr \in [of : Transfers, at : Nat]
    BY DEF Init, Transfers
  <2>3. QED
    BY <1>b, <2>1, <2>2 DEF Init, TypeOK, Transfers, USB_NO_MSG
<1>2. TypeOK /\ [Next]_vars => TypeOK'
  <2> SUFFICES ASSUME TypeOK, [Next]_vars PROVE TypeOK'
    OBVIOUS
  <2> DEFINE Packets == [tok : {"SETUP", "OUT"}, of : Transfers, len : {8} \cup WriteLens,
                         request : Contents]
  <2>a. ASSUME NEW tok \in {"SETUP", "OUT"}, NEW len \in {8} \cup WriteLens, NEW r \in Contents,
               Store(tok, len, r)
        PROVE  /\ rx' \subseteq Packets /\ \A p, q \in rx' : p = q
               /\ usbCurrentTok' \in {"none", "SETUP", "OUT"}
    BY <2>a DEF Store, TypeOK
  <2>b. estranged' \in BOOLEAN
    BY DEF TypeOK, Next, UsbPoll, Poll, Abort, Setup, Ignore, Write, Free, Transmit, Build, Arm,
           ResetSeen, IsNotReset, StartUp, Disconnect, Connect, Restart, BusReset, EndReset,
           Transaction, SetupPacket, DataPacket, InData, InStatus, OutStatus, NewTransfer,
           TokenLost, SetupTokenLost, DataTokenLost, StatusTokenLost, TakenFor,
           IgnorePacket, InDamaged, vars, faults
  <2>c. UNCHANGED counts =>
          /\ lostAcks' \in 0..MaxLostAcks /\ lostTokens' \in 0..MaxLostTokens
          /\ resets' \in 0..MaxResets /\ restarts' \in 0..MaxRestarts
    BY DEF TypeOK, counts
  <2>1. CASE Poll \/ Ignore \/ Transmit \/ IsNotReset
    BY <2>b, <2>c, <2>1 DEF Poll, Ignore, Transmit, IsNotReset, Goto, TypeOK, message, receive, send, host, faults
  <2>2. CASE Abort
    BY <2>b, <2>c, <2>2 DEF Abort, Goto, TypeOK, receive, host, faults
  <2>3. CASE Setup
    <3>1. PICK p \in rx :
            /\ usbMsgLen' = Reply(p.request) /\ userRW' = UsesUserRW(p.request)
            /\ usbMsgPtr' = [of |-> p.of, at |-> 0] /\ setups' = p.of
            /\ usbNewDeviceAddr' = IF p.request.kind = "address" THEN p.request.value
                                   ELSE usbNewDeviceAddr
      BY <2>3 DEF Setup
    <3>2. p.request \in Contents /\ p.of \in Transfers
      BY DEF TypeOK
    <3>3. userRW' \in BOOLEAN
      BY <3>1 DEF UsesUserRW
    <3>4. /\ usbMsgLen' \in 0..USB_NO_MSG /\ usbMsgPtr' \in [of : Transfers, at : Nat]
          /\ setups' \in Transfers /\ usbNewDeviceAddr' \in Addresses \cup {0}
      BY <3>1, <3>2, RequestFields, ReplyFits DEF TypeOK
    <3>5. UNCHANGED <<block, writes, receive, send, host, faults>> /\ pc' = "free"
      BY <2>3 DEF Setup, Goto
    <3>6. QED
      BY <2>b, <2>c, <3>3, <3>4, <3>5 DEF TypeOK, receive, send, host, faults
  <2>4. CASE Write
    <3>1. writes' \subseteq Transfers
      BY <2>4 DEF Write, TypeOK
    <3>2. QED
      BY <2>b, <2>c, <2>4, <3>1 DEF Write, Goto, TypeOK, receive, send, host, faults, USB_NO_MSG
  <2>5. CASE Free \/ Arm
    BY <2>b, <2>c, <2>5 DEF Free, Arm, Goto, TypeOK, message, receive, send, host, faults
  <2>6. CASE Build
    <3>1. NextLen \in 0..PacketSize /\ usbMsgLen' \in 0..USB_NO_MSG
      BY <2>6 DEF Build, NextLen, PacketSize, USB_NO_MSG, TypeOK
    <3>2. /\ block' \in [of : Transfers, at : Nat, len : 0..PacketSize]
          /\ usbMsgPtr' \in [of : Transfers, at : Nat] /\ txToken' \in {0, 1}
      BY <2>6, <3>1 DEF Build, PacketSize, TypeOK
    <3>3. QED
      BY <2>b, <2>c, <2>6, <3>1, <3>2 DEF Build, Goto, TypeOK, receive, host, faults
  <2>7. CASE ResetSeen
    BY <2>b, <2>c, <2>7 DEF ResetSeen, Goto, TypeOK, message, receive
  <2>8. CASE Disconnect \/ Connect
    BY <1>a, <2>b, <2>c, <2>8 DEF Disconnect, Connect, Goto, Forget, TypeOK, message, receive, send, faults
  <2>9. CASE Restart
    <3>1. userRW' \in BOOLEAN
      BY <2>9 DEF Restart
    <3>2. usbMsgPtr' \in [of : Transfers, at : Nat] /\ restarts' \in 0..MaxRestarts
      BY <2>9 DEF Restart, Transfers, TypeOK
    <3>3. /\ pc' = "off" /\ rx' = {} /\ usbCurrentTok' = "none" /\ tx' = {} /\ txToken' = 0
          /\ block' = Nothing /\ usbMsgLen' = USB_NO_MSG /\ usbDeviceAddr' = 0 /\ usbNewDeviceAddr' = 0
          /\ UNCHANGED <<setups, writes, host, damaged, mistaken, lostAcks, lostTokens, resets>>
      BY <2>9 DEF Restart
    <3>4. QED
      BY <1>b, <2>b, <3>1, <3>2, <3>3 DEF TypeOK, host, USB_NO_MSG
  <2>10. CASE BusReset \/ EndReset
    <3>1. CASE BusReset
      <4>1. resets' \in 0..MaxResets /\ UNCHANGED <<poll, receive, send, no, damaged, mistaken, lostAcks, lostTokens, restarts>>
        BY <3>1 DEF BusReset, TypeOK
      <4>2. bus' = "reset" /\ Forget
        BY <3>1 DEF BusReset
      <4>3. QED
        BY <1>a, <2>b, <4>1, <4>2 DEF Forget, TypeOK, poll, message, receive, send
    <3>2. CASE EndReset
      <4>1. bus' = "idle" /\ UNCHANGED <<poll, receive, send, no, request, stage, got, hostToken, address,
                                        damaged, mistaken, counts>>
        BY <3>2 DEF EndReset
      <4>2. QED
        BY <2>b, <2>c, <4>1 DEF TypeOK, poll, message, receive, send
    <3>3. QED
      BY <2>10, <3>1, <3>2
  <2>11. CASE SetupPacket \/ DataPacket \/ SetupTokenLost \/ DataTokenLost
    <3>1. PICK tok \in {"SETUP", "OUT"}, len \in {8} \cup WriteLens, r \in Contents : Store(tok, len, r)
      <4>a. request \in Contents /\ (request.kind = "write" => request.want \in WriteLens)
        BY DEF TypeOK, Contents, Requests
      <4>b. MissToken => usbCurrentTok \in {"SETUP", "OUT"}
        BY DEF MissToken, TypeOK
      <4>1. CASE SetupPacket
        BY <4>a, <4>1 DEF SetupPacket
      <4>2. CASE DataPacket
        BY <4>a, <4>2 DEF DataPacket
      <4>3. CASE SetupTokenLost
        BY <4>a, <4>b, <4>3 DEF SetupTokenLost
      <4>4. CASE DataTokenLost
        BY <4>a, <4>b, <4>4 DEF DataTokenLost
      <4>5. QED
        BY <2>11, <4>1, <4>2, <4>3, <4>4
    <3>2. stage' \in {"setup", "data", "status"} /\ lostAcks' \in 0..MaxLostAcks
      BY <2>11 DEF SetupPacket, DataPacket, SetupTokenLost, DataTokenLost, Acknowledged, AfterSetup, TypeOK
    <3>3. lostTokens' \in 0..MaxLostTokens
      BY <2>11 DEF SetupPacket, DataPacket, SetupTokenLost, DataTokenLost, MissToken, TypeOK
    <3>4. mistaken' \subseteq Transfers
      BY <2>11 DEF SetupPacket, DataPacket, SetupTokenLost, DataTokenLost, TakenFor, TypeOK
    <3>5. UNCHANGED <<poll, send, bus, no, request, got, hostToken, address, damaged, resets, restarts>>
      BY <2>11 DEF SetupPacket, DataPacket, SetupTokenLost, DataTokenLost
    <3>6. QED
      BY <2>a, <2>b, <3>1, <3>2, <3>3, <3>4, <3>5 DEF TypeOK, poll, message, send
  <2>12. CASE IgnorePacket \/ OutStatus \/ StatusTokenLost
    <3>1. CASE IgnorePacket \/ OutStatus
      BY <2>b, <2>c, <3>1 DEF IgnorePacket, OutStatus, TypeOK, poll, message, receive, send, host, faults
    <3>2. CASE StatusTokenLost
      BY <2>b, <3>2 DEF StatusTokenLost, MissToken, TypeOK, poll, message, receive, send
    <3>3. QED
      BY <2>12, <3>1, <3>2
  <2>13. CASE InData
    <3>1. PICK p \in tx :
            /\ SendPacket(p) /\ got' \in {got, got + p.len} /\ hostToken' \in {hostToken, 1 - hostToken}
            /\ stage' \in {stage, "status", "data"}
            /\ UNCHANGED <<poll, receive, txToken, bus, no, request, address, faults>>
      BY <2>13 DEF InData
    <3>2. got' \in Nat /\ hostToken' \in {0, 1}
      BY <3>1 DEF TypeOK
    <3>3. QED
      BY <2>b, <2>c, <3>1, <3>2 DEF SendPacket, TypeOK, poll, message, receive, faults
  <2>14. CASE InStatus
    <3>1. address' \in Addresses \cup {0}
      BY <2>14, RequestFields DEF InStatus, TypeOK, Contents
    <3>2. QED
      BY <2>b, <2>c, <2>14, <3>1 DEF InStatus, SendPacket, TypeOK, poll, message, receive, faults
  <2>15. CASE InDamaged
    BY <2>b, <2>c, <2>15 DEF InDamaged, SendPacket, TypeOK, poll, message, receive, host
  <2>16. CASE NewTransfer
    BY <2>b, <2>c, <2>16 DEF NewTransfer, TypeOK, poll, message, receive, send, Transfers
  <2>17. CASE UNCHANGED vars
    BY <2>b, <2>c, <2>17 DEF vars, TypeOK, poll, message, receive, send, host, faults
  <2>18. QED
    BY <2>1, <2>2, <2>3, <2>4, <2>5, <2>6, <2>7, <2>8, <2>9, <2>10, <2>11, <2>12, <2>13,
       <2>14, <2>15, <2>16, <2>17 DEF Next, UsbPoll, StartUp, Transaction, TokenLost
<1>3. QED
  BY <1>1, <1>2, PTL DEF Spec

(* What the receive buffer holds decides whether a SETUP packet waits. *)
LEMMA SetupStays ==
  /\ rx' = rx => (SetupWaits' <=> SetupWaits)
  /\ rx' = {} => ~SetupWaits'
  /\ \A tok, len, r :
       Store(tok, len, r) => ~SetupWaits /\ (SetupWaits' <=> tok = "SETUP" /\ len = 8)
<1>1. rx' = rx => (SetupWaits' <=> SetupWaits)
  BY DEF SetupWaits
<1>2. rx' = {} => ~SetupWaits'
  BY DEF SetupWaits
<1>3. ASSUME NEW tok, NEW len, NEW r, Store(tok, len, r)
      PROVE  ~SetupWaits /\ (SetupWaits' <=> tok = "SETUP" /\ len = 8)
  <2>1. rx = {} /\ rx' = {[tok |-> tok, of |-> no, len |-> len, request |-> r]}
    BY <1>3 DEF Store
  <2>2. QED
    BY <2>1 DEF SetupWaits
<1>4. QED
  BY <1>1, <1>2, <1>3

(* usbPoll and the receiver share the buffers in this way only. *)
LEMMA StructureInvariance == Spec => []Structure
<1>1. Init => Structure
  BY DEF Init, Structure, On, SetupWaits
<1>2. TypeOK /\ Structure /\ [Next]_vars => Structure'
  <2> SUFFICES ASSUME TypeOK, Structure, [Next]_vars PROVE Structure'
    OBVIOUS
  <2> USE SetupStays DEF Structure, On, faults
  <2>1. CASE Poll \/ Transmit \/ IsNotReset
    BY <2>1 DEF Poll, Transmit, IsNotReset, Goto, message, receive, send, host
  <2>2. CASE Ignore \/ Write
    BY <2>2 DEF Ignore, Write, Goto, message, receive, send, host
  <2>3. CASE Abort
    <3>1. SetupWaits
      BY <2>3 DEF Abort, SetupWaits
    <3>2. QED
      BY <2>3, <3>1 DEF Abort, Goto, receive, host
  <2>4. CASE Setup
    BY <2>4 DEF Setup, Goto, receive, send, host
  <2>5. CASE Free \/ Arm
    BY <2>5 DEF Free, Arm, Goto, message, receive, send, host
  <2>6. CASE Build
    BY <2>6 DEF Build, Goto, receive, host
  <2>7. CASE ResetSeen
    BY <2>7 DEF ResetSeen, Goto, message, receive
  <2>8. CASE Disconnect \/ Connect \/ Restart
    BY <2>8 DEF Disconnect, Connect, Restart, Forget, Goto, message, receive, send, host
  <2>9. CASE BusReset \/ EndReset
    BY <2>9 DEF BusReset, EndReset, Forget, poll, message, receive, send
  <2>10. CASE SetupPacket \/ SetupTokenLost
    <3>1. /\ rx = {} /\ rx' # {} /\ ~SetupWaits /\ stage = "setup"
          /\ stage' \in {"setup", "data", "status"} /\ (stage' = "status" => request.kind # "read")
      BY <2>10 DEF SetupPacket, SetupTokenLost, Acknowledged, AfterSetup, Store, SetupWaits
    <3>2. /\ On /\ bus = "idle" /\ \A n \in mistaken' : n \in mistaken \/ n = no
          /\ UNCHANGED <<poll, send, bus, no, request, got, hostToken, address>>
      BY <2>10 DEF SetupPacket, SetupTokenLost, MissToken, TakenFor, Addressed, Hears
    <3>3. no \in Int
      BY DEF TypeOK, Transfers
    <3>4. QED
      BY <3>1, <3>2, <3>3 DEF poll, message, send
  <2>11. CASE DataPacket \/ DataTokenLost
    <3>1. /\ rx = {} /\ rx' # {} /\ ~SetupWaits /\ stage = "data" /\ request.kind = "write"
          /\ stage' \in {"data", "status"}
      BY <2>11 DEF DataPacket, DataTokenLost, Acknowledged, Store, SetupWaits
    <3>2. /\ On /\ bus = "idle" /\ \A n \in mistaken' : n \in mistaken \/ n = no
          /\ UNCHANGED <<poll, send, bus, no, request, got, hostToken, address>>
      BY <2>11 DEF DataPacket, DataTokenLost, MissToken, TakenFor, Addressed, Hears
    <3>3. no \in Int
      BY DEF TypeOK, Transfers
    <3>4. QED
      BY <3>1, <3>2, <3>3 DEF poll, message, send
  <2>12. CASE IgnorePacket \/ OutStatus \/ StatusTokenLost
    <3>1. CASE IgnorePacket
      BY <3>1 DEF IgnorePacket, poll, message, send, host
    <3>2. CASE OutStatus \/ StatusTokenLost
      <4>1. /\ On /\ bus = "idle" /\ rx = {} /\ ~SetupWaits /\ ~SetupWaits' /\ stage' = "done"
            /\ UNCHANGED <<poll, rx, send, bus, no, request, got, hostToken, address, mistaken>>
            /\ stage = "status"
        BY <3>2 DEF OutStatus, StatusTokenLost, MissToken, Addressed, Hears, SetupWaits, receive
      <4>2. QED
        BY <4>1 DEF poll, message, send
    <3>3. QED
      BY <2>12, <3>1, <3>2
  <2>13. CASE InData
    <3>1. PICK p \in tx : request.kind = "read" /\ SendPacket(p) /\ stage' \in {"data", "status"}
      BY <2>13 DEF InData, ReadsData
    <3>2. /\ On /\ bus = "idle" /\ rx = {} /\ tx' = {} /\ ~SetupWaits /\ ~SetupWaits'
          /\ UNCHANGED <<poll, rx, txToken, bus, no, request, address, mistaken>>
      BY <2>13, <3>1 DEF InData, SendPacket, Addressed, Hears, SetupWaits, receive
    <3>3. QED
      BY <3>1, <3>2 DEF poll, message
  <2>14. CASE InStatus
    <3>1. PICK p \in tx : request.kind # "read" /\ SendPacket(p) /\ stage' \in {"done", "status", "failed"}
      BY <2>14 DEF InStatus, AwaitsReply
    <3>2. /\ On /\ bus = "idle" /\ rx = {} /\ tx' = {} /\ ~SetupWaits /\ ~SetupWaits'
          /\ UNCHANGED <<poll, rx, txToken, bus, no, request, got, hostToken, mistaken>>
      BY <2>14, <3>1 DEF InStatus, SendPacket, Addressed, Hears, SetupWaits, receive
    <3>3. QED
      BY <3>1, <3>2 DEF poll, message
  <2>15. CASE InDamaged
    BY <2>15 DEF InDamaged, SendPacket, Addressed, Hears, SetupWaits, poll, message, receive, host
  <2>16. CASE NewTransfer
    <3>1. \A n \in mistaken' : n <= no'
      BY <2>16 DEF NewTransfer, TypeOK, Transfers
    <3>2. QED
      BY <2>16, <3>1 DEF NewTransfer, poll, message, receive, send
  <2>17. CASE UNCHANGED vars
    BY <2>17 DEF vars, poll, message, receive, send, host
  <2>18. QED
    BY <2>1, <2>2, <2>3, <2>4, <2>5, <2>6, <2>7, <2>8, <2>9, <2>10, <2>11, <2>12, <2>13,
       <2>14, <2>15, <2>16, <2>17 DEF Next, UsbPoll, StartUp, Transaction, TokenLost
<1>3. QED
  BY <1>1, <1>2, Typing, PTL DEF Spec

-----------------------------------------------------------------------------
(* A step that touches nothing of the transfer keeps what is handled of it. *)
LEMMA HandledStays ==
  ASSUME Handled, Outgoing' = Outgoing,
         UNCHANGED <<setups, usbMsgPtr, usbMsgLen, usbNewDeviceAddr, writes, txToken,
                     no, request, stage, got, hostToken, damaged, estranged>>
  PROVE  Handled'
BY DEF Handled, BlocksInTurn, Reply

LEMMA OutgoingStays ==
  ASSUME UNCHANGED <<tx, block>>, pc = "arm" <=> pc' = "arm"
  PROVE  Outgoing' = Outgoing
BY DEF Outgoing

(* A request that has been set up has nothing to send left of the one before. *)
LEMMA SetupHandled ==
  ASSUME TypeOK, Structure, OwnTransfer, Setup, Underway
  PROVE  Handled'
<1>1. PICK p \in rx :
        /\ usbMsgLen' = Reply(p.request)
        /\ usbMsgPtr' = [of |-> p.of, at |-> 0] /\ setups' = p.of
        /\ usbNewDeviceAddr' = IF p.request.kind = "address" THEN p.request.value
                               ELSE usbNewDeviceAddr
  BY DEF Setup
<1>2. p.of = no /\ p.request = request
  BY DEF OwnTransfer, ReceivedIsOwn
<1>3. /\ pc' = "free" /\ pc = "setup" /\ tx' = tx /\ tx = {} /\ txToken' = 0 /\ hostToken' = 1 /\ got' = 0
      /\ UNCHANGED <<no, request, stage, damaged, estranged, writes>>
      /\ request.kind = "read" => stage \notin {"status", "done"}
  BY DEF Setup, Goto, Structure, Underway, send, host, faults
<1>4. Outgoing' = {}
  BY <1>3 DEF Outgoing
<1>5. /\ Reply(request) \in Nat /\ Reply(request)' = Reply(request)
      /\ request.kind = "write" => Reply(request) = USB_NO_MSG
      /\ request.kind # "read" => Reply(request) \in {0, USB_NO_MSG}
  BY <1>3, RequestFields, ReplyFits DEF TypeOK, Contents, USB_NO_MSG, Reply
<1>6. request.kind = "read" => BlocksInTurn'
  BY <1>1, <1>2, <1>3, <1>4, <1>5 DEF BlocksInTurn
<1>7. QED
  BY <1>1, <1>2, <1>3, <1>4, <1>5, <1>6 DEF Handled

(* The block that is built follows on the one before, and takes the other token. *)
LEMMA BuildHandled ==
  ASSUME TypeOK, Structure, Handled, Build
  PROVE  Handled'
<1>1. /\ pc' = "arm" /\ tx = {} /\ tx' = {} /\ usbMsgLen # USB_NO_MSG /\ pc = "build"
      /\ UNCHANGED <<setups, usbNewDeviceAddr, writes, no, request, stage, got, hostToken,
                     damaged, estranged>>
      /\ txToken' = 1 - txToken
      /\ block' = [of |-> usbMsgPtr.of, at |-> usbMsgPtr.at, len |-> NextLen]
      /\ usbMsgPtr' = [usbMsgPtr EXCEPT !.at = @ + NextLen]
      /\ usbMsgLen' = IF NextLen < PacketSize THEN USB_NO_MSG ELSE usbMsgLen - NextLen
  BY DEF Build, Goto, Structure, host, faults
<1>2. Outgoing = {} /\ Outgoing' = {block'}
  BY <1>1 DEF Outgoing
<1>3. /\ usbMsgPtr'.of = usbMsgPtr.of /\ usbMsgPtr'.at = usbMsgPtr.at + NextLen
      /\ usbMsgPtr.at \in Nat /\ usbMsgLen \in Nat
      /\ txToken \in {0, 1} /\ hostToken \in {0, 1}
  BY <1>1 DEF TypeOK
<1>4. /\ NextLen \in Nat /\ NextLen <= usbMsgLen /\ NextLen <= PacketSize
      /\ NextLen < PacketSize => NextLen = usbMsgLen
  BY <1>3 DEF NextLen, PacketSize
<1>5. request.kind = "read" /\ no \notin damaged => BlocksInTurn'
  <2> SUFFICES ASSUME BlocksInTurn PROVE BlocksInTurn'
    BY DEF Handled
  <2>1. Reply(request) \in Nat /\ Reply(request)' = Reply(request)
    BY <1>1, ReplyFits DEF TypeOK, Contents, USB_NO_MSG, Reply
  <2>2. usbMsgLen = Reply(request) - usbMsgPtr.at /\ txToken # hostToken /\ usbMsgPtr.at = got
    BY <1>1, <1>2 DEF BlocksInTurn
  <2>3. usbMsgPtr'.at <= Reply(request) /\ (NextLen < PacketSize => usbMsgPtr'.at = Reply(request))
    BY <1>3, <1>4, <2>1, <2>2
  <2>4. usbMsgLen' # USB_NO_MSG => usbMsgLen' = Reply(request) - usbMsgPtr'.at
    BY <1>1, <1>3, <1>4, <2>1, <2>2
  <2>5. txToken' = hostToken'
    BY <1>1, <1>3, <2>2
  <2>6. block'.at = got' /\ block'.len = NextLen /\ block'.at + block'.len = usbMsgPtr'.at
    BY <1>1, <1>3, <2>2
  <2>7. QED
    BY <1>1, <1>2, <2>1, <2>3, <2>4, <2>5, <2>6 DEF BlocksInTurn
<1>6. (Outgoing = {} <=> txToken # hostToken) => (Outgoing = {} <=> txToken # hostToken)'
  BY <1>1, <1>2, <1>3
<1>7. request.kind # "read" => usbMsgLen' \in {0, USB_NO_MSG} /\ block'.len = 0
  <2> SUFFICES ASSUME usbMsgLen = 0 PROVE usbMsgLen' \in {0, USB_NO_MSG} /\ block'.len = 0
    BY <1>1 DEF Handled
  <2>1. NextLen = 0
    BY DEF NextLen, PacketSize
  <2>2. QED
    BY <1>1, <2>1 DEF PacketSize
<1>8. QED
  BY <1>1, <1>2, <1>3, <1>5, <1>6, <1>7 DEF Handled

(* A block the host fetches leaves the read in order, and ended if it was the
   last. *)
LEMMA FetchHandled ==
  ASSUME TypeOK, Structure, Handled, InData
  PROVE  Handled'
<1>1. PICK p \in tx :
        /\ ReadsData /\ tx' = {}
        /\ IF txToken = hostToken
             THEN /\ got' = got + p.len /\ hostToken' = 1 - hostToken
                  /\ stage' = IF got' >= request.want \/ p.len < PacketSize THEN "status" ELSE "data"
             ELSE UNCHANGED <<got, hostToken, stage>>
        /\ UNCHANGED <<poll, receive, txToken, bus, no, request, address, faults>>
  BY DEF InData, SendPacket
<1>2. /\ request.kind = "read" /\ stage = "data" /\ pc # "arm" /\ Outgoing = tx /\ Outgoing' = {}
      /\ UNCHANGED <<setups, usbMsgPtr, usbMsgLen, usbNewDeviceAddr, writes, damaged, estranged>>
  BY <1>1 DEF ReadsData, Structure, Outgoing, poll, message, faults
<1>3. no \notin damaged => BlocksInTurn'
  <2> SUFFICES ASSUME BlocksInTurn PROVE BlocksInTurn'
    BY <1>2 DEF Handled
  <2>1. /\ Reply(request) \in Nat /\ Reply(request)' = Reply(request)
        /\ Reply(request) <= request.want /\ request.want \in Int
    BY <1>1, <1>2, RequestFields, ReplyFits DEF TypeOK, Contents, USB_NO_MSG, Reply
  <2>2. /\ txToken = hostToken /\ p.at = got /\ p.at + p.len = usbMsgPtr.at
        /\ p.len < PacketSize => usbMsgPtr.at = Reply(request)
        /\ usbMsgPtr.at <= Reply(request)
        /\ usbMsgLen # USB_NO_MSG => usbMsgLen = Reply(request) - usbMsgPtr.at
    BY <1>2 DEF BlocksInTurn
  <2>3. got' = usbMsgPtr.at /\ hostToken' = 1 - hostToken
    BY <1>1, <2>2
  <2>4. txToken' # hostToken'
    BY <1>1, <2>2, <2>3 DEF TypeOK
  <2>5. stage' \in {"status", "done"} => got' = Reply(request)
    BY <1>1, <2>1, <2>2, <2>3 DEF TypeOK
  <2>6. QED
    BY <1>2, <2>1, <2>2, <2>3, <2>4, <2>5 DEF BlocksInTurn
<1>4. QED
  BY <1>1, <1>2, <1>3 DEF Handled

(* The device handles the transfer the host makes, from its SETUP packet on. *)
LEMMA OwnTransferInvariance == Spec => []OwnTransfer
<1>1. Init => OwnTransfer
  BY DEF Init, OwnTransfer, Underway, On
<1>2. TypeOK /\ Structure /\ OwnTransfer /\ [Next]_vars => OwnTransfer'
  <2> SUFFICES ASSUME TypeOK, Structure, OwnTransfer, [Next]_vars, Underway'
               PROVE  ReceivedIsOwn' /\ (Served' => Handled')
    BY DEF OwnTransfer
  <2>k. ASSUME Underway, rx' \subseteq rx, UNCHANGED <<no, request>>
        PROVE  ReceivedIsOwn'
    BY <2>k DEF OwnTransfer, ReceivedIsOwn
  <2>1. CASE UsbPoll
    <3>1. UNCHANGED <<no, request, stage, got, hostToken, address, damaged, mistaken>> /\ rx' \subseteq rx
      BY <2>1 DEF UsbPoll, Poll, Abort, Setup, Ignore, Write, Free, Transmit, Build, Arm, ResetSeen,
                  IsNotReset, receive, host, faults
    <3>2. Underway
      BY <2>1, <3>1 DEF UsbPoll, Poll, Abort, Setup, Ignore, Write, Free, Transmit, Build, Arm, ResetSeen,
                        IsNotReset, Goto, Underway, On
    <3>3. ReceivedIsOwn /\ (Served => Handled)
      BY <3>2 DEF OwnTransfer
    <3>4. CASE Poll \/ Transmit \/ IsNotReset
      <4>1. Served' => Served
        BY <3>4, SetupStays DEF Poll, Transmit, IsNotReset, Goto, Served, receive
      <4>2. Outgoing' = Outgoing
        BY <3>4, OutgoingStays DEF Poll, Transmit, IsNotReset, Goto, message, send
      <4>3. Handled => Handled'
        BY <3>1, <3>4, <4>2, HandledStays
           DEF Poll, Transmit, IsNotReset, message, send, faults
      <4>4. QED
        BY <2>k, <3>1, <3>2, <3>3, <4>1, <4>3
    <3>5. CASE Ignore
      <4>1. Served
        BY <3>5 DEF Ignore, Served, SetupWaits, TypeOK
      <4>2. Outgoing' = Outgoing
        BY <3>5, OutgoingStays DEF Ignore, Goto, message, send
      <4>3. Handled => Handled'
        BY <3>1, <3>5, <4>2, HandledStays DEF Ignore, message, send, faults
      <4>4. QED
        BY <2>k, <3>1, <3>2, <3>3, <4>1, <4>3
    <3>6. CASE Abort
      <4>1. ~Served'
        BY <3>6, SetupStays DEF Abort, Goto, Served, SetupWaits, receive
      <4>2. QED
        BY <2>k, <3>1, <3>2, <4>1
    <3>7. CASE Setup
      BY <2>k, <3>1, <3>2, <3>7, SetupHandled
    <3>8. CASE Write
      <4>1. PICK p \in rx : p.tok = "OUT" /\ writes' = writes \cup {p.of}
        BY <3>8 DEF Write
      <4>2. Served /\ request.kind = "write" /\ p.of = no
        BY <3>3, <4>1 DEF Served, SetupWaits, TypeOK, ReceivedIsOwn
      <4>3. Outgoing' = Outgoing
        BY <3>8, OutgoingStays DEF Write, Goto, send
      <4>4. Handled'
        BY <3>1, <3>3, <3>8, <4>1, <4>2, <4>3 DEF Write, Handled
      <4>5. QED
        BY <2>k, <3>1, <3>2, <4>4
    <3>9. CASE Free
      <4>1. Served
        BY <3>9 DEF Free, Goto, Served
      <4>2. Outgoing' = Outgoing
        BY <3>9, OutgoingStays DEF Free, Goto, message, send
      <4>3. Handled => Handled'
        BY <3>1, <3>9, <4>2, HandledStays DEF Free, message, send, faults
      <4>4. QED
        BY <2>k, <3>1, <3>2, <3>3, <4>1, <4>3
    <3>10. CASE Build
      <4>1. Served' => Served
        BY <3>10, SetupStays DEF Build, Goto, Served, receive
      <4>2. QED
        BY <2>k, <3>1, <3>2, <3>3, <3>10, <4>1, BuildHandled
    <3>11. CASE Arm
      <4>1. Served' => Served
        BY <3>11, SetupStays DEF Arm, Goto, Served, receive
      <4>2. Outgoing' = Outgoing
        BY <3>11 DEF Arm, Goto, Structure, Outgoing, message
      <4>3. Handled => Handled'
        BY <3>1, <3>11, <4>2, HandledStays DEF Arm, message, faults
      <4>4. QED
        BY <2>k, <3>1, <3>2, <3>3, <4>1, <4>3
    <3>12. CASE ResetSeen
      BY <3>2, <3>12 DEF ResetSeen, Structure, Underway, On
    <3>13. QED
      BY <2>1, <3>4, <3>5, <3>6, <3>7, <3>8, <3>9, <3>10, <3>11, <3>12 DEF UsbPoll
  <2>2. CASE StartUp \/ Restart \/ BusReset \/ EndReset \/ NewTransfer
    BY <2>2 DEF StartUp, Disconnect, Connect, Restart, BusReset, EndReset, NewTransfer, Forget, Goto,
                Structure, Underway, On, poll
  <2>3. CASE SetupPacket \/ SetupTokenLost
    <3>1. /\ rx = {} /\ rx' = {[tok |-> "SETUP", of |-> no, len |-> 8, request |-> request]}
          /\ UNCHANGED <<pc, no, request>>
      BY <2>3 DEF SetupPacket, SetupTokenLost, TakenFor, Underway, Store, poll
    <3>2. ReceivedIsOwn'
      BY <3>1 DEF ReceivedIsOwn
    <3>3. ~Served'
      BY <3>1 DEF Served, SetupWaits, Structure
    <3>4. QED
      BY <3>2, <3>3
  <2>4. CASE DataPacket \/ DataTokenLost
    <3>1. /\ rx = {} /\ UNCHANGED <<mistaken, estranged>>
          /\ rx' = {[tok |-> "OUT", of |-> no, len |-> request.want, request |-> request]}
      BY <2>4 DEF DataPacket, DataTokenLost, TakenFor, Underway, Store
    <3>2. /\ request.kind = "write" /\ stage = "data" /\ Hears
          /\ UNCHANGED <<poll, send, no, request, got, hostToken, damaged>>
      BY <2>4 DEF DataPacket, DataTokenLost, MissToken, Addressed
    <3>3. Underway
      BY <3>1, <3>2 DEF Underway, On, Hears
    <3>4. ReceivedIsOwn'
      BY <3>1, <3>2 DEF ReceivedIsOwn
    <3>5. Handled
      BY <3>1, <3>3 DEF OwnTransfer, Served, SetupWaits
    <3>6. Outgoing' = Outgoing
      BY <3>2, OutgoingStays DEF poll, message, send
    <3>7. Handled'
      BY <3>1, <3>2, <3>5, <3>6 DEF Handled, poll, message
    <3>8. QED
      BY <3>4, <3>7
  <2>5. CASE IgnorePacket \/ UNCHANGED vars
    <3>1. UNCHANGED <<poll, rx, send, no, request, stage, got, hostToken, damaged, mistaken, estranged>>
      BY <2>5 DEF IgnorePacket, vars, receive, host, faults
    <3>2. Underway /\ (Served' <=> Served)
      BY <3>1, SetupStays DEF Underway, On, Served, poll
    <3>3. Outgoing' = Outgoing
      BY <3>1, OutgoingStays DEF poll, message, send
    <3>4. Handled => Handled'
      BY <3>1, <3>3, HandledStays DEF poll, message, send
    <3>5. QED
      BY <2>k, <3>1, <3>2, <3>4 DEF OwnTransfer
  <2>6. CASE InData \/ InStatus \/ InDamaged \/ OutStatus \/ StatusTokenLost
    <3>1. /\ rx = {} /\ rx' = {} /\ UNCHANGED <<poll, no, request, mistaken>>
          /\ stage \in {"data", "status"}
      BY <2>6 DEF InData, InStatus, InDamaged, OutStatus, StatusTokenLost, SendPacket, ReadsData, AwaitsReply,
                  receive, host, faults
    <3>2. Underway /\ Handled
      BY <2>6, <3>1 DEF Underway, On, OwnTransfer, Served, SetupWaits, poll
    <3>3. ReceivedIsOwn'
      BY <3>1 DEF ReceivedIsOwn
    <3>4. CASE InData
      BY <3>2, <3>3, <3>4, FetchHandled
    <3>5. CASE InStatus
      <4>1. PICK p \in tx :
              /\ request.kind # "read" /\ stage = "status" /\ tx' = {}
              /\ txToken # hostToken => stage' = "status"
              /\ txToken = hostToken => stage' # "status"
              /\ UNCHANGED <<poll, txToken, no, request, got, hostToken, faults>>
        BY <3>5 DEF InStatus, AwaitsReply, SendPacket
      <4>2. pc # "arm" /\ Outgoing # {} /\ Outgoing' = {}
        BY <4>1 DEF Structure, Outgoing, poll
      <4>3. QED
        BY <3>2, <3>3, <4>1, <4>2 DEF Handled, poll, message, faults
    <3>6. CASE InDamaged
      <4>1. PICK p \in tx :
              /\ tx' = {} /\ damaged' = damaged \cup {no}
              /\ estranged' = (estranged \/ request.kind = "address")
              /\ UNCHANGED <<poll, txToken, host>>
        BY <3>6 DEF InDamaged, SendPacket
      <4>2. pc # "arm" /\ Outgoing # {} /\ Outgoing' = {}
        BY <4>1 DEF Structure, Outgoing, poll
      <4>3. QED
        BY <3>2, <3>3, <4>1, <4>2 DEF Handled, poll, message, host
    <3>7. CASE OutStatus \/ StatusTokenLost
      <4>1. /\ request.kind = "read" /\ stage = "status"
            /\ UNCHANGED <<poll, send, no, request, got, hostToken, damaged>>
        BY <3>7 DEF OutStatus, StatusTokenLost, faults
      <4>2. Outgoing' = Outgoing
        BY <4>1, OutgoingStays DEF poll, message, send
      <4>3. BlocksInTurn => BlocksInTurn'
        BY <4>1, <4>2 DEF BlocksInTurn, Reply, poll, message, send
      <4>4. QED
        BY <3>2, <3>3, <4>1, <4>2, <4>3 DEF Handled, poll, message
    <3>8. QED
      BY <2>6, <3>4, <3>5, <3>6, <3>7
  <2>7. QED
    BY <2>1, <2>2, <2>3, <2>4, <2>5, <2>6 DEF Next, Transaction, TokenLost
<1>3. QED
  BY <1>1, <1>2, Typing, StructureInvariance, PTL DEF Spec

(* What an IN token can fetch was made for the transfer under way, unless a packet
   of that was taken for another token's. *)
THEOREM RepliesAreFreshHolds == Spec => []RepliesAreFresh
<1>1. Structure /\ OwnTransfer => RepliesAreFresh
  BY DEF Structure, OwnTransfer, Underway, On, Served, SetupWaits, Handled, Outgoing, RepliesAreFresh
<1>2. QED
  BY <1>1, StructureInvariance, OwnTransferInvariance, PTL

(* What the host reads comes in order, unless a packet was damaged or mistaken. *)
THEOREM ReadsInOrderHolds == Spec => []ReadsInOrder
<1>1. Structure /\ OwnTransfer => ReadsInOrder
  BY DEF Structure, OwnTransfer, Underway, On, Served, SetupWaits, Handled, Outgoing, BlocksInTurn,
         ReadsData, ReadsInOrder
<1>2. QED
  BY <1>1, StructureInvariance, OwnTransferInvariance, PTL

(* usbFunctionWrite gets no data but that of the transfer set up last, or the
   bytes of a packet whose own token was missed. *)
THEOREM DataFollowsItsSetupHolds == Spec => []DataFollowsItsSetup
<1>1. Init => DataFollows
  BY DEF Init, DataFollows
<1>2. TypeOK /\ Structure /\ OwnTransfer /\ DataFollows /\ [Next]_vars => DataFollows'
  <2> SUFFICES ASSUME TypeOK, Structure, OwnTransfer, DataFollows, [Next]_vars PROVE DataFollows'
    OBVIOUS
  <2>1. CASE Setup
    <3>1. rx' = rx /\ \A p \in rx : p.tok = "SETUP"
      BY <2>1 DEF Setup, Goto, Structure, SetupWaits, TypeOK, receive
    <3>2. QED
      BY <3>1 DEF DataFollows
  <2>2. CASE DataPacket \/ DataTokenLost
    <3>1. /\ rx = {} /\ stage = "data" /\ On /\ UNCHANGED setups /\ mistaken \subseteq mistaken'
          /\ \A p \in rx' : p.of = no
      BY <2>2 DEF DataPacket, DataTokenLost, MissToken, TakenFor, Store, Addressed, Hears, On, poll
    <3>2. no \notin mistaken => setups = no
      BY <3>1 DEF OwnTransfer, Underway, Served, SetupWaits, Handled
    <3>3. QED
      BY <3>1, <3>2 DEF DataFollows
  <2>3. CASE SetupPacket \/ SetupTokenLost
    <3>1. \A p \in rx' : p.of = no /\ (p.tok = "SETUP" \/ no \in mistaken')
      BY <2>3 DEF SetupPacket, SetupTokenLost, TakenFor, Store
    <3>2. QED
      BY <3>1 DEF DataFollows
  <2>4. CASE \/ UNCHANGED vars
             \/ Next /\ ~(Setup \/ DataPacket \/ DataTokenLost \/ SetupPacket \/ SetupTokenLost)
    <3>1. setups' = setups /\ rx' \subseteq rx /\ mistaken' = mistaken
      BY <2>4 DEF Next, UsbPoll, Poll, Abort, Ignore, Write, Free, Transmit, Build, Arm,
             ResetSeen, IsNotReset, StartUp, Disconnect, Connect, Restart, BusReset, EndReset,
             Transaction, InData, InStatus, OutStatus, NewTransfer, TokenLost, StatusTokenLost,
             IgnorePacket, InDamaged, SendPacket, vars, poll, receive, faults
    <3>2. QED
      BY <3>1 DEF DataFollows
  <2>5. QED
    BY <2>1, <2>2, <2>3, <2>4
<1>3. DataFollows => DataFollowsItsSetup
  BY DEF DataFollows, DataFollowsItsSetup
<1>4. QED
  BY <1>1, <1>2, <1>3, Typing, StructureInvariance, OwnTransferInvariance, PTL DEF Spec

(* A transfer the host sees completed, and of which no packet was mistaken, has
   been handled: in the step that ends it the device has nothing to process, so
   all it has is of this transfer. *)
THEOREM CompletedIsHandledHolds == Spec => []CompletedIsHandled
<1>1. Init => CompletedIsHandled
  BY DEF Init, CompletedIsHandled, NoRequest
<1>2. TypeOK /\ Structure /\ OwnTransfer /\ CompletedIsHandled /\ [Next]_vars => CompletedIsHandled'
  <2> SUFFICES ASSUME TypeOK, Structure, OwnTransfer, CompletedIsHandled, [Next]_vars,
                      stage' = "done", no' \notin mistaken'
               PROVE  CompletedIsHandled'
    BY DEF CompletedIsHandled
  <2>1. CASE stage = "done"
    <3>1. ~SetupWaits /\ pc # "setup"
      BY <2>1 DEF Structure
    <3>2. UNCHANGED <<setups, no, request, got, damaged, mistaken>> /\ writes \subseteq writes'
      BY <2>1, <3>1 DEF Next, UsbPoll, Poll, Abort, Setup, Ignore, Write, Free, Transmit, Build, Arm,
             ResetSeen, IsNotReset, StartUp, Disconnect, Connect, Restart, BusReset, EndReset, Forget,
             Transaction, SetupPacket, DataPacket, InData, InStatus, OutStatus, NewTransfer,
             TokenLost, SetupTokenLost, DataTokenLost, StatusTokenLost, IgnorePacket, InDamaged,
             ReadsData, AwaitsReply, Goto, vars, poll, host, faults
    <3>3. QED
      BY <2>1, <3>2 DEF CompletedIsHandled
  <2>2. CASE stage # "done"
    <3>1. InData \/ InStatus \/ OutStatus \/ StatusTokenLost
      BY <2>2 DEF Next, UsbPoll, Poll, Abort, Setup, Ignore, Write, Free, Transmit, Build, Arm,
             ResetSeen, IsNotReset, StartUp, Disconnect, Connect, Restart, BusReset, EndReset, Forget,
             Transaction, SetupPacket, DataPacket, NewTransfer, TokenLost, SetupTokenLost, DataTokenLost,
             Acknowledged, AfterSetup, IgnorePacket, InDamaged, vars, host
    <3>2. InStatus \/ OutStatus \/ StatusTokenLost
      BY <2>2, <3>1 DEF InData
    <3>3. /\ rx = {} /\ stage = "status" /\ On
          /\ UNCHANGED <<setups, writes, no, request, got, damaged, mistaken>>
          /\ request.kind # "read" => pc # "arm" /\ tx # {}
      BY <3>2 DEF InStatus, OutStatus, StatusTokenLost, MissToken, SendPacket, AwaitsReply, Addressed, Hears,
                  On, Structure, poll, faults
    <3>4. Handled
      BY <3>3 DEF OwnTransfer, Underway, Served, SetupWaits
    <3>5. setups = no /\ (request.kind = "write" => no \in writes)
      BY <3>3, <3>4 DEF Handled, Outgoing
    <3>6. request.kind = "read" /\ no \notin damaged => got = Reply(request)
      BY <3>3, <3>4 DEF Handled, BlocksInTurn
    <3>7. QED
      BY <3>3, <3>5, <3>6 DEF CompletedIsHandled, Reply
  <2>3. QED
    BY <2>1, <2>2
<1>3. QED
  BY <1>1, <1>2, Typing, StructureInvariance, OwnTransferInvariance, PTL DEF Spec

-----------------------------------------------------------------------------
(* Only an address that is being assigned is waited for. *)
LEMMA AddressReceived ==
  /\ rx' \subseteq rx => (AddressWaits' => AddressWaits)
  /\ rx = {} => ~AddressWaits
  /\ \A tok, len, r :
       Store(tok, len, r) => (AddressWaits' <=> tok = "SETUP" /\ len = 8 /\ r.kind = "address")
<1>1. rx' \subseteq rx => (AddressWaits' => AddressWaits)
  BY DEF AddressWaits
<1>2. rx = {} => ~AddressWaits
  BY DEF AddressWaits
<1>3. ASSUME NEW tok, NEW len, NEW r, Store(tok, len, r)
      PROVE  AddressWaits' <=> tok = "SETUP" /\ len = 8 /\ r.kind = "address"
  <2>1. rx' = {[tok |-> tok, of |-> no, len |-> len, request |-> r]}
    BY <1>3 DEF Store
  <2>2. QED
    BY <2>1 DEF AddressWaits
<1>4. QED
  BY <1>1, <1>2, <1>3

(* Host and device agree about the address, whatever falls together, but for the
   causes that estrange them. *)
THEOREM AddressesAgreeHolds == Spec => []AddressesAgree
<1>1. Init => AddressInUse
  BY DEF Init, AddressInUse, On
<1>2. TypeOK /\ Structure /\ OwnTransfer /\ AddressInUse /\ [Next]_vars => AddressInUse'
  <2> SUFFICES ASSUME TypeOK, Structure, OwnTransfer, AddressInUse, [Next]_vars, On', ~estranged'
               PROVE  AddressInUse'
    BY DEF AddressInUse
  <2>s. ASSUME On, ~estranged, rx' \subseteq rx,
               UNCHANGED <<usbDeviceAddr, usbNewDeviceAddr, bus, address, no, request, mistaken>>,
               AddressAbandoned' <=> AddressAbandoned
        PROVE  AddressInUse'
    BY <2>s, AddressReceived DEF AddressInUse, Assigning, Settled
  <2>1. CASE \/ Poll \/ Abort \/ Ignore \/ Write \/ Free \/ Transmit \/ Build \/ Arm \/ IsNotReset
             \/ IgnorePacket \/ UNCHANGED vars
    <3>1. /\ UNCHANGED <<usbDeviceAddr, usbNewDeviceAddr, bus, address, no, request, stage,
                         mistaken, estranged>>
          /\ On /\ rx' \subseteq rx
      BY <2>1 DEF Poll, Abort, Ignore, Write, Free, Transmit, Build, Arm, IsNotReset, IgnorePacket, Goto,
                  vars, poll, receive, send, host, faults, On
    <3>2. QED
      BY <2>s, <3>1 DEF AddressAbandoned
  <2>2. CASE Setup
    <3>1. PICK p \in rx : usbNewDeviceAddr' = IF p.request.kind = "address" THEN p.request.value
                                               ELSE usbNewDeviceAddr
      BY <2>2 DEF Setup
    <3>2. /\ UNCHANGED <<rx, usbDeviceAddr, bus, address, no, request, stage, mistaken, estranged>>
          /\ On /\ p.tok = "SETUP" /\ p.len = 8
      BY <2>2 DEF Setup, Goto, receive, send, host, faults, On, Structure, SetupWaits, TypeOK
    <3>3. p.request.kind = "address" => AddressWaits
      BY <3>2 DEF AddressWaits
    <3>4. (AddressWaits' <=> AddressWaits) /\ (AddressAbandoned' <=> AddressAbandoned)
      BY <3>2 DEF AddressWaits, AddressAbandoned
    <3>5. QED
      BY <3>1, <3>2, <3>3, <3>4 DEF AddressInUse, Assigning, Settled
  <2>3. CASE ResetSeen
    <3>1. ~AddressWaits /\ request' = NoRequest
      BY <2>3 DEF ResetSeen, Goto, AddressInUse, On, Structure
    <3>2. QED
      BY <2>3, <3>1, AddressReceived DEF ResetSeen, AddressInUse, NoRequest, receive
  <2>4. CASE Disconnect \/ Restart
    BY <2>4 DEF Disconnect, Restart, Goto, On
  <2>5. CASE Connect
    <3>1. rx = {} /\ rx' = {} /\ bus' = "attached" /\ request' = NoRequest
      BY <2>5 DEF Connect, Goto, Structure, On, receive
    <3>2. QED
      BY <3>1, AddressReceived DEF AddressInUse, NoRequest
  <2>6. CASE BusReset
    <3>1. On /\ ~estranged /\ ~AddressAbandoned /\ bus' = "reset" /\ rx' = rx /\ request' = NoRequest
      BY <2>6 DEF BusReset, Forget, On, poll, receive
    <3>2. ~AddressWaits
      BY <3>1 DEF AddressInUse, Settled
    <3>3. QED
      BY <3>1, <3>2, AddressReceived DEF AddressInUse, NoRequest
  <2>7. CASE EndReset
    <3>1. /\ On /\ ~estranged /\ bus' = "idle" /\ bus \in {"reset", "reset_seen"}
          /\ bus = "reset" => usbDeviceAddr = 0 /\ usbNewDeviceAddr = 0
          /\ UNCHANGED <<usbDeviceAddr, usbNewDeviceAddr, rx, no, request, stage, address, mistaken>>
      BY <2>7 DEF EndReset, On, poll, send, receive
    <3>2. /\ ~AddressWaits /\ stage = "aborted" /\ address = 0 /\ usbDeviceAddr = 0 /\ usbNewDeviceAddr = 0
          /\ request.kind = "address" => no \notin mistaken
      BY <3>1 DEF AddressInUse, Structure, On
    <3>3. ~AddressWaits' /\ ~AddressAbandoned'
      BY <3>1, <3>2, AddressReceived DEF AddressAbandoned
    <3>4. QED
      BY <3>1, <3>2, <3>3 DEF AddressInUse, Settled
  <2>8. CASE NewTransfer
    <3>1. /\ On /\ ~estranged /\ ~AddressAbandoned /\ bus = "idle" /\ stage' = "setup" /\ no' = no + 1
          /\ request'.kind = "address" => address = 0
          /\ UNCHANGED <<usbDeviceAddr, usbNewDeviceAddr, rx, bus, address, mistaken>>
      BY <2>8 DEF NewTransfer, On, poll, receive, send
    <3>2. Settled /\ usbDeviceAddr = address
      BY <3>1 DEF AddressInUse
    <3>3. ~AddressWaits' /\ usbNewDeviceAddr' = address' /\ usbDeviceAddr' = address'
      BY <3>1, <3>2, AddressReceived DEF Settled
    <3>4. AddressAbandoned' => Assigning'
      BY <3>1, <3>3 DEF AddressAbandoned, Assigning, AddressWaits
    <3>5. no' \notin mistaken'
      BY <3>1 DEF Structure, TypeOK, Transfers
    <3>6. QED
      BY <3>1, <3>3, <3>4, <3>5 DEF AddressInUse, Settled
  <2>9. CASE SetupPacket \/ DataPacket \/ SetupTokenLost \/ DataTokenLost
    <3>1. /\ On /\ ~estranged /\ bus = "idle"
          /\ UNCHANGED <<usbDeviceAddr, usbNewDeviceAddr, bus, address, no, request>>
          /\ request.kind = "address" => stage = "setup" /\ stage' \in {"setup", "status"}
      BY <2>9 DEF SetupPacket, DataPacket, SetupTokenLost, DataTokenLost, MissToken, TakenFor,
                  Acknowledged, AfterSetup, Addressed, Hears, On, poll, send
    <3>2. request.kind = "address" => UNCHANGED mistaken
      BY <2>9 DEF SetupPacket, DataPacket, SetupTokenLost, DataTokenLost, TakenFor
    <3>3. /\ AddressAbandoned' <=> request.kind = "address"
          /\ AddressAbandoned <=> request.kind = "address"
      BY <3>1 DEF AddressAbandoned
    <3>4. PICK tok, len, r : /\ Store(tok, len, r)
                             /\ tok = "SETUP" /\ r.kind = "address" => r = request
      BY <2>9 DEF SetupPacket, DataPacket, SetupTokenLost, DataTokenLost, TakenFor
    <3>5. \A p \in rx' :
            p.tok = "SETUP" /\ p.len = 8 /\ p.request.kind = "address" => p.request = request'
      BY <3>1, <3>4 DEF Store
    <3>6. AddressWaits' => request.kind = "address"
      BY <3>4, AddressReceived
    <3>7. QED
      BY <3>1, <3>2, <3>3, <3>5, <3>6 DEF AddressInUse, Assigning, Settled
  <2>10. CASE OutStatus \/ StatusTokenLost
    <3>1. /\ UNCHANGED <<usbDeviceAddr, usbNewDeviceAddr, bus, address, no, request, mistaken, estranged>>
          /\ On /\ rx' \subseteq rx /\ request.kind = "read"
      BY <2>10 DEF OutStatus, StatusTokenLost, MissToken, Addressed, Hears, On, poll, receive, send, faults
    <3>2. QED
      BY <2>s, <3>1 DEF AddressAbandoned
  <2>11. CASE InData \/ InStatus \/ InDamaged
    <3>a. ~estranged
      BY <2>11 DEF InData, InStatus, InDamaged, faults
    <3>1. /\ On /\ ~estranged /\ bus = "idle" /\ rx = {} /\ rx' = {} /\ tx # {}
          /\ usbDeviceAddr' = usbNewDeviceAddr /\ UNCHANGED <<usbNewDeviceAddr, bus, no, request, mistaken>>
      BY <3>a, <2>11 DEF InData, InStatus, InDamaged, SendPacket, Addressed, Hears, On, poll, receive, host, faults
    <3>2. ~AddressWaits'
      BY <3>1, AddressReceived
    <3>3. CASE request.kind # "address"
      <4>1. UNCHANGED address /\ ~AddressAbandoned /\ ~AddressAbandoned'
        BY <2>11, <3>1, <3>3 DEF InData, InStatus, InDamaged, AddressAbandoned, host
      <4>2. QED
        BY <3>1, <3>2, <4>1 DEF AddressInUse, Settled
    <3>4. CASE request.kind = "address"
      <4>1. InStatus /\ stage = "status"
        BY <2>11, <3>4 DEF InData, InDamaged, InStatus, ReadsData, AwaitsReply
      <4>2. PICK p \in tx :
              /\ stage' = IF txToken # hostToken THEN "status" ELSE IF p.len = 0 THEN "done" ELSE "failed"
              /\ address' = IF request.kind = "address" /\ stage' = "done" THEN request.value ELSE address
        BY <4>1 DEF InStatus
      <4>3. no \notin mistaken /\ usbNewDeviceAddr = request.value /\ txToken = hostToken /\ p.len = 0
        BY <3>1, <3>4, <4>1 DEF AddressInUse, OwnTransfer, Underway, Served, SetupWaits, Handled, Outgoing
      <4>4. address' = request.value /\ stage' = "done"
        BY <3>4, <4>2, <4>3
      <4>5. QED
        BY <3>1, <3>2, <4>3, <4>4 DEF AddressInUse, AddressAbandoned, Settled
    <3>5. QED
      BY <3>3, <3>4
  <2>12. QED
    BY <2>1, <2>2, <2>3, <2>4, <2>5, <2>6, <2>7, <2>8, <2>9, <2>10, <2>11
       DEF Next, UsbPoll, StartUp, Transaction, TokenLost
<1>3. AddressInUse => AddressesAgree
  BY DEF AddressInUse, AddressesAgree, On
<1>4. QED
  BY <1>1, <1>2, <1>3, Typing, StructureInvariance, OwnTransferInvariance, PTL DEF Spec
=============================================================================
