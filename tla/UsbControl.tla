----------------------------- MODULE UsbControl -----------------------------
(***************************************************************************)
(* The control endpoint: usbPoll (usbdrv.c), which the TIMER0 interrupt    *)
(* calls, against the receiver interrupt (asmcommon.inc), which may stop it*)
(* anywhere, and the host, which makes control transfers one after another,*)
(* repeats what is not acknowledged, and may abandon a transfer.           *)
(***************************************************************************)
EXTENDS Integers

CONSTANTS
  Asked,         \* what the host's reads are for
  Wants,         \* how many bytes the host asks for (wLength)
  WriteLens,     \* how many bytes the host writes
  Addresses,     \* the addresses the host may assign
  MaxTransfers,  \* bound: control transfers
  MaxLostAcks,   \* bound: acknowledgements the host does not receive
  MaxLostTokens, \* bound: tokens the device does not receive, but the data after them
  MaxResets,     \* bound: bus resets but for those after a connection
  MaxRestarts    \* bound: restarts of the device

USB_NO_MSG == 255

(* A string descriptor: the header and two bytes for each character. *)
StringLen(chars) == 2 * chars + 2

(* The descriptors, and the other standard replies. *)
ReplyLen ==
  [device |-> 18, config |-> 9 + 9 + 7, language |-> 4, vendor |-> StringLen(3),
   product |-> StringLen(3), serial |-> StringLen(1),
   status |-> 2, configuration |-> 1, interface |-> 1, other |-> 0]

ASSUME AskedAssumption     == Asked \subseteq DOMAIN ReplyLen \cup {"message"}
ASSUME LengthsAssumption   == Wants \subseteq 1..(USB_NO_MSG - 1) /\ WriteLens \subseteq 1..8
ASSUME AddressesAssumption == Addresses \subseteq 1..127
ASSUME BoundsAssumption    ==
  /\ MaxTransfers \in Nat /\ MaxLostAcks \in Nat /\ MaxLostTokens \in Nat
  /\ MaxResets \in Nat /\ MaxRestarts \in Nat

VARIABLES
  pc,            \* where usbPoll is, or what the device does before it is called
  rx,            \* the packet in the receive buffer (usbRxLen, usbRxToken), if any
  usbCurrentTok, \* the last token received that data may follow
  tx,            \* the packet the next IN token fetches (usbTxLen), if any
  txToken,       \* 0 for DATA0, 1 for DATA1 in usbTxBuf[0]
  block,         \* the data usbBuildTxBlock has just put into usbTxBuf
  usbMsgLen,     \* bytes still to be put into packets, or USB_NO_MSG
  usbMsgPtr,     \* where they are: the transfer they answer, and the offset
  userRW,        \* usbMsgFlags: data goes to usbFunctionWrite
  usbDeviceAddr, \* the address the receiver answers to
  usbNewDeviceAddr, \* the address it takes when a data packet has been sent
  bus,           \* "reset" until usbPoll sees it, then "reset_seen"
  no, request,   \* host: number of the transfer, and what it asks for
  stage, got,    \* host: its stage, and the bytes read so far
  hostToken,     \* host: the data token it expects next
  address,       \* host: the address it believes the device to have
  setups, writes,\* history: the last transfer set up; those whose data was written
  damaged,       \* history: transfers that lost a packet on its way to the host
  mistaken,      \* history: transfers of which a packet was taken for another token's
  estranged,     \* history: host and device may differ about the address, for a cause
  lostAcks, lostTokens, resets, restarts \* history: faults so far

message == <<block, usbMsgLen, usbMsgPtr, userRW>>
poll    == <<pc, message, usbNewDeviceAddr, setups, writes>>
receive == <<rx, usbCurrentTok>>
send    == <<tx, txToken, usbDeviceAddr>>
host    == <<bus, no, request, stage, got, hostToken, address>>
counts  == <<lostAcks, lostTokens, resets, restarts>>
faults  == <<damaged, mistaken, estranged, counts>>
vars    == <<poll, receive, send, host, faults>>

PacketSize == 8

(* The transfers the host makes: without data, those that write one packet,
   those that assign an address, and those that read. *)
Requests ==
  [kind : {"none"}, value : {0}, what : {"other"}, want : {0}]
    \cup [kind : {"write"}, value : {0}, what : {"other"}, want : WriteLens]
    \cup [kind : {"address"}, value : Addresses, what : {"other"}, want : {0}]
    \cup [kind : {"read"}, value : {0}, what : Asked, want : Wants]

NoRequest == [kind |-> "none", value |-> 0, what |-> "other", want |-> 0]
Nothing == [of |-> 0, at |-> 0, len |-> 0]

Init ==
  /\ pc = "off" /\ rx = {} /\ usbCurrentTok = "none" /\ tx = {} /\ txToken = 0
  /\ block = Nothing /\ usbMsgLen = USB_NO_MSG /\ usbMsgPtr = [of |-> 0, at |-> 0]
  /\ userRW = FALSE /\ usbDeviceAddr = 0 /\ usbNewDeviceAddr = 0 /\ bus = "detached"
  /\ no = 0 /\ request = NoRequest /\ address = 0
  /\ stage = "done" /\ got = 0 /\ hostToken = 1
  /\ setups = 0 /\ writes = {} /\ damaged = {} /\ mistaken = {} /\ estranged = FALSE
  /\ lostAcks = 0 /\ lostTokens = 0 /\ resets = 0 /\ restarts = 0

-----------------------------------------------------------------------------
(* usbPoll *)

Goto(from, to) == pc = from /\ pc' = to

Poll ==
  /\ Goto("poll", IF rx # {} THEN "process" ELSE "transmit")
  /\ UNCHANGED <<message, usbNewDeviceAddr, setups, writes, receive, send, host, faults>>

(* Slip: the packet of the transfer before is not withdrawn. *)
AbortNothing ==
  /\ Goto("process", "setup") /\ \E p \in rx : p.tok = "SETUP" /\ p.len = 8
  /\ txToken' = 0 /\ userRW' = FALSE
  /\ UNCHANGED <<tx, block, usbMsgLen, usbMsgPtr, usbDeviceAddr, usbNewDeviceAddr,
                 setups, writes, receive, host, faults>>

(* Slip: the data token is not initialised. *)
AbortKeepsToken ==
  /\ Goto("process", "setup") /\ \E p \in rx : p.tok = "SETUP" /\ p.len = 8
  /\ tx' = {} /\ userRW' = FALSE
  /\ UNCHANGED <<txToken, block, usbMsgLen, usbMsgPtr, usbDeviceAddr, usbNewDeviceAddr,
                 setups, writes, receive, host, faults>>

(* usbProcessRx, a SETUP packet: initialize data toggling, abort pending transmit *)
Abort ==
  /\ Goto("process", "setup") /\ \E p \in rx : p.tok = "SETUP" /\ p.len = 8
  /\ tx' = {} /\ txToken' = 0 /\ userRW' = FALSE
  /\ UNCHANGED <<block, usbMsgLen, usbMsgPtr, usbDeviceAddr, usbNewDeviceAddr,
                 setups, writes, receive, host, faults>>

(* usbFunctionSetup returns USB_NO_MSG for CMD_ECHO and CMD_RESPONSE, whether the
   request writes or reads. *)
UsesUserRW(r) == r.kind = "write" \/ r.what = "message"

(* The length of the reply, limited to what the host asks for, and just that for
   a read with USB_NO_MSG; a write's is not known before its data has come. *)
Reply(r) ==
  IF UsesUserRW(r) THEN IF r.kind = "write" THEN USB_NO_MSG ELSE r.want
  ELSE IF ReplyLen[r.what] <= r.want THEN ReplyLen[r.what] ELSE r.want

(* usbFunctionSetup or usbDriverSetup, and what is done with its result *)
Setup ==
  /\ Goto("setup", "free")
  /\ \E p \in rx :
       /\ usbMsgLen' = Reply(p.request) /\ userRW' = UsesUserRW(p.request)
       /\ usbMsgPtr' = [of |-> p.of, at |-> 0] /\ setups' = p.of
       /\ usbNewDeviceAddr' = IF p.request.kind = "address" THEN p.request.value
                              ELSE usbNewDeviceAddr
  /\ UNCHANGED <<block, writes, receive, send, host, faults>>

(* A SETUP packet of the wrong length, or data nobody asked for, is dropped. *)
Ignore ==
  /\ Goto("process", "free")
  /\ \E p \in rx : IF p.tok = "SETUP" THEN p.len # 8 ELSE ~userRW
  /\ UNCHANGED <<message, usbNewDeviceAddr, setups, writes, receive, send, host, faults>>

(* Slip: usbFunctionWrite asks for more data. *)
WriteWantsMore ==
  /\ Goto("process", "free") /\ userRW
  /\ \E p \in rx : p.tok = "OUT" /\ writes' = writes \cup {p.of}
  /\ UNCHANGED <<message, usbNewDeviceAddr, setups, receive, send, host, faults>>

(* Data goes to usbFunctionWrite, which takes one packet for all of it. *)
Write ==
  /\ Goto("process", "free") /\ userRW
  /\ \E p \in rx : p.tok = "OUT" /\ writes' = writes \cup {p.of}
  /\ usbMsgLen' = 0
  /\ UNCHANGED <<block, usbMsgPtr, userRW, usbNewDeviceAddr, setups, receive, send, host, faults>>

Free ==
  /\ Goto("free", "transmit") /\ rx' = {}
  /\ UNCHANGED <<message, usbNewDeviceAddr, setups, writes, usbCurrentTok, send, host, faults>>

Transmit ==
  /\ Goto("transmit", IF tx = {} /\ usbMsgLen # USB_NO_MSG THEN "build" ELSE "line")
  /\ UNCHANGED <<message, usbNewDeviceAddr, setups, writes, receive, send, host, faults>>

(* Slip: the last packet is as long as the others. *)
FullPacket == PacketSize

NextLen == IF usbMsgLen > PacketSize THEN PacketSize ELSE usbMsgLen

(* usbBuildTxBlock; a partial packet is the last one. *)
Build ==
  /\ Goto("build", "arm") /\ txToken' = 1 - txToken
  /\ block' = [of |-> usbMsgPtr.of, at |-> usbMsgPtr.at, len |-> NextLen]
  /\ usbMsgPtr' = [usbMsgPtr EXCEPT !.at = @ + NextLen]
  /\ usbMsgLen' = IF NextLen < PacketSize THEN USB_NO_MSG ELSE usbMsgLen - NextLen
  /\ UNCHANGED <<userRW, usbNewDeviceAddr, setups, writes, tx, usbDeviceAddr,
                 receive, host, faults>>

Arm ==
  /\ Goto("arm", "line") /\ tx' = {block}
  /\ UNCHANGED <<message, usbNewDeviceAddr, setups, writes, txToken, usbDeviceAddr,
                 receive, host, faults>>

(* A SET_ADDRESS that usbPoll has not processed yet *)
AddressWaits == \E p \in rx : p.tok = "SETUP" /\ p.len = 8 /\ p.request.kind = "address"

(* Slip: a new address that no data packet has confirmed outlives the reset. *)
KeepNewAddress ==
  /\ Goto("line", "poll") /\ bus \in {"reset", "reset_seen"}
  /\ usbDeviceAddr' = 0 /\ bus' = "reset_seen" /\ estranged' = (estranged /\ AddressWaits)
  /\ UNCHANGED <<message, usbNewDeviceAddr, setups, writes, receive, tx, txToken,
                 no, request, stage, got, hostToken, address, damaged, mistaken, counts>>

(* The line is in the reset state: nothing but the addresses is forgotten. *)
ResetSeen ==
  /\ Goto("line", "poll") /\ bus \in {"reset", "reset_seen"}
  /\ usbDeviceAddr' = 0 /\ usbNewDeviceAddr' = 0
  /\ bus' = "reset_seen" /\ estranged' = (estranged /\ AddressWaits)
  /\ UNCHANGED <<message, setups, writes, receive, tx, txToken,
                 no, request, stage, got, hostToken, address, damaged, mistaken, counts>>

IsNotReset ==
  /\ Goto("line", "poll") /\ bus \notin {"reset", "reset_seen"}
  /\ UNCHANGED <<message, usbNewDeviceAddr, setups, writes, receive, send, host, faults>>

-----------------------------------------------------------------------------
(* The receiver interrupt. *)

(* Slip: a data packet is stored although the one before is unprocessed. *)
StoreOver(tok, len, r) ==
  /\ rx' = {[tok |-> tok, of |-> no, len |-> len, request |-> r]}
  /\ usbCurrentTok' = tok

(* handleData: a packet, which reads as request r, is stored with the last token
   and acknowledged if the buffer is free; otherwise the host is told to repeat
   it. *)
Store(tok, len, r) ==
  /\ rx = {} /\ rx' = {[tok |-> tok, of |-> no, len |-> len, request |-> r]}
  /\ usbCurrentTok' = tok

(* The interrupt is enabled, and the host can reach the device. *)
Hears == pc \notin {"off", "disconnected"} /\ bus = "idle"

(* A token is for this device: it bears the device's address. *)
Addressed == Hears /\ address = usbDeviceAddr

(* Slip: a packet is sent although the one received is unprocessed. *)
SendUnprocessed(p) ==
  /\ Addressed /\ p \in tx /\ tx' = {}
  /\ usbDeviceAddr' = usbNewDeviceAddr

(* handleIn: nothing is sent while a packet is unprocessed; what is sent leaves
   the buffer whatever the host's answer will be, and with a data packet, not
   with a handshake, a new address takes effect. *)
SendPacket(p) ==
  /\ Addressed /\ rx = {} /\ p \in tx /\ tx' = {}
  /\ usbDeviceAddr' = usbNewDeviceAddr

(* The host. *)

(* The stages in which the host sends IN tokens *)
ReadsData   == stage = "data" /\ request.kind = "read"
AwaitsReply == stage = "status" /\ request.kind # "read"

(* A SET_ADDRESS is not followed to its end. *)
AddressAbandoned == request.kind = "address" /\ stage \in {"setup", "status"}

NewTransfer ==
  /\ bus = "idle" /\ no < MaxTransfers /\ no' = no + 1
  /\ request' \in Requests /\ (request'.kind = "address" => address = 0)
  /\ stage' = "setup" /\ got' = 0 /\ hostToken' = 1
  /\ estranged' = (estranged \/ AddressAbandoned)
  /\ UNCHANGED <<poll, receive, send, bus, address, damaged, mistaken, counts>>

(* The host goes on to the next stage, or does not receive the acknowledgement
   and will repeat the packet. *)
Acknowledged(next) ==
  \/ stage' = next /\ UNCHANGED lostAcks
  \/ lostAcks < MaxLostAcks /\ lostAcks' = lostAcks + 1 /\ UNCHANGED stage

AfterSetup == IF request.kind \in {"none", "address"} THEN "status" ELSE "data"

SetupPacket ==
  /\ stage = "setup" /\ Addressed
  /\ Store("SETUP", 8, request) /\ Acknowledged(AfterSetup)
  /\ UNCHANGED <<poll, send, bus, no, request, got, hostToken, address,
                 damaged, mistaken, estranged, lostTokens, resets, restarts>>

DataPacket ==
  /\ stage = "data" /\ request.kind = "write" /\ Addressed
  /\ Store("OUT", request.want, request) /\ Acknowledged("status")
  /\ UNCHANGED <<poll, send, bus, no, request, got, hostToken, address,
                 damaged, mistaken, estranged, lostTokens, resets, restarts>>

(* The device misses a token, and takes the data after it for that of the last
   one it has heard. *)
MissToken ==
  /\ Hears /\ usbCurrentTok # "none"
  /\ lostTokens < MaxLostTokens /\ lostTokens' = lostTokens + 1

(* Data sent with tok, which reads as request r, is stored with another token: a
   SET_ADDRESS is missed, or one is read that the host has not made. *)
TakenFor(tok, r) ==
  IF usbCurrentTok = tok
    THEN UNCHANGED <<mistaken, estranged>>
    ELSE /\ mistaken' = mistaken \cup {no}
         /\ estranged' = (estranged \/ r.kind = "address")

SetupTokenLost ==
  /\ stage = "setup" /\ MissToken
  /\ Store(usbCurrentTok, 8, request) /\ Acknowledged(AfterSetup)
  /\ TakenFor("SETUP", request)
  /\ UNCHANGED <<poll, send, bus, no, request, got, hostToken, address,
                 damaged, resets, restarts>>

(* What eight bytes of data may read as: any request. *)
Contents ==
  Requests \cup [kind : {"address"}, value : {0}, what : {"other"}, want : {0}]

DataTokenLost ==
  /\ stage = "data" /\ request.kind = "write" /\ MissToken
  /\ \E r \in IF request.want = 8 /\ usbCurrentTok = "SETUP" THEN Contents ELSE {request} :
       Store(usbCurrentTok, request.want, r) /\ TakenFor("OUT", r)
  /\ Acknowledged("status")
  /\ UNCHANGED <<poll, send, bus, no, request, got, hostToken, address,
                 damaged, resets, restarts>>

(* An empty packet is acknowledged and not stored, whatever it is taken for. *)
StatusTokenLost ==
  /\ stage = "status" /\ request.kind = "read" /\ MissToken /\ rx = {} /\ stage' = "done"
  /\ UNCHANGED <<poll, receive, send, bus, no, request, got, hostToken, address,
                 damaged, mistaken, estranged, lostAcks, resets, restarts>>

TokenLost == SetupTokenLost \/ DataTokenLost \/ StatusTokenLost

(* ignorePacket: a token that is damaged, or for another device, or the host's
   acknowledgement of what it has read *)
IgnorePacket ==
  /\ Hears /\ usbCurrentTok' = "none"
  /\ UNCHANGED <<poll, rx, send, host, faults>>

(* A block of a read; the host drops one whose token says it is repeated. *)
InData ==
  \E p \in tx :
    /\ ReadsData /\ SendPacket(p)
    /\ IF txToken = hostToken
         THEN /\ got' = got + p.len /\ hostToken' = 1 - hostToken
              /\ stage' = IF got' >= request.want \/ p.len < PacketSize THEN "status" ELSE "data"
         ELSE UNCHANGED <<got, hostToken, stage>>
    /\ UNCHANGED <<poll, receive, txToken, bus, no, request, address, faults>>

(* An empty block ends the others; the host uses a new address from here on.  A
   block with data in its place, the reply to a mistaken packet, is an error. *)
InStatus ==
  \E p \in tx :
    /\ AwaitsReply /\ SendPacket(p)
    /\ stage' = IF txToken # hostToken THEN "status" ELSE IF p.len = 0 THEN "done" ELSE "failed"
    /\ address' = IF request.kind = "address" /\ stage' = "done" THEN request.value ELSE address
    /\ UNCHANGED <<poll, receive, txToken, bus, no, request, got, hostToken, faults>>

(* A packet is damaged on its way to the host, once per transfer. *)
InDamaged ==
  \E p \in tx :
    /\ (ReadsData \/ AwaitsReply) /\ SendPacket(p)
    /\ no \notin damaged /\ damaged' = damaged \cup {no}
    /\ estranged' = (estranged \/ request.kind = "address")
    /\ UNCHANGED <<poll, receive, txToken, host, mistaken, counts>>

(* An empty packet ends a read; it is acknowledged and not stored. *)
OutStatus ==
  /\ stage = "status" /\ request.kind = "read" /\ Addressed /\ rx = {} /\ stage' = "done"
  /\ usbCurrentTok' = "OUT"
  /\ UNCHANGED <<poll, rx, send, bus, no, request, got, hostToken, address, faults>>

-----------------------------------------------------------------------------
(* Start-up, restart and bus reset. *)

(* The watchdog, or the reset pin: the variables are as at first, and the host
   does not notice. *)
Restart ==
  /\ pc # "off" /\ restarts < MaxRestarts /\ restarts' = restarts + 1
  /\ pc' = "off" /\ rx' = {} /\ usbCurrentTok' = "none" /\ tx' = {} /\ txToken' = 0
  /\ block' = Nothing /\ usbMsgLen' = USB_NO_MSG /\ usbMsgPtr' = [of |-> 0, at |-> 0]
  /\ userRW' = FALSE /\ usbDeviceAddr' = 0 /\ usbNewDeviceAddr' = 0
  /\ UNCHANGED <<setups, writes, host, damaged, mistaken, estranged, lostAcks, lostTokens, resets>>

(* The host gives up whatever it was doing, and takes the device for a new one. *)
Forget ==
  stage' = "aborted" /\ address' = 0 /\ request' = NoRequest /\ got' = 0 /\ hostToken' = 1

(* USB_InitAndConnect: the host must notice that the device has gone, ... *)
Disconnect ==
  /\ Goto("off", "disconnected")
  /\ bus' = "detached" /\ Forget /\ estranged' = FALSE
  /\ UNCHANGED <<message, usbNewDeviceAddr, setups, writes, receive, send, no, damaged, mistaken, counts>>

(* ... and that it is back; sei. *)
Connect ==
  /\ Goto("disconnected", "poll") /\ bus' = "attached"
  /\ UNCHANGED <<message, usbNewDeviceAddr, setups, writes, receive, send,
                 no, request, stage, got, hostToken, address, faults>>

(* The host resets the bus after a connection, or for reasons of its own. *)
BusReset ==
  /\ \/ bus = "attached" /\ UNCHANGED resets
     \/ bus = "idle" /\ resets < MaxResets /\ resets' = resets + 1
  /\ bus' = "reset" /\ Forget /\ estranged' = (estranged \/ AddressAbandoned)
  /\ UNCHANGED <<poll, receive, send, no, damaged, mistaken, lostAcks, lostTokens, restarts>>

(* usbPoll is called every 22 ms: a reset of 10 ms may pass between two calls. *)
EndReset ==
  /\ bus \in {"reset", "reset_seen"} /\ bus' = "idle"
  /\ estranged' = \/ estranged
                  \/ bus = "reset" /\ {usbDeviceAddr, usbNewDeviceAddr} # {0}
  /\ UNCHANGED <<poll, receive, send, no, request, stage, got, hostToken, address, damaged, mistaken, counts>>

-----------------------------------------------------------------------------
UsbPoll ==
  \/ Poll \/ Abort \/ Setup \/ Ignore \/ Write \/ Free \/ Transmit \/ Build \/ Arm
  \/ ResetSeen \/ IsNotReset
StartUp == Disconnect \/ Connect
Transaction == SetupPacket \/ DataPacket \/ InData \/ InStatus \/ OutStatus
Next ==
  \/ UsbPoll \/ StartUp \/ Restart \/ BusReset \/ EndReset
  \/ Transaction \/ NewTransfer \/ TokenLost \/ IgnorePacket \/ InDamaged

Spec == Init /\ [][Next]_vars

(* USB_InitAndConnect comes to its end and TIMER0 keeps calling usbPoll; the
   host repeats what is answered with NAK. *)
FairSpec == Spec /\ WF_vars(UsbPoll) /\ WF_vars(StartUp) /\ WF_vars(Transaction)

-----------------------------------------------------------------------------
Transfers == 0..MaxTransfers

(* Every variable has its type; the length of what is left to send, an unsigned
   char, does not fall below zero when a packet is taken off. *)
TypeOK ==
  /\ pc \in {"off", "disconnected", "poll", "process", "setup", "free", "transmit",
              "build", "arm", "line"}
  /\ rx \subseteq [tok : {"SETUP", "OUT"}, of : Transfers, len : {8} \cup WriteLens,
                   request : Contents]
  /\ usbCurrentTok \in {"none", "SETUP", "OUT"}
  /\ {block} \cup tx \subseteq [of : Transfers, at : Nat, len : 0..PacketSize]
  /\ \A p, q \in rx : p = q
  /\ \A p, q \in tx : p = q
  /\ txToken \in {0, 1} /\ hostToken \in {0, 1} /\ userRW \in BOOLEAN
  /\ usbMsgLen \in 0..USB_NO_MSG /\ usbMsgPtr \in [of : Transfers, at : Nat]
  /\ {usbDeviceAddr, usbNewDeviceAddr, address} \subseteq Addresses \cup {0}
  /\ bus \in {"detached", "attached", "reset", "reset_seen", "idle"}
  /\ no \in Transfers /\ request \in Requests
  /\ stage \in {"setup", "data", "status", "done", "failed", "aborted"}
  /\ got \in Nat /\ setups \in Transfers /\ writes \subseteq Transfers
  /\ damaged \subseteq Transfers /\ mistaken \subseteq Transfers /\ estranged \in BOOLEAN
  /\ lostAcks \in 0..MaxLostAcks /\ lostTokens \in 0..MaxLostTokens
  /\ resets \in 0..MaxResets /\ restarts \in 0..MaxRestarts

(* What an IN token can fetch was made for the transfer under way, never left
   over from one that was abandoned or repeated, even when the SETUP packet
   arrives while usbPoll is building the answer to the one before: unless a
   packet of this transfer was taken for another token's. *)
RepliesAreFresh ==
  \A p \in tx :
    rx = {} /\ stage \notin {"setup", "aborted"} /\ no \notin mistaken => p.of = no

(* Unless a packet of the transfer is damaged or mistaken, what the host reads
   comes in order. *)
ReadsInOrder ==
  \A p \in tx :
    /\ rx = {} /\ ReadsData /\ txToken = hostToken /\ no \notin damaged \cup mistaken
    => p.at = got

(* A transfer the host sees completed has been handled: its request was set up,
   its data was written; and all there is to read of it has been read, unless a
   packet was damaged: the host then may take the end of a reply for the whole.
   Only a transfer of which a packet was mistaken itself is excepted: what that
   packet set up or wrote harms no transfer after it. *)
CompletedIsHandled ==
  stage = "done" /\ no \notin mistaken =>
    /\ setups = no
    /\ request.kind = "write" => no \in writes
    /\ request.kind = "read" /\ no \notin damaged => got = Reply(request)

(* usbFunctionWrite, which depends on the command usbFunctionSetup stored, gets
   no data but that of the same transfer, or the bytes of a SETUP packet whose
   own token was missed. *)
DataFollowsItsSetup ==
  \A p \in rx :
    pc = "process" /\ p.tok = "OUT" /\ userRW => p.of = setups \/ p.of \in mistaken

(* The device answers to the address the host uses, and so can be reached at
   all, however resets, restarts and an assignment of an address fall together.
   They may differ only if SET_ADDRESS was abandoned, its packet mistaken or the
   packet that ends it damaged, if written data was taken for a SET_ADDRESS, or
   if usbPoll missed a reset; a reset that it sees mends that. *)
AddressesAgree ==
  pc \notin {"off", "disconnected"} /\ bus = "idle" /\ ~estranged => usbDeviceAddr = address

(* A transfer without a damaged or mistaken packet comes to its end, unless the
   host abandons it, the device restarts, or host and device differ about the
   address. *)
TransferCompletes ==
  \A n \in 1..MaxTransfers :
    no = n ~> \/ stage \in {"done", "aborted"} \/ no > n
              \/ n \in damaged \cup mistaken \/ estranged
=============================================================================
