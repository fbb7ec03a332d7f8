------------------------------ MODULE Terminal ------------------------------
(***************************************************************************)
(* The travel card terminal: the main loop of main.c, the card reader calls*)
(* it makes (rfid.c), and the interrupt handlers that share its variables: *)
(* TIMER1 (connection lost) and the USB requests served from TIMER0.       *)
(*                                                                         *)
(* The main loop is one process; its pc is a place in main().  Interrupts  *)
(* run to completion between two of its steps.  A step ends wherever an    *)
(* interrupt could make a difference: between the test of first_step and   *)
(* its reset, between the bytes of a 16-bit number, between handing a      *)
(* message to USB and changing state.                                      *)
(***************************************************************************)
EXTENDS Integers, FiniteSets

CONSTANTS
  Cards,            \* the identifiers of the cards customers hold
  NoCard,           \* the all-zero identifier; also: no card on the reader
  ResponseCodes,    \* the codes the server answers with
  EchoBytes,        \* the first bytes of the CMD_ECHO requests the host makes
  OtherCommands,    \* the commands of its other requests, which no data follows
  TimeoutTicks,     \* passes of case processing before it gives up
  MaxPresentations, \* bound: how often a card is put on the reader
  MaxOutages        \* bound: how often the keep-alive requests fail to come

ASSUME CardsAssumption   == NoCard \notin Cards
ASSUME CodesAssumption   ==
  ResponseCodes \subseteq 1..255 /\ EchoBytes \subseteq 0..255 /\ OtherCommands \subseteq 0..255
ASSUME TimeoutAssumption == TimeoutTicks \in Nat \ {0}
ASSUME BoundsAssumption  == MaxPresentations \in Nat /\ MaxOutages \in Nat

VARIABLES
  pc,          \* where main() is
  state,       \* the state the next pass of the main loop dispatches on
  first_step,  \* 1 until the state's first pass has printed its text
  command,     \* current.command
  response,    \* current.response, and the scan whose answer wrote each field
  card_id,     \* current.card_id: the first two bytes and the other five
  reading,     \* the card whose identifier the reader is sending
  ticks,       \* the counters i and j of case processing
  lcd,         \* the texts on the two lines of the display
  green,       \* is the green light on?
  ep1,         \* the message in the buffer of interrupt endpoint 1, if any
  xfer,        \* the data stage of a control write still to come, if any
  card,        \* environment: the card on the reader
  hostAlive,   \* environment: keep-alive requests arrive in time
  requests,    \* environment: the scans the server has and did not answer yet
  placed,      \* bound: presentations so far
  outages,     \* bound: outages so far
  scans,       \* history: number of scans handed to USB
  shown,       \* history: what the verdict on the display was made from
  settled,     \* history: scans whose answer was shown, or came too late for it,
               \*          and was cleared, and has not been repeated since
  reports,     \* history: scans handed to USB during this presentation
  cutCard,     \* history: TIMER1 fired during this presentation
  cutTxn       \* history: TIMER1 fired since the last verdict was cleared

mainVars    == <<state, first_step, card_id, reading, ticks, lcd, green>>
usbVars     == <<command, response, ep1, xfer>>
envVars     == <<card, hostAlive, requests, placed, outages>>
historyVars == <<scans, shown, settled, reports, cutCard, cutTxn>>
vars        == <<pc, mainVars, usbVars, envVars, historyVars>>

CMD_ECHO       == 0
CMD_RESPONSE   == 3
CMD_KEEP_ALIVE == 4

RESP_CARD_NOT_FOUND     == 2
RESP_INSUFFICIENT_FUNDS == 3
RESP_TOO_LATE_CHECK_OUT == 4
RESP_INVALID_CARD       == 5
RESP_CHECKED_IN         == 6
RESP_CHECKED_OUT        == 7
RESP_OK                 == 8
RESP_TIMED_OUT          == 99   \* has no name in the code

(* The codes whose answer carries a balance, and those that carry a price. *)
BalanceCodes == {RESP_CHECKED_IN, RESP_CHECKED_OUT, RESP_INSUFFICIENT_FUNDS}
PriceCodes   == {RESP_CHECKED_OUT, RESP_INSUFFICIENT_FUNDS}

States == {"starting", "idle", "scanning", "processing", "info", "no_connection"}

(* The places of main() between which interrupts matter. *)
Places == States \cup
  {"setup", "dispatch", "started", "idle_first", "idle_card", "scanning_first",
   "get_id", "await_status", "await_bytes", "send", "sent", "processing_first",
   "count", "beep", "price_lo", "price_hi", "balance_lo", "balance_hi",
   "info_wait", "info_done", "no_connection_first"}

Ids      == [head : Cards \cup {NoCard}, tail : Cards \cup {NoCard}]
ZeroId   == [head |-> NoCard, tail |-> NoCard]

(* A verdict before any number is printed, and the display without a verdict. *)
NothingPrinted(code, of) == [code |-> code, of |-> of, priceLo |-> 0, priceHi |-> 0,
                             balanceLo |-> 0, balanceHi |-> 0]
NothingShown == NothingPrinted(0, 0)

ClearedResponse == [code |-> 0, of |-> 0, balance |-> 0, price |-> 0]

(* An assignment to current.response.code alone, by the terminal itself. *)
SetCode(code) ==
  response' = [code |-> code, of |-> 0,
               balance |-> response.balance, price |-> response.price]

Text(top, bottom) == [top |-> top, bottom |-> bottom]

-----------------------------------------------------------------------------
(* Reset: RAM as the C start-up code leaves it, the endpoints as usbInit
   leaves them, no keep-alive request seen yet. *)
ResetMemory(s, f, cmd, r, id, e, x) ==
  /\ s = "starting" /\ f = 1 /\ cmd = 0
  /\ r = ClearedResponse /\ id = ZeroId /\ e = {} /\ x = {}

Init ==
  /\ ResetMemory(state, first_step, command, response, card_id, ep1, xfer)
  /\ pc = "setup" /\ reading = NoCard /\ ticks = 0
  /\ lcd = Text("blank", "clear") /\ green = FALSE
  /\ card = NoCard /\ hostAlive = FALSE /\ requests = {}
  /\ placed = 0 /\ outages = 0 /\ scans = 0
  /\ shown = NothingShown /\ settled = {} /\ reports = 0
  /\ cutCard = FALSE /\ cutTxn = FALSE

-----------------------------------------------------------------------------
(* The steps of main(). *)

Goto(from, to) == pc = from /\ pc' = to

(* setup() clears the display; main() lights the green light.  The button is
   not pressed: main() does not enter test(). *)
Setup ==
  /\ Goto("setup", "dispatch")
  /\ lcd' = Text("blank", "clear") /\ green' = TRUE
  /\ UNCHANGED <<state, first_step, card_id, reading, ticks, usbVars, envVars, historyVars>>

(* switch (state) *)
Dispatch ==
  /\ Goto("dispatch", state)
  /\ UNCHANGED <<mainVars, usbVars, envVars, historyVars>>

Starting ==
  /\ Goto("starting", "started")
  /\ lcd' = Text("starting", "clear")
  /\ UNCHANGED <<state, first_step, card_id, reading, ticks, green,
                 usbVars, envVars, historyVars>>

(* One second later, whatever TIMER1 did meanwhile. *)
Started ==
  /\ Goto("started", "dispatch")
  /\ state' = "idle" /\ first_step' = 1
  /\ UNCHANGED <<card_id, reading, ticks, lcd, green, usbVars, envVars, historyVars>>

Idle ==
  /\ Goto("idle", IF first_step = 1 THEN "idle_first" ELSE "idle_card")
  /\ green' = TRUE
  /\ UNCHANGED <<state, first_step, card_id, reading, ticks, lcd,
                 usbVars, envVars, historyVars>>

IdleFirst ==
  /\ Goto("idle_first", "idle_card")
  /\ first_step' = 0 /\ lcd' = Text("scan_here", "clear")
  /\ UNCHANGED <<state, card_id, reading, ticks, green, usbVars, envVars, historyVars>>

(* Slip: case scanning is entered with the flag case idle has cleared. *)
IdleCardLeavesFlag ==
  /\ Goto("idle_card", "dispatch")
  /\ IF card = NoCard
       THEN UNCHANGED <<state, green>>
       ELSE state' = "scanning" /\ green' = FALSE
  /\ UNCHANGED <<first_step, card_id, reading, ticks, lcd, usbVars, envVars, historyVars>>

(* RFID_IsCardPresent() in case idle *)
IdleCard ==
  /\ Goto("idle_card", "dispatch")
  /\ IF card = NoCard
       THEN UNCHANGED <<state, first_step, green>>
       ELSE state' = "scanning" /\ first_step' = 1 /\ green' = FALSE
  /\ UNCHANGED <<card_id, reading, ticks, lcd, usbVars, envVars, historyVars>>

Scanning ==
  /\ Goto("scanning", IF first_step = 1 THEN "scanning_first" ELSE "get_id")
  /\ UNCHANGED <<mainVars, usbVars, envVars, historyVars>>

(* Only the first line is written. *)
ScanningFirst ==
  /\ Goto("scanning_first", "get_id")
  /\ first_step' = 0 /\ lcd' = [lcd EXCEPT !.top = "working"]
  /\ UNCHANGED <<state, card_id, reading, ticks, green, usbVars, envVars, historyVars>>

(* RFID_GetCardId clears sizeof(pointer) = 2 bytes of the buffer and asks the
   reader for its status. *)
GetCardId ==
  /\ Goto("get_id", "await_status")
  /\ card_id' = [card_id EXCEPT !.head = NoCard]
  /\ UNCHANGED <<state, first_step, reading, ticks, lcd, green,
                 usbVars, envVars, historyVars>>

(* "return -1" of a function whose result is uint8_t *)
AsUint8(n) == n % 256
ReadFailed == AsUint8(-1)

(* The test "n == -1" on RFID_GetCardId's result n. *)
ScanResult(n) ==
  IF n = -1
    THEN /\ state' = "info" /\ first_step' = 1
         /\ SetCode(RESP_INVALID_CARD)
         /\ pc' = "dispatch"
    ELSE /\ pc' = "send"
         /\ UNCHANGED <<state, first_step, response>>

(* The reader reports a card, the one on it, and sends its identifier ... *)
ReaderAck ==
  /\ Goto("await_status", "await_bytes")
  /\ card # NoCard /\ reading' = card
  /\ UNCHANGED <<state, first_step, card_id, ticks, lcd, green,
                 usbVars, envVars, historyVars>>

(* ... or reports that it could not read one. *)
ReaderNak ==
  /\ pc = "await_status" /\ ScanResult(ReadFailed)
  /\ UNCHANGED <<card_id, reading, ticks, lcd, green, command, ep1, xfer,
                 envVars, historyVars>>

ReaderBytes ==
  /\ pc = "await_bytes" /\ ScanResult(0)
  /\ card_id' = [head |-> reading, tail |-> reading] /\ reading' = NoCard
  /\ UNCHANGED <<ticks, lcd, green, command, ep1, xfer, envVars, historyVars>>

(* The reader does not answer: nothing feeds the watchdog while main() waits
   for the status. *)
WatchdogReset ==
  /\ Goto("await_status", "setup")
  /\ ResetMemory(state', first_step', command', response', card_id', ep1', xfer')
  /\ reading' = NoCard /\ ticks' = 0 /\ green' = FALSE
  /\ shown' = NothingShown /\ cutTxn' = FALSE
  /\ UNCHANGED <<lcd, envVars, scans, settled, reports, cutCard>>

(* usbSetInterrupt(current.card_id, 8), whether or not the endpoint was ready *)
Send ==
  /\ Goto("send", "sent")
  /\ ep1' = {[scan |-> scans + 1, id |-> card_id]}
  /\ scans' = scans + 1 /\ reports' = reports + 1
  /\ UNCHANGED <<mainVars, command, response, xfer, envVars,
                 shown, settled, cutCard, cutTxn>>

Sent ==
  /\ Goto("sent", "dispatch")
  /\ first_step' = 1 /\ state' = "processing"
  /\ UNCHANGED <<card_id, reading, ticks, lcd, green, usbVars, envVars, historyVars>>

Processing ==
  /\ Goto("processing", IF response.code # 0 THEN "beep"
                        ELSE IF first_step = 1 THEN "processing_first" ELSE "count")
  /\ UNCHANGED <<mainVars, usbVars, envVars, historyVars>>

ProcessingFirst ==
  /\ Goto("processing_first", "count")
  /\ ticks' = 0 /\ first_step' = 0
  /\ UNCHANGED <<state, card_id, reading, lcd, green, usbVars, envVars, historyVars>>

(* Slip: the limit is tested before the pass is counted. *)
CountOneTooMany ==
  /\ Goto("count", "dispatch")
  /\ ticks' = ticks + 1
  /\ IF ticks = TimeoutTicks
       THEN /\ state' = "info" /\ first_step' = 1
            /\ SetCode(RESP_TIMED_OUT)
       ELSE UNCHANGED <<state, first_step, response>>
  /\ UNCHANGED <<card_id, reading, lcd, green, command, ep1, xfer, envVars, historyVars>>

(* Slip: the outer counter is never incremented. *)
CountForever ==
  /\ Goto("count", "dispatch")
  /\ UNCHANGED <<mainVars, usbVars, envVars, historyVars>>

Count ==
  /\ Goto("count", "dispatch")
  /\ ticks' = ticks + 1
  /\ IF ticks' = TimeoutTicks
       THEN /\ state' = "info" /\ first_step' = 1
            /\ SetCode(RESP_TIMED_OUT)
       ELSE UNCHANGED <<state, first_step, response>>
  /\ UNCHANGED <<card_id, reading, lcd, green, command, ep1, xfer, envVars, historyVars>>

(* The beeps take up to 255 ms, during which interrupts run. *)
Beep ==
  /\ Goto("beep", "dispatch")
  /\ state' = "info" /\ first_step' = 1
  /\ UNCHANGED <<card_id, reading, ticks, lcd, green, usbVars, envVars, historyVars>>

(* switch (current.response.code): the text of the verdict.  A check out
   prints the price, so its first line waits for it. *)
Info ==
  /\ pc = "info"
  /\ shown' = NothingPrinted(response.code, response.of)
  /\ \/ /\ response.code = RESP_CHECKED_OUT
        /\ pc' = "price_lo" /\ UNCHANGED lcd
     \/ /\ response.code \in {RESP_CHECKED_IN, RESP_INSUFFICIENT_FUNDS}
        /\ pc' = "balance_lo" /\ lcd' = [lcd EXCEPT !.top = "verdict"]
     \/ /\ response.code \notin BalanceCodes
        /\ pc' = "info_wait"
        /\ lcd' = Text("verdict",
                       IF response.code = RESP_TOO_LATE_CHECK_OUT THEN "fee" ELSE "clear")
  /\ UNCHANGED <<state, first_step, card_id, reading, ticks, green,
                 usbVars, envVars, scans, settled, reports, cutCard, cutTxn>>

(* A 16-bit number is loaded one byte at a time. *)
PriceLo ==
  /\ Goto("price_lo", "price_hi")
  /\ shown' = [shown EXCEPT !.priceLo = response.price]
  /\ UNCHANGED <<mainVars, usbVars, envVars, scans, settled, reports, cutCard, cutTxn>>

PriceHi ==
  /\ Goto("price_hi", "balance_lo")
  /\ shown' = [shown EXCEPT !.priceHi = response.price]
  /\ lcd' = [lcd EXCEPT !.top = "verdict"]
  /\ UNCHANGED <<state, first_step, card_id, reading, ticks, green,
                 usbVars, envVars, scans, settled, reports, cutCard, cutTxn>>

BalanceLo ==
  /\ Goto("balance_lo", "balance_hi")
  /\ shown' = [shown EXCEPT !.balanceLo = response.balance]
  /\ UNCHANGED <<mainVars, usbVars, envVars, scans, settled, reports, cutCard, cutTxn>>

BalanceHi ==
  /\ Goto("balance_hi", "info_wait")
  /\ shown' = [shown EXCEPT !.balanceHi = response.balance]
  /\ lcd' = [lcd EXCEPT !.bottom = "balance"]
  /\ UNCHANGED <<state, first_step, card_id, reading, ticks, green,
                 usbVars, envVars, scans, settled, reports, cutCard, cutTxn>>

(* Slip: case info does not wait for the card to be removed. *)
InfoDoesNotWait ==
  /\ Goto("info_wait", "info_done")
  /\ UNCHANGED <<mainVars, usbVars, envVars, historyVars>>

(* Stay here until the customer removes the card. *)
InfoWait ==
  /\ Goto("info_wait", "info_done")
  /\ card = NoCard
  /\ UNCHANGED <<mainVars, usbVars, envVars, historyVars>>

(* Case info but for one assignment: the code or the card stays. *)
InfoDoneBut(keepCode, keepCard) ==
  /\ Goto("info_done", "dispatch")
  /\ state' = "idle" /\ first_step' = 1
  /\ IF keepCode THEN UNCHANGED response
                 ELSE SetCode(0)
  /\ IF keepCard THEN UNCHANGED card_id ELSE card_id' = ZeroId
  /\ settled' = settled \cup ({shown.of, response.of} \ {0})
  /\ shown' = NothingShown /\ cutTxn' = FALSE
  /\ UNCHANGED <<reading, ticks, lcd, green, command, ep1, xfer, envVars,
                 scans, reports, cutCard>>
InfoKeepsCode == InfoDoneBut(TRUE, FALSE)
InfoKeepsCard == InfoDoneBut(FALSE, TRUE)

(* The verdict stays on the display for 1.5 s more, until case idle prints. *)
InfoDone ==
  /\ Goto("info_done", "dispatch")
  /\ state' = "idle" /\ first_step' = 1
  /\ SetCode(0)
  /\ card_id' = ZeroId
  /\ settled' = settled \cup ({shown.of, response.of} \ {0})
  /\ shown' = NothingShown /\ cutTxn' = FALSE
  /\ UNCHANGED <<reading, ticks, lcd, green, command, ep1, xfer, envVars,
                 scans, reports, cutCard>>

NoConnection ==
  /\ Goto("no_connection", IF first_step = 1 THEN "no_connection_first" ELSE "dispatch")
  /\ green' = FALSE
  /\ UNCHANGED <<state, first_step, card_id, reading, ticks, lcd,
                 usbVars, envVars, historyVars>>

NoConnectionFirst ==
  /\ Goto("no_connection_first", "dispatch")
  /\ first_step' = 0 /\ lcd' = Text("out_of_order", "clear")
  /\ UNCHANGED <<state, card_id, reading, ticks, green, usbVars, envVars, historyVars>>

-----------------------------------------------------------------------------
(* Interrupt handlers. *)

Booted == pc # "setup"

(* Slip: the handler changes state but not the flag. *)
Timer1LeavesFlag ==
  /\ Booted /\ ~hostAlive
  /\ state' = "no_connection"
  /\ cutCard' = (cutCard \/ card # NoCard) /\ cutTxn' = TRUE
  /\ UNCHANGED <<pc, first_step, card_id, reading, ticks, lcd, green, usbVars, envVars,
                 scans, shown, settled, reports>>

(* TIMER1 counts to its limit, and again each time it starts over, unless a
   keep-alive request resets it. *)
Timer1 ==
  /\ Booted /\ ~hostAlive
  /\ state' = "no_connection" /\ first_step' = 1
  /\ cutCard' = (cutCard \/ card # NoCard) /\ cutTxn' = TRUE
  /\ UNCHANGED <<pc, card_id, reading, ticks, lcd, green, usbVars, envVars,
                 scans, shown, settled, reports>>

(* usbFunctionSetup: a request replaces one whose data stage did not come. *)
SetupRequest(cmd, data) == Booted /\ command' = cmd /\ xfer' = data

(* Slip: a keep-alive request resets TIMER1 and does nothing else. *)
KeepAliveOnly ==
  /\ hostAlive /\ SetupRequest(CMD_KEEP_ALIVE, {})
  /\ UNCHANGED <<pc, mainVars, response, ep1, envVars, historyVars>>

(* isAlive() *)
KeepAlive ==
  /\ hostAlive /\ SetupRequest(CMD_KEEP_ALIVE, {})
  /\ IF state = "no_connection"
       THEN state' = "starting" /\ first_step' = 1
       ELSE UNCHANGED <<state, first_step>>
  /\ UNCHANGED <<pc, card_id, reading, ticks, lcd, green, response, ep1,
                 envVars, historyVars>>

(* A command the code does not know, or CMD_ECHO or CMD_RESPONSE in a read: the
   command is stored all the same, and no data follows. *)
SetupOther(cmd) ==
  /\ SetupRequest(cmd, {})
  /\ UNCHANGED <<pc, mainVars, response, ep1, envVars, historyVars>>

(* The data stage of a write, not come yet. *)
Data(s, code) == {[of |-> s, code |-> code, again |-> FALSE]}

(* The server answers scan s with the given code. *)
SetupResponse(s, code) ==
  /\ s \in requests /\ requests' = requests \ {s}
  /\ SetupRequest(CMD_RESPONSE, Data(s, code))
  /\ UNCHANGED <<pc, mainVars, response, ep1, card, hostAlive, placed, outages,
                 historyVars>>

SetupEcho(byte) ==
  /\ SetupRequest(CMD_ECHO, Data(0, byte))
  /\ UNCHANGED <<pc, mainVars, response, ep1, envVars, historyVars>>

(* usbFunctionWrite: the first byte is the code whatever the command is.  A host
   that misses the acknowledgement sends the packet again, at any time before
   its next request, and the driver, which does not check the data token, calls
   usbFunctionWrite again. *)
WriteDataStoring(balanceCodes) ==
  \E d \in xfer, acked \in BOOLEAN :
    /\ Booted /\ xfer' = IF acked THEN {} ELSE {[d EXCEPT !.again = TRUE]}
    /\ response' =
         [code    |-> d.code,
          of      |-> d.of,
          balance |-> IF command = CMD_RESPONSE /\ d.code \in balanceCodes
                        THEN d.of ELSE response.balance,
          price   |-> IF command = CMD_RESPONSE /\ d.code \in PriceCodes
                        THEN d.of ELSE response.price]
    /\ settled' = settled \ {d.of}
    /\ UNCHANGED <<pc, mainVars, command, ep1, envVars, scans, shown, reports,
                   cutCard, cutTxn>>

(* Slip: the balance of a refused check in is not stored. *)
WriteDataNoRefusal == WriteDataStoring({RESP_CHECKED_IN, RESP_CHECKED_OUT})

WriteData == WriteDataStoring(BalanceCodes)

-----------------------------------------------------------------------------
(* The environment. *)

(* The host polls endpoint 1: the message leaves its buffer. *)
HostPoll ==
  \E m \in ep1 :
    /\ Booted /\ ep1' = {} /\ requests' = requests \cup {m.scan}
    /\ UNCHANGED <<pc, mainVars, command, response, xfer, card, hostAlive,
                   placed, outages, historyVars>>

HostUp ==
  /\ ~hostAlive /\ hostAlive' = TRUE
  /\ UNCHANGED <<pc, mainVars, usbVars, card, requests, placed, outages, historyVars>>

HostDown ==
  /\ hostAlive /\ hostAlive' = FALSE
  /\ outages < MaxOutages /\ outages' = outages + 1
  /\ UNCHANGED <<pc, mainVars, usbVars, card, requests, placed, historyVars>>

CardPlaced(c) ==
  /\ card = NoCard /\ card' = c
  /\ placed < MaxPresentations /\ placed' = placed + 1
  /\ reports' = 0 /\ cutCard' = FALSE
  /\ UNCHANGED <<pc, mainVars, usbVars, hostAlive, requests, outages,
                 scans, shown, settled, cutTxn>>

CardRemoved ==
  /\ card # NoCard /\ card' = NoCard
  /\ UNCHANGED <<pc, mainVars, usbVars, hostAlive, requests, placed, outages, historyVars>>

-----------------------------------------------------------------------------
Main ==
  \/ Setup \/ Dispatch \/ Starting \/ Started
  \/ Idle \/ IdleFirst \/ IdleCard
  \/ Scanning \/ ScanningFirst \/ GetCardId \/ Send \/ Sent
  \/ Processing \/ ProcessingFirst \/ Count \/ Beep
  \/ Info \/ PriceLo \/ PriceHi \/ BalanceLo \/ BalanceHi \/ InfoWait \/ InfoDone
  \/ NoConnection \/ NoConnectionFirst

ReaderStatus == ReaderAck \/ ReaderNak \/ WatchdogReset

Interrupt ==
  \/ Timer1 \/ KeepAlive \/ WriteData
  \/ \E s \in requests, code \in ResponseCodes : SetupResponse(s, code)
  \/ \E byte \in EchoBytes : SetupEcho(byte)
  \/ \E cmd \in OtherCommands \ {CMD_KEEP_ALIVE} : SetupOther(cmd)

Environment ==
  \/ HostPoll \/ HostUp \/ HostDown \/ CardRemoved
  \/ \E c \in Cards : CardPlaced(c)

Next == Main \/ ReaderStatus \/ ReaderBytes \/ Interrupt \/ Environment

Spec == Init /\ [][Next]_vars

(* The processor keeps running; TIMER1 keeps firing while no request resets
   it, and a live host keeps sending them; the reader answers or the watchdog
   bites; a reader that announced an identifier sends it.  Nothing is assumed
   of customers, nor of the server's answers. *)
Fairness ==
  /\ WF_vars(Main) /\ WF_vars(Timer1) /\ WF_vars(KeepAlive)
  /\ WF_vars(ReaderStatus) /\ WF_vars(ReaderBytes)

FairSpec == Spec /\ Fairness

-----------------------------------------------------------------------------
(* Properties that hold. *)

MainTypeOK ==
  /\ pc \in Places /\ state \in States /\ first_step \in {0, 1}
  /\ card_id \in Ids /\ reading \in Cards \cup {NoCard} /\ ticks \in 0..TimeoutTicks
  /\ lcd \in [top : {"blank", "starting", "scan_here", "working", "verdict", "out_of_order"},
              bottom : {"clear", "balance", "fee"}]

UsbTypeOK ==
  /\ command \in 0..255
  /\ response \in [code : 0..255, of : 0..scans, balance : 0..scans, price : 0..scans]
  /\ ep1 \subseteq [scan : 1..scans, id : Ids]
  /\ xfer \subseteq [of : 0..scans, code : 0..255, again : BOOLEAN]

EnvTypeOK ==
  /\ card \in Cards \cup {NoCard} /\ requests \subseteq 1..scans
  /\ placed \in 0..MaxPresentations /\ outages \in 0..MaxOutages

HistoryTypeOK ==
  /\ scans \in Nat /\ settled \subseteq 1..scans /\ reports \in Nat
  /\ shown \in [code : 0..255, of : 0..scans, priceLo : 0..scans, priceHi : 0..scans,
                balanceLo : 0..scans, balanceHi : 0..scans]

FlagsTypeOK ==
  green \in BOOLEAN /\ hostAlive \in BOOLEAN /\ cutCard \in BOOLEAN /\ cutTxn \in BOOLEAN

(* Every variable has its type; the pass counter of case processing never runs
   past its limit, which it compares with "==" and would then never meet. *)
TypeOK == MainTypeOK /\ UsbTypeOK /\ EnvTypeOK /\ HistoryTypeOK /\ FlagsTypeOK

(* A verdict of the server, not one the terminal made up, is on display. *)
ServerVerdict == pc = "info_wait" /\ shown.of # 0

(* The answer to every scan before the last has come and been cleared, and no
   repeated packet has brought it back since: a repeat that has yet to come is
   not excluded. *)
NothingOutstanding == 1..(scans - 1) \subseteq settled

(* As long as no earlier scan is outstanding, the verdict a customer reads is
   the answer to the scan just made: the code left by one customer, be it
   written in time, too late, or a second time by a repeated packet, is cleared
   (main.c:547) before the next one's answer can be awaited. *)
NoForeignVerdict == ServerVerdict /\ NothingOutstanding => shown.of = scans

(* Under the same condition the price and the balance printed, each read byte
   by byte while USB may write them, are the ones that came with the code. *)
FieldsFollowVerdict ==
  ServerVerdict /\ NothingOutstanding =>
    /\ shown.code \in BalanceCodes => shown.balanceLo = shown.of /\ shown.balanceHi = shown.of
    /\ shown.code = RESP_CHECKED_OUT => shown.priceLo = shown.of /\ shown.priceHi = shown.of

(* A card left on the reader is reported to the server once: only a connection
   lost meanwhile makes the terminal scan it again. *)
OneScanPerPresentation == reports > 1 => cutCard

(* RFID_GetCardId clears two of the eight bytes of its buffer, yet no report is
   a mixture of two identifiers unless a lost connection kept case info from
   clearing the others. *)
WholeIdentifier == pc = "send" /\ ~cutTxn => card_id.head = card_id.tail

(* The display follows the dialog the customer is promised. *)
Display == INSTANCE Dialog WITH screen <- lcd.top, personal <- (lcd.bottom = "balance")
FollowsDialog == Display!Spec

(* The customer who reads "working" does not read it for ever. *)
CustomerAnswered == lcd.top = "working" ~> lcd.top # "working"

(* When keep-alive requests cease for good and no card lies on the reader, the
   terminal ends up out of order and says so: whatever case TIMER1 interrupted,
   and although its assignments may be overwritten by that case. *)
LossIsAnnounced ==
  <>[](~hostAlive /\ card = NoCard) =>
    <>[](state = "no_connection" /\ lcd.top = "out_of_order" /\ ~green)

(* When they keep coming, the terminal ends up inviting customers. *)
LinkRecovers ==
  <>[](hostAlive /\ card = NoCard) =>
    <>[](state = "idle" /\ lcd.top = "scan_here" /\ green)

-----------------------------------------------------------------------------
(* Statements of the source's comments that the code does not keep. *)

(* rfid.c:58, "Zero on success, non-zero on failure": a scan the reader failed
   to read is told from one it read, and not reported to the server. *)
FailedReadIsNotReported == pc = "send" => card_id.head # NoCard

(* main.c:106, current is "the current transaction / customer interaction": the
   verdict on display belongs to it. *)
VerdictIsCurrent == ServerVerdict => shown.of = scans

(* main.c:96, first_step is the "first step in state flag": the pass of the main
   loop that first finds no_connection finds it set, and prints. *)
FirstStepIsFlagged ==
  pc = "no_connection" /\ lcd.top # "out_of_order" => first_step = 1
=============================================================================
