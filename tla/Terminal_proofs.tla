--------------------------- MODULE Terminal_proofs ---------------------------
(***************************************************************************)
(* Proofs about Terminal.  The invariants of the specification are not     *)
(* inductive as they stand; the definitions below strengthen them.         *)
(***************************************************************************)
EXTENDS Terminal, TLAPS

(* A pass that will be counted is one below the limit: first_step is set
   whenever state becomes processing, and the counter is reset before it is
   cleared. *)
CountingBelowLimit ==
  /\ state = "processing" =>
       pc \in {"dispatch", "processing", "processing_first", "count", "beep"}
  /\ pc = "count" => ticks < TimeoutTicks
  /\ pc = "processing" /\ first_step = 0 => ticks < TimeoutTicks
  /\ pc = "dispatch" /\ state = "processing" /\ first_step = 0 => ticks < TimeoutTicks

(* The scans whose answer is still to be had, by where it is. *)
InEndpoint == {m.scan : m \in ep1}
InTransfer == {d.of : d \in {x \in xfer : ~x.again}} \ {0}
InTerminal == {response.of, shown.of} \ {0}

(* The scan whose answer was written and may be written again. *)
InRepeat == {d.of : d \in {x \in xfer : x.again}} \ {0}

(* The answer to a scan is on its way, in one place, or in the terminal, or
   settled; a repeat is of one that is on its way no more. *)
OneHolder ==
  /\ InRepeat \subseteq 1..scans
  /\ InRepeat \cap (InEndpoint \cup requests \cup InTransfer) = {}
  /\ InEndpoint \cup requests \cup InTransfer \cup InTerminal \subseteq (1..scans) \ settled
  /\ InEndpoint \cap requests = {} /\ InEndpoint \cap InTransfer = {}
  /\ InEndpoint \cap InTerminal = {} /\ requests \cap InTransfer = {}
  /\ requests \cap InTerminal = {} /\ InTransfer \cap InTerminal = {}

(* current.command is the command of the transfer under way. *)
CommandOfTransfer == \A d \in xfer : d.of # 0 <=> command = CMD_RESPONSE

(* The fields stored with a code are those of the same answer. *)
FieldsStored ==
  response.of # 0 =>
    /\ response.code \in BalanceCodes => response.balance = response.of
    /\ response.code \in PriceCodes   => response.price = response.of

PrintingPrice   == {"price_lo", "price_hi"}
PrintingBalance == {"balance_lo", "balance_hi"}
ShowingVerdict  == PrintingPrice \cup PrintingBalance \cup {"info_wait"}

(* While they are printed they do not change, and what was printed is theirs. *)
FieldsPrinted ==
  (shown.of # 0 /\ NothingOutstanding) =>
    /\ pc \in PrintingPrice => shown.code = RESP_CHECKED_OUT
    /\ pc \in PrintingBalance => shown.code \in BalanceCodes
    /\ pc \in ShowingVerdict =>
         /\ shown.code \in BalanceCodes => response.balance = shown.of
         /\ shown.code \in PriceCodes   => response.price = shown.of
    /\ pc = "price_hi" => shown.priceLo = shown.of
    /\ pc \in PrintingBalance \cup {"info_wait"} /\ shown.code = RESP_CHECKED_OUT =>
         shown.priceLo = shown.of /\ shown.priceHi = shown.of
    /\ pc = "balance_hi" => shown.balanceLo = shown.of
    /\ pc = "info_wait" /\ shown.code \in BalanceCodes =>
         shown.balanceLo = shown.of /\ shown.balanceHi = shown.of

Inv ==
  /\ TypeOK /\ CountingBelowLimit /\ CommandOfTransfer /\ OneHolder
  /\ FieldsStored /\ FieldsPrinted

(***************************************************************************)
(* Typing.  A group of variables a step leaves alone keeps its type.       *)
(***************************************************************************)

LEMMA MainFrame == ASSUME MainTypeOK, UNCHANGED <<pc, mainVars>> PROVE MainTypeOK'
  BY DEF MainTypeOK, mainVars

LEMMA UsbFrame == ASSUME UsbTypeOK, UNCHANGED <<usbVars, scans>> PROVE UsbTypeOK'
  BY DEF UsbTypeOK, usbVars

LEMMA EnvFrame ==
  ASSUME EnvTypeOK, UNCHANGED <<card, requests, placed, outages, scans>> PROVE EnvTypeOK'
  BY DEF EnvTypeOK

LEMMA HistoryFrame ==
  ASSUME HistoryTypeOK, UNCHANGED <<scans, shown, settled, reports>> PROVE HistoryTypeOK'
  BY DEF HistoryTypeOK

LEMMA OnlyMain ==
  ASSUME TypeOK, MainTypeOK', green' \in BOOLEAN, UNCHANGED <<usbVars, envVars, historyVars>>
  PROVE  TypeOK'
<1>1. UsbTypeOK' BY UsbFrame DEF TypeOK, historyVars
<1>2. EnvTypeOK' BY EnvFrame DEF TypeOK, envVars, historyVars
<1>3. HistoryTypeOK' BY HistoryFrame DEF TypeOK, historyVars
<1>4. FlagsTypeOK' BY Zenon DEF TypeOK, FlagsTypeOK, envVars, historyVars
<1>5. QED BY <1>1, <1>2, <1>3, <1>4 DEF TypeOK

(* Storing a code, by the terminal itself or with a field of an answer. *)
LEMMA ResponseTyping ==
  ASSUME UsbTypeOK, scans \in Nat, UNCHANGED scans,
         NEW c \in 0..255, SetCode(c)
  PROVE  response' \in [code : 0..255, of : 0..scans', balance : 0..scans', price : 0..scans']
  BY DEF UsbTypeOK, SetCode

(* An 8-bit result is never -1 ... *)
LEMMA Uint8 == \A n \in Int : AsUint8(n) \in 0..255
  BY DEF AsUint8

(* ... so a scan is reported whether or not the read failed. *)
LEMMA ScanResultSends ==
  ASSUME NEW n \in {0, ReadFailed}, ScanResult(n)
  PROVE  pc' = "send" /\ UNCHANGED <<state, first_step, response>>
<1>1. ReadFailed \in 0..255 BY Uint8 DEF ReadFailed
<1>2. n # -1 BY <1>1
<1>3. QED BY <1>2 DEF ScanResult

(* Steps of main() that change nothing but its own variables. *)
LEMMA MainTyping ==
  ASSUME TypeOK,
    \/ Setup \/ Dispatch \/ Starting \/ Started \/ Idle \/ IdleFirst \/ IdleCard
    \/ Scanning \/ ScanningFirst \/ GetCardId \/ Sent \/ Processing \/ ProcessingFirst
    \/ Beep \/ InfoWait \/ NoConnection \/ NoConnectionFirst
  PROVE TypeOK'
<1> USE DEF Goto, Places, States, Text
<1>1. CASE Setup
  <2>1. MainTypeOK' BY <1>1 DEF TypeOK, MainTypeOK, Setup, mainVars, Ids
  <2>2. green' \in BOOLEAN BY <1>1, Zenon DEF TypeOK, FlagsTypeOK, Setup, mainVars
  <2>3. QED BY <1>1, <2>1, <2>2, OnlyMain DEF Setup
<1>2. CASE Dispatch
  <2>1. MainTypeOK' BY <1>2 DEF TypeOK, MainTypeOK, Dispatch, mainVars, Ids
  <2>2. green' \in BOOLEAN BY <1>2, Zenon DEF TypeOK, FlagsTypeOK, Dispatch, mainVars
  <2>3. QED BY <1>2, <2>1, <2>2, OnlyMain DEF Dispatch
<1>3. CASE Starting
  <2>1. MainTypeOK' BY <1>3 DEF TypeOK, MainTypeOK, Starting, mainVars, Ids
  <2>2. green' \in BOOLEAN BY <1>3, Zenon DEF TypeOK, FlagsTypeOK, Starting, mainVars
  <2>3. QED BY <1>3, <2>1, <2>2, OnlyMain DEF Starting
<1>4. CASE Started
  <2>1. MainTypeOK' BY <1>4 DEF TypeOK, MainTypeOK, Started, mainVars, Ids
  <2>2. green' \in BOOLEAN BY <1>4, Zenon DEF TypeOK, FlagsTypeOK, Started, mainVars
  <2>3. QED BY <1>4, <2>1, <2>2, OnlyMain DEF Started
<1>5. CASE Idle
  <2>1. MainTypeOK' BY <1>5 DEF TypeOK, MainTypeOK, Idle, mainVars, Ids
  <2>2. green' \in BOOLEAN BY <1>5, Zenon DEF TypeOK, FlagsTypeOK, Idle, mainVars
  <2>3. QED BY <1>5, <2>1, <2>2, OnlyMain DEF Idle
<1>6. CASE IdleFirst
  <2>1. MainTypeOK' BY <1>6 DEF TypeOK, MainTypeOK, IdleFirst, mainVars, Ids
  <2>2. green' \in BOOLEAN BY <1>6, Zenon DEF TypeOK, FlagsTypeOK, IdleFirst, mainVars
  <2>3. QED BY <1>6, <2>1, <2>2, OnlyMain DEF IdleFirst
<1>7. CASE IdleCard
  <2>1. MainTypeOK' BY <1>7 DEF TypeOK, MainTypeOK, IdleCard, mainVars, Ids
  <2>2. green' \in BOOLEAN BY <1>7, Zenon DEF TypeOK, FlagsTypeOK, IdleCard, mainVars
  <2>3. QED BY <1>7, <2>1, <2>2, OnlyMain DEF IdleCard
<1>8. CASE Scanning
  <2>1. MainTypeOK' BY <1>8 DEF TypeOK, MainTypeOK, Scanning, mainVars, Ids
  <2>2. green' \in BOOLEAN BY <1>8, Zenon DEF TypeOK, FlagsTypeOK, Scanning, mainVars
  <2>3. QED BY <1>8, <2>1, <2>2, OnlyMain DEF Scanning
<1>9. CASE ScanningFirst
  <2>1. MainTypeOK' BY <1>9 DEF TypeOK, MainTypeOK, ScanningFirst, mainVars, Ids
  <2>2. green' \in BOOLEAN BY <1>9, Zenon DEF TypeOK, FlagsTypeOK, ScanningFirst, mainVars
  <2>3. QED BY <1>9, <2>1, <2>2, OnlyMain DEF ScanningFirst
<1>10. CASE GetCardId
  <2>1. MainTypeOK' BY <1>10 DEF TypeOK, MainTypeOK, GetCardId, mainVars, Ids
  <2>2. green' \in BOOLEAN BY <1>10, Zenon DEF TypeOK, FlagsTypeOK, GetCardId, mainVars
  <2>3. QED BY <1>10, <2>1, <2>2, OnlyMain DEF GetCardId
<1>11. CASE Sent
  <2>1. MainTypeOK' BY <1>11 DEF TypeOK, MainTypeOK, Sent, mainVars, Ids
  <2>2. green' \in BOOLEAN BY <1>11, Zenon DEF TypeOK, FlagsTypeOK, Sent, mainVars
  <2>3. QED BY <1>11, <2>1, <2>2, OnlyMain DEF Sent
<1>12. CASE Processing
  <2>1. MainTypeOK' BY <1>12 DEF TypeOK, MainTypeOK, Processing, mainVars, Ids
  <2>2. green' \in BOOLEAN BY <1>12, Zenon DEF TypeOK, FlagsTypeOK, Processing, mainVars
  <2>3. QED BY <1>12, <2>1, <2>2, OnlyMain DEF Processing
<1>13. CASE Beep
  <2>1. MainTypeOK' BY <1>13 DEF TypeOK, MainTypeOK, Beep, mainVars, Ids
  <2>2. green' \in BOOLEAN BY <1>13, Zenon DEF TypeOK, FlagsTypeOK, Beep, mainVars
  <2>3. QED BY <1>13, <2>1, <2>2, OnlyMain DEF Beep
<1>14. CASE InfoWait
  <2>1. MainTypeOK' BY <1>14 DEF TypeOK, MainTypeOK, InfoWait, mainVars, Ids
  <2>2. green' \in BOOLEAN BY <1>14, Zenon DEF TypeOK, FlagsTypeOK, InfoWait, mainVars
  <2>3. QED BY <1>14, <2>1, <2>2, OnlyMain DEF InfoWait
<1>15. CASE NoConnection
  <2>1. MainTypeOK' BY <1>15 DEF TypeOK, MainTypeOK, NoConnection, mainVars, Ids
  <2>2. green' \in BOOLEAN BY <1>15, Zenon DEF TypeOK, FlagsTypeOK, NoConnection, mainVars
  <2>3. QED BY <1>15, <2>1, <2>2, OnlyMain DEF NoConnection
<1>16. CASE NoConnectionFirst
  <2>1. MainTypeOK' BY <1>16 DEF TypeOK, MainTypeOK, NoConnectionFirst, mainVars, Ids
  <2>2. green' \in BOOLEAN BY <1>16, Zenon DEF TypeOK, FlagsTypeOK, NoConnectionFirst, mainVars
  <2>3. QED BY <1>16, <2>1, <2>2, OnlyMain DEF NoConnectionFirst
<1>17. CASE ProcessingFirst
  <2>1. ticks' \in 0..TimeoutTicks BY <1>17, TimeoutAssumption DEF ProcessingFirst
  <2>2. MainTypeOK' BY <1>17, <2>1 DEF TypeOK, MainTypeOK, ProcessingFirst, Ids
  <2>3. green' \in BOOLEAN BY <1>17, Zenon DEF TypeOK, FlagsTypeOK, ProcessingFirst
  <2>4. QED BY <1>17, <2>2, <2>3, OnlyMain DEF ProcessingFirst
<1>18. QED BY <1>1, <1>2, <1>3, <1>4, <1>5, <1>6, <1>7, <1>8, <1>9, <1>10, <1>11, <1>12, <1>13, <1>14, <1>15, <1>16, <1>17

(* The reader's answers. *)
LEMMA ReaderTyping ==
  ASSUME TypeOK, ReaderAck \/ ReaderNak \/ ReaderBytes \/ WatchdogReset
  PROVE  TypeOK'
<1> USE DEF Goto, Places, States, Text
<1>1. CASE ReaderAck
  <2>1. reading' \in Cards \cup {NoCard} BY <1>1 DEF ReaderAck, TypeOK, EnvTypeOK
  <2>2. MainTypeOK' BY <1>1, <2>1 DEF ReaderAck, TypeOK, MainTypeOK
  <2>3. green' \in BOOLEAN BY <1>1, Zenon DEF TypeOK, FlagsTypeOK, ReaderAck
  <2>4. QED BY <1>1, <2>2, <2>3, OnlyMain DEF ReaderAck
<1>2. CASE ReaderNak
  <2>1. pc' = "send" /\ UNCHANGED <<state, first_step, response>>
    BY <1>2, ScanResultSends DEF ReaderNak
  <2>2. MainTypeOK' BY <1>2, <2>1 DEF ReaderNak, TypeOK, MainTypeOK
  <2>3. green' \in BOOLEAN BY <1>2, Zenon DEF TypeOK, FlagsTypeOK, ReaderNak
  <2>4. QED BY <1>2, <2>1, <2>2, <2>3, OnlyMain DEF ReaderNak, usbVars
<1>3. CASE ReaderBytes
  <2>1. pc' = "send" /\ UNCHANGED <<state, first_step, response>>
    BY <1>3, ScanResultSends DEF ReaderBytes
  <2>2. MainTypeOK' BY <1>3, <2>1 DEF ReaderBytes, TypeOK, MainTypeOK, Ids
  <2>3. green' \in BOOLEAN BY <1>3, Zenon DEF TypeOK, FlagsTypeOK, ReaderBytes
  <2>4. QED BY <1>3, <2>1, <2>2, <2>3, OnlyMain DEF ReaderBytes, usbVars
<1>4. CASE WatchdogReset
  <2> USE DEF WatchdogReset, ResetMemory
  <2>1. scans' = scans /\ scans \in Nat BY <1>4 DEF TypeOK, HistoryTypeOK
  <2>2. ticks' \in 0..TimeoutTicks BY <1>4, TimeoutAssumption
  <2>3. MainTypeOK' BY <1>4, <2>2 DEF TypeOK, MainTypeOK, Ids, ZeroId
  <2>4. UsbTypeOK'
    <3>1. response' = ClearedResponse /\ command' = CMD_ECHO /\ ep1' = {} /\ xfer' = {}
      BY <1>4 DEF CMD_ECHO
    <3>2. QED BY <2>1, <3>1 DEF UsbTypeOK, ClearedResponse, CMD_ECHO
  <2>5. EnvTypeOK' BY <1>4, EnvFrame DEF TypeOK, envVars
  <2>6. HistoryTypeOK'
    <3>1. shown' = NothingShown /\ UNCHANGED <<settled, reports>> BY <1>4
    <3>2. QED BY <2>1, <3>1 DEF TypeOK, HistoryTypeOK, NothingShown, NothingPrinted
  <2>7. FlagsTypeOK' BY <1>4, Zenon DEF TypeOK, FlagsTypeOK, envVars
  <2>8. QED BY <2>3, <2>4, <2>5, <2>6, <2>7 DEF TypeOK
<1>5. QED BY <1>1, <1>2, <1>3, <1>4

(* Handing the report to USB, and the pass that may be one too many. *)
LEMMA ReportTyping ==
  ASSUME TypeOK, CountingBelowLimit, Send \/ Count
  PROVE  TypeOK'
<1> USE DEF Goto, Places, States
<1>1. CASE Send
  <2>1. scans \in Nat /\ scans' = scans + 1 /\ reports \in Nat /\ reports' = reports + 1
    BY <1>1 DEF Send, TypeOK, HistoryTypeOK
  <2>2. 0..scans \subseteq 0..scans' /\ 1..scans \subseteq 1..scans' BY <2>1
  <2>3. MainTypeOK' BY <1>1 DEF Send, TypeOK, MainTypeOK, mainVars
  <2>4. UsbTypeOK'
    <3>1. [scan |-> scans + 1, id |-> card_id] \in [scan : 1..scans', id : Ids]
      <4>1. card_id \in Ids BY DEF TypeOK, MainTypeOK
      <4>2. QED BY <2>1, <4>1
    <3>2. ep1' \subseteq [scan : 1..scans', id : Ids] BY <1>1, <3>1 DEF Send
    <3>3. response' \in [code : 0..255, of : 0..scans', balance : 0..scans', price : 0..scans']
      BY <1>1, <2>2 DEF Send, TypeOK, UsbTypeOK
    <3>4. xfer' \subseteq [of : 0..scans', code : 0..255, again : BOOLEAN]
      <4>1. \A d \in xfer : d \in [of : 0..scans', code : 0..255, again : BOOLEAN]
        BY <2>2 DEF TypeOK, UsbTypeOK
      <4>2. QED BY <1>1, <4>1 DEF Send
    <3>5. QED BY <1>1, <3>2, <3>3, <3>4 DEF Send, TypeOK, UsbTypeOK
  <2>5. EnvTypeOK' BY <1>1, <2>2 DEF Send, TypeOK, EnvTypeOK, envVars
  <2>6. HistoryTypeOK' BY <1>1, <2>1, <2>2 DEF Send, TypeOK, HistoryTypeOK
  <2>7. FlagsTypeOK' BY <1>1, Zenon DEF Send, TypeOK, FlagsTypeOK, mainVars, envVars
  <2>8. QED BY <2>3, <2>4, <2>5, <2>6, <2>7 DEF TypeOK
<1>2. CASE Count
  <2>1. ticks \in 0..TimeoutTicks /\ ticks < TimeoutTicks /\ ticks' = ticks + 1
    BY <1>2 DEF Count, CountingBelowLimit, TypeOK, MainTypeOK
  <2>2. ticks' \in 0..TimeoutTicks BY <2>1, TimeoutAssumption
  <2>3. MainTypeOK' BY <1>2, <2>2 DEF Count, TypeOK, MainTypeOK
  <2>4. UNCHANGED scans /\ scans \in Nat BY <1>2 DEF Count, historyVars, TypeOK, HistoryTypeOK
  <2>5. SetCode(RESP_TIMED_OUT) \/ UNCHANGED response BY <1>2 DEF Count
  <2>6. response' \in [code : 0..255, of : 0..scans', balance : 0..scans', price : 0..scans']
    <3>1. CASE SetCode(RESP_TIMED_OUT)
      <4>1. RESP_TIMED_OUT \in 0..255 BY DEF RESP_TIMED_OUT
      <4>2. UsbTypeOK BY DEF TypeOK
      <4>3. QED BY <2>4, <3>1, <4>1, <4>2, ResponseTyping
    <3>2. CASE UNCHANGED response BY <2>4, <3>2 DEF TypeOK, UsbTypeOK
    <3>3. QED BY <2>5, <3>1, <3>2
  <2>7. UsbTypeOK'
    <3>1. UNCHANGED <<ep1, xfer, command, scans>> BY <1>2, <2>4 DEF Count, envVars
    <3>2. QED BY <2>6, <3>1 DEF TypeOK, UsbTypeOK
  <2>8. EnvTypeOK' BY <1>2, EnvFrame DEF Count, TypeOK, envVars, historyVars
  <2>9. HistoryTypeOK' BY <1>2, HistoryFrame DEF Count, TypeOK, historyVars
  <2>10. FlagsTypeOK' BY <1>2, Zenon DEF Count, TypeOK, FlagsTypeOK, envVars, historyVars
  <2>11. QED BY <2>3, <2>7, <2>8, <2>9, <2>10 DEF TypeOK
<1>3. QED BY <1>1, <1>2

(* Case info: the verdict is printed from the response, and then cleared. *)
LEMMA InfoTyping ==
  ASSUME TypeOK, Info \/ PriceLo \/ PriceHi \/ BalanceLo \/ BalanceHi \/ InfoDone
  PROVE  TypeOK'
<1> USE DEF Goto, Places, States, Text
<1> DEFINE Numbers == 0..scans
           Shown == [code : 0..255, of : Numbers, priceLo : Numbers, priceHi : Numbers,
                     balanceLo : Numbers, balanceHi : Numbers]
<1>1. scans \in Nat /\ scans' = scans
  BY DEF TypeOK, HistoryTypeOK, Info, PriceLo, PriceHi, BalanceLo, BalanceHi, InfoDone
<1>2. /\ response.code \in 0..255 /\ response.of \in Numbers
      /\ response.balance \in Numbers /\ response.price \in Numbers
  BY DEF TypeOK, UsbTypeOK
<1>3. shown \in Shown BY DEF TypeOK, HistoryTypeOK
<1>4. shown' \in Shown
  <2>1. CASE Info
    <3>1. shown' = NothingPrinted(response.code, response.of) BY <2>1 DEF Info
    <3>2. QED BY <1>1, <1>2, <3>1 DEF NothingPrinted
  <2>2. CASE PriceLo BY <1>2, <1>3, <2>2 DEF PriceLo
  <2>3. CASE PriceHi BY <1>2, <1>3, <2>3 DEF PriceHi
  <2>4. CASE BalanceLo BY <1>2, <1>3, <2>4 DEF BalanceLo
  <2>5. CASE BalanceHi BY <1>2, <1>3, <2>5 DEF BalanceHi
  <2>6. CASE InfoDone
    <3>1. shown' = NothingShown BY <2>6 DEF InfoDone
    <3>2. QED BY <1>1, <3>1 DEF NothingPrinted, NothingShown
  <2>7. QED BY <2>1, <2>2, <2>3, <2>4, <2>5, <2>6
<1>5. settled' \subseteq 1..scans
  <2>1. CASE InfoDone
    <3>1. settled' = settled \cup ({shown.of, response.of} \ {0}) BY <2>1 DEF InfoDone
    <3>2. shown.of \in Numbers /\ response.of \in Numbers BY <1>2, <1>3
    <3>3. settled \subseteq 1..scans BY DEF TypeOK, HistoryTypeOK
    <3>4. {shown.of, response.of} \ {0} \subseteq 1..scans BY <1>1, <3>2
    <3>5. QED BY <3>1, <3>3, <3>4
  <2>2. CASE ~InfoDone
    BY <2>2 DEF TypeOK, HistoryTypeOK, Info, PriceLo, PriceHi, BalanceLo, BalanceHi
  <2>3. QED BY <2>1, <2>2
<1>6. HistoryTypeOK'
  <2>1. reports' = reports BY DEF Info, PriceLo, PriceHi, BalanceLo, BalanceHi, InfoDone
  <2>2. QED BY <1>1, <1>4, <1>5, <2>1 DEF TypeOK, HistoryTypeOK
<1>7. MainTypeOK'
  <2>1. CASE Info
    <3>1. pc' \in Places BY <2>1 DEF Info
    <3>2. lcd' \in [top : {"blank", "starting", "scan_here", "working", "verdict",
                          "out_of_order"}, bottom : {"clear", "balance", "fee"}]
      <4>1. lcd' \in {lcd, [lcd EXCEPT !.top = "verdict"],
                      Text("verdict", "clear"), Text("verdict", "fee")}
        BY <2>1 DEF Info
      <4>2. lcd \in [top : {"blank", "starting", "scan_here", "working", "verdict",
                           "out_of_order"}, bottom : {"clear", "balance", "fee"}]
        BY DEF TypeOK, MainTypeOK
      <4>3. QED BY ONLY <4>1, <4>2 DEF Text
    <3>3. QED BY <2>1, <3>1, <3>2 DEF Info, TypeOK, MainTypeOK
  <2>2. CASE PriceLo BY <2>2 DEF PriceLo, TypeOK, MainTypeOK, mainVars
  <2>3. CASE PriceHi BY <2>3 DEF PriceHi, TypeOK, MainTypeOK
  <2>4. CASE BalanceLo BY <2>4 DEF BalanceLo, TypeOK, MainTypeOK, mainVars
  <2>5. CASE BalanceHi BY <2>5 DEF BalanceHi, TypeOK, MainTypeOK
  <2>6. CASE InfoDone BY <2>6 DEF InfoDone, TypeOK, MainTypeOK, ZeroId, Ids
  <2>7. QED BY <2>1, <2>2, <2>3, <2>4, <2>5, <2>6
<1>8. UsbTypeOK'
  <2>1. CASE InfoDone
    <3>1. response' \in [code : 0..255, of : 0..scans', balance : 0..scans', price : 0..scans']
      <4>1. SetCode(0) /\ 0 \in 0..255 BY <2>1 DEF InfoDone
      <4>2. UsbTypeOK BY DEF TypeOK
      <4>3. QED BY <1>1, <4>1, <4>2, ResponseTyping
    <3>2. QED BY <1>1, <2>1, <3>1 DEF InfoDone, TypeOK, UsbTypeOK
  <2>2. CASE ~InfoDone
    BY <1>1, <2>2, UsbFrame DEF TypeOK, Info, PriceLo, PriceHi, BalanceLo, BalanceHi
  <2>3. QED BY <2>1, <2>2
<1>9. EnvTypeOK'
  BY <1>1, EnvFrame DEF TypeOK, envVars, Info, PriceLo, PriceHi, BalanceLo, BalanceHi, InfoDone
<1>10. green' \in BOOLEAN /\ hostAlive' \in BOOLEAN /\ cutCard' \in BOOLEAN
  BY Zenon DEF TypeOK, FlagsTypeOK, mainVars, envVars,
               Info, PriceLo, PriceHi, BalanceLo, BalanceHi, InfoDone
<1>11. cutTxn' \in BOOLEAN
  BY Zenon DEF TypeOK, FlagsTypeOK, Info, PriceLo, PriceHi, BalanceLo, BalanceHi, InfoDone
<1>12. QED BY <1>6, <1>7, <1>8, <1>9, <1>10, <1>11, Zenon DEF TypeOK, FlagsTypeOK

(* What usbFunctionWrite stores, and what may come again. *)
LEMMA WriteDataDoes ==
  ASSUME WriteData
  PROVE  \E d \in xfer :
           /\ xfer' \subseteq {[d EXCEPT !.again = TRUE]}
           /\ settled' = settled \ {d.of}
           /\ response' = [code |-> d.code, of |-> d.of,
                           balance |-> IF command = CMD_RESPONSE /\ d.code \in BalanceCodes
                                         THEN d.of ELSE response.balance,
                           price   |-> IF command = CMD_RESPONSE /\ d.code \in PriceCodes
                                         THEN d.of ELSE response.price]
<1>1. PICK d \in xfer, acked \in BOOLEAN :
        /\ xfer' = IF acked THEN {} ELSE {[d EXCEPT !.again = TRUE]}
        /\ settled' = settled \ {d.of}
        /\ response' = [code |-> d.code, of |-> d.of,
                        balance |-> IF command = CMD_RESPONSE /\ d.code \in BalanceCodes
                                      THEN d.of ELSE response.balance,
                        price   |-> IF command = CMD_RESPONSE /\ d.code \in PriceCodes
                                      THEN d.of ELSE response.price]
  BY DEF WriteData, WriteDataStoring
<1>2. xfer' \subseteq {[d EXCEPT !.again = TRUE]} BY <1>1
<1>3. QED BY <1>1, <1>2

LEMMA DataTyping ==
  ASSUME NEW s \in 0..scans, NEW code \in 0..255
  PROVE  Data(s, code) \subseteq [of : 0..scans, code : 0..255, again : BOOLEAN]
  BY DEF Data

(* Interrupt handlers. *)
LEMMA InterruptTyping ==
  ASSUME TypeOK, Interrupt
  PROVE  TypeOK'
<1>1. scans \in Nat BY DEF TypeOK, HistoryTypeOK
<1>2. ASSUME Timer1 PROVE TypeOK'
  <2>1. MainTypeOK' BY <1>2 DEF Timer1, TypeOK, MainTypeOK, States
  <2>2. UsbTypeOK' BY <1>2, UsbFrame DEF Timer1, TypeOK
  <2>3. EnvTypeOK' BY <1>2, EnvFrame DEF Timer1, TypeOK, envVars
  <2>4. HistoryTypeOK' BY <1>2, HistoryFrame DEF Timer1, TypeOK
  <2>5. FlagsTypeOK' BY <1>2, Zenon DEF Timer1, TypeOK, FlagsTypeOK, envVars
  <2>6. QED BY <2>1, <2>2, <2>3, <2>4, <2>5 DEF TypeOK
<1>3. ASSUME KeepAlive PROVE TypeOK'
  <2>1. /\ UNCHANGED <<pc, card_id, reading, ticks, lcd, green, response, ep1, envVars, historyVars>>
        /\ command' = CMD_KEEP_ALIVE /\ xfer' = {}
    BY <1>3 DEF KeepAlive, SetupRequest
  <2>2. state' \in States /\ first_step' \in {0, 1}
    BY <1>3 DEF KeepAlive, TypeOK, MainTypeOK, States
  <2>3. MainTypeOK' BY <2>1, <2>2 DEF TypeOK, MainTypeOK
  <2>4. UsbTypeOK' BY <2>1 DEF TypeOK, UsbTypeOK, historyVars, CMD_KEEP_ALIVE
  <2>5. EnvTypeOK' BY <2>1, EnvFrame DEF TypeOK, envVars, historyVars
  <2>6. HistoryTypeOK' BY <2>1, HistoryFrame DEF TypeOK, historyVars
  <2>7. FlagsTypeOK' BY <2>1, Zenon DEF TypeOK, FlagsTypeOK, envVars, historyVars
  <2>8. QED BY <2>3, <2>4, <2>5, <2>6, <2>7 DEF TypeOK
<1>4. ASSUME WriteData PROVE TypeOK'
  <2>1. /\ UNCHANGED <<pc, mainVars, command, ep1, envVars, scans, shown, reports>>
        /\ UNCHANGED <<cutCard, cutTxn>>
    BY <1>4 DEF WriteData, WriteDataStoring
  <2>2. PICK d \in xfer :
          /\ xfer' \subseteq {[d EXCEPT !.again = TRUE]}
          /\ settled' = settled \ {d.of}
          /\ response' = [code |-> d.code, of |-> d.of,
                          balance |-> IF command = CMD_RESPONSE /\ d.code \in BalanceCodes
                                        THEN d.of ELSE response.balance,
                          price   |-> IF command = CMD_RESPONSE /\ d.code \in PriceCodes
                                        THEN d.of ELSE response.price]
    BY <1>4, WriteDataDoes
  <2>3. d \in [of : 0..scans, code : 0..255, again : BOOLEAN] BY DEF TypeOK, UsbTypeOK
  <2>4. response' \in [code : 0..255, of : 0..scans, balance : 0..scans, price : 0..scans]
    <3>1. response.balance \in 0..scans /\ response.price \in 0..scans
      BY DEF TypeOK, UsbTypeOK
    <3>2. QED BY <2>2, <2>3, <3>1
  <2>5. xfer' \subseteq [of : 0..scans, code : 0..255, again : BOOLEAN]
    <3>1. [d EXCEPT !.again = TRUE] \in [of : 0..scans, code : 0..255, again : BOOLEAN]
      BY <2>3
    <3>2. QED BY <2>2, <3>1
  <2>6. MainTypeOK' BY <2>1, MainFrame DEF TypeOK
  <2>7. UsbTypeOK' BY <2>1, <2>4, <2>5 DEF TypeOK, UsbTypeOK
  <2>8. EnvTypeOK' BY <2>1, EnvFrame DEF TypeOK, envVars
  <2>9. HistoryTypeOK'
    <3>1. settled' \subseteq 1..scans BY <2>2 DEF TypeOK, HistoryTypeOK
    <3>2. QED BY <2>1, <3>1 DEF TypeOK, HistoryTypeOK
  <2>10. FlagsTypeOK' BY <2>1, Zenon DEF TypeOK, FlagsTypeOK, mainVars, envVars
  <2>11. QED BY <2>6, <2>7, <2>8, <2>9, <2>10 DEF TypeOK
<1>5. ASSUME NEW s \in requests, NEW code \in ResponseCodes, SetupResponse(s, code)
      PROVE  TypeOK'
  <2>1. /\ UNCHANGED <<pc, mainVars, response, ep1, card, hostAlive, placed, outages, historyVars>>
        /\ command' = CMD_RESPONSE /\ xfer' = Data(s, code)
        /\ requests' = requests \ {s}
    BY <1>5 DEF SetupResponse, SetupRequest
  <2>2. s \in 0..scans /\ code \in 0..255
    BY <1>1, CodesAssumption DEF TypeOK, EnvTypeOK
  <2>3. MainTypeOK' BY <2>1, MainFrame DEF TypeOK
  <2>4. UsbTypeOK'
    <3>1. CMD_RESPONSE \in 0..255 BY DEF CMD_RESPONSE
    <3>2. Data(s, code) \subseteq [of : 0..scans, code : 0..255, again : BOOLEAN]
      BY <2>2, DataTyping
    <3>3. QED BY <2>1, <3>1, <3>2 DEF TypeOK, UsbTypeOK, historyVars
  <2>5. EnvTypeOK' BY <2>1 DEF TypeOK, EnvTypeOK, historyVars
  <2>6. HistoryTypeOK' BY <2>1, HistoryFrame DEF TypeOK, historyVars
  <2>7. FlagsTypeOK' BY <2>1, Zenon DEF TypeOK, FlagsTypeOK, mainVars, historyVars
  <2>8. QED BY <2>3, <2>4, <2>5, <2>6, <2>7 DEF TypeOK
<1>6. ASSUME NEW byte \in EchoBytes, SetupEcho(byte) PROVE TypeOK'
  <2>1. /\ UNCHANGED <<pc, mainVars, response, ep1, envVars, historyVars>>
        /\ command' = CMD_ECHO /\ xfer' = Data(0, byte)
    BY <1>6 DEF SetupEcho, SetupRequest
  <2>2. byte \in 0..255 /\ 0 \in 0..scans BY <1>1, CodesAssumption
  <2>3. MainTypeOK' BY <2>1, MainFrame DEF TypeOK
  <2>4. UsbTypeOK'
    <3>1. CMD_ECHO \in 0..255 BY DEF CMD_ECHO
    <3>2. Data(0, byte) \subseteq [of : 0..scans, code : 0..255, again : BOOLEAN]
      BY <2>2, DataTyping
    <3>3. QED BY <2>1, <3>1, <3>2 DEF TypeOK, UsbTypeOK, historyVars
  <2>5. EnvTypeOK' BY <2>1, EnvFrame DEF TypeOK, envVars, historyVars
  <2>6. HistoryTypeOK' BY <2>1, HistoryFrame DEF TypeOK, historyVars
  <2>7. FlagsTypeOK' BY <2>1, Zenon DEF TypeOK, FlagsTypeOK, mainVars, envVars, historyVars
  <2>8. QED BY <2>3, <2>4, <2>5, <2>6, <2>7 DEF TypeOK
<1>7. ASSUME NEW cmd \in OtherCommands, SetupOther(cmd) PROVE TypeOK'
  <2>1. /\ UNCHANGED <<pc, mainVars, response, ep1, envVars, historyVars>>
        /\ command' = cmd /\ xfer' = {}
    BY <1>7 DEF SetupOther, SetupRequest
  <2>2. cmd \in 0..255 BY CodesAssumption
  <2>3. MainTypeOK' BY <2>1, MainFrame DEF TypeOK
  <2>4. UsbTypeOK' BY <2>1, <2>2 DEF TypeOK, UsbTypeOK, historyVars
  <2>5. EnvTypeOK' BY <2>1, EnvFrame DEF TypeOK, envVars, historyVars
  <2>6. HistoryTypeOK' BY <2>1, HistoryFrame DEF TypeOK, historyVars
  <2>7. FlagsTypeOK' BY <2>1, Zenon DEF TypeOK, FlagsTypeOK, mainVars, envVars, historyVars
  <2>8. QED BY <2>3, <2>4, <2>5, <2>6, <2>7 DEF TypeOK
<1>8. QED BY <1>2, <1>3, <1>4, <1>5, <1>6, <1>7 DEF Interrupt

LEMMA EnvironmentTyping ==
  ASSUME TypeOK, Environment
  PROVE  TypeOK'
<1>1. ASSUME HostPoll PROVE TypeOK'
  <2>1. PICK m \in ep1 : ep1' = {} /\ requests' = requests \cup {m.scan}
    BY <1>1 DEF HostPoll
  <2>2. UNCHANGED <<pc, mainVars, command, response, xfer, card, hostAlive,
                    placed, outages, historyVars>>
    BY <1>1 DEF HostPoll
  <2>3. m.scan \in 1..scans BY DEF TypeOK, UsbTypeOK
  <2>4. MainTypeOK' BY <2>2, MainFrame DEF TypeOK
  <2>5. UsbTypeOK' BY <2>1, <2>2 DEF TypeOK, UsbTypeOK, historyVars
  <2>6. EnvTypeOK' BY <2>1, <2>2, <2>3 DEF TypeOK, EnvTypeOK, historyVars
  <2>7. HistoryTypeOK' BY <2>2, HistoryFrame DEF TypeOK, historyVars
  <2>8. FlagsTypeOK' BY <2>2, Zenon DEF TypeOK, FlagsTypeOK, mainVars, historyVars
  <2>9. QED BY <2>4, <2>5, <2>6, <2>7, <2>8 DEF TypeOK
<1>2. ASSUME HostUp \/ HostDown PROVE TypeOK'
  <2>1. /\ UNCHANGED <<pc, mainVars, usbVars, card, requests, placed, historyVars>>
        /\ hostAlive' \in BOOLEAN
    BY <1>2, Zenon DEF HostUp, HostDown
  <2>2. outages' \in 0..MaxOutages
    <3>1. outages' = outages \/ (outages < MaxOutages /\ outages' = outages + 1)
      BY <1>2 DEF HostUp, HostDown
    <3>2. QED BY <3>1, BoundsAssumption DEF TypeOK, EnvTypeOK
  <2>3. MainTypeOK' BY <2>1, MainFrame DEF TypeOK
  <2>4. UsbTypeOK' BY <2>1, UsbFrame DEF TypeOK, historyVars
  <2>5. EnvTypeOK' BY <2>1, <2>2 DEF TypeOK, EnvTypeOK, historyVars
  <2>6. HistoryTypeOK' BY <2>1, HistoryFrame DEF TypeOK, historyVars
  <2>7. FlagsTypeOK' BY <2>1, Zenon DEF TypeOK, FlagsTypeOK, mainVars, historyVars
  <2>8. QED BY <2>3, <2>4, <2>5, <2>6, <2>7 DEF TypeOK
<1>3. ASSUME CardRemoved \/ \E c \in Cards : CardPlaced(c) PROVE TypeOK'
  <2>1. /\ UNCHANGED <<pc, mainVars, usbVars, hostAlive, requests, outages, scans, shown, settled, cutTxn>>
        /\ cutCard' \in BOOLEAN
    BY <1>3, Zenon DEF CardRemoved, CardPlaced, historyVars, TypeOK, FlagsTypeOK
  <2>2. card' \in Cards \cup {NoCard} BY <1>3 DEF CardRemoved, CardPlaced
  <2>3. placed' \in 0..MaxPresentations
    <3>1. placed' = placed \/ (placed < MaxPresentations /\ placed' = placed + 1)
      BY <1>3 DEF CardRemoved, CardPlaced
    <3>2. QED BY <3>1, BoundsAssumption DEF TypeOK, EnvTypeOK
  <2>4. reports' \in Nat BY <1>3 DEF CardRemoved, CardPlaced, historyVars, TypeOK, HistoryTypeOK
  <2>5. MainTypeOK' BY <2>1, MainFrame DEF TypeOK
  <2>6. UsbTypeOK' BY <2>1, UsbFrame DEF TypeOK
  <2>7. EnvTypeOK' BY <2>1, <2>2, <2>3 DEF TypeOK, EnvTypeOK
  <2>8. HistoryTypeOK' BY <2>1, <2>4 DEF TypeOK, HistoryTypeOK
  <2>9. FlagsTypeOK' BY <2>1, Zenon DEF TypeOK, FlagsTypeOK, mainVars
  <2>10. QED BY <2>5, <2>6, <2>7, <2>8, <2>9 DEF TypeOK
<1>4. QED BY <1>1, <1>2, <1>3 DEF Environment

LEMMA TypingStep == ASSUME TypeOK, CountingBelowLimit, [Next]_vars PROVE TypeOK'
<1>1. CASE Main
  BY <1>1, MainTyping, ReportTyping, InfoTyping DEF Main
<1>2. CASE ReaderStatus \/ ReaderBytes
  BY <1>2, ReaderTyping DEF ReaderStatus
<1>3. CASE Interrupt BY <1>3, InterruptTyping
<1>4. CASE Environment BY <1>4, EnvironmentTyping
<1>5. CASE UNCHANGED vars
  <2>1. UNCHANGED <<pc, mainVars, usbVars, envVars, historyVars>> BY <1>5 DEF vars
  <2>2. MainTypeOK' BY <2>1, MainFrame DEF TypeOK
  <2>3. UsbTypeOK' BY <2>1, UsbFrame DEF TypeOK, historyVars
  <2>4. EnvTypeOK' BY <2>1, EnvFrame DEF TypeOK, envVars, historyVars
  <2>5. HistoryTypeOK' BY <2>1, HistoryFrame DEF TypeOK, historyVars
  <2>6. FlagsTypeOK' BY <2>1, Zenon DEF TypeOK, FlagsTypeOK, mainVars, envVars, historyVars
  <2>7. QED BY <2>2, <2>3, <2>4, <2>5, <2>6 DEF TypeOK
<1>6. QED BY <1>1, <1>2, <1>3, <1>4, <1>5 DEF Next

(***************************************************************************)
(* The pass counter.                                                       *)
(***************************************************************************)

(* An interrupt never makes state processing, nor clears first_step. *)
LEMMA CountingFrame ==
  ASSUME TypeOK, CountingBelowLimit, UNCHANGED <<pc, ticks>>,
         \/ UNCHANGED <<state, first_step>>
         \/ state' # "processing" /\ first_step' = 1
  PROVE  CountingBelowLimit'
  BY DEF CountingBelowLimit

LEMMA CountingStep ==
  ASSUME TypeOK, CountingBelowLimit, [Next]_vars PROVE CountingBelowLimit'
<1> USE DEF Goto, CountingBelowLimit
<1>1. ASSUME Interrupt \/ Environment \/ UNCHANGED vars PROVE CountingBelowLimit'
  <2>1. /\ UNCHANGED <<pc, ticks>>
        /\ \/ UNCHANGED <<state, first_step>>
           \/ state' # "processing" /\ first_step' = 1
    BY <1>1 DEF Interrupt, Environment, vars, mainVars, Timer1, KeepAlive, WriteData,
         WriteDataStoring, SetupResponse, SetupEcho, SetupOther, HostPoll, HostUp, HostDown, CardRemoved, CardPlaced
  <2>2. QED BY <2>1, CountingFrame
<1>2. ASSUME ReaderStatus \/ ReaderBytes PROVE CountingBelowLimit'
  <2>1. CASE ReaderAck BY <2>1 DEF ReaderAck
  <2>2. CASE ReaderNak BY <2>2, ScanResultSends DEF ReaderNak
  <2>3. CASE ReaderBytes BY <2>3, ScanResultSends DEF ReaderBytes
  <2>4. CASE WatchdogReset BY <2>4 DEF WatchdogReset, ResetMemory
  <2>5. QED BY <1>2, <2>1, <2>2, <2>3, <2>4 DEF ReaderStatus
<1>3. ASSUME Main PROVE CountingBelowLimit'
  <2>1. CASE Setup \/ Starting \/ Started
    BY <2>1 DEF Setup, Starting, Started
  <2>2. CASE Dispatch
    BY <2>2 DEF Dispatch, mainVars, TypeOK, MainTypeOK, States
  <2>3. CASE Idle \/ IdleFirst \/ IdleCard
    BY <2>3 DEF Idle, IdleFirst, IdleCard
  <2>4. CASE Scanning \/ ScanningFirst \/ GetCardId \/ Send \/ Sent
    BY <2>4 DEF Scanning, ScanningFirst, GetCardId, Send, Sent, mainVars
  <2>5. CASE Processing BY <2>5 DEF Processing, mainVars, TypeOK, MainTypeOK
  <2>6. CASE ProcessingFirst BY <2>6, TimeoutAssumption DEF ProcessingFirst
  <2>7. CASE Count
    <3>1. ticks \in 0..TimeoutTicks /\ ticks < TimeoutTicks /\ ticks' = ticks + 1
      BY <2>7 DEF Count, TypeOK, MainTypeOK
    <3>2. CASE ticks' = TimeoutTicks BY <2>7, <3>2 DEF Count
    <3>3. CASE ticks' # TimeoutTicks
      <4>1. ticks' < TimeoutTicks BY <3>1, <3>3, TimeoutAssumption
      <4>2. QED BY <2>7, <3>3, <4>1 DEF Count
    <3>4. QED BY <3>2, <3>3
  <2>8. CASE Beep BY <2>8 DEF Beep
  <2>9. CASE Info \/ PriceLo \/ PriceHi \/ BalanceLo \/ BalanceHi \/ InfoWait \/ InfoDone
    BY <2>9 DEF Info, PriceLo, PriceHi, BalanceLo, BalanceHi, InfoWait, InfoDone, mainVars
  <2>10. CASE NoConnection \/ NoConnectionFirst
    BY <2>10 DEF NoConnection, NoConnectionFirst
  <2>11. QED
    BY <1>3, <2>1, <2>2, <2>3, <2>4, <2>5, <2>6, <2>7, <2>8, <2>9, <2>10 DEF Main
<1>4. QED BY <1>1, <1>2, <1>3 DEF Next

LEMMA TypingInit == Init => TypeOK /\ CountingBelowLimit
<1> SUFFICES ASSUME Init PROVE TypeOK /\ CountingBelowLimit
  OBVIOUS
<1>1. MainTypeOK
  <2>1. /\ pc = "setup" /\ state = "starting" /\ first_step = 1
        /\ card_id = ZeroId /\ reading = NoCard /\ ticks = 0 /\ lcd = Text("blank", "clear")
    BY DEF Init, ResetMemory
  <2>2. QED
    BY <2>1, TimeoutAssumption DEF MainTypeOK, Places, States, Ids, ZeroId, Text
<1>2. scans = 0 /\ settled = {} /\ reports = 0 /\ shown = NothingShown
  BY DEF Init
<1>3. HistoryTypeOK
  BY <1>2 DEF HistoryTypeOK, NothingShown, NothingPrinted
<1>4. UsbTypeOK
  <2>1. command = CMD_ECHO /\ response = ClearedResponse /\ ep1 = {} /\ xfer = {}
    BY DEF Init, ResetMemory, CMD_ECHO
  <2>2. QED BY <1>2, <2>1 DEF UsbTypeOK, ClearedResponse, CMD_ECHO
<1>5. EnvTypeOK
  <2>1. card = NoCard /\ requests = {} /\ placed = 0 /\ outages = 0
    BY DEF Init
  <2>2. QED BY <2>1, BoundsAssumption DEF EnvTypeOK
<1>6. FlagsTypeOK BY Zenon DEF FlagsTypeOK, Init
<1>7. CountingBelowLimit BY DEF CountingBelowLimit, Init, ResetMemory
<1>8. QED BY <1>1, <1>3, <1>4, <1>5, <1>6, <1>7 DEF TypeOK

(* Every variable keeps its type: in particular the pass counter of case
   processing meets its limit and never runs past it. *)
THEOREM Typing == Spec => []TypeOK
<1>1. Init => TypeOK /\ CountingBelowLimit BY TypingInit
<1>2. TypeOK /\ CountingBelowLimit /\ [Next]_vars => (TypeOK /\ CountingBelowLimit)'
  BY TypingStep, CountingStep
<1>3. QED BY <1>1, <1>2, PTL DEF Spec

(***************************************************************************)
(* Answers.                                                                *)
(***************************************************************************)

(* Steps of main() that leave alone USB and what they say is on display. *)
MainElsewhere ==
  \/ Setup \/ Dispatch \/ Starting \/ Started \/ Idle \/ IdleFirst \/ IdleCard
  \/ Scanning \/ ScanningFirst \/ GetCardId \/ Sent \/ Processing \/ ProcessingFirst
  \/ Beep \/ InfoWait \/ NoConnection \/ NoConnectionFirst
  \/ ReaderAck \/ ReaderNak \/ ReaderBytes

LEMMA ElsewhereFrame ==
  ASSUME MainElsewhere PROVE UNCHANGED <<usbVars, envVars, historyVars>>
<1>1. ASSUME ReaderNak \/ ReaderBytes PROVE UNCHANGED <<usbVars, envVars, historyVars>>
  <2>1. response' = response
    BY <1>1, ScanResultSends DEF ReaderNak, ReaderBytes
  <2>2. QED BY <1>1, <2>1 DEF ReaderNak, ReaderBytes, usbVars
<1>2. QED
  BY <1>1 DEF MainElsewhere, Setup, Dispatch, Starting, Started, Idle, IdleFirst, IdleCard,
    Scanning, ScanningFirst, GetCardId, Sent, Processing, ProcessingFirst, Beep, InfoWait,
    NoConnection, NoConnectionFirst, ReaderAck

LEMMA ElsewhereSplit ==
  Main \/ ReaderStatus \/ ReaderBytes =>
    \/ MainElsewhere \/ Send \/ Count \/ WatchdogReset
    \/ Info \/ PriceLo \/ PriceHi \/ BalanceLo \/ BalanceHi \/ InfoDone
  BY DEF Main, ReaderStatus, MainElsewhere

LEMMA CommandStep ==
  ASSUME TypeOK, CommandOfTransfer, [Next]_vars PROVE CommandOfTransfer'
<1> USE DEF CommandOfTransfer
<1>1. ASSUME UNCHANGED <<command, xfer>> \/ xfer' = {} PROVE CommandOfTransfer'
  BY <1>1
<1>2. ASSUME Main \/ ReaderStatus \/ ReaderBytes PROVE CommandOfTransfer'
  <2>1. CASE MainElsewhere BY <1>1, <2>1, ElsewhereFrame DEF usbVars
  <2>2. CASE WatchdogReset BY <1>1, <2>2 DEF WatchdogReset, ResetMemory
  <2>3. CASE Send \/ Count \/ InfoDone BY <1>1, <2>3 DEF Send, Count, InfoDone
  <2>4. CASE Info \/ PriceLo \/ PriceHi \/ BalanceLo \/ BalanceHi
    BY <1>1, <2>4 DEF Info, PriceLo, PriceHi, BalanceLo, BalanceHi, usbVars
  <2>5. QED BY <1>2, <2>1, <2>2, <2>3, <2>4, ElsewhereSplit
<1>3. ASSUME Interrupt PROVE CommandOfTransfer'
  <2>1. CASE Timer1 \/ KeepAlive \/ \E cmd \in OtherCommands : SetupOther(cmd)
    BY <1>1, <2>1 DEF Timer1, KeepAlive, SetupOther, SetupRequest, usbVars
  <2>2. ASSUME NEW s \in requests, NEW code \in ResponseCodes, SetupResponse(s, code)
        PROVE  CommandOfTransfer'
    <3>1. s # 0 BY DEF TypeOK, EnvTypeOK, HistoryTypeOK
    <3>2. QED BY <2>2, <3>1 DEF SetupResponse, SetupRequest, Data
  <2>3. ASSUME NEW byte \in EchoBytes, SetupEcho(byte) PROVE CommandOfTransfer'
    BY <2>3 DEF SetupEcho, SetupRequest, Data, CMD_ECHO, CMD_RESPONSE
  <2>4. ASSUME WriteData PROVE CommandOfTransfer'
    <3>1. PICK d \in xfer : xfer' \subseteq {[d EXCEPT !.again = TRUE]}
      BY <2>4, WriteDataDoes
    <3>2. command' = command BY <2>4 DEF WriteData, WriteDataStoring
    <3>3. [d EXCEPT !.again = TRUE].of = d.of BY DEF TypeOK, UsbTypeOK
    <3>4. QED BY <3>1, <3>2, <3>3
  <2>5. QED BY <1>3, <2>1, <2>2, <2>3, <2>4 DEF Interrupt
<1>4. ASSUME Environment \/ UNCHANGED vars PROVE CommandOfTransfer'
  BY <1>1, <1>4 DEF Environment, HostPoll, HostUp, HostDown, CardRemoved, CardPlaced,
       usbVars, vars
<1>5. QED BY <1>2, <1>3, <1>4 DEF Next

(* Where an answer only disappears, the invariant stays. *)
LEMMA HolderLoses ==
  ASSUME OneHolder, UNCHANGED <<scans, settled>>,
         InEndpoint' \subseteq InEndpoint, requests' \subseteq requests,
         InTransfer' \subseteq InTransfer, InTerminal' \subseteq InTerminal,
         InRepeat' \subseteq InRepeat
  PROVE  OneHolder'
  BY DEF OneHolder

LEMMA HolderStep ==
  ASSUME TypeOK, OneHolder, [Next]_vars PROVE OneHolder'
<1>1. ASSUME UNCHANGED <<ep1, requests, xfer, response, shown, scans, settled>>
      PROVE  OneHolder'
  <2>1. /\ InEndpoint' = InEndpoint /\ InTransfer' = InTransfer
        /\ InTerminal' = InTerminal /\ InRepeat' = InRepeat /\ requests' = requests
    BY <1>1 DEF InEndpoint, InTransfer, InTerminal, InRepeat
  <2>2. QED BY <1>1, <2>1, HolderLoses
<1>2. ASSUME MainElsewhere \/ UNCHANGED vars PROVE OneHolder'
  BY <1>1, <1>2, ElsewhereFrame DEF vars, usbVars, envVars, historyVars
<1>3. ASSUME Timer1 \/ HostUp \/ HostDown \/ CardRemoved \/ \E c \in Cards : CardPlaced(c)
      PROVE  OneHolder'
  BY <1>1, <1>3 DEF Timer1, HostUp, HostDown, CardRemoved, CardPlaced,
       usbVars, envVars, historyVars
<1>4. ASSUME PriceLo \/ PriceHi \/ BalanceLo \/ BalanceHi PROVE OneHolder'
  <2>1. shown'.of = shown.of /\ UNCHANGED <<ep1, xfer, response, requests, scans, settled>>
    BY <1>4 DEF PriceLo, PriceHi, BalanceLo, BalanceHi, usbVars, envVars, TypeOK, HistoryTypeOK
  <2>2. /\ InEndpoint' = InEndpoint /\ InTransfer' = InTransfer
        /\ InTerminal' = InTerminal /\ InRepeat' = InRepeat /\ requests' = requests
    BY <2>1 DEF InEndpoint, InTransfer, InTerminal, InRepeat
  <2>3. QED BY <2>1, <2>2, HolderLoses
<1>5. ASSUME Info PROVE OneHolder'
  <2>1. shown'.of = response.of /\ UNCHANGED <<ep1, xfer, response, requests, scans, settled>>
    BY <1>5 DEF Info, usbVars, envVars, NothingPrinted
  <2>2. InEndpoint' = InEndpoint /\ InTransfer' = InTransfer /\ InRepeat' = InRepeat
    BY <2>1 DEF InEndpoint, InTransfer, InRepeat
  <2>3. InTerminal' \subseteq InTerminal BY <2>1 DEF InTerminal
  <2>4. QED BY <2>1, <2>2, <2>3, HolderLoses
<1>6. ASSUME Count PROVE OneHolder'
  <2>1. UNCHANGED <<ep1, xfer, shown, requests, scans, settled>>
    BY <1>6 DEF Count, envVars, historyVars
  <2>2. response'.of \in {0, response.of} BY <1>6 DEF Count, SetCode
  <2>3. InEndpoint' = InEndpoint /\ InTransfer' = InTransfer /\ InRepeat' = InRepeat
    BY <2>1 DEF InEndpoint, InTransfer, InRepeat
  <2>4. InTerminal' \subseteq InTerminal BY <2>1, <2>2 DEF InTerminal
  <2>5. QED BY <2>1, <2>3, <2>4, HolderLoses
<1>7. ASSUME WatchdogReset PROVE OneHolder'
  <2>1. /\ ep1' = {} /\ xfer' = {} /\ response'.of = 0 /\ shown'.of = 0
        /\ UNCHANGED <<requests, scans, settled>>
    BY <1>7 DEF WatchdogReset, ResetMemory, ClearedResponse, NothingShown, NothingPrinted, envVars
  <2>2. InEndpoint' = {} /\ InTransfer' = {} /\ InTerminal' = {} /\ InRepeat' = {}
    BY <2>1 DEF InEndpoint, InTransfer, InTerminal, InRepeat
  <2>3. QED BY <2>1, <2>2, HolderLoses
<1>8. ASSUME KeepAlive \/ (\E byte \in EchoBytes : SetupEcho(byte))
             \/ (\E cmd \in OtherCommands : SetupOther(cmd))
      PROVE  OneHolder'
  <2>1. UNCHANGED <<ep1, response, requests, shown, scans, settled>>
    BY <1>8 DEF KeepAlive, SetupEcho, SetupOther, envVars, historyVars
  <2>2. \A d \in xfer' : d.of = 0
    BY <1>8 DEF KeepAlive, SetupEcho, SetupOther, SetupRequest, Data
  <2>3. InEndpoint' = InEndpoint /\ InTerminal' = InTerminal BY <2>1 DEF InEndpoint, InTerminal
  <2>4. InTransfer' = {} /\ InRepeat' = {} BY <2>2 DEF InTransfer, InRepeat
  <2>5. QED BY <2>1, <2>3, <2>4, HolderLoses
(* The next report is of a scan no answer was given to. *)
<1>9. ASSUME Send PROVE OneHolder'
  <2>1. /\ scans \in Nat /\ scans' = scans + 1 /\ ep1' = {[scan |-> scans + 1, id |-> card_id]}
        /\ UNCHANGED <<xfer, response, requests, shown, settled>> /\ settled \subseteq 1..scans
    BY <1>9 DEF Send, envVars, TypeOK, HistoryTypeOK
  <2>2. InEndpoint' = {scans + 1} BY <2>1 DEF InEndpoint
  <2>3. InTransfer' = InTransfer /\ InTerminal' = InTerminal /\ InRepeat' = InRepeat
    BY <2>1 DEF InTransfer, InTerminal, InRepeat
  <2>4. /\ requests \cup InTransfer \cup InTerminal \subseteq (1..scans) \ settled
        /\ InRepeat \subseteq 1..scans
    BY DEF OneHolder
  <2>5. scans + 1 \notin 1..scans /\ 1..scans \subseteq 1..(scans + 1) BY <2>1
  <2>6. scans + 1 \in (1..(scans + 1)) \ settled BY <2>1, <2>5
  <2>7. QED BY <2>1, <2>2, <2>3, <2>4, <2>5, <2>6 DEF OneHolder
(* Clearing the code lets go of the answer that was shown, of one that came too
   late to be shown, and of no other. *)
<1>10. ASSUME InfoDone PROVE OneHolder'
  <2>1. /\ response'.of = 0 /\ shown'.of = 0 /\ settled' = settled \cup InTerminal
        /\ UNCHANGED <<ep1, xfer, requests, scans>>
    BY <1>10 DEF InfoDone, SetCode, NothingShown, NothingPrinted, InTerminal, envVars
  <2>2. /\ InEndpoint' = InEndpoint /\ InTransfer' = InTransfer /\ InTerminal' = {}
        /\ InRepeat' = InRepeat
    BY <2>1 DEF InEndpoint, InTransfer, InTerminal, InRepeat
  <2>3. QED BY <2>1, <2>2 DEF OneHolder
(* The other steps hand an answer on. *)
<1>11. ASSUME HostPoll PROVE OneHolder'
  <2>1. PICK m \in ep1 : ep1' = {} /\ requests' = requests \cup {m.scan}
    BY <1>11 DEF HostPoll
  <2>2. UNCHANGED <<xfer, response, shown, scans, settled>> BY <1>11 DEF HostPoll, historyVars
  <2>3. InEndpoint' = {} /\ m.scan \in InEndpoint BY <2>1 DEF InEndpoint
  <2>4. InTransfer' = InTransfer /\ InTerminal' = InTerminal /\ InRepeat' = InRepeat
    BY <2>2 DEF InTransfer, InTerminal, InRepeat
  <2>5. QED BY <2>1, <2>2, <2>3, <2>4 DEF OneHolder
<1>12. ASSUME NEW s \in requests, NEW code \in ResponseCodes, SetupResponse(s, code)
       PROVE  OneHolder'
  <2>1. /\ requests' = requests \ {s} /\ xfer' = Data(s, code)
        /\ UNCHANGED <<ep1, response, shown, scans, settled>>
    BY <1>12 DEF SetupResponse, SetupRequest, historyVars
  <2>2. InEndpoint' = InEndpoint /\ InTerminal' = InTerminal BY <2>1 DEF InEndpoint, InTerminal
  <2>3. InTransfer' \subseteq {s} /\ InRepeat' = {} BY <2>1 DEF InTransfer, InRepeat, Data
  <2>4. QED BY <2>1, <2>2, <2>3 DEF OneHolder
(* A repeat brings back an answer that was settled: it is settled no more. *)
<1>13. ASSUME WriteData PROVE OneHolder'
  <2>1. PICK d \in xfer :
          /\ xfer' \subseteq {[d EXCEPT !.again = TRUE]}
          /\ settled' = settled \ {d.of} /\ response'.of = d.of
    BY <1>13, WriteDataDoes
  <2>2. UNCHANGED <<ep1, requests, shown, scans>>
    BY <1>13 DEF WriteData, WriteDataStoring, envVars
  <2>3. d \in [of : 0..scans, code : 0..255, again : BOOLEAN] BY DEF TypeOK, UsbTypeOK
  <2>4. [d EXCEPT !.again = TRUE].of = d.of /\ [d EXCEPT !.again = TRUE].again BY <2>3
  <2>5. {d.of} \ {0} \subseteq InTransfer \cup InRepeat BY <2>3 DEF InTransfer, InRepeat
  <2>6. InEndpoint' = InEndpoint BY <2>2 DEF InEndpoint
  <2>7. InTransfer' = {} BY <2>1, <2>4 DEF InTransfer
  <2>8. InRepeat' \subseteq {d.of} \ {0} BY <2>1, <2>4 DEF InRepeat
  <2>9. InTerminal' \subseteq InTerminal \cup ({d.of} \ {0}) BY <2>1, <2>2 DEF InTerminal
  <2>10. ({d.of} \ {0}) \cap (InEndpoint \cup requests) = {} BY <2>5 DEF OneHolder
  <2>11. {d.of} \ {0} \subseteq 1..scans BY <2>5 DEF OneHolder
  <2>12. InEndpoint \cup requests \cup InTerminal \subseteq (1..scans) \ settled
    BY DEF OneHolder
  <2>13. InEndpoint' \cup requests' \cup InTransfer' \cup InTerminal'
           \subseteq (1..scans') \ settled'
    BY <2>1, <2>2, <2>6, <2>7, <2>9, <2>11, <2>12
  <2>14. /\ InEndpoint \cap requests = {} /\ InEndpoint \cap InTerminal = {}
         /\ requests \cap InTerminal = {}
    BY DEF OneHolder
  <2>15. QED BY <2>2, <2>6, <2>7, <2>8, <2>9, <2>10, <2>11, <2>13, <2>14 DEF OneHolder
<1>14. QED
  BY <1>2, <1>3, <1>4, <1>5, <1>6, <1>7, <1>8, <1>9, <1>10, <1>11, <1>12, <1>13, ElsewhereSplit
  DEF Next, Interrupt, Environment

(***************************************************************************)
(* The fields of an answer.                                                *)
(***************************************************************************)

LEMMA StoredStep ==
  ASSUME TypeOK, CommandOfTransfer, FieldsStored, [Next]_vars PROVE FieldsStored'
<1>1. ASSUME UNCHANGED response PROVE FieldsStored'
  BY <1>1 DEF FieldsStored
<1>2. ASSUME response'.of = 0 PROVE FieldsStored'
  BY <1>2 DEF FieldsStored
<1>3. ASSUME MainElsewhere PROVE FieldsStored'
  BY <1>1, <1>3, ElsewhereFrame DEF usbVars
<1>4. ASSUME Count \/ InfoDone \/ WatchdogReset PROVE FieldsStored'
  BY <1>1, <1>2, <1>4 DEF Count, InfoDone, WatchdogReset, ResetMemory, SetCode, ClearedResponse
<1>5. ASSUME Send \/ Info \/ PriceLo \/ PriceHi \/ BalanceLo \/ BalanceHi PROVE FieldsStored'
  BY <1>1, <1>5 DEF Send, Info, PriceLo, PriceHi, BalanceLo, BalanceHi, usbVars
<1>6. ASSUME WriteData PROVE FieldsStored'
  <2>1. PICK d \in xfer :
          response' = [code |-> d.code, of |-> d.of,
                       balance |-> IF command = CMD_RESPONSE /\ d.code \in BalanceCodes
                                     THEN d.of ELSE response.balance,
                       price |-> IF command = CMD_RESPONSE /\ d.code \in PriceCodes
                                   THEN d.of ELSE response.price]
    BY <1>6, WriteDataDoes
  <2>2. CASE d.of = 0 BY <1>2, <2>1, <2>2
  <2>3. CASE d.of # 0
    <3>1. command = CMD_RESPONSE BY <2>3 DEF CommandOfTransfer
    <3>2. /\ response'.code = d.code /\ response'.of = d.of
          /\ d.code \in BalanceCodes => response'.balance = d.of
          /\ d.code \in PriceCodes => response'.price = d.of
      BY <2>1, <3>1
    <3>3. QED BY <3>2 DEF FieldsStored
  <2>4. QED BY <2>2, <2>3
<1>7. ASSUME Timer1 \/ KeepAlive \/ (\E s \in requests, code \in ResponseCodes : SetupResponse(s, code))
             \/ (\E byte \in EchoBytes : SetupEcho(byte))
             \/ (\E cmd \in OtherCommands : SetupOther(cmd)) \/ Environment \/ UNCHANGED vars
      PROVE  FieldsStored'
  BY <1>1, <1>7 DEF Timer1, KeepAlive, SetupResponse, SetupEcho, SetupOther, Environment, HostPoll,
       HostUp, HostDown, CardRemoved, CardPlaced, usbVars, vars
<1>8. QED BY <1>3, <1>4, <1>5, <1>6, <1>7, ElsewhereSplit DEF Next, Interrupt

(* While nothing else is outstanding, the answer on display is the last one: any
   other that may still be written is of a settled scan. *)
LEMMA OtherAnswersSettled ==
  ASSUME TypeOK, OneHolder, NothingOutstanding, shown.of # 0
  PROVE  \A d \in xfer : d.of \in {0, shown.of} \cup 1..(scans - 1)
<1>1. scans \in Nat /\ shown.of \in 1..scans
  BY DEF TypeOK, HistoryTypeOK
<1>2. shown.of \in InTerminal BY DEF InTerminal
<1>3. shown.of \notin 1..(scans - 1) BY <1>2 DEF OneHolder, NothingOutstanding
<1>4. shown.of = scans BY <1>1, <1>3
<1>5. \A d \in xfer : d.of \in 0..scans BY DEF TypeOK, UsbTypeOK
<1>6. QED BY <1>1, <1>4, <1>5

LEMMA PrintedStep ==
  ASSUME TypeOK, CommandOfTransfer, OneHolder, FieldsStored, FieldsPrinted, [Next]_vars
  PROVE  FieldsPrinted'
<1> USE DEF ShowingVerdict, PrintingPrice, PrintingBalance
<1>1. ASSUME UNCHANGED <<pc, shown, scans, settled>>,
             response'.balance = response.balance, response'.price = response.price
      PROVE  FieldsPrinted'
  BY <1>1 DEF FieldsPrinted, NothingOutstanding
<1>2. ASSUME pc' \notin ShowingVerdict PROVE FieldsPrinted'
  BY <1>2 DEF FieldsPrinted
<1>3. ASSUME Interrupt \/ Environment \/ UNCHANGED vars, ~WriteData PROVE FieldsPrinted'
  BY <1>1, <1>3 DEF Interrupt, Timer1, KeepAlive, SetupResponse, SetupEcho, SetupOther, Environment,
       HostPoll, HostUp, HostDown, CardRemoved, CardPlaced, usbVars, historyVars, vars
<1>4. ASSUME WriteData PROVE FieldsPrinted'
  <2>1. UNCHANGED <<pc, shown, scans>> BY <1>4 DEF WriteData, WriteDataStoring
  <2>2. PICK d \in xfer :
          /\ settled' = settled \ {d.of}
          /\ response' = [code |-> d.code, of |-> d.of,
                          balance |-> IF command = CMD_RESPONSE /\ d.code \in BalanceCodes
                                        THEN d.of ELSE response.balance,
                          price |-> IF command = CMD_RESPONSE /\ d.code \in PriceCodes
                                      THEN d.of ELSE response.price]
    BY <1>4, WriteDataDoes
  <2>3. SUFFICES ASSUME shown.of # 0, NothingOutstanding' PROVE FieldsPrinted'
    BY <2>1 DEF FieldsPrinted
  <2>4. NothingOutstanding BY <2>1, <2>2, <2>3 DEF NothingOutstanding
  <2>5. d.of \notin 1..(scans - 1) BY <2>1, <2>2, <2>3 DEF NothingOutstanding
  <2>6. d.of \in {0, shown.of} BY <2>3, <2>4, <2>5, OtherAnswersSettled
  <2>7. /\ response'.balance \in {response.balance, shown.of}
        /\ response'.price \in {response.price, shown.of}
    <3>1. CASE d.of = 0
      <4>1. command # CMD_RESPONSE BY <3>1 DEF CommandOfTransfer
      <4>2. QED BY <2>2, <4>1
    <3>2. CASE d.of = shown.of BY <2>2, <3>2
    <3>3. QED BY <2>6, <3>1, <3>2
  <2>8. FieldsPrinted /\ NothingOutstanding /\ shown.of # 0 BY <2>3, <2>4
  <2>9. QED BY <2>1, <2>7, <2>8 DEF FieldsPrinted
<1>5. ASSUME MainElsewhere, ~InfoWait PROVE FieldsPrinted'
  <2>1. CASE Dispatch BY <1>2, <2>1 DEF Dispatch, Goto, TypeOK, MainTypeOK, States
  <2>2. CASE ReaderNak \/ ReaderBytes
    BY <1>2, <2>2, ScanResultSends DEF ReaderNak, ReaderBytes
  <2>3. CASE ~Dispatch /\ ~ReaderNak /\ ~ReaderBytes
    BY <1>2, <1>5, <2>3 DEF MainElsewhere, Setup, Starting, Started, Idle, IdleFirst,
         IdleCard, Scanning, ScanningFirst, GetCardId, Sent, Processing, ProcessingFirst,
         Beep, NoConnection, NoConnectionFirst, ReaderAck, Goto
  <2>4. QED BY <2>1, <2>2, <2>3
<1>6. ASSUME InfoWait \/ InfoDone \/ Send \/ Count \/ WatchdogReset PROVE FieldsPrinted'
  BY <1>2, <1>6 DEF InfoWait, InfoDone, Send, Count, WatchdogReset, Goto
<1>7. ASSUME Info PROVE FieldsPrinted'
  <2>1. /\ UNCHANGED <<response, scans, settled>>
        /\ shown'.of = response.of /\ shown'.code = response.code
    BY <1>7 DEF Info, usbVars, NothingPrinted
  <2>2. CASE pc' = "price_lo"
    BY <1>7, <2>1, <2>2 DEF Info, FieldsStored, FieldsPrinted, BalanceCodes, PriceCodes,
         RESP_CHECKED_IN, RESP_CHECKED_OUT, RESP_INSUFFICIENT_FUNDS
  <2>3. CASE pc' = "balance_lo"
    BY <1>7, <2>1, <2>3 DEF Info, FieldsStored, FieldsPrinted, BalanceCodes,
         RESP_CHECKED_IN, RESP_CHECKED_OUT, RESP_INSUFFICIENT_FUNDS
  <2>4. CASE pc' = "info_wait"
    BY <1>7, <2>1, <2>4 DEF Info, FieldsStored, FieldsPrinted, BalanceCodes
  <2>5. QED BY <1>7, <2>2, <2>3, <2>4 DEF Info
<1>8. ASSUME PriceLo \/ PriceHi \/ BalanceLo \/ BalanceHi PROVE FieldsPrinted'
  <2>1. /\ UNCHANGED <<response, scans, settled>>
        /\ shown'.of = shown.of /\ shown'.code = shown.code
    BY <1>8 DEF PriceLo, PriceHi, BalanceLo, BalanceHi, usbVars, TypeOK, HistoryTypeOK
  <2>2. shown \in [code : 0..255, of : 0..scans, priceLo : 0..scans, priceHi : 0..scans,
                   balanceLo : 0..scans, balanceHi : 0..scans]
    BY DEF TypeOK, HistoryTypeOK
  <2>3. NothingOutstanding' = NothingOutstanding BY <2>1 DEF NothingOutstanding
  <2>4. CASE PriceLo
    BY <2>1, <2>2, <2>3, <2>4 DEF PriceLo, Goto, FieldsPrinted, PriceCodes
  <2>5. CASE PriceHi
    BY <2>1, <2>2, <2>3, <2>5 DEF PriceHi, Goto, FieldsPrinted, PriceCodes, BalanceCodes
  <2>6. CASE BalanceLo
    BY <2>1, <2>2, <2>3, <2>6 DEF BalanceLo, Goto, FieldsPrinted
  <2>7. CASE BalanceHi
    BY <2>1, <2>2, <2>3, <2>7 DEF BalanceHi, Goto, FieldsPrinted
  <2>8. QED BY <1>8, <2>4, <2>5, <2>6, <2>7
<1>9. QED
  BY <1>3, <1>4, <1>5, <1>6, <1>7, <1>8, ElsewhereSplit DEF Next, Interrupt

LEMMA InvInit == Init => Inv
<1> SUFFICES ASSUME Init PROVE Inv
  OBVIOUS
<1>1. /\ pc = "setup" /\ ep1 = {} /\ xfer = {} /\ requests = {} /\ settled = {} /\ scans = 0
      /\ response.of = 0 /\ shown.of = 0
  BY DEF Init, ResetMemory, ClearedResponse, NothingShown, NothingPrinted
<1>2. CommandOfTransfer BY <1>1 DEF CommandOfTransfer
<1>3. OneHolder BY <1>1 DEF OneHolder, InEndpoint, InTransfer, InTerminal, InRepeat
<1>4. FieldsStored /\ FieldsPrinted BY <1>1 DEF FieldsStored, FieldsPrinted
<1>5. QED BY <1>2, <1>3, <1>4, TypingInit DEF Inv

(* The inductive invariant: type correctness, the bound on the pass counter,
   and where the answer to each scan is between usbSetInterrupt and
   "current.response.code = 0": on its way, in one place, or in the terminal,
   or settled; a repeat is only ever of one that was written before. *)
THEOREM Invariance == Spec => []Inv
<1>1. Inv /\ [Next]_vars => Inv'
  BY TypingStep, CountingStep, CommandStep, HolderStep, StoredStep, PrintedStep DEF Inv
<1>2. QED BY InvInit, <1>1, PTL DEF Spec

(* No customer reads the answer to an earlier scan, unless one is outstanding. *)
THEOREM NoForeignVerdictHolds == Spec => []NoForeignVerdict
<1>1. Inv => NoForeignVerdict
  <2> SUFFICES ASSUME Inv, ServerVerdict, NothingOutstanding PROVE shown.of = scans
    BY DEF NoForeignVerdict
  <2>1. shown.of \in InTerminal BY DEF ServerVerdict, InTerminal
  <2>2. shown.of \in (1..scans) \ settled BY <2>1 DEF Inv, OneHolder
  <2>3. scans \in Nat BY DEF Inv, TypeOK, HistoryTypeOK
  <2>4. QED BY <2>2, <2>3 DEF NothingOutstanding
<1>2. QED BY <1>1, Invariance, PTL

(* The price and the balance that are printed came with the code, although
   every byte of them is read with interrupts enabled. *)
THEOREM FieldsFollowVerdictHolds == Spec => []FieldsFollowVerdict
<1>1. Inv => FieldsFollowVerdict
  BY DEF Inv, FieldsFollowVerdict, FieldsPrinted, ServerVerdict
<1>2. QED BY <1>1, Invariance, PTL
=============================================================================
