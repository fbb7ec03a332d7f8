---------------------- MODULE TerminalCustomer_proofs -----------------------
(***************************************************************************)
(* Proofs about what one customer meets: one report per card, a whole      *)
(* identifier, and the dialog on the display.                              *)
(***************************************************************************)
EXTENDS Terminal_proofs

(* Where main() is between seeing a card and reporting it ... *)
BeforeReport ==
  \/ pc = "dispatch" /\ state = "scanning"
  \/ pc \in {"scanning", "scanning_first", "get_id", "await_status", "await_bytes", "send"}

(* ... and between the report and the verdict, if no interrupt takes it away. *)
AfterReport ==
  \/ pc = "dispatch" /\ state \in {"processing", "info"}
  \/ pc \in {"processing", "processing_first", "count"} /\ state = "processing"
  \/ pc \in {"sent", "beep", "info", "price_lo", "price_hi", "balance_lo", "balance_hi",
             "info_wait"}

(* A card that was reported is waited for until it is gone. *)
ReportedOnce ==
  reports # 0 /\ ~cutCard =>
    reports = 1 /\ ~BeforeReport /\ (card # NoCard => AfterReport)

(* Where the identifier of this customer has not been read. *)
BeforeRead ==
  \/ pc = "dispatch" /\ state \in {"starting", "idle", "scanning"}
  \/ pc \in {"setup", "starting", "started", "idle", "idle_first", "idle_card",
             "scanning", "scanning_first", "get_id", "await_status", "await_bytes"}

(* Since case info cleared it and no interrupt led past case info, the buffer is
   clear until it is read. *)
ClearUntilRead ==
  ~cutTxn =>
    /\ state # "no_connection" /\ pc \notin {"no_connection", "no_connection_first"}
    /\ pc \in {"processing", "processing_first", "count"} => state = "processing"
    /\ BeforeRead => card_id = ZeroId
    /\ card_id.head = card_id.tail

(* The states that can be found at a place of main(): interrupts only ever set
   no_connection and, from there, starting. *)
StateAtPlace ==
  /\ pc = "setup" => state = "starting"
  /\ pc \in {"idle", "idle_first", "idle_card"} =>
       state \in {"idle", "no_connection", "starting"}
  /\ pc \in {"processing", "processing_first", "count"} =>
       state \in {"processing", "no_connection", "starting"}
  /\ pc \in {"no_connection", "no_connection_first"} =>
       state \in {"no_connection", "starting"}

(* What is on display where. *)
Invitable == lcd.top \in {"starting", "scan_here", "verdict"}
DisplayAtPlace ==
  /\ pc = "started" => lcd.top = "starting"
  /\ (pc = "dispatch" /\ state = "idle") \/ pc \in {"idle", "idle_first"} =>
       Invitable /\ (first_step = 0 => pc = "idle_first" \/ lcd.top = "scan_here")
  /\ (pc = "dispatch" /\ state = "scanning") \/ pc = "scanning" =>
       lcd.top = "scan_here" /\ first_step = 1
  /\ pc \in {"idle_card", "scanning_first"} => lcd.top = "scan_here"
  /\ pc = "dispatch" /\ state \in {"processing", "info"} => lcd.top = "working"
  /\ pc \in {"get_id", "await_status", "await_bytes", "send", "sent", "processing",
             "processing_first", "count", "beep", "info", "price_lo", "price_hi"} =>
       lcd.top = "working"
  /\ pc \in {"balance_lo", "balance_hi", "info_wait", "info_done"} => lcd.top = "verdict"
  /\ lcd.bottom = "balance" => lcd.top = "verdict"

(***************************************************************************)
(* States and places.                                                      *)
(***************************************************************************)

LEMMA StateAtPlaceStep ==
  ASSUME TypeOK, StateAtPlace, [Next]_vars PROVE StateAtPlace'
<1> USE DEF StateAtPlace, Goto
<1>1. ASSUME UNCHANGED <<pc, state>> PROVE StateAtPlace'
  BY <1>1
<1>2. CASE Interrupt
  <2>1. CASE Timer1 BY <2>1 DEF Timer1, Booted
  <2>2. CASE KeepAlive
    <3>1. pc # "setup" /\ pc' = pc BY <2>2 DEF KeepAlive, SetupRequest, Booted
    <3>2. state' = state \/ state' = "starting" BY <2>2 DEF KeepAlive
    <3>3. QED BY <3>1, <3>2
  <2>3. CASE ~Timer1 /\ ~KeepAlive
    BY <1>1, <1>2, <2>3 DEF Interrupt, WriteData, WriteDataStoring, SetupResponse,
         SetupEcho, SetupOther, mainVars
  <2>4. QED BY <2>1, <2>2, <2>3
<1>3. CASE Environment \/ UNCHANGED vars
  BY <1>1, <1>3 DEF Environment, HostPoll, HostUp, HostDown, CardRemoved, CardPlaced,
       vars, mainVars
<1>4. CASE WatchdogReset BY <1>4 DEF WatchdogReset, ResetMemory
<1>5. CASE Send \/ Count \/ Info \/ PriceLo \/ PriceHi \/ BalanceLo \/ BalanceHi \/ InfoDone
  BY <1>5 DEF Send, Count, Info, PriceLo, PriceHi, BalanceLo, BalanceHi, InfoDone, mainVars
<1>6. CASE MainElsewhere
  <2>1. CASE ReaderAck \/ ReaderNak \/ ReaderBytes
    BY <2>1, ScanResultSends DEF ReaderAck, ReaderNak, ReaderBytes
  <2>2. CASE Dispatch BY <2>2 DEF Dispatch, mainVars, TypeOK, MainTypeOK, States
  <2>3. CASE Setup \/ Starting \/ Started BY <2>3 DEF Setup, Starting, Started
  <2>4. CASE Idle \/ IdleFirst \/ IdleCard BY <2>4 DEF Idle, IdleFirst, IdleCard
  <2>5. CASE Scanning \/ ScanningFirst \/ GetCardId \/ Sent
    BY <2>5 DEF Scanning, ScanningFirst, GetCardId, Sent
  <2>6. CASE Processing \/ ProcessingFirst \/ Beep \/ InfoWait
    BY <2>6 DEF Processing, ProcessingFirst, Beep, InfoWait, mainVars
  <2>7. CASE NoConnection \/ NoConnectionFirst
    BY <2>7 DEF NoConnection, NoConnectionFirst
  <2>8. QED BY <1>6, <2>1, <2>2, <2>3, <2>4, <2>5, <2>6, <2>7 DEF MainElsewhere
<1>7. QED BY <1>2, <1>3, <1>4, <1>5, <1>6, ElsewhereSplit DEF Next

LEMMA StatesAtPlaces == Spec => []StateAtPlace
<1>1. Init => StateAtPlace BY DEF Init, ResetMemory, StateAtPlace
<1>2. TypeOK /\ StateAtPlace /\ [Next]_vars => StateAtPlace' BY StateAtPlaceStep
<1>3. QED BY <1>1, <1>2, Typing, PTL DEF Spec

(***************************************************************************)
(* One report per presentation.                                            *)
(***************************************************************************)

LEMMA ReportedOnceStep ==
  ASSUME TypeOK, StateAtPlace, ReportedOnce, [Next]_vars PROVE ReportedOnce'
<1> USE DEF StateAtPlace, ReportedOnce, BeforeReport, AfterReport, Goto
<1>1. ASSUME UNCHANGED <<pc, state, card, reports, cutCard>> PROVE ReportedOnce'
  BY <1>1
<1>2. ASSUME Interrupt, ~Timer1, ~KeepAlive PROVE ReportedOnce'
  BY <1>1, <1>2 DEF Interrupt, WriteData, WriteDataStoring, SetupResponse,
         SetupEcho, SetupOther, mainVars, envVars, historyVars
<1>3. CASE Timer1 BY <1>3 DEF Timer1, envVars
<1>4. CASE KeepAlive BY <1>4 DEF KeepAlive, envVars, historyVars
<1>5. CASE HostPoll \/ HostUp \/ HostDown \/ UNCHANGED vars
  BY <1>1, <1>5 DEF HostPoll, HostUp, HostDown, vars, mainVars, envVars, historyVars
<1>6. CASE CardRemoved BY <1>6 DEF CardRemoved, mainVars, historyVars
<1>7. ASSUME NEW c \in Cards, CardPlaced(c) PROVE ReportedOnce'
  BY <1>7 DEF CardPlaced
<1>8. CASE Send
  <2>1. reports \in Nat /\ reports' = reports + 1 /\ pc = "send" /\ pc' = "sent" /\ cutCard' = cutCard
    BY <1>8 DEF Send, TypeOK, HistoryTypeOK
  <2>2. ~cutCard => reports = 0 BY <2>1
  <2>3. QED BY <2>1, <2>2
<1>9. CASE WatchdogReset BY <1>9 DEF WatchdogReset, ResetMemory, envVars
<1>10. CASE Count \/ Info \/ PriceLo \/ PriceHi \/ BalanceLo \/ BalanceHi \/ InfoDone
  <2>1. UNCHANGED <<card, reports, cutCard>>
    BY <1>10 DEF Count, Info, PriceLo, PriceHi, BalanceLo, BalanceHi, InfoDone,
         envVars, historyVars
  <2>2. CASE Count BY <2>1, <2>2 DEF Count
  <2>3. CASE Info BY <2>1, <2>3 DEF Info
  <2>4. CASE PriceLo \/ PriceHi \/ BalanceLo \/ BalanceHi
    BY <2>1, <2>4 DEF PriceLo, PriceHi, BalanceLo, BalanceHi
  <2>5. CASE InfoDone
    <3>1. pc = "info_done" /\ pc' = "dispatch" /\ state' = "idle" BY <2>5 DEF InfoDone
    <3>2. QED BY <2>1, <3>1
  <2>6. QED BY <1>10, <2>2, <2>3, <2>4, <2>5
<1>11. CASE MainElsewhere
  <2>1. UNCHANGED <<card, reports, cutCard>>
    BY <1>11, ElsewhereFrame DEF envVars, historyVars
  <2>2. CASE ReaderAck \/ ReaderNak \/ ReaderBytes
    BY <2>1, <2>2, ScanResultSends DEF ReaderAck, ReaderNak, ReaderBytes
  <2>3. CASE Setup \/ Starting \/ Started \/ Idle \/ IdleFirst \/ IdleCard
    <3>1. CASE Setup \/ Starting \/ Started BY <2>1, <3>1 DEF Setup, Starting, Started
    <3>2. CASE Idle \/ IdleFirst BY <2>1, <3>2 DEF Idle, IdleFirst
    <3>3. CASE IdleCard
      <4>1. CASE card = NoCard BY <2>1, <3>3, <4>1 DEF IdleCard
      <4>2. CASE card # NoCard BY <2>1, <3>3, <4>2 DEF IdleCard
      <4>3. QED BY <4>1, <4>2
    <3>4. QED BY <2>3, <3>1, <3>2, <3>3
  <2>4. CASE Dispatch BY <2>1, <2>4 DEF Dispatch, mainVars, TypeOK, MainTypeOK, States
  <2>5. CASE Scanning \/ ScanningFirst \/ GetCardId \/ Sent
    BY <2>1, <2>5 DEF Scanning, ScanningFirst, GetCardId, Sent, mainVars
  <2>6. CASE Processing \/ ProcessingFirst \/ Beep \/ InfoWait \/ NoConnection \/ NoConnectionFirst
    BY <2>1, <2>6 DEF Processing, ProcessingFirst, Beep, InfoWait, NoConnection,
         NoConnectionFirst, mainVars
  <2>7. QED BY <1>11, <2>2, <2>3, <2>4, <2>5, <2>6 DEF MainElsewhere
<1>12. QED
  BY <1>2, <1>3, <1>4, <1>5, <1>6, <1>7, <1>8, <1>9, <1>10, <1>11, ElsewhereSplit
  DEF Next, Interrupt, Environment

(* A card is reported once while it lies on the reader, unless the connection
   was lost meanwhile. *)
THEOREM OneScanPerPresentationHolds == Spec => []OneScanPerPresentation
<1>1. Init => ReportedOnce BY DEF Init, ReportedOnce
<1>2. TypeOK /\ StateAtPlace /\ ReportedOnce /\ [Next]_vars => ReportedOnce'
  BY ReportedOnceStep
<1>3. ReportedOnce => OneScanPerPresentation BY DEF ReportedOnce, OneScanPerPresentation
<1>4. QED BY <1>1, <1>2, <1>3, Typing, StatesAtPlaces, PTL DEF Spec

(***************************************************************************)
(* The identifier.                                                         *)
(***************************************************************************)

LEMMA ClearUntilReadStep ==
  ASSUME TypeOK, ClearUntilRead, [Next]_vars PROVE ClearUntilRead'
<1> USE DEF ClearUntilRead, BeforeRead, Goto
<1>1. ASSUME UNCHANGED <<pc, state, card_id, cutTxn>> PROVE ClearUntilRead'
  BY <1>1
<1>2. CASE Interrupt
  <2>1. CASE Timer1 BY <2>1 DEF Timer1
  <2>2. CASE KeepAlive BY <2>2 DEF KeepAlive, historyVars
  <2>3. CASE ~Timer1 /\ ~KeepAlive
    BY <1>1, <1>2, <2>3 DEF Interrupt, WriteData, WriteDataStoring, SetupResponse,
         SetupEcho, SetupOther, mainVars, historyVars
  <2>4. QED BY <2>1, <2>2, <2>3
<1>3. CASE Environment \/ UNCHANGED vars
  BY <1>1, <1>3 DEF Environment, HostPoll, HostUp, HostDown, CardRemoved, CardPlaced,
       vars, mainVars, historyVars
<1>4. CASE WatchdogReset BY <1>4 DEF WatchdogReset, ResetMemory, ZeroId
<1>5. CASE InfoDone BY <1>5 DEF InfoDone, ZeroId
<1>6. CASE Send \/ Count \/ Info \/ PriceLo \/ PriceHi \/ BalanceLo \/ BalanceHi
  BY <1>6 DEF Send, Count, Info, PriceLo, PriceHi, BalanceLo, BalanceHi, mainVars, historyVars
<1>7. CASE MainElsewhere
  <2>1. cutTxn' = cutTxn BY <1>7, ElsewhereFrame DEF historyVars
  <2>2. CASE ReaderAck BY <2>1, <2>2 DEF ReaderAck
  <2>3. CASE ReaderNak BY <2>1, <2>3, ScanResultSends DEF ReaderNak
  <2>4. CASE ReaderBytes BY <2>1, <2>4, ScanResultSends DEF ReaderBytes
  <2>5. CASE GetCardId
    BY <2>1, <2>5 DEF GetCardId, ZeroId
  <2>6. CASE Dispatch BY <2>1, <2>6 DEF Dispatch, mainVars, TypeOK, MainTypeOK, States
  <2>7. CASE Setup \/ Starting \/ Started \/ Idle \/ IdleFirst \/ IdleCard
    BY <2>1, <2>7 DEF Setup, Starting, Started, Idle, IdleFirst, IdleCard, ZeroId
  <2>8. CASE Scanning \/ ScanningFirst \/ Sent
    BY <2>1, <2>8 DEF Scanning, ScanningFirst, Sent, mainVars
  <2>9. CASE Processing \/ ProcessingFirst \/ Beep \/ InfoWait \/ NoConnection \/ NoConnectionFirst
    BY <2>1, <2>9 DEF Processing, ProcessingFirst, Beep, InfoWait, NoConnection,
         NoConnectionFirst, mainVars
  <2>10. QED BY <1>7, <2>2, <2>3, <2>4, <2>5, <2>6, <2>7, <2>8, <2>9 DEF MainElsewhere
<1>8. QED BY <1>2, <1>3, <1>4, <1>5, <1>6, <1>7, ElsewhereSplit DEF Next

(* The report never mixes two identifiers, unless a lost connection kept case
   info from clearing the first. *)
THEOREM WholeIdentifierHolds == Spec => []WholeIdentifier
<1>1. Init => ClearUntilRead BY DEF Init, ResetMemory, ClearUntilRead, ZeroId
<1>2. TypeOK /\ ClearUntilRead /\ [Next]_vars => ClearUntilRead' BY ClearUntilReadStep
<1>3. ClearUntilRead => WholeIdentifier BY DEF ClearUntilRead, WholeIdentifier
<1>4. QED BY <1>1, <1>2, <1>3, Typing, PTL DEF Spec

(***************************************************************************)
(* The dialog.                                                             *)
(***************************************************************************)

LEMMA DisplayAtPlaceStep ==
  ASSUME TypeOK, StateAtPlace, DisplayAtPlace, [Next]_vars PROVE DisplayAtPlace'
<1> USE DEF StateAtPlace, DisplayAtPlace, Invitable, Goto
<1>1. ASSUME UNCHANGED <<pc, state, first_step, lcd>> PROVE DisplayAtPlace'
  BY <1>1
<1>2. CASE Interrupt
  <2>1. CASE Timer1 BY <2>1 DEF Timer1
  <2>2. CASE KeepAlive BY <2>2 DEF KeepAlive
  <2>3. CASE ~Timer1 /\ ~KeepAlive
    BY <1>1, <1>2, <2>3 DEF Interrupt, WriteData, WriteDataStoring, SetupResponse,
         SetupEcho, SetupOther, mainVars
  <2>4. QED BY <2>1, <2>2, <2>3
<1>3. CASE Environment \/ UNCHANGED vars
  BY <1>1, <1>3 DEF Environment, HostPoll, HostUp, HostDown, CardRemoved, CardPlaced,
       vars, mainVars
<1>4. CASE WatchdogReset BY <1>4 DEF WatchdogReset, ResetMemory
<1>5. CASE Send \/ Count BY <1>5 DEF Send, Count, mainVars
<1>6. CASE Info \/ PriceLo \/ PriceHi \/ BalanceLo \/ BalanceHi \/ InfoDone
  <2>1. CASE Info BY <2>1 DEF Info, Text, TypeOK, MainTypeOK
  <2>2. CASE PriceLo \/ BalanceLo BY <2>2 DEF PriceLo, BalanceLo, mainVars
  <2>3. CASE PriceHi BY <2>3 DEF PriceHi, TypeOK, MainTypeOK
  <2>4. CASE BalanceHi BY <2>4 DEF BalanceHi, TypeOK, MainTypeOK
  <2>5. CASE InfoDone BY <2>5 DEF InfoDone
  <2>6. QED BY <1>6, <2>1, <2>2, <2>3, <2>4, <2>5
<1>7. CASE MainElsewhere
  <2>1. CASE ReaderAck \/ ReaderNak \/ ReaderBytes
    BY <2>1, ScanResultSends DEF ReaderAck, ReaderNak, ReaderBytes
  <2>2. CASE Dispatch BY <2>2 DEF Dispatch, mainVars, TypeOK, MainTypeOK, States
  <2>3. CASE Setup \/ Starting \/ Started BY <2>3 DEF Setup, Starting, Started, Text
  <2>4. CASE Idle \/ IdleFirst
    BY <2>4 DEF Idle, IdleFirst, Text, TypeOK, MainTypeOK
  <2>5. CASE IdleCard
    <3>1. CASE card = NoCard BY <2>5, <3>1 DEF IdleCard
    <3>2. CASE card # NoCard BY <2>5, <3>2 DEF IdleCard
    <3>3. QED BY <3>1, <3>2
  <2>6. CASE Scanning \/ GetCardId \/ Sent
    BY <2>6 DEF Scanning, GetCardId, Sent, mainVars
  <2>7. CASE ScanningFirst BY <2>7 DEF ScanningFirst, TypeOK, MainTypeOK
  <2>8. CASE Processing \/ ProcessingFirst \/ Beep \/ InfoWait
    BY <2>8 DEF Processing, ProcessingFirst, Beep, InfoWait, mainVars
  <2>9. CASE NoConnection \/ NoConnectionFirst
    BY <2>9 DEF NoConnection, NoConnectionFirst, Text
  <2>10. QED
    BY <1>7, <2>1, <2>2, <2>3, <2>4, <2>5, <2>6, <2>7, <2>8, <2>9 DEF MainElsewhere
<1>8. QED BY <1>2, <1>3, <1>4, <1>5, <1>6, <1>7, ElsewhereSplit DEF Next

LEMMA DisplaysAtPlaces == Spec => []DisplayAtPlace
<1>1. Init => DisplayAtPlace BY DEF Init, ResetMemory, DisplayAtPlace, Text
<1>2. TypeOK /\ StateAtPlace /\ DisplayAtPlace /\ [Next]_vars => DisplayAtPlace'
  BY DisplayAtPlaceStep
<1>3. QED BY <1>1, <1>2, Typing, StatesAtPlaces, PTL DEF Spec

(* Every step of the terminal is a step of the dialog or leaves the display. *)
LEMMA DialogStep ==
  ASSUME TypeOK, StateAtPlace, DisplayAtPlace, [Next]_vars
  PROVE  [Display!Next]_Display!dialog
<1> USE DEF Display!Next, Display!dialog, Display!Show, Goto
<1> DEFINE Quiet == UNCHANGED lcd
<1>1. ASSUME Quiet PROVE [Display!Next]_Display!dialog BY <1>1
<1>2. CASE Setup BY <1>2 DEF Setup, Text, Display!Boot
<1>3. CASE Starting BY <1>3 DEF Starting, Text, Display!Start
<1>4. CASE IdleFirst
  <2>1. lcd'.top = "scan_here" /\ lcd'.bottom = "clear" BY <1>4 DEF IdleFirst, Text
  <2>2. Invitable /\ (lcd.bottom = "balance" => lcd.top = "verdict")
    BY <1>4 DEF IdleFirst, DisplayAtPlace
  <2>3. QED BY <2>1, <2>2 DEF Invitable, Display!Invite
<1>5. CASE ScanningFirst
  <2>1. lcd.top = "scan_here" /\ lcd.bottom # "balance"
    BY <1>5 DEF ScanningFirst, DisplayAtPlace
  <2>2. lcd'.top = "working" /\ lcd'.bottom = lcd.bottom
    BY <1>5 DEF ScanningFirst, TypeOK, MainTypeOK
  <2>3. QED BY <2>1, <2>2 DEF Display!Work
<1>6. CASE Info \/ PriceHi
  <2>1. lcd.top = "working" /\ lcd.bottom # "balance"
    BY <1>6 DEF Info, PriceHi, DisplayAtPlace
  <2>2. lcd' = lcd \/ (lcd'.top = "verdict" /\ lcd'.bottom # "balance")
    BY <1>6, <2>1 DEF Info, PriceHi, Text, TypeOK, MainTypeOK
  <2>3. QED BY <1>1, <2>1, <2>2 DEF Display!Verdict
<1>7. CASE BalanceHi
  <2>1. lcd.top = "verdict" BY <1>7 DEF BalanceHi, DisplayAtPlace
  <2>2. lcd'.top = lcd.top /\ lcd'.bottom = "balance"
    BY <1>7 DEF BalanceHi, TypeOK, MainTypeOK
  <2>3. QED BY <2>1, <2>2 DEF Display!Balance
<1>8. CASE NoConnectionFirst BY <1>8 DEF NoConnectionFirst, Text, Display!Close
<1>9. CASE Send \/ Count \/ WatchdogReset \/ PriceLo \/ BalanceLo \/ InfoDone
  BY <1>1, <1>9 DEF Send, Count, WatchdogReset, PriceLo, BalanceLo, InfoDone, mainVars
<1>10. ASSUME MainElsewhere, ~Setup, ~Starting, ~IdleFirst, ~ScanningFirst, ~NoConnectionFirst
       PROVE  [Display!Next]_Display!dialog
  <2>1. UNCHANGED lcd
    BY <1>10 DEF MainElsewhere, Dispatch, Started, Idle, IdleCard, Scanning, GetCardId, Sent,
         Processing, ProcessingFirst, Beep, InfoWait, NoConnection, ReaderAck, ReaderNak,
         ReaderBytes, mainVars
  <2>2. QED BY <1>1, <2>1
<1>11. CASE Interrupt \/ Environment \/ UNCHANGED vars
  BY <1>1, <1>11 DEF Interrupt, Timer1, KeepAlive, WriteData, WriteDataStoring,
       SetupResponse, SetupEcho, SetupOther,
       Environment, HostPoll, HostUp, HostDown, CardRemoved, CardPlaced, vars, mainVars
<1>12. QED
  BY <1>2, <1>3, <1>4, <1>5, <1>6, <1>7, <1>8, <1>9, <1>10, <1>11, ElsewhereSplit DEF Next

(* The terminal implements the dialog: the texts on the display follow each
   other in the promised order, and a balance is shown only with its verdict. *)
THEOREM FollowsDialogHolds == Spec => FollowsDialog
<1>1. Init => Display!Init BY DEF Init, Display!Init, Text
<1>2. TypeOK /\ StateAtPlace /\ DisplayAtPlace /\ [Next]_vars => [Display!Next]_Display!dialog
  BY DialogStep
<1>3. QED
  BY <1>1, <1>2, Typing, StatesAtPlaces, DisplaysAtPlaces, PTL
  DEF Spec, FollowsDialog, Display!Spec
=============================================================================
