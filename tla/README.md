# Travel card terminal: specifications and proofs

The repository holds the firmware of a terminal (ATmega32) at which customers
check in and out with a contactless card. The terminal reads the card's
identifier, reports it to a server's host over USB, waits for the answer and
shows it. These modules model the firmware, TLC checks them on small
instances, and TLAPS proves the most important results for every instance.

## The system

| Component | State | Operations | In contact with |
|---|---|---|---|
| main loop (`main.c`, `main()`) | `state`, `first_step`, `current`, counters, display, lights | one pass per state: `starting`, `idle`, `scanning`, `processing`, `info`, `no_connection` | everything |
| TIMER1 handler (`main.c:133`) | `TCNT1` | after 1.4 seconds (65400 * 256 cycles at 12 MHz) without a keep-alive request: `state = no_connection` | shares `state`, `first_step` with the main loop |
| vendor requests (`usbFunctionSetup`, `usbFunctionWrite`, `isAlive`) | `current.command`, `current.response` | `CMD_ECHO`, `CMD_RESPONSE`, `CMD_KEEP_ALIVE` | called by the USB driver from the TIMER0 interrupt; write what the main loop reads |
| card reader (`rfid.c`, `spi.c`) | the identifier's buffer, two input pins | is a card present; read its identifier | blocking calls of the main loop; watchdog |
| interrupt endpoint (`usbSetInterrupt`, `asmcommon.inc` `handleIn1`) | `usbTxLen1`, buffer, data token | set a message, send it on an IN token | main loop against receiver interrupt; the host's data toggle |
| control endpoint (`usbPoll`, `usbProcessRx`, `usbBuildTxBlock`, receiver) | `usbRxLen`, two receive buffers, `usbTxLen`, `usbMsgLen`, address | receive SETUP and data packets, answer, standard requests | TIMER0 interrupt against receiver interrupt; host |
| processing timeout (`main.c:456-475`) | `i`, `j` | count a pass | part of the main loop |
| display driver (`lcd.c`) | cursor, controller | write text, go to a position, wrap a line | main loop, hardware test |
| hardware test (`test.c`) | test step, `echo_ready` | five tests in a ring | entered instead of the main loop when the button is pressed at power-up |
| SPI (`spi.c`) | none; the reader's ready line | send a byte after emptying the reader, receive a byte | `rfid.c`; the reader, which no reset of the terminal reaches |
| USB start-up (`usb.c`) | the pull-up of the bus | leave the bus, initialise the driver, come back | `setup()`; a host that enumerates |
| lights, buzzer | one pin each | on, off | `setup()`, main loop, hardware test |

What is hard in it: `state`, `first_step` and `current.response` are written by
interrupts and by the main loop with no protection at all; an answer may come
late, twice over or never; 16-bit numbers are read byte by byte; the watchdog may
reset the terminal in the middle of a scan; the interrupt endpoint's buffer is
refilled while the host may fetch it and assumes that packets are never damaged. Three
partners keep their state when the terminal is reset: the host its address for the device,
the display half a byte, the reader the rest of an identifier.
`PROJECT.json` lists these hazards at their lines.

What makes each component correct:

* main loop: a customer is shown the answer to the own scan and the numbers that
  came with it; a card is reported once; nobody waits for ever;
* connection: its loss is announced, its return leads back to service;
* reader: what is reported is one card's identifier, that of the card asked for; a read ends;
* interrupt endpoint: messages arrive whole, in order, not repeated; losses have a cause;
* control endpoint: a reply belongs to the request; what completes was handled; nothing blocks the next
  request; what a lost token does to one transfer harms no other;
* USB start-up: host and device agree about the address whenever the host uses it;
* display: it shows what was printed and nothing else, whatever it did before a reset;
* hardware test: every echo is answered with its own bytes, every press leads on by one step;
* timeout: it takes the same time whatever the counters do.

## The modules

| Module | What it is |
|---|---|
| `Terminal.tla` | main loop, `rfid.c`, TIMER1, vendor requests, and the environment: customers, host, server |
| `Dialog.tla` | abstract: the order of the texts on the display, as the customer sees it. `Terminal` implements it (`FollowsDialog`) |
| `MCTerminal.tla` | instances of `Terminal` for TLC |
| `ProcessingTimeout.tla` | the two counters of `case processing`, with their widths |
| `InterruptPipe.tla` | `usbSetInterrupt` against the receiver interrupt and the host |
| `UsbControl.tla` | the control endpoint: `usbPoll` against the receiver interrupt and the host; start-up, bus reset and the address |
| `CardReader.tla` | `rfid.c` over `spi.c`, against a reader with a will of its own |
| `Display.tla` | `lcd.c` and what the main loop prints, against the display's controller |
| `HardwareTest.tla` | `test.c` with the echo command; an instance of `InterruptPipe` is its endpoint |
| `Mailbox.tla` | abstract: a slot for one message. `InterruptPipe` implements it (`IsMailbox`) |
| `Terminal_proofs.tla`, `TerminalCustomer_proofs.tla`, `ProcessingTimeout_proofs.tla`, `InterruptPipe_proofs.tla`, `UsbControl_proofs.tla`, `CardReader_proofs.tla`, `Display_proofs.tla`, `HardwareTest_proofs.tla` | theorems about the module before the underscore |

Operators whose comment begins with "Slip:" are wrong variants of the definition
after them. No specification uses them; they stand for plausible mistakes, and
replacing the definition by one of them makes TLC find the property violated that
`PROJECT.json` names with it ("mutants").

### Terminal

`pc` is a place in `main()`, at first one for each case of the switch. A case is
cut into several steps where an interrupt could make a difference:

* between the test of `first_step` and its reset (`Idle` / `IdleFirst`,
  `Scanning` / `ScanningFirst`, `Processing` / `ProcessingFirst`,
  `NoConnection` / `NoConnectionFirst`);
* between handing the report to USB and the assignments to `first_step` and
  `state` (`Send` / `Sent`), around the start-up pause (`Starting` / `Started`)
  and the beeps (`Processing` / `Beep`);
* between reading the code, and each byte of the price and the balance (`Info`,
  `PriceLo`, `PriceHi`, `BalanceLo`, `BalanceHi`);
* at the reader: asking, its status, its bytes, and the watchdog's reset when it
  does not answer (`GetCardId`, `ReaderAck`, `ReaderNak`, `ReaderBytes`, `WatchdogReset`).

Elsewhere consecutive statements are one step, because no interrupt handler reads
or writes what lies between them in a way that another order of whole steps does
not also show. Two assignments to `state` and `first_step` next to each other,
for instance, write values TIMER1's handler also writes or overwrites; whichever
way the handler falls between them, the result is that of before or after, but
for `first_step` already 1 in both. Interrupt handlers are one step each: TIMER1's is
two assignments, and a handler that interrupts `isAlive` has the effect of running
before or after it. `-fshort-enums` makes `state` one byte.

Data is abstracted to what the properties tell apart. A card identifier is two
groups of bytes, the two that `RFID_GetCardId` clears and the five it does not. The
balance and the price are the number of the scan they came with, and each byte
printed remembers which one it was. Texts are values: all verdicts are `"verdict"` on the
first line. TIMER1's register becomes `hostAlive`: the handler runs only while keep-alive
requests do not come in time, which is what resetting it to zero on each of them means.
All other requests are unrestricted (`SetupOther`: any other command, and `CMD_ECHO` or `CMD_RESPONSE`
in a read, store `current.command` and nothing else). `SetupResponse` answers a scan at most once and
never one that was not reported: the server is not in the repository. But the answer's data packet may
arrive any number of times: a host that misses the acknowledgement sends it again, the driver does not check
the data token (`USB_CFG_CHECK_DATA_TOGGLING` is 0, `usbconfig.h:209`) and calls `usbFunctionWrite` again
(`WriteData` leaves the packet in `xfer`, marked `again`), at any time before the host's next request, be it
after the answer was shown and cleared. `settled` are the scans whose answer has come and been cleared and has
not been written again since.

Data whose token the device missed may be taken for that of another request (see `UsbControl`). In `Terminal`
that is no case of its own: the bytes of a SETUP packet in `usbFunctionWrite` are a first byte that is no
verdict's, as in an echo; data taken for a request is another command; data dropped is an answer that never comes. Left out is one case that
takes two faults in one transfer: an echo's eight bytes, taken for the request `CMD_RESPONSE` because their token was
missed, come again because their acknowledgement was too, and are stored as the answer to no scan.

Three kinds of variables are not in the code: what the environment is (`card`, `hostAlive`,
`requests`), two counters that bound it (`placed`, `outages`), and history
(`scans`, `shown`, `settled`, `reports`, `cutCard`, `cutTxn`; `again` of a packet), which no action's guard reads.

Assumed: the compiler re-reads `state` and `current.response`, which are not
volatile, in each pass of the loop (the calls in it make gcc do so); the button
is not pressed at power-up.

### InterruptPipe

`usbGenericSetInterrupt` is cut at its test of the buffer, the flip of the token
or the NAK, two halves of the copy, and the new length. The receiver interrupt
(`HandleIn1`) makes the buffer empty as it sends, and the host accepts the packet,
drops it for a repetition, or receives it damaged. `SetConfiguration` and
`SetInterface` are the requests that reset the host's toggle and, the second only,
the driver's. `Waits` chooses the caller: `test.c:173` waits until the endpoint is
ready, which is how `HardwareTest` instantiates it, `main.c:417` does not. `Terminal` sees this module as `ep1`: `Send` puts a
report there, `HostPoll` takes it; a report that `InterruptPipe` loses is, for
`Terminal`, one the server never answers.

### UsbControl

`usbPoll` is cut where the receiver interrupt could make a difference: the test of the
receive buffer (`Poll`), the withdrawal of the old reply (`Abort`), the new one (`Setup`,
`Write`), the release of the buffer (`Free`), the test of the transmitter (`Transmit`), the
block (`Build`) and its release to the host (`Arm`). `Store` and `SendPacket` are the
receiver's conditions for taking and giving a packet. A packet has the number of the transfer
it belongs to instead of its bytes, a block the offset at which it was read. The host's actions
are whole transactions; a NAK changes nothing and the host tries again. It may start a new
transfer at any time (`NewTransfer`). `Requests` has the kinds of transfers the firmware
knows: without data (keep-alive, `SET_ADDRESS`), writes of one packet of any length up to eight bytes
(an answer has five, an echo up to eight; `usbFunctionWrite` always returns 1), and reads. Among the reads is
`"message"`, a read of `CMD_ECHO` or `CMD_RESPONSE`: `usbFunctionSetup` returns `USB_NO_MSG` for it, and the driver
then sends as many bytes as the host asks for (`usbdrv.c:456-462`), whatever they are. Reads ask for 1 to 254 bytes:
above that the driver looks at one byte of `wLength` where it conditions `USB_NO_MSG`, and that case is left out.

The device starts by leaving the bus (`Disconnect`) and comes back when the driver is
initialised (`Connect`); the host then resets the bus and enumerates. `Restart` is a reset of
the processor at any point. `SET_ADDRESS` sets `usbNewDeviceAddr`, which becomes
`usbDeviceAddr` when the next data packet has been sent (end of
`usbSendAndReti`, `usbdrvasm12.inc`). A bus reset clears both, but only if `usbPoll` runs while it lasts: `bus`
is `"reset"` until the host ends it (`EndReset`), and usbPoll clears the addresses (`ResetSeen`)
or finds the bus idle again (`IsNotReset`). That it may be missed is the code's: TIMER0
calls usbPoll every 21.8 ms (256 * 1024 cycles at 12 MHz), a reset may last 10 ms. A packet of the
interrupt endpoint would assign a waiting address too; the host polls that endpoint only
after it has assigned the address and configured the device.

Faults, each bounded: the host misses an acknowledgement and repeats the packet
(`Acknowledged`), the device misses a token (`TokenLost`), a packet to the
host is damaged (`InDamaged`), resets and restarts. `handleData` takes the data after a missed token for that of
the last token heard, if there is one, and acknowledges it. The data of a write after its SETUP is then stored as a SETUP packet
(`DataTokenLost`): five bytes are dropped, eight bytes are processed as whatever request they read as (`Contents`),
`SET_ADDRESS` included. A SETUP packet after an OUT is stored as data (`SetupTokenLost`) and reaches
`usbFunctionWrite` if the last transfer was a write. The status packet of a read is acknowledged in any case
(`StatusTokenLost`). To the host the transfer seems to go on; where it ends, in the right way, with data in place of
the empty packet (`stage = "failed"`), or not at all until the host gives it up, is up to what the packet was taken for. `mistaken` has the transfers
of which a packet was taken for another token's. Left out: STALL (no function of the
firmware asks for it), writes longer than one packet, data damaged on its way to the device (no CRC is checked),
and the data of a token for another device (whose token the receiver remembers as none). `setups`, `writes`, `damaged`, `mistaken` and
`estranged` are history. In `Terminal`, `SetupRequest` and `WriteData` stand for `Setup` and
`Write`, and `DataFollowsItsSetup` is what entitles it to take a write's data for that of the
last request, but for the bytes of a SETUP packet whose token was missed.

### CardReader

A byte of the reader is the n-th of the answer to the k-th command. The reader presents one byte after
the other (`Present`), each in its own time, and `RFID_DATA_READY` says that one is there.
`SPI_Transmit` first takes out whatever is there (`EmptyBuffer`, `Emptied`), then sends the
command, which the reader answers with nothing, a refusal or an identifier. Each call takes 5 ms in the
code, in which the reader may present the next byte; it need not. A reset of the
terminal (`Reset`, or `Watchdog` while the status is awaited) leaves the reader as it is; a
card may be taken away in the middle of its identifier (`BreakOff`). The bytes of an
identifier can have any value, so that one left over may pass for the acknowledgement
(`Acknowledges`). `overtaken` is history: `EmptyBuffer` ended while the reader still had
bytes of an older answer to present. In `Terminal` a read is `GetCardId`,
`ReaderAck`, `ReaderNak`, `ReaderBytes`, `WatchdogReset`; `OwnIdentifier` is what entitles it to take a
whole identifier for that of the card asked for. When a read has returned, `case info` may clear
the buffer or, by way of `no_connection`, not (`Return`).

### Display

`SetStatus` is a step of `setStatus`: a move of the cursor or a character. Each makes a
sequence of half bytes (`out`), which `WriteNibble` hands one by one to the controller (an
HD44780 from its data sheet: two widths of the interface, half a byte kept, the address and
its direction, forty cells per line of which sixteen are visible). `NextScreen` takes any screen that
may follow. A text is its name and length: characters matter by their position.
`Reset` starts the terminal over and leaves the controller as it is, possibly after
the first half of a byte; the first instruction of the initialisation may then complete
that byte and do anything (`Values`, `Execute`). An address outside the display stands
for the character generator. Delays are left out: every half byte is taken. Note that `LCD_delay`
(`lcd.c:33`) counts for 16 microseconds at this board's 12 MHz, and its comment says that 40 are
sufficient and 100 required: whether the display keeps up is not shown here. The
price in `L_CHECK_OUT` has one or two digits, for with three `sprintf` overruns `buf`. The balance in
`L_BALANCE` has up to six characters, for `%d` prints one above 32767 as a negative number: a wrong one, but a text that fits.

### HardwareTest

`at` is the place in `test()`; the tests of the display, the buzzer and the reader are one step
each and a press (`DisplayTest`, `BuzzerTest`, `RfidTest`, `Press`, `Release`). The test of the USB is cut at its two looks at the button,
at `echo_ready = 0`, and at each step of `usbSetInterrupt`, which is that of
`InterruptPipe`; `echo_buffer` is read when a half of it is copied. `Echo` is
`usbFunctionWrite` in TIMER0's interrupt. `overran` and `brief` are history: the host sent
a command before it had the answer to the last, a press was seen by the first look and gone at
the second. `EchoAgain` is a command whose acknowledgement the host missed: it comes, and is answered, a second
time. `repeats` counts them. On this line no answer is damaged; what happens then is `InterruptPipe`'s.

### ProcessingTimeout

Both counters with their widths. `Terminal` has `ticks` instead, and
`TimeoutTicks` for the number of passes this module computes.

## The runs

| Run | Checks | Shows |
|---|---|---|
| `terminal_safety` | `TypeOK`, `NoForeignVerdict`, `FieldsFollowVerdict`, `OneScanPerPresentation`, `WholeIdentifier` | two cards, two presentations, one outage, both codes that carry a price, answers repeated at will, an unknown command |
| `terminal_progress` | `FollowsDialog`, `CustomerAnswered`, `LossIsAnnounced`, `LinkRecovers` | one card, one outage, echo requests, answers repeated at will, a read of `CMD_RESPONSE`, a timeout of two passes; under `FairSpec` |
| `processing_timeout` | `TimesOutExactly` | the code's own numbers: 639824 passes |
| `pipe_faults` | `TypeOK`, `LossIsAccountedFor`, `IsMailbox` | a caller that does not wait, damaged packets, both requests |
| `control_transfers` | `TypeOK`, `RepliesAreFresh`, `ReadsInOrder`, `CompletedIsHandled`, `DataFollowsItsSetup`, `AddressesAgree`, `TransferCompletes` | two transfers of all kinds, writes of five and of eight bytes, abandoned anywhere, all faults, two tokens lost, a bus reset and a restart; under `FairSpec` |
| `card_reader` | `TypeOK`, `OwnIdentifier`, `LeavesNothing`, `ReadEnds` | four reads, two resets, an answer broken off; under `FairSpec` |
| `display` | `TypeOK`, `InStep`, `ShowsScreen` | every screen in every order, two resets |
| `hardware_test` | `TypeOK`, `EchoIsOwn`, `PressesPayForSteps`, `EchoAnswered`, `EveryMessageArrives` | eight presses, three echoes, one of them repeated, the endpoint of a caller that waits; under `FairSpec` |
| `found_failed_read` | `FailedReadIsNotReported` violated | a failed read is reported as a card |
| `found_stale_verdict` | `VerdictIsCurrent` violated | a late answer is shown to the next customer |
| `found_first_step` | `FirstStepIsFlagged` violated | TIMER1's flag is lost |
| `found_new_message` | `NewMessageIsSent` violated | the new message is lost, not the buffered one |

`OwnIdentifier` and `LeavesNothing` hold unless `overtaken`, and `ReadEnds` unless
`overtaken` or the reader broke off: `EmptyBuffer` cannot know that a byte is yet to come. `EchoIsOwn`
holds as long as the host waits for its answers, no command comes twice and no press is `brief`. `RepliesAreFresh`,
`ReadsInOrder` and `CompletedIsHandled` except the transfers that are `mistaken` themselves, not those after them;
`DataFollowsItsSetup` excepts their bytes. `AddressesAgree` names its
causes in `estranged`: `SET_ADDRESS` abandoned, mistaken or its last packet damaged, the data of a write
processed as a `SET_ADDRESS`, a missed bus reset.

`NoForeignVerdict` and `FieldsFollowVerdict` hold on a condition, `NothingOutstanding`:
the answer to every scan before the last has come and been cleared, and no repeated packet has
written it again since. `found_stale_verdict` shows
that they fail without it: an answer that comes late, or a second time after the first was cleared, is shown to
the next customer. This is how far the code's protocol, which has no scan
number in its answers and no check for repeated ones, can be right.

**Bounds.** `MaxPresentations`, `MaxOutages` bound the environment in the guards
of `CardPlaced` and `HostDown`. A stale answer needs two scans; a customer's second
scan needs one presentation and one outage; the instances allow both at once.
`TimeoutTicks` is 1 or 2: with 1 every place of the counting is reached in its first
pass, with 2 a pass is counted that is not the last. In `InterruptPipe`,
`MaxMessages`, `MaxCorrupted`, `MaxConfigured`, `MaxSelected`: the two toggles have
four states together, which two faults and one of each request reach in every
order. In `UsbControl` a stale packet, and an address left over from the transfer before,
need two transfers, a survivor of a reset one reset more than the enumeration's; the
lengths 8 and 18, of replies and of what the host asks for, give blocks that fill a packet and that do not, a reply of
exactly one packet, after which the host does or does not fetch an empty one, of several, and one cut to what is asked for. Two lost tokens let one transfer be mistaken after
another, or a SETUP packet's repetition too. In `CardReader` a late answer needs two reads and a reset, a byte of it mistaken for an
acknowledgement a third. In `Display` two resets cut the initialisation that follows the
first, and prices and balances have their shortest and longest length. In `HardwareTest`
the ring has six presses; the test of the button asks for one instead of ten, that of the USB
for three echoes instead of a hundred. The theorems have no bounds. Symmetry of the two cards is used in the safety
run only. `CHECK_DEADLOCK FALSE` is in the runs of `ProcessingTimeout`, which stops at the timeout,
of `InterruptPipe`, which stops after its last message, of `CardReader`,
which may wait for the reader for ever, and of `HardwareTest`, which waits for the button.

**Fairness** (`FairSpec`). The processor runs: weak fairness of the main loop as a whole.
TIMER1 keeps firing while it is not reset, and a host that is alive keeps sending. The
reader answers or the watchdog bites, and a reader that announced an identifier sends it:
the last is not the code's doing (`rfid.c:78` waits for ever, feeding the watchdog).
Nothing is assumed of customers, who may leave a card on the reader, nor of the server.
In `UsbControl` TIMER0 keeps calling `usbPoll` (weak fairness of its steps) and the host, which USB obliges to, repeats
what is answered with NAK (weak fairness of its transactions); faults are not fair.
In `CardReader` the processor runs, the watchdog bites and the reader presents what it has. In
`HardwareTest` the processor runs, a button is released in the end and the host polls.
In `InterruptPipe` the caller, once in `usbSetInterrupt`, finishes, and the host polls.

## What is proved

All proofs are checked by TLAPS, for every set of cards, codes and echoed bytes, every timeout and
any bounds: each invariant, and each abstract specification, that the passing runs check. They rest
on the named assumptions: the null identifier is no card's, codes are
bytes and not zero, the timeout is at least one pass (`Terminal`); limits and widths as C has
them (`ProcessingTimeout`); a read asks for one of the firmware's replies, or for `"message"`, and for 1 to 254 bytes
of it, a write has 1 to 8 bytes, addresses are 1 to 127 (`UsbControl`); prices have one or two digits and balances
at most six characters, which is what fits the texts (`Display`); the test of the button asks for one
press at least, and the number of echoes fits the counter's byte (`HardwareTest`). Bounds are natural numbers.

*Verdicts* (`Terminal_proofs`). `NoForeignVerdict` is not inductive. `Inv` adds
`OneHolder`: the answer to a scan is in one place only, in the endpoint, with the
server, in the transfer, or in the terminal (`current.response` or the display), and a
settled scan's in none; a packet that may be repeated (`InRepeat`) is of a scan whose answer has been
written, and so is not on its way any more. A repetition takes the scan out of `settled` as it puts the
answer back into the terminal. When no earlier scan is outstanding, all others are
settled, so the verdict shown, being in the terminal, is the last scan's. For the
numbers, `FieldsStored` says that a code is stored with its own price and balance, which
needs `CommandOfTransfer` (the command read by `usbFunctionWrite` is that of the transfer
under way), and `FieldsPrinted` that nothing can be stored between the bytes printed while
the scan shown is the last. `CountingBelowLimit` keeps the counter below the limit it is
compared with by `==`.

*The customer* (`TerminalCustomer_proofs`). A report leaves the main loop where only case
info, having waited for the card to be removed, or `no_connection` leads back to `idle`
(`ReportedOnce`); the identifier is clear until it is read (`ClearUntilRead`). For
`FollowsDialog`, the text on the display is determined by `pc` and `state`
(`DisplayAtPlace`, `StateAtPlace`), and every step is shown to be a step of `Dialog` or
to leave the display as it is.

*Timeout* (`ProcessingTimeout_proofs`). The number of passes is that of the counters:
`passes = wraps * IntSize + i`.

*Endpoint* (`InterruptPipe_proofs`). `LossPaid` says that a drop to come is paid for: the
two toggles are in step (`InStep`), or one more cause than drops has been counted.
`BufferWhole` says that the buffer is armed only outside of the copy loop, which makes
each step one of `Mailbox`.

*Control endpoint* (`UsbControl_proofs`). That `usbPoll` and the receiver get along needs
`Structure`: while a SETUP packet waits or is processed, the host is at a place where it
expects data token 1 and has no byte yet, so withdrawing the old reply (`Abort`) takes nothing
from it. `OwnTransfer` is then inductive: in a transfer the host has started and of which no packet is mistaken, what is received is of
that transfer (`ReceivedIsOwn`), and once its SETUP packet is processed (`Served`), so is everything
the device has to send (`Handled`). For a read, `BlocksInTurn` relates the host's bytes, the block on its
way and `usbMsgPtr`: a handshake that is lost leaves the block outgoing with its old token, one that
arrives turns both. `RepliesAreFresh`, `ReadsInOrder` and `CompletedIsHandled` (a property of
steps) follow. A mistaken transfer may leave anything behind, and that is harmless because the next SETUP packet that is heard
withdraws it, as it does with an abandoned one. `DataFollows` is inductive beside them: data comes only when the
transfer's SETUP packet has been processed, or is mistaken. `AddressesAgree` needs `AddressInUse`: outside
of `SET_ADDRESS` nothing that is waiting in the device could change its address, not even a
packet of an older `SET_ADDRESS` (`Settled`); during one, what waits is the host's own value (`Assigning`).

*Card reader* (`CardReader_proofs`). `Undisturbed` says, unless `overtaken`, what the reader
still has to give at each place of `RFID_GetCardId`: nothing when the command is sent; then, in order and
to the end, what follows on the bytes in the buffer, or a single refusal (`OwnAnswer`, `OwnBytes`).
Each way in which the rest of an answer changes keeps its order: a byte fetched, a byte presented, an answer broken off
(`FetchedInOrder`, `PresentedInOrder`, `BrokenOffInOrder`).

*Hardware test* (`HardwareTest_proofs`). `StepPaid`: each press pays for one step, which is taken
only when the button is released. `EchoHeld` says that a command not yet answered is in one place: the flag's buffer, the copy, or the
endpoint. It needs `EndpointWaits`: a caller that waits never finds the buffer armed, so the two
tokens never part and the host drops nothing.

*Display* (`Display_proofs`). What the controller shows lags behind the driver, by up to a whole
initialisation. `Controlled` relates the two by half bytes: while `LCD_init` is written (`Initialising`), how
wide the controller's interface is and which half it keeps is fixed by the number of half bytes gone, whatever a
reset left behind, from the fourth on; afterwards (`Printing`) the half bytes not yet
written are those of a character, a move, or both, and what the controller will show with
them is the part of the screen that `setStatus` has printed. `Progress` says where in the line the driver believes to
be (`LCD_x`, `LCD_y`). A text of seventeen characters wraps into the second line,
which is printed after it, blanks first, so that nothing of it is left.

Not proved, only model-checked: `CustomerAnswered`, `LossIsAnnounced`, `LinkRecovers`,
`EveryMessageArrives`, `TransferCompletes`, `ReadEnds`, `EchoAnswered`. They are liveness properties,
which are out of the prover's reach, as is `ENABLED`; they rest on the instances of the runs. No
module has a recursive operator.

## What the code does not keep

`PROJECT.json`, "findings", quotes each comment with the run that refutes it: the dead
error branch at `main.c:409`, late answers, the lost `first_step`, and the loss of the new message instead of the buffered one. The timeout is not what its
comment says either (`main.c:462`, 500.000 passes): `TimesOutExactly` gives 639824, because
the inner counter is not reset when it is counted.

## Not modelled, and the plan

Not modelled: bit-level USB (vendored, cycle-counted assembler), of which only the driver for
12 MHz is built at all; debugging output, which is switched off; descriptors but for
their lengths; delays; `RFID_GetCardStatus`, `LCD_write_byte` and the driver's halt
feature, which nothing calls; texts and their formatting (among it `main.c:492`, whose three-digit
prices do not fit `buf`, the sign of a balance above 32767, and `test.c:254`). Headers with settings and
prototypes have no behaviour of their own.

Next, in this order:

1. What `Terminal` takes for granted of its parts: a `Setup` and `Write` of `UsbControl` as
   one `SetupRequest` and `WriteData`, a read of `CardReader` as `GetCardId` to `ReaderBytes`.
   Theorems exist for each part (`DataFollowsItsSetup`, `OwnIdentifier`); the step to `Terminal` is an argument in prose.
2. Action properties of `UsbControl` beyond `CompletedIsHandled`: what one packet may change in a device
   that is being enumerated.
3. A shorter proof of `Controlled`, whose initialisation is shown byte by byte.
