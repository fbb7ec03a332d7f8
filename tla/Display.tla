------------------------------ MODULE Display ------------------------------
(***************************************************************************)
(* The display: what main prints (setStatus, main.c, and the texts of      *)
(* lang.h), the driver that turns it into half bytes for the controller of *)
(* the display (lcd.c), and that controller, which is not reset when the   *)
(* terminal is: it may have received one half of a byte.  The driver never *)
(* reads it back.                                                          *)
(***************************************************************************)
EXTENDS Integers, Sequences

CONSTANTS
  PriceDigits,   \* digits of the prices; with three of them buf overflows
  BalanceDigits, \* characters of the balances; %d shows one above 32767 with a sign
  MaxResets      \* bound: resets of the terminal

ASSUME DigitsAssumption == PriceDigits \subseteq 1..2 /\ BalanceDigits \subseteq 1..6
ASSUME BoundAssumption  == MaxResets \in Nat

VARIABLES
  screen,      \* what main prints, or has printed
  line, at,    \* how far: the line, and the step of setStatus
  out,         \* driver: the half bytes it still has to write
  LCD_x, LCD_y,\* driver: its count of characters in the line, and the line
  bits, half,  \* controller: its interface, and the first half of a byte, if any
  address,     \* controller: where it writes next
  step,        \* controller: 1 if the address increases, -1 if it decreases
  cells,       \* controller: the visible characters
  resets       \* history: resets so far

main       == <<screen, line, at>>
driver     == <<out, LCD_x, LCD_y>>
controller == <<bits, half, address, step, cells>>
vars       == <<main, driver, controller, resets>>

LCD_maxx == 16

-----------------------------------------------------------------------------
(* What main prints: a text is known by its name and length. *)

Text(name, len) == [name |-> name, len |-> len]
Empty == Text("", 0)

(* lang.h; "Check ind" is one character too long. *)
L_CHECK_IN     == Text("check_in", 17)
L_CHECK_OUT(d) == Text("check_out", 13 + d)
L_BALANCE(d)   == Text("balance", 9 + d)
L_FULL(name)   == Text(name, 16)

Screen(state, line0, line1, lines) ==
  [state |-> state, text |-> <<line0, line1>>, lines |-> lines]

StartingScreen == Screen("starting", L_FULL("STARTING"), Empty, 2)

Balances == {L_BALANCE(d) : d \in BalanceDigits}

(* Case scanning leaves line 1 as it is. *)
Screens ==
  {StartingScreen,
   Screen("idle", L_FULL("SCAN_HERE"), Empty, 2),
   Screen("scanning", L_FULL("WORKING"), Empty, 1),
   Screen("info", L_FULL("INVALID_CARD"), Empty, 2),
   Screen("info", L_FULL("CHECK_OUT_TOO_LATE"), L_FULL("LATE_CHECK_OUT_FEE"), 2),
   Screen("info", L_FULL("OK"), Empty, 2),
   Screen("info", L_FULL("SYSTEM_ERROR"), Empty, 2),
   Screen("no_connection", L_FULL("OUT_OF_ORDER"), Empty, 2)}
  \cup {Screen("info", L_CHECK_IN, b, 2) : b \in Balances}
  \cup {Screen("info", L_CHECK_OUT(d), b, 2) : d \in PriceDigits, b \in Balances}
  \cup {Screen("info", L_FULL("INSUFFICIENT_FUNDS"), b, 2) : b \in Balances}

(* The state whose screen is printed next; TIMER1 and a keep-alive message may
   step in anywhere, but only an idle terminal starts to scan. *)
Follows(state) ==
  (CASE state = "starting" -> {"idle"}
     [] state = "idle"     -> {"scanning"}
     [] state = "scanning" -> {"info"}
     [] state = "info"     -> {"idle"}
     [] OTHER -> {}) \cup {"no_connection", "starting"}

-----------------------------------------------------------------------------
(* The driver *)

Blank == <<"", 0>>
NoCode == 256

(* A half byte: the line RS, its value unless it is one of a character's, and
   whether it is the second half of its byte. *)
Nibble(rs, code, char, low) == [rs |-> rs, code |-> code, char |-> char, low |-> low]

(* LCD_write_data, with RS = 0 and RS = 1 *)
Command(code) ==
  <<Nibble(0, code \div 16, Blank, FALSE), Nibble(0, code % 16, Blank, TRUE)>>
Character(char) == <<Nibble(1, NoCode, char, FALSE), Nibble(1, NoCode, char, TRUE)>>

(* The address of a line; what lies behind the four of them is anything. *)
LCD_base_y(y) == IF y > 3 THEN 255 ELSE <<128, 192, LCD_maxx + 128, LCD_maxx + 192>>[y + 1]

ClearCommands == Command(2) \o Command(12) \o Command(1)

(* Slip: the interface is told twice, not three times, that it has 8 bits. *)
InitTwice ==
  LET eight == Nibble(0, 3, Blank, TRUE) IN
  <<eight, eight, Nibble(0, 2, Blank, TRUE)>>
    \o Command(40) \o Command(4) \o Command(133) \o Command(6)
    \o ClearCommands \o ClearCommands \o Command(LCD_base_y(0))

(* LCD_Init, and what setup does after it: LCD_Clear, LCD_GotoXY(0, 0) *)
LCD_Init ==
  LET eight == Nibble(0, 3, Blank, TRUE) IN
  <<eight, eight, eight, Nibble(0, 2, Blank, TRUE)>>
    \o Command(40) \o Command(4) \o Command(133) \o Command(6)
    \o ClearCommands \o ClearCommands \o Command(LCD_base_y(0))

(* Slip: the line is not noted. *)
GotoOnly(x, y) ==
  out' = Command((LCD_base_y(y) + x) % 256) /\ LCD_x' = x /\ UNCHANGED LCD_y

LCD_GotoXY(x, y) ==
  out' = Command((LCD_base_y(y) + x) % 256) /\ LCD_x' = x /\ LCD_y' = y

(* At the end of a line it goes on in the next one; the character that did not
   fit is not counted there. *)
LCD_PutChar(char) ==
  IF LCD_x + 1 > LCD_maxx
    THEN /\ LCD_x' = 0 /\ LCD_y' = LCD_y + 1
         /\ out' = Command(LCD_base_y(LCD_y + 1)) \o Character(char)
    ELSE LCD_x' = LCD_x + 1 /\ UNCHANGED LCD_y /\ out' = Character(char)

(* Slip: as many blanks as printOnLine of test.c has. *)
FewBlanks == 14

(* setStatus: the length of its blank text *)
Blanks == 16

(* setStatus: to the line, the blanks, to the line again, the text *)
SetStatus ==
  LET text == screen.text[line + 1]
      done == at = Blanks + 1 + text.len
  IN /\ out = <<>> /\ line < screen.lines
     /\ IF at \in {0, Blanks + 1} THEN LCD_GotoXY(0, line)
        ELSE LCD_PutChar(IF at <= Blanks THEN Blank ELSE <<text.name, at - Blanks - 1>>)
     /\ line' = (IF done THEN line + 1 ELSE line) /\ at' = (IF done THEN 0 ELSE at + 1)
     /\ UNCHANGED <<screen, controller, resets>>

NextScreen ==
  /\ out = <<>> /\ line = screen.lines
  /\ screen' \in {s \in Screens : s.state \in Follows(screen.state)}
  /\ line' = 0 /\ at' = 0
  /\ UNCHANGED <<driver, controller, resets>>

-----------------------------------------------------------------------------
(* The controller of the display *)

Visible == 0..15 \cup 64..79
CharacterGenerator == 128

(* The address after a, or before it *)
Moved(a, by) ==
  CASE a = CharacterGenerator -> a
    [] a = 39 /\ by = 1  -> 64
    [] a = 103 /\ by = 1 -> 0
    [] a = 0 /\ by = -1  -> 103
    [] a = 64 /\ by = -1 -> 39
    [] OTHER -> a + by

WriteChar(char) ==
  /\ cells' = IF address \in Visible THEN [cells EXCEPT ![address] = char] ELSE cells
  /\ address' = Moved(address, step) /\ UNCHANGED <<bits, step>>

(* An instruction is known by its highest bit. *)
Execute(code) ==
  \/ /\ code >= 128 /\ address' = code - 128 /\ UNCHANGED <<bits, step, cells>>
  \/ /\ code \in 64..127 /\ address' = CharacterGenerator /\ UNCHANGED <<bits, step, cells>>
  \/ /\ code \in 32..63 /\ bits' = (IF code >= 48 THEN 8 ELSE 4)
     /\ UNCHANGED <<address, step, cells>>
  \/ /\ code \in {0} \cup 8..31 /\ UNCHANGED <<bits, address, step, cells>>
  \/ /\ code \in 4..7 /\ step' = (IF code >= 6 THEN 1 ELSE -1)
     /\ UNCHANGED <<bits, address, cells>>
  \/ /\ code \in 2..3 /\ address' = 0 /\ UNCHANGED <<bits, step, cells>>
  \/ /\ code = 1 /\ cells' = [a \in Visible |-> Blank] /\ address' = 0 /\ step' = 1
     /\ UNCHANGED bits

(* What a half byte may be; the first half of a printed character is 2 to 7. *)
Values(n) == IF n.code # NoCode THEN {n.code} ELSE IF n.low THEN 0..15 ELSE 2..7

(* A half byte is a whole one for an interface of 8 bits, whose other lines are
   not connected; otherwise two make a byte. *)
Receive(n) ==
  IF bits = 4 /\ half = <<>> THEN half' = <<n>> /\ UNCHANGED <<bits, address, step, cells>>
  ELSE
    /\ half' = <<>>
    /\ IF bits = 8 THEN \E high \in Values(n), low \in 0..15 : Execute(16 * high + low)
       ELSE IF n.rs = 0
         THEN \E high \in Values(half[1]), low \in Values(n) : Execute(16 * high + low)
       ELSE WriteChar(IF n.low THEN n.char ELSE <<"garbage", 0>>)

(* LCD_write_nibble *)
WriteNibble ==
  /\ out # <<>> /\ out' = Tail(out) /\ Receive(Head(out))
  /\ UNCHANGED <<main, LCD_x, LCD_y, resets>>

-----------------------------------------------------------------------------
Init ==
  /\ screen = StartingScreen /\ line = 0 /\ at = 0
  /\ out = LCD_Init /\ LCD_x = 0 /\ LCD_y = 0
  /\ bits = 8 /\ half = <<>> /\ address = 0 /\ step = 1
  /\ cells = [a \in Visible |-> Blank] /\ resets = 0

(* The watchdog, or the reset pin: the controller of the display goes on. *)
Reset ==
  /\ resets < MaxResets /\ resets' = resets + 1
  /\ screen' = StartingScreen /\ line' = 0 /\ at' = 0
  /\ out' = LCD_Init /\ LCD_x' = 0 /\ LCD_y' = 0
  /\ UNCHANGED controller

Next == SetStatus \/ NextScreen \/ WriteNibble \/ Reset

Spec == Init /\ [][Next]_vars

-----------------------------------------------------------------------------
Names == {"", "garbage"} \cup {s.text[1].name : s \in Screens} \cup {s.text[2].name : s \in Screens}
Chars == Names \X (0..17)
Nibbles == [rs : {0, 1}, code : 0..15 \cup {NoCode}, char : Chars, low : BOOLEAN]

(* Every variable has its type; LCD_y, which LCD_PutChar increases without a
   test, stays an index of LCD_base_y. *)
TypeOK ==
  /\ screen \in Screens /\ line \in 0..screen.lines /\ at \in 0..(Blanks + 1 + 17)
  /\ out \in Seq(Nibbles) /\ LCD_x \in 0..LCD_maxx /\ LCD_y \in 0..3
  /\ bits \in {4, 8} /\ half \in Seq(Nibbles) /\ Len(half) <= 1 /\ step \in {1, -1}
  /\ address \in 0..CharacterGenerator /\ cells \in [Visible -> Chars]
  /\ resets \in 0..MaxResets

(* Whenever the driver has written its bytes, the controller has taken them for
   those bytes: it does not wait for a second half, although a reset may have
   cut any byte in two, even one of the initialisation itself. *)
InStep == out = <<>> => bits = 4 /\ half = <<>> /\ step = 1

(* When main has printed the screen of a state, both lines show its texts and
   nothing else: not what was there before, whether main cleared it or a reset
   interrupted it, nor the end of a text that is longer than the line. *)
ShowsScreen ==
  out = <<>> /\ line = screen.lines =>
    \A y \in {0, 1}, x \in 0..(LCD_maxx - 1) :
      LET text == screen.text[y + 1] IN
      cells[64 * y + x] = IF x < text.len THEN <<text.name, x + 1>> ELSE Blank
=============================================================================
