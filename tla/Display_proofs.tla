--------------------------- MODULE Display_proofs ---------------------------
(***************************************************************************)
(* Proofs about Display: a reset may come anywhere, any number of times,   *)
(* and prices and balances may have any digits that fit the texts.         *)
(***************************************************************************)
EXTENDS Display, SequenceTheorems, TLAPS

(* What SetStatus has still to print of a line, and where the driver believes
   to be in it.  A text that is longer than the line ends in line 1. *)
TextOf(y) == screen.text[y + 1]
Progress ==
  /\ line < screen.lines => at <= Blanks + 1 + TextOf(line).len
  /\ line = screen.lines => at = 0
  /\ at > 0 => LCD_y = line /\ LCD_x = IF at <= Blanks + 1 THEN at - 1 ELSE at - (Blanks + 2)
  /\ LCD_y \in {0, 1}

-----------------------------------------------------------------------------
(* The half bytes the driver writes after those of LCD_Init: a character, a
   command, or a command and a character, of which a half may be written. *)
Sent(bytes) ==
  \/ out = bytes /\ half = <<>>
  \/ out = Tail(bytes) /\ half = <<Head(bytes)>>

Put(cs, a, char) == IF a \in Visible THEN [cs EXCEPT ![a] = char] ELSE cs

(* Line y being printed, at step k of setStatus and after x characters, when the
   controller writes to address a and shows cs: first its blanks, then blanks
   after its text. *)
LinePrinted(text, y, k, x, a, cs) ==
  /\ a = 64 * y + x
  /\ \A i \in 0..(LCD_maxx - 1) :
       IF k <= Blanks + 1 THEN i < k - 1 => cs[64 * y + i] = Blank
       ELSE cs[64 * y + i] = IF i < k - (Blanks + 2) THEN <<text.name, i + 1>> ELSE Blank

(* Line y shows its text. *)
LineShown(text, y, cs) ==
  \A i \in 0..(LCD_maxx - 1) : cs[64 * y + i] = IF i < text.len THEN <<text.name, i + 1>> ELSE Blank

(* The lines before line l show their texts; so does a line that is not printed. *)
ScreenShown(scr, l, k, x, a, cs) ==
  /\ k > 0 => LinePrinted(scr.text[l + 1], l, k, x, a, cs)
  /\ \A y \in {0, 1} : y < l => LineShown(scr.text[y + 1], y, cs)
  /\ scr.lines = 1 => LineShown(scr.text[2], 1, cs)

Shown(a, cs) == ScreenShown(screen, line, at, LCD_x, a, cs)

(* SetStatus prints; the screen will be as it must when the half bytes have been
   written. *)
Printing ==
  /\ bits = 4 /\ step = 1
  /\ \/ out = <<>> /\ half = <<>> /\ Shown(address, cells)
     \/ \E char \in Chars :
          Sent(Character(char)) /\ Shown(Moved(address, 1), Put(cells, address, char))
     \/ \E y \in {0, 1} : Sent(Command(LCD_base_y(y))) /\ Shown(64 * y, cells)
     \/ \E char \in Chars :
          /\ Sent(Command(LCD_base_y(1)) \o Character(char))
          /\ Shown(65, Put(cells, 64, char))

(* LCD_Init: what the controller takes its first four half bytes for depends on
   how it was left; it has 4 bits and waits for no half after them, and its
   addresses increase after the fourth command. *)
InitLen == 26
Written == InitLen - Len(out)
Initialising ==
  /\ screen = StartingScreen /\ line = 0 /\ at = 0 /\ out # <<>>
  /\ Written >= 0 /\ \A k \in 1..Len(out) : out[k] = LCD_Init[Written + k]
  /\ bits = 8 => half = <<>>
  /\ Written = 1 /\ bits = 4 => half = <<>> \/ half = <<LCD_Init[1]>>
  /\ Written = 2 /\ bits = 4 => half = <<LCD_Init[1]>>
  /\ Written = 3 => bits = 8
  /\ Written >= 4 => bits = 4 /\ half = IF Written % 2 = 0 THEN <<>> ELSE <<LCD_Init[Written]>>
  /\ Written >= 12 => step = 1

Controlled == Initialising \/ Printing

-----------------------------------------------------------------------------
(* Only the first line's text may be a character too long, and then main prints
   the second line too; the screen that is printed on one line follows one whose
   other line is empty. *)
LEMMA ScreenFields ==
  ASSUME NEW s \in Screens
  PROVE  /\ s.lines \in {1, 2}
         /\ s.text[1].len \in Int /\ 0 <= s.text[1].len /\ s.text[1].len <= 17
         /\ s.text[2].len \in Int /\ 0 <= s.text[2].len /\ s.text[2].len <= 16
         /\ s.lines = 1 => s.state = "scanning" /\ s.text[2] = Empty /\ s.text[1].len <= 16
         /\ s.state = "idle" => s.lines = 2 /\ s.text[2] = Empty
<1> DEFINE Right == /\ s.lines \in {1, 2}
                    /\ s.text[1].len \in Int /\ 0 <= s.text[1].len /\ s.text[1].len <= 17
                    /\ s.text[2].len \in Int /\ 0 <= s.text[2].len /\ s.text[2].len <= 16
                    /\ s.lines = 1 => s.state = "scanning" /\ s.text[2] = Empty /\ s.text[1].len <= 16
                    /\ s.state = "idle" => s.lines = 2 /\ s.text[2] = Empty
<1> DEFINE Plain ==
  {StartingScreen,
   Screen("idle", L_FULL("SCAN_HERE"), Empty, 2),
   Screen("scanning", L_FULL("WORKING"), Empty, 1),
   Screen("info", L_FULL("INVALID_CARD"), Empty, 2),
   Screen("info", L_FULL("CHECK_OUT_TOO_LATE"), L_FULL("LATE_CHECK_OUT_FEE"), 2),
   Screen("info", L_FULL("OK"), Empty, 2),
   Screen("info", L_FULL("SYSTEM_ERROR"), Empty, 2),
   Screen("no_connection", L_FULL("OUT_OF_ORDER"), Empty, 2)}
<1>1. \A b \in Balances : b.len \in Int /\ 0 <= b.len /\ b.len <= 16
  <2>1. \A d \in BalanceDigits : d \in Int /\ 1 <= d /\ d <= 6
    BY DigitsAssumption
  <2>2. QED
    BY <2>1 DEF Balances, L_BALANCE, Text
<1>2. \A d \in PriceDigits : d \in Int /\ 1 <= d /\ d <= 2
  BY DigitsAssumption
<1>3. CASE s \in Plain
  <2>1. Empty.len = 0 /\ \A name : L_FULL(name).len = 16
    BY DEF Empty, L_FULL, Text
  <2>2. CASE s = Screen("scanning", L_FULL("WORKING"), Empty, 1)
    <3>1. s.lines = 1 /\ s.state = "scanning" /\ s.text[1] = L_FULL("WORKING") /\ s.text[2] = Empty
      BY <2>2 DEF Screen
    <3>2. QED
      BY <2>1, <3>1
  <2>3. CASE s = Screen("info", L_FULL("CHECK_OUT_TOO_LATE"), L_FULL("LATE_CHECK_OUT_FEE"), 2)
    <3>1. /\ s.lines = 2 /\ s.state = "info" /\ s.text[1] = L_FULL("CHECK_OUT_TOO_LATE")
          /\ s.text[2] = L_FULL("LATE_CHECK_OUT_FEE")
      BY <2>3 DEF Screen
    <3>2. QED
      BY <2>1, <3>1
  <2>4. CASE \E state, name : s = Screen(state, L_FULL(name), Empty, 2)
    <3>1. PICK state, name : s = Screen(state, L_FULL(name), Empty, 2)
      BY <2>4
    <3>2. s.lines = 2 /\ s.text[1] = L_FULL(name) /\ s.text[2] = Empty
      BY <3>1 DEF Screen
    <3>3. QED
      BY <2>1, <3>2
  <2>5. QED
    BY <1>3, <2>2, <2>3, <2>4 DEF StartingScreen
<1>4. ASSUME NEW b \in Balances, s = Screen("info", L_CHECK_IN, b, 2) PROVE Right
  BY <1>1, <1>4 DEF Screen, L_CHECK_IN, Text
<1>5. ASSUME NEW d \in PriceDigits, NEW b \in Balances, s = Screen("info", L_CHECK_OUT(d), b, 2)
      PROVE  Right
  BY <1>1, <1>2, <1>5 DEF Screen, L_CHECK_OUT, Text
<1>6. ASSUME NEW b \in Balances, s = Screen("info", L_FULL("INSUFFICIENT_FUNDS"), b, 2) PROVE Right
  BY <1>1, <1>6 DEF Screen, L_FULL, Text
<1>7. \/ s \in Plain
      \/ \E b \in Balances : s = Screen("info", L_CHECK_IN, b, 2)
      \/ \E d \in PriceDigits, b \in Balances : s = Screen("info", L_CHECK_OUT(d), b, 2)
      \/ \E b \in Balances : s = Screen("info", L_FULL("INSUFFICIENT_FUNDS"), b, 2)
  BY DEF Screens
<1>8. QED
  BY <1>3, <1>4, <1>5, <1>6, <1>7

(* The steps of setStatus: to the line, its blanks, to the line again, its text;
   the last character of a text that is too long goes to the next line. *)
StatusSteps(text) ==
  \/ at \in {0, Blanks + 1} /\ out' = Command(LCD_base_y(line)) /\ LCD_x' = 0 /\ LCD_y' = line
  \/ at \in 1..Blanks /\ out' = Character(Blank) /\ LCD_x' = LCD_x + 1 /\ LCD_y' = LCD_y
  \/ /\ at > Blanks + 1 /\ LCD_x < LCD_maxx /\ out' = Character(<<text.name, at - Blanks - 1>>)
     /\ LCD_x' = LCD_x + 1 /\ LCD_y' = LCD_y
  \/ /\ at = Blanks + 2 + LCD_maxx /\ line = 0 /\ text.len = 17 /\ screen.lines = 2
     /\ out' = Command(LCD_base_y(1)) \o Character(<<text.name, 17>>)
     /\ LCD_x' = 0 /\ LCD_y' = 1

LEMMA StatusStep ==
  ASSUME TypeOK, Progress, SetStatus
  PROVE  /\ out = <<>> /\ line < screen.lines /\ line \in {0, 1}
         /\ TextOf(line).len \in Int /\ 0 <= TextOf(line).len /\ at <= Blanks + 1 + TextOf(line).len
         /\ IF at = Blanks + 1 + TextOf(line).len THEN line' = line + 1 /\ at' = 0
                                                ELSE line' = line /\ at' = at + 1
         /\ StatusSteps(TextOf(line))
         /\ UNCHANGED <<screen, controller, resets>>
<1> DEFINE text == TextOf(line)
<1>1. /\ out = <<>> /\ line < screen.lines /\ line \in {0, 1} /\ UNCHANGED <<screen, controller, resets>>
      /\ screen.lines \in {1, 2}
  BY ScreenFields DEF SetStatus, TypeOK
<1>2. /\ text.len \in Int /\ 0 <= text.len /\ text.len <= 17
      /\ text.len = 17 => line = 0 /\ screen.lines = 2
  <2>1. (text = screen.text[1] /\ line = 0) \/ (text = screen.text[2] /\ line = 1)
    BY <1>1 DEF TextOf
  <2>2. QED
    BY <1>1, <2>1, ScreenFields DEF TypeOK
<1>3. /\ IF at = Blanks + 1 + text.len THEN line' = line + 1 /\ at' = 0
                                      ELSE line' = line /\ at' = at + 1
      /\ IF at \in {0, Blanks + 1} THEN LCD_GotoXY(0, line)
         ELSE LCD_PutChar(IF at <= Blanks THEN Blank ELSE <<text.name, at - Blanks - 1>>)
  <2>1. text = screen.text[line + 1]
    BY DEF TextOf
  <2> HIDE DEF text
  <2>2. /\ line' = (IF at = Blanks + 1 + text.len THEN line + 1 ELSE line)
        /\ at' = (IF at = Blanks + 1 + text.len THEN 0 ELSE at + 1)
    BY <2>1 DEF SetStatus
  <2>3. IF at \in {0, Blanks + 1} THEN LCD_GotoXY(0, line)
        ELSE LCD_PutChar(IF at <= Blanks THEN Blank ELSE <<text.name, at - Blanks - 1>>)
    BY <2>1 DEF SetStatus
  <2>4. QED
    BY <2>2, <2>3
<1>4. /\ at \in Int /\ 0 <= at /\ at <= Blanks + 1 + text.len
      /\ LCD_x \in Int /\ 0 <= LCD_x /\ LCD_x <= 16
      /\ at > 0 => LCD_y = line /\ LCD_x = IF at <= Blanks + 1 THEN at - 1 ELSE at - (Blanks + 2)
  BY <1>1 DEF TypeOK, Progress, Blanks, LCD_maxx
<1>5. /\ \A char : LCD_x + 1 <= LCD_maxx /\ LCD_PutChar(char) =>
           LCD_x' = LCD_x + 1 /\ LCD_y' = LCD_y /\ out' = Character(char)
      /\ \A char : LCD_x = LCD_maxx /\ LCD_PutChar(char) =>
           /\ LCD_x' = 0 /\ LCD_y' = LCD_y + 1
           /\ out' = Command(LCD_base_y(LCD_y + 1)) \o Character(char)
  BY <1>4 DEF LCD_PutChar, LCD_maxx
<1> HIDE DEF text
<1>6. CASE at \in {0, Blanks + 1}
  <2>1. (LCD_base_y(line) + 0) % 256 = LCD_base_y(line)
    BY <1>1 DEF LCD_base_y, LCD_maxx
  <2>2. LCD_GotoXY(0, line)
    BY <1>3, <1>6
  <2>3. out' = Command(LCD_base_y(line)) /\ LCD_x' = 0 /\ LCD_y' = line
    BY <2>1, <2>2 DEF LCD_GotoXY
  <2>4. StatusSteps(text)
    BY <2>3, <1>6 DEF StatusSteps
  <2>5. QED
    BY <1>1, <1>2, <1>3, <1>4, <2>4 DEF text
<1>7. CASE at \in 1..Blanks
  <2>1. LCD_x + 1 <= LCD_maxx /\ LCD_PutChar(Blank)
    BY <1>3, <1>4, <1>7 DEF LCD_maxx, Blanks
  <2>2. LCD_x' = LCD_x + 1 /\ LCD_y' = LCD_y /\ out' = Character(Blank)
    BY <1>5, <2>1
  <2>3. StatusSteps(text)
    BY <2>2, <1>7 DEF StatusSteps
  <2>4. QED
    BY <1>1, <1>2, <1>3, <1>4, <2>3 DEF text
<1>8. CASE at > Blanks + 1 /\ at < Blanks + 2 + LCD_maxx
  <2>1. LCD_x + 1 <= LCD_maxx /\ LCD_x < LCD_maxx /\ LCD_PutChar(<<text.name, at - Blanks - 1>>)
    BY <1>3, <1>4, <1>8 DEF LCD_maxx, Blanks
  <2>2. LCD_x' = LCD_x + 1 /\ LCD_y' = LCD_y /\ out' = Character(<<text.name, at - Blanks - 1>>)
    BY <1>5, <2>1
  <2>3. StatusSteps(text)
    BY <2>1, <2>2, <1>8 DEF StatusSteps
  <2>4. QED
    BY <1>1, <1>2, <1>3, <1>4, <2>3 DEF text
<1>9. CASE at = Blanks + 2 + LCD_maxx
  <2>1. /\ LCD_x = LCD_maxx /\ LCD_y = line /\ line = 0 /\ screen.lines = 2
        /\ text.len = 17 /\ at - Blanks - 1 = 17
    BY <1>2, <1>4, <1>9 DEF LCD_maxx, Blanks
  <2>2. LCD_PutChar(<<text.name, 17>>)
    BY <1>3, <1>9, <2>1 DEF LCD_maxx, Blanks
  <2>3. LCD_y + 1 = 1
    BY <2>1
  <2>4. /\ LCD_x' = 0 /\ LCD_y' = 1
        /\ out' = Command(LCD_base_y(1)) \o Character(<<text.name, 17>>)
    BY <1>5, <2>1, <2>2, <2>3
  <2>5. StatusSteps(text)
    BY <2>1, <2>4, <1>9 DEF StatusSteps
  <2>6. QED
    BY <1>1, <1>2, <1>3, <1>4, <2>5 DEF text
<1>10. \/ at \in {0, Blanks + 1} \/ at \in 1..Blanks \/ at = Blanks + 2 + LCD_maxx
       \/ at > Blanks + 1 /\ at < Blanks + 2 + LCD_maxx
  BY <1>2, <1>4 DEF Blanks, LCD_maxx
<1>11. QED
  BY <1>6, <1>7, <1>8, <1>9, <1>10

(* What the driver writes are half bytes. *)
LEMMA ConstantChars == Blank \in Chars /\ <<"garbage", 0>> \in Chars
<1>1. "" \in Names /\ "garbage" \in Names
  BY DEF Names
<1>2. \A n \in Names : <<n, 0>> \in Chars
  BY DEF Chars
<1>3. QED
  BY <1>1, <1>2 DEF Blank

LEMMA TextChars ==
  ASSUME NEW s \in Screens, NEW i \in {1, 2}, NEW k \in Int, 0 <= k, k <= 17
  PROVE  <<s.text[i].name, k>> \in Chars
<1>1. s.text[1].name \in Names /\ s.text[2].name \in Names
  BY DEF Names
<1>2. \A n \in Names : <<n, k>> \in Chars
  BY DEF Chars
<1>3. QED
  BY <1>1, <1>2

LEMMA PairTyped == ASSUME NEW S, NEW a \in S, NEW b \in S PROVE <<a, b>> \in Seq(S)
OBVIOUS

LEMMA ConcatTyped == ASSUME NEW S, NEW s \in Seq(S), NEW t \in Seq(S) PROVE s \o t \in Seq(S)
OBVIOUS

(* The half bytes of a command *)
Halves(high, low) == <<Nibble(0, high, Blank, FALSE), Nibble(0, low, Blank, TRUE)>>

LEMMA CommandHalves ==
  /\ Command(1) = Halves(0, 1) /\ Command(2) = Halves(0, 2) /\ Command(4) = Halves(0, 4)
  /\ Command(6) = Halves(0, 6) /\ Command(12) = Halves(0, 12) /\ Command(40) = Halves(2, 8)
  /\ Command(128) = Halves(8, 0) /\ Command(133) = Halves(8, 5) /\ Command(192) = Halves(12, 0)
BY DEF Command, Halves

LEMMA HalvesTyped ==
  ASSUME NEW high \in 0..15, NEW low \in 0..15
  PROVE  Halves(high, low) \in Seq(Nibbles)
<1>1. Nibble(0, high, Blank, FALSE) \in Nibbles /\ Nibble(0, low, Blank, TRUE) \in Nibbles
  BY ConstantChars DEF Nibble, Nibbles
<1>2. QED
  BY <1>1, PairTyped DEF Halves

LEMMA CommandTyped ==
  /\ Command(1) \in Seq(Nibbles) /\ Command(2) \in Seq(Nibbles) /\ Command(4) \in Seq(Nibbles)
  /\ Command(6) \in Seq(Nibbles) /\ Command(12) \in Seq(Nibbles) /\ Command(40) \in Seq(Nibbles)
  /\ Command(128) \in Seq(Nibbles) /\ Command(133) \in Seq(Nibbles) /\ Command(192) \in Seq(Nibbles)
BY CommandHalves, HalvesTyped

LEMMA CharacterTyped ==
  ASSUME NEW char \in Chars
  PROVE  Character(char) \in Seq(Nibbles)
<1>1. Nibble(1, NoCode, char, FALSE) \in Nibbles /\ Nibble(1, NoCode, char, TRUE) \in Nibbles
  BY DEF Nibble, Nibbles
<1>2. QED
  BY <1>1, PairTyped DEF Character

LEMMA LineAddresses == LCD_base_y(0) = 128 /\ LCD_base_y(1) = 192
BY DEF LCD_base_y, LCD_maxx

LEMMA InitTyped == LCD_Init \in Seq(Nibbles)
<1> DEFINE eight == Nibble(0, 3, Blank, TRUE)
           four  == Nibble(0, 2, Blank, TRUE)
<1>1. eight \in Nibbles /\ four \in Nibbles
  BY ConstantChars DEF Nibble, Nibbles
<1>2. ClearCommands \in Seq(Nibbles)
  BY CommandTyped, ConcatTyped DEF ClearCommands
<1>3. Command(LCD_base_y(0)) \in Seq(Nibbles)
  BY CommandTyped, LineAddresses
<1> HIDE DEF eight, four
<1>4. <<eight, eight, eight, four>> \in Seq(Nibbles)
  BY <1>1
<1>5. LCD_Init = <<eight, eight, eight, four>>
                   \o Command(40) \o Command(4) \o Command(133) \o Command(6)
                   \o ClearCommands \o ClearCommands \o Command(LCD_base_y(0))
  BY DEF LCD_Init, eight, four
<1>6. QED
  BY <1>2, <1>3, <1>4, <1>5, CommandTyped, ConcatTyped

(* Every step leaves each variable in its type. *)
LEMMA StatusTyped ==
  ASSUME TypeOK, Progress, SetStatus
  PROVE  TypeOK' /\ Progress'
<1> DEFINE text == TextOf(line)
<1>1. /\ out = <<>> /\ line < screen.lines /\ line \in {0, 1} /\ UNCHANGED <<screen, controller, resets>>
      /\ text.len \in Int /\ 0 <= text.len /\ at <= Blanks + 1 + text.len
      /\ IF at = Blanks + 1 + text.len THEN line' = line + 1 /\ at' = 0
                                       ELSE line' = line /\ at' = at + 1
      /\ StatusSteps(text)
  BY StatusStep
<1>2. /\ screen \in Screens /\ screen.lines \in {1, 2}
      /\ \A i \in {1, 2} : screen.text[i].len \in Int /\ 0 <= screen.text[i].len /\ screen.text[i].len <= 17
  BY ScreenFields DEF TypeOK
<1>3. text.len <= 17 /\ \A k \in Int : 0 <= k /\ k <= 17 => <<text.name, k>> \in Chars
  BY <1>1, <1>2, TextChars DEF TextOf
<1>4. /\ at \in Int /\ 0 <= at /\ LCD_x \in Int /\ 0 <= LCD_x /\ LCD_x <= 16
      /\ LCD_y \in {0, 1}
      /\ at > 0 => LCD_y = line /\ LCD_x = IF at <= Blanks + 1 THEN at - 1 ELSE at - (Blanks + 2)
  BY <1>1 DEF TypeOK, Progress, LCD_maxx
<1> HIDE DEF text
<1>5. /\ out' \in Seq(Nibbles)
  <2>1. CASE at \in {0, Blanks + 1} /\ out' = Command(LCD_base_y(line))
    <3>1. LCD_base_y(line) \in {128, 192}
      BY <1>1, LineAddresses
    <3>2. QED
      BY <2>1, <3>1, CommandTyped
  <2>2. CASE out' = Character(Blank)
    BY <2>2, CharacterTyped, ConstantChars
  <2>3. CASE at > Blanks + 1 /\ out' = Character(<<text.name, at - Blanks - 1>>)
    BY <1>1, <1>3, <1>4, <2>3, CharacterTyped DEF Blanks
  <2>4. CASE out' = Command(LCD_base_y(1)) \o Character(<<text.name, 17>>)
    <3>1. Command(LCD_base_y(1)) \in Seq(Nibbles) /\ Character(<<text.name, 17>>) \in Seq(Nibbles)
      BY <1>3, CommandTyped, CharacterTyped, LineAddresses
    <3>2. QED
      BY <2>4, <3>1
  <2>5. QED
    BY <1>1, <2>1, <2>2, <2>3, <2>4 DEF StatusSteps
<1>6. \/ (at = 0 \/ at = 17) /\ LCD_x' = 0 /\ LCD_y' = line
      \/ 1 <= at /\ at <= 16 /\ LCD_x' = LCD_x + 1 /\ LCD_y' = LCD_y
      \/ at > 17 /\ LCD_x < 16 /\ LCD_x' = LCD_x + 1 /\ LCD_y' = LCD_y
      \/ at = 34 /\ text.len = 17 /\ LCD_x' = 0 /\ LCD_y' = 1
  BY <1>1, <1>4 DEF StatusSteps, Blanks, LCD_maxx
<1>7. LCD_x' \in 0..LCD_maxx /\ LCD_y' \in {0, 1}
  BY <1>1, <1>4, <1>6 DEF LCD_maxx, Blanks
<1>8. line' \in 0..screen'.lines /\ at' \in 0..(Blanks + 1 + 17)
  <2>1. /\ \/ line' = line + 1 /\ at' = 0
           \/ line' = line /\ at' = at + 1 /\ at < 17 + text.len
        /\ screen' = screen
    BY <1>1, <1>4 DEF Blanks
  <2>2. line' \in Int /\ 0 <= line' /\ line' <= screen.lines /\ at' \in Int /\ 0 <= at' /\ at' <= 34
    BY <1>1, <1>2, <1>3, <1>4, <2>1
  <2>3. QED
    BY <1>2, <2>1, <2>2 DEF Blanks
<1>9. TypeOK'
  BY <1>1, <1>5, <1>7, <1>8 DEF TypeOK, controller
<1>10. at' > 0 => LCD_y' = line' /\ LCD_x' = IF at' <= Blanks + 1 THEN at' - 1 ELSE at' - (Blanks + 2)
  BY <1>1, <1>3, <1>4, <1>6 DEF Blanks
<1>11. line' < screen'.lines => at' <= Blanks + 1 + TextOf(line)'.len
  <2>1. CASE line' = line /\ at' = at + 1 /\ at # Blanks + 1 + text.len
    <3>1. TextOf(line)' = text
      BY <1>1, <2>1 DEF TextOf, text
    <3>2. QED
      BY <1>1, <1>4, <2>1, <3>1 DEF Blanks
  <2>2. CASE line' = line + 1 /\ at' = 0
    BY <1>1, <1>2, <2>2 DEF TextOf, Blanks
  <2>3. QED
    BY <1>1, <2>1, <2>2
<1>12. line' = screen'.lines => at' = 0
  BY <1>1, <1>2
<1>13. QED
  BY <1>7, <1>9, <1>10, <1>11, <1>12 DEF Progress

LEMMA NextScreenTyped ==
  ASSUME TypeOK, Progress, NextScreen
  PROVE  TypeOK' /\ Progress'
<1>1. /\ screen' \in Screens /\ line' = 0 /\ at' = 0
      /\ UNCHANGED <<driver, controller, resets>>
  BY DEF NextScreen
<1>2. screen'.lines \in {1, 2} /\ screen'.text[1].len \in Int /\ 0 <= screen'.text[1].len
  BY <1>1, ScreenFields
<1>3. TypeOK'
  BY <1>1, <1>2 DEF TypeOK, driver, controller, Blanks
<1>4. QED
  BY <1>1, <1>2, <1>3 DEF Progress, TextOf, driver, Blanks

LEMMA ResetTyped ==
  ASSUME TypeOK, Reset
  PROVE  TypeOK' /\ Progress'
<1>1. /\ screen' = StartingScreen /\ line' = 0 /\ at' = 0
      /\ out' = LCD_Init /\ LCD_x' = 0 /\ LCD_y' = 0
      /\ resets' \in 0..MaxResets /\ UNCHANGED controller
  BY BoundAssumption DEF Reset, TypeOK
<1>2. StartingScreen \in Screens
  BY DEF Screens
<1>3. screen'.lines \in {1, 2} /\ screen'.text[1].len \in Int /\ 0 <= screen'.text[1].len
  BY <1>1, <1>2, ScreenFields
<1>4. TypeOK'
  BY <1>1, <1>2, <1>3, InitTyped DEF TypeOK, controller, Blanks, LCD_maxx
<1>5. QED
  BY <1>1, <1>3, <1>4 DEF Progress, TextOf, Blanks

(* The controller's variables, after an instruction or a character *)
ControllerTyped ==
  /\ bits \in {4, 8} /\ step \in {1, -1} /\ cells \in [Visible -> Chars]
  /\ address \in 0..CharacterGenerator

LEMMA ExecuteTyped ==
  ASSUME ControllerTyped, NEW v \in Int, 0 <= v, v <= 255, Execute(v)
  PROVE  ControllerTyped'
<1>1. [a \in Visible |-> Blank] \in [Visible -> Chars]
  BY ConstantChars
<1>2. bits' \in {4, 8} /\ step' \in {1, -1}
  BY DEF Execute, ControllerTyped
<1>3. cells' \in [Visible -> Chars]
  BY <1>1 DEF Execute, ControllerTyped
<1>4. address' \in Int /\ 0 <= address' /\ address' <= 128
  BY DEF Execute, ControllerTyped, CharacterGenerator
<1>5. QED
  BY <1>2, <1>3, <1>4 DEF ControllerTyped, CharacterGenerator

LEMMA MovedTyped ==
  ASSUME NEW a \in Int, 0 <= a, a <= 128, NEW by \in {1, -1}
  PROVE  Moved(a, by) \in Int /\ 0 <= Moved(a, by) /\ Moved(a, by) <= 128
BY DEF Moved, CharacterGenerator

LEMMA WriteCharTyped ==
  ASSUME ControllerTyped, NEW char \in Chars, WriteChar(char)
  PROVE  ControllerTyped'
<1>1. address' \in Int /\ 0 <= address' /\ address' <= 128
  BY MovedTyped DEF WriteChar, ControllerTyped, CharacterGenerator
<1>2. cells' \in [Visible -> Chars]
  BY DEF WriteChar, ControllerTyped
<1>3. QED
  BY <1>1, <1>2 DEF WriteChar, ControllerTyped, CharacterGenerator

LEMMA ValuesTyped ==
  ASSUME NEW n \in Nibbles, NEW v \in Values(n)
  PROVE  v \in Int /\ 0 <= v /\ v <= 15
BY DEF Values, Nibbles, NoCode

LEMMA WriteNibbleTyped ==
  ASSUME TypeOK, Progress, WriteNibble
  PROVE  TypeOK' /\ Progress'
<1> DEFINE n == Head(out)
<1>1. /\ out # <<>> /\ out' = Tail(out) /\ Receive(n)
      /\ UNCHANGED <<main, LCD_x, LCD_y, resets>>
  BY DEF WriteNibble
<1>2. n \in Nibbles /\ out' \in Seq(Nibbles)
  BY <1>1 DEF TypeOK
<1>3. ControllerTyped /\ half \in Seq(Nibbles) /\ Len(half) <= 1
  BY DEF TypeOK, ControllerTyped
<1> HIDE DEF n
<1>4. ControllerTyped' /\ half' \in Seq(Nibbles) /\ Len(half') <= 1
  <2>1. CASE bits = 4 /\ half = <<>>
    <3>1. half' = <<n>> /\ UNCHANGED <<bits, address, step, cells>>
      BY <1>1, <2>1 DEF Receive
    <3>2. half' \in Seq(Nibbles) /\ Len(half') <= 1
      BY <1>2, <3>1
    <3>3. QED
      BY <1>3, <3>1, <3>2 DEF ControllerTyped
  <2>2. CASE bits = 8
    <3>1. /\ half' = <<>>
          /\ \E high \in Values(n), low \in 0..15 : Execute(16 * high + low)
      BY <1>1, <2>2 DEF Receive
    <3>2. PICK high \in Values(n), low \in 0..15 : Execute(16 * high + low)
      BY <3>1
    <3>3. 16 * high + low \in Int /\ 0 <= 16 * high + low /\ 16 * high + low <= 255
      BY <1>2, ValuesTyped
    <3>4. QED
      BY <1>3, <3>1, <3>2, <3>3, ExecuteTyped
  <2>3. CASE bits = 4 /\ half # <<>>
    <3>1. half[1] \in Nibbles
      BY <1>3, <2>3
    <3>2. half' = <<>>
      BY <1>1, <2>3 DEF Receive
    <3>3. CASE n.rs = 0
      <4>1. \E high \in Values(half[1]), low \in Values(n) : Execute(16 * high + low)
        BY <1>1, <2>3, <3>3 DEF Receive
      <4>2. PICK high \in Values(half[1]), low \in Values(n) : Execute(16 * high + low)
        BY <4>1
      <4>3. 16 * high + low \in Int /\ 0 <= 16 * high + low /\ 16 * high + low <= 255
        BY <1>2, <3>1, ValuesTyped
      <4>4. QED
        BY <1>3, <3>2, <4>2, <4>3, ExecuteTyped
    <3>4. CASE n.rs # 0
      <4>1. WriteChar(IF n.low THEN n.char ELSE <<"garbage", 0>>)
        BY <1>1, <2>3, <3>4 DEF Receive
      <4>2. n.char \in Chars
        BY <1>2 DEF Nibbles
      <4>3. (IF n.low THEN n.char ELSE <<"garbage", 0>>) \in Chars
        BY <4>2, ConstantChars
      <4>4. QED
        BY <1>3, <3>2, <4>1, <4>3, WriteCharTyped
    <3>5. QED
      BY <3>3, <3>4
  <2>4. QED
    BY <1>3, <2>1, <2>2, <2>3 DEF ControllerTyped
<1>5. TypeOK'
  BY <1>1, <1>2, <1>4 DEF TypeOK, ControllerTyped, main
<1>6. Progress'
  BY <1>1 DEF Progress, TextOf, main
<1>7. QED
  BY <1>5, <1>6

(* The display's variables have their types, and the driver's count of the line
   follows main's: it neither runs out of the lines nor forgets where it is. *)
THEOREM Typing == Spec => [](TypeOK /\ Progress)
<1>1. Init => TypeOK /\ Progress
  <2> SUFFICES ASSUME Init PROVE TypeOK /\ Progress
    OBVIOUS
  <2>1. StartingScreen \in Screens
    BY DEF Screens
  <2>2. screen.lines \in {1, 2} /\ screen.text[1].len \in Int /\ 0 <= screen.text[1].len
    BY <2>1, ScreenFields DEF Init
  <2>3. cells \in [Visible -> Chars]
    BY ConstantChars DEF Init
  <2>4. TypeOK
    BY <2>1, <2>2, <2>3, InitTyped, BoundAssumption
       DEF Init, TypeOK, Blanks, LCD_maxx, CharacterGenerator
  <2>5. QED
    BY <2>2, <2>4 DEF Init, Progress, TextOf, Blanks
<1>2. TypeOK /\ Progress /\ [Next]_vars => (TypeOK /\ Progress)'
  <2> SUFFICES ASSUME TypeOK, Progress, [Next]_vars PROVE (TypeOK /\ Progress)'
    OBVIOUS
  <2>1. CASE SetStatus
    BY <2>1, StatusTyped
  <2>2. CASE NextScreen
    BY <2>2, NextScreenTyped
  <2>3. CASE WriteNibble
    BY <2>3, WriteNibbleTyped
  <2>4. CASE Reset
    BY <2>4, ResetTyped
  <2>5. CASE UNCHANGED vars
    BY <2>5 DEF TypeOK, Progress, TextOf, vars, main, driver, controller
  <2>6. QED
    BY <2>1, <2>2, <2>3, <2>4, <2>5 DEF Next
<1>3. QED
  BY <1>1, <1>2, PTL DEF Spec

(* Every variable has its type. *)
COROLLARY TypeHolds == Spec => []TypeOK
BY Typing, PTL

-----------------------------------------------------------------------------
(* The half bytes of LCD_Init *)
LEMMA InitEights ==
  /\ LCD_Init[1] = LCD_Init[2]
  /\ LCD_Init[1].code = 3 /\ LCD_Init[1 + 1].code = 3 /\ LCD_Init[2 + 1].code = 3
  /\ LCD_Init[3 + 1].code = 2
<1>1. LCD_Init[1] = LCD_Init[2]
  BY DEF LCD_Init, Command, Nibble, ClearCommands, LCD_base_y, LCD_maxx
<1>2. LCD_Init[1].code = 3 /\ LCD_Init[2].code = 3 /\ LCD_Init[3].code = 3
  BY DEF LCD_Init, Command, Nibble, ClearCommands, LCD_base_y, LCD_maxx
<1>3. LCD_Init[4].code = 2
  BY DEF LCD_Init, Command, Nibble, ClearCommands, LCD_base_y, LCD_maxx
<1>4. QED
  BY <1>1, <1>2, <1>3

LEMMA InitLength == Len(LCD_Init) = InitLen
BY DEF LCD_Init, Command, Nibble, ClearCommands, LCD_base_y, InitLen

LEMMA InitNotEmpty == LCD_Init # <<>>
<1>1. Len(LCD_Init) # 0 /\ Len(<<>>) = 0
  BY InitLength DEF InitLen
<1>2. QED
  BY <1>1

LEMMA InitCommands ==
  ASSUME NEW k \in 1..InitLen
  PROVE  LCD_Init[k].rs = 0 /\ LCD_Init[k].code # NoCode
<1>1. /\ LCD_Init[1].rs = 0 /\ LCD_Init[2].rs = 0 /\ LCD_Init[3].rs = 0
  BY DEF LCD_Init, Command, Nibble, ClearCommands, LCD_base_y, LCD_maxx
<1>2. /\ LCD_Init[4].rs = 0 /\ LCD_Init[5].rs = 0 /\ LCD_Init[6].rs = 0
  BY DEF LCD_Init, Command, Nibble, ClearCommands, LCD_base_y, LCD_maxx
<1>3. /\ LCD_Init[7].rs = 0 /\ LCD_Init[8].rs = 0 /\ LCD_Init[9].rs = 0
  BY DEF LCD_Init, Command, Nibble, ClearCommands, LCD_base_y, LCD_maxx
<1>4. /\ LCD_Init[10].rs = 0 /\ LCD_Init[11].rs = 0 /\ LCD_Init[12].rs = 0
  BY DEF LCD_Init, Command, Nibble, ClearCommands, LCD_base_y, LCD_maxx
<1>5. /\ LCD_Init[13].rs = 0 /\ LCD_Init[14].rs = 0 /\ LCD_Init[15].rs = 0
  BY DEF LCD_Init, Command, Nibble, ClearCommands, LCD_base_y, LCD_maxx
<1>6. /\ LCD_Init[16].rs = 0 /\ LCD_Init[17].rs = 0 /\ LCD_Init[18].rs = 0
  BY DEF LCD_Init, Command, Nibble, ClearCommands, LCD_base_y, LCD_maxx
<1>7. /\ LCD_Init[19].rs = 0 /\ LCD_Init[20].rs = 0 /\ LCD_Init[21].rs = 0
  BY DEF LCD_Init, Command, Nibble, ClearCommands, LCD_base_y, LCD_maxx
<1>8. /\ LCD_Init[22].rs = 0 /\ LCD_Init[23].rs = 0 /\ LCD_Init[24].rs = 0
  BY DEF LCD_Init, Command, Nibble, ClearCommands, LCD_base_y, LCD_maxx
<1>9. /\ LCD_Init[25].rs = 0 /\ LCD_Init[26].rs = 0
  BY DEF LCD_Init, Command, Nibble, ClearCommands, LCD_base_y, LCD_maxx
<1>10. k \in {1, 2, 3, 4, 5, 6, 7, 8, 9, 10, 11, 12, 13, 14, 15, 16, 17, 18, 19, 20, 21, 22, 23, 24, 25, 26}
  BY DEF InitLen
<1>11. LCD_Init[k].rs = 0
  BY <1>1, <1>2, <1>3, <1>4, <1>5, <1>6, <1>7, <1>8, <1>9, <1>10
<1>12. LCD_Init[k].code # NoCode
  <2>1. LCD_Init[1].code # NoCode /\ LCD_Init[2].code # NoCode /\ LCD_Init[3].code # NoCode
    BY DEF NoCode, LCD_Init, Command, Nibble, ClearCommands, LCD_base_y, LCD_maxx
  <2>2. LCD_Init[4].code # NoCode /\ LCD_Init[5].code # NoCode /\ LCD_Init[6].code # NoCode
    BY DEF NoCode, LCD_Init, Command, Nibble, ClearCommands, LCD_base_y, LCD_maxx
  <2>3. LCD_Init[7].code # NoCode /\ LCD_Init[8].code # NoCode /\ LCD_Init[9].code # NoCode
    BY DEF NoCode, LCD_Init, Command, Nibble, ClearCommands, LCD_base_y, LCD_maxx
  <2>4. LCD_Init[10].code # NoCode /\ LCD_Init[11].code # NoCode /\ LCD_Init[12].code # NoCode
    BY DEF NoCode, LCD_Init, Command, Nibble, ClearCommands, LCD_base_y, LCD_maxx
  <2>5. LCD_Init[13].code # NoCode /\ LCD_Init[14].code # NoCode /\ LCD_Init[15].code # NoCode
    BY DEF NoCode, LCD_Init, Command, Nibble, ClearCommands, LCD_base_y, LCD_maxx
  <2>6. LCD_Init[16].code # NoCode /\ LCD_Init[17].code # NoCode /\ LCD_Init[18].code # NoCode
    BY DEF NoCode, LCD_Init, Command, Nibble, ClearCommands, LCD_base_y, LCD_maxx
  <2>7. LCD_Init[19].code # NoCode /\ LCD_Init[20].code # NoCode /\ LCD_Init[21].code # NoCode
    BY DEF NoCode, LCD_Init, Command, Nibble, ClearCommands, LCD_base_y, LCD_maxx
  <2>8. LCD_Init[22].code # NoCode /\ LCD_Init[23].code # NoCode /\ LCD_Init[24].code # NoCode
    BY DEF NoCode, LCD_Init, Command, Nibble, ClearCommands, LCD_base_y, LCD_maxx
  <2>9. LCD_Init[25].code # NoCode /\ LCD_Init[26].code # NoCode
    BY DEF NoCode, LCD_Init, Command, Nibble, ClearCommands, LCD_base_y, LCD_maxx
  <2>10. QED
    BY <2>1, <2>2, <2>3, <2>4, <2>5, <2>6, <2>7, <2>8, <2>9, <1>10
<1>13. QED
  BY <1>11, <1>12

(* What the controller does for the commands of LCD_Init *)
LEMMA FunctionSet ==
  ASSUME NEW v \in Int, 32 <= v, v <= 63, Execute(v)
  PROVE  bits' = (IF v >= 48 THEN 8 ELSE 4) /\ step' = step
BY DEF Execute

LEMMA InitExecuted ==
  ASSUME NEW v \in {1, 2, 4, 6, 12, 40, 128, 133}, Execute(v), bits = 4
  PROVE  bits' = 4 /\ (v \in {1, 6} => step' = 1) /\ (v \in {2, 12, 128} => step' = step)
BY DEF Execute

LEMMA AddressSet ==
  ASSUME NEW v \in Int, 128 <= v, v <= 255, Execute(v)
  PROVE  address' = v - 128 /\ bits' = bits /\ step' = step /\ cells' = cells
BY DEF Execute

(* Half bytes one after the other *)
LEMMA PairParts ==
  ASSUME NEW a, NEW b
  PROVE  /\ <<a, b>> # <<>> /\ Head(<<a, b>>) = a /\ Tail(<<a, b>>) = <<b>>
         /\ <<b>> # <<>> /\ Head(<<b>>) = b /\ Tail(<<b>>) = <<>>
OBVIOUS

LEMMA PairConcat == 
  ASSUME NEW S, NEW s \in Seq(S), NEW t \in Seq(S), Len(s) = 2
  PROVE  /\ s \o t # <<>> /\ Head(s \o t) = s[1]
         /\ Tail(s \o t) # <<>> /\ Head(Tail(s \o t)) = s[2] /\ Tail(Tail(s \o t)) = t
<1> DEFINE st == s \o t
<1>1. st \in Seq(S) /\ Len(st) = 2 + Len(t) /\ Len(t) \in Nat
  BY ConcatProperties
<1>2. \A i \in 1..(2 + Len(t)) : st[i] = IF i <= 2 THEN s[i] ELSE t[i - 2]
  <2>1. \A i \in 1..(Len(s) + Len(t)) : st[i] = IF i <= Len(s) THEN s[i] ELSE t[i - Len(s)]
    BY ConcatProperties
  <2>2. QED
    BY <2>1
<1> HIDE DEF st
<1>3. st # <<>> /\ Head(st) = st[1] /\ Tail(st) \in Seq(S) /\ Len(Tail(st)) = 1 + Len(t)
      /\ \A i \in 1..(1 + Len(t)) : Tail(st)[i] = st[i + 1]
  BY <1>1
<1> DEFINE u == Tail(st)
<1> HIDE DEF u
<1>4. u # <<>> /\ u \in Seq(S)
  <2>1. u \in Seq(S) /\ Len(u) = 1 + Len(t)
    BY <1>3 DEF u
  <2>2. Len(u) # 0
    BY <1>1, <2>1
  <2>3. QED
    BY <2>1, <2>2
<1>5. Head(u) = u[1] /\ Tail(u) \in Seq(S) /\ Len(Tail(u)) = Len(t)
      /\ \A i \in 1..Len(t) : Tail(u)[i] = u[i + 1]
  BY <1>1, <1>3, <1>4 DEF u
<1>6. st[1] = s[1] /\ u[1] = s[2]
  <2>1. 1 \in 1..(2 + Len(t)) /\ 2 \in 1..(2 + Len(t)) /\ 1 \in 1..(1 + Len(t))
    BY <1>1
  <2>2. QED
    BY <1>2, <1>3, <2>1 DEF u
<1>7. Tail(u) = t
  <2>1. ASSUME NEW i \in 1..Len(t) PROVE Tail(u)[i] = t[i]
    <3>1. i + 1 \in 1..(1 + Len(t)) /\ i + 1 + 1 \in 1..(2 + Len(t)) /\ ~(i + 1 + 1 <= 2) /\ i + 1 + 1 - 2 = i
      BY <1>1
    <3>2. QED
      BY <1>2, <1>3, <1>5, <3>1 DEF u
  <2>2. QED
    BY <1>5, <2>1, SeqEqual
<1>8. QED
  BY <1>3, <1>4, <1>5, <1>6, <1>7 DEF u, st

LEMMA WrittenCases ==
  ASSUME NEW w \in Int, 0 <= w, w <= 25
  PROVE  /\ \/ w = 0
            \/ w = 1
            \/ w = 2
            \/ w = 3
            \/ w >= 4 /\ w % 2 = 0
            \/ w >= 4 /\ w % 2 # 0
         /\ (w + 1 = 1 => w = 0) /\ (w + 1 = 2 => w = 1) /\ (w + 1 = 3 => w = 2)
OBVIOUS

(* The bytes of LCD_Init after its first four half bytes *)
InitByte(w) == 16 * LCD_Init[w].code + LCD_Init[w + 1].code

LEMMA InitPairs ==
  ASSUME NEW w \in {5, 7, 9, 11, 13, 15, 17, 19, 21, 23, 25}
  PROVE  /\ InitByte(w) \in {1, 2, 4, 6, 12, 40, 128, 133}
         /\ w = 11 => InitByte(w) = 6
         /\ w >= 13 => InitByte(w) \in {1, 2, 12, 128}
<1>1. InitByte(5) = 40
  BY DEF InitByte, LCD_Init, Command, Nibble, ClearCommands, LCD_base_y, LCD_maxx
<1>2. InitByte(7) = 4
  BY DEF InitByte, LCD_Init, Command, Nibble, ClearCommands, LCD_base_y, LCD_maxx
<1>3. InitByte(9) = 133
  BY DEF InitByte, LCD_Init, Command, Nibble, ClearCommands, LCD_base_y, LCD_maxx
<1>4. InitByte(11) = 6
  BY DEF InitByte, LCD_Init, Command, Nibble, ClearCommands, LCD_base_y, LCD_maxx
<1>5. InitByte(13) = 2
  BY DEF InitByte, LCD_Init, Command, Nibble, ClearCommands, LCD_base_y, LCD_maxx
<1>6. InitByte(15) = 12
  BY DEF InitByte, LCD_Init, Command, Nibble, ClearCommands, LCD_base_y, LCD_maxx
<1>7. InitByte(17) = 1
  BY DEF InitByte, LCD_Init, Command, Nibble, ClearCommands, LCD_base_y, LCD_maxx
<1>8. InitByte(19) = 2
  BY DEF InitByte, LCD_Init, Command, Nibble, ClearCommands, LCD_base_y, LCD_maxx
<1>9. InitByte(21) = 12
  BY DEF InitByte, LCD_Init, Command, Nibble, ClearCommands, LCD_base_y, LCD_maxx
<1>10. InitByte(23) = 1
  BY DEF InitByte, LCD_Init, Command, Nibble, ClearCommands, LCD_base_y, LCD_maxx
<1>11. InitByte(25) = 128
  BY DEF InitByte, LCD_Init, Command, Nibble, ClearCommands, LCD_base_y, LCD_maxx
<1>12. QED
  BY <1>1, <1>2, <1>3, <1>4, <1>5, <1>6, <1>7, <1>8, <1>9, <1>10, <1>11

(* A half byte of LCD_Init is written. *)
LEMMA InitialisingStep ==
  ASSUME TypeOK, Initialising, WriteNibble
  PROVE  Controlled'
<1> DEFINE w == InitLen - Len(out)
           n == Head(out)
           Next1 == LCD_Init[w + 1]
<1>1. /\ out \in Seq(Nibbles) /\ out # <<>> /\ out' = Tail(out) /\ Receive(n)
      /\ half \in Seq(Nibbles) /\ Len(half) <= 1 /\ bits \in {4, 8}
      /\ UNCHANGED <<main, LCD_x, LCD_y, resets>>
  BY DEF WriteNibble, TypeOK
<1>2. /\ screen = StartingScreen /\ line = 0 /\ at = 0 /\ 0 <= w
      /\ \A k \in 1..Len(out) : out[k] = LCD_Init[w + k]
  BY DEF Initialising, Written
<1>3. /\ bits = 8 => half = <<>>
      /\ w = 1 /\ bits = 4 => half = <<>> \/ half = <<LCD_Init[1]>>
      /\ w = 2 /\ bits = 4 => half = <<LCD_Init[1]>>
      /\ w = 3 => bits = 8
      /\ w >= 4 => bits = 4 /\ half = IF w % 2 = 0 THEN <<>> ELSE <<LCD_Init[w]>>
      /\ w >= 12 => step = 1
  BY DEF Initialising, Written
<1>4. Len(out) \in Int /\ Len(out) >= 1 /\ w \in Int /\ 0 <= w /\ w <= 25 /\ w = 26 - Len(out)
  BY <1>1, <1>2 DEF InitLen
<1>5. Len(out') = Len(out) - 1 /\ \A k \in 1..Len(out') : out'[k] = out[k + 1]
  BY <1>1
<1>6. InitLen - Len(out') = w + 1 /\ \A k \in 1..Len(out') : out'[k] = LCD_Init[w + 1 + k]
  BY <1>2, <1>4, <1>5 DEF InitLen
<1>7. n = Next1 /\ Next1.rs = 0 /\ Next1.code # NoCode
  <2>1. n = out[1] /\ out[1] = LCD_Init[w + 1]
    BY <1>1, <1>2, <1>4
  <2> HIDE DEF w
  <2>2. w + 1 \in 1..InitLen
    BY <1>4, SMTT(30) DEF InitLen
  <2>3. QED
    BY <2>1, <2>2, InitCommands
<1>8. Values(n) = {Next1.code}
  BY <1>7 DEF Values
<1> HIDE DEF w, n
<1>9. /\ bits = 4 /\ half = <<>> => half' = <<Next1>> /\ bits' = bits /\ step' = step
      /\ ~(bits = 4 /\ half = <<>>) => half' = <<>>
  BY <1>1, <1>7 DEF Receive
<1>10. bits = 8 => \E low \in 0..15 : Execute(16 * Next1.code + low)
  BY <1>1, <1>8 DEF Receive
<1>11. bits = 4 /\ half # <<>> => \E high \in Values(half[1]) : Execute(16 * high + Next1.code)
  BY <1>1, <1>7, <1>8 DEF Receive
<1> DEFINE Kept ==
      /\ bits' = 8 => half' = <<>>
      /\ w = 0 /\ bits' = 4 => half' = <<>> \/ half' = <<LCD_Init[1]>>
      /\ w = 1 /\ bits' = 4 => half' = <<LCD_Init[1]>>
      /\ w = 2 => bits' = 8
      /\ w >= 3 => bits' = 4 /\ half' = IF (w + 1) % 2 = 0 THEN <<>> ELSE <<LCD_Init[w + 1]>>
      /\ w >= 11 => step' = 1
<1>12. /\ LCD_Init[1] = LCD_Init[2]
       /\ LCD_Init[1].code = 3 /\ LCD_Init[1 + 1].code = 3 /\ LCD_Init[2 + 1].code = 3
       /\ LCD_Init[3 + 1].code = 2
  BY InitEights
<1>13. Values(LCD_Init[1]) = {3}
  BY <1>12 DEF Values, NoCode
<1>14. ASSUME w = 0 PROVE Kept
  BY <1>1, <1>9, <1>14
<1>15. ASSUME w \in {1, 2}, bits = 8 PROVE bits' = 8 /\ half' = <<>>
  <2>1. Next1.code = 3
    BY <1>12, <1>15
  <2>2. PICK low \in 0..15 : Execute(16 * Next1.code + low)
    BY <1>10, <1>15
  <2>3. bits' = 8
    BY <2>1, <2>2, FunctionSet
  <2>4. QED
    BY <1>9, <1>15, <2>3
<1>16. ASSUME w \in {1, 2}, bits = 4, half = <<LCD_Init[1]>> PROVE bits' = 8 /\ half' = <<>>
  <2>1. Next1.code = 3 /\ half # <<>> /\ half[1] = LCD_Init[1]
    BY <1>12, <1>16
  <2>2. Execute(16 * 3 + 3)
    BY <1>11, <1>13, <1>16, <2>1
  <2>3. bits' = 8
    BY <2>2, FunctionSet
  <2>4. QED
    BY <1>9, <1>16, <2>1, <2>3
<1>17. ASSUME w = 1 PROVE Kept
  <2>1. CASE bits = 4 /\ half = <<>>
    BY <1>9, <1>12, <1>17, <2>1
  <2>2. CASE ~(bits = 4 /\ half = <<>>)
    BY <1>1, <1>3, <1>15, <1>16, <1>17, <2>2
  <2>3. QED
    BY <2>1, <2>2
<1>18. ASSUME w = 2 PROVE Kept
  BY <1>1, <1>3, <1>15, <1>16, <1>18
<1>19. ASSUME w = 3 PROVE Kept
  <2>1. Next1.code = 2 /\ bits = 8
    BY <1>3, <1>12, <1>19
  <2>2. PICK low \in 0..15 : Execute(16 * Next1.code + low)
    BY <1>10, <2>1
  <2>3. bits' = 4
    BY <2>1, <2>2, FunctionSet
  <2>4. half' = <<>>
    BY <1>9, <2>1
  <2>5. QED
    BY <1>19, <2>3, <2>4
<1>20. ASSUME w >= 4 /\ w % 2 = 0 PROVE Kept
  <2>1. bits = 4 /\ half = <<>>
    BY <1>3, <1>20
  <2>2. half' = <<Next1>> /\ bits' = 4 /\ step' = step
    BY <1>9, <2>1
  <2>3. (w + 1) % 2 # 0 /\ (w >= 11 => w >= 12)
    BY <1>4, <1>20
  <2>4. QED
    BY <1>3, <1>20, <2>2, <2>3
<1>21. ASSUME w >= 4 /\ w % 2 # 0 PROVE Kept
  <2>1. bits = 4 /\ half = <<LCD_Init[w]>> /\ half # <<>> /\ half[1] = LCD_Init[w]
    <3>1. bits = 4 /\ half = <<LCD_Init[w]>>
      BY <1>3, <1>21
    <3>2. QED
      BY <3>1
  <2>2. w \in {5, 7, 9, 11, 13, 15, 17, 19, 21, 23, 25}
    BY <1>4, <1>21
  <2>3. LCD_Init[w].code # NoCode
    BY <2>2, InitCommands DEF InitLen
  <2>4. Execute(InitByte(w))
    BY <1>11, <2>1, <2>3 DEF Values, InitByte
  <2>5. /\ InitByte(w) \in {1, 2, 4, 6, 12, 40, 128, 133}
        /\ w = 11 => InitByte(w) = 6
        /\ w >= 13 => InitByte(w) \in {1, 2, 12, 128}
    BY <2>2, InitPairs
  <2>6. LET v == InitByte(w) IN
        bits' = 4 /\ (v \in {1, 6} => step' = 1) /\ (v \in {2, 12, 128} => step' = step)
    BY <2>1, <2>4, <2>5, InitExecuted
  <2>7. w >= 11 => w = 11 \/ w >= 13
    BY <2>2
  <2>8. w >= 11 => step' = 1
    <3>1. w = 11 => step' = 1
      BY <2>5, <2>6
    <3>2. ASSUME w >= 13 PROVE step' = 1
      <4>1. step = 1
        BY <1>3, <1>4, <3>2
      <4>2. InitByte(w) \in {1, 2, 12, 128}
        BY <2>5, <3>2
      <4>3. QED
        BY <2>6, <4>1, <4>2
    <3>3. QED
      BY <2>7, <3>1, <3>2
  <2>9. half' = <<>> /\ (w + 1) % 2 = 0
    BY <1>4, <1>9, <1>21, <2>1
  <2>10. QED
    BY <1>21, <2>6, <2>8, <2>9
<1>22. Kept
  <2>1. \/ w = 0 \/ w = 1 \/ w = 2 \/ w = 3
        \/ w >= 4 /\ w % 2 = 0
        \/ w >= 4 /\ w % 2 # 0
    BY <1>4, WrittenCases
  <2> HIDE DEF Kept
  <2>2. QED
    BY <2>1, <1>14, <1>17, <1>18, <1>19, <1>20, <1>21
<1> HIDE DEF Kept
<1>23. screen' = StartingScreen /\ line' = 0 /\ at' = 0
  BY <1>1, <1>2 DEF main
<1>24. CASE Len(out) > 1
  <2> DEFINE w2 == Written'
  <2>1. w2 = w + 1 /\ w2 >= 0 /\ w + 1 \in Int
    BY <1>4, <1>6 DEF Written
  <2>2. out' # <<>>
    BY <1>4, <1>5, <1>24
  <2>3. \A k \in 1..Len(out') : out'[k] = LCD_Init[w2 + k]
    BY <1>6, <2>1
  <2> HIDE DEF w2
  <2>4. /\ bits' = 8 => half' = <<>>
        /\ w2 = 1 /\ bits' = 4 => half' = <<>> \/ half' = <<LCD_Init[1]>>
        /\ w2 = 2 /\ bits' = 4 => half' = <<LCD_Init[1]>>
        /\ w2 = 3 => bits' = 8
    <3>1. (w2 = 1 => w = 0) /\ (w2 = 2 => w = 1) /\ (w2 = 3 => w = 2)
      BY <1>4, <2>1, WrittenCases
    <3>2. QED
      BY <1>22, <3>1 DEF Kept
  <2>5. /\ w2 >= 4 => w >= 3
        /\ w2 >= 12 => w >= 11
    BY <1>4, <2>1
  <2>6. /\ w2 >= 4 => bits' = 4 /\ half' = IF w2 % 2 = 0 THEN <<>> ELSE <<LCD_Init[w2]>>
        /\ w2 >= 12 => step' = 1
    BY <1>22, <2>1, <2>5 DEF Kept
  <2>7. Initialising'
    BY <1>23, <2>1, <2>2, <2>3, <2>4, <2>6 DEF Initialising, w2
  <2>8. QED
    BY <2>7 DEF Controlled
<1>25. CASE Len(out) = 1
  <2>1. w = 25 /\ out' = <<>>
    BY <1>1, <1>4, <1>5, <1>25
  <2>2. bits' = 4 /\ step' = 1 /\ half' = <<>>
    BY <1>22, <2>1 DEF Kept
  <2>3. screen'.lines = 2
    BY <1>23 DEF StartingScreen, Screen
  <2>4. Shown(address, cells)'
    BY <1>23, <2>3 DEF Shown, ScreenShown
  <2>5. Printing'
    BY <2>1, <2>2, <2>4 DEF Printing
  <2>6. QED
    BY <2>5 DEF Controlled
<1>26. Len(out) > 1 \/ Len(out) = 1
  BY <1>4
<1>27. QED
  BY <1>24, <1>25, <1>26

-----------------------------------------------------------------------------
(* The bytes of a character, and of a line's address *)
LEMMA CharacterBytes ==
  ASSUME NEW char \in Chars
  PROVE  \E a, b \in Nibbles :
           /\ Character(char) = <<a, b>>
           /\ b.rs = 1 /\ b.low /\ b.char = char
<1>1. Nibble(1, NoCode, char, FALSE) \in Nibbles /\ Nibble(1, NoCode, char, TRUE) \in Nibbles
  BY DEF Nibble, Nibbles
<1>2. Character(char) = <<Nibble(1, NoCode, char, FALSE), Nibble(1, NoCode, char, TRUE)>>
  BY DEF Character
<1>3. LET b == Nibble(1, NoCode, char, TRUE) IN b.rs = 1 /\ b.low /\ b.char = char
  BY DEF Nibble
<1>4. QED
  BY <1>1, <1>2, <1>3

LEMMA AddressBytes ==
  ASSUME NEW y \in {0, 1}
  PROVE  \E a, b \in Nibbles :
           /\ Command(LCD_base_y(y)) = <<a, b>>
           /\ b.rs = 0
           /\ \A high \in Values(a), low \in Values(b) : 16 * high + low = 128 + 64 * y
<1> DEFINE high == IF y = 0 THEN 8 ELSE 12
           a    == Nibble(0, high, Blank, FALSE)
           b    == Nibble(0, 0, Blank, TRUE)
<1>1. Command(LCD_base_y(y)) = <<a, b>>
  <2>1. CASE y = 0
    BY <2>1, LineAddresses, CommandHalves DEF Halves
  <2>2. CASE y = 1
    BY <2>2, LineAddresses, CommandHalves DEF Halves
  <2>3. QED
    BY <2>1, <2>2
<1>2. a \in Nibbles /\ b \in Nibbles
  BY ConstantChars DEF Nibble, Nibbles
<1>3. b.rs = 0 /\ Values(a) = {high} /\ Values(b) = {0}
  BY DEF Nibble, Values, NoCode
<1>4. 16 * high + 0 = 128 + 64 * y
  OBVIOUS
<1> HIDE DEF a, b, high
<1>5. QED
  BY <1>1, <1>2, <1>3, <1>4

(* When the driver has written its bytes, the screen is as it must be. *)
LEMMA WrittenOut ==
  ASSUME Controlled, out = <<>>
  PROVE  bits = 4 /\ step = 1 /\ half = <<>> /\ Shown(address, cells)
<1>1. \A bytes : bytes # <<>> /\ Tail(bytes) # <<>> => ~Sent(bytes)
  BY DEF Sent
<1>2. Printing
  BY DEF Controlled, Initialising
<1>3. ASSUME NEW char \in Chars PROVE ~Sent(Character(char))
  <2>1. PICK c, d \in Nibbles : Character(char) = <<c, d>>
    BY CharacterBytes
  <2>2. Character(char) # <<>> /\ Tail(Character(char)) # <<>>
    BY <2>1
  <2>3. QED
    BY <1>1, <2>2
<1>4. ASSUME NEW y \in {0, 1} PROVE ~Sent(Command(LCD_base_y(y)))
  <2>1. PICK a, b \in Nibbles : Command(LCD_base_y(y)) = <<a, b>>
    BY AddressBytes
  <2>2. Command(LCD_base_y(y)) # <<>> /\ Tail(Command(LCD_base_y(y))) # <<>>
    BY <2>1
  <2>3. QED
    BY <1>1, <2>2
<1>5. ASSUME NEW char \in Chars PROVE ~Sent(Command(LCD_base_y(1)) \o Character(char))
  <2> DEFINE bytes == Command(LCD_base_y(1)) \o Character(char)
  <2>1. PICK a, b \in Nibbles : Command(LCD_base_y(1)) = <<a, b>>
    BY AddressBytes
  <2>2. /\ Command(LCD_base_y(1)) \in Seq(Nibbles) /\ Len(Command(LCD_base_y(1))) = 2
        /\ Character(char) \in Seq(Nibbles)
    <3>1. Command(LCD_base_y(1)) = <<a, b>>
      BY <2>1
    <3>2. QED
      BY <3>1, CharacterTyped, CommandTyped, LineAddresses
  <2>3. bytes # <<>> /\ Tail(bytes) # <<>>
    BY <2>2, PairConcat
  <2>4. QED
    BY <1>1, <2>3
<1>6. QED
  BY <1>2, <1>3, <1>4, <1>5 DEF Printing

(* A half byte of what SetStatus prints is written. *)
LEMMA PrintingStep ==
  ASSUME TypeOK, Printing, WriteNibble
  PROVE  Printing'
<1> DEFINE n == Head(out)
<1>1. /\ out # <<>> /\ out' = Tail(out) /\ Receive(n)
      /\ UNCHANGED <<main, LCD_x, LCD_y, resets>> /\ bits = 4 /\ step = 1
  BY DEF WriteNibble, Printing
<1>2. \A a, cs : Shown(a, cs) <=> ScreenShown(screen', line', at', LCD_x', a, cs)
  BY <1>1 DEF main, Shown
<1> HIDE DEF n
<1>3. half = <<>> => half' = <<n>> /\ UNCHANGED <<bits, address, step, cells>>
  BY <1>1 DEF Receive
<1>4. half # <<>> /\ n.rs = 0 =>
        half' = <<>> /\ \E high \in Values(half[1]), low \in Values(n) : Execute(16 * high + low)
  BY <1>1 DEF Receive
<1>5. half # <<>> /\ n.rs = 1 /\ n.low => half' = <<>> /\ WriteChar(n.char)
  BY <1>1 DEF Receive
<1>6. ASSUME NEW char \in Chars, Sent(Character(char)), Shown(Moved(address, 1), Put(cells, address, char))
      PROVE  Printing'
  <2>1. PICK a, b \in Nibbles : Character(char) = <<a, b>> /\ b.rs = 1 /\ b.low /\ b.char = char
    BY CharacterBytes
  <2>2. CASE out = <<a, b>> /\ half = <<>>
    <3>1. n = a /\ out' = <<b>>
      BY <1>1, <2>2, PairParts DEF n
    <3>2. half' = <<a>> /\ bits' = 4 /\ step' = 1 /\ address' = address /\ cells' = cells
      BY <1>1, <1>3, <2>2, <3>1
    <3>3. Sent(Character(char))'
      BY <2>1, <3>1, <3>2, PairParts DEF Sent
    <3>4. Shown(Moved(address, 1), Put(cells, address, char))'
      BY <1>2, <1>6, <3>2 DEF Shown
    <3>5. QED
      BY <3>2, <3>3, <3>4 DEF Printing
  <2>3. CASE out = <<b>> /\ half = <<a>>
    <3>1. n = b /\ out' = <<>> /\ half # <<>>
      BY <1>1, <2>3, PairParts DEF n
    <3>2. half' = <<>> /\ WriteChar(char)
      BY <1>5, <2>1, <3>1
    <3>3. /\ cells' = Put(cells, address, char) /\ address' = Moved(address, 1)
          /\ bits' = 4 /\ step' = 1
      BY <1>1, <3>2 DEF WriteChar, Put
    <3>4. Shown(address, cells)'
      BY <1>2, <1>6, <3>3 DEF Shown
    <3>5. QED
      BY <3>1, <3>2, <3>3, <3>4 DEF Printing
  <2>4. QED
    BY <1>6, <2>1, <2>2, <2>3, PairParts DEF Sent
<1>7. ASSUME NEW y \in {0, 1}, Sent(Command(LCD_base_y(y))), Shown(64 * y, cells)
      PROVE  Printing'
  <2>1. PICK a, b \in Nibbles :
           /\ Command(LCD_base_y(y)) = <<a, b>> /\ b.rs = 0
           /\ \A high \in Values(a), low \in Values(b) : 16 * high + low = 128 + 64 * y
    BY AddressBytes
  <2>2. CASE out = <<a, b>> /\ half = <<>>
    <3>1. n = a /\ out' = <<b>>
      BY <1>1, <2>2, PairParts DEF n
    <3>2. half' = <<a>> /\ bits' = 4 /\ step' = 1 /\ address' = address /\ cells' = cells
      BY <1>1, <1>3, <2>2, <3>1
    <3>3. Sent(Command(LCD_base_y(y)))'
      BY <2>1, <3>1, <3>2, PairParts DEF Sent
    <3>4. Shown(64 * y, cells)'
      BY <1>2, <1>7, <3>2 DEF Shown
    <3>5. QED
      BY <3>2, <3>3, <3>4 DEF Printing
  <2>3. CASE out = <<b>> /\ half = <<a>>
    <3>1. n = b /\ out' = <<>> /\ half # <<>> /\ half[1] = a
      BY <1>1, <2>3, PairParts DEF n
    <3>2. half' = <<>> /\ Execute(128 + 64 * y)
      BY <1>4, <2>1, <3>1
    <3>3. address' = 64 * y /\ bits' = 4 /\ step' = 1 /\ cells' = cells
      BY <1>1, <3>2, AddressSet
    <3>4. Shown(address, cells)'
      BY <1>2, <1>7, <3>3 DEF Shown
    <3>5. QED
      BY <3>1, <3>2, <3>3, <3>4 DEF Printing
  <2>4. QED
    BY <1>7, <2>1, <2>2, <2>3, PairParts DEF Sent
<1>8. ASSUME NEW char \in Chars, Sent(Command(LCD_base_y(1)) \o Character(char)),
             Shown(65, Put(cells, 64, char))
      PROVE  Printing'
  <2>1. PICK a, b \in Nibbles :
           /\ Command(LCD_base_y(1)) = <<a, b>> /\ b.rs = 0
           /\ \A high \in Values(a), low \in Values(b) : 16 * high + low = 128 + 64 * 1
    BY AddressBytes
  <2>2. /\ Command(LCD_base_y(1)) \in Seq(Nibbles) /\ Len(Command(LCD_base_y(1))) = 2
        /\ Command(LCD_base_y(1))[1] = a /\ Command(LCD_base_y(1))[2] = b
        /\ Character(char) \in Seq(Nibbles)
    <3>1. Command(LCD_base_y(1)) = <<a, b>>
      BY <2>1
    <3>2. Len(Command(LCD_base_y(1))) = 2 /\ Command(LCD_base_y(1))[1] = a /\ Command(LCD_base_y(1))[2] = b
      BY <3>1
    <3>3. QED
      BY <3>2, CharacterTyped, CommandTyped, LineAddresses
  <2> DEFINE bytes == Command(LCD_base_y(1)) \o Character(char)
  <2>3. /\ bytes # <<>> /\ Head(bytes) = a /\ Tail(bytes) # <<>> /\ Head(Tail(bytes)) = b
        /\ Tail(Tail(bytes)) = Character(char)
    BY <2>2, PairConcat
  <2>4. (out = bytes /\ half = <<>>) \/ (out = Tail(bytes) /\ half = <<a>>)
    BY <1>8, <2>3 DEF Sent
  <2> HIDE DEF bytes
  <2>5. CASE out = bytes /\ half = <<>>
    <3>1. n = a /\ out' = Tail(bytes)
      BY <1>1, <2>3, <2>5 DEF n
    <3>2. half' = <<a>> /\ bits' = 4 /\ step' = 1 /\ address' = address /\ cells' = cells
      BY <1>1, <1>3, <2>5, <3>1
    <3>3. Sent(bytes)'
      BY <2>3, <3>1, <3>2 DEF Sent, bytes
    <3>4. Shown(65, Put(cells, 64, char))'
      BY <1>2, <1>8, <3>2 DEF Shown
    <3>5. QED
      BY <3>2, <3>3, <3>4 DEF Printing, bytes
  <2>6. CASE out = Tail(bytes) /\ half = <<a>>
    <3>1. n = b /\ out' = Character(char) /\ half # <<>> /\ half[1] = a
      BY <1>1, <2>3, <2>6 DEF n
    <3>2. half' = <<>> /\ Execute(128 + 64 * 1)
      BY <1>4, <2>1, <3>1
    <3>3. address' = 64 /\ bits' = 4 /\ step' = 1 /\ cells' = cells
      BY <1>1, <3>2, AddressSet
    <3>4. Sent(Character(char))'
      BY <3>1, <3>2 DEF Sent
    <3>5. Moved(64, 1) = 65
      BY DEF Moved, CharacterGenerator
    <3>6. Shown(Moved(address, 1), Put(cells, address, char))'
      BY <1>2, <1>8, <3>3, <3>5 DEF Shown
    <3>7. QED
      BY <3>3, <3>4, <3>6 DEF Printing
  <2>7. QED
    BY <2>4, <2>5, <2>6
<1>9. ~(out = <<>> /\ half = <<>> /\ Shown(address, cells))
  BY <1>1
<1>10. QED
  BY <1>6, <1>7, <1>8, <1>9 DEF Printing

(* The addresses of the two lines *)
LEMMA LineCells == \A z \in {0, 1}, i \in 0..(LCD_maxx - 1) : 64 * z + i \in Visible
BY DEF Visible, LCD_maxx

LEMMA PutCells ==
  ASSUME NEW cs \in [Visible -> Chars], NEW a \in Visible, NEW char, NEW b \in Visible
  PROVE  Put(cs, a, char)[b] = IF b = a THEN char ELSE cs[b]
BY DEF Put

(* The driver goes to the line, before its blanks or before its text. *)
LEMMA ToLine ==
  ASSUME NEW scr, NEW y \in {0, 1}, NEW k \in {0, 17}, NEW x, NEW a, NEW cs,
         scr.text[y + 1].len \in Int, 0 <= scr.text[y + 1].len,
         ScreenShown(scr, y, k, x, a, cs),
         NEW l2, NEW k2, IF k = 17 + scr.text[y + 1].len THEN l2 = y + 1 /\ k2 = 0 ELSE l2 = y /\ k2 = k + 1
  PROVE  ScreenShown(scr, l2, k2, 0, 64 * y, cs)
<1> DEFINE text == scr.text[y + 1]
<1>1. /\ \A z \in {0, 1} : z < y => LineShown(scr.text[z + 1], z, cs)
      /\ scr.lines = 1 => LineShown(scr.text[2], 1, cs)
  BY DEF ScreenShown
<1>2. k = 17 => \A i \in 0..(LCD_maxx - 1) : cs[64 * y + i] = Blank
  <2>1. k = 17 => LinePrinted(text, y, k, x, a, cs)
    BY DEF ScreenShown
  <2>2. QED
    BY <2>1 DEF LinePrinted, Blanks, LCD_maxx
<1> HIDE DEF text
<1>3. CASE k = 17 /\ text.len = 0
  <2>1. l2 = y + 1 /\ k2 = 0
    BY <1>3 DEF text
  <2>2. LineShown(text, y, cs)
    BY <1>2, <1>3 DEF LineShown, LCD_maxx
  <2>3. \A z \in {0, 1} : z < l2 => z < y \/ z = y
    BY <2>1
  <2>4. QED
    BY <1>1, <2>1, <2>2, <2>3 DEF ScreenShown, text
<1>4. CASE k = 17 /\ text.len # 0
  <2>1. l2 = y /\ k2 = 18
    BY <1>4 DEF text
  <2>2. LinePrinted(text, y, k2, 0, 64 * y, cs)
    BY <1>2, <1>4, <2>1 DEF LinePrinted, Blanks, LCD_maxx
  <2>3. QED
    BY <1>1, <2>1, <2>2 DEF ScreenShown, text
<1>5. CASE k = 0
  <2>1. l2 = y /\ k2 = 1
    BY <1>5 DEF text
  <2>2. LinePrinted(text, y, k2, 0, 64 * y, cs)
    BY <2>1 DEF LinePrinted, Blanks, LCD_maxx
  <2>3. QED
    BY <1>1, <2>1, <2>2 DEF ScreenShown, text
<1>6. QED
  BY <1>3, <1>4, <1>5

(* The driver writes the next character of the line. *)
LEMMA NextCharacter ==
  ASSUME NEW scr, NEW y \in {0, 1}, NEW k \in Int, 1 <= k, k # 17, NEW x \in Int, x <= 15,
         x = IF k <= 17 THEN k - 1 ELSE k - 18,
         NEW a, NEW cs \in [Visible -> Chars],
         scr.text[y + 1].len \in Int, 0 <= scr.text[y + 1].len, k <= 17 + scr.text[y + 1].len,
         ScreenShown(scr, y, k, x, a, cs), scr.lines = 1 => y = 0,
         NEW char, char = IF k <= 16 THEN Blank ELSE <<scr.text[y + 1].name, x + 1>>,
         NEW l2, NEW k2, IF k = 17 + scr.text[y + 1].len THEN l2 = y + 1 /\ k2 = 0 ELSE l2 = y /\ k2 = k + 1
  PROVE  ScreenShown(scr, l2, k2, x + 1, Moved(a, 1), Put(cs, a, char))
<1> DEFINE text == scr.text[y + 1]
           p == Put(cs, a, char)
<1>1. /\ \A z \in {0, 1} : z < y => LineShown(scr.text[z + 1], z, cs)
      /\ scr.lines = 1 => LineShown(scr.text[2], 1, cs)
      /\ LinePrinted(text, y, k, x, a, cs)
  BY DEF ScreenShown
<1>2. /\ a = 64 * y + x
      /\ \A i \in 0..(LCD_maxx - 1) :
           IF k <= 17 THEN i < k - 1 => cs[64 * y + i] = Blank
           ELSE cs[64 * y + i] = IF i < k - 18 THEN <<text.name, i + 1>> ELSE Blank
  BY <1>1 DEF LinePrinted, Blanks
<1>3. 0 <= x
  OBVIOUS
<1> HIDE DEF p, text
<1>4. /\ Moved(a, 1) = a + 1
      /\ \A z \in {0, 1}, i \in 0..(LCD_maxx - 1) :
           p[64 * z + i] = IF z = y /\ i = x THEN char ELSE cs[64 * z + i]
  <2>1. a \in Visible /\ a + 1 \in Int
    BY <1>2, <1>3 DEF Visible
  <2>2. \A b \in Visible : p[b] = IF b = a THEN char ELSE cs[b]
    BY <2>1, PutCells DEF p
  <2>3. Moved(a, 1) = a + 1
    BY <1>2, <1>3 DEF Moved, CharacterGenerator
  <2>4. \A z \in {0, 1}, i \in 0..(LCD_maxx - 1) : 64 * z + i = a <=> z = y /\ i = x
    BY <1>2, <1>3 DEF LCD_maxx
  <2>5. QED
    BY <2>2, <2>3, <2>4, LineCells
<1>5. \A i \in 0..(LCD_maxx - 1) :
        IF k <= 16 THEN i < k => p[64 * y + i] = Blank
        ELSE p[64 * y + i] = IF i < k - 17 THEN <<text.name, i + 1>> ELSE Blank
  BY <1>2, <1>3, <1>4 DEF LCD_maxx, text
<1>6. \A z \in {0, 1} : z # y /\ LineShown(scr.text[z + 1], z, cs) => LineShown(scr.text[z + 1], z, p)
  BY <1>4 DEF LineShown
<1>7. CASE k = 17 + text.len
  <2>1. l2 = y + 1 /\ k2 = 0 /\ ~(k <= 16) /\ k - 17 = text.len
    BY <1>7 DEF text
  <2>2. LineShown(text, y, p)
    BY <1>5, <2>1 DEF LineShown
  <2>3. QED
    BY <1>1, <1>6, <2>1, <2>2 DEF ScreenShown, text, p
<1>8. CASE k # 17 + text.len
  <2>1. l2 = y /\ k2 = k + 1
    BY <1>8 DEF text
  <2>2. LinePrinted(text, y, k2, x + 1, Moved(a, 1), p)
    BY <1>2, <1>4, <1>5, <2>1 DEF LinePrinted, Blanks
  <2>3. QED
    BY <1>1, <1>6, <2>1, <2>2 DEF ScreenShown, text, p
<1>9. QED
  BY <1>7, <1>8

(* The driver writes a character too many: it goes to the other line, whose
   printing has not begun. *)
LEMMA LastCharacter ==
  ASSUME NEW scr, NEW x, NEW a, NEW cs \in [Visible -> Chars], NEW char,
         scr.text[1].len = 17, scr.lines = 2, ScreenShown(scr, 0, 34, x, a, cs)
  PROVE  ScreenShown(scr, 1, 0, 0, 65, Put(cs, 64, char))
<1> DEFINE p == Put(cs, 64, char)
<1>1. \A i \in 0..(LCD_maxx - 1) :
        cs[64 * 0 + i] = IF i < 16 THEN <<scr.text[1].name, i + 1>> ELSE Blank
  BY DEF ScreenShown, LinePrinted, Blanks
<1> HIDE DEF p
<1>2. 64 \in Visible
  BY DEF Visible
<1>3. \A i \in 0..(LCD_maxx - 1) : p[64 * 0 + i] = cs[64 * 0 + i]
  <2>1. \A b \in Visible : p[b] = IF b = 64 THEN char ELSE cs[b]
    BY <1>2, PutCells DEF p
  <2>2. \A i \in 0..(LCD_maxx - 1) : 64 * 0 + i \in Visible /\ 64 * 0 + i # 64
    BY DEF Visible, LCD_maxx
  <2>3. QED
    BY <2>1, <2>2
<1>4. LineShown(scr.text[1], 0, p)
  <2>1. SUFFICES ASSUME NEW i \in 0..(LCD_maxx - 1)
                 PROVE  p[64 * 0 + i] = IF i < scr.text[1].len THEN <<scr.text[1].name, i + 1>> ELSE Blank
    BY DEF LineShown
  <2>2. p[64 * 0 + i] = cs[64 * 0 + i]
    BY <1>3, <2>1
  <2>3. QED
    BY <1>1, <2>1, <2>2 DEF LCD_maxx
<1>5. QED
  BY <1>4 DEF ScreenShown, p

(* setStatus takes a step. *)
LEMMA StatusPrints ==
  ASSUME TypeOK, Progress, Controlled, SetStatus
  PROVE  Printing'
<1> DEFINE text == TextOf(line)
<1>1. /\ out = <<>> /\ line < screen.lines /\ line \in {0, 1}
      /\ text.len \in Int /\ 0 <= text.len /\ at <= Blanks + 1 + text.len
      /\ IF at = Blanks + 1 + text.len THEN line' = line + 1 /\ at' = 0
                                       ELSE line' = line /\ at' = at + 1
      /\ StatusSteps(text)
  BY StatusStep
<1>2. screen' = screen /\ bits' = bits /\ half' = half /\ address' = address /\ step' = step /\ cells' = cells
  BY StatusStep DEF controller
<1>3. bits = 4 /\ step = 1 /\ half = <<>> /\ Shown(address, cells)
  BY <1>1, WrittenOut
<1>4. /\ at \in Int /\ 0 <= at /\ LCD_x \in Int /\ 0 <= LCD_x /\ LCD_x <= 16
      /\ at > 0 => LCD_x = IF at <= 17 THEN at - 1 ELSE at - 18
      /\ cells \in [Visible -> Chars]
  BY <1>1 DEF TypeOK, Progress, LCD_maxx, Blanks
<1>5. screen \in Screens /\ screen.lines \in {1, 2} /\ (screen.lines = 1 => line = 0)
  BY <1>1, ScreenFields DEF TypeOK
<1>6. text = screen.text[line + 1]
  BY DEF TextOf
<1>7. \A k \in Int : 0 <= k /\ k <= 17 => <<text.name, k>> \in Chars
  BY <1>1, <1>5, <1>6, TextChars
<1> HIDE DEF text
<1>8. IF at = 17 + screen.text[line + 1].len THEN line' = line + 1 /\ at' = 0
                                            ELSE line' = line /\ at' = at + 1
  BY <1>1, <1>6 DEF Blanks
<1>9. ScreenShown(screen, line, at, LCD_x, address, cells)
  BY <1>3 DEF Shown
<1>10. CASE at \in {0, Blanks + 1} /\ out' = Command(LCD_base_y(line)) /\ LCD_x' = 0
  <2>1. at \in {0, 17}
    BY <1>10 DEF Blanks
  <2>2. ScreenShown(screen, line', at', 0, 64 * line, cells)
    BY <1>1, <1>6, <1>8, <1>9, <2>1, ToLine
  <2>3. PICK y \in {0, 1} : y = line
    BY <1>1
  <2>4. Shown(64 * y, cells)'
    BY <1>2, <1>10, <2>2, <2>3 DEF Shown
  <2>5. Sent(Command(LCD_base_y(y)))'
    BY <1>2, <1>3, <1>10, <2>3 DEF Sent
  <2>6. QED
    BY <1>2, <1>3, <2>4, <2>5 DEF Printing
<1>11. ASSUME 1 <= at, at # 17, LCD_x <= 15, LCD_x' = LCD_x + 1,
              NEW char \in Chars, char = IF at <= 16 THEN Blank ELSE <<text.name, LCD_x + 1>>,
              out' = Character(char)
       PROVE  Printing'
  <2>1. ScreenShown(screen, line', at', LCD_x + 1, Moved(address, 1), Put(cells, address, char))
    <3>1. /\ line \in {0, 1} /\ at \in Int /\ LCD_x \in Int
          /\ LCD_x = IF at <= 17 THEN at - 1 ELSE at - 18
      BY <1>1, <1>4, <1>11
    <3>2. /\ screen.text[line + 1].len \in Int /\ 0 <= screen.text[line + 1].len
          /\ at <= 17 + screen.text[line + 1].len
      BY <1>1, <1>6 DEF Blanks
    <3>3. char = IF at <= 16 THEN Blank ELSE <<screen.text[line + 1].name, LCD_x + 1>>
      BY <1>6, <1>11
    <3>4. QED
      BY <1>4, <1>5, <1>8, <1>9, <1>11, <3>1, <3>2, <3>3, NextCharacter
  <2>2. Shown(Moved(address, 1), Put(cells, address, char))'
    BY <1>2, <1>11, <2>1 DEF Shown
  <2>3. Sent(Character(char))'
    BY <1>2, <1>3, <1>11 DEF Sent
  <2>4. QED
    BY <1>2, <1>3, <2>2, <2>3 DEF Printing
<1>12. CASE at \in 1..Blanks /\ out' = Character(Blank) /\ LCD_x' = LCD_x + 1
  <2>1. 1 <= at /\ at <= 16 /\ at # 17 /\ LCD_x <= 15
    BY <1>4, <1>12 DEF Blanks
  <2>2. QED
    BY <1>11, <1>12, <2>1, ConstantChars
<1>13. CASE /\ at > Blanks + 1 /\ LCD_x < LCD_maxx /\ out' = Character(<<text.name, at - Blanks - 1>>)
            /\ LCD_x' = LCD_x + 1
  <2>1. 1 <= at /\ ~(at <= 16) /\ at # 17 /\ LCD_x <= 15 /\ at - Blanks - 1 = LCD_x + 1
    BY <1>4, <1>13 DEF Blanks, LCD_maxx
  <2>2. <<text.name, LCD_x + 1>> \in Chars
    BY <1>4, <1>7, <2>1
  <2>3. QED
    BY <1>11, <1>13, <2>1, <2>2
<1>14. CASE /\ at = Blanks + 2 + LCD_maxx /\ line = 0 /\ text.len = 17 /\ screen.lines = 2
            /\ out' = Command(LCD_base_y(1)) \o Character(<<text.name, 17>>)
            /\ LCD_x' = 0
  <2>1. at = 34 /\ screen.text[1].len = 17 /\ line' = 1 /\ at' = 0
    BY <1>6, <1>8, <1>14 DEF Blanks, LCD_maxx
  <2>2. ScreenShown(screen, 0, 34, LCD_x, address, cells)
    BY <1>9, <1>14, <2>1
  <2>3. PICK char \in Chars : char = <<text.name, 17>>
    <3>1. <<text.name, 17>> \in Chars
      BY <1>7
    <3>2. QED
      BY <3>1
  <2>4. ScreenShown(screen, 1, 0, 0, 65, Put(cells, 64, char))
    BY <1>4, <1>14, <2>1, <2>2, LastCharacter
  <2>5. Shown(65, Put(cells, 64, char))'
    BY <1>2, <1>14, <2>1, <2>4 DEF Shown
  <2>6. Sent(Command(LCD_base_y(1)) \o Character(char))'
    BY <1>2, <1>3, <1>14, <2>3 DEF Sent
  <2>7. QED
    BY <1>2, <1>3, <2>5, <2>6 DEF Printing
<1>15. QED
  BY <1>1, <1>10, <1>12, <1>13, <1>14 DEF StatusSteps

(* main prints the next screen: one that is printed on one line follows one whose
   other line is empty. *)
LEMMA NextScreenPrints ==
  ASSUME TypeOK, Controlled, NextScreen
  PROVE  Printing'
<1>1. /\ out = <<>> /\ line = screen.lines /\ line' = 0 /\ at' = 0
      /\ screen' \in Screens /\ screen'.state \in Follows(screen.state)
      /\ out' = out /\ bits' = bits /\ half' = half /\ address' = address /\ step' = step /\ cells' = cells
  BY DEF NextScreen, driver, controller
<1>2. bits = 4 /\ step = 1 /\ half = <<>> /\ ScreenShown(screen, line, at, LCD_x, address, cells)
  BY <1>1, WrittenOut DEF Shown
<1>3. ASSUME screen'.lines = 1 PROVE LineShown(screen'.text[2], 1, cells)
  <2>1. screen'.state = "scanning" /\ screen'.text[2] = Empty
    BY <1>1, <1>3, ScreenFields
  <2>2. screen.state = "idle"
    BY <1>1, <2>1 DEF Follows
  <2>3. screen.lines = 2 /\ screen.text[2] = Empty
    BY <2>2, ScreenFields DEF TypeOK
  <2>4. LineShown(screen.text[1 + 1], 1, cells)
    BY <1>1, <1>2, <2>3 DEF ScreenShown
  <2>5. QED
    BY <2>1, <2>3, <2>4
<1>4. ScreenShown(screen', line', at', LCD_x', address', cells')
  BY <1>1, <1>3 DEF ScreenShown
<1>5. Shown(address, cells)'
  BY <1>4 DEF Shown
<1>6. QED
  BY <1>1, <1>2, <1>5 DEF Printing

(* A reset comes. *)
LEMMA ResetInitialises ==
  ASSUME TypeOK, Controlled, Reset
  PROVE  Initialising'
<1>1. /\ screen' = StartingScreen /\ line' = 0 /\ at' = 0 /\ out' = LCD_Init
      /\ bits' = bits /\ half' = half
  BY DEF Reset, controller
<1>2. bits = 8 => half = <<>>
  BY DEF Controlled, Initialising, Printing
<1>3. Len(LCD_Init) = 26
  BY InitLength DEF InitLen
<1>4. Written' = 0
  BY <1>1, <1>3 DEF Written, InitLen
<1>5. out' # <<>>
  BY <1>1, InitNotEmpty
<1>6. \A k \in 1..Len(out') : out'[k] = LCD_Init[Written' + k]
  BY <1>1, <1>3, <1>4
<1>7. QED
  BY <1>1, <1>2, <1>4, <1>5, <1>6 DEF Initialising

(* The controller takes the half bytes for what the driver means by them, and what
   it shows is what main has printed so far: invariant, but for the half bytes of
   the initialisation, for which Initialising says how far the controller is. *)
THEOREM Control == Spec => []Controlled
<1>1. Init => Controlled
  <2> SUFFICES ASSUME Init PROVE Controlled
    OBVIOUS
  <2>1. Len(LCD_Init) = 26 /\ out = LCD_Init
    BY InitLength DEF InitLen, Init
  <2>2. Written = 0 /\ out # <<>>
    BY <2>1, InitNotEmpty DEF Written, InitLen
  <2>3. \A k \in 1..Len(out) : out[k] = LCD_Init[Written + k]
    BY <2>1, <2>2
  <2>4. QED
    BY <2>2, <2>3 DEF Init, Initialising, Controlled
<1>2. TypeOK /\ Progress /\ Controlled /\ [Next]_vars => Controlled'
  <2> SUFFICES ASSUME TypeOK, Progress, Controlled, [Next]_vars PROVE Controlled'
    OBVIOUS
  <2>1. CASE SetStatus
    BY <2>1, StatusPrints DEF Controlled
  <2>2. CASE NextScreen
    BY <2>2, NextScreenPrints DEF Controlled
  <2>3. CASE WriteNibble
    BY <2>3, InitialisingStep, PrintingStep DEF Controlled
  <2>4. CASE Reset
    BY <2>4, ResetInitialises DEF Controlled
  <2>5. CASE UNCHANGED vars
    <3>1. Initialising => Initialising'
      BY <2>5 DEF vars, main, driver, controller, Initialising, Written
    <3>2. Printing => Printing'
      BY <2>5 DEF vars, main, driver, controller, Printing, Sent, Shown
    <3>3. QED
      BY <3>1, <3>2 DEF Controlled
  <2>6. QED
    BY <2>1, <2>2, <2>3, <2>4, <2>5 DEF Next
<1>3. QED
  BY <1>1, <1>2, Typing, PTL DEF Spec

(* Whenever the driver has written its bytes, the controller has taken them for
   those bytes, wherever resets have cut the bytes before. *)
THEOREM InStepHolds == Spec => []InStep
<1>1. Controlled => InStep
  BY WrittenOut DEF InStep
<1>2. QED
  BY <1>1, Control, PTL

(* When main has printed a screen, both lines show its texts and nothing else. *)
THEOREM ShowsScreenHolds == Spec => []ShowsScreen
<1>1. TypeOK /\ Controlled => ShowsScreen
  <2> SUFFICES ASSUME TypeOK, Controlled, out = <<>>, line = screen.lines,
                      NEW y \in {0, 1}, NEW x \in 0..(LCD_maxx - 1)
               PROVE  LET text == screen.text[y + 1] IN
                      cells[64 * y + x] = IF x < text.len THEN <<text.name, x + 1>> ELSE Blank
    BY DEF ShowsScreen
  <2>1. ScreenShown(screen, line, at, LCD_x, address, cells)
    BY WrittenOut DEF Shown
  <2>2. screen.lines \in {1, 2}
    BY ScreenFields DEF TypeOK
  <2>3. LineShown(screen.text[y + 1], y, cells)
    <3>1. CASE y < line
      BY <2>1, <3>1 DEF ScreenShown
    <3>2. CASE ~(y < line)
      <4>1. y = 1 /\ screen.lines = 1
        BY <2>2, <3>2
      <4>2. LineShown(screen.text[2], 1, cells)
        BY <2>1, <4>1 DEF ScreenShown
      <4>3. QED
        BY <4>1, <4>2
    <3>3. QED
      BY <3>1, <3>2
  <2>4. QED
    BY <2>3 DEF LineShown
<1>2. QED
  BY <1>1, Control, TypeHolds, PTL
=============================================================================
