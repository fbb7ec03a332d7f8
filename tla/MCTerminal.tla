----------------------------- MODULE MCTerminal -----------------------------
(* Instances of Terminal for TLC: cards as model values, interchangeable. *)
EXTENDS Terminal, TLC

CONSTANTS anna, bo

TwoCards == {anna, bo}
OneCard  == {anna}

(* The codes that come with a price; one of them has it printed. *)
Charges    == PriceCodes
OneCode    == {RESP_CHECKED_OUT}
TwoCodes   == {RESP_CHECKED_IN, RESP_CHECKED_OUT}
NoEcho     == {}
SomeEcho   == {RESP_OK}

(* A command without a name, and a read of one that has its data written. *)
Unnamed    == {5}
ReadOfAnswer == {CMD_RESPONSE}

Interchangeable == Permutations(TwoCards)
=============================================================================
