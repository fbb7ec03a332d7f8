------------------------------- MODULE Dialog -------------------------------
(***************************************************************************)
(* What the terminal promises the customer who stands in front of it: the  *)
(* order in which the texts of lang.h may follow each other on the display,*)
(* and that a balance is only ever shown with the verdict it belongs to.   *)
(* Nothing is said about timers, USB or the card reader: Terminal.tla does *)
(* that and implements this specification.                                 *)
(***************************************************************************)

VARIABLES
  screen,    \* the text on the first line of the display
  personal   \* is a customer's balance on the second line?

dialog == <<screen, personal>>

Screens == {"blank", "starting", "scan_here", "working", "verdict", "out_of_order"}

Init == screen = "blank" /\ personal = FALSE

Show(text) == screen' = text /\ personal' = FALSE

(* Power-up or a watchdog reset: the display is cleared. *)
Boot == Show("blank")

(* The connection to the server is (re)established. *)
Start == Show("starting")

(* A customer is asked for a card only after the start-up text or after the
   verdict for the previous customer. *)
Invite == screen \in {"starting", "verdict"} /\ Show("scan_here")

(* Only a customer who was invited is served. *)
Work == screen = "scan_here" /\ Show("working")

(* Only a customer who is being served gets a verdict; the balance follows. *)
Verdict == screen = "working" /\ Show("verdict")

Balance == screen = "verdict" /\ screen' = "verdict" /\ personal' = TRUE

(* The connection is lost. *)
Close == Show("out_of_order")

Next == Boot \/ Start \/ Invite \/ Work \/ Verdict \/ Balance \/ Close

Spec == Init /\ [][Next]_dialog
=============================================================================
