--------------------------- MODULE AtomicTransfer ---------------------------
(***************************************************************************)
(* What "perform a full confidential transfer in a single transaction"     *)
(* promises: the sender gets a starting balance, an amount of it moves to  *)
(* the recipient in one step or not at all, and a run that reports success *)
(* has seen it move.  A run that fails promises nothing more: the transfer *)
(* may have happened, or may yet happen.                                   *)
(***************************************************************************)
EXTENDS Naturals

CONSTANTS Starting, Amount

VARIABLES
  held,     \* what each party holds
  report    \* "none", "ok" or "error"

avars == <<held, report>>

Holding(sender, recipient) == [sender |-> sender, recipient |-> recipient]

AInit == held = Holding(0, 0) /\ report = "none"

Fund ==
  /\ held = Holding(0, 0)
  /\ held' = Holding(Starting, 0)
  /\ UNCHANGED report

Move ==
  /\ held = Holding(Starting, 0)
  /\ held' = Holding(Starting - Amount, Amount)
  /\ UNCHANGED report

Report ==
  /\ report = "none"
  /\ \/ report' = "ok" /\ held = Holding(Starting - Amount, Amount)
     \/ report' = "error"
  /\ UNCHANGED held

ASpec == AInit /\ [][Fund \/ Move \/ Report]_avars
=============================================================================
