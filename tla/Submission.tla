----------------------------- MODULE Submission -----------------------------
(***************************************************************************)
(* What "send a v1 transfer and return the slot it landed in" promises,    *)
(* without airdrops, blockhashes, forks, polling or deadlines: the         *)
(* transaction's fate is decided at most once, and an answer that names a  *)
(* slot names the one the transaction landed in, for good.  An error       *)
(* promises nothing: the transaction may have landed, or may yet land.     *)
(***************************************************************************)
EXTENDS Naturals

CONSTANTS Slots, NoSlot

VARIABLES
  fate,        \* "open", "landed" or "failed"
  fateSlot,    \* the slot that decided it
  answer,      \* "none", "ok" or "error"
  answerSlot   \* the slot the caller was told

svars == <<fate, fateSlot, answer, answerSlot>>

SInit ==
  /\ fate = "open"
  /\ fateSlot = NoSlot
  /\ answer = "none"
  /\ answerSlot = NoSlot

Decide(result, slot) ==
  /\ fate = "open"
  /\ fate' = result
  /\ fateSlot' = slot
  /\ UNCHANGED <<answer, answerSlot>>

AnswerSlot ==
  /\ answer = "none"
  /\ fate = "landed"
  /\ answer' = "ok"
  /\ answerSlot' = fateSlot
  /\ UNCHANGED <<fate, fateSlot>>

AnswerError ==
  /\ answer = "none"
  /\ answer' = "error"
  /\ UNCHANGED <<fate, fateSlot, answerSlot>>

SNext ==
  \/ \E result \in {"landed", "failed"}, slot \in Slots : Decide(result, slot)
  \/ AnswerSlot
  \/ AnswerError

SSpec == SInit /\ [][SNext]_svars
=============================================================================
