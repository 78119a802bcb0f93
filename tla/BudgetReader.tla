---------------------------- MODULE BudgetReader ----------------------------
(***************************************************************************)
(* The loop each reader runs over one message: BudgetOfMessage in Go,      *)
(* ComputeBudget::of_message in Rust, computeBudgetOfMessage and           *)
(* computeBudgetOfBase64Transaction in TypeScript.                         *)
(***************************************************************************)
EXTENDS Budget

CONSTANT Messages   \* the messages a reader may be given

ASSUME MessagesAssumption ==
  /\ Messages \subseteq Message
  /\ \A m \in Messages : m.version = "v1" <=> m.config # Nil

VARIABLES
  reader,    \* which reader runs; it never changes
  message,   \* the message it reads; it never changes
  next,      \* the instruction the loop looks at next
  settings,  \* the four values the loop has collected
  budget,    \* the budget it returns
  outcome    \* "reading", "done" or "threw"

vars == <<reader, message, next, settings, budget, outcome>>

NoSettings == [setting \in Settings |-> Nil]

Init ==
  /\ reader \in Readers
  /\ message \in Messages
  /\ next = 1
  /\ settings = NoSettings
  /\ budget = UnsetBudget
  /\ outcome = "reading"

(* v1: the config is the only authority, whatever the instructions say. *)
ReadConfig ==
  /\ outcome = "reading"
  /\ VersionRead(reader, message) = "v1"
  /\ budget' = BudgetFromConfig(message.config)
  /\ outcome' = "done"
  /\ UNCHANGED <<reader, message, next, settings>>

(* Legacy and v0 scan the instructions, from the first to the last. *)
Scanning ==
  /\ outcome = "reading"
  /\ VersionRead(reader, message) # "v1"
  /\ next <= Len(message.instructions)

(* Mutant: the first assignment of a setting wins. *)
AssignKeepFirst(setting) ==
  /\ Scanning
  /\ ~Throws(reader, message, next)
  /\ Sets(message, next, setting)
  /\ settings' = [settings EXCEPT ![setting] =
                    IF @ = Nil THEN message.instructions[next].operand ELSE @]
  /\ next' = next + 1
  /\ UNCHANGED <<reader, message, budget, outcome>>

Assign(setting) ==
  /\ Scanning
  /\ ~Throws(reader, message, next)
  /\ Sets(message, next, setting)
  /\ settings' = [settings EXCEPT ![setting] = message.instructions[next].operand]
  /\ next' = next + 1
  /\ UNCHANGED <<reader, message, budget, outcome>>

(* Another program, no data, or a discriminant that sets nothing. *)
Skip ==
  /\ Scanning
  /\ ~Throws(reader, message, next)
  /\ \A setting \in Settings : ~Sets(message, next, setting)
  /\ next' = next + 1
  /\ UNCHANGED <<reader, message, settings, budget, outcome>>

Throw ==
  /\ Scanning
  /\ Throws(reader, message, next)
  /\ outcome' = "threw"
  /\ UNCHANGED <<reader, message, next, settings, budget>>

Return ==
  /\ outcome = "reading"
  /\ VersionRead(reader, message) # "v1"
  /\ next > Len(message.instructions)
  /\ budget' = BudgetFromSettings(reader, settings, Len(message.instructions))
  /\ outcome' = "done"
  /\ UNCHANGED <<reader, message, next, settings>>

Next ==
  \/ ReadConfig
  \/ \E setting \in Settings : Assign(setting)
  \/ Skip
  \/ Throw
  \/ Return

Spec == Init /\ [][Next]_vars

-----------------------------------------------------------------------------
TypeOK ==
  /\ reader \in Readers
  /\ message \in Message
  /\ message.version = "v1" <=> message.config # Nil
  /\ next \in 1..(Len(message.instructions) + 1)
  /\ settings \in [Settings -> Optional(Nat)]
  /\ budget \in ComputeBudget
  /\ outcome \in {"reading", "done", "threw"}

(* A reader that returns has given every field the operand of the last
   instruction that assigns it, or the config's value on v1, whatever order
   and mix of programs, discriminants and versions it met. *)
BudgetIsLastAssignment ==
  outcome = "done" => budget = BudgetOfMessage(reader, message)

(* Only malformed ComputeBudget data makes a TypeScript reader throw, and
   nothing makes a Go or Rust one throw: on a message the runtime would have
   executed, every reader returns. *)
ThrowsOnlyOnMalformed ==
  outcome = "threw" => reader \in TypeScript /\ ~WellFormed(message)

(* The normalised fee of a v0 or legacy message is the price times the limit
   (the implicit one when none is set), in lamports, rounded up: never a
   lamport less than the runtime charges and never one more than a lamport
   above it, as long as price times limit fits 64 bits with the rounding: past
   that, Go and Rust saturate it (see ReadersAgreeOnEveryFee). *)
FeeRoundsUp ==
  outcome = "done" /\ message.version # "v1" /\ Fits(message)
    /\ settings["SetComputeUnitPrice"] # Nil =>
    LET limit == IF settings["SetComputeUnitLimit"] # Nil
                 THEN settings["SetComputeUnitLimit"]
                 ELSE Min({DefaultComputeUnitsPerInstruction * Len(message.instructions),
                           MaxComputeUnitLimit})
        charged == limit * settings["SetComputeUnitPrice"]
    IN /\ budget.priorityFee * MicroLamportsPerLamport >= charged
       /\ (budget.priorityFee - 1) * MicroLamportsPerLamport < charged

(* The readers mirror each other: on a well-formed message whose fee product
   fits 64 bits, what this reader returned is what each of the others would. *)
ReadersAgree ==
  outcome = "done" /\ WellFormed(message) /\ Fits(message) =>
    \A other \in Readers : BudgetOfMessage(other, message) = budget

(* The same without the 64-bit proviso.  The code does not have it: Go and
   Rust saturate the product, TypeScript multiplies in unbounded integers. *)
ReadersAgreeOnEveryFee ==
  outcome = "done" /\ WellFormed(message) =>
    \A other \in Readers : BudgetOfMessage(other, message) = budget
=============================================================================
