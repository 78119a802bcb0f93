---------------------------- MODULE DecodeBudget ----------------------------
(***************************************************************************)
(* ts/kit/src/decode-budget.ts: state one budget in a legacy, a v0 and a   *)
(* v1 transaction, and read it back out of each with the reader of         *)
(* BudgetReader.                                                           *)
(*                                                                         *)
(* v1 holds the fee as a total; the other two hold the price that comes to *)
(* that total at the budget's compute unit limit, rounded down to whole    *)
(* micro-lamports.                                                         *)
(***************************************************************************)
EXTENDS BudgetReader

CONSTANT Configs   \* the budgets to state; EXAMPLE_CONFIG in the code

(* Every field is set, as in EXAMPLE_CONFIG.  Above one lamport's worth of
   compute units, 1_000_000, the price may lose a part of the fee that rounding
   up does not give back. *)
ConfigAssumption(config) ==
  /\ config \in ComputeBudget
  /\ config.computeUnitLimit \in 1..MicroLamportsPerLamport
  /\ config.heapSize \in Nat
  /\ config.loadedAccountsDataSizeLimit \in Nat
  /\ config.priorityFee \in Nat

ASSUME ConfigsAssumption == \A config \in Configs : ConfigAssumption(config)
-----------------------------------------------------------------------------
(* Mutant: the total is taken for a price. *)
PriceOfTotal(config) == config.priorityFee

(* EQUIVALENT_PRICE_MICRO_LAMPORTS_PER_CU *)
EquivalentPrice(config) ==
  (config.priorityFee * MicroLamportsPerLamport) \div config.computeUnitLimit

(* Fee payer, recipient and the System program, then the ComputeBudget program
   if any instruction calls it. *)
Keys == <<"other", "other", "other", "ComputeBudget">>

TransferInstruction == [programIdIndex |-> 2, discriminant |-> "Unknown", operand |-> 1]

SetterInstruction(setting, operand) ==
  [programIdIndex |-> 3, discriminant |-> setting, operand |-> operand]

ComputeBudgetInstructions(config) ==
  <<SetterInstruction("SetComputeUnitLimit", config.computeUnitLimit),
    SetterInstruction("SetComputeUnitPrice", EquivalentPrice(config)),
    SetterInstruction("SetLoadedAccountsDataSizeLimit", config.loadedAccountsDataSizeLimit),
    SetterInstruction("RequestHeapFrame", config.heapSize)>>

LegacyTransaction(config) ==
  [version |-> "legacy", config |-> Nil, accountKeys |-> Keys,
   instructions |-> <<TransferInstruction>> \o ComputeBudgetInstructions(config)]

V0Transaction(config) ==
  [version |-> "v0", config |-> Nil, accountKeys |-> Keys,
   instructions |-> <<TransferInstruction>> \o ComputeBudgetInstructions(config)]

V1Transaction(config) ==
  [version |-> "v1", config |-> config, accountKeys |-> SubSeq(Keys, 1, 3),
   instructions |-> <<TransferInstruction>>]

Transactions(config) ==
  {LegacyTransaction(config), V0Transaction(config), V1Transaction(config)}
-----------------------------------------------------------------------------
(* The three transactions state one budget three ways: what TypeScript reads
   back out of each, in either of its forms, is the config, to the lamport,
   although two of them hold a price that was rounded down and is rounded up
   again as it is multiplied out. *)
SameBudgetThreeWays ==
  outcome = "done" /\ reader \in TypeScript =>
    \A config \in Configs : message \in Transactions(config) => budget = config
=============================================================================
