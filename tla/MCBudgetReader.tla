--------------------------- MODULE MCBudgetReader ---------------------------
(* Instances of BudgetReader for TLC: every message of at most MaxLen
   instructions drawn from a set with each discriminant, present and missing
   operands, and instructions of another program; and the transactions of
   DecodeBudget for every limit up to a lamport's worth of units and every fee up
   to two of them, so that the price is rounded down by every amount it can be. *)
EXTENDS DecodeBudget

CONSTANT MaxLen

MCKeys == <<"other", "ComputeBudget">>

MCInstructions ==
  [programIdIndex : {1}, discriminant : Settings, operand : {7}]
    \cup [programIdIndex : {1}, discriminant : {"SetComputeUnitLimit", "SetComputeUnitPrice"},
          operand : {0, 12, Nil}]
    \cup [programIdIndex : {1}, discriminant : {"Empty", "RequestUnits", "Unknown"},
          operand : {3}]
    \cup [programIdIndex : {0, 2}, discriminant : {"SetComputeUnitPrice"}, operand : {7}]

MCV1Configs ==
  [computeUnitLimit : {Nil, 9}, heapSize : {Nil, 9},
   loadedAccountsDataSizeLimit : {Nil}, priorityFee : {Nil, 9}]

MCConfigs ==
  [computeUnitLimit : 1..MicroLamportsPerLamport, heapSize : {8},
   loadedAccountsDataSizeLimit : {16}, priorityFee : 0..2 * MicroLamportsPerLamport]

MCMessages ==
  [version : {"v0"}, config : {Nil}, accountKeys : {MCKeys},
   instructions : BoundedSeq(MCInstructions, MaxLen)]
    \cup [version : {"legacy"}, config : {Nil}, accountKeys : {MCKeys},
          instructions : BoundedSeq(MCInstructions, 1)]
    \cup [version : {"v1"}, config : MCV1Configs, accountKeys : {MCKeys},
          instructions : BoundedSeq(MCInstructions, 1)]
    \cup UNION {Transactions(config) : config \in MCConfigs}
=============================================================================
