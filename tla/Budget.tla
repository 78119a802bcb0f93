------------------------------- MODULE Budget -------------------------------
(***************************************************************************)
(* Reading a transaction's version and compute budget, whatever the        *)
(* version: go/txv1/budget.go, rust/src/budget.rs and                      *)
(* ts/kit/src/lib/budget.ts, with the version test of their grpc modules.  *)
(*                                                                         *)
(* Legacy and v0 messages state a budget in ComputeBudget instructions,    *)
(* with the fee as a price in micro-lamports per compute unit; v1 states   *)
(* it in the message config, with the fee as a total in lamports.  The     *)
(* four readers are the Go and Rust gRPC ones, and the TypeScript ones for *)
(* a gRPC message and for a base64 transaction.                            *)
(*                                                                         *)
(* This module holds the data and what one instruction does to a reader;   *)
(* BudgetReader runs the loop over the instructions.                       *)
(***************************************************************************)
EXTENDS Integers, Sequences, SequencesExt

CONSTANTS
  Nil,                                \* an absent optional value
  MaxU64,                             \* the largest unsigned 64-bit integer
  MicroLamportsPerLamport,            \* 1_000_000 in the code
  DefaultComputeUnitsPerInstruction,  \* 200_000 in the code
  MaxComputeUnitLimit                 \* 1_400_000 in the code

ASSUME BudgetAssumption ==
  /\ Nil \notin Nat
  /\ MaxU64 \in Nat
  /\ MicroLamportsPerLamport \in Nat \ {0}
  /\ DefaultComputeUnitsPerInstruction \in Nat
  /\ MaxComputeUnitLimit \in Nat

Readers == {"go", "rust", "tsGrpc", "tsBase64"}
TypeScript == {"tsGrpc", "tsBase64"}
Versions == {"legacy", "v0", "v1"}

Optional(S) == S \cup {Nil}
-----------------------------------------------------------------------------
(***************************************************************************)
(* Messages.  A ComputeBudget instruction is reduced to its discriminant   *)
(* and the operand after it.  "Empty" stands for data of length zero,      *)
(* "Unknown" for a discriminant above 4, and the operand Nil for data too  *)
(* short to hold one.                                                      *)
(***************************************************************************)
Settings == {"RequestHeapFrame", "SetComputeUnitLimit", "SetComputeUnitPrice",
             "SetLoadedAccountsDataSizeLimit"}
Discriminants == Settings \cup {"Empty", "RequestUnits", "Unknown"}

Instruction == [programIdIndex : Nat, discriminant : Discriminants, operand : Optional(Nat)]

ComputeBudget == [computeUnitLimit : Optional(Nat),
                  heapSize : Optional(Nat),
                  loadedAccountsDataSizeLimit : Optional(Nat),
                  priorityFee : Optional(Nat)]

UnsetBudget == [computeUnitLimit |-> Nil, heapSize |-> Nil,
                loadedAccountsDataSizeLimit |-> Nil, priorityFee |-> Nil]

(* A transaction message as its sender compiled it. *)
Message == [version : Versions,
            config : Optional(ComputeBudget),
            accountKeys : Seq({"ComputeBudget", "other"}),
            instructions : Seq(Instruction)]

(* What the geyser plugin puts on the gRPC stream for a message: no version
   field, `versioned` true for v0 and v1 alike, `config` only on v1. *)
GrpcMessage(m) ==
  [versioned |-> m.version # "legacy",
   config |-> IF m.version = "v1" THEN m.config ELSE Nil,
   accountKeys |-> m.accountKeys,
   instructions |-> m.instructions]

(* Mutant: `versioned` is asked first, as a v0-era consumer does. *)
MessageVersionOfVersionedFirst(g) ==
  IF g.versioned THEN "v0" ELSE IF g.config # Nil THEN "v1" ELSE "legacy"

MessageVersionOf(g) ==
  IF g.config # Nil THEN "v1" ELSE IF g.versioned THEN "v0" ELSE "legacy"

(* A base64 transaction states its version in its first byte; a gRPC message
   leaves it to be inferred. *)
VersionRead(reader, m) ==
  IF reader = "tsBase64" THEN m.version ELSE MessageVersionOf(GrpcMessage(m))
-----------------------------------------------------------------------------
(***************************************************************************)
(* One instruction.                                                        *)
(***************************************************************************)
IsComputeBudgetProgram(keys, index) ==
  index < Len(keys) /\ keys[index + 1] = "ComputeBudget"

(* Mutant: a discriminant the client knows but does not use is refused too. *)
RejectsUnused(reader, instruction) ==
  reader \in TypeScript /\ instruction.discriminant \notin Settings

Rejects(reader, instruction) ==
  /\ reader \in TypeScript
  /\ \/ instruction.discriminant = "Unknown"
     \/ instruction.discriminant = "Empty" /\ reader = "tsGrpc"
     \/ instruction.discriminant \in Settings /\ instruction.operand = Nil

(* The reader throws on this instruction: the generated TypeScript client
   refuses data it cannot identify or decode, the other two read past it. *)
Throws(reader, m, k) ==
  /\ IsComputeBudgetProgram(m.accountKeys, m.instructions[k].programIdIndex)
  /\ Rejects(reader, m.instructions[k])

(* The instruction assigns `setting`.  In Go and Rust one too short to hold an
   operand assigns nil, which undoes an earlier assignment. *)
Sets(m, k, setting) ==
  /\ IsComputeBudgetProgram(m.accountKeys, m.instructions[k].programIdIndex)
  /\ m.instructions[k].discriminant = setting
-----------------------------------------------------------------------------
(***************************************************************************)
(* The fee.                                                                *)
(***************************************************************************)
DefaultComputeUnitLimit(count) ==
  IF DefaultComputeUnitsPerInstruction * count > MaxComputeUnitLimit
  THEN MaxComputeUnitLimit
  ELSE DefaultComputeUnitsPerInstruction * count

SaturatingMul(a, b) == IF a * b > MaxU64 THEN MaxU64 ELSE a * b

(* Mutant: the total is rounded down. *)
DivFloor(value, divisor) == value \div divisor

DivCeil(value, divisor) ==
  IF value % divisor # 0 THEN value \div divisor + 1 ELSE value \div divisor

(* TypeScript multiplies in unbounded integers and adds the divisor less one
   before it divides. *)
Total(reader, limit, price) ==
  IF reader \in TypeScript
  THEN (limit * price + (MicroLamportsPerLamport - 1)) \div MicroLamportsPerLamport
  ELSE DivCeil(SaturatingMul(limit, price), MicroLamportsPerLamport)

(* Mutant: a reader that ports v1's rule, an unset limit resolves to zero. *)
ComputeUnitLimitOrZero(limit, count) == IF limit # Nil THEN limit ELSE 0

ComputeUnitLimitOrDefault(limit, count) ==
  IF limit # Nil THEN limit ELSE DefaultComputeUnitLimit(count)

(* The budget a reader builds from its settings after the last instruction;
   `count` counts every instruction, ComputeBudget ones included. *)
BudgetFromSettings(reader, settings, count) ==
  [computeUnitLimit |-> settings["SetComputeUnitLimit"],
   heapSize |-> settings["RequestHeapFrame"],
   loadedAccountsDataSizeLimit |-> settings["SetLoadedAccountsDataSizeLimit"],
   priorityFee |->
     IF settings["SetComputeUnitPrice"] = Nil
     THEN Nil
     ELSE Total(reader,
                ComputeUnitLimitOrDefault(settings["SetComputeUnitLimit"], count),
                settings["SetComputeUnitPrice"])]

BudgetFromConfig(config) ==
  [computeUnitLimit |-> config.computeUnitLimit,
   heapSize |-> config.heapSize,
   loadedAccountsDataSizeLimit |-> config.loadedAccountsDataSizeLimit,
   priorityFee |-> config.priorityFee]
-----------------------------------------------------------------------------
(***************************************************************************)
(* What a reader computes, stated without its loop: each setting has the   *)
(* operand of the last instruction that assigns it.                        *)
(***************************************************************************)
LastAssignment(m, n, setting) ==
  LET assignments == {k \in 1..n : Sets(m, k, setting)}
  IN IF assignments = {} THEN 0 ELSE Max(assignments)

SettingsAfter(m, n) ==
  [setting \in Settings |->
     IF LastAssignment(m, n, setting) = 0
     THEN Nil
     ELSE m.instructions[LastAssignment(m, n, setting)].operand]

BudgetOfMessage(reader, m) ==
  IF m.version = "v1"
  THEN BudgetFromConfig(m.config)
  ELSE BudgetFromSettings(reader, SettingsAfter(m, Len(m.instructions)),
                          Len(m.instructions))

(* Every ComputeBudget instruction is one the program defines, with its operand. *)
WellFormed(m) ==
  \A k \in 1..Len(m.instructions) :
    IsComputeBudgetProgram(m.accountKeys, m.instructions[k].programIdIndex) =>
      /\ m.instructions[k].discriminant \in Settings \cup {"RequestUnits"}
      /\ m.instructions[k].operand # Nil

(* limit * price fits the 64 bits Go and Rust multiply in. *)
Fits(m) ==
  LET settings == SettingsAfter(m, Len(m.instructions))
  IN \/ m.version = "v1"
     \/ settings["SetComputeUnitPrice"] = Nil
     \/ settings["SetComputeUnitPrice"]
          * ComputeUnitLimitOrDefault(settings["SetComputeUnitLimit"],
                                      Len(m.instructions)) <= MaxU64
=============================================================================
