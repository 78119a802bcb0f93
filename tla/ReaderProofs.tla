---------------------------- MODULE ReaderProofs ----------------------------
(***************************************************************************)
(* What the programs that read transactions make of them: proofs about     *)
(* BudgetReader, DecodeBudget and RpcCeiling, for every set of messages and*)
(* of blocks and every value of the four numeric constants.                *)
(***************************************************************************)
EXTENDS DecodeBudget, RpcCeiling, BudgetProofs

(* Before the first instruction nothing is set. *)
LEMMA SettingsBefore == ASSUME NEW m PROVE SettingsAfter(m, 0) = NoSettings
BY DEF SettingsAfter, LastAssignment, NoSettings

(* The last assignment up to k is k itself when instruction k assigns. *)
LEMMA LastAssignmentHere ==
  ASSUME NEW m, NEW setting, NEW k \in Nat \ {0}, Sets(m, k, setting)
  PROVE  LastAssignment(m, k, setting) = k
<1> DEFINE S == {i \in 1..k : Sets(m, i, setting)}
<1>1. k \in S /\ \A y \in S : k >= y
  OBVIOUS
<1>2. PICK x \in S : x = Max(S) /\ \A y \in S : x >= y
  BY <1>1 DEF Max
<1>3. x = k
  BY <1>1, <1>2
<1>4. LastAssignment(m, k, setting) = Max(S)
  BY <1>1 DEF LastAssignment
<1>5. QED
  BY <1>2, <1>3, <1>4

(* An instruction that does not assign a setting leaves its last assignment. *)
LEMMA LastAssignmentEarlier ==
  ASSUME NEW m, NEW setting, NEW k \in Nat \ {0}, ~Sets(m, k, setting)
  PROVE  LastAssignment(m, k, setting) = LastAssignment(m, k - 1, setting)
<1>1. {i \in 1..k : Sets(m, i, setting)} = {i \in 1..(k - 1) : Sets(m, i, setting)}
  OBVIOUS
<1>2. QED
  BY <1>1 DEF LastAssignment

(* An instruction assigns at most one setting. *)
LEMMA SetsOne ==
  ASSUME NEW m, NEW k, NEW a, NEW b, Sets(m, k, a), Sets(m, k, b) PROVE a = b
BY DEF Sets

(* What one assigning instruction does to the settings. *)
LEMMA SettingsAssign ==
  ASSUME NEW m, NEW k \in Nat \ {0}, NEW setting \in Settings, Sets(m, k, setting)
  PROVE  SettingsAfter(m, k) =
           [SettingsAfter(m, k - 1) EXCEPT ![setting] = m.instructions[k].operand]
<1>1. ASSUME NEW s \in Settings
      PROVE  SettingsAfter(m, k)[s] =
               [SettingsAfter(m, k - 1) EXCEPT ![setting] = m.instructions[k].operand][s]
  <2>1. CASE s = setting
    <3>1. LastAssignment(m, k, s) = k
      BY <2>1, LastAssignmentHere
    <3>2. QED
      BY <2>1, <3>1 DEF SettingsAfter
  <2>2. CASE s # setting
    <3>1. LastAssignment(m, k, s) = LastAssignment(m, k - 1, s)
      BY <2>2, SetsOne, LastAssignmentEarlier
    <3>2. QED
      BY <2>2, <3>1 DEF SettingsAfter
  <2>3. QED
    BY <2>1, <2>2
<1>2. QED
  BY <1>1 DEF SettingsAfter

(* An instruction that assigns nothing leaves the settings. *)
LEMMA SettingsSkip ==
  ASSUME NEW m, NEW k \in Nat \ {0}, \A s \in Settings : ~Sets(m, k, s)
  PROVE  SettingsAfter(m, k) = SettingsAfter(m, k - 1)
<1>1. \A s \in Settings : LastAssignment(m, k, s) = LastAssignment(m, k - 1, s)
  BY LastAssignmentEarlier
<1>2. QED
  BY <1>1 DEF SettingsAfter

(* An instruction's operand is absent or a natural number. *)
LEMMA OperandType ==
  ASSUME NEW m \in Message, NEW k \in 1..Len(m.instructions)
  PROVE  m.instructions[k].operand \in Optional(Nat)
<1>1. m.instructions \in Seq(Instruction)
  BY DEF Message
<1>2. m.instructions[k] \in Instruction
  BY <1>1
<1>3. QED
  BY <1>2 DEF Instruction

(* The version inferred from a gRPC message is the one its sender compiled. *)
LEMMA VersionReadIsVersion ==
  ASSUME NEW r, NEW m \in Message, m.version = "v1" <=> m.config # Nil
  PROVE  VersionRead(r, m) = m.version
BY DEF VersionRead, MessageVersionOf, GrpcMessage, Message, Versions
-----------------------------------------------------------------------------
(* The inductive invariant: while the loop runs, the settings are those of
   the prefix it has scanned. *)
SettingsArePrefix ==
  outcome = "reading" => settings = SettingsAfter(message, next - 1)

(* A reader that has scanned a message to its end has the settings of all of it. *)
SettingsAreComplete ==
  outcome = "done" /\ message.version # "v1" =>
    settings = SettingsAfter(message, Len(message.instructions))

ReaderInv ==
  /\ TypeOK
  /\ SettingsArePrefix
  /\ SettingsAreComplete
  /\ BudgetIsLastAssignment
  /\ ThrowsOnlyOnMalformed

LEMMA ReaderInit == Init => ReaderInv
<1> SUFFICES ASSUME Init PROVE ReaderInv
  OBVIOUS
<1> USE DEF Init
<1>1. message \in Message /\ (message.version = "v1" <=> message.config # Nil)
  BY MessagesAssumption
<1>2. Len(message.instructions) \in Nat
  BY <1>1 DEF Message
<1>3. TypeOK
  BY <1>1, <1>2 DEF TypeOK, NoSettings, Optional, UnsetBudget, ComputeBudget
<1>4. SettingsArePrefix
  BY SettingsBefore DEF SettingsArePrefix
<1>5. QED
  BY <1>3, <1>4
     DEF ReaderInv, BudgetIsLastAssignment, SettingsAreComplete, ThrowsOnlyOnMalformed

LEMMA ReaderStep == ReaderInv /\ [Next]_vars => ReaderInv'
<1> SUFFICES ASSUME ReaderInv, [Next]_vars PROVE ReaderInv'
  OBVIOUS
<1> USE DEF ReaderInv
<1>1. message \in Message /\ Len(message.instructions) \in Nat
  BY DEF TypeOK, Message
<1>2. VersionRead(reader, message) = message.version
  BY <1>1, VersionReadIsVersion DEF TypeOK
<1>3. CASE ReadConfig
  <2>1. message.config \in ComputeBudget
    BY <1>1, <1>2, <1>3 DEF ReadConfig, TypeOK, Message, Optional
  <2>2. TypeOK'
    BY <1>3, <2>1 DEF ReadConfig, TypeOK, BudgetFromConfig, ComputeBudget
  <2>3. QED
    BY <1>2, <1>3, <2>2
       DEF ReadConfig, SettingsArePrefix, BudgetIsLastAssignment, BudgetOfMessage,
           SettingsAreComplete, ThrowsOnlyOnMalformed
<1>4. ASSUME NEW setting \in Settings, Assign(setting) PROVE ReaderInv'
  <2> USE <1>4 DEF Assign, Scanning
  <2>1. next \in 1..Len(message.instructions)
    BY <1>1 DEF TypeOK
  <2>2. message.instructions[next].operand \in Optional(Nat)
    BY <1>1, <2>1, OperandType
  <2>3. TypeOK'
    BY <1>1, <2>1, <2>2 DEF TypeOK
  <2>4. SettingsAfter(message, next) = settings'
    BY <2>1, SettingsAssign DEF SettingsArePrefix
  <2>5. SettingsArePrefix'
    <3>1. next' - 1 = next /\ message' = message
      BY <2>1
    <3>2. QED
      BY <2>4, <3>1 DEF SettingsArePrefix
  <2>6. BudgetIsLastAssignment' /\ SettingsAreComplete' /\ ThrowsOnlyOnMalformed'
    BY DEF BudgetIsLastAssignment, SettingsAreComplete, ThrowsOnlyOnMalformed
  <2>7. QED
    BY <2>3, <2>5, <2>6
<1>5. CASE Skip
  <2> USE <1>5 DEF Skip, Scanning
  <2>1. next \in 1..Len(message.instructions)
    BY <1>1 DEF TypeOK
  <2>2. TypeOK'
    BY <1>1, <2>1 DEF TypeOK
  <2>3. SettingsAfter(message, next) = settings'
    BY <2>1, SettingsSkip DEF SettingsArePrefix
  <2>4. QED
    BY <2>1, <2>2, <2>3
       DEF SettingsArePrefix, BudgetIsLastAssignment, SettingsAreComplete,
           ThrowsOnlyOnMalformed
<1>6. CASE Throw
  <2> USE <1>6 DEF Throw, Scanning
  <2>1. next \in 1..Len(message.instructions)
    BY <1>1 DEF TypeOK
  <2>2. reader \in TypeScript /\ ~WellFormed(message)
    BY <2>1 DEF Throws, Rejects, WellFormed, Settings
  <2>3. UNCHANGED <<reader, message>> /\ ThrowsOnlyOnMalformed'
    BY <2>2 DEF ThrowsOnlyOnMalformed
  <2>4. QED
    BY <2>3 DEF TypeOK, SettingsArePrefix, BudgetIsLastAssignment, SettingsAreComplete
<1>7. CASE Return
  <2> USE <1>7 DEF Return
  <2>1. next - 1 = Len(message.instructions)
    BY <1>1 DEF TypeOK
  <2>2. settings = SettingsAfter(message, Len(message.instructions))
    BY <2>1 DEF SettingsArePrefix
  <2>3. budget' \in ComputeBudget
    BY <1>1, BudgetFromSettingsType DEF TypeOK
  <2>4. TypeOK'
    BY <2>3 DEF TypeOK
  <2>5. BudgetIsLastAssignment'
    BY <1>2, <2>2 DEF BudgetIsLastAssignment, BudgetOfMessage
  <2>6. SettingsAreComplete' /\ ThrowsOnlyOnMalformed'
    BY <2>2 DEF SettingsAreComplete, ThrowsOnlyOnMalformed
  <2>7. QED
    BY <2>4, <2>5, <2>6 DEF SettingsArePrefix
<1>8. CASE UNCHANGED vars
  BY <1>8 DEF vars, TypeOK, SettingsArePrefix, BudgetIsLastAssignment,
              SettingsAreComplete, ThrowsOnlyOnMalformed
<1>9. QED
  BY <1>3, <1>4, <1>5, <1>6, <1>7, <1>8 DEF Next

(* Every reader's variables keep their types, for every set of messages. *)
THEOREM ReaderTypeCorrect == Spec => []TypeOK
<1>1. ReaderInv => TypeOK
  BY DEF ReaderInv
<1>2. QED
  BY <1>1, ReaderInit, ReaderStep, PTL DEF Spec

(* The loop of every reader computes the last assignment of every setting:
   the budget it returns is the one its message states, for messages of any
   length and every value of the numeric constants. *)
THEOREM ReaderReturnsLastAssignment == Spec => []BudgetIsLastAssignment
<1>1. ReaderInv => BudgetIsLastAssignment
  BY DEF ReaderInv
<1>2. QED
  BY <1>1, ReaderInit, ReaderStep, PTL DEF Spec

(* A reader throws only on malformed data, and only in TypeScript. *)
THEOREM OnlyMalformedDataThrows == Spec => []ThrowsOnlyOnMalformed
<1>1. ReaderInv => ThrowsOnlyOnMalformed
  BY DEF ReaderInv
<1>2. QED
  BY <1>1, ReaderInit, ReaderStep, PTL DEF Spec
-----------------------------------------------------------------------------
(* A limit, stated or implicit, is a natural number. *)
LEMMA LimitNat ==
  ASSUME NEW limit \in Optional(Nat), NEW count \in Nat
  PROVE  ComputeUnitLimitOrDefault(limit, count) \in Nat
<1>1. DefaultComputeUnitLimit(count) \in Nat
  BY ProductNat, BudgetAssumption DEF DefaultComputeUnitLimit
<1>2. QED
  BY <1>1 DEF ComputeUnitLimitOrDefault, Optional

(* Two readers build one budget from the same settings, if the fee fits. *)
LEMMA SettingsAgree ==
  ASSUME NEW r, NEW s, NEW count \in Nat,
         NEW collected \in [Settings -> Optional(Nat)],
         LET price == collected["SetComputeUnitPrice"]
             limit == ComputeUnitLimitOrDefault(collected["SetComputeUnitLimit"], count)
         IN price # Nil => price * limit <= MaxU64
  PROVE  BudgetFromSettings(r, collected, count) = BudgetFromSettings(s, collected, count)
<1> DEFINE price == collected["SetComputeUnitPrice"]
           limit == ComputeUnitLimitOrDefault(collected["SetComputeUnitLimit"], count)
<1>1. price \in Optional(Nat) /\ collected["SetComputeUnitLimit"] \in Optional(Nat)
  BY DEF Settings
<1>2. limit \in Nat
  BY <1>1, LimitNat
<1>3. ASSUME price # Nil PROVE Total(r, limit, price) = Total(s, limit, price)
  <2>1. price \in Nat
    BY <1>1, <1>3 DEF Optional
  <2> HIDE DEF price, limit
  <2>2. limit * price = price * limit
    BY <1>2, <2>1
  <2>3. limit * price <= MaxU64
    BY <1>3, <2>2 DEF price, limit
  <2>4. QED
    BY <1>2, <2>1, <2>3, TotalsAgree
<1>4. QED
  BY <1>3 DEF BudgetFromSettings

(* The readers mirror each other on every message whose fee fits 64 bits, of any
   length: it is enough that each returns the last assignments. *)
THEOREM ReadersMirrorEachOther == Spec => []ReadersAgree
<1>1. ReaderInv => ReadersAgree
  <2> SUFFICES ASSUME ReaderInv, outcome = "done", Fits(message), NEW other \in Readers
               PROVE  BudgetOfMessage(other, message) = budget
    BY DEF ReadersAgree
  <2>1. budget = BudgetOfMessage(reader, message)
    BY DEF ReaderInv, BudgetIsLastAssignment
  <2>2. CASE message.version = "v1"
    BY <2>1, <2>2 DEF BudgetOfMessage
  <2>3. CASE message.version # "v1"
    <3>1. /\ settings = SettingsAfter(message, Len(message.instructions))
          /\ settings \in [Settings -> Optional(Nat)]
          /\ Len(message.instructions) \in Nat
      BY <2>3 DEF ReaderInv, SettingsAreComplete, TypeOK, Message
    <3>2. settings["SetComputeUnitPrice"] # Nil =>
            settings["SetComputeUnitPrice"]
              * ComputeUnitLimitOrDefault(settings["SetComputeUnitLimit"],
                                          Len(message.instructions)) <= MaxU64
      BY <2>3, <3>1 DEF Fits
    <3>3. BudgetFromSettings(other, settings, Len(message.instructions))
            = BudgetFromSettings(reader, settings, Len(message.instructions))
      BY <3>1, <3>2, SettingsAgree
    <3>4. QED
      BY <2>1, <2>3, <3>1, <3>3 DEF BudgetOfMessage
  <2>4. QED
    BY <2>2, <2>3
<1>2. QED
  BY <1>1, ReaderInit, ReaderStep, PTL DEF Spec

(* The fee of a legacy or v0 message is its price times its limit, rounded up to
   whole lamports and no further, whenever that product fits 64 bits (Fits). *)
THEOREM FeesRoundUp == Spec => []FeeRoundsUp
<1>1. ReaderInv => FeeRoundsUp
  <2> DEFINE price == settings["SetComputeUnitPrice"]
             stated == settings["SetComputeUnitLimit"]
             count == Len(message.instructions)
             implicit == Min({DefaultComputeUnitsPerInstruction * count, MaxComputeUnitLimit})
             limit == IF stated # Nil THEN stated ELSE implicit
             d == MicroLamportsPerLamport
  <2> SUFFICES ASSUME ReaderInv, outcome = "done", message.version # "v1", Fits(message),
                      price # Nil
               PROVE  /\ budget.priorityFee * d >= limit * price
                      /\ (budget.priorityFee - 1) * d < limit * price
    BY DEF FeeRoundsUp
  <2>1. /\ settings = SettingsAfter(message, count)
        /\ price \in Nat /\ stated \in Optional(Nat) /\ count \in Nat
    BY DEF ReaderInv, SettingsAreComplete, TypeOK, Message, Settings, Optional
  <2>2. implicit = DefaultComputeUnitLimit(count)
    <3> DEFINE a == DefaultComputeUnitsPerInstruction * count
    <3>1. a \in Nat /\ MaxComputeUnitLimit \in Nat
      BY <2>1, ProductNat, BudgetAssumption
    <3> HIDE DEF a
    <3>2. Min({a, MaxComputeUnitLimit})
            = IF a > MaxComputeUnitLimit THEN MaxComputeUnitLimit ELSE a
      BY <3>1 DEF Min
    <3>3. QED
      BY <3>2 DEF a, DefaultComputeUnitLimit
  <2>3. limit = ComputeUnitLimitOrDefault(stated, count) /\ limit \in Nat
    BY <2>1, <2>2, LimitNat DEF ComputeUnitLimitOrDefault
  <2>4. budget.priorityFee = Total(reader, limit, price)
    BY <2>1, <2>3
       DEF ReaderInv, BudgetIsLastAssignment, BudgetOfMessage, BudgetFromSettings
  <2>5. price * limit <= MaxU64
    BY <2>1, <2>3 DEF Fits
  <2> HIDE DEF price, limit, d
  <2>6. limit * price = price * limit /\ limit * price \in Nat
    BY <2>1, <2>3, ProductNat
  <2> DEFINE total == Total(reader, limit, price)
  <2>7. total \in Nat /\ total * d >= limit * price /\ total * d < limit * price + d
    BY <2>1, <2>3, <2>5, <2>6, TotalRoundsUp DEF d
  <2> HIDE DEF total
  <2>8. (total - 1) * d = total * d - d /\ d \in Nat
    BY <2>7, BudgetAssumption DEF d
  <2>9. QED
    BY <2>4, <2>6, <2>7, <2>8 DEF total
<1>2. QED
  BY <1>1, ReaderInit, ReaderStep, PTL DEF Spec
-----------------------------------------------------------------------------
(***************************************************************************)
(* The round trip of a budget through its three encodings, for every       *)
(* config and every rate of micro-lamports per lamport.                    *)
(***************************************************************************)
(* A fee turned into a price, rounded down, and multiplied out, rounded up, is
   the fee again: at no more units than there are micro-lamports in a lamport,
   the rounding loses less than a lamport. *)
LEMMA PriceKeepsFee ==
  ASSUME NEW fee \in Nat, NEW rate \in Nat \ {0}, NEW limit \in 1..rate
  PROVE  (limit * ((fee * rate) \div limit) + (rate - 1)) \div rate = fee
<1> DEFINE a == fee * rate
           price == a \div limit
           sum == limit * price + (rate - 1)
<1>1. a \in Nat /\ limit \in Nat \ {0}
  OBVIOUS
<1>2. price \in Nat /\ limit * price <= a /\ a < limit * price + limit
  BY <1>1, DivBounds
<1> HIDE DEF price
<1>3. a = rate * fee
  OBVIOUS
<1> HIDE DEF a
<1>4. limit * price \in Nat
  BY <1>1, <1>2
<1>5. sum \in Nat /\ rate * fee <= sum /\ sum < rate * fee + rate
  BY <1>1, <1>2, <1>3, <1>4
<1> HIDE DEF sum
<1>6. sum \div rate = fee
  BY <1>5, DivUnique
<1> QED BY <1>6 DEF sum, price, a

(* The five instructions of a legacy or v0 transaction. *)
LEMMA InstructionsOfBudget ==
  ASSUME NEW config
  PROVE  LET ins == <<TransferInstruction>> \o ComputeBudgetInstructions(config)
         IN /\ Len(ins) = 5
            /\ ins[1] = TransferInstruction
            /\ ins[2] = SetterInstruction("SetComputeUnitLimit", config.computeUnitLimit)
            /\ ins[3] = SetterInstruction("SetComputeUnitPrice", EquivalentPrice(config))
            /\ ins[4] = SetterInstruction("SetLoadedAccountsDataSizeLimit",
                                          config.loadedAccountsDataSizeLimit)
            /\ ins[5] = SetterInstruction("RequestHeapFrame", config.heapSize)
<1> DEFINE a == SetterInstruction("SetComputeUnitLimit", config.computeUnitLimit)
           b == SetterInstruction("SetComputeUnitPrice", EquivalentPrice(config))
           c == SetterInstruction("SetLoadedAccountsDataSizeLimit",
                                  config.loadedAccountsDataSizeLimit)
           d == SetterInstruction("RequestHeapFrame", config.heapSize)
           t == TransferInstruction
<1>1. ComputeBudgetInstructions(config) = <<a, b, c, d>>
  BY DEF ComputeBudgetInstructions
<1> HIDE DEF a, b, c, d, t
<1> DEFINE S == {t, a, b, c, d}
           one == <<t>>
           four == <<a, b, c, d>>
<1>2. one \in Seq(S) /\ Len(one) = 1 /\ one[1] = t
  OBVIOUS
<1>3. four \in Seq(S) /\ Len(four) = 4
      /\ four[1] = a /\ four[2] = b /\ four[3] = c /\ four[4] = d
  OBVIOUS
<1> HIDE DEF S, one, four
<1>4. /\ Len(one \o four) = 5
      /\ \A i \in 1..5 : (one \o four)[i] = IF i <= 1 THEN one[i] ELSE four[i - 1]
  <2>1. /\ Len(one \o four) = Len(one) + Len(four)
        /\ \A i \in 1..(Len(one) + Len(four)) :
             (one \o four)[i] = IF i <= Len(one) THEN one[i] ELSE four[i - Len(one)]
    BY <1>2, <1>3, ConcatProperties, Zenon
  <2>2. Len(one) = 1 /\ Len(four) = 4 /\ 1 + 4 = 5
    BY <1>2, <1>3
  <2> QED BY <2>1, <2>2
<1>5. /\ (one \o four)[1] = t /\ (one \o four)[2] = a /\ (one \o four)[3] = b
      /\ (one \o four)[4] = c /\ (one \o four)[5] = d
  BY <1>2, <1>3, <1>4
<1> QED BY <1>1, <1>4, <1>5 DEF a, b, c, d, t, one, four

(* The largest element of a set of one number. *)
LEMMA MaxOfOne == ASSUME NEW k \in Nat PROVE Max({k}) = k
BY DEF Max

(* Four of the instructions assign a setting each, and the first none. *)
LEMMA SettingsOfBudget ==
  ASSUME NEW config, NEW m, m.accountKeys = Keys,
         m.instructions = <<TransferInstruction>> \o ComputeBudgetInstructions(config)
  PROVE  /\ Len(m.instructions) = 5
         /\ SettingsAfter(m, 5)["SetComputeUnitLimit"] = config.computeUnitLimit
         /\ SettingsAfter(m, 5)["SetComputeUnitPrice"] = EquivalentPrice(config)
         /\ SettingsAfter(m, 5)["SetLoadedAccountsDataSizeLimit"]
              = config.loadedAccountsDataSizeLimit
         /\ SettingsAfter(m, 5)["RequestHeapFrame"] = config.heapSize
<1> DEFINE ins == m.instructions
<1>1. /\ Len(ins) = 5
      /\ ins[1] = TransferInstruction
      /\ ins[2] = SetterInstruction("SetComputeUnitLimit", config.computeUnitLimit)
      /\ ins[3] = SetterInstruction("SetComputeUnitPrice", EquivalentPrice(config))
      /\ ins[4] = SetterInstruction("SetLoadedAccountsDataSizeLimit",
                                    config.loadedAccountsDataSizeLimit)
      /\ ins[5] = SetterInstruction("RequestHeapFrame", config.heapSize)
  BY InstructionsOfBudget
<1>2. /\ ~IsComputeBudgetProgram(Keys, 2)
      /\ IsComputeBudgetProgram(Keys, 3)
  BY DEF IsComputeBudgetProgram, Keys
<1>3. ASSUME NEW setting \in Settings
      PROVE  /\ ~Sets(m, 1, setting)
             /\ Sets(m, 2, setting) <=> setting = "SetComputeUnitLimit"
             /\ Sets(m, 3, setting) <=> setting = "SetComputeUnitPrice"
             /\ Sets(m, 4, setting) <=> setting = "SetLoadedAccountsDataSizeLimit"
             /\ Sets(m, 5, setting) <=> setting = "RequestHeapFrame"
  BY <1>1, <1>2 DEF Sets, SetterInstruction, TransferInstruction
<1>4. ASSUME NEW setting \in Settings, NEW k \in 2..5, Sets(m, k, setting)
      PROVE  LastAssignment(m, 5, setting) = k
  <2>1. {j \in 1..5 : Sets(m, j, setting)} = {k}
    <3>1. \A j \in 1..5 : j \in {1, 2, 3, 4, 5}
      OBVIOUS
    <3>2. k \in {2, 3, 4, 5}
      OBVIOUS
    <3> QED BY <1>3, <1>4, <3>1, <3>2
  <2> QED BY <2>1, MaxOfOne DEF LastAssignment
<1>5. /\ LastAssignment(m, 5, "SetComputeUnitLimit") = 2
      /\ LastAssignment(m, 5, "SetComputeUnitPrice") = 3
      /\ LastAssignment(m, 5, "SetLoadedAccountsDataSizeLimit") = 4
      /\ LastAssignment(m, 5, "RequestHeapFrame") = 5
  BY <1>3, <1>4 DEF Settings
<1>6. /\ ins[2].operand = config.computeUnitLimit
      /\ ins[3].operand = EquivalentPrice(config)
      /\ ins[4].operand = config.loadedAccountsDataSizeLimit
      /\ ins[5].operand = config.heapSize
  BY <1>1 DEF SetterInstruction
<1> QED BY <1>1, <1>5, <1>6 DEF SettingsAfter, Settings

(* What TypeScript reads out of each of the three transactions is the config. *)
LEMMA BudgetOfTransactions ==
  ASSUME NEW config, ConfigAssumption(config), NEW m \in Transactions(config),
         NEW r \in TypeScript
  PROVE  BudgetOfMessage(r, m) = config
<1>1. CASE m = V1Transaction(config)
  <2>1. BudgetFromConfig(config) = config
    BY DEF ConfigAssumption, ComputeBudget, BudgetFromConfig
  <2> QED BY <1>1, <2>1 DEF V1Transaction, BudgetOfMessage
<1>2. CASE m \in {LegacyTransaction(config), V0Transaction(config)}
  <2> DEFINE limit == config.computeUnitLimit
             fee == config.priorityFee
             price == EquivalentPrice(config)
  <2>1. /\ m.version # "v1"
        /\ m.accountKeys = Keys
        /\ m.instructions = <<TransferInstruction>> \o ComputeBudgetInstructions(config)
    BY <1>2 DEF LegacyTransaction, V0Transaction
  <2>2. /\ config \in ComputeBudget /\ limit \in 1..MicroLamportsPerLamport
        /\ limit \in Nat /\ fee \in Nat
    BY DEF ConfigAssumption
  <2>3. price \in Nat
    <3>1. fee * MicroLamportsPerLamport \in Nat /\ limit \in Nat \ {0}
      BY <2>2, BudgetAssumption
    <3> QED BY <3>1, DivBounds DEF EquivalentPrice
  <2>4. (limit * price + (MicroLamportsPerLamport - 1)) \div MicroLamportsPerLamport = fee
    BY <2>2, PriceKeepsFee, BudgetAssumption DEF EquivalentPrice
  <2> HIDE DEF limit, fee, price
  <2>5. Total(r, limit, price) = fee
    BY <2>4 DEF Total
  <2>6. /\ Len(m.instructions) = 5
        /\ SettingsAfter(m, 5)["SetComputeUnitLimit"] = limit
        /\ SettingsAfter(m, 5)["SetComputeUnitPrice"] = price
        /\ SettingsAfter(m, 5)["SetLoadedAccountsDataSizeLimit"]
             = config.loadedAccountsDataSizeLimit
        /\ SettingsAfter(m, 5)["RequestHeapFrame"] = config.heapSize
    BY <2>1, SettingsOfBudget DEF limit, price
  <2>7. limit # Nil /\ price # Nil
    BY <2>2, <2>3, BudgetAssumption
  <2>8. BudgetFromSettings(r, SettingsAfter(m, 5), 5)
          = [computeUnitLimit |-> limit, heapSize |-> config.heapSize,
             loadedAccountsDataSizeLimit |-> config.loadedAccountsDataSizeLimit,
             priorityFee |-> fee]
    BY <2>5, <2>6, <2>7 DEF BudgetFromSettings, ComputeUnitLimitOrDefault
  <2>9. config = [computeUnitLimit |-> limit, heapSize |-> config.heapSize,
                  loadedAccountsDataSizeLimit |-> config.loadedAccountsDataSizeLimit,
                  priorityFee |-> fee]
    BY <2>2 DEF ComputeBudget, limit, fee
  <2> QED BY <2>1, <2>6, <2>8, <2>9 DEF BudgetOfMessage
<1> QED BY <1>1, <1>2 DEF Transactions

-----------------------------------------------------------------------------
(* The three transactions state one budget three ways, whatever the config: the
   loop returns the last assignments, and those of the three come to it. *)
THEOREM BudgetSurvivesEncodings == Spec => []SameBudgetThreeWays
<1>1. ReaderInv => SameBudgetThreeWays
  <2> SUFFICES ASSUME ReaderInv, outcome = "done", reader \in TypeScript,
                      NEW config \in Configs, message \in Transactions(config)
               PROVE  budget = config
    BY DEF SameBudgetThreeWays
  <2>1. budget = BudgetOfMessage(reader, message)
    BY DEF ReaderInv, BudgetIsLastAssignment
  <2> QED BY <2>1, ConfigsAssumption, BudgetOfTransactions
<1> QED BY <1>1, ReaderInit, ReaderStep, PTL DEF Spec

-----------------------------------------------------------------------------
(***************************************************************************)
(* Reading versions over JSON-RPC.                                         *)
(***************************************************************************)

(* What has been said of the first two requests. *)
LinesType == lines \in Seq({"succeeded", "refused"}) /\ Len(lines) <= 2

(* A program that has yet to send has asked nothing; one that has asked three
   times is done. *)
Progress ==
  /\ pc = "send" => lines = <<>>
  /\ pc # "done" => result = "none"

CeilingInv ==
  /\ impl \in Impls /\ block \in Blocks /\ LinesType /\ Progress
  /\ TallyIsBlock /\ LinesTellHighestVersion /\ FailsOnlyOnDoubt

(* The versions of a block. *)
LEMMA BlockVersions ==
  ASSUME NEW b \in Blocks, NEW i \in DOMAIN b
  PROVE  b[i] \in Legacy..2
<1> DEFINE versions == Legacy..2
<1>1. b \in Seq(versions)
  BY CeilingAssumption
<1> HIDE DEF versions
<1>2. i \in 1..Len(b)
  BY <1>1
<1>3. b[i] \in versions
  BY <1>1, <1>2
<1> QED BY <1>3 DEF versions

LEMMA CeilingStarts == CeilingInit => CeilingInv
<1> SUFFICES ASSUME CeilingInit PROVE CeilingInv
  OBVIOUS
<1>1. impl \in Impls /\ block \in Blocks /\ lines = <<>> /\ result = "none"
  BY DEF CeilingInit, Readable
<1>2. LinesType
  BY <1>1 DEF LinesType
<1> QED
  BY <1>1, <1>2 DEF CeilingInv, Progress, TallyIsBlock, LinesTellHighestVersion,
                    FailsOnlyOnDoubt

LEMMA SendKeepsCeilingInv == ASSUME CeilingInv, SendV1Transfer PROVE CeilingInv'
<1>1. /\ pc = "send" /\ lines = <<>> /\ result = "none"
      /\ impl' = impl /\ lines' = lines /\ block' \in Blocks
  BY DEF CeilingInv, Progress, SendV1Transfer, Readable
<1>2. pc' \in {"ask", "done"} /\ (result' # "none" => pc' = "done" /\ result' = "error" /\ doubt')
  BY <1>1 DEF SendV1Transfer
<1> QED
  BY <1>1, <1>2 DEF CeilingInv, LinesType, Progress, TallyIsBlock, LinesTellHighestVersion,
                    FailsOnlyOnDoubt

(* One line more.  Without a doubt the node held the block, and answered by its
   versions; the libraries of Go and Rust say nothing better than they got. *)
LEMMA AskKeepsCeilingInv == ASSUME CeilingInv, Ask PROVE CeilingInv'
<1>1. PICK answer \in Answers(Ceilings[Asking]) :
        /\ lines' = Append(lines, IF SaysSucceeded(answer) THEN "succeeded" ELSE "refused")
        /\ doubt' = (doubt \/ answer \in {"error", "null"})
  BY DEF Ask
<1>2. /\ pc = "ask" /\ lines \in Seq({"succeeded", "refused"}) /\ Len(lines) \in Nat
      /\ Asking = Len(lines) + 1 /\ Asking \in 1..2 /\ result = "none"
      /\ UNCHANGED <<impl, block, held, pc, tally, result>>
  BY DEF Ask, Asking, CeilingInv, LinesType, Progress
<1>3. /\ lines' \in Seq({"succeeded", "refused"}) /\ Len(lines') = Asking
      /\ DOMAIN lines' = 1..Asking /\ DOMAIN lines = 1..Len(lines)
      /\ \A i \in 1..Len(lines) : lines'[i] = lines[i]
      /\ lines'[Asking] = IF SaysSucceeded(answer) THEN "succeeded" ELSE "refused"
  BY <1>1, <1>2
<1>4. Ceilings[Asking] = <<Legacy, 0>>[Asking]
  BY <1>2 DEF Ceilings
<1>5. ASSUME NEW i \in DOMAIN lines'
      PROVE  LET within == Within(block, <<Legacy, 0>>[i])
             IN /\ ~doubt' => (lines'[i] = "succeeded" <=> within)
                /\ impl \in {"go", "rust"} => (lines'[i] = "succeeded" => within)
  <2>1. CASE i = Asking
    <3>1. answer \in {"error", IF ~held THEN "null"
                               ELSE IF Within(block, <<Legacy, 0>>[i]) THEN "block"
                                                                      ELSE "rejected"}
      BY <1>4, <2>1 DEF Answers
    <3>2. lines'[i] = "succeeded" <=> SaysSucceeded(answer)
      BY <1>3, <2>1
    <3> QED BY <1>1, <3>1, <3>2 DEF SaysSucceeded
  <2>2. CASE i # Asking
    <3>1. i \in DOMAIN lines /\ lines'[i] = lines[i]
      BY <1>2, <1>3, <2>2
    <3>2. ~doubt' => ~doubt
      BY <1>1
    <3> QED BY <3>1, <3>2 DEF CeilingInv, LinesTellHighestVersion
  <2> QED BY <2>1, <2>2
<1>6. LinesTellHighestVersion'
  BY <1>2, <1>5 DEF LinesTellHighestVersion, Within
<1> QED
  BY <1>2, <1>3, <1>6 DEF CeilingInv, LinesType, Progress, TallyIsBlock, FailsOnlyOnDoubt

(* The lines stand: nothing printed goes back on a doubt. *)
LEMMA AskFailsKeepsCeilingInv == ASSUME CeilingInv, AskFails PROVE CeilingInv'
BY DEF AskFails, CeilingInv, LinesType, Progress, TallyIsBlock, LinesTellHighestVersion,
       FailsOnlyOnDoubt, Within

(* What a program counts under a bucket is what is in the block. *)
LEMMA BucketsAreVersions ==
  ASSUME NEW b \in Blocks, Within(b, 1), NEW bucket \in Buckets
  PROVE  Count(b, bucket) =
           Cardinality({i \in DOMAIN b :
             b[i] = [legacy |-> Legacy, v0 |-> 0, v1 |-> 1, none |-> 2][bucket]})
<1>1. ASSUME NEW i \in DOMAIN b PROVE b[i] \in {Legacy, 0, 1}
  BY <1>1, BlockVersions DEF Within, Legacy
<1>2. \A i \in DOMAIN b :
        BucketOf(b[i]) = bucket
          <=> b[i] = [legacy |-> Legacy, v0 |-> 0, v1 |-> 1, none |-> 2][bucket]
  BY <1>1 DEF BucketOf, Buckets, Legacy
<1> QED BY <1>2 DEF Count

LEMMA ReadKeepsCeilingInv == ASSUME CeilingInv, Read PROVE CeilingInv'
<1>1. PICK answer \in Answers(Ceilings[3]) :
        /\ IF answer = "block"
           THEN result' = "ok" /\ tally' = [b \in Buckets |-> Count(block, b)]
           ELSE result' = "error" /\ UNCHANGED tally
        /\ doubt' = (doubt \/ answer \in {"error", "null"})
  BY DEF Read
<1>2. /\ pc' = "done" /\ LinesType /\ UNCHANGED <<impl, block, held, lines>>
      /\ impl \in Impls /\ block \in Blocks
  BY DEF Read, CeilingInv
<1>3. Ceilings[3] = 1
  BY DEF Ceilings
<1>4. answer \in {"error", IF ~held THEN "null"
                           ELSE IF Within(block, 1) THEN "block" ELSE "rejected"}
  BY <1>3 DEF Answers
<1>5. TallyIsBlock'
  <2> SUFFICES ASSUME answer = "block", NEW bucket \in Buckets
               PROVE  tally'[bucket] = Cardinality({i \in DOMAIN block :
                        block[i] = [legacy |-> Legacy, v0 |-> 0, v1 |-> 1, none |-> 2][bucket]})
    BY <1>1, <1>2 DEF TallyIsBlock
  <2>1. Within(block, 1)
    BY <1>4
  <2> QED BY <1>1, <1>2, <2>1, BucketsAreVersions
<1>6. FailsOnlyOnDoubt'
  BY <1>1, <1>2, <1>4 DEF FailsOnlyOnDoubt, Within
<1>7. LinesTellHighestVersion'
  BY <1>1, <1>2 DEF CeilingInv, LinesTellHighestVersion, Within
<1> QED BY <1>2, <1>5, <1>6, <1>7 DEF CeilingInv, LinesType, Progress

LEMMA CeilingKept == CeilingInv /\ [CeilingNext]_ceilingVars => CeilingInv'
<1> SUFFICES ASSUME CeilingInv, [CeilingNext]_ceilingVars PROVE CeilingInv'
  OBVIOUS
<1>1. CASE NodeChanges \/ UNCHANGED ceilingVars
  BY <1>1 DEF NodeChanges, ceilingVars, CeilingInv, LinesType, Progress, TallyIsBlock,
              LinesTellHighestVersion, FailsOnlyOnDoubt, Within
<1> QED
  BY <1>1, SendKeepsCeilingInv, AskKeepsCeilingInv, AskFailsKeepsCeilingInv, ReadKeepsCeilingInv
  DEF CeilingNext

THEOREM CeilingInvariant == CeilingSpec => []CeilingInv
BY CeilingStarts, CeilingKept, PTL DEF CeilingSpec

(* Every program's tally is the block's. *)
THEOREM TalliesAreBlocks == CeilingSpec => []TallyIsBlock
BY CeilingInvariant, PTL DEF CeilingInv

(* What the first two requests printed tells the block's highest version. *)
THEOREM LinesTell == CeilingSpec => []LinesTellHighestVersion
BY CeilingInvariant, PTL DEF CeilingInv

(* A program fails only for a failed call, null or an unknown version. *)
THEOREM CeilingFailsOnDoubt == CeilingSpec => []FailsOnlyOnDoubt
BY CeilingInvariant, PTL DEF CeilingInv
=============================================================================
