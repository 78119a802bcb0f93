--------------------------- MODULE IndexerProofs ---------------------------
(***************************************************************************)
(* Proofs about Indexer, for every stream, every limit and however many    *)
(* updates are published: what an indexer has counted is what it was       *)
(* delivered, what it reports of a block is that block's alone, and it     *)
(* stops where it was told to.  From these, that a demo passes for the     *)
(* right reason.                                                           *)
(***************************************************************************)
EXTENDS Demo, BudgetProofs, FiniteSetTheorems

(* The types of the indexer's state. *)
Types ==
  /\ impl \in Impls /\ kind \in Kinds /\ limit \in Optional(Nat)
  /\ published \in Seq(Updates)
  /\ opened \in Nat /\ position \in Nat
  /\ opened <= position /\ position <= Len(published) + 1
  /\ stream \in {"open", "ended", "failed"}
  /\ pc \in {"connecting", "running", "exited"}
  /\ exitCode \in {0, 1, 130, Nil} /\ interrupted \in BOOLEAN
  /\ tally \in [Versions -> Nat] /\ fees \in Nat /\ blocksWithV1 \in Nat

(* Before the plugin has the subscription nothing was counted; an indexer has
   an exit code from when it exits. *)
BeforeOpening ==
  /\ opened = 0 => position = 0 /\ tally = NoTally /\ blocksWithV1 = 0
  /\ pc = "connecting" => opened = 0
  /\ pc = "exited" <=> exitCode # Nil

Unlimited == limit = Nil \/ (limit = 0 /\ impl # "rust")
StopAt == IF limit = 0 THEN 1 ELSE limit

WithinLimit ==
  ~Unlimited => V1Seen <= StopAt /\ (pc # "exited" => V1Seen < StopAt)

(* Why an indexer may have exited with success. *)
CleanExit ==
  exitCode = 0 =>
    \/ ~Unlimited /\ V1Seen = StopAt
    \/ impl # "ts" /\ stream = "ended"
    \/ impl = "go" /\ interrupted

IndexerInv ==
  /\ Types /\ BeforeOpening /\ NothingMissedOrRepeated /\ BlockReportIsItsBlock
  /\ WithinLimit /\ CleanExit
-----------------------------------------------------------------------------
(* The version inferred from the wire is the one the sender compiled. *)
LEMMA VersionInferred ==
  ASSUME NEW m \in Message, m.version = "v1" => m.config # Nil
  PROVE  MessageVersionOf(GrpcMessage(m)) = m.version
BY DEF Message, Versions, MessageVersionOf, GrpcMessage

(* What the next update is. *)
LEMMA ReceivedType ==
  ASSUME Types, Receiving
  PROVE  /\ position \in 1..Len(published) /\ Received \in Updates
         /\ Received.messages \in Seq(Optional(Message))
         /\ \A k \in DOMAIN Received.messages :
              Received.messages[k] # Nil => VersionOf(k) = Received.messages[k].version
<1>1. position \in 1..Len(published)
  BY DEF Types, Receiving
<1>2. Received \in Updates
  BY <1>1 DEF Types, Received
<1>3. Received \in Update
  BY <1>2, IndexerAssumption
<1>4. Received.messages \in Seq(Optional(Message))
  BY <1>3 DEF Update
<1>5. ASSUME NEW k \in DOMAIN Received.messages, Received.messages[k] # Nil
      PROVE  VersionOf(k) = Received.messages[k].version
  <2>1. Received.messages[k] \in Message
    BY <1>4, <1>5 DEF Optional
  <2> QED BY <1>2, <1>5, <2>1, IndexerAssumption, VersionInferred DEF VersionOf
<1> QED BY <1>1, <1>2, <1>4, <1>5

LEMMA DeliveredFinite ==
  ASSUME Types, NEW version
  PROVE  IsFiniteSet(Delivered(version))
<1>1. IsFiniteSet(opened..(position - 1))
  BY FS_Interval DEF Types
<1> QED BY <1>1, FS_Subset, FS_EmptySet DEF Delivered

(* One update more. *)
LEMMA DeliveredGrows ==
  ASSUME Types, opened # 0, position' = position + 1,
         UNCHANGED <<published, opened, kind>>, NEW version
  PROVE  Cardinality(Delivered(version))' =
           IF HasVersion(position, version) THEN Cardinality(Delivered(version)) + 1
                                            ELSE Cardinality(Delivered(version))
<1>1. opened \in Nat /\ position \in Nat /\ opened <= position
  BY DEF Types
<1>2. opened..(position' - 1) = opened..(position - 1) \cup {position}
  BY <1>1
<1>3. \A i : HasVersion(i, version)' <=> HasVersion(i, version)
  BY DEF HasVersion
<1>4. Delivered(version)' = IF HasVersion(position, version)
                            THEN Delivered(version) \cup {position}
                            ELSE Delivered(version)
  BY <1>2, <1>3 DEF Delivered
<1>5. position \notin Delivered(version)
  BY <1>1 DEF Delivered
<1> QED BY <1>4, <1>5, DeliveredFinite, FS_AddElement

(* What was delivered stays delivered while the indexer stands still. *)
LEMMA DeliveredStays ==
  ASSUME Types, UNCHANGED <<opened, position, kind>>,
         \/ UNCHANGED published
         \/ \E u \in Updates : published' = Append(published, u),
         NEW version
  PROVE  Delivered(version)' = Delivered(version)
<1>1. ASSUME NEW i \in opened..(position - 1), opened # 0
      PROVE  published'[i] = published[i]
  BY <1>1 DEF Types
<1>2. \A i \in opened..(position - 1) :
        opened # 0 => (HasVersion(i, version)' <=> HasVersion(i, version))
  BY <1>1 DEF HasVersion
<1> QED BY <1>2 DEF Delivered
-----------------------------------------------------------------------------
(***************************************************************************)
(* The fees of a block.                                                    *)
(***************************************************************************)
(* What a block may hold. *)
Readable(messages) ==
  /\ messages \in Seq(Optional(Message))
  /\ \A k \in DOMAIN messages :
       messages[k] # Nil /\ messages[k].version = "v1" => messages[k].config # Nil

(* What one of its messages adds to the sum. *)
Fee(language, m) == IF m = Nil THEN 0 ELSE PriorityFee(language, m)

(* The total after each message is the one before with its fee. *)
LEMMA FeesEach ==
  ASSUME NEW messages, Len(messages) \in Nat
  PROVE  /\ FeesAfter(messages)[0] = 0
         /\ \A n \in 1..Len(messages) :
              FeesAfter(messages)[n] = AddFee(FeesAfter(messages)[n - 1], messages[n])
<1> DEFINE IsTotal(f, k) ==
             f = [n \in 0..k |-> IF n = 0 THEN 0 ELSE AddFee(f[n - 1], messages[n])]
           T == {k \in Nat : \E f : IsTotal(f, k)}
<1>1. 0 \in T
  <2>1. IsTotal([n \in 0..0 |-> 0], 0)
    OBVIOUS
  <2> QED BY <2>1
<1>2. ASSUME NEW k \in T PROVE k + 1 \in T
  <2>1. PICK f : IsTotal(f, k)
    OBVIOUS
  <2> DEFINE g == [n \in 0..(k + 1) |-> IF n = k + 1 THEN AddFee(f[k], messages[n]) ELSE f[n]]
  <2>2. IsTotal(g, k + 1)
    <3>1. ASSUME NEW n \in 0..(k + 1)
          PROVE  g[n] = IF n = 0 THEN 0 ELSE AddFee(g[n - 1], messages[n])
      <4>1. CASE n = k + 1
        BY <4>1
      <4>2. CASE n # k + 1
        <5>1. n \in 0..k /\ g[n] = f[n] /\ (n # 0 => g[n - 1] = f[n - 1])
          BY <4>2
        <5>2. f[n] = IF n = 0 THEN 0 ELSE AddFee(f[n - 1], messages[n])
          BY <2>1, <5>1
        <5> QED BY <5>1, <5>2
      <4> QED BY <4>1, <4>2
    <3> QED BY <3>1
  <2> HIDE DEF IsTotal, g
  <2> QED BY <2>2
<1> HIDE DEF IsTotal
<1>3. T = Nat
  BY <1>1, <1>2, InductionBySets
<1>4. PICK f : IsTotal(f, Len(messages))
  BY <1>3
<1> DEFINE h == FeesAfter(messages)
<1>5. IsTotal(h, Len(messages))
  BY <1>4 DEF IsTotal, FeesAfter
<1> HIDE DEF h
<1> QED BY <1>5 DEF IsTotal, h

(* Likewise the sum without a bound. *)
LEMMA SumsEach ==
  ASSUME NEW language, NEW messages, Len(messages) \in Nat
  PROVE  /\ FeeSums(language, messages)[0] = 0
         /\ \A n \in 1..Len(messages) :
              FeeSums(language, messages)[n]
                = FeeSums(language, messages)[n - 1] + Fee(language, messages[n])
<1> DEFINE IsSum(f, k) ==
             f = [n \in 0..k |-> IF n = 0 THEN 0 ELSE f[n - 1] + Fee(language, messages[n])]
           T == {k \in Nat : \E f : IsSum(f, k)}
<1>1. 0 \in T
  <2>1. IsSum([n \in 0..0 |-> 0], 0)
    OBVIOUS
  <2> QED BY <2>1
<1>2. ASSUME NEW k \in T PROVE k + 1 \in T
  <2>1. PICK f : IsSum(f, k)
    OBVIOUS
  <2> DEFINE g == [n \in 0..(k + 1) |-> IF n = k + 1 THEN f[k] + Fee(language, messages[n])
                                                    ELSE f[n]]
  <2>2. IsSum(g, k + 1)
    <3>1. ASSUME NEW n \in 0..(k + 1)
          PROVE  g[n] = IF n = 0 THEN 0 ELSE g[n - 1] + Fee(language, messages[n])
      <4>1. CASE n = k + 1
        BY <4>1
      <4>2. CASE n # k + 1
        <5>1. n \in 0..k /\ g[n] = f[n] /\ (n # 0 => g[n - 1] = f[n - 1])
          BY <4>2
        <5>2. f[n] = IF n = 0 THEN 0 ELSE f[n - 1] + Fee(language, messages[n])
          BY <2>1, <5>1
        <5> QED BY <5>1, <5>2
      <4> QED BY <4>1, <4>2
    <3> QED BY <3>1
  <2> HIDE DEF IsSum, g
  <2> QED BY <2>2
<1> HIDE DEF IsSum
<1>3. T = Nat
  BY <1>1, <1>2, InductionBySets
<1>4. PICK f : IsSum(f, Len(messages))
  BY <1>3
<1> DEFINE h == FeeSums(language, messages)
<1>5. IsSum(h, Len(messages))
  BY <1>4 DEF IsSum, FeeSums, Fee
<1> HIDE DEF h
<1> QED BY <1>5 DEF IsSum, h

LEMMA FeeType ==
  ASSUME NEW language, NEW messages, Readable(messages), NEW k \in DOMAIN messages
  PROVE  Fee(language, messages[k]) \in Nat
<1>1. CASE messages[k] = Nil
  BY <1>1 DEF Fee
<1>2. CASE messages[k] # Nil
  <2>1. messages[k] \in Message /\ (messages[k].version = "v1" => messages[k].config # Nil)
    BY <1>2 DEF Readable, Optional
  <2>2. BudgetOfMessage(ReaderOf(language), messages[k]) \in ComputeBudget
    BY <2>1, BudgetOfMessageType
  <2> QED BY <1>2, <2>2 DEF Fee, PriorityFee, ComputeBudget, Optional
<1> QED BY <1>1, <1>2

LEMMA SumsType ==
  ASSUME NEW language, NEW messages, Readable(messages)
  PROVE  \A n \in 0..Len(messages) : FeeSums(language, messages)[n] \in Nat
<1> DEFINE T == {n \in Nat : n <= Len(messages) => FeeSums(language, messages)[n] \in Nat}
<1>1. Len(messages) \in Nat /\ DOMAIN messages = 1..Len(messages)
  BY DEF Readable
<1>2. 0 \in T
  BY <1>1, SumsEach
<1>3. ASSUME NEW n \in T PROVE n + 1 \in T
  <2> SUFFICES ASSUME n + 1 <= Len(messages)
               PROVE  FeeSums(language, messages)[n + 1] \in Nat
    OBVIOUS
  <2>1. n + 1 \in 1..Len(messages) /\ (n + 1) - 1 = n /\ FeeSums(language, messages)[n] \in Nat
    BY <1>1
  <2>2. FeeSums(language, messages)[n + 1]
          = FeeSums(language, messages)[n] + Fee(language, messages[n + 1])
    BY <1>1, <2>1, SumsEach
  <2>3. Fee(language, messages[n + 1]) \in Nat
    BY <1>1, <2>1, FeeType
  <2> QED BY <2>1, <2>2, <2>3
<1>4. T = Nat
  BY <1>2, <1>3, InductionBySets
<1> QED BY <1>1, <1>4

(* Wrapping or saturating at every addition comes to doing it once. *)
LEMMA PlusStored ==
  ASSUME impl \in Impls, NEW a \in Nat, NEW b \in Nat
  PROVE  Plus(Stored(impl, a), b) = Stored(impl, a + b)
<1> USE BudgetAssumption
<1>1. CASE impl = "go"
  <2>1. MaxU64 + 1 \in Nat \ {0}
    OBVIOUS
  <2>2. ((a % (MaxU64 + 1)) + b) % (MaxU64 + 1) = (a + b) % (MaxU64 + 1)
    BY <2>1, ModOnce
  <2> QED BY <1>1, <2>2 DEF Plus, Stored
<1>2. CASE impl = "ts"
  BY <1>2 DEF Plus, Stored
<1>3. CASE impl = "rust"
  <2> DEFINE c == Stored(impl, a)
  <2>1. c = IF a > MaxU64 THEN MaxU64 ELSE a
    BY <1>3 DEF Stored
  <2>2. c \in Nat
    BY <2>1
  <2> HIDE DEF c
  <2>3. Min({c + b, MaxU64}) = IF c + b > MaxU64 THEN MaxU64 ELSE c + b
    BY <2>2 DEF Min
  <2>4. Stored(impl, a + b) = IF a + b > MaxU64 THEN MaxU64 ELSE a + b
    BY <1>3 DEF Stored
  <2>5. Plus(c, b) = Min({c + b, MaxU64})
    BY <1>3 DEF Plus
  <2> QED BY <2>1, <2>3, <2>4, <2>5 DEF c
<1> QED BY <1>1, <1>2, <1>3 DEF Impls

(* So a language's total is what it makes of the sum without a bound. *)
LEMMA FeesStored ==
  ASSUME impl \in Impls, NEW messages, Readable(messages)
  PROVE  \A n \in 0..Len(messages) :
           FeesAfter(messages)[n] = Stored(impl, FeeSums(impl, messages)[n])
<1> DEFINE T == {n \in Nat : n <= Len(messages) =>
                   FeesAfter(messages)[n] = Stored(impl, FeeSums(impl, messages)[n])}
<1>1. Len(messages) \in Nat /\ DOMAIN messages = 1..Len(messages)
  BY DEF Readable
<1>2. 0 \in T
  <2>1. Stored(impl, 0) = 0
    <3>1. 0 % (MaxU64 + 1) = 0 /\ ~(0 > MaxU64)
      BY BudgetAssumption
    <3> QED BY <3>1 DEF Stored, Impls
  <2> QED BY <1>1, <2>1, FeesEach, SumsEach
<1>3. ASSUME NEW n \in T PROVE n + 1 \in T
  <2> SUFFICES ASSUME n + 1 <= Len(messages)
               PROVE  FeesAfter(messages)[n + 1] = Stored(impl, FeeSums(impl, messages)[n + 1])
    OBVIOUS
  <2> DEFINE a == FeeSums(impl, messages)[n]
             b == Fee(impl, messages[n + 1])
  <2>1. /\ n \in 0..Len(messages) /\ n + 1 \in 1..Len(messages) /\ (n + 1) - 1 = n
        /\ FeesAfter(messages)[n] = Stored(impl, a)
    BY <1>1
  <2>2. a \in Nat
    BY <2>1, SumsType
  <2>3. b \in Nat
    BY <1>1, <2>1, FeeType
  <2>4. FeeSums(impl, messages)[n + 1] = a + b
    BY <1>1, <2>1, SumsEach
  <2>5. FeesAfter(messages)[n + 1] = AddFee(Stored(impl, a), messages[n + 1])
    BY <1>1, <2>1, FeesEach
  <2> HIDE DEF a
  <2>6. CASE messages[n + 1] = Nil
    <3>1. b = 0 /\ a + b = a
      BY <2>2, <2>6 DEF Fee
    <3> QED BY <2>4, <2>5, <2>6, <3>1 DEF AddFee
  <2>7. CASE messages[n + 1] # Nil
    <3>1. AddFee(Stored(impl, a), messages[n + 1]) = Plus(Stored(impl, a), b)
      BY <2>7 DEF AddFee, Fee
    <3> HIDE DEF b
    <3> QED BY <2>2, <2>3, <2>4, <2>5, <3>1, PlusStored
  <2> QED BY <2>6, <2>7
<1> HIDE DEF T
<1>4. T = Nat
  BY <1>2, <1>3, InductionBySets DEF T
<1> QED BY <1>1, <1>4 DEF T

(* Where every product of limit and price fits, the languages add up the same. *)
LEMMA SumsAgree ==
  ASSUME NEW l, NEW s, NEW messages, Readable(messages),
         \A k \in DOMAIN messages : messages[k] # Nil => Fits(messages[k])
  PROVE  \A n \in 0..Len(messages) : FeeSums(l, messages)[n] = FeeSums(s, messages)[n]
<1> DEFINE T == {n \in Nat : n <= Len(messages) =>
                   FeeSums(l, messages)[n] = FeeSums(s, messages)[n]}
<1>1. Len(messages) \in Nat /\ DOMAIN messages = 1..Len(messages)
  BY DEF Readable
<1>2. 0 \in T
  BY <1>1, SumsEach
<1>3. ASSUME NEW n \in T PROVE n + 1 \in T
  <2> SUFFICES ASSUME n + 1 <= Len(messages)
               PROVE  FeeSums(l, messages)[n + 1] = FeeSums(s, messages)[n + 1]
    OBVIOUS
  <2>1. /\ n + 1 \in 1..Len(messages) /\ (n + 1) - 1 = n
        /\ FeeSums(l, messages)[n] = FeeSums(s, messages)[n]
    BY <1>1
  <2>2. Fee(l, messages[n + 1]) = Fee(s, messages[n + 1])
    <3>1. CASE messages[n + 1] = Nil
      BY <3>1 DEF Fee
    <3>2. CASE messages[n + 1] # Nil
      <4>1. messages[n + 1] \in Message /\ Fits(messages[n + 1])
        BY <1>1, <2>1, <3>2 DEF Readable, Optional
      <4> QED BY <3>2, <4>1, BudgetsAgree DEF Fee, PriorityFee
    <3> QED BY <3>1, <3>2
  <2>3. /\ FeeSums(l, messages)[n + 1] = FeeSums(l, messages)[n] + Fee(l, messages[n + 1])
        /\ FeeSums(s, messages)[n + 1] = FeeSums(s, messages)[n] + Fee(s, messages[n + 1])
    BY <1>1, <2>1, SumsEach
  <2> QED BY <2>1, <2>2, <2>3
<1>4. T = Nat
  BY <1>2, <1>3, InductionBySets
<1> QED BY <1>1, <1>4

(* A sum that fits is stored as it is. *)
LEMMA StoredType ==
  ASSUME NEW l \in Impls, NEW sum \in Nat
  PROVE  Stored(l, sum) \in Nat /\ (sum <= MaxU64 => Stored(l, sum) = sum)
<1> DEFINE d == MaxU64 + 1
<1>1. MaxU64 \in Nat /\ d \in Nat \ {0}
  BY BudgetAssumption
<1>2. CASE l = "go"
  <2>1. Stored(l, sum) = sum % d
    BY <1>2 DEF Stored
  <2>2. sum < d <=> sum <= MaxU64
    BY <1>1
  <2> HIDE DEF d
  <2>3. sum % d \in 0..(d - 1) /\ sum = d * (sum \div d) + (sum % d)
    BY <1>1, DivBounds
  <2>4. ASSUME sum < d PROVE sum % d = sum
    <3>1. d * 0 <= sum /\ sum < d * 0 + d
      BY <1>1, <2>4
    <3>2. sum \div d = 0
      BY <1>1, <3>1, DivUnique
    <3>3. d * (sum \div d) = 0
      BY <1>1, <3>2
    <3> QED BY <1>1, <2>3, <3>3
  <2> QED BY <1>1, <2>1, <2>2, <2>3, <2>4
<1>3. CASE l # "go"
  BY <1>1, <1>3 DEF Stored, Impls
<1> QED BY <1>2, <1>3

(* The line a handler leaves behind is about the block it was handed. *)
LEMMA ReportOnReceived ==
  ASSUME Types, Receiving, Received.kind = kind, impl' = impl,
         NEW messages, messages = Received.messages,
         tally' = VersionsOf(Messages), fees' = FeesAfter(messages)[Len(messages)]
  PROVE  ReportsOn(messages)' /\ fees' \in Nat
<1> DEFINE present == {k \in 1..Len(messages) : messages[k] # Nil}
           sum(language) == FeeSums(language, messages)[Len(messages)]
<1>1. /\ Received \in Updates /\ messages \in Seq(Optional(Message))
      /\ \A k \in DOMAIN messages : messages[k] # Nil => VersionOf(k) = messages[k].version
  BY ReceivedType
<1>2. Readable(messages) /\ Len(messages) \in Nat /\ DOMAIN messages = 1..Len(messages)
  BY <1>1, IndexerAssumption DEF Readable
<1>3. ASSUME NEW v \in Versions
      PROVE  tally'[v] = Cardinality({k \in present : messages[k].version = v})
  <2>1. Messages = present
    BY <1>2 DEF Messages
  <2>2. {k \in Messages : VersionOf(k) = v} = {k \in present : messages[k].version = v}
    BY <1>1, <1>2, <2>1
  <2>3. tally'[v] = Cardinality({k \in Messages : VersionOf(k) = v})
    BY DEF VersionsOf
  <2> QED BY <2>2, <2>3
<1>4. \A language : sum(language) \in Nat
  BY <1>2, SumsType
<1>5. impl \in Impls
  BY DEF Types
<1>6. fees' = Stored(impl, sum(impl))
  BY <1>2, <1>5, FeesStored
<1>7. ASSUME \A k \in present : Fits(messages[k]), sum("ts") <= MaxU64,
             NEW language \in Impls
      PROVE  fees' = sum(language)
  <2>1. sum(impl) = sum("ts") /\ sum(language) = sum("ts")
    BY <1>2, <1>7, SumsAgree
  <2> HIDE DEF sum
  <2>2. Stored(impl, sum(impl)) = sum(impl)
    BY <1>4, <1>5, <1>7, <2>1, StoredType
  <2> QED BY <1>6, <2>1, <2>2
<1>8. fees' \in Nat
  BY <1>4, <1>5, <1>6, StoredType
<1> QED BY <1>3, <1>6, <1>7, <1>8 DEF ReportsOn

(* A step that leaves the counts and hands the indexer no block. *)
LEMMA ReportStays ==
  ASSUME BlockReportIsItsBlock, Types, UNCHANGED <<impl, kind, tally, fees>>,
         BlocksHandled' = BlocksHandled,
         \A i \in BlocksHandled : published'[i] = published[i]
  PROVE  BlockReportIsItsBlock'
<1> SUFFICES ASSUME kind = "block", BlocksHandled # {}
             PROVE  ReportsOn(published[Max(BlocksHandled)].messages)'
  BY DEF BlockReportIsItsBlock
<1> DEFINE last == Max(BlocksHandled)
<1>1. opened \in Nat /\ position \in Nat /\ BlocksHandled \in SUBSET (0..position)
  BY DEF Types, BlocksHandled
<1>2. last \in BlocksHandled
  BY <1>1, GreatestOf
<1>3. PICK messages : messages = published[last].messages
  OBVIOUS
<1>4. published'[Max(BlocksHandled')].messages = messages
  BY <1>2, <1>3
<1>5. ReportsOn(messages)
  BY <1>3 DEF BlockReportIsItsBlock
<1>6. ReportsOn(messages)'
  BY <1>5 DEF ReportsOn
<1> QED BY <1>4, <1>6

LEMMA BlocksStay ==
  ASSUME Types, UNCHANGED <<opened, position>>,
         \/ UNCHANGED published
         \/ \E u \in Updates : published' = Append(published, u)
  PROVE  BlocksHandled' = BlocksHandled
         /\ \A i \in BlocksHandled : published'[i] = published[i]
<1>1. ASSUME NEW i \in opened..(position - 1), opened # 0
      PROVE  published'[i] = published[i]
  BY <1>1 DEF Types
<1> QED BY <1>1 DEF BlocksHandled

-----------------------------------------------------------------------------
LEMMA IndexerInit == Init => IndexerInv
<1> SUFFICES ASSUME Init PROVE IndexerInv
  OBVIOUS
<1> USE DEF Init
<1>1. Nil \notin Nat /\ limit \in Optional(Nat)
  BY BudgetAssumption, IndexerAssumption
<1>2. tally \in [Versions -> Nat] /\ V1Seen = 0 /\ \A v \in Versions : tally[v] = 0
  BY DEF NoTally, Versions, V1Seen
<1>3. Types
  <2>1. published \in Seq(Updates) /\ opened = 0 /\ position = 0 /\ Len(published) = 0
    OBVIOUS
  <2>2. /\ impl \in Impls /\ kind \in Kinds /\ stream = "open" /\ pc = "connecting"
        /\ exitCode = Nil /\ interrupted = FALSE /\ fees = 0 /\ blocksWithV1 = 0
    OBVIOUS
  <2>3. opened <= position /\ position <= Len(published) + 1
    BY <2>1
  <2> HIDE DEF Init
  <2> QED BY <1>1, <1>2, <2>1, <2>2, <2>3 DEF Types
<1>4. BeforeOpening
  BY DEF BeforeOpening
<1>5. \A v : Delivered(v) = {}
  BY DEF Delivered
<1>6. NothingMissedOrRepeated
  BY <1>2, <1>5, FS_EmptySet DEF NothingMissedOrRepeated
<1>7. BlockReportIsItsBlock
  BY DEF BlockReportIsItsBlock, BlocksHandled
<1>8. WithinLimit
  BY <1>1, <1>2 DEF WithinLimit, Unlimited, StopAt, Optional
<1>9. CleanExit
  BY <1>1 DEF CleanExit
<1> QED BY <1>3, <1>4, <1>6, <1>8, <1>9, <1>7 DEF IndexerInv

(* A step that counts nothing and delivers nothing. *)
LEMMA CountsNothing ==
  ASSUME IndexerInv, UNCHANGED <<config, tally, blocksWithV1>>,
         Types', BeforeOpening', BlockReportIsItsBlock', CleanExit',
         \A v \in Versions : Cardinality(Delivered(v))' = Cardinality(Delivered(v)),
         pc' # "exited" => pc # "exited"
  PROVE  IndexerInv'
<1>1. /\ impl' = impl /\ kind' = kind /\ limit' = limit
      /\ tally' = tally /\ blocksWithV1' = blocksWithV1 /\ V1Seen' = V1Seen
  BY DEF config, V1Seen
<1>2. NothingMissedOrRepeated'
  BY <1>1 DEF IndexerInv, NothingMissedOrRepeated, Versions
<1>3. WithinLimit'
  BY <1>1 DEF IndexerInv, WithinLimit, Unlimited, StopAt
<1> QED BY <1>2, <1>3 DEF IndexerInv

LEMMA PublishStep ==
  ASSUME IndexerInv, NEW u \in Updates, Publish(u)
  PROVE  IndexerInv'
<1> USE DEF Publish
<1>1. Types' /\ BeforeOpening' /\ CleanExit'
  BY DEF IndexerInv, Types, BeforeOpening, CleanExit, config, counts, Unlimited, StopAt, V1Seen
<1>2. \A v \in Versions : Delivered(v)' = Delivered(v)
  BY DeliveredStays DEF IndexerInv, config
<1>3. BlockReportIsItsBlock'
  BY BlocksStay, ReportStays DEF IndexerInv, config, counts
<1> QED BY <1>1, <1>2, <1>3, CountsNothing DEF counts

LEMMA RegisterStep == ASSUME IndexerInv, Register PROVE IndexerInv'
<1> USE DEF Register
<1>1. /\ opened' = Len(published) + 1 /\ position' = opened' /\ opened' \in Nat
      /\ opened' # 0 /\ published' = published /\ opened = 0
  BY DEF IndexerInv, Types
<1>2. Types' /\ BeforeOpening' /\ CleanExit'
  BY <1>1 DEF IndexerInv, Types, BeforeOpening, CleanExit, config, counts, Unlimited,
              StopAt, V1Seen
<1>3. \A v : Delivered(v) = {} /\ Delivered(v)' = {}
  BY <1>1 DEF Delivered
<1>4. BlockReportIsItsBlock'
  <2>1. opened'..(position' - 1) = {}
    BY <1>1
  <2> QED BY <2>1 DEF BlockReportIsItsBlock, BlocksHandled
<1> QED BY <1>2, <1>3, <1>4, CountsNothing DEF counts

(* The stream closes, a signal comes, the indexer connects or exits. *)
LEMMA StandsStill ==
  ASSUME IndexerInv, CloseStream \/ Interrupt \/ Connect \/ StreamEnds \/ StreamFails
                     \/ Cancelled
  PROVE  IndexerInv'
<1>1. UNCHANGED <<impl, kind, limit, published, opened, position, tally, fees, blocksWithV1>>
  BY DEF CloseStream, Interrupt, Connect, StreamEnds, StreamFails, Cancelled, config, plugin,
         counts
<1>2. Nil \notin Nat
  BY BudgetAssumption
<1>3. V1Seen' = V1Seen
  BY <1>1 DEF V1Seen
<1>4. \A v \in Versions : Delivered(v)' = Delivered(v)
  BY <1>1, DeliveredStays DEF IndexerInv
<1>5. Types' /\ BeforeOpening' /\ CleanExit' /\ (pc' # "exited" => pc # "exited")
  <2> USE <1>1, <1>2, <1>3
      DEF IndexerInv, Types, BeforeOpening, CleanExit, Unlimited, StopAt
  <2>1. CASE CloseStream
    BY <2>1 DEF CloseStream
  <2>2. CASE Interrupt
    BY <2>2 DEF Interrupt, plugin
  <2>3. CASE Connect
    BY <2>3 DEF Connect, Exit, plugin
  <2>4. CASE StreamEnds
    BY <2>4 DEF StreamEnds, Exit, plugin
  <2>5. CASE StreamFails
    BY <2>5 DEF StreamFails, Exit, plugin
  <2>6. CASE Cancelled
    BY <2>6 DEF Cancelled, Exit, plugin
  <2> QED BY <2>1, <2>2, <2>3, <2>4, <2>5, <2>6
<1>6. BlockReportIsItsBlock'
  BY <1>1, BlocksStay, ReportStays DEF IndexerInv
<1> QED BY <1>1, <1>4, <1>5, <1>6, CountsNothing DEF config

LEMMA SkipUpdateStep == ASSUME IndexerInv, SkipUpdate PROVE IndexerInv'
<1> USE DEF SkipUpdate
<1>1. Receiving /\ Types /\ position' = position + 1 /\ UNCHANGED <<published, opened, kind>>
  BY DEF IndexerInv, config, plugin
<1>2. \A v : ~HasVersion(position, v)
  <2>1. Received.messages \in Seq(Optional(Message))
    BY <1>1, ReceivedType
  <2> QED BY <2>1 DEF HasVersion, Messages, Received
<1>3. \A v \in Versions : Cardinality(Delivered(v))' = Cardinality(Delivered(v))
  BY <1>1, <1>2, DeliveredGrows DEF Receiving
<1>4. Types' /\ BeforeOpening' /\ CleanExit'
  BY <1>1 DEF IndexerInv, Types, BeforeOpening, CleanExit, config, plugin, counts, Stay,
              Receiving, Unlimited, StopAt, V1Seen
<1>5. BlockReportIsItsBlock'
  <2>1. CASE kind = "transaction"
    BY <1>1, <2>1 DEF BlockReportIsItsBlock
  <2>2. CASE kind = "block"
    <3>1. published[position].kind # "block"
      BY <2>2 DEF Received
    <3>2. opened..(position' - 1) = opened..(position - 1) \cup {position}
      BY <1>1 DEF Types
    <3>3. BlocksHandled' = BlocksHandled
      BY <1>1, <3>1, <3>2 DEF BlocksHandled
    <3> QED BY <1>1, <3>3, ReportStays DEF IndexerInv, config, counts
  <2> QED BY <1>1, <2>1, <2>2 DEF Types, Kinds
<1> QED BY <1>3, <1>4, <1>5, CountsNothing DEF counts, Stay

(* The limit, as the handlers ask for it. *)
LEMMA LimitTest ==
  ASSUME Types, NEW count \in Nat
  PROVE  LimitReached(count) <=> ~Unlimited /\ count >= limit
BY BudgetAssumption DEF Types, Optional, LimitReached, Unlimited, Impls

(* What a handler leaves behind when it counted one more, or none, of what the
   limit counts. *)
LEMMA CountsOne ==
  ASSUME IndexerInv, UNCHANGED <<impl, limit, interrupted, stream>>, V1Seen \in Nat,
         pc = "running",
         \/ V1Seen' = V1Seen /\ Stay
         \/ V1Seen' = V1Seen + 1
            /\ IF LimitReached(V1Seen') THEN Exit(0) ELSE Stay
  PROVE  WithinLimit' /\ CleanExit' /\ (pc' = "exited" <=> exitCode' # Nil)
         /\ pc' \in {"running", "exited"} /\ exitCode' \in {0, Nil}
<1>1. Nil \notin Nat /\ limit \in Optional(Nat) /\ exitCode = Nil /\ Types
  BY BudgetAssumption DEF IndexerInv, Types, BeforeOpening
<1>2. (Unlimited' <=> Unlimited) /\ StopAt' = StopAt
  BY DEF Unlimited, StopAt
<1>3. ~Unlimited => V1Seen < StopAt /\ limit \in Nat
  BY <1>1 DEF IndexerInv, WithinLimit, Unlimited, Optional
<1>4. CASE V1Seen' = V1Seen /\ Stay
  <2>1. pc' = "running" /\ exitCode' = Nil /\ V1Seen' = V1Seen
    BY <1>1, <1>4 DEF Stay
  <2>2. CleanExit'
    BY <1>1, <2>1 DEF CleanExit
  <2>3. WithinLimit'
    BY <1>1, <1>2, <1>3, <2>1 DEF WithinLimit, StopAt
  <2> QED BY <2>1, <2>2, <2>3
<1>5. CASE V1Seen' = V1Seen + 1 /\ IF LimitReached(V1Seen') THEN Exit(0) ELSE Stay
  <2>1. V1Seen' \in Nat /\ V1Seen' = V1Seen + 1
    BY <1>5
  <2>2. LimitReached(V1Seen') <=> ~Unlimited /\ V1Seen' >= limit
    BY <1>1, <2>1, LimitTest
  <2>3. CASE LimitReached(V1Seen')
    <3>1. ~Unlimited /\ V1Seen' >= limit /\ limit \in Nat /\ V1Seen < StopAt
      BY <1>3, <2>2, <2>3
    <3>2. V1Seen' = StopAt
      BY <2>1, <3>1 DEF StopAt
    <3>3. pc' = "exited" /\ exitCode' = 0
      BY <1>5, <2>3 DEF Exit
    <3>4. CleanExit'
      BY <1>2, <3>1, <3>2, <3>3 DEF CleanExit
    <3>5. WithinLimit'
      BY <1>2, <2>1, <3>2, <3>3 DEF WithinLimit
    <3> QED BY <1>1, <3>3, <3>4, <3>5
  <2>4. CASE ~LimitReached(V1Seen')
    <3>1. pc' = "running" /\ exitCode' = Nil
      BY <1>1, <1>5, <2>4 DEF Stay
    <3>2. ASSUME ~Unlimited PROVE V1Seen' < StopAt
      <4>1. limit \in Nat /\ ~(V1Seen' >= limit)
        BY <1>3, <2>2, <2>4, <3>2
      <4> QED BY <2>1, <4>1 DEF StopAt
    <3>3. ASSUME ~Unlimited PROVE V1Seen' <= StopAt
      <4>1. StopAt \in Nat /\ V1Seen' < StopAt
        BY <1>3, <3>2, <3>3 DEF StopAt
      <4> QED BY <2>1, <4>1
    <3>4. CleanExit'
      BY <1>1, <3>1 DEF CleanExit
    <3> QED BY <1>1, <1>2, <3>1, <3>2, <3>3, <3>4 DEF WithinLimit
  <2> QED BY <2>3, <2>4
<1> QED BY <1>4, <1>5

LEMMA HandleTransactionStep == ASSUME IndexerInv, HandleTransaction PROVE IndexerInv'
<1> DEFINE w == VersionOf(1)
<1>1. /\ Receiving /\ Types /\ kind = "transaction" /\ Messages # {}
      /\ position' = position + 1
      /\ UNCHANGED <<impl, kind, limit, published, opened, stream, interrupted>>
      /\ UNCHANGED <<fees, blocksWithV1>>
      /\ tally' = [tally EXCEPT ![w] = @ + 1]
      /\ IF w = "v1" /\ LimitReached(tally'["v1"]) THEN Exit(0) ELSE Stay
  BY DEF HandleTransaction, IndexerInv, config, plugin
<1>2. /\ Received.kind = kind /\ DOMAIN Received.messages = {1}
      /\ Received.messages[1] # Nil /\ w = Received.messages[1].version
      /\ Received.messages[1] \in Message
  <2>1. Received \in Updates /\ Received.messages \in Seq(Optional(Message))
        /\ \A k \in DOMAIN Received.messages :
             Received.messages[k] # Nil => VersionOf(k) = Received.messages[k].version
    BY <1>1, ReceivedType
  <2>2. Received.kind = kind /\ \E k \in DOMAIN Received.messages : Received.messages[k] # Nil
    BY <1>1 DEF Messages
  <2>3. Len(Received.messages) = 1
    BY <1>1, <2>1, <2>2, IndexerAssumption
  <2>4. DOMAIN Received.messages = {1}
    BY <2>1, <2>3
  <2> QED BY <2>1, <2>2, <2>4 DEF Optional
<1>3. w \in Versions
  BY <1>2 DEF Message
<1> HIDE DEF w
<1>4. \A v : HasVersion(position, v) <=> v = w
  <2>1. 1..Len(published[position].messages) = {1}
    <3>1. Received.messages \in Seq(Optional(Message))
      BY <1>1, ReceivedType
    <3>2. DOMAIN Received.messages = 1..Len(Received.messages)
      BY <3>1
    <3>3. 1..Len(Received.messages) = {1}
      BY <1>2, <3>2
    <3> QED BY <3>3 DEF Received
  <2> QED BY <1>2, <2>1 DEF HasVersion, Received
<1>5. tally' \in [Versions -> Nat]
      /\ \A v \in Versions : tally'[v] = IF v = w THEN tally[v] + 1 ELSE tally[v]
  BY <1>1, <1>3 DEF Types
<1>6. opened # 0
  BY <1>1 DEF Receiving
<1>7. NothingMissedOrRepeated'
  <2>1. \A v \in Versions : tally[v] = Cardinality(Delivered(v))
    BY <1>1 DEF IndexerInv, NothingMissedOrRepeated
  <2>2. \A v \in Versions : tally'[v] = Cardinality(Delivered(v))'
    BY <1>1, <1>4, <1>5, <1>6, <2>1, DeliveredGrows
  <2>3. V1Seen' = tally'["v1"]
    BY <1>1 DEF V1Seen
  <2> QED BY <2>2, <2>3 DEF NothingMissedOrRepeated, Versions
<1>8. WithinLimit' /\ CleanExit' /\ (pc' = "exited" <=> exitCode' # Nil)
      /\ pc' \in {"running", "exited"} /\ exitCode' \in {0, Nil}
  <2>1. V1Seen = tally["v1"] /\ V1Seen' = tally'["v1"] /\ V1Seen \in Nat
    BY <1>1 DEF V1Seen, Types, Versions
  <2>2. V1Seen' = IF w = "v1" THEN V1Seen + 1 ELSE V1Seen
    BY <1>5, <2>1 DEF Versions
  <2> QED BY <1>1, <2>1, <2>2, CountsOne DEF Receiving
<1>9. Types'
  BY <1>1, <1>5, <1>8 DEF Types, Receiving
<1>10. BeforeOpening'
  BY <1>1, <1>6, <1>8 DEF BeforeOpening
<1>11. BlockReportIsItsBlock'
  BY <1>1 DEF BlockReportIsItsBlock
<1> QED BY <1>7, <1>8, <1>9, <1>10, <1>11 DEF IndexerInv

LEMMA HandleBlockStep == ASSUME IndexerInv, HandleBlock PROVE IndexerInv'
<1>1. /\ Receiving /\ Types /\ kind = "block" /\ Received.kind = kind
      /\ position' = position + 1
      /\ UNCHANGED <<impl, kind, limit, published, opened, stream, interrupted>>
      /\ tally' = VersionsOf(Messages)
      /\ blocksWithV1' = IF tally'["v1"] > 0 THEN blocksWithV1 + 1 ELSE blocksWithV1
      /\ IF tally'["v1"] > 0 /\ LimitReached(blocksWithV1') THEN Exit(0) ELSE Stay
  BY DEF HandleBlock, IndexerInv, config, plugin
<1>2. /\ Received.messages \in Seq(Optional(Message))
      /\ \A k \in DOMAIN Received.messages :
           Received.messages[k] # Nil => VersionOf(k) = Received.messages[k].version
  BY <1>1, ReceivedType
<1>3. ASSUME NEW v \in Versions
      PROVE  LET ofVersion == {k \in Messages : VersionOf(k) = v}
             IN Cardinality(ofVersion) \in Nat
                /\ (Cardinality(ofVersion) > 0 <=> HasVersion(position, v))
  <2> DEFINE ofVersion == {k \in Messages : VersionOf(k) = v}
  <2>1. IsFiniteSet(1..Len(Received.messages))
    BY <1>2, FS_Interval
  <2>2. ofVersion \subseteq 1..Len(Received.messages)
    BY <1>2 DEF Messages
  <2>3. IsFiniteSet(ofVersion)
    BY <2>1, <2>2, FS_Subset
  <2>4. Cardinality(ofVersion) \in Nat /\ (Cardinality(ofVersion) = 0 <=> ofVersion = {})
    BY <2>3, FS_CardinalityType, FS_EmptySet
  <2>5. ofVersion # {} <=> HasVersion(position, v)
    <3>1. Messages = {k \in 1..Len(Received.messages) : Received.messages[k] # Nil}
      BY <1>1, <1>2 DEF Messages
    <3>2. ofVersion = {k \in 1..Len(Received.messages) :
                         Received.messages[k] # Nil /\ Received.messages[k].version = v}
      BY <1>2, <3>1
    <3> QED BY <1>1, <3>2 DEF HasVersion, Received
  <2> HIDE DEF ofVersion
  <2>6. Cardinality(ofVersion) > 0 <=> HasVersion(position, v)
    BY <2>4, <2>5
  <2> QED BY <2>4, <2>6 DEF ofVersion
<1>4. tally' \in [Versions -> Nat] /\ (tally'["v1"] > 0 <=> HasVersion(position, "v1"))
  BY <1>1, <1>3 DEF VersionsOf, Versions
<1>5. opened # 0 /\ blocksWithV1 \in Nat
  BY <1>1 DEF Receiving, Types
<1>6. V1Seen = blocksWithV1 /\ V1Seen' = blocksWithV1'
  BY <1>1 DEF V1Seen
<1>7. NothingMissedOrRepeated'
  <2>1. blocksWithV1 = Cardinality(Delivered("v1"))
    BY <1>1, <1>6 DEF IndexerInv, NothingMissedOrRepeated
  <2>2. V1Seen' = Cardinality(Delivered("v1"))'
    BY <1>1, <1>4, <1>5, <1>6, <2>1, DeliveredGrows
  <2> QED BY <1>1, <2>2 DEF NothingMissedOrRepeated
<1>8. WithinLimit' /\ CleanExit' /\ (pc' = "exited" <=> exitCode' # Nil)
      /\ pc' \in {"running", "exited"} /\ exitCode' \in {0, Nil}
  BY <1>1, <1>5, <1>6, CountsOne DEF Receiving
<1>9. PICK messages : messages = Received.messages
  OBVIOUS
<1>10. fees' = FeesAfter(messages)[Len(messages)]
  BY <1>9 DEF HandleBlock
<1>11. ReportsOn(messages)' /\ fees' \in Nat
  BY <1>1, <1>9, <1>10, ReportOnReceived
<1>12. BlockReportIsItsBlock'
  <2>1. opened \in Nat /\ position \in Nat /\ opened <= position
    BY <1>1 DEF Types
  <2>2. BlocksHandled' = BlocksHandled \cup {position}
    <3>1. opened..(position' - 1) = opened..(position - 1) \cup {position}
      BY <1>1, <2>1
    <3>2. published[position].kind = "block"
      BY <1>1 DEF Received
    <3> QED BY <1>1, <1>5, <3>1, <3>2 DEF BlocksHandled
  <2>3. BlocksHandled \in SUBSET (0..(position - 1))
    BY <2>1 DEF BlocksHandled
  <2>4. Max(BlocksHandled') = position
    <3>1. BlocksHandled' \in SUBSET (0..position) /\ position \in BlocksHandled'
      BY <2>1, <2>2, <2>3
    <3> DEFINE last == Max(BlocksHandled')
    <3>2. last \in BlocksHandled' /\ position <= last
      BY <2>1, <3>1, GreatestOf
    <3> HIDE DEF last
    <3>3. last \in 0..position
      BY <3>1, <3>2
    <3>4. last = position
      BY <2>1, <3>2, <3>3
    <3> QED BY <3>4 DEF last
  <2>5. published'[Max(BlocksHandled')].messages = messages
    BY <1>1, <1>9, <2>4 DEF Received
  <2> QED BY <1>11, <2>5 DEF BlockReportIsItsBlock
<1>13. Types'
  BY <1>1, <1>4, <1>5, <1>8, <1>11 DEF Types, Receiving
<1>14. BeforeOpening'
  BY <1>1, <1>5, <1>8 DEF BeforeOpening
<1> QED BY <1>7, <1>8, <1>14, <1>12, <1>13 DEF IndexerInv

LEMMA IndexerKeepsInv == IndexerInv /\ [Next]_vars => IndexerInv'
<1> SUFFICES ASSUME IndexerInv, [Next]_vars PROVE IndexerInv'
  OBVIOUS
<1>1. CASE UNCHANGED vars
  <2>1. \A v \in Versions : Delivered(v)' = Delivered(v)
    BY <1>1, DeliveredStays DEF vars, config, plugin, IndexerInv
  <2>2. BlockReportIsItsBlock'
    BY <1>1, BlocksStay, ReportStays DEF vars, config, plugin, counts, IndexerInv
  <2>3. Types' /\ BeforeOpening' /\ CleanExit'
    BY <1>1 DEF vars, config, plugin, counts, IndexerInv, Types, BeforeOpening, CleanExit,
                Unlimited, StopAt, V1Seen
  <2> QED BY <1>1, <2>1, <2>3, <2>2, CountsNothing DEF vars, counts
<1> QED
  BY <1>1, PublishStep, RegisterStep, StandsStill, SkipUpdateStep, HandleTransactionStep,
     HandleBlockStep DEF Next, Handle

THEOREM IndexerInvariant == Spec => []IndexerInv
BY IndexerInit, IndexerKeepsInv, PTL DEF Spec

(* An indexer has counted each transaction (or block with v1) of its
   subscription once, under the version its sender compiled. *)
THEOREM IndexerCountsOnce == Spec => []NothingMissedOrRepeated
BY IndexerInvariant, PTL DEF IndexerInv

(* An indexer stops at its limit, and for no other reason of its own. *)
THEOREM IndexerStops == Spec => []StopsAtLimit
<1>1. IndexerInv => StopsAtLimit
  <2> SUFFICES ASSUME IndexerInv PROVE StopsAtLimit
    OBVIOUS
  <2>1. WithinLimit /\ CleanExit /\ (pc = "running" => pc # "exited")
    BY DEF IndexerInv
  <2> QED BY <2>1 DEF StopsAtLimit, WithinLimit, CleanExit, Unlimited, StopAt
<1> QED BY <1>1, IndexerInvariant, PTL

(* A block indexer's line is about the last block it was handed, and about no
   other; whatever the messages, and with as many as a block may have. *)
THEOREM ReportsAreOfTheirBlock == Spec => []BlockReportIsItsBlock
BY IndexerInvariant, PTL DEF IndexerInv
-----------------------------------------------------------------------------
(***************************************************************************)
(* The demo.                                                               *)
(***************************************************************************)
DemoInv ==
  /\ limit = 1
  /\ script \in {"sleeping", "sending", "waiting", "passed", "failed",
                 "aborted", "interrupted"}
  /\ sent \in 0..Len(published)
  /\ sent # 0 => HasVersion(sent, "v1")
  /\ script = "passed" => exitCode = 0
  /\ script \in {"passed", "failed"} => pc = "exited"

(* A step of the script or around it is a step of the indexer's world, or none. *)
LEMMA DemoStepIsIndexerStep == [DemoNext]_demoVars => [Next]_vars
BY DemoAssumption DEF DemoNext, demoVars, Wake, Land, SendReturns, SendFails,
                      InterruptScript, Wait, IndexerStep, Next

LEMMA ExitIsFinal ==
  ASSUME IndexerInv, [Next]_vars, pc = "exited"
  PROVE  pc' = "exited" /\ exitCode' = exitCode
BY DEF IndexerInv, BeforeOpening, Next, vars, Publish, Register, CloseStream, Interrupt,
       Connect, Handle, SkipUpdate, HandleTransaction, HandleBlock, Receiving, StreamEnds,
       StreamFails, Cancelled

(* What was published stays as it was, and so does what it holds. *)
LEMMA PublishedStays ==
  ASSUME IndexerInv, [Next]_vars, NEW i \in 1..Len(published)
  PROVE  /\ i \in 1..Len(published') /\ published'[i] = published[i]
         /\ kind' = kind
<1>1. published \in Seq(Updates) /\ Updates \subseteq Update
  BY IndexerAssumption DEF IndexerInv, Types
<1>2. CASE \E update \in Updates : Publish(update)
  BY <1>1, <1>2 DEF Publish, config
<1>3. CASE published' = published /\ kind' = kind
  BY <1>3
<1> QED
  BY <1>2, <1>3 DEF Next, vars, config, plugin, Register, CloseStream, Interrupt, Connect,
                    Handle, SkipUpdate, HandleTransaction, HandleBlock, StreamEnds,
                    StreamFails, Cancelled

LEMMA DemoKeepsInv == IndexerInv /\ DemoInv /\ [DemoNext]_demoVars => DemoInv'
<1> SUFFICES ASSUME IndexerInv, DemoInv, [DemoNext]_demoVars PROVE DemoInv'
  OBVIOUS
<1>1. [Next]_vars
  BY DemoStepIsIndexerStep
<1>2. limit' = limit
  BY <1>1 DEF Next, vars, config, Publish, Register, CloseStream, Interrupt, Connect, Handle,
              SkipUpdate, HandleTransaction, HandleBlock, StreamEnds, StreamFails, Cancelled
<1>3. exitCode = 0 => pc = "exited"
  BY BudgetAssumption DEF IndexerInv, BeforeOpening
<1>4. pc = "exited" => pc' = "exited" /\ exitCode' = exitCode
  BY <1>1, ExitIsFinal
<1>5. ASSUME sent' = sent
      PROVE  sent' \in 0..Len(published') /\ (sent' # 0 => HasVersion(sent, "v1")')
  <2>1. published \in Seq(Updates) /\ Len(published) \in Nat /\ Len(published') \in Nat
    BY <1>1 DEF IndexerInv, Types, Next, vars, plugin, Publish, Register, CloseStream, Interrupt,
                Connect, Handle, SkipUpdate, HandleTransaction, HandleBlock, StreamEnds,
                StreamFails, Cancelled
  <2>2. CASE sent = 0
    BY <1>5, <2>1, <2>2
  <2>3. CASE sent # 0
    <3>1. sent \in 1..Len(published) /\ HasVersion(sent, "v1")
      BY <2>1, <2>3 DEF DemoInv
    <3>2. sent \in 1..Len(published') /\ published'[sent] = published[sent] /\ kind' = kind
      BY <1>1, <3>1, PublishedStays
    <3> QED BY <1>5, <2>1, <3>1, <3>2 DEF HasVersion
  <2> QED BY <2>2, <2>3
<1>6. CASE Wake \/ SendReturns \/ SendFails \/ InterruptScript
  <2>1. UNCHANGED <<pc, exitCode, sent>>
    BY <1>6 DEF Wake, SendReturns, SendFails, InterruptScript, vars
  <2> QED BY <1>2, <1>5, <1>6, <2>1 DEF Wake, SendReturns, SendFails, InterruptScript, DemoInv
<1>7. ASSUME NEW u \in V1Updates, Land(u)
      PROVE  DemoInv'
  <2>1. /\ Publish(u) /\ sent' = Len(published') /\ script' = script
        /\ published \in Seq(Updates) /\ u \in Update /\ u \in Updates
        /\ u.kind \in Kinds
    BY <1>7, DemoAssumption, IndexerAssumption DEF Land, IndexerInv, Types
  <2>2. /\ published' = Append(published, u) /\ UNCHANGED <<kind, pc, exitCode>>
        /\ u.kind = kind
    BY <2>1 DEF Publish, config, Kinds
  <2>3. Len(published') = Len(published) + 1 /\ published'[Len(published')] = u
    BY <2>1, <2>2
  <2>4. u.messages \in Seq(Optional(Message))
    BY <2>1 DEF Update
  <2>5. HasVersion(sent, "v1")'
    <3>1. published'[sent'] = u /\ kind' = kind
      BY <2>1, <2>2, <2>3
    <3>2. \E k \in 1..Len(u.messages) : u.messages[k] # Nil /\ u.messages[k].version = "v1"
      BY <2>4, DemoAssumption
    <3> QED BY <2>2, <3>1, <3>2 DEF HasVersion
  <2> QED BY <1>2, <2>1, <2>2, <2>3, <2>5 DEF DemoInv
<1>8. CASE Wait
  <2>1. UNCHANGED <<pc, exitCode, sent>> /\ pc = "exited"
    BY <1>8 DEF Wait, vars
  <2> QED BY <1>2, <1>5, <1>8, <2>1 DEF Wait, DemoInv
<1>9. CASE UNCHANGED <<script, sent>>
  BY <1>2, <1>3, <1>4, <1>5, <1>9 DEF DemoInv
<1> QED BY <1>6, <1>7, <1>8, <1>9 DEF DemoNext, IndexerStep, demoVars

THEOREM DemoInvariant == DemoSpec => [](IndexerInv /\ DemoInv)
<1>1. DemoInit => IndexerInv /\ DemoInv
  <2> SUFFICES ASSUME DemoInit PROVE IndexerInv /\ DemoInv
    OBVIOUS
  <2>1. exitCode # 0
    BY BudgetAssumption DEF DemoInit, Init
  <2>2. 0 \in 0..Len(published)
    BY DEF DemoInit, Init
  <2> QED BY <2>1, <2>2, IndexerInit DEF DemoInit, DemoInv
<1> QED BY <1>1, IndexerKeepsInv, DemoStepIsIndexerStep, DemoKeepsInv, PTL DEF DemoSpec

(* The types of the demo and of the indexer in it: a position never passes the
   end of the stream by more than one, a fee is never missing. *)
THEOREM DemoTypeCorrect == DemoSpec => []DemoTypeOK
<1>1. IndexerInv /\ DemoInv => DemoTypeOK
  <2> SUFFICES ASSUME IndexerInv, DemoInv PROVE DemoTypeOK
    OBVIOUS
  <2>1. Types /\ Len(published) \in Nat
    BY DEF IndexerInv, Types
  <2>2. opened \in 0..(Len(published) + 1) /\ position \in opened..(Len(published) + 1)
    BY <2>1 DEF Types
  <2>3. TypeOK
    BY <2>1, <2>2 DEF TypeOK, Types
  <2> QED BY <2>3 DEF DemoTypeOK, DemoInv
<1> QED BY <1>1, DemoInvariant, PTL

(* A demo passes with nothing seen only when its stream was closed in good
   order, or Go's indexer was interrupted. *)
THEOREM PassNeedsObservationOrClose == DemoSpec => []PassedUnobservedNeedsClose
<1>1. IndexerInv /\ DemoInv => PassedUnobservedNeedsClose
  <2> SUFFICES ASSUME IndexerInv, DemoInv, script = "passed", V1Seen = 0
               PROVE  \/ impl \in {"go", "rust"} /\ stream = "ended"
                      \/ impl = "go" /\ interrupted
    BY DEF PassedUnobservedNeedsClose
  <2>1. exitCode = 0 /\ limit = 1 /\ StopAt = 1 /\ impl \in Impls
    BY DEF DemoInv, StopAt, IndexerInv, Types
  <2>2. CleanExit
    BY DEF IndexerInv
  <2> QED BY <2>1, <2>2 DEF CleanExit, Impls
<1> QED BY <1>1, DemoInvariant, PTL

(* An indexer still running was not reported on, and is not past the demo's
   transaction unless its subscription opened after it: having counted every
   v1 of its subscription, it would have stopped at its limit of one. *)
THEOREM UnfinishedIndexersWereLate == DemoSpec => []UnfinishedIndexerWasLate
<1>1. IndexerInv /\ DemoInv => UnfinishedIndexerWasLate
  <2> SUFFICES ASSUME IndexerInv, DemoInv, pc # "exited"
               PROVE  /\ script \notin {"passed", "failed"}
                      /\ sent # 0 /\ opened # 0 /\ position > sent => opened > sent
    BY DEF UnfinishedIndexerWasLate
  <2>1. script \notin {"passed", "failed"}
    BY DEF DemoInv
  <2>2. ASSUME sent # 0, opened # 0, position > sent, ~(opened > sent)
        PROVE  FALSE
    <3>1. opened \in Nat /\ position \in Nat /\ sent \in Nat /\ HasVersion(sent, "v1")
      BY <2>2 DEF IndexerInv, Types, DemoInv
    <3>2. sent \in Delivered("v1")
      BY <2>2, <3>1 DEF Delivered
    <3>3. V1Seen = Cardinality(Delivered("v1"))
      BY DEF IndexerInv, NothingMissedOrRepeated
    <3>4. IsFiniteSet(Delivered("v1"))
      <4>1. IsFiniteSet(opened..(position - 1))
        BY <3>1, FS_Interval
      <4>2. Delivered("v1") \subseteq opened..(position - 1)
        BY <2>2 DEF Delivered
      <4> QED BY <4>1, <4>2, FS_Subset
    <3>5. Cardinality(Delivered("v1")) \in Nat /\ Cardinality(Delivered("v1")) # 0
      BY <3>2, <3>4, FS_CardinalityType, FS_EmptySet
    <3>6. ~Unlimited /\ StopAt = 1
      BY BudgetAssumption DEF DemoInv, Unlimited, StopAt
    <3>7. V1Seen < 1
      BY <3>6 DEF IndexerInv, WithinLimit
    <3> QED BY <3>3, <3>5, <3>7
  <2> QED BY <2>1, <2>2
<1> QED BY <1>1, DemoInvariant, PTL
=============================================================================
