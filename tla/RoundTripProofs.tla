-------------------------- MODULE RoundTripProofs ---------------------------
(***************************************************************************)
(* What an answer about the feature gate is worth, for any owners, tags and*)
(* lengths an account may have: first of the gate alone, then in every     *)
(* example, whose steps are the gate's or leave it be.  What an example has*)
(* behind it, for any number of slots.  And what the script that starts the*)
(* validator the examples run against says of it.                          *)
(***************************************************************************)
EXTENDS RoundTrip, LocalValidator, LedgerProofs

(* An active gate stays as it was read; the other parts follow the answer from
   the account it was read from to the outcome. *)
GateInv ==
  /\ lang \in Langs
  /\ gate \in PossibleAccount \cup {Absent} /\ read \in PossibleAccount \cup {Absent}
  /\ answer \in {"none", "active", "inactive", "error"}
  /\ outcome \in {"none", "passed", "thrown"}
  /\ answer = "active" => Reading(lang, read) = "active"
  /\ outcome = "passed" => answer = "active"
  /\ IsActive(read) => gate = read /\ answer = "active"

(* A reading is one of three answers. *)
LEMMA ReadingType ==
  ASSUME NEW l \in Langs, NEW account
  PROVE  Reading(l, account) \in {"active", "inactive", "error"}
BY DEF Reading, Langs, TsIsV1Active, GoIsV1Active, RustIsV1Active, PythonIsV1Active

(* Of a feature account each language reads what the runtime goes by. *)
LEMMA ReadingOfFeatureAccount ==
  ASSUME NEW l \in Langs, NEW account \in PossibleAccount \cup {Absent},
         IsFeatureAccount(account)
  PROVE  Reading(l, account) = IF IsActive(account) THEN "active" ELSE "inactive"
<1>1. CASE account = Absent
  BY <1>1 DEF Reading, Langs, IsActive, TsIsV1Active, GoIsV1Active, RustIsV1Active,
              PythonIsV1Active
<1>2. CASE account # Absent
  <2>1. account.owner = "feature" /\ account.tag \in {0, 1} /\ account.length \in Nat
        /\ account.length >= 9
    BY <1>2, GateAssumption DEF IsFeatureAccount, PossibleAccount, Account
  <2>2. account.length # 0 /\ ~(account.length < 9)
    BY <2>1
  <2> QED
    BY <1>2, <2>1, <2>2 DEF Reading, Langs, IsActive, TsIsV1Active, GoIsV1Active,
                            RustIsV1Active, PythonIsV1Active
<1> QED BY <1>1, <1>2

(* Go and Rust look at the owner, so theirs is the runtime's rule throughout. *)
LEMMA ReadingOfGoAndRust ==
  ASSUME NEW l \in {"go", "rust"}, NEW account \in PossibleAccount \cup {Absent},
         Reading(l, account) = "active"
  PROVE  IsActive(account)
<1>1. CASE l = "rust"
  BY <1>1 DEF Reading, RustIsV1Active
<1>2. CASE l = "go"
  <2>1. GoIsV1Active(account) = "active"
    BY <1>2 DEF Reading
  <2>2. account # Absent /\ account.owner = "feature" /\ account.tag # 0
    BY <2>1 DEF GoIsV1Active
  <2> QED BY <2>2 DEF IsActive, PossibleAccount
<1> QED BY <1>1, <1>2

-----------------------------------------------------------------------------
LEMMA GateInvInit == GateInit => GateInv
BY DEF GateInit, GateInv, IsActive

(* The cluster's steps leave an active gate alone. *)
LEMMA ClusterKeepsGateInv ==
  ASSUME GateInv, Pay \/ Stage \/ Activate
  PROVE  GateInv'
<1>1. /\ UNCHANGED <<lang, read, answer, outcome>>
      /\ ~IsActive(gate)
  BY DEF Pay, Stage, Activate, IsActive, Account
<1>2. gate' \in PossibleAccount \cup {Absent}
  <2>1. CASE Pay
    BY <2>1, GateAssumption DEF Pay, PossibleAccount, Account
  <2>2. CASE Stage
    BY <2>2, GateAssumption DEF Stage, PossibleAccount, Account
  <2>3. CASE Activate
    <3> DEFINE active == [owner |-> gate.owner, tag |-> 1, length |-> gate.length]
    <3>1. gate \in Account /\ gate.owner = "feature" /\ gate.length >= 9 /\ gate' = active
      BY <2>3 DEF Activate, Account
    <3>2. gate.owner \in Owners /\ gate.length \in Lengths /\ gate.length # 0
      BY <3>1, GateAssumption DEF Account
    <3> QED BY <3>1, <3>2, GateAssumption DEF PossibleAccount, Account
  <2> QED BY <2>1, <2>2, <2>3
<1>3. ~IsActive(read)
  BY <1>1 DEF GateInv
<1> QED BY <1>1, <1>2, <1>3 DEF GateInv, IsActive

LEMMA ProgramKeepsGateInv ==
  ASSUME GateInv, IsV1Active \/ AssertV1Active
  PROVE  GateInv'
<1>1. CASE IsV1Active
  <2>1. CASE read' = gate /\ answer' = Reading(lang, gate)
    <3>1. UNCHANGED <<lang, gate, outcome>> /\ answer = "none"
      BY <1>1 DEF IsV1Active
    <3>2. outcome # "passed"
      BY <3>1 DEF GateInv
    <3>3. answer' \in {"active", "inactive", "error"}
      BY <2>1, ReadingType DEF GateInv
    <3>4. Reading(lang', read') = answer'
      BY <2>1, <3>1
    <3>5. IsActive(gate) => answer' = "active"
      BY <2>1, ReadingOfFeatureAccount DEF GateInv, IsActive, IsFeatureAccount
    <3> QED BY <2>1, <3>1, <3>2, <3>3, <3>4, <3>5 DEF GateInv, IsActive
  <2>2. CASE answer' = "error" /\ UNCHANGED read
    BY <1>1, <2>2 DEF IsV1Active, GateInv, IsActive
  <2> QED BY <1>1, <2>1, <2>2 DEF IsV1Active
<1>2. CASE AssertV1Active
  BY <1>2 DEF AssertV1Active, GateInv, IsActive
<1> QED BY <1>1, <1>2

(* The invariant holds of every state. *)
THEOREM GateInvariant == GateSpec => []GateInv
<1>1. GateInv /\ [GateNext]_gateVars => GateInv'
  <2> SUFFICES ASSUME GateInv, [GateNext]_gateVars PROVE GateInv'
    OBVIOUS
  <2>1. CASE UNCHANGED gateVars
    BY <2>1 DEF gateVars, GateInv, IsActive
  <2> QED BY <2>1, ClusterKeepsGateInv, ProgramKeepsGateInv DEF GateNext, GateChanges
<1> QED BY <1>1, GateInvInit, PTL DEF GateSpec

(* The types of the account, the answer and the outcome. *)
THEOREM GateTypeCorrect == GateSpec => []GateTypeOK
<1>1. GateInv => GateTypeOK
  BY DEF GateInv, GateTypeOK, PossibleAccount
<1> QED BY <1>1, GateInvariant, PTL

(* A program that passed the gate sends to a cluster that takes v1 transactions:
   what it read then is still so.  Go and Rust are fooled by no account. *)
THEOREM PassedGateIsActive == GateSpec => []PassedMeansActive
<1>1. GateInv => PassedMeansActive
  <2> SUFFICES ASSUME GateInv, outcome = "passed",
                      IsFeatureAccount(read) \/ lang \in {"go", "rust"}
               PROVE  IsActive(gate)
    BY DEF PassedMeansActive
  <2>1. Reading(lang, read) = "active" /\ read \in PossibleAccount \cup {Absent}
    BY DEF GateInv
  <2>2. CASE IsFeatureAccount(read)
    BY <2>1, <2>2, ReadingOfFeatureAccount DEF GateInv
  <2>3. CASE lang \in {"go", "rust"}
    BY <2>1, <2>3, ReadingOfGoAndRust DEF GateInv
  <2> QED BY <2>2, <2>3 DEF GateInv
<1> QED BY <1>1, GateInvariant, PTL

(* The four languages answer alike for an account that is a feature's. *)
THEOREM LanguagesAgree == GateSpec => []AgreeOnFeatureAccounts
<1>1. GateInv => AgreeOnFeatureAccounts
  BY ReadingOfFeatureAccount DEF GateInv, AgreeOnFeatureAccounts
<1> QED BY <1>1, GateInvariant, PTL
-----------------------------------------------------------------------------
(* What an example does beside asking leaves the gate and the answer be. *)
LEMMA ExampleStepIsGateStep ==
  ASSUME [Next]_vars
  PROVE  [GateNext]_gateVars
<1>1. CASE UNCHANGED vars
  BY <1>1 DEF vars, gateVars
<1>2. CASE AskGate \/ Gate
  BY <1>2 DEF AskGate, Gate, GateNext
<1>3. CASE GateChanges /\ UNCHANGED <<ledger, example, program>>
  BY <1>3 DEF GateNext
<1>4. CASE \/ RequestAirdrop \/ FetchBlockhash \/ SimulateDraft \/ SendTransfer
           \/ Confirmed \/ ThrowFailed \/ GiveUp \/ ReadBelowCeiling \/ ReadBack
           \/ CallFails
           \/ (LedgerNext /\ UNCHANGED <<gateVars, example, program>>)
  BY <1>4 DEF RequestAirdrop, FetchBlockhash, SimulateDraft, SendTransfer, Confirmed,
              ThrowFailed, GiveUp, ReadBelowCeiling, ReadBack, CallFails
<1> QED BY <1>1, <1>2, <1>3, <1>4 DEF Next, ProgramStep

(* Every example uses the gate as its own specification has it. *)
THEOREM ExamplesAskTheGate == Spec => GateSpec
<1>1. Init => GateInit
  BY DEF Init, GateInit
<1> QED BY <1>1, ExampleStepIsGateStep, PTL DEF Spec, GateSpec

(* Whatever an example sends after its gate let it, it sends to a cluster that
   takes v1 transactions, though the gate was read many calls before. *)
THEOREM ExamplesPassAnActiveGate == Spec => []PassedMeansActive
BY ExamplesAskTheGate, PassedGateIsActive, PTL
-----------------------------------------------------------------------------
(***************************************************************************)
(* What an example has behind it holds: the transactions it waited for are *)
(* confirmed, and what it read below the ceiling was refused.              *)
(***************************************************************************)
(* The program is past a call of this name. *)
Past(call) ==
  \E i \in DOMAIN Calls[example] :
    Calls[example][i] = call /\ (i < step \/ report = "ok")

Paid(tx) ==
  Settled(tx) /\ (Succeeded(tx) \/ example = "web3" \/ (example = "rust" /\ tx = "airdrop"))

ExampleInv ==
  /\ TypeOK
  /\ waiting => Now \in Txs
  /\ \A tx \in Txs : Past(tx) => Paid(tx)
  /\ probe # "unexpectedly succeeded"
  /\ FailsOnlyOnFault

(* The calls of every example come in an order that makes sense. *)
LEMMA CallsInOrder ==
  ASSUME NEW e \in Examples
  PROVE  /\ Len(Calls[e]) \in Nat \ {0} /\ DOMAIN Calls[e] = 1..Len(Calls[e])
         /\ \E i \in DOMAIN Calls[e] : Calls[e][i] = "transfer"
         /\ \A i \in DOMAIN Calls[e] :
              /\ Calls[e][i] \in {"simulate", "transfer"} =>
                   \E j \in 1..(i - 1) : Calls[e][j] = "airdrop"
              /\ Calls[e][i] \in {"probe", "read"} =>
                   \E j \in 1..(i - 1) : Calls[e][j] = "transfer"
<1>1. CASE e = "kit"
  BY <1>1 DEF Calls, KitSendDecode
<1>2. CASE e = "estimate"
  BY <1>2 DEF Calls, Estimate
<1>3. CASE e = "plugins"
  BY <1>3 DEF Calls, PluginsSendDecode
<1>4. CASE e = "web3"
  BY <1>4 DEF Calls, Web3SendDecode
<1>5. CASE e = "go"
  BY <1>5 DEF Calls, GoSendDecode
<1>6. CASE e = "rust"
  BY <1>6 DEF Calls, RustSendDecode
<1>7. CASE e = "python"
  BY <1>7 DEF Calls, PythonSendDecode
<1> QED BY <1>1, <1>2, <1>3, <1>4, <1>5, <1>6, <1>7 DEF Examples, Calls

LEMMA ProceedReaches ==
  ASSUME TypeOK, report = "none", Proceed, example' = example, NEW call, Past(call)'
  PROVE  Past(call) \/ call = Now
<1>1. PICK i \in DOMAIN Calls[example] :
        Calls[example][i] = call /\ (i < step' \/ report' = "ok")
  BY DEF Past
<1>2. /\ i \in 1..Len(Calls[example]) /\ step \in 1..Len(Calls[example])
      /\ Len(Calls[example]) \in Nat
  BY CallsInOrder DEF TypeOK
<1>3. i <= step
  BY <1>1, <1>2 DEF Proceed
<1> QED BY <1>1, <1>2, <1>3 DEF Past, Now

LEMMA StayReaches ==
  ASSUME step' = step, example' = example, report' = "ok" => report = "ok",
         NEW call, Past(call)'
  PROVE  Past(call)
BY DEF Past

(* What comes before the call at hand is past. *)
LEMMA EarlierIsPast ==
  ASSUME TypeOK, NEW j \in 1..(step - 1)
  PROVE  Past(Calls[example][j])
<1>1. /\ step \in 1..Len(Calls[example]) /\ Len(Calls[example]) \in Nat
      /\ DOMAIN Calls[example] = 1..Len(Calls[example])
  BY CallsInOrder DEF TypeOK
<1>2. j \in DOMAIN Calls[example] /\ j < step
  BY <1>1
<1> QED BY <1>2 DEF Past

LEMMA AirdropIsPast ==
  ASSUME TypeOK, Now \in {"simulate", "transfer"}
  PROVE  Past("airdrop")
<1>1. PICK j \in 1..(step - 1) : Calls[example][j] = "airdrop"
  BY CallsInOrder DEF TypeOK, Now
<1> QED BY <1>1, EarlierIsPast

LEMMA TransferIsPast ==
  ASSUME TypeOK, Now \in {"probe", "read"}
  PROVE  Past("transfer")
<1>1. PICK j \in 1..(step - 1) : Calls[example][j] = "transfer"
  BY CallsInOrder DEF TypeOK, Now
<1> QED BY <1>1, EarlierIsPast
-----------------------------------------------------------------------------
LEMMA ExampleInvInit == Init => ExampleInv
<1> SUFFICES ASSUME Init PROVE ExampleInv
  OBVIOUS
<1>1. LedgerTypeOK
  BY DEF Init, LedgerInit, LedgerTypeOK
<1>2. GateTypeOK
  BY DEF Init, GateInit, GateTypeOK, PossibleAccount
<1>3. step \in DOMAIN Calls[example]
  BY CallsInOrder DEF Init
<1>4. watch \in 0..fetched
  BY DEF Init, LedgerInit
<1>5. TypeOK
  BY <1>1, <1>2, <1>3, <1>4 DEF Init, TypeOK
<1>6. \A call : ~Past(call)
  BY CallsInOrder DEF Init, Past
<1> QED BY <1>5, <1>6 DEF Init, ExampleInv, FailsOnlyOnFault

(* The types of the program and the ledger; the gate has its own. *)
LEMMA TypeKept ==
  ASSUME TypeOK, GateTypeOK', [Next]_vars
  PROVE  TypeOK'
<1>1. LedgerTypeOK /\ example \in Examples /\ step \in DOMAIN Calls[example]
  BY DEF TypeOK
<1>2. CASE UNCHANGED vars
  BY <1>2 DEF vars, ledger, program, TypeOK, LedgerTypeOK
<1>3. CASE LedgerNext /\ UNCHANGED <<gateVars, example, program>>
  BY <1>1, <1>3, LedgerType DEF program, TypeOK
<1>4. CASE GateChanges /\ UNCHANGED <<ledger, example, program>>
  BY <1>4 DEF ledger, program, TypeOK, LedgerTypeOK
<1>5. ASSUME Proceed, example' = example
      PROVE  step' \in DOMAIN Calls[example] /\ waiting' = FALSE
             /\ report' \in {report, "ok"}
  BY <1>1, <1>5, CallsInOrder DEF Proceed
<1>6. ASSUME Throw
      PROVE  step' = step /\ waiting' = waiting /\ report' = "error"
  BY <1>6 DEF Throw
<1>7. ASSUME UNCHANGED <<ledger, watch, probe>>, example' = example, fault' \in BOOLEAN,
             Proceed \/ Throw \/ UNCHANGED <<step, waiting, report>>
      PROVE  TypeOK'
  BY <1>5, <1>6, <1>7 DEF ledger, TypeOK, LedgerTypeOK
<1>8. CASE AskGate
  BY <1>7, <1>8 DEF AskGate, program, TypeOK
<1>9. CASE Gate
  BY <1>7, <1>9 DEF Gate, IsActive
<1>10. CASE SimulateDraft
  BY <1>7, <1>10 DEF SimulateDraft, IsActive, TypeOK
<1>11. CASE Confirmed \/ ThrowFailed \/ GiveUp \/ CallFails \/ ReadBack
  BY <1>7, <1>11 DEF Confirmed, ThrowFailed, GiveUp, CallFails, ReadBack, TypeOK
<1>12. CASE RequestAirdrop
  <2>1. fetched \in Nat /\ expired \in 0..fetched /\ lifetime \in [Txs -> 0..fetched]
        /\ watch \in 0..fetched
    BY <1>1 DEF TypeOK, LedgerTypeOK
  <2>2. fetched' \in {fetched + 1, fetched + 2} /\ expired' = expired /\ status' = status
    BY <1>12 DEF RequestAirdrop
  <2>3. lifetime' \in [Txs -> 0..fetched'] /\ watch' \in 0..fetched'
    BY <1>12, <2>1, <2>2 DEF RequestAirdrop, Txs
  <2>4. LedgerTypeOK'
    BY <1>1, <2>1, <2>2, <2>3 DEF LedgerTypeOK
  <2> QED BY <1>12, <2>3, <2>4 DEF RequestAirdrop, TypeOK
<1>13. CASE FetchBlockhash
  <2>1. fetched' = fetched + 1 /\ watch' = fetched' /\ UNCHANGED <<expired, lifetime, status>>
    BY <1>13 DEF FetchBlockhash
  <2>2. LedgerTypeOK' /\ watch' \in 0..fetched'
    BY <1>1, <2>1 DEF LedgerTypeOK
  <2> QED BY <1>5, <1>13, <2>2 DEF FetchBlockhash, TypeOK
<1>14. CASE SendTransfer
  <2>1. lifetime' \in [Txs -> 0..fetched] /\ UNCHANGED <<fetched, expired, status>>
    BY <1>1, <1>14 DEF SendTransfer, TypeOK, LedgerTypeOK
  <2>2. LedgerTypeOK'
    BY <1>1, <2>1 DEF LedgerTypeOK
  <2>3. fault' \in BOOLEAN
    BY <1>14 DEF SendTransfer, TypeOK, IsActive
  <2>4. step' = step /\ waiting' \in BOOLEAN /\ report' \in {"none", "error"}
    BY <1>14 DEF SendTransfer, Throw, At, TypeOK
  <2> QED BY <1>14, <2>1, <2>2, <2>3, <2>4 DEF SendTransfer, TypeOK
<1>15. CASE ReadBelowCeiling
  <2>1. probe' \in {"rejected", "unexpectedly succeeded"}
    BY <1>15 DEF ReadBelowCeiling
  <2> QED BY <1>5, <1>15, <2>1 DEF ReadBelowCeiling, ledger, TypeOK, LedgerTypeOK
<1> QED
  BY <1>2, <1>3, <1>4, <1>8, <1>9, <1>10, <1>11, <1>12, <1>13, <1>14, <1>15
  DEF Next, ProgramStep
-----------------------------------------------------------------------------
(* The cluster keeps what is paid for, and the error of a failed airdrop. *)
LEMMA ClusterKeepsExampleInv ==
  ASSUME ExampleInv, TypeOK', LedgerNext, UNCHANGED <<example, program>>
  PROVE  ExampleInv'
<1>1. LedgerTypeOK /\ "airdrop" \in Txs
  BY DEF ExampleInv, TypeOK, Txs
<1>2. UNCHANGED <<example, step, waiting, watch, probe, report, fault>>
  BY DEF program
<1>3. ASSUME NEW tx \in Txs, Paid(tx)
      PROVE  Paid(tx)'
  BY <1>1, <1>2, <1>3, SettledStays DEF Paid, Fixed, Settled, Succeeded
<1>4. \A call : Past(call)' => Past(call)
  BY <1>2 DEF Past
<1>5. FailsOnlyOnFault'
  <2> SUFFICES ASSUME report = "error", ~fault
               PROVE  Settled("airdrop")' /\ status'["airdrop"].err
    BY <1>2 DEF FailsOnlyOnFault
  <2>1. Settled("airdrop") /\ status["airdrop"].err
    BY DEF ExampleInv, FailsOnlyOnFault
  <2> QED BY <1>1, <2>1, SettledStays DEF Fixed
<1>6. (waiting => Now \in Txs)'
  BY <1>2 DEF ExampleInv, Now
<1> QED BY <1>2, <1>3, <1>4, <1>5, <1>6 DEF ExampleInv

(* A call that goes on may leave behind a transaction that is paid for. *)
LEMMA ProceedKeepsExampleInv ==
  ASSUME ExampleInv, TypeOK', report = "none", Proceed, UNCHANGED <<status, example>>,
         Now \in Txs => Paid(Now), probe' # "unexpectedly succeeded"
  PROVE  ExampleInv'
<1>1. waiting' = FALSE /\ report' # "error"
  BY DEF Proceed
<1>2. ASSUME NEW tx \in Txs, Past(tx)' PROVE Paid(tx)'
  <2>1. Past(tx) \/ tx = Now
    BY <1>2, ProceedReaches DEF ExampleInv
  <2>2. Paid(tx)
    BY <2>1 DEF ExampleInv
  <2> QED BY <2>2 DEF Paid, Settled, Succeeded
<1> QED BY <1>1, <1>2 DEF ExampleInv, FailsOnlyOnFault

(* A call that stays where it is, or throws for a reason. *)
LEMMA StayKeepsExampleInv ==
  ASSUME ExampleInv, TypeOK', UNCHANGED <<step, status, example, probe>>,
         waiting' => Now \in Txs,
         \/ UNCHANGED <<report, fault>>
         \/ report' = "error" /\ (fault' \/ (Settled("airdrop") /\ status["airdrop"].err))
  PROVE  ExampleInv'
<1>1. Now' = Now
  BY DEF Now
<1>2. ASSUME NEW tx \in Txs, Past(tx)' PROVE Paid(tx)'
  <2>1. Paid(tx)
    BY <1>2, StayReaches DEF ExampleInv
  <2> QED BY <2>1 DEF Paid, Settled, Succeeded
<1>3. FailsOnlyOnFault'
  BY DEF ExampleInv, FailsOnlyOnFault, Settled
<1> QED BY <1>1, <1>2, <1>3 DEF ExampleInv

(* A node refuses to simulate only for want of the gate or of a funded payer. *)
LEMMA SimulationNeedsAirdrop ==
  ASSUME ExampleInv, Now \in {"simulate", "transfer"}, IsActive(gate), ~Simulates
  PROVE  Settled("airdrop") /\ status["airdrop"].err
<1>1. Paid("airdrop")
  BY AirdropIsPast DEF ExampleInv, Txs
<1> QED BY <1>1 DEF Simulates, Paid, Settled, Succeeded

LEMMA ProgramKeepsExampleInv ==
  ASSUME ExampleInv, GateInv, TypeOK', ProgramStep \/ CallFails
  PROVE  ExampleInv'
<1> USE DEF At
<1>1. CASE AskGate
  BY <1>1, StayKeepsExampleInv DEF AskGate, ledger, program
<1>2. CASE Gate
  <2>1. UNCHANGED <<status, example, probe>> /\ report = "none" /\ ~waiting /\ Now = "gate"
    BY <1>2 DEF Gate, ledger
  <2>2. CASE outcome' = "passed"
    BY <1>2, <2>1, <2>2, ProceedKeepsExampleInv DEF Gate, ExampleInv, Txs
  <2>3. CASE outcome' # "passed"
    <3>1. answer # "active"
      BY <1>2, <2>3 DEF Gate, AssertV1Active
    <3>2. fault'
      BY <1>2, <3>1 DEF Gate, GateInv
    <3> QED BY <1>2, <2>1, <2>3, <3>2, StayKeepsExampleInv DEF Gate, Throw
  <2> QED BY <2>2, <2>3
<1>3. CASE RequestAirdrop
  BY <1>3, StayKeepsExampleInv DEF RequestAirdrop, Txs
<1>4. CASE FetchBlockhash
  BY <1>4, ProceedKeepsExampleInv DEF FetchBlockhash, ExampleInv, Txs
<1>5. CASE SimulateDraft
  <2>1. CASE Simulates
    BY <1>5, <2>1, ProceedKeepsExampleInv DEF SimulateDraft, ExampleInv, ledger, Txs
  <2>2. CASE ~Simulates
    <3>1. fault' \/ (Settled("airdrop") /\ status["airdrop"].err)
      BY <1>5, <2>2, SimulationNeedsAirdrop DEF SimulateDraft
    <3> QED BY <1>5, <2>2, <3>1, StayKeepsExampleInv DEF SimulateDraft, Throw, ledger
  <2> QED BY <2>1, <2>2
<1>6. CASE SendTransfer
  <2>1. UNCHANGED <<step, status, example, probe>> /\ Now = "transfer" /\ ~waiting
    BY <1>6 DEF SendTransfer, Throw
  <2>2. CASE UNCHANGED <<report, fault>>
    BY <2>1, <2>2, <1>6, StayKeepsExampleInv DEF Txs
  <2>3. CASE report' = "error" /\ (fault' \/ (Settled("airdrop") /\ status["airdrop"].err))
    BY <2>1, <2>3, <1>6, StayKeepsExampleInv DEF Txs
  <2> QED BY <1>6, <2>2, <2>3, SimulationNeedsAirdrop DEF SendTransfer, Throw
<1>7. CASE Confirmed
  <2>1. Now \in Txs => Paid(Now)
    BY <1>7 DEF Confirmed, IsConfirmed, Spinner, Awaited, Paid
  <2> QED BY <1>7, <2>1, ProceedKeepsExampleInv DEF Confirmed, ExampleInv, ledger
<1>8. CASE ThrowFailed \/ GiveUp \/ CallFails
  <2>1. UNCHANGED <<step, waiting, status, example, probe>> /\ report' = "error" /\ fault'
    BY <1>8 DEF ThrowFailed, GiveUp, CallFails, Throw, ledger
  <2> QED BY <2>1, StayKeepsExampleInv DEF ExampleInv
<1>9. CASE ReadBelowCeiling \/ ReadBack
  <2>1. Found /\ Now \in {"probe", "read"}
    BY <1>9, TransferIsPast DEF ReadBelowCeiling, ReadBack, ExampleInv, Found, Paid, Txs
  <2>2. probe' # "unexpectedly succeeded"
    BY <1>9, <2>1 DEF ReadBelowCeiling, ReadBack, ExampleInv
  <2> QED
    BY <1>9, <2>1, <2>2, ProceedKeepsExampleInv
    DEF ReadBelowCeiling, ReadBack, ExampleInv, ledger, Txs
<1> QED BY <1>1, <1>2, <1>3, <1>4, <1>5, <1>6, <1>7, <1>8, <1>9 DEF ProgramStep

THEOREM ExampleInvariant == Spec => [](GateInv /\ ExampleInv)
<1>1. ExampleInv /\ GateInv /\ GateTypeOK' /\ [Next]_vars => ExampleInv'
  <2> SUFFICES ASSUME ExampleInv, GateInv, GateTypeOK', [Next]_vars PROVE ExampleInv'
    OBVIOUS
  <2>1. TypeOK'
    BY TypeKept DEF ExampleInv
  <2>2. CASE UNCHANGED vars
    BY <2>1, <2>2, StayKeepsExampleInv DEF vars, ledger, program, ExampleInv
  <2>3. CASE GateChanges /\ UNCHANGED <<ledger, example, program>>
    BY <2>1, <2>3, StayKeepsExampleInv DEF ledger, program, ExampleInv
  <2> QED
    BY <2>1, <2>2, <2>3, ClusterKeepsExampleInv, ProgramKeepsExampleInv DEF Next
<1>2. Spec => []GateInv /\ []GateTypeOK
  BY ExamplesAskTheGate, GateInvariant, GateTypeCorrect, PTL
<1> QED BY <1>1, <1>2, ExampleInvInit, PTL DEF Spec

(* The types of ledger, gate and program. *)
THEOREM ExampleTypeCorrect == Spec => []TypeOK
BY ExampleInvariant, PTL DEF ExampleInv

(* An example that ends well has read back a transfer that is confirmed. *)
THEOREM ExampleReadsItsTransfer == Spec => []DoneMeansTransferred
<1>1. ExampleInv => DoneMeansTransferred
  <2> SUFFICES ASSUME ExampleInv, report = "ok"
               PROVE  Paid("transfer") /\ probe # "unexpectedly succeeded"
    BY DEF DoneMeansTransferred, Paid
  <2>1. Past("transfer")
    BY CallsInOrder DEF Past, ExampleInv, TypeOK
  <2> QED BY <2>1 DEF ExampleInv, Txs
<1> QED BY <1>1, ExampleInvariant, PTL

(* An example fails only on a fault from outside. *)
THEOREM ExampleFailsOnFault == Spec => []FailsOnlyOnFault
BY ExampleInvariant, PTL DEF ExampleInv

-----------------------------------------------------------------------------
(***************************************************************************)
(* The local validator: what `start` says, what `stop` can still reach, and*)
(* which plugin a validator is launched with, for any number of validators,*)
(* polls, runs of the setup script and files.                              *)
(***************************************************************************)

(***************************************************************************)
(* The inductive invariant, the script's part and the cache's.             *)
(***************************************************************************)
(* From the guard on, whatever answers has a Token-2022 of the released one's
   length, or came up meanwhile. *)
GuardHolds ==
  script \in {"setup", "launch", "record", "poll"} =>
    Answering \subseteq sameLength \/ intruder \/ torn

(* What a start has launched: its Token-2022 is the one at hand, and until its
   PID is written it is the only one of ours. *)
ChildHolds ==
  /\ script = "idle" => child = 0
  /\ child # 0 => child \in sameLength \/ torn
  /\ script = "record" => child \in unrecorded /\ (wiped \/ ours \cap Alive \subseteq {child})

ScriptInv ==
  /\ pids \in 0..MaxPid
  /\ phase \in [Pids -> {"starting", "answering", "ending", "gone"}]
  /\ ours \subseteq 1..pids
  /\ OursCanBeStopped
  /\ GuardHolds
  /\ ChildHolds

Labels == {"idle", "request", "write", "move", "clone", "cloning", "build", "copying",
           "ok", "failed"}

CacheTypes ==
  /\ how \in {"download", "build"}
  /\ created \in 0..MaxInodes /\ file \in 0..created /\ tmp \in 0..created
  /\ content \in [Plugin!Inodes -> {"empty", "part", "whole"}]
  /\ opened \in [Plugin!Inodes -> Runs \cup {Plugin!Nobody}]
  /\ pc \in [Runs -> Labels]
  /\ writes \in [Runs -> 0..MaxInodes]
  /\ tmp # 0 => tmp # file

(* What no run by itself can do to the cache has been done to it. *)
Spoiled == overlap \/ "copying" \in cutOff

(* Nobody else is under way, and what it writes is its own. *)
OneRun ==
  /\ \A r, s \in Plugin!Under : r = s
  /\ \A r \in Runs : pc[r] = "write" => tmp # 0 /\ writes[r] = tmp /\ opened[tmp] = r
  /\ \A r \in Runs : pc[r] = "copying" => file # 0 /\ writes[r] = file /\ opened[file] = r

(* The artifact is whole, except while a run copies it; so is what is about to
   take its name.  A run that is over has left it there for good. *)
ArtifactWhole ==
  /\ \/ file = 0 \/ content[file] = "whole"
     \/ \E r \in Runs : pc[r] = "copying"
  /\ \A r \in Runs : pc[r] = "move" /\ tmp # 0 => content[tmp] = "whole"
  /\ \A r \in Runs : pc[r] = "ok" =>
       Plugin!Under = {} /\ file # 0 /\ content[file] = "whole"

CacheInv == CacheTypes /\ (~Spoiled => OneRun /\ ArtifactWhole)

(* A start waits for one run, and goes on when that one has filled the cache. *)
SetupInv ==
  /\ script = "setup" => setup \in Runs
  /\ script = "launch" => \E r \in Runs : pc[r] = "ok"

LocalInv == ScriptInv /\ CacheInv /\ SetupInv
-----------------------------------------------------------------------------
(***************************************************************************)
(* The script.                                                             *)
(***************************************************************************)
LEMMA ScriptStarts == ScriptInit => ScriptInv
BY ValidatorAssumption
   DEF ScriptInit, ScriptInv, OursCanBeStopped, GuardHolds, ChildHolds, Alive, Answering, Pids

(* Nothing is out of reach that was not before, when no process of ours appears
   and none loses what it is reached by. *)
LEMMA StayInReach ==
  ASSUME OursCanBeStopped, wiped' = wiped, ours' = ours, Alive' \cap ours \subseteq Alive,
         \A p \in Alive' :
            p \in signalled \/ p = pidFile \/ p \in unrecorded =>
              p \in signalled' \/ p = pidFile' \/ p \in unrecorded'
  PROVE  OursCanBeStopped'
BY DEF OursCanBeStopped

(* Processes come, bind the port and go. *)
LEMMA ProcessesKeepScriptInv ==
  ASSUME ScriptInv,
         \/ \E p \in Pids : BindPort(p) \/ ClosePort(p) \/ ProcessEnds(p)
         \/ LaunchForeign
  PROVE  ScriptInv'
<1>1. ASSUME NEW p \in Pids, BindPort(p) PROVE ScriptInv'
  <2>1. /\ UNCHANGED <<script, child, torn, pidFile, pids, signalled, ours, unrecorded>>
        /\ UNCHANGED <<sameLength, wiped>>
        /\ Alive' \subseteq Alive /\ pids' \in 0..MaxPid
        /\ phase' \in [Pids -> {"starting", "answering", "ending", "gone"}]
    BY <1>1 DEF BindPort, ScriptInv, Alive
  <2>2. OursCanBeStopped'
    BY <2>1, StayInReach DEF ScriptInv
  <2>3. ChildHolds'
    BY <2>1 DEF ScriptInv, ChildHolds
  <2>4. GuardHolds'
    <3>1. CASE Answering = {}
      <4>1. Answering' = {p}
        BY <1>1, <3>1 DEF BindPort, ScriptInv, Answering
      <4>2. p # 0
        BY DEF Pids
      <4>3. script # "idle" /\ p # child /\ p \notin sameLength => intruder'
        BY <1>1, <3>1 DEF BindPort
      <4>4. p = child => p \in sameLength \/ torn
        BY <4>2 DEF ScriptInv, ChildHolds
      <4> QED BY <2>1, <4>1, <4>3, <4>4 DEF GuardHolds
    <3>2. CASE Answering # {}
      <4>1. Answering' = Answering
        BY <1>1, <3>2 DEF BindPort, ScriptInv, Answering
      <4>2. intruder => intruder'
        BY <1>1 DEF BindPort
      <4> QED BY <2>1, <4>1, <4>2 DEF ScriptInv, GuardHolds
    <3> QED BY <3>1, <3>2
  <2> QED BY <2>1, <2>2, <2>3, <2>4 DEF ScriptInv
<1>2. ASSUME NEW p \in Pids, ClosePort(p) \/ ProcessEnds(p) PROVE ScriptInv'
  <2>1. /\ UNCHANGED <<script, run, pidFile, pids, signalled, ours, unrecorded>>
        /\ UNCHANGED <<sameLength, wiped>>
        /\ Alive' \subseteq Alive /\ Answering' \subseteq Answering
        /\ phase' \in [Pids -> {"starting", "answering", "ending", "gone"}]
    BY <1>2 DEF ClosePort, ProcessEnds, PhaseTo, ScriptInv, Answering, Alive
  <2>2. OursCanBeStopped'
    BY <2>1, StayInReach DEF ScriptInv
  <2> QED BY <2>1, <2>2 DEF ScriptInv, GuardHolds, ChildHolds, run
<1>3. ASSUME LaunchForeign PROVE ScriptInv'
  <2>1. /\ UNCHANGED <<script, run, pidFile, signalled, ours, unrecorded, wiped>>
        /\ pids' = pids + 1 /\ pids' \in Pids /\ pids' \notin ours
        /\ sameLength \subseteq sameLength'
        /\ phase' = [phase EXCEPT ![pids'] = "starting"]
    BY <1>3, ValidatorAssumption DEF LaunchForeign, Spawn, ScriptInv, Pids
  <2>2. Answering' \subseteq Answering /\ Alive' \subseteq Alive \cup {pids'}
    BY <2>1 DEF ScriptInv, Answering, Alive
  <2>3. ours' \subseteq 1..pids' /\ pids' \in 0..MaxPid
        /\ phase' \in [Pids -> {"starting", "answering", "ending", "gone"}]
    BY <2>1, ValidatorAssumption DEF ScriptInv, Pids
  <2>4. OursCanBeStopped'
    BY <2>1, <2>2, StayInReach DEF ScriptInv
  <2> QED BY <2>1, <2>2, <2>3, <2>4 DEF ScriptInv, GuardHolds, ChildHolds, run
<1> QED BY <1>1, <1>2, <1>3

(* A launch that finds one of ours alive has run over its ledger. *)
LEMMA LaunchKeepsScriptInv == ASSUME ScriptInv, Launch PROVE ScriptInv'
<1>1. /\ pids' = pids + 1 /\ pids' \in Pids /\ pids' \notin ours /\ child' = pids'
      /\ script = "launch" /\ script' = "record"
      /\ phase' = [phase EXCEPT ![pids'] = "starting"]
      /\ ours' = ours \cup {pids'} /\ unrecorded' = unrecorded \cup {pids'}
      /\ wiped' = (wiped \/ ours \cap Alive # {})
      /\ UNCHANGED <<torn, intruder, pidFile, signalled>>
      /\ sameLength \subseteq sameLength' /\ (child' \in sameLength' \/ torn)
  <2>1. pids' = pids + 1 /\ pids' \in Pids /\ pids' \notin ours
    BY ValidatorAssumption DEF Launch, Spawn, ScriptInv, Pids
  <2>2. sameLength' \in {sameLength, sameLength \cup {pids'}}
        /\ (torn \/ sameLength' = sameLength \cup {pids'})
    BY DEF Launch, Spawn
  <2> QED BY <2>1, <2>2 DEF Launch, Spawn
<1>2. Answering' \subseteq Answering /\ Alive' \subseteq Alive \cup {pids'}
  BY <1>1 DEF ScriptInv, Answering, Alive
<1>3. ours' \subseteq 1..pids' /\ pids' \in 0..MaxPid
      /\ phase' \in [Pids -> {"starting", "answering", "ending", "gone"}]
  BY <1>1, ValidatorAssumption DEF ScriptInv, Pids
<1>4. wiped' \/ ours' \cap Alive' \subseteq {pids'}
  BY <1>1, <1>2
<1>5. OursCanBeStopped'
  BY <1>1, <1>4 DEF OursCanBeStopped
<1>6. ChildHolds' /\ GuardHolds'
  BY <1>1, <1>2, <1>4 DEF ScriptInv, ChildHolds, GuardHolds
<1> QED BY <1>3, <1>5, <1>6 DEF ScriptInv

(* The PID is written of the only one of ours, or it is not written. *)
LEMMA RecordKeepsScriptInv == ASSUME ScriptInv, RecordPid PROVE ScriptInv'
<1>1. /\ UNCHANGED <<pids, phase, signalled, ours, sameLength, wiped>>
      /\ Alive' = Alive /\ Answering' = Answering
      /\ child \in unrecorded /\ (wiped \/ ours \cap Alive \subseteq {child})
      /\ pidFile' = child \/ child \in unrecorded'
      /\ script' \in {"poll", "idle"}
  BY DEF RecordPid, ScriptInv, ChildHolds, Alive, Answering, GoOn, End
<1>2. OursCanBeStopped'
  BY <1>1 DEF OursCanBeStopped
<1>3. ChildHolds'
  BY <1>1 DEF RecordPid, ScriptInv, ChildHolds, GoOn, End, run
<1>4. GuardHolds'
  BY <1>1 DEF RecordPid, ScriptInv, GuardHolds, GoOn, End, run
<1> QED BY <1>1, <1>2, <1>3, <1>4 DEF ScriptInv

(* What the script does otherwise leaves the processes alone. *)
LEMMA ScriptKeepsScriptInv ==
  ASSUME ScriptInv, Start \/ Guard \/ Check \/ SetupGeyser \/ Poll \/ Interrupt \/ Stop
  PROVE  ScriptInv'
<1>1. /\ UNCHANGED <<pids, phase, ours, unrecorded, sameLength, wiped>>
      /\ Alive' = Alive /\ Answering' = Answering
  BY DEF Start, Guard, Check, SetupGeyser, Poll, Interrupt, Stop, processes, Alive, Answering
<1>2. OursCanBeStopped'
  <2>1. \A p \in Alive' : p \in signalled \/ p = pidFile =>
           p \in signalled' \/ p = pidFile'
    BY <1>1 DEF Start, Guard, Check, SetupGeyser, Poll, Interrupt, Stop, processes
  <2> QED BY <1>1, <2>1, StayInReach DEF ScriptInv
<1>3. script' # "record" /\ (child' = 0 \/ (child' = child /\ torn' = torn) \/ script = "idle")
  BY DEF Start, Guard, Check, SetupGeyser, Poll, Interrupt, Stop, GoOn, End, run
<1>4. ChildHolds'
  <2>1. CASE Start
    BY <1>1, <2>1 DEF Start, End, ScriptInv, ChildHolds
  <2>2. CASE Guard \/ Check \/ SetupGeyser \/ Poll \/ Interrupt \/ Stop
    BY <1>1, <2>2 DEF Guard, Check, SetupGeyser, Poll, Interrupt, Stop, GoOn, End, run,
                      ScriptInv, ChildHolds
  <2> QED BY <2>1, <2>2
<1>5. GuardHolds'
  BY <1>1 DEF ScriptInv, GuardHolds, Start, Guard, Check, SetupGeyser, Poll, Interrupt, Stop,
              GoOn, End, run
<1> QED BY <1>1, <1>2, <1>4, <1>5 DEF ScriptInv

LEMMA ScriptKept == ScriptInv /\ [ScriptNext]_scriptVars => ScriptInv'
<1> SUFFICES ASSUME ScriptInv, [ScriptNext]_scriptVars PROVE ScriptInv'
  OBVIOUS
<1>1. CASE UNCHANGED scriptVars
  BY <1>1 DEF scriptVars, processes, run, ScriptInv, OursCanBeStopped, GuardHolds, ChildHolds,
              Alive, Answering
<1> QED
  BY <1>1, ProcessesKeepScriptInv, LaunchKeepsScriptInv, RecordKeepsScriptInv,
     ScriptKeepsScriptInv DEF ScriptNext

(* A step of the composition is one of the script, or leaves it as it is. *)
LEMMA LocalStepIsScriptStep == [LocalNext]_localVars => [ScriptNext]_scriptVars
BY DEF LocalNext, localVars, ValidatorStep, BeginSetup, RunSetup, SetupReturns, InterruptAll,
       ScriptNext

THEOREM ScriptInvariant == LocalSpec => []ScriptInv
BY ScriptStarts, ScriptKept, LocalStepIsScriptStep, PTL DEF LocalSpec, LocalInit

(* `stop` reaches the one validator of ours there is, or has: all but one whose
   PID was never written, while no launch has run over one that had not ended. *)
THEOREM OursStoppableOnceRecorded == LocalSpec => []OursCanBeStopped
BY ScriptInvariant, PTL DEF ScriptInv

(* A start that succeeds leaves a validator that answers, with the Token-2022 the
   start set out with. *)
THEOREM SucceedingMeansToken2022 == LocalSpec => SuccessMeansToken2022
<1>1. ASSUME ScriptInv, [ScriptNext]_scriptVars
      PROVE  [result' \in {"ready", "reused"} /\ result' # result =>
                Answering' # {}
                /\ (Answering' \subseteq sameLength' \/ intruder \/ torn)]_scriptVars
  <2> SUFFICES ASSUME ScriptNext, result' \in {"ready", "reused"}, result' # result
               PROVE  Answering' # {}
                      /\ (Answering' \subseteq sameLength' \/ intruder \/ torn)
    BY <1>1
  <2>1. CASE Check
    BY <2>1 DEF Check, End, processes, Answering
  <2>2. CASE Poll
    BY <1>1, <2>2 DEF Poll, End, processes, Answering, ScriptInv, GuardHolds
  <2>3. ASSUME \/ \E p \in Pids : BindPort(p) \/ ClosePort(p) \/ ProcessEnds(p)
               \/ LaunchForeign \/ Start \/ Guard \/ SetupGeyser \/ Launch \/ RecordPid
               \/ Interrupt \/ Stop
        PROVE  FALSE
    BY <2>3 DEF BindPort, ClosePort, ProcessEnds, PhaseTo, LaunchForeign, Start, Guard,
                SetupGeyser, Launch, RecordPid, Interrupt, Stop, GoOn, End
  <2> QED BY <2>1, <2>2, <2>3 DEF ScriptNext
<1> QED
  BY <1>1, ScriptInvariant, LocalStepIsScriptStep, PTL DEF LocalSpec, SuccessMeansToken2022
-----------------------------------------------------------------------------
(***************************************************************************)
(* The cache.                                                              *)
(***************************************************************************)
LEMMA CacheInit == Plugin!Init => CacheInv
BY LocalAssumption
   DEF Plugin!Init, CacheInv, CacheTypes, Labels, Plugin!Inodes, OneRun, ArtifactWhole,
       Plugin!Under

(* A name is opened for writing. *)
LEMMA OpenType ==
  ASSUME CacheTypes, NEW r \in Runs, NEW inode \in {file, tmp}, Plugin!Open(r, inode)
  PROVE  /\ created' \in 0..MaxInodes /\ created <= created'
         /\ writes' = [writes EXCEPT ![r] = writes'[r]]
         /\ writes'[r] \in 1..created'
         /\ IF inode = 0 THEN writes'[r] = created + 1 ELSE writes'[r] = inode
         /\ content' = [content EXCEPT ![writes'[r]] = "empty"]
         /\ opened' = [opened EXCEPT ![writes'[r]] = r]
         /\ content' \in [Plugin!Inodes -> {"empty", "part", "whole"}]
         /\ opened' \in [Plugin!Inodes -> Runs \cup {Plugin!Nobody}]
         /\ writes' \in [Runs -> 0..MaxInodes]
<1> DEFINE i == IF inode = 0 THEN created + 1 ELSE inode
<1>1. /\ i \in Plugin!Inodes
      /\ created' = IF inode = 0 THEN i ELSE created
      /\ content' = [content EXCEPT ![i] = "empty"]
      /\ opened' = [opened EXCEPT ![i] = r]
      /\ writes' = [writes EXCEPT ![r] = i]
  BY DEF Plugin!Open
<1>2. i \in 1..MaxInodes
  BY <1>1 DEF Plugin!Inodes
<1>3. created' \in 0..MaxInodes /\ created <= created' /\ i \in 1..created'
  BY <1>1, <1>2, LocalAssumption DEF CacheTypes
<1> HIDE DEF i
<1>4. writes'[r] = i
  BY <1>1 DEF CacheTypes
<1>5. IF inode = 0 THEN i = created + 1 ELSE i = inode
  BY DEF i
<1> QED BY <1>1, <1>2, <1>3, <1>4, <1>5 DEF CacheTypes

(* A run that starts finds the artifact, and leaves the files as they are. *)
LEMMA CheckKeepsCacheInv ==
  ASSUME CacheInv, NEW r \in Runs, Plugin!Check(r) PROVE CacheInv'
<1> USE DEF Plugin!Check, Plugin!Goto, Plugin!fs, CacheInv
<1>1. CacheTypes'
  BY DEF CacheTypes, Labels
<1>2. ASSUME ~Spoiled' PROVE OneRun' /\ ArtifactWhole'
  <2>1. ~Spoiled /\ Plugin!Under = {} /\ OneRun /\ ArtifactWhole
    BY <1>2 DEF Spoiled
  <2>2. \A s \in Runs : pc[s] \in {"idle", "ok", "failed"}
    BY <2>1 DEF Plugin!Under
  <2>3. Plugin!Under' \subseteq {r}
    BY <2>2 DEF Plugin!Under, CacheTypes
  <2>4. OneRun'
    BY <2>1, <2>2, <2>3 DEF OneRun, CacheTypes
  <2>5. file = 0 \/ content[file] = "whole"
    BY <2>1, <2>2 DEF ArtifactWhole
  <2>6. CASE Plugin!Warm
    <3>1. pc'[r] = "ok" /\ file # 0 /\ content[file] = "whole"
      BY <2>5, <2>6 DEF Plugin!Warm, CacheTypes
    <3>2. Plugin!Under' = {}
      BY <2>3, <3>1 DEF Plugin!Under
    <3> QED BY <2>1, <2>2, <2>4, <3>1, <3>2 DEF ArtifactWhole, CacheTypes
  <2>7. CASE ~Plugin!Warm
    <3>1. file = 0 /\ \A s \in Runs : pc[s] # "ok"
      BY <2>1, <2>5, <2>7 DEF Plugin!Warm, ArtifactWhole
    <3> QED BY <2>1, <2>2, <2>4, <2>7, <3>1 DEF ArtifactWhole, CacheTypes
  <2> QED BY <2>6, <2>7
<1> QED BY <1>1, <1>2

(* The run under way is the only one. *)
LEMMA AloneUnderWay ==
  ASSUME CacheInv, ~Spoiled, NEW r \in Plugin!Under
  PROVE  /\ OneRun /\ ArtifactWhole
         /\ \A s \in Runs : s # r => pc[s] \in {"idle", "failed"}
<1>1. OneRun /\ ArtifactWhole
  BY DEF CacheInv
<1>2. ASSUME NEW s \in Runs, s # r PROVE pc[s] \in {"idle", "failed"}
  <2>1. s \notin Plugin!Under
    BY <1>1, <1>2 DEF OneRun
  <2>2. pc[s] # "ok"
    BY <1>1 DEF ArtifactWhole
  <2> QED BY <2>1, <2>2 DEF Plugin!Under
<1> QED BY <1>1, <1>2

(* A run stops, or goes on to what does not write the artifact.  One that stops
   while it copies has spoiled the cache. *)
LEMMA TouchesNoFile ==
  ASSUME CacheInv, NEW r \in Plugin!Under, NEW label \in {"failed", "cloning", "build"},
         pc' = [pc EXCEPT ![r] = label],
         UNCHANGED <<how, file, tmp, content, opened, created, writes, overlap>>,
         cutOff \subseteq cutOff', pc[r] = "copying" => "copying" \in cutOff'
  PROVE  CacheInv'
<1>1. r \in Runs /\ CacheTypes /\ pc'[r] = label
  BY DEF Plugin!Under, CacheInv, CacheTypes
<1>2. CacheTypes'
  BY <1>1 DEF CacheTypes, Labels
<1>3. ASSUME ~Spoiled' PROVE OneRun' /\ ArtifactWhole'
  <2>1. ~Spoiled /\ pc[r] # "copying"
    BY <1>3 DEF Spoiled
  <2>2. /\ OneRun /\ ArtifactWhole
        /\ \A s \in Runs : s # r => pc[s] \in {"idle", "failed"} /\ pc'[s] = pc[s]
    BY <1>1, <2>1, AloneUnderWay DEF CacheTypes
  <2>3. Plugin!Under' \subseteq {r}
    BY <2>2 DEF Plugin!Under
  <2> QED BY <1>1, <2>1, <2>2, <2>3 DEF OneRun, ArtifactWhole
<1> QED BY <1>2, <1>3 DEF CacheInv

LEMMA RequestKeepsCacheInv ==
  ASSUME CacheInv, NEW r \in Runs, Plugin!Request(r) PROVE CacheInv'
<1>1. /\ pc[r] = "request" /\ pc' \in {[pc EXCEPT ![r] = "write"], [pc EXCEPT ![r] = "failed"]}
      /\ UNCHANGED <<how, file, source, cutOff, overlap>> /\ CacheTypes
  BY DEF Plugin!Request, Plugin!Goto, CacheInv
<1>2. Spoiled' = Spoiled /\ r \in Plugin!Under
  BY <1>1 DEF Spoiled, Plugin!Under
<1>3. CASE pc' = [pc EXCEPT ![r] = "failed"]
  <2>1. UNCHANGED <<tmp, content, opened, created, writes>>
    BY <1>1, <1>3 DEF Plugin!Request, Plugin!Goto, CacheTypes
  <2> QED BY <1>1, <1>2, <1>3, <2>1, TouchesNoFile
<1>4. CASE pc' = [pc EXCEPT ![r] = "write"]
  <2>1. pc'[r] = "write" /\ Plugin!Open(r, tmp) /\ tmp' = writes'[r]
    BY <1>1, <1>4 DEF Plugin!Request, Plugin!Goto, CacheTypes
  <2>2. /\ created' \in 0..MaxInodes /\ created <= created'
        /\ tmp' \in 1..created' /\ writes' = [writes EXCEPT ![r] = tmp']
        /\ IF tmp = 0 THEN tmp' = created + 1 ELSE tmp' = tmp
        /\ content' = [content EXCEPT ![tmp'] = "empty"]
        /\ opened' = [opened EXCEPT ![tmp'] = r]
        /\ content' \in [Plugin!Inodes -> {"empty", "part", "whole"}]
        /\ opened' \in [Plugin!Inodes -> Runs \cup {Plugin!Nobody}]
        /\ writes' \in [Runs -> 0..MaxInodes]
    BY <1>1, <2>1, OpenType
  <2>3. tmp' # file /\ file \in 0..created'
    BY <1>1, <2>2, LocalAssumption DEF CacheTypes
  <2>4. CacheTypes'
    BY <1>1, <1>4, <2>2, <2>3 DEF CacheTypes, Labels
  <2>5. ASSUME ~Spoiled PROVE OneRun' /\ ArtifactWhole'
    <3>1. /\ OneRun /\ ArtifactWhole
          /\ \A s \in Runs : s # r => pc[s] \in {"idle", "failed"}
      BY <1>2, <2>5, AloneUnderWay
    <3>2. /\ \A s \in Runs : s # r => pc'[s] \in {"idle", "failed"}
          /\ Plugin!Under' \subseteq {r}
      BY <1>1, <1>4, <3>1 DEF CacheTypes, Plugin!Under
    <3>3. opened'[tmp'] = r /\ writes'[r] = tmp' /\ tmp' # 0
      BY <1>1, <2>2, LocalAssumption DEF CacheTypes, Plugin!Inodes
    <3>4. OneRun'
      BY <2>1, <3>2, <3>3 DEF OneRun
    <3>5. file = 0 \/ content'[file] = "whole"
      BY <1>1, <2>2, <2>3, <3>1 DEF ArtifactWhole, CacheTypes, Plugin!Inodes
    <3> QED BY <1>1, <2>1, <3>2, <3>4, <3>5 DEF ArtifactWhole
  <2> QED BY <1>2, <2>4, <2>5 DEF CacheInv
<1> QED BY <1>1, <1>3, <1>4

LEMMA WriteKeepsCacheInv ==
  ASSUME CacheInv, NEW r \in Runs, Plugin!WriteSome(r) \/ Plugin!WriteLast(r)
  PROVE  CacheInv'
<1> DEFINE i == writes[r]
<1>1. /\ pc[r] \in {"write", "copying"} /\ r \in Plugin!Under /\ CacheTypes
      /\ UNCHANGED <<how, file, tmp, opened, created, source, writes, cutOff, overlap>>
      /\ \E what \in {"part", "whole", "empty"} : content' = [content EXCEPT ![i] = what]
      /\ \E label \in {"write", "copying", "move", "ok"} : pc' = [pc EXCEPT ![r] = label]
  <2>1. CASE Plugin!WriteSome(r)
    BY <2>1 DEF Plugin!WriteSome, Plugin!Under, CacheInv, CacheTypes
  <2>2. CASE Plugin!WriteLast(r)
    <3>1. content' = content \/ \E what \in {"part", "whole"} : content' = [content EXCEPT ![i] = what]
      BY <2>2 DEF Plugin!WriteLast, CacheInv, CacheTypes
    <3> QED BY <2>2, <3>1 DEF Plugin!WriteLast, Plugin!Goto, Plugin!Under, CacheInv, CacheTypes
  <2> QED BY <2>1, <2>2
<1>2. CacheTypes'
  BY <1>1 DEF CacheTypes, Labels
<1>3. ASSUME ~Spoiled PROVE OneRun' /\ ArtifactWhole'
  <2>1. /\ OneRun /\ ArtifactWhole
        /\ \A s \in Runs : s # r => pc[s] \in {"idle", "failed"} /\ pc'[s] = pc[s]
    BY <1>1, <1>3, AloneUnderWay DEF CacheTypes
  <2>2. Plugin!Under' \subseteq {r}
    BY <2>1 DEF Plugin!Under
  <2>3. i \in Plugin!Inodes /\ opened[i] = r /\ i = IF pc[r] = "write" THEN tmp ELSE file
    BY <1>1, <2>1, LocalAssumption DEF OneRun, CacheTypes, Plugin!Inodes
  <2>4. CASE Plugin!WriteSome(r)
    <3>1. pc' = pc
      BY <2>4 DEF Plugin!WriteSome
    <3> QED
      BY <1>1, <2>1, <2>2, <2>3, <3>1 DEF OneRun, ArtifactWhole, CacheTypes
  <2>5. CASE Plugin!WriteLast(r)
    <3>1. /\ content' = [content EXCEPT ![i] = "whole"]
          /\ pc'[r] = IF pc[r] = "write" THEN "move" ELSE "ok"
      BY <1>1, <2>3, <2>5 DEF Plugin!WriteLast, Plugin!Goto, CacheTypes
    <3>2. OneRun'
      BY <1>1, <2>1, <2>2, <3>1 DEF OneRun
    <3>3. CASE pc[r] = "write"
      <4>1. i = tmp /\ tmp # file /\ tmp # 0 /\ content'[tmp] = "whole" /\ pc'[r] = "move"
        BY <1>1, <2>1, <2>3, <3>1, <3>3 DEF OneRun, CacheTypes
      <4>2. file = 0 \/ content'[file] = "whole"
        BY <1>1, <2>1, <3>1, <3>3, <4>1 DEF ArtifactWhole, CacheTypes
      <4> QED BY <1>1, <2>1, <3>2, <4>1, <4>2 DEF ArtifactWhole
    <3>4. CASE pc[r] = "copying"
      <4>1. i = file /\ file # 0 /\ content'[file] = "whole" /\ pc'[r] = "ok"
        BY <1>1, <2>1, <2>3, <3>1, <3>4 DEF OneRun, CacheTypes
      <4>2. Plugin!Under' = {}
        BY <2>2, <4>1 DEF Plugin!Under
      <4> QED BY <1>1, <2>1, <3>2, <4>1, <4>2 DEF ArtifactWhole
    <3> QED BY <1>1, <3>3, <3>4
  <2> QED BY <2>4, <2>5
<1> QED BY <1>1, <1>2, <1>3 DEF CacheInv, Spoiled

LEMMA MoveKeepsCacheInv ==
  ASSUME CacheInv, NEW r \in Runs, Plugin!Move(r) PROVE CacheInv'
<1>1. /\ pc[r] = "move" /\ r \in Plugin!Under /\ CacheTypes
      /\ UNCHANGED <<how, content, opened, created, source, writes, cutOff, overlap>>
  BY DEF Plugin!Move, Plugin!Under, CacheInv
<1>2. CASE tmp = 0
  BY <1>1, <1>2, TouchesNoFile DEF Plugin!Move, Plugin!Goto
<1>3. CASE tmp # 0
  <2>1. pc' = [pc EXCEPT ![r] = "ok"] /\ file' = tmp /\ tmp' = 0
    BY <1>3 DEF Plugin!Move, Plugin!Goto
  <2>2. CacheTypes'
    BY <1>1, <2>1 DEF CacheTypes, Labels
  <2>3. ASSUME ~Spoiled PROVE OneRun' /\ ArtifactWhole'
    <3>1. /\ ArtifactWhole /\ pc'[r] = "ok"
          /\ \A s \in Runs : s # r => pc[s] \in {"idle", "failed"} /\ pc'[s] = pc[s]
      BY <1>1, <2>1, <2>3, AloneUnderWay DEF CacheTypes
    <3>2. Plugin!Under' = {}
      BY <3>1 DEF Plugin!Under
    <3>3. content'[file'] = "whole" /\ file' # 0
      BY <1>1, <1>3, <2>1, <3>1 DEF ArtifactWhole
    <3> QED BY <3>1, <3>2, <3>3 DEF OneRun, ArtifactWhole
  <2> QED BY <1>1, <2>2, <2>3 DEF CacheInv, Spoiled
<1> QED BY <1>2, <1>3

LEMMA BuildKeepsCacheInv ==
  ASSUME CacheInv, NEW r \in Runs, Plugin!Build(r) PROVE CacheInv'
<1>1. /\ pc[r] = "build" /\ pc' \in {[pc EXCEPT ![r] = "copying"], [pc EXCEPT ![r] = "failed"]}
      /\ UNCHANGED <<how, tmp, source, cutOff, overlap>> /\ CacheTypes
      /\ r \in Plugin!Under
  BY DEF Plugin!Build, Plugin!Goto, CacheInv, Plugin!Under
<1>2. CASE pc' = [pc EXCEPT ![r] = "failed"]
  <2>1. UNCHANGED <<file, content, opened, created, writes>>
    BY <1>1, <1>2 DEF Plugin!Build, Plugin!Goto, CacheTypes
  <2> QED BY <1>1, <1>2, <2>1, TouchesNoFile
<1>3. CASE pc' = [pc EXCEPT ![r] = "copying"]
  <2>1. pc'[r] = "copying" /\ Plugin!Open(r, file) /\ file' = writes'[r]
    BY <1>1, <1>3 DEF Plugin!Build, Plugin!Goto, CacheTypes
  <2>2. /\ created' \in 0..MaxInodes /\ created <= created'
        /\ file' \in 1..created' /\ writes' = [writes EXCEPT ![r] = file']
        /\ IF file = 0 THEN file' = created + 1 ELSE file' = file
        /\ content' = [content EXCEPT ![file'] = "empty"]
        /\ opened' = [opened EXCEPT ![file'] = r]
        /\ content' \in [Plugin!Inodes -> {"empty", "part", "whole"}]
        /\ opened' \in [Plugin!Inodes -> Runs \cup {Plugin!Nobody}]
        /\ writes' \in [Runs -> 0..MaxInodes]
    BY <1>1, <2>1, OpenType
  <2>3. (tmp # 0 => tmp # file') /\ tmp \in 0..created'
    BY <1>1, <2>2, LocalAssumption DEF CacheTypes
  <2>4. CacheTypes'
    BY <1>1, <1>3, <2>2, <2>3 DEF CacheTypes, Labels
  <2>5. ASSUME ~Spoiled PROVE OneRun' /\ ArtifactWhole'
    <3>1. \A s \in Runs : s # r => pc[s] \in {"idle", "failed"} /\ pc'[s] = pc[s]
      BY <1>1, <1>3, <2>5, AloneUnderWay DEF CacheTypes
    <3>2. Plugin!Under' \subseteq {r}
      BY <3>1 DEF Plugin!Under
    <3>3. opened'[file'] = r /\ writes'[r] = file' /\ file' # 0
      BY <1>1, <2>2, LocalAssumption DEF CacheTypes, Plugin!Inodes
    <3> QED BY <1>1, <2>1, <3>1, <3>2, <3>3 DEF OneRun, ArtifactWhole
  <2> QED BY <1>1, <2>4, <2>5 DEF CacheInv, Spoiled
<1> QED BY <1>1, <1>2, <1>3

LEMMA CacheKept ==
  ASSUME CacheInv, NEW r \in Runs, Plugin!RunStep(r) \/ Plugin!Kill(r)
  PROVE  CacheInv'
<1>1. CASE Plugin!Clone(r) \/ Plugin!CloneEnds(r) \/ Plugin!WriteFails(r) \/ Plugin!Kill(r)
  <2>1. r \in Plugin!Under
    BY <1>1 DEF Plugin!Clone, Plugin!CloneEnds, Plugin!WriteFails, Plugin!Kill, Plugin!Under
  <2>2. UNCHANGED <<how, file, tmp, content, opened, created, writes, overlap>>
    BY <1>1 DEF Plugin!Clone, Plugin!CloneEnds, Plugin!WriteFails, Plugin!Kill, Plugin!fs
  <2>3. cutOff \subseteq cutOff' /\ (pc[r] = "copying" => "copying" \in cutOff')
    BY <1>1 DEF Plugin!Clone, Plugin!CloneEnds, Plugin!WriteFails, Plugin!Kill
  <2>4. \E label \in {"failed", "cloning", "build"} : pc' = [pc EXCEPT ![r] = label]
    BY <1>1 DEF Plugin!Clone, Plugin!CloneEnds, Plugin!WriteFails, Plugin!Kill, Plugin!Goto
  <2> QED BY <2>1, <2>2, <2>3, <2>4, TouchesNoFile
<1> QED
  BY <1>1, CheckKeepsCacheInv, RequestKeepsCacheInv, WriteKeepsCacheInv, MoveKeepsCacheInv,
     BuildKeepsCacheInv DEF Plugin!RunStep
-----------------------------------------------------------------------------
(***************************************************************************)
(* The composition.                                                        *)
(***************************************************************************)
(* A run that has filled the cache has done so for good. *)
LEMMA OkIsFinal ==
  ASSUME CacheTypes, NEW r \in Runs, Plugin!RunStep(r) \/ Plugin!Kill(r),
         NEW s \in Runs, pc[s] = "ok"
  PROVE  pc'[s] = "ok"
<1>1. r # s
  BY DEF Plugin!RunStep, Plugin!Check, Plugin!Request, Plugin!WriteSome, Plugin!WriteLast,
         Plugin!WriteFails, Plugin!Move, Plugin!Clone, Plugin!CloneEnds, Plugin!Build,
         Plugin!Kill, Plugin!Under
<1>2. pc' = pc \/ \E label : pc' = [pc EXCEPT ![r] = label]
  BY DEF Plugin!RunStep, Plugin!Check, Plugin!Request, Plugin!WriteSome, Plugin!WriteLast,
         Plugin!WriteFails, Plugin!Move, Plugin!Clone, Plugin!CloneEnds, Plugin!Build,
         Plugin!Kill, Plugin!Goto
<1> QED BY <1>1, <1>2 DEF CacheTypes

LEMMA CacheUnchanged == ASSUME CacheInv, UNCHANGED pluginVars PROVE CacheInv'
BY DEF pluginVars, CacheInv, CacheTypes, Spoiled, OneRun, ArtifactWhole, Plugin!Under

LEMMA LocalKept == LocalInv /\ [LocalNext]_localVars => LocalInv'
<1> SUFFICES ASSUME LocalInv, [LocalNext]_localVars PROVE LocalInv'
  OBVIOUS
<1>1. ScriptInv'
  BY ScriptKept, LocalStepIsScriptStep DEF LocalInv
<1>2. CASE ValidatorStep
  <2>1. CacheInv'
    BY <1>2, CacheUnchanged DEF LocalInv, ValidatorStep
  <2>2. pc' = pc /\ setup' = setup
    BY <1>2 DEF ValidatorStep, pluginVars
  <2>3. script' \in {"setup", "launch"} => script' = script
    BY <1>2 DEF ValidatorStep, BindPort, ClosePort, ProcessEnds, PhaseTo, LaunchForeign, Start,
                Check, Launch, RecordPid, Poll, Stop, GoOn, End
  <2> QED BY <1>1, <2>1, <2>2, <2>3 DEF LocalInv, SetupInv
<1>3. CASE BeginSetup
  <2>1. CacheInv' /\ pc' = pc
    BY <1>3, CacheUnchanged DEF LocalInv, BeginSetup, pluginVars
  <2>2. script' = "setup" => setup' \in Runs
    BY <1>3 DEF BeginSetup
  <2>3. script' # "launch"
    BY <1>3 DEF BeginSetup, Guard, GoOn
  <2> QED BY <1>1, <2>1, <2>2, <2>3 DEF LocalInv, SetupInv
<1>4. CASE RunSetup
  <2>1. UNCHANGED <<script, setup>>
    BY <1>4 DEF RunSetup, scriptVars
  <2>2. PICK r \in Runs : Plugin!RunStep(r) \/ Plugin!Kill(r)
    BY <1>4 DEF RunSetup
  <2>3. CacheInv'
    BY <2>2, CacheKept DEF LocalInv
  <2>4. \A s \in Runs : pc[s] = "ok" => pc'[s] = "ok"
    BY <2>2, OkIsFinal DEF LocalInv, CacheInv
  <2> QED BY <1>1, <2>1, <2>3, <2>4 DEF LocalInv, SetupInv
<1>5. CASE SetupReturns
  <2>1. CacheInv' /\ pc' = pc
    BY <1>5, CacheUnchanged DEF LocalInv, SetupReturns, pluginVars
  <2>2. setup \in Runs /\ (script' = "launch" => pc[setup] = "ok") /\ script' # "setup"
    BY <1>5 DEF LocalInv, SetupInv, SetupReturns, SetupGeyser, GoOn, End
  <2> QED BY <1>1, <2>1, <2>2 DEF LocalInv, SetupInv
<1>6. CASE InterruptAll
  <2>1. script' = "idle"
    BY <1>6 DEF InterruptAll, Interrupt, End
  <2>2. CacheInv'
    <3>1. setup \in Plugin!Under => setup \in Runs
      BY DEF Plugin!Under
    <3> QED BY <1>6, <3>1, CacheUnchanged, CacheKept DEF LocalInv, InterruptAll
  <2> QED BY <1>1, <2>1, <2>2 DEF LocalInv, SetupInv
<1>7. CASE UNCHANGED localVars
  <2>1. CacheInv' /\ pc' = pc /\ UNCHANGED <<script, setup>>
    BY <1>7, CacheUnchanged DEF LocalInv, localVars, scriptVars, pluginVars
  <2> QED BY <1>1, <2>1 DEF LocalInv, SetupInv
<1> QED BY <1>2, <1>3, <1>4, <1>5, <1>6, <1>7 DEF LocalNext

THEOREM LocalInvariant == LocalSpec => []LocalInv
<1>1. LocalInit => LocalInv
  BY ScriptStarts, CacheInit DEF LocalInit, LocalInv, SetupInv, ScriptInit
<1> QED BY <1>1, LocalKept, PTL DEF LocalSpec

(* A validator is launched with the whole plugin, whatever was interrupted or
   failed before, unless two runs overlapped or a copy was cut off. *)
THEOREM LaunchedPluginsAreWhole == LocalSpec => LaunchedPluginIsWhole
<1>1. ASSUME LocalInv, [LocalNext]_localVars
      PROVE  [ours' # ours =>
                content[file] = "whole" \/ overlap \/ "copying" \in cutOff]_localVars
  <2> SUFFICES ASSUME LocalNext, ours' # ours
               PROVE  content[file] = "whole" \/ overlap \/ "copying" \in cutOff
    BY <1>1
  <2>1. script = "launch"
    BY DEF LocalNext, ValidatorStep, BindPort, ClosePort, ProcessEnds, PhaseTo, LaunchForeign,
           Start, Check, Launch, RecordPid, Poll, Stop, BeginSetup, Guard, RunSetup, SetupReturns, SetupGeyser,
           InterruptAll, Interrupt, processes, scriptVars
  <2>2. PICK r \in Runs : pc[r] = "ok"
    BY <1>1, <2>1 DEF LocalInv, SetupInv
  <2> QED BY <1>1, <2>2 DEF LocalInv, CacheInv, Spoiled, ArtifactWhole
<1> QED BY <1>1, LocalInvariant, PTL DEF LocalSpec, LaunchedPluginIsWhole
=============================================================================
