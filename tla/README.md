# Verification of the transaction v1 examples

The repository shows how to send, confirm, fetch, index and decode Solana
version 1 transactions in TypeScript, Rust, Go and Python. This directory
models the parts of it that have behaviour of their own, checks them with TLC
and proves theorems about them with TLAPS.

```
tlc -config BudgetReader.cfg MCBudgetReader        # also BudgetReaderOverflow.cfg
tlc -config Indexer.cfg MCIndexer
tlc -config Demo.cfg MCDemo                        # also DemoObserved.cfg
tlc -config RpcCeiling.cfg MCRpcCeiling
tlc -config SendConfirm.cfg SendConfirm            # and likewise ConfidentialTransfer,
                                                   # Nonce, RoundTrip, WalletTable
tlc -config LocalValidator.cfg MCLocalValidator
tlapm ReaderProofs.tla                             # and every other *Proofs.tla
```

## Inventory

Everything here is a client of one validator: JSON-RPC for sending and reading,
a Yellowstone gRPC stream for indexing. The programs share no state with each
other; what interacts is each program and the cluster, and the shell scripts
and the processes they start.

| Component | State | Operations | Hard part | Correct when |
|---|---|---|---|---|
| Compute budget readers (`go/txv1/budget.go`, `rust/src/budget.rs`, `ts/kit/src/lib/budget.ts`) | loop index, four settings | scan instructions, read config, convert fee | order of settings, rounding, 64-bit limits, malformed data, four copies | every copy returns the budget the message states |
| Version discrimination and tallies (`grpc.*`, `version.*`) | counters | infer version, record | the wire does not state v1 | v1 is never counted as v0 |
| gRPC indexers (six programs) | stream position, tally, limit, exit code | subscribe, receive, stop | stream ends, breaks or is interrupted, limit boundary | nothing missed, counted twice or waited on for ever |
| Indexer demo (`scripts/demo-indexers.sh`) | background process, script position | start, sleep, send, wait | race of subscription and transaction, failing send, exit codes | a pass means the transaction was seen |
| Send and confirm (`send.*`, `rpc.py`, `get-block.rs`) | wait loop, deadline, watched blockhash | airdrop, sign, send, poll, give up | forks, expiry, lost answers, deadline against late answer | a returned slot is final, every wait ends |
| Send-decode round trip (`send-decode.*`, `estimate.ts`) | position in a list of calls | ask the gate, airdrop, send, wait, read below the ceiling, read back | waits that may not end, reads that may come too early | success means a confirmed transfer was read back |
| JSON-RPC ceiling (`get-block`, `rpc.*`, `read-transaction.ts`) | lines printed, tally | getBlock with 3 ceilings, tally | one v1 transaction blinds a caller for its block; unknown versions folded into legacy | tally of what was returned |
| Feature gate (`feature.*`) | none | read, decide | four different readings of one account | whoever passes sends to a cluster that takes v1 |
| Durable nonce (`nonce.ts`) | nonce account | set up, fetch, sign, send, read back | stale nonce, failed transaction advances it | at most once |
| Confidential transfer (`confidential*.ts`) | pending and available balances | mint, deposit, apply, transfer | stale balance, half-done setup | atomic transfer, balances conserved |
| Fee estimate and budget decoding (`estimate.ts`, `decode-budget.ts`) | none | simulate, state one budget in three encodings | a price rounded down, a fee rounded up | one budget comes back from all three |
| Wallet table (`wallets.ts`) | snapshot, subscriptions, listeners | subscribe, register, change, unregister, render | events between snapshot and subscription, listeners that leak | the table follows the registry |
| Validator script (`validator.sh`) | PID file, process | start, stop | stop does not wait, start times out or is interrupted | no validator out of reach, the one reported is the right one |
| Artifact downloads (`setup-*.sh`) | cached files | download, build, move | crash between steps, two runs at once | a cached file is complete |

`go/pb` is generated and not modelled, nor are the stateless codec and display
helpers and the `Justfile`, which only names command lines.

## Modules

| Module | What it is |
|---|---|
| `Budget` | Messages, instructions, version test, fee arithmetic: pure operators, and `BudgetOfMessage`, the budget stated without a loop. |
| `BudgetReader` | The loop, one action per kind of instruction, for all four readers (`reader`). |
| `DecodeBudget` | The three transactions `decode-budget.ts` states one budget in, to be read by `BudgetReader`. |
| `Indexer` | A gRPC indexer in any of three languages (`impl`) and of either kind (`kind`), with the plugin's stream. Uses `Budget` for versions and fees. |
| `Demo` | `run_indexer` composed with `Indexer`. |
| `Ledger` | The cluster: blockhashes that expire, transactions that land on forks. External, from what clients read of it. |
| `Submission` | The abstract specification of sending: a fate decided once, an answer that names its slot. |
| `SendConfirm` | The four clients (`lang`) composed with `Ledger`; implements `Submission`. |
| `FeatureGate` | The account of the feature gate and the four languages' reading of it. |
| `RoundTrip` | Seven examples as sequences of calls, composed with `Ledger` and `FeatureGate`. |
| `RpcCeiling` | The three version ceilings, the lines, the tally and the failures of five readers of one block or transaction. |
| `Nonce` | kit's durable-nonce example against a chain with a nonce account. |
| `Token2022` | Mint, token accounts and proof contexts, instruction by instruction. External, from what the drivers rely on. |
| `AtomicTransfer` | The abstract specification of a confidential transfer: it moves in one step or not at all. |
| `ConfidentialTransfer` | The three confidential-transfer programs (`driver`) composed with `Token2022`; implements `AtomicTransfer`. |
| `WalletTable` | `wallets.ts` and the table's rows, with the registry, wallets that emit events, and React. |
| `ArtifactCache` | Runs of `setup-geyser.sh` over one cache, at the same time and killed anywhere. |
| `ValidatorScript` | `validator.sh` among the processes it and others launch. |
| `LocalValidator` | `ValidatorScript` composed with `ArtifactCache`: a start runs a setup, others run by hand. |
| `BudgetProofs` | Lemmas about `Budget`: the fee's arithmetic, the types of what the readers compute, induction over a recursive function. |
| `LedgerProofs` | Lemmas about `Ledger`: what no step of the cluster undoes. |
| `ReaderProofs` | Theorems about `BudgetReader`, `DecodeBudget` and `RpcCeiling`. |
| `IndexerProofs` | Theorems about `Indexer` and `Demo`. |
| `SendConfirmProofs` | Theorems about `SendConfirm`, its refinement of `Submission` among them. |
| `RoundTripProofs` | Theorems about `FeatureGate`, `RoundTrip` and, for the script that starts their validator, `LocalValidator` with its two parts. |
| `ExampleProofs` | Theorems about `Nonce` and `WalletTable`. |
| `ConfidentialTransferProofs` | Theorems about `ConfidentialTransfer`, its refinement of `AtomicTransfer` among them. |
| `MC*` | Instances for TLC. |

The same program exists in several languages, so a module has one action per
operation and a variable that says which program runs; where the programs
differ, the guard or the assignment says so by name. The entries of
`PROJECT.json` "map" name, for each definition, one of the programs it stands
for. A definition whose comment begins with "Mutant:" is no part of the model:
it is a plausible mistake, kept beside the definition it would replace, and some
property fails with it in place.

### How state and actions correspond to the code

*BudgetReader.* `next` is the loop's index, `settings` its locals
(`budget.HeapSize` and so on, and `priceMicroLamportsPerCU`), `budget` what is
returned. A ComputeBudget instruction is its discriminant and operand; `Nil` is
data too short for one. Go and Rust then store nil, which undoes an earlier
setting (`Assign`); the generated TypeScript decoders throw (`Throw`). A v1
message takes `ReadConfig`, whatever its instructions say.

*DecodeBudget.* `EquivalentPrice` rounds the total down to a price; the three
`...Transaction` operators are what the example writes. It has no loop of its
own: its transactions are among the messages of `BudgetReader`.

*Indexer.* `published` is what the plugin streams, `opened` the first update on
this subscription: what was published earlier is lost. Go's `Subscribe` returns
when its request is sent, so `Connect` (the client) and `Register` (the plugin)
are separate. `HandleTransaction` and `HandleBlock` are the whole handler with
its limit test. `Interrupt` is a signal: it cancels Go's context, which the loop
looks at after `Recv` (`Cancelled` drops what `Recv` returned), and kills the
other two. `Received` is the update at hand, `Messages` the indices
of its transactions, by which tallies are counted.

*Demo.* `Wake` is the end of `sleep 4`, enabled at once: four seconds order
nothing. From then on send-decode's transaction may land (`Land`), at any time
and whatever has become of send-decode: it may return (`SendReturns`), or fail
before the transaction landed or in one of the reads it makes of it afterwards
(send-decode.rs:76-145, `SendFails`), upon which `set -e` ends the script.
`InterruptScript` is ^C; the background job of a non-interactive shell starts
with SIGINT ignored, so that whether the indexer hears it is a matter of its own
(`Interrupt`). Lines 37 and 40 of the script name `ts/src`, where the repository
has `ts/kit/src`: as it stands the two TypeScript demos exit 1, which in the
model is the indexer failing to connect; its other behaviours there are those of
the script with the path mended.

*SendConfirm.* `Poll` and the `Handle` actions are separate steps, so the fork,
the deadline and the blockhash move between a status being read and being acted
on. `Fate`, `FateSlot` and `Answer` are the refinement mapping to `Submission`.
`GiveUp` and `PollAgain` are both enabled in Go's `select` and only one of
them in Python's and Rust's loops. A call that fails may or may not have
reached the node (`RequestAirdrop`, `Send`, `Unreachable`). Who believes which
status is `ReplyFailed` and `ReplyConfirmed`. Rust waits for its airdrop with
`confirm_transaction_with_spinner` (send.rs:29, `Spinner`), which reads a status
at the processed level: it returns an error it finds there at once, and having
found none (`HandleSeen`, `seen`) waits, by a clock of its own, for the
transaction to be confirmed, without asking about errors again.

*RoundTrip.* `Calls` lists each example's calls in order; `step` is where it is,
`waiting` that the call's transaction has been sent. A wait ends in one step, on
what it ends by (`Confirmed`, `ThrowFailed`, `GiveUp`), for what happens between
two polls is `SendConfirm`'s subject; Rust's `Spinner` therefore may end by
either of its two criteria. The gate is `FeatureGate`'s, not a copy:
`AskGate` and `Gate` are its `IsV1Active` and `AssertV1Active`, and the other
examples' steps leave it alone. The account is its owner, its first byte and its
length, which is all that any of the four readings looks at.

*RpcCeiling.* `lines` are the words printed for the first two requests, whose
results are otherwise dropped. `held` says whether the node that answers next
has the block: it may not yet be confirmed there, or the endpoint may have
several nodes. `AskFails` is Python's alone, which catches only the errors the
node answers with. `legacy` is web3.js v1's `read-transaction.ts`, for which a block
is one transaction.

*Nonce.* One transaction at a time (`tx`, `status`) on a chain with a confirmed
prefix and a tip that may be dropped. The nonces are numbered as they are handed
out (`fresh`). A transfer that fails still stores the next nonce (`Result`).
`NonceMoved` is enabled while the program's own landed transaction is still
being confirmed: kit's helper watches the nonce account beside the signature and
does not always see the signature first.

*ConfidentialTransfer.* `Main` is the program as a sequence of calls; each is
read (`ReadAccounts`), built (`Build`), sent (`Submit`) and awaited
(`Proceed`, `ThrowFailed`, `GiveUp`). `packs` says what a driver does with a plan
that outgrows one message: "many" spreads it, "one" throws, "none" has no plan.
What a read returns is the confirmed chain, kit's default commitment for RPC
reads being confirmed as well. Encryption and proofs are reduced to what they
are bound to: an instruction carries the balance it was made for (`value`) and
the readable balance it leaves (`next`), both worked out from the account as it
was read.

*WalletTable.* An event and its listeners are one step, as JavaScript runs them;
a rendering and an effect come later, in steps of their own (`Render`,
`Subscribe`). `offChanges[c]` is the map in the closure of one `subscribe`.
`Unsubscribe` may come while the component stays on the page: StrictMode does
that. A wallet's features may change in any way; one without
`standard:events` changes unseen, which `TableIsCurrent`
allows for.

*ArtifactCache.* A file is a name for an inode, so a run that writes goes on
writing to what it opened after another has moved or truncated it. `cutOff`
records where runs were killed or their writes failed, `overlap` that two ran at
once.

*ValidatorScript.* `Guard` is the question to the RPC port, `Check` what follows
when it is answered, by whoever then has the port, `SetupGeyser` the minutes that
follow when it is not. `Launch` is the background launch, `RecordPid` the command
after it that writes the PID file, which may fail, and `Poll` one of the 60
questions. `Interrupt` may come between any two of them. A process has the port
or exits (`BindPort`); one that is stopping closes its port before its ledger
(`ClosePort`). `check_token_2022` compares lengths, and so does the model:
`sameLength` are the processes whose Token-2022 is as long as the released one.
setup-token-2022.sh moves its download into place, but every run of it downloads
to the same temporary name, so that two which overlap may leave a part of the
program in place, for this start or a later one: `torn`. `child` is `$!`;
`unrecorded`, `wiped` and `intruder` record what the script cannot see.

*LocalValidator.* Every step is one of the script, one of a setup run, or one of
both: a start begins a run and waits for it (`BeginSetup`, `SetupReturns`), and
the terminal's interrupt kills both (`InterruptAll`). The other runs are a
developer's `just setup-geyser` (Justfile:33). `MCLocalValidator` adds a
symmetry: the runs are interchangeable, and no property of the run is one of
liveness.

## Runs

| Run | Shows | Bounds | States |
|---|---|---|---|
| `budget_reader` | `BudgetIsLastAssignment`, `ThrowsOnlyOnMalformed`, `FeeRoundsUp`, `ReadersAgree`, `SameBudgetThreeWays` | every v0 message of up to 3 instructions out of 16, legacy and v1 with one, and `decode-budget`'s three transactions for 210 budgets; small stand-ins for the numeric constants: a lamport is 10 micro-lamports, so fees round, and 3 instructions exceed the default limit's cap | 77,595 |
| `budget_reader_overflow` | a violation: TypeScript's product is unbounded | 2 instructions | |
| `indexer` | `NothingMissedOrRepeated`, `BlockReportIsItsBlock`, `StopsAtLimit`, `LimitIsReached`, `ClosedStreamEndsIndexer` | 3 updates, limits none, 0, 1 and 2: the limit is reached on the first, a middle and the last update, and not at all; with 100 for the largest 64-bit number, one block whose fees exceed it together and one with a product that does | 259,974 |
| `demo` | `DemoTypeOK`, `PassedUnobservedNeedsClose`, `UnfinishedIndexerWasLate`, `ObservableDemoEnds` | 3 updates: before the subscription, the transaction, and after it | 62,876 |
| `demo_observed` | a violation: exit code 0 without v1 | as `demo` | |
| `send_confirm` | `SlotIsWhereItLanded`, `TransferFollowsAirdrop`, `ExpiredNeverLands`, `KeepsPromise`, `Answers` | 3 slots: each of two transactions can be dropped and land again in another slot; at most 3 blockhashes are ever fetched, so nothing else is bounded | 25,300 |
| `round_trip` | `PassedMeansActive`, `DoneMeansTransferred`, `FailsOnlyOnFault`, `Ends` | 2 slots, as waits are single steps; an account of three owners, with an Option's tags and one that is neither, empty, too short by all or one byte, exact and too long | 16,663 |
| `rpc_ceiling` | `TallyIsBlock`, `LinesTellHighestVersion`, `FailsOnlyOnDoubt` | every block of up to two transactions of versions legacy to 2: one, both or none is above each ceiling, and one is of a version to come | 2,478 |
| `nonce` | `DoneMeansPaidOnce`, `SentTransferStaysValid`, `Ends` | 2 forks left: each of two transactions dropped once, or one of them twice | 301 |
| `confidential_transfer` | `ReadableBalanceIsBalance`, `FailsOnlyOnFault`, `ImplementsAtomicTransfer`, `Ends` | the example's amounts; a message holds 1, 2 or 7 instructions: every plan is spread, some are, none is; nothing else is bounded | 3,678 |
| `wallet_table` | `OneListenerEach`, `TableIsCurrent`, `WalletIsShown` | 3 wallets: with a Solana chain, with events, with both; 2 components, which share the snapshot and not the listeners | 193,504 |
| `local_validator` | `OursCanBeStopped`, `SuccessMeansToken2022`, `LaunchedPluginIsWhole` | 3 processes: one that ends late, one of this project, one of another; 2 setup runs, which can overlap; 2 files, the temporary and the final; one poll, since which poll is answered makes no difference | 2,089,451, up to symmetry |

Deadlock is not checked: every program modelled here ends, and in
`local_validator` the bounds on processes and runs end the model.

### What the two violations show

*Fees past 64 bits.* `saturatingMul` (Go) and `saturating_mul` (Rust) stop at
2^64-1 micro-lamports before they divide; TypeScript multiplies bigints. For
such a message the three report different fees, while README.md:214 says that
the modules mirror each other. `ReadersAgree` is what holds: they agree on every
well-formed message whose product fits. The block indexers also add the fees of
a block: Go's sum wraps, Rust's saturates, TypeScript's does not end.
`BlockReportIsItsBlock` says which total each reports, and that it is the same
one while the products and the sum fit.

*A demo that passes unobserved.* demo-indexers.sh waits for an indexer "to
observe the transaction" (line 10) and looks only at its exit code. A Go or Rust
indexer whose stream is closed in good order exits 0, TypeScript's exits 1.
`PassedUnobservedNeedsClose` is what holds.

### What the properties leave open

Several properties name an exception, because the code has it:

- *A failure that may be undone.* Go and Python report `failed` from a status at
  any level, that is, from a fork which may still be left, and so does Rust of
  its airdrop; Rust's and kit's other waits ask for it to be confirmed. A timeout
  of Go or Python says nothing of the transaction's fate; Rust's and kit's
  `expired` says that one which was on no fork never lands
  (`ExpiredNeverLands`), which for Rust's airdrop depends on `funded_keypair`
  reading its blockhash after the request. `Submission` therefore promises
  nothing for an error: that a reported failure is final is nowhere claimed.
- *An airdrop that failed after all.* Rust's spinner saw its airdrop succeed on
  one fork and then only waits for it to be confirmed, on whichever.
  `TransferFollowsAirdrop` and `DoneMeansTransferred` allow for that.
- *An indexer left behind.* When send-decode fails, or someone presses ^C, the
  demo's indexer runs on. It stops by itself if the transaction landed after its
  subscription opened (`ObservableDemoEnds`), and otherwise waits for other
  traffic (`UnfinishedIndexerWasLate`).
- *An error that is dropped.* web3.js v3's `sendV1Transaction` and
  `fundedKeypair` do not look at the error `confirmTransaction` returns: its
  send-decode may end well on a transfer that failed
  (`DoneMeansTransferred`), and its confidential transfer notices at the
  balances (`ImplementsAtomicTransfer`).
- *Whose account it is.* Go and Rust look at the owner of the gate's account
  (feature.go:36 says why), TypeScript and Python do not. `PassedMeansActive`
  holds for them as long as the account is a feature's or is not there.
- *Null is not an error.* A node without the block answers null below any
  ceiling; TypeScript, Python and web3.js v1 then print "succeeded".
  `LinesTellHighestVersion` holds without a failed call or null, and in Go and
  Rust always in one direction.
- *A ledger in use.* The guard of `validator.sh` asks only whether the port
  answers. A start after one that timed out or was interrupted, or
  right after a stop, may find no answer and launch with `--reset` over a ledger
  in use; the first process is then out of the PID file's reach.
- *A PID that was not written.* Launch and record are two commands
  (validator.sh:57-64). A start that ends between them, or whose write fails,
  leaves a validator that `stop` does not find, and if the write truncated the
  file, none at all. `OursCanBeStopped` names both this and the ledger in use.
- *A length is not a program.* The check of Token-2022 compares lengths, and is
  answered by whoever has the port when it asks. `SuccessMeansToken2022` says no
  more than that, and excepts a validator of another project that came up during
  the start and a file that overlapping downloads left cut short.
- *A plugin copied in place.* A build is copied, not moved, to its name: a copy
  that is cut off, or two runs at once, may leave a file that is not whole and
  passes for one (`LaunchedPluginIsWhole`). A clone that is killed leaves half a
  source tree, which fails every later build, but launches nothing.

## Fairness

- `Indexer`: weak fairness of connecting, of the plugin's registration and of
  handling; the processes are scheduled. None of publishing, closing or
  interrupting.
- `Demo`: also of the script's steps: `sleep` ends, `send-decode` ends one way
  or another, `wait` returns.
- `SendConfirm`: weak fairness of the client, of time (`Deadline`) and of
  blockhashes ageing (`Expire`). Strong fairness of `GiveUp`: Go's `select`
  picks at random among its ready cases, and kit races its promises, so neither
  prefers the next poll for ever. None of landing, confirming or forks.
- `RoundTrip` and `ConfidentialTransfer`: weak fairness of the program's steps
  and of blockhashes ageing. None of landing, confirming or forks: every wait
  ends by the clock or by expiry.
- `Nonce`: weak fairness of the program, of ageing, and of what has landed being
  confirmed; and, for the transfer alone, of landing: a node resends a
  transaction without an expiry until it lands. Without the last the wait need
  not end, since a durable-nonce transaction that never lands gives its sender
  nothing to give up by.
- `RpcCeiling`: weak fairness of the program, which is a sequence of calls.
- `WalletTable`: weak fairness, for each component, of the effect and of the
  rendering that React has scheduled. None of wallets or mounting.
- `BudgetReader` and `LocalValidator` state no liveness.

## Proofs

Each component has an inductive invariant, and the properties follow from it.
All hold for every value of the constants that the named assumptions of the
modules admit. Every safety property of a passing run is proved.

Induction. Messages, blocks and transactions are sequences of any length, and
what the code's loops make of them are recursive functions on `0..n`. The
library's induction theorems take an operator as a parameter, which the provers
cannot instantiate; `InductionBySets` says the same of the *set* of the numbers
that have a property, and follows from the least number outside it (`LeastOf`,
from the library's `WFMin`).

**The readers** (`BudgetProofs`, `ReaderProofs`), for messages of any length:
`ReaderInv` adds to the properties `SettingsArePrefix` (while the loop runs, its
settings are those of the prefix it has scanned; without it nothing relates what
is returned to the instructions already passed) and `SettingsAreComplete`.
`SettingsAssign` and `SettingsSkip` say what one more instruction does to a
prefix's settings. The fee needs lemmas about division: that the three ways of
rounding up agree, and `PriceKeepsFee`, that rounding the price down and the fee
up cancel out for a limit of at most one lamport's worth of units. What is said
of the fee is said of products that fit 64 bits (`Fits`). Theorems:
`ReaderTypeCorrect`, `ReaderReturnsLastAssignment`, `OnlyMalformedDataThrows`,
`ReadersMirrorEachOther`, `FeesRoundUp`, `BudgetSurvivesEncodings`.

**The version ceiling** (`ReaderProofs`), for blocks of any length: `CeilingInv`.
Theorems: `TalliesAreBlocks`, `LinesTell`, `CeilingFailsOnDoubt`.

**Send and confirm** (`LedgerProofs`, `SendConfirmProofs`), for any number of
slots and of blockhashes: `ClientInv`. The properties alone are not inductive,
because a client acts on a status it read several steps earlier.
`ReplyStillHolds` says that a reply which shows a confirmed transaction still
names its slot when it is handled, `RereadConfirmed` that the transfer is
confirmed when its slot is asked for again, `PayerFunded` that past the first
wait the airdrop is confirmed, `AnswersOnce` that nothing is answered before the
end. That time cannot hurt them is the lemma `SettledStays`: no step of the
cluster undoes or moves a confirmed transaction. `VerdictInv` adds
`WatchesLifetime`, that the blockhash a client watches is no older than the one
its transaction lives by. Theorems:
`ClientTypeCorrect`, `ReturnedSlotIsFinal`, `TransferIsFunded`,
`ExpiredStaysOut`, and
`ClientsImplementSubmission`, the refinement, with one lemma for each side:
`ClientStepAnswers` (a client's step stutters, or answers with an error or with
the slot) and `ClusterStepDecides` (a cluster's step stutters, or decides the
transfer's fate).

**The indexers and the demo** (`IndexerProofs`), for every stream and limit:
`IndexerInv` counts indices of the stream, so that one more update changes each
side by one. What a block's fees come to is stated twice, as each handler adds
them up (`FeesAfter`, which wraps or saturates at every addition) and as their
sum brought into 64 bits once (`Stored`); `FeesStored` is the induction that
makes them equal, from `ModOnce` for Go, and `SumsAgree` the one that makes the
languages' sums equal where every product fits. Every step of `Demo` is a step
of the indexer or leaves it alone, so the invariant carries over and
`DemoInvariant` adds where the script is, and that the transaction, once
published, stays where it is in the stream (`PublishedStays`), so that an indexer
past it which had it delivered has counted it and stopped. Theorems: `IndexerCountsOnce`,
`IndexerStops`, `ReportsAreOfTheirBlock`, `DemoTypeCorrect`,
`PassNeedsObservationOrClose`, `UnfinishedIndexersWereLate`.

**The gate and the examples** (`RoundTripProofs`), for any owners, tags, lengths
and slots: first of the gate alone, `GateInv`: an account that was read as active
stays as it was read (`PassedGateIsActive`, `LanguagesAgree`). Then
`ExamplesAskTheGate`: each example implements the gate's specification, so that
`ExamplesPassAnActiveGate` follows. `ExampleInv` says what an example has behind
it: every transaction among its past calls is paid for and confirmed. Theorems:
`ExampleTypeCorrect`, `ExampleReadsItsTransfer`, `ExampleFailsOnFault`.

**The validator script and its cache** (`RoundTripProofs`), for any number of
processes, polls, setup runs and files (`ValidatorAssumption`,
`LocalAssumption`). The script's part is `ScriptInv`: beside `OursCanBeStopped` it
needs `GuardHolds`, that from the guard's question to the last poll whatever
answers has a Token-2022 of the right length or came up meanwhile, and
`ChildHolds`, what is known of a validator between its launch and the writing of
its PID. The cache's part, `CacheInv`, is
stated of a cache that was not spoiled by two runs at once or by a copy cut off:
`OneRun`, that a run writes to a file of its own, and `ArtifactWhole`, that what
has the name, or is about to take it, is whole. `SetupInv` ties them together: a
script that is about to launch has waited for a run that ended well. Theorems:
`OursStoppableOnceRecorded`, `SucceedingMeansToken2022`,
`LaunchedPluginsAreWhole`.

**The durable nonce** (`ExampleProofs`), for any number of forks: `NonceInv`
relates the tip to the confirmed chain by the status of the one transaction in
flight, and the program's place to what it has behind it. Theorems:
`NonceTypeCorrect`, `SuccessPaidOnce`, `TransferStaysValid`, `MovedByTheTransfer`,
`ChecksHold`, `SendsOneAtATime`.

**The wallet table** (`ExampleProofs`), for any sets of wallets and components:
`TableInv`. `OneListenerEach` needs `OffChangesFollowRegistry`, since a refresh
finds what is gone and what is new by the off functions it holds;
`TableIsCurrent` needs the listeners, since a wallet's change reaches only the
components that listen. Theorems: `WalletTableTypeCorrect`,
`SnapshotFollowsRegistry`, `NoListenerLeaks`, `TablesAreCurrent`.

**The confidential transfer** (`ConfidentialTransferProofs`), for every balance,
every amount up to it, and every message capacity (`TransferAssumption`):
`TransferInv`. A program's work is counted in units, one for each instruction of
its plans, the seven of the transfer being one. `AtUnit(s, k, faultless)` says
what the chain `s` holds after `k` units. A run without a fault is at exactly
that unit; after a fault it may have fallen behind, because web3.js v3 drops
errors and goes on, and all that is known is that the books balance. The
invariant says at which unit the confirmed chain is for each place of the
program (`AtStart`, `AtSend`, `AtAwait`), how far the transaction in flight may
be ahead of it (`Tip`), and that no two are in flight (`InFlight`). `Fresh` is
the reason no plan is stale: the accounts it was built from are still as they
were read. Running a message is an induction over its instructions. Theorems:
`TransferInvariant`, `ReadableBalances`, `RunsFailOnlyOnFault`, and
`TransferIsAtomic`, the refinement: the abstract transfer is one entry in the
books, and a landed transaction makes one entry at most (`OneEntry`).

The type invariants of `BudgetReader`, `SendConfirm`, `RoundTrip`, `Nonce` and
`WalletTable` are proved, so no run repeats them.

### Model-checked only

Liveness, which is out of the prover's reach: `LimitIsReached`,
`ClosedStreamEndsIndexer`, `ObservableDemoEnds`, `Answers`, `Ends` (three
modules) and `WalletIsShown`. For the two violations a counterexample is all
there is to show.

## Not modelled

- Formatting, logging, base58 and base64, flags and environment variables but
  for the limit; the widths of operands (a decoded operand is a number).
- The codecs, key derivation, encryption and proofs, which are the libraries';
  that a decoded config equals the one sent, which is their round trip.
- The libraries' confirmation helpers beyond what the calls rely on: they
  believe nothing below "confirmed" and give up when the blockhash expires.
- Nodes that lag behind each other behind one RPC endpoint, but in `RpcCeiling`:
  the examples run against a local validator.
- `validator.sh` invoked twice at the same time, a process ID that is used
  again, and an RPC call of the script that fails although a validator has the
  port.
- `gen-go-proto.sh`, a developer's one-off regeneration of `go/pb`; `go/pb`
  itself, which is generated; the `Justfile`.
- Transactions in a block have passed the runtime, so `Indexer` does not include
  the malformed data on which a TypeScript reader throws; `BudgetReader` does.
- The amounts an estimate comes to: `RoundTrip` has its calls, not its units.

## Plan

What is modelled covers every program of the repository, and every safety
property of a run is proved. What could be added:

1. Two starts of the validator script at once, and a PID that is used again.
2. The type of each remaining component (`ConfidentialTransfer`, `RpcCeiling`,
   `LocalValidator`), which their inductive invariants contain, as theorems of
   their own.
