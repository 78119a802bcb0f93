------------------------------ MODULE Indexer ------------------------------
(***************************************************************************)
(* A Yellowstone gRPC indexer: grpc-tx-indexer and grpc-block-indexer in   *)
(* Go, Rust and TypeScript.                                                *)
(*                                                                         *)
(* The indexer opens a subscription and handles the updates the geyser     *)
(* plugin streams, in the order they were published.  It stops at its      *)
(* limit of v1 transactions (or of blocks that hold one), when the stream  *)
(* ends or fails, or on a signal.                                          *)
(***************************************************************************)
EXTENDS Budget

CONSTANTS
  Updates,       \* the updates the plugin may publish
  Limits,        \* the limits an indexer may be started with
  MaxPublished   \* bound on the updates published

Impls == {"go", "rust", "ts"}
Kinds == {"transaction", "block"}

(* One update: its messages, Nil for a transaction without one.  A
   transaction update has one message; "ping" has neither. *)
Update == [kind : Kinds \cup {"ping"}, messages : Seq(Optional(Message))]

(* A v1 message has a config, though nothing may be set in it.  The fees of a
   block were paid from a supply that fits 64 bits, so their sum does too. *)
ASSUME IndexerAssumption ==
  /\ Updates \subseteq Update
  /\ \A u \in Updates : \A k \in DOMAIN u.messages :
       u.messages[k] # Nil /\ u.messages[k].version = "v1" => u.messages[k].config # Nil
  /\ \A u \in Updates : u.kind = "transaction" => Len(u.messages) = 1
  /\ Limits \subseteq Optional(Nat)
  /\ MaxPublished \in Nat

VARIABLES
  impl,          \* the language the indexer is written in; it never changes
  kind,          \* what it subscribes to; it never changes
  limit,         \* its limit; Nil when Rust was given none; it never changes
  published,     \* what the plugin has published, in order
  opened,        \* the first update on the subscription; 0 until the plugin has it
  stream,        \* "open", "ended" or "failed"
  position,      \* the update the indexer receives next
  pc,            \* "connecting", "running" or "exited"
  exitCode,      \* its exit code; Nil while it runs
  interrupted,   \* a signal was sent to it
  tally,         \* its count of versions: of all transactions, or of the last block
  fees,          \* the priority fees of the last block
  blocksWithV1   \* the blocks with a v1 transaction it has seen

config == <<impl, kind, limit>>
plugin == <<published, opened, stream>>
counts == <<tally, fees, blocksWithV1>>
vars == <<config, plugin, position, pc, exitCode, interrupted, counts>>

NoTally == [version \in Versions |-> 0]

Init ==
  /\ impl \in Impls
  /\ kind \in Kinds
  /\ limit \in Limits
  /\ limit = Nil => impl = "rust"
  /\ published = <<>>
  /\ opened = 0
  /\ stream = "open"
  /\ position = 0
  /\ pc = "connecting"
  /\ exitCode = Nil
  /\ interrupted = FALSE
  /\ tally = NoTally
  /\ fees = 0
  /\ blocksWithV1 = 0
-----------------------------------------------------------------------------
(***************************************************************************)
(* The plugin and the terminal.                                            *)
(***************************************************************************)
Publish(update) ==
  /\ stream = "open"
  /\ Len(published) < MaxPublished
  /\ update.kind \in {kind, "ping"}
  /\ published' = Append(published, update)
  /\ UNCHANGED <<config, opened, stream, position, pc, exitCode, interrupted, counts>>

(* The plugin registers the subscription; what it published before is gone. *)
Register ==
  /\ stream = "open"
  /\ pc = "running"
  /\ opened = 0
  /\ opened' = Len(published) + 1
  /\ position' = Len(published) + 1
  /\ UNCHANGED <<config, published, stream, pc, exitCode, interrupted, counts>>

(* The stream is closed in good order, or breaks. *)
CloseStream ==
  /\ stream = "open"
  /\ stream' \in {"ended", "failed"}
  /\ UNCHANGED <<config, published, opened, position, pc, exitCode, interrupted, counts>>

(* Go turns the signal into a cancelled context; it kills the other two. *)
Interrupt ==
  /\ pc # "exited"
  /\ ~interrupted
  /\ interrupted' = TRUE
  /\ IF impl = "go"
     THEN UNCHANGED <<pc, exitCode>>
     ELSE pc' = "exited" /\ exitCode' = 130
  /\ UNCHANGED <<config, plugin, position, counts>>
-----------------------------------------------------------------------------
(***************************************************************************)
(* The indexer.                                                            *)
(***************************************************************************)
Exit(code) ==
  /\ pc' = "exited"
  /\ exitCode' = code

Stay == UNCHANGED <<pc, exitCode>>

Connect ==
  /\ pc = "connecting"
  /\ \/ stream = "open" /\ pc' = "running" /\ UNCHANGED exitCode
     \/ stream # "open" /\ Exit(1)
     \/ interrupted /\ Exit(1)
  /\ UNCHANGED <<config, plugin, position, interrupted, counts>>

(* Mutant: the limit is one too many. *)
LimitReachedLate(count) ==
  /\ limit # Nil
  /\ impl = "rust" \/ limit > 0
  /\ count > limit

(* Go and TypeScript read 0 as no limit; Rust has None for that. *)
LimitReached(count) ==
  /\ limit # Nil
  /\ impl = "rust" \/ limit > 0
  /\ count >= limit

(* The indexer handles the next update.  Go asks for a cancelled context
   before it looks at what Recv returned. *)
Receiving ==
  /\ pc = "running"
  /\ opened # 0
  /\ position <= Len(published)
  /\ ~(impl = "go" /\ interrupted)

(* The next update. *)
Received == published[position]

(* The transactions of the next update that hold a message. *)
Messages ==
  IF Received.kind = kind
  THEN {k \in DOMAIN Received.messages : Received.messages[k] # Nil}
  ELSE {}

VersionOf(k) == MessageVersionOf(GrpcMessage(Received.messages[k]))

VersionsOf(messages) ==
  [version \in Versions |-> Cardinality({k \in messages : VersionOf(k) = version})]

(* Mutant: an update without a message stops being skipped over. *)
SkipStuck ==
  /\ Receiving
  /\ \/ Received.kind # kind
     \/ kind = "transaction" /\ Messages = {}
  /\ UNCHANGED vars

(* Mutant: a skipped update takes the next one with it. *)
SkipUpdateTwice ==
  /\ Receiving
  /\ \/ Received.kind # kind
     \/ kind = "transaction" /\ Messages = {}
  /\ position' = position + 2
  /\ Stay
  /\ UNCHANGED <<config, plugin, interrupted, counts>>

(* A ping, or a transaction without a message. *)
SkipUpdate ==
  /\ Receiving
  /\ \/ Received.kind # kind
     \/ kind = "transaction" /\ Messages = {}
  /\ position' = position + 1
  /\ Stay
  /\ UNCHANGED <<config, plugin, interrupted, counts>>

HandleTransaction ==
  /\ Receiving
  /\ kind = "transaction"
  /\ Messages # {}
  /\ LET version == VersionOf(1)
     IN /\ tally' = [tally EXCEPT ![version] = @ + 1]
        /\ IF version = "v1" /\ LimitReached(tally'["v1"]) THEN Exit(0) ELSE Stay
  /\ position' = position + 1
  /\ UNCHANGED <<config, plugin, interrupted, fees, blocksWithV1>>

(* Adding up fees: Go wraps, Rust saturates, TypeScript has no bound. *)
Plus(a, b) ==
  CASE impl = "go" -> (a + b) % (MaxU64 + 1)
    [] impl = "rust" -> Min({a + b, MaxU64})
    [] impl = "ts" -> a + b

(* The budget reader the indexer calls. *)
ReaderOf(language) == IF language = "ts" THEN "tsGrpc" ELSE language

PriorityFee(language, m) ==
  LET fee == BudgetOfMessage(ReaderOf(language), m).priorityFee
  IN IF fee = Nil THEN 0 ELSE fee

AddFee(sum, m) == IF m = Nil THEN sum ELSE Plus(sum, PriorityFee(impl, m))

(* What a block's fees add up to after each of its first messages. *)
FeesAfter(messages) ==
  LET fee[n \in 0..Len(messages)] ==
        IF n = 0 THEN 0 ELSE AddFee(fee[n - 1], messages[n])
  IN fee

(* Mutant: the block's tally starts from the one before. *)
HandleBlockKeepTally ==
  /\ Receiving
  /\ kind = "block"
  /\ Received.kind = "block"
  /\ tally' = [version \in Versions |-> tally[version] + VersionsOf(Messages)[version]]
  /\ fees' = FeesAfter(Received.messages)[Len(Received.messages)]
  /\ blocksWithV1' = IF tally'["v1"] > 0 THEN blocksWithV1 + 1 ELSE blocksWithV1
  /\ IF tally'["v1"] > 0 /\ LimitReached(blocksWithV1') THEN Exit(0) ELSE Stay
  /\ position' = position + 1
  /\ UNCHANGED <<config, plugin, interrupted>>

HandleBlock ==
  /\ Receiving
  /\ kind = "block"
  /\ Received.kind = "block"
  /\ tally' = VersionsOf(Messages)
  /\ fees' = FeesAfter(Received.messages)[Len(Received.messages)]
  /\ blocksWithV1' = IF tally'["v1"] > 0 THEN blocksWithV1 + 1 ELSE blocksWithV1
  /\ IF tally'["v1"] > 0 /\ LimitReached(blocksWithV1') THEN Exit(0) ELSE Stay
  /\ position' = position + 1
  /\ UNCHANGED <<config, plugin, interrupted>>

(* The stream ended and everything on it was received: a clean exit in Go and
   Rust, an error in TypeScript. *)
StreamEnds ==
  /\ pc = "running"
  /\ stream = "ended"
  /\ opened = 0 \/ position > Len(published)
  /\ Exit(IF impl = "ts" THEN 1 ELSE 0)
  /\ UNCHANGED <<config, plugin, position, interrupted, counts>>

(* Mutant: a broken stream is waited on. *)
StreamFailsUnseen ==
  /\ pc = "running"
  /\ stream = "failed"
  /\ UNCHANGED vars

(* The stream broke; what it had not delivered is lost. *)
StreamFails ==
  /\ pc = "running"
  /\ stream = "failed"
  /\ ~(impl = "go" /\ interrupted)
  /\ Exit(1)
  /\ UNCHANGED <<config, plugin, position, interrupted, counts>>

(* Recv returns to a cancelled context; an update it returned is dropped. *)
Cancelled ==
  /\ pc = "running"
  /\ impl = "go"
  /\ interrupted
  /\ Exit(0)
  /\ UNCHANGED <<config, plugin, position, interrupted, counts>>

Handle ==
  \/ SkipUpdate
  \/ HandleTransaction
  \/ HandleBlock
  \/ StreamEnds
  \/ StreamFails
  \/ Cancelled

Next ==
  \/ \E update \in Updates : Publish(update)
  \/ Register
  \/ CloseStream
  \/ Interrupt
  \/ Connect
  \/ Handle

Spec == Init /\ [][Next]_vars

(* The processes are scheduled; nothing is assumed of the network or of the
   person at the terminal. *)
Fairness == WF_vars(Connect) /\ WF_vars(Register) /\ WF_vars(Handle)

FairSpec == Spec /\ Fairness
-----------------------------------------------------------------------------
TypeOK ==
  /\ impl \in Impls
  /\ kind \in Kinds
  /\ limit \in Optional(Nat)
  /\ published \in Seq(Updates)
  /\ opened \in 0..(Len(published) + 1)
  /\ stream \in {"open", "ended", "failed"}
  /\ position \in opened..(Len(published) + 1)
  /\ pc \in {"connecting", "running", "exited"}
  /\ exitCode \in {0, 1, 130, Nil}
  /\ interrupted \in BOOLEAN
  /\ tally \in [Versions -> Nat]
  /\ fees \in Nat
  /\ blocksWithV1 \in Nat

(* What the sender of a message compiled, read off update i. *)
HasVersion(i, version) ==
  /\ published[i].kind = kind
  /\ \E k \in 1..Len(published[i].messages) :
       /\ published[i].messages[k] # Nil
       /\ published[i].messages[k].version = version

(* The updates of the subscription that hold a message of this version. *)
Delivered(version) ==
  IF opened = 0 THEN {} ELSE {i \in opened..(position - 1) : HasVersion(i, version)}

(* What the limit counts. *)
V1Seen == IF kind = "transaction" THEN tally["v1"] ELSE blocksWithV1

(* Between the opening of the subscription and the update it stands at, the
   indexer has counted every transaction (or block with v1) once, under the
   version its sender compiled, although the wire does not state it. *)
NothingMissedOrRepeated ==
  /\ V1Seen = Cardinality(Delivered("v1"))
  /\ kind = "transaction" =>
       \A version \in Versions : tally[version] = Cardinality(Delivered(version))

(* The blocks of the subscription it has handled. *)
BlocksHandled ==
  IF opened = 0 THEN {} ELSE {i \in opened..(position - 1) : published[i].kind = "block"}

(* The fees of the first messages of a block as a reader states them, added up
   without a bound. *)
FeeSums(language, messages) ==
  LET sum[n \in 0..Len(messages)] ==
        IF n = 0 THEN 0
        ELSE sum[n - 1] + (IF messages[n] = Nil THEN 0 ELSE PriorityFee(language, messages[n]))
  IN sum

(* What becomes of a sum in 64 bits. *)
Stored(language, sum) ==
  CASE language = "go" -> sum % (MaxU64 + 1)
    [] language = "rust" -> IF sum > MaxU64 THEN MaxU64 ELSE sum
    [] language = "ts" -> sum

(* The line is about these messages and no others: it has the versions their
   senders compiled, and the sum of their fees as its language states and
   stores it.  That is the same in every language while each product of limit
   and price, and the sum, fit 64 bits. *)
ReportsOn(messages) ==
  LET present == {k \in 1..Len(messages) : messages[k] # Nil}
      sum(language) == FeeSums(language, messages)[Len(messages)]
  IN /\ \A version \in Versions :
          tally[version] = Cardinality({k \in present : messages[k].version = version})
     /\ fees = Stored(impl, sum(impl))
     /\ (\A k \in present : Fits(messages[k])) /\ sum("ts") <= MaxU64 =>
          \A language \in Impls : fees = sum(language)

(* The line for the last block counts that block alone. *)
BlockReportIsItsBlock ==
  kind = "block" /\ BlocksHandled # {} =>
    ReportsOn(published[Max(BlocksHandled)].messages)

(* An indexer with a limit never runs past it, and one that exits with
   success before the stream ended or a signal came has reached it exactly. *)
StopsAtLimit ==
  LET stopAt == IF limit = 0 THEN 1 ELSE limit
      unlimited == limit = Nil \/ (limit = 0 /\ impl # "rust")
  IN /\ ~unlimited => V1Seen <= stopAt
     /\ ~unlimited /\ pc = "running" => V1Seen < stopAt
     /\ exitCode = 0 /\ stream # "ended" /\ ~interrupted =>
          ~unlimited /\ V1Seen = stopAt

(* Once the subscription holds enough v1 for a limit of one, or the stream
   closes, an indexer with that limit exits. *)
LimitIsReached ==
  (limit = 1 /\ opened # 0 /\ \E i \in opened..Len(published) : HasVersion(i, "v1"))
    ~> (pc = "exited")

(* No indexer outlives its stream. *)
ClosedStreamEndsIndexer == (stream # "open") ~> (pc = "exited")
=============================================================================
