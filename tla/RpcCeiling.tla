----------------------------- MODULE RpcCeiling -----------------------------
(***************************************************************************)
(* Reading versioned transactions over JSON-RPC: get-block in TypeScript,  *)
(* Python, Go and Rust, and read-transaction of ts/web3js-legacy.          *)
(*                                                                         *)
(* Each program makes one request three times, with                        *)
(* maxSupportedTransactionVersion omitted, 0 and 1, says of the first two  *)
(* whether they were refused, and tallies what the third returns.  The     *)
(* node refuses a whole block for one transaction above the ceiling, and   *)
(* answers null while it does not hold the block.                          *)
(***************************************************************************)
EXTENDS Integers, Sequences, FiniteSetsExt

CONSTANT Blocks   \* blocks, each the sequence of its transactions' versions

Legacy == -1

ASSUME CeilingAssumption == \A b \in Blocks : b \in Seq(Legacy..2)

Impls == {"ts", "python", "go", "rust", "legacy"}
Buckets == {"legacy", "v0", "v1", "none"}

VARIABLES
  impl,    \* the program; it never changes
  block,   \* what it reads: a block, or for "legacy" one transaction
  held,    \* the node that will answer next holds the block
  pc,      \* "send", "ask" or "done"
  lines,   \* what the program has said of the first two requests
  doubt,   \* a call has failed, or was answered with null
  tally,   \* its count of versions
  result   \* "none", "ok" or "error"

ceilingVars == <<impl, block, held, pc, lines, doubt, tally, result>>

Readable(p) == {b \in Blocks : p = "legacy" => Len(b) = 1}

(* A program starts from the slot or the signature of its argument, or sends a
   v1 transfer first. *)
CeilingInit ==
  /\ impl \in Impls
  /\ block \in Readable(impl)
  /\ held \in BOOLEAN
  /\ pc \in {"send", "ask"}
  /\ lines = <<>>
  /\ doubt = FALSE
  /\ tally = [b \in Buckets |-> 0]
  /\ result = "none"

(* Without an argument a program sends a v1 transfer (SendConfirm) and reads the
   block it landed in. *)
SendV1Transfer ==
  /\ pc = "send"
  /\ \/ /\ block' \in {b \in Readable(impl) : \E i \in DOMAIN b : b[i] = 1}
        /\ pc' = "ask"
        /\ UNCHANGED <<doubt, result>>
     \/ pc' = "done" /\ result' = "error" /\ doubt' = TRUE /\ UNCHANGED block
  /\ UNCHANGED <<impl, held, lines, tally>>

(* Mutant: the last request accepts any version. *)
CeilingsAny == <<Legacy, 0, 255>>

(* Mutant: the last request keeps the ceiling of the one before. *)
CeilingsKept == <<Legacy, 0, 0>>

(* An omitted ceiling is one at legacy. *)
Ceilings == <<Legacy, 0, 1>>

Within(b, ceiling) == \A i \in DOMAIN b : b[i] <= ceiling

(* The node's answer to a request; a call may also fail before it gets there. *)
Answers(ceiling) ==
  {"error", IF ~held THEN "null" ELSE IF Within(block, ceiling) THEN "block" ELSE "rejected"}

(* Mutant: Go and Rust print "succeeded" for null as well. *)
SaysSucceededAlways(answer) == answer \in {"block", "null"}

(* TypeScript and Python print "succeeded" unless the call threw, and null does
   not throw.  The libraries of Go and Rust make an error of null. *)
SaysSucceeded(answer) ==
  answer = "block" \/ (answer = "null" /\ impl \in {"ts", "python", "legacy"})

Asking == Len(lines) + 1

(* The requests with the ceiling omitted and at 0: only whether they succeed is
   looked at. *)
Ask ==
  /\ pc = "ask" /\ Asking <= 2
  /\ \E answer \in Answers(Ceilings[Asking]) :
       /\ lines' = Append(lines, IF SaysSucceeded(answer) THEN "succeeded" ELSE "refused")
       /\ doubt' = (doubt \/ answer \in {"error", "null"})
  /\ UNCHANGED <<impl, block, held, pc, tally, result>>

(* Python catches only what the node answers: a call that fails on the way ends
   its program there. *)
AskFails ==
  /\ pc = "ask" /\ Asking <= 2 /\ impl = "python"
  /\ pc' = "done" /\ result' = "error" /\ doubt' = TRUE
  /\ UNCHANGED <<impl, block, held, lines, tally>>

(* Where a transaction is counted.  Go and Rust warn of an unknown version and
   leave it out; TypeScript and Python count it as legacy. *)
BucketOf(version) ==
  CASE version = 1 -> "v1"
    [] version = 0 -> "v0"
    [] version = Legacy -> "legacy"
    [] OTHER -> IF impl \in {"go", "rust"} THEN "none" ELSE "legacy"

Count(b, bucket) == Cardinality({i \in DOMAIN b : BucketOf(b[i]) = bucket})

(* The request with ceiling 1: an error or null ends the program. *)
Read ==
  /\ pc = "ask" /\ Asking = 3
  /\ \E answer \in Answers(Ceilings[3]) :
       /\ IF answer = "block"
          THEN result' = "ok" /\ tally' = [b \in Buckets |-> Count(block, b)]
          ELSE result' = "error" /\ UNCHANGED tally
       /\ doubt' = (doubt \/ answer \in {"error", "null"})
  /\ pc' = "done"
  /\ UNCHANGED <<impl, block, held, lines>>

(* The block gets confirmed, or another node of the endpoint answers next. *)
NodeChanges ==
  /\ pc = "ask"
  /\ held' = ~held
  /\ UNCHANGED <<impl, block, pc, lines, doubt, tally, result>>

CeilingNext == SendV1Transfer \/ Ask \/ AskFails \/ Read \/ NodeChanges

CeilingSpec == CeilingInit /\ [][CeilingNext]_ceilingVars /\ WF_ceilingVars(SendV1Transfer \/ Ask \/ Read)
-----------------------------------------------------------------------------
(* A tally counts every transaction of the block under its own version: with the
   ceiling it asks for, no program ever meets a version it does not know, so the
   programs that would count it as legacy and those that would leave it out
   agree. *)
TallyIsBlock ==
  result = "ok" =>
    \A b \in Buckets :
      tally[b] = Cardinality({i \in DOMAIN block :
                   block[i] = [legacy |-> Legacy, v0 |-> 0, v1 |-> 1, none |-> 2][b]})

(* The first two lines tell the block's highest version, for one v1 transaction
   makes the whole block unreadable below the ceiling of 1, unless a call went
   wrong.  Even then Go and Rust never say that a block holds nothing above a
   ceiling when it does; TypeScript and Python do, when the answer was null. *)
LinesTellHighestVersion ==
  \A i \in DOMAIN lines :
    LET within == Within(block, <<Legacy, 0>>[i])
    IN /\ ~doubt => (lines[i] = "succeeded" <=> within)
       /\ impl \in {"go", "rust"} => (lines[i] = "succeeded" => within)

(* A program fails only on a failed call, on null, or on a version above 1. *)
FailsOnlyOnDoubt == result = "error" => doubt \/ ~Within(block, 1)
=============================================================================
