------------------------- MODULE SendConfirmProofs -------------------------
(***************************************************************************)
(* Proofs about SendConfirm, for every number of slots: its types, that a  *)
(* returned slot is final, that a transfer is paid for, and that the       *)
(* clients implement Submission.                                           *)
(***************************************************************************)
EXTENDS SendConfirm, LedgerProofs

(***************************************************************************)
(* The inductive invariant.  Beside the properties it says what a client   *)
(* knows at each place: a reply it has in hand, though old, tells the slot *)
(* of a transaction that was confirmed when it was read.                   *)
(***************************************************************************)
ReplyStillHolds ==
  pc = "handle" /\ ReplyConfirmed =>
    /\ Settled(tx)
    /\ Succeeded(tx) \/ (Spinner /\ seen)
    /\ status[tx].slot = reply.slot

PayerFunded ==
  pc \in {"blockhash", "send", "reread"} \/ tx = "transfer" \/ lifetime["transfer"] # 0
    => Settled("airdrop") /\ (Succeeded("airdrop") \/ (lang = "rust" /\ seen))

RereadConfirmed == pc = "reread" => Settled("transfer") /\ Succeeded("transfer")

AnswersOnce ==
  /\ pc # "done" => outcome = "none"
  /\ outcome # "ok" => slot = Nil

ClientInv ==
  /\ TypeOK
  /\ ReplyStillHolds
  /\ PayerFunded
  /\ RereadConfirmed
  /\ AnswersOnce
  /\ SlotIsWhereItLanded

LEMMA ClientInit == Init => ClientInv
<1> SUFFICES ASSUME Init PROVE ClientInv
  OBVIOUS
<1> USE DEF Init, LedgerInit
<1>1. LedgerTypeOK
  BY DEF LedgerTypeOK
<1>2. TypeOK
  <2>1. watch \in 0..fetched
    OBVIOUS
  <2>2. tx \in Txs
    BY DEF Txs
  <2>3. reply \in Status \cup {Nil, RpcError} /\ slot \in Slots \cup {Nil}
    OBVIOUS
  <2>4. QED
    BY <1>1, <2>1, <2>2, <2>3 DEF TypeOK
<1>3. lifetime["transfer"] = 0
  BY DEF Txs
<1>4. QED
  BY <1>2, <1>3 DEF ClientInv, ReplyStillHolds, PayerFunded, RereadConfirmed, AnswersOnce,
                    SlotIsWhereItLanded

(* A step of the cluster keeps the invariant. *)
LEMMA ClusterStep ==
  ASSUME ClientInv, LedgerNext, UNCHANGED client
  PROVE  ClientInv'
<1> USE DEF ClientInv
<1>1. LedgerTypeOK
  BY DEF TypeOK
<1>2. /\ lang' = lang /\ pc' = pc /\ tx' = tx /\ watch' = watch /\ late' = late /\ seen' = seen
      /\ reply' = reply /\ outcome' = outcome /\ slot' = slot
  BY DEF client
<1>3. TypeOK'
  BY <1>1, <1>2, LedgerType DEF TypeOK
<1>4. ASSUME NEW t \in Txs, Settled(t)
      PROVE  Settled(t)' /\ status'[t].slot = status[t].slot
             /\ (Succeeded(t) => Succeeded(t)')
  BY <1>1, <1>4, SettledStays DEF Fixed, Settled, Succeeded
<1>5. tx \in Txs /\ "airdrop" \in Txs /\ "transfer" \in Txs
  BY DEF TypeOK, Txs
<1>6. ReplyStillHolds'
  BY <1>2, <1>4, <1>5 DEF ReplyStillHolds, ReplyConfirmed, Answered, Spinner, Settled
<1>7. PayerFunded'
  BY <1>1, <1>2, <1>4, <1>5, LedgerType DEF PayerFunded
<1>8. RereadConfirmed'
  BY <1>2, <1>4, <1>5 DEF RereadConfirmed
<1>9. AnswersOnce'
  BY <1>2 DEF AnswersOnce
<1>10. SlotIsWhereItLanded'
  BY <1>2, <1>4, <1>5 DEF SlotIsWhereItLanded
<1>11. QED
  BY <1>3, <1>6, <1>7, <1>8, <1>9, <1>10
-----------------------------------------------------------------------------
(***************************************************************************)
(* The client's own steps.                                                 *)
(***************************************************************************)
(* A step that ends the program without a slot keeps the invariant. *)
LEMMA EndKeepsInv ==
  ASSUME ClientInv, LedgerTypeOK', PayerFunded',
         status' = status,
         fetched <= fetched',
         pc' = "done", outcome' \in {"failed", "expired", "unknown"},
         pc # "done",
         UNCHANGED <<lang, tx, watch, late, seen, reply, slot>>
  PROVE  ClientInv'
<1>1. TypeOK'
  BY DEF ClientInv, TypeOK, LedgerTypeOK
<1>2. AnswersOnce'
  BY DEF ClientInv, AnswersOnce
<1>3. QED
  BY <1>1, <1>2 DEF ClientInv, ReplyStillHolds, RereadConfirmed, SlotIsWhereItLanded

(* A step that ends the program as the invariant's lemma asks, on an
   unchanged cluster. *)
LEMMA EndOnSameLedger ==
  ASSUME ClientInv, UNCHANGED ledger,
         pc' = "done", outcome' \in {"failed", "expired", "unknown"},
         pc # "done",
         UNCHANGED <<lang, tx, watch, late, seen, reply, slot>>
  PROVE  ClientInv'
<1>1. LedgerTypeOK' /\ status' = status /\ fetched <= fetched'
  BY DEF ClientInv, TypeOK, LedgerTypeOK, ledger
<1>2. PayerFunded'
  BY DEF ClientInv, PayerFunded, Settled, Succeeded, ledger
<1>3. QED
  BY <1>1, <1>2, EndKeepsInv

LEMMA RequestAirdropStep == ASSUME ClientInv, RequestAirdrop PROVE ClientInv'
<1> USE DEF ClientInv, RequestAirdrop
<1>1. LedgerTypeOK' /\ fetched <= fetched' /\ status' = status
  BY DEF TypeOK, LedgerTypeOK, Txs
<1>2. lifetime'["transfer"] = lifetime["transfer"]
  BY DEF TypeOK, LedgerTypeOK, Txs
<1>3. CASE pc' \in {"watch", "poll"} /\ UNCHANGED <<lang, tx, watch, late, seen, reply, outcome, slot>>
  <2>1. TypeOK'
    BY <1>1, <1>3 DEF TypeOK, LedgerTypeOK
  <2>2. PayerFunded'
    BY <1>1, <1>2, <1>3 DEF PayerFunded, Settled, Succeeded
  <2>3. QED
    BY <1>1, <1>3, <2>1, <2>2
       DEF ReplyStillHolds, RereadConfirmed, AnswersOnce, SlotIsWhereItLanded, Settled, Succeeded
<1>4. CASE CallFails("request")
  <2>1. PayerFunded'
    BY <1>1, <1>2, <1>4 DEF PayerFunded, Settled, Succeeded, CallFails, Finish
  <2>2. QED
    BY <1>1, <1>4, <2>1, EndKeepsInv DEF CallFails, Finish
<1>5. QED
  BY <1>3, <1>4

LEMMA FetchBlockhashStep == ASSUME ClientInv, FetchBlockhash PROVE ClientInv'
<1> USE DEF ClientInv, FetchBlockhash
<1>1. TypeOK'
  BY DEF TypeOK, LedgerTypeOK
<1>2. QED
  BY <1>1 DEF ReplyStillHolds, PayerFunded, RereadConfirmed, AnswersOnce,
              SlotIsWhereItLanded, Settled, Succeeded

LEMMA SendStep == ASSUME ClientInv, Send PROVE ClientInv'
<1> USE DEF ClientInv, Send
<1>1. LedgerTypeOK' /\ fetched <= fetched' /\ status' = status
  <2>1. lifetime' \in [Txs -> 0..fetched]
    BY DEF TypeOK, LedgerTypeOK
  <2>2. fetched' = fetched /\ expired' = expired /\ status' = status /\ fetched \in Nat
    BY DEF TypeOK, LedgerTypeOK
  <2>3. QED
    BY <2>1, <2>2 DEF TypeOK, LedgerTypeOK
<1>2. PayerFunded'
  <2>1. lang' = lang /\ seen' = seen
    BY DEF CallFails
  <2>2. QED
    BY <1>1, <2>1 DEF PayerFunded, Settled, Succeeded
<1>3. CASE pc' = "poll" /\ tx' = "transfer" /\ late' = FALSE
           /\ UNCHANGED <<lang, watch, seen, reply, outcome, slot>>
  <2>1. TypeOK'
    BY <1>1, <1>3 DEF TypeOK, LedgerTypeOK, Txs
  <2>2. QED
    BY <1>1, <1>2, <1>3, <2>1
       DEF ReplyStillHolds, RereadConfirmed, AnswersOnce, SlotIsWhereItLanded, Settled, Succeeded
<1>4. CASE CallFails("send")
  BY <1>1, <1>2, <1>4, EndKeepsInv DEF CallFails, Finish
<1>5. QED
  BY <1>3, <1>4

LEMMA UnreachableStep == ASSUME ClientInv, Unreachable PROVE ClientInv'
BY EndOnSameLedger DEF Unreachable, CallFails, Finish

LEMMA DeadlineStep == ASSUME ClientInv, Deadline PROVE ClientInv'
<1> USE DEF ClientInv, Deadline, ledger
<1>1. TypeOK'
  BY DEF TypeOK, LedgerTypeOK
<1>2. QED
  BY <1>1 DEF ReplyStillHolds, ReplyConfirmed, Answered, Spinner, PayerFunded, RereadConfirmed,
              AnswersOnce, SlotIsWhereItLanded, Settled, Succeeded

(* What Poll reads is, at that moment, true. *)
LEMMA PollStep == ASSUME ClientInv, Poll PROVE ClientInv'
<1> USE DEF ClientInv, Poll, ledger
<1>1. TypeOK'
  BY DEF TypeOK, LedgerTypeOK
<1>2. ReplyStillHolds'
  BY DEF ReplyStillHolds, ReplyConfirmed, Answered, Spinner, Settled, Succeeded
<1>3. QED
  BY <1>1, <1>2 DEF PayerFunded, RereadConfirmed, AnswersOnce, SlotIsWhereItLanded,
                    Settled, Succeeded

LEMMA HandleConfirmedStep == ASSUME ClientInv, HandleConfirmed PROVE ClientInv'
<1> USE DEF ClientInv, HandleConfirmed, ledger, Finish
<1>1. pc = "handle" /\ reply \in Status
  BY DEF ReplyConfirmed, Answered, TypeOK
<1>2. Settled(tx) /\ (Succeeded(tx) \/ (Spinner /\ seen)) /\ status[tx].slot = reply.slot
  BY <1>1 DEF ReplyStillHolds
<1>3. TypeOK'
  BY <1>1 DEF TypeOK, LedgerTypeOK, Status
<1>4. PayerFunded'
  BY <1>2 DEF PayerFunded, Spinner, Settled, Succeeded, TypeOK, Txs
<1>5. RereadConfirmed'
  BY <1>2 DEF RereadConfirmed, Spinner, Settled, Succeeded
<1>6. SlotIsWhereItLanded' /\ AnswersOnce'
  BY <1>1, <1>2 DEF Spinner, SlotIsWhereItLanded, AnswersOnce, Settled, Succeeded
<1>7. ReplyStillHolds'
  BY DEF ReplyStillHolds
<1>8. QED
  BY <1>3, <1>4, <1>5, <1>6, <1>7

(* A step that only goes on waiting. *)
LEMMA WaitingStep ==
  ASSUME ClientInv, pc \in {"handle", "wait"}, pc' \in {"wait", "poll"},
         UNCHANGED <<ledger, lang, tx, watch, late, seen, reply, outcome, slot>>
  PROVE  ClientInv'
<1> USE DEF ClientInv, ledger
<1>1. TypeOK'
  BY DEF TypeOK, LedgerTypeOK
<1>2. QED
  BY <1>1 DEF ReplyStillHolds, PayerFunded, RereadConfirmed, AnswersOnce,
              SlotIsWhereItLanded, Settled, Succeeded

(* The spinner will not ask about the error again. *)
LEMMA HandleSeenStep == ASSUME ClientInv, HandleSeen PROVE ClientInv'
<1> USE DEF ClientInv, HandleSeen, ReplySucceeded, Answered, ledger
<1>1. TypeOK'
  BY DEF TypeOK, LedgerTypeOK
<1>2. PayerFunded'
  BY DEF PayerFunded, Settled, Succeeded
<1>3. QED
  BY <1>1, <1>2 DEF ReplyStillHolds, RereadConfirmed, AnswersOnce, SlotIsWhereItLanded,
                    Settled, Succeeded

LEMMA RereadStep == ASSUME ClientInv, Reread PROVE ClientInv'
<1> USE DEF ClientInv, Reread, ledger, Finish
<1>1. Settled("transfer") /\ Succeeded("transfer") /\ status["transfer"] \in Status
  BY DEF RereadConfirmed, Settled, TypeOK, LedgerTypeOK, Txs
<1>2. reply' \in Status /\ outcome' = "ok" /\ slot' = status["transfer"].slot /\ pc' = "done"
  BY <1>1, LedgerAssumption, ClientAssumption DEF Settled
<1>3. TypeOK'
  BY <1>1, <1>2 DEF TypeOK, LedgerTypeOK, Status
<1>4. QED
  BY <1>1, <1>2, <1>3 DEF ReplyStillHolds, PayerFunded, RereadConfirmed, AnswersOnce,
                          SlotIsWhereItLanded, Settled, Succeeded

LEMMA ClientStepKeepsInv == ClientInv /\ [Next]_vars => ClientInv'
<1> SUFFICES ASSUME ClientInv, [Next]_vars PROVE ClientInv'
  OBVIOUS
<1>1. CASE HandleFailed
  BY <1>1, EndOnSameLedger DEF HandleFailed, Finish, ReplyFailed, Answered
<1>2. CASE HandleError
  BY <1>2, EndOnSameLedger DEF HandleError, Finish
<1>3. CASE GiveUp
  BY <1>3, EndOnSameLedger DEF GiveUp, Finish
<1>4. CASE HandlePending
  BY <1>4, WaitingStep DEF HandlePending
<1>5. CASE PollAgain
  BY <1>5, WaitingStep DEF PollAgain
<1>6. CASE LedgerNext /\ UNCHANGED client
  BY <1>6, ClusterStep
<1>7. CASE UNCHANGED vars
  BY <1>7 DEF vars, ledger, client, ClientInv, TypeOK, LedgerTypeOK, ReplyStillHolds,
              ReplyConfirmed, Answered, Spinner, PayerFunded, RereadConfirmed, AnswersOnce,
              SlotIsWhereItLanded, Settled, Succeeded
<1>8. QED
  BY <1>1, <1>2, <1>3, <1>4, <1>5, <1>6, <1>7, RequestAirdropStep, FetchBlockhashStep,
     SendStep, UnreachableStep, DeadlineStep, PollStep, HandleConfirmedStep, HandleSeenStep,
     RereadStep
     DEF Next, ClientStep

(* Every client's variables keep their types. *)
THEOREM ClientTypeCorrect == Spec => []TypeOK
<1>1. ClientInv => TypeOK
  BY DEF ClientInv
<1>2. QED
  BY <1>1, ClientInit, ClientStepKeepsInv, PTL DEF Spec

(* A client that returns a slot returns the one where its transfer is
   confirmed without an error, whatever forks it saw on the way. *)
THEOREM ReturnedSlotIsFinal == Spec => []SlotIsWhereItLanded
<1>1. ClientInv => SlotIsWhereItLanded
  BY DEF ClientInv
<1>2. QED
  BY <1>1, ClientInit, ClientStepKeepsInv, PTL DEF Spec

(* No client submits a transfer before its airdrop is confirmed, and none but
   Rust before it is confirmed to have succeeded. *)
THEOREM TransferIsFunded == Spec => []TransferFollowsAirdrop
<1>1. ClientInv => TransferFollowsAirdrop
  BY DEF ClientInv, PayerFunded, TransferFollowsAirdrop
<1>2. QED
  BY <1>1, ClientInit, ClientStepKeepsInv, PTL DEF Spec
-----------------------------------------------------------------------------
(***************************************************************************)
(* The clients implement Submission.                                       *)
(***************************************************************************)
(* A client's own step leaves the transactions alone, and says nothing, an
   error or a slot. *)
LEMMA ClientSays ==
  ASSUME ClientInv, ClientStep \/ Unreachable \/ Deadline \/ GiveUp
  PROVE  /\ status' = status
         /\ \/ UNCHANGED <<outcome, slot>>
            \/ outcome = "none" /\ outcome' \in {"failed", "expired", "unknown"}
               /\ slot' = slot
            \/ outcome = "none" /\ outcome' = "ok"
<1>1. pc # "done" => outcome = "none"
  BY DEF ClientInv, AnswersOnce
<1>2. CASE RequestAirdrop \/ FetchBlockhash \/ Send
  BY <1>1, <1>2 DEF RequestAirdrop, FetchBlockhash, Send, CallFails, Finish
<1>3. CASE Poll \/ HandleFailed \/ HandleError \/ HandlePending \/ PollAgain
  BY <1>1, <1>3 DEF Poll, HandleFailed, ReplyFailed, Answered, HandleError, HandlePending,
                    PollAgain, Finish, ledger
<1>4. CASE HandleConfirmed \/ Reread
  BY <1>1, <1>4 DEF HandleConfirmed, ReplyConfirmed, Answered, Reread, Finish, ledger
<1>5. CASE Unreachable \/ Deadline \/ GiveUp
  BY <1>1, <1>5 DEF Unreachable, CallFails, Deadline, GiveUp, Finish, ledger
<1>6. CASE HandleSeen
  BY <1>6 DEF HandleSeen, ledger
<1>7. QED
  BY <1>2, <1>3, <1>4, <1>5, <1>6 DEF ClientStep

(* What a client says is an abstract answer. *)
LEMMA ClientStepAnswers ==
  ASSUME ClientInv, ClientInv', ClientStep \/ Unreachable \/ Deadline \/ GiveUp
  PROVE  [Promise!SNext]_(Promise!svars)
<1>1. status' = status
  BY ClientSays
<1>2. Fate' = Fate /\ FateSlot' = FateSlot
  BY <1>1 DEF Fate, FateSlot, Settled
<1>3. CASE UNCHANGED <<outcome, slot>>
  BY <1>2, <1>3 DEF Promise!svars, Answer
<1>4. CASE /\ outcome = "none" /\ outcome' \in {"failed", "expired", "unknown"}
           /\ slot' = slot
  BY <1>2, <1>4 DEF Promise!SNext, Promise!AnswerError, Answer
<1>5. CASE outcome = "none" /\ outcome' = "ok"
  <2>1. Fate = "landed" /\ slot' = FateSlot
    BY <1>1, <1>5 DEF ClientInv, SlotIsWhereItLanded, Fate, FateSlot, Settled, Succeeded
  <2>2. Promise!AnswerSlot
    BY <1>2, <1>5, <2>1 DEF Promise!AnswerSlot, Answer
  <2>3. QED
    BY <2>2 DEF Promise!SNext
<1>6. QED
  BY <1>3, <1>4, <1>5, ClientSays

(* A step of the cluster decides the transfer's fate, or leaves it. *)
LEMMA ClusterStepDecides ==
  ASSUME ClientInv, ClientInv', LedgerNext, UNCHANGED client
  PROVE  [Promise!SNext]_(Promise!svars)
<1>1. Answer' = Answer /\ slot' = slot
  BY DEF client, Answer
<1>2. CASE Settled("transfer")
  <2>1. Fixed("transfer")
    BY <1>2, SettledStays DEF ClientInv, TypeOK, Txs
  <2>2. Fate' = Fate /\ FateSlot' = FateSlot
    BY <1>2, <2>1 DEF Fixed, Fate, FateSlot
  <2>3. QED
    BY <1>1, <2>2 DEF Promise!svars
<1>3. CASE ~Settled("transfer") /\ Settled("transfer")'
  <2>1. status'["transfer"].slot \in Slots
    BY <1>3 DEF ClientInv, TypeOK, LedgerTypeOK, Settled, Status, Txs
  <2>2. Fate = "open" /\ Fate' \in {"landed", "failed"}
        /\ FateSlot' = status'["transfer"].slot
    BY <1>3 DEF Fate, FateSlot
  <2>3. Promise!Decide(Fate', FateSlot')
    BY <1>1, <2>2 DEF Promise!Decide
  <2>4. QED
    BY <2>1, <2>2, <2>3 DEF Promise!SNext
<1>4. CASE ~Settled("transfer") /\ ~Settled("transfer")'
  BY <1>1, <1>4 DEF Promise!svars, Fate, FateSlot
<1>5. QED
  BY <1>2, <1>3, <1>4

(* A client that names a slot answers once, after its transfer landed, with
   the slot where it landed, for good: each of the four implements
   Submission. *)
THEOREM ClientsImplementSubmission == Spec => KeepsPromise
<1>1. Init => Promise!SInit
  BY DEF Init, LedgerInit, Promise!SInit, Fate, FateSlot, Answer, Settled, Txs
<1>2. ClientInv /\ ClientInv' /\ [Next]_vars => [Promise!SNext]_(Promise!svars)
  <2> SUFFICES ASSUME ClientInv, ClientInv', [Next]_vars
               PROVE  [Promise!SNext]_(Promise!svars)
    OBVIOUS
  <2>1. CASE UNCHANGED vars
    BY <2>1 DEF vars, ledger, client, Promise!svars, Fate, FateSlot, Answer, Settled
  <2>2. CASE LedgerNext /\ UNCHANGED client
    BY <2>2, ClusterStepDecides
  <2>3. CASE ClientStep \/ Unreachable \/ Deadline \/ GiveUp
    BY <2>3, ClientStepAnswers
  <2>4. QED
    BY <2>1, <2>2, <2>3 DEF Next
<1>3. QED
  BY <1>1, <1>2, ClientInit, ClientStepKeepsInv, PTL DEF Spec, KeepsPromise, Promise!SSpec
-----------------------------------------------------------------------------
(***************************************************************************)
(* Verdicts of expiry.  Beside the property the invariant says that the    *)
(* blockhash a client watches is not older than the one its transaction    *)
(* lives by.                                                               *)
(***************************************************************************)
WatchesLifetime ==
  pc \in {"poll", "handle", "wait"} /\ UsesExpiry => lifetime[tx] <= watch

VerdictInv ==
  /\ pc = "request" => tx = "airdrop"
  /\ WatchesLifetime
  /\ outcome = "expired" => lifetime[tx] <= expired

LEMMA VerdictInit == Init => VerdictInv
BY DEF Init, VerdictInv, WatchesLifetime

LEMMA ClusterKeepsVerdict ==
  ASSUME ClientInv, VerdictInv, LedgerNext, UNCHANGED client
  PROVE  VerdictInv'
<1>1. LedgerTypeOK /\ tx \in Txs
  BY DEF ClientInv, TypeOK
<1>2. UNCHANGED <<lang, pc, tx, watch, late, seen, reply, outcome, slot>>
  BY DEF client
<1>3. lifetime' = lifetime /\ expired \in Nat /\ expired' \in {expired, expired + 1}
  <2>1. expired \in Nat
    BY <1>1 DEF LedgerTypeOK
  <2>2. lifetime' = lifetime
    BY <1>1, LedgerType
  <2>3. expired' \in {expired, expired + 1}
    BY DEF LedgerNext, Land, Rise, DropFork, Expire
  <2> QED BY <2>1, <2>2, <2>3
<1>4. lifetime[tx] \in Nat
  BY <1>1 DEF LedgerTypeOK
<1>5. WatchesLifetime' /\ (outcome = "expired" => lifetime[tx] <= expired)'
  BY <1>2, <1>3, <1>4 DEF VerdictInv, WatchesLifetime, UsesExpiry, Spinner
<1> QED BY <1>2, <1>5 DEF VerdictInv

LEMMA ClientKeepsVerdict ==
  ASSUME ClientInv, VerdictInv, ClientStep \/ Unreachable \/ Deadline \/ GiveUp
  PROVE  VerdictInv'
<1>1. /\ pc # "done" => outcome = "none"
      /\ LedgerTypeOK /\ tx \in Txs /\ watch \in 0..fetched
  BY DEF ClientInv, AnswersOnce, TypeOK
<1>2. fetched \in Nat /\ lifetime \in [Txs -> 0..fetched]
  BY <1>1 DEF LedgerTypeOK
<1> USE DEF VerdictInv, WatchesLifetime, UsesExpiry, Spinner, Finish, CallFails
<1>3. CASE RequestAirdrop
  BY <1>1, <1>3 DEF RequestAirdrop
<1>4. CASE FetchBlockhash
  BY <1>1, <1>2, <1>4 DEF FetchBlockhash
<1>5. CASE Send
  <2>1. lifetime'["transfer"] = watch
    BY <1>2, <1>5 DEF Send, Txs
  <2> QED BY <1>1, <1>5, <2>1 DEF Send
<1>6. CASE Unreachable \/ Deadline
  BY <1>1, <1>6 DEF Unreachable, Deadline, ledger
<1>7. CASE Poll
  BY <1>1, <1>7 DEF Poll, ledger
<1>8. CASE HandleFailed \/ HandleSeen
  BY <1>1, <1>8 DEF HandleFailed, HandleSeen, ReplyFailed, ReplySucceeded, Answered, ledger
<1>9. CASE HandleError \/ HandlePending \/ PollAgain
  BY <1>1, <1>9 DEF HandleError, HandlePending, PollAgain, ledger
<1>10. CASE HandleConfirmed \/ Reread
  BY <1>1, <1>10 DEF HandleConfirmed, ReplyConfirmed, Answered, Reread, ledger
<1>11. CASE GiveUp
  <2>1. lifetime[tx] \in Nat /\ watch \in Nat /\ expired \in Nat
    BY <1>1, <1>2 DEF LedgerTypeOK
  <2> QED BY <1>1, <1>11, <2>1 DEF GiveUp, ledger
<1> QED
  BY <1>3, <1>4, <1>5, <1>6, <1>7, <1>8, <1>9, <1>10, <1>11 DEF ClientStep

LEMMA VerdictKept == ClientInv /\ VerdictInv /\ [Next]_vars => VerdictInv'
<1> SUFFICES ASSUME ClientInv, VerdictInv, [Next]_vars PROVE VerdictInv'
  OBVIOUS
<1>1. CASE UNCHANGED vars
  BY <1>1 DEF vars, ledger, client, VerdictInv, WatchesLifetime, UsesExpiry, Spinner
<1> QED BY <1>1, ClusterKeepsVerdict, ClientKeepsVerdict DEF Next

(* What was reported expired and is on no fork never lands. *)
THEOREM ExpiredStaysOut == Spec => ExpiredNeverLands
<1>1. ClientInv /\ VerdictInv /\ [Next]_vars =>
        [outcome = "expired" /\ status[tx] = Nil => status'[tx] = Nil]_vars
  <2> SUFFICES ASSUME ClientInv, VerdictInv, Next, outcome = "expired", status[tx] = Nil
               PROVE  status'[tx] = Nil
    OBVIOUS
  <2>1. CASE ClientStep \/ Unreachable \/ Deadline \/ GiveUp
    BY <2>1, ClientSays
  <2>2. CASE LedgerNext
    <3>1. tx \in Txs /\ lifetime[tx] <= expired /\ lifetime[tx] \in Nat /\ expired \in Nat
      BY DEF ClientInv, VerdictInv, TypeOK, LedgerTypeOK
    <3>2. status \in [Txs -> Status \cup {Nil}]
      BY DEF ClientInv, TypeOK, LedgerTypeOK
    <3> QED BY <2>2, <3>1, <3>2 DEF LedgerNext, Land, Rise, DropFork, Expire
  <2> QED BY <2>1, <2>2 DEF Next
<1> QED
  BY <1>1, ClientInit, ClientStepKeepsInv, VerdictInit, VerdictKept, PTL
  DEF Spec, ExpiredNeverLands
=============================================================================
