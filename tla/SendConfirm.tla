---------------------------- MODULE SendConfirm ----------------------------
(***************************************************************************)
(* Airdrop a payer, send a v1 transfer, return the slot it landed in:      *)
(* SendV1Transfer (Go), send_v1_transfer (Python), send_v1_and_get_slot    *)
(* (Rust) and sendV1TransferAndGetSlot (kit), each against the cluster.    *)
(*                                                                         *)
(* Go and Python poll the status themselves, until a deadline, and take an *)
(* error at any level.  Rust and kit leave confirmation to their client    *)
(* library, which believes nothing below "confirmed" and gives up when a   *)
(* blockhash expires, kit's airdrop helper after a timeout.  The exception *)
(* is the spinner Rust waits for its airdrop with: it looks for a status   *)
(* at any level first, ends the program if that is an error, and else      *)
(* waits for the transaction to be confirmed, whatever its error by then.  *)
(***************************************************************************)
EXTENDS Ledger

CONSTANT RpcError   \* the answer of a call that failed

ASSUME ClientAssumption ==
  /\ Nil # RpcError
  /\ RpcError \notin Status

Langs == {"go", "python", "rust", "ts"}

VARIABLES
  lang,      \* the client that runs; it never changes
  pc,        \* where it is
  tx,        \* the transaction it confirms
  watch,     \* the blockhash whose expiry ends the wait
  late,      \* the deadline of the current wait has passed
  seen,      \* Rust's spinner has seen the airdrop succeed
  reply,     \* the last answer to getSignatureStatuses
  outcome,   \* "none", "ok", "failed", "expired" or "unknown"
  slot       \* the slot it returned

client == <<lang, pc, tx, watch, late, seen, reply, outcome, slot>>
vars == <<ledger, client>>

Init ==
  /\ LedgerInit
  /\ lang \in Langs
  /\ pc = "request"
  /\ tx = "airdrop"
  /\ watch = 0
  /\ late = FALSE
  /\ seen = FALSE
  /\ reply = Nil
  /\ outcome = "none"
  /\ slot = Nil
-----------------------------------------------------------------------------
Finish(result) == pc' = "done" /\ outcome' = result

(* A call that fails ends the program, whether or not the node acted on it. *)
CallFails(where) ==
  /\ pc = where
  /\ Finish("unknown")
  /\ UNCHANGED <<lang, tx, watch, late, seen, reply, slot>>

(* Mutant: Rust reads the blockhash it watches before the airdrop, not after. *)
RequestAirdropAfterFetch ==
  /\ pc = "request"
  /\ fetched' = fetched + 2
  /\ lifetime' = [lifetime EXCEPT !["airdrop"] = fetched']
  /\ watch' = fetched + 1
  /\ \/ pc' = "poll" /\ UNCHANGED <<lang, tx, late, seen, reply, outcome, slot>>
     \/ Finish("unknown") /\ UNCHANGED <<lang, tx, late, seen, reply, slot>>
  /\ UNCHANGED <<expired, status>>

(* requestAirdrop: the node picks the airdrop's blockhash.  Its answer may be
   lost.  Only Rust reads a blockhash to watch next. *)
RequestAirdrop ==
  /\ pc = "request"
  /\ fetched' = fetched + 1
  /\ lifetime' = [lifetime EXCEPT !["airdrop"] = fetched']
  /\ \/ /\ pc' = IF lang = "rust" THEN "watch" ELSE "poll"
        /\ UNCHANGED <<lang, tx, watch, late, seen, reply, outcome, slot>>
     \/ CallFails("request")
  /\ UNCHANGED <<expired, status>>

(* getLatestBlockhash: to watch over the airdrop, or to sign the transfer. *)
FetchBlockhash ==
  /\ pc \in {"watch", "blockhash"}
  /\ fetched' = fetched + 1
  /\ watch' = fetched'
  /\ pc' = IF pc = "watch" THEN "poll" ELSE "send"
  /\ UNCHANGED <<expired, lifetime, status, lang, tx, late, seen, reply, outcome, slot>>

(* Build, sign and send the transfer.  The wait for it has its own deadline. *)
Send ==
  /\ pc = "send"
  /\ lifetime' = [lifetime EXCEPT !["transfer"] = watch]
  /\ \/ /\ pc' = "poll"
        /\ tx' = "transfer"
        /\ late' = FALSE
        /\ UNCHANGED <<lang, watch, seen, reply, outcome, slot>>
     \/ CallFails("send")
  /\ UNCHANGED <<fetched, expired, status>>

(* A call fails before it reaches the node. *)
Unreachable ==
  /\ \E where \in {"request", "watch", "blockhash", "send", "reread"} : CallFails(where)
  /\ UNCHANGED ledger
-----------------------------------------------------------------------------
(***************************************************************************)
(* Waiting for confirmation.                                               *)
(***************************************************************************)
(* Rust waits for its airdrop. *)
Spinner == lang = "rust" /\ tx = "airdrop"

(* The 60 seconds are over.  Kit has such a deadline for the airdrop alone,
   Rust one of 120 seconds once its spinner saw the airdrop succeed. *)
Deadline ==
  /\ pc \in {"poll", "handle", "wait"}
  /\ ~late
  /\ lang \in {"go", "python"} \/ (lang = "ts" /\ tx = "airdrop") \/ (Spinner /\ seen)
  /\ late' = TRUE
  /\ UNCHANGED <<ledger, lang, pc, tx, watch, seen, reply, outcome, slot>>

(* One getSignatureStatuses call.  Go makes it under the context that the
   deadline cancels. *)
Poll ==
  /\ pc = "poll"
  /\ \/ reply' = status[tx] /\ ~(lang = "go" /\ late)
     \/ reply' = RpcError
  /\ pc' = "handle"
  /\ UNCHANGED <<ledger, lang, tx, watch, late, seen, outcome, slot>>

Answered == pc = "handle" /\ reply \notin {RpcError, Nil}

(* Go and Python, and Rust's spinner at first, take an error at any level; the
   libraries wait for it to be confirmed, and what the spinner saw succeed it
   does not ask about again. *)
ReplyFailed ==
  /\ Answered
  /\ reply.err
  /\ IF Spinner THEN ~seen ELSE lang \in {"go", "python"} \/ reply.level # "processed"

(* Mutant: a processed transaction passes for a confirmed one. *)
ReplySeen == Answered /\ IF Spinner THEN seen ELSE ~reply.err

ReplyConfirmed ==
  /\ Answered
  /\ reply.level # "processed"
  /\ IF Spinner THEN seen ELSE ~reply.err

ReplySucceeded == Answered /\ Spinner /\ ~seen /\ ~reply.err

(* Mutant: a transaction that failed counts as confirmed. *)
HandleFailedAsOk ==
  /\ ReplyFailed
  /\ IF tx = "airdrop" THEN pc' = "blockhash" /\ UNCHANGED <<outcome, slot>>
                       ELSE Finish("ok") /\ slot' = reply.slot
  /\ UNCHANGED <<ledger, lang, tx, watch, late, seen, reply>>

HandleFailed ==
  /\ ReplyFailed
  /\ Finish("failed")
  /\ UNCHANGED <<ledger, lang, tx, watch, late, seen, reply, slot>>

(* Any other failure of the call is reported, unless it is Go's deadline that
   made it fail. *)
HandleError ==
  /\ pc = "handle"
  /\ reply = RpcError
  /\ ~(lang = "go" /\ late)
  /\ Finish("unknown")
  /\ UNCHANGED <<ledger, lang, tx, watch, late, seen, reply, slot>>

(* The airdrop is confirmed: on to the transfer.  The transfer is: Go has its
   slot already, the others ask again. *)
HandleConfirmed ==
  /\ ReplyConfirmed
  /\ \/ tx = "airdrop" /\ pc' = "blockhash" /\ UNCHANGED <<outcome, slot>>
     \/ tx = "transfer" /\ lang = "go" /\ Finish("ok") /\ slot' = reply.slot
     \/ tx = "transfer" /\ lang # "go" /\ pc' = "reread" /\ UNCHANGED <<outcome, slot>>
  /\ UNCHANGED <<ledger, lang, tx, watch, late, seen, reply>>

(* The spinner saw the airdrop succeed, at whatever level; from here on it has
   120 seconds to be confirmed. *)
HandleSeen ==
  /\ ReplySucceeded
  /\ seen' = TRUE
  /\ pc' = "poll"
  /\ UNCHANGED <<ledger, lang, tx, watch, late, reply, outcome, slot>>

HandlePending ==
  /\ pc = "handle"
  /\ ~ReplyFailed
  /\ ~ReplyConfirmed
  /\ ~ReplySucceeded
  /\ reply = RpcError => lang = "go" /\ late
  /\ pc' = "wait"
  /\ UNCHANGED <<ledger, lang, tx, watch, late, seen, reply, outcome, slot>>

UsesExpiry ==
  \/ lang = "rust" /\ ~(Spinner /\ seen)
  \/ lang = "ts" /\ tx = "transfer"

(* Mutant: only an expired blockhash ends a wait. *)
GiveUpOnExpiry ==
  /\ pc = "wait"
  /\ UsesExpiry /\ expired >= watch /\ Finish("expired")
  /\ UNCHANGED <<ledger, lang, tx, watch, late, seen, reply, slot>>

(* Mutant: the wait is given up but not left. *)
GiveUpGoesOn ==
  /\ pc = "wait"
  /\ \/ UsesExpiry /\ expired >= watch /\ outcome' = "expired"
     \/ ~UsesExpiry /\ late /\ outcome' = "unknown"
  /\ pc' = "poll"
  /\ UNCHANGED <<ledger, lang, tx, watch, late, seen, reply, slot>>

GiveUp ==
  /\ pc = "wait"
  /\ \/ UsesExpiry /\ expired >= watch /\ Finish("expired")
     \/ ~UsesExpiry /\ late /\ Finish("unknown")
  /\ UNCHANGED <<ledger, lang, tx, watch, late, seen, reply, slot>>

(* Python and Rust look at the clock or the blockhash before every poll; Go and
   kit race the next poll against the end of the wait. *)
PollAgain ==
  /\ pc = "wait"
  /\ lang \in {"python", "rust"} => IF UsesExpiry THEN expired < watch ELSE ~late
  /\ pc' = "poll"
  /\ UNCHANGED <<ledger, lang, tx, watch, late, seen, reply, outcome, slot>>

(* The slot is the one of whatever status the node holds now. *)
Reread ==
  /\ pc = "reread"
  /\ reply' = status["transfer"]
  /\ IF reply' = Nil
     THEN Finish("unknown") /\ UNCHANGED slot
     ELSE Finish("ok") /\ slot' = reply'.slot
  /\ UNCHANGED <<ledger, lang, tx, watch, late, seen>>

ClientStep ==
  \/ RequestAirdrop \/ FetchBlockhash \/ Send
  \/ Poll \/ HandleFailed \/ HandleError \/ HandleConfirmed \/ HandleSeen
  \/ HandlePending \/ PollAgain \/ Reread

Next ==
  \/ ClientStep
  \/ Unreachable
  \/ Deadline
  \/ GiveUp
  \/ LedgerNext /\ UNCHANGED client

Spec == Init /\ [][Next]_vars

(* The client runs, time passes and blockhashes age.  GiveUp needs strong
   fairness: Go's select picks among its ready cases at random, so it does not
   pick the tick for ever.  Nothing is assumed of landing or confirming. *)
FairSpec ==
  /\ Spec
  /\ WF_vars(ClientStep) /\ SF_vars(GiveUp)
  /\ WF_vars(Deadline) /\ WF_vars(Expire /\ UNCHANGED client)
-----------------------------------------------------------------------------
TypeOK ==
  /\ LedgerTypeOK
  /\ lang \in Langs
  /\ pc \in {"request", "watch", "poll", "handle", "wait", "blockhash", "send",
             "reread", "done"}
  /\ tx \in Txs
  /\ watch \in 0..fetched
  /\ late \in BOOLEAN
  /\ seen \in BOOLEAN
  /\ reply \in Status \cup {Nil, RpcError}
  /\ outcome \in {"none", "ok", "failed", "expired", "unknown"}
  /\ slot \in Slots \cup {Nil}

(* A client that returns a slot returns the one where its transfer is confirmed,
   without an error: no fork the node left, no status read too early. *)
SlotIsWhereItLanded ==
  outcome = "ok" => /\ Settled("transfer")
                    /\ Succeeded("transfer")
                    /\ slot = status["transfer"].slot

(* No client submits a transfer before the airdrop that pays for it is
   confirmed, so no fork can take the payer away from under it.  That it also
   succeeded there is known to every client but Rust, whose spinner saw it
   succeed on a fork that may have been left. *)
TransferFollowsAirdrop ==
  lifetime["transfer"] # 0 =>
    Settled("airdrop") /\ (Succeeded("airdrop") \/ (lang = "rust" /\ seen))

(* A transaction that was on no fork when its blockhash was found expired never
   lands: the caller may send another.  Rust watches over its airdrop with a
   blockhash it read after requesting it, never an older one. *)
ExpiredNeverLands ==
  [][outcome = "expired" /\ status[tx] = Nil => status'[tx] = Nil]_vars

(* What a caller of the client can tell of its run: the transfer's fate and the
   client's answer. *)
Fate ==
  IF ~Settled("transfer") THEN "open"
  ELSE IF status["transfer"].err THEN "failed" ELSE "landed"
FateSlot == IF Settled("transfer") THEN status["transfer"].slot ELSE Nil
Answer == IF outcome \in {"none", "ok"} THEN outcome ELSE "error"

Promise == INSTANCE Submission WITH
  NoSlot <- Nil,
  fate <- Fate,
  fateSlot <- FateSlot,
  answer <- Answer,
  answerSlot <- slot

(* The client answers once, and its answer keeps the abstract promise. *)
KeepsPromise == Promise!SSpec

(* Every wait ends, whatever becomes of the transaction and the node. *)
Answers == <>(pc = "done")
=============================================================================
