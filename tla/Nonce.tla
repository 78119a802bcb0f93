-------------------------------- MODULE Nonce --------------------------------
(***************************************************************************)
(* ts/kit/src/nonce.ts: create a nonce account, send a v1 transfer whose   *)
(* lifetime is the nonce instead of a blockhash, read it back, and see the *)
(* nonce advance.                                                          *)
(*                                                                         *)
(* A nonce transaction does not expire.  It is valid while the account     *)
(* holds its nonce, and landing advances the nonce, even when it fails.    *)
(***************************************************************************)
EXTENDS Naturals

CONSTANT MaxDrops   \* bound on the forks that are left

ASSUME NonceAssumption == MaxDrops \in Nat

Txs == {"airdrop", "setup", "transfer"}

VARIABLES
  tip,        \* the chain as of the last transaction that landed
  confirmed,  \* the chain as of the last confirmed one
  tx,         \* the transaction sent last
  status,     \* "none", "sent", "landed", "landedFailed", "confirmed" or "failed"
  expired,    \* its blockhash has expired
  fresh,      \* the nonces handed out so far, numbered from 1
  drops,      \* the forks left so far
  pc,         \* "gate", a transaction to send, "await", "fetchNonce",
              \* "readBack", "fetchAgain" or "done"
  nonce,      \* the nonce the program fetched; 0 before
  report      \* "none", "ok" or why it ended

cluster == <<tip, confirmed, tx, status, expired, fresh, drops>>
program == <<pc, nonce, report>>
vars == <<cluster, program>>

Chain == [funded : BOOLEAN, nonce : Nat, paid : Nat]

Init ==
  /\ tip = [funded |-> FALSE, nonce |-> 0, paid |-> 0]
  /\ confirmed = tip
  /\ tx = "airdrop" /\ status = "none" /\ expired = FALSE
  /\ fresh = 0 /\ drops = 0
  /\ pc = "gate" /\ nonce = 0 /\ report = "none"
-----------------------------------------------------------------------------
(***************************************************************************)
(* The cluster.                                                            *)
(***************************************************************************)
Valid(kind, s) ==
  \/ kind = "airdrop"
  \/ kind = "setup" /\ s.funded /\ s.nonce = 0
  \/ kind = "transfer" /\ s.nonce = nonce

(* The airdrop pays, the setup stores a fresh nonce, the transfer stores
   another and pays.  When the transfer fails, its nonce is stored all the same. *)
Result(failed) ==
  CASE tx = "airdrop" -> IF failed THEN tip ELSE [tip EXCEPT !.funded = TRUE]
    [] tx = "setup" -> IF failed THEN tip ELSE [tip EXCEPT !.nonce = fresh + 1]
    [] tx = "transfer" -> [funded |-> tip.funded, nonce |-> fresh + 1,
                           paid |-> IF failed THEN tip.paid ELSE tip.paid + 1]

Land(failed) ==
  /\ status = "sent"
  /\ Valid(tx, tip) /\ ~expired
  /\ tip' = Result(failed)
  /\ fresh' = fresh + 1
  /\ status' = IF failed THEN "landedFailed" ELSE "landed"
  /\ UNCHANGED <<confirmed, tx, expired, drops, program>>

Confirm ==
  /\ status \in {"landed", "landedFailed"}
  /\ status' = IF status = "landed" THEN "confirmed" ELSE "failed"
  /\ confirmed' = tip
  /\ UNCHANGED <<tip, tx, expired, fresh, drops, program>>

DropFork ==
  /\ status \in {"landed", "landedFailed"}
  /\ drops < MaxDrops
  /\ drops' = drops + 1
  /\ status' = "sent"
  /\ tip' = confirmed
  /\ UNCHANGED <<confirmed, tx, expired, fresh, program>>

Expire ==
  /\ tx # "transfer"
  /\ status \in {"sent", "landed", "landedFailed"} /\ ~expired
  /\ expired' = TRUE
  /\ UNCHANGED <<tip, confirmed, tx, status, fresh, drops, program>>
-----------------------------------------------------------------------------
(***************************************************************************)
(* The program.                                                            *)
(***************************************************************************)
Throw(why) == pc' = "done" /\ report' = why /\ UNCHANGED nonce

Goto(label) == pc' = label /\ UNCHANGED <<nonce, report>>

(* assertV1Active: the feature is active or it throws. *)
Gate ==
  /\ pc = "gate"
  /\ Goto("airdrop") \/ Throw("inactive")
  /\ UNCHANGED cluster

(* Simulate against the confirmed chain, then send; the answer may be lost. *)
Send(kind) ==
  /\ pc = kind
  /\ tx' = kind /\ expired' = FALSE
  /\ IF Valid(kind, confirmed)
     THEN status' = "sent" /\ (Goto("await") \/ Throw("rpc"))
     ELSE Throw("rejected") /\ UNCHANGED status
  /\ UNCHANGED <<tip, confirmed, fresh, drops>>

SendAirdrop == Send("airdrop")
SendSetup == Send("setup")
SendTransfer == Send("transfer")

(* Mutant: a transaction that has landed passes for confirmed. *)
IsConfirmedEarly == status \in {"landed", "confirmed"}

(* Mutant: the nonce having moved is taken for success. *)
IsConfirmedAnyway == status \in {"confirmed", "failed"}

IsConfirmed == status = "confirmed"

After(kind) ==
  [airdrop |-> "setup", setup |-> "fetchNonce", transfer |-> "readBack"][kind]

Await ==
  /\ pc = "await"
  /\ IsConfirmed
  /\ Goto(After(tx))
  /\ UNCHANGED cluster

AwaitFails ==
  /\ pc = "await"
  /\ status = "failed"
  /\ Throw("failed")
  /\ UNCHANGED cluster

(* Mutant: only the airdrop's wait has an end. *)
GiveUpOnAirdrop ==
  /\ pc = "await"
  /\ status \notin {"confirmed", "failed"}
  /\ tx = "airdrop"
  /\ Throw("expired")
  /\ UNCHANGED cluster

(* The airdrop helper gives up after its timeout, the setup's when its
   blockhash expires. *)
GiveUp ==
  /\ pc = "await"
  /\ status \notin {"confirmed", "failed"}
  /\ tx = "airdrop" \/ (tx = "setup" /\ expired)
  /\ Throw("expired")
  /\ UNCHANGED cluster

(* The durable-nonce helper gives up only when the nonce has moved; that its own
   transaction moved it does not always keep it from giving up. *)
NonceMoved ==
  /\ pc = "await" /\ tx = "transfer"
  /\ confirmed.nonce # nonce
  /\ Throw("nonceMoved")
  /\ UNCHANGED cluster

(* fetchNonce, at "confirmed"; the transfer is built on what it returns. *)
FetchNonce ==
  /\ pc = "fetchNonce"
  /\ pc' = "transfer" /\ nonce' = confirmed.nonce
  /\ UNCHANGED <<cluster, report>>

(* getTransaction twice, as JSON and as base64; null throws. *)
ReadBack ==
  /\ pc = "readBack"
  /\ IF status \in {"confirmed", "failed"} THEN Goto("fetchAgain") ELSE Throw("missing")
  /\ UNCHANGED cluster

FetchAgain ==
  /\ pc = "fetchAgain"
  /\ IF confirmed.nonce = nonce THEN Throw("stuck") ELSE Throw("ok")
  /\ UNCHANGED cluster

(* Any call to the node may fail. *)
CallFails ==
  /\ pc # "done"
  /\ Throw("rpc")
  /\ UNCHANGED cluster

ProgramStep ==
  \/ Gate \/ SendAirdrop \/ SendSetup \/ SendTransfer
  \/ Await \/ AwaitFails \/ GiveUp \/ NonceMoved
  \/ FetchNonce \/ ReadBack \/ FetchAgain

Next ==
  \/ ProgramStep \/ CallFails
  \/ (\E failed \in BOOLEAN : Land(failed)) \/ Confirm \/ DropFork \/ Expire

Spec == Init /\ [][Next]_vars

(* The program runs, blockhashes age and what has landed gets confirmed.  A
   node resends a nonce transaction until it lands; nothing else has to. *)
FairSpec ==
  /\ Spec
  /\ WF_vars(ProgramStep) /\ WF_vars(Expire) /\ WF_vars(Confirm)
  /\ WF_vars(tx = "transfer" /\ \E failed \in BOOLEAN : Land(failed))
-----------------------------------------------------------------------------
TypeOK ==
  /\ tip \in Chain /\ confirmed \in Chain
  /\ tx \in Txs
  /\ status \in {"none", "sent", "landed", "landedFailed", "confirmed", "failed"}
  /\ expired \in BOOLEAN /\ fresh \in Nat /\ drops \in 0..MaxDrops
  /\ pc \in Txs \cup {"gate", "await", "fetchNonce", "readBack", "fetchAgain", "done"}
  /\ nonce \in 0..fresh
  /\ report \in {"none", "ok", "inactive", "rejected", "rpc", "failed", "expired",
                 "nonceMoved", "missing", "stuck"}

(* The advanced nonce the program sees at its end does not show that it paid: a
   transfer that failed advances it too.  It has paid nevertheless, once. *)
DoneMeansPaidOnce == report = "ok" => confirmed.paid = 1

(* The nonce a transfer is bound to cannot be taken from it: until the transfer
   lands, no fork and no expiry invalidates it. *)
SentTransferStaysValid ==
  tx = "transfer" /\ status = "sent" => Valid(tx, tip) /\ ~expired

(* A nonce reported as moved was moved by the very transaction: it has landed for
   good, and a retry under the next nonce might pay twice. *)
MovedNonceWasOurs ==
  report = "nonceMoved" => status \in {"confirmed", "failed"}

(* What was confirmed is there to be read: the checks at the end never fire, and
   no transaction is refused for what the one before it was to do. *)
ChecksNeverFire == report \notin {"missing", "stuck", "rejected"}

(* No transaction is forgotten: the program sends the next one only when it has
   seen the one before it confirmed without an error. *)
OneAtATime ==
  [][ tx' # tx => status \in {"none", "confirmed"} ]_vars

(* Every run ends, although the transfer never expires. *)
Ends == <>(pc = "done")
=============================================================================
