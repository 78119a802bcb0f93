----------------------------- MODULE RoundTrip -----------------------------
(***************************************************************************)
(* The examples that send one v1 transfer and read it back: send-decode in *)
(* its six forms (kit, kit plugins, web3.js v3, Go, Rust, Python) and kit's *)
(* estimate, each against the cluster of Ledger.  All but two ask for the  *)
(* feature gate first, as FeatureGate has it.                              *)
(*                                                                         *)
(* A program is a sequence of calls.  Where SendConfirm follows every poll *)
(* of a confirmation, here a wait ends in one step, on what it ends by.    *)
(***************************************************************************)
EXTENDS Ledger, FeatureGate, Sequences

VARIABLES
  example,  \* the program that runs; it never changes
  step,     \* the call the program is at
  waiting,  \* it waits for the transaction of that call
  watch,    \* the blockhash it has read last; 0 before
  probe,    \* what it printed of the read below the ceiling: "none",
            \* "rejected" or "unexpectedly succeeded"
  report,   \* "none", "ok" or "error"
  fault     \* something outside the program went wrong

program == <<step, waiting, watch, probe, report, fault>>
vars == <<ledger, gateVars, example, program>>
-----------------------------------------------------------------------------
(* The calls of each program, in order. *)
KitSendDecode == <<"gate", "airdrop", "blockhash", "transfer", "probe", "read">>
Estimate == <<"gate", "airdrop", "blockhash", "simulate", "simulate", "transfer", "read">>

(* createV1Client airdrops; nothing asks for the feature gate. *)
PluginsSendDecode == <<"airdrop", "blockhash", "transfer", "probe", "read">>

(* fundedKeypair reads a blockhash to watch over the airdrop. *)
Web3SendDecode == <<"airdrop", "blockhash", "transfer", "probe", "read">>

GoSendDecode == <<"gate", "airdrop", "blockhash", "transfer", "probe", "read", "read">>
RustSendDecode == <<"gate", "airdrop", "blockhash", "transfer", "probe", "read", "read">>
PythonSendDecode == <<"gate", "airdrop", "blockhash", "transfer", "probe", "read", "read">>

Calls ==
  [kit |-> KitSendDecode, estimate |-> Estimate, plugins |-> PluginsSendDecode,
   web3 |-> Web3SendDecode, go |-> GoSendDecode, rust |-> RustSendDecode,
   python |-> PythonSendDecode]
Examples == DOMAIN Calls
Now == Calls[example][step]
At(call) == report = "none" /\ ~waiting /\ Now = call

Init ==
  /\ LedgerInit
  /\ GateInit
  /\ example \in Examples
  /\ lang = IF example \in {"go", "rust", "python"} THEN example ELSE "ts"
  /\ step = 1 /\ waiting = FALSE /\ watch = 0
  /\ probe = "none" /\ report = "none" /\ fault = FALSE
-----------------------------------------------------------------------------
Throw == report' = "error" /\ UNCHANGED <<step, waiting>>

Proceed ==
  /\ IF step = Len(Calls[example]) THEN report' = "ok" /\ UNCHANGED step
                                   ELSE step' = step + 1 /\ UNCHANGED report
  /\ waiting' = FALSE

AskGate ==
  /\ At("gate")
  /\ IsV1Active
  /\ UNCHANGED <<ledger, example, program>>

(* The program goes on only if its gate let it. *)
Gate ==
  /\ At("gate")
  /\ AssertV1Active
  /\ IF outcome' = "passed" THEN Proceed ELSE Throw
  /\ fault' = ~IsActive(read)
  /\ UNCHANGED <<ledger, example, watch, probe>>

(* Whoever ends a wait by the expiry of a blockhash reads one after requesting
   the airdrop: web3.js v3 and Rust. *)
WatchesAirdrop == example \in {"web3", "rust"}

RequestAirdrop ==
  /\ At("airdrop")
  /\ fetched' = IF WatchesAirdrop THEN fetched + 2 ELSE fetched + 1
  /\ lifetime' = [lifetime EXCEPT !["airdrop"] = fetched + 1]
  /\ watch' = IF WatchesAirdrop THEN fetched' ELSE watch
  /\ waiting' = TRUE
  /\ UNCHANGED <<expired, status, gateVars, example, step, probe, report, fault>>

FetchBlockhash ==
  /\ At("blockhash")
  /\ fetched' = fetched + 1
  /\ watch' = fetched'
  /\ Proceed
  /\ UNCHANGED <<expired, lifetime, status, gateVars, example, probe, fault>>

(* The node simulates a transaction against its confirmed chain. *)
Simulates == IsActive(gate) /\ Settled("airdrop") /\ Succeeded("airdrop")

(* The resource limits are those of a simulated run.  The example simulates
   twice: for the estimate and for the message it sends. *)
SimulateDraft ==
  /\ At("simulate")
  /\ IF Simulates THEN Proceed ELSE Throw
  /\ fault' = (fault \/ ~IsActive(gate))
  /\ UNCHANGED <<ledger, gateVars, example, watch, probe>>

(* sendTransaction, which simulates first.  Its answer may be lost. *)
SendTransfer ==
  /\ At("transfer")
  /\ IF Simulates
     THEN /\ lifetime' = [lifetime EXCEPT !["transfer"] = watch]
          /\ \/ waiting' = TRUE /\ UNCHANGED <<step, report, fault>>
             \/ Throw /\ fault' = TRUE
     ELSE Throw /\ fault' = (fault \/ ~IsActive(gate)) /\ UNCHANGED lifetime
  /\ UNCHANGED <<fetched, expired, status, gateVars, example, watch, probe>>
-----------------------------------------------------------------------------
(* Waiting for the airdrop or the transfer. *)
Awaited == Now

(* Mutant: a transaction that has been processed passes for confirmed. *)
IsConfirmedEarly == Succeeded(Awaited) \/ (example = "web3" /\ Settled(Awaited))

(* Mutant: no program looks at the error. *)
IsConfirmedAnyway == Settled(Awaited)

(* Rust waits for its airdrop with a spinner that takes the first error it sees,
   and having seen none asks for no error again, but sets a clock; here, where a
   wait is one step, which of the two came first is left open. *)
Spinner == example = "rust" /\ Awaited = "airdrop"

(* Confirmed, without an error unless no one looks: sendV1Transaction and
   fundedKeypair of web3.js v3 drop the error confirmTransaction returns. *)
IsConfirmed == Settled(Awaited) /\ (Succeeded(Awaited) \/ example = "web3" \/ Spinner)

Confirmed ==
  /\ report = "none" /\ waiting
  /\ IsConfirmed
  /\ Proceed
  /\ UNCHANGED <<ledger, gateVars, example, watch, probe, fault>>

(* Go, Python and the spinner take an error at any level, the other libraries a
   confirmed one. *)
ThrowFailed ==
  /\ report = "none" /\ waiting
  /\ status[Awaited] # Nil /\ status[Awaited].err
  /\ example \in {"go", "python"} \/ Spinner \/ Settled(Awaited)
  /\ example # "web3"
  /\ Throw
  /\ fault' = TRUE
  /\ UNCHANGED <<ledger, gateVars, example, watch, probe>>

(* By the clock: Go and Python always, kit's helper and the spinner for the
   airdrop. *)
HasDeadline ==
  \/ example \in {"go", "python"}
  \/ example \in {"kit", "estimate", "plugins"} /\ Awaited = "airdrop"
  \/ Spinner

(* Mutant: only the airdrop's wait ends without an answer. *)
GiveUpOnAirdrop ==
  /\ report = "none" /\ waiting
  /\ ~Settled(Awaited) /\ Awaited = "airdrop"
  /\ IF HasDeadline THEN TRUE ELSE expired >= watch
  /\ Throw
  /\ fault' = TRUE
  /\ UNCHANGED <<ledger, gateVars, example, watch, probe>>

GiveUp ==
  /\ report = "none" /\ waiting
  /\ ~Settled(Awaited)
  /\ IF HasDeadline THEN TRUE ELSE expired >= watch
  /\ Throw
  /\ fault' = TRUE
  /\ UNCHANGED <<ledger, gateVars, example, watch, probe>>

(* Any call to the node may fail, the read below the ceiling among them; that
   one is caught, but by Python only when it was the node that refused. *)
CallFails ==
  /\ report = "none"
  /\ Now = "probe" => example = "python"
  /\ Throw
  /\ fault' = TRUE
  /\ UNCHANGED <<ledger, gateVars, example, watch, probe>>
-----------------------------------------------------------------------------
(* What getTransaction finds at "confirmed". *)
Found == Settled("transfer")

(* The read with the ceiling omitted, or at 0.  Whatever is thrown prints as a
   rejection.  Null does not throw in TypeScript, web3.js v3 or Python. *)
ReadBelowCeiling ==
  /\ At("probe")
  /\ probe' \in {"rejected"} \cup
       {line \in {"unexpectedly succeeded"} : ~Found /\ example \notin {"go", "rust"}}
  /\ Proceed
  /\ UNCHANGED <<ledger, gateVars, example, watch, fault>>

(* The read with the ceiling at 1; null throws.  That the config it decodes is
   the one sent is the codec's matter. *)
ReadBack ==
  /\ At("read")
  /\ IF Found THEN Proceed ELSE Throw
  /\ UNCHANGED <<ledger, gateVars, example, watch, probe, fault>>

ProgramStep ==
  \/ AskGate \/ Gate \/ RequestAirdrop \/ FetchBlockhash \/ SimulateDraft \/ SendTransfer
  \/ Confirmed \/ ThrowFailed \/ GiveUp
  \/ ReadBelowCeiling \/ ReadBack

Next ==
  \/ ProgramStep
  \/ CallFails
  \/ GateChanges /\ UNCHANGED <<ledger, example, program>>
  \/ LedgerNext /\ UNCHANGED <<gateVars, example, program>>

Spec == Init /\ [][Next]_vars

(* The program runs and blockhashes age.  Nothing is assumed of landing. *)
FairSpec ==
  Spec /\ WF_vars(ProgramStep) /\ WF_vars(Expire /\ UNCHANGED <<gateVars, example, program>>)
-----------------------------------------------------------------------------
TypeOK ==
  /\ LedgerTypeOK
  /\ GateTypeOK
  /\ example \in Examples
  /\ step \in DOMAIN Calls[example] /\ waiting \in BOOLEAN
  /\ watch \in 0..fetched
  /\ probe \in {"none", "rejected", "unexpectedly succeeded"}
  /\ report \in {"none", "ok", "error"} /\ fault \in BOOLEAN

(* An example that ends well has read back the transfer it paid for, from a
   confirmed block; web3.js v3's may have read back one that failed.  Where it
   probes below the ceiling it has printed a rejection and not "unexpectedly
   succeeded": by then the node has a transaction to refuse, not null to answer. *)
DoneMeansTransferred ==
  report = "ok" =>
    /\ Settled("transfer")
    /\ Succeeded("transfer") \/ example = "web3"
    /\ probe # "unexpectedly succeeded"

(* An example fails only on a fault from outside.  What it has confirmed is
   there for the simulation, the transfer and both reads. *)
FailsOnlyOnFault ==
  report = "error" => fault \/ (Settled("airdrop") /\ status["airdrop"].err)

(* Every example ends, whatever becomes of its transactions. *)
Ends == <>(report # "none")
=============================================================================
