------------------------ MODULE ConfidentialTransfer ------------------------
(***************************************************************************)
(* The confidential-transfer programs of ts/kit, ts/kit-plugins and        *)
(* ts/web3js-v3, each against the cluster.                                 *)
(*                                                                         *)
(* A program is a sequence of calls.  A call reads what it needs, builds   *)
(* an instruction plan, packs the plan into messages and sends them one by *)
(* one, each confirmed before the next.  The drivers differ in the calls   *)
(* they make, in which plans may take several messages, and in what they   *)
(* do when a transaction fails on chain.                                   *)
(***************************************************************************)
EXTENDS Token2022

CONSTANTS
  Starting,    \* the sender's balance before the transfer
  Amount,      \* what it transfers
  Capacities   \* the instructions one v1 message may hold

ASSUME TransferAssumption ==
  /\ Starting \in Nat /\ Amount \in 1..Starting
  /\ Capacities \subseteq Nat \ {0}
  /\ Failed \notin Chain

Drivers == {"kit", "plugins", "web3"}

VARIABLES
  driver,     \* the program that runs; it never changes
  capacity,   \* what a message holds; it never changes
  active,     \* the cluster accepts v1 transactions
  tip,        \* the chain as of the last transaction that landed
  confirmed,  \* the chain as of the last confirmed one: what every read sees
  status,     \* the transaction sent last: "none", "sent", "landed",
              \* "landedFailed", "confirmed" or "failed"
  expired,    \* its blockhash has expired
  inFlight,   \* its message
  step,       \* the call the program is at
  pc,         \* "start", "build", "send", "await" or "done"
  read,       \* the accounts the call has read
  messages,   \* the messages the call has yet to send
  report,     \* "none", "ok" or "error"
  fault       \* something outside the program went wrong

cluster == <<active, tip, confirmed, status, expired, inFlight>>
program == <<step, pc, read, messages, report, fault>>
vars == <<driver, capacity, cluster, program>>

Init ==
  /\ driver \in Drivers
  /\ capacity \in Capacities
  /\ active \in BOOLEAN
  /\ tip = EmptyChain /\ confirmed = EmptyChain
  /\ status = "none" /\ expired = FALSE /\ inFlight = <<>>
  /\ step = 1 /\ pc = "start"
  /\ read = [p \in Parties |-> NoAccount]
  /\ messages = <<>>
  /\ report = "none" /\ fault = FALSE
-----------------------------------------------------------------------------
(***************************************************************************)
(* The programs.  "many" marks a plan the driver may spread over several   *)
(* messages, "one" a plan it must fit in one, "none" a call that sends     *)
(* nothing.                                                                *)
(***************************************************************************)
Call(plan, on, packs) == [plan |-> plan, on |-> on, packs |-> packs]

KitCreateMint == <<Call("mint", "sender", "many")>>
KitCreateParty(p) == <<Call("party", p, "many")>>
KitApply(p) == <<Call("apply", p, "many")>>
KitFund(p) == <<Call("mintTo", p, "many"), Call("deposit", p, "many")>> \o KitApply(p)

KitMain ==
  <<Call("gate", "sender", "none"), Call("airdrop", "sender", "one")>>
  \o KitCreateMint \o KitCreateParty("sender") \o KitCreateParty("recipient")
  \o KitFund("sender")
  \o <<Call("transfer", "sender", "one"), Call("readBack", "sender", "none")>>
  \o KitApply("recipient")
  \o <<Call("check", "sender", "none")>>

PluginsCreateMint == <<Call("mint", "sender", "many")>>
PluginsCreateParty(p) == <<Call("party", p, "many")>>
PluginsApply(p) == <<Call("apply", p, "one")>>
PluginsFund(p) == <<Call("mintTo", p, "many"), Call("deposit", p, "one")>> \o PluginsApply(p)

(* createV1Client requests the airdrop; nothing asks for the feature gate. *)
PluginsClient == <<Call("airdrop", "sender", "one")>>
PluginsMain ==
  PluginsClient
  \o PluginsCreateMint \o PluginsCreateParty("sender") \o PluginsCreateParty("recipient")
  \o PluginsFund("sender")
  \o <<Call("transfer", "sender", "one"), Call("readBack", "sender", "none")>>
  \o PluginsApply("recipient")
  \o <<Call("check", "sender", "none")>>

Web3Context == <<Call("airdrop", "sender", "one")>>
Web3CreateMint == <<Call("mint", "sender", "one")>>
Web3CreateParty(p) == <<Call("party", p, "one")>>
Web3Apply(p) == <<Call("apply", p, "one")>>
Web3Fund(p) == <<Call("mintTo", p, "one"), Call("deposit", p, "one")>> \o Web3Apply(p)
Web3Main ==
  Web3Context
  \o Web3CreateMint \o Web3CreateParty("sender") \o Web3CreateParty("recipient")
  \o Web3Fund("sender")
  \o <<Call("transfer", "sender", "one"), Call("readBack", "sender", "none")>>
  \o Web3Apply("recipient")
  \o <<Call("check", "sender", "none")>>

Main == [kit |-> KitMain, plugins |-> PluginsMain, web3 |-> Web3Main][driver]
Now == Main[step]
-----------------------------------------------------------------------------
(***************************************************************************)
(* The cluster.                                                            *)
(***************************************************************************)
Activate ==
  /\ ~active
  /\ active' = TRUE
  /\ UNCHANGED <<driver, capacity, tip, confirmed, status, expired, inFlight, program>>

(* The transaction in flight lands while its blockhash lives.  One that passed
   preflight may still fail, on a limit of its resources say. *)
Land ==
  /\ status = "sent" /\ ~expired
  /\ \/ /\ Run(inFlight, tip, active) # Failed
        /\ tip' = Run(inFlight, tip, active)
        /\ status' = "landed"
     \/ /\ status' = "landedFailed"
        /\ UNCHANGED tip
  /\ UNCHANGED <<driver, capacity, active, confirmed, expired, inFlight, program>>

Confirm ==
  /\ status \in {"landed", "landedFailed"}
  /\ status' = IF status = "landed" THEN "confirmed" ELSE "failed"
  /\ confirmed' = tip
  /\ fault' = (fault \/ status' = "failed")
  /\ UNCHANGED <<driver, capacity, active, tip, expired, inFlight, step, pc, read, messages, report>>

(* The fork it landed on is left before it is confirmed. *)
DropFork ==
  /\ status \in {"landed", "landedFailed"}
  /\ status' = "sent"
  /\ tip' = confirmed
  /\ UNCHANGED <<driver, capacity, active, confirmed, expired, inFlight, program>>

Expire ==
  /\ status \in {"sent", "landed", "landedFailed"} /\ ~expired
  /\ expired' = TRUE
  /\ UNCHANGED <<driver, capacity, active, tip, confirmed, status, inFlight, program>>
-----------------------------------------------------------------------------
(***************************************************************************)
(* The program.                                                            *)
(***************************************************************************)
Throw == pc' = "done" /\ report' = "error" /\ UNCHANGED <<step, read, messages>>

NextCall ==
  /\ IF step = Len(Main) THEN pc' = "done" /\ report' = "ok" /\ UNCHANGED step
                         ELSE pc' = "start" /\ step' = step + 1 /\ UNCHANGED report
  /\ UNCHANGED <<read, messages>>

AtCall(at, plans) == pc = at /\ Now.plan \in plans

(* assertV1Active.  How the account is read is FeatureGate's subject. *)
Gate ==
  /\ AtCall("start", {"gate"})
  /\ IF active THEN NextCall ELSE Throw
  /\ fault' = ~active
  /\ UNCHANGED <<driver, capacity, cluster>>

(* Mutant: the accounts read for the transfer serve the recipient's apply too. *)
ReadAccountsOnce ==
  /\ AtCall("start", {"apply", "transfer"})
  /\ read' = IF Now.on = "recipient" THEN read ELSE confirmed.acct
  /\ pc' = "build"
  /\ UNCHANGED <<driver, capacity, cluster, step, messages, report, fault>>

(* fetchToken before an apply; fetchPartyBalance, fetchMint and fetchToken
   twice before the transfer.  Reading an account that is not there throws. *)
AccountsThere ==
  \A p \in Parties : Now.plan = "transfer" \/ p = Now.on => confirmed.acct[p].stage = 2

ReadAccounts ==
  /\ AtCall("start", {"apply", "transfer"})
  /\ IF AccountsThere
     THEN read' = confirmed.acct /\ pc' = "build" /\ UNCHANGED <<step, messages, report>>
     ELSE Throw
  /\ UNCHANGED <<driver, capacity, cluster, fault>>

(* getApplyConfidentialPendingBalanceInstructionFromToken: the owner's new
   readable balance is worked out from the account as it was read. *)
ApplyPlan(p) ==
  <<Ix("apply", p, 0, read[p].decryptable + read[p].pending)>>

(* getConfidentialTransferInstructionPlan: three proof contexts, the transfer
   that reads them, and their close. *)
TransferPlan(p) ==
  <<Ix("prove", "equality", 0, 0), Ix("prove", "validity", 0, 0), Ix("prove", "range", 0, 0),
    Ix("transfer", p, read[p].available, read[p].decryptable - Amount),
    Ix("close", "equality", 0, 0), Ix("close", "validity", 0, 0), Ix("close", "range", 0, 0)>>

Plan(call) ==
  CASE call.plan = "airdrop" -> <<Ix("airdrop", call.on, 0, 0)>>
    [] call.plan = "mint" -> <<Ix("allocateMint", call.on, 0, 0), Ix("initializeMint", call.on, 0, 0)>>
    [] call.plan = "party" -> <<Ix("createAccount", call.on, 0, 0), Ix("configure", call.on, 0, 0)>>
    [] call.plan = "mintTo" -> <<Ix("mintTo", call.on, Starting, 0)>>
    [] call.plan = "deposit" -> <<Ix("deposit", call.on, Starting, 0)>>
    [] call.plan = "apply" -> ApplyPlan(call.on)
    [] call.plan = "transfer" -> TransferPlan(call.on)

(* The planner fills each message before it starts the next. *)
Pack(plan) ==
  [i \in 1..((Len(plan) + capacity - 1) \div capacity) |->
     SubSeq(plan, (i - 1) * capacity + 1, Min({i * capacity, Len(plan)}))]

(* A plan that does not fit the one message it must throws, as does a transfer
   of more than the sender can read. *)
Build ==
  /\ \/ AtCall("start", {"airdrop", "mint", "party", "mintTo", "deposit"})
     \/ AtCall("build", {"apply", "transfer"})
  /\ IF \/ Now.plan = "transfer" /\ read[Now.on].decryptable < Amount
        \/ Now.packs = "one" /\ Len(Plan(Now)) > capacity
     THEN Throw
     ELSE pc' = "send" /\ messages' = Pack(Plan(Now)) /\ UNCHANGED <<step, read, report>>
  /\ UNCHANGED <<driver, capacity, cluster, fault>>

(* Simulate the message against the confirmed chain, then send it under a fresh
   blockhash.  The answer of the send may be lost. *)
Submit ==
  /\ pc = "send"
  /\ IF Run(Head(messages), confirmed, active) = Failed
     THEN Throw /\ fault' = (fault \/ ~active) /\ UNCHANGED <<status, expired, inFlight>>
     ELSE /\ status' = "sent" /\ expired' = FALSE /\ inFlight' = Head(messages)
          /\ \/ /\ pc' = "await"
                /\ messages' = Tail(messages)
                /\ UNCHANGED <<step, read, report, fault>>
             \/ Throw /\ fault' = TRUE
  /\ UNCHANGED <<driver, capacity, active, tip, confirmed>>

(* Mutant: a transaction that has landed passes for confirmed. *)
IsConfirmedEarly == status \in {"landed", "confirmed"} \/ (status = "failed" /\ driver = "web3")

(* sendV1Transaction does not look at the error confirmTransaction returns. *)
IsConfirmed == status = "confirmed" \/ (status = "failed" /\ driver = "web3")

Proceed ==
  /\ pc = "await"
  /\ IsConfirmed
  /\ IF messages # <<>>
     THEN pc' = "send" /\ UNCHANGED <<step, read, messages, report>>
     ELSE NextCall
  /\ UNCHANGED <<driver, capacity, cluster, fault>>

(* sendAndConfirm throws when the transaction failed. *)
ThrowFailed ==
  /\ pc = "await"
  /\ status = "failed" /\ driver # "web3"
  /\ Throw
  /\ UNCHANGED <<driver, capacity, cluster, fault>>

(* Mutant: the wait for an expired transaction has no end. *)
GiveUpOnAirdrop ==
  /\ pc = "await"
  /\ status \notin {"confirmed", "failed"}
  /\ driver # "web3" /\ Now.plan = "airdrop"
  /\ Throw
  /\ fault' = TRUE
  /\ UNCHANGED <<driver, capacity, cluster>>

(* The blockhash expires before the transaction is confirmed, or the 60 seconds
   of kit's airdrop helper are over. *)
GiveUp ==
  /\ pc = "await"
  /\ status \notin {"confirmed", "failed"}
  /\ expired \/ (driver # "web3" /\ Now.plan = "airdrop")
  /\ Throw
  /\ fault' = TRUE
  /\ UNCHANGED <<driver, capacity, cluster>>

(* Any call to the node may fail. *)
CallFails ==
  /\ pc # "done"
  /\ Throw
  /\ fault' = TRUE
  /\ UNCHANGED <<driver, capacity, cluster>>

(* getTransaction of the signature just confirmed; null throws. *)
ReadBack ==
  /\ AtCall("start", {"readBack"})
  /\ IF status \in {"confirmed", "failed"} THEN NextCall ELSE Throw
  /\ UNCHANGED <<driver, capacity, cluster, fault>>

(* What fetchPartyBalance decrypts with the owner's key. *)
Balance(p) == confirmed.acct[p].decryptable

(* Mutant: no balance is compared. *)
CheckNothing ==
  /\ AtCall("start", {"check"})
  /\ NextCall
  /\ UNCHANGED <<driver, capacity, cluster, fault>>

CheckBalances ==
  /\ AtCall("start", {"check"})
  /\ IF Balance("sender") = Starting - Amount /\ Balance("recipient") = Amount
     THEN NextCall
     ELSE Throw
  /\ UNCHANGED <<driver, capacity, cluster, fault>>

ProgramStep ==
  \/ Gate \/ ReadAccounts \/ Build \/ Submit \/ Proceed \/ ThrowFailed \/ GiveUp
  \/ ReadBack \/ CheckBalances

Next ==
  \/ ProgramStep
  \/ CallFails
  \/ Activate \/ Land \/ Confirm \/ DropFork \/ Expire

Spec == Init /\ [][Next]_vars

(* The program runs and blockhashes age.  Nothing is assumed of landing. *)
FairSpec == Spec /\ WF_vars(ProgramStep) /\ WF_vars(Expire)
-----------------------------------------------------------------------------
(* The balance an owner reads is the balance that is there.  Each driver works
   it out from an account it read before it sent the instruction that stores it. *)
ReadableBalanceIsBalance ==
  \A p \in Parties : tip.acct[p].decryptable = tip.acct[p].available

(* A run fails only on a fault from outside: a failed call, a transaction that
   failed or expired, a cluster without v1, or a plan too large for a message.
   No read is too early and no plan stale, however the setup was split. *)
FailsOnlyOnFault ==
  report = "error" =>
    \/ fault
    \/ Now.packs = "one" /\ Len(Plan(Now)) > capacity

Transfer == INSTANCE AtomicTransfer WITH
  held <- [p \in Parties |-> Held(confirmed, p)]

(* The whole program implements the abstract transfer. *)
ImplementsAtomicTransfer == Transfer!ASpec

(* Every run ends. *)
Ends == <>(pc = "done")
=============================================================================
