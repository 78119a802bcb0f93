--------------------------- MODULE ExampleProofs ----------------------------
(***************************************************************************)
(* Proofs about two examples that stand by themselves: the durable nonce, for*)
(* any number of forks, and the wallet table, for any wallets and components.*)
(***************************************************************************)
EXTENDS Nonce, WalletTable, TLAPS

-----------------------------------------------------------------------------
(***************************************************************************)
(* The durable nonce: what ts/kit/src/nonce.ts reports is what has happened,*)
(* and the transfer it sent stays valid until it lands.                    *)
(***************************************************************************)

(* The chain on which the transaction sent last has not landed ... *)
Before(s) ==
  CASE tx = "airdrop" -> s.nonce = 0 /\ s.paid = 0
    [] tx = "setup" -> s.funded /\ s.nonce = 0 /\ s.paid = 0
    [] tx = "transfer" -> s.nonce = nonce /\ s.paid = 0

(* ... and the one on which it has, without an error. *)
Afterwards(s) ==
  CASE tx = "airdrop" -> s.funded /\ s.nonce = 0 /\ s.paid = 0
    [] tx = "setup" -> s.paid = 0
    [] tx = "transfer" -> s.nonce # nonce /\ s.paid = 1

(* How the chain's two ends differ by the transaction in flight. *)
ChainInv ==
  /\ tip.nonce <= fresh /\ confirmed.nonce <= fresh
  /\ tx = "transfer" => ~expired
  /\ status \notin {"landed", "landedFailed"} => tip = confirmed
  /\ status \notin {"confirmed", "failed"} => Before(confirmed)
  /\ status \in {"landed", "confirmed"} => Afterwards(tip)

(* Where the program is tells what has been confirmed. *)
ProgramInv ==
  /\ pc \in {"gate", "airdrop"} => tx = "airdrop" /\ status = "none"
  /\ pc = "setup" => tx = "airdrop" /\ status = "confirmed"
  /\ pc \in {"fetchNonce", "transfer"} => tx = "setup" /\ status = "confirmed"
  /\ pc = "transfer" => nonce = confirmed.nonce
  /\ pc \in {"readBack", "fetchAgain"} => tx = "transfer" /\ status = "confirmed"
  /\ pc = "await" => status # "none"
  /\ report # "none" => pc = "done"
  /\ report = "ok" => tx = "transfer" /\ status = "confirmed"
  /\ MovedNonceWasOurs
  /\ ChecksNeverFire

(* DoneMeansPaidOnce is not inductive: it takes the nonce's history to know that
   a transfer bound to it has paid once when it is seen confirmed. *)
NonceInv == TypeOK /\ ChainInv /\ ProgramInv
-----------------------------------------------------------------------------
LEMMA NonceInitially == ASSUME Init PROVE NonceInv
<1>1. TypeOK
  <2>1. [funded |-> FALSE, nonce |-> 0, paid |-> 0] \in Chain
    BY DEF Chain
  <2>2. tip \in Chain /\ confirmed \in Chain
    BY <2>1 DEF Init
  <2>3. nonce \in 0..fresh /\ drops \in 0..MaxDrops /\ fresh \in Nat
    BY NonceAssumption DEF Init
  <2> QED BY <2>2, <2>3 DEF Init, TypeOK, Txs
<1>2. ChainInv
  BY DEF Init, ChainInv, Before, Afterwards
<1>3. ProgramInv
  BY DEF Init, ProgramInv, MovedNonceWasOurs, ChecksNeverFire
<1> QED BY <1>1, <1>2, <1>3 DEF NonceInv

(* What a landed transaction leaves on the chain. *)
LEMMA ResultLands ==
  ASSUME NonceInv, NEW failed \in BOOLEAN, status = "sent"
  PROVE  /\ Result(failed) \in Chain
         /\ Result(failed).nonce <= fresh + 1
         /\ ~failed => Afterwards(Result(failed))
<1>1. /\ tip = confirmed /\ Before(tip)
      /\ tip \in Chain /\ fresh \in Nat /\ tip.nonce <= fresh /\ tx \in Txs
  BY DEF NonceInv, TypeOK, ChainInv
<1>2. CASE tx = "airdrop"
  <2>1. CASE failed
    BY <1>1, <1>2, <2>1 DEF Result, Before, TypeOK, NonceInv
  <2>2. CASE ~failed
    <3>1. Result(failed) = [tip EXCEPT !.funded = TRUE]
      BY <1>2, <2>2 DEF Result
    <3>2. /\ Result(failed) \in Chain
          /\ Result(failed).funded /\ Result(failed).nonce = 0 /\ Result(failed).paid = 0
      BY <1>1, <1>2, <3>1 DEF Before, Chain
    <3> QED BY <1>1, <1>2, <3>2 DEF Afterwards
  <2> QED BY <2>1, <2>2
<1>3. CASE tx = "setup"
  BY <1>1, <1>3 DEF Result, Before, Afterwards, Chain
<1>4. CASE tx = "transfer"
  <2>1. tip.nonce = nonce /\ tip.paid = 0
    BY <1>1, <1>4 DEF Before
  <2>2. Result(failed) = [funded |-> tip.funded, nonce |-> fresh + 1,
                          paid |-> IF failed THEN tip.paid ELSE tip.paid + 1]
    BY <1>4 DEF Result
  <2>3. Result(failed) \in Chain
    BY <1>1, <2>2 DEF Chain
  <2>4. Result(failed).nonce = fresh + 1 /\ (~failed => Result(failed).paid = 1)
    BY <1>1, <2>1, <2>2
  <2>5. nonce <= fresh /\ nonce \in Nat
    BY DEF NonceInv, TypeOK
  <2> QED BY <1>1, <1>4, <2>3, <2>4, <2>5 DEF Afterwards
<1> QED BY <1>1, <1>2, <1>3, <1>4 DEF Txs

(* No step of the cluster disturbs what the program relies on. *)
LEMMA ClusterKeeps ==
  ASSUME NonceInv,
         (\E failed \in BOOLEAN : Land(failed)) \/ Confirm \/ DropFork \/ Expire
  PROVE  NonceInv'
<1> USE DEF NonceInv, program
<1>1. ASSUME NEW failed \in BOOLEAN, Land(failed) PROVE NonceInv'
  <2>1. TypeOK'
    BY <1>1, ResultLands DEF Land, TypeOK
  <2>2. ChainInv'
    <3>1. Result(failed).nonce <= fresh + 1 /\ (~failed => Afterwards(Result(failed)))
      BY <1>1, ResultLands DEF Land
    <3>2. confirmed.nonce <= fresh' /\ tip'.nonce <= fresh'
      BY <1>1, <3>1 DEF Land, TypeOK, ChainInv, Chain
    <3>3. Before(confirmed)' /\ (~failed => Afterwards(tip)')
      BY <1>1, <3>1 DEF Land, ChainInv, Before, Afterwards
    <3> QED BY <1>1, <3>2, <3>3 DEF Land, ChainInv
  <2>3. ProgramInv'
    BY <1>1 DEF Land, ProgramInv, MovedNonceWasOurs, ChecksNeverFire
  <2> QED BY <2>1, <2>2, <2>3
<1>2. ASSUME Confirm PROVE NonceInv'
  <2>1. TypeOK' BY <1>2 DEF Confirm, TypeOK
  <2>2. ChainInv' BY <1>2 DEF Confirm, ChainInv, Before, Afterwards
  <2>3. ProgramInv' BY <1>2 DEF Confirm, ProgramInv, MovedNonceWasOurs, ChecksNeverFire
  <2> QED BY <2>1, <2>2, <2>3
<1>3. ASSUME DropFork PROVE NonceInv'
  <2>1. TypeOK' BY <1>3, NonceAssumption DEF DropFork, TypeOK
  <2>2. ChainInv' BY <1>3 DEF DropFork, ChainInv, Before, Afterwards
  <2>3. ProgramInv' BY <1>3 DEF DropFork, ProgramInv, MovedNonceWasOurs, ChecksNeverFire
  <2> QED BY <2>1, <2>2, <2>3
<1>4. ASSUME Expire PROVE NonceInv'
  <2>1. TypeOK' BY <1>4 DEF Expire, TypeOK
  <2>2. ChainInv' BY <1>4 DEF Expire, ChainInv, Before, Afterwards
  <2>3. ProgramInv' BY <1>4 DEF Expire, ProgramInv, MovedNonceWasOurs, ChecksNeverFire
  <2> QED BY <2>1, <2>2, <2>3
<1> QED BY <1>1, <1>2, <1>3, <1>4

(* When the program sends, the one before is settled and the cluster accepts. *)
LEMMA SendIsReady ==
  ASSUME NonceInv, NEW kind \in Txs, pc = kind
  PROVE  Valid(kind, confirmed) /\ status \in {"none", "confirmed"}
BY DEF NonceInv, ChainInv, ProgramInv, Valid, Txs, Afterwards

LEMMA SendKeeps ==
  ASSUME NonceInv, NEW kind \in Txs, Send(kind)
  PROVE  NonceInv'
<1> USE DEF NonceInv, Send, Throw, Goto
<1>1. /\ Valid(kind, confirmed) /\ status \in {"none", "confirmed"}
      /\ status' = "sent"
      /\ (pc' = "await" /\ report' = report) \/ (pc' = "done" /\ report' = "rpc")
      /\ UNCHANGED <<nonce, tip, confirmed, fresh, drops>> /\ tx' = kind /\ expired' = FALSE
  BY SendIsReady
<1>2. TypeOK' BY <1>1 DEF TypeOK
<1>3. tip = confirmed BY <1>1 DEF ChainInv
<1>4. Before(confirmed)'
  <2>1. CASE kind = "airdrop"
    BY <1>1, <2>1 DEF ChainInv, ProgramInv, Before
  <2>2. CASE kind = "setup"
    BY <1>1, <1>3, <2>2 DEF ChainInv, ProgramInv, Before, Afterwards
  <2>3. CASE kind = "transfer"
    BY <1>1, <1>3, <2>3 DEF ChainInv, ProgramInv, Before, Afterwards
  <2> QED BY <2>1, <2>2, <2>3 DEF Txs
<1>5. ChainInv' BY <1>1, <1>3, <1>4 DEF ChainInv
<1>6. ProgramInv' BY <1>1 DEF ProgramInv, Txs, MovedNonceWasOurs, ChecksNeverFire
<1> QED BY <1>2, <1>5, <1>6

(* A step that leaves the cluster alone keeps ChainInv if it leaves the nonce
   alone, or sets it before the transfer is built. *)
LEMMA ChainInvKept ==
  ASSUME NonceInv, UNCHANGED cluster, nonce' = nonce \/ tx # "transfer"
  PROVE  ChainInv'
BY DEF NonceInv, TypeOK, Txs, ChainInv, cluster, Before, Afterwards

LEMMA ProgramKeeps ==
  ASSUME NonceInv, ProgramStep \/ CallFails
  PROVE  NonceInv'
<1> USE DEF NonceInv, Throw, Goto
<1>1. ASSUME Gate PROVE NonceInv'
  BY <1>1, ChainInvKept
  DEF Gate, TypeOK, ProgramInv, cluster, MovedNonceWasOurs, ChecksNeverFire
<1>2. ASSUME SendAirdrop \/ SendSetup \/ SendTransfer PROVE NonceInv'
  BY <1>2, SendKeeps DEF SendAirdrop, SendSetup, SendTransfer, Txs
<1>3. ASSUME Await PROVE NonceInv'
  <2>1. ChainInv' BY <1>3, ChainInvKept DEF Await
  <2>2. pc' \in {"setup", "fetchNonce", "readBack"} /\ UNCHANGED <<cluster, nonce, report>>
    BY <1>3 DEF Await, After, TypeOK, Txs
  <2>3. /\ pc' = "setup" => tx = "airdrop"
        /\ pc' = "fetchNonce" => tx = "setup"
        /\ pc' = "readBack" => tx = "transfer"
    BY <1>3 DEF Await, After, TypeOK, Txs
  <2>4. ProgramInv'
    BY <1>3, <2>2, <2>3
    DEF Await, IsConfirmed, ProgramInv, cluster, MovedNonceWasOurs, ChecksNeverFire
  <2>5. TypeOK' BY <2>2 DEF TypeOK, cluster, Txs
  <2> QED BY <2>1, <2>4, <2>5
<1>4. ASSUME AwaitFails \/ GiveUp \/ CallFails PROVE NonceInv'
  BY <1>4, ChainInvKept
  DEF AwaitFails, GiveUp, CallFails, TypeOK, ProgramInv, cluster, MovedNonceWasOurs,
      ChecksNeverFire
<1>5. ASSUME NonceMoved PROVE NonceInv'
  <2>1. status \in {"confirmed", "failed"}
    BY <1>5 DEF NonceMoved, ChainInv, Before
  <2> QED BY <1>5, <2>1, ChainInvKept
    DEF NonceMoved, TypeOK, ProgramInv, cluster, MovedNonceWasOurs, ChecksNeverFire
<1>6. ASSUME FetchNonce PROVE NonceInv'
  <2>1. TypeOK'
    BY <1>6 DEF FetchNonce, TypeOK, ChainInv, cluster, Txs, Chain
  <2>2. ChainInv' BY <1>6, ChainInvKept DEF FetchNonce, ProgramInv
  <2>3. ProgramInv'
    BY <1>6 DEF FetchNonce, ProgramInv, cluster, MovedNonceWasOurs, ChecksNeverFire
  <2> QED BY <2>1, <2>2, <2>3
<1>7. ASSUME ReadBack PROVE NonceInv'
  BY <1>7, ChainInvKept
  DEF ReadBack, TypeOK, ProgramInv, cluster, MovedNonceWasOurs, ChecksNeverFire
<1>8. ASSUME FetchAgain PROVE NonceInv'
  <2>1. confirmed.nonce # nonce
    BY <1>8 DEF FetchAgain, ChainInv, ProgramInv, Afterwards
  <2> QED BY <1>8, <2>1, ChainInvKept
    DEF FetchAgain, TypeOK, ProgramInv, cluster, MovedNonceWasOurs, ChecksNeverFire
<1> QED BY <1>1, <1>2, <1>3, <1>4, <1>5, <1>6, <1>7, <1>8 DEF ProgramStep

LEMMA NonceKept == ASSUME NonceInv, [Next]_vars PROVE NonceInv'
<1>1. CASE UNCHANGED vars
  BY <1>1
  DEF NonceInv, TypeOK, ChainInv, ProgramInv, Before, Afterwards, MovedNonceWasOurs,
      ChecksNeverFire, vars, cluster, program
<1> QED BY <1>1, ClusterKeeps, ProgramKeeps DEF Next

LEMMA NonceInvariant == Spec => []NonceInv
<1>1. Init => NonceInv BY NonceInitially
<1>2. NonceInv /\ [Next]_vars => NonceInv' BY NonceKept
<1> QED BY <1>1, <1>2, PTL DEF Spec
-----------------------------------------------------------------------------
(* The variables of the program and of the cluster keep their types. *)
THEOREM NonceTypeCorrect == Spec => []TypeOK
<1>1. NonceInv => TypeOK BY DEF NonceInv
<1> QED BY <1>1, NonceInvariant, PTL

(* A run of nonce.ts that reports success has paid exactly once. *)
THEOREM SuccessPaidOnce == Spec => []DoneMeansPaidOnce
<1>1. NonceInv => DoneMeansPaidOnce
  BY DEF NonceInv, ChainInv, ProgramInv, Afterwards, DoneMeansPaidOnce
<1> QED BY <1>1, NonceInvariant, PTL

(* The transfer cannot be invalidated under its sender. *)
THEOREM TransferStaysValid == Spec => []SentTransferStaysValid
<1>1. NonceInv => SentTransferStaysValid
  BY DEF NonceInv, ChainInv, Before, Valid, SentTransferStaysValid
<1> QED BY <1>1, NonceInvariant, PTL

(* A nonce reported as moved was moved by the transfer itself. *)
THEOREM MovedByTheTransfer == Spec => []MovedNonceWasOurs
<1>1. NonceInv => MovedNonceWasOurs BY DEF NonceInv, ProgramInv
<1> QED BY <1>1, NonceInvariant, PTL

(* The checks at the end of nonce.ts are never the ones that stop it. *)
THEOREM ChecksHold == Spec => []ChecksNeverFire
<1>1. NonceInv => ChecksNeverFire BY DEF NonceInv, ProgramInv
<1> QED BY <1>1, NonceInvariant, PTL

(* Nothing is sent on top of a transaction that is not confirmed. *)
THEOREM SendsOneAtATime == Spec => OneAtATime
<1>1. ASSUME NonceInv, [Next]_vars, tx' # tx
      PROVE  status \in {"none", "confirmed"}
  <2>1. PICK kind \in Txs : Send(kind)
    BY <1>1
    DEF Next, ProgramStep, CallFails, Land, Confirm, DropFork, Expire, Gate, SendAirdrop,
        SendSetup, SendTransfer, Await, AwaitFails, GiveUp, NonceMoved, FetchNonce,
        ReadBack, FetchAgain, vars, cluster, Txs
  <2> QED BY <1>1, <2>1, SendIsReady DEF Send
<1>2. NonceInv /\ [Next]_vars => [tx' # tx => status \in {"none", "confirmed"}]_vars
  BY <1>1
<1> QED BY <1>2, NonceInvariant, PTL DEF Spec, OneAtATime

-----------------------------------------------------------------------------
(***************************************************************************)
(* The wallet table: the types of the store, the shared snapshot, the      *)
(* listeners and what the tables show.                                     *)
(***************************************************************************)

(* The off functions a subscription holds are those of the registered wallets.
   Refresh finds what is gone and what is new by them, so the listeners cannot
   be right unless they are. *)
OffChangesFollowRegistry ==
  \A c \in Components : offChanges[c] = IF c \in subscribed THEN registered ELSE {}

(* The properties need each other: a wallet's change tells the components that
   listen to it, which are all the subscribed ones only by OneListenerEach. *)
StoreInv ==
  /\ TableTypeOK
  /\ SnapshotIsRegistry
  /\ OffChangesFollowRegistry
  /\ OneListenerEach

TableInv == StoreInv /\ TableIsCurrent
-----------------------------------------------------------------------------
(* The listeners of subscribed components, told of an event, leave the store as
   the invariant wants it, if they are all of them or the registry is the one
   they knew. *)
LEMMA UpdateKeepsStore ==
  ASSUME StoreInv,
         NEW subscribers \in SUBSET subscribed,
         registered' \subseteq Wallets,
         registered' = registered \/ subscribers = subscribed,
         Update(subscribers, registered'),
         lists' \in [Wallets -> SUBSET Features],
         UNCHANGED <<mounted, shown>>
  PROVE  StoreInv'
<1> USE DEF StoreInv, TableTypeOK, Update
<1>1. TableTypeOK'
  <2>1. offChanges' \in [Components -> SUBSET Wallets] BY DEF Refresh
  <2>2. listeners' \in [Wallets -> SUBSET Components] BY DEF Refresh
  <2> QED BY <2>1, <2>2
<1>2. SnapshotIsRegistry'
  BY DEF SnapshotIsRegistry
<1>3. OffChangesFollowRegistry'
  BY DEF OffChangesFollowRegistry, Refresh
<1>4. OneListenerEach'
  <2> SUFFICES ASSUME NEW w \in Wallets
               PROVE  listeners'[w] = IF w \in registered' \cap Announced
                                      THEN subscribed ELSE {}
    BY DEF OneListenerEach
  <2>1. listeners[w] = IF w \in registered \cap Announced THEN subscribed ELSE {}
    BY DEF OneListenerEach
  <2>2. \A c \in subscribers : offChanges[c] = registered
    BY DEF OffChangesFollowRegistry
  <2>3. listeners'[w] =
          LET gone == {c \in subscribers : w \in offChanges[c] \ registered'}
              new == {c \in subscribers : w \in registered' \ offChanges[c]}
          IN IF w \in Announced THEN (listeners[w] \ gone) \cup new ELSE listeners[w]
    BY DEF Refresh
  <2>4. CASE w \notin Announced
    BY <2>1, <2>3, <2>4
  <2>5. CASE w \in Announced /\ w \in registered'
    <3>1. {c \in subscribers : w \in offChanges[c] \ registered'} = {}
      BY <2>5
    <3>2. {c \in subscribers : w \in registered' \ offChanges[c]}
            = IF w \in registered THEN {} ELSE subscribers
      BY <2>2, <2>5
    <3> QED BY <2>1, <2>3, <2>5, <3>1, <3>2
  <2>6. CASE w \in Announced /\ w \notin registered'
    <3>1. {c \in subscribers : w \in offChanges[c] \ registered'}
            = IF w \in registered THEN subscribers ELSE {}
      BY <2>2, <2>6
    <3>2. {c \in subscribers : w \in registered' \ offChanges[c]} = {}
      BY <2>6
    <3> QED BY <2>1, <2>3, <2>6, <3>1, <3>2
  <2> QED BY <2>4, <2>5, <2>6
<1> QED BY <1>1, <1>2, <1>3, <1>4

(* Only subscribed components listen. *)
LEMMA ListenersAreSubscribed ==
  ASSUME StoreInv, NEW w \in Wallets
  PROVE  listeners[w] \subseteq subscribed
BY DEF StoreInv, OneListenerEach

(* The rows of a snapshot. *)
LEMMA RowsOfSnapshot ==
  ASSUME TableTypeOK
  PROVE  /\ Rows \subseteq [wallet : Solana, v1 : BOOLEAN]
         /\ {row.wallet : row \in Rows} = snapshot \cap Solana
         /\ \A row \in Rows : row = Row(row.wallet)
<1>1. \A w \in Wallets : Row(w) \in [wallet : Wallets, v1 : BOOLEAN] /\ Row(w).wallet = w
  BY DEF Row, SupportsV1
<1>2. \A w \in snapshot \cap Solana : Row(w) \in [wallet : Solana, v1 : BOOLEAN]
  BY DEF Row, SupportsV1
<1> QED BY <1>1, <1>2, WalletAssumption DEF Rows, TableTypeOK

LEMMA StoreInitially == ASSUME TableInit PROVE TableInv
BY DEF TableInit, TableInv, StoreInv, TableTypeOK, SnapshotIsRegistry, OffChangesFollowRegistry,
       OneListenerEach, TableIsCurrent

LEMMA StoreKept == ASSUME StoreInv, [TableNext]_tableVars PROVE StoreInv'
<1>1. ASSUME NEW w \in Wallets, Register(w) PROVE StoreInv'
  BY <1>1, UpdateKeepsStore DEF Register, StoreInv, TableTypeOK
<1>2. ASSUME NEW w \in Wallets, Unregister(w) PROVE StoreInv'
  BY <1>2, UpdateKeepsStore DEF Unregister, StoreInv, TableTypeOK
<1>3. ASSUME NEW w \in Wallets, Change(w) PROVE StoreInv'
  <2>1. lists' \in [Wallets -> SUBSET Features]
    BY <1>3 DEF Change, StoreInv, TableTypeOK
  <2>2. registered' \subseteq Wallets /\ registered' = registered
    BY <1>3 DEF Change, StoreInv, TableTypeOK
  <2>3. Update(listeners[w], registered') /\ UNCHANGED <<mounted, shown>>
    BY <1>3, <2>2 DEF Change
  <2> QED BY <2>1, <2>2, <2>3, ListenersAreSubscribed, UpdateKeepsStore
<1>4. ASSUME NEW c \in Components, Mount(c) PROVE StoreInv'
  BY <1>4, RowsOfSnapshot
  DEF Mount, StoreInv, TableTypeOK, SnapshotIsRegistry, OffChangesFollowRegistry,
      OneListenerEach, store, wallets
<1>5. ASSUME NEW c \in Components, Subscribe(c) PROVE StoreInv'
  <2> USE DEF StoreInv, TableTypeOK
  <2>1. offChanges' = [offChanges EXCEPT ![c] = registered]
    BY <1>5 DEF Subscribe, Refresh
  <2>2. \A w \in Wallets :
          listeners'[w] = IF w \in registered \cap Announced THEN listeners[w] \cup {c}
                                                             ELSE listeners[w]
    <3>1. offChanges[c] = {}
      BY <1>5 DEF Subscribe, OffChangesFollowRegistry
    <3> QED BY <1>5, <3>1 DEF Subscribe, Refresh
  <2>3. listeners' \in [Wallets -> SUBSET Components]
    BY <1>5, <2>2 DEF Subscribe, Refresh
  <2>4. TableTypeOK'
    BY <1>5, <2>1, <2>3 DEF Subscribe, wallets
  <2>5. SnapshotIsRegistry' /\ OffChangesFollowRegistry'
    BY <1>5, <2>1 DEF Subscribe, wallets, SnapshotIsRegistry, OffChangesFollowRegistry
  <2>6. OneListenerEach'
    BY <1>5, <2>2 DEF Subscribe, wallets, OneListenerEach
  <2> QED BY <2>4, <2>5, <2>6
<1>6. ASSUME NEW c \in Components, Render(c) PROVE StoreInv'
  BY <1>6, RowsOfSnapshot
  DEF Render, StoreInv, TableTypeOK, SnapshotIsRegistry, OffChangesFollowRegistry,
      OneListenerEach, store, wallets
<1>7. ASSUME NEW c \in Components, Unsubscribe(c) PROVE StoreInv'
  BY <1>7
  DEF Unsubscribe, StoreInv, TableTypeOK, SnapshotIsRegistry, OffChangesFollowRegistry,
      OneListenerEach, wallets, page
<1>8. ASSUME NEW c \in Components, Unmount(c) PROVE StoreInv'
  BY <1>8
  DEF Unmount, StoreInv, TableTypeOK, SnapshotIsRegistry, OffChangesFollowRegistry,
      OneListenerEach, wallets, store
<1>9. CASE UNCHANGED tableVars
  BY <1>9
  DEF StoreInv, TableTypeOK, SnapshotIsRegistry, OffChangesFollowRegistry, OneListenerEach,
      tableVars, wallets, store, page
<1> QED BY <1>1, <1>2, <1>3, <1>4, <1>5, <1>6, <1>7, <1>8, <1>9 DEF TableNext

LEMMA TableKept == ASSUME TableInv, [TableNext]_tableVars PROVE TableIsCurrent'
<1> USE DEF TableInv
<1>1. ASSUME NEW w \in Wallets, Register(w) \/ Unregister(w) PROVE TableIsCurrent'
  <2>1. subscribed' \ dirty' = {}
    BY <1>1 DEF Register, Unregister, Update
  <2> QED BY <2>1 DEF TableIsCurrent
<1>2. ASSUME NEW w \in Wallets, Change(w) PROVE TableIsCurrent'
  <2>1. CASE w \in registered \cap Announced
    <3>1. subscribed' \ dirty' = {}
      BY <1>2, <2>1 DEF Change, Update, StoreInv, OneListenerEach
    <3> QED BY <3>1 DEF TableIsCurrent
  <2>2. CASE w \notin registered \cap Announced
    <3> SUFFICES ASSUME NEW c \in subscribed \ dirty
                 PROVE  /\ {row.wallet : row \in shown[c]} = registered \cap Solana
                        /\ \A row \in shown[c] :
                             row.wallet \in Announced => row = Row(row.wallet)'
      BY <1>2 DEF Change, Update, TableIsCurrent
    <3>1. /\ {row.wallet : row \in shown[c]} = registered \cap Solana
          /\ \A row \in shown[c] : row.wallet \in Announced => row = Row(row.wallet)
      BY DEF TableIsCurrent
    <3>2. \A row \in shown[c] : row.wallet \in Announced => row.wallet # w
      BY <2>2, <3>1
    <3>3. \A v \in Wallets : v # w => lists'[v] = lists[v]
      BY <1>2 DEF Change, StoreInv, TableTypeOK
    <3>4. \A row \in shown[c] : row.wallet \in Wallets
      BY <3>1 DEF StoreInv, TableTypeOK
    <3> QED BY <3>1, <3>2, <3>3, <3>4 DEF Row, SupportsV1
  <2> QED BY <2>1, <2>2
<1>3. ASSUME NEW c \in Components, Mount(c) PROVE TableIsCurrent'
  <2>1. c \notin subscribed
    BY <1>3 DEF Mount, StoreInv, TableTypeOK
  <2> QED BY <1>3, <2>1
    DEF Mount, StoreInv, TableTypeOK, TableIsCurrent, Row, SupportsV1, store, wallets
<1>4. ASSUME NEW c \in Components, Subscribe(c) PROVE TableIsCurrent'
  BY <1>4 DEF Subscribe, TableIsCurrent, Row, SupportsV1, wallets
<1>5. ASSUME NEW c \in Components, Render(c) PROVE TableIsCurrent'
  <2> SUFFICES ASSUME NEW d \in subscribed \ dirty'
               PROVE  /\ {row.wallet : row \in shown'[d]} = registered \cap Solana
                      /\ \A row \in shown'[d] :
                           row.wallet \in Announced => row = Row(row.wallet)
    BY <1>5 DEF Render, TableIsCurrent, Row, SupportsV1, store, wallets
  <2>1. CASE d = c
    <3>1. snapshot = registered
      BY DEF StoreInv, SnapshotIsRegistry
    <3>2. shown'[d] = Rows
      BY <1>5, <2>1 DEF Render, StoreInv, TableTypeOK
    <3> QED BY <3>1, <3>2, RowsOfSnapshot DEF StoreInv
  <2>2. CASE d # c
    <3>1. d \in subscribed \ dirty /\ shown'[d] = shown[d]
      BY <1>5, <2>2 DEF Render, StoreInv, TableTypeOK
    <3> QED BY <3>1 DEF TableIsCurrent
  <2> QED BY <2>1, <2>2
<1>6. ASSUME NEW c \in Components, Unsubscribe(c) PROVE TableIsCurrent'
  BY <1>6 DEF Unsubscribe, TableIsCurrent, Row, SupportsV1, wallets, page
<1>7. ASSUME NEW c \in Components, Unmount(c) PROVE TableIsCurrent'
  BY <1>7
  DEF Unmount, StoreInv, TableTypeOK, TableIsCurrent, Row, SupportsV1, wallets, store
<1>8. CASE UNCHANGED tableVars
  BY <1>8 DEF TableIsCurrent, Row, SupportsV1, tableVars, wallets, store, page
<1> QED BY <1>1, <1>2, <1>3, <1>4, <1>5, <1>6, <1>7, <1>8 DEF TableNext

LEMMA TableInvariant == TableSpec => []TableInv
<1>1. TableInit => TableInv BY StoreInitially
<1>2. TableInv /\ [TableNext]_tableVars => TableInv' BY StoreKept, TableKept DEF TableInv
<1> QED BY <1>1, <1>2, PTL DEF TableSpec
-----------------------------------------------------------------------------
(* The registry, the store and the tables keep their types. *)
THEOREM WalletTableTypeCorrect == TableSpec => []TableTypeOK
<1>1. TableInv => TableTypeOK BY DEF TableInv, StoreInv
<1> QED BY <1>1, TableInvariant, PTL

(* Nothing falls between the snapshot and the subscription of useWallets,
   whatever registers before, between and after them. *)
THEOREM SnapshotFollowsRegistry == TableSpec => []SnapshotIsRegistry
<1>1. TableInv => SnapshotIsRegistry BY DEF TableInv, StoreInv
<1> QED BY <1>1, TableInvariant, PTL

(* refresh leaks no listener and misses none, however wallets and components
   come and go. *)
THEOREM NoListenerLeaks == TableSpec => []OneListenerEach
<1>1. TableInv => OneListenerEach BY DEF TableInv, StoreInv
<1> QED BY <1>1, TableInvariant, PTL

(* A table with no rendering due shows the registry. *)
THEOREM TablesAreCurrent == TableSpec => []TableIsCurrent
<1>1. TableInv => TableIsCurrent BY DEF TableInv
<1> QED BY <1>1, TableInvariant, PTL
=============================================================================
