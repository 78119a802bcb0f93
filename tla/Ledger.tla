------------------------------- MODULE Ledger -------------------------------
(***************************************************************************)
(* The cluster, as the clients' RPC calls see it.  Nothing of it is in     *)
(* this repository: it is modelled from what the clients read of it,       *)
(* blockhashes that expire and signature statuses with a slot, an error    *)
(* and a confirmationStatus.                                               *)
(*                                                                         *)
(* Two transactions of one run: the airdrop that funds a fresh payer, and  *)
(* the v1 transfer that payer signs.                                       *)
(***************************************************************************)
EXTENDS Naturals

CONSTANTS
  Nil,      \* no status
  MaxSlot   \* bound on the slots a transaction may land in

Txs == {"airdrop", "transfer"}
Slots == 1..MaxSlot
Status == [slot : Slots, err : BOOLEAN, level : {"processed", "confirmed", "finalized"}]

ASSUME LedgerAssumption ==
  /\ MaxSlot \in Nat \ {0}
  /\ Nil \notin Status \cup Slots

VARIABLES
  fetched,    \* the blockhashes handed out so far, numbered from 1
  expired,    \* how many of them have expired, oldest first
  lifetime,   \* the blockhash of each submitted transaction; 0 before
  status      \* what getSignatureStatuses answers; Nil for "not seen"

ledger == <<fetched, expired, lifetime, status>>

LedgerInit ==
  /\ fetched = 0
  /\ expired = 0
  /\ lifetime = [tx \in Txs |-> 0]
  /\ status = [tx \in Txs |-> Nil]

Settled(tx) == status[tx] # Nil /\ status[tx].level # "processed"
Succeeded(tx) == status[tx] # Nil /\ ~status[tx].err

(* A submitted transaction lands on the fork the node follows, in a slot above
   the settled ones, while its blockhash lives.  The transfer needs a payer. *)
Land(tx, slot, err) ==
  /\ lifetime[tx] > expired
  /\ status[tx] = Nil
  /\ \A other \in Txs : Settled(other) => status[other].slot < slot
  /\ tx = "transfer" => Succeeded("airdrop") /\ status["airdrop"].slot <= slot
  /\ status' = [status EXCEPT ![tx] = [slot |-> slot, err |-> err, level |-> "processed"]]
  /\ UNCHANGED <<fetched, expired, lifetime>>

(* Every status at one level, up to a slot, rises to the next. *)
Rise(slot, from, to) ==
  LET risen == {tx \in Txs : status[tx] # Nil /\ status[tx].level = from
                                              /\ status[tx].slot <= slot}
  IN /\ risen # {}
     /\ status' = [tx \in Txs |-> IF tx \in risen
                                  THEN [status[tx] EXCEPT !.level = to]
                                  ELSE status[tx]]
     /\ UNCHANGED <<fetched, expired, lifetime>>

(* The node leaves a fork: what landed on it from `slot` on is undone.  A
   confirmed slot is never left. *)
DropFork(slot) ==
  LET dropped == {tx \in Txs : status[tx] # Nil /\ status[tx].slot >= slot}
  IN /\ dropped # {}
     /\ \A tx \in dropped : ~Settled(tx)
     /\ status' = [tx \in Txs |-> IF tx \in dropped THEN Nil ELSE status[tx]]
     /\ UNCHANGED <<fetched, expired, lifetime>>

(* The oldest live blockhash passes its last valid block height. *)
Expire ==
  /\ expired < fetched
  /\ expired' = expired + 1
  /\ UNCHANGED <<fetched, lifetime, status>>

LedgerNext ==
  \/ \E tx \in Txs, slot \in Slots, err \in BOOLEAN : Land(tx, slot, err)
  \/ \E slot \in Slots : Rise(slot, "processed", "confirmed")
  \/ \E slot \in Slots : Rise(slot, "confirmed", "finalized")
  \/ \E slot \in Slots : DropFork(slot)
  \/ Expire
-----------------------------------------------------------------------------
LedgerTypeOK ==
  /\ fetched \in Nat
  /\ expired \in 0..fetched
  /\ lifetime \in [Txs -> 0..fetched]
  /\ status \in [Txs -> Status \cup {Nil}]
=============================================================================
