----------------------------- MODULE Token2022 -----------------------------
(***************************************************************************)
(* What the confidential-transfer programs ask of the cluster: a payer, a  *)
(* mint, two token accounts with a public, a pending and an available      *)
(* balance, and the proof contexts a transfer reads.  The programs are not *)
(* in this repository: each instruction is modelled from what the drivers  *)
(* rely on it to check and to do.                                          *)
(***************************************************************************)
EXTENDS Naturals, SequencesExt

CONSTANT Failed   \* the result of a transaction that fails

Parties == {"sender", "recipient"}

(* The three proofs of a confidential transfer. *)
Proofs == {"equality", "validity", "range"}

(* `available` is the encrypted balance, `decryptable` the copy of it the owner
   can read and has to keep in step. *)
NoAccount == [stage |-> 0, public |-> 0, pending |-> 0, available |-> 0, decryptable |-> 0]
Account == [stage : 0..2, public : Nat, pending : Nat, available : Nat, decryptable : Nat]
Chain == [funded : BOOLEAN, mint : 0..2, acct : [Parties -> Account], open : SUBSET Proofs]

EmptyChain == [funded |-> FALSE, mint |-> 0, acct |-> [p \in Parties |-> NoAccount], open |-> {}]

(* An instruction: its operation, what it is about, the amount or the balance
   it is bound to, and the owner's new readable balance. *)
Ix(op, on, value, next) == [op |-> op, on |-> on, value |-> value, next |-> next]

(* What the programs check before an instruction takes effect. *)
Allowed(ix, s) ==
  LET account == IF ix.on \in Parties THEN s.acct[ix.on] ELSE NoAccount
  IN \/ ix.op \in {"airdrop"}
     \/ ix.op = "allocateMint" /\ s.mint = 0
     \/ ix.op = "initializeMint" /\ s.mint = 1
     \/ ix.op = "createAccount" /\ s.mint = 2 /\ account.stage = 0
     \/ ix.op = "configure" /\ account.stage = 1
     \/ ix.op = "mintTo" /\ account.stage > 0
     \/ ix.op = "deposit" /\ account.stage = 2 /\ account.public >= ix.value
     \/ ix.op = "apply" /\ account.stage = 2
     \/ ix.op = "prove" /\ ix.on \notin s.open
     \/ ix.op = "close" /\ ix.on \in s.open
     \/ /\ ix.op = "transfer"
        /\ s.open = Proofs
        /\ account.available = ix.value
        /\ s.acct["recipient"].stage = 2

(* What it does then.  The proofs of a transfer are bound to the balance the
   sender had when they were made. *)
Effect(ix, s) ==
  CASE ix.op = "airdrop" -> [s EXCEPT !.funded = TRUE]
    [] ix.op \in {"allocateMint", "initializeMint"} -> [s EXCEPT !.mint = @ + 1]
    [] ix.op \in {"createAccount", "configure"} -> [s EXCEPT !.acct[ix.on].stage = @ + 1]
    [] ix.op = "mintTo" -> [s EXCEPT !.acct[ix.on].public = @ + ix.value]
    [] ix.op = "deposit" -> [s EXCEPT !.acct[ix.on].public = @ - ix.value,
                                      !.acct[ix.on].pending = @ + ix.value]
    [] ix.op = "apply" -> [s EXCEPT !.acct[ix.on].available = @ + s.acct[ix.on].pending,
                                    !.acct[ix.on].pending = 0,
                                    !.acct[ix.on].decryptable = ix.next]
    [] ix.op = "prove" -> [s EXCEPT !.open = @ \cup {ix.on}]
    [] ix.op = "close" -> [s EXCEPT !.open = @ \ {ix.on}]
    [] ix.op = "transfer" -> [s EXCEPT !.acct[ix.on].available = ix.next,
                                       !.acct[ix.on].decryptable = ix.next,
                                       !.acct["recipient"].pending = @ + (ix.value - ix.next)]

(* A transaction runs its instructions in order, all or none.  Every one but
   the airdrop is a v1 transaction of the payer's. *)
Apply(ix, s) == IF s # Failed /\ Allowed(ix, s) THEN Effect(ix, s) ELSE Failed

(* The chain after each of its first instructions. *)
After(message, s) ==
  LET after[n \in 0..Len(message)] ==
        IF n = 0 THEN s ELSE Apply(message[n], after[n - 1])
  IN after

Run(message, s, active) ==
  LET airdrop == message[1].op = "airdrop"
  IN IF airdrop \/ (s.funded /\ active) THEN After(message, s)[Len(message)] ELSE Failed

(* Everything a party holds, wherever it is. *)
Held(s, p) == s.acct[p].public + s.acct[p].pending + s.acct[p].available
=============================================================================
