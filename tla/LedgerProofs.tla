---------------------------- MODULE LedgerProofs ----------------------------
(***************************************************************************)
(* What every client may count on of the cluster: its types, and that what *)
(* is confirmed stays as it is.                                            *)
(***************************************************************************)
EXTENDS Ledger, TLAPS

(* Transaction t is settled and stays so: its status only rises. *)
Fixed(t) ==
  /\ Settled(t)'
  /\ status'[t].slot = status[t].slot
  /\ status'[t].err = status[t].err

(* No step of the cluster undoes or moves a settled transaction. *)
LEMMA SettledStays ==
  ASSUME LedgerTypeOK, LedgerNext, NEW t \in Txs, Settled(t)
  PROVE  Fixed(t)
<1>1. status \in [Txs -> Status \cup {Nil}] /\ status[t] \in Status
  BY DEF LedgerTypeOK, Settled
<1>2. ASSUME NEW x \in Txs, NEW n \in Slots, NEW err \in BOOLEAN, Land(x, n, err)
      PROVE  Fixed(t)
  BY <1>1, <1>2 DEF Land, Fixed, Settled
<1>3. ASSUME NEW n \in Slots, NEW from, NEW to \in {"confirmed", "finalized"},
             Rise(n, from, to)
      PROVE  Fixed(t)
  <2> DEFINE risen == [status[t] EXCEPT !.level = to]
  <2>1. status'[t] \in {status[t], risen}
    BY <1>3 DEF Rise
  <2>2. risen \in Status /\ risen.level = to
        /\ risen.slot = status[t].slot /\ risen.err = status[t].err
    BY <1>1 DEF Status
  <2>3. risen # Nil
    BY <2>2, LedgerAssumption
  <2>4. QED
    BY <2>1, <2>2, <2>3 DEF Fixed, Settled
<1>4. ASSUME NEW n \in Slots, DropFork(n) PROVE Fixed(t)
  BY <1>4 DEF DropFork, Fixed, Settled
<1>5. CASE Expire
  BY <1>5 DEF Expire, Fixed, Settled
<1>6. QED
  BY <1>2, <1>3, <1>4, <1>5 DEF LedgerNext
(* The cluster keeps its types. *)
LEMMA LedgerType ==
  ASSUME LedgerTypeOK, LedgerNext
  PROVE  LedgerTypeOK' /\ fetched' = fetched /\ lifetime' = lifetime
<1>1. ASSUME NEW x \in Txs, NEW n \in Slots, NEW err \in BOOLEAN, Land(x, n, err)
      PROVE  LedgerTypeOK' /\ fetched' = fetched /\ lifetime' = lifetime
  BY <1>1 DEF Land, LedgerTypeOK, Status
<1>2. ASSUME NEW n \in Slots, NEW from, NEW to \in {"confirmed", "finalized"},
             Rise(n, from, to)
      PROVE  LedgerTypeOK' /\ fetched' = fetched /\ lifetime' = lifetime
  <2>1. ASSUME NEW x \in Txs, status[x] # Nil
        PROVE  [status[x] EXCEPT !.level = to] \in Status
    BY <2>1 DEF LedgerTypeOK, Status
  <2>2. status' \in [Txs -> Status \cup {Nil}]
    BY <1>2, <2>1 DEF Rise, LedgerTypeOK
  <2>3. QED
    BY <1>2, <2>2 DEF Rise, LedgerTypeOK
<1>3. ASSUME NEW n \in Slots, DropFork(n)
      PROVE  LedgerTypeOK' /\ fetched' = fetched /\ lifetime' = lifetime
  BY <1>3 DEF DropFork, LedgerTypeOK
<1>4. ASSUME Expire PROVE LedgerTypeOK' /\ fetched' = fetched /\ lifetime' = lifetime
  BY <1>4 DEF Expire, LedgerTypeOK
<1>5. QED
  BY <1>1, <1>2, <1>3, <1>4 DEF LedgerNext
=============================================================================
