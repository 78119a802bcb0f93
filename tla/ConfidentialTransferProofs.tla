--------------------- MODULE ConfidentialTransferProofs ---------------------
(***************************************************************************)
(* Proofs about ConfidentialTransfer, for every balance, amount and        *)
(* message capacity: the balance an owner reads is the one that is there,  *)
(* a run fails only on a fault from outside, and the program of every      *)
(* driver implements the atomic transfer.                                  *)
(*                                                                         *)
(* A program's work is counted in units, one for each instruction of its   *)
(* plans, the seven of the transfer being one.                             *)
(***************************************************************************)
EXTENDS ConfidentialTransfer, WellFoundedInduction, SequenceTheorems, TLAPS

(***************************************************************************)
(* The inductive invariant.                                                *)
(***************************************************************************)
(* The call the program is at, counted as kit counts: the other two do not ask
   for the feature gate. *)
Position == IF driver = "kit" THEN step ELSE step + 1

(* The calls every driver makes, and the units done before each. *)
PlanAt == <<"gate", "airdrop", "mint", "party", "party", "mintTo", "deposit", "apply",
            "transfer", "readBack", "apply", "check">>
Before == <<0, 0, 1, 3, 5, 7, 8, 9, 10, 11, 11, 12>>

Sending == Now.plan \notin {"gate", "readBack", "check"}
Unsettled == status \in {"sent", "landed", "landedFailed"}

(* The books after the first b of five entries: the mint, the deposit, the
   sender's apply, the transfer and the recipient's apply. *)
Books(s, b) ==
  LET sender == s.acct["sender"]
      recipient == s.acct["recipient"]
  IN /\ sender.public = IF b = 1 THEN Starting ELSE 0
     /\ sender.pending = IF b = 2 THEN Starting ELSE 0
     /\ sender.available = IF b = 3 THEN Starting ELSE IF b >= 4 THEN Starting - Amount ELSE 0
     /\ sender.decryptable = sender.available
     /\ recipient.public = 0
     /\ recipient.pending = IF b = 4 THEN Amount ELSE 0
     /\ recipient.available = IF b = 5 THEN Amount ELSE 0
     /\ recipient.decryptable = recipient.available

(* The payer, the mint and the accounts after the first k of seven units. *)
Setup(s, k) ==
  /\ k >= 1 => s.funded
  /\ s.mint = IF k >= 3 THEN 2 ELSE IF k = 2 THEN 1 ELSE 0
  /\ s.acct["sender"].stage = IF k >= 5 THEN 2 ELSE IF k = 4 THEN 1 ELSE 0
  /\ s.acct["recipient"].stage = IF k >= 7 THEN 2 ELSE IF k = 6 THEN 1 ELSE 0
  /\ s.open = {}

(* The entries of the books among the first k units. *)
Entries(k) == IF k <= 7 THEN 0 ELSE k - 7

(* The chain after k units.  web3.js v3 goes on when one has failed, so that an
   entry may be missing; without a fault none is, and the setup is complete. *)
AtUnit(s, k, faultless) ==
  /\ s \in Chain
  /\ \E b \in 0..Entries(k) :
       /\ Books(s, b)
       /\ faultless => b = Entries(k) /\ Setup(s, IF k <= 7 THEN k ELSE 7)

(* A transaction makes one entry at most. *)
OneEntry(s, t) ==
  \E b \in 0..5 : Books(s, b) /\ (Books(t, b) \/ (b < 5 /\ Books(t, b + 1)))

(* What the call has to send; the messages a plan may be packed into, what comes
   after each, and the units done before it and after it, at a place of the
   program. *)
Due == Plan(Now)

FirstHalf(plan, m) == Len(plan) = 2 /\ m = <<plan[1]>>
SecondHalf(plan, m) == Len(plan) = 2 /\ m = <<plan[2]>>
Halves(plan) == IF Len(plan) = 2 THEN {<<plan[1]>>, <<plan[2]>>} ELSE {}
Pieces(plan) == {plan} \cup Halves(plan)
Rest(plan, m) == IF FirstHalf(plan, m) THEN <<<<plan[2]>>>> ELSE <<>>
From(plan, at, m) == IF SecondHalf(plan, m) THEN Before[at] + 1 ELSE Before[at]
To(plan, at, m) == IF FirstHalf(plan, m) THEN Before[at] + 1 ELSE Before[at + 1]

(* An apply and a transfer are built from the accounts as they still are. *)
Fresh ==
  Now.plan \in {"apply", "transfer"} =>
    /\ read = confirmed.acct
    /\ Now.plan = "transfer" => read["sender"].decryptable >= Amount

Types ==
  /\ driver \in Drivers /\ capacity \in Nat \ {0} /\ active \in BOOLEAN
  /\ status \in {"none", "sent", "landed", "landedFailed", "confirmed", "failed"}
  /\ Position \in 1..12 /\ step \in Nat \ {0}
  /\ pc \in {"start", "build", "send", "await", "done"}
  /\ report \in {"none", "ok", "error"} /\ fault \in BOOLEAN
  /\ pc = "done" <=> report # "none"

(* Nothing is in flight but what the program waits for or has given up. *)
InFlight ==
  Unsettled =>
    /\ pc \in {"await", "done"} /\ Sending /\ Fresh
    /\ inFlight \in Pieces(Due)
    /\ AtUnit(confirmed, From(Due, Position, inFlight), ~fault)

Tip ==
  IF status = "landed"
  THEN AtUnit(tip, To(Due, Position, inFlight), ~fault) /\ OneEntry(confirmed, tip)
  ELSE tip = confirmed

AtStart ==
  pc \in {"start", "build"} => AtUnit(confirmed, Before[Position], ~fault)

AtBuild == pc = "build" => Now.plan \in {"apply", "transfer"} /\ read = confirmed.acct

AtSend ==
  pc = "send" =>
    /\ Sending /\ Fresh
    /\ Head(messages) \in Pieces(Due) /\ Tail(messages) = Rest(Due, Head(messages))
    /\ AtUnit(confirmed, From(Due, Position, Head(messages)), ~fault)

AtAwait ==
  pc = "await" =>
    /\ Sending
    /\ inFlight \in Pieces(Due)
    /\ messages = Rest(Due, inFlight)
    /\ status # "none"
    /\ ~Unsettled => AtUnit(confirmed, To(Due, Position, inFlight), ~fault)

AtDone == pc = "done" /\ ~Unsettled => AtUnit(confirmed, 12, FALSE)

(* A transaction has been sent before the third call; what ended has ended in a
   failure only for a fault. *)
Progress ==
  /\ status = "none" => Position <= 2
  /\ Position = 1 /\ pc # "done" => pc = "start" /\ ~fault /\ status = "none"
  /\ status = "failed" => fault

TransferInv ==
  /\ Types /\ InFlight /\ Tip /\ AtStart /\ AtBuild /\ AtSend /\ AtAwait /\ AtDone
  /\ Progress /\ FailsOnlyOnFault
-----------------------------------------------------------------------------
(***************************************************************************)
(* Running a message.                                                      *)
(***************************************************************************)
(* Induction, stated of the set of the numbers that have the property. *)
LEMMA InductionBySets ==
  ASSUME NEW T \in SUBSET Nat, 0 \in T, \A n \in T : n + 1 \in T
  PROVE  T = Nat
<1> DEFINE R == {ss \in Nat \X Nat : ss[1] < ss[2]}
<1>1. IsWellFoundedOn(R, Nat)
  BY NatLessThanWellFounded, Zenon DEF OpToRel
<1> SUFFICES ASSUME Nat \ T # {} PROVE FALSE
  OBVIOUS
<1>2. Nat \ T \subseteq Nat
  OBVIOUS
<1> HIDE DEF R
<1>3. PICK x \in Nat \ T : \A y \in Nat \ T : <<y, x>> \notin R
  BY <1>1, <1>2, WFMin, Zenon
<1>4. \A y \in Nat \ T : ~(y < x)
  BY <1>3 DEF R
<1>5. x # 0 /\ x - 1 \in T /\ x - 1 \in Nat
  BY <1>4
<1> QED BY <1>5

(* The chain after each instruction is the one before with the instruction
   applied, in a message of any length. *)
LEMMA AfterEach ==
  ASSUME NEW message, Len(message) \in Nat, NEW s
  PROVE  /\ After(message, s)[0] = s
         /\ \A n \in 1..Len(message) :
              After(message, s)[n] = Apply(message[n], After(message, s)[n - 1])
<1> DEFINE IsRun(f, k) == f = [n \in 0..k |-> IF n = 0 THEN s ELSE Apply(message[n], f[n - 1])]
           T == {k \in Nat : \E f : IsRun(f, k)}
<1>1. 0 \in T
  <2>1. IsRun([n \in 0..0 |-> s], 0)
    OBVIOUS
  <2> QED BY <2>1
<1>2. ASSUME NEW k \in T PROVE k + 1 \in T
  <2>1. PICK f : IsRun(f, k)
    OBVIOUS
  <2> DEFINE g == [n \in 0..(k + 1) |-> IF n = k + 1 THEN Apply(message[n], f[k]) ELSE f[n]]
  <2>2. IsRun(g, k + 1)
    <3>1. ASSUME NEW n \in 0..(k + 1)
          PROVE  g[n] = IF n = 0 THEN s ELSE Apply(message[n], g[n - 1])
      <4>1. CASE n = k + 1
        BY <4>1
      <4>2. CASE n # k + 1
        <5>1. n \in 0..k /\ (n # 0 => n - 1 \in 0..k)
          BY <4>2
        <5>2. f[n] = IF n = 0 THEN s ELSE Apply(message[n], f[n - 1])
          BY <2>1, <5>1
        <5> QED BY <4>2, <5>1, <5>2
      <4> QED BY <4>1, <4>2
    <3> QED BY <3>1
  <2> HIDE DEF IsRun, g
  <2> QED BY <2>2
<1> HIDE DEF IsRun
<1>3. T = Nat
  BY <1>1, <1>2, InductionBySets
<1>4. PICK f : IsRun(f, Len(message))
  BY <1>3
<1> DEFINE h == After(message, s)
<1>5. IsRun(h, Len(message))
  BY <1>4 DEF IsRun, After
<1> HIDE DEF h
<1> QED BY <1>5 DEF IsRun, h

LEMMA RunOfOne ==
  ASSUME NEW ix, NEW s
  PROVE  After(<<ix>>, s)[1] = Apply(ix, s)
<1> DEFINE m == <<ix>>
<1>1. Len(m) = 1 /\ m[1] = ix
  OBVIOUS
<1> HIDE DEF m
<1>2. After(m, s)[0] = s /\ After(m, s)[1] = Apply(m[1], After(m, s)[1 - 1])
  BY <1>1, AfterEach
<1> QED BY <1>1, <1>2 DEF m

LEMMA RunOfTwo ==
  ASSUME NEW a, NEW b, NEW s
  PROVE  After(<<a, b>>, s)[2] = Apply(b, Apply(a, s))
<1> DEFINE m == <<a, b>>
<1>1. Len(m) = 2 /\ m[1] = a /\ m[2] = b
  OBVIOUS
<1> HIDE DEF m
<1>2. /\ After(m, s)[0] = s
      /\ \A n \in 1..2 : After(m, s)[n] = Apply(m[n], After(m, s)[n - 1])
  BY <1>1, AfterEach
<1>3. After(m, s)[1] = Apply(m[1], After(m, s)[0]) /\ After(m, s)[2] = Apply(m[2], After(m, s)[1])
  BY <1>2
<1> QED BY <1>1, <1>2, <1>3 DEF m

LEMMA RunOfSeven ==
  ASSUME NEW a, NEW b, NEW c, NEW d, NEW e, NEW f, NEW g, NEW s
  PROVE  After(<<a, b, c, d, e, f, g>>, s)[7]
           = Apply(g, Apply(f, Apply(e, Apply(d, Apply(c, Apply(b, Apply(a, s)))))))
<1> DEFINE m == <<a, b, c, d, e, f, g>>
<1>1. /\ Len(m) = 7 /\ m[1] = a /\ m[2] = b /\ m[3] = c /\ m[4] = d /\ m[5] = e /\ m[6] = f
      /\ m[7] = g
  OBVIOUS
<1> HIDE DEF m
<1> DEFINE h == After(m, s)
<1>2. h[0] = s /\ \A n \in 1..7 : h[n] = Apply(m[n], h[n - 1])
  <2>1. Len(m) \in Nat
    BY <1>1
  <2>2. h[0] = s /\ \A n \in 1..Len(m) : h[n] = Apply(m[n], h[n - 1])
    BY <2>1, AfterEach
  <2> QED BY <1>1, <2>2
<1> HIDE DEF h
<1>3. /\ h[1] = Apply(a, h[0]) /\ h[2] = Apply(b, h[1]) /\ h[3] = Apply(c, h[2])
      /\ h[4] = Apply(d, h[3]) /\ h[5] = Apply(e, h[4]) /\ h[6] = Apply(f, h[5])
      /\ h[7] = Apply(g, h[6])
  BY <1>1, <1>2
<1> QED BY <1>2, <1>3 DEF h, m
-----------------------------------------------------------------------------
(***************************************************************************)
(* The calls of the drivers, and their plans.                              *)
(***************************************************************************)
LEMMA Joined ==
  ASSUME NEW S, NEW s \in Seq(S), NEW t \in Seq(S)
  PROVE  /\ s \o t \in Seq(S) /\ Len(s \o t) = Len(s) + Len(t)
         /\ \A i \in 1..Len(s) : (s \o t)[i] = s[i]
         /\ \A i \in 1..Len(t) : (s \o t)[Len(s) + i] = t[i]
OBVIOUS

(* Ten calls after the first ones. *)
Onward(head, a, b, c, d, e, f, g, h, i, j) ==
  head \o <<a>> \o <<b>> \o <<c>> \o (<<d, e>> \o <<f>>) \o <<g, h>> \o <<i>> \o <<j>>

IsOnward(m, n, head, a, b, c, d, e, f, g, h, i, j) ==
  /\ Len(m) = n + 10
  /\ \A k \in 1..n : m[k] = head[k]
  /\ m[n + 1] = a /\ m[n + 2] = b /\ m[n + 3] = c /\ m[n + 4] = d /\ m[n + 5] = e
  /\ m[n + 6] = f /\ m[n + 7] = g /\ m[n + 8] = h /\ m[n + 9] = i /\ m[n + 10] = j

LEMMA Chained ==
  ASSUME NEW S, NEW head \in Seq(S), NEW a \in S, NEW b \in S, NEW c \in S, NEW d \in S,
         NEW e \in S, NEW f \in S, NEW g \in S, NEW h \in S, NEW i \in S, NEW j \in S
  PROVE  IsOnward(Onward(head, a, b, c, d, e, f, g, h, i, j), Len(head),
                  head, a, b, c, d, e, f, g, h, i, j)
<1> DEFINE n == Len(head)
           m1 == head \o <<a>>
           m2 == m1 \o <<b>>
           m3 == m2 \o <<c>>
           def == <<d, e>> \o <<f>>
           m6 == m3 \o def
           m8 == m6 \o <<g, h>>
           m9 == m8 \o <<i>>
           m10 == m9 \o <<j>>
<1>1. n \in Nat
  OBVIOUS
<1>2. m1 \in Seq(S) /\ Len(m1) = n + 1 /\ (\A k \in 1..n : m1[k] = head[k]) /\ m1[n + 1] = a
  BY Joined
<1> HIDE DEF n, m1
<1>3. m2 \in Seq(S) /\ Len(m2) = n + 2 /\ (\A k \in 1..(n + 1) : m2[k] = m1[k]) /\ m2[n + 2] = b
  BY <1>1, <1>2
<1> HIDE DEF m2
<1>4. m3 \in Seq(S) /\ Len(m3) = n + 3 /\ (\A k \in 1..(n + 2) : m3[k] = m2[k]) /\ m3[n + 3] = c
  BY <1>1, <1>3
<1> HIDE DEF m3
<1>5. def \in Seq(S) /\ Len(def) = 3 /\ def[1] = d /\ def[2] = e /\ def[3] = f
  OBVIOUS
<1> HIDE DEF def
<1>6. /\ m6 \in Seq(S) /\ Len(m6) = n + 6 /\ \A k \in 1..(n + 3) : m6[k] = m3[k]
      /\ m6[n + 4] = d /\ m6[n + 5] = e /\ m6[n + 6] = f
  <2>1. /\ m6 \in Seq(S) /\ Len(m6) = Len(m3) + Len(def)
        /\ \A k \in 1..Len(m3) : m6[k] = m3[k]
        /\ \A k \in 1..Len(def) : m6[Len(m3) + k] = def[k]
    <3>1. m3 \in Seq(S)
      BY <1>4
    <3>2. def \in Seq(S)
      BY <1>5
    <3> QED BY <3>1, <3>2, Joined
  <2> HIDE DEF m6
  <2> QED BY <1>1, <1>4, <1>5, <2>1
<1> HIDE DEF m6
<1>7. /\ m8 \in Seq(S) /\ Len(m8) = n + 8 /\ \A k \in 1..(n + 6) : m8[k] = m6[k]
      /\ m8[n + 7] = g /\ m8[n + 8] = h
  BY <1>1, <1>6
<1> HIDE DEF m8
<1>8. m9 \in Seq(S) /\ Len(m9) = n + 9 /\ (\A k \in 1..(n + 8) : m9[k] = m8[k]) /\ m9[n + 9] = i
  BY <1>1, <1>7
<1> HIDE DEF m9
<1>9. /\ m10 \in Seq(S) /\ Len(m10) = n + 10 /\ (\A k \in 1..(n + 9) : m10[k] = m9[k])
      /\ m10[n + 10] = j
  BY <1>1, <1>8
<1> HIDE DEF m10
<1>10. /\ Len(m10) = n + 10
       /\ \A k \in 1..n : m10[k] = head[k]
       /\ m10[n + 1] = a /\ m10[n + 2] = b /\ m10[n + 3] = c /\ m10[n + 4] = d /\ m10[n + 5] = e
       /\ m10[n + 6] = f /\ m10[n + 7] = g /\ m10[n + 8] = h /\ m10[n + 9] = i
       /\ m10[n + 10] = j
  BY <1>1, <1>2, <1>3, <1>4, <1>6, <1>7, <1>8, <1>9
<1> QED BY <1>10 DEF n, m1, m2, m3, def, m6, m8, m9, m10, Onward, IsOnward

(* What the calls are, at the place each has in the driver's own list. *)
AreCalls(m, n) ==
  /\ Len(m) = n + 10
  /\ n = 2 => m[1].plan = "gate" /\ m[1].on = "sender"
  /\ m[n].plan = "airdrop" /\ m[n].on = "sender"
  /\ m[n + 1].plan = "mint" /\ m[n + 1].on = "sender"
  /\ m[n + 2].plan = "party" /\ m[n + 2].on = "sender"
  /\ m[n + 3].plan = "party" /\ m[n + 3].on = "recipient"
  /\ m[n + 4].plan = "mintTo" /\ m[n + 4].on = "sender"
  /\ m[n + 5].plan = "deposit" /\ m[n + 5].on = "sender"
  /\ m[n + 6].plan = "apply" /\ m[n + 6].on = "sender"
  /\ m[n + 7].plan = "transfer" /\ m[n + 7].on = "sender" /\ m[n + 7].packs = "one"
  /\ m[n + 8].plan = "readBack" /\ m[n + 8].on = "sender"
  /\ m[n + 9].plan = "apply" /\ m[n + 9].on = "recipient"
  /\ m[n + 10].plan = "check" /\ m[n + 10].on = "sender"

LEMMA CallsOfMain ==
  ASSUME driver \in Drivers
  PROVE  AreCalls(Main, IF driver = "kit" THEN 2 ELSE 1)
<1> DEFINE Packs == {"many", "one", "none"}
           S == [plan : {"gate", "airdrop", "mint", "party", "mintTo", "deposit", "apply",
                         "transfer", "readBack", "check"}, on : Parties, packs : Packs]
           gate == Call("gate", "sender", "none")
           airdrop == Call("airdrop", "sender", "one")
<1>6. /\ <<gate, airdrop>> \in Seq(S) /\ Len(<<gate, airdrop>>) = 2
      /\ <<airdrop>> \in Seq(S) /\ Len(<<airdrop>>) = 1
      /\ gate.plan = "gate" /\ gate.on = "sender"
      /\ airdrop.plan = "airdrop" /\ airdrop.on = "sender"
      /\ <<gate, airdrop>>[1] = gate /\ <<gate, airdrop>>[2] = airdrop /\ <<airdrop>>[1] = airdrop
  <2>1. gate \in S /\ airdrop \in S
    BY DEF Call, Parties
  <2>2. gate.plan = "gate" /\ gate.on = "sender" /\ airdrop.plan = "airdrop"
        /\ airdrop.on = "sender"
    BY DEF Call
  <2> HIDE DEF gate, airdrop, S
  <2> QED BY <2>1, <2>2
<1>7. ASSUME NEW head \in Seq(S), NEW n \in {1, 2}, Len(head) = n,
             head[n] = airdrop, n = 2 => head[1] = gate,
             NEW k1 \in Packs, NEW k2 \in Packs, NEW k3 \in Packs, NEW k4 \in Packs
      PROVE  AreCalls(Onward(head, Call("mint", "sender", k1), Call("party", "sender", k1),
                             Call("party", "recipient", k1), Call("mintTo", "sender", k2),
                             Call("deposit", "sender", k3), Call("apply", "sender", k4),
                             Call("transfer", "sender", "one"),
                             Call("readBack", "sender", "none"),
                             Call("apply", "recipient", k4), Call("check", "sender", "none")), n)
  <2> DEFINE a == Call("mint", "sender", k1)
             b == Call("party", "sender", k1)
             c == Call("party", "recipient", k1)
             d == Call("mintTo", "sender", k2)
             e == Call("deposit", "sender", k3)
             f == Call("apply", "sender", k4)
             g == Call("transfer", "sender", "one")
             h == Call("readBack", "sender", "none")
             i == Call("apply", "recipient", k4)
             j == Call("check", "sender", "none")
  <2>1. /\ a \in S /\ b \in S /\ c \in S /\ d \in S /\ e \in S /\ f \in S /\ g \in S /\ h \in S
        /\ i \in S /\ j \in S
    BY DEF Call, Parties
  <2>2. /\ a.plan = "mint" /\ a.on = "sender" /\ b.plan = "party" /\ b.on = "sender"
        /\ c.plan = "party" /\ c.on = "recipient" /\ d.plan = "mintTo" /\ d.on = "sender"
        /\ e.plan = "deposit" /\ e.on = "sender" /\ f.plan = "apply" /\ f.on = "sender"
        /\ g.plan = "transfer" /\ g.on = "sender" /\ g.packs = "one"
        /\ h.plan = "readBack" /\ h.on = "sender" /\ i.plan = "apply" /\ i.on = "recipient"
        /\ j.plan = "check" /\ j.on = "sender"
    BY DEF Call
  <2> HIDE DEF a, b, c, d, e, f, g, h, i, j, S
  <2> DEFINE m == Onward(head, a, b, c, d, e, f, g, h, i, j)
  <2>3. IsOnward(m, Len(head), head, a, b, c, d, e, f, g, h, i, j)
    <3>1. head \in Seq(S)
      OBVIOUS
    <3> QED BY <2>1, <3>1, Chained
  <2> HIDE DEF m
  <2>4. m[n] = airdrop /\ (n = 2 => m[1] = gate)
    BY <1>7, <2>3 DEF IsOnward
  <2>5. AreCalls(m, n)
    BY <1>6, <1>7, <2>2, <2>3, <2>4 DEF AreCalls, IsOnward
  <2> QED BY <2>5 DEF m, a, b, c, d, e, f, g, h, i, j
<1>8. CASE driver = "kit"
  <2>1. Main = KitMain
    BY <1>8 DEF Main
  <2>2. AreCalls(KitMain, 2)
    BY <1>6, <1>7
       DEF KitMain, KitCreateMint, KitCreateParty, KitFund, KitApply, Onward
  <2> QED BY <1>8, <2>1, <2>2
<1>9. CASE driver = "plugins"
  <2>1. Main = PluginsMain
    BY <1>9 DEF Main
  <2>2. AreCalls(PluginsMain, 1)
    BY <1>6, <1>7
       DEF PluginsMain, PluginsClient, PluginsCreateMint, PluginsCreateParty, PluginsFund,
           PluginsApply, Onward
  <2> QED BY <1>9, <2>1, <2>2
<1>10. CASE driver = "web3"
  <2>1. Main = Web3Main
    BY <1>10 DEF Main
  <2>2. AreCalls(Web3Main, 1)
    BY <1>6, <1>7
       DEF Web3Main, Web3Context, Web3CreateMint, Web3CreateParty, Web3Fund, Web3Apply, Onward
  <2> QED BY <1>10, <2>1, <2>2
<1> QED BY <1>8, <1>9, <1>10 DEF Drivers

LEMMA NowIs ==
  ASSUME driver \in Drivers, Position \in 1..12, step \in Nat \ {0}
  PROVE  /\ Now.plan = PlanAt[Position]
         /\ Now.on = IF Position \in {5, 11} THEN "recipient" ELSE "sender"
         /\ Position = 9 => Now.packs = "one"
         /\ step = Len(Main) <=> Position = 12
<1>1. CASE driver = "kit"
  <2>1. AreCalls(Main, 2) /\ step \in 1..12 /\ Position = step
    BY <1>1, CallsOfMain DEF Position
  <2> QED BY <2>1 DEF AreCalls, Now, PlanAt
<1>2. CASE driver # "kit"
  <2>1. AreCalls(Main, 1) /\ step \in 1..11 /\ Position = step + 1
    BY <1>2, CallsOfMain DEF Position
  <2> QED BY <2>1 DEF AreCalls, Now, PlanAt
<1> QED BY <1>1, <1>2
-----------------------------------------------------------------------------
(***************************************************************************)
(* One unit of work.                                                       *)
(***************************************************************************)
(* What running the next unit leaves, when it does not fail. *)
UnitDone(s, k, faultless, r) ==
  /\ faultless => r # Failed
  /\ r # Failed => AtUnit(r, k + 1, faultless) /\ OneEntry(s, r)

LEMMA UnitRuns ==
  ASSUME NEW s \in Chain, NEW ix, NEW k \in 0..11, NEW e \in BOOLEAN,
         e => Allowed(ix, s),
         Allowed(ix, s) => AtUnit(Effect(ix, s), k + 1, e) /\ OneEntry(s, Effect(ix, s))
  PROVE  UnitDone(s, k, e, Apply(ix, s))
<1>1. s # Failed
  BY TransferAssumption
<1>2. AtUnit(Effect(ix, s), k + 1, e) => Effect(ix, s) # Failed
  BY TransferAssumption DEF AtUnit
<1> QED BY <1>1, <1>2 DEF UnitDone, Apply

LEMMA Accounts ==
  ASSUME NEW s \in Chain
  PROVE  /\ s.acct \in [Parties -> Account]
         /\ s.acct["sender"] \in Account /\ s.acct["recipient"] \in Account
BY DEF Chain, Parties

(* The units before the first entry of the books. *)
LEMMA BeforeBooks ==
  ASSUME NEW s, NEW k \in 0..7, NEW e \in BOOLEAN
  PROVE  AtUnit(s, k, e) <=> s \in Chain /\ Books(s, 0) /\ (e => Setup(s, k))
<1>1. Entries(k) = 0 /\ (IF k <= 7 THEN k ELSE 7) = k
  BY DEF Entries
<1> QED BY <1>1 DEF AtUnit

LEMMA AirdropUnit ==
  ASSUME NEW s, NEW e \in BOOLEAN, AtUnit(s, 0, e), NEW p
  PROVE  UnitDone(s, 0, e, Apply(Ix("airdrop", p, 0, 0), s))
<1> DEFINE ix == Ix("airdrop", p, 0, 0)
           t == Effect(ix, s)
<1>1. s \in Chain /\ Books(s, 0) /\ (e => Setup(s, 0))
  BY BeforeBooks
<1>2. Allowed(ix, s)
  BY DEF Allowed, Ix
<1>3. t = [s EXCEPT !.funded = TRUE]
  BY DEF Effect, Ix
<1>4. t \in Chain /\ Books(t, 0) /\ (Setup(s, 0) => Setup(t, 1))
  <2>1. t \in Chain
    BY <1>1, <1>3 DEF Chain
  <2>2. t.acct = s.acct /\ t.funded = TRUE /\ t.open = s.open /\ t.mint = s.mint
    BY <1>1, <1>3 DEF Chain
  <2>3. Books(t, 0)
    BY <1>1, <2>2 DEF Books
  <2> QED BY <2>1, <2>2, <2>3 DEF Setup
<1>5. AtUnit(t, 1, e) /\ OneEntry(s, t)
  BY <1>1, <1>4, BeforeBooks DEF OneEntry
<1> QED BY <1>1, <1>2, <1>5, UnitRuns

LEMMA MintUnits ==
  ASSUME NEW s, NEW e \in BOOLEAN, NEW k \in {1, 2}, AtUnit(s, k, e), NEW p
  PROVE  UnitDone(s, k, e,
                  Apply(Ix(IF k = 1 THEN "allocateMint" ELSE "initializeMint", p, 0, 0), s))
<1> DEFINE ix == Ix(IF k = 1 THEN "allocateMint" ELSE "initializeMint", p, 0, 0)
           t == Effect(ix, s)
<1>1. s \in Chain /\ Books(s, 0) /\ (e => Setup(s, k))
  BY BeforeBooks
<1>2. Allowed(ix, s) <=> s.mint = k - 1
  BY DEF Allowed, Ix
<1>3. e => Allowed(ix, s)
  BY <1>1, <1>2 DEF Setup
<1>4. t = [s EXCEPT !.mint = @ + 1]
  BY DEF Effect, Ix
<1>5. ASSUME s.mint = k - 1
      PROVE  t \in Chain /\ Books(t, 0) /\ (Setup(s, k) => Setup(t, k + 1))
  <2>1. t \in Chain
    BY <1>1, <1>4, <1>5 DEF Chain
  <2>2. t.acct = s.acct /\ t.funded = s.funded /\ t.open = s.open /\ t.mint = k
    BY <1>1, <1>4, <1>5 DEF Chain
  <2> QED BY <1>1, <2>1, <2>2 DEF Books, Setup
<1>6. Allowed(ix, s) => AtUnit(t, k + 1, e) /\ OneEntry(s, t)
  BY <1>1, <1>2, <1>5, BeforeBooks DEF OneEntry
<1> QED BY <1>1, <1>3, <1>6, UnitRuns


LEMMA PartyUnits ==
  ASSUME NEW s, NEW e \in BOOLEAN, NEW k \in 3..6, AtUnit(s, k, e)
  PROVE  UnitDone(s, k, e,
                  Apply(Ix(IF k \in {3, 5} THEN "createAccount" ELSE "configure",
                           IF k \in {3, 4} THEN "sender" ELSE "recipient", 0, 0), s))
<1> DEFINE p == IF k \in {3, 4} THEN "sender" ELSE "recipient"
           ix == Ix(IF k \in {3, 5} THEN "createAccount" ELSE "configure", p, 0, 0)
           t == Effect(ix, s)
<1>1. s \in Chain /\ Books(s, 0) /\ (e => Setup(s, k))
  BY BeforeBooks
<1>2. p \in Parties
  BY DEF Parties
<1>3. Allowed(ix, s) => s.acct[p].stage = IF k \in {3, 5} THEN 0 ELSE 1
  BY <1>2 DEF Allowed, Ix
<1>4. e => Allowed(ix, s)
  BY <1>1, <1>2 DEF Setup, Allowed, Ix
<1>5. t = [s EXCEPT !.acct[p].stage = @ + 1]
  BY DEF Effect, Ix
<1>6. ASSUME s.acct[p].stage = IF k \in {3, 5} THEN 0 ELSE 1
      PROVE  t \in Chain /\ Books(t, 0) /\ (Setup(s, k) => Setup(t, k + 1))
  <2>1. t \in Chain
    BY <1>1, <1>2, <1>5, <1>6, Accounts DEF Chain, Account, Parties
  <2>2. Books(t, 0)
    BY <1>1, <1>2, <1>5, Accounts DEF Chain, Account, Parties, Books
  <2>3. Setup(s, k) => Setup(t, k + 1)
    BY <1>1, <1>2, <1>5, <1>6, Accounts DEF Chain, Account, Parties, Setup
  <2> QED BY <2>1, <2>2, <2>3
<1>7. Allowed(ix, s) => AtUnit(t, k + 1, e) /\ OneEntry(s, t)
  BY <1>1, <1>3, <1>6, BeforeBooks DEF OneEntry
<1> QED BY <1>1, <1>4, <1>7, UnitRuns

LEMMA MintToUnit ==
  ASSUME NEW s, NEW e \in BOOLEAN, AtUnit(s, 7, e)
  PROVE  UnitDone(s, 7, e, Apply(Ix("mintTo", "sender", Starting, 0), s))
<1> DEFINE ix == Ix("mintTo", "sender", Starting, 0)
           t == Effect(ix, s)
<1>1. s \in Chain /\ Books(s, 0) /\ (e => Setup(s, 7))
  BY BeforeBooks
<1>2. e => Allowed(ix, s)
  BY <1>1 DEF Setup, Allowed, Ix, Parties
<1>3. t = [s EXCEPT !.acct["sender"].public = @ + Starting]
  BY DEF Effect, Ix
<1>4. t \in Chain /\ Books(t, 1) /\ (Setup(s, 7) => Setup(t, 7))
  <2>1. t \in Chain
    BY <1>1, <1>3, Accounts, TransferAssumption DEF Chain, Account, Parties
  <2>2. Books(t, 1)
    BY <1>1, <1>3, Accounts, TransferAssumption DEF Chain, Account, Parties, Books
  <2>3. Setup(s, 7) => Setup(t, 7)
    BY <1>1, <1>3, Accounts DEF Chain, Account, Parties, Setup
  <2> QED BY <2>1, <2>2, <2>3
<1>5. AtUnit(t, 8, e) /\ OneEntry(s, t)
  BY <1>1, <1>4 DEF OneEntry, AtUnit, Entries
<1> QED BY <1>1, <1>2, <1>5, UnitRuns

(* The units from there on: an entry may be missing when there has been a
   fault. *)
LEMMA InBooks ==
  ASSUME NEW s, NEW k \in 8..12, NEW e \in BOOLEAN
  PROVE  AtUnit(s, k, e) <=>
           /\ s \in Chain
           /\ \E b \in 0..(k - 7) : Books(s, b) /\ (e => b = k - 7 /\ Setup(s, 7))
BY DEF AtUnit, Entries

LEMMA DepositUnit ==
  ASSUME NEW s, NEW e \in BOOLEAN, AtUnit(s, 8, e)
  PROVE  UnitDone(s, 8, e, Apply(Ix("deposit", "sender", Starting, 0), s))
<1> DEFINE ix == Ix("deposit", "sender", Starting, 0)
           t == Effect(ix, s)
<1>1. s \in Chain
  BY InBooks
<1>2. PICK b \in 0..1 : Books(s, b) /\ (e => b = 1 /\ Setup(s, 7))
  BY InBooks
<1>3. e => Allowed(ix, s)
  BY <1>2, TransferAssumption DEF Setup, Books, Allowed, Ix, Parties
<1>4. Allowed(ix, s) => b = 1
  BY <1>2, TransferAssumption DEF Books, Allowed, Ix, Parties
<1>5. t = [s EXCEPT !.acct["sender"].public = @ - Starting,
                    !.acct["sender"].pending = @ + Starting]
  BY DEF Effect, Ix
<1> DEFINE u == [s EXCEPT !.acct["sender"].public = @ - Starting]
<1>6. ASSUME b = 1
      PROVE  t \in Chain /\ Books(t, 2) /\ (Setup(s, 7) => Setup(t, 7))
  <2>1. s.acct["sender"].public = Starting
    BY <1>2, <1>6 DEF Books
  <2>2. u \in Chain
    BY <1>1, <2>1, Accounts, TransferAssumption DEF Chain, Account, Parties
  <2>3. /\ u.acct["sender"].public = 0
        /\ u.acct["sender"].pending = s.acct["sender"].pending
        /\ u.acct["sender"].available = s.acct["sender"].available
        /\ u.acct["sender"].decryptable = s.acct["sender"].decryptable
        /\ u.acct["recipient"] = s.acct["recipient"]
        /\ Setup(s, 7) => Setup(u, 7)
    BY <1>1, <2>1, Accounts, TransferAssumption DEF Chain, Account, Parties, Setup
  <2>4. t = [u EXCEPT !.acct["sender"].pending = s.acct["sender"].pending + Starting]
    BY <1>5
  <2> HIDE DEF u
  <2>5. t \in Chain
    BY <1>1, <2>2, <2>4, Accounts, TransferAssumption DEF Chain, Account, Parties
  <2>6. /\ t.acct["sender"].public = u.acct["sender"].public
        /\ t.acct["sender"].pending = u.acct["sender"].pending + Starting
        /\ t.acct["sender"].available = u.acct["sender"].available
        /\ t.acct["sender"].decryptable = u.acct["sender"].decryptable
        /\ t.acct["recipient"] = u.acct["recipient"]
        /\ Setup(u, 7) => Setup(t, 7)
    BY <2>2, <2>3, <2>4, Accounts, TransferAssumption DEF Chain, Account, Parties, Setup
  <2>7. Books(t, 2)
    BY <1>2, <1>6, <2>3, <2>6, TransferAssumption DEF Books
  <2> QED BY <2>3, <2>5, <2>6, <2>7
<1>7. Allowed(ix, s) => AtUnit(t, 9, e) /\ OneEntry(s, t)
  BY <1>2, <1>4, <1>6, InBooks DEF OneEntry
<1> QED BY <1>1, <1>3, <1>7, UnitRuns


LEMMA ApplyTakesEffect ==
  ASSUME NEW s \in Chain, NEW p \in Parties, NEW next \in Nat
  PROVE  LET t == Effect(Ix("apply", p, 0, next), s)
         IN /\ t \in Chain
            /\ t.acct[p].available = s.acct[p].available + s.acct[p].pending
            /\ t.acct[p].pending = 0 /\ t.acct[p].decryptable = next
            /\ t.acct[p].public = s.acct[p].public
            /\ \A q \in Parties \ {p} : t.acct[q] = s.acct[q]
            /\ Setup(s, 7) => Setup(t, 7)
<1> DEFINE t == Effect(Ix("apply", p, 0, next), s)
           sum == s.acct[p].available + s.acct[p].pending
           u == [s EXCEPT !.acct[p].available = sum]
           v == [u EXCEPT !.acct[p].pending = 0]
           w == [v EXCEPT !.acct[p].decryptable = next]
<1>1. s.acct \in [Parties -> Account] /\ s.acct[p] \in Account /\ sum \in Nat
  BY Accounts DEF Account
<1>2. t = w
  BY DEF Effect, Ix
<1>3. /\ u \in Chain
      /\ u.acct[p].available = sum /\ u.acct[p].pending = s.acct[p].pending
      /\ u.acct[p].decryptable = s.acct[p].decryptable
      /\ u.acct[p].public = s.acct[p].public /\ u.acct[p].stage = s.acct[p].stage
      /\ \A q \in Parties \ {p} : u.acct[q] = s.acct[q]
      /\ u.funded = s.funded /\ u.mint = s.mint /\ u.open = s.open
  BY <1>1 DEF Chain, Account
<1> HIDE DEF u, sum, t
<1>4. /\ v \in Chain
      /\ v.acct[p].available = u.acct[p].available /\ v.acct[p].pending = 0
      /\ v.acct[p].decryptable = u.acct[p].decryptable
      /\ v.acct[p].public = u.acct[p].public /\ v.acct[p].stage = u.acct[p].stage
      /\ \A q \in Parties \ {p} : v.acct[q] = u.acct[q]
      /\ v.funded = u.funded /\ v.mint = u.mint /\ v.open = u.open
  BY <1>3 DEF Chain, Account
<1> HIDE DEF v
<1>5. /\ w \in Chain
      /\ w.acct[p].available = v.acct[p].available /\ w.acct[p].pending = v.acct[p].pending
      /\ w.acct[p].decryptable = next
      /\ w.acct[p].public = v.acct[p].public /\ w.acct[p].stage = v.acct[p].stage
      /\ \A q \in Parties \ {p} : w.acct[q] = v.acct[q]
      /\ w.funded = v.funded /\ w.mint = v.mint /\ w.open = v.open
  <2>1. v \in Chain
    BY <1>4
  <2> QED BY <2>1 DEF Chain, Account
<1> HIDE DEF w
<1>6. Setup(s, 7) => Setup(w, 7)
  BY <1>3, <1>4, <1>5 DEF Setup, Parties
<1>7. \A q \in Parties \ {p} : w.acct[q] = s.acct[q]
  BY <1>3, <1>4, <1>5
<1> QED BY <1>3, <1>4, <1>5, <1>2, <1>6, <1>7 DEF sum, t

LEMMA ApplyUnit ==
  ASSUME NEW s, NEW e \in BOOLEAN, NEW k \in {9, 11}, AtUnit(s, k, e),
         NEW p, p = IF k = 9 THEN "sender" ELSE "recipient"
  PROVE  UnitDone(s, k, e,
                  Apply(Ix("apply", p, 0, s.acct[p].decryptable + s.acct[p].pending), s))
<1> DEFINE next == s.acct[p].decryptable + s.acct[p].pending
           ix == Ix("apply", p, 0, next)
           t == Effect(ix, s)
<1>1. s \in Chain /\ p \in Parties
  BY InBooks DEF Parties
<1>2. PICK b \in 0..(k - 7) : Books(s, b) /\ (e => b = k - 7 /\ Setup(s, 7))
  BY InBooks
<1>3. next \in Nat
  BY <1>1, Accounts DEF Account, Parties
<1>4. e => Allowed(ix, s)
  BY <1>1, <1>2 DEF Setup, Allowed, Ix, Parties
<1>5. /\ t \in Chain
      /\ t.acct[p].available = s.acct[p].available + s.acct[p].pending
      /\ t.acct[p].pending = 0 /\ t.acct[p].decryptable = next
      /\ t.acct[p].public = s.acct[p].public
      /\ \A q \in Parties \ {p} : t.acct[q] = s.acct[q]
      /\ Setup(s, 7) => Setup(t, 7)
  BY <1>1, <1>3, ApplyTakesEffect
<1> HIDE DEF t
<1> DEFINE c == IF k = 9 THEN (IF b = 2 THEN 3 ELSE b) ELSE (IF b = 4 THEN 5 ELSE b)
<1>6. Books(t, c)
  <2>1. CASE k = 9
    BY <1>2, <1>5, <2>1, TransferAssumption DEF Books, Parties
  <2>2. CASE k = 11
    BY <1>2, <1>5, <2>2, TransferAssumption DEF Books, Parties
  <2> QED BY <2>1, <2>2
<1>7. AtUnit(t, k + 1, e)
  <2>1. c \in 0..(k + 1 - 7) /\ (b = k - 7 => c = k + 1 - 7)
    OBVIOUS
  <2> HIDE DEF c
  <2> QED BY <1>2, <1>5, <1>6, <2>1, InBooks
<1>8. OneEntry(s, t)
  BY <1>2, <1>6 DEF OneEntry
<1> QED BY <1>1, <1>4, <1>7, <1>8, UnitRuns DEF t


(* A step that leaves everything but the open proof contexts. *)
OpenedOnly(s, t, open) ==
  /\ t \in Chain /\ t.acct = s.acct /\ t.funded = s.funded /\ t.mint = s.mint
  /\ t.open = open

LEMMA ProveStep ==
  ASSUME NEW s \in Chain \cup {Failed}, NEW x \in Proofs
  PROVE  LET r == Apply(Ix("prove", x, 0, 0), s)
         IN /\ r \in Chain \cup {Failed}
            /\ r # Failed => s # Failed /\ OpenedOnly(s, r, s.open \cup {x})
            /\ s # Failed /\ x \notin s.open => r # Failed
<1> DEFINE ix == Ix("prove", x, 0, 0)
           t == [s EXCEPT !.open = @ \cup {x}]
<1>1. Allowed(ix, s) <=> x \notin s.open
  BY DEF Allowed, Ix
<1>2. Effect(ix, s) = t
  BY DEF Effect, Ix
<1>3. s \in Chain => OpenedOnly(s, t, s.open \cup {x}) /\ t # Failed
  BY TransferAssumption DEF OpenedOnly, Chain
<1> HIDE DEF ix, t
<1>4. Apply(ix, s) = IF s # Failed /\ x \notin s.open THEN t ELSE Failed
  BY <1>1, <1>2 DEF Apply
<1>5. /\ Apply(ix, s) \in Chain \cup {Failed}
      /\ Apply(ix, s) # Failed => s # Failed /\ OpenedOnly(s, Apply(ix, s), s.open \cup {x})
      /\ s # Failed /\ x \notin s.open => Apply(ix, s) # Failed
  BY <1>3, <1>4 DEF OpenedOnly
<1> QED BY <1>5 DEF ix

LEMMA CloseStep ==
  ASSUME NEW s \in Chain \cup {Failed}, NEW x \in Proofs
  PROVE  LET r == Apply(Ix("close", x, 0, 0), s)
         IN /\ r \in Chain \cup {Failed}
            /\ r # Failed => s # Failed /\ OpenedOnly(s, r, s.open \ {x})
            /\ s # Failed /\ x \in s.open => r # Failed
<1> DEFINE ix == Ix("close", x, 0, 0)
           t == [s EXCEPT !.open = @ \ {x}]
<1>1. Allowed(ix, s) <=> x \in s.open
  BY DEF Allowed, Ix
<1>2. Effect(ix, s) = t
  BY DEF Effect, Ix
<1>3. s \in Chain => OpenedOnly(s, t, s.open \ {x}) /\ t # Failed
  BY TransferAssumption DEF OpenedOnly, Chain
<1> HIDE DEF ix, t
<1>4. Apply(ix, s) = IF s # Failed /\ x \in s.open THEN t ELSE Failed
  BY <1>1, <1>2 DEF Apply
<1>5. /\ Apply(ix, s) \in Chain \cup {Failed}
      /\ Apply(ix, s) # Failed => s # Failed /\ OpenedOnly(s, Apply(ix, s), s.open \ {x})
      /\ s # Failed /\ x \in s.open => Apply(ix, s) # Failed
  BY <1>3, <1>4 DEF OpenedOnly
<1> QED BY <1>5 DEF ix

(* What the transfer itself leaves. *)
Moved(s, t, value, next) ==
  /\ t \in Chain
  /\ t.acct["sender"].available = next /\ t.acct["sender"].decryptable = next
  /\ t.acct["sender"].public = s.acct["sender"].public
  /\ t.acct["sender"].pending = s.acct["sender"].pending
  /\ t.acct["sender"].stage = s.acct["sender"].stage
  /\ t.acct["recipient"].pending = s.acct["recipient"].pending + (value - next)
  /\ t.acct["recipient"].available = s.acct["recipient"].available
  /\ t.acct["recipient"].decryptable = s.acct["recipient"].decryptable
  /\ t.acct["recipient"].public = s.acct["recipient"].public
  /\ t.acct["recipient"].stage = s.acct["recipient"].stage
  /\ t.funded = s.funded /\ t.mint = s.mint /\ t.open = s.open

LEMMA TransferEffect ==
  ASSUME NEW s \in Chain, NEW value \in Nat, NEW next \in Nat, value >= next
  PROVE  Moved(s, Effect(Ix("transfer", "sender", value, next), s), value, next)
<1> DEFINE t == Effect(Ix("transfer", "sender", value, next), s)
           sum == s.acct["recipient"].pending + (value - next)
           u == [s EXCEPT !.acct["sender"].available = next]
           v == [u EXCEPT !.acct["sender"].decryptable = next]
           w == [v EXCEPT !.acct["recipient"].pending = sum]
<1>1. /\ s.acct \in [Parties -> Account] /\ s.acct["sender"] \in Account
      /\ s.acct["recipient"] \in Account /\ sum \in Nat
  BY Accounts DEF Account
<1>2. t = w
  BY DEF Effect, Ix
<1>3. /\ u \in Chain
      /\ u.acct["sender"].available = next
      /\ u.acct["sender"].decryptable = s.acct["sender"].decryptable
      /\ u.acct["sender"].pending = s.acct["sender"].pending
      /\ u.acct["sender"].public = s.acct["sender"].public
      /\ u.acct["sender"].stage = s.acct["sender"].stage
      /\ u.acct["recipient"] = s.acct["recipient"]
      /\ u.funded = s.funded /\ u.mint = s.mint /\ u.open = s.open
  BY <1>1 DEF Chain, Account, Parties
<1> HIDE DEF u, sum, t
<1>4. /\ v \in Chain
      /\ v.acct["sender"].available = u.acct["sender"].available
      /\ v.acct["sender"].decryptable = next
      /\ v.acct["sender"].pending = u.acct["sender"].pending
      /\ v.acct["sender"].public = u.acct["sender"].public
      /\ v.acct["sender"].stage = u.acct["sender"].stage
      /\ v.acct["recipient"] = u.acct["recipient"]
      /\ v.funded = u.funded /\ v.mint = u.mint /\ v.open = u.open
  <2>1. u \in Chain
    BY <1>3
  <2> QED BY <2>1 DEF Chain, Account, Parties
<1> HIDE DEF v
<1>5. /\ w \in Chain
      /\ w.acct["recipient"].available = v.acct["recipient"].available
      /\ w.acct["recipient"].decryptable = v.acct["recipient"].decryptable
      /\ w.acct["recipient"].pending = sum
      /\ w.acct["recipient"].public = v.acct["recipient"].public
      /\ w.acct["recipient"].stage = v.acct["recipient"].stage
      /\ w.acct["sender"] = v.acct["sender"]
      /\ w.funded = v.funded /\ w.mint = v.mint /\ w.open = v.open
  <2>1. v \in Chain
    BY <1>4
  <2> QED BY <1>1, <2>1 DEF Chain, Account, Parties
<1> HIDE DEF w
<1>6. Moved(s, w, value, next)
  BY <1>3, <1>4, <1>5 DEF Moved, sum
<1> QED BY <1>2, <1>6 DEF t

LEMMA TransferStep ==
  ASSUME NEW s \in Chain \cup {Failed}, NEW value \in Nat, NEW next \in Nat, value >= next
  PROVE  LET r == Apply(Ix("transfer", "sender", value, next), s)
         IN /\ r \in Chain \cup {Failed}
            /\ r # Failed => s # Failed /\ Moved(s, r, value, next) /\ s.open = Proofs
            /\ (/\ s # Failed /\ s.open = Proofs /\ s.acct["sender"].available = value
                /\ s.acct["recipient"].stage = 2) => r # Failed
<1> DEFINE ix == Ix("transfer", "sender", value, next)
           t == Effect(ix, s)
<1>1. Allowed(ix, s) <=> /\ s.open = Proofs /\ s.acct["sender"].available = value
                         /\ s.acct["recipient"].stage = 2
  BY DEF Allowed, Ix, Parties
<1>2. s # Failed => Moved(s, t, value, next) /\ t \in Chain /\ t # Failed
  BY TransferEffect, TransferAssumption DEF Moved
<1> HIDE DEF ix, t
<1>3. Apply(ix, s) = IF s # Failed /\ Allowed(ix, s) THEN t ELSE Failed
  BY DEF Apply, t
<1>4. /\ Apply(ix, s) \in Chain \cup {Failed}
      /\ Apply(ix, s) # Failed => /\ s # Failed /\ Moved(s, Apply(ix, s), value, next)
                                  /\ s.open = Proofs
      /\ s # Failed /\ Allowed(ix, s) => Apply(ix, s) # Failed
  BY <1>1, <1>2, <1>3
<1> QED BY <1>1, <1>4 DEF ix

LEMMA TransferUnit ==
  ASSUME NEW s, NEW e \in BOOLEAN, AtUnit(s, 10, e),
         NEW value \in Nat, NEW own \in Nat,
         value = s.acct["sender"].available, own = s.acct["sender"].decryptable, own >= Amount
  PROVE  UnitDone(s, 10, e,
           After(<<Ix("prove", "equality", 0, 0), Ix("prove", "validity", 0, 0),
                   Ix("prove", "range", 0, 0), Ix("transfer", "sender", value, own - Amount),
                   Ix("close", "equality", 0, 0), Ix("close", "validity", 0, 0),
                   Ix("close", "range", 0, 0)>>, s)[7])
<1> DEFINE next == own - Amount
           s1 == Apply(Ix("prove", "equality", 0, 0), s)
           s2 == Apply(Ix("prove", "validity", 0, 0), s1)
           s3 == Apply(Ix("prove", "range", 0, 0), s2)
           s4 == Apply(Ix("transfer", "sender", value, next), s3)
           s5 == Apply(Ix("close", "equality", 0, 0), s4)
           s6 == Apply(Ix("close", "validity", 0, 0), s5)
           r == Apply(Ix("close", "range", 0, 0), s6)
<1>1. PICK b \in 0..3 : Books(s, b) /\ (e => b = 3 /\ Setup(s, 7))
  BY InBooks
<1>2. s \in Chain /\ s # Failed
  BY InBooks, TransferAssumption
<1>3. b = 3 /\ value = Starting /\ own = Starting /\ next = Starting - Amount /\ next \in Nat
  BY <1>1, TransferAssumption DEF Books
<1>4. "equality" \in Proofs /\ "validity" \in Proofs /\ "range" \in Proofs
  BY DEF Proofs
<1>5. /\ s1 \in Chain \cup {Failed}
      /\ s1 # Failed => OpenedOnly(s, s1, s.open \cup {"equality"})
      /\ "equality" \notin s.open => s1 # Failed
  BY <1>2, <1>4, ProveStep
<1> HIDE DEF s1
<1>6. /\ s2 \in Chain \cup {Failed}
      /\ s2 # Failed => s1 # Failed /\ OpenedOnly(s1, s2, s1.open \cup {"validity"})
      /\ s1 # Failed /\ "validity" \notin s1.open => s2 # Failed
  BY <1>4, <1>5, ProveStep
<1> HIDE DEF s2
<1>7. /\ s3 \in Chain \cup {Failed}
      /\ s3 # Failed => s2 # Failed /\ OpenedOnly(s2, s3, s2.open \cup {"range"})
      /\ s2 # Failed /\ "range" \notin s2.open => s3 # Failed
  BY <1>4, <1>6, ProveStep
<1> HIDE DEF s3
<1>8. /\ s4 \in Chain \cup {Failed}
      /\ s4 # Failed => s3 # Failed /\ Moved(s3, s4, value, next) /\ s3.open = Proofs
      /\ (/\ s3 # Failed /\ s3.open = Proofs /\ s3.acct["sender"].available = value
          /\ s3.acct["recipient"].stage = 2) => s4 # Failed
  <2>1. value >= next
    BY <1>3, TransferAssumption
  <2> HIDE DEF next
  <2> QED BY <1>3, <1>7, <2>1, TransferStep
<1> HIDE DEF s4, next
<1>9. /\ s5 \in Chain \cup {Failed}
      /\ s5 # Failed => s4 # Failed /\ OpenedOnly(s4, s5, s4.open \ {"equality"})
      /\ s4 # Failed /\ "equality" \in s4.open => s5 # Failed
  BY <1>4, <1>8, CloseStep
<1> HIDE DEF s5
<1>10. /\ s6 \in Chain \cup {Failed}
       /\ s6 # Failed => s5 # Failed /\ OpenedOnly(s5, s6, s5.open \ {"validity"})
       /\ s5 # Failed /\ "validity" \in s5.open => s6 # Failed
  BY <1>4, <1>9, CloseStep
<1> HIDE DEF s6
<1>11. /\ r \in Chain \cup {Failed}
       /\ r # Failed => s6 # Failed /\ OpenedOnly(s6, r, s6.open \ {"range"})
       /\ s6 # Failed /\ "range" \in s6.open => r # Failed
  BY <1>4, <1>10, CloseStep
<1> HIDE DEF r
<1>12. ASSUME e PROVE r # Failed
  <2>1. s.open = {} /\ s.acct["recipient"].stage = 2
    BY <1>1, <1>12 DEF Setup
  <2>2. /\ s3 # Failed /\ s3.open = Proofs /\ s3.acct = s.acct
    BY <1>5, <1>6, <1>7, <2>1 DEF OpenedOnly, Proofs
  <2>3. s4 # Failed /\ s4.open = Proofs
    BY <1>8, <2>1, <2>2 DEF Moved
  <2> QED BY <1>9, <1>10, <1>11, <2>3 DEF OpenedOnly, Proofs
<1>13. ASSUME r # Failed
       PROVE  AtUnit(r, 11, e) /\ OneEntry(s, r)
  <2>1. /\ s3.acct = s.acct /\ s3.funded = s.funded /\ s3.mint = s.mint /\ s3.open = Proofs
        /\ s4 # Failed
    BY <1>5, <1>6, <1>7, <1>8, <1>9, <1>10, <1>11, <1>13 DEF OpenedOnly
  <2>2. /\ r \in Chain /\ r.acct = s4.acct /\ r.funded = s4.funded /\ r.mint = s4.mint
        /\ r.open = ((s4.open \ {"equality"}) \ {"validity"}) \ {"range"}
    BY <1>9, <1>10, <1>11, <1>13 DEF OpenedOnly
  <2>3. Moved(s3, s4, value, next)
    BY <1>8, <2>1
  <2>4. Books(r, 4)
    BY <1>1, <1>3, <2>1, <2>2, <2>3, TransferAssumption DEF Books, Moved
  <2>5. r.open = {}
    BY <2>1, <2>2, <2>3 DEF Moved, Proofs
  <2>6. Setup(s, 7) => Setup(r, 7)
    BY <2>1, <2>2, <2>3, <2>5 DEF Setup, Moved
  <2> QED BY <1>1, <1>3, <2>2, <2>4, <2>6, InBooks DEF OneEntry
<1>14. After(<<Ix("prove", "equality", 0, 0), Ix("prove", "validity", 0, 0),
               Ix("prove", "range", 0, 0), Ix("transfer", "sender", value, own - Amount),
               Ix("close", "equality", 0, 0), Ix("close", "validity", 0, 0),
               Ix("close", "range", 0, 0)>>, s)[7] = r
  BY RunOfSeven DEF s1, s2, s3, s4, s5, s6, r, next
<1> QED BY <1>12, <1>13, <1>14 DEF UnitDone

-----------------------------------------------------------------------------
(***************************************************************************)
(* Plans and their messages.                                               *)
(***************************************************************************)
(* A plan that fits is one message. *)
LEMMA PackWhole ==
  ASSUME capacity \in Nat \ {0}, NEW S, NEW plan \in Seq(S), Len(plan) # 0,
         Len(plan) <= capacity
  PROVE  Pack(plan) = <<plan>>
<1> DEFINE n == Len(plan)
           q == (n + capacity - 1) \div capacity
<1>1. n \in Nat \ {0} /\ n <= capacity
  OBVIOUS
<1>2. q = 1
  <2>1. /\ q \in Nat /\ capacity * q <= n + capacity - 1
        /\ n + capacity - 1 < capacity * q + capacity
    BY <1>1
  <2> HIDE DEF q
  <2>2. ASSUME q = 0 PROVE FALSE
    BY <1>1, <2>1, <2>2
  <2>3. ASSUME q >= 2 PROVE FALSE
    <3>1. capacity * q >= capacity * 2
      BY <2>1, <2>3
    <3> QED BY <1>1, <2>1, <3>1
  <2> QED BY <2>1, <2>2, <2>3
<1>3. Min({1 * capacity, n}) = n
  BY <1>1 DEF Min
<1>4. SubSeq(plan, 1, n) = plan
  OBVIOUS
<1>5. Pack(plan) = [i \in 1..1 |-> SubSeq(plan, (1 - 1) * capacity + 1, Min({1 * capacity, n}))]
  <2>1. Pack(plan) = [i \in 1..q |-> SubSeq(plan, (i - 1) * capacity + 1, Min({i * capacity, n}))]
    BY DEF Pack
  <2> HIDE DEF q, n
  <2> QED BY <1>2, <2>1
<1>6. (1 - 1) * capacity + 1 = 1
  OBVIOUS
<1>7. Pack(plan) = [i \in 1..1 |-> plan]
  BY <1>3, <1>4, <1>5, <1>6
<1> QED BY <1>7

(* One of two instructions is two messages where a message holds one. *)
LEMMA PackHalves ==
  ASSUME capacity = 1, NEW S, NEW plan \in Seq(S), Len(plan) = 2
  PROVE  Pack(plan) = <<<<plan[1]>>, <<plan[2]>>>>
<1>1. (2 + 1 - 1) \div 1 = 2
  OBVIOUS
<1>2. Pack(plan) = [i \in 1..2 |-> SubSeq(plan, (i - 1) * 1 + 1, Min({i * 1, 2}))]
  BY <1>1 DEF Pack
<1>3. \A i \in 1..2 : (i - 1) * 1 + 1 = i /\ Min({i * 1, 2}) = i
  BY DEF Min
<1>4. \A i \in 1..2 : SubSeq(plan, i, i) = <<plan[i]>>
  <2>1. ASSUME NEW i \in 1..2 PROVE SubSeq(plan, i, i) = <<plan[i]>>
    <3>1. /\ SubSeq(plan, i, i) \in Seq(S) /\ Len(SubSeq(plan, i, i)) = 1
          /\ SubSeq(plan, i, i)[1] = plan[i]
      BY SubSeqProperties
    <3> DEFINE part == SubSeq(plan, i, i)
    <3> HIDE DEF part
    <3>2. part \in Seq(S) /\ Len(part) = 1 /\ part[1] = plan[i]
      BY <3>1 DEF part
    <3>3. part = <<plan[i]>>
      BY <3>2
    <3> QED BY <3>3 DEF part
  <2> QED BY <2>1
<1>5. \A i \in 1..2 : SubSeq(plan, (i - 1) * 1 + 1, Min({i * 1, 2})) = <<plan[i]>>
  BY <1>3, <1>4, Zenon
<1>6. Pack(plan) = [i \in 1..2 |-> <<plan[i]>>]
  BY <1>2, <1>5
<1> QED BY <1>6


LEMMA PlanIs ==
  ASSUME driver \in Drivers, Position \in 1..12, step \in Nat \ {0}
  PROVE  /\ Sending <=> Position \notin {1, 10, 12}
         /\ Now.plan = "apply" <=> Position \in {8, 11}
         /\ Now.plan = "transfer" <=> Position = 9
         /\ Position = 2 => Due = <<Ix("airdrop", "sender", 0, 0)>>
         /\ Position = 3 => Due = <<Ix("allocateMint", "sender", 0, 0),
                                          Ix("initializeMint", "sender", 0, 0)>>
         /\ Position = 4 => Due = <<Ix("createAccount", "sender", 0, 0),
                                          Ix("configure", "sender", 0, 0)>>
         /\ Position = 5 => Due = <<Ix("createAccount", "recipient", 0, 0),
                                          Ix("configure", "recipient", 0, 0)>>
         /\ Position = 6 => Due = <<Ix("mintTo", "sender", Starting, 0)>>
         /\ Position = 7 => Due = <<Ix("deposit", "sender", Starting, 0)>>
         /\ Position = 8 => Due = ApplyPlan("sender")
         /\ Position = 9 => Due = TransferPlan("sender")
         /\ Position = 11 => Due = ApplyPlan("recipient")
<1>1. /\ Now.plan = PlanAt[Position]
      /\ Now.on = IF Position \in {5, 11} THEN "recipient" ELSE "sender"
  BY NowIs
<1>2. /\ Position \in {1, 10, 12} <=> Now.plan \in {"gate", "readBack", "check"}
      /\ Now.plan = "apply" <=> Position \in {8, 11}
      /\ Now.plan = "transfer" <=> Position = 9
  BY <1>1 DEF PlanAt
<1>3. CASE Position \in {2, 3, 4, 5, 6, 7}
  BY <1>1, <1>2, <1>3 DEF PlanAt, Plan, Due, Sending
<1>4. CASE Position \in {8, 9, 11}
  BY <1>1, <1>2, <1>4 DEF PlanAt, Plan, Due, Sending
<1>5. CASE Position \in {1, 10, 12}
  BY <1>2, <1>5 DEF Sending
<1> QED BY <1>3, <1>4, <1>5

(* What running a message leaves, when it does not fail. *)
MessageDone(s, m, faultless, r) ==
  /\ faultless => r # Failed
  /\ r # Failed => AtUnit(r, To(Due, Position, m), faultless) /\ OneEntry(s, r)

LEMMA OfOneUnit ==
  ASSUME NEW a, Due = <<a>>, Before[Position + 1] = Before[Position] + 1,
         NEW s, NEW e \in BOOLEAN, UnitDone(s, Before[Position], e, Apply(a, s)),
         NEW m \in Pieces(Due)
  PROVE  MessageDone(s, m, e, After(m, s)[Len(m)])
<1>1. m = <<a>> /\ Len(m) = 1 /\ ~FirstHalf(Due, m)
  BY DEF Pieces, Halves, FirstHalf
<1>2. After(m, s)[Len(m)] = Apply(a, s)
  BY <1>1, RunOfOne
<1>3. To(Due, Position, m) = Before[Position] + 1
  BY <1>1 DEF To
<1> QED BY <1>2, <1>3 DEF UnitDone, MessageDone

LEMMA OfTwoUnits ==
  ASSUME NEW a, NEW b, Due = <<a, b>>, a # b,
         NEW k \in 0..5, Before[Position] = k, Before[Position + 1] = k + 2,
         NEW e \in BOOLEAN,
         \A u : AtUnit(u, k, e) => UnitDone(u, k, e, Apply(a, u)),
         \A u : AtUnit(u, k + 1, e) => UnitDone(u, k + 1, e, Apply(b, u)),
         NEW m \in Pieces(Due), NEW s, AtUnit(s, From(Due, Position, m), e)
  PROVE  MessageDone(s, m, e, After(m, s)[Len(m)])
<1>1. /\ m \in {<<a, b>>, <<a>>, <<b>>}
      /\ FirstHalf(Due, m) <=> m = <<a>>
      /\ SecondHalf(Due, m) <=> m = <<b>>
  BY DEF Pieces, Halves, FirstHalf, SecondHalf
<1>2. <<a, b>> # <<a>> /\ <<a, b>> # <<b>> /\ <<a>> # <<b>>
  BY SMT
<1>3. CASE m = <<a>>
  <2>1. After(m, s)[Len(m)] = Apply(a, s)
    BY <1>3, RunOfOne
  <2>2. From(Due, Position, m) = k /\ To(Due, Position, m) = k + 1
    BY <1>1, <1>2, <1>3 DEF From, To
  <2> QED BY <2>1, <2>2 DEF UnitDone, MessageDone
<1>4. CASE m = <<b>>
  <2>1. After(m, s)[Len(m)] = Apply(b, s)
    BY <1>4, RunOfOne
  <2>2. From(Due, Position, m) = k + 1 /\ To(Due, Position, m) = (k + 1) + 1
    BY <1>1, <1>2, <1>4 DEF From, To
  <2> QED BY <2>1, <2>2 DEF UnitDone, MessageDone
<1>5. CASE m = <<a, b>>
  <2> DEFINE t == Apply(a, s)
             r == Apply(b, t)
  <2>1. After(m, s)[Len(m)] = r
    BY <1>5, RunOfTwo
  <2>2. From(Due, Position, m) = k /\ To(Due, Position, m) = (k + 1) + 1
    BY <1>1, <1>2, <1>5 DEF From, To
  <2>3. UnitDone(s, k, e, t)
    BY <2>2
  <2>4. t # Failed => UnitDone(t, k + 1, e, r)
    BY <2>3 DEF UnitDone
  <2>5. t = Failed => r = Failed
    BY DEF Apply
  <2> HIDE DEF t, r
  <2>6. ASSUME r # Failed
        PROVE  AtUnit(r, (k + 1) + 1, e) /\ OneEntry(s, r)
    <3>1. AtUnit(r, (k + 1) + 1, e) /\ AtUnit(s, k, e)
      BY <2>2, <2>4, <2>5, <2>6 DEF UnitDone
    <3>2. k \in 0..7 /\ (k + 1) + 1 \in 0..7
      OBVIOUS
    <3>3. Books(s, 0) /\ Books(r, 0)
      BY <3>1, <3>2, BeforeBooks
    <3> QED BY <3>1, <3>3 DEF OneEntry
  <2>7. e => r # Failed
    BY <2>3, <2>4 DEF UnitDone
  <2> QED BY <2>1, <2>2, <2>6, <2>7 DEF MessageDone
<1> QED BY <1>1, <1>3, <1>4, <1>5


(* Two instructions with different operations are different. *)
LEMMA DifferentOps ==
  ASSUME NEW o1, NEW o2, NEW p, NEW v, NEW n, o1 # o2
  PROVE  Ix(o1, p, v, n) # Ix(o2, p, v, n)
BY DEF Ix

(* Any message of the call, run where it is due. *)
LEMMA MessageRuns ==
  ASSUME driver \in Drivers, Position \in 1..12, step \in Nat \ {0}, Sending,
         NEW m \in Pieces(Due), NEW s, NEW e \in BOOLEAN, AtUnit(s, From(Due, Position, m), e),
         Now.plan \in {"apply", "transfer"} => read = s.acct,
         Now.plan = "transfer" => read["sender"].decryptable >= Amount
  PROVE  MessageDone(s, m, e, After(m, s)[Len(m)])
<1>1. CASE Position = 2
  <2>1. Due = <<Ix("airdrop", "sender", 0, 0)>>
    BY <1>1, PlanIs
  <2>2. Before[Position] = 0 /\ Before[Position + 1] = 1 /\ From(Due, Position, m) = 0
    BY <1>1, <2>1 DEF Before, From, SecondHalf
  <2>3. UnitDone(s, 0, e, Apply(Ix("airdrop", "sender", 0, 0), s))
    BY <2>2, AirdropUnit
  <2> QED BY <2>1, <2>2, <2>3, OfOneUnit
<1>2. CASE Position = 3
  <2> DEFINE a == Ix("allocateMint", "sender", 0, 0)
             b == Ix("initializeMint", "sender", 0, 0)
  <2>1. Due = <<a, b>>
    BY <1>2, PlanIs
  <2>2. a # b
    BY DifferentOps
  <2>3. Before[Position] = 1 /\ Before[Position + 1] = 3
    BY <1>2 DEF Before
  <2>4. \A u : AtUnit(u, 1, e) => UnitDone(u, 1, e, Apply(a, u))
    BY MintUnits
  <2>5. \A u : AtUnit(u, 1 + 1, e) => UnitDone(u, 1 + 1, e, Apply(b, u))
    BY MintUnits
  <2> HIDE DEF a, b
  <2> QED BY <2>1, <2>2, <2>3, <2>4, <2>5, OfTwoUnits
<1>3. CASE Position \in {4, 5}
  <2> DEFINE p == IF Position = 4 THEN "sender" ELSE "recipient"
             k == IF Position = 4 THEN 3 ELSE 5
             a == Ix("createAccount", p, 0, 0)
             b == Ix("configure", p, 0, 0)
  <2>1. Due = <<a, b>>
    BY <1>3, PlanIs
  <2>2. a # b
    BY DifferentOps
  <2>3. Before[Position] = k /\ Before[Position + 1] = k + 2 /\ k \in 0..5
    BY <1>3 DEF Before
  <2>4. \A u : AtUnit(u, k, e) => UnitDone(u, k, e, Apply(a, u))
    <3>1. CASE Position = 4
      BY <3>1, PartyUnits
    <3>2. CASE Position = 5
      BY <3>2, PartyUnits
    <3> QED BY <1>3, <3>1, <3>2
  <2>5. \A u : AtUnit(u, k + 1, e) => UnitDone(u, k + 1, e, Apply(b, u))
    <3>1. CASE Position = 4
      BY <3>1, PartyUnits
    <3>2. CASE Position = 5
      BY <3>2, PartyUnits
    <3> QED BY <1>3, <3>1, <3>2
  <2> HIDE DEF a, b, k
  <2> QED BY <2>1, <2>2, <2>3, <2>4, <2>5, OfTwoUnits
<1>4. CASE Position = 6
  <2>1. Due = <<Ix("mintTo", "sender", Starting, 0)>>
    BY <1>4, PlanIs
  <2>2. Before[Position] = 7 /\ Before[Position + 1] = 8 /\ From(Due, Position, m) = 7
    BY <1>4, <2>1 DEF Before, From, SecondHalf
  <2>3. UnitDone(s, 7, e, Apply(Ix("mintTo", "sender", Starting, 0), s))
    BY <2>2, MintToUnit
  <2> QED BY <2>1, <2>2, <2>3, OfOneUnit
<1>5. CASE Position = 7
  <2>1. Due = <<Ix("deposit", "sender", Starting, 0)>>
    BY <1>5, PlanIs
  <2>2. Before[Position] = 8 /\ Before[Position + 1] = 9 /\ From(Due, Position, m) = 8
    BY <1>5, <2>1 DEF Before, From, SecondHalf
  <2>3. UnitDone(s, 8, e, Apply(Ix("deposit", "sender", Starting, 0), s))
    BY <2>2, DepositUnit
  <2> QED BY <2>1, <2>2, <2>3, OfOneUnit
<1>6. CASE Position \in {8, 11}
  <2> DEFINE p == IF Position = 8 THEN "sender" ELSE "recipient"
             k == IF Position = 8 THEN 9 ELSE 11
             a == Ix("apply", p, 0, s.acct[p].decryptable + s.acct[p].pending)
  <2>1. read = s.acct
    BY <1>6, PlanIs
  <2>2. Due = <<a>>
    BY <1>6, <2>1, PlanIs DEF ApplyPlan
  <2>3. Before[Position] = k /\ Before[Position + 1] = k + 1 /\ From(Due, Position, m) = k
    BY <1>6, <2>2 DEF Before, From, SecondHalf
  <2>4. UnitDone(s, k, e, Apply(a, s))
    <3>1. k \in {9, 11} /\ p = IF k = 9 THEN "sender" ELSE "recipient"
      BY <1>6
    <3> HIDE DEF k, p
    <3> QED BY <2>3, <3>1, ApplyUnit
  <2> QED BY <2>2, <2>3, <2>4, OfOneUnit
<1>7. CASE Position = 9
  <2> DEFINE own == s.acct["sender"].decryptable
             value == s.acct["sender"].available
  <2>1. read = s.acct /\ own >= Amount
    BY <1>7, PlanIs
  <2>2. Before[Position] = 10 /\ Before[Position + 1] = 11
    BY <1>7 DEF Before
  <2>3. Due = TransferPlan("sender") /\ Len(Due) = 7
    BY <1>7, PlanIs DEF TransferPlan
  <2>4. m = TransferPlan("sender") /\ Len(m) = 7 /\ ~FirstHalf(Due, m) /\ ~SecondHalf(Due, m)
    BY <2>3 DEF Pieces, Halves, FirstHalf, SecondHalf
  <2>5. From(Due, Position, m) = 10 /\ To(Due, Position, m) = 10 + 1
    BY <2>2, <2>4 DEF From, To
  <2>6. own \in Nat /\ value \in Nat
    <3>1. s \in Chain
      BY <2>5, InBooks
    <3> QED BY <3>1, Accounts DEF Account
  <2>7. UnitDone(s, 10, e, After(m, s)[7])
    BY <2>1, <2>4, <2>5, <2>6, TransferUnit DEF TransferPlan
  <2> QED BY <2>4, <2>5, <2>7 DEF UnitDone, MessageDone
<1> QED BY <1>1, <1>2, <1>3, <1>4, <1>5, <1>6, <1>7, PlanIs


(* The same of a transaction: it fails without a fault only where v1 is not
   active. *)
LEMMA TransactionRuns ==
  ASSUME driver \in Drivers, Position \in 1..12, step \in Nat \ {0}, Sending,
         NEW m \in Pieces(Due), NEW s, NEW e \in BOOLEAN, AtUnit(s, From(Due, Position, m), e),
         Now.plan \in {"apply", "transfer"} => read = s.acct,
         Now.plan = "transfer" => read["sender"].decryptable >= Amount
  PROVE  LET r == Run(m, s, active)
         IN /\ e /\ active => r # Failed
            /\ r # Failed => AtUnit(r, To(Due, Position, m), e) /\ OneEntry(s, r)
<1> DEFINE t == After(m, s)[Len(m)]
           r == Run(m, s, active)
<1>1. MessageDone(s, m, e, t)
  BY MessageRuns
<1>2. e /\ active => m[1].op = "airdrop" \/ (s.funded /\ active)
  <2>1. CASE Position = 2
    <3>1. Due = <<Ix("airdrop", "sender", 0, 0)>>
      BY <2>1, PlanIs
    <3>2. m = <<Ix("airdrop", "sender", 0, 0)>>
      BY <3>1 DEF Pieces, Halves
    <3> QED BY <3>2 DEF Ix
  <2>2. CASE Position \in 3..12
    <3>1. From(Due, Position, m) \in 1..13
      BY <2>2 DEF From, Before
    <3> QED BY <3>1 DEF AtUnit, Setup
  <2> QED BY <2>1, <2>2, PlanIs
<1>3. r = t \/ r = Failed
  BY DEF Run
<1>4. e /\ active => r = t
  BY <1>2 DEF Run
<1> HIDE DEF t, r
<1>5. /\ e /\ active => r # Failed
      /\ r # Failed => AtUnit(r, To(Due, Position, m), e) /\ OneEntry(s, r)
  BY <1>1, <1>3, <1>4 DEF MessageDone
<1> QED BY <1>5 DEF r

(* How long the plans are: a plan of two is spread at most over two. *)
Parts(plan) == {plan[i] : i \in 1..Len(plan)}

LEMMA PlanLengths ==
  ASSUME driver \in Drivers, Position \in 1..12, step \in Nat \ {0}, Sending
  PROVE  /\ Due \in Seq(Parts(Due))
         /\ Len(Due) \in {1, 2, 7}
         /\ Len(Due) = 2 => Position \in {3, 4, 5} /\ Due[1] # Due[2]
         /\ Len(Due) = 7 => Now.packs = "one"
<1>1. CASE Position \in {2, 6, 7, 8, 11}
  <2>1. PICK a : Due = <<a>>
    BY <1>1, PlanIs DEF ApplyPlan
  <2>2. <<a>> \in Seq(Parts(<<a>>)) /\ Len(<<a>>) = 1
    BY DEF Parts
  <2> QED BY <2>1, <2>2
<1>2. CASE Position \in {3, 4, 5}
  <2>1. PICK a, b : Due = <<a, b>> /\ a # b
    BY <1>2, PlanIs, DifferentOps
  <2>2. <<a, b>> \in Seq(Parts(<<a, b>>)) /\ Len(<<a, b>>) = 2 /\ <<a, b>>[1] = a /\ <<a, b>>[2] = b
    BY DEF Parts
  <2> QED BY <1>2, <2>1, <2>2
<1>3. CASE Position = 9
  <2>1. PICK a, b, c, d, x, y, z : Due = <<a, b, c, d, x, y, z>>
    BY <1>3, PlanIs DEF TransferPlan
  <2>2. <<a, b, c, d, x, y, z>> \in Seq(Parts(<<a, b, c, d, x, y, z>>))
        /\ Len(<<a, b, c, d, x, y, z>>) = 7
    BY DEF Parts
  <2>3. Now.packs = "one"
    BY <1>3, NowIs
  <2> QED BY <2>1, <2>2, <2>3
<1> QED BY <1>1, <1>2, <1>3, PlanIs

LEMMA PackIs ==
  ASSUME driver \in Drivers, Position \in 1..12, step \in Nat \ {0}, capacity \in Nat \ {0},
         Sending, ~(Now.packs = "one" /\ Len(Due) > capacity)
  PROVE  LET q == Pack(Due)
         IN /\ Head(q) \in Pieces(Due) /\ Tail(q) = Rest(Due, Head(q))
            /\ From(Due, Position, Head(q)) = Before[Position]
<1> DEFINE plan == Due
<1>1. /\ plan \in Seq(Parts(plan))
      /\ Len(plan) \in {1, 2, 7}
      /\ Len(plan) = 2 => plan[1] # plan[2]
      /\ Len(plan) = 7 => Now.packs = "one"
  BY PlanLengths
<1>2. CASE Len(plan) <= capacity
  <2>1. Pack(plan) = <<plan>>
    BY <1>1, <1>2, PackWhole
  <2>2. ~FirstHalf(Due, plan) /\ ~SecondHalf(Due, plan)
    BY <1>1 DEF FirstHalf, SecondHalf
  <2> QED BY <2>1, <2>2 DEF Pieces, Rest, From
<1>3. CASE Len(plan) > capacity
  <2>1. capacity = 1 /\ Len(plan) = 2
    <3>1. ~(Now.packs = "one" /\ Len(plan) > capacity)
      OBVIOUS
    <3>2. Len(plan) # 7
      BY <1>1, <1>3, <3>1, Zenon
    <3> DEFINE n == Len(plan)
    <3>3. n \in {1, 2, 7} /\ n # 7 /\ n > capacity /\ capacity \in Nat \ {0}
      BY <1>1, <1>3, <3>2
    <3> HIDE DEF n
    <3>4. capacity = 1 /\ n = 2
      BY <3>3
    <3> QED BY <3>4 DEF n
  <2>2. Pack(plan) = <<<<plan[1]>>, <<plan[2]>>>>
    BY <1>1, <2>1, PackHalves
  <2>3. FirstHalf(Due, <<plan[1]>>) /\ ~SecondHalf(Due, <<plan[1]>>)
    BY <1>1, <2>1 DEF FirstHalf, SecondHalf
  <2>4. <<plan[1]>> \in Pieces(Due)
    BY <2>1 DEF Pieces, Halves
  <2>5. Rest(Due, <<plan[1]>>) = <<<<plan[2]>>>> /\ From(Due, Position, <<plan[1]>>) = Before[Position]
    BY <2>3 DEF Rest, From
  <2> HIDE DEF plan
  <2>6. Head(Pack(plan)) = <<plan[1]>> /\ Tail(Pack(plan)) = <<<<plan[2]>>>>
    BY <2>2
  <2> QED BY <2>4, <2>5, <2>6 DEF plan
<1> QED BY <1>1, <1>2, <1>3

-----------------------------------------------------------------------------
(***************************************************************************)
(* The steps.                                                              *)
(***************************************************************************)
(* What a fault takes from what is known of the chain. *)
LEMMA AfterFault ==
  ASSUME NEW s, NEW k \in 0..12, NEW n \in k..12, NEW e \in BOOLEAN, AtUnit(s, k, e)
  PROVE  AtUnit(s, n, FALSE)
<1>1. Entries(k) \in 0..Entries(n) /\ Entries(n) \in Nat
  BY DEF Entries
<1> QED BY <1>1 DEF AtUnit

LEMMA LessSure ==
  ASSUME NEW s, NEW k \in 0..12, NEW e \in BOOLEAN, NEW f \in BOOLEAN, f => e, AtUnit(s, k, e)
  PROVE  AtUnit(s, k, f)
BY DEF AtUnit

LEMMA UnitsOfMessage ==
  ASSUME driver \in Drivers, Position \in 1..12, step \in Nat \ {0}, Sending, NEW m \in Pieces(Due)
  PROVE  /\ Position + 1 \in 2..12
         /\ From(Due, Position, m) \in 0..12
         /\ To(Due, Position, m) \in From(Due, Position, m)..12
<1>1. Position \in 2..11
  BY PlanIs
<1>2. Len(Due) = 2 => Position \in {3, 4, 5}
  BY PlanLengths
<1>3. CASE Position \in {3, 4, 5}
  BY <1>3 DEF From, To, Before
<1>4. CASE Position \notin {3, 4, 5}
  <2>1. From(Due, Position, m) = Before[Position] /\ To(Due, Position, m) = Before[Position + 1]
    BY <1>2, <1>4 DEF From, To, FirstHalf, SecondHalf
  <2> QED BY <1>1, <1>4, <2>1 DEF Before
<1> QED BY <1>1, <1>3, <1>4

LEMMA BeforeIs ==
  /\ \A k \in 1..12 : Before[k] \in 0..12
  /\ \A k \in 1..11 : Before[k] <= Before[k + 1]
  /\ Before[1] = 0 /\ Before[2] = 0 /\ Before[8] = 9 /\ Before[9] = 10 /\ Before[10] = 11
  /\ Before[11] = 11 /\ Before[12] = 12
BY DEF Before

LEMMA SamePlace ==
  ASSUME UNCHANGED <<driver, step>>
  PROVE  Now' = Now /\ Position' = Position /\ Sending' = Sending
BY DEF Now, Main, Position, Sending

LEMMA SameMessages ==
  ASSUME UNCHANGED <<driver, step, read>>
  PROVE  Due' = Due
BY SamePlace DEF Due, Plan, ApplyPlan, TransferPlan

LEMMA StillFresh ==
  ASSUME UNCHANGED <<driver, step, read, confirmed>>
  PROVE  Fresh' = Fresh
BY SamePlace DEF Fresh

(* The chain is at some unit, wherever the program is. *)
LEMMA ConfirmedIs ==
  ASSUME TransferInv
  PROVE  AtUnit(confirmed, 12, FALSE)
<1>1. /\ driver \in Drivers /\ Position \in 1..12 /\ step \in Nat \ {0} /\ (~fault) \in BOOLEAN
      /\ pc \in {"start", "build", "send", "await", "done"}
  BY DEF TransferInv, Types
<1>2. CASE Unsettled
  <2>1. /\ Sending /\ inFlight \in Pieces(Due)
        /\ AtUnit(confirmed, From(Due, Position, inFlight), ~fault)
    BY <1>2 DEF TransferInv, InFlight
  <2>2. From(Due, Position, inFlight) \in 0..12 /\ 12 \in From(Due, Position, inFlight)..12
    BY <1>1, <2>1, UnitsOfMessage
  <2> QED BY <1>1, <2>1, <2>2, AfterFault
<1>3. CASE ~Unsettled /\ pc \in {"start", "build"}
  <2>1. AtUnit(confirmed, Before[Position], ~fault)
    BY <1>3 DEF TransferInv, AtStart
  <2>2. Before[Position] \in 0..12 /\ 12 \in Before[Position]..12
    BY <1>1, BeforeIs
  <2> QED BY <1>1, <2>1, <2>2, AfterFault
<1>4. CASE ~Unsettled /\ pc = "send"
  <2>1. /\ Sending /\ Head(messages) \in Pieces(Due)
        /\ AtUnit(confirmed, From(Due, Position, Head(messages)), ~fault)
    BY <1>4 DEF TransferInv, AtSend
  <2>2. /\ From(Due, Position, Head(messages)) \in 0..12
        /\ 12 \in From(Due, Position, Head(messages))..12
    BY <1>1, <2>1, UnitsOfMessage
  <2> QED BY <1>1, <2>1, <2>2, AfterFault
<1>5. CASE ~Unsettled /\ pc = "await"
  <2>1. /\ Sending /\ inFlight \in Pieces(Due)
        /\ AtUnit(confirmed, To(Due, Position, inFlight), ~fault)
    BY <1>5 DEF TransferInv, AtAwait
  <2>2. To(Due, Position, inFlight) \in 0..12 /\ 12 \in To(Due, Position, inFlight)..12
    BY <1>1, <2>1, UnitsOfMessage
  <2> QED BY <1>1, <2>1, <2>2, AfterFault
<1>6. CASE ~Unsettled /\ pc = "done"
  BY <1>6 DEF TransferInv, AtDone
<1> QED BY <1>1, <1>2, <1>3, <1>4, <1>5, <1>6


(* A program that throws keeps what is known of the chain, if it had cause. *)
LEMMA Throws ==
  ASSUME TransferInv, pc # "done", Throw, UNCHANGED <<driver, capacity, cluster>>,
         fault' \in BOOLEAN, fault => fault',
         fault' \/ (Now.packs = "one" /\ Len(Due) > capacity)
  PROVE  TransferInv'
<1>1. /\ driver \in Drivers /\ Position \in 1..12 /\ step \in Nat \ {0} /\ (~fault) \in BOOLEAN
      /\ fault \in BOOLEAN
  BY DEF TransferInv, Types
<1>2. /\ pc' = "done" /\ report' = "error"
      /\ UNCHANGED <<driver, capacity, active, tip, confirmed, status, inFlight, step, read,
                     messages>>
  BY DEF Throw, cluster
<1>3. /\ Now' = Now /\ Position' = Position /\ Sending' = Sending /\ Due' = Due
      /\ Fresh' = Fresh /\ Unsettled' = Unsettled
  BY <1>2, SamePlace, SameMessages, StillFresh DEF Unsettled
<1>4. Types'
  BY <1>1, <1>2, <1>3 DEF TransferInv, Types
<1>5. ASSUME Unsettled
      PROVE  /\ Sending /\ Fresh /\ inFlight \in Pieces(Due)
             /\ AtUnit(confirmed, From(Due, Position, inFlight), ~fault')
             /\ From(Due, Position, inFlight) \in 0..12 /\ To(Due, Position, inFlight) \in 0..12
  <2>1. /\ Sending /\ Fresh /\ inFlight \in Pieces(Due)
        /\ AtUnit(confirmed, From(Due, Position, inFlight), ~fault)
    BY <1>5 DEF TransferInv, InFlight
  <2>2. From(Due, Position, inFlight) \in 0..12 /\ To(Due, Position, inFlight) \in 0..12
    BY <1>1, <2>1, UnitsOfMessage
  <2>3. AtUnit(confirmed, From(Due, Position, inFlight), ~fault')
    BY <1>1, <2>1, <2>2, LessSure
  <2> QED BY <2>1, <2>2, <2>3
<1>6. InFlight'
  BY <1>2, <1>3, <1>5 DEF InFlight
<1>7. Tip'
  <2>1. CASE status = "landed"
    <3>1. AtUnit(tip, To(Due, Position, inFlight), ~fault) /\ OneEntry(confirmed, tip)
      BY <2>1 DEF TransferInv, Tip
    <3>2. To(Due, Position, inFlight) \in 0..12
      BY <1>5, <2>1 DEF Unsettled
    <3>3. AtUnit(tip, To(Due, Position, inFlight), ~fault')
      BY <1>1, <3>1, <3>2, LessSure
    <3> QED BY <1>2, <1>3, <2>1, <3>1, <3>3 DEF Tip
  <2>2. CASE status # "landed"
    BY <1>2, <2>2 DEF TransferInv, Tip
  <2> QED BY <2>1, <2>2
<1>8. AtStart' /\ AtBuild' /\ AtSend' /\ AtAwait'
  BY <1>2 DEF AtStart, AtBuild, AtSend, AtAwait
<1>9. AtDone'
  BY <1>2, ConfirmedIs DEF AtDone
<1>10. Progress'
  BY <1>2, <1>3 DEF TransferInv, Progress
<1>11. FailsOnlyOnFault'
  <2>1. Due' = Plan(Now)'
    BY DEF Due
  <2> QED BY <1>2, <1>3, <2>1 DEF FailsOnlyOnFault
<1> QED BY <1>4, <1>6, <1>7, <1>8, <1>9, <1>10, <1>11 DEF TransferInv

(* A program that goes on to its next call has done the units of this one. *)
LEMMA GoesOn ==
  ASSUME TransferInv, pc # "done", NextCall, UNCHANGED <<driver, capacity, cluster, fault>>,
         ~Unsettled, status = "none" => Position = 1,
         AtUnit(confirmed, IF Position = 12 THEN 12 ELSE Before[Position + 1], ~fault)
  PROVE  TransferInv'
<1>1. /\ driver \in Drivers /\ Position \in 1..12 /\ step \in Nat \ {0} /\ (~fault) \in BOOLEAN
      /\ fault \in BOOLEAN
  BY DEF TransferInv, Types
<1>2. UNCHANGED <<driver, capacity, active, tip, confirmed, status, inFlight, read, messages,
                  fault>>
  BY DEF NextCall, cluster
<1>3. step = Len(Main) <=> Position = 12
  BY <1>1, NowIs
<1>4. ~Unsettled' /\ InFlight' /\ Tip'
  BY <1>2 DEF TransferInv, Tip, InFlight, Unsettled
<1>5. CASE Position = 12
  <2>1. pc' = "done" /\ report' = "ok" /\ step' = step
    BY <1>3, <1>5 DEF NextCall
  <2>2. Position' = Position
    BY <1>2, <2>1, SamePlace
  <2>3. Types'
    BY <1>2, <2>1, <2>2 DEF TransferInv, Types
  <2>4. AtStart' /\ AtBuild' /\ AtSend' /\ AtAwait'
    BY <2>1 DEF AtStart, AtBuild, AtSend, AtAwait
  <2>5. AtDone'
    BY <1>2, ConfirmedIs DEF AtDone
  <2>6. Progress' /\ FailsOnlyOnFault'
    BY <1>2, <2>1, <2>2 DEF TransferInv, Progress, FailsOnlyOnFault
  <2> QED BY <1>4, <2>3, <2>4, <2>5, <2>6 DEF TransferInv
<1>6. CASE Position # 12
  <2>1. pc' = "start" /\ step' = step + 1 /\ report' = report
    BY <1>3, <1>6 DEF NextCall
  <2>2. Position' = Position + 1 /\ Position' \in 2..12
    BY <1>1, <1>2, <1>6, <2>1 DEF Position
  <2>3. report' = "none"
    BY <1>1, <2>1 DEF TransferInv, Types
  <2>4. Types'
    BY <1>1, <1>2, <2>1, <2>2, <2>3 DEF TransferInv, Types
  <2>5. AtStart'
    BY <1>2, <1>6, <2>2 DEF AtStart
  <2>6. AtBuild' /\ AtSend' /\ AtAwait' /\ AtDone'
    BY <2>1 DEF AtBuild, AtSend, AtAwait, AtDone
  <2>7. Progress' /\ FailsOnlyOnFault'
    BY <1>1, <1>2, <2>1, <2>2, <2>3 DEF TransferInv, Progress, FailsOnlyOnFault
  <2> QED BY <1>4, <2>4, <2>5, <2>6, <2>7 DEF TransferInv
<1> QED BY <1>5, <1>6


(* Outside the wait for a transaction none is in flight. *)
LEMMA Settled ==
  ASSUME TransferInv, pc \in {"start", "build", "send"}
  PROVE  ~Unsettled /\ status # "landed" /\ tip = confirmed
BY DEF TransferInv, InFlight, Tip, Unsettled

LEMMA GateKeepsInv ==
  ASSUME TransferInv, Gate
  PROVE  TransferInv'
<1>1. /\ driver \in Drivers /\ Position \in 1..12 /\ step \in Nat \ {0} /\ active \in BOOLEAN
  BY DEF TransferInv, Types
<1>2. Position = 1 /\ pc = "start"
  <2>1. Now.plan = "gate"
    BY DEF Gate, AtCall
  <2>2. Now.plan = PlanAt[Position]
    BY <1>1, NowIs
  <2> QED BY <1>1, <2>1, <2>2 DEF PlanAt, Gate, AtCall
<1>3. ~fault /\ ~Unsettled
  BY <1>2, Settled DEF TransferInv, Progress
<1>4. CASE active
  <2>1. AtUnit(confirmed, Before[2], ~fault)
    BY <1>2, BeforeIs DEF TransferInv, AtStart
  <2>2. NextCall /\ UNCHANGED <<driver, capacity, cluster, fault>>
    BY <1>3, <1>4 DEF Gate, TransferInv, Types
  <2> QED BY <1>2, <1>3, <2>1, <2>2, GoesOn
<1>5. CASE ~active
  BY <1>1, <1>2, <1>5, Throws DEF Gate
<1> QED BY <1>4, <1>5

LEMMA ReadAccountsKeepsInv ==
  ASSUME TransferInv, ReadAccounts
  PROVE  TransferInv'
<1>1. /\ driver \in Drivers /\ Position \in 1..12 /\ step \in Nat \ {0} /\ (~fault) \in BOOLEAN
      /\ fault \in BOOLEAN /\ report = "none"
  BY DEF TransferInv, Types, ReadAccounts, AtCall
<1>2. /\ pc = "start" /\ Now.plan \in {"apply", "transfer"} /\ ~Unsettled
      /\ Position \in {8, 9, 11}
  BY <1>1, Settled, PlanIs DEF ReadAccounts, AtCall
<1>3. AtUnit(confirmed, Before[Position], ~fault) /\ Before[Position] \in {9, 10, 11}
  BY <1>2, BeforeIs DEF TransferInv, AtStart
<1>4. CASE AccountsThere
  <2>1. /\ read' = confirmed.acct /\ pc' = "build"
        /\ UNCHANGED <<driver, capacity, active, tip, confirmed, status, inFlight, step, messages,
                       report, fault>>
    BY <1>4 DEF ReadAccounts, cluster
  <2>2. Now' = Now /\ Position' = Position
    BY <2>1, SamePlace
  <2>3. Types'
    BY <1>1, <2>1, <2>2 DEF TransferInv, Types
  <2>4. InFlight' /\ Tip'
    BY <1>2, <2>1, Settled DEF InFlight, Tip, Unsettled
  <2>5. AtStart' /\ AtBuild'
    BY <1>2, <1>3, <2>1, <2>2 DEF AtStart, AtBuild
  <2>6. AtSend' /\ AtAwait' /\ AtDone'
    BY <2>1 DEF AtSend, AtAwait, AtDone
  <2>7. Progress' /\ FailsOnlyOnFault'
    BY <1>1, <1>2, <2>1, <2>2 DEF TransferInv, Progress, FailsOnlyOnFault
  <2> QED BY <2>3, <2>4, <2>5, <2>6, <2>7 DEF TransferInv
<1>5. CASE ~AccountsThere
  <2>1. fault
    <3>1. SUFFICES ASSUME ~fault PROVE AccountsThere
      BY <1>5
    <3>2. Setup(confirmed, 7)
      BY <1>3, <3>1 DEF AtUnit
    <3> QED BY <3>2 DEF AccountsThere, Setup, Parties
  <2>2. Throw /\ UNCHANGED <<driver, capacity, cluster>> /\ fault' = fault
    BY <1>5 DEF ReadAccounts
  <2> QED BY <1>1, <1>2, <2>1, <2>2, Throws
<1> QED BY <1>4, <1>5

LEMMA BuildKeepsInv ==
  ASSUME TransferInv, Build
  PROVE  TransferInv'
<1>1. /\ driver \in Drivers /\ Position \in 1..12 /\ step \in Nat \ {0} /\ (~fault) \in BOOLEAN
      /\ fault \in BOOLEAN /\ capacity \in Nat \ {0}
  BY DEF TransferInv, Types
<1>2. /\ pc \in {"start", "build"} /\ Sending /\ report = "none"
      /\ Now.plan \in {"apply", "transfer"} => pc = "build"
  BY DEF Build, AtCall, Sending, TransferInv, Types
<1>3. /\ ~Unsettled /\ status # "landed" /\ tip = confirmed
      /\ AtUnit(confirmed, Before[Position], ~fault)
  BY <1>2, Settled DEF TransferInv, AtStart
<1>4. Now.plan \in {"apply", "transfer"} => read = confirmed.acct
  BY <1>2 DEF TransferInv, AtBuild
<1>5. Now.plan = "transfer" => Now.on = "sender"
  BY <1>1, NowIs, PlanIs
<1>6. CASE \/ Now.plan = "transfer" /\ read[Now.on].decryptable < Amount
           \/ Now.packs = "one" /\ Len(Due) > capacity
  <2>1. Throw /\ UNCHANGED <<driver, capacity, cluster>> /\ fault' = fault
    BY <1>6 DEF Build, Due
  <2>2. ASSUME Now.plan = "transfer", read[Now.on].decryptable < Amount PROVE fault
    <3>1. SUFFICES ASSUME ~fault PROVE FALSE
      OBVIOUS
    <3>2. AtUnit(confirmed, 10, TRUE)
      BY <1>1, <1>3, <2>2, <3>1, PlanIs, BeforeIs
    <3>3. Books(confirmed, 3)
      BY <3>2 DEF AtUnit, Entries
    <3>4. confirmed.acct["sender"].decryptable = Starting
      BY <3>3 DEF Books
    <3> QED BY <1>4, <1>5, <2>2, <3>4, TransferAssumption
  <2> QED BY <1>1, <1>2, <1>6, <2>1, <2>2, Throws
<1>7. CASE ~(\/ Now.plan = "transfer" /\ read[Now.on].decryptable < Amount
             \/ Now.packs = "one" /\ Len(Due) > capacity)
  <2>1. /\ pc' = "send" /\ messages' = Pack(Due)
        /\ UNCHANGED <<driver, capacity, active, tip, confirmed, status, inFlight, step, read,
                       report, fault>>
    BY <1>7 DEF Build, Due, cluster
  <2>2. /\ Now' = Now /\ Position' = Position /\ Sending' = Sending /\ Due' = Due
        /\ Fresh' = Fresh
    BY <2>1, SamePlace, SameMessages, StillFresh
  <2>3. /\ Head(messages') \in Pieces(Due) /\ Tail(messages') = Rest(Due, Head(messages'))
        /\ From(Due, Position, Head(messages')) = Before[Position]
    BY <1>1, <1>2, <1>7, <2>1, PackIs
  <2>4. Fresh
    <3>1. Now.plan = "transfer" => read["sender"] \in Account
      <4>1. confirmed \in Chain
        BY <1>3 DEF AtUnit
      <4> QED BY <1>4, <4>1, Accounts
    <3> QED BY <1>4, <1>5, <1>7, <3>1, TransferAssumption DEF Fresh, Account
  <2>5. Types'
    BY <1>1, <1>2, <2>1, <2>2 DEF TransferInv, Types
  <2>6. InFlight' /\ Tip'
    BY <1>3, <2>1 DEF InFlight, Tip, Unsettled
  <2>7. AtSend'
    BY <1>2, <1>3, <2>1, <2>2, <2>3, <2>4 DEF AtSend
  <2>8. AtStart' /\ AtBuild' /\ AtAwait' /\ AtDone'
    BY <2>1 DEF AtStart, AtBuild, AtAwait, AtDone
  <2>9. Progress' /\ FailsOnlyOnFault'
    <3>1. Position # 1
      BY <1>1, <1>2, PlanIs
    <3> QED BY <1>1, <1>2, <2>1, <2>2, <3>1 DEF TransferInv, Progress, FailsOnlyOnFault
  <2> QED BY <2>5, <2>6, <2>7, <2>8, <2>9 DEF TransferInv
<1> QED BY <1>6, <1>7


LEMMA SubmitKeepsInv ==
  ASSUME TransferInv, Submit
  PROVE  TransferInv'
<1> DEFINE m == Head(messages)
<1>1. /\ driver \in Drivers /\ Position \in 1..12 /\ step \in Nat \ {0} /\ (~fault) \in BOOLEAN
      /\ fault \in BOOLEAN /\ active \in BOOLEAN /\ report = "none" /\ pc = "send"
  BY DEF TransferInv, Types, Submit
<1>2. /\ Sending /\ Fresh /\ m \in Pieces(Due) /\ Tail(messages) = Rest(Due, m)
      /\ AtUnit(confirmed, From(Due, Position, m), ~fault)
  BY <1>1 DEF TransferInv, AtSend
<1>3. status # "landed" /\ tip = confirmed
  BY <1>1, Settled
<1>4. CASE Run(m, confirmed, active) = Failed
  <2>1. Throw /\ UNCHANGED <<driver, capacity, cluster>> /\ fault' = (fault \/ ~active)
    BY <1>4 DEF Submit, cluster
  <2>2. fault'
    <3>1. ~fault /\ active => Run(m, confirmed, active) # Failed
      BY <1>1, <1>2, TransactionRuns DEF Fresh
    <3> QED BY <1>4, <2>1, <3>1
  <2>3. fault' \in BOOLEAN
    BY <1>1, <2>1, <2>2
  <2> QED BY <1>1, <2>1, <2>2, <2>3, Throws
<1>5. CASE Run(m, confirmed, active) # Failed
  <2>1. /\ status' = "sent" /\ inFlight' = m
        /\ UNCHANGED <<driver, capacity, active, tip, confirmed, step, read>>
        /\ \/ pc' = "await" /\ messages' = Tail(messages) /\ UNCHANGED <<report, fault>>
           \/ pc' = "done" /\ report' = "error" /\ fault' = TRUE
    BY <1>5 DEF Submit, Throw
  <2> HIDE DEF m
  <2>2. /\ Now' = Now /\ Position' = Position /\ Sending' = Sending /\ Due' = Due
        /\ Fresh' = Fresh
    BY <2>1, SamePlace, SameMessages, StillFresh
  <2>3. Types'
    BY <1>1, <2>1, <2>2 DEF TransferInv, Types
  <2>4. InFlight'
    <3>1. AtUnit(confirmed, From(Due, Position, m), ~fault')
      <4>1. From(Due, Position, m) \in 0..12
        BY <1>1, <1>2, UnitsOfMessage
      <4>2. (~fault') \in BOOLEAN /\ ((~fault') => ~fault)
        BY <1>1, <2>1
      <4> QED BY <1>1, <1>2, <4>1, <4>2, LessSure
    <3> QED BY <1>2, <2>1, <2>2, <3>1 DEF InFlight
  <2>5. Tip'
    BY <1>3, <2>1 DEF Tip
  <2>6. AtStart' /\ AtBuild' /\ AtSend' /\ AtDone'
    BY <2>1 DEF AtStart, AtBuild, AtSend, AtDone, Unsettled
  <2>7. AtAwait'
    BY <1>2, <2>1, <2>2 DEF AtAwait, Unsettled
  <2>8. Progress' /\ FailsOnlyOnFault'
    <3>1. Position # 1
      BY <1>1, <1>2, PlanIs
    <3> QED BY <1>1, <2>1, <2>2, <3>1 DEF TransferInv, Progress, FailsOnlyOnFault
  <2> QED BY <2>3, <2>4, <2>5, <2>6, <2>7, <2>8 DEF TransferInv
<1> QED BY <1>4, <1>5

LEMMA ProceedKeepsInv ==
  ASSUME TransferInv, Proceed
  PROVE  TransferInv'
<1>1. /\ driver \in Drivers /\ Position \in 1..12 /\ step \in Nat \ {0} /\ (~fault) \in BOOLEAN
      /\ fault \in BOOLEAN /\ report = "none" /\ pc = "await"
  BY DEF TransferInv, Types, Proceed
<1>2. ~Unsettled /\ status # "landed" /\ status # "none" /\ tip = confirmed
  BY DEF Proceed, IsConfirmed, Unsettled, TransferInv, Tip
<1>3. /\ Sending /\ inFlight \in Pieces(Due) /\ messages = Rest(Due, inFlight)
      /\ AtUnit(confirmed, To(Due, Position, inFlight), ~fault)
  BY <1>1, <1>2 DEF TransferInv, AtAwait
<1>4. Position \in 2..11
  BY <1>1, <1>3, PlanIs
<1>5. CASE messages # <<>>
  <2> DEFINE m == <<Due[2]>>
  <2>1. FirstHalf(Due, inFlight) /\ messages = <<m>>
    BY <1>3, <1>5 DEF Rest
  <2>2. Len(Due) = 2 /\ Due[1] # Due[2] /\ Position \in {3, 4, 5}
    BY <1>1, <1>3, <2>1, PlanLengths DEF FirstHalf
  <2>3. SecondHalf(Due, m) /\ ~FirstHalf(Due, m) /\ m \in Pieces(Due)
    BY <2>2 DEF FirstHalf, SecondHalf, Pieces, Halves
  <2>4. From(Due, Position, m) = To(Due, Position, inFlight)
    BY <2>1, <2>3 DEF From, To
  <2> HIDE DEF m
  <2>5. Head(messages) = m /\ Tail(messages) = Rest(Due, m)
    BY <2>1, <2>3 DEF Rest
  <2>6. Fresh
    BY <1>1, <2>2, PlanIs DEF Fresh
  <2>7. /\ pc' = "send"
        /\ UNCHANGED <<driver, capacity, active, tip, confirmed, status, inFlight, step, read,
                       messages, report, fault>>
    BY <1>5 DEF Proceed, cluster
  <2>8. /\ Now' = Now /\ Position' = Position /\ Sending' = Sending /\ Due' = Due
        /\ Fresh' = Fresh
    BY <2>7, SamePlace, SameMessages, StillFresh
  <2>9. Types'
    BY <1>1, <2>7, <2>8 DEF TransferInv, Types
  <2>10. InFlight' /\ Tip'
    BY <1>2, <2>7 DEF InFlight, Tip, Unsettled
  <2>11. AtSend'
    BY <1>3, <2>3, <2>4, <2>5, <2>6, <2>7, <2>8 DEF AtSend
  <2>12. AtStart' /\ AtBuild' /\ AtAwait' /\ AtDone'
    BY <2>7 DEF AtStart, AtBuild, AtAwait, AtDone
  <2>13. Progress' /\ FailsOnlyOnFault'
    BY <1>1, <1>4, <2>7, <2>8 DEF TransferInv, Progress, FailsOnlyOnFault
  <2> QED BY <2>9, <2>10, <2>11, <2>12, <2>13 DEF TransferInv
<1>6. CASE messages = <<>>
  <2>1. ~FirstHalf(Due, inFlight)
    BY <1>3, <1>6 DEF Rest
  <2>2. AtUnit(confirmed, Before[Position + 1], ~fault)
    BY <1>3, <2>1 DEF To
  <2>3. NextCall /\ UNCHANGED <<driver, capacity, cluster, fault>>
    BY <1>6 DEF Proceed
  <2> QED BY <1>1, <1>2, <1>4, <2>2, <2>3, GoesOn
<1> QED BY <1>5, <1>6

(* Failing, giving up or losing a call is a fault. *)
LEMMA FaultKeepsInv ==
  ASSUME TransferInv, ThrowFailed \/ GiveUp \/ CallFails
  PROVE  TransferInv'
<1>1. pc # "done" /\ Throw /\ UNCHANGED <<driver, capacity, cluster>>
  BY DEF ThrowFailed, GiveUp, CallFails
<1>2. fault' = TRUE
  BY DEF ThrowFailed, GiveUp, CallFails, TransferInv, Progress, Types
<1> QED BY <1>1, <1>2, Throws

LEMMA ReadBackKeepsInv ==
  ASSUME TransferInv, ReadBack
  PROVE  TransferInv'
<1>1. /\ driver \in Drivers /\ Position \in 1..12 /\ step \in Nat \ {0} /\ pc = "start"
      /\ Now.plan = "readBack"
  BY DEF TransferInv, Types, ReadBack, AtCall
<1>2. Position = 10
  <2>1. Now.plan = PlanAt[Position]
    BY <1>1, NowIs
  <2> QED BY <1>1, <2>1 DEF PlanAt
<1>3. status \in {"confirmed", "failed"} /\ ~Unsettled
  BY <1>1, <1>2, Settled DEF TransferInv, Types, Progress, Unsettled
<1>4. NextCall /\ UNCHANGED <<driver, capacity, cluster, fault>>
  BY <1>3 DEF ReadBack
<1>5. AtUnit(confirmed, Before[Position + 1], ~fault)
  BY <1>1, <1>2, BeforeIs DEF TransferInv, AtStart
<1> QED BY <1>1, <1>2, <1>3, <1>4, <1>5, GoesOn

LEMMA CheckBalancesKeepsInv ==
  ASSUME TransferInv, CheckBalances
  PROVE  TransferInv'
<1>1. /\ driver \in Drivers /\ Position \in 1..12 /\ step \in Nat \ {0} /\ pc = "start"
      /\ Now.plan = "check" /\ fault \in BOOLEAN
  BY DEF TransferInv, Types, CheckBalances, AtCall
<1>2. Position = 12
  <2>1. Now.plan = PlanAt[Position]
    BY <1>1, NowIs
  <2> QED BY <1>1, <2>1 DEF PlanAt
<1>3. AtUnit(confirmed, 12, ~fault)
  BY <1>1, <1>2, BeforeIs DEF TransferInv, AtStart
<1>4. CASE Balance("sender") = Starting - Amount /\ Balance("recipient") = Amount
  <2>1. NextCall /\ UNCHANGED <<driver, capacity, cluster, fault>>
    BY <1>4 DEF CheckBalances
  <2>2. ~Unsettled /\ status # "none"
    BY <1>1, <1>2, Settled DEF TransferInv, Progress
  <2> QED BY <1>1, <1>2, <1>3, <2>1, <2>2, GoesOn
<1>5. CASE ~(Balance("sender") = Starting - Amount /\ Balance("recipient") = Amount)
  <2>1. Throw /\ UNCHANGED <<driver, capacity, cluster>> /\ fault' = fault
    BY <1>5 DEF CheckBalances
  <2>2. fault
    <3>1. SUFFICES ASSUME ~fault PROVE FALSE
      OBVIOUS
    <3>2. Books(confirmed, 5)
      BY <1>3, <3>1 DEF AtUnit, Entries
    <3> QED BY <1>5, <3>2 DEF Books, Balance
  <2> QED BY <1>1, <2>1, <2>2, Throws
<1> QED BY <1>4, <1>5


(* What the cluster does leaves the program where it is. *)
LEMMA ClusterStep ==
  ASSUME TransferInv, UNCHANGED <<driver, capacity, inFlight, step, pc, read, messages, report>>,
         fault => fault'
  PROVE  /\ Now' = Now /\ Position' = Position /\ Sending' = Sending /\ Due' = Due
         /\ FailsOnlyOnFault'
<1>1. Now' = Now /\ Position' = Position /\ Sending' = Sending /\ Due' = Due
  BY SamePlace, SameMessages
<1>2. Plan(Now)' = Plan(Now)
  BY <1>1 DEF Due
<1> QED BY <1>1, <1>2 DEF TransferInv, FailsOnlyOnFault

LEMMA AgeKeepsInv ==
  ASSUME TransferInv, Activate \/ Expire \/ UNCHANGED vars
  PROVE  TransferInv'
<1>1. /\ UNCHANGED <<driver, capacity, inFlight, step, pc, read, messages, report, fault,
                     tip, confirmed, status>>
      /\ active' \in BOOLEAN
  BY DEF Activate, Expire, vars, cluster, program, TransferInv, Types
<1>2. /\ Now' = Now /\ Position' = Position /\ Sending' = Sending /\ Due' = Due
      /\ FailsOnlyOnFault' /\ Fresh' = Fresh /\ Unsettled' = Unsettled
  BY <1>1, ClusterStep, StillFresh DEF Unsettled
<1>3. Types'
  BY <1>1, <1>2 DEF TransferInv, Types
<1>4. InFlight' /\ Tip'
  BY <1>1, <1>2 DEF TransferInv, InFlight, Tip
<1>5. AtStart' /\ AtBuild' /\ AtSend' /\ AtAwait' /\ AtDone'
  BY <1>1, <1>2 DEF TransferInv, AtStart, AtBuild, AtSend, AtAwait, AtDone
<1>6. Progress'
  BY <1>1, <1>2 DEF TransferInv, Progress
<1> QED BY <1>2, <1>3, <1>4, <1>5, <1>6 DEF TransferInv

(* What is known of a transaction in flight. *)
LEMMA FlightIs ==
  ASSUME TransferInv, Unsettled
  PROVE  /\ driver \in Drivers /\ Position \in 1..12 /\ step \in Nat \ {0}
         /\ fault \in BOOLEAN /\ (~fault) \in BOOLEAN /\ active \in BOOLEAN
         /\ pc \in {"await", "done"} /\ Sending /\ Fresh /\ inFlight \in Pieces(Due)
         /\ AtUnit(confirmed, From(Due, Position, inFlight), ~fault)
         /\ From(Due, Position, inFlight) \in 0..12
         /\ To(Due, Position, inFlight) \in From(Due, Position, inFlight)..12
<1>1. /\ driver \in Drivers /\ Position \in 1..12 /\ step \in Nat \ {0}
      /\ fault \in BOOLEAN /\ (~fault) \in BOOLEAN /\ active \in BOOLEAN
  BY DEF TransferInv, Types
<1>2. /\ pc \in {"await", "done"} /\ Sending /\ Fresh /\ inFlight \in Pieces(Due)
      /\ AtUnit(confirmed, From(Due, Position, inFlight), ~fault)
  BY DEF TransferInv, InFlight
<1> QED BY <1>1, <1>2, UnitsOfMessage

LEMMA LandKeepsInv ==
  ASSUME TransferInv, Land
  PROVE  TransferInv'
<1>1. Unsettled /\ status = "sent" /\ tip = confirmed
  BY DEF Land, Unsettled, TransferInv, Tip
<1>2. /\ UNCHANGED <<driver, capacity, active, confirmed, inFlight, step, pc, read, messages,
                     report, fault>>
      /\ status' \in {"landed", "landedFailed"}
      /\ status' = "landed" => /\ tip' = Run(inFlight, confirmed, active)
                               /\ Run(inFlight, confirmed, active) # Failed
      /\ status' = "landedFailed" => tip' = confirmed
  BY <1>1 DEF Land, program
<1>3. /\ Now' = Now /\ Position' = Position /\ Sending' = Sending /\ Due' = Due
      /\ FailsOnlyOnFault' /\ Fresh' = Fresh
  BY <1>2, ClusterStep, StillFresh
<1>4. Types'
  BY <1>2, <1>3 DEF TransferInv, Types
<1>5. InFlight'
  BY <1>1, <1>2, <1>3, FlightIs DEF InFlight
<1>6. Tip'
  <2> DEFINE r == Run(inFlight, confirmed, active)
  <2>1. r # Failed => AtUnit(r, To(Due, Position, inFlight), ~fault) /\ OneEntry(confirmed, r)
    BY <1>1, FlightIs, TransactionRuns DEF Fresh
  <2> HIDE DEF r
  <2>2. status' = "landed" => tip' = r /\ r # Failed
    BY <1>2 DEF r
  <2> QED BY <1>2, <1>3, <2>1, <2>2 DEF Tip
<1>7. AtStart' /\ AtBuild' /\ AtSend' /\ AtAwait' /\ AtDone'
  BY <1>1, <1>2, <1>3, FlightIs
     DEF TransferInv, AtStart, AtBuild, AtSend, AtAwait, AtDone, Unsettled
<1>8. Progress'
  BY <1>1, <1>2, <1>3, FlightIs DEF TransferInv, Progress
<1> QED BY <1>3, <1>4, <1>5, <1>6, <1>7, <1>8 DEF TransferInv

LEMMA DropForkKeepsInv ==
  ASSUME TransferInv, DropFork
  PROVE  TransferInv'
<1>1. Unsettled
  BY DEF DropFork, Unsettled
<1>2. /\ UNCHANGED <<driver, capacity, active, confirmed, inFlight, step, pc, read, messages,
                     report, fault>>
      /\ status' = "sent" /\ tip' = confirmed
      /\ status # "none"
  BY DEF DropFork, program
<1>3. /\ Now' = Now /\ Position' = Position /\ Sending' = Sending /\ Due' = Due
      /\ FailsOnlyOnFault' /\ Fresh' = Fresh
  BY <1>2, ClusterStep, StillFresh
<1>4. Types'
  BY <1>2, <1>3 DEF TransferInv, Types
<1>5. InFlight' /\ Tip'
  BY <1>1, <1>2, <1>3, FlightIs DEF InFlight, Tip
<1>6. AtStart' /\ AtBuild' /\ AtSend' /\ AtAwait' /\ AtDone'
  BY <1>1, <1>2, <1>3, FlightIs
     DEF TransferInv, AtStart, AtBuild, AtSend, AtAwait, AtDone, Unsettled
<1>7. Progress'
  BY <1>2, <1>3 DEF TransferInv, Progress
<1> QED BY <1>3, <1>4, <1>5, <1>6, <1>7 DEF TransferInv

LEMMA ConfirmKeepsInv ==
  ASSUME TransferInv, Confirm
  PROVE  TransferInv'
<1> DEFINE from == From(Due, Position, inFlight)
           to == To(Due, Position, inFlight)
<1>1. Unsettled /\ status \in {"landed", "landedFailed"}
  BY DEF Confirm, Unsettled
<1>2. /\ UNCHANGED <<driver, capacity, active, tip, inFlight, step, pc, read, messages, report>>
      /\ confirmed' = tip
      /\ status = "landed" => status' = "confirmed" /\ (fault' <=> fault)
      /\ status = "landedFailed" => status' = "failed" /\ fault'
      /\ fault' = (fault \/ status' = "failed")
  BY DEF Confirm
<1>3. fault' \in BOOLEAN /\ (~fault') \in BOOLEAN /\ (fault => fault')
  BY <1>2, Zenon
<1>4. /\ Now' = Now /\ Position' = Position /\ Sending' = Sending /\ Due' = Due
      /\ FailsOnlyOnFault'
  BY <1>2, <1>3, ClusterStep
<1>5. Types'
  BY <1>1, <1>2, <1>3, <1>4 DEF TransferInv, Types
<1>6. ~Unsettled' /\ InFlight' /\ Tip'
  BY <1>1, <1>2 DEF Unsettled, InFlight, Tip
<1>7. AtUnit(tip, to, ~fault')
  <2>1. CASE status = "landed"
    <3>1. AtUnit(tip, to, ~fault)
      BY <2>1 DEF TransferInv, Tip
    <3>2. to \in 0..12 /\ ((~fault') => ~fault) /\ (~fault) \in BOOLEAN
      BY <1>1, <1>2, <2>1, FlightIs
    <3> HIDE DEF to
    <3> QED BY <1>3, <3>1, <3>2, LessSure
  <2>2. CASE status = "landedFailed"
    <3>1. tip = confirmed /\ (~fault') = FALSE
      BY <1>2, <2>2 DEF TransferInv, Tip
    <3>2. /\ AtUnit(confirmed, from, ~fault) /\ from \in 0..12 /\ to \in from..12
          /\ (~fault) \in BOOLEAN
      BY <1>1, FlightIs
    <3> HIDE DEF from, to
    <3>3. AtUnit(tip, to, FALSE)
      BY <3>1, <3>2, AfterFault
    <3> QED BY <3>1, <3>3
  <2> QED BY <1>1, <2>1, <2>2
<1>8. AtStart' /\ AtBuild' /\ AtSend'
  BY <1>1, <1>2, FlightIs DEF AtStart, AtBuild, AtSend
<1>9. AtAwait'
  BY <1>1, <1>2, <1>4, <1>7, FlightIs DEF TransferInv, AtAwait
<1>10. AtDone'
  <2>1. to \in 0..12 /\ 12 \in to..12
    BY <1>1, FlightIs
  <2> HIDE DEF to
  <2>2. AtUnit(tip, 12, FALSE)
    BY <1>3, <1>7, <2>1, AfterFault
  <2> QED BY <1>2, <2>2 DEF AtDone
<1>11. Progress'
  <2>1. Position # 1
    BY <1>1, FlightIs, PlanIs
  <2> QED BY <1>1, <1>2, <1>4, <2>1 DEF TransferInv, Progress
<1> QED BY <1>4, <1>5, <1>6, <1>8, <1>9, <1>10, <1>11 DEF TransferInv


LEMMA InitHasInv == Init => TransferInv
<1> SUFFICES ASSUME Init PROVE TransferInv
  OBVIOUS
<1>1. /\ driver \in Drivers /\ capacity \in Nat \ {0} /\ active \in BOOLEAN
      /\ tip = EmptyChain /\ confirmed = EmptyChain /\ status = "none"
      /\ step = 1 /\ pc = "start" /\ report = "none" /\ fault = FALSE
  BY TransferAssumption DEF Init
<1>2. Position \in {1, 2} /\ Before[Position] = 0
  BY <1>1, BeforeIs DEF Position
<1>3. AtUnit(EmptyChain, 0, TRUE)
  <2>1. EmptyChain \in Chain
    BY DEF EmptyChain, Chain, Account, NoAccount
  <2>2. Books(EmptyChain, 0) /\ Setup(EmptyChain, 0)
    BY DEF EmptyChain, NoAccount, Parties, Books, Setup
  <2> QED BY <2>1, <2>2 DEF AtUnit, Entries
<1>4. Types /\ Progress /\ FailsOnlyOnFault
  <2>1. Types
    <3>1. fault \in BOOLEAN /\ active \in BOOLEAN
      BY <1>1, Zenon
    <3>2. Position \in 1..12 /\ step \in Nat \ {0}
      BY <1>1, <1>2
    <3>3. pc = "done" <=> report # "none"
      BY <1>1
    <3> QED BY <1>1, <3>1, <3>2, <3>3, Zenon DEF Types
  <2>2. Progress
    BY <1>1, <1>2 DEF Progress
  <2>3. FailsOnlyOnFault
    BY <1>1 DEF FailsOnlyOnFault
  <2> QED BY <2>1, <2>2, <2>3
<1>5. InFlight /\ Tip /\ AtBuild /\ AtSend /\ AtAwait /\ AtDone
  BY <1>1 DEF InFlight, Tip, AtBuild, AtSend, AtAwait, AtDone, Unsettled
<1>6. AtStart
  BY <1>1, <1>2, <1>3 DEF AtStart
<1> QED BY <1>4, <1>5, <1>6 DEF TransferInv

LEMMA StepKeepsInv == TransferInv /\ [Next]_vars => TransferInv'
<1> SUFFICES ASSUME TransferInv, [Next]_vars PROVE TransferInv'
  OBVIOUS
<1>1. CASE Gate                BY <1>1, GateKeepsInv
<1>2. CASE ReadAccounts        BY <1>2, ReadAccountsKeepsInv
<1>3. CASE Build               BY <1>3, BuildKeepsInv
<1>4. CASE Submit              BY <1>4, SubmitKeepsInv
<1>5. CASE Proceed             BY <1>5, ProceedKeepsInv
<1>6. CASE ThrowFailed \/ GiveUp \/ CallFails  BY <1>6, FaultKeepsInv
<1>7. CASE ReadBack            BY <1>7, ReadBackKeepsInv
<1>8. CASE CheckBalances       BY <1>8, CheckBalancesKeepsInv
<1>9. CASE Activate \/ Expire \/ UNCHANGED vars  BY <1>9, AgeKeepsInv
<1>10. CASE Land               BY <1>10, LandKeepsInv
<1>11. CASE Confirm            BY <1>11, ConfirmKeepsInv
<1>12. CASE DropFork           BY <1>12, DropForkKeepsInv
<1> QED
  BY <1>1, <1>2, <1>3, <1>4, <1>5, <1>6, <1>7, <1>8, <1>9, <1>10, <1>11, <1>12
     DEF Next, ProgramStep

(* Wherever a driver is, the chain has the units done that its place says. *)
THEOREM TransferInvariant == Spec => []TransferInv
<1> QED BY InitHasInv, StepKeepsInv, PTL DEF Spec
-----------------------------------------------------------------------------
(***************************************************************************)
(* What follows.                                                           *)
(***************************************************************************)
(* The balance an owner reads is the one that is there, whatever the driver has
   sent and however it fared. *)
THEOREM ReadableBalances == Spec => []ReadableBalanceIsBalance
<1>1. TransferInv => ReadableBalanceIsBalance
  <2> SUFFICES ASSUME TransferInv PROVE ReadableBalanceIsBalance
    OBVIOUS
  <2>1. PICK b : Books(tip, b)
    <3>1. CASE status = "landed"
      BY <3>1 DEF TransferInv, Tip, AtUnit
    <3>2. CASE status # "landed"
      BY <3>2, ConfirmedIs DEF TransferInv, Tip, AtUnit
    <3> QED BY <3>1, <3>2
  <2> QED BY <2>1 DEF ReadableBalanceIsBalance, Books, Parties
<1> QED BY TransferInvariant, <1>1, PTL

(* No run fails without a fault from outside. *)
THEOREM RunsFailOnlyOnFault == Spec => []FailsOnlyOnFault
<1>1. TransferInv => FailsOnlyOnFault
  BY DEF TransferInv
<1> QED BY TransferInvariant, <1>1, PTL

(* What the parties hold after each entry of the books. *)
LEMMA HeldAfter ==
  ASSUME NEW s, NEW b \in 0..5, Books(s, b)
  PROVE  [p \in Parties |-> Held(s, p)]
           = IF b = 0 THEN Transfer!Holding(0, 0)
             ELSE IF b \in 1..3 THEN Transfer!Holding(Starting, 0)
             ELSE Transfer!Holding(Starting - Amount, Amount)
<1> DEFINE own == IF b = 0 THEN 0 ELSE IF b \in 1..3 THEN Starting ELSE Starting - Amount
           other == IF b \in 0..3 THEN 0 ELSE Amount
<1>1. Held(s, "sender") = own /\ Held(s, "recipient") = other
  BY TransferAssumption DEF Held, Books
<1> HIDE DEF own, other
<1>2. [p \in Parties |-> Held(s, p)] = [sender |-> own, recipient |-> other]
  BY <1>1 DEF Parties
<1> QED BY <1>2 DEF own, other, Transfer!Holding

(* The step of the abstract transfer, or none. *)
AbstractStep == [Transfer!Fund \/ Transfer!Move \/ Transfer!Report]_Transfer!avars

(* A run that fails, or says nothing, moves nothing. *)
LEMMA SaysNothing ==
  ASSUME UNCHANGED confirmed, UNCHANGED report \/ (report = "none" /\ report' = "error")
  PROVE  AbstractStep
<1>1. [p \in Parties |-> Held(confirmed, p)]' = [p \in Parties |-> Held(confirmed, p)]
  BY DEF Held
<1> QED BY <1>1 DEF AbstractStep, Transfer!Report, Transfer!avars

(* What the confirmed chain gains at once is at most one entry of the books: the
   mint funds the sender, the transfer moves the amount, the rest moves nothing. *)
LEMMA EntryIsStep ==
  ASSUME OneEntry(confirmed, confirmed'), UNCHANGED report
  PROVE  AbstractStep
<1>1. PICK b \in 0..5 : /\ Books(confirmed, b)
                        /\ Books(confirmed', b) \/ (b < 5 /\ Books(confirmed', b + 1))
  BY DEF OneEntry
<1>2. PICK c \in 0..5 : Books(confirmed', c) /\ (c = b \/ c = b + 1)
  BY <1>1
<1> DEFINE held == [p \in Parties |-> Held(confirmed, p)]
           next == [p \in Parties |-> Held(confirmed', p)]
<1>3. held' = next
  BY DEF Held
<1>4. held = IF b = 0 THEN Transfer!Holding(0, 0)
             ELSE IF b \in 1..3 THEN Transfer!Holding(Starting, 0)
             ELSE Transfer!Holding(Starting - Amount, Amount)
  BY <1>1, HeldAfter
<1>5. next = IF c = 0 THEN Transfer!Holding(0, 0)
             ELSE IF c \in 1..3 THEN Transfer!Holding(Starting, 0)
             ELSE Transfer!Holding(Starting - Amount, Amount)
  BY <1>2, HeldAfter
<1>6. \/ held = Transfer!Holding(0, 0) /\ next = Transfer!Holding(Starting, 0)
      \/ /\ held = Transfer!Holding(Starting, 0)
         /\ next = Transfer!Holding(Starting - Amount, Amount)
      \/ next = held
  <2> HIDE DEF held, next
  <2> QED BY <1>2, <1>4, <1>5
<1> QED
  BY <1>3, <1>6 DEF AbstractStep, Transfer!Fund, Transfer!Move, Transfer!avars

(* No step but the confirmation of a transaction and the last comparison does
   more than fail. *)
LEMMA OtherSteps ==
  ASSUME TransferInv,
         \/ Gate \/ ReadAccounts \/ Build \/ Submit \/ Proceed \/ ThrowFailed \/ GiveUp
         \/ ReadBack \/ CallFails \/ Activate \/ Land \/ DropFork \/ Expire \/ UNCHANGED vars
  PROVE  UNCHANGED confirmed /\ (UNCHANGED report \/ (report = "none" /\ report' = "error"))
<1>1. /\ driver \in Drivers /\ Position \in 1..12 /\ step \in Nat \ {0}
      /\ pc # "done" => report = "none"
  BY DEF TransferInv, Types
<1>2. CASE Activate \/ Land \/ DropFork \/ Expire \/ UNCHANGED vars
  BY <1>2 DEF Activate, Land, DropFork, Expire, vars, cluster, program
<1>3. CASE ReadAccounts \/ Build \/ Submit \/ ThrowFailed \/ GiveUp \/ CallFails
  BY <1>1, <1>3
     DEF ReadAccounts, Build, Submit, ThrowFailed, GiveUp, CallFails, Throw, cluster, AtCall
<1>4. CASE Gate \/ ReadBack \/ Proceed
  <2>1. pc # "done" /\ UNCHANGED confirmed
    BY <1>4 DEF Gate, ReadBack, Proceed, AtCall, cluster
  <2>2. step # Len(Main)
    <3>1. CASE Gate \/ ReadBack
      <4>1. Now.plan \in {"gate", "readBack"} /\ Now.plan = PlanAt[Position]
        BY <1>1, <3>1, NowIs DEF Gate, ReadBack, AtCall
      <4>2. Position # 12
        BY <4>1 DEF PlanAt
      <4> QED BY <1>1, <4>2, NowIs
    <3>2. CASE Proceed
      <4>1. Sending
        BY <3>2 DEF Proceed, TransferInv, AtAwait
      <4>2. Position # 12
        BY <1>1, <4>1, PlanIs
      <4> QED BY <1>1, <4>2, NowIs
    <3> QED BY <1>4, <3>1, <3>2
  <2>3. UNCHANGED report \/ report' = "error"
    BY <1>4, <2>2 DEF Gate, ReadBack, Proceed, NextCall, Throw
  <2> QED BY <1>1, <2>1, <2>3
<1> QED BY <1>2, <1>3, <1>4

(* Every driver's program implements the atomic transfer: the amount moves in
   one step or not at all, and a run that reports success has seen it move. *)
THEOREM TransferIsAtomic == Spec => ImplementsAtomicTransfer
<1>1. Init => Transfer!AInit
  <2> SUFFICES ASSUME Init PROVE Transfer!AInit
    OBVIOUS
  <2>1. confirmed = EmptyChain /\ report = "none"
    BY DEF Init
  <2>2. Books(EmptyChain, 0)
    BY DEF EmptyChain, NoAccount, Parties, Books
  <2>3. PICK b \in 0..5 : b = 0 /\ Books(confirmed, b)
    BY <2>1, <2>2
  <2>4. [p \in Parties |-> Held(confirmed, p)] = Transfer!Holding(0, 0)
    BY <2>3, HeldAfter
  <2> QED BY <2>1, <2>4 DEF Transfer!AInit
<1>2. TransferInv /\ [Next]_vars => AbstractStep
  <2> SUFFICES ASSUME TransferInv, [Next]_vars PROVE AbstractStep
    OBVIOUS
  <2>1. CASE Confirm
    <3>1. confirmed' = tip /\ UNCHANGED report /\ status \in {"landed", "landedFailed"}
      BY <2>1 DEF Confirm
    <3>2. CASE status = "landed"
      <4>1. OneEntry(confirmed, tip)
        BY <3>2 DEF TransferInv, Tip
      <4> QED BY <3>1, <4>1, EntryIsStep
    <3>3. CASE status = "landedFailed"
      <4>1. tip = confirmed
        BY <3>3 DEF TransferInv, Tip
      <4> QED BY <3>1, <4>1, SaysNothing
    <3> QED BY <3>1, <3>2, <3>3
  <2>2. CASE CheckBalances
    <3>1. UNCHANGED confirmed /\ pc = "start"
      BY <2>2 DEF CheckBalances, AtCall, cluster
    <3>2. report = "none"
      BY <3>1 DEF TransferInv, Types
    <3>3. CASE Balance("sender") = Starting - Amount /\ Balance("recipient") = Amount
      <4>1. PICK b \in 0..5 : Books(confirmed, b)
        BY ConfirmedIs DEF AtUnit, Entries
      <4>2. b = 5
        BY <3>3, <4>1, TransferAssumption DEF Books, Balance
      <4>3. [p \in Parties |-> Held(confirmed, p)] = Transfer!Holding(Starting - Amount, Amount)
        BY <4>1, <4>2, HeldAfter
      <4>4. [p \in Parties |-> Held(confirmed, p)]' = [p \in Parties |-> Held(confirmed, p)]
        BY <3>1 DEF Held
      <4>5. report' \in {"ok", "none"}
        BY <2>2, <3>2, <3>3 DEF CheckBalances, NextCall
      <4> QED BY <3>2, <4>3, <4>4, <4>5
              DEF AbstractStep, Transfer!Report, Transfer!avars
    <3>4. CASE ~(Balance("sender") = Starting - Amount /\ Balance("recipient") = Amount)
      <4>1. report' = "error"
        BY <2>2, <3>4 DEF CheckBalances, Throw
      <4> QED BY <3>1, <3>2, <4>1, SaysNothing
    <3> QED BY <3>3, <3>4
  <2>3. CASE ~Confirm /\ ~CheckBalances
    <3>1. UNCHANGED confirmed /\ (UNCHANGED report \/ (report = "none" /\ report' = "error"))
      BY <2>3, OtherSteps DEF Next, ProgramStep
    <3> QED BY <3>1, SaysNothing
  <2> QED BY <2>1, <2>2, <2>3
<1> QED BY TransferInvariant, <1>1, <1>2, PTL
        DEF Spec, ImplementsAtomicTransfer, Transfer!ASpec, AbstractStep
=============================================================================
