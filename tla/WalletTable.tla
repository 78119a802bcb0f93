---------------------------- MODULE WalletTable ----------------------------
(***************************************************************************)
(* The wallet table of ts/wallet-table: one snapshot of the registry of    *)
(* wallets, shared by the components that use it, and the listeners that   *)
(* keep it current.                                                        *)
(*                                                                         *)
(* The registry, the wallets and React are external.  An event runs its    *)
(* listeners before anything else happens; a component renders some time   *)
(* after it was asked to, and subscribes some time after its first         *)
(* rendering.                                                              *)
(***************************************************************************)
EXTENDS FiniteSets

CONSTANTS
  Wallets,    \* every wallet there may be
  Solana,     \* those with a solana: chain
  Announced,  \* those with standard:events
  Components, \* the components that call useWallets
  Features    \* the features that list the versions a wallet can sign

ASSUME WalletAssumption == Solana \subseteq Wallets /\ Announced \subseteq Wallets

VARIABLES
  registered,  \* the wallets of the registry
  lists,       \* the features of each wallet that list version 1
  snapshot,    \* what useWallets returns
  subscribed,  \* the components whose subscription is in force
  offChanges,  \* the wallets each subscription holds an off function for
  listeners,   \* the change listeners attached to each wallet, by component
  mounted,     \* the components on the page
  dirty,       \* those that have been asked to render
  shown        \* the rows each one shows

wallets == <<registered, lists>>
store == <<snapshot, subscribed, offChanges, listeners>>
page == <<mounted, dirty, shown>>
tableVars == <<wallets, store, page>>

(* supportedTransactionVersions merges the versions of both features. *)
SupportsV1(w) == lists[w] # {}

TableInit ==
  /\ registered \in SUBSET Wallets
  /\ lists = [w \in Wallets |-> {}]
  /\ snapshot = registered
  /\ subscribed = {} /\ mounted = {} /\ dirty = {}
  /\ offChanges = [c \in Components |-> {}]
  /\ listeners = [w \in Wallets |-> {}]
  /\ shown = [c \in Components |-> {}]
-----------------------------------------------------------------------------
(***************************************************************************)
(* The subscription.                                                       *)
(***************************************************************************)
(* Take the listener off each wallet that is gone, put one on each new wallet
   that has events. *)
Refresh(subscribers, current) ==
  /\ offChanges' = [c \in Components |-> IF c \in subscribers THEN current ELSE offChanges[c]]
  /\ listeners' = [w \in Wallets |->
       LET gone == {c \in subscribers : w \in offChanges[c] \ current}
           new == {c \in subscribers : w \in current \ offChanges[c]}
       IN IF w \in Announced THEN (listeners[w] \ gone) \cup new ELSE listeners[w]]

(* Mutant: a registration takes a new snapshot, but no listener. *)
UpdateWithoutRefresh(subscribers, current) ==
  /\ UNCHANGED <<offChanges, listeners, subscribed>>
  /\ snapshot' = IF subscribers # {} THEN current ELSE snapshot
  /\ dirty' = dirty \cup subscribers

(* Mutant: the component is not told. *)
UpdateUnasked(subscribers, current) ==
  /\ Refresh(subscribers, current)
  /\ snapshot' = IF subscribers # {} THEN current ELSE snapshot
  /\ UNCHANGED <<dirty, subscribed>>

(* What the listeners of `subscribers` do on an event: each refreshes, takes a
   new snapshot and asks its component to render. *)
Update(subscribers, current) ==
  /\ Refresh(subscribers, current)
  /\ snapshot' = IF subscribers # {} THEN current ELSE snapshot
  /\ dirty' = dirty \cup subscribers
  /\ UNCHANGED subscribed

(* A mounted component subscribes; the new snapshot asks it to render. *)
Subscribe(c) ==
  /\ c \in mounted \ subscribed
  /\ subscribed' = subscribed \cup {c}
  /\ Refresh({c}, registered)
  /\ snapshot' = registered
  /\ dirty' = dirty \cup {c}
  /\ UNCHANGED <<wallets, mounted, shown>>

(* Mutant: the listeners on the wallets stay. *)
UnsubscribeFromRegistry(c) ==
  /\ c \in subscribed
  /\ subscribed' = subscribed \ {c}
  /\ offChanges' = [offChanges EXCEPT ![c] = {}]
  /\ UNCHANGED <<wallets, snapshot, listeners, page>>

(* React ends a subscription when the component leaves the page, and once more
   right after the first one under StrictMode.  The map goes with the closure. *)
Unsubscribe(c) ==
  /\ c \in subscribed
  /\ subscribed' = subscribed \ {c}
  /\ offChanges' = [offChanges EXCEPT ![c] = {}]
  /\ listeners' = [w \in Wallets |-> listeners[w] \ {c}]
  /\ UNCHANGED <<wallets, snapshot, page>>
-----------------------------------------------------------------------------
(***************************************************************************)
(* The registry and the wallets.                                           *)
(***************************************************************************)
Register(w) ==
  /\ w \notin registered
  /\ registered' = registered \cup {w}
  /\ Update(subscribed, registered')
  /\ UNCHANGED <<lists, mounted, shown>>

Unregister(w) ==
  /\ w \in registered
  /\ registered' = registered \ {w}
  /\ Update(subscribed, registered')
  /\ UNCHANGED <<lists, mounted, shown>>

(* A wallet's features come and go, whether it is registered or not, and it emits
   "change" if it has events at all. *)
Change(w) ==
  /\ \E features \in SUBSET Features \ {lists[w]} :
       lists' = [lists EXCEPT ![w] = features]
  /\ Update(listeners[w], registered)
  /\ UNCHANGED <<registered, mounted, shown>>
-----------------------------------------------------------------------------
(***************************************************************************)
(* The page.                                                               *)
(***************************************************************************)
Row(w) == [wallet |-> w, v1 |-> SupportsV1(w)]

(* The table: a row for every Solana wallet. *)
Rows == {Row(w) : w \in snapshot \cap Solana}

Mount(c) ==
  /\ c \notin mounted
  /\ mounted' = mounted \cup {c}
  /\ shown' = [shown EXCEPT ![c] = Rows]
  /\ UNCHANGED <<wallets, store, dirty>>

Render(c) ==
  /\ c \in dirty
  /\ dirty' = dirty \ {c}
  /\ shown' = [shown EXCEPT ![c] = Rows]
  /\ UNCHANGED <<wallets, store, mounted>>

Unmount(c) ==
  /\ c \in mounted \ subscribed
  /\ mounted' = mounted \ {c}
  /\ dirty' = dirty \ {c}
  /\ shown' = [shown EXCEPT ![c] = {}]
  /\ UNCHANGED <<wallets, store>>

TableNext ==
  \/ \E w \in Wallets : Register(w) \/ Unregister(w) \/ Change(w)
  \/ \E c \in Components : Mount(c) \/ Subscribe(c) \/ Render(c) \/ Unsubscribe(c) \/ Unmount(c)

TableSpec == TableInit /\ [][TableNext]_tableVars

(* React runs the effects and the renderings it has scheduled. *)
FairTableSpec ==
  TableSpec /\ \A c \in Components : WF_tableVars(Subscribe(c)) /\ WF_tableVars(Render(c))
-----------------------------------------------------------------------------
TableTypeOK ==
  /\ registered \subseteq Wallets /\ snapshot \subseteq Wallets
  /\ lists \in [Wallets -> SUBSET Features]
  /\ offChanges \in [Components -> SUBSET Wallets]
  /\ listeners \in [Wallets -> SUBSET Components]
  /\ subscribed \subseteq mounted /\ mounted \subseteq Components
  /\ dirty \subseteq mounted
  /\ shown \in [Components -> SUBSET [wallet : Solana, v1 : BOOLEAN]]

(* Nothing falls between the snapshot and the subscription: while any component
   is subscribed, the snapshot they share is the registry. *)
SnapshotIsRegistry == subscribed # {} => snapshot = registered

(* Each registered wallet that has events carries one listener of each
   subscription, every other wallet none: none is leaked by a wallet that comes
   and goes, or by a subscription that ends. *)
OneListenerEach ==
  \A w \in Wallets :
    listeners[w] = IF w \in registered \cap Announced THEN subscribed ELSE {}

(* A subscribed table with no rendering due shows the Solana wallets of the
   registry, each with the support it has now; a wallet without events may have
   gained or lost it unseen. *)
TableIsCurrent ==
  \A c \in subscribed \ dirty :
    /\ {row.wallet : row \in shown[c]} = registered \cap Solana
    /\ \A row \in shown[c] : row.wallet \in Announced => row = Row(row.wallet)

(* A wallet that stays registered gets into every table that stays on the page,
   however late it registers. *)
WalletIsShown ==
  \A c \in Components, w \in Solana :
    []<>(c \notin subscribed \/ w \notin registered
          \/ \E row \in shown[c] : row.wallet = w)
=============================================================================
