---------------------------- MODULE FeatureGate ----------------------------
(***************************************************************************)
(* Asking a cluster whether transaction v1 is active: isV1Active and       *)
(* assertV1Active in TypeScript, Go, Rust and Python, against the account  *)
(* of the feature gate.                                                    *)
(*                                                                         *)
(* The account holds a bincode Option<u64>: a tag byte, then the slot.  It *)
(* is reduced to who owns it, its tag and its length.                      *)
(***************************************************************************)
EXTENDS Naturals

CONSTANTS
  Absent,  \* no account at the gate's address
  Owners,  \* programs that may own an account, "feature" and "system" among them
  Tags,    \* values of the first byte; 0 and 1 are those of an Option
  Lengths  \* lengths of the data in bytes

ASSUME GateAssumption ==
  /\ {"feature", "system"} \subseteq Owners
  /\ {0, 1} \subseteq Tags /\ Tags \subseteq Nat
  /\ {0, 9} \subseteq Lengths /\ Lengths \subseteq Nat

(* Data of length zero has no tag; 0 stands in. *)
Account ==
  {a \in [owner : Owners, tag : Tags, length : Lengths] : a.length = 0 => a.tag = 0}

(* An account is zero when it is assigned to the feature program, and only the
   runtime writes to it from there on. *)
PossibleAccount ==
  {a \in Account : a.owner = "feature" => a.tag = 0 \/ (a.tag = 1 /\ a.length >= 9)}

Langs == {"ts", "go", "rust", "python"}

VARIABLES
  lang,     \* the program that asks; it never changes
  gate,     \* the account, or Absent
  read,     \* the account its last call answered with
  answer,   \* "none", "active", "inactive" or "error"
  outcome   \* of assertV1Active: "none", "passed" or "thrown"

gateVars == <<lang, gate, read, answer, outcome>>

GateInit ==
  /\ lang \in Langs
  /\ gate \in PossibleAccount \cup {Absent} /\ read = Absent
  /\ answer = "none" /\ outcome = "none"
-----------------------------------------------------------------------------
(* What the runtime goes by: a feature account whose Option is Some. *)
IsActive(account) ==
  account # Absent /\ account.owner = "feature" /\ account.tag = 1 /\ account.length >= 9

(* The account of a gate that is staged or active, or none. *)
IsFeatureAccount(account) ==
  account = Absent \/ (account.owner = "feature" /\ account.tag \in {0, 1} /\ account.length >= 9)

(* Anyone may pay lamports to the address. *)
Pay ==
  /\ gate = Absent
  /\ gate' = [owner |-> "system", tag |-> 0, length |-> 0]
  /\ UNCHANGED <<lang, read, answer, outcome>>

(* The holder of the gate's key allocates the account and assigns it. *)
Stage ==
  /\ gate \in {Absent} \cup {a \in Account : a.owner = "system" /\ a.length = 0}
  /\ gate' = [owner |-> "feature", tag |-> 0, length |-> 9]
  /\ UNCHANGED <<lang, read, answer, outcome>>

(* An epoch begins. *)
Activate ==
  /\ gate \in {a \in Account : a.owner = "feature" /\ a.tag = 0 /\ a.length >= 9}
  /\ gate' = [gate EXCEPT !.tag = 1]
  /\ UNCHANGED <<lang, read, answer, outcome>>
-----------------------------------------------------------------------------
(* The decoder of kit's option throws for want of bytes; any tag but 1 is none. *)
TsIsV1Active(account) ==
  IF account = Absent THEN "inactive"
  ELSE IF account.length = 0 \/ (account.tag = 1 /\ account.length < 9) THEN "error"
  ELSE IF account.tag = 1 THEN "active" ELSE "inactive"

(* The owner is looked at; any tag but 0 is taken for 1. *)
GoIsV1Active(account) ==
  IF account = Absent THEN "inactive"
  ELSE IF account.owner # "feature" \/ account.length = 0 \/ account.tag = 0 THEN "inactive"
  ELSE IF account.length < 9 THEN "error"
  ELSE "active"

(* from_account: none unless the feature program owns it and bincode reads it. *)
RustIsV1Active(account) == IF IsActive(account) THEN "active" ELSE "inactive"

(* Mutant: an account that is there is an active gate. *)
PythonIsV1ActiveStaged(account) ==
  IF account # Absent /\ account.length > 0 THEN "active" ELSE "inactive"

(* The first byte decides. *)
PythonIsV1Active(account) ==
  IF account # Absent /\ account.length > 0 /\ account.tag = 1 THEN "active" ELSE "inactive"

Reading(l, account) ==
  CASE l = "ts" -> TsIsV1Active(account)
    [] l = "go" -> GoIsV1Active(account)
    [] l = "rust" -> RustIsV1Active(account)
    [] l = "python" -> PythonIsV1Active(account)

(* isV1Active: one getAccountInfo, which may fail. *)
IsV1Active ==
  /\ answer = "none"
  /\ \/ read' = gate /\ answer' = Reading(lang, gate)
     \/ answer' = "error" /\ UNCHANGED read
  /\ UNCHANGED <<lang, gate, outcome>>

(* assertV1Active throws unless the answer is yes. *)
AssertV1Active ==
  /\ answer # "none" /\ outcome = "none"
  /\ outcome' = IF answer = "active" THEN "passed" ELSE "thrown"
  /\ UNCHANGED <<lang, gate, read, answer>>

GateChanges == Pay \/ Stage \/ Activate

GateNext == GateChanges \/ IsV1Active \/ AssertV1Active

GateSpec == GateInit /\ [][GateNext]_gateVars
-----------------------------------------------------------------------------
GateTypeOK ==
  /\ lang \in Langs
  /\ gate \in Account \cup {Absent} /\ read \in Account \cup {Absent}
  /\ answer \in {"none", "active", "inactive", "error"}
  /\ outcome \in {"none", "passed", "thrown"}

(* A program that passes the gate sends to a cluster that takes v1 transactions,
   however long after it asked.  In Go and Rust this is so whatever account is
   at the gate's address; TypeScript and Python look at no owner, and take one
   of another program for active when its first byte is 1. *)
PassedMeansActive ==
  outcome = "passed" /\ (IsFeatureAccount(read) \/ lang \in {"go", "rust"}) =>
    IsActive(gate)

(* Every language answers alike, and what the runtime goes by, for an account
   that is a feature's or is not there. *)
AgreeOnFeatureAccounts ==
  IsFeatureAccount(gate) =>
    \A l \in Langs : Reading(l, gate) = IF IsActive(gate) THEN "active" ELSE "inactive"
=============================================================================
