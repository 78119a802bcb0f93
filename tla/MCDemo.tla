------------------------------- MODULE MCDemo -------------------------------
(* Instances of Demo for TLC: the v1 transaction in an update of either kind,
   and v0 traffic around it. *)
EXTENDS Demo

MCMessage(version) ==
  [version |-> version,
   config |-> IF version = "v1" THEN UnsetBudget ELSE Nil,
   accountKeys |-> <<"other">>,
   instructions |-> <<>>]

MCV1Updates ==
  [kind : {"transaction"}, messages : {<<MCMessage("v1")>>}]
    \cup [kind : {"block"}, messages : {<<MCMessage("v1"), MCMessage("v0")>>}]

MCOtherUpdates ==
  [kind : Kinds, messages : {<<MCMessage("v0")>>}]
    \cup [kind : {"ping"}, messages : {<<>>}]

MCUpdates == MCV1Updates \cup MCOtherUpdates
=============================================================================
