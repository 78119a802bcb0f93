----------------------------- MODULE MCIndexer -----------------------------
(* Instances of Indexer for TLC: one message of each version, with a fee that
   each version states its own way, and updates with none, one or two.  Two
   blocks have fees that do not fit: two that are too much together, and a
   price whose product with the limit is too much by itself. *)
EXTENDS Indexer

MCKeys == <<"other", "ComputeBudget">>

SetsPrice == [programIdIndex |-> 1, discriminant |-> "SetComputeUnitPrice", operand |-> 7]

MCMessage(version) ==
  [version |-> version,
   config |-> IF version = "v1"
              THEN [UnsetBudget EXCEPT !.priorityFee = 3]
              ELSE Nil,
   accountKeys |-> MCKeys,
   instructions |-> IF version = "legacy" THEN <<>> ELSE <<SetsPrice>>]

RichMessage == [MCMessage("v1") EXCEPT !.config.priorityFee = 60]

PriceyMessage == [MCMessage("v0") EXCEPT !.instructions[1].operand = 60]

(* The transactions an update may carry. *)
MCTransactions == {MCMessage(version) : version \in Versions} \cup {Nil}

MCUpdates ==
  [kind : {"transaction"}, messages : {<<m>> : m \in MCTransactions}]
    \cup [kind : {"block"},
          messages : {<<>>, <<MCMessage("v0"), MCMessage("v1")>>,
                      <<RichMessage, RichMessage>>,
                      <<Nil, MCMessage("legacy"), PriceyMessage>>}]
    \cup [kind : {"ping"}, messages : {<<>>}]

MCLimits == {Nil, 0, 1, 2}
=============================================================================
