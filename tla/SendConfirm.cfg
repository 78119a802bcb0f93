SPECIFICATION FairSpec
CONSTANTS
  Nil = Nil
  RpcError = RpcError
  MaxSlot = 3
INVARIANTS
  SlotIsWhereItLanded
  TransferFollowsAirdrop
PROPERTIES
  ExpiredNeverLands
  KeepsPromise
  Answers
CHECK_DEADLOCK FALSE
