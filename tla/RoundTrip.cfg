SPECIFICATION FairSpec
CONSTANTS
  Nil = Nil
  MaxSlot = 2
  Absent = Absent
  Owners = {"feature", "system", "other"}
  Tags = {0, 1, 2}
  Lengths = {0, 1, 8, 9, 10}
INVARIANTS
  PassedMeansActive
  DoneMeansTransferred
  FailsOnlyOnFault
PROPERTY
  Ends
CHECK_DEADLOCK FALSE
