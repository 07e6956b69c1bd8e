SPECIFICATION Spec
CONSTANTS
  Link = {l1}
  Param = {"path_loss"}
  Swap = {"matrix"}
  Layout = {1, 2}
  Forced = {}
  LeadingTdl = TRUE
  History <- MCHistory
  DlHint = 2
  Count = {2}
  BatchId = {b1}
  MaxStaged = 2
  Gate = {0}
  Paced = TRUE
  MaxUpdate = 2
  MaxSlot = 4
INVARIANT SwapWhole
