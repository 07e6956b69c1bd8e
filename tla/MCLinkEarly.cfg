SPECIFICATION Spec
CONSTANTS
  Link = {l1}
  Param = {"path_loss"}
  Swap = {"profile"}
  Layout = {1, 2}
  Forced = {}
  LeadingTdl = TRUE
  History <- MCHistory
  DlHint = 2
  Count = {2}
  BatchId = {}
  MaxStaged = 0
  Gate = {0,3}
  Paced = FALSE
  MaxUpdate = 2
  MaxSlot = 4
INVARIANT NotBeforeItsSlot
