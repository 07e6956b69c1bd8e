SPECIFICATION FairSpec
CONSTANTS
  Link = {l1}
  Param = {"path_loss"}
  Swap = {"profile", "matrix"}
  Layout = {1}
  Forced = {}
  LeadingTdl = TRUE
  History <- MCHistory
  DlHint = 2
  Count = {2}
  BatchId = {b1}
  MaxStaged = 1
  Gate = {0, 1}
  Paced = FALSE
  MaxUpdate = 2
  MaxSlot = 2
INVARIANT SeqnoCoversParams
PROPERTY ParamsConverge
