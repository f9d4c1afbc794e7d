CONSTANTS
  Id = {1, 2, 3, 4}
  Folders = {2, 3}
  Root = 0
  Elsewhere = 9
  Names <- MCNames
  InitialDrives <- MCDrives
  Excluded <- MCExcluded
  MaxEdits = 2
  MaxMutations = 1
  MaxFaults = 1
  MaxEvents = 2
  Expires = TRUE
  Inverts = FALSE
SPECIFICATION Spec
INVARIANTS CheckpointLosesNothing PathsFollowParents DeltaCoversView DeletedMeansGone
PROPERTIES CheckpointSpec
