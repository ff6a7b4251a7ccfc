SPECIFICATION MVSpec
CONSTANTS
  VolumeSize = 4
  Bytes = {"even", "odd", "next", "start"}
  Zero = "gap"
  MaxBuffer = 5
  MaxBytes = 48
  MaxVolumes = 12
  Positions = {0, 3}
  CreateFails = FALSE
  HeaderSize = 3
  NextSize = 6
INVARIANT JoinedIsArchive
INVARIANT MetadataCounts
INVARIANT BoundariesAreVolumeStarts
INVARIANT HeaderFoundInFirstVolume
PROPERTY WritesByteStore
CHECK_DEADLOCK FALSE
