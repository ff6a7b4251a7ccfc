SPECIFICATION Spec
CONSTANTS
  VolumeSize = 2
  Bytes = {1}
  Zero = 0
  MaxBuffer = 3
  MaxBytes = 5
  MaxVolumes = 4
  Positions = {0, 1, 3}
  CreateFails = TRUE
INVARIANT TypeOK
INVARIANT VolumeLimit
INVARIANT BoundaryRecorded
CHECK_DEADLOCK FALSE
