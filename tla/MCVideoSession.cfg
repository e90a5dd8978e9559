\* A copied stream that cannot be played is not tried again by transcoding.
CONSTANTS
  v = v
  None = None
  Items = {v}
  Times = {0, 1}
  MaxToken = 3
SPECIFICATION Spec
PROPERTIES
  CopyFallsBack
CHECK_DEADLOCK FALSE
