SPECIFICATION Spec
CONSTANTS
  c1 = c1
  c2 = c2
  none = none
  Config <- MCConfig
  NoConfig <- MCNoConfig
  MinBackoff = 1
  MaxBackoff = 3
PROPERTY
  StopEnds
