CHECK_DEADLOCK FALSE
SPECIFICATION Spec
CONSTANTS
  i1 = i1
  i2 = i2
  i3 = i3
  a1 = a1
  a2 = a2
  x1 = x1
  x2 = x2
  None = None
  NoMask = NoMask
  Kind = {"DOWNLINK"}
  If = {i1, i2}
  Vip = {a1, a2}
  Begins <- OneTwo
  V6 = {x1}
  VRRP_LINK_MAX_CNT = 2
  HmdSwitch = TRUE
  CountMax = 3
SYMMETRY Symmetry
INVARIANT NamesDistinct
INVARIANT FlagCovers
