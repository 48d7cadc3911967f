SPECIFICATION Spec
CONSTANTS
  i1 = i1
  i2 = i2
  i3 = i3
  a1 = a1
  a2 = a2
  x1 = x1
  x2 = x2
  None = None
  NoMask = NoMask
  Kind = {"UPLINK", "DOWNLINK", "VGATEWAY"}
  If = {i1, i2}
  Vip = {a1, a2}
  Begins <- OneTwo
  V6 = {}
  VRRP_LINK_MAX_CNT = 2
  HmdSwitch = FALSE
  CountMax = 2
INVARIANT TypeOK
INVARIANT NamesDistinct
INVARIANT VipsDistinct
INVARIANT CountRight
INVARIANT LastVipKept
INVARIANT NothingLeft
INVARIANT AllInstalled
