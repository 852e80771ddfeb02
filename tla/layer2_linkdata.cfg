SPECIFICATION Spec
CONSTANTS
  Macs = {eth, sta}
  Interfaces = {eth}
  Origins = {link1, link2, ethtool, nl80211}
  LinkOrigins = {link1, link2}
  EthOrigin = ethtool
  NlOrigin = nl80211
  Unset = Unset
  None = None
  NetCount = 1
  NeighCount = 2
  SpeedIdx = {1}
  ConfigIdx = {0, 1}
PROPERTY
  ConfiguredLinkDataKept
CHECK_DEADLOCK FALSE
