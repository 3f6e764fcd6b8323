SPECIFICATION BridgeFairSpec
CONSTANTS
  bridge = bridge
  set = set
  Plugins = {1, 2}
  Bridges = {bridge}
  PluginSets = {set}
  SetOf <- TheSetOf
  Manifests <- TheManifests
  HandMade = {}
  MaxFaults = 1
PROPERTIES
  NextSyncConverges
CHECK_DEADLOCK FALSE
