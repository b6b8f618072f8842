CONSTANTS
  Plugins <- MCPlugins
  DataDir = "csi"
SPECIFICATION Spec
INVARIANT FindsDataVolume
