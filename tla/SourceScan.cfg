CONSTANTS
  Plugins <- MCPlugins
  DataDir = "local-volume"
SPECIFICATION Spec
INVARIANTS TypeOK LoopInvariant FoundWhenLast
