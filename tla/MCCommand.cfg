CONSTANTS
  Names <- MCNames
  Definitions <- MCDefinitions
  Exe <- MCExe
  Official <- MCOfficial
  Builtins <- MCBuiltins
  Links <- MCLinks
  Versions <- MCVersions
  Dotted <- MCDotted
SPECIFICATION MCSpec
INVARIANTS
  WiringIsSound
  NoPluginLeft
  AddedIsFound
  ResolvesAsDocumented
  KindsAreServed
PROPERTIES
  CommandReturns
  SortsUnits
