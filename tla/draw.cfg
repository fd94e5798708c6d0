SPECIFICATION Spec
CONSTANTS
  NumViewports = 2
  NumTargets = 2
  NumStreams = 2
  NumViews = 2
  Unknown = Unknown
  ResetClip = "infinite"
  DepthClampZeroOne = FALSE
  MaxFeedback = 2
  Scenarios <- DrawScenarios
INVARIANTS
  TypeOK
  CleanStateInEngine
  MacroStateCurrent
  SampleShadingCurrent
  NoStrayColorWrite
  BindingsCurrent
  DrawnAsAsked
  LinearImageCurrent
PROPERTIES
  ClearsUnconditional
