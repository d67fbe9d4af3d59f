SPECIFICATION Spec
CONSTANTS
  Byte = 256
  MaxLiteral = 400
  SmallBits = 20
  Quota = 3
  UserSuper <- MCUserSuper
  UserMethods <- MCUserMethods
  UserIvars <- MCUserIvars
  GlobalNames <- MCGlobalNames
  Programs <- MCPrograms
  Receiver <- MCReceiver
  InitialIvars <- MCIvars
  InitialGlobals <- MCGlobals
  InitialFuture <- Resolved
  Settlement <- Resolved
INVARIANTS ReadsBack MeansWhatItSays HandlersAlive
PROPERTY EveryProgramEnds
