CONSTANTS
  HdrLen = 2
  PrintLen = 1
  PeerSizes = {1}
  MaxMsgs = 4
  MaxSize = 2
  Argvs <- MCArgvs
  CmdTable <- MCCmdTable
  ArgvSize <- MCArgvSize
  Tables <- MCTables
  Content <- MCContent
  CfgFiles <- MCCfgFiles
  Options <- MCOptions
  NoFile = "none"
  DefaultCfg = "main"
  Readable <- MCReadable
  MaxOpen = 3

SPECIFICATION CmdSpec

CHECK_DEADLOCK FALSE

INVARIANT CmdTypeOK
INVARIANT ArgvRoundTrip
INVARIANT CmdLookupMatchesSpec
INVARIANT CfgLoadMatchesSpec
INVARIANT ConfigErrorReported
INVARIANT SrvInHoldsRest
PROPERTY ClientTerminates
