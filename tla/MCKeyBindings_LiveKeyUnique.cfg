CONSTANTS
  Codes <- MCCodes
  KEYC_NONE <- MCNone
  BindKeys <- MCBindKeys
  BindKey2s <- MCBindKey2s
  ProbeKey2s <- MCProbeKey2s
  CmdLists <- MCCmdLists
  InitTable <- MCInitTable
  MaxBindings = 4

SPECIFICATION Spec

INVARIANT LiveKeyUnique
