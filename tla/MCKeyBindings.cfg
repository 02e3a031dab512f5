CONSTANTS
  Codes <- MCCodes
  KEYC_NONE <- MCNone
  BindKeys <- MCBindKeys
  BindKey2s <- MCBindKey2s
  ProbeKey2s <- MCProbeKey2s
  CmdLists <- MCCmdLists
  InitTable <- MCInitTable
  MaxBindings = 5

SPECIFICATION Spec

INVARIANT TypeOK
INVARIANT DispatchedListNotFreed
INVARIANT FreedUnreachable
INVARIANT KeyCmpConsistent
