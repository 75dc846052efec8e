CONSTANTS
  plain = plain
  scalars = scalars
  vector = vector
  string = string
  huge = huge
  nodevice = nodevice
  unknown = unknown
  HEADER_SIZE = 2
  LENGTH_SIZE = 1
  Command = {plain, scalars, vector, string, huge, nodevice, unknown}
  Unknown = {unknown, nodevice}
  NoDevice = {nodevice}
  MaxAlloc = 1
  Packs <- TestPacks
  Scripts <- TestScripts
SPECIFICATION TSSpec
INVARIANTS
  ExecutedAsSent
  CrashForCause
PROPERTIES
  SessionEnds
