CONSTANTS
  a = a
  ab = ab
  wild = wild
  Paths = {a, ab, wild}
  Wild = {wild}
  Above <- Ancestors
  Starts <- MCStarts
  MaxQueue = 2
  MaxSessions = 2
  MaxChanges = 1
SPECIFICATION RewriteSpec
INVARIANTS
  ReplaySound
PROPERTIES
  RewriteReopens
  CommitAsQueued
CHECK_DEADLOCK FALSE
