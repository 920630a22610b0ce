SPECIFICATION Spec
CONSTANTS
  Paths <- ThreePaths
  Above <- ProperPrefixes
  Archives <- SomeArchives
  MaxCount = 3
  MaxFile = 2
  MaxTotal = 3
  MaxMeddling = 1
INVARIANTS
    InstalledWhole
    WhatWasGated
    CompleteOnOk
    PreflightPredicts
PROPERTIES
    NothingReplaced
CHECK_DEADLOCK FALSE
