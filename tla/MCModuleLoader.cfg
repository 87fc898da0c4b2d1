CONSTANTS
  Ids = {r, a, b}
  Root = r
  Contents <- MCContents
  DefectSets <- MCDefectSets
SPECIFICATION Spec
CHECK_DEADLOCK FALSE
INVARIANTS
  VerdictIsRight
  ImportsFirst
PROPERTIES
  LoadingEnds
  LoadingProgresses
