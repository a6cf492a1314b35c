SPECIFICATION Spec
CONSTANTS
  p1 = p1
  p2 = p2
  p3 = p3
  Pipeline = {p1, p2, p3}
  Mixes <- MCMixes
  JobTries = 2
  OldCount = 2
INVARIANTS
  PreviewNeverServes
