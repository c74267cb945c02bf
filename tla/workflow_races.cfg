SPECIFICATION Spec
CONSTANTS
  r1 = r1  r2 = r2  c1 = c1  c2 = c2  m1 = m1  free = free  noId = noId
  N = 1
  Deps <- Chain
  Provider <- AllCodex
  Reviewer = "codex"
  Runner = {r1, r2}
  Caller = {c1, c2}
  Free = free
  ReviewId = {m1}
  NoId = noId
  MaxLaunches = 2
  MaxCrashes = 1
SYMMETRY Symmetry
INVARIANTS TypeOK OneRunner AttemptsKept ResumeOnlyWhenQuiet
PROPERTY NoReplay
CHECK_DEADLOCK FALSE
