SPECIFICATION FairSpec
CONSTANTS
  r1 = r1  r2 = r2  c1 = c1  c2 = c2  m1 = m1  free = free  noId = noId
  N = 1
  Deps <- Chain
  Provider <- AllCodex
  Reviewer = "codex"
  Runner = {r1}
  Caller = {c1}
  Free = free
  ReviewId = {}
  NoId = noId
  MaxLaunches = 2
  MaxCrashes = 1
PROPERTIES RunnerEnds Settles
CHECK_DEADLOCK FALSE
