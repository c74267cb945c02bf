SPECIFICATION Spec
CONSTANTS
  r1 = r1  r2 = r2  c1 = c1  c2 = c2  m1 = m1  free = free  noId = noId
  N = 2
  Deps <- Chain
  Provider <- CodexFirst
  Reviewer = "api"
  Runner = {r1}
  Caller = {c1}
  Free = free
  ReviewId = {m1}
  NoId = noId
  MaxLaunches = 2
  MaxCrashes = 0
INVARIANTS InputsAreCurrent CompletedIsReviewed
CHECK_DEADLOCK FALSE
