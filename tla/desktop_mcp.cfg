SPECIFICATION Spec
CONSTANTS
  Clients = {c1, c2}
 Setters = {s1, s2}
 Texts = {t1, t2}
 Absent = Absent
 NoOne = NoOne
 MaxSettings = 2
 MaxOutside = 1
 MaxCalls = 2
 MaxCrashes = 1
SYMMETRY Sym
INVARIANTS DesktopType EndpointFollowsConfig
PROPERTIES CommitsAreExact ErrorIsFinal
CHECK_DEADLOCK FALSE
