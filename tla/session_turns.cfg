SPECIFICATION Spec
CONSTANTS
  Callers = {c1, c2}
  None = None
  Offered = {"resume", "read", "start", "reconnect"}
  MaxTurns = 2
  MaxConnections = 2
SYMMETRY CallerSymmetry
VIEW SessionView
INVARIANTS TypeOK RowsFollowJournal LatestTurnDecides
PROPERTIES OneActiveTurn
CHECK_DEADLOCK FALSE
