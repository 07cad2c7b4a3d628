SPECIFICATION Spec
CONSTANTS
  Conns = {r1, r2}
  MaxConns = 1
  Late = 1
  AccessExpire = 5
  Delay = 2
  Tolerance = 1
  MaxNow = 12
  Uploads = {"u1", "u2"}
  Downloads = {"d1"}
  Size <- MCSize
  Nodes = {"n1", "n2"}
  MaxFaults = 2
  MaxStops = 1
  Sends = 3
  Pubs = {"a", "b"}
  MaxRestarts = 2
  Rounds = 1
  Stats = 2
  BufSize = 3
  MaxLen = 4
  MaxMessages = 3
INVARIANTS
    TimeoutsDecide
    RefreshedInTime
    FilesAreUploads
    SameStory
    LinePerMessage
PROPERTIES
    ClientRecovers
    StreamEnds
    ValuesFollow
\* The programs come to their ends.
CHECK_DEADLOCK FALSE
