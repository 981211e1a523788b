SPECIFICATION FairSpec
CONSTANTS
  t1 = t1
  t2 = t2
  t3 = t3
  p1 = p1
  p2 = p2
  Task = {t1, t2, t3}
  Peer = {p1, p2}
  PeerOf <- MCPeerOf
  Conn = {c1, c2}
  MaxPerPeer = 1
  MaxUncaught = 1
  Free = Free
INVARIANTS TypeOK LimitHolds PlacesAccounted NoConnectionShared
PROPERTIES RequestsEnd
CHECK_DEADLOCK FALSE
