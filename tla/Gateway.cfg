SPECIFICATION FairSpec
CONSTANTS
  c1 = c1  c2 = c2
  Conns <- TwoConns
  Cap = 1
INVARIANTS AdminCountExact PollFollowsAdmins PendingCapped
PROPERTIES BroadcastRevalidated PendingResolves PollStartsAtOnce
