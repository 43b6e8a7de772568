SPECIFICATION RemoteSpec
CONSTANTS
  MaxSessions = 2
  Priorities = {0, 1}
  IdleTimeout = 1
  SessionTimeout = 1
  Sockets = {1, 2}
  Topics = {t1, t2}
  Views = {v1, v2}
  Calls = {c1, c2}
  MaxMissedPongs = 3
  MaxAttempts = 2
  QuickConnect = FALSE
INVARIANT AuthorityInv
 
PROPERTY ImplementsAuthority
PROPERTY IdleHolderReleased
PROPERTY SilentPeerEvicted
PROPERTY LostPeerNoticed
PROPERTY NothingLeftWaiting
