SPECIFICATION ClientSyncSpec
CONSTANTS
  None = None
  Peers = {p, q}
  Edits = {e1, e2}
  MaxReconnects = 1
  Tabs = {t1, t2, t3}
  TabEdits = {e1}
  MaxUnread = 1
  Clients = {1, 2}
  Ids = {i1}
  MaxListed = 2
  MaxWrites = 3
  MaxNodes = 4
  Authors = {x, y}
  Local = me
  MaxDeltas = 3
  Gossipers = {a, b, c}
  Gossip = {m1}
  targetEagerFanout = 1
  minEagerFanout = 1
  MaxDisconnects = 1
  MeshPeers = {1, 2, 3}
  maxPeers = 1
  Rated = {a}
  MaxRatings = 6
  MaxScoreTime = 6
  Providers = {1, 2, 3}
SYMMETRY MC_TabSymmetry
INVARIANTS PeersMeetAndAgree HistoryIsSound MeshIsSound
PROPERTIES TabsShowTheirStore BanLastsItsTerm
CHECK_DEADLOCK FALSE
