\* Eight components side by side, each explored whole with the others at rest.
SPECIFICATION MCSpec
CONSTANTS
  Builds = {b1, b2, b3}
  NoBuild = NoBuild
  Supervisors = {"systemd", "launchd", "legacy"}
  MaxPublications = 2
  MaxMishaps = 2
  Nodes = {n1}
  NoNode = NoNode
  Keep = 1
  MaxBackups = 2
  MaxRestores = 1
  MaxMoves = 1
  MaxFaults = 1
  TunnelNodes = {n1}
  NoConn = NoConn
  MaxConns = 2
  MaxRequests = 1
  MaxTerminals = 1
  MaxCuts = 1
  Devices = {d1}
  NoDevice = NoDevice
  Clients = {q1, q2}
  MaxSids = 1
  MaxJtis = 2
  MaxSecrets = 2
  People = {u1, u2}
  Nobody = Nobody
  Servers = {h1, h2}
  MaxMails = 2
  Copies = {c1, c2, c3, c4}
  Hosts = {n1, n2}
  MaxReplicas = 2
  MaxChanges = 1
  Services = {s1}
  Sites = {n1, n2}
  Alias = Alias
  Unattached = Unattached
  MaxPlacements = 3
  web = web
  proxy = proxy
  db = db
  big = big
  small = small
  Workloads = {web, proxy, db}
  Machines = {big, small}
  Nowhere = Nowhere
  Suits <- MCSuits
  Ram <- MCRam
  Capacity <- MCCapacity
  Apart <- MCApart
  With <- MCWith
  Home <- MCHome
  MaxPlaced = 4
INVARIANTS
  ComponentsTypeOK
  OnlyVerifiedBuilds
  NoneForgotten
  OpenIsRegistered
  ShellsEnd
  OrgHasOwner
  
  StaleOnlyIfExcused
  
PROPERTIES
  DownloadsCease
  UpgradeConverges
  GoodArchiveSurvives
  ClaimedEnds
  RevokedStaysRevoked
  DeletedOnlyIfMeant
  RoutesFollow
CHECK_DEADLOCK FALSE
