SPECIFICATION PartsSpec
CONSTANTS
  Parts = {"filesystems"}
  Nodes = {node1, node2}
  Strangers = {printer}
  ProbesVip = TRUE
  MaxMoves = 3
  Cpus = 2
  Pids = {p1, p2}
  Interval = 1
  TopLimit = 1
  LoadLimits = {0, 50, 85}
  MaxDelay = 1
  MaxChurn = 2
  Units = {sshd}
  Window = 2
  Every = 1
  EntryCap = 4
  UnitsListed = 1
  MaxErrors = 2
  Watched = {"nginx", "docker", "keepalived", "prometheus", "ssh"}
  Addresses = 1
  Endpoints = {"node1-health", "node2-health", "fleet-slo", "vip"}
  Rhel = TRUE
  Firewalls = {"nftables", "firewalld"}
  Runtimes = {"docker", "podman"}
  Endless = {"disk", "vip"}
  StartLimit = 60
  MaxTurns = 2
  Points = {root, var}
  MaxChanges = 2
  DiskLevels = {80, 85, 90, 95}
  DiskLimits <- MCDiskLimits
INVARIANTS
  HungServerHidesNothing
