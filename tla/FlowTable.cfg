\* Three hosts (two local) sharing one LIP slot, one port slot per protocol, two ports, three packets: claims, misses, ownership collisions and every threshold.
CONSTANTS
  Addrs = {1, 4, 5}
  Ports = {1, 2}
  Lengths = {1}
  pna_prefix = 4
  pna_mask = 4
  pna_connections = 2
  pna_sessions = 2
  pna_ports = 2
  pna_bytes = 3
  pna_packets = 2
  PNA_LIP_BITS = 0
  PNA_RIP_BITS = 1
  PNA_PORT_BITS = 0
  PROBE_LIMIT = 2
  HashLong <- MCHashLong
  HookReturnsEarly = FALSE
  MaxPackets = 3
SPECIFICATION Spec
INVARIANT TypeOK
INVARIANT EntriesServeOneKey
INVARIANT CountersAgree
PROPERTY BlockedHostFrozen
PROPERTY FlowTableImplementsCounters
CHECK_DEADLOCK FALSE
