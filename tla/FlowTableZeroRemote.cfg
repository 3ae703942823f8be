\* A remote address of 0.0.0.0 (a DHCP client talking to a local server).
CONSTANTS
  Addrs = {0, 4, 5}
  Ports = {1}
  Lengths = {1}
  pna_prefix = 4
  pna_mask = 4
  pna_connections = 2
  pna_sessions = 2
  pna_ports = 2
  pna_bytes = 3
  pna_packets = 3
  PNA_LIP_BITS = 1
  PNA_RIP_BITS = 1
  PNA_PORT_BITS = 1
  PROBE_LIMIT = 2
  HashLong <- MCHashLong
  HookReturnsEarly = FALSE
  MaxPackets = 4
SPECIFICATION Spec
INVARIANT EntriesServeOneKey
CHECK_DEADLOCK FALSE
