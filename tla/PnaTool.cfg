\* With and without -v, two packets: SIGINT and SIGALRM may arrive at any
\* step of main and of each other's handler.
CONSTANTS
  VerboseSettings = {TRUE, FALSE}
  MaxPackets = 2
SPECIFICATION Spec
INVARIANT PcapHandleOpenWhenUsed
\* The process exits: nothing runs after that.
CHECK_DEADLOCK FALSE
