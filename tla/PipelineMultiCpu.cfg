\* Two receiving CPUs, two monitors (conmon, lipmon), kfifos of two slots,
\* four packets, no failing init call: two CPUs put into the first kfifo at once.
CONSTANTS
    CPUs = {1, 2}
    NMonitors = 2
    FIFO_SZ = 2
    FlowmonSettings = {TRUE}
    RtmonSettings = {TRUE}
    MaxPackets = 4
    CpuCount = 8
    InitFailures = {}
SPECIFICATION Spec
INVARIANT StagesKeepArrivalOrder
\* The module may finish unloading: nothing runs after that.
CHECK_DEADLOCK FALSE
