\* One receiving CPU, two monitors (conmon, lipmon), kfifos of two slots,
\* three packets: enough for each kfifo to fill and overflow.
CONSTANTS
    CPUs = {1}
    NMonitors = 2
    FIFO_SZ = 2
    FlowmonSettings = {TRUE}
    RtmonSettings = {TRUE}
    MaxPackets = 3
    CpuCount = 8
    InitFailures = {}
SPECIFICATION Spec
INVARIANT SkbAccounted
\* The module may finish unloading: nothing runs after that.
CHECK_DEADLOCK FALSE
