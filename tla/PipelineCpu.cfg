\* rtmon_init on a machine with two active CPUs and no failing call.
CONSTANTS
    CPUs = {1}
    NMonitors = 2
    FIFO_SZ = 2
    FlowmonSettings = {TRUE}
    RtmonSettings = {TRUE}
    MaxPackets = 1
    CpuCount = 2
    InitFailures = {}
SPECIFICATION Spec
INVARIANT KthreadBindValid
\* The module may finish unloading: nothing runs after that.
CHECK_DEADLOCK FALSE
