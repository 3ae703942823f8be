\* pna_init with a failing pna_alert_init or a failing monitor init: the
\* error paths call cleanup functions for parts never set up, or twice.
CONSTANTS
    CPUs = {1}
    NMonitors = 2
    FIFO_SZ = 2
    FlowmonSettings = {TRUE}
    RtmonSettings = {TRUE}
    MaxPackets = 1
    CpuCount = 8
    InitFailures = {"alert", "monitor"}
SPECIFICATION Spec
INVARIANT CleanupMatchesSetup
\* The module may finish unloading: nothing runs after that.
CHECK_DEADLOCK FALSE
