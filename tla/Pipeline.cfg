\* One receiving CPU, two monitors (conmon, lipmon), kfifos of two slots,
\* four packets: enough for each kfifo to fill and overflow.  Any of
\* pna_init's calls may fail; eight CPUs, where rtmon_init's CPUs are valid.
CONSTANTS
    CPUs = {1}
    NMonitors = 2
    FIFO_SZ = 2
    FlowmonSettings = {TRUE, FALSE}
    RtmonSettings = {TRUE, FALSE}
    MaxPackets = 4
    CpuCount = 8
    InitFailures = {"flowmon", "alert", "monitor", "kthread"}
SPECIFICATION Spec
INVARIANT TypeOK SkbFreedAtMostOnce EntriesHaveConsumer ThreadsStoppedWhenGone
PROPERTY PipelineDrains PipelineImplementsQueues
\* The module may finish unloading: nothing runs after that.
CHECK_DEADLOCK FALSE
