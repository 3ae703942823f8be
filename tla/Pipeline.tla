------------------------------ MODULE Pipeline ------------------------------
(***************************************************************************)
(* PIPELINE_MODE packet path of src/module/pna_main.c and pna_rtmon.c.     *)
(*                                                                         *)
(* pna_hook runs on every CPU that receives packets (softirq, one at a     *)
(* time per CPU).  It fills a struct pna_flowkey on its own stack, and     *)
(* rtmon_hook puts {&key, skb} into monitors[0].queue, then pna_hook       *)
(* returns.  Each monitor is a kthread running rtmon_pipe: take an entry   *)
(* from its kfifo, run the monitor's hook on it, pass it to the next       *)
(* monitor's kfifo, or kfree_skb it after the last monitor.  A timer runs  *)
(* rtmon_clean, which re-arms itself.  pna_cleanup removes the packet      *)
(* hook, then rtmon_release stops the threads, deletes the timer and       *)
(* releases the monitors.                                                  *)
(*                                                                         *)
(* Packets are numbered in arrival order; packet p's flow key is p, so     *)
(* stack[c] = p says CPU c's pna_hook frame holds the key of packet p.    *)
(* A kfifo entry is [skb |-> p, key |-> c]: key is a pointer into CPU c's  *)
(* stack.  kfifo_put writes the slot at in & mask, then does in++, which   *)
(* is a load and a store: the three are separate steps, as nothing orders  *)
(* them between CPUs.  The monitors' own hooks, init, clean and release    *)
(* (conmon, lipmon) are not in the repository: their calls are the steps   *)
(* at which they happen.                                                   *)
(***************************************************************************)
EXTENDS Integers, Sequences, FiniteSets

CONSTANTS
    CPUs,            \* CPUs on which pna_hook runs
    NMonitors,       \* pipeline-aware entries of monitors[] (conmon, lipmon)
    FIFO_SZ,         \* PNA_RTMON_FIFO_SZ (a power of two)
    FlowmonSettings, \* values pna_flowmon can be loaded with
    RtmonSettings,   \* values pna_rtmon can be loaded with
    MaxPackets,      \* bound on packets received
    CpuCount,        \* num_active_cpus() when rtmon_init runs
    InitFailures     \* init calls that may fail: a subset of InitCalls

ASSUME /\ NMonitors \in Nat \ {0}
       /\ FIFO_SZ \in Nat \ {0}
       /\ FlowmonSettings \subseteq BOOLEAN /\ RtmonSettings \subseteq BOOLEAN
       /\ CpuCount \in Nat \ {0}

\* flowmon_init, pna_alert_init, a monitor's init, kthread_create.
InitCalls == {"flowmon", "alert", "monitor", "kthread"}
ASSUME InitFailures \subseteq InitCalls

Stages == 1 .. NMonitors
Pkts == 1 .. MaxPackets
NoCpu == 0                                  \* the zero-filled slot's key
NoEntry == [skb |-> 0, key |-> NoCpu]       \* static monitors[] is zeroed
Entry == [skb : {0} \cup Pkts, key : {NoCpu} \cup CPUs]

VARIABLES
    pna_flowmon, pna_rtmon,   \* module parameters
    npkts,      \* packets received so far
    stack,      \* CPU -> packet whose key the pna_hook frame holds (0: none)
    hookPc,     \* CPU -> where its pna_hook is
    hookPkt,    \* CPU -> the skb its pna_hook is handling
    incTmp,     \* CPU -> value of in loaded for in++
    buf,        \* stage -> kfifo slots
    in, out,    \* stage -> kfifo indices
    wpc,        \* stage -> where its rtmon_pipe thread is
    piped,      \* stage -> its rtmon_pipe local piped
    should_stop,\* stage -> kthread_stop has been called on it
    freed,      \* packet -> number of kfree_skb calls on it
    processed,  \* stage -> packets its hook ran on, in order
    timer,      \* clean_timer: "armed", "running" (handler executing), "off"
    relPc,      \* where module unload is
    relStage,   \* stage rtmon_release is stopping
    released,   \* rtmon_release has called every monitor's release
    inits,      \* [flowmon, alert] -> successful init calls
    cleans,     \* [flowmon, alert] -> cleanup calls
    monInits,   \* stage -> successful monitor->init() calls
    monCleans,  \* stage -> monitor->release() calls
    thread,     \* stage -> monitors[s].thread: "none" (NULL), "task", "err"
    cpu,        \* rtmon_init's local cpu
    rtmonRet,   \* rtmon_init's local ret (sum of the monitors' init)
    binds,      \* history: the [ok, cpu] of every kthread_bind call
    failing     \* pna_cleanup was called from a failing pna_init

vars == <<pna_flowmon, pna_rtmon, npkts, stack, hookPc, hookPkt, incTmp, buf,
          in, out, wpc, piped, should_stop, freed, processed, timer, relPc,
          relStage, released, inits, cleans, monInits, monCleans, thread, cpu,
          rtmonRet, binds, failing>>

hookVars == <<stack, hookPc, hookPkt, incTmp, npkts>>
pipeVars == <<buf, in, out, wpc, piped, processed>>
lifeVars == <<inits, cleans, monInits, monCleans, thread, cpu, rtmonRet,
              binds, failing>>
relVars == <<should_stop, timer, relPc, relStage, released, lifeVars>>

Slot(i) == i % FIFO_SZ                      \* in & mask
\* in - out as unsigned int: when in has fallen behind out the difference
\* wraps to a huge length, which is "full" and "not empty".
UIntWrapped == 2147483647
FifoLen(s) == IF in[s] >= out[s] THEN in[s] - out[s] ELSE UIntWrapped
IsFullMutant(s) == FifoLen(s) > FIFO_SZ
IsFull(s) == FifoLen(s) >= FIFO_SZ
IsEmpty(s) == in[s] = out[s]

Init ==
    /\ pna_flowmon \in FlowmonSettings
    /\ pna_rtmon \in RtmonSettings
    /\ npkts = 0
    /\ stack = [c \in CPUs |-> 0]
    /\ hookPc = [c \in CPUs |-> "idle"]
    /\ hookPkt = [c \in CPUs |-> 0]
    /\ incTmp = [c \in CPUs |-> 0]
    /\ buf = [s \in Stages |-> [i \in 0 .. FIFO_SZ - 1 |-> NoEntry]]
    /\ in = [s \in Stages |-> 0]
    /\ out = [s \in Stages |-> 0]
    /\ wpc = [s \in Stages |-> "unborn"]
    /\ piped = [s \in Stages |-> NoEntry]
    /\ should_stop = [s \in Stages |-> FALSE]
    /\ freed = [p \in Pkts |-> 0]
    /\ processed = [s \in Stages |-> <<>>]
    /\ timer = "off"
    /\ relPc = "flowmon_init"
    /\ relStage = 1
    /\ released = FALSE
    /\ inits = [flowmon |-> 0, alert |-> 0]
    /\ cleans = [flowmon |-> 0, alert |-> 0]
    /\ monInits = [s \in Stages |-> 0]
    /\ monCleans = [s \in Stages |-> 0]
    /\ thread = [s \in Stages |-> "none"]
    /\ cpu = 0
    /\ rtmonRet = 0
    /\ binds = {}
    /\ failing = FALSE

-----------------------------------------------------------------------------
(***************************************************************************)
(* pna_hook (pna_main.c:121-217) on CPU c up to the kfifo write of         *)
(* rtmon_hook (pna_rtmon.c:194-216).  Packets pna_hook drops itself        *)
(* (outgoing, not IPv4 TCP/UDP, not localizable, flowmon_hook < 0) go to   *)
(* pna_done and are freed.  Otherwise, when pna_flowmon and pna_rtmon are  *)
(* set, the entry goes into monitors[0].queue unless it is full; either    *)
(* way the PIPELINE_MODE return is NET_RX_DROP without kfree_skb.          *)
(***************************************************************************)
\* pna_main.c:211-216: built with PIPELINE_MODE, pna_hook returns
\* NET_RX_DROP without pna_done, leaving the skb to the pipeline.
ReturnFreesSkbMutant == TRUE
ReturnFreesSkb == FALSE

Returned(p) == IF ReturnFreesSkb THEN [freed EXCEPT ![p] = @ + 1] ELSE freed

Receive(c) ==
    /\ relPc = "loaded"
    /\ hookPc[c] = "idle"
    /\ npkts < MaxPackets
    /\ LET p == npkts + 1 IN
       /\ npkts' = p
       /\ stack' = [stack EXCEPT ![c] = p]
       /\ \/ /\ freed' = [freed EXCEPT ![p] = @ + 1]
             /\ UNCHANGED <<hookPc, hookPkt, buf>>
          \/ /\ ~(pna_flowmon /\ pna_rtmon)
             /\ freed' = Returned(p)
             /\ UNCHANGED <<hookPc, hookPkt, buf>>
          \/ /\ pna_flowmon /\ pna_rtmon
             /\ IsFull(1)
             /\ freed' = Returned(p)
             /\ UNCHANGED <<hookPc, hookPkt, buf>>
          \/ /\ pna_flowmon /\ pna_rtmon
             /\ ~IsFull(1)
             /\ buf' = [buf EXCEPT ![1][Slot(in[1])] = [skb |-> p, key |-> c]]
             /\ hookPc' = [hookPc EXCEPT ![c] = "inc_load"]
             /\ hookPkt' = [hookPkt EXCEPT ![c] = p]
             /\ UNCHANGED freed
    /\ UNCHANGED <<pna_flowmon, pna_rtmon, incTmp, in, out, wpc, piped,
                   processed, relVars>>

\* The load half of kfifo_put's in++.
IncLoad(c) ==
    /\ hookPc[c] = "inc_load"
    /\ incTmp' = [incTmp EXCEPT ![c] = in[1]]
    /\ hookPc' = [hookPc EXCEPT ![c] = "inc_store"]
    /\ UNCHANGED <<pna_flowmon, pna_rtmon, npkts, stack, hookPkt, buf, in,
                   out, wpc, piped, freed, processed, relVars>>

\* The store half of in++; then rtmon_hook and pna_hook return.
IncStore(c) ==
    /\ hookPc[c] = "inc_store"
    /\ in' = [in EXCEPT ![1] = incTmp[c] + 1]
    /\ hookPc' = [hookPc EXCEPT ![c] = "idle"]
    /\ hookPkt' = [hookPkt EXCEPT ![c] = 0]
    /\ freed' = Returned(hookPkt[c])
    /\ UNCHANGED <<pna_flowmon, pna_rtmon, npkts, stack, incTmp, buf, out,
                   wpc, piped, processed, relVars>>

(***************************************************************************)
(* rtmon_pipe (pna_rtmon.c:83-178), the kthread of monitor s.  The spin    *)
(* while the fifo is empty and the stop test after it are one step; the    *)
(* throughput counters (lines 114-162) are left out.                       *)
(***************************************************************************)
\* The inner loop leaves the spin once the fifo is not empty.
WaitReadyBatchMutant(s) == FifoLen(s) >= 2
WaitReady(s) == ~IsEmpty(s)

Wait(s) ==
    /\ wpc[s] = "wait"
    /\ \/ /\ should_stop[s]
          /\ wpc' = [wpc EXCEPT ![s] = "exited"]
       \/ /\ ~should_stop[s]
          /\ WaitReady(s)
          /\ wpc' = [wpc EXCEPT ![s] = "get"]
    /\ UNCHANGED <<pna_flowmon, pna_rtmon, hookVars, buf, in, out, piped,
                   freed, processed, relVars>>


\* kfifo_get: on underflow it returns 0, which is only logged, and piped
\* keeps the previous entry.
Get(s) ==
    /\ wpc[s] = "get"
    /\ piped' = IF IsEmpty(s) THEN piped
                ELSE [piped EXCEPT ![s] = buf[s][Slot(out[s])]]
    /\ out' = IF IsEmpty(s) THEN out ELSE [out EXCEPT ![s] = @ + 1]
    /\ wpc' = [wpc EXCEPT ![s] = "hook"]
    /\ UNCHANGED <<pna_flowmon, pna_rtmon, hookVars, buf, in, freed,
                   processed, relVars>>

\* self->hook(piped.key, piped.direction, piped.skb, &piped.data): the
\* monitor reads the flow key through piped.key.
Hook(s) ==
    /\ wpc[s] = "hook"
    /\ processed' = [processed EXCEPT ![s] = Append(@, piped[s].skb)]
    /\ wpc' = [wpc EXCEPT ![s] = "fwd"]
    /\ UNCHANGED <<pna_flowmon, pna_rtmon, hookVars, buf, in, out, piped,
                   freed, relVars>>

\* After the last monitor, kfree_skb; otherwise kfifo_put into the next
\* monitor's queue, whose only producer is this thread (an overflow is
\* only logged).
IsLastStage(s) == s = NMonitors

Forward(s) ==
    /\ wpc[s] = "fwd"
    /\ LET e == piped[s] IN
       \/ /\ IsLastStage(s)
          /\ freed' = IF e.skb = 0 THEN freed   \* kfree_skb(NULL) is a no-op
                      ELSE [freed EXCEPT ![e.skb] = @ + 1]
          /\ UNCHANGED <<buf, in>>
       \/ /\ ~IsLastStage(s)
          /\ IsFull(s + 1)
          /\ UNCHANGED <<freed, buf, in>>
       \/ /\ ~IsLastStage(s)
          /\ ~IsFull(s + 1)
          /\ buf' = [buf EXCEPT ![s + 1][Slot(in[s + 1])] = e]
          /\ in' = [in EXCEPT ![s + 1] = @ + 1]
          /\ UNCHANGED freed
    /\ wpc' = [wpc EXCEPT ![s] = "wait"]
    /\ UNCHANGED <<pna_flowmon, pna_rtmon, hookVars, out, piped, processed,
                   relVars>>

(***************************************************************************)
(* clean_timer: it expires, and its handler rtmon_clean (pna_rtmon.c:      *)
(* 181-191) calls every monitor's clean, then re-arms it with mod_timer.   *)
(***************************************************************************)
TimerFire ==
    /\ timer = "armed"
    /\ timer' = "running"
    /\ UNCHANGED <<pna_flowmon, pna_rtmon, hookVars, pipeVars, should_stop,
                   freed, relPc, relStage, released, lifeVars>>

RtmonClean ==
    /\ timer = "running"
    /\ timer' = "armed"
    /\ UNCHANGED <<pna_flowmon, pna_rtmon, hookVars, pipeVars, should_stop,
                   freed, relPc, relStage, released, lifeVars>>

(***************************************************************************)
(* pna_init (pna_main.c:299-330) with rtmon_init (pna_rtmon.c:219-272).    *)
(* A failing flowmon_init returns at once; a failing pna_alert_init calls  *)
(* pna_cleanup; a negative sum of the monitors' init calls                 *)
(* pna_alert_cleanup and then pna_cleanup.  pna_cleanup is the unload      *)
(* sequence below, entered with failing set.                               *)
(***************************************************************************)
MayFail(call) == IF call \in InitFailures THEN {TRUE, FALSE} ELSE {TRUE}

\* C's % truncates toward zero: the remainder has the sign of a.
CRem(a, n) == IF a >= 0 THEN a % n ELSE -((-a) % n)

FlowmonInit ==
    /\ relPc = "flowmon_init"
    /\ \E ok \in MayFail("flowmon") :
          /\ inits' = IF ok THEN [inits EXCEPT !.flowmon = @ + 1] ELSE inits
          /\ relPc' = IF ok THEN "alert_init" ELSE "failed"
    /\ UNCHANGED <<pna_flowmon, pna_rtmon, hookVars, pipeVars, freed,
                   should_stop, timer, relStage, released, cleans, monInits,
                   monCleans, thread, cpu, rtmonRet, binds, failing>>

AlertInit ==
    /\ relPc = "alert_init"
    /\ \E ok \in MayFail("alert") :
          /\ inits' = IF ok THEN [inits EXCEPT !.alert = @ + 1] ELSE inits
          /\ relPc' = IF ok THEN "rtmon_init" ELSE "stopping"
          /\ failing' = ~ok
    /\ UNCHANGED <<pna_flowmon, pna_rtmon, hookVars, pipeVars, freed,
                   should_stop, timer, relStage, released, cleans, monInits,
                   monCleans, thread, cpu, rtmonRet, binds>>

\* Every monitor's init is called, whatever the ones before it returned;
\* add_timer; cpu starts at the highest CPU, left for flowmon.
RtmonInit ==
    /\ relPc = "rtmon_init"
    /\ \E ok \in [Stages -> MayFail("monitor")] :
          /\ monInits' = [s \in Stages |-> monInits[s] + (IF ok[s] THEN 1 ELSE 0)]
          /\ rtmonRet' = -Cardinality({s \in Stages : ~ok[s]})
    /\ timer' = "armed"
    /\ cpu' = CRem(CpuCount - 1, CpuCount)
    /\ relStage' = 1
    /\ relPc' = "threads"
    /\ UNCHANGED <<pna_flowmon, pna_rtmon, hookVars, pipeVars, freed,
                   should_stop, released, inits, cleans, monCleans, thread,
                   binds, failing>>

\* The thread loop stops at the first monitor whose pipe is NULL, the
\* entry after the last pipeline-aware one.
LoopDoneMutant(i) == i > NMonitors - 1
LoopDoneOverrunMutant(i) == i > NMonitors + 1
LoopDone(i) == i > NMonitors

\* One iteration: cpu = (cpu - 2) % cpu_count, INIT_KFIFO, kthread_create,
\* kthread_bind and wake_up_process.  A failed kthread_create is only
\* logged: kthread_bind then dereferences the ERR_PTR and the kernel oopses.
StartThread ==
    /\ relPc = "threads"
    /\ ~LoopDone(relStage)
    /\ LET s == relStage
           c == CRem(cpu - 2, CpuCount)
       IN  \E ok \in MayFail("kthread") :
              /\ cpu' = c
              /\ binds' = binds \cup {[ok |-> ok, cpu |-> c]}
              /\ buf' = [buf EXCEPT ![s] = [i \in 0 .. FIFO_SZ - 1 |-> NoEntry]]
              /\ in' = [in EXCEPT ![s] = 0]
              /\ out' = [out EXCEPT ![s] = 0]
              /\ thread' = [thread EXCEPT ![s] = IF ok THEN "task" ELSE "err"]
              /\ wpc' = IF ok THEN [wpc EXCEPT ![s] = "wait"] ELSE wpc
              /\ relStage' = s + 1
              /\ relPc' = IF ok THEN "threads" ELSE "oops"
    /\ UNCHANGED <<pna_flowmon, pna_rtmon, hookVars, piped, processed, freed,
                   should_stop, timer, released, inits, cleans, monInits,
                   monCleans, rtmonRet, failing>>

\* rtmon_init returns; pna_init either registers the packet hook
\* (dev_get_by_name, dev_add_pack) or calls pna_alert_cleanup, pna_cleanup.
RtmonInitReturn ==
    /\ relPc = "threads"
    /\ LoopDone(relStage)
    /\ relStage' = 1
    /\ \/ /\ rtmonRet >= 0
          /\ relPc' = "loaded"
          /\ UNCHANGED <<cleans, failing>>
       \/ /\ rtmonRet < 0
          /\ cleans' = [cleans EXCEPT !.alert = @ + 1]
          /\ relPc' = "stopping"
          /\ failing' = TRUE
    /\ UNCHANGED <<pna_flowmon, pna_rtmon, hookVars, pipeVars, freed,
                   should_stop, timer, released, inits, monInits, monCleans,
                   thread, cpu, rtmonRet, binds>>

(***************************************************************************)
(* pna_cleanup (pna_main.c:333-340) and rtmon_release (pna_rtmon.c:        *)
(* 275-294).  dev_remove_pack returns once no pna_hook is running.  Then   *)
(* rtmon_release walks monitors[] while thread != NULL: kthread_stop, which *)
(* waits for the thread to exit, and thread = NULL.  Then del_timer, which *)
(* deactivates a pending timer but does not wait for a running handler;    *)
(* then each monitor's release; then pna_alert_cleanup, flowmon_cleanup.   *)
(***************************************************************************)
DevRemovePack ==
    /\ relPc = "loaded"
    /\ \A c \in CPUs : hookPc[c] = "idle"
    /\ relPc' = "stopping"
    /\ UNCHANGED <<pna_flowmon, pna_rtmon, hookVars, pipeVars, should_stop,
                   freed, timer, relStage, released, lifeVars>>

\* monitors[NMonitors + 1] is the "null" entry, whose thread is NULL.
StopLoopDone(i) == IF i > NMonitors THEN TRUE ELSE thread[i] = "none"

KthreadStop ==
    /\ relPc = "stopping"
    /\ \/ /\ StopLoopDone(relStage)
          /\ relPc' = "deltimer"
          /\ UNCHANGED should_stop
       \/ /\ ~StopLoopDone(relStage)
          /\ should_stop' = [should_stop EXCEPT ![relStage] = TRUE]
          /\ relPc' = "joining"
    /\ UNCHANGED <<pna_flowmon, pna_rtmon, hookVars, pipeVars, freed, timer,
                   relStage, released, lifeVars>>

\* kthread_stop returns once the thread has left rtmon_pipe.
ThreadExitedMutant(s) == TRUE
ThreadExited(s) == wpc[s] = "exited"

KthreadJoined ==
    /\ relPc = "joining"
    /\ ThreadExited(relStage)
    /\ thread' = [thread EXCEPT ![relStage] = "none"]
    /\ relStage' = relStage + 1
    /\ relPc' = "stopping"
    /\ UNCHANGED <<pna_flowmon, pna_rtmon, hookVars, pipeVars, should_stop,
                   freed, timer, released, inits, cleans, monInits, monCleans,
                   cpu, rtmonRet, binds, failing>>

DelTimer(t) == IF t = "armed" THEN "off" ELSE t

RtmonDelTimer ==
    /\ relPc = "deltimer"
    /\ timer' = DelTimer(timer)
    /\ relPc' = "releasing"
    /\ UNCHANGED <<pna_flowmon, pna_rtmon, hookVars, pipeVars, should_stop,
                   freed, relStage, released, lifeVars>>

MonitorsRelease ==
    /\ relPc = "releasing"
    /\ released' = TRUE
    /\ monCleans' = [s \in Stages |-> monCleans[s] + 1]
    /\ relPc' = "alert_cleanup"
    /\ UNCHANGED <<pna_flowmon, pna_rtmon, hookVars, pipeVars, should_stop,
                   freed, timer, relStage, inits, cleans, monInits, thread,
                   cpu, rtmonRet, binds, failing>>

AlertCleanup ==
    /\ relPc = "alert_cleanup"
    /\ cleans' = [cleans EXCEPT !.alert = @ + 1]
    /\ relPc' = "flowmon_cleanup"
    /\ UNCHANGED <<pna_flowmon, pna_rtmon, hookVars, pipeVars, should_stop,
                   freed, timer, relStage, released, inits, monInits,
                   monCleans, thread, cpu, rtmonRet, binds, failing>>

FlowmonCleanup ==
    /\ relPc = "flowmon_cleanup"
    /\ cleans' = [cleans EXCEPT !.flowmon = @ + 1]
    /\ relPc' = IF failing THEN "failed" ELSE "unloaded"
    /\ UNCHANGED <<pna_flowmon, pna_rtmon, hookVars, pipeVars, should_stop,
                   freed, timer, relStage, released, inits, monInits,
                   monCleans, thread, cpu, rtmonRet, binds, failing>>

-----------------------------------------------------------------------------
Producer(c) == Receive(c) \/ IncLoad(c) \/ IncStore(c)
Worker(s) == Wait(s) \/ Get(s) \/ Hook(s) \/ Forward(s)
Load == FlowmonInit \/ AlertInit \/ RtmonInit \/ StartThread \/ RtmonInitReturn
Teardown == KthreadStop \/ KthreadJoined \/ RtmonDelTimer \/ MonitorsRelease
              \/ AlertCleanup \/ FlowmonCleanup

Next ==
    \/ \E c \in CPUs : Producer(c)
    \/ \E s \in Stages : Worker(s)
    \/ TimerFire \/ RtmonClean
    \/ Load
    \/ DevRemovePack \/ Teardown

(***************************************************************************)
(* Fairness: insmod runs pna_init to its end; a softirq runs pna_hook to   *)
(* completion; each monitor thread is a kthread bound to its own CPU that  *)
(* spins calling schedule(), so it keeps running; an armed kernel timer    *)
(* expires and its handler finishes; once started, pna_cleanup runs to its *)
(* end.  Packet arrival and the decision to unload are not fair.           *)
(***************************************************************************)
Fairness ==
    /\ WF_vars(Load)
    /\ \A c \in CPUs : WF_vars(IncLoad(c)) /\ WF_vars(IncStore(c))
    /\ \A s \in Stages : WF_vars(Worker(s))
    /\ WF_vars(TimerFire) /\ WF_vars(RtmonClean)
    /\ WF_vars(Teardown)

Spec == Init /\ [][Next]_vars /\ Fairness

-----------------------------------------------------------------------------
(***************************************************************************)
(* Properties                                                              *)
(***************************************************************************)
TypeOK ==
    /\ pna_flowmon \in BOOLEAN /\ pna_rtmon \in BOOLEAN
    /\ npkts \in 0 .. MaxPackets
    /\ stack \in [CPUs -> 0 .. MaxPackets]
    /\ hookPc \in [CPUs -> {"idle", "inc_load", "inc_store"}]
    /\ buf \in [Stages -> [0 .. FIFO_SZ - 1 -> Entry]]
    /\ in \in [Stages -> Nat] /\ out \in [Stages -> Nat]
    /\ \A s \in Stages : in[s] - out[s] \in 0 .. FIFO_SZ
    /\ wpc \in [Stages -> {"unborn", "wait", "get", "hook", "fwd", "exited"}]
    /\ piped \in [Stages -> Entry]
    /\ freed \in [Pkts -> Nat]
    /\ processed \in [Stages -> Seq(Pkts \cup {0})]
    /\ timer \in {"armed", "running", "off"}
    /\ relStage \in 1 .. NMonitors + 1
    /\ relPc \in {"flowmon_init", "alert_init", "rtmon_init", "threads", "oops",
                  "loaded", "stopping", "joining", "deltimer", "releasing",
                  "alert_cleanup", "flowmon_cleanup", "unloaded", "failed"}
    /\ inits \in [{"flowmon", "alert"} -> Nat]
    /\ cleans \in [{"flowmon", "alert"} -> Nat]
    /\ monInits \in [Stages -> Nat] /\ monCleans \in [Stages -> Nat]
    /\ thread \in [Stages -> {"none", "task", "err"}]
    /\ binds \subseteq [ok : BOOLEAN, cpu : Int]

\* The skbs waiting in monitor s's kfifo, oldest first.
Pending(s) == {buf[s][Slot(i)].skb : i \in out[s] .. in[s] - 1}
Processed(s) == {processed[s][i] : i \in DOMAIN processed[s]}

(***************************************************************************)
(* Each monitor's hook runs on real packets (never a zero-filled slot), at *)
(* most once on each, in the order pna_hook received them; and a monitor  *)
(* only sees packets the monitor before it passed on.  The kfifo between   *)
(* pna_hook and the first monitor, and between monitors, must neither      *)
(* lose order, repeat an entry nor hand out a slot not yet written.        *)
(***************************************************************************)
StagesKeepArrivalOrder ==
    \A s \in Stages :
        /\ \A i \in DOMAIN processed[s] : processed[s][i] \in Pkts
        /\ \A i, j \in DOMAIN processed[s] :
               i < j => processed[s][i] < processed[s][j]
        /\ s > 1 => Processed(s) \subseteq Processed(s - 1)

(***************************************************************************)
(* No skb is passed to kfree_skb twice: neither pna_done nor the last      *)
(* monitor frees an skb something else has freed or still uses.            *)
(***************************************************************************)
SkbFreedAtMostOnce == \A p \in Pkts : freed[p] <= 1

(***************************************************************************)
(* Every skb that reaches a monitor's kfifo is eventually run through that *)
(* monitor's hook, unless the monitor's thread is being stopped: the       *)
(* thread's wait loop must not sleep on a non-empty kfifo.                 *)
(***************************************************************************)
PipelineDrains ==
    \A s \in Stages, p \in Pkts :
        p \in Pending(s) ~> (p \in Processed(s) \/ should_stop[s])

(***************************************************************************)
(* When a monitor's hook runs, piped.key points at the flow key of the     *)
(* packet whose skb it was given.  The key lives in pna_hook's stack       *)
(* frame (pna_main.c:124), and rtmon_hook queues its address               *)
(* (pna_rtmon.c:201) after which pna_hook returns.                         *)
(***************************************************************************)
KeyMatchesSkb ==
    \A s \in Stages :
        wpc[s] = "hook" /\ piped[s].skb # 0 /\ piped[s].key # NoCpu
            => stack[piped[s].key] = piped[s].skb

(***************************************************************************)
(* Every skb pna_hook accepted is freed, or waits in a kfifo, or is held   *)
(* by pna_hook or a monitor thread: none is dropped without kfree_skb.     *)
(***************************************************************************)
SkbAccounted ==
    \A p \in 1 .. npkts :
        \/ freed[p] > 0
        \/ \E s \in Stages : p \in Pending(s)
        \/ \E c \in CPUs : hookPkt[c] = p
        \/ \E s \in Stages : wpc[s] \in {"get", "hook", "fwd"} /\ piped[s].skb = p

(***************************************************************************)
(* Once rtmon_release has released the monitors, clean_timer is neither    *)
(* pending nor running: rtmon_clean cannot call a released monitor's       *)
(* clean or re-arm itself after the module is gone.                        *)
(***************************************************************************)
TimerOffAfterRelease == released => timer = "off"

(***************************************************************************)
(* No kfifo receives an entry before the kthread that drains it has been   *)
(* woken: pna_init registers the packet hook only after rtmon_init's loop  *)
(* has started a thread for every pipeline-aware monitor, and a monitor    *)
(* only forwards to a queue whose thread runs.                             *)
(***************************************************************************)
EntriesHaveConsumer ==
    \A s \in Stages : in[s] > 0 => wpc[s] # "unborn"

(***************************************************************************)
(* Once the module is gone (pna_cleanup finished after module_exit, or    *)
(* pna_init failed), no monitor thread is still inside rtmon_pipe:         *)
(* rtmon_release stops and waits for every thread rtmon_init started.      *)
(***************************************************************************)
ThreadsStoppedWhenGone ==
    relPc \in {"unloaded", "failed"} =>
        \A s \in Stages : wpc[s] \in {"unborn", "exited"}

(***************************************************************************)
(* Every cleanup call undoes one successful init: pna_init's error paths  *)
(* never clean up a part that was not set up, nor one twice.               *)
(***************************************************************************)
CleanupMatchesSetup ==
    /\ \A r \in {"flowmon", "alert"} : cleans[r] <= inits[r]
    /\ \A s \in Stages : monCleans[s] <= monInits[s]

(***************************************************************************)
(* rtmon_init passes kthread_bind a thread kthread_create really created  *)
(* and a CPU in 0 .. num_active_cpus() - 1.                                *)
(***************************************************************************)
KthreadBindValid ==
    \A b \in binds : b.ok /\ b.cpu \in 0 .. CpuCount - 1

-----------------------------------------------------------------------------
(***************************************************************************)
(* Refinement: each kfifo, read from out to in through in & mask, is the   *)
(* abstract monitor's queue; the entry rtmon_pipe holds between kfifo_get  *)
(* and the next kfifo_put is the skb the abstract monitor holds.           *)
(***************************************************************************)
QueueOf(s) == [i \in 1 .. in[s] - out[s] |-> buf[s][Slot(out[s] + i - 1)].skb]

PhaseOf(s) == CASE wpc[s] = "hook" -> "taken"
                [] wpc[s] = "fwd"  -> "hooked"
                [] OTHER           -> "idle"

Abs == INSTANCE PipelineQueues
         WITH Cap <- FIFO_SZ, Items <- Pkts,
              q <- [s \in Stages |-> QueueOf(s)],
              held <- [s \in Stages |-> IF PhaseOf(s) = "idle" THEN 0
                                         ELSE piped[s].skb],
              phase <- [s \in Stages |-> PhaseOf(s)],
              processed <- processed

(***************************************************************************)
(* The kfifo ring (in, out, in & mask) and the rtmon_pipe loop implement   *)
(* bounded FIFO queues: entries leave in the order they entered, none is   *)
(* refused while its queue has room, and the hook runs once per entry.     *)
(***************************************************************************)
PipelineImplementsQueues == Abs!Spec

=============================================================================
