# TLA+ models of PNA (Passive Network Analyzer)

These modules model the kernel module under `src/module/`. Each component's
state and operations come from the C source. Where the source disagrees with
`spec.md`, the disagreement is recorded as a finding with the TLC run that
shows it. `PROJECT.json` lists:

- the components;
- the runs and the mutants that back each property;
- the map from every model definition to the source lines it translates;
- the findings and the hazards.

## The system

| Part | Source | What it does |
|---|---|---|
| Flow table | `hooks.c` | Three levels: local IP → remote IP → (protocol, port pair). Each level is an open-address array probed linearly for at most `PROBE_LIMIT` slots. The level-2 and level-3 arrays are shared between parents, and a parent owns a child slot through a bitmap. `nf_ses_watch_hook` parses a packet, localizes it, updates the three levels and raises BLOCK / WHITELIST alerts on thresholds. |
| HashMap | `pna_hashmap.c` | Two-choice bucketed map taken from a static pool `hashmaps[PNA_NHASHMAPS]`. A slot word is `fingerprint | pair index`, and 0 means an empty slot. Operations: create (vmalloc), destroy, reset, put, get. |
| Dispatcher | `pna_main.c` | `pna_hook` is registered with `dev_add_pack`. It decodes the packet into a stack `struct pna_flowkey`, localizes it (`pna_localize`), calls `flowmon_hook` and then `rtmon_hook`. |
| Rtmon pipeline | `pna_rtmon.c` | In `PIPELINE_MODE`, each monitor (conmon, lipmon) has one kfifo and one kthread running `rtmon_pipe`. A kthread takes an entry, runs the monitor's hook, and passes the entry to the next monitor's kfifo or frees the skb. A timer runs `rtmon_clean` and re-arms itself. |
| Lifecycle | `pna_main.c`, `pna_rtmon.c` | `pna_init` sets up flowmon, alerts and rtmon, then adds the packet hook. `pna_cleanup` removes the hook, calls `rtmon_release` (stop threads, `del_timer`, release monitors), then cleans up alerts and flowmon. |
| Perf counters | `pna_main.c`, `pna_rtmon.c`, `hooks.c` | Per-interval packet and byte counts, printed every 10 s. |
| Capture tool | `pna.c` | Userspace front end. `main` reads the options, opens the device with `pcap_open_live`, installs `sigproc` for SIGINT (and, with `-v`, `my_sigalarm` for SIGALRM plus an `alarm`), and runs `pcap_loop` with the callback `pkt_hook`. `sigproc` closes the handle, tears the pna components down and exits. `my_sigalarm` prints statistics from the handle and re-arms the alarm. |

How the parts interact:
- Packets arrive on every CPU in softirq context.
- `pna_hook` hands each packet to flowmon and, in pipeline mode, to the first monitor's kfifo, whose consumer is a kthread on another CPU.
- The clean timer runs on whichever CPU it fires, concurrently with the monitor threads.
- Module unload tears these down in a fixed order.

`flowmon_*`, `conmon_*`, `lipmon_*`, `session_action` and `pna_alert_*` are
called by this code, but their source is not in the repository. They appear
only as the steps that call them.

## Modules

### `FlowTable` (+ `MCFlowTable`, abstract `FlowCounters`): hooks.c

**State:**
- `lips`, `rips`, `ports[proto]`: arrays of records.
- The ownership bitmaps are sets of slot indices (`dsts`, `prts[proto]`).
- The per-direction counters are functions over directions.
- `info` holds the table-wide counters and misses.
- `alerts` is the set of alerts raised.
- `pc`, `cur`, `lipSlot` and `ripSlot` track where the hook is in the current packet.
- The history variables `seen`, `keysOf` and `admitted` are read only by properties.
- The history variable `raw` holds the packet as received, before localization. Only the refinement mapping reads it.

**Actions:**
- `Receive` is the header parsing and localization of `nf_ses_watch_hook`, lines 254-337 and 412-418.
- `Localized` is the localization of lines 314-337. The source is assumed local. Otherwise the addresses and the ports are swapped and the packet is inbound.
- `DoLipEntry`, `DoRipEntry` and `DoPortEntry` are the three table functions. Each includes the threshold checks the hook makes right after the call, in code order.
- The bounded linear probe is written inside each of the three actions.
- `RipMatch` and `PortMatch` are the key-and-ownership-bit tests.
- `PortFree` is the free-slot test.
- `SeenBump` and `FirstSeenBit` are the direction-bit updates.
- `ConnectionsExceeded` is the first threshold.

One packet is processed at a time. Each CPU has its own table and the hook
runs to completion in softirq, so no two packets interleave on one table.
`HashLong` is a constant operator, given in `MCFlowTable` by a small hash
that makes slots collide. `HookReturnsEarly` selects the unconditional
`return ret;` at hooks.c:279. With it TRUE, as in the code, nothing after that
line runs. The early return can be seen at the line itself, so no run checks it.
The passing run sets it to FALSE to check the table code the hook was written
to run.

**Abstract specification `FlowCounters`.** It is written from spec.md 4.2-4.3 and has no tables, slots or bitmaps:
- `pending` is the one packet being accounted, or none.
- `counts` maps each flow counted so far to its packet and byte counts per direction. A flow is (local IP, remote IP, protocol, local port, remote port).
- `Arrive` takes a TCP/UDP packet with a local endpoint.
- `Count` localizes the packet by the spec's rule and adds one packet and its length, in its direction, to its own flow.
- `Drop` discards the packet: a level is full or a threshold blocked it.

`FlowTable` refines it through `Abs == INSTANCE FlowCounters WITH ...`:
- `pending` is `{raw}` while the hook is inside the table functions.
- The counted flows are those the table reaches through its ownership chain: a LIP slot, a RIP slot in its `dsts`, and a port slot in that RIP's `prts[proto]`. A flow's counts are the sums over the port entries it is reached for.
- `is_local` is `pna_localize`'s test, which masks the prefix (`InNetwork`).

The refinement fails if a packet is counted twice or counted on another flow. It also fails if localization swaps the addresses without the ports. Each of those bugs can keep every counter consistent with the table, so `CountersAgree` would not catch it.

### `HashMap` (+ `MCHashMap`): pna_hashmap.c

**State:** per pool entry, the fields `n_pairs`, `n_buckets`, `buckets`,
`pairs` and `next_idx`. An unallocated array is `NoMem`. There are also
three history or environment variables:
- `users`: the callers holding the entry;
- `puts`: the successful puts since the last reset;
- `ret`: the value the last call returned.

**Actions:**
- `Create` finds the first entry with `n_pairs = 0`, sets its fields, then either allocation may fail.
- `Reset` and `Destroy`.
- `Put` has three disjuncts: the map is full, both buckets are full, or the pair is stored.

`Get` is an operator, since `hashmap_get` changes nothing. The invariants
evaluate it for every key in every state. `NBuckets` is the doubling loop,
written as a RECURSIVE operator. `Hashit` masks the constant Murmur output
exactly as the code does. `MCHashMap` puts keys 1..3 in the same left bucket
and gives two of them the same fingerprint.

### `Pipeline` (+ `PipelineQueues`): PIPELINE_MODE and the module lifecycle in pna_main.c / pna_rtmon.c

**Actors:**
- `insmod` running `pna_init`;
- each receiving CPU's `pna_hook`;
- each monitor's `rtmon_pipe` thread;
- the clean timer;
- module unload.

**State:**
- `stack[c]`: the packet whose flow key CPU c's `pna_hook` frame holds. The key of packet p is p.
- `buf`, `in`, `out`: the kfifos.
- `wpc` and `piped`: the threads.
- `timer`: `armed`, `running` or `off`.
- `relPc`: where `pna_init` or `pna_cleanup` is, from `flowmon_init` to `loaded`, then to `unloaded`, or to `failed` or `oops`.
- `relStage`: the `monitors[]` index that `rtmon_init`'s loop or `rtmon_release`'s loop is at.
- `should_stop` and `released`: unload.
- `thread[s]`: `monitors[s].thread`, one of `none` (NULL), `task` or `err` (an `ERR_PTR`).
- `cpu` and `rtmonRet`: `rtmon_init`'s locals.
- `inits`, `cleans`, `monInits`, `monCleans`: how many times each init succeeded and each cleanup was called.
- `binds`: the history of `kthread_bind` calls.
- `failing`: `pna_cleanup` was entered from a failing `pna_init`.
- `freed[p]`: the number of `kfree_skb` calls on packet p.
- `processed[s]`: the packets monitor s's hook ran on.

`kfifo_put` from `rtmon_hook` takes three steps, because nothing orders them
between CPUs:
1. `Receive` checks for a full kfifo and writes the slot;
2. `IncLoad` loads `in`;
3. `IncStore` stores `in + 1`.

**Other actions:**
- Load (`pna_init`):
  - `FlowmonInit`, `AlertInit`.
  - `RtmonInit`: every monitor's init, `add_timer`, and the first `cpu`.
  - `StartThread`: one iteration of the thread loop. `CRem` is C's `%`.
  - `RtmonInitReturn`: `dev_add_pack`, or the error path.
  - `InitFailures` names the init calls a run lets fail.
- The worker's loop: `Wait` (the spin and the stop test), `Get`, `Hook` and `Forward`.
- The timer: `TimerFire` and `RtmonClean`.
- Unload (`pna_cleanup`, also entered from `pna_init`'s error paths): `DevRemovePack`, `KthreadStop`, `KthreadJoined`, `RtmonDelTimer`, `MonitorsRelease`, `AlertCleanup` and `FlowmonCleanup`.

**Abstract specification:** `PipelineQueues` says what the pipeline promises without indices or threads:
- each monitor has a bounded FIFO queue;
- an skb enters the first queue only when it has room;
- a monitor takes the oldest skb, runs its hook once, and then passes the skb on;
- the skb is dropped only when the next queue is full.

`Pipeline` maps onto it with `INSTANCE ... WITH`:
- each queue is the kfifo read from `out` to `in` through `in & mask`;
- the held skb is `piped` while the thread is between `kfifo_get` and the next put;
- the phase comes from the thread's position.

The pipeline run checks `Abs!Spec` as a property.

`pna_flowmon` and `pna_rtmon` are chosen at Init from the constant sets of
values the module can be loaded with.

### `PnaTool`: pna.c

One process with one thread, interrupted by signal handlers.

| Code | Model |
|---|---|
| `main`'s position | `pc`: init, getopt, open, signals, loop, close, return |
| handlers running on top of main or of each other | `frames`, a sequence of `[sig, at]`; the last frame is the code that runs, and main runs only when it is empty (`MainRuns`) |
| `pd` | `pd`: none, open, closed (freed) |
| `signal()` calls, `alarm()` | `installed`, `armed` |
| `sigproc`'s `static int called` | `called` |
| `exit()` / return from `main` | `alive` becomes FALSE (`Exit`) |
| `pna_init` ... `pna_cleanup` | `pna`: down, up, cleaned |
| `numPkts` | `numPkts`, bounded by `MaxPackets` |

- Each of `main`'s steps is an action: `StartUp`, `GetOpt` (any exit or a choice of `verbose`), `OpenLive` (may fail and return -1), `InstallHandlers`, `PktHook`, `LoopReturns`, `MainClose`, `MainReturn`.
- `Deliver(sig)` pushes a handler frame at any point where the handler is installed and the signal is not blocked. glibc's `signal()` keeps the handler installed and blocks only the signal being handled, so SIGALRM can interrupt `sigproc` and SIGINT can interrupt `my_sigalarm`. An alarm fires once per `alarm()`.
- `sigproc` is three steps: `SigprocCheck` (`if (called) return; else called = 1;`), `SigprocClose` (`pcap_close`), `SigprocTeardown` (`pna_dtrie_deinit`, `pna_cleanup`, `exit(0)`). `my_sigalarm` is two steps: `AlarmStats` (`print_stats` on `pd`) and `AlarmRearm`.
- Signal timing is not modelled: an armed alarm may fire at any point.
- Option strings, printing, `pna_hook` and the userspace `pna_*` functions are not in the repository or carry no state the property reads.
- No fairness: the run checks a safety property only.

**Fairness:**
- Weak fairness for `pna_init`'s steps: `insmod` runs it to its end.
- Weak fairness for the kthreads, which spin with `schedule()` and are bound to their own CPUs.
- Weak fairness for the second half of `kfifo_put`, because a softirq runs to completion.
- Weak fairness for the timer, and for `pna_cleanup` once it has started.
- No fairness for packet arrival or for the decision to unload. The network and the administrator may stop at any time.

## Runs

| Run | Expect | Checks | What it shows |
|---|---|---|---|
| `flowtable` | pass | TypeOK, EntriesServeOneKey, CountersAgree, BlockedHostFrozen, FlowTableImplementsCounters | Each table slot serves one key. The counters (`nlips`, `nrips`, `nports`, `ndsts`, `nsess`, `nprts`, `npkts`, `nbytes`) equal what the table holds. A host at `pna_connections` never changes its subtree again. The table implements per-flow counting of localized packets (refinement). |
| `flowtable_zero_remote` | violation | EntriesServeOneKey | Remote 0.0.0.0 uses a RIP slot without marking it taken, so another host claims the same slot. |
| `hashmap` | pass | TypeOK, GetAfterPut | A key put, once or more, is found in a pair holding that key and a value put for it, and a key never put is not found. This holds across colliding buckets and fingerprints, full buckets, a full map, resets, destroys and failed allocations. |
| `hashmap_zero_fp` | violation | GetAfterPut | Fingerprint 0 at index 0 writes slot word 0, which reads as empty and is overwritten. |
| `pipeline` | pass | TypeOK, SkbFreedAtMostOnce, EntriesHaveConsumer, ThreadsStoppedWhenGone, PipelineDrains, PipelineImplementsQueues | Any init call may fail and there is one producer CPU. The kfifos and `rtmon_pipe` implement bounded FIFO queues (refinement). No skb is freed twice. No kfifo receives an entry before its thread is woken. No monitor thread outlives the module. No queued entry stays unprocessed while its thread runs. |
| `pipeline_init_cleanup` | violation | CleanupMatchesSetup | A failing `pna_alert_init` or monitor init makes `pna_init`'s error path do two bad things: release monitors that were never initialised, and call `pna_alert_cleanup` on a failed alert system or twice. |
| `pipeline_cpu` | violation | KthreadBindValid | With two active CPUs, `rtmon_init` starts at `(2 - 1) % 2 = 1`, computes `(1 - 2) % 2 = -1` for the first monitor (conmon), and binds its thread to CPU -1. |
| `pipeline_stale_key` | violation | KeyMatchesSkb | The queued key pointer points into `pna_hook`'s stack, and the next packet on that CPU overwrites it. |
| `pipeline_leak` | violation | SkbAccounted | A full kfifo drops the entry without `kfree_skb`. |
| `pipeline_timer` | violation | TimerOffAfterRelease | `del_timer` does not wait for a running `rtmon_clean`, which re-arms the timer after release. |
| `pna_tool_signals` | violation | PcapHandleOpenWhenUsed | With `-v`, `pcap_loop` returns and `main` calls `pcap_close`, but the alarm stays armed and its handler installed: the alarm then runs `my_sigalarm`, whose `print_stats` uses the freed handle. The same invariant covers `sigproc`'s `pcap_close`, which runs whatever main has done to `pd`. |
| `pipeline_multi_cpu` | violation | StagesKeepArrivalOrder | Two CPUs put into the single first kfifo at once. They write one slot and advance `in` twice, so the monitor reads a zero-filled slot (a NULL skb). |

Each property of a passing run has a mutant in `PROJECT.json`. A mutant is a
plausible one-line bug in a mapped definition, and TLC finds it violates the
property:

| Definition | Mutant (plausible bug) | Property TLC finds violated |
|---|---|---|
| `FirstSeenBit` | wrong bit | TypeOK |
| `SeenBump` | counts every packet | CountersAgree |
| `PortMatch` | ignores the ownership bit | EntriesServeOneKey |
| `ConnectionsExceeded` | `>` for `>=` | BlockedHostFrozen |
| `Localized` | swaps the addresses but not the ports | FlowTableImplementsCounters |
| `PutFull` | off by one | TypeOK |
| `SlotHit` | no full-key compare | GetAfterPut |
| `LoopDone` | thread loop runs past the NULL entry | TypeOK |
| `LoopDone` | thread loop stops one monitor early | EntriesHaveConsumer |
| `ThreadExited` | `kthread_stop` does not wait | ThreadsStoppedWhenGone |
| `IsFull` | off by one | PipelineImplementsQueues |
| `ReturnFreesSkb` | `pna_hook` also frees | SkbFreedAtMostOnce |
| `WaitReady` | waits for two entries | PipelineDrains |

## Bounds and why they are enough

**flowtable:**
- Constants:
  - Addresses {1, 4, 5} with prefix/mask 4/4: two local hosts and one remote.
  - One LIP slot, 2 RIP slots and 1 port slot per protocol.
  - `PROBE_LIMIT` 2, so the probe wraps.
  - Ports {1, 2}, TCP and UDP, 3 packets.
  - Thresholds of 2 or 3 on length-1 packets.
- With these, every path is reached:
  - two hosts share the LIP slot, and the second misses;
  - remotes of the one LIP entry collide in the RIP array and probe past each other (with one LIP slot the ownership bit of a RIP slot never tells two hosts apart; `flowtable_zero_remote` shows the shared-slot case);
  - port pairs collide and miss;
  - the connections, ports, packets and sessions thresholds fire in both directions, and the scan whitelist fires.
- TLC coverage shows every action and disjunct firing (143,892 distinct states, about 75 s with the refinement).
- **Dropped:** a second config with more ports and packets. It adds no new path and does not finish in five minutes.

**hashmap:**
- One pool entry of 5 pairs, so n_buckets = 4: 8 buckets of 2 slots.
- Keys 1..3, all in left bucket 0, with right buckets 4 and 5.
- Puts of repeated keys fill bucket 0 and then bucket 5, so both the "both halves full" failure and the "map full" failure are reached.
- Up to 3 creates, with both vmalloc failures.
- 45,109 distinct states.

**pipeline:**
- One CPU, two monitors, kfifos of 2 slots, 4 packets.
- Each kfifo fills and overflows.
- The stack slot is reused.
- The timer fires during load and unload.
- Both module flags take both values.
- Every init call may fail: `flowmon_init`, `pna_alert_init`, each monitor's init, and `kthread_create`.
- Eight CPUs, for which `rtmon_init`'s CPU choice is valid.
- 20,270 distinct states, about 35 s.
- The violation runs:
  - `pipeline_multi_cpu` adds a second CPU;
  - `pipeline_cpu` uses two CPUs, the smallest count where the CPU choice goes negative (3 and 4 do too);
  - `pipeline_init_cleanup` lets the alert and monitor inits fail.

**pna_tool_signals:**
- `verbose` both ways and 2 packets.
- Both handlers can interrupt each other once and main at every step, so every ordering of `pcap_close` by main and by `sigproc` with `print_stats` is reached.
- TLC finds the violation after 78 distinct states, in 7 steps: with `-v`, `pcap_loop` returns, main calls `pcap_close`, and the alarm then fires.

`CHECK_DEADLOCK FALSE` is set where the system really stops:
- the flow table and the hash map stop once the environment's bounded inputs are used up;
- the capture tool stops when the process exits;
- the pipeline stops after the module is unloaded, after a failed load, or after the oops of a failed `kthread_create`.

**Runs:** the project keeps at most twelve runs. The two weakest FlowTable violation runs were retired to make room for the lifecycle runs:
- the dead hook at hooks.c:279;
- the `pna_connections` off-by-one against spec scenario 3 (the code blocks at `ndsts[OUT] >= pna_connections` on the count before the update).

Both remain listed as hazards.

The `hashmap_duplicate` run was retired to make room for `pna_tool_signals`. It showed that `hashmap_put` never looks for the key, so a second put of a key adds a second pair and `get` can return the older value (spec §8.7 says the latest). `GetAfterPut` now covers keys put more than once with what the code does guarantee: `get` never loses such a key and never returns a value that was not put for it.

## Not modelled, and why

- **Inline rtmon** (without `PIPELINE_MODE`): only calls monitors that are not in the repository.
- **`dev_get_by_name`'s reference on the net_device:** `pna_cleanup` never drops it. This is kernel reference counting outside the model, and it is listed as a hazard.
- **Perf counters** (`pna_perflog` and the PERFORMANCE block of `rtmon_pipe`). They only report, and their hazards are listed:
  - division by a zero `t_interval`;
  - u32 byte counters that wrap;
  - `avg - ETH_OVERHEAD` below zero, which needs a wrapped `B_interval`: every packet adds `ETH_OVERHEAD` to it.

  Their edges are out of TLC's reach at the code's widths:
  - `B_interval` wraps only after 2^32 bytes in one 10 s interval, which is about 65,000 maximal GRO frames or millions of MTU frames. That is far more calls than a state graph holds.
  - 2^32 is beyond TLC's 32-bit signed integers.
  - A narrower counter would wrap early, but the report's 1000 fps threshold would then no longer match the wrap. A model at a reduced width would not show the code's behaviour.
- **`pna_localize` against the hooks.c localization:** `pna_localize` masks the prefix and hooks.c does not.
  - The refinement takes `pna_localize`'s test as `is_local`.
  - They agree for the flowtable run's prefix.
  - With host bits in the prefix, hooks.c drops every packet. `FlowCounters` allows that as drops, so only a violation run of its own could show it, and the run budget is spent.
- **`pna_hash`:** has no caller.
- **`pna.c`'s option strings and printing:** I/O with no state a property reads. The char-typed `getopt` result (an endless option loop where char is unsigned) depends on the target ABI and is listed as a hazard.
- **Preemption count** left raised by unpaired `get_cpu_var`: kernel state outside these modules.
- **The monitors, flowmon and the alert system:** not in the repository.

## Plan for the next modules

1. **`pna_localize` as an operator:** check `pna_localize` against spec §4.2 and §8.6 over every 3-bit prefix and mask, and against hooks.c's localization, which needs a violation run for the unmasked prefix.

The table functions' probe loops are single steps here, since a softirq runs them without yielding. A liveness property that a packet reaches `Return` would therefore hold by the model's shape, and it is not planned.
