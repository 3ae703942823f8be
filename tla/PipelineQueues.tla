--------------------------- MODULE PipelineQueues ---------------------------
(***************************************************************************)
(* What the PIPELINE_MODE monitors promise, without kfifo indices or       *)
(* threads: each monitor has a bounded FIFO queue of skbs.  An skb enters  *)
(* the first queue only while it has room; a monitor takes the oldest skb  *)
(* of its queue, runs its hook on it once, and passes it to the next       *)
(* monitor's queue, dropping it only when that queue is full, or finishes  *)
(* it after the last monitor.  Pipeline refines this specification.        *)
(***************************************************************************)
EXTENDS Integers, Sequences

CONSTANTS NMonitors, Cap, Items

Stages == 1 .. NMonitors
None == 0                       \* no skb held

VARIABLES
    q,          \* stage -> queued skbs, oldest first
    held,       \* stage -> skb the monitor has taken (None: none)
    phase,      \* stage -> "idle", "taken" (hook not yet run), "hooked"
    processed   \* stage -> skbs the monitor's hook ran on, in order

vars == <<q, held, phase, processed>>

Init ==
    /\ q = [s \in Stages |-> <<>>]
    /\ held = [s \in Stages |-> None]
    /\ phase = [s \in Stages |-> "idle"]
    /\ processed = [s \in Stages |-> <<>>]

Arrive(p) ==
    /\ Len(q[1]) < Cap
    /\ q' = [q EXCEPT ![1] = Append(@, p)]
    /\ UNCHANGED <<held, phase, processed>>

Take(s) ==
    /\ phase[s] = "idle"
    /\ q[s] # <<>>
    /\ held' = [held EXCEPT ![s] = Head(q[s])]
    /\ q' = [q EXCEPT ![s] = Tail(@)]
    /\ phase' = [phase EXCEPT ![s] = "taken"]
    /\ UNCHANGED processed

Process(s) ==
    /\ phase[s] = "taken"
    /\ processed' = [processed EXCEPT ![s] = Append(@, held[s])]
    /\ phase' = [phase EXCEPT ![s] = "hooked"]
    /\ UNCHANGED <<q, held>>

\* Finish after the last monitor, drop at a full queue, or pass on.
Pass(s) ==
    /\ phase[s] = "hooked"
    /\ phase' = [phase EXCEPT ![s] = "idle"]
    /\ held' = [held EXCEPT ![s] = None]
    /\ \/ /\ s = NMonitors
          /\ UNCHANGED q
       \/ /\ s < NMonitors
          /\ Len(q[s + 1]) = Cap
          /\ UNCHANGED q
       \/ /\ s < NMonitors
          /\ Len(q[s + 1]) < Cap
          /\ q' = [q EXCEPT ![s + 1] = Append(@, held[s])]
    /\ UNCHANGED processed

Next ==
    \/ \E p \in Items : Arrive(p)
    \/ \E s \in Stages : Take(s) \/ Process(s) \/ Pass(s)

Spec == Init /\ [][Next]_vars

=============================================================================
