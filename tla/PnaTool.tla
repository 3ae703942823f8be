------------------------------ MODULE PnaTool ------------------------------
(***************************************************************************)
(* The userspace capture tool of src/module/pna.c: main, the pcap packet   *)
(* callback pkt_hook, and the two signal handlers, sigproc (SIGINT) and    *)
(* my_sigalarm (SIGALRM, installed with -v).                               *)
(*                                                                         *)
(* The process has one thread.  A signal handler runs on top of whatever   *)
(* the thread was doing, and that code resumes only when the handler       *)
(* returns; exit() never returns.  Handlers are installed with signal(),   *)
(* whose glibc semantics keep the handler installed and block the signal   *)
(* being handled, but not the other one, while its handler runs.  frames   *)
(* is the stack of running handlers: the last frame is the code that runs. *)
(* pna_init, pna_dtrie_*, pna_hook, pna_cleanup and print_stats of the     *)
(* userspace build are not in the repository: their calls are the steps at *)
(* which they happen.  Signal timing is not modelled: an armed alarm may   *)
(* fire at any point, and SIGINT may arrive whenever it is installed.      *)
(***************************************************************************)
EXTENDS Integers, Sequences

CONSTANTS
  VerboseSettings,  \* values -v can give verbose
  MaxPackets        \* bound on the packets pcap_loop delivers

ASSUME VerboseSettings \subseteq BOOLEAN /\ MaxPackets \in Nat

SIGINT  == "SIGINT"
SIGALRM == "SIGALRM"

VARIABLES
  pc,         \* where main is
  frames,     \* the running signal handlers, innermost last
  alive,      \* the process has not exited
  pd,         \* the pcap handle: "none", "open", "closed" (freed)
  installed,  \* signals with a handler installed
  armed,      \* an alarm() is pending
  called,     \* sigproc's static called
  verbose,
  pna,        \* the pna components: "down", "up", "cleaned"
  numPkts

vars == <<pc, frames, alive, pd, installed, armed, called, verbose, pna,
          numPkts>>

Init ==
  /\ pc = "init"
  /\ frames = <<>>
  /\ alive = TRUE
  /\ pd = "none"
  /\ installed = {}
  /\ armed = FALSE
  /\ called = FALSE
  /\ verbose = FALSE
  /\ pna = "down"
  /\ numPkts = 0

\* Main runs only while no handler is on top of it.
MainRuns == alive /\ frames = <<>>

\* exit() and a return from main end the process.
Exit == alive' = FALSE

(***************************************************************************)
(* main (pna.c:124-203).                                                   *)
(***************************************************************************)
\* pna_init and pna_dtrie_init, before the options are read.
StartUp ==
  /\ MainRuns /\ pc = "init"
  /\ pna' = "up"
  /\ pc' = "getopt"
  /\ UNCHANGED <<frames, alive, pd, installed, armed, called, verbose, numPkts>>

\* The getopt loop: -h prints help and exits, a failing -n exits, -v sets
\* verbose.  The other options set strings no step reads.
GetOpt ==
  /\ MainRuns /\ pc = "getopt"
  /\ \/ /\ Exit
        /\ UNCHANGED <<pc, verbose>>
     \/ /\ verbose' \in VerboseSettings
        /\ pc' = "open"
        /\ UNCHANGED alive
  /\ UNCHANGED <<frames, pd, installed, armed, called, pna, numPkts>>

\* pcap_lookupdev (when no -i) and pcap_open_live: either fails and main
\* returns -1 without any cleanup.
OpenLive ==
  /\ MainRuns /\ pc = "open"
  /\ \/ /\ Exit
        /\ UNCHANGED <<pc, pd>>
     \/ /\ pd' = "open"
        /\ pc' = "signals"
        /\ UNCHANGED alive
  /\ UNCHANGED <<frames, installed, armed, called, verbose, pna, numPkts>>

\* signal(SIGINT, sigproc); with -v also signal(SIGALRM, ...) and alarm().
InstallHandlers ==
  /\ MainRuns /\ pc = "signals"
  /\ installed' = IF verbose THEN {SIGINT, SIGALRM} ELSE {SIGINT}
  /\ armed' = verbose
  /\ pc' = "loop"
  /\ UNCHANGED <<frames, alive, pd, called, verbose, pna, numPkts>>

\* pcap_loop calls pkt_hook (pna.c:83-96) for a packet: pna_hook, then the
\* counters (a zero-length packet changes nothing).
PktHook ==
  /\ MainRuns /\ pc = "loop"
  /\ numPkts < MaxPackets
  /\ numPkts' = numPkts + 1
  /\ UNCHANGED <<pc, frames, alive, pd, installed, armed, called, verbose, pna>>

\* pcap_loop(pd, -1, ...) returns only on an error.
LoopReturns ==
  /\ MainRuns /\ pc = "loop"
  /\ pc' = "close"
  /\ UNCHANGED <<frames, alive, pd, installed, armed, called, verbose, pna,
                 numPkts>>

MainClose ==
  /\ MainRuns /\ pc = "close"
  /\ pd' = "closed"
  /\ pc' = "return"
  /\ UNCHANGED <<frames, alive, installed, armed, called, verbose, pna, numPkts>>

MainReturn ==
  /\ MainRuns /\ pc = "return"
  /\ Exit
  /\ UNCHANGED <<pc, frames, pd, installed, armed, called, verbose, pna,
                 numPkts>>

(***************************************************************************)
(* Signal delivery and the handlers.                                       *)
(***************************************************************************)
Top == frames[Len(frames)]
Handling(sig) == \E i \in 1 .. Len(frames) : frames[i].sig = sig
Running(sig, at) == alive /\ frames # <<>> /\ Top = [sig |-> sig, at |-> at]
Goto(at) == frames' = [frames EXCEPT ![Len(frames)].at = at]
Return == frames' = SubSeq(frames, 1, Len(frames) - 1)

\* A signal is delivered when its handler is installed and it is not
\* blocked by its own running handler; an alarm fires once per alarm().
Deliver(sig) ==
  /\ alive
  /\ sig \in installed
  /\ ~Handling(sig)
  /\ sig = SIGALRM => armed
  /\ armed' = IF sig = SIGALRM THEN FALSE ELSE armed
  /\ frames' = Append(frames, [sig |-> sig,
                               at |-> IF sig = SIGINT THEN "check" ELSE "stats"])
  /\ UNCHANGED <<pc, alive, pd, installed, called, verbose, pna, numPkts>>

\* sigproc (pna.c:59-69): if (called) return; else called = 1;
SigprocCheck ==
  /\ Running(SIGINT, "check")
  /\ \/ /\ called
        /\ Return
        /\ UNCHANGED called
     \/ /\ ~called
        /\ called' = TRUE
        /\ Goto("close")
  /\ UNCHANGED <<pc, alive, pd, installed, armed, verbose, pna, numPkts>>

SigprocClose ==
  /\ Running(SIGINT, "close")
  /\ pd' = "closed"
  /\ Goto("teardown")
  /\ UNCHANGED <<pc, alive, installed, armed, called, verbose, pna, numPkts>>

\* pna_dtrie_deinit, pna_cleanup, exit(0).
SigprocTeardown ==
  /\ Running(SIGINT, "teardown")
  /\ pna' = "cleaned"
  /\ Exit
  /\ UNCHANGED <<pc, frames, pd, installed, armed, called, verbose, numPkts>>

\* my_sigalarm (pna.c:73-77): print_stats reads pd (pcap_stats).
AlarmStats ==
  /\ Running(SIGALRM, "stats")
  /\ Goto("rearm")
  /\ UNCHANGED <<pc, alive, pd, installed, armed, called, verbose, pna, numPkts>>

\* alarm(ALARM_SLEEP); signal(SIGALRM, my_sigalarm); return.
AlarmRearm ==
  /\ Running(SIGALRM, "rearm")
  /\ armed' = TRUE
  /\ Return
  /\ UNCHANGED <<pc, alive, pd, installed, called, verbose, pna, numPkts>>

Next ==
  \/ StartUp \/ GetOpt \/ OpenLive \/ InstallHandlers \/ PktHook
  \/ LoopReturns \/ MainClose \/ MainReturn
  \/ \E sig \in {SIGINT, SIGALRM} : Deliver(sig)
  \/ SigprocCheck \/ SigprocClose \/ SigprocTeardown
  \/ AlarmStats \/ AlarmRearm

Spec == Init /\ [][Next]_vars

-----------------------------------------------------------------------------
TypeOK ==
  /\ pc \in {"init", "getopt", "open", "signals", "loop", "close", "return"}
  /\ frames \in Seq([sig : {SIGINT, SIGALRM},
                     at : {"check", "close", "teardown", "stats", "rearm"}])
  /\ Len(frames) <= 2
  /\ alive \in BOOLEAN /\ called \in BOOLEAN /\ armed \in BOOLEAN
  /\ pd \in {"none", "open", "closed"}
  /\ installed \subseteq {SIGINT, SIGALRM}
  /\ pna \in {"down", "up", "cleaned"}
  /\ numPkts \in 0 .. MaxPackets

(***************************************************************************)
(* Every pcap call on pd finds the handle open: main's pcap_close after    *)
(* pcap_loop, sigproc's pcap_close, and print_stats in my_sigalarm.  A     *)
(* handler that interrupts the other, or main after its own pcap_close,    *)
(* would otherwise use a freed pcap_t.                                     *)
(***************************************************************************)
PcapHandleOpenWhenUsed ==
  /\ (MainRuns /\ pc = "close") => pd = "open"
  /\ Running(SIGINT, "close") => pd = "open"
  /\ Running(SIGALRM, "stats") => pd = "open"
=============================================================================
