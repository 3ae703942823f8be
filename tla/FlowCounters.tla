---------------------------- MODULE FlowCounters ----------------------------
(***************************************************************************)
(* What the flow table promises (spec.md 4.2 and 4.3), without tables,     *)
(* slots or bitmaps.  A TCP/UDP packet with a local endpoint is localized: *)
(* when its source is local it is outbound and keeps its addresses and     *)
(* ports, otherwise it is inbound and both are swapped.  The packet is     *)
(* then either counted once, one packet and its length in its direction,   *)
(* on the counters of its flow (local IP, remote IP, protocol, local port, *)
(* remote port), or dropped (a table level is full, or a threshold         *)
(* blocked it).  No other flow's counters change.  FlowTable refines this. *)
(***************************************************************************)
EXTENDS Integers, TLC

CONSTANTS
  Addrs, Ports, Lengths,    \* addresses, ports and lengths packets carry
  Protos,                   \* the per-protocol table indices (TCP, UDP)
  Inbound, Outbound,        \* the two directions
  IsLocal(_)                \* is_local(ip) of spec.md 4.2

Dirs == {Inbound, Outbound}

Packets == [saddr : Addrs, daddr : Addrs, proto : Protos,
            sport : Ports, dport : Ports, len : Lengths]

\* Localize, steps 1 and 2: the direction and the canonical flow.
Direction(p) == IF IsLocal(p.saddr) THEN Outbound ELSE Inbound
FlowOf(p) ==
  IF IsLocal(p.saddr)
    THEN [local_ip |-> p.saddr, remote_ip |-> p.daddr, proto |-> p.proto,
          local_port |-> p.sport, remote_port |-> p.dport]
    ELSE [local_ip |-> p.daddr, remote_ip |-> p.saddr, proto |-> p.proto,
          local_port |-> p.dport, remote_port |-> p.sport]

Zero == [d \in Dirs |-> 0]

VARIABLES
  counts,   \* flow -> [npkts, nbytes] per direction, for the flows counted
  pending   \* {} or the one packet being accounted

vars == <<counts, pending>>

Init ==
  /\ counts = [f \in {} |-> [npkts |-> Zero, nbytes |-> Zero]]
  /\ pending = {}

\* A packet with a local endpoint is taken (step 3 of Localize drops the rest).
Arrive ==
  /\ pending = {}
  /\ \E p \in Packets :
       /\ pending' = {p}
       /\ IsLocal(p.saddr) \/ IsLocal(p.daddr)
  /\ UNCHANGED counts

\* The first packet of a flow adds the flow with its own counts.
Count ==
  /\ \E p \in pending :
       LET f == FlowOf(p)
           d == Direction(p)
       IN  counts' =
             IF f \in DOMAIN counts
               THEN [counts EXCEPT ![f].npkts[d] = @ + 1, ![f].nbytes[d] = @ + p.len]
               ELSE (f :> [npkts  |-> [Zero EXCEPT ![d] = 1],
                           nbytes |-> [Zero EXCEPT ![d] = p.len]]) @@ counts
  /\ pending' = {}

Drop ==
  /\ pending # {}
  /\ pending' = {}
  /\ UNCHANGED counts

Next == Arrive \/ Count \/ Drop

Spec == Init /\ [][Next]_vars

=============================================================================
