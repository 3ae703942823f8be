----------------------------- MODULE FlowTable -----------------------------
(***************************************************************************)
(* The three-level per-CPU flow table of src/module/hooks.c and the        *)
(* netfilter hook nf_ses_watch_hook that drives it.                        *)
(*                                                                         *)
(* Level 1 (lips) is keyed by the local IP, level 2 (rips) by the remote   *)
(* IP under a LIP, level 3 (ports[proto]) by the port pair under a RIP.    *)
(* Every level is an open-address array probed linearly from a hash for at *)
(* most PROBE_LIMIT slots.  The level-2 and level-3 arrays are shared by   *)
(* all parents: a parent owns a child slot when the slot's index is in its *)
(* ownership bitmap (dsts, prts[proto]), modelled as a set of slot indices.*)
(* A zero key (local_ip, remote_ip, or both ports) marks a free slot.      *)
(*                                                                         *)
(* One packet is processed at a time: the table is the current CPU's and   *)
(* the hook runs to completion in softirq context, so the steps of one     *)
(* packet (Receive, DoLipEntry, DoRipEntry, DoPortEntry) never interleave  *)
(* with another packet's on the same table.  pc records which of the three *)
(* table functions the hook calls next.                                    *)
(***************************************************************************)
EXTENDS Integers, FiniteSets, FiniteSetsExt, Bitwise

CONSTANTS
  Addrs,            \* IPv4 addresses (host order) a packet may carry
  Ports,            \* TCP/UDP port numbers a packet may carry
  Lengths,          \* values of ntohs(iphdr->tot_len)
  pna_prefix,       \* module parameters (hooks.c:24-36)
  pna_mask,
  pna_connections,
  pna_sessions,
  pna_ports,
  pna_bytes,
  pna_packets,
  PNA_LIP_BITS,     \* log2 of each level's table size (pna.h)
  PNA_RIP_BITS,
  PNA_PORT_BITS,
  PROBE_LIMIT,      \* hooks.c:19 (128 in the code)
  HashLong(_, _),   \* hash_long(value, bits) of linux/hash.h
  HookReturnsEarly, \* TRUE: the unconditional return at hooks.c:279
  MaxPackets        \* bound: packets delivered to the hook in one behaviour

PNA_LIP_ENTRIES  == 2 ^ PNA_LIP_BITS
PNA_RIP_ENTRIES  == 2 ^ PNA_RIP_BITS
PNA_PORT_ENTRIES == 2 ^ PNA_PORT_BITS

LipSlots  == 0 .. PNA_LIP_ENTRIES - 1
RipSlots  == 0 .. PNA_RIP_ENTRIES - 1
PortSlots == 0 .. PNA_PORT_ENTRIES - 1

\* PROBE_LIMIT may exceed a table's size: the probe then wraps and
\* revisits slots, as the code's loop does.
ASSUME /\ PROBE_LIMIT \in Nat \ {0}
       /\ \A x \in Addrs, b \in {PNA_LIP_BITS, PNA_RIP_BITS, PNA_PORT_BITS} :
             HashLong(x, b) \in 0 .. 2 ^ b - 1

\* Directions and the per-protocol table index (pna.h).
PNA_DIR_INBOUND  == 0
PNA_DIR_OUTBOUND == 1
Dirs             == {PNA_DIR_INBOUND, PNA_DIR_OUTBOUND}
DIRECTIONS       == 2
PNA_PROTO_TCP    == 0
PNA_PROTO_UDP    == 1
Protos           == {PNA_PROTO_TCP, PNA_PROTO_UDP}

\* iphdr->protocol values a packet may carry: TCP, UDP and one other (ICMP).
SOL_TCP   == 6
SOL_UDP   == 17
L4Protos  == {SOL_TCP, SOL_UDP, 1}

NoSlot == -1    \* the NULL returned by a do_*_entry whose probe failed

\* session_action(kind, ip, reason): the alerts raised so far.
PNA_MSG_BLOCK     == "block"
PNA_MSG_WHITELIST == "whitelist"
Reasons == {"connections", "ports", "bytes", "packets", "sessions", "scan"}

VARIABLES
  lips,      \* info->lips[PNA_LIP_ENTRIES]
  rips,      \* info->rips[PNA_RIP_ENTRIES]
  ports,     \* info->ports[proto][PNA_PORT_ENTRIES]
  info,      \* nlips, nrips, nports and the *_missed counters
  alerts,    \* the session_action calls made so far
  pc,        \* "idle" or the table function the hook calls next
  cur,       \* the localized key, length and direction of the packet
  lipSlot,   \* the lip_entry returned to the hook (a slot index)
  ripSlot,   \* the rip_entry returned to the hook
  npackets,  \* packets delivered so far (bounded by MaxPackets)
  seen,      \* history: local IPs of TCP/UDP packets with a local endpoint
  admitted,  \* history: ndsts[OUT] the connections check saw for this packet
  keysOf,    \* history: the keys each slot has been returned for
  raw        \* history: the packet as received, before localization

vars == <<lips, rips, ports, info, alerts, pc, cur, lipSlot, ripSlot,
          npackets, seen, admitted, keysOf, raw>>

ZeroDir   == [d \in Dirs |-> 0]
ZeroDirPr == [d \in Dirs |-> [p \in Protos |-> 0]]

EmptyLip  == [local_ip |-> 0, ndsts |-> ZeroDir, nsess |-> ZeroDir, dsts |-> {}]
EmptyRip  == [remote_ip |-> 0, info_bits |-> {}, nprts |-> ZeroDirPr,
              nbytes |-> ZeroDirPr, npkts |-> ZeroDirPr,
              prts |-> [p \in Protos |-> {}]]
EmptyPort == [local_port |-> 0, remote_port |-> 0, info_bits |-> {},
              nbytes |-> ZeroDir, npkts |-> ZeroDir]
NoPacket  == [local_ip |-> 0, remote_ip |-> 0, proto |-> PNA_PROTO_TCP,
              local_port |-> 0, remote_port |-> 0, len |-> 0,
              direction |-> PNA_DIR_INBOUND]
NoRaw     == [saddr |-> 0, daddr |-> 0, proto |-> PNA_PROTO_TCP, sport |-> 0,
              dport |-> 0, len |-> 0]

\* The first slot within PROBE_LIMIT probes from h (wrapping modulo n) at
\* which Stop holds, or NoSlot: the for-loops of do_*_entry.
Probe(h, n, Stop(_)) ==
  LET hits == {i \in 0 .. PROBE_LIMIT - 1 : Stop((h + i) % n)}
  IN  IF hits = {} THEN NoSlot ELSE (h + Min(hits)) % n

Init ==
  /\ lips   = [s \in LipSlots |-> EmptyLip]
  /\ rips   = [s \in RipSlots |-> EmptyRip]
  /\ ports  = [p \in Protos |-> [s \in PortSlots |-> EmptyPort]]
  /\ info   = [nlips |-> 0, nrips |-> 0, nports |-> 0,
               nlips_missed |-> 0, nrips_missed |-> 0, nports_missed |-> 0]
  /\ alerts = {}
  /\ pc = "idle" /\ cur = NoPacket /\ lipSlot = NoSlot /\ ripSlot = NoSlot
  /\ npackets = 0
  /\ seen = {}
  /\ admitted = -1
  /\ keysOf = [lip |-> [s \in LipSlots |-> {}], rip |-> [s \in RipSlots |-> {}],
               port |-> [p \in Protos |-> [s \in PortSlots |-> {}]]]
  /\ raw = NoRaw

\* A return from the hook: the locals of nf_ses_watch_hook go out of scope.
Return ==
  /\ pc' = "idle" /\ cur' = NoPacket /\ lipSlot' = NoSlot /\ ripSlot' = NoSlot
  /\ admitted' = -1 /\ raw' = NoRaw

Alert(kind, reason) ==
  alerts' = alerts \cup {[kind |-> kind, ip |-> cur.local_ip, reason |-> reason]}

(***************************************************************************)
(* nf_ses_watch_hook up to the first table call (hooks.c:254-420): the L4  *)
(* switch, the localization that assumes the source is local and else     *)
(* swaps, and the check that the chosen local IP is in pna_prefix.  With   *)
(* HookReturnsEarly the hook returns NF_DROP right after its printk and    *)
(* nothing below is reached.                                               *)
(***************************************************************************)
IsLocal(ip) == (ip & pna_mask) = pna_prefix

\* The key, length and direction of hooks.c:314-337: the source is assumed
\* local; otherwise the addresses AND the ports are swapped and the packet
\* is inbound.
LocalizedMutant(saddr, daddr, proto, sport, dport, len) ==
  LET out == IsLocal(saddr)
  IN  [local_ip  |-> IF out THEN saddr ELSE daddr,
       remote_ip |-> IF out THEN daddr ELSE saddr,
       proto     |-> proto, local_port |-> sport, remote_port |-> dport,
       len       |-> len,
       direction |-> IF out THEN PNA_DIR_OUTBOUND ELSE PNA_DIR_INBOUND]
Localized(saddr, daddr, proto, sport, dport, len) ==
  LET out == IsLocal(saddr)
  IN  [local_ip    |-> IF out THEN saddr ELSE daddr,
       remote_ip   |-> IF out THEN daddr ELSE saddr,
       proto       |-> proto,
       local_port  |-> IF out THEN sport ELSE dport,
       remote_port |-> IF out THEN dport ELSE sport,
       len         |-> len,
       direction   |-> IF out THEN PNA_DIR_OUTBOUND ELSE PNA_DIR_INBOUND]

Receive ==
  /\ pc = "idle"
  /\ npackets < MaxPackets
  /\ npackets' = npackets + 1
  /\ \E saddr, daddr \in Addrs, l4 \in L4Protos, sport, dport \in Ports,
        len \in Lengths :
       LET proto == IF l4 = SOL_TCP THEN PNA_PROTO_TCP ELSE PNA_PROTO_UDP
           key   == Localized(saddr, daddr, proto, sport, dport, len)
           taken == l4 \in {SOL_TCP, SOL_UDP} /\ IsLocal(key.local_ip)
       IN  /\ seen' = IF taken THEN seen \cup {key.local_ip} ELSE seen
           /\ IF taken /\ ~HookReturnsEarly
                THEN /\ pc' = "lip" /\ cur' = key
                     /\ raw' = [saddr |-> saddr, daddr |-> daddr, proto |-> proto,
                               sport |-> sport, dport |-> dport, len |-> len]
                ELSE UNCHANGED <<pc, cur, raw>>
  /\ UNCHANGED <<lips, rips, ports, info, alerts, lipSlot, ripSlot, admitted,
                 keysOf>>

-----------------------------------------------------------------------------
(***************************************************************************)
(* The tests the table functions and the hook make, one per idea.  Each    *)
(* validating mutant (the operators named ...Mutant) is defined just       *)
(* before the test it replaces and stands for a plausible slip in it.      *)
(***************************************************************************)

\* The 1 << (direction + DIRECTIONS) first-seen bit of info_bits.
FirstSeenBitMutant(d) == d + DIRECTIONS + 1
FirstSeenBit(d) == d + DIRECTIONS

\* A lookup of an existing entry bumps a per-direction count only when the
\* entry has not yet seen the direction; a claimed entry always bumps it.
SeenBumpMutant(found, bits, d) == TRUE
SeenBump(found, bits, d) == ~found \/ d \notin bits

\* The connections check after do_lip_entry.
ConnectionsExceededMutant(e) == e.ndsts[PNA_DIR_OUTBOUND] > pna_connections
ConnectionsExceeded(e) == e.ndsts[PNA_DIR_OUTBOUND] >= pna_connections

\* do_rip_entry's match: the remote IP AND the LIP's ownership bit.
RipMatch(lip, rip, t) == rips[t].remote_ip = rip /\ t \in lip.dsts

\* do_port_entry's match: the port pair AND the RIP's ownership bit for p.
PortMatchMutant(rip, p, lport, rport, t) ==
  ports[p][t].local_port = lport /\ ports[p][t].remote_port = rport
PortMatch(rip, p, lport, rport, t) ==
  /\ ports[p][t].local_port = lport
  /\ ports[p][t].remote_port = rport
  /\ t \in rip.prts[p]

\* do_port_entry's free test: 0 == (local_port | remote_port).
PortFree(p, t) == ports[p][t].local_port = 0 /\ ports[p][t].remote_port = 0

(***************************************************************************)
(* do_lip_entry (hooks.c:69-104) and the connections check after it        *)
(* (hooks.c:421-432).  A slot matches when it holds the local IP; the      *)
(* match is tested before the free test, so a zero local IP matches a      *)
(* free slot without claiming it.                                          *)
(***************************************************************************)
DoLipEntry ==
  LET ip == cur.local_ip
      s  == Probe(HashLong(ip, PNA_LIP_BITS), PNA_LIP_ENTRIES,
                  LAMBDA t : lips[t].local_ip \in {ip, 0})
      claimed == lips[s].local_ip # ip
      over    == ConnectionsExceeded(lips[s])
  IN
  /\ pc = "lip"
  /\ \/ /\ s = NoSlot
        /\ info' = [info EXCEPT !.nlips_missed = @ + 1]
        /\ Return
        /\ UNCHANGED <<lips, alerts, keysOf>>
     \/ /\ s # NoSlot
        /\ lips' = [lips EXCEPT ![s].local_ip = ip]
        /\ info' = IF claimed THEN [info EXCEPT !.nlips = @ + 1] ELSE info
        /\ keysOf' = [keysOf EXCEPT !.lip[s] = @ \cup {ip}]
        /\ \/ /\ over
              /\ Alert(PNA_MSG_BLOCK, "connections")
              /\ Return
           \/ /\ ~over
              /\ pc' = "rip" /\ lipSlot' = s
              /\ admitted' = lips[s].ndsts[PNA_DIR_OUTBOUND]
              /\ UNCHANGED <<alerts, cur, ripSlot, raw>>
  /\ UNCHANGED <<rips, ports, npackets, seen>>

(* The first of the remote-IP thresholds (hooks.c:442-459) the RIP entry   *)
(* e has reached for protocol p, or "none".                                *)
RipBreach(e, p) ==
  IF e.nprts[PNA_DIR_OUTBOUND][p] >= pna_ports THEN "ports"
  ELSE IF e.nbytes[PNA_DIR_OUTBOUND][p] >= pna_bytes THEN "bytes"
  ELSE IF e.npkts[PNA_DIR_OUTBOUND][p] >= pna_packets THEN "packets"
  ELSE "none"

(***************************************************************************)
(* do_rip_entry (hooks.c:107-164) and the checks after it (hooks.c:435-   *)
(* 459).  A slot matches when it holds the remote IP AND is in the LIP's   *)
(* ownership bitmap; a slot with remote_ip 0 is free and is claimed.       *)
(***************************************************************************)
DoRipEntry ==
  LET lip   == lips[lipSlot]
      rip   == cur.remote_ip
      d     == cur.direction
      Match(t) == RipMatch(lip, rip, t)
      s     == Probe(HashLong(lip.local_ip ^^ rip, PNA_RIP_BITS), PNA_RIP_ENTRIES,
                     LAMBDA t : Match(t) \/ rips[t].remote_ip = 0)
      found == Match(s)
      bump  == SeenBump(found, rips[s].info_bits, d)
      e     == IF found
                 THEN [rips[s] EXCEPT !.info_bits = @ \cup {d}]
                 ELSE [rips[s] EXCEPT !.remote_ip = rip,
                                      !.info_bits = @ \cup {d, FirstSeenBit(d)}]
      breach == RipBreach(e, cur.proto)
  IN
  /\ pc = "rip"
  /\ \/ /\ s = NoSlot
        /\ info' = [info EXCEPT !.nrips_missed = @ + 1]
        /\ Return
        /\ UNCHANGED <<lips, rips, alerts, keysOf>>
     \/ /\ s # NoSlot
        /\ rips' = [rips EXCEPT ![s] = e]
        /\ lips' = [lips EXCEPT
                      ![lipSlot].dsts     = IF found THEN @ ELSE @ \cup {s},
                      ![lipSlot].ndsts[d] = IF bump THEN @ + 1 ELSE @]
        /\ info' = IF found THEN info ELSE [info EXCEPT !.nrips = @ + 1]
        /\ keysOf' = [keysOf EXCEPT !.rip[s] = @ \cup {<<cur.local_ip, rip>>}]
        /\ \/ /\ breach # "none"
              /\ Alert(PNA_MSG_BLOCK, breach)
              /\ Return
           \/ /\ breach = "none"
              /\ pc' = "port" /\ ripSlot' = s
              /\ UNCHANGED <<alerts, cur, lipSlot, admitted, raw>>
  /\ UNCHANGED <<ports, npackets, seen>>

(***************************************************************************)
(* do_port_entry (hooks.c:167-247) and the session checks after it         *)
(* (hooks.c:462-483).  A slot matches when it holds the port pair AND is   *)
(* in the RIP's bitmap for the protocol; a slot whose ports are both 0 is  *)
(* free.  The packet is counted on the RIP and on the port entry; a new    *)
(* port entry is also a new session of the LIP.  The first-seen timestamp  *)
(* (do_gettimeofday) is left out: no property reads it.                    *)
(***************************************************************************)
DoPortEntry ==
  LET rip   == rips[ripSlot]
      p     == cur.proto
      d     == cur.direction
      lport == cur.local_port
      rport == cur.remote_port
      Match(t) == PortMatch(rip, p, lport, rport, t)
      \* (remote_port << 16) | local_port: both are 16-bit, so this is exact
      s     == Probe(HashLong(rip.remote_ip ^^ (rport * 2 ^ 16 + lport), PNA_PORT_BITS),
                     PNA_PORT_ENTRIES, LAMBDA t : Match(t) \/ PortFree(p, t))
      found == Match(s)
      bump  == SeenBump(found, ports[p][s].info_bits, d)
      pe    == [ports[p][s] EXCEPT !.local_port  = lport,
                                   !.remote_port = rport,
                                   !.nbytes[d]   = @ + cur.len,
                                   !.npkts[d]    = @ + 1,
                                   !.info_bits   = IF found THEN @ \cup {d}
                                                   ELSE @ \cup {d, FirstSeenBit(d)}]
      nsess == [lips[lipSlot].nsess EXCEPT ![d] = IF found THEN @ ELSE @ + 1]
  IN
  /\ pc = "port"
  /\ \/ /\ s = NoSlot
        /\ info' = [info EXCEPT !.nports_missed = @ + 1]
        /\ UNCHANGED <<lips, rips, ports, alerts, keysOf>>
     \/ /\ s # NoSlot
        /\ ports' = [ports EXCEPT ![p][s] = pe]
        /\ rips' = [rips EXCEPT
                      ![ripSlot].prts[p]      = IF found THEN @ ELSE @ \cup {s},
                      ![ripSlot].nbytes[d][p] = @ + cur.len,
                      ![ripSlot].npkts[d][p]  = @ + 1,
                      ![ripSlot].nprts[d][p]  = IF bump THEN @ + 1 ELSE @]
        /\ lips' = [lips EXCEPT ![lipSlot].nsess = nsess]
        /\ info' = IF found THEN info ELSE [info EXCEPT !.nports = @ + 1]
        /\ keysOf' = [keysOf EXCEPT !.port[p][s] =
                        @ \cup {<<cur.local_ip, cur.remote_ip, lport, rport>>}]
        /\ \/ /\ nsess[PNA_DIR_OUTBOUND] >= pna_sessions
              /\ Alert(PNA_MSG_BLOCK, "sessions")
           \/ /\ nsess[PNA_DIR_OUTBOUND] < pna_sessions
              /\ nsess[PNA_DIR_INBOUND] >= pna_sessions
              /\ Alert(PNA_MSG_WHITELIST, "scan")
           \/ /\ nsess[PNA_DIR_OUTBOUND] < pna_sessions
              /\ nsess[PNA_DIR_INBOUND] < pna_sessions
              /\ UNCHANGED alerts
  /\ Return
  /\ UNCHANGED <<npackets, seen>>

Next == Receive \/ DoLipEntry \/ DoRipEntry \/ DoPortEntry

Spec == Init /\ [][Next]_vars

-----------------------------------------------------------------------------
(***************************************************************************)
(* Properties.                                                             *)
(***************************************************************************)
Counts == [Dirs -> Nat]
TypeOK ==
  /\ lips  \in [LipSlots -> [local_ip: Addrs \cup {0}, ndsts: Counts,
                             nsess: Counts, dsts: SUBSET RipSlots]]
  /\ rips  \in [RipSlots -> [remote_ip: Addrs \cup {0},
                             info_bits: SUBSET (0 .. 2 * DIRECTIONS - 1),
                             nprts: [Dirs -> [Protos -> Nat]],
                             nbytes: [Dirs -> [Protos -> Nat]],
                             npkts: [Dirs -> [Protos -> Nat]],
                             prts: [Protos -> SUBSET PortSlots]]]
  /\ ports \in [Protos -> [PortSlots -> [local_port: Ports \cup {0},
                             remote_port: Ports \cup {0},
                             info_bits: SUBSET (0 .. 2 * DIRECTIONS - 1),
                             nbytes: Counts, npkts: Counts]]]
  /\ info  \in [{"nlips", "nrips", "nports", "nlips_missed", "nrips_missed",
                 "nports_missed"} -> Nat]
  /\ alerts \subseteq [kind: {PNA_MSG_BLOCK, PNA_MSG_WHITELIST},
                       ip: Addrs, reason: Reasons]
  /\ pc \in {"idle", "lip", "rip", "port"}
  /\ lipSlot \in LipSlots \cup {NoSlot} /\ ripSlot \in RipSlots \cup {NoSlot}
  /\ npackets \in 0 .. MaxPackets
  /\ admitted \in {-1} \cup Nat
  /\ raw \in [saddr : Addrs \cup {0}, daddr : Addrs \cup {0}, proto : Protos,
             sport : Ports \cup {0}, dport : Ports \cup {0},
             len : Lengths \cup {0}]

(* The port slots a RIP slot r owns for protocol p, as (p, q) pairs, and   *)
(* all port slots under a LIP slot l.                                      *)
PortsOfRip(r) == {<<p, q>> \in Protos \X PortSlots : q \in rips[r].prts[p]}
PortsOfLip(l) == UNION {PortsOfRip(r) : r \in lips[l].dsts}

(***************************************************************************)
(* No two keys share an entry: each LIP slot is returned by do_lip_entry   *)
(* for one local IP only, each RIP slot by do_rip_entry for one (local,    *)
(* remote) pair only, and each port slot by do_port_entry for one flow     *)
(* only.  Sharing would add one host's or flow's packets to another's      *)
(* counters.  It rests on the ownership-bitmap test in the match of        *)
(* do_rip_entry/do_port_entry and on zero never being a key.               *)
(***************************************************************************)
EntriesServeOneKey ==
  /\ \A s \in LipSlots : Cardinality(keysOf.lip[s]) <= 1
  /\ \A s \in RipSlots : Cardinality(keysOf.rip[s]) <= 1
  /\ \A p \in Protos, s \in PortSlots : Cardinality(keysOf.port[p][s]) <= 1

(***************************************************************************)
(* The aggregate counters of hooks.c agree with the entries below them:    *)
(* a LIP's ndsts[d] is the number of its RIPs that have seen direction d   *)
(* and nsess[d] the number of its sessions first seen in direction d; a    *)
(* RIP's nprts, npkts and nbytes per direction and protocol are the count  *)
(* and sums over the port entries it owns; nlips, nrips and nports count   *)
(* the entries claimed.  do_rip_entry and do_port_entry update a parent    *)
(* and a child in separate statements guarded by different bits.          *)
(***************************************************************************)
CountersAgree ==
  /\ info.nlips = Quantify(LipSlots, LAMBDA l : lips[l].local_ip # 0)
  /\ info.nrips = MapThenSumSet(LAMBDA l : Cardinality(lips[l].dsts), LipSlots)
  /\ info.nports = MapThenSumSet(LAMBDA r : Cardinality(PortsOfRip(r)), RipSlots)
  /\ \A l \in LipSlots, d \in Dirs :
       /\ lips[l].ndsts[d] = Quantify(lips[l].dsts,
                                      LAMBDA r : d \in rips[r].info_bits)
       /\ lips[l].nsess[d] = Quantify(PortsOfLip(l),
                        LAMBDA pq : d + DIRECTIONS \in ports[pq[1]][pq[2]].info_bits)
  /\ \A r \in RipSlots, d \in Dirs, p \in Protos :
       /\ rips[r].nprts[d][p] = Quantify(rips[r].prts[p],
                                         LAMBDA q : d \in ports[p][q].info_bits)
       /\ rips[r].npkts[d][p] = MapThenSumSet(LAMBDA q : ports[p][q].npkts[d],
                                              rips[r].prts[p])
       /\ rips[r].nbytes[d][p] = MapThenSumSet(LAMBDA q : ports[p][q].nbytes[d],
                                               rips[r].prts[p])

(* Everything counted under LIP slot l: the entry, its RIPs, their ports.  *)
Subtree(l) ==
  <<lips[l], [r \in lips[l].dsts |-> rips[r]],
   [pq \in PortsOfLip(l) |-> ports[pq[1]][pq[2]]]>>

(***************************************************************************)
(* A host that has reached pna_connections outbound remote IPs is blocked  *)
(* for good: the check after do_lip_entry (hooks.c:427) stops every later  *)
(* packet of the host, in either direction, before do_rip_entry, so no     *)
(* step changes any counter of the host, its RIPs or their ports, except   *)
(* the remaining steps of a packet admitted while the host was below the   *)
(* threshold (its do_rip_entry may take the host to it).                   *)
(***************************************************************************)
BlockedHostFrozen ==
  [][\A l \in LipSlots :
       /\ lips[l].ndsts[PNA_DIR_OUTBOUND] >= pna_connections
       /\ ~(lipSlot = l /\ admitted \in 0 .. pna_connections - 1)
       => Subtree(l)' = Subtree(l)]_vars
-----------------------------------------------------------------------------
(***************************************************************************)
(* Refinement of FlowCounters.  The abstract pending packet is the raw     *)
(* packet while the hook is inside the table functions.  The flows counted *)
(* are those the table reaches through its ownership chain: a LIP slot, a  *)
(* RIP slot in its dsts, and a port slot in that RIP's prts[proto] (a      *)
(* claimed port entry has counted its first packet); a flow's counters are *)
(* the sums over the port entries it is reached for.  is_local is          *)
(* pna_localize's test of the configured network.                         *)
(***************************************************************************)
\* pna_main.c:85-86 and 94-95: local_ip & pna_mask against the masked prefix.
InNetwork(ip) == (ip & pna_mask) = (pna_prefix & pna_mask)

\* The flows the table holds: the flow each owned port slot is reached for.
TableFlows ==
  {<<[local_ip |-> lips[l].local_ip, remote_ip |-> rips[r].remote_ip,
      proto |-> p, local_port |-> ports[p][q].local_port,
      remote_port |-> ports[p][q].remote_port], p, q>> :
     <<l, r, p, q>> \in {<<l, r, p, q>> \in LipSlots \X RipSlots \X Protos \X PortSlots :
                           r \in lips[l].dsts /\ q \in rips[r].prts[p]}}

FlowCount(held, f, field, d) ==
  MapThenSumSet(LAMBDA c : ports[c[2]][c[3]][field][d],
                {c \in held : c[1] = f})

Abs == INSTANCE FlowCounters WITH
         Protos <- Protos, Inbound <- PNA_DIR_INBOUND,
         Outbound <- PNA_DIR_OUTBOUND, IsLocal <- InNetwork,
         pending <- IF pc = "idle" THEN {} ELSE {raw},
         counts <- LET held == TableFlows IN
                   [f \in {c[1] : c \in held} |->
                      [npkts  |-> [d \in Dirs |-> FlowCount(held, f, "npkts", d)],
                       nbytes |-> [d \in Dirs |-> FlowCount(held, f, "nbytes", d)]]]

(***************************************************************************)
(* nf_ses_watch_hook with do_lip_entry, do_rip_entry and do_port_entry     *)
(* implements FlowCounters: every packet with a local endpoint is counted  *)
(* once, by its length, in the direction and on the flow the spec's        *)
(* localization gives it, or not at all; no step changes another flow's    *)
(* counters.  It rests on the localization of hooks.c:314-337 (swapping    *)
(* addresses and ports together), on the probe loops returning the one     *)
(* entry of each key, and on the counts of do_port_entry.                  *)
(***************************************************************************)
FlowTableImplementsCounters == Abs!Spec
=============================================================================
