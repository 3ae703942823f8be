------------------------------ MODULE HashMap ------------------------------
(***************************************************************************)
(* The two-choice bucketed hash map of src/module/pna_hashmap.c and the    *)
(* static pool hashmaps[PNA_NHASHMAPS] it is allocated from.               *)
(*                                                                         *)
(* A map has 2 * n_buckets buckets of BKT_SIZE 32-bit slot words; a slot   *)
(* word packs a fingerprint (the bits above kvx_mask) and a pair index     *)
(* (the bits in kvx_mask); a word of 0 is an empty slot.  The pair store   *)
(* holds n_pairs (key, value) records written at next_idx.  Keys and       *)
(* values are small integers: memcpy/memcmp of key_size bytes is equality  *)
(* of the integer, and a zeroed pair holds key 0.  The 128-bit Murmur hash *)
(* is the constant HashOut(key, func) = <<out[0], out[1]>>, masked exactly *)
(* as hashmap_hashit masks it.                                             *)
(*                                                                         *)
(* The map's callers (the monitors) are not in the repository: they are    *)
(* the environment, which creates maps, puts, resets and destroys the maps *)
(* it holds.  hashmap_get changes no state: it is the operator Get, and    *)
(* the invariants evaluate it for every key in every reachable state.      *)
(***************************************************************************)
EXTENDS Integers, Sequences, FiniteSets, FiniteSetsExt, Bitwise

CONSTANTS
    PNA_NHASHMAPS,   \* size of the static pool
    BKT_SIZE,        \* slots per bucket
    PairCounts,      \* n_pairs values callers ask for
    Keys,            \* keys callers put and look up (never 0)
    Vals,            \* values callers store
    HashOut(_, _),   \* HashOut(key, func): the two low words of MurmurHash3
    AllocMayFail,    \* whether vmalloc / vmalloc_user may return NULL
    MaxCreates       \* bound on hashmap_create calls

ASSUME /\ PNA_NHASHMAPS \in Nat \ {0}
       /\ BKT_SIZE \in Nat \ {0}
       /\ AllocMayFail \in BOOLEAN

Maps == 1 .. PNA_NHASHMAPS
Slots == 0 .. BKT_SIZE - 1
NULL == -1                     \* a NULL pointer returned to the caller
NoMem == [x \in {} |-> 0]      \* an unallocated (or freed) array

VARIABLES
    n_pairs,     \* map -> n_pairs field; 0 marks the pool slot free
    n_buckets,   \* map -> n_buckets field
    buckets,     \* map -> bucket index -> slot -> slot word, or NoMem
    pairs,       \* map -> pair index -> [key, val], or NoMem
    next_idx,    \* map -> next_idx field
    users,       \* map -> callers holding the pointer create returned
    puts,        \* map -> <<key, val>> of each successful put since reset
    ncreates,    \* hashmap_create calls so far
    ret          \* the pointer the last call returned (map, pair index)

vars == <<n_pairs, n_buckets, buckets, pairs, next_idx, users, puts,
          ncreates, ret>>

\* The masks hashmap_create derives from n_buckets.
bkt_mask(m) == n_buckets[m] - 1
kvx_mask(m) == 8 * n_buckets[m] - 1

\* out & ~kvx_mask on a 32-bit word: clear the index bits.
FpBits(x, mask) == x - (x & mask)

\* pna_hashmap.c:52-54: double from 4 while 8 * n_buckets <= n_pairs.
RECURSIVE NBuckets(_, _)
NBuckets(nb, np) == IF 8 * nb <= np THEN NBuckets(2 * nb, np) ELSE nb

\* hashmap_hashit: the bucket and fingerprint of key under hash func.
Hashit(m, key, func) ==
    [b  |-> HashOut(key, func)[1] & bkt_mask(m),
     fp |-> FpBits(HashOut(key, func)[2], kvx_mask(m))]

ZeroBuckets(nb) == [b \in 0 .. 2 * nb - 1 |-> [i \in Slots |-> 0]]
ZeroPairs(np) == [x \in 0 .. np - 1 |-> [key |-> 0, val |-> 0]]

(***************************************************************************)
(* hashmap_get: the first slot, in scan order, of bucket b0 and then of    *)
(* bucket b1 + n_buckets whose fingerprint bits equal fp and whose pair    *)
(* holds key; the pair index, or NULL.                                     *)
(***************************************************************************)
SlotHitMutant(m, key, b, fp, i) ==
    FpBits(buckets[m][b][i], kvx_mask(m)) = fp
SlotHit(m, key, b, fp, i) ==
    /\ FpBits(buckets[m][b][i], kvx_mask(m)) = fp
    /\ pairs[m][buckets[m][b][i] & kvx_mask(m)].key = key

ScanBucket(m, key, b, fp) ==
    LET hits == {i \in Slots : SlotHit(m, key, b, fp, i)}
    IN  IF hits = {} THEN NULL ELSE buckets[m][b][Min(hits)] & kvx_mask(m)

Get(m, key) ==
    LET h0 == Hashit(m, key, 0)
        h1 == Hashit(m, key, 1)
        r0 == ScanBucket(m, key, h0.b, h0.fp)
    IN  IF r0 # NULL THEN r0
        ELSE ScanBucket(m, key, h1.b + n_buckets[m], h1.fp)

-----------------------------------------------------------------------------
Init ==
    /\ n_pairs = [m \in Maps |-> 0]
    /\ n_buckets = [m \in Maps |-> 0]
    /\ buckets = [m \in Maps |-> NoMem]
    /\ pairs = [m \in Maps |-> NoMem]
    /\ next_idx = [m \in Maps |-> 0]
    /\ users = [m \in Maps |-> 0]
    /\ puts = [m \in Maps |-> <<>>]
    /\ ncreates = 0
    /\ ret = NULL

(***************************************************************************)
(* hashmap_create (pna_hashmap.c:30-81): take the first pool entry whose   *)
(* n_pairs is 0, fill in its sizes, allocate buckets then pairs (either    *)
(* may fail, returning NULL with the fields already set), reset it.       *)
(***************************************************************************)
Create ==
    /\ ncreates < MaxCreates
    /\ ncreates' = ncreates + 1
    /\ \E np \in PairCounts :
        LET free == {m \in Maps : n_pairs[m] = 0}
            m == Min(free)
            nb == NBuckets(4, np)
        IN  IF free = {}
            THEN /\ ret' = NULL
                 /\ UNCHANGED <<n_pairs, n_buckets, buckets, pairs, next_idx,
                                users, puts>>
            ELSE /\ n_pairs' = [n_pairs EXCEPT ![m] = np]
                 /\ n_buckets' = [n_buckets EXCEPT ![m] = nb]
                 /\ \E bktsOk, pairsOk \in IF AllocMayFail THEN BOOLEAN
                                                           ELSE {TRUE} :
                     \/ /\ ~bktsOk
                        /\ buckets' = [buckets EXCEPT ![m] = NoMem]
                        /\ ret' = NULL
                        /\ UNCHANGED <<pairs, next_idx, users, puts>>
                     \/ /\ bktsOk /\ ~pairsOk
                        /\ buckets' = [buckets EXCEPT ![m] = ZeroBuckets(nb)]
                        /\ pairs' = [pairs EXCEPT ![m] = NoMem]
                        /\ ret' = NULL
                        /\ UNCHANGED <<next_idx, users, puts>>
                     \/ /\ bktsOk /\ pairsOk
                        /\ buckets' = [buckets EXCEPT ![m] = ZeroBuckets(nb)]
                        /\ pairs' = [pairs EXCEPT ![m] = ZeroPairs(np)]
                        /\ next_idx' = [next_idx EXCEPT ![m] = 0]
                        /\ users' = [users EXCEPT ![m] = @ + 1]
                        /\ puts' = [puts EXCEPT ![m] = <<>>]
                        /\ ret' = m

\* hashmap_reset (pna_hashmap.c:105-113), called by a holder of the map.
Reset(m) ==
    /\ users[m] > 0
    /\ buckets' = [buckets EXCEPT ![m] = ZeroBuckets(n_buckets[m])]
    /\ pairs' = [pairs EXCEPT ![m] = ZeroPairs(n_pairs[m])]
    /\ next_idx' = [next_idx EXCEPT ![m] = 0]
    /\ puts' = [puts EXCEPT ![m] = <<>>]
    /\ UNCHANGED <<n_pairs, n_buckets, users, ncreates, ret>>

\* hashmap_destroy (pna_hashmap.c:87-99): reset, free, zero the fields.
Destroy(m) ==
    /\ users[m] > 0
    /\ buckets' = [buckets EXCEPT ![m] = NoMem]
    /\ pairs' = [pairs EXCEPT ![m] = NoMem]
    /\ next_idx' = [next_idx EXCEPT ![m] = 0]
    /\ n_pairs' = [n_pairs EXCEPT ![m] = 0]
    /\ n_buckets' = [n_buckets EXCEPT ![m] = 0]
    /\ users' = [users EXCEPT ![m] = @ - 1]
    /\ puts' = [puts EXCEPT ![m] = <<>>]
    /\ UNCHANGED <<ncreates, ret>>

(***************************************************************************)
(* hashmap_put (pna_hashmap.c:182-231).  The loops leave i0 / i1 at the    *)
(* LAST empty slot of b0 / b1 (0 when there is none).  No check is made    *)
(* for a pair already holding key.                                         *)
(***************************************************************************)
Empties(m, b) == {i \in Slots : buckets[m][b][i] = 0}

LastEmpty(m, b) == IF Empties(m, b) = {} THEN 0 ELSE Max(Empties(m, b))

\* The tie goes to the left half: n0 >= n1 stores in b0.
PreferLeft(n0, n1) == n0 >= n1

PutFullMutant(m) == next_idx[m] > n_pairs[m]
PutFull(m) == next_idx[m] >= n_pairs[m]

Put(m, key, val) ==
    /\ users[m] > 0
    /\ pairs[m] # NoMem
    /\ LET h0 == Hashit(m, key, 0)
           h1 == Hashit(m, key, 1)
           b0 == h0.b
           b1 == h1.b + n_buckets[m]
           n0 == Cardinality(Empties(m, b0))
           n1 == Cardinality(Empties(m, b1))
           idx == next_idx[m]
           word(fp) == fp | (idx & kvx_mask(m))
       IN  \/ /\ PutFull(m)
              /\ ret' = NULL
              /\ UNCHANGED <<buckets, pairs, next_idx, puts>>
           \/ /\ ~PutFull(m)
              /\ n0 + n1 = 0
              /\ ret' = NULL
              /\ UNCHANGED <<buckets, pairs, next_idx, puts>>
           \/ /\ ~PutFull(m)
              /\ n0 + n1 > 0
              /\ next_idx' = [next_idx EXCEPT ![m] = idx + 1]
              /\ pairs' = [pairs EXCEPT ![m][idx] = [key |-> key, val |-> val]]
              /\ buckets' =
                   IF PreferLeft(n0, n1)
                   THEN [buckets EXCEPT ![m][b0][LastEmpty(m, b0)] = word(h0.fp)]
                   ELSE [buckets EXCEPT ![m][b1][LastEmpty(m, b1)] = word(h1.fp)]
              /\ puts' = [puts EXCEPT ![m] = Append(@, <<key, val>>)]
              /\ ret' = idx
    /\ UNCHANGED <<n_pairs, n_buckets, users, ncreates>>

Next ==
    \/ Create
    \/ \E m \in Maps : Reset(m) \/ Destroy(m)
    \/ \E m \in Maps, k \in Keys, v \in Vals : Put(m, k, v)

Spec == Init /\ [][Next]_vars

-----------------------------------------------------------------------------
(***************************************************************************)
(* Properties                                                              *)
(***************************************************************************)
Word == Nat   \* slot words; the model hash keeps them below 2^31

TypeOK ==
    /\ n_pairs \in [Maps -> {0} \cup PairCounts]
    /\ \A m \in Maps :
        /\ next_idx[m] \in 0 .. n_pairs[m]
        /\ buckets[m] = NoMem \/ buckets[m] \in
               [0 .. 2 * n_buckets[m] - 1 -> [Slots -> Word]]
        /\ pairs[m] = NoMem \/ pairs[m] \in
               [0 .. n_pairs[m] - 1 -> [key : {0} \cup Keys, val : {0} \cup Vals]]
    /\ users \in [Maps -> Nat]
    /\ ret \in {NULL} \cup Nat

\* The indices in puts[m] at which key was stored.
PutsOf(m, key) == {i \in DOMAIN puts[m] : puts[m][i][1] = key}

\* Maps a caller holds whose pair store is allocated.
Live == {m \in Maps : users[m] > 0 /\ pairs[m] # NoMem}

(***************************************************************************)
(* Get after put (spec 8.7): while a caller holds a map, hashmap_get of a  *)
(* key never put since the last reset returns NULL, and hashmap_get of a   *)
(* key put at least once returns a pair holding that key and one of the    *)
(* values put for it: later puts of other keys, sharing its buckets and    *)
(* fingerprint, never hide or overwrite it.  hashmap_put never looks for   *)
(* the key, so a key put twice has two pairs; put stores at the last empty *)
(* slot of the emptier bucket and get scans b0 then b1 from slot 0, so     *)
(* which of them get returns depends on the buckets' fill, and only the    *)
(* set of values put is stated.                                            *)
(***************************************************************************)
GetAfterPut ==
    \A m \in Live, k \in Keys :
        LET hits == PutsOf(m, k)
        IN  /\ hits = {} => Get(m, k) = NULL
            /\ hits # {} =>
                 /\ Get(m, k) # NULL
                 /\ pairs[m][Get(m, k)].key = k
                 /\ pairs[m][Get(m, k)].val \in {puts[m][i][2] : i \in hits}

=============================================================================
