---------------------------- MODULE MCFlowTable ----------------------------
(***************************************************************************)
(* Model-checking instance of FlowTable.  Addresses are 3-bit host-order   *)
(* words: with pna_prefix = 4 and pna_mask = 4 the local network is 4..7.  *)
(***************************************************************************)
EXTENDS FlowTable

(* hash_long stands for any mixing function into 0 .. 2^bits-1; this one  *)
(* folds the high bits into the low ones so that distinct keys share home *)
(* slots and probe sequences overlap in the small tables.                 *)
MCHashLong(x, bits) == (x + x \div 4 + x \div 65536) % (2 ^ bits)
=============================================================================
