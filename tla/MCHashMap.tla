----------------------------- MODULE MCHashMap -----------------------------
(***************************************************************************)
(* Hash functions for checking HashMap.  Keys 1..3 all hash to bucket 0 of *)
(* the left half, so the left bucket fills and puts spill to the right     *)
(* half; keys 2 and 3 share a left fingerprint, so get must compare keys.  *)
(* The low five bits (kvx_mask for n_buckets = 4) carry junk the mask      *)
(* must clear.                                                             *)
(***************************************************************************)
EXTENDS HashMap

\* <<out[0], out[1]>> for seed func: nonzero fingerprints only.
MCHashOut(k, func) ==
    <<IF func = 0 THEN 0 ELSE k % 2,
      32 * (1 + ((k \div 2 + func) % 2)) + 7 * k>>

\* As MCHashOut, but key 1's left fingerprint is 0 (out[1] < 32).
MCHashOutZeroFp(k, func) ==
    IF k = 1 /\ func = 0 THEN <<0, 5>> ELSE MCHashOut(k, func)
=============================================================================
