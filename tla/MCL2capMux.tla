----------------------------- MODULE MCL2capMux -----------------------------
(* L2capMux with two devices; ids of three channels fit obex_cid, ids of   *)
(* five dest_cid, which wraps at the sixth.                                *)
EXTENDS L2capMux, TLC

CONSTANTS d1, d2

MCSymmetry == Permutations(Device)
=============================================================================
