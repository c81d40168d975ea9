----------------------------- MODULE MCEspFlash -----------------------------
EXTENDS EspFlash, TLC
CONSTANTS t1, t2

\* one task pinned to CPU 0, as app_main is, and one that migrates
MCAffinity == (t1 :> {0}) @@ (t2 :> {0, 1})

\* one block: an erase of it is one command, a write or a read two
MCRegions == {<<0, 1>>}
=============================================================================
