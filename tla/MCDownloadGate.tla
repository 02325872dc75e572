--------------------------- MODULE MCDownloadGate ---------------------------
(* Two processes of two threads each share the runtime data directory.    *)
EXTENDS DownloadGate, TLC

CONSTANTS p1, p2, t1, t2

MCProcs == {p1, p2}
MCThreads == {t1, t2}

(* Processes and threads are interchangeable model values.                *)
MCSymmetry == Permutations(MCProcs) \cup Permutations(MCThreads)
=============================================================================
