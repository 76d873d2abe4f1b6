--------------------------- MODULE MCTraceArchive ---------------------------
(***************************************************************************)
(* Small instances of TraceArchive.                                        *)
(***************************************************************************)
EXTENDS TraceArchive, TLC

CONSTANTS t1, t2, t3, t4, t5, t6

MCTraces == {t1, t2, t3, t4, t5, t6}

MCTooLarge == {t6}
MCNoRename == {"emptying", "opening", "writing"}

MCSymmetry == Permutations({t1, t2, t3, t4, t5})

=============================================================================
