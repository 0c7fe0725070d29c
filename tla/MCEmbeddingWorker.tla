------------------------- MODULE MCEmbeddingWorker -------------------------
(***************************************************************************)
(* Instances of EmbeddingWorker for TLC.  The last row is the short_term   *)
(* one.                                                                    *)
(***************************************************************************)
EXTENDS EmbeddingWorker

CONSTANTS w1, w2

OneWorker == {w1}
TwoWorkers == {w1, w2}

LastRow == {MaxRows}
=============================================================================
