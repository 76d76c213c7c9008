---------------------------- MODULE MCMaResource ----------------------------
(* Two buffers of one file.                                                *)
EXTENDS MaResource

CONSTANTS w1, w2, b1

All(decode, early, fails, wait, workers) ==
  {[workers |-> workers, decode |-> d, wait |-> wait, fails |-> fails, early |-> early] :
     d \in decode}

\* One job thread, the default, with WAIT_INIT or failures; two where nothing
\* is decoded, or where no buffer is given up while it loads
MCConfigs ==
  UNION {All(BOOLEAN, TRUE, FALSE, {b1}, {w1}),
         All({TRUE}, TRUE, TRUE, {}, {w1}),
         All({FALSE}, TRUE, FALSE, {}, {w1, w2}),
         All({TRUE}, FALSE, FALSE, {}, {w1, w2})}

MCTwoThreads == All({TRUE}, TRUE, FALSE, {}, {w1, w2})
===========================================================================
