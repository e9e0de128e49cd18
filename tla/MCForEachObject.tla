--------------------------- MODULE MCForEachObject --------------------------
(* Calls of up to four objects over three workers: there are more objects  *)
(* than workers, so the dispatcher blocks on its send and failures race.   *)
EXTENDS ForEachObject, TLC

CONSTANTS w1, w2, w3
MCWorkers == {w1, w2, w3}
=============================================================================
