------------------------------- MODULE MCFlush -------------------------------
(* IngesterFlush with two series: on one queue, with samples out of order, *)
(* or each on a queue of its own.                                          *)
EXTENDS IngesterFlush, TLC

CONSTANTS fp1, fp2

MCSettings ==
  {[queueOf |-> fp1 :> 0 @@ fp2 :> 0, timestamps |-> {0, 2}],
   [queueOf |-> fp1 :> 0 @@ fp2 :> 1, timestamps |-> {0}]}
====
