---------------------------- MODULE MCQueueIngress ----------------------------
(* An instance of QueueIngress for TLC. *)
EXTENDS QueueIngress

CONSTANTS bad, m1, m2, m3

(* A message that cannot be mapped at the head of the queue and a          *)
(* duplicate; a wake-up that is rejected; three runs at once.              *)
MCSent == {<<bad, m1, m1>>, <<m1, m2, m1>>, <<m2, m1, m3>>}
=============================================================================
