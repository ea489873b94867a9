----------------------- MODULE MCNotificationConsumer -----------------------
(* Instances of NotificationConsumer for TLC.                              *)
EXTENDS NotificationConsumer, TLC

CONSTANTS m1, m2, e1

\* An event and its republication (or the replay of its dead letter).
McRepublished == m1 :> e1 @@ m2 :> e1
McOneMessage == m1 :> e1

McInstancesAndMessages == Permutations(Instances) \cup Permutations(Messages)
=============================================================================
