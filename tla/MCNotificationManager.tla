------------------------ MODULE MCNotificationManager ------------------------
(* All sessions in one group; connections are interchangeable. *)
EXTENDS NotificationRefinement, TLC

MCGroupOf == [s \in Sessions |-> CHOOSE g \in Groups : TRUE]
Symm == Permutations(Conns)
==============================================================================
