-------------------------- MODULE MCSessionResources --------------------------
(* Two sessions of one client, with a store (1) and a folder in it (2). *)
EXTENDS SessionResources, TLC

MCGroupOf == [s \in Sessions |-> CHOOSE g \in GroupIds : TRUE]
MCStoreOf == [k \in Keys |-> 1]
MCInterests ==
    {[key |-> 1, mask |-> {"object", "newmail"}],
     [key |-> 2, mask |-> {"object"}], [key |-> 2, mask |-> {"newmail"}]}
Symm == Permutations(Sessions) \cup Permutations(Conns)
===============================================================================
