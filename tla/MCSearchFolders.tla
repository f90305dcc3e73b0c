--------------------------- MODULE MCSearchFolders ---------------------------
(* Criteria that search one of the two folders, and others that search both; *)
(* messages that match and are read or not, and one that does not match.     *)
EXTENDS SearchFolders

CONSTANT Narrow   \* the criteria that search one folder

MCContents == {[hit |-> TRUE, read |-> FALSE], [hit |-> TRUE, read |-> TRUE],
               [hit |-> FALSE, read |-> FALSE]}
MCScope == [q \in Criteria |-> IF q = Narrow THEN {1} ELSE {1, 2}]
===============================================================================
