--------------------------- MODULE MCServerChoice ---------------------------
(* Three servers, of which two support the second encryption; the lists    *)
(* grow, shrink and lose their first.                                      *)
EXTENDS ServerChoice

MCServers == 1..3
MCEncryptions == {"rsa", "xor"}
MCSupports == [e \in MCEncryptions |-> IF e = "rsa" THEN MCServers ELSE {2, 3}]
MCNodeLists == {{}, {1}, {2, 3}, {1, 2, 3}}
MCHubLists == {{}, {1, 3}, {3}}

\* A choice that was mislaid is the same as none to every property, and no step reads it.
ChoiceView ==
    <<settings, lists, drawn, mislaid, IF mislaid THEN NoChoice ELSE choice, crashed>>
=============================================================================
