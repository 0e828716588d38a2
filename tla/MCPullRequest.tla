--------------------------- MODULE MCPullRequest ----------------------------
(***************************************************************************)
(* Two macros; the lists have the second in one of two files and deleted   *)
(* in the other, or the first in two files, one of which overrides the     *)
(* other.  What people publish is consistent.                              *)
(***************************************************************************)
EXTENDS PullRequest

Live(n, t) == [name |-> n, text |-> t, live |-> TRUE]
Gone(n, t) == [name |-> n, text |-> t, live |-> FALSE]

MCLocals == {<<Live("x", "t")>>,
             <<Live("x", "s"), Live("x", "t")>>,
             <<Live("x", "s"), Gone("y", "t"), Live("y", "s")>>}

Published(x, y) == [manifest |-> [macros |-> [n \in Names |-> IF n = "x" THEN x ELSE y],
                                  stamp  |-> None],
                    files    |-> [n \in Names |-> IF n = "x" THEN x ELSE y]]

MCTrees == {Nothing.tree, Published("t", "s")}

=============================================================================
