---------------------------- MODULE MCHotfixClaim ---------------------------
(* HotfixClaim with one claim and a pod or two, and the images that differ   *)
(* from a complete, well labelled one in one thing.                          *)
EXTENDS HotfixClaim

Built(ships, labels, named) == [id |-> 1, ships |-> ships, labels |-> labels, named |-> named]
MCImages == {Built(Item \ {i}, "own", TRUE) : i \in {"git", "interp", "project"}}
            \cup {Built(Item, "own", TRUE), Built(Item, "none", FALSE)}
            \cup {Built(Item, "base", named) : named \in BOOLEAN}
=============================================================================
