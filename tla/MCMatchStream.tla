--------------------------- MODULE MCMatchStream ---------------------------
(* Small instances of MatchStream. *)
EXTENDS MatchStream, TLC

CONSTANTS merged, plain, s1, s2

(* A join of the two branches of an if-else with the stream beside them. *)
MCPortOrder == <<merged, plain>>
MCBranches == merged :> 2 @@ plain :> 1
MCLength == s1 :> 3 @@ s2 :> 1

(* A NORMAL node, a STREAM node and one that collapses whole streams. *)
MCModes == {[order |-> FALSE, gather |-> FALSE],
            [order |-> TRUE, gather |-> FALSE],
            [order |-> TRUE, gather |-> TRUE]}
=============================================================================
