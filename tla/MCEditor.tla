------------------------------- MODULE MCEditor -------------------------------
(* EpisodeEditor for TLC: a file that drops an episode, one that undoes all *)
(* trims, and one whose ranges lie beyond the episode and are inverted.     *)
EXTENDS EpisodeEditor

Beyond == [e \in {1, 2} |-> IF e = 1 THEN [start |-> -1, end |-> Frames + 1, drop |-> FALSE]
                            ELSE [start |-> Frames + 1, end |-> 1, drop |-> FALSE]]
MCFiles == {[e \in {1} |-> [NoTrim EXCEPT !.drop = TRUE]], Default, Beyond}
=============================================================================
