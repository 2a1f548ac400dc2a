----------------------------- MODULE MCPathRouting -----------------------------
(* PathRouting for TLC: every floor of a small map, but for the last column. *)
EXTENDS PathRouting

MCFloors == {f \cup ({Width - 1} \X (0..Height - 1)) : f \in SUBSET ((0..Width - 2) \X (0..Height - 1))}

\* Pairs that are searched in a box inside the map and in one too large, pairs that are too
\* short, and one that is too long, before another pair.
MCTrails == {<< <<0, 1>>, <<2, 1>>, <<2, 2>> >>, << <<0, 0>>, <<2, 2>>, <<2, 0>> >>,
             << <<0, 0>>, <<3, 1>>, <<0, 2>> >>, << <<0, 2>>, <<4, 2>>, <<2, 1>> >>}

\* forEachLinePoint ends at its second point, and moves one pixel at a time.
ASSUME LineAssumption ==
    \A p, q \in Pixels :
        LET line == linePoints(p, q) IN
        /\ Head(line) = p /\ Last(line) = q
        /\ \A n \in 1..Len(line) - 1 : distanceSquared(line[n], line[n + 1]) \in {1, 2}
=============================================================================
