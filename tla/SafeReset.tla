------------------------------ MODULE SafeReset ------------------------------
(***************************************************************************)
(* What docs/decisions/0017 promises of a consumable reset: a transaction  *)
(* of a read, at most one write that changes the selected counter alone,   *)
(* its echo, and a second read; it is reported as verified only on the     *)
(* strength of all of them, and as already zero on that of the first.      *)
(***************************************************************************)
EXTENDS Naturals, Sequences

CONSTANT Counts    \* the values of a counter

\* The selected counter, and the others, which are only ever compared as a whole.
Snapshot == [target : Counts, rest : Counts]
Event == [type : {21015, 21016}, snap : Snapshot]

zeroed(s) == [s EXCEPT !.target = 0]

VARIABLES
    open,      \* a reset is under way
    seen,      \* the events it has accepted: snapshot, echo, snapshot
    asked,     \* the snapshots it has asked the robot to store: at most one
    result     \* what is reported of the last reset

resetVars == <<open, seen, asked, result>>

Init == open = FALSE /\ seen = <<>> /\ asked = <<>> /\ result = "none"

Begin ==
    /\ ~open /\ open' = TRUE /\ seen' = <<>> /\ asked' = <<>>
    /\ result' = "progress"

\* The echo is accepted after the write, and the second snapshot after a right echo.
Accept(e) ==
    /\ open
    /\ \/ seen = <<>> /\ e.type = 21015
       \/ Len(seen) = 1 /\ asked # <<>> /\ e.type = 21016
       \/ Len(seen) = 2 /\ <<seen[2].snap>> = asked /\ e.type = 21015
    /\ seen' = Append(seen, e)
    /\ UNCHANGED <<open, asked, result>>

Ask ==
    /\ open /\ Len(seen) = 1 /\ asked = <<>> /\ seen[1].snap.target # 0
    /\ asked' = <<zeroed(seen[1].snap)>>
    /\ UNCHANGED <<open, seen, result>>

End(r) ==
    /\ open /\ open' = FALSE /\ seen' = <<>> /\ asked' = <<>>
    /\ \/ r = "failed"
       \/ r = "already-zero" /\ Len(seen) = 1 /\ seen[1].snap.target = 0
       \/ r = "verified" /\ Len(seen) = 3 /\ <<seen[2].snap>> = asked /\ <<seen[3].snap>> = asked
    /\ result' = r

Next == Begin \/ (\E e \in Event : Accept(e)) \/ Ask
        \/ \E r \in {"failed", "already-zero", "verified"} : End(r)

Spec == Init /\ [][Next]_resetVars
=============================================================================
