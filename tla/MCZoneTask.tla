------------------------------ MODULE MCZoneTask ------------------------------
(* ZoneTask, and what the documentation of the repository says of it, for TLC. *)
EXTENDS ZoneTask, TLC

Symmetric == Permutations(Selections)

\* docs/decisions/0021-guarded-zone-cleaning.md:100-102: "a newer user selection is not
\* mistaken for the completed task".
NewerSelectionKept ==
    [][Clears /\ completionPending => selected = task]_allTaskVars

\* docs/decisions/0021-guarded-zone-cleaning.md:97-101: the adapter "recovers a pending,
\* previously status-confirmed zone-cleaning selection from the persisted command
\* diagnostics" and compares "with the last accepted zone-command execution": a
\* restart takes a selection for one that is being cleaned only if a zone command was
\* accepted since it was made.
RecoveredWasAccepted == [][Restart /\ completionPending' => task # Nothing]_allTaskVars

\* docs/decisions/0021-guarded-zone-cleaning.md:94: "The selected IDs are task-scoped
\* UI state": the selection of an accepted command is cleared by the end of its own
\* task, for which the robot was seen cleaning.
SelectionIsTaskScoped ==
    [][Clears /\ completionPending => activityObserved]_allTaskVars
=============================================================================
