------------------------------- MODULE MCLiveMap -------------------------------
(* LiveMap, and what docs/decisions/0016 says of it, for TLC. *)
EXTENDS LiveMap

status(m, progress, fields, posed) ==
    [mode |-> m, progress |-> progress, fields |-> fields, posed |-> posed]

\* Brief and full statuses of a task from its start to the dock, and one without a task.
MCStatuses == {
    status("sweep", FALSE, 2, TRUE), status("sweep", FALSE, 1, TRUE),
    status("backcharge", FALSE, 1, FALSE), status("charge", FALSE, 1, TRUE),
    status("pause", TRUE, 1, FALSE), status("none", TRUE, 1, TRUE)}

VARIABLES
    received,    \* the number of the last 20002 map
    taskBegan    \* the number of the status that has last cleared the trail

\* A zone task on its way home, its map on show and nothing to do: as after statuses whose
\* mode was sweep and then backcharge.
Returning ==
    /\ \E m \in MapIds :
        /\ mapData = [map |-> m, event |-> 1] /\ latestMapId = m
        /\ catalog = [map |-> m, areas |-> 0]
    /\ setting = 0 /\ selected = TRUE /\ trail = <<>>
    /\ docked = FALSE /\ returning = TRUE /\ active = TRUE /\ inferred \in BOOLEAN
    /\ mode = "backcharge" /\ cloud = TRUE /\ gateway = TRUE
    /\ LET picture == [map |-> 1, zones |-> 0, setting |-> 0, selected |-> TRUE, trail |-> <<>>]
       IN states = [svg |-> picture, png |-> picture, areas |-> picture, setting |-> 0,
                    selected |-> TRUE, activity |-> "returning", other |-> 0]
    /\ inbox = <<>> /\ writes = <<>> /\ running = <<>> /\ events = 1

MCInit == (Init \/ Returning) /\ received = mapData.event /\ taskBegan = 0
MCNext ==
    /\ Next
    /\ received' = IF \E m \in MapIds, drawable \in BOOLEAN : Map(m, drawable) THEN events' ELSE received
    /\ taskBegan' = IF mode' = "sweep" /\ docked /\ ~docked' THEN events' ELSE taskBegan
MCSpec == MCInit /\ [][MCNext]_<<vars, received, taskBegan>>

\* docs/decisions/0016-experimental-live-map-object.md:55-56: the image is "rendered from the
\* latest 20002 occupancy grid".
ImageOfLatestMap == Idle => mapData.event = received

\* docs/decisions/0016-experimental-live-map-object.md:144: "The in-memory pose trail is
\* scoped to the active cleaning task".
TrailOfTask == \A i \in 1..Len(trail) : trail[i] >= taskBegan

\* The poses are joined in the order they were reported in.
TrailInOrder == \A i \in 1..Len(trail) - 1 : trail[i] < trail[i + 1]
=============================================================================
