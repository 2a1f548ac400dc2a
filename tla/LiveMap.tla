------------------------------- MODULE LiveMap -------------------------------
(***************************************************************************)
(* The live map of src/main.ts: gateway events, connections and writes of  *)
(* the user each start a handler that changes the adapter's memory, writes *)
(* states one after the other and renders the map in between.  ioBroker    *)
(* completes writes in the order they were issued; a handler goes on when  *)
(* its own is complete, so that handlers interleave and overtake.          *)
(***************************************************************************)
EXTENDS Naturals, Sequences, FiniteSets

CONSTANTS
    Statuses,     \* the 20001 statuses of a run: mode, whether it tells of progress since the
                  \* one before, the number of states it writes and whether it has a pose
    MapIds,       \* the maps of the robot
    MaxPoses,     \* MAX_LIVE_MAP_POSES
    MaxEvents,    \* bound: events and writes of the user
    MaxRunning    \* bound: handlers at a time

None == 0
Modes == {"sweep", "backcharge", "charge", "pause", "none"}

ASSUME StatusAssumption ==
    Statuses \subseteq [mode : Modes, progress : BOOLEAN, fields : 1..2, posed : BOOLEAN]
ASSUME MapAssumption == None \notin MapIds
ASSUME BoundAssumption == MaxPoses \in Nat \ {0} /\ MaxEvents \in Nat /\ MaxRunning \in Nat

VARIABLES
    mapData,        \* latestMapData: its map, None if it cannot be drawn, and the number of
                    \* its event
    latestMapId,    \* None before the first map
    catalog,        \* latestMapCoordinateMetadata: its map, and the number of its areas' event
    setting,        \* the colours and switches of map.live
    selected,       \* whether zones are selected
    trail,          \* recentRobotPoses, by the number of their event
    docked, returning, active,  \* the task state
    inferred,       \* cleaningInferredUntilMs is in the future
    mode,           \* of latestRobotStatus
    cloud, gateway, \* cloudConnected, gatewayConnected
    states,         \* the ioBroker states
    inbox,          \* writes of the user the adapter has yet to see
    writes,         \* the adapter's writes that are not complete
    running,        \* of each handler by the number of its event, what it has yet to do
    events          \* events so far

memory == <<mapData, latestMapId, catalog, setting, selected, trail>>
taskVars == <<docked, returning, active, inferred, mode>>
vars == <<memory, taskVars, cloud, gateway, states, inbox, writes, running, events>>

Activities == {"offline", "reconnecting", "online", "cleaning", "paused", "returning", "charging"}
Settings == 0..1
Invalid == 2
Events == 1..MaxEvents
Maps == MapIds \cup {None}
Frame == [map : 0..MaxEvents, zones : 0..MaxEvents, setting : Settings,
          selected : BOOLEAN, trail : Seq(Events)]

write(id, v) == [do |-> "write", id |-> id, value |-> v]
other == write("other", 0)
Do(what) == [do |-> what, map |-> None]
DoMap(what, m) == [do |-> what, map |-> m]

Init ==
    /\ mapData = [map |-> None, event |-> 0] /\ latestMapId = None
    /\ catalog = [map |-> None, areas |-> 0] /\ setting = 0 /\ selected = FALSE /\ trail = <<>>
    /\ docked = FALSE /\ returning = FALSE /\ active = FALSE /\ inferred = FALSE
    /\ mode = "none" /\ cloud = FALSE /\ gateway = FALSE
    /\ LET blank == [map |-> 0, zones |-> 0, setting |-> setting, selected |-> selected,
                     trail |-> <<>>]
       IN states = [svg |-> blank, png |-> blank, areas |-> blank, setting |-> setting,
                    selected |-> selected, activity |-> "offline", other |-> 0]
    /\ inbox = <<>> /\ writes = <<>> /\ running = <<>> /\ events = 0

-----------------------------------------------------------------------------
(* Handlers *)

\* deriveRobotActivity; progress since the status before has set inferred as well.
deriveRobotActivity(c, g, m, cleaning) ==
    CASE ~g -> IF c THEN "reconnecting" ELSE "offline"
      [] g /\ m = "pause" -> "paused"
      [] g /\ m = "backcharge" -> "returning"
      [] g /\ (m = "sweep" \/ (cleaning /\ m \notin {"pause", "backcharge"})) -> "cleaning"
      [] g /\ m = "charge" /\ ~cleaning -> "charging"
      [] OTHER -> "online"

\* An event begins handler e, whose first await is a write.
starts(program) ==
    LET e == events + 1 IN
    /\ events < MaxEvents /\ Cardinality(DOMAIN running) < MaxRunning
    /\ events' = e
    /\ writes' = Append(writes, [by |-> e, write |-> Head(program)])
    /\ running' = [h \in DOMAIN running \cup {e} |-> IF h = e THEN Tail(program) ELSE running[h]]

\* mergeLiveMapCoordinateMetadata20002: the areas of another map are not drawn.
shown(data, c) == IF c.map \in {None, data.map} THEN c.areas ELSE 0

\* What renderLiveMapImage20002 draws from.
frame == [map |-> mapData'.event, zones |-> shown(mapData', catalog'), setting |-> setting,
          selected |-> selected, trail |-> trail']

\* Mutant: the SVG is not written.
pngBeforeSvg(f) == <<write("png", f), write("areas", f)>>

\* projectLatestLiveMapImage and projectLiveMapImage: one snapshot, several writes.
projectLiveMapImage(f) == <<write("svg", f), write("png", f), write("areas", f)>>

push(e) == IF Len(trail) = MaxPoses THEN Append(Tail(trail), e) ELSE Append(trail, e)

\* mergeLiveMapCoordinateMetadataCache with a map, which never brings areas itself.
merged(m) == [map |-> m, areas |-> IF catalog.map \in {None, m} THEN catalog.areas ELSE 0]

\* The oldest write is complete: its handler goes on up to its next write, if it has one.
\* "merge" and "map" take over what a map tells, "pose" adds the pose to the trail; the
\* last two render, as "render" does.  Rendering a map that cannot be decoded yields nothing
\* or throws, and nothing is written then.
WriteCompletes ==
    /\ writes # <<>>
    /\ LET w == Head(writes)
           e == w.by
           i == IF running[e] = <<>> THEN Do("nothing") ELSE Head(running[e])
           rest == IF running[e] = <<>> THEN <<>> ELSE Tail(running[e])
       IN /\ states' = [states EXCEPT ![w.write.id] = w.write.value]
          /\ trail' = IF i.do = "pose" THEN push(e) ELSE trail
          /\ mapData' = IF i.do = "map" THEN [map |-> i.map, event |-> e] ELSE mapData
          /\ IF i.do = "merge" THEN latestMapId' = i.map /\ catalog' = merged(i.map)
                               ELSE UNCHANGED <<latestMapId, catalog>>
          /\ LET todo ==
                   CASE i.do \in {"pose", "map", "render"} ->
                            (IF mapData'.map = None THEN <<>> ELSE projectLiveMapImage(frame)) \o rest
                     [] i.do = "activity" ->
                            <<write("activity", deriveRobotActivity(cloud, gateway, mode, inferred))>>
                            \o rest
                     [] i.do = "write" -> running[e]
                     [] i.do = "merge" -> rest
                     [] OTHER -> <<>>
             IN IF todo = <<>>
                THEN /\ writes' = Tail(writes)
                     /\ running' = [h \in DOMAIN running \ {e} |-> running[h]]
                ELSE /\ writes' = Append(Tail(writes), [by |-> e, write |-> Head(todo)])
                     /\ running' = [running EXCEPT ![e] = Tail(todo)]
    /\ UNCHANGED <<setting, selected, taskVars, cloud, gateway, inbox, events>>

-----------------------------------------------------------------------------
(* Events of the gateway *)

\* Mutant: every sweep clears the trail.
resetTrailAlways(m) == m = "sweep"

\* transitionLiveMapTaskState.
resetTrail(m) == m = "sweep" /\ docked
endsTask(m, cleaning) == m = "charge" /\ (returning \/ (~active /\ ~cleaning))

\* isRecoveredZoneTaskCompleted, of a charging robot that is not inferred to clean; whether
\* such a zone task is pending is left open here.
mayRecover(m, cleaning) == m = "charge" /\ ~cleaning

clearsSelection == <<write("selected", FALSE), Do("render")>>

\* A 20001 status, which writes its fields one by one and may have a pose.  The selection is
\* cleared at the end of a task, recovered or not.
Status(s, recovered) ==
    LET m == s.mode
        cleaning == inferred \/ m = "sweep" \/ s.progress
        ends == endsTask(m, cleaning)
        clears == selected /\ ((ends /\ active) \/ recovered)
    IN /\ recovered => mayRecover(m, cleaning)
       /\ inferred' = cleaning /\ mode' = m
       /\ trail' = IF resetTrail(m) THEN <<>> ELSE trail
       /\ docked' = (m # "sweep" /\ (ends \/ docked))
       /\ returning' = (m = "backcharge" \/ (m # "sweep" /\ ~ends /\ returning))
       /\ active' = (m = "sweep" \/ (~ends /\ active))
       /\ selected' = (selected /\ ~clears)
       /\ starts((IF clears THEN clearsSelection ELSE <<>>)
                 \o [i \in 1..s.fields |-> other] \o <<Do("activity")>>
                 \o (IF s.posed THEN <<Do("pose")>> ELSE <<>>))
    /\ UNCHANGED <<mapData, latestMapId, catalog, setting, cloud, gateway, states, inbox>>

\* The timer that waits for the end of inferred cleaning while the robot charges.
CompletionTimerFires ==
    /\ mayRecover(mode, inferred) /\ selected /\ selected' = FALSE
    /\ starts(clearsSelection)
    /\ UNCHANGED <<mapData, latestMapId, catalog, setting, trail, taskVars, cloud, gateway,
                   states, inbox>>

knownMapId == IF latestMapId = None THEN catalog.map ELSE latestMapId

\* A 20002 map, drawable or not.  If it is another one than known, the areas are gone at
\* once, and what the map tells is taken over only after that is written.
Map(m, drawable) ==
    /\ LET data == DoMap("map", IF drawable THEN m ELSE None)
       IN IF knownMapId \in {None, m}
          THEN latestMapId' = m /\ catalog' = merged(m) /\ starts(<<other, data>>)
          ELSE /\ catalog' = [map |-> None, areas |-> 0] /\ UNCHANGED latestMapId
               /\ starts(<<other, DoMap("merge", m), other, data>>)
    /\ UNCHANGED <<mapData, setting, selected, trail, taskVars, cloud, gateway, states, inbox>>

catalogAccepted(m) ==
    /\ latestMapId \in {None, m} /\ catalog' = [map |-> m, areas |-> events + 1]
    /\ UNCHANGED <<mapData, latestMapId, setting, selected, trail, taskVars, cloud, gateway,
                   states, inbox>>

\* Mutant: a new catalog waits for the next picture.
zonesNotRendered(m) == catalogAccepted(m) /\ starts(<<other>>)

\* A 21004 catalog of map m, accepted if that is the active one.
Zones(m) == catalogAccepted(m) /\ starts(<<other, Do("render")>>)

\* Mutant: the activity is not derived again.
connectionAlone(c, g) ==
    /\ <<c, g>> # <<cloud, gateway>> /\ cloud' = c /\ gateway' = g /\ starts(<<other>>)
    /\ UNCHANGED <<memory, taskVars, states, inbox>>

\* setCloudConnection and setGatewayConnection.
Connection(c, g) ==
    /\ <<c, g>> # <<cloud, gateway>> /\ (c = cloud \/ g = gateway)
    /\ cloud' = c /\ gateway' = g
    /\ starts(<<other, Do("activity")>>)
    /\ UNCHANGED <<memory, taskVars, states, inbox>>

\* CLEANING_ACTIVITY_HOLD_MS after the last sign of cleaning.
InferenceExpires ==
    /\ inferred /\ inferred' = FALSE
    /\ UNCHANGED <<memory, docked, returning, active, mode, cloud, gateway, states, inbox,
                   writes, running, events>>

-----------------------------------------------------------------------------
(* Writes of the user *)

UserSets(id, v) ==
    /\ Len(inbox) + Cardinality(DOMAIN running) < MaxRunning /\ events < MaxEvents
    /\ states' = [states EXCEPT ![id] = v]
    /\ inbox' = Append(inbox, [id |-> id, value |-> v])
    /\ UNCHANGED <<memory, taskVars, cloud, gateway, writes, running, events>>

\* Mutant: a value that is no setting is answered with the default.
invalidResets ==
    /\ inbox # <<>> /\ Head(inbox).id = "setting" /\ inbox' = Tail(inbox)
    /\ IF Head(inbox).value = Invalid
       THEN UNCHANGED setting /\ starts(<<write("setting", 0)>>)
       ELSE setting' = Head(inbox).value
            /\ starts(<<write("setting", setting'), Do("render")>>)
    /\ UNCHANGED <<mapData, latestMapId, catalog, selected, trail, taskVars, cloud, gateway, states>>

\* onStateChange for the colours and switches: a value that is none is written over.
SettingChanges ==
    /\ inbox # <<>> /\ Head(inbox).id = "setting" /\ inbox' = Tail(inbox)
    /\ IF Head(inbox).value = Invalid
       THEN UNCHANGED setting /\ starts(<<write("setting", setting)>>)
       ELSE setting' = Head(inbox).value
            /\ starts(<<write("setting", setting'), Do("render")>>)
    /\ UNCHANGED <<mapData, latestMapId, catalog, selected, trail, taskVars, cloud, gateway, states>>

\* ... and for commands.zones.selectedIds.
SelectionChanges ==
    /\ inbox # <<>> /\ Head(inbox).id = "selected" /\ inbox' = Tail(inbox)
    /\ selected' = Head(inbox).value
    /\ starts(<<write("selected", selected'), Do("render")>>)
    /\ UNCHANGED <<mapData, latestMapId, catalog, setting, trail, taskVars, cloud, gateway, states>>

-----------------------------------------------------------------------------
GatewayEvent ==
    \/ \E s \in Statuses, recovered \in BOOLEAN : Status(s, recovered)
    \/ \E m \in MapIds, drawable \in BOOLEAN : Map(m, drawable)
    \/ \E m \in MapIds : Zones(m)
User == (\E v \in Settings \cup {Invalid} : UserSets("setting", v))
        \/ \E v \in BOOLEAN : UserSets("selected", v)
Next == GatewayEvent \/ (\E c, g \in BOOLEAN : Connection(c, g)) \/ InferenceExpires
        \/ CompletionTimerFires \/ User \/ SettingChanges \/ SelectionChanges \/ WriteCompletes

Spec == Init /\ [][Next]_vars

-----------------------------------------------------------------------------
\* Whether a write of state id is issued, or will be by a handler that renders at present.
Coming(id) ==
    \/ \E i \in 1..Len(writes) : writes[i].write.id = id
    \/ \E e \in DOMAIN running : \E i \in 1..Len(running[e]) :
          running[e][i].do = "write" /\ running[e][i].id = id

\* The SVG, the PNG and the areas, written one by one by handlers that interleave, are of
\* one and the same rendering as soon as no write of them is outstanding.
PicturesAgree ==
    ~Coming("svg") /\ ~Coming("png") /\ ~Coming("areas")
        => states.svg = states.png /\ states.png = states.areas

Idle == running = <<>> /\ inbox = <<>>

\* Once all handlers are done, and if the latest map can be drawn, the picture shows what the
\* adapter knows: no change of the map, the zones, the selection, a setting or the trail is
\* left out or overwritten by an older picture, those included that came while a map could not
\* be drawn, when the picture stays as it was.  Only a trail that has just been cleared may
\* still be shown.
PictureIsCurrent ==
    Idle /\ mapData.map # None =>
        /\ states.svg.map = mapData.event /\ states.svg.zones = shown(mapData, catalog)
        /\ states.svg.setting = setting /\ states.svg.selected = selected
        /\ states.svg.trail = trail \/ trail = <<>>

\* A task that is interrupted, by whatever mode, keeps its trail: no status clears it as
\* long as the task it belongs to is active.
InterruptionKeepsTrail == [][active /\ active' => Len(trail') >= Len(trail)]_vars

\* Once all handlers are done a setting and the selection say what the adapter uses, however
\* writes of the user, answers to them and the end of a task cross.
SettingsAgree == Idle => states.setting = setting /\ states.selected = selected

\* Once all handlers are done status.activity follows from the connections and the latest
\* status, although a handler that was overtaken derives it last.  The end of inferred
\* cleaning alone goes unnoticed until the next event.
ActivityIsCurrent ==
    Idle => \E cleaning \in {inferred, TRUE} :
                states.activity = deriveRobotActivity(cloud, gateway, mode, cleaning)
=============================================================================
