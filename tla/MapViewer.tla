------------------------------ MODULE MapViewer ------------------------------
(***************************************************************************)
(* The page www/map-viewer/viewer.js.  It shows the map's image and lets   *)
(* the user select zones and start a cleaning.  It reads ioBroker states   *)
(* over a socket, over HTTP while that is not connected, and follows their *)
(* changes; a poll repeats the reads.  Zone labels, colours, zooming and   *)
(* panning are left out.                                                   *)
(***************************************************************************)
EXTENDS Naturals, Sequences, FiniteSets

CONSTANTS
    Zones,         \* the IDs of the saved zones
    Versions,      \* of an image, from 1 on; a state without an image has version 0
    MaxChanges,    \* bound: states others change, and clicks of the user
    MaxFaults      \* bound: disconnections, failed requests and failed images

ASSUME BoundAssumption == Versions \subseteq Nat \ {0} /\ MaxChanges \in Nat /\ MaxFaults \in Nat

VARIABLES
    states,        \* the ioBroker states
    connected,     \* the socket is open
    subscribed,    \* ... and ioBroker sends it the changes of the states
    requests, answers, changes,  \* on the socket, in order: up; down; down
    asked, fetched,  \* HTTP requests, and their responses, in any order
    view,          \* zoneAreas, availableZoneIds, ... and selectedZoneIds
    refresh, got,  \* where refreshMap is, and what its Promise.all has so far
    toggle, regot, \* where toggleZone is (selectionWritePending), likewise
    start,         \* where the handler of zoneStart is (startWritePending)
    button,        \* zoneStart: whether it is shown, and enabled
    current, pending, preloads,  \* the image shown, the one to come, those loading
    changesLeft, faultsLeft

socketVars == <<connected, subscribed, requests, answers, changes>>
httpVars == <<asked, fetched>>
readerVars == <<refresh, got, toggle, regot, start>>
imageVars == <<current, pending, preloads>>
vars == <<states, socketVars, httpVars, view, readerVars, button, imageVars,
          changesLeft, faultsLeft>>

(* What may be selected: the available zones while the overlays are shown and the       *)
(* capability is present, none otherwise; four states in the code, one here.            *)
Interaction == {"offer", "selected"}
States == [offer : SUBSET Zones, selected : SUBSET Zones,
           svg : Versions \cup {0}, png : Versions \cup {0}]
View == [offer : SUBSET Zones, selected : SUBSET Zones]
Source == [priority : 0..2, version : Versions \cup {0}]
NoSource == [priority |-> 0, version |-> 0]

Request == [by : {"refresh", "toggle", "start", "page", "nobody"},
            id : Interaction \cup {"colour", "svg", "png", "start", "subscribe"},
            zones : SUBSET Zones]
Value == [zones : SUBSET Zones, version : Versions \cup {0}]
Answer == [by : {"refresh", "toggle", "start", "nobody"}, id : STRING, ok : BOOLEAN, value : Value]

valueOf(s, id) ==
    [zones |-> IF id \in Interaction THEN s[id] ELSE {},
     version |-> IF id \in {"svg", "png"} THEN s[id] ELSE 0]

read(r, id) == [by |-> r, id |-> id, zones |-> {}]
Reads(r, ids) == [i \in 1..Len(ids) |-> read(r, ids[i])]
SetOf(s) == {s[i] : i \in 1..Len(s)}

\* What the user may start: the selected zones that are on offer.
validSelectedZoneIds(v) == v.selected \cap v.offer

Init ==
    /\ states \in [offer : {{}, Zones}, selected : {{}}, svg : {0, 1}, png : {0, 1}]
    /\ connected = FALSE /\ subscribed = FALSE
    /\ requests = <<>> /\ answers = <<>> /\ changes = <<>>
    /\ asked = {read("refresh", "colour")} /\ fetched = {}
    /\ view = [offer |-> {}, selected |-> {}]
    /\ refresh = "colour" /\ got = {} /\ toggle = "none" /\ regot = {} /\ start = "none"
    /\ button = [shown |-> FALSE, enabled |-> FALSE]
    /\ current = NoSource /\ pending = NoSource /\ preloads = {}
    /\ changesLeft = MaxChanges /\ faultsLeft = MaxFaults

-----------------------------------------------------------------------------
(* Shared steps *)

\* readState and socketRequest: over the socket if it is connected, else over HTTP.
ask(r, ids) ==
    IF connected
    THEN requests' = requests \o Reads(r, ids) /\ UNCHANGED asked
    ELSE asked' = asked \cup SetOf(Reads(r, ids)) /\ UNCHANGED requests

updateInteractionUi ==
    button' = [shown |-> validSelectedZoneIds(view') # {},
               enabled |-> connected' /\ toggle' = "none" /\ start' = "none"]

\* Mutant: an image of the same priority does not replace the one shown.
setSourceOnlyHigher(s) ==
    IF s.version = 0 \/ s.priority <= current.priority \/ s.priority < pending.priority
    THEN UNCHANGED imageVars
    ELSE pending' = s /\ preloads' = preloads \cup {s} /\ UNCHANGED current

setSource(s) ==
    IF \/ s.version = 0 \/ s \in {current, pending}
       \/ s.priority < current.priority \/ s.priority < pending.priority
    THEN UNCHANGED imageVars
    ELSE pending' = s /\ preloads' = preloads \cup {s} /\ UNCHANGED current

source(id, version) == [priority |-> IF id = "svg" THEN 2 ELSE 1, version |-> version]

-----------------------------------------------------------------------------
(* Reading *)

\* refreshMap goes on once a read has been answered with v: the background colour, the
\* interaction states all at once, and then the images until one is there.
refreshGoesOn(id, v) ==
    \/ /\ refresh = "colour"
       /\ refresh' = "interaction" /\ ask("refresh", <<"offer", "selected">>)
       /\ UNCHANGED <<got, view, button, imageVars>>
    \/ /\ refresh = "interaction" /\ got = {}
       /\ got' = {[id |-> id, zones |-> v.zones]}
       /\ UNCHANGED <<requests, asked, refresh, view, button, imageVars>>
    \/ /\ refresh = "interaction" /\ got # {}
       /\ LET first == CHOOSE g \in got : TRUE IN
           view' = [x \in Interaction |-> IF x = id THEN v.zones ELSE first.zones]
       /\ got' = {} /\ refresh' = "svg" /\ ask("refresh", <<"svg">>)
       /\ updateInteractionUi /\ UNCHANGED imageVars
    \/ /\ refresh = "svg" /\ v.version = 0
       /\ refresh' = "png" /\ ask("refresh", <<"png">>)
       /\ UNCHANGED <<got, view, button, imageVars>>
    \/ /\ refresh = "png" \/ (refresh = "svg" /\ v.version # 0)
       /\ refresh' = "idle" /\ setSource(source(id, v.version))
       /\ UNCHANGED <<requests, asked, got, view, button>>

\* refreshInteraction, called by toggleZone after its write failed.
rereadGoesOn(id, v) ==
    \/ /\ regot = {} /\ regot' = {[id |-> id, zones |-> v.zones]}
       /\ UNCHANGED <<toggle, view, button>>
    \/ /\ regot # {} /\ regot' = {} /\ toggle' = "none"
       /\ LET first == CHOOSE g \in regot : TRUE IN
           view' = [x \in Interaction |-> IF x = id THEN v.zones ELSE first.zones]
       /\ updateInteractionUi

\* Where a read fails nobody waits for the other reads of its Promise.all any more.  Those
\* on the socket keep their place; those over HTTP, in no order, are left out.
Of(a, ms) == {m \in ms : m.by = a.by}
forsaken(a, s) ==
    [i \in 1..Len(s) |-> IF s[i].by = a.by THEN [s[i] EXCEPT !.by = "nobody"] ELSE s[i]]
giveUp(a) == requests' = forsaken(a, requests) /\ asked' = asked \ Of(a, asked)

\* What the function that awaits answer a does with it.

answered(a) ==
    \/ /\ a.by = "refresh" /\ a.ok
       /\ UNCHANGED <<toggle, regot, start>>
       /\ refreshGoesOn(a.id, a.value)
    \/ /\ a.by = "refresh" /\ ~a.ok
       /\ refresh' = "idle" /\ got' = {} /\ giveUp(a)
       /\ UNCHANGED <<view, toggle, regot, start, button, imageVars>>
    \/ /\ a.by = "toggle" /\ toggle = "writing" /\ a.ok
       /\ toggle' = "none"
       /\ UNCHANGED <<requests, asked, view, refresh, got, regot, start, imageVars>>
       /\ updateInteractionUi
    \/ /\ a.by = "toggle" /\ toggle = "writing" /\ ~a.ok
       /\ toggle' = "rereading" /\ ask("toggle", <<"offer", "selected">>)
       /\ UNCHANGED <<view, refresh, got, regot, start, button, imageVars>>
    \/ /\ a.by = "toggle" /\ toggle = "rereading" /\ a.ok
       /\ UNCHANGED <<requests, asked, refresh, got, start, imageVars>>
       /\ rereadGoesOn(a.id, a.value)
    \/ /\ a.by = "toggle" /\ toggle = "rereading" /\ ~a.ok
       /\ toggle' = "none" /\ regot' = {} /\ giveUp(a)
       /\ UNCHANGED <<view, refresh, got, start, imageVars>>
       /\ updateInteractionUi
    \/ /\ a.by = "start" /\ start' = "delay"
       /\ UNCHANGED <<requests, asked, view, refresh, got, toggle, regot, button, imageVars>>
    \/ a.by = "nobody" /\ UNCHANGED <<requests, asked, view, readerVars, button, imageVars>>

AnswerArrives ==
    /\ answers # <<>>
    /\ UNCHANGED <<states, connected, subscribed, changes, changesLeft, faultsLeft>>
    /\ LET a == Head(answers) IN
        /\ answered(a)
        /\ answers' = IF a.ok THEN Tail(answers) ELSE forsaken(a, Tail(answers))
        /\ fetched' = IF a.ok THEN fetched ELSE fetched \ Of(a, fetched)

ResponseArrives(a) ==
    /\ UNCHANGED <<states, connected, subscribed, changes, changesLeft, faultsLeft>>
    /\ answered(a)
    /\ answers' = IF a.ok THEN answers ELSE forsaken(a, answers)
    /\ fetched' = IF a.ok THEN fetched \ {a} ELSE fetched \ Of(a, fetched)

\* The interval timer.
Poll ==
    /\ refresh = "idle" /\ refresh' = "colour" /\ ask("refresh", <<"colour">>)
    /\ UNCHANGED <<states, connected, subscribed, answers, changes, fetched, view, got,
                   toggle, regot, start, button, imageVars, changesLeft, faultsLeft>>

-----------------------------------------------------------------------------
(* The socket *)

subscribe == [by |-> "page", id |-> "subscribe", zones |-> {}]

\* The button is not updated before the states have been read.
Connect ==
    /\ ~connected /\ connected' = TRUE
    /\ IF refresh = "idle"
       THEN refresh' = "colour" /\ requests' = <<subscribe, read("refresh", "colour")>>
       ELSE requests' = <<subscribe>> /\ UNCHANGED refresh
    /\ UNCHANGED <<states, subscribed, answers, changes, httpVars, view, got, toggle, regot,
                   start, button, imageVars, changesLeft, faultsLeft>>

disconnected ==
    /\ connected /\ faultsLeft > 0 /\ faultsLeft' = faultsLeft - 1
    /\ connected' = FALSE /\ subscribed' = FALSE
    /\ requests' = <<>> /\ answers' = <<>> /\ changes' = <<>>
    /\ UNCHANGED <<states, httpVars, view, readerVars, imageVars, changesLeft>>

\* Mutant: the button is left as it is.
disconnectKeepsButton == disconnected /\ UNCHANGED button

\* Whatever was on its way is lost, and no callback tells of it.
Disconnect == disconnected /\ updateInteractionUi

\* The state an event names is taken over.
ChangeArrives ==
    /\ changes # <<>> /\ changes' = Tail(changes)
    /\ UNCHANGED <<states, connected, subscribed, requests, answers, httpVars, readerVars,
                   changesLeft, faultsLeft>>
    /\ LET c == Head(changes) IN
        \/ /\ c.id \in Interaction /\ view' = [view EXCEPT ![c.id] = c.value.zones]
           /\ updateInteractionUi /\ UNCHANGED imageVars
        \/ /\ c.id \notin Interaction /\ setSource(source(c.id, c.value.version))
           /\ UNCHANGED <<view, button>>

-----------------------------------------------------------------------------
(* The user *)

\* A click on the map that hits a zone on offer: toggleZone.  The selection changes at
\* once; without a socket its write fails at once.
toggleZone(z) ==
    /\ z \in view.offer /\ current # NoSource /\ toggle = "none"
    /\ changesLeft > 0 /\ changesLeft' = changesLeft - 1
    /\ LET valid == validSelectedZoneIds(view)
           next == IF z \in valid THEN valid \ {z} ELSE valid \cup {z}
       IN /\ view' = [view EXCEPT !.selected = next]
          /\ IF connected
             THEN /\ toggle' = "writing" /\ UNCHANGED asked
                  /\ requests' = Append(requests, [by |-> "toggle", id |-> "selected",
                                                   zones |-> next])
             ELSE toggle' = "rereading" /\ ask("toggle", <<"offer", "selected">>)
    /\ UNCHANGED <<states, connected, subscribed, answers, changes, fetched, refresh, got,
                   regot, start, imageVars, faultsLeft>>
    /\ updateInteractionUi

\* A click on the start button.
zoneStart ==
    /\ button.shown /\ button.enabled /\ start = "none" /\ validSelectedZoneIds(view) # {}
    /\ changesLeft > 0 /\ changesLeft' = changesLeft - 1
    /\ IF connected
       THEN /\ start' = "writing"
            /\ requests' = Append(requests, [by |-> "start", id |-> "start", zones |-> {}])
       ELSE start' = "delay" /\ UNCHANGED requests
    /\ UNCHANGED <<states, connected, subscribed, answers, changes, httpVars, view, refresh,
                   got, toggle, regot, imageVars, faultsLeft>>
    /\ updateInteractionUi

\* The timer that enables the button again.
StartDelayEnds ==
    /\ start = "delay" /\ start' = "none"
    /\ UNCHANGED <<states, socketVars, httpVars, view, refresh, got, toggle, regot,
                   imageVars, changesLeft, faultsLeft>>
    /\ updateInteractionUi

-----------------------------------------------------------------------------
(* Images *)

\* Mutant: an image is shown whichever is waited for by then.
staleImageShown(s) ==
    /\ s \in preloads /\ preloads' = preloads \ {s}
    /\ current' = s /\ pending' = NoSource
    /\ UNCHANGED <<states, socketVars, httpVars, view, readerVars, button, changesLeft,
                   faultsLeft>>

Preloaded(s) ==
    /\ s \in preloads /\ preloads' = preloads \ {s}
    /\ IF pending = s THEN current' = s /\ pending' = NoSource ELSE UNCHANGED <<current, pending>>
    /\ UNCHANGED <<states, socketVars, httpVars, view, readerVars, button, changesLeft,
                   faultsLeft>>

PreloadFails(s) ==
    /\ s \in preloads /\ preloads' = preloads \ {s}
    /\ faultsLeft > 0 /\ faultsLeft' = faultsLeft - 1
    /\ pending' = IF pending = s THEN NoSource ELSE pending
    /\ UNCHANGED <<states, socketVars, httpVars, view, readerVars, button, current,
                   changesLeft>>

ImageFails ==
    /\ current # NoSource /\ current' = NoSource
    /\ faultsLeft > 0 /\ faultsLeft' = faultsLeft - 1
    /\ UNCHANGED <<states, socketVars, httpVars, view, readerVars, button, pending, preloads,
                   changesLeft>>

-----------------------------------------------------------------------------
(* ioBroker: the socket's server, the HTTP state endpoint, and everyone else *)

change(id) == changes' = IF subscribed
                         THEN Append(changes, [id |-> id, value |-> valueOf(states', id)])
                         ELSE changes

reply(m, ok, s) == [by |-> m.by, id |-> m.id, ok |-> ok, value |-> valueOf(s, m.id)]

Serve ==
    /\ requests # <<>> /\ requests' = Tail(requests)
    /\ LET m == Head(requests) IN
        \/ /\ m.id = "subscribe" /\ subscribed' = TRUE
           /\ UNCHANGED <<states, answers, changes, faultsLeft>>
        \/ /\ m.by = "toggle" /\ toggle = "writing"
           /\ states' = [states EXCEPT !.selected = m.zones] /\ change("selected")
           /\ answers' = Append(answers, reply(m, TRUE, states'))
           /\ UNCHANGED <<subscribed, faultsLeft>>
        \/ /\ m.id # "subscribe" /\ ~(m.by = "toggle" /\ toggle = "writing")
           /\ answers' = Append(answers, reply(m, TRUE, states))
           /\ UNCHANGED <<states, subscribed, changes, faultsLeft>>
        \/ /\ m.id # "subscribe" /\ faultsLeft > 0 /\ faultsLeft' = faultsLeft - 1
           /\ answers' = Append(answers, reply(m, FALSE, states))
           /\ UNCHANGED <<states, subscribed, changes>>
    /\ UNCHANGED <<connected, httpVars, view, readerVars, button, imageVars, changesLeft>>

ServeHttp(m) ==
    /\ asked' = asked \ {m}
    /\ \/ /\ fetched' = fetched \cup {reply(m, TRUE, states)} /\ UNCHANGED faultsLeft
       \/ /\ faultsLeft > 0 /\ faultsLeft' = faultsLeft - 1
          /\ fetched' = fetched \cup {reply(m, FALSE, states)}
    /\ UNCHANGED <<states, socketVars, view, readerVars, button, imageVars, changesLeft>>

\* The adapter publishes a map or its zones, or someone else selects.  An image state is
\* never emptied.
Change(id) ==
    /\ changesLeft > 0 /\ changesLeft' = changesLeft - 1
    /\ states' \in {[states EXCEPT ![id] = new] :
                        new \in IF id \in Interaction THEN SUBSET Zones ELSE Versions}
    /\ states' # states /\ change(id)
    /\ UNCHANGED <<connected, subscribed, requests, answers, httpVars, view, readerVars,
                   button, imageVars, faultsLeft>>

-----------------------------------------------------------------------------
Reading == AnswerArrives \/ (\E a \in fetched : ResponseArrives(a)) \/ Poll
Socket == Connect \/ Disconnect \/ ChangeArrives
User == (\E z \in Zones : toggleZone(z)) \/ zoneStart \/ StartDelayEnds
Images == (\E s \in preloads : Preloaded(s) \/ PreloadFails(s)) \/ ImageFails
Server == Serve \/ (\E m \in asked : ServeHttp(m)) \/ \E id \in DOMAIN states : Change(id)
Next == Reading \/ Socket \/ User \/ Images \/ Server

Spec == Init /\ [][Next]_vars

Readers == {"refresh", "toggle"}

\* ioBroker and the browser serve every request that reaches them; the socket reconnects.
FairSpec ==
    /\ Spec
    /\ WF_vars(AnswerArrives) /\ WF_vars(Poll) /\ WF_vars(Connect) /\ WF_vars(ChangeArrives)
    /\ WF_vars(StartDelayEnds) /\ WF_vars(Serve)
    /\ \A r \in Readers :
        /\ WF_vars(\E a \in fetched : a.by = r /\ ResponseArrives(a))
        /\ WF_vars(\E m \in asked : m.by = r /\ ServeHttp(m))
    /\ \A s \in Source : WF_vars(Preloaded(s))

-----------------------------------------------------------------------------
\* The start action is shown exactly while a selected zone is on offer, and can be pressed
\* only on a connected page none of whose writes is under way: each of the many handlers
\* that change one of these has updated the button.
StartActionInStep ==
    /\ button.shown = (validSelectedZoneIds(view) # {})
    /\ button.enabled => connected /\ toggle = "none" /\ start = "none"

\* docs/decisions/0021-guarded-zone-cleaning.md: a PNG never replaces a loaded SVG, whatever
\* the order of events, reads and loads; only an SVG that cannot be displayed gives way.
NoDowngrade == [][current.priority = 2 => current'.priority # 1]_vars

\* What function r awaits, and what of it can still be answered.
Awaited(r) ==
    CASE r = "refresh" /\ refresh = "interaction" -> Interaction \ {g.id : g \in got}
      [] r = "refresh" /\ refresh \in {"colour", "svg", "png"} -> {refresh}
      [] r = "toggle" /\ toggle = "writing" -> {"selected"}
      [] r = "toggle" /\ toggle = "rereading" -> Interaction \ {g.id : g \in regot}
      [] r = "start" /\ start = "writing" -> {"start"}
      [] OTHER -> {}
UnderWay(r) == {m.id : m \in {n \in SetOf(requests) \cup SetOf(answers) \cup asked \cup fetched :
                                n.by = r}}
AnswerLost == \E r \in Readers \cup {"start"} : ~(Awaited(r) \subseteq UnderWay(r))

Best == IF states.svg # 0 THEN source("svg", states.svg)
        ELSE IF states.png # 0 THEN source("png", states.png) ELSE NoSource

InStep ==
    /\ view.offer = states.offer /\ view.selected = states.selected /\ toggle = "none"
    /\ current = Best

\* A page that loses no answer on its way ends up with what the states say, its own clicks
\* included: whatever a stale read or a late event has overwritten is read again, and the
\* image of an earlier state is replaced.
CatchesUp == [](~AnswerLost) => <>[]InStep
=============================================================================
