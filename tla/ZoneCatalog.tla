------------------------------ MODULE ZoneCatalog ------------------------------
(***************************************************************************)
(* The active map, the saved-zone catalog and guarded cleaning of          *)
(* src/main.ts: 20002 events name the map, 21004 events bring a catalog of *)
(* zones and forbidden areas, REST requests ask for one.  One read can be  *)
(* pending; the background refreshes and the running command start it or   *)
(* (the command) join it.  A start, a deep or a zone cleaning is sent only *)
(* after a catalog has been read and checked.  Gateway events are not      *)
(* waited for, so the handler of one may await while the next arrives.     *)
(***************************************************************************)
EXTENDS Naturals

CONSTANTS
    Maps,           \* the maps of the robot
    NoMap,          \* no map: `undefined'
    Refreshers,     \* background refreshes that may be under way at once
    Command,        \* the command that runs; the queue runs one at a time
    MaxChanging     \* bound: handlers of changes to the same map that may await at once

ASSUME CatalogAssumption ==
    NoMap \notin Maps /\ Command \notin Refreshers /\ MaxChanging \in Nat

VARIABLES
    shuttingDown,
    session,       \* a command session is present and enabled
    mapId,         \* latestMapId
    cache,         \* latestMapCoordinateMetadata
    loaded,        \* hasLoadedMapZoneCatalog
    changing,      \* for each new map: the 20002 handlers that await the clearing of the old
    protection,    \* forbiddenZoneProtection
    pending,       \* pendingMapZoneCatalogRead: who holds its promise; {} is `undefined'
    reader,        \* where requestMapZoneCatalog of each reader is
    outcome,       \* what became of the promise the reader holds
    unhandled,     \* a promise was rejected that nobody had awaited yet
    phase, kind,   \* where the guarded command is, and which it is
    received       \* the catalog its read brought

readVars == <<pending, reader, outcome, unhandled>>
mapVars == <<mapId, cache, loaded, changing>>
commandVars == <<phase, kind, received>>
vars == <<shuttingDown, session, mapVars, protection, readVars, commandVars>>

Readers == Refreshers \cup {Command}

\* A catalog, as far as a check can tell two apart: "zone" stands for the selected
\* zones, "forbidden" for the forbidden areas.
Catalog == [map : Maps, area : SUBSET {"zone", "forbidden"}]
NoCatalog == [map |-> NoMap, area |-> {}]

Init ==
    /\ shuttingDown = FALSE /\ session = FALSE /\ protection \in BOOLEAN
    /\ mapId = NoMap /\ cache = NoCatalog /\ loaded = FALSE
    /\ changing = [m \in Maps |-> 0]
    /\ pending = {} /\ unhandled = FALSE
    /\ reader = [r \in Readers |-> "idle"] /\ outcome = [r \in Readers |-> "open"]
    /\ phase = "idle" /\ kind = "none" /\ received = NoCatalog

-----------------------------------------------------------------------------
(* The pending read *)

settle(x) ==
    /\ pending' = {}
    /\ outcome' = [r \in Readers |-> IF r \in pending THEN x ELSE outcome[r]]

\* The reader that opened the read awaits its request first and the promise only
\* then.  Rejected before, the promise has no handler, unless the command joined.
handled == \A r \in Readers : pending = {r} => reader[r] = "awaiting"

rejectPendingMapZoneCatalogRead ==
    settle("rejected") /\ unhandled' = (unhandled \/ ~handled)

\* Mutant: a pending read is replaced instead of joined.
requestReplaces(r) ==
    /\ pending' = {r} /\ reader' = [reader EXCEPT ![r] = "requesting"]
    /\ UNCHANGED <<outcome, unhandled>>

\* Mutant: that there is no timer is not looked at.
requestUntimed(r) ==
    /\ pending' = pending \cup {r}
    /\ reader' = [reader EXCEPT ![r] = IF pending = {} THEN "requesting" ELSE "awaiting"]
    /\ UNCHANGED <<outcome, unhandled>>

\* requestMapZoneCatalog up to its first await.  A stopping adapter gets no timer:
\* the promise is rejected at once and not stored.
requestMapZoneCatalog(r) ==
    \/ /\ pending # {}
       /\ pending' = pending \cup {r} /\ reader' = [reader EXCEPT ![r] = "awaiting"]
       /\ UNCHANGED <<outcome, unhandled>>
    \/ /\ pending = {} /\ reader' = [reader EXCEPT ![r] = "requesting"]
       /\ IF shuttingDown
          THEN /\ outcome' = [outcome EXCEPT ![r] = "rejected"]
               /\ unhandled' = TRUE /\ UNCHANGED pending
          ELSE pending' = {r} /\ UNCHANGED <<outcome, unhandled>>

\* The promise is awaited.  Was it rejected before, the catch is run at once, which
\* rejects the read that another has opened since.
RestAnswered(r) ==
    /\ reader[r] = "requesting" /\ reader' = [reader EXCEPT ![r] = "awaiting"]
    /\ IF outcome[r] = "rejected" THEN rejectPendingMapZoneCatalogRead
                                  ELSE UNCHANGED <<pending, outcome, unhandled>>
    /\ UNCHANGED <<shuttingDown, session, mapVars, protection, commandVars>>

\* The response is cut off after its headers: the promise of request() never settles,
\* and the reader stays where it is, whatever becomes of the read it has opened.
RestHangs(r) ==
    /\ reader[r] = "requesting" /\ reader' = [reader EXCEPT ![r] = "hung"]
    /\ UNCHANGED <<shuttingDown, session, mapVars, protection, pending, outcome,
                   unhandled, commandVars>>

\* The catch of requestMapZoneCatalog rejects whatever read is pending by then, its
\* own or not, and throws the error of the request, whatever its own promise was.
RestFails(r) ==
    /\ reader[r] = "requesting" /\ reader' = [reader EXCEPT ![r] = "awaiting"]
    /\ pending' = {}
    /\ outcome' = [q \in Readers |-> IF q \in pending \cup {r} THEN "rejected"
                                                              ELSE outcome[q]]
    /\ unhandled' = (unhandled \/ (pending # {r} /\ ~handled))
    /\ UNCHANGED <<shuttingDown, session, mapVars, protection, commandVars>>

\* Thirty-five seconds are over, or the gateway closed or fell silent.
ReadTimesOut ==
    /\ pending # {} /\ ~shuttingDown
    /\ rejectPendingMapZoneCatalogRead
    /\ UNCHANGED <<shuttingDown, session, mapVars, protection, reader, commandVars>>

\* refreshMapZoneCatalog; the retry interval may or may not be over.
refreshMapZoneCatalog(f) ==
    /\ reader[f] = "idle" /\ session /\ pending = {}
    /\ requestMapZoneCatalog(f)
    /\ UNCHANGED <<shuttingDown, session, mapVars, protection, commandVars>>

RefreshEnds(f) ==
    /\ reader[f] = "awaiting" /\ outcome[f] # "open"
    /\ reader' = [reader EXCEPT ![f] = "idle"] /\ outcome' = [outcome EXCEPT ![f] = "open"]
    /\ UNCHANGED <<shuttingDown, session, mapVars, protection, pending, unhandled,
                   commandVars>>

-----------------------------------------------------------------------------
(* Gateway events.  A socket opened by an attempt that outlives the unload brings    *)
(* some even then, and a session with which a queued command begins.                *)

\* Mutants: the areas of another map are kept; an event without a map unnames it.
mergedAreas(m) == IF m = NoMap \/ cache.map # NoMap THEN cache
                  ELSE [map |-> m, area |-> cache.area]
mergedUnnamed(m) ==
    [map |-> m, area |-> IF {m, cache.map} \cap {NoMap} # {} \/ m = cache.map
                         THEN cache.area ELSE {}]

\* mergeLiveMapCoordinateMetadataCache with the metadata of a 20002 event.
merged(m) ==
    IF m \in {NoMap, cache.map} THEN cache
    ELSE [map |-> m, area |-> IF cache.map = NoMap THEN cache.area ELSE {}]

\* The handler of 20002 from where the map identifier is stored.
storeMap(m) ==
    /\ mapId' = IF m = NoMap THEN mapId ELSE m
    /\ cache' = merged(m)

knownMapId == IF mapId # NoMap THEN mapId ELSE cache.map

\* A 20002 event; m is its map identifier, if it has one.
MapEvent(m) ==
    /\ IF NoMap \notin {m, knownMapId} /\ m # knownMapId
       THEN /\ cache' = NoCatalog /\ loaded' = FALSE /\ changing[m] < MaxChanging
            /\ changing' = [changing EXCEPT ![m] = @ + 1] /\ UNCHANGED mapId
       ELSE storeMap(m) /\ UNCHANGED <<loaded, changing>>
    /\ UNCHANGED <<shuttingDown, session, protection, readVars, commandVars>>

\* Its states are written, and the handler goes on.
MapChanged(m) ==
    /\ changing[m] > 0 /\ changing' = [changing EXCEPT ![m] = @ - 1] /\ storeMap(m)
    /\ UNCHANGED <<shuttingDown, session, loaded, protection, readVars, commandVars>>

\* A 21004 event that brings a catalog of the active map, or before any is known.
CatalogEvent(c) ==
    /\ mapId \in {NoMap, c.map}
    /\ cache' = c /\ loaded' = TRUE
    /\ settle("resolved") /\ UNCHANGED <<reader, unhandled>>
    /\ received' = IF Command \in pending THEN c ELSE received
    /\ UNCHANGED <<shuttingDown, session, mapId, changing, protection, phase, kind>>

\* One that is malformed or of another map.
BadCatalogEvent ==
    /\ rejectPendingMapZoneCatalogRead
    /\ UNCHANGED <<shuttingDown, session, mapVars, protection, reader, commandVars>>

-----------------------------------------------------------------------------
(* The guarded command *)

\* The session is there; "validating" is written.
Begin(k) ==
    /\ phase = "idle" /\ session
    /\ phase' = "validating" /\ kind' = k
    /\ UNCHANGED <<shuttingDown, session, mapVars, protection, readVars, received>>

ReadCatalog ==
    /\ phase = "validating" /\ phase' = "reading"
    /\ requestMapZoneCatalog(Command)
    /\ UNCHANGED <<shuttingDown, session, mapVars, protection, kind, received>>

\* The read is over; the catch of the command gives up the session of a start, not
\* that of a zone cleaning whose request was not attempted.
CommandRead ==
    /\ phase = "reading" /\ reader[Command] = "awaiting" /\ outcome[Command] # "open"
    /\ reader' = [reader EXCEPT ![Command] = "idle"]
    /\ IF outcome[Command] = "rejected" /\ kind = "start" /\ ~shuttingDown
       THEN /\ session' = FALSE /\ pending' = {}
            /\ outcome' = [r \in Readers |-> IF r = Command THEN "open"
                                             ELSE IF r \in pending THEN "rejected"
                                             ELSE outcome[r]]
            /\ unhandled' = (unhandled \/ ~handled)
       ELSE /\ outcome' = [outcome EXCEPT ![Command] = "open"]
            /\ UNCHANGED <<session, pending, unhandled>>
    /\ IF outcome[Command] = "rejected"
       THEN phase' = "idle" /\ kind' = "none" /\ received' = NoCatalog
       ELSE phase' = "checking" /\ UNCHANGED <<kind, received>>
    /\ UNCHANGED <<shuttingDown, mapVars, protection>>

ensureForbiddenZoneProtection ==
    protection => mapId # NoMap /\ received.map = mapId /\ "forbidden" \in received.area

validateZoneCleaningSelection ==
    kind = "zones" => mapId # NoMap /\ received.map = mapId /\ "zone" \in received.area

\* The diagnostics of the safety check are written, then the checks run and
\* "sending" is written; a check that fails ends the command with the session kept.
Check ==
    /\ phase = "checking"
    /\ IF ensureForbiddenZoneProtection /\ validateZoneCleaningSelection
       THEN phase' = "passed" /\ UNCHANGED <<kind, received>>
       ELSE phase' = "idle" /\ kind' = "none" /\ received' = NoCatalog
    /\ UNCHANGED <<shuttingDown, session, mapVars, protection, readVars>>

Send ==
    /\ phase = "passed"
    /\ phase' = "idle" /\ kind' = "none" /\ received' = NoCatalog
    /\ UNCHANGED <<shuttingDown, session, mapVars, protection, readVars>>

-----------------------------------------------------------------------------
(* The rest of the adapter *)

SessionArrives ==
    /\ ~session /\ session' = TRUE
    /\ UNCHANGED <<shuttingDown, mapVars, protection, readVars, commandVars>>

\* clearCommandSession, by any of its callers.
clearCommandSession ==
    /\ session' = FALSE /\ rejectPendingMapZoneCatalogRead
    /\ UNCHANGED <<shuttingDown, mapVars, protection, reader, commandVars>>

setForbiddenZoneProtection(b) ==
    /\ ~shuttingDown /\ protection' = b
    /\ UNCHANGED <<shuttingDown, session, mapVars, readVars, commandVars>>

\* Mutant: the pending read is left to its timer.
unloadKeepsRead ==
    /\ ~shuttingDown /\ shuttingDown' = TRUE /\ session' = FALSE
    /\ UNCHANGED <<mapVars, protection, readVars, commandVars>>

onUnload ==
    /\ ~shuttingDown /\ shuttingDown' = TRUE /\ session' = FALSE
    /\ rejectPendingMapZoneCatalogRead
    /\ UNCHANGED <<mapVars, protection, reader, commandVars>>

Stopped == shuttingDown /\ UNCHANGED vars

-----------------------------------------------------------------------------
RestEnds(r) == RestAnswered(r) \/ RestFails(r)

Next ==
    \/ \E r \in Readers : RestEnds(r) \/ RestHangs(r)
    \/ \E f \in Refreshers : refreshMapZoneCatalog(f) \/ RefreshEnds(f)
    \/ ReadTimesOut
    \/ (\E m \in Maps \cup {NoMap} : MapEvent(m)) \/ (\E m \in Maps : MapChanged(m))
    \/ (\E c \in Catalog : CatalogEvent(c)) \/ BadCatalogEvent
    \/ (\E k \in {"start", "zones"} : Begin(k))
    \/ ReadCatalog \/ CommandRead \/ Check \/ Send
    \/ SessionArrives \/ clearCommandSession \/ onUnload \/ Stopped
    \/ \E b \in BOOLEAN : setForbiddenZoneProtection(b)

Spec == Init /\ [][Next]_vars

\* A request is answered, refused or ended by its timeout, unless it hangs, which
\* disables RestEnds for good; the timer of a read fires; awaits resume.
Fairness ==
    /\ \A r \in Readers : WF_vars(RestEnds(r))
    /\ \A f \in Refreshers : WF_vars(RefreshEnds(f))
    /\ WF_vars(ReadTimesOut) /\ WF_vars(ReadCatalog) /\ WF_vars(CommandRead)
    /\ WF_vars(Check) /\ WF_vars(Send)

FairSpec == Spec /\ Fairness

-----------------------------------------------------------------------------
TypeOK ==
    /\ shuttingDown \in BOOLEAN /\ session \in BOOLEAN /\ protection \in BOOLEAN
    /\ mapId \in Maps \cup {NoMap} /\ cache \in Catalog \cup {NoCatalog}
    /\ loaded \in BOOLEAN /\ changing \in [Maps -> Nat]
    /\ pending \subseteq Readers /\ unhandled \in BOOLEAN
    /\ reader \in [Readers -> {"idle", "requesting", "awaiting", "hung"}]
    /\ outcome \in [Readers -> {"open", "resolved", "rejected"}]
    /\ phase \in {"idle", "validating", "reading", "checking", "passed"}
    /\ kind \in {"none", "start", "zones"} /\ received \in Catalog \cup {NoCatalog}

\* Whoever waits for a catalog holds the promise of the pending read, whose timer
\* ends it, or of one that is settled: joining, replacing, timing out and rejecting
\* reads in any order leaves nobody with a promise that nothing will settle.
NoReaderLost ==
    \A r \in Readers :
        reader[r] # "idle" /\ outcome[r] = "open" => r \in pending

\* A loaded catalog is one of the active map, although a 20002 handler awaits between
\* forgetting the old map and naming the new one, and 21004 events arrive meanwhile.
CatalogIsOfMap ==
    loaded /\ mapId # NoMap /\ (\A m \in Maps : changing[m] = 0) => cache.map = mapId

\* Every catalog read comes to an end, with a session lost, a catalog that never
\* comes or an unload on the way, unless its own request never settles: whoever has
\* joined the read of another is not held up by the request of that other.
EveryReadEnds == \A r \in Readers : reader[r] # "idle" ~> reader[r] \in {"idle", "hung"}

\* Every guarded command is sent or given up, unless the request of its own catalog
\* read never settles; one that hangs in a background refresh holds up no command.
EveryCommandEnds == phase # "idle" ~> (phase = "idle" \/ reader[Command] = "hung")
=============================================================================
