------------------------------ MODULE ZoneProofs ------------------------------
(***************************************************************************)
(* What the zones of src/main.ts promise: ZoneCatalog, for every set of    *)
(* maps and of refreshes, and ZoneTask, for every set of selections.       *)
(***************************************************************************)
EXTENDS ZoneCatalog, ZoneTask, TLAPS

\* The two truth values, for the provers that do arithmetic.
LEMMA Booleans == \A b : b = FALSE \/ b = TRUE <=> b \in BOOLEAN
BY Zenon

\* Whether a read is rejected, joined or settled, the promises keep their type.
LEMMA ReadType ==
    ASSUME TypeOK
    PROVE  /\ \A x \in {"resolved", "rejected"} :
                settle(x) => /\ pending' \subseteq Readers
                             /\ outcome' \in [Readers -> {"open", "resolved", "rejected"}]
           /\ rejectPendingMapZoneCatalogRead => unhandled' \in BOOLEAN
           /\ \A r \in Readers : requestMapZoneCatalog(r) =>
                 /\ pending' \subseteq Readers /\ unhandled' \in BOOLEAN
                 /\ reader' \in [Readers -> {"idle", "requesting", "awaiting", "hung"}]
                 /\ outcome' \in [Readers -> {"open", "resolved", "rejected"}]
<1>1. ASSUME NEW x \in {"resolved", "rejected"}, settle(x)
      PROVE  /\ pending' \subseteq Readers
             /\ outcome' \in [Readers -> {"open", "resolved", "rejected"}]
  BY <1>1 DEF settle, TypeOK
<1>2. rejectPendingMapZoneCatalogRead => unhandled' \in BOOLEAN
  BY Zenon DEF rejectPendingMapZoneCatalogRead
<1>3. ASSUME NEW r \in Readers, requestMapZoneCatalog(r)
      PROVE  /\ pending' \subseteq Readers /\ unhandled' \in BOOLEAN
             /\ reader' \in [Readers -> {"idle", "requesting", "awaiting", "hung"}]
             /\ outcome' \in [Readers -> {"open", "resolved", "rejected"}]
  BY <1>3, Booleans DEF requestMapZoneCatalog, TypeOK
<1> QED BY <1>1, <1>2, <1>3

\* What a 20002 event leaves in the cache is a catalog of a map, or none.
LEMMA StoredType ==
    ASSUME TypeOK, NEW m \in Maps \cup {NoMap}, storeMap(m)
    PROVE  mapId' \in Maps \cup {NoMap} /\ cache' \in Catalog \cup {NoCatalog}
<1>1. m = NoMap => merged(m) = cache
  BY DEF merged
<1>2. m # NoMap => merged(m) \in Catalog \cup {NoCatalog}
  BY DEF merged, TypeOK, Catalog, NoCatalog
<1> QED BY <1>1, <1>2 DEF storeMap, TypeOK

\* Every step keeps the type of every variable.
THEOREM TypeCorrect == Spec => []TypeOK
<1>1. Init => TypeOK
  BY Booleans DEF Init, TypeOK, NoCatalog
<1>2. TypeOK /\ [Next]_vars => TypeOK'
  <2> SUFFICES ASSUME TypeOK, [Next]_vars PROVE TypeOK'
    OBVIOUS
  <2> USE Booleans DEF TypeOK, readVars, mapVars, commandVars
  <2>1. ASSUME NEW r \in Readers, RestAnswered(r) PROVE TypeOK'
    <3>1. pending' \subseteq Readers /\ unhandled' \in BOOLEAN
          /\ outcome' \in [Readers -> {"open", "resolved", "rejected"}]
      BY <2>1, ReadType DEF RestAnswered, rejectPendingMapZoneCatalogRead
    <3> QED BY <2>1, <3>1 DEF RestAnswered
  <2>2. ASSUME NEW r \in Readers, RestFails(r) PROVE TypeOK'
    <3>1. unhandled' \in BOOLEAN
      BY <2>2, Zenon DEF RestFails
    <3> QED BY <2>2, <3>1 DEF RestFails
  <2>3. ASSUME NEW f \in Refreshers, refreshMapZoneCatalog(f) PROVE TypeOK'
    BY <2>3, ReadType DEF refreshMapZoneCatalog, Readers
  <2>4. ASSUME NEW f \in Refreshers, RefreshEnds(f) PROVE TypeOK'
    BY <2>4 DEF RefreshEnds, Readers
  <2>5. CASE ReadTimesOut
    BY <2>5, ReadType DEF ReadTimesOut, rejectPendingMapZoneCatalogRead
  <2>6. ASSUME NEW m \in Maps \cup {NoMap}, MapEvent(m) PROVE TypeOK'
    <3>1. changing' \in [Maps -> Nat]
      BY <2>6 DEF MapEvent
    <3> QED BY <2>6, <3>1, StoredType DEF MapEvent
  <2>7. ASSUME NEW m \in Maps, MapChanged(m) PROVE TypeOK'
    <3>1. changing' \in [Maps -> Nat]
      BY <2>7 DEF MapChanged
    <3> QED BY <2>7, <3>1, StoredType DEF MapChanged
  <2>8. ASSUME NEW c \in Catalog, CatalogEvent(c) PROVE TypeOK'
    BY <2>8, ReadType DEF CatalogEvent
  <2>9. CASE BadCatalogEvent
    BY <2>9, ReadType DEF BadCatalogEvent, rejectPendingMapZoneCatalogRead
  <2>10. ASSUME NEW k \in {"start", "zones"}, Begin(k) PROVE TypeOK'
    BY <2>10 DEF Begin
  <2>11. CASE ReadCatalog
    BY <2>11, ReadType DEF ReadCatalog, Readers
  <2>12. CASE CommandRead
    <3>1. unhandled' \in BOOLEAN
      BY <2>12, Zenon DEF CommandRead
    <3> QED BY <2>12, <3>1 DEF CommandRead
  <2>13. CASE Check \/ Send
    BY <2>13 DEF Check, Send
  <2>14. CASE SessionArrives
    BY <2>14 DEF SessionArrives
  <2>15. CASE clearCommandSession \/ onUnload
    BY <2>15, ReadType DEF clearCommandSession, onUnload, rejectPendingMapZoneCatalogRead
  <2>16. ASSUME NEW b \in BOOLEAN, setForbiddenZoneProtection(b) PROVE TypeOK'
    BY <2>16 DEF setForbiddenZoneProtection
  <2>17. ASSUME NEW r \in Readers, RestHangs(r) PROVE TypeOK'
    BY <2>17 DEF RestHangs
  <2>18. CASE UNCHANGED vars
    BY <2>18 DEF vars
  <2> QED
    BY <2>1, <2>2, <2>3, <2>4, <2>5, <2>6, <2>7, <2>8, <2>9, <2>10, <2>11, <2>12,
       <2>13, <2>14, <2>15, <2>16, <2>17, <2>18 DEF Next, RestEnds, Stopped
<1> QED BY <1>1, <1>2, PTL DEF Spec

-----------------------------------------------------------------------------
(* Both invariants of the catalog below are inductive together with TypeOK. *)

\* Nobody waits for a promise that nothing will settle: a step that empties the
\* pending read settles the promise of everybody who held it.
THEOREM NobodyIsLost == Spec => []NoReaderLost
<1> USE DEF NoReaderLost, readVars, mapVars, commandVars
<1>1. Init => NoReaderLost
  BY DEF Init
<1>2. TypeOK /\ NoReaderLost /\ [Next]_vars => NoReaderLost'
  <2> SUFFICES ASSUME TypeOK, NoReaderLost, [Next]_vars PROVE NoReaderLost'
    OBVIOUS
  <2>1. ASSUME NEW x \in {"resolved", "rejected"}, settle(x),
               \A q \in Readers : reader'[q] = "idle" <=> reader[q] = "idle"
        PROVE  NoReaderLost'
    BY <2>1 DEF settle, TypeOK
  <2>2. ASSUME NEW r \in Readers, requestMapZoneCatalog(r) PROVE NoReaderLost'
    BY <2>2 DEF requestMapZoneCatalog, TypeOK
  <2>3. CASE UNCHANGED <<pending, reader, outcome>>
    BY <2>3
  <2>4. ASSUME NEW r \in Readers, RestEnds(r) \/ RestHangs(r) PROVE NoReaderLost'
    <3>1. CASE RestAnswered(r)
      <4>1. \A q \in Readers : reader'[q] = "idle" <=> reader[q] = "idle"
        BY <3>1 DEF RestAnswered, TypeOK
      <4>2. CASE outcome[r] = "rejected"
        BY <2>1, <3>1, <4>1, <4>2 DEF RestAnswered, rejectPendingMapZoneCatalogRead
      <4>3. CASE outcome[r] # "rejected"
        BY <3>1, <4>1, <4>3 DEF RestAnswered
      <4> QED BY <4>2, <4>3
    <3>2. CASE RestFails(r) \/ RestHangs(r)
      BY <3>2 DEF RestFails, RestHangs, TypeOK
    <3> QED BY <2>4, <3>1, <3>2 DEF RestEnds
  <2>5. ASSUME NEW f \in Refreshers, refreshMapZoneCatalog(f) \/ RefreshEnds(f)
        PROVE  NoReaderLost'
    BY <2>2, <2>5 DEF refreshMapZoneCatalog, RefreshEnds, TypeOK, Readers
  <2>6. CASE ReadTimesOut \/ BadCatalogEvent \/ clearCommandSession \/ onUnload
    BY <2>1, <2>6 DEF ReadTimesOut, BadCatalogEvent, clearCommandSession, onUnload,
                      rejectPendingMapZoneCatalogRead
  <2>7. ASSUME NEW c, CatalogEvent(c) PROVE NoReaderLost'
    BY <2>1, <2>7 DEF CatalogEvent
  <2>8. CASE ReadCatalog
    BY <2>2, <2>8 DEF ReadCatalog, Readers
  <2>9. CASE CommandRead
    BY <2>9 DEF CommandRead, TypeOK, Readers
  <2>10. ASSUME NEW m, MapEvent(m) \/ MapChanged(m) PROVE NoReaderLost'
    BY <2>3, <2>10 DEF MapEvent, MapChanged
  <2>11. ASSUME NEW k, Begin(k) \/ setForbiddenZoneProtection(k) PROVE NoReaderLost'
    BY <2>3, <2>11 DEF Begin, setForbiddenZoneProtection
  <2>12. CASE Check \/ Send \/ SessionArrives
    BY <2>3, <2>12 DEF Check, Send, SessionArrives
  <2>13. CASE UNCHANGED vars
    BY <2>3, <2>13 DEF vars
  <2> QED
    BY <2>4, <2>5, <2>6, <2>7, <2>8, <2>9, <2>10, <2>11, <2>12, <2>13 DEF Next, Stopped
<1> QED BY <1>1, <1>2, TypeCorrect, PTL DEF Spec

\* A catalog that counts as loaded is one of the active map: an event that brings a
\* catalog, and one that names a map, compare it with the other.
THEOREM LoadedIsOfMap == Spec => []CatalogIsOfMap
<1> USE DEF CatalogIsOfMap, readVars, mapVars, commandVars
<1>1. Init => CatalogIsOfMap
  BY DEF Init
<1>2. TypeOK /\ CatalogIsOfMap /\ [Next]_vars => CatalogIsOfMap'
  <2> SUFFICES ASSUME TypeOK, CatalogIsOfMap, [Next]_vars PROVE CatalogIsOfMap'
    OBVIOUS
  <2>1. CASE UNCHANGED mapVars
    BY <2>1
  <2>2. ASSUME NEW m \in Maps, storeMap(m) PROVE cache'.map = mapId'
    <3>1. m # NoMap
      BY CatalogAssumption DEF CatalogAssumption
    <3> QED BY <2>2, <3>1 DEF storeMap, merged
  <2>3. ASSUME NEW m \in Maps \cup {NoMap}, MapEvent(m) PROVE CatalogIsOfMap'
    <3>1. CASE m = NoMap
      BY <2>3, <3>1 DEF MapEvent, storeMap, merged
    <3>2. CASE m # NoMap
      BY <2>2, <2>3, <3>2 DEF MapEvent
    <3> QED BY <3>1, <3>2
  <2>4. ASSUME NEW m \in Maps, MapChanged(m) PROVE CatalogIsOfMap'
    BY <2>2, <2>4 DEF MapChanged
  <2>5. ASSUME NEW c, CatalogEvent(c) PROVE CatalogIsOfMap'
    BY <2>5 DEF CatalogEvent
  <2>6. ASSUME NEW r, \/ RestEnds(r) \/ RestHangs(r) \/ refreshMapZoneCatalog(r) \/ RefreshEnds(r)
                      \/ Begin(r) \/ setForbiddenZoneProtection(r)
        PROVE  CatalogIsOfMap'
    BY <2>1, <2>6 DEF RestEnds, RestAnswered, RestFails, RestHangs,
                      refreshMapZoneCatalog, RefreshEnds, Begin, setForbiddenZoneProtection
  <2>7. CASE \/ ReadTimesOut \/ BadCatalogEvent \/ ReadCatalog \/ CommandRead \/ Check
             \/ Send \/ SessionArrives \/ clearCommandSession \/ onUnload
    BY <2>1, <2>7 DEF ReadTimesOut, BadCatalogEvent, ReadCatalog, CommandRead, Check,
       Send, SessionArrives, clearCommandSession, onUnload
  <2>8. CASE UNCHANGED vars
    BY <2>1, <2>8 DEF vars
  <2> QED BY <2>3, <2>4, <2>5, <2>6, <2>7, <2>8 DEF Next, Stopped
<1> QED BY <1>1, <1>2, TypeCorrect, PTL DEF Spec

-----------------------------------------------------------------------------
(* The zone task *)

\* The value of a diagnostic after a write: the command that runs, or a constant.
LEMMA DiagnosticsTyped ==
    ASSUME NEW i \in 1..3, NEW c \in {"zoneCleaning", "other"}, WriteDiagnostics(i, c),
           lastCommand \in {"zoneCleaning", "other"},
           lastResult \in {"other", "accepted", "confirmed"}, newer \in BOOLEAN
    PROVE  /\ lastCommand' \in {"zoneCleaning", "other"}
           /\ lastResult' \in {"other", "accepted", "confirmed"}
           /\ newer' \in BOOLEAN
<1>1. lastCommand' = c \/ lastCommand' = lastCommand
  BY DEF WriteDiagnostics
<1>2. lastResult' = "other" \/ lastResult' = lastResult
  BY DEF WriteDiagnostics
<1>3. newer' \in BOOLEAN
  BY Booleans DEF WriteDiagnostics
<1> QED BY <1>1, <1>2, <1>3

\* Every step keeps the type of every variable; activity and a pause are remembered
\* only of a task whose completion is pending, and a command runs exactly while the
\* chain is at one of its steps.
THEOREM TaskTypeCorrect == TaskSpec => []TaskTypeOK
<1>1. TaskInit => TaskTypeOK
  BY SelectionAssumption, Booleans DEF TaskInit, TaskTypeOK
<1>2. TaskTypeOK /\ [TaskNext]_allTaskVars => TaskTypeOK'
  <2> SUFFICES ASSUME TaskTypeOK, [TaskNext]_allTaskVars PROVE TaskTypeOK'
    OBVIOUS
  <2> USE SelectionAssumption, Booleans DEF TaskTypeOK, Modes, pendingVars, taskVars,
        chainVars, persistedVars, forgetPending, Selects
  <2>1. ASSUME NEW s \in Selections \cup {Nothing}, setSelectedZoneIds(s) PROVE TaskTypeOK'
    BY <2>1 DEF setSelectedZoneIds
  <2>2. CASE enqueueZoneCleaning
    <3>1. /\ queued' \in Seq(Selections \cup {Nothing}) /\ Len(queued') \in 0..MaxQueued
      BY <2>2 DEF enqueueZoneCleaning
    <3> QED BY <2>2, <3>1 DEF enqueueZoneCleaning
  <2>3. CASE CommandBegins
    <3>1. /\ queued' \in Seq(Selections \cup {Nothing}) /\ Len(queued') \in 0..MaxQueued
          /\ wanted' \in Selections \cup {Nothing}
      BY <2>3 DEF CommandBegins
    <3>2. running' \in {"zoneCleaning", "other"} /\ step' = "begins"
      BY <2>3 DEF CommandBegins
    <3>3. WriteDiagnostics(1, running')
      BY <2>3 DEF CommandBegins
    <3>4. /\ lastCommand' \in {"zoneCleaning", "other"}
          /\ lastResult' \in {"other", "accepted", "confirmed"} /\ newer' \in BOOLEAN
      BY <3>2, <3>3, DiagnosticsTyped
    <3> QED BY <2>3, <3>1, <3>2, <3>4 DEF CommandBegins
  <2>4. CASE DiagnosticWritten
    <3>1. running \in {"zoneCleaning", "other"} /\ write \in 1..3
      BY <2>4 DEF DiagnosticWritten
    <3>2. WriteDiagnostics(write, running)
      BY <2>4 DEF DiagnosticWritten
    <3>3. /\ lastCommand' \in {"zoneCleaning", "other"}
          /\ lastResult' \in {"other", "accepted", "confirmed"} /\ newer' \in BOOLEAN
      BY <3>1, <3>2, DiagnosticsTyped
    <3>4. /\ step' \in {"none", "begins", "fails", "executing"}
          /\ running' = IF step' = "none" THEN "none" ELSE running
          /\ write' \in 2..3 /\ wanted' \in Selections \cup {Nothing}
      BY <2>4 DEF DiagnosticWritten
    <3> QED BY <2>4, <3>1, <3>3, <3>4 DEF DiagnosticWritten
  <2>5. CASE ExecutionFails
    <3>1. running \in {"zoneCleaning", "other"} /\ WriteDiagnostics(1, running)
      BY <2>5 DEF ExecutionFails
    <3>2. /\ lastCommand' \in {"zoneCleaning", "other"}
          /\ lastResult' \in {"other", "accepted", "confirmed"} /\ newer' \in BOOLEAN
      BY <3>1, DiagnosticsTyped
    <3> QED BY <2>5, <3>2 DEF ExecutionFails
  <2>6. CASE Accepted \/ OtherAccepted
    BY <2>6 DEF Accepted, OtherAccepted
  <2>7. CASE AcceptanceWritten \/ ConfirmationEnds
    BY <2>7 DEF AcceptanceWritten, ConfirmationEnds
  <2>8. CASE Refuse
    <3>1. refusal \in 1..3 /\ refusal' \in 1..3
      BY <2>8 DEF Refuse
    <3>2. PICK i \in 1..3, c \in {"zoneCleaning", "other"} : WriteDiagnostics(i, c)
      BY <2>8, <3>1 DEF Refuse
    <3>3. /\ lastCommand' \in {"zoneCleaning", "other"}
          /\ lastResult' \in {"other", "accepted", "confirmed"} /\ newer' \in BOOLEAN
      BY <3>2, DiagnosticsTyped
    <3> QED BY <2>8, <3>1, <3>3 DEF Refuse
  <2>9. ASSUME NEW m \in Modes, NEW progress \in BOOLEAN, Status(m, progress)
        PROVE  TaskTypeOK'
    <3>1. /\ returning' \in BOOLEAN /\ active' \in BOOLEAN
          /\ mode' \in Modes
      BY <2>9 DEF Status, transitionLiveMapTaskState
    <3>2. /\ inferred' \in BOOLEAN /\ timer' \in BOOLEAN /\ newer' \in BOOLEAN
          /\ activityObserved' \in BOOLEAN /\ paused' \in BOOLEAN
      BY <2>9 DEF Status
    <3>3. /\ selected' \in Selections \cup {Nothing} /\ task' \in Selections \cup {Nothing}
          /\ completionPending' \in BOOLEAN
          /\ activityObserved' \/ paused' => completionPending'
      BY <2>9 DEF Status
    <3>4. UNCHANGED <<chainVars, refusal, lastCommand, lastResult>>
      BY <2>9 DEF Status
    <3> QED BY <3>1, <3>2, <3>3, <3>4
  <2>10. CASE InferenceExpires
    BY <2>10 DEF InferenceExpires
  <2>11. CASE CompletionTimerFires
    BY <2>11 DEF CompletionTimerFires
  <2>12. CASE Restart
    BY <2>12 DEF Restart, shouldRecoverPendingZoneCleaningSelection
  <2>13. CASE UNCHANGED allTaskVars
    BY <2>13 DEF allTaskVars
  <2> QED
    BY <2>1, <2>2, <2>3, <2>4, <2>5, <2>6, <2>7, <2>8, <2>9, <2>10, <2>11, <2>12, <2>13
       DEF TaskNext
<1> QED BY <1>1, <1>2, PTL DEF TaskSpec

-----------------------------------------------------------------------------
(* Each of the invariants of the task below is inductive together with TaskTypeOK. *)

\* What the command chain does besides accepting a zone command.
ChainSteps ==
    \/ enqueueZoneCleaning \/ CommandBegins \/ DiagnosticWritten \/ ExecutionFails
    \/ OtherAccepted \/ AcceptanceWritten \/ ConfirmationEnds \/ Refuse

\* They touch neither the selection nor anything the statuses of the robot decide on.
LEMMA ChainStepsLeave ==
    ASSUME ChainSteps
    PROVE  UNCHANGED <<selected, completionPending, activityObserved, paused, timer,
                       returning, active, inferred, mode>>
BY DEF ChainSteps, enqueueZoneCleaning, CommandBegins, DiagnosticWritten, ExecutionFails,
   OtherAccepted, AcceptanceWritten, ConfirmationEnds, Refuse, pendingVars, taskVars

\* The completion timer is armed exactly when the task it is for can only be waiting
\* for the inference of cleaning to expire.
THEOREM CompletionIsTimed == TaskSpec => []CompletionTimed
<1> USE DEF CompletionTimed, pendingVars, taskVars, chainVars, persistedVars, forgetPending
<1>1. TaskInit => CompletionTimed
  BY DEF TaskInit
<1>2. TaskTypeOK /\ CompletionTimed /\ [TaskNext]_allTaskVars => CompletionTimed'
  <2> SUFFICES ASSUME TaskTypeOK, CompletionTimed, [TaskNext]_allTaskVars
               PROVE  CompletionTimed'
    OBVIOUS
  <2>1. ASSUME NEW s, setSelectedZoneIds(s) PROVE CompletionTimed'
    BY <2>1 DEF setSelectedZoneIds
  <2>2. CASE Accepted
    BY <2>2 DEF Accepted
  <2>3. ASSUME NEW m \in Modes, NEW progress, Status(m, progress) PROVE CompletionTimed'
    BY <2>3 DEF Status, TaskTypeOK, Modes, isRecoveredZoneTaskCompleted
  <2>4. CASE CompletionTimerFires
    BY <2>4 DEF CompletionTimerFires, isRecoveredZoneTaskCompleted
  <2>5. CASE Restart
    BY <2>5 DEF Restart
  <2>6. CASE ChainSteps
    BY <2>6, ChainStepsLeave
  <2>7. CASE InferenceExpires
    BY <2>7 DEF InferenceExpires
  <2>8. CASE UNCHANGED allTaskVars
    BY <2>8 DEF allTaskVars
  <2> QED
    BY <2>1, <2>2, <2>3, <2>4, <2>5, <2>6, <2>7, <2>8 DEF TaskNext, ChainSteps
<1> QED BY <1>1, <1>2, TaskTypeCorrect, PTL DEF TaskSpec

\* Neither the completion timer nor a status clears the selection of a paused task that
\* was not sent home: the timer is not armed then, and a status that arrives during a
\* pause, whatever it says, completes nothing.
THEOREM PausedIsKept == TaskSpec => PausedSelectionKept
<1> DEFINE Kept == Clears /\ paused => returning
<1>1. TaskTypeOK /\ CompletionTimed /\ [TaskNext]_allTaskVars => [Kept]_allTaskVars
  <2> SUFFICES ASSUME TaskTypeOK, CompletionTimed, TaskNext, Clears, paused, ~returning
               PROVE  FALSE
    BY DEF Kept
  <2>1. ASSUME NEW m \in Modes, NEW progress \in BOOLEAN, Status(m, progress) PROVE FALSE
    <3>1. ~completedTask(m)
      BY DEF completedTask
    <3>2. selected' = selected
      BY <2>1, <3>1 DEF Status, isRecoveredZoneTaskCompleted
    <3> QED BY <3>2 DEF Clears
  <2>2. CASE CompletionTimerFires
    BY <2>2 DEF CompletionTimerFires, CompletionTimed
  <2> QED BY <2>1, <2>2 DEF Clears
<1> QED BY <1>1, TaskTypeCorrect, CompletionIsTimed, PTL
           DEF TaskSpec, PausedSelectionKept, Kept
=============================================================================
