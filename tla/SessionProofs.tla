--------------------------- MODULE SessionProofs ---------------------------
(* What Session promises, for every value of its constants. *)
EXTENDS Session, TLAPS

\* The counter of the backoff stays a number of one of the delays.
LEMMA SuccType ==
    ASSUME NEW n \in 0..LongestDelay
    PROVE  Succ(n) \in 0..LongestDelay
BY SMT, SessionAssumption DEF SessionAssumption, Succ

\* The two truth values, for the provers that do arithmetic.
LEMMA Booleans == \A b : b = FALSE \/ b = TRUE <=> b \in BOOLEAN
BY Zenon

\* Every step keeps the type of every variable.
THEOREM TypeCorrect == Spec => []TypeOK
<1>1. Init => TypeOK
  BY SessionAssumption, Booleans DEF SessionAssumption, Init, TypeOK, AttemptStates
<1>2. TypeOK /\ [Next]_vars => TypeOK'
  <2> SUFFICES ASSUME TypeOK, [Next]_vars PROVE TypeOK'
    OBVIOUS
  <2> USE SessionAssumption, Booleans DEF SessionAssumption, TypeOK, AttemptStates,
        Requests, Writes, SessionParts, lifeVars, timerVars, socketVars
  <2>1. ASSUME NEW n \in 0..LongestDelay, scheduleFullReconnect(n)
        PROVE  reconnectTimer' \in {"none", "full", "socket"}
               /\ reconnectAttempt' \in 0..LongestDelay
    BY <2>1, SuccType DEF scheduleFullReconnect
  <2>2. ASSUME NEW n \in 0..LongestDelay, scheduleGatewaySocketReconnect(n)
        PROVE  /\ reconnectTimer' \in {"none", "full", "socket"}
               /\ reconnectAttempt' \in 0..LongestDelay
               /\ session' \subseteq SessionParts
    BY <2>1, <2>2 DEF scheduleGatewaySocketReconnect, clearCommandSession
  <2>3. connectReadOnlyGateway
        => reconnectTimer' \in {"none", "full", "socket"} /\ attempt' \in AttemptStates
    BY DEF connectReadOnlyGateway
  <2>4. CASE Ready
    BY <2>3, <2>4 DEF Ready
  <2>5. CASE LoginSucceeds
    BY <2>5 DEF LoginSucceeds
  <2>6. CASE ListDevicesEnds \/ DeviceProjected \/ RequestGateway \/ FailureRecorded
             \/ CloudMarkedDown
    BY <2>6 DEF ListDevicesEnds, DeviceProjected, RequestGateway, FailureRecorded,
                CloudMarkedDown
  <2>7. CASE DeviceSelected
    BY <2>7 DEF DeviceSelected
  <2>8. CASE AttemptSucceeds
    BY <2>8 DEF AttemptSucceeds, connectGatewaySocket
  <2>9. CASE AttemptFails
    BY <2>9 DEF AttemptFails, clearCommandSession
  <2>10. CASE AttemptEnds
    BY <2>1, <2>10 DEF AttemptEnds
  <2>11. CASE ResponseTruncated
    BY <2>11 DEF ResponseTruncated
  <2>12. CASE FullTimerFires
    BY <2>3, <2>12 DEF FullTimerFires
  <2>13. CASE SocketTimerFires
    BY <2>3, <2>13 DEF SocketTimerFires, connectGatewaySocket, clearCommandSession
  <2>14. CASE SocketConnects \/ SocketEvent \/ TimePasses
    BY <2>14 DEF SocketConnects, SocketEvent, TimePasses
  <2>15. CASE SocketCloses
    <3>1. PICK n \in 0..LongestDelay : scheduleGatewaySocketReconnect(n)
      BY <2>15 DEF SocketCloses
    <3> QED BY <2>2, <2>15, <3>1 DEF SocketCloses
  <2>16. CASE IdleFound \/ IdleRecorded
    BY <2>16 DEF IdleFound, IdleRecorded
  <2>17. CASE IdleReconnects
    BY <2>2, <2>17 DEF IdleReconnects
  <2>18. CASE StartCommand \/ SessionArrives \/ CommandEnds
    BY <2>18 DEF StartCommand, SessionArrives, CommandEnds
  <2>19. CASE ExpediteReconnect
    BY <2>3, <2>19 DEF ExpediteReconnect
  <2>20. CASE CommandFails
    BY <2>3, <2>20 DEF CommandFails, recoverCommandSessionAfterFailure, clearCommandSession
  <2>21. CASE onUnload
    BY <2>21 DEF onUnload, clearCommandSession
  <2>22. CASE UNCHANGED vars
    BY <2>22 DEF vars
  <2> QED
    BY <2>4, <2>5, <2>6, <2>7, <2>8, <2>9, <2>10, <2>11, <2>12, <2>13, <2>14, <2>15,
       <2>16, <2>17, <2>18, <2>19, <2>20, <2>21, <2>22
       DEF Next, Attempt, Timer, Watchdog, Command, Stopped
<1> QED BY <1>1, <1>2, PTL DEF Spec

-----------------------------------------------------------------------------
(* Each of the four invariants below is inductive together with TypeOK.  The *)
(* steps are grouped by what they leave alone.                               *)

\* A configured adapter that is not stopping has an attempt, an armed timer or a
\* socket: every early return of the scheduling functions is justified by one of them.
THEOREM NoStranding == Spec => []NeverStranded
<1> USE DEF NeverStranded, reconnectInProgress, lifeVars, timerVars, socketVars
<1>1. Init => NeverStranded
  BY DEF Init
<1>2. TypeOK /\ NeverStranded /\ [Next]_vars => NeverStranded'
  <2> SUFFICES ASSUME TypeOK, NeverStranded, [Next]_vars,
                      configured', ~shuttingDown'
               PROVE  \/ attempt' = "starting" \/ reconnectInProgress'
                      \/ reconnectTimer' # "none" \/ socket' \in {"connecting", "open"}
    OBVIOUS
  \* What scheduling and connecting achieve, whichever branch they take.
  <2>1. ASSUME NEW n, scheduleFullReconnect(n), ~shuttingDown PROVE reconnectTimer' # "none"
    BY <2>1 DEF scheduleFullReconnect
  <2>2. ASSUME NEW n, scheduleGatewaySocketReconnect(n), ~shuttingDown
        PROVE  reconnectTimer' # "none"
    BY <2>1, <2>2 DEF scheduleGatewaySocketReconnect
  <2>3. connectReadOnlyGateway /\ ~shuttingDown => reconnectInProgress'
    BY DEF connectReadOnlyGateway
  <2>4. CASE Ready
    BY <2>3, <2>4 DEF Ready
  <2>5. CASE LoginSucceeds \/ ListDevicesEnds \/ DeviceProjected \/ DeviceSelected
             \/ RequestGateway \/ AttemptFails \/ FailureRecorded \/ CloudMarkedDown
             \/ ResponseTruncated
    BY <2>5 DEF LoginSucceeds, ListDevicesEnds, DeviceProjected, DeviceSelected,
       RequestGateway, AttemptFails, FailureRecorded, CloudMarkedDown, ResponseTruncated
  <2>6. CASE AttemptSucceeds
    BY <2>6 DEF AttemptSucceeds, connectGatewaySocket
  <2>7. CASE AttemptEnds
    BY <2>1, <2>7 DEF AttemptEnds
  <2>8. CASE FullTimerFires
    BY <2>3, <2>8 DEF FullTimerFires
  <2>9. CASE SocketTimerFires
    BY <2>3, <2>9 DEF SocketTimerFires, connectGatewaySocket
  <2>10. CASE SocketConnects \/ SocketEvent \/ TimePasses
    BY <2>10 DEF SocketConnects, SocketEvent, TimePasses
  <2>11. CASE SocketCloses
    BY <2>2, <2>11 DEF SocketCloses
  <2>12. CASE IdleFound \/ IdleRecorded
    BY <2>12 DEF IdleFound, IdleRecorded
  <2>13. CASE IdleReconnects
    BY <2>2, <2>13 DEF IdleReconnects
  <2>14. CASE StartCommand \/ SessionArrives \/ CommandEnds
    BY <2>14 DEF StartCommand, SessionArrives, CommandEnds
  <2>15. CASE ExpediteReconnect
    BY <2>3, <2>15 DEF ExpediteReconnect
  <2>16. CASE CommandFails
    BY <2>3, <2>16 DEF CommandFails, recoverCommandSessionAfterFailure
  <2>17. CASE onUnload
    BY <2>17 DEF onUnload
  <2>18. CASE UNCHANGED vars
    BY <2>18 DEF vars
  <2> QED
    BY <2>4, <2>5, <2>6, <2>7, <2>8, <2>9, <2>10, <2>11, <2>12, <2>13, <2>14, <2>15,
       <2>16, <2>17, <2>18 DEF Next, Attempt, Timer, Watchdog, Command, Stopped
<1> QED BY <1>1, <1>2, TypeCorrect, PTL DEF Spec

\* The interval of the watchdog runs exactly while the gateway is open.
THEOREM OpenIsWatched == Spec => []OpenSocketWatched
<1> USE DEF OpenSocketWatched, lifeVars, timerVars, socketVars
<1>1. Init => OpenSocketWatched
  BY DEF Init
<1>2. TypeOK /\ OpenSocketWatched /\ [Next]_vars => OpenSocketWatched'
  <2> SUFFICES ASSUME TypeOK, OpenSocketWatched, [Next]_vars, ~shuttingDown'
               PROVE  idleTimer' <=> socket' = "open"
    OBVIOUS
  <2>1. CASE UNCHANGED <<shuttingDown, socket, idleTimer>>
    BY <2>1
  <2>2. CASE AttemptSucceeds \/ SocketTimerFires
    BY <2>2 DEF AttemptSucceeds, SocketTimerFires, connectGatewaySocket
  <2>3. CASE SocketConnects
    <3>1. idleTimer' <=> ~shuttingDown
      BY <2>3, Zenon DEF SocketConnects
    <3> QED BY <2>3, <3>1 DEF SocketConnects
  <2>4. CASE SocketCloses \/ IdleReconnects \/ onUnload
    BY <2>4 DEF SocketCloses, IdleReconnects, onUnload
  <2>5. CASE Ready \/ LoginSucceeds \/ ListDevicesEnds \/ DeviceProjected
             \/ DeviceSelected \/ RequestGateway \/ AttemptFails \/ FailureRecorded
             \/ CloudMarkedDown \/ AttemptEnds \/ ResponseTruncated \/ FullTimerFires
    BY <2>1, <2>5 DEF Ready, LoginSucceeds, ListDevicesEnds, DeviceProjected,
       DeviceSelected, RequestGateway, AttemptFails, FailureRecorded, CloudMarkedDown,
       AttemptEnds, ResponseTruncated, FullTimerFires
  <2>6. CASE SocketEvent \/ TimePasses \/ IdleFound \/ IdleRecorded \/ Command
    BY <2>1, <2>6 DEF SocketEvent, TimePasses, IdleFound, IdleRecorded, Command,
       StartCommand, ExpediteReconnect, SessionArrives, CommandFails, CommandEnds
  <2>7. CASE UNCHANGED vars
    BY <2>1, <2>7 DEF vars
  <2> QED
    BY <2>2, <2>3, <2>4, <2>5, <2>6, <2>7
       DEF Next, Attempt, Timer, Watchdog, Stopped
<1> QED BY <1>1, <1>2, TypeCorrect, PTL DEF Spec

\* Nothing that resumes after unload arms a timer again.
THEOREM UnloadIsQuiet == Spec => []QuietAfterUnload
<1> USE DEF QuietAfterUnload, lifeVars, timerVars, socketVars
<1>1. Init => QuietAfterUnload
  BY DEF Init
<1>2. TypeOK /\ QuietAfterUnload /\ [Next]_vars => QuietAfterUnload'
  <2> SUFFICES ASSUME TypeOK, QuietAfterUnload, [Next]_vars, shuttingDown'
               PROVE  reconnectTimer' = "none" /\ ~idleTimer'
    OBVIOUS
  <2>1. ASSUME NEW n, scheduleFullReconnect(n), shuttingDown
        PROVE  reconnectTimer' = reconnectTimer
    BY <2>1 DEF scheduleFullReconnect
  <2>2. ASSUME NEW n, scheduleGatewaySocketReconnect(n), shuttingDown
        PROVE  reconnectTimer' = reconnectTimer
    BY <2>2 DEF scheduleGatewaySocketReconnect
  <2>3. connectReadOnlyGateway => reconnectTimer' = "none"
    BY DEF connectReadOnlyGateway
  <2>4. CASE UNCHANGED <<shuttingDown, reconnectTimer, idleTimer>>
    BY <2>4
  <2>5. CASE Ready \/ FullTimerFires
    BY <2>3, <2>5 DEF Ready, FullTimerFires
  <2>6. CASE LoginSucceeds \/ ListDevicesEnds \/ DeviceProjected \/ DeviceSelected
             \/ RequestGateway \/ AttemptFails \/ FailureRecorded \/ CloudMarkedDown
             \/ ResponseTruncated
    BY <2>4, <2>6 DEF LoginSucceeds, ListDevicesEnds, DeviceProjected, DeviceSelected,
       RequestGateway, AttemptFails, FailureRecorded, CloudMarkedDown, ResponseTruncated
  <2>7. CASE AttemptSucceeds \/ SocketTimerFires
    BY <2>3, <2>7 DEF AttemptSucceeds, SocketTimerFires, connectGatewaySocket
  <2>8. CASE AttemptEnds
    BY <2>1, <2>8 DEF AttemptEnds
  <2>9. CASE SocketConnects
    <3>1. idleTimer' <=> ~shuttingDown
      BY <2>9, Zenon DEF SocketConnects
    <3> QED BY <2>9, <3>1 DEF SocketConnects
  <2>10. CASE SocketCloses \/ IdleReconnects
    BY <2>2, <2>10 DEF SocketCloses, IdleReconnects
  <2>11. CASE SocketEvent \/ TimePasses \/ IdleFound \/ IdleRecorded \/ StartCommand
              \/ SessionArrives \/ CommandEnds
    BY <2>4, <2>11 DEF SocketEvent, TimePasses, IdleFound, IdleRecorded, StartCommand,
       SessionArrives, CommandEnds
  <2>12. CASE ExpediteReconnect
    BY <2>3, <2>12 DEF ExpediteReconnect
  <2>13. CASE CommandFails
    BY <2>3, <2>13 DEF CommandFails, recoverCommandSessionAfterFailure
  <2>14. CASE onUnload
    BY <2>14 DEF onUnload
  <2>15. CASE UNCHANGED vars
    BY <2>4, <2>15 DEF vars
  <2> QED
    BY <2>5, <2>6, <2>7, <2>8, <2>9, <2>10, <2>11, <2>12, <2>13, <2>14, <2>15
       DEF Next, Attempt, Timer, Watchdog, Command, Stopped
<1> QED BY <1>1, <1>2, TypeCorrect, PTL DEF Spec
=============================================================================
