------------------------------ MODULE CaptureRun ------------------------------
(***************************************************************************)
(* The capture tool tools/protocol-poc/src/cli.ts.  In cycles it logs in,  *)
(* asks for the gateway's endpoints and listens to the first that answers; *)
(* readGatewayEvents of gateway.ts cuts what the socket brings into frames *)
(* and reads them.  Events and frame errors are written to a file, and a   *)
(* record of the run after them.  A chunk of a stream ends anywhere, also  *)
(* within a delimiter or a character, and each is decoded on its own.      *)
(***************************************************************************)
EXTENDS Naturals, Sequences, FiniteSets, FiniteSetsExt, SequencesExt

CONSTANTS
    Streams,        \* what a gateway may send on a connection: sequences of kinds of frames
    MaxEvents,      \* PROSCENIC_MAX_EVENTS
    MaxBuffer,      \* MAX_BUFFER_BYTES; a symbol of a stream is a byte
    MaxTokens,      \* the length of tokenHistory
    MaxEndpoints,   \* of one answer to getGateway
    MaxCycles       \* bound

\* Of a "sealed" frame the data is encrypted; that of an "opaque" one is no string at all.
Kinds == {"plain", "sealed", "opaque", "malformed", "blank"}

ASSUME StreamAssumption == Streams \subseteq Seq(Kinds)
ASSUME BoundAssumption == \A n \in {MaxEvents, MaxTokens, MaxEndpoints, MaxCycles} : n \in Nat \ {0}

VARIABLES
    capturing,      \* PROSCENIC_CAPTURE_SECONDS is set: reconnect until the deadline
    late,           \* the deadline is past
    stage,          \* where the tool is
    cycles, tokens, \* tokenHistory, the current one first; they are numbered
    endpoints, endpoint,  \* how many there are, and the one in use
    stream, taken,  \* what the gateway sends, and how many symbols of it have arrived
    buffer,         \* the text decoded and not yet read
    garbled,        \* the events of this connection whose text is damaged
    cut,            \* history: the frames in a character of which a chunk of it ended
    got, errors,    \* events and frameErrors of this connection
    reason,         \* its completionReason, and in the end that of the capture
    events, frameErrors,  \* of all cycles; an event is known by its frame's number
    file,           \* the private capture file
    sent,           \* frames sent so far, by all gateways
    readable        \* history: the frames that have arrived whole and could be read

tokenVars == <<cycles, tokens>>
socketVars == <<stream, taken, buffer, garbled, cut, got, errors>>
resultVars == <<events, frameErrors, file>>
vars == <<capturing, late, stage, tokenVars, endpoints, endpoint, socketVars, reason,
          resultVars, sent, readable>>

Running == {"cycle", "login", "discover", "connecting", "open", "print", "delay", "summary"}
Ended == {"closed", "failed", "killed"}

-----------------------------------------------------------------------------
(* Frames *)

Symbol(part, kind, token, number) ==
    [part |-> part, kind |-> kind, token |-> token, number |-> number, damaged |-> FALSE]

\* The symbols of a sequence of frames that are numbered from n + 1 on: two of a body, which
\* is whitespace in a "blank" one and shares a character of two bytes in a "plain" one, and
\* the two parts of the delimiter.
symbols(kinds, token, n) ==
    [i \in 1..4 * Len(kinds) |->
        LET k == (i + 3) \div 4
            wide == kinds[k] = "plain"
        IN CASE i = 4 * k - 3 -> Symbol(IF wide THEN "lead" ELSE "text", kinds[k], token, n + k)
             [] i = 4 * k - 2 -> Symbol(IF wide THEN "trail" ELSE "text", "none", 0, 0)
             [] i = 4 * k - 1 -> Symbol("hashTab", "none", 0, 0)
             [] i = 4 * k     -> Symbol("hash", "none", 0, 0)]

damage(s) == [s EXCEPT !.damaged = TRUE]

\* Mutant: the bytes are taken for characters.
decodeLatin1(bytes) ==
    [i \in DOMAIN bytes |->
        IF bytes[i].part \in {"lead", "trail"} THEN damage(bytes[i]) ELSE bytes[i]]

\* chunk.toString("utf8"): half a character at an end of the chunk becomes U+FFFD.
isHalved(bytes, i) ==
    \/ bytes[i].part = "lead" /\ i = Len(bytes)
    \/ bytes[i].part = "trail" /\ i = 1
decode(bytes) ==
    [i \in DOMAIN bytes |-> IF isHalved(bytes, i) THEN damage(bytes[i]) ELSE bytes[i]]

\* The text as it was sent.
undamaged(b) ==
    [i \in DOMAIN b |-> Symbol(b[i].part, b[i].kind, b[i].token, b[i].number)]

\* Buffer.byteLength: U+FFFD takes three bytes.
utf8Length(b) == Len(b) + 2 * Cardinality({i \in DOMAIN b : b[i].damaged})

\* The elements of a finite set of numbers in increasing order.
Listing(S) ==
    CHOOSE s \in [1..Cardinality(S) -> S] : \A i, j \in 1..Cardinality(S) : i < j => s[i] < s[j]

ends(b) == {i \in 2..Len(b) : b[i - 1].part = "hashTab" /\ b[i].part = "hash"}

\* splitFrames: the bodies between the delimiters, and what follows the last of them.
frames(b) ==
    LET e == Listing(ends(b))
    IN [k \in 1..Cardinality(ends(b)) |->
            SubSeq(b, IF k = 1 THEN 1 ELSE e[k - 1] + 1, e[k] - 2)]
rest(b) == SubSeq(b, Max(ends(b) \cup {0}) + 1, Len(b))

tokenCandidates(t) == t \in ToSet(tokens)

\* parseGatewayFrameResult: an event, an error, or neither.
isEvent(f) == f # <<>> /\ (f[1].kind = "plain" \/ (f[1].kind = "sealed" /\ tokenCandidates(f[1].token)))
isError(f) == f # <<>> /\ (f[1].kind = "malformed" \/ (f[1].kind = "sealed" /\ ~tokenCandidates(f[1].token)))
eventFrames(fs) == Listing({k \in 1..Len(fs) : isEvent(fs[k])})
eventsOf(fs) == [i \in DOMAIN eventFrames(fs) |-> fs[eventFrames(fs)[i]][1].number]
errorsOf(fs) == Cardinality({k \in 1..Len(fs) : isError(fs[k])})
garbledOf(fs) ==
    {fs[k][1].number : k \in {j \in 1..Len(fs) :
        isEvent(fs[j]) /\ \E i \in DOMAIN fs[j] : fs[j][i].damaged}}

Init ==
    /\ capturing \in BOOLEAN /\ late = FALSE /\ stage = "cycle"
    /\ cycles = 0 /\ tokens = <<1>> /\ endpoints = 0 /\ endpoint = 0
    /\ stream = <<>> /\ taken = 0 /\ buffer = <<>> /\ garbled = {} /\ cut = {} /\ got = <<>> /\ errors = 0
    /\ reason = "not-started" /\ events = <<>> /\ frameErrors = 0
    /\ file = <<>> /\ sent = 0 /\ readable = {}

-----------------------------------------------------------------------------
(* readGatewayCapture *)

\* One turn of the while loop.  A cycle after the first begins with a new login.
BeginCycle ==
    /\ stage = "cycle" /\ ~late /\ Len(events) < MaxEvents
    /\ cycles < MaxCycles /\ cycles' = cycles + 1
    /\ stage' = IF cycles = 0 THEN "discover" ELSE "login"
    /\ UNCHANGED <<capturing, late, tokens, endpoints, endpoint, socketVars, reason, resultVars,
                   sent, readable>>

LoggedIn ==
    /\ stage = "login" /\ stage' = "discover"
    /\ tokens' = SubSeq(<<cycles>> \o tokens, 1, Min({MaxTokens, Len(tokens) + 1}))
    /\ UNCHANGED <<capturing, late, cycles, endpoints, endpoint, socketVars, reason, resultVars,
                   sent, readable>>

\* selectGatewayEndpoints accepted n addresses.
EndpointsReceived(n) ==
    /\ stage = "discover" /\ stage' = "connecting"
    /\ endpoints' = n /\ endpoint' = 1
    /\ UNCHANGED <<capturing, late, tokenVars, socketVars, reason, resultVars, sent, readable>>

fails == stage' = "failed"
         /\ UNCHANGED <<capturing, late, tokenVars, endpoints, endpoint, socketVars, reason,
                        resultVars, sent, readable>>

\* A request is refused, times out, or its answer is of no use: main() rejects.  One that
\* never settles leaves the process nothing to wait for, which ends it as well.
RequestFails == stage \in {"login", "discover"} /\ fails

\* Mutant: a socket that closes ends the capture.
continueUnlessClosed == capturing /\ ~late /\ Len(events) < MaxEvents /\ reason = "listen-window-elapsed"

shouldContinueCaptureAfterCycle ==
    capturing /\ ~late /\ Len(events) < MaxEvents /\ reason # "max-events-reached"

\* All is printed: another cycle, or the result of the capture.
CycleEnds ==
    /\ stage = "print" /\ got = <<>> /\ errors = 0
    /\ IF Len(events) < MaxEvents /\ shouldContinueCaptureAfterCycle
       THEN stage' = "delay" /\ UNCHANGED reason
       ELSE /\ stage' = "summary"
            /\ reason' = IF Len(events) >= MaxEvents THEN "max-events-reached"
                         ELSE IF late THEN "capture-window-elapsed" ELSE reason
    /\ UNCHANGED <<capturing, late, tokenVars, endpoints, endpoint, socketVars, resultVars, sent,
                   readable>>

DelayEnds ==
    /\ stage = "delay" /\ stage' = "cycle"
    /\ UNCHANGED <<capturing, late, tokenVars, endpoints, endpoint, socketVars, reason, resultVars,
                   sent, readable>>

\* The while loop ends before a cycle.
LoopEnds ==
    /\ stage = "cycle" /\ late /\ stage' = "summary"
    /\ reason' = "capture-window-elapsed"
    /\ UNCHANGED <<capturing, late, tokenVars, endpoints, endpoint, socketVars, resultVars, sent,
                   readable>>

-----------------------------------------------------------------------------
(* readGatewayEndpoints and readGatewayEvents *)

noSocket == stream' = <<>> /\ taken' = 0 /\ buffer' = <<>> /\ garbled' = {} /\ cut' = {}

\* Mutant: whatever the first endpoint brought, the next one is tried when it closes.
settleTriesAll(r, g, e) ==
    /\ noSocket
    /\ IF r = "socket-closed" /\ endpoint < endpoints
       THEN /\ stage' = "connecting" /\ endpoint' = endpoint + 1
            /\ got' = <<>> /\ errors' = 0 /\ UNCHANGED reason
       ELSE /\ stage' = "print" /\ reason' = r /\ got' = g /\ errors' = e
            /\ UNCHANGED endpoint

\* finish: the connection has given events g and e errors.  The next endpoint is tried if
\* this one closed without an event, and its errors are forgotten.
settle(r, g, e) ==
    /\ noSocket
    /\ IF g = <<>> /\ r = "socket-closed" /\ endpoint < endpoints
       THEN /\ stage' = "connecting" /\ endpoint' = endpoint + 1
            /\ got' = <<>> /\ errors' = 0 /\ UNCHANGED reason
       ELSE /\ stage' = "print" /\ reason' = r /\ got' = g /\ errors' = e
            /\ UNCHANGED endpoint

\* The handshake is sent; the gateway answers with a stream.
Connects(kinds, token) ==
    /\ stage = "connecting" /\ stage' = "open"
    /\ stream' = symbols(kinds, token, sent) /\ sent' = sent + Len(kinds)
    /\ UNCHANGED <<capturing, late, tokenVars, endpoints, endpoint, taken, buffer, garbled, cut,
                   got, errors, reason, resultVars, readable>>

\* An error, or the connect timer, before the connection: the promise is rejected.
ConnectFails == stage = "connecting" /\ fails

\* The socket's own timer is as long as the connect timer.
SocketTimesOut ==
    /\ stage = "connecting" /\ settle("socket-timeout", got, errors)
    /\ UNCHANGED <<capturing, late, tokenVars, endpoints, resultVars, sent, readable>>

chunk(n) == SubSeq(stream, taken + 1, taken + n)
arriving(n) == buffer \o decode(chunk(n))

\* The connection goes on with b in the buffer, after frames fs were read.
readOn(n, fs, b) ==
    /\ taken' = taken + n /\ buffer' = b
    /\ cut' = cut \cup {s.number : s \in {t \in {Last(chunk(n))} : t.part = "lead"}}
    /\ garbled' = garbled \cup garbledOf(fs)
    /\ got' = got \o eventsOf(fs) /\ errors' = errors + errorsOf(fs)
    /\ UNCHANGED <<stage, endpoint, stream, reason>>

\* Mutant: what follows the last delimiter is dropped.
dropsRest(n) ==
    LET fs == frames(arriving(n))
        room == MaxEvents - Len(events) - Len(got)
    IN /\ readable' = readable \cup ToSet(eventsOf(fs))
       /\ IF Len(eventsOf(fs)) >= room
          THEN settle("max-events-reached", got \o SubSeq(eventsOf(fs), 1, room), errors)
          ELSE readOn(n, fs, <<>>)

\* The frames are read one after the other until there are as many events as wanted; what
\* follows in the chunk is left.
readFrames(n) ==
    LET fs == frames(arriving(n))
        room == MaxEvents - Len(events) - Len(got)
        last == eventFrames(fs)[room]
    IN /\ readable' = readable \cup ToSet(eventsOf(fs))
       /\ IF Len(eventsOf(fs)) >= room
          THEN settle("max-events-reached", got \o SubSeq(eventsOf(fs), 1, room),
                      errors + errorsOf(SubSeq(fs, 1, last)))
          ELSE readOn(n, fs, rest(arriving(n)))

Data(n) ==
    /\ stage = "open"
    /\ utf8Length(arriving(n)) <= MaxBuffer
    /\ readFrames(n)
    /\ UNCHANGED <<capturing, late, tokenVars, endpoints, resultVars, sent>>

\* The limit is checked before the frames are cut off, and exceeding it rejects.
BufferExceeded(n) == stage = "open" /\ utf8Length(arriving(n)) > MaxBuffer /\ fails

\* Mutant: the connection clears the timer of the window as it does the connect timer.
windowOnlyUnconnected ==
    /\ stage = "connecting" /\ settle("listen-window-elapsed", got, errors)
    /\ late' \in (IF capturing THEN {late, TRUE} ELSE {TRUE})
    /\ UNCHANGED <<capturing, tokenVars, endpoints, resultVars, sent, readable>>

\* A window ends at the deadline if it is the only one.
ListenWindowElapses ==
    /\ stage \in {"connecting", "open"}
    /\ settle("listen-window-elapsed", got, errors)
    /\ late' \in (IF capturing THEN {late, TRUE} ELSE {TRUE})
    /\ UNCHANGED <<capturing, tokenVars, endpoints, resultVars, sent, readable>>

\* "close", or an error after the connection.
SocketCloses ==
    /\ stage = "open" /\ settle("socket-closed", got, errors)
    /\ UNCHANGED <<capturing, late, tokenVars, endpoints, resultVars, sent, readable>>

-----------------------------------------------------------------------------
(* The file *)

entry(kind, index, number) == [kind |-> kind, index |-> index, number |-> number]

\* printGatewayEvent, for one event after the other.
printGatewayEvent ==
    /\ events' = Append(events, Head(got)) /\ got' = Tail(got)
    /\ file' = Append(file, entry("event", Len(events'), Head(got)))

EventPrinted ==
    /\ stage = "print" /\ got # <<>> /\ printGatewayEvent
    /\ UNCHANGED <<capturing, late, stage, tokenVars, endpoints, endpoint, stream, taken, buffer,
                   garbled, cut, errors, reason, frameErrors, sent, readable>>

\* printGatewayFrameError, after the events of the cycle.
ErrorPrinted ==
    /\ stage = "print" /\ got = <<>> /\ errors > 0
    /\ errors' = errors - 1 /\ frameErrors' = frameErrors + 1
    /\ file' = Append(file, entry("frame-error", frameErrors', 0))
    /\ UNCHANGED <<capturing, late, stage, tokenVars, endpoints, endpoint, stream, taken, buffer,
                   garbled, cut, got, reason, events, sent, readable>>

\* The record of the run counts events and errors; its number is that of the cycles.
RunRecorded ==
    /\ stage = "summary" /\ stage' = "closed"
    /\ file' = Append(file, entry("run", Len(events) + frameErrors, cycles))
    /\ UNCHANGED <<capturing, late, tokenVars, endpoints, endpoint, socketVars, reason, events,
                   frameErrors, sent, readable>>

\* A write fails, or the tool is stopped; a line that is being written may stay torn.
Breaks ==
    /\ stage \in Running
    /\ \/ stage \in {"print", "summary"} /\ stage' = "failed"
       \/ stage' = "killed"
    /\ \/ UNCHANGED file
       \/ stage \in {"print", "summary"} /\ file' = Append(file, entry("torn", 0, 0))
    /\ UNCHANGED <<capturing, late, tokenVars, endpoints, endpoint, socketVars, reason, events,
                   frameErrors, sent, readable>>

DeadlinePasses ==
    /\ stage \in Running /\ ~late /\ late' = TRUE
    /\ UNCHANGED <<capturing, stage, tokenVars, endpoints, endpoint, socketVars, reason,
                   resultVars, sent, readable>>

-----------------------------------------------------------------------------
Cycle == BeginCycle \/ LoggedIn \/ (\E n \in 1..MaxEndpoints : EndpointsReceived(n))
         \/ RequestFails \/ CycleEnds \/ DelayEnds \/ LoopEnds
Arrives == \E n \in 1..Len(stream) - taken : Data(n) \/ BufferExceeded(n)
Connection ==
    \/ \E kinds \in Streams, token \in 1..cycles : Connects(kinds, token)
    \/ ConnectFails \/ SocketTimesOut \/ Arrives \/ ListenWindowElapses \/ SocketCloses
Output == EventPrinted \/ ErrorPrinted \/ RunRecorded
Next == Cycle \/ Connection \/ Output \/ Breaks \/ DeadlinePasses

Spec == Init /\ [][Next]_vars

\* Timers fire, and requests and writes come to an end; nobody has to send anything.
FairSpec ==
    /\ Spec
    /\ WF_vars(Cycle) /\ WF_vars(Output)
    /\ WF_vars(ListenWindowElapses) /\ WF_vars(DeadlinePasses)

-----------------------------------------------------------------------------
\* Which events and errors a connection has given depends on what has arrived and not on
\* where its chunks end, be it within a delimiter or a character: they are those of the
\* frames of the stream that are complete by now, and the buffer has what follows them, but
\* for characters that were damaged.
ChunksDoNotMatter ==
    stage = "open" =>
        LET arrived == SubSeq(stream, 1, taken) IN
        /\ got = eventsOf(frames(arrived)) /\ errors = errorsOf(frames(arrived))
        /\ undamaged(buffer) = rest(arrived)

\* The text of an event is damaged if a chunk ended within a character of its frame, and
\* only then: what is decoded before or after it, and in other frames, is as it was sent.
DamagedWhereCut == stage = "open" => garbled = cut \cap ToSet(got)

Of(kind) == {i \in 1..Len(file) : file[i].kind = kind}
Numbers == {file[i].number : i \in Of("event")}

\* The file tells of a capture in order and without gaps, across cycles and endpoints: its
\* events and errors are numbered one by one, its events are the first of those that have
\* arrived, at most as many as wanted, and nothing follows the record of the run, which
\* counts them, or a torn line.
FileIsWhole ==
    /\ \A kind \in {"event", "frame-error"} : \A i \in Of(kind) :
            file[i].index = Cardinality({j \in Of(kind) : j <= i})
    /\ \A i, j \in Of("event") : i < j => file[i].number < file[j].number
    /\ \A n \in Numbers : \A k \in readable : k < n => k \in Numbers
    /\ Cardinality(Of("event")) <= MaxEvents
    /\ \A i \in 1..Len(file) - 1 : file[i].kind \in {"event", "frame-error"}
    /\ stage = "closed" =>
        /\ Last(file).kind = "run"
        /\ Last(file).index = Cardinality(Of("event")) + Cardinality(Of("frame-error"))
        /\ readable \subseteq Numbers \/ Cardinality(Of("event")) = MaxEvents

\* tools/protocol-poc/README.md: a capture goes on until its window is over or it has the
\* events it wants; no connection that closes or times out ends it.
CapturesToTheEnd ==
    capturing /\ stage = "closed" =>
        \/ late /\ reason = "capture-window-elapsed"
        \/ Len(events) = MaxEvents /\ reason = "max-events-reached"

\* Every capture ends, whatever gateways send or leave unsent.
CaptureEnds == <>(stage \in Ended)
=============================================================================
