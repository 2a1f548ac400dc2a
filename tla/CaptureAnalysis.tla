--------------------------- MODULE CaptureAnalysis ---------------------------
(***************************************************************************)
(* analyzeCaptureLines of tools/protocol-poc/src/capture-analysis.ts: one  *)
(* pass over the lines of a private capture, which keeps no event, only    *)
(* counts, ranges, changes of fields, path segments and signals about the  *)
(* map block.  Values are typed; a string is known by a number, and the    *)
(* bytes a map's string decodes to are Payload[n].                         *)
(***************************************************************************)
EXTENDS Integers, Sequences, FiniteSets, FiniteSetsExt, SequencesExt

CONSTANTS
    Lines,      \* that may follow each other: records [kind, index, infoType, object, data, nested]
    Payload,    \* the bytes of each map string
    Private,    \* the strings that looksPrivateString finds
    MaxLines    \* bound

VARIABLES
    seen,               \* history: the lines read
    records, runs, frameErrorMessages,
    analysisEvents,     \* infoTypes, dataShapes, fieldOccurrences, extraSequences
    status20001, map20002,
    firstPayload, previousPayload,  \* of MAP_BLOCK_STATE: <<>> or <<p>>
    done

eventVars == <<analysisEvents, status20001, map20002, firstPayload, previousPayload>>
analysisVars == <<seen, records, runs, frameErrorMessages, eventVars, done>>

-----------------------------------------------------------------------------
(* Values and buckets.  An absent key is one outside of a function's domain. *)

Text(n) == [type |-> "string", of |-> n]
Unknown == Text(0)
Redacted == [type |-> "redacted", of |-> 0]
Empty == [k \in {} |-> 0]

TextFields == {"message", "msg", "title", "text", "ctrl.text"}
EnumFields == {"mode", "subMode", "workNoisy"}
StatusNumbers == {"elec", "water", "cleanTime", "timeStamp"}
StatusSequenceNumbers == StatusNumbers \ {"timeStamp"}
StatusBooleans == {"autoBoost", "cleanComponents"}
MapMetadata == {"mapId", "pathId", "width", "height", "resolution"}
MapSequenceNumbers == {"mapId", "pathId"}

has(data, key, type) == key \in DOMAIN data /\ data[key].type = type
pick(data, keys, type) == [k \in {k \in keys : has(data, k, type)} |-> data[k]]

\* What the analysis may show of a value; of a text field that is its length (here the same
\* for all texts).
safeExtraSequenceValue(key, v) ==
    IF v.type = "string" /\ (key \in TextFields \/ v.of \in Private) THEN Redacted ELSE v

\* Every value is put into the entry of its key, which starts as "none".
into(bucket, values, none, Put(_, _)) ==
    [k \in DOMAIN bucket \cup DOMAIN values |->
        LET old == IF k \in DOMAIN bucket THEN bucket[k] ELSE none
        IN IF k \in DOMAIN values THEN Put(old, values[k]) ELSE old]

increment(bucket, keys) == into(bucket, [k \in keys |-> 1], 0, +)

NoRange == [min |-> 0, max |-> 0, count |-> 0]
mergeRange(r, n) ==
    IF r.count = 0 THEN [min |-> n, max |-> n, count |-> 1]
    ELSE [min |-> Min({r.min, n}), max |-> Max({r.max, n}), count |-> r.count + 1]
updateRanges(bucket, values) == into(bucket, values, NoRange, LAMBDA r, v : mergeRange(r, v.of))

NoCounts == [yes |-> 0, no |-> 0]
updateBooleanCounts(c, v) == [yes |-> c.yes + v.of, no |-> c.no + 1 - v.of]

NoSequence == [first |-> Unknown, last |-> Unknown, observations |-> 0, changes |-> 0,
               transitions |-> <<>>]
started(v) == [NoSequence EXCEPT !.first = v, !.last = v, !.observations = 1]

\* Mutant: the last value stays the first one.
lastStaysFirst(s, v, n) ==
    IF s.observations = 0 THEN started(v)
    ELSE IF s.last = v THEN [s EXCEPT !.observations = @ + 1]
    ELSE [s EXCEPT !.observations = @ + 1, !.changes = @ + 1,
                   !.transitions = Append(@, [event |-> n, from |-> s.last, to |-> v])]

updateSequenceIfDefined(s, v, n) ==
    IF s.observations = 0 THEN started(v)
    ELSE IF s.last = v THEN [s EXCEPT !.observations = @ + 1]
    ELSE [s EXCEPT !.observations = @ + 1, !.last = v, !.changes = @ + 1,
                   !.transitions = Append(@, [event |-> n, from |-> s.last, to |-> v])]
updateSequences(bucket, values, n) ==
    into(bucket, values, NoSequence, LAMBDA s, v : updateSequenceIfDefined(s, v, n))

-----------------------------------------------------------------------------
(* The parts of an event *)

\* An array is known by its length.
lengths(data, field, name) ==
    [k \in {k \in {name} : has(data, field, "array")} |->
        [type |-> "number", of |-> data[field].of]]

\* Base64: four characters for every three bytes begun.
byteLength(p) == 4 * ((Len(p) + 2) \div 3)
payloads(data) == IF has(data, "map", "string") THEN <<Payload[data["map"].of]>> ELSE <<>>

ASSUME LineAssumption ==
    /\ \A l \in Lines :
        /\ l.kind \in {"malformed", "run", "frame-error", "event", "other"}
        /\ l.index \in Nat
        /\ \A k \in DOMAIN l.data : l.data[k] \in [type : STRING, of : Int]
        /\ payloads(l.data) \in Seq(Seq(Nat))
    /\ MaxLines \in Nat

safeStatusSequenceValues(data) ==
    into(into(pick(data, EnumFields, "string"),
              pick(data, StatusSequenceNumbers, "number"), Unknown, LAMBDA old, v : v),
         lengths(data, "errorState", "errorStateLength"), Unknown, LAMBDA old, v : v)

safeMapSequenceValues(data) ==
    LET sizes == [k \in (IF payloads(data) = <<>> THEN {} ELSE {"encodedBytes"}) |->
                     [type |-> "number", of |-> byteLength(payloads(data)[1])]]
    IN into(into(pick(data, MapSequenceNumbers, "number"), lengths(data, "area", "areaCount"),
                 Unknown, LAMBDA old, v : v), sizes, Unknown, LAMBDA old, v : v)

\* The fields of the data and the nested ones: those of its fields that are objects, other
\* than code, cmd, command, data, error, message, mode, result, status, subMode and type.
extraValues(line) ==
    LET all == into(line.data, line.nested, Unknown, LAMBDA old, v : v)
    IN [k \in DOMAIN all |-> safeExtraSequenceValue(k, all[k])]

AnalysisInit ==
    /\ seen = <<>> /\ done = FALSE
    /\ records = [total |-> 0, malformed |-> 0, runs |-> 0, events |-> 0, frameErrors |-> 0]
    /\ runs = [completionReasons |-> Empty, maxCycles |-> 0, maxElapsedMs |-> 0]
    /\ frameErrorMessages = Empty
    /\ analysisEvents = [infoTypes |-> Empty, dataShapes |-> Empty, fieldOccurrences |-> Empty,
                 extraSequences |-> Empty]
    /\ status20001 = [count |-> 0, safeEnums |-> Empty, numberRanges |-> Empty,
                      booleanCounts |-> Empty, errorStateLengths |-> Empty, sequences |-> Empty]
    /\ map20002 = [count |-> 0, availableCount |-> 0, metadataRanges |-> Empty,
                   areaCounts |-> Empty, areaSamples |-> <<>>, encodedByteRanges |-> NoRange,
                   sequences |-> Empty, pathSegments |-> <<>>, samples |-> 0,
                   stablePrefixBytes |-> 0, sameSize |-> 0, changedSize |-> 0,
                   samePayload |-> 0, changedPayload |-> 0, interpretation |-> "none yet"]
    /\ firstPayload = <<>> /\ previousPayload = <<>>

count(bucket, key) == increment(bucket, {key})

analyzeStatus20001(data, n) ==
    status20001' = [
        count |-> status20001.count + 1,
        safeEnums |-> into(status20001.safeEnums, pick(data, EnumFields, "string"), {},
                           LAMBDA s, v : s \cup {v}),
        numberRanges |-> updateRanges(status20001.numberRanges,
                                      pick(data, StatusNumbers, "number")),
        booleanCounts |-> into(status20001.booleanCounts, pick(data, StatusBooleans, "boolean"),
                               NoCounts, updateBooleanCounts),
        errorStateLengths |-> increment(status20001.errorStateLengths,
                                        {v.of : v \in Range(pick(data, {"errorState"}, "array"))}),
        sequences |-> updateSequences(status20001.sequences, safeStatusSequenceValues(data), n)]

\* A field that is absent or null is "unknown".
known(data, key) == key \in DOMAIN data /\ data[key].type # "null"
pathIdOf(data) == IF known(data, "pathId")
                  THEN safeExtraSequenceValue("pathId", data["pathId"]) ELSE Unknown
mapIdOf(data) == IF known(data, "mapId")
                 THEN safeExtraSequenceValue("mapId", data["mapId"]) ELSE Unknown
arrayLengths(data, key) == {v.of : v \in Range(pick(data, {key}, "array"))}

newSegment(data, n) ==
    [pathId |-> pathIdOf(data), firstEvent |-> n, lastEvent |-> n, events |-> 0,
     encodedBytes |-> NoRange, decodedBytes |-> NoRange, areaCounts |-> Empty]

extended(segment, data, n) ==
    LET p == payloads(data)
    IN [segment EXCEPT
            !.events = @ + 1, !.lastEvent = n,
            !.encodedBytes = IF p = <<>> THEN @ ELSE mergeRange(@, byteLength(p[1])),
            !.decodedBytes = IF p = <<>> THEN @ ELSE mergeRange(@, Len(p[1])),
            !.areaCounts = increment(@, arrayLengths(data, "area"))]

\* The segments after an event; the current one is the last.
updateMapPathSegment(segments, data, n) ==
    IF segments # <<>> /\ Last(segments).pathId = pathIdOf(data)
    THEN Front(segments) \o <<extended(Last(segments), data, n)>>
    ELSE Append(segments, extended(newSegment(data, n), data, n))

commonPrefixLength(p, q) ==
    Max({k \in 0..Min({Len(p), Len(q)}) : SubSeq(p, 1, k) = SubSeq(q, 1, k)})

\* analyzeMapBlockSignals, if there is a map at all: m is map20002 with its other fields.
analyzeMapBlockSignals(m, p) ==
    LET one(b) == IF previousPayload # <<>> /\ b THEN 1 ELSE 0
        previous == previousPayload[1]
    IN /\ map20002' = [m EXCEPT
              !.samples = @ + 1,
              !.stablePrefixBytes = IF firstPayload = <<>> THEN Len(p)
                                    ELSE Min({@, commonPrefixLength(firstPayload[1], p)}),
              !.sameSize = @ + one(Len(previous) = Len(p)),
              !.changedSize = @ + one(Len(previous) # Len(p)),
              !.samePayload = @ + one(previous = p),
              !.changedPayload = @ + one(previous # p)]
       /\ firstPayload' = IF firstPayload = <<>> THEN <<p>> ELSE firstPayload
       /\ previousPayload' = <<p>>

summarizeMapAreas(data, n) ==
    [event |-> n, mapId |-> mapIdOf(data), pathId |-> pathIdOf(data), areaCount |-> data["area"].of]

analyzeMap20002(data, n) ==
    LET p == payloads(data)
        available == p # <<>> /\ p[1] # <<>>
        m == [map20002 EXCEPT
                 !.count = @ + 1,
                 !.availableCount = @ + (IF available THEN 1 ELSE 0),
                 !.encodedByteRanges = IF available THEN mergeRange(@, byteLength(p[1])) ELSE @,
                 !.pathSegments = updateMapPathSegment(@, data, n),
                 !.metadataRanges = updateRanges(@, pick(data, MapMetadata, "number")),
                 !.areaCounts = increment(@, arrayLengths(data, "area")),
                 !.areaSamples = IF \E k \in arrayLengths(data, "area") : k > 0
                                 THEN Append(@, summarizeMapAreas(data, n)) ELSE @,
                 !.sequences = updateSequences(@, safeMapSequenceValues(data), n)]
    IN IF available THEN analyzeMapBlockSignals(m, p[1])
       ELSE map20002' = m /\ UNCHANGED <<firstPayload, previousPayload>>

-----------------------------------------------------------------------------
(* The lines *)

read(line) == ~done /\ seen' = Append(seen, line) /\ UNCHANGED done

\* A line that is no object of JSON: a record may have been torn when the capture was stopped.
Malformed(line) ==
    /\ line.kind = "malformed" /\ read(line)
    /\ records' = [records EXCEPT !.total = @ + 1, !.malformed = @ + 1]
    /\ UNCHANGED <<runs, frameErrorMessages, eventVars>>

OtherRecord(line) ==
    /\ line.kind = "other" /\ read(line)
    /\ records' = [records EXCEPT !.total = @ + 1]
    /\ UNCHANGED <<runs, frameErrorMessages, eventVars>>

greatest(old, data, key) == IF has(data, key, "number") THEN Max({old, data[key].of}) ELSE old
textOf(data, key) == IF has(data, key, "string") THEN data[key] ELSE Unknown

analyzeRunRecord(line) ==
    /\ line.kind = "run" /\ read(line)
    /\ records' = [records EXCEPT !.total = @ + 1, !.runs = @ + 1]
    /\ runs' = [completionReasons |-> count(runs.completionReasons, textOf(line.data, "reason")),
                maxCycles |-> greatest(runs.maxCycles, line.data, "cycles"),
                maxElapsedMs |-> greatest(runs.maxElapsedMs, line.data, "elapsedMs")]
    /\ UNCHANGED <<frameErrorMessages, eventVars>>

analyzeFrameErrorRecord(line) ==
    /\ line.kind = "frame-error" /\ read(line)
    /\ records' = [records EXCEPT !.total = @ + 1, !.frameErrors = @ + 1]
    /\ frameErrorMessages' = count(frameErrorMessages, textOf(line.data, "message"))
    /\ UNCHANGED <<runs, eventVars>>

entryOf(bucket, type) == IF type \in DOMAIN bucket THEN bucket[type] ELSE Empty
with(bucket, type, entry) ==
    [k \in DOMAIN bucket \cup {type} |-> IF k = type THEN entry ELSE bucket[k]]

\* An event without an index, which is 0 here (the tool counts from 1), has that of its place
\* in the file.
eventIndex(line) == IF line.index > 0 THEN line.index ELSE records.events + 1

analyzeEvent(line, n) ==
    LET type == line.infoType IN
    /\ analysisEvents' = [
           infoTypes |-> count(analysisEvents.infoTypes, type),
           dataShapes |-> with(analysisEvents.dataShapes, type, DOMAIN line.data),
           fieldOccurrences |->
               IF line.object
               THEN with(analysisEvents.fieldOccurrences, type,
                         increment(entryOf(analysisEvents.fieldOccurrences, type),
                                   DOMAIN line.data))
               ELSE analysisEvents.fieldOccurrences,
           extraSequences |->
               IF line.object /\ type \notin {"20001", "20002"}
               THEN with(analysisEvents.extraSequences, type,
                         updateSequences(entryOf(analysisEvents.extraSequences, type),
                                         extraValues(line), n))
               ELSE analysisEvents.extraSequences]
    /\ IF line.object /\ type = "20001" THEN analyzeStatus20001(line.data, n)
       ELSE UNCHANGED status20001
    /\ IF line.object /\ type = "20002" THEN analyzeMap20002(line.data, n)
       ELSE UNCHANGED <<map20002, firstPayload, previousPayload>>

analyzeEventRecord(line) ==
    /\ line.kind = "event" /\ read(line)
    /\ records' = [records EXCEPT !.total = @ + 1, !.events = @ + 1]
    /\ analyzeEvent(line, eventIndex(line))
    /\ UNCHANGED <<runs, frameErrorMessages>>

stable(field) == field \in DOMAIN map20002.metadataRanges =>
    map20002.metadataRanges[field].min = map20002.metadataRanges[field].max

\* Mutant: maps without an id count as one map.
missingIdIsStable ==
    IF map20002.samples < 2 THEN "insufficient-evidence"
    ELSE IF /\ stable("width") /\ stable("height")
            /\ "mapId" \in DOMAIN map20002.sequences => map20002.sequences["mapId"].changes = 0
            /\ map20002.changedPayload > 0
    THEN "snapshot-like" ELSE "movement-only-possible"

finalizeMapBlockSignals ==
    IF map20002.samples < 2 THEN "insufficient-evidence"
    ELSE IF /\ stable("width") /\ stable("height")
            /\ "mapId" \in DOMAIN map20002.sequences
            /\ map20002.sequences["mapId"].changes = 0
            /\ map20002.changedPayload > 0
    THEN "snapshot-like" ELSE "movement-only-possible"

\* sortAnalysis, which also drops extra sequences that are empty.
sortAnalysis ==
    /\ ~done /\ done' = TRUE
    /\ LET sequences == analysisEvents.extraSequences
           kept == {t \in DOMAIN sequences : DOMAIN sequences[t] # {}}
       IN analysisEvents' = [analysisEvents EXCEPT !.extraSequences = [t \in kept |-> @[t]]]
    /\ map20002' = [map20002 EXCEPT !.interpretation = finalizeMapBlockSignals]
    /\ UNCHANGED <<seen, records, runs, frameErrorMessages, status20001, firstPayload,
                   previousPayload>>

AnalysisNext ==
    \/ /\ Len(seen) < MaxLines
       /\ \E l \in Lines : \/ Malformed(l) \/ OtherRecord(l) \/ analyzeRunRecord(l)
                           \/ analyzeFrameErrorRecord(l) \/ analyzeEventRecord(l)
    \/ sortAnalysis

AnalysisSpec == AnalysisInit /\ [][AnalysisNext]_analysisVars

-----------------------------------------------------------------------------
(* Reference definitions over all lines read *)

\* The lines of the events of a type whose data is an object.
EventsOf(type) == {i \in 1..Len(seen) : /\ seen[i].kind = "event" /\ seen[i].object
                                        /\ seen[i].infoType = type}
extraTypes == {seen[i].infoType : i \in 1..Len(seen)} \ {"20001", "20002"}

eventNumber ==
    [i \in 1..Len(seen) |-> IF seen[i].index > 0 THEN seen[i].index
                            ELSE Cardinality({j \in 1..i : seen[j].kind = "event"})]

\* Of a set of lines: the one before i, and the how manieth i is; of values at lines: where
\* one differs from the one before.
before(at, i) == Max({j \in at : j < i})
rank(at, i) == Cardinality({j \in at : j <= i})
moves(v) == {i \in DOMAIN v : i # Min(DOMAIN v) /\ v[i] # v[before(DOMAIN v, i)]}

\* The sequence s says what the values v at some lines are: the first and the last one, and a
\* transition wherever two neighbours differ.
Tells(s, v, number) ==
    /\ s.first = v[Min(DOMAIN v)] /\ s.last = v[Max(DOMAIN v)]
    /\ s.observations = Cardinality(DOMAIN v)
    /\ s.changes = Cardinality(moves(v)) /\ Len(s.transitions) = s.changes
    /\ \A i \in moves(v) : s.transitions[rank(moves(v), i)] =
           [event |-> number[i], from |-> v[before(DOMAIN v, i)], to |-> v[i]]

\* The keys of the values given at some lines, and the values of one key.
keysOf(given) == UNION {DOMAIN given[i] : i \in DOMAIN given}
valuesOf(key, given) == [i \in {i \in DOMAIN given : key \in DOMAIN given[i]} |-> given[i][key]]

\* The bucket is that of the given values.
Replays(bucket, given, number) ==
    /\ DOMAIN bucket = keysOf(given)
    /\ \A key \in DOMAIN bucket : Tells(bucket[key], valuesOf(key, given), number)

statusValues == [i \in EventsOf("20001") |-> safeStatusSequenceValues(seen[i].data)]
mapValues == [i \in EventsOf("20002") |-> safeMapSequenceValues(seen[i].data)]
valuesOfType(type) == [i \in EventsOf(type) |-> extraValues(seen[i])]

\* Types without a value are dropped in the end.
SequencesReplay ==
    /\ Replays(status20001.sequences, statusValues, eventNumber)
    /\ Replays(map20002.sequences, mapValues, eventNumber)
    /\ DOMAIN analysisEvents.extraSequences \subseteq extraTypes
    /\ \A type \in extraTypes :
           IF type \in DOMAIN analysisEvents.extraSequences
           THEN Replays(analysisEvents.extraSequences[type], valuesOfType(type), eventNumber)
           ELSE \A i \in EventsOf(type) : DOMAIN extraValues(seen[i]) = {}

\* The longest stretches of lines with one id: where they begin, the one that begins at i, and
\* what of the lines with a size it has.
starts(id) == {i \in DOMAIN id : i = Min(DOMAIN id)} \cup moves(id)
stretch(id, i) == {j \in DOMAIN id : j >= i /\ \A k \in starts(id) : k <= j => k <= i}
sizesOf(size, lines) == {size[j] : j \in lines \cap DOMAIN size}

\* The segment is that of the stretch which begins at i.
IsOfStretch(segment, i, id, size, number) ==
    LET lines == stretch(id, i)
        sizes == sizesOf(size, lines)
    IN /\ segment.pathId = id[i] /\ segment.events = Cardinality(lines)
       /\ segment.firstEvent = number[i] /\ segment.lastEvent = number[Max(lines)]
       /\ sizes # {} => /\ segment.encodedBytes.min = Min(sizes)
                        /\ segment.encodedBytes.max = Max(sizes)

\* There is a segment of every stretch.
Partitions(segments, id, size, number) ==
    /\ Len(segments) = Cardinality(starts(id))
    /\ \A i \in starts(id) :
           IsOfStretch(segments[rank(starts(id), i)], i, id, size, number)

pathIds == [i \in EventsOf("20002") |-> pathIdOf(seen[i].data)]
encodedSizes == [i \in {i \in EventsOf("20002") : payloads(seen[i].data) # <<>>} |->
                    byteLength(payloads(seen[i].data)[1])]

\* One pass is enough: what the analysis kept of the changes of fields and of paths is what a
\* reader of the whole file would find.
AnalysisAgrees ==
    SequencesReplay /\ Partitions(map20002.pathSegments, pathIds, encodedSizes, eventNumber)

\* The maps that are not empty.
samples == [i \in {i \in EventsOf("20002") : payloads(seen[i].data) \notin {<<>>, <<<<>>>>}} |->
               payloads(seen[i].data)[1]]
numbersOf(field) == {seen[i].data[field].of :
                       i \in {i \in EventsOf("20002") : has(seen[i].data, field, "number")}}
sharedPrefix(p) ==
    LET one == p[Min(DOMAIN p)]
    IN Max({k \in 0..Len(one) : \A i \in DOMAIN p :
                Len(p[i]) >= k /\ SubSeq(p[i], 1, k) = SubSeq(one, 1, k)})

\* The map block is called a snapshot only on evidence of the whole capture: two samples that
\* differ, no two sizes of the map, and one mapId that was seen.  The stable prefix is one of
\* every sample, and no longer one is.
InterpretationSound ==
    done =>
        /\ map20002.interpretation = "snapshot-like" <=>
               /\ \E i, j \in DOMAIN samples : samples[i] # samples[j]
               /\ Cardinality(numbersOf("width")) <= 1 /\ Cardinality(numbersOf("height")) <= 1
               /\ Cardinality(numbersOf("mapId")) = 1
        /\ map20002.interpretation = "insufficient-evidence" <=> Cardinality(DOMAIN samples) < 2
        /\ DOMAIN samples # {} => map20002.stablePrefixBytes = sharedPrefix(samples)
=============================================================================
