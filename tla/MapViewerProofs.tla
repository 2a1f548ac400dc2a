-------------------------- MODULE MapViewerProofs --------------------------
(***************************************************************************)
(* Proofs that no PNG replaces a loaded SVG and that the start button      *)
(* keeps up with the selection, the socket and the writes, for any zones,  *)
(* versions and orders of events, answers, clicks and failures.            *)
(***************************************************************************)
EXTENDS MapViewer, TLAPS

\* The image that is waited for is not worse than the one shown, so that a better one can
\* be displaced by a failure alone.
Inv ==
    /\ current.priority \in 0..2 /\ pending.priority \in 0..2
    /\ pending = NoSource \/ pending.priority >= current.priority

Kept(next) == current.priority = 2 => next.priority # 1

\* setSource leaves the image shown alone and waits for none that is worse.
LEMMA SetSourceKeeps ==
    ASSUME Inv, NEW id, NEW version, setSource(source(id, version))
    PROVE  Inv' /\ Kept(current')
<1> DEFINE s == source(id, version)
<1>1. s.priority \in {1, 2}
    BY DEF source
<1> HIDE DEF s
<1>2. CASE UNCHANGED imageVars
    BY <1>2 DEF Inv, Kept, imageVars
<1>3. CASE pending' = s /\ UNCHANGED current /\ ~(s.priority < current.priority)
    BY <1>1, <1>3 DEF Inv, Kept
<1> QED
    BY <1>2, <1>3 DEF setSource, s

LEMMA RestKeeps == Inv /\ UNCHANGED imageVars => Inv' /\ Kept(current')
    BY DEF Inv, Kept, imageVars

LEMMA GoesOnKeeps ==
    ASSUME Inv, NEW id, NEW v, refreshGoesOn(id, v)
    PROVE  Inv' /\ Kept(current')
<1>1. CASE UNCHANGED imageVars
    BY <1>1, RestKeeps
<1>2. CASE setSource(source(id, v.version))
    BY <1>2, SetSourceKeeps
<1> QED
    BY <1>1, <1>2 DEF refreshGoesOn

LEMMA AnsweredKeeps ==
    ASSUME Inv, NEW a, answered(a)
    PROVE  Inv' /\ Kept(current')
<1>1. CASE refreshGoesOn(a.id, a.value)
    BY <1>1, GoesOnKeeps
<1>2. CASE UNCHANGED imageVars
    BY <1>2, RestKeeps
<1> QED
    BY <1>1, <1>2 DEF answered

LEMMA ImagesKeep ==
    ASSUME Inv, Images
    PROVE  Inv' /\ Kept(current')
<1>1. ASSUME NEW s \in preloads, Preloaded(s) PROVE Inv' /\ Kept(current')
    BY <1>1 DEF Preloaded, Inv, Kept, NoSource
<1>2. ASSUME NEW s \in preloads, PreloadFails(s) PROVE Inv' /\ Kept(current')
    BY <1>2 DEF PreloadFails, Inv, Kept, NoSource
<1>3. CASE ImageFails
    BY <1>3 DEF ImageFails, Inv, Kept, NoSource
<1> QED
    BY <1>1, <1>2, <1>3 DEF Images

LEMMA StepKeeps ==
    ASSUME Inv, [Next]_vars
    PROVE  Inv' /\ Kept(current')
<1>1. CASE Reading
    <2>1. CASE AnswerArrives
        BY <2>1, AnsweredKeeps DEF AnswerArrives
    <2>2. ASSUME NEW a \in fetched, ResponseArrives(a) PROVE Inv' /\ Kept(current')
        BY <2>2, AnsweredKeeps DEF ResponseArrives
    <2>3. CASE Poll
        BY <2>3, RestKeeps DEF Poll
    <2> QED
        BY <1>1, <2>1, <2>2, <2>3 DEF Reading
<1>2. CASE Socket
    <2>1. CASE Connect \/ Disconnect
        BY <2>1, RestKeeps DEF Connect, Disconnect, disconnected
    <2>2. CASE ChangeArrives
        <3>1. PICK c : \/ UNCHANGED imageVars
                       \/ setSource(source(c.id, c.value.version))
            BY <2>2 DEF ChangeArrives
        <3> QED
            BY <3>1, RestKeeps, SetSourceKeeps
    <2> QED
        BY <1>2, <2>1, <2>2 DEF Socket
<1>3. CASE User
    <2>1. UNCHANGED imageVars
        BY <1>3, Zenon DEF User, toggleZone, zoneStart, StartDelayEnds, imageVars
    <2> QED
        BY <2>1, RestKeeps
<1>4. CASE Images
    BY <1>4, ImagesKeep
<1>5. CASE Server
    BY <1>5, RestKeeps DEF Server, Serve, ServeHttp, Change
<1>6. CASE UNCHANGED vars
    BY <1>6, RestKeeps DEF vars
<1> QED
    BY <1>1, <1>2, <1>3, <1>4, <1>5, <1>6 DEF Next

\* A PNG never replaces a loaded SVG, whichever way the page learns of either and in
\* whatever order they load.
THEOREM SvgIsNotDowngraded == Spec => NoDowngrade
<1>1. Init => Inv
    BY DEF Init, Inv, NoSource
<1>2. Inv /\ [Next]_vars => Inv'
    BY StepKeeps
<1>3. Inv /\ [Next]_vars => [current.priority = 2 => current'.priority # 1]_vars
    BY StepKeeps DEF Kept
<1> QED
    BY <1>1, <1>2, <1>3, PTL DEF Spec, NoDowngrade

-----------------------------------------------------------------------------
(* The start button *)

Plain(s) == \E S : s \in Seq(S)

\* Of the requests of zoneStart, s holds none, or one at most.
NoStart(s) == \A i \in 1..Len(s) : s[i].by # "start"
OneStart(s) == \A i, j \in 1..Len(s) : s[i].by = "start" /\ s[j].by = "start" => i = j

\* t holds no more of them than s does.
Fewer(t, s) ==
    /\ Plain(t) /\ (NoStart(s) => NoStart(t)) /\ (OneStart(s) => OneStart(t))

\* The button is in step, and what zoneStart has written is answered at most once, and only
\* while it waits for that: the answer never ends a later write's delay.
Starting ==
    /\ Plain(requests) /\ Plain(answers)
    /\ OneStart(requests) /\ OneStart(answers) /\ (NoStart(requests) \/ NoStart(answers))
    /\ start # "writing" => NoStart(requests) /\ NoStart(answers)
    /\ \A m \in asked \cup fetched : m.by # "start"

LEMMA TailFewer ==
    ASSUME NEW s, Plain(s), s # <<>>
    PROVE  Fewer(Tail(s), s) /\ (Head(s).by = "start" /\ OneStart(s) => NoStart(Tail(s)))
<1>1. PICK S : s \in Seq(S)
    BY DEF Plain
<1>2. Tail(s) \in Seq(S) /\ Len(s) \in Nat \ {0} /\ Len(Tail(s)) = Len(s) - 1 /\ Head(s) = s[1]
    BY <1>1
<1>3. \A i \in 1..Len(Tail(s)) : i + 1 \in 1..Len(s) /\ i + 1 # 1 /\ Tail(s)[i] = s[i + 1]
    BY <1>1, <1>2
<1>4. \A i, j \in 1..Len(Tail(s)) : i + 1 = j + 1 => i = j
    BY <1>2
<1>5. 1 \in 1..Len(s)
    BY <1>2
<1> QED
    BY <1>2, <1>3, <1>4, <1>5 DEF Fewer, Plain, NoStart, OneStart

LEMMA AppendFewer ==
    ASSUME NEW s, Plain(s), NEW m
    PROVE  /\ Plain(Append(s, m)) /\ (m.by # "start" => Fewer(Append(s, m), s))
           /\ NoStart(s) => OneStart(Append(s, m))
<1>1. PICK S : s \in Seq(S)
    BY DEF Plain
<1>2. s \in Seq(S \cup {m}) /\ Len(s) \in Nat
    BY <1>1
<1>3. /\ Append(s, m) \in Seq(S \cup {m}) /\ Len(Append(s, m)) = Len(s) + 1
      /\ \A i \in 1..Len(s) + 1 :
            \/ i \in 1..Len(s) /\ Append(s, m)[i] = s[i]
            \/ i = Len(s) + 1 /\ Append(s, m)[i] = m
    BY <1>2
<1> QED
    BY <1>2, <1>3 DEF Fewer, Plain, NoStart, OneStart

LEMMA ForsakenFewer ==
    ASSUME NEW s, Plain(s), NEW a
    PROVE  Fewer(forsaken(a, s), s)
<1>1. Len(s) \in Nat
    BY DEF Plain
<1> DEFINE t == forsaken(a, s)
           m(i) == IF s[i].by = a.by THEN [s[i] EXCEPT !.by = "nobody"] ELSE s[i]
           T == {m(i) : i \in 1..Len(s)}
<1>2. t = [i \in 1..Len(s) |-> m(i)]
    BY DEF forsaken
<1>3. t \in Seq(T) /\ Len(t) = Len(s)
    BY <1>1, <1>2
<1>4. \A i \in 1..Len(s) : t[i].by = "start" => s[i].by = "start"
    BY <1>2
<1> QED
    BY <1>3, <1>4 DEF Fewer, Plain, NoStart, OneStart

LEMMA ReadsFewer ==
    ASSUME NEW s, Plain(s), NEW r, r # "start", NEW ids, Plain(ids)
    PROVE  /\ Fewer(s \o Reads(r, ids), s)
           /\ \A m \in SetOf(Reads(r, ids)) : m.by # "start"
<1>1. PICK S : s \in Seq(S)
    BY DEF Plain
<1>2. Len(ids) \in Nat
    BY DEF Plain
<1> DEFINE q == Reads(r, ids)
           T == {read(r, ids[i]) : i \in 1..Len(ids)}
<1>3. q = [i \in 1..Len(ids) |-> read(r, ids[i])]
    BY DEF Reads
<1>4. q \in Seq(T) /\ Len(q) = Len(ids)
    BY <1>2, <1>3
<1>5. \A i \in 1..Len(ids) : q[i].by = r
    BY <1>3 DEF read
<1> HIDE DEF q
<1>6. s \in Seq(S \cup T) /\ q \in Seq(S \cup T) /\ Len(s) \in Nat
    BY <1>1, <1>4
<1>7. /\ s \o q \in Seq(S \cup T) /\ Len(s \o q) = Len(s) + Len(ids)
      /\ \A i \in 1..Len(s \o q) :
            \/ i \in 1..Len(s) /\ (s \o q)[i] = s[i]
            \/ i - Len(s) \in 1..Len(ids) /\ (s \o q)[i] = q[i - Len(s)]
    <2> HIDE DEF T
    <2>1. s \o q \in Seq(S \cup T)
        BY <1>6
    <2>2. Len(s \o q) = Len(s) + Len(ids)
        BY <1>4, <1>6
    <2>3. \A i \in 1..Len(s) + Len(q) :
            (s \o q)[i] = IF i <= Len(s) THEN s[i] ELSE q[i - Len(s)]
        BY <1>6
    <2> QED
        BY <1>2, <1>4, <1>6, <2>1, <2>2, <2>3
<1>8. \A i \in 1..Len(s \o q) : (s \o q)[i].by = "start" => i \in 1..Len(s) /\ (s \o q)[i] = s[i]
    BY <1>5, <1>7
<1>9. Fewer(s \o q, s)
    BY <1>7, <1>8 DEF Fewer, Plain, NoStart, OneStart
<1>10. \A m \in SetOf(q) : m.by # "start"
    BY <1>4, <1>5 DEF SetOf
<1> QED
    BY <1>9, <1>10 DEF q

LEMMA SameFewer == ASSUME NEW s, Plain(s) PROVE Fewer(s, s)
BY DEF Fewer

LEMMA FewerTwice ==
    ASSUME NEW s, NEW t, NEW u, Fewer(t, s), Fewer(u, t) PROVE Fewer(u, s)
BY DEF Fewer

\* What a step of some function may do to the requests of zoneStart: nothing.
Aside ==
    /\ Fewer(requests', requests) /\ \A m \in asked' : m.by # "start"

LEMMA AskAside ==
    ASSUME Starting, NEW r, r # "start", NEW ids, Plain(ids), ask(r, ids)
    PROVE  Aside
<1>1. Plain(requests) /\ \A m \in asked : m.by # "start"
    BY DEF Starting
<1>2. CASE requests' = requests \o Reads(r, ids) /\ UNCHANGED asked
    BY <1>1, <1>2, ReadsFewer DEF Aside
<1>3. CASE asked' = asked \cup SetOf(Reads(r, ids)) /\ UNCHANGED requests
    <2>1. \A m \in SetOf(Reads(r, ids)) : m.by # "start"
        BY <1>1, ReadsFewer
    <2> QED
        BY <1>1, <1>3, <2>1, SameFewer DEF Aside
<1> QED
    BY <1>2, <1>3 DEF ask

LEMMA SameAside == Starting /\ UNCHANGED <<requests, asked>> => Aside
BY SameFewer DEF Aside, Starting

LEMMA GiveUpAside == ASSUME Starting, NEW a, giveUp(a) PROVE Aside
BY ForsakenFewer DEF Starting, giveUp, Aside

LEMMA PlainPairs == ASSUME NEW x, NEW y PROVE Plain(<<x>>) /\ Plain(<<x, y>>)
<1>1. <<x>> \in Seq({x, y}) /\ <<x, y>> \in Seq({x, y})
    OBVIOUS
<1> QED
    BY <1>1 DEF Plain

LEMMA AnsweredAside ==
    ASSUME Starting, NEW a, answered(a)
    PROVE  /\ Aside
           /\ \/ a.by # "start" /\ start' = start
              \/ a.by = "start" /\ start' = "delay" /\ UNCHANGED requests
<1>1. CASE a.by = "refresh" /\ UNCHANGED start /\ refreshGoesOn(a.id, a.value)
    <2>1. \/ ask("refresh", <<"offer", "selected">>) \/ ask("refresh", <<"svg">>)
          \/ ask("refresh", <<"png">>) \/ UNCHANGED <<requests, asked>>
        BY <1>1 DEF refreshGoesOn
    <2> QED
        BY <1>1, <2>1, AskAside, SameAside, PlainPairs
<1>2. CASE a.by \in {"refresh", "toggle"} /\ UNCHANGED start /\ giveUp(a)
    BY <1>2, GiveUpAside
<1>3. CASE a.by = "toggle" /\ UNCHANGED start /\ ask("toggle", <<"offer", "selected">>)
    BY <1>3, AskAside, PlainPairs
<1>4. CASE a.by \in {"toggle", "nobody"} /\ UNCHANGED <<requests, asked, start>>
    BY <1>4, SameAside
<1>5. CASE a.by = "start" /\ start' = "delay" /\ UNCHANGED <<requests, asked>>
    BY <1>5, SameAside
<1> QED
    BY <1>1, <1>2, <1>3, <1>4, <1>5, Zenon DEF answered, readerVars

\* Where zoneStart goes on waiting, or waited for nothing, its requests and answers stay as
\* few as they are.
LEMMA AsideKeeps ==
    ASSUME Starting, Fewer(requests', requests), Fewer(answers', answers), UNCHANGED start,
           \A m \in asked' \cup fetched' : m.by # "start"
    PROVE  Starting'
BY DEF Starting, Fewer

LEMMA ServedKeeps ==
    ASSUME Starting, Serve
    PROVE  Starting'
<1> DEFINE m == Head(requests)
<1>1. /\ requests # <<>> /\ requests' = Tail(requests) /\ UNCHANGED <<asked, fetched, start>>
      /\ Plain(requests) /\ Plain(answers)
    BY DEF Serve, Starting, httpVars, readerVars
<1>2. Fewer(requests', requests)
    BY <1>1, TailFewer
<1>3. CASE UNCHANGED answers
    BY <1>1, <1>2, <1>3, AsideKeeps, SameFewer DEF Starting
<1>4. ASSUME NEW a, answers' = Append(answers, a), a.by = m.by
      PROVE  Starting'
    <2>1. CASE a.by # "start"
        BY <1>1, <1>2, <1>4, <2>1, AsideKeeps, AppendFewer DEF Starting
    <2>2. CASE a.by = "start"
        <3>1. ~NoStart(requests)
            <4>1. 1 \in 1..Len(requests) /\ m = requests[1]
                BY <1>1 DEF Plain
            <4> QED
                BY <1>4, <2>2, <4>1 DEF NoStart
        <3>2. start = "writing" /\ NoStart(answers) /\ OneStart(requests)
            BY <3>1 DEF Starting
        <3>3. NoStart(requests')
            BY <1>1, <1>4, <2>2, <3>2, TailFewer
        <3>4. OneStart(requests') /\ Plain(requests')
            BY <1>2, <3>2 DEF Fewer
        <3>5. OneStart(answers') /\ Plain(answers')
            BY <1>1, <1>4, <3>2, AppendFewer
        <3> QED
            BY <1>1, <3>2, <3>3, <3>4, <3>5 DEF Starting
    <2> QED
        BY <2>1, <2>2
<1>5. \/ UNCHANGED answers
      \/ answers' = Append(answers, reply(m, TRUE, states'))
      \/ answers' = Append(answers, reply(m, TRUE, states))
      \/ answers' = Append(answers, reply(m, FALSE, states))
    BY DEF Serve
<1>6. \A ok, s : reply(m, ok, s).by = m.by
    BY DEF reply
<1> QED
    BY <1>3, <1>4, <1>5, <1>6

LEMMA AnswerKeeps ==
    ASSUME Starting, AnswerArrives
    PROVE  Starting'
<1> DEFINE a == Head(answers)
<1>1. /\ answers # <<>> /\ answered(a) /\ Plain(answers)
      /\ answers' = IF a.ok THEN Tail(answers) ELSE forsaken(a, Tail(answers))
      /\ fetched' \subseteq fetched
    BY DEF AnswerArrives, Starting, Of
<1>2. Aside /\ \/ a.by # "start" /\ start' = start
               \/ a.by = "start" /\ start' = "delay" /\ UNCHANGED requests
    BY <1>1, AnsweredAside
<1>3. Fewer(Tail(answers), answers)
    BY <1>1, TailFewer
<1>4. Fewer(answers', Tail(answers))
    <2>1. Plain(Tail(answers))
        BY <1>3 DEF Fewer
    <2> QED
        BY <1>1, <2>1, ForsakenFewer, SameFewer
<1>5. Fewer(answers', answers)
    BY <1>3, <1>4, FewerTwice
<1>6. \A m \in asked' \cup fetched' : m.by # "start"
    BY <1>1, <1>2 DEF Aside, Starting
<1>7. CASE start' = start
    BY <1>2, <1>5, <1>6, <1>7, AsideKeeps DEF Aside
<1>8. CASE a.by = "start" /\ start' = "delay" /\ UNCHANGED requests
    <2>1. ~NoStart(answers)
        <3>1. 1 \in 1..Len(answers) /\ a = answers[1]
            BY <1>1 DEF Plain
        <3> QED
            BY <1>8, <3>1 DEF NoStart
    <2>2. NoStart(requests) /\ OneStart(answers) /\ OneStart(requests) /\ Plain(requests)
        BY <2>1 DEF Starting
    <2>3. NoStart(Tail(answers))
        BY <1>1, <1>8, <2>2, TailFewer
    <2>4. NoStart(answers') /\ OneStart(answers') /\ Plain(answers')
        BY <1>4, <1>5, <2>2, <2>3 DEF Fewer
    <2> QED
        BY <1>6, <1>8, <2>2, <2>4 DEF Starting
<1> QED
    BY <1>2, <1>7, <1>8

LEMMA StartingKept ==
    ASSUME Starting, [Next]_vars
    PROVE  Starting'
<1>1. CASE AnswerArrives
    BY <1>1, AnswerKeeps
<1>2. ASSUME NEW a \in fetched, ResponseArrives(a) PROVE Starting'
    <2>1. a.by # "start" /\ answered(a) /\ Plain(answers)
        BY <1>2 DEF Starting, ResponseArrives
    <2>2. Aside /\ start' = start
        BY <2>1, AnsweredAside
    <2>3. Fewer(answers', answers)
        BY <1>2, <2>1, ForsakenFewer, SameFewer DEF ResponseArrives
    <2>4. \A m \in asked' \cup fetched' : m.by # "start"
        BY <1>2, <2>2 DEF ResponseArrives, Aside, Starting, Of
    <2> QED
        BY <2>2, <2>3, <2>4, AsideKeeps DEF Aside
<1>3. CASE Poll
    <2>1. Aside
        BY <1>3, AskAside, PlainPairs DEF Poll
    <2> QED
        BY <1>3, <2>1, AsideKeeps, SameFewer DEF Poll, Aside, Starting
<1>4. CASE Connect
    <2>1. requests' \in Seq({subscribe, read("refresh", "colour")}) /\ Len(requests') \in {1, 2}
        <3> DEFINE c == read("refresh", "colour")
        <3>1. /\ <<subscribe>> \in Seq({subscribe, c}) /\ <<subscribe, c>> \in Seq({subscribe, c})
              /\ Len(<<subscribe>>) = 1 /\ Len(<<subscribe, c>>) = 2
            OBVIOUS
        <3>2. requests' = <<subscribe>> \/ requests' = <<subscribe, c>>
            BY <1>4, Zenon DEF Connect
        <3> HIDE DEF c
        <3>3. requests' \in Seq({subscribe, c}) /\ Len(requests') \in {1, 2}
            BY <3>1, <3>2
        <3> QED
            BY <3>3 DEF c
    <2>2. \A i \in 1..Len(requests') : requests'[i].by # "start"
        BY <1>4 DEF Connect, subscribe, read
    <2>3. Fewer(requests', requests)
        BY <2>1, <2>2 DEF Fewer, Plain, NoStart, OneStart
    <2> QED
        BY <1>4, <2>3, AsideKeeps, SameFewer DEF Connect, Starting, httpVars
<1>5. CASE Disconnect
    <2>1. requests' = <<>> /\ answers' = <<>> /\ UNCHANGED <<asked, fetched, start>>
        BY <1>5 DEF Disconnect, disconnected, httpVars, readerVars
    <2>2. Plain(<<>>) /\ NoStart(<<>>) /\ OneStart(<<>>)
        BY DEF Plain, NoStart, OneStart
    <2> QED
        BY <2>1, <2>2 DEF Starting
<1>6. CASE ChangeArrives
    BY <1>6, AsideKeeps, SameFewer DEF ChangeArrives, Starting, httpVars, readerVars
<1>7. ASSUME NEW z \in Zones, toggleZone(z) PROVE Starting'
    <2>1. UNCHANGED <<answers, fetched, start>>
        BY <1>7 DEF toggleZone
    <2>2. Aside
        <3>1. CASE ask("toggle", <<"offer", "selected">>)
            BY <3>1, AskAside, PlainPairs
        <3>2. ASSUME NEW m, m.by = "toggle", requests' = Append(requests, m), UNCHANGED asked
              PROVE  Aside
            BY <3>2, AppendFewer DEF Aside, Starting
        <3>3. \/ ask("toggle", <<"offer", "selected">>)
              \/ UNCHANGED asked /\ \E m : m.by = "toggle" /\ requests' = Append(requests, m)
            BY <1>7, Zenon DEF toggleZone
        <3> QED
            BY <3>1, <3>2, <3>3
    <2> QED
        BY <2>1, <2>2, AsideKeeps, SameFewer DEF Aside, Starting
<1>8. CASE zoneStart
    <2>1. start = "none" /\ UNCHANGED <<answers, asked, fetched>>
        BY <1>8 DEF zoneStart, httpVars
    <2>2. NoStart(requests) /\ NoStart(answers) /\ Plain(requests)
        BY <2>1 DEF Starting
    <2>3. CASE start' = "delay" /\ UNCHANGED requests
        BY <2>1, <2>2, <2>3 DEF Starting
    <2>4. ASSUME start' = "writing", NEW m, requests' = Append(requests, m) PROVE Starting'
        <3>1. OneStart(requests') /\ Plain(requests')
            BY <2>2, <2>4, AppendFewer
        <3> QED
            BY <2>1, <2>2, <2>4, <3>1 DEF Starting
    <2> QED
        BY <1>8, <2>3, <2>4, Zenon DEF zoneStart
<1>9. CASE StartDelayEnds
    BY <1>9 DEF StartDelayEnds, Starting, socketVars, httpVars
<1>10. CASE Images \/ UNCHANGED vars \/ \E id \in DOMAIN states : Change(id)
    <2>1. UNCHANGED <<requests, answers, asked, fetched, start>>
        BY <1>10 DEF Images, Preloaded, PreloadFails, ImageFails, Change, socketVars,
                     httpVars, readerVars, vars
    <2> QED
        BY <2>1 DEF Starting
<1>11. CASE Serve
    BY <1>11, ServedKeeps
<1>12. ASSUME NEW m \in asked, ServeHttp(m) PROVE Starting'
    <2>1. UNCHANGED <<requests, answers, start>> /\ asked' \subseteq asked
        BY <1>12 DEF ServeHttp, socketVars, readerVars
    <2>2. \A a \in fetched' : a \in fetched \/ a.by = m.by
        BY <1>12 DEF ServeHttp, reply
    <2> QED
        BY <2>1, <2>2, AsideKeeps, SameFewer DEF Starting
<1> QED
    BY <1>1, <1>2, <1>3, <1>4, <1>5, <1>6, <1>7, <1>8, <1>9, <1>10, <1>11, <1>12
       DEF Next, Reading, Socket, User, Server


\* The button has just been updated.
LEMMA UpdatedInStep == ASSUME updateInteractionUi PROVE StartActionInStep'
<1> DEFINE shown == validSelectedZoneIds(view') # {}
           enabled == connected' /\ toggle' = "none" /\ start' = "none"
<1>1. button' = [shown |-> shown, enabled |-> enabled]
    BY DEF updateInteractionUi
<1>2. button'.shown = shown /\ button'.enabled = enabled
    <2> HIDE DEF shown, enabled
    <2> QED
        BY <1>1, Zenon
<1>3. button'.enabled => enabled
    <2> HIDE DEF enabled
    <2> QED
        BY <1>2, Zenon
<1> QED
    BY <1>2, <1>3, Zenon DEF StartActionInStep, validSelectedZoneIds

\* The button may be left alone where the view is, and where no write begins.
LEMMA LeftInStep ==
    ASSUME StartActionInStep, UNCHANGED <<view, button>>, connected => connected',
           toggle = "none" => toggle' = "none", start = "none" => start' = "none"
    PROVE  StartActionInStep'
BY DEF StartActionInStep, validSelectedZoneIds

LEMMA AnsweredInStep ==
    ASSUME StartActionInStep, NEW a, answered(a), a.by = "start" => start = "writing",
           UNCHANGED connected
    PROVE  StartActionInStep'
<1>1. CASE a.by = "refresh" /\ UNCHANGED <<toggle, start>> /\ refreshGoesOn(a.id, a.value)
    <2>1. updateInteractionUi \/ UNCHANGED <<view, button>>
        BY <1>1 DEF refreshGoesOn
    <2> QED
        BY <1>1, <2>1, UpdatedInStep, LeftInStep
<1>2. CASE toggle = "rereading" /\ UNCHANGED start /\ rereadGoesOn(a.id, a.value)
    <2>1. updateInteractionUi \/ UNCHANGED <<view, button, toggle>>
        BY <1>2 DEF rereadGoesOn
    <2> QED
        BY <1>2, <2>1, UpdatedInStep, LeftInStep
<1>3. CASE updateInteractionUi
    BY <1>3, UpdatedInStep
<1>4. CASE /\ UNCHANGED <<view, button>>
           /\ start' = start \/ start = "writing"
           /\ toggle' = toggle \/ toggle = "writing"
    BY <1>4, LeftInStep
<1> QED
    BY <1>1, <1>2, <1>3, <1>4 DEF answered, readerVars

LEMMA InStepKept ==
    ASSUME Starting, StartActionInStep, [Next]_vars
    PROVE  StartActionInStep'
<1>1. CASE AnswerArrives
    <2> DEFINE a == Head(answers)
    <2>1. answered(a) /\ answers # <<>> /\ Plain(answers) /\ UNCHANGED connected
        BY <1>1 DEF AnswerArrives, Starting
    <2>2. 1 \in 1..Len(answers) /\ a = answers[1]
        BY <2>1 DEF Plain
    <2>3. a.by = "start" => start = "writing"
        BY <2>2 DEF Starting, NoStart
    <2> QED
        BY <2>1, <2>3, AnsweredInStep
<1>2. ASSUME NEW a \in fetched, ResponseArrives(a) PROVE StartActionInStep'
    <2>1. a.by # "start" /\ answered(a) /\ UNCHANGED connected
        BY <1>2 DEF ResponseArrives, Starting
    <2> QED
        BY <2>1, AnsweredInStep
<1>3. CASE Disconnect \/ zoneStart \/ StartDelayEnds \/ \E z \in Zones : toggleZone(z)
    <2>1. updateInteractionUi
        BY <1>3 DEF Disconnect, zoneStart, StartDelayEnds, toggleZone
    <2> QED
        BY <2>1, UpdatedInStep
<1>4. CASE ChangeArrives
    <2>1. /\ updateInteractionUi \/ UNCHANGED <<view, button>>
          /\ UNCHANGED <<connected, toggle, start>>
        BY <1>4 DEF ChangeArrives, readerVars
    <2> QED
        BY <2>1, UpdatedInStep, LeftInStep
<1>5. CASE Connect
    BY <1>5, LeftInStep DEF Connect
<1>6. CASE Poll
    BY <1>6, LeftInStep DEF Poll
<1>7. CASE Images \/ Server \/ UNCHANGED vars
    <2>1. UNCHANGED <<connected, toggle, start, view, button>>
        BY <1>7 DEF Images, Preloaded, PreloadFails, ImageFails, Server, Serve, ServeHttp,
                    Change, socketVars, readerVars, vars
    <2> QED
        BY <2>1, LeftInStep
<1> QED
    BY <1>1, <1>2, <1>3, <1>4, <1>5, <1>6, <1>7 DEF Next, Reading, Socket, User

LEMMA InitInStep == Init => Starting /\ StartActionInStep
<1> SUFFICES ASSUME Init PROVE Starting /\ StartActionInStep
    OBVIOUS
<1>1. Plain(<<>>) /\ NoStart(<<>>) /\ OneStart(<<>>)
    BY DEF Plain, NoStart, OneStart
<1>2. Starting
    BY <1>1 DEF Init, Starting, read
<1>3. StartActionInStep
    BY DEF Init, StartActionInStep, validSelectedZoneIds
<1> QED
    BY <1>2, <1>3

\* The start action is shown exactly while a selected zone is on offer and can be pressed
\* only while connected and not writing, whatever answers, events, clicks and failures
\* interleave: every handler that changes one of these updates the button, and the answer
\* that ends the wait of zoneStart is the one it waits for.
THEOREM StartActionKeepsUp == Spec => []StartActionInStep
<1>1. Init => Starting /\ StartActionInStep
    BY InitInStep
<1>2. Starting /\ StartActionInStep /\ [Next]_vars => (Starting /\ StartActionInStep)'
    BY StartingKept, InStepKept
<1> QED
    BY <1>1, <1>2, PTL DEF Spec

=============================================================================
