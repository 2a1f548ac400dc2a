--------------------------- MODULE LiveMapProofs ---------------------------
(***************************************************************************)
(* Proofs about the live map, for any statuses, maps and lengths of the    *)
(* trail: an interrupted task keeps its trail, and once all handlers are   *)
(* done the states say what the adapter knows, however the handlers and    *)
(* their writes have interleaved.                                          *)
(***************************************************************************)
EXTENDS LiveMap, TLAPS

Plain(s) == \E S : s \in Seq(S)

-----------------------------------------------------------------------------
(* What a handler has yet to do *)

Renders == {"pose", "map", "render"}

\* A step of a program: what renders is the last before a write or the end, and a merge is
\* followed by a write and the map.
Ordinary(q, i) ==
    \/ q[i] = other \/ q[i] = Do("activity")
    \/ /\ q[i] \in {Do("pose"), Do("render")} \cup {DoMap("map", m) : m \in Maps}
       /\ i < Len(q) => q[i + 1] = other
    \/ /\ q[i] \in {DoMap("merge", m) : m \in MapIds}
       /\ i + 2 <= Len(q) /\ q[i + 1] = other /\ q[i + 2] \in {DoMap("map", m) : m \in Maps}
Rest(q) == Plain(q) /\ \A i \in 1..Len(q) : Ordinary(q, i)

\* What a handler whose write w is outstanding does next: the other parts of w's picture,
\* then q.
After(w, q) ==
    CASE w.id = "svg" -> <<write("png", w.value), write("areas", w.value)>> \o q
      [] w.id = "png" -> <<write("areas", w.value)>> \o q
      [] OTHER -> q

Ids == {"svg", "png", "areas", "setting", "selected", "activity", "other"}
Fits(w, p) == w.id \in Ids /\ \E q : Rest(q) /\ p = After(w, q)

Holds(p, K) == \E i \in 1..Len(p) : p[i].do \in K

\* Some handler has yet to do something of kinds K.
Owes(K) == \E e \in DOMAIN running : Holds(running[e], K)

-----------------------------------------------------------------------------
(* The invariants *)

\* The trail is cleared by a sweep that leaves the dock; no task is active that has reached it.
TrailInv ==
    /\ Plain(trail)
    /\ docked = FALSE \/ docked = TRUE
    /\ active = FALSE \/ active = TRUE
    /\ docked => ~active

\* Every outstanding write is the only one of a handler, which goes on accordingly.
Handlers ==
    /\ Plain(writes) /\ DOMAIN states = Ids
    /\ events \in Nat /\ DOMAIN running \subseteq 1..events
    /\ \A i \in 1..Len(writes) :
        /\ writes[i].by \in DOMAIN running
        /\ Fits(writes[i].write, running[writes[i].by])
        /\ \A j \in 1..Len(writes) : i # j => writes[i].by # writes[j].by

Inbox ==
    /\ Plain(inbox) /\ selected \in BOOLEAN
    /\ \A i \in 1..Len(inbox) : inbox[i].id = "selected" => inbox[i].value \in BOOLEAN
InInbox(id) == \E i \in 1..Len(inbox) : inbox[i].id = id

\* What state id will say once the writes issued so far are complete: the value of the last
\* of them, or what it says already.
WritesOf(ws, id) == {i \in 1..Len(ws) : ws[i].write.id = id}
Latest(ws, st, id) ==
    LET own == WritesOf(ws, id)
    IN IF own = {} THEN {st[id]}
       ELSE {ws[i].write.value : i \in {k \in own : \A j \in own : j <= k}}

\* A setting or the selection: the user has written it since, or it will say v.
Settled(id, v) == InInbox(id) \/ \A x \in Latest(writes, states, id) : x = v

\* The activity will be derived again, or what it will say follows.
ActivityKnown ==
    \/ Owes({"activity"})
    \/ \A x \in Latest(writes, states, "activity") :
          \E c \in {inferred, TRUE} : x = deriveRobotActivity(cloud, gateway, mode, c)

\* Part b of a picture follows part a.
InStep(a, b) ==
    WritesOf(writes, a) = {} => \A x \in Latest(writes, states, b) : x = states[a]

\* The picture will be rendered again, or the last one issued shows what is known.
Shows(f) ==
    /\ f.map = mapData.event /\ f.zones = shown(mapData, catalog)
    /\ f.setting = setting /\ f.selected = selected
    /\ f.trail = trail \/ trail = <<>>
PictureKnown ==
    mapData.map # None => Owes(Renders) \/ \A f \in Latest(writes, states, "svg") : Shows(f)

LiveInv ==
    /\ Handlers
    /\ Inbox
    /\ Settled("setting", setting) /\ Settled("selected", selected)
    /\ ActivityKnown
    /\ InStep("svg", "png") /\ InStep("png", "areas")
    /\ PictureKnown

-----------------------------------------------------------------------------
(* Sequences *)

\* The tail is the sequence without its first element.
LEMMA TailFacts ==
    ASSUME NEW s, Plain(s), s # <<>>
    PROVE  /\ Plain(Tail(s)) /\ Len(s) \in Nat \ {0} /\ Len(Tail(s)) = Len(s) - 1
           /\ Head(s) = s[1] /\ \A i \in 1..Len(s) - 1 : Tail(s)[i] = s[i + 1]
<1>1. PICK S : s \in Seq(S)
    BY DEF Plain
<1>2. Tail(s) \in Seq(S)
    BY <1>1
<1> QED
    BY <1>1, <1>2 DEF Plain

\* What is appended is the last element.
LEMMA AppendFacts ==
    ASSUME NEW s, Plain(s), NEW a
    PROVE  /\ Plain(Append(s, a)) /\ Len(s) \in Nat /\ Len(Append(s, a)) = Len(s) + 1
           /\ \A i \in 1..Len(s) + 1 : Append(s, a)[i] = IF i = Len(s) + 1 THEN a ELSE s[i]
<1>1. PICK S : s \in Seq(S)
    BY DEF Plain
<1>2. s \in Seq(S \cup {a}) /\ Len(s) \in Nat
    BY <1>1
<1>3. Append(s, a) \in Seq(S \cup {a})
    BY <1>2
<1> QED
    BY <1>2, <1>3 DEF Plain

\* A step put before a sequence is its head, and the sequence its tail.
LEMMA ConsFacts ==
    ASSUME NEW s, Plain(s), NEW a
    PROVE  /\ Plain(<<a>> \o s) /\ <<a>> \o s # <<>>
           /\ Head(<<a>> \o s) = a /\ Tail(<<a>> \o s) = s
           /\ Len(s) \in Nat /\ Len(<<a>> \o s) = Len(s) + 1
           /\ \A i \in 1..Len(s) + 1 : (<<a>> \o s)[i] = IF i = 1 THEN a ELSE s[i - 1]
<1>1. PICK S : s \in Seq(S)
    BY DEF Plain
<1> DEFINE T == S \cup {a}
           c == <<a>> \o s
<1>2. s \in Seq(T) /\ <<a>> \in Seq(T) /\ Len(s) \in Nat
    BY <1>1
<1>3. c \in Seq(T) /\ Len(c) = Len(s) + 1
    BY <1>2
<1>4. \A i \in 1..Len(s) + 1 : c[i] = IF i = 1 THEN a ELSE s[i - 1]
    BY <1>2
<1>5. c # <<>> /\ Head(c) = a
    BY <1>2, <1>3, <1>4
<1>6. Tail(c) \in Seq(T) /\ Len(Tail(c)) = Len(s) /\ \A i \in 1..Len(s) : Tail(c)[i] = s[i]
    BY <1>2, <1>3, <1>4, <1>5
<1>7. Tail(c) = s
    BY <1>2, <1>6
<1> QED
    BY <1>2, <1>3, <1>4, <1>5, <1>7 DEF Plain

\* Two steps put before a sequence are put there one by one.
LEMMA PairConsFacts ==
    ASSUME NEW s, Plain(s), NEW a, NEW b
    PROVE  /\ Plain(<<a, b>> \o s) /\ <<a, b>> \o s = <<a>> \o (<<b>> \o s)
<1>1. PICK S : s \in Seq(S)
    BY DEF Plain
<1> DEFINE T == S \cup {a, b}
<1>2. s \in Seq(T) /\ <<a>> \in Seq(T) /\ <<b>> \in Seq(T) /\ <<a, b>> \in Seq(T)
    BY <1>1
<1> DEFINE t == <<b>> \o s
           u == <<a>> \o t
           v == <<a, b>> \o s
<1>3. t \in Seq(T) /\ u \in Seq(T) /\ v \in Seq(T)
    BY <1>2
<1>4. Len(t) = Len(s) + 1 /\ Len(u) = Len(s) + 2 /\ Len(v) = Len(s) + 2
    BY <1>2
<1>5. \A i \in 1..Len(s) + 1 : t[i] = IF i = 1 THEN b ELSE s[i - 1]
    BY <1>2
<1>6. \A i \in 1..Len(t) + 1 : u[i] = IF i = 1 THEN a ELSE t[i - 1]
    BY <1>2, <1>3
<1>7. \A i \in 1..Len(s) + 2 : v[i] = IF i = 1 THEN a ELSE IF i = 2 THEN b ELSE s[i - 2]
    BY <1>2
<1> HIDE DEF t, u, v
<1>8. \A i \in 1..Len(s) + 2 : u[i] = v[i]
    BY <1>2, <1>4, <1>5, <1>6, <1>7
<1>9. u = v
    BY <1>2, <1>3, <1>4, <1>8
<1> QED
    BY <1>3, <1>9 DEF Plain, t, u, v

\* Of three steps put before a sequence the first is its head.
LEMMA TripleConsFacts ==
    ASSUME NEW s, Plain(s), NEW a, NEW b, NEW c
    PROVE  /\ <<a, b, c>> \o s # <<>> /\ Head(<<a, b, c>> \o s) = a
           /\ Tail(<<a, b, c>> \o s) = <<b, c>> \o s
<1>1. PICK S : s \in Seq(S)
    BY DEF Plain
<1> DEFINE T == S \cup {a, b, c}
           u == <<b, c>> \o s
           v == <<a, b, c>> \o s
<1>2. s \in Seq(T) /\ <<b, c>> \in Seq(T) /\ <<a, b, c>> \in Seq(T) /\ Len(s) \in Nat
    BY <1>1
<1>3. u \in Seq(T) /\ v \in Seq(T) /\ Len(u) = Len(s) + 2 /\ Len(v) = Len(s) + 3
    BY <1>2
<1>4. \A i \in 1..Len(s) + 2 : u[i] = IF i = 1 THEN b ELSE IF i = 2 THEN c ELSE s[i - 2]
    BY <1>2
<1>5. \A i \in 1..Len(s) + 3 :
          v[i] = IF i = 1 THEN a ELSE IF i = 2 THEN b ELSE IF i = 3 THEN c ELSE s[i - 3]
    BY <1>2
<1> HIDE DEF u, v
<1>6. v # <<>> /\ Head(v) = a
    BY <1>2, <1>3, <1>5
<1>7. Tail(v) \in Seq(T) /\ Len(Tail(v)) = Len(s) + 2
    BY <1>2, <1>3, <1>6
<1>8. \A i \in 1..Len(s) + 2 : Tail(v)[i] = v[i + 1]
    BY <1>2, <1>3, <1>6
<1>9. ASSUME NEW i \in 1..Len(s) + 2 PROVE Tail(v)[i] = u[i]
    <2>1. i + 1 \in 1..Len(s) + 3 /\ i + 1 # 1 /\ (i + 1 = 2 <=> i = 1) /\ (i + 1 = 3 <=> i = 2)
          /\ i + 1 - 3 = i - 2
        BY <1>2
    <2>2. Tail(v)[i] = v[i + 1]
        BY <1>8
    <2>3. v[i + 1] = IF i = 1 THEN b ELSE IF i = 2 THEN c ELSE s[i + 1 - 3]
        BY <2>1, <1>5
    <2>4. u[i] = IF i = 1 THEN b ELSE IF i = 2 THEN c ELSE s[i - 2]
        BY <1>4
    <2> QED
        BY <2>1, <2>2, <2>3, <2>4
<1>10. Tail(v) = u
    BY <1>2, <1>3, <1>7, <1>9
<1> QED
    BY <1>6, <1>10 DEF u, v

\* Nothing put before or after a sequence changes it.
LEMMA EmptyFacts ==
    ASSUME NEW s, Plain(s)
    PROVE  <<>> \o s = s /\ s \o <<>> = s
BY DEF Plain

-----------------------------------------------------------------------------
(* Programs *)

\* A program has a kind of step if its first step is one or the others have one.
LEMMA HoldsCons ==
    ASSUME NEW s, Plain(s), NEW a, NEW K
    PROVE  Holds(<<a>> \o s, K) <=> (a.do \in K \/ Holds(s, K))
<1> DEFINE c == <<a>> \o s
<1>1. /\ Len(s) \in Nat /\ Len(c) = Len(s) + 1
      /\ \A i \in 1..Len(s) + 1 : c[i] = IF i = 1 THEN a ELSE s[i - 1]
    BY ConsFacts
<1> HIDE DEF c
<1>2. ASSUME NEW i \in 1..Len(s), s[i].do \in K PROVE Holds(c, K)
    <2>1. i + 1 \in 1..Len(c) /\ c[i + 1] = s[i]
       BY <1>1
    <2> QED
        BY <2>1, <1>2 DEF Holds
<1>3. ASSUME NEW i \in 1..Len(c), c[i].do \in K PROVE a.do \in K \/ Holds(s, K)
    BY <1>1, <1>3 DEF Holds
<1>4. ASSUME a.do \in K PROVE Holds(c, K)
    BY <1>1, <1>4 DEF Holds
<1> QED
    BY <1>2, <1>3, <1>4 DEF Holds, c

\* ... and so for a program that is taken apart.
LEMMA HoldsTail ==
    ASSUME NEW s, Plain(s), s # <<>>, NEW K
    PROVE  Holds(s, K) <=> (Head(s).do \in K \/ Holds(Tail(s), K))
<1>1. /\ Plain(Tail(s)) /\ Len(s) \in Nat \ {0} /\ Len(Tail(s)) = Len(s) - 1
      /\ Head(s) = s[1] /\ \A i \in 1..Len(s) - 1 : Tail(s)[i] = s[i + 1]
    BY TailFacts
<1>2. ASSUME NEW i \in 1..Len(s), s[i].do \in K PROVE Head(s).do \in K \/ Holds(Tail(s), K)
    <2>1. CASE i = 1
        BY <2>1, <1>1, <1>2
    <2>2. CASE i # 1
        <3>1. i - 1 \in 1..Len(Tail(s)) /\ Tail(s)[i - 1] = s[i]
            BY <2>2, <1>1
        <3> QED
            BY <3>1, <1>2 DEF Holds
    <2> QED
        BY <2>1, <2>2
<1>3. ASSUME NEW i \in 1..Len(Tail(s)), Tail(s)[i].do \in K PROVE Holds(s, K)
    <2>1. i + 1 \in 1..Len(s) /\ s[i + 1] = Tail(s)[i]
        BY <1>1
    <2> QED
        BY <2>1, <1>3 DEF Holds
<1>4. ASSUME Head(s).do \in K PROVE Holds(s, K)
    BY <1>1, <1>4 DEF Holds
<1> QED
    BY <1>2, <1>3, <1>4 DEF Holds

\* The program that has ended.
LEMMA EmptyRest == Rest(<<>>)
<1>1. <<>> \in Seq({}) /\ Len(<<>>) = 0
    OBVIOUS
<1> QED
    BY <1>1 DEF Rest, Plain

\* What is left after a step is a program.
LEMMA RestTail ==
    ASSUME NEW q, Rest(q), q # <<>>
    PROVE  Rest(Tail(q))
BY TailFacts DEF Rest, Ordinary

\* The first step of a program, and what may follow it.
LEMMA RestHead ==
    ASSUME NEW q, Rest(q), q # <<>>
    PROVE  /\ Rest(Tail(q))
           /\ \/ Head(q) = other \/ Head(q) = Do("activity")
              \/ /\ Head(q) \in {Do("pose"), Do("render")} \cup {DoMap("map", m) : m \in Maps}
                 /\ Tail(q) # <<>> => Head(Tail(q)) = other
              \/ /\ Head(q) \in {DoMap("merge", m) : m \in MapIds}
                 /\ Tail(q) # <<>> /\ Head(Tail(q)) = other
                 /\ Tail(Tail(q)) # <<>> /\ Head(Tail(Tail(q))).do = "map"
<1> DEFINE t == Tail(q)
           u == Tail(t)
<1>1. /\ Plain(t) /\ Len(q) \in Nat \ {0} /\ Len(t) = Len(q) - 1
      /\ Head(q) = q[1] /\ \A i \in 1..Len(q) - 1 : t[i] = q[i + 1]
    BY TailFacts DEF Rest
<1>2. t # <<>> => /\ Plain(u) /\ Len(t) \in Nat \ {0} /\ Len(u) = Len(t) - 1
                  /\ Head(t) = t[1] /\ \A i \in 1..Len(t) - 1 : u[i] = t[i + 1]
    BY <1>1, TailFacts
<1>3. u # <<>> /\ t # <<>> => Head(u) = u[1]
    BY <1>2, TailFacts
<1>4. Len(q) >= 2 => t # <<>>
    <2> HIDE DEF t
    <2>1. t = <<>> => Len(t) = 0
        OBVIOUS
    <2> QED
        BY <2>1, <1>1
<1>5. Len(q) >= 3 => u # <<>> /\ t # <<>>
    BY <1>1, <1>2, <1>4
<1>6. t # <<>> => Len(q) >= 2 /\ Head(t) = q[2]
    BY <1>1, <1>2
<1>7. ASSUME Len(q) >= 3 PROVE Head(u) = q[3]
    <2>1. 1 \in 1..Len(t) - 1 /\ 2 \in 1..Len(q) - 1
        BY <1>1, <1>7
    <2>2. Head(u) = u[1] /\ u[1] = t[2] /\ t[2] = q[3]
        BY <2>1, <1>1, <1>2, <1>3, <1>5, <1>7
    <2> QED
        BY <2>2
<1>8. Rest(t)
    BY RestTail
<1> HIDE DEF t, u
<1>9. 1 \in 1..Len(q) /\ Head(q) = q[1]
    BY <1>1
<1>10. CASE q[1] = other \/ q[1] = Do("activity")
    BY <1>8, <1>9, <1>10 DEF t
<1>11. CASE /\ q[1] \in {Do("pose"), Do("render")} \cup {DoMap("map", m) : m \in Maps}
            /\ 1 < Len(q) => q[1 + 1] = other
    <2>1. t # <<>> => Head(t) = other
        BY <1>1, <1>6, <1>11
    <2> QED
        BY <2>1, <1>8, <1>9, <1>11 DEF t
<1>12. CASE /\ q[1] \in {DoMap("merge", m) : m \in MapIds}
            /\ 1 + 2 <= Len(q) /\ q[1 + 1] = other /\ q[1 + 2] \in {DoMap("map", m) : m \in Maps}
    <2>1. t # <<>> /\ u # <<>> /\ Head(t) = other /\ Head(u) = q[3]
        BY <1>1, <1>5, <1>6, <1>7, <1>12
    <2>2. Head(u).do = "map"
        BY <2>1, <1>12 DEF DoMap
    <2> QED
        BY <2>1, <2>2, <1>8, <1>9, <1>12 DEF t, u
<1> QED
    BY <1>9, <1>10, <1>11, <1>12 DEF Rest, Ordinary

\* A step put before a program it may precede.
LEMMA RestCons ==
    ASSUME NEW q, Rest(q), NEW a,
           \/ a = other \/ a = Do("activity")
           \/ /\ a \in {Do("pose"), Do("render")} \cup {DoMap("map", m) : m \in Maps}
              /\ q = <<>> \/ Head(q) = other
           \/ /\ a \in {DoMap("merge", m) : m \in MapIds}
              /\ q # <<>> /\ Head(q) = other /\ Tail(q) # <<>>
              /\ Head(Tail(q)) \in {DoMap("map", m) : m \in Maps}
    PROVE  Rest(<<a>> \o q)
<1> DEFINE c == <<a>> \o q
           n == Len(q)
<1>1. /\ Plain(c) /\ n \in Nat /\ Len(c) = n + 1
      /\ \A i \in 1..n + 1 : c[i] = IF i = 1 THEN a ELSE q[i - 1]
    <2>1. Plain(q)
        BY DEF Rest
    <2>2. Plain(c) /\ n \in Nat /\ Len(c) = n + 1
        BY <2>1, ConsFacts
    <2>3. \A i \in 1..n + 1 : c[i] = IF i = 1 THEN a ELSE q[i - 1]
        BY <2>1, ConsFacts
    <2> QED
        BY <2>2, <2>3
<1>2. q # <<>> => n >= 1 /\ c[2] = Head(q)
    <2>1. q # <<>> => n >= 1 /\ Head(q) = q[1]
        BY TailFacts DEF Rest
    <2> QED
        BY <2>1, <1>1
<1>3. q # <<>> /\ Tail(q) # <<>> => n >= 2 /\ c[3] = Head(Tail(q))
    <2>1. ASSUME q # <<>>, Tail(q) # <<>> PROVE n >= 2 /\ Head(Tail(q)) = q[2]
        <3>1. /\ Plain(Tail(q)) /\ Len(Tail(q)) = n - 1
              /\ \A i \in 1..n - 1 : Tail(q)[i] = q[i + 1]
            BY <2>1, TailFacts DEF Rest
        <3>2. Len(Tail(q)) \in Nat \ {0} /\ Head(Tail(q)) = Tail(q)[1]
            BY <2>1, <3>1, TailFacts
        <3>3. n >= 2
            BY <3>1, <3>2, <1>1
        <3>4. 1 \in 1..n - 1
            BY <3>3, <1>1
        <3> QED
            BY <3>1, <3>2, <3>3, <3>4
    <2> QED
        BY <2>1, <1>1
<1>4. q = <<>> => n = 0
    OBVIOUS
<1> HIDE DEF c, n
<1>5. c[1] = a
    BY <1>1
<1>6. ASSUME NEW i \in 1..n
      PROVE  /\ c[i + 1] = q[i] /\ i + 1 \in 1..n + 1
             /\ i + 1 < n + 1 => i < n /\ c[i + 1 + 1] = q[i + 1]
             /\ i + 2 <= n => /\ i + 1 + 2 <= n + 1 /\ c[i + 1 + 1] = q[i + 1]
                              /\ c[i + 1 + 2] = q[i + 2]
    BY <1>1
<1>7. Ordinary(c, 1)
    BY <1>1, <1>2, <1>3, <1>4, <1>5 DEF Ordinary
<1>8. ASSUME NEW i \in 1..n PROVE Ordinary(c, i + 1)
    <2>1. Ordinary(q, i)
        BY DEF Rest, n
    <2> QED
        BY <2>1, <1>1, <1>6 DEF n, Ordinary
<1>9. \A k \in 1..n + 1 : k = 1 \/ \E i \in 1..n : k = i + 1
    <2>1. \A k \in 1..n + 1 : k = 1 \/ (k - 1 \in 1..n /\ k = (k - 1) + 1)
        BY <1>1
    <2> QED
        BY <2>1
<1>10. \A k \in 1..n + 1 : Ordinary(c, k)
    BY <1>7, <1>8, <1>9
<1> QED
    BY <1>1, <1>10 DEF Rest, c

\* The write of a state no property is about.
LEMMA OtherFacts == other.id = "other" /\ other.id \in Ids \ {"svg", "png"}
BY DEF other, write, Ids

\* The states the writes are of.
LEMMA ActionIds ==
    /\ other.id = "other"
    /\ \A v : /\ write("activity", v).id = "activity"
              /\ write("svg", v).id = "svg" /\ write("svg", v).value = v
BY DEF other, write

\* The program of a handler that only answers.
LEMMA SingleProgram ==
    ASSUME NEW x, x.id \in Ids \ {"svg", "png"}
    PROVE  Head(<<x>>) = x /\ Fits(x, Tail(<<x>>))
<1>1. Tail(<<x>>) = <<>> /\ Head(<<x>>) = x
    OBVIOUS
<1> QED
    BY <1>1, EmptyRest DEF Fits, After

\* The program of a handler that writes and then does one thing.
LEMMA PairProgram ==
    ASSUME NEW x, NEW a, x.id \in Ids \ {"svg", "png"},
           a \in {Do("activity"), Do("pose"), Do("render")} \cup {DoMap("map", m) : m \in Maps}
    PROVE  /\ Head(<<x, a>>) = x /\ Fits(x, Tail(<<x, a>>))
           /\ \A K : a.do \in K => Holds(Tail(<<x, a>>), K)
<1>1. Tail(<<x, a>>) = <<a>> \o <<>> /\ Head(<<x, a>>) = x
    OBVIOUS
<1>2. Rest(<<a>> \o <<>>)
    BY EmptyRest, RestCons
<1>3. \A K : a.do \in K => Holds(<<a>> \o <<>>, K)
    BY EmptyRest, HoldsCons DEF Rest
<1> QED
    BY <1>1, <1>2, <1>3 DEF Fits, After

\* The program for a map other than the one known.
LEMMA MergeProgram ==
    ASSUME NEW m \in MapIds, NEW d \in Maps, NEW P,
           P = <<other, DoMap("merge", m), other, DoMap("map", d)>>
    PROVE  /\ Head(P) = other /\ Fits(other, Tail(P)) /\ Holds(Tail(P), Renders)
<1> DEFINE a == DoMap("merge", m)
           b == DoMap("map", d)
           q1 == <<b>> \o <<>>
           q2 == <<other>> \o q1
           q3 == <<a>> \o q2
<1>1. Head(P) = other /\ Tail(P) = q3
    OBVIOUS
<1>2. Rest(q1) /\ q1 # <<>> /\ Head(q1) = b
    <2>1. Rest(q1)
        BY EmptyRest, RestCons
    <2>2. Plain(<<>>)
        BY EmptyRest DEF Rest
    <2> HIDE DEF b
    <2>3. q1 # <<>> /\ Head(q1) = b
        BY <2>2, ConsFacts
    <2> QED
        BY <2>1, <2>3
<1>3. b.do \in Renders
    BY DEF DoMap, Renders
<1>4. Holds(q1, Renders)
    <2> HIDE DEF b
    <2> QED
        BY <1>3, EmptyRest, HoldsCons DEF Rest
<1>5. Rest(q2) /\ Holds(q2, Renders) /\ q2 # <<>> /\ Head(q2) = other /\ Tail(q2) = q1
    <2> HIDE DEF q1
    <2> QED
        BY <1>2, <1>4, RestCons, ConsFacts, HoldsCons DEF Rest
<1>6. Rest(q3) /\ Holds(q3, Renders)
    <2>1. Rest(q3)
        <3> HIDE DEF q2, q1
        <3> QED
            BY <1>2, <1>5, RestCons
    <2>2. Holds(q3, Renders)
        <3> HIDE DEF q2, a
        <3> QED
            BY <1>5, HoldsCons DEF Rest
    <2> QED
        BY <2>1, <2>2
<1> HIDE DEF q3
<1>7. other.id = "other"
    BY DEF other, write
<1> QED
    BY <1>1, <1>6, <1>7 DEF Fits, After, Ids

\* The program of a status.
statusProgram(s, clears) ==
    (IF clears THEN clearsSelection ELSE <<>>)
    \o [i \in 1..s.fields |-> other] \o <<Do("activity")>>
    \o (IF s.posed THEN <<Do("pose")>> ELSE <<>>)

\* It derives the activity, and renders after a selection it has cleared.
LEMMA StatusProgram ==
    ASSUME NEW s \in Statuses, NEW clears \in BOOLEAN
    PROVE  /\ statusProgram(s, clears) # <<>>
           /\ Head(statusProgram(s, clears)) = IF clears THEN write("selected", FALSE) ELSE other
           /\ Rest(Tail(statusProgram(s, clears)))
           /\ Holds(Tail(statusProgram(s, clears)), {"activity"})
           /\ clears => Holds(Tail(statusProgram(s, clears)), Renders)
<1> DEFINE pose == IF s.posed THEN <<Do("pose")>> ELSE <<>>
           end == <<Do("activity")>> \o pose
           fields == [i \in 1..s.fields |-> other]
           tasks == IF clears THEN clearsSelection ELSE <<>>
           P == statusProgram(s, clears)
<1>1. Rest(pose)
    <2>1. <<Do("pose")>> \o <<>> = <<Do("pose")>>
        OBVIOUS
    <2>2. Rest(<<Do("pose")>> \o <<>>)
        BY EmptyRest, RestCons
    <2> QED
        BY <2>1, <2>2, EmptyRest
<1>2. Rest(end) /\ Holds(end, {"activity"})
    <2>1. Do("activity").do = "activity"
        BY DEF Do
    <2> HIDE DEF pose
    <2> QED
        BY <1>1, <2>1, RestCons, HoldsCons DEF Rest
<1> DEFINE e1 == <<other>> \o end
           e2 == <<other>> \o e1
<1>3. /\ Rest(e1) /\ Holds(e1, {"activity"}) /\ Head(e1) = other /\ e1 # <<>>
      /\ Rest(Tail(e1)) /\ Holds(Tail(e1), {"activity"})
    <2>1. Plain(end)
        BY <1>2 DEF Rest
    <2> HIDE DEF end
    <2>2. Rest(e1)
        BY <1>2, RestCons
    <2>3. Holds(e1, {"activity"})
        BY <1>2, <2>1, HoldsCons
    <2>4. Head(e1) = other /\ e1 # <<>> /\ Tail(e1) = end
        BY <2>1, ConsFacts
    <2> QED
        BY <1>2, <2>2, <2>3, <2>4
<1>4. /\ Rest(e2) /\ Holds(e2, {"activity"}) /\ Head(e2) = other /\ e2 # <<>>
      /\ Rest(Tail(e2)) /\ Holds(Tail(e2), {"activity"})
    <2>1. Plain(e1)
        BY <1>3 DEF Rest
    <2> HIDE DEF e1
    <2>2. Rest(e2)
        BY <1>3, RestCons
    <2>3. Holds(e2, {"activity"})
        BY <1>3, <2>1, HoldsCons
    <2>4. Head(e2) = other /\ e2 # <<>> /\ Tail(e2) = e1
        BY <2>1, ConsFacts
    <2> QED
        BY <1>3, <2>2, <2>3, <2>4
<1> DEFINE all == fields \o end
<1>5. all = e1 \/ all = e2
    <2>1. CASE s.fields = 1
        <3>1. fields = <<other>>
            BY <2>1
        <3> QED
            BY <3>1
    <2>2. CASE s.fields = 2
        <3>1. fields = <<other, other>>
            BY <2>2
        <3>2. <<other, other>> \o end = <<other>> \o (<<other>> \o end)
            <4> HIDE DEF end
            <4> QED
                BY <1>2, PairConsFacts DEF Rest
        <3> QED
            BY <3>1, <3>2
    <2>3. s.fields = 1 \/ s.fields = 2
        BY StatusAssumption
    <2> QED
        BY <2>1, <2>2, <2>3
<1>6. /\ Rest(all) /\ Holds(all, {"activity"}) /\ Head(all) = other /\ all # <<>>
      /\ Rest(Tail(all)) /\ Holds(Tail(all), {"activity"})
    <2> HIDE DEF all, e1, e2
    <2> QED
        BY <1>3, <1>4, <1>5
<1>7. P = tasks \o all
    <2>1. \E S : tasks \in Seq(S) /\ fields \in Seq(S) /\ <<Do("activity")>> \in Seq(S) /\ pose \in Seq(S)
        <3> DEFINE z == write("selected", FALSE)
                   r == Do("render")
                   S == {z, r, other, Do("activity"), Do("pose")}
        <3>1. s.fields \in Nat
            BY StatusAssumption
        <3>2. fields \in Seq(S)
            <4>1. other \in S
                OBVIOUS
            <4> HIDE DEF S
            <4> QED
                BY <3>1, <4>1
        <3> HIDE DEF z, r
        <3>3. /\ <<z, r>> \in Seq(S)
              /\ <<>> \in Seq(S) /\ <<Do("activity")>> \in Seq(S) /\ <<Do("pose")>> \in Seq(S)
            OBVIOUS
        <3>4. tasks \in Seq(S) /\ pose \in Seq(S)
            BY <3>3 DEF z, r, clearsSelection
        <3> QED
            BY <3>2, <3>3, <3>4
    <2>2. PICK S : tasks \in Seq(S) /\ fields \in Seq(S) /\ <<Do("activity")>> \in Seq(S) /\ pose \in Seq(S)
        BY <2>1
    <2> DEFINE d == <<Do("activity")>>
    <2>3. P = ((tasks \o fields) \o d) \o pose
        BY DEF statusProgram
    <2> HIDE DEF P, tasks, fields, d, pose
    <2>4. ((tasks \o fields) \o d) \o pose = tasks \o (fields \o (d \o pose))
        BY <2>2, SMTT(60)
    <2> QED
        BY <2>3, <2>4 DEF d
<1>8. CASE ~clears
    <2>1. P = all
        <3> HIDE DEF all, P
        <3> QED
            BY <1>6, <1>7, <1>8, EmptyFacts DEF Rest
    <2> HIDE DEF all
    <2> QED
        BY <1>6, <1>8, <2>1
<1>9. CASE clears
    <2> DEFINE z == write("selected", FALSE)
               r == Do("render")
               t == <<r>> \o all
    <2>1. P = <<z, r>> \o all
        <3> HIDE DEF all, P
        <3> QED
            BY <1>7, <1>9 DEF clearsSelection
    <2>2. r.do \in Renders
        BY DEF Do, Renders
    <2>3. Rest(t) /\ Holds(t, {"activity"}) /\ Holds(t, Renders)
        <3> HIDE DEF all
        <3>1. Rest(t)
            BY <1>6, RestCons
        <3> HIDE DEF r
        <3> QED
            BY <1>6, <2>2, <3>1, HoldsCons DEF Rest
    <2>4. P = <<z>> \o t
        <3> HIDE DEF z, r, all, P
        <3> QED
            BY <2>1, <1>6, PairConsFacts DEF Rest
    <2>5. P # <<>> /\ Head(P) = z /\ Tail(P) = t
        <3> HIDE DEF t, z, P
        <3> QED
            BY <2>3, <2>4, ConsFacts DEF Rest
    <2> HIDE DEF t
    <2> QED
        BY <1>9, <2>3, <2>5
<1> QED
    BY <1>8, <1>9

-----------------------------------------------------------------------------
(* The outstanding writes *)

\* What is issued last is what its state will say ...
LEMMA LatestOfAppended ==
    ASSUME NEW ws, Plain(ws), NEW a, NEW st, NEW id, a.write.id = id
    PROVE  /\ Latest(Append(ws, a), st, id) \subseteq {a.write.value}
           /\ WritesOf(Append(ws, a), id) # {}
<1> DEFINE us == Append(ws, a)
           n == Len(ws)
<1>1. /\ n \in Nat /\ Len(us) = n + 1
      /\ \A i \in 1..n + 1 : us[i] = IF i = n + 1 THEN a ELSE ws[i]
    BY AppendFacts
<1> HIDE DEF us
<1>2. n + 1 \in WritesOf(us, id) /\ \A i \in WritesOf(us, id) : i \in Nat /\ i <= n + 1
    BY <1>1 DEF WritesOf
<1>3. ASSUME NEW k \in WritesOf(us, id), \A j \in WritesOf(us, id) : j <= k
      PROVE  us[k].write.value = a.write.value
    <2>1. k = n + 1
        BY <1>1, <1>2, <1>3
    <2> QED
        BY <2>1, <1>1
<1>4. WritesOf(us, id) # {}
    BY <1>2
<1> QED
    BY <1>3, <1>4 DEF Latest, us

\* ... and nothing changes for the others.
LEMMA OthersOfAppended ==
    ASSUME NEW ws, Plain(ws), NEW a, NEW st, NEW id, a.write.id # id
    PROVE  /\ Latest(Append(ws, a), st, id) = Latest(ws, st, id)
           /\ WritesOf(Append(ws, a), id) = WritesOf(ws, id)
<1> DEFINE us == Append(ws, a)
           n == Len(ws)
<1>1. /\ n \in Nat /\ Len(us) = n + 1
      /\ \A i \in 1..n + 1 : us[i] = IF i = n + 1 THEN a ELSE ws[i]
    BY AppendFacts
<1> HIDE DEF us
<1>2. /\ WritesOf(us, id) = WritesOf(ws, id)
      /\ \A i \in WritesOf(ws, id) : us[i] = ws[i]
    BY <1>1 DEF WritesOf
<1> QED
    BY <1>2 DEF Latest, us

\* The completion of the oldest write changes nothing of what the states will say.
LEMMA LatestOfCompleted ==
    ASSUME NEW ws, Plain(ws), ws # <<>>, NEW st, NEW id, 
           Head(ws).write.id \in DOMAIN st
    PROVE  LET new == [st EXCEPT ![Head(ws).write.id] = Head(ws).write.value]
           IN  /\ Latest(Tail(ws), new, id) \subseteq Latest(ws, st, id)
               /\ WritesOf(ws, id) = {} => WritesOf(Tail(ws), id) = {} /\ Head(ws).write.id # id
<1> DEFINE us == Tail(ws)
           n == Len(ws)
           w == Head(ws)
           new == [st EXCEPT ![Head(ws).write.id] = Head(ws).write.value]
<1>1. /\ n \in Nat \ {0} /\ Len(us) = n - 1 /\ w = ws[1]
      /\ \A i \in 1..n - 1 : us[i] = ws[i + 1]
    BY TailFacts
<1> HIDE DEF us, w
<1>2. \A i \in 1..n : i \in WritesOf(ws, id) <=> (i = 1 /\ w.write.id = id) \/ i - 1 \in WritesOf(us, id)
    BY <1>1 DEF WritesOf
<1>3. WritesOf(ws, id) \subseteq 1..n /\ WritesOf(us, id) \subseteq 1..n - 1
    BY <1>1 DEF WritesOf
<1>4. \A i \in WritesOf(us, id) : i + 1 \in WritesOf(ws, id)
    BY <1>1, <1>2, <1>3
<1>5. ASSUME WritesOf(us, id) = {} PROVE Latest(us, new, id) \subseteq Latest(ws, st, id)
    <2>1. CASE w.write.id = id
        <3>1. new[id] = w.write.value
            BY <2>1 DEF w
        <3>2. WritesOf(ws, id) = {1}
            <4>1. \A i \in 1..n : i \in WritesOf(ws, id) <=> i = 1
                BY <1>2, <1>5, <2>1
            <4> QED
                BY <4>1, <1>1, <1>3
        <3>3. w.write.value \in Latest(ws, st, id)
            BY <3>2, <1>1 DEF Latest
        <3> QED
            BY <3>1, <3>3, <1>5 DEF Latest
    <2>2. CASE w.write.id # id
        <3>1. WritesOf(ws, id) = {}
            <4>1. \A i \in 1..n : i \notin WritesOf(ws, id)
                BY <1>2, <1>5, <2>2
            <4> QED
                BY <4>1, <1>3
        <3>2. new[id] = st[id]
            BY <2>2 DEF w
        <3> QED
            BY <3>1, <3>2, <1>5 DEF Latest
    <2> QED
        BY <2>1, <2>2
<1>6. ASSUME WritesOf(us, id) # {} PROVE Latest(us, new, id) \subseteq Latest(ws, st, id)
    <2>1. ASSUME NEW k \in WritesOf(us, id), \A j \in WritesOf(us, id) : j <= k
          PROVE  us[k].write.value \in Latest(ws, st, id)
        <3>1. k + 1 \in WritesOf(ws, id) /\ us[k] = ws[k + 1]
            BY <1>1, <1>3, <1>4
        <3>2. ASSUME NEW j \in WritesOf(ws, id) PROVE j <= k + 1
            <4>1. j = 1 \/ j - 1 \in WritesOf(us, id)
                BY <1>2, <1>3
            <4> QED
                BY <4>1, <1>1, <1>3, <2>1
        <3> QED
            BY <3>1, <3>2 DEF Latest
    <2> QED
        BY <1>6, <2>1 DEF Latest
<1>7. WritesOf(ws, id) = {} => WritesOf(us, id) = {} /\ w.write.id # id
    BY <1>1, <1>2, <1>3, <1>4
<1> QED
    BY <1>5, <1>6, <1>7 DEF us, w

\* ... nor removes a write of another state.
LEMMA OthersStay ==
    ASSUME NEW ws, Plain(ws), ws # <<>>, NEW id, Head(ws).write.id # id, WritesOf(ws, id) # {}
    PROVE  WritesOf(Tail(ws), id) # {}
<1>1. /\ Len(ws) \in Nat \ {0} /\ Len(Tail(ws)) = Len(ws) - 1
      /\ Head(ws) = ws[1] /\ \A i \in 1..Len(ws) - 1 : Tail(ws)[i] = ws[i + 1]
    BY TailFacts
<1>2. PICK k \in 1..Len(ws) : ws[k].write.id = id
    BY DEF WritesOf
<1>3. k # 1
    BY <1>1, <1>2
<1>4. k - 1 \in 1..Len(Tail(ws)) /\ Tail(ws)[k - 1] = ws[k]
    BY <1>1, <1>3
<1> QED
    BY <1>2, <1>4 DEF WritesOf

-----------------------------------------------------------------------------
(* Handlers that begin *)

\* An event begins a handler with write x, which then does r.
Begins(x, r) ==
    /\ events' = events + 1 /\ writes' = Append(writes, [by |-> events + 1, write |-> x])
    /\ running' = [h \in DOMAIN running \cup {events + 1} |->
                     IF h = events + 1 THEN r ELSE running[h]]
    /\ Fits(x, r)

\* A program that is started is one that begins.
LEMMA StartsBegins ==
    ASSUME NEW program, starts(program), Fits(Head(program), Tail(program))
    PROVE  Begins(Head(program), Tail(program))
BY DEF starts, Begins

\* A handler that begins is a new one.
LEMMA BeginsFacts ==
    ASSUME Handlers, NEW x, NEW r, Begins(x, r)
    PROVE  /\ DOMAIN running' = DOMAIN running \cup {events + 1}
           /\ running'[events + 1] = r
           /\ \A e \in DOMAIN running : e # events + 1 /\ running'[e] = running[e]
<1> QED
    BY DEF Begins, Handlers

\* A handler that begins has one write outstanding.
LEMMA BeginsKeepsHandlers ==
    ASSUME Handlers, NEW x, NEW r, Begins(x, r), states' = states
    PROVE  Handlers'
<1> DEFINE e == events + 1
           n == Len(writes)
           a == [by |-> e, write |-> x]
<1>1. /\ Plain(writes') /\ n \in Nat /\ Len(writes') = n + 1
      /\ \A i \in 1..n + 1 : writes'[i] = IF i = n + 1 THEN a ELSE writes[i]
    BY AppendFacts DEF Begins, Handlers
<1>2. /\ DOMAIN running' = DOMAIN running \cup {e}
      /\ running'[e] = r
      /\ \A d \in DOMAIN running : d # e /\ running'[d] = running[d]
    BY BeginsFacts
<1>3. events' \in Nat /\ DOMAIN running' \subseteq 1..events'
    BY <1>2 DEF Begins, Handlers
<1>4. a.by = e /\ a.write = x /\ Fits(x, r)
    BY DEF Begins
<1> HIDE DEF e, a
<1>5. ASSUME NEW i \in 1..n PROVE writes'[i] = writes[i] /\ writes[i].by \in DOMAIN running
                                  /\ Fits(writes[i].write, running[writes[i].by])
    BY <1>1 DEF Handlers
<1>6. writes'[n + 1] = a
    BY <1>1
<1>7. ASSUME NEW i \in 1..Len(writes')
      PROVE  /\ writes'[i].by \in DOMAIN running'
             /\ Fits(writes'[i].write, running'[writes'[i].by])
    <2>1. CASE i = n + 1
        BY <2>1, <1>2, <1>4, <1>6
    <2>2. CASE i # n + 1
        <3>1. i \in 1..n
            BY <2>2, <1>1
        <3> QED
            BY <3>1, <1>2, <1>5
    <2> QED
        BY <2>1, <2>2
<1>8. ASSUME NEW i \in 1..Len(writes'), NEW j \in 1..Len(writes'), i # j
      PROVE  writes'[i].by # writes'[j].by
    <2>1. \A k \in 1..Len(writes') : k = n + 1 \/ k \in 1..n
        BY <1>1
    <2>2. CASE i \in 1..n /\ j \in 1..n
        BY <1>5, <1>8, <2>2 DEF Handlers
    <2>3. CASE i = n + 1 /\ j \in 1..n
        BY <1>2, <1>4, <1>5, <1>6, <2>3
    <2>4. CASE j = n + 1 /\ i \in 1..n
        BY <1>2, <1>4, <1>5, <1>6, <2>4
    <2> QED
        BY <1>8, <2>1, <2>2, <2>3, <2>4
<1>9. DOMAIN states' = Ids
    BY DEF Handlers
<1>10. \A i \in 1..Len(writes') :
        /\ writes'[i].by \in DOMAIN running'
        /\ Fits(writes'[i].write, running'[writes'[i].by])
        /\ \A j \in 1..Len(writes') : i # j => writes'[i].by # writes'[j].by
    BY <1>7, <1>8
<1> QED
    BY <1>1, <1>3, <1>9, <1>10 DEF Handlers

\* It owes what is in its program, and the others what they owed.
LEMMA BeginsOwes ==
    ASSUME Handlers, NEW x, NEW r, Begins(x, r), NEW K, Owes(K) \/ Holds(r, K)
    PROVE  Owes(K)'
BY BeginsFacts DEF Owes

\* Its write is what the state will say.
LEMMA LatestBegins ==
    ASSUME Handlers, NEW x, NEW r, Begins(x, r), states' = states, NEW id
    PROVE  /\ x.id = id => Latest(writes', states', id) \subseteq {x.value}
           /\ x.id # id => /\ Latest(writes', states', id) = Latest(writes, states, id)
                           /\ WritesOf(writes', id) = WritesOf(writes, id)
<1> DEFINE a == [by |-> events + 1, write |-> x]
<1>1. a.write = x
    OBVIOUS
<1>2. writes' = Append(writes, a)
    BY DEF Begins
<1>3. Plain(writes)
    BY DEF Handlers
<1> HIDE DEF a
<1>4. ASSUME a.write.id = id PROVE Latest(Append(writes, a), states, id) \subseteq {a.write.value}
    BY <1>3, <1>4, LatestOfAppended
<1>5. ASSUME a.write.id # id
      PROVE  /\ Latest(Append(writes, a), states, id) = Latest(writes, states, id)
             /\ WritesOf(Append(writes, a), id) = WritesOf(writes, id)
    BY <1>3, <1>5, OthersOfAppended
<1> QED
    BY <1>1, <1>2, <1>4, <1>5

-----------------------------------------------------------------------------
(* Handlers that go on *)

\* The write that is complete, and what its handler has yet to do.
first == Head(writes)
plan == running[first.by]

\* The handler has no further write, or goes on with write x and then r.
Ends == /\ writes' = Tail(writes)
        /\ running' = [h \in DOMAIN running \ {first.by} |-> running[h]]
GoesOn(x, r) ==
    /\ writes' = Append(Tail(writes), [by |-> first.by, write |-> x])
    /\ running' = [running EXCEPT ![first.by] = r]
    /\ Fits(x, r)

Applies ==
    /\ writes # <<>>
    /\ states' = [states EXCEPT ![first.write.id] = first.write.value]
    /\ UNCHANGED <<setting, selected, taskVars, cloud, gateway, inbox, events>>

\* What its handler does with its next step, if it has one.
Writes ==
    /\ plan # <<>> /\ Head(plan).do = "write" /\ UNCHANGED memory
    /\ GoesOn(Head(plan), Tail(plan))
    /\ Head(plan).id \in {"png", "areas", "other"}
    /\ first.write.id = "svg" <=> Head(plan).id = "png"
    /\ first.write.id = "png" <=> Head(plan).id = "areas"
    /\ Head(plan).id \in {"png", "areas"} => Head(plan).value = first.write.value
Stops == plan = <<>> /\ Ends /\ UNCHANGED memory
Derives ==
    /\ plan # <<>> /\ Head(plan).do = "activity" /\ UNCHANGED memory
    /\ GoesOn(write("activity", deriveRobotActivity(cloud, gateway, mode, inferred)), Tail(plan))
Merges ==
    /\ plan # <<>> /\ Head(plan).do = "merge" /\ UNCHANGED <<mapData, trail>>
    /\ Tail(plan) # <<>> /\ Head(Tail(plan)) = other
    /\ GoesOn(other, Tail(Tail(plan))) /\ Holds(Tail(Tail(plan)), {"map"})
RendersFirst ==
    /\ plan # <<>> /\ Head(plan).do \in Renders /\ UNCHANGED <<catalog, latestMapId>>
    /\ IF mapData'.map # None
       THEN GoesOn(write("svg", frame),
                   <<write("png", frame), write("areas", frame)>> \o Tail(plan))
       ELSE \/ Tail(plan) = <<>> /\ Ends
            \/ /\ Tail(plan) # <<>> /\ Head(Tail(plan)) = other
               /\ GoesOn(other, Tail(Tail(plan)))

\* The action, read as one of these cases.
LEMMA WriteOutcome ==
    ASSUME Handlers, WriteCompletes
    PROVE  Applies /\ (Stops \/ Writes \/ Derives \/ Merges \/ RendersFirst)
           /\ (first.write.id \in {"svg", "png"} => Writes)
<1> DEFINE w == first.write
           p == plan
<1>1. Applies
    BY DEF WriteCompletes, Applies, first
<1>2. Fits(w, p)
    <2>1. first = writes[1] /\ 1 \in 1..Len(writes)
        <3>1. writes # <<>> /\ Plain(writes)
            BY DEF WriteCompletes, Handlers
        <3> QED
            BY <3>1, TailFacts DEF first
    <2> QED
        BY <2>1 DEF Handlers, plan
<1>3. PICK q : Rest(q) /\ p = After(w, q)
    BY <1>2 DEF Fits
<1>4. Plain(q)
    BY <1>3 DEF Rest
<1>5. ASSUME p # <<>>, Head(p).do = "write"
      PROVE  /\ writes' = Append(Tail(writes), [by |-> first.by, write |-> Head(p)])
             /\ running' = [running EXCEPT ![first.by] = Tail(p)]
             /\ UNCHANGED memory
    BY <1>5 DEF WriteCompletes, first, plan, memory
<1>6. CASE w.id = "svg"
    <2> DEFINE r == <<write("areas", w.value)>> \o q
    <2>1. p = <<write("png", w.value)>> \o r /\ Plain(r)
        <3>1. p = <<write("png", w.value), write("areas", w.value)>> \o q
            BY <1>3, <1>6 DEF After
        <3> DEFINE a == write("png", w.value)
                   b == write("areas", w.value)
        <3>2. p = <<a, b>> \o q
            BY <3>1
        <3> HIDE DEF a, b, p
        <3>3. <<a, b>> \o q = <<a>> \o (<<b>> \o q)
            BY <1>4, PairConsFacts
        <3>4. Plain(<<b>> \o q)
            BY <1>4, ConsFacts
        <3> QED
            BY <3>2, <3>3, <3>4 DEF a, b
    <2>2. p # <<>> /\ Head(p) = write("png", w.value) /\ Tail(p) = r
        <3> HIDE DEF r, p
        <3> QED
            BY <2>1, ConsFacts
    <2>3. Fits(Head(p), Tail(p))
        <3>1. Head(p).id = "png" /\ Head(p).value = w.value
            BY <2>2 DEF write
        <3> QED
            BY <3>1, <2>2, <1>3 DEF Fits, After, Ids
    <2>4. Head(p).id = "png" /\ Head(p).value = w.value /\ Head(p).do = "write"
        BY <2>2 DEF write
    <2>5. Writes
        BY <1>5, <1>6, <2>2, <2>3, <2>4 DEF Writes, GoesOn
    <2> QED
        BY <1>1, <2>5
<1>7. CASE w.id = "png"
    <2>1. p = <<write("areas", w.value)>> \o q
        BY <1>3, <1>7 DEF After
    <2>2. p # <<>> /\ Head(p) = write("areas", w.value) /\ Tail(p) = q
        <3> HIDE DEF p
        <3> QED
            BY <2>1, <1>4, ConsFacts
    <2>3. Fits(Head(p), Tail(p))
        <3>1. Head(p).id = "areas"
            BY <2>2 DEF write
        <3> QED
            BY <3>1, <2>2, <1>3 DEF Fits, After, Ids
    <2>4. Head(p).id = "areas" /\ Head(p).value = w.value /\ Head(p).do = "write"
        BY <2>2 DEF write
    <2>5. Writes
        BY <1>5, <1>7, <2>2, <2>3, <2>4 DEF Writes, GoesOn
    <2> QED
        BY <1>1, <2>5
<1>8. CASE w.id \notin {"svg", "png"}
    <2>1. p = q
        BY <1>3, <1>8 DEF After
    <2>2. CASE p = <<>>
        <3>1. Stops
            BY <2>2 DEF WriteCompletes, Stops, Ends, first, plan, Do, memory
        <3> QED
            BY <3>1, <1>1, <1>8
    <2>3. CASE p # <<>> /\ Head(p) = other
        <3>1. Rest(Tail(p))
            BY <2>1, <2>3, <1>3, RestTail
        <3>2. Head(p).id = "other" /\ Head(p).do = "write"
            BY <2>3 DEF other, write
        <3>3. Fits(Head(p), Tail(p))
            BY <3>1, <3>2 DEF Fits, After, Ids
        <3> QED
            BY <1>1, <1>5, <1>8, <2>3, <3>2, <3>3 DEF Writes, GoesOn
    <2>4. CASE p # <<>> /\ Head(p) = Do("activity")
        <3>1. Rest(Tail(p))
            BY <2>1, <2>4, <1>3, RestTail
        <3> DEFINE x == write("activity", deriveRobotActivity(cloud, gateway, mode, inferred))
        <3>2. Fits(x, Tail(p))
            BY <3>1 DEF Fits, After, Ids, write
        <3>3. Head(p).do = "activity"
            BY <2>4 DEF Do
        <3>4. /\ UNCHANGED memory
              /\ running' = [running EXCEPT ![first.by] = Tail(<<x>> \o Tail(p))]
              /\ writes' = Append(Tail(writes), [by |-> first.by, write |-> Head(<<x>> \o Tail(p))])
            <4>1. <<x>> \o Tail(p) # <<>>
                BY <3>1, ConsFacts DEF Rest
            <4> QED
                BY <3>3, <2>4, <4>1 DEF WriteCompletes, first, plan, memory
        <3>5. Head(<<x>> \o Tail(p)) = x /\ Tail(<<x>> \o Tail(p)) = Tail(p)
            BY <3>1, ConsFacts DEF Rest
        <3>6. Derives
            BY <3>2, <3>3, <3>4, <3>5, <2>4 DEF Derives, GoesOn
        <3> QED
            BY <3>6, <1>1, <1>8
    <2>5. CASE /\ p # <<>> /\ Head(p) \in {DoMap("merge", m) : m \in MapIds}
               /\ Tail(p) # <<>> /\ Head(Tail(p)) = other
               /\ Tail(Tail(p)) # <<>> /\ Head(Tail(Tail(p))).do = "map"
        <3>1. Rest(Tail(p)) /\ Rest(Tail(Tail(p)))
            BY <2>1, <2>5, <1>3, RestTail
        <3>2. Fits(other, Tail(Tail(p)))
            BY <3>1 DEF Fits, After, Ids, write, other
        <3>3. Head(p).do = "merge"
            <4>1. PICK m \in MapIds : Head(p) = DoMap("merge", m)
                BY <2>5
            <4> QED
                BY <4>1 DEF DoMap
        <3>4. /\ UNCHANGED <<mapData, trail>>
              /\ running' = [running EXCEPT ![first.by] = Tail(Tail(p))]
              /\ writes' = Append(Tail(writes), [by |-> first.by, write |-> Head(Tail(p))])
            BY <3>3, <2>5 DEF WriteCompletes, first, plan
        <3>5. Holds(Tail(Tail(p)), {"map"})
            BY <2>5, <3>1, HoldsTail DEF Rest
        <3>6. Merges
            BY <3>2, <3>3, <3>4, <3>5, <2>5 DEF Merges, GoesOn
        <3> QED
            BY <3>6, <1>1, <1>8
    <2>6. CASE /\ p # <<>>
               /\ Head(p) \in {Do("pose"), Do("render")} \cup {DoMap("map", m) : m \in Maps}
               /\ Tail(p) # <<>> => Head(Tail(p)) = other
        <3>1. Rest(Tail(p)) /\ (Tail(p) # <<>> => Rest(Tail(Tail(p))))
            BY <2>1, <2>6, <1>3, RestTail
        <3>2. Head(p).do \in Renders
            BY <2>6 DEF DoMap, Do, Renders
        <3>3. UNCHANGED <<catalog, latestMapId>>
            BY <3>2, <2>6 DEF WriteCompletes, Renders, first, plan
        <3>4. CASE mapData'.map # None
            <4> DEFINE x == write("svg", frame)
                       y == <<write("png", frame), write("areas", frame)>> \o Tail(p)
                       todo == projectLiveMapImage(frame) \o Tail(p)
            <4>1. todo = <<x, write("png", frame), write("areas", frame)>> \o Tail(p)
                BY DEF projectLiveMapImage
            <4>2. todo # <<>> /\ Head(todo) = x /\ Tail(todo) = y
                <5> HIDE DEF todo, x
                <5> QED
                    BY <4>1, <3>1, TripleConsFacts DEF Rest
            <4>3. /\ running' = [running EXCEPT ![first.by] = Tail(todo)]
                  /\ writes' = Append(Tail(writes), [by |-> first.by, write |-> Head(todo)])
                BY <3>2, <3>4, <4>2, <2>6 DEF WriteCompletes, Renders, first, plan
            <4>4. Fits(x, y)
                <5>1. x.id = "svg" /\ x.value = frame
                    BY DEF write
                <5> QED
                    BY <5>1, <3>1 DEF Fits, After, Ids
            <4> QED
                BY <1>1, <1>8, <2>6, <3>2, <3>3, <3>4, <4>2, <4>3, <4>4 DEF RendersFirst, GoesOn
        <3>5. CASE mapData'.map = None /\ Tail(p) = <<>>
            <4>1. Ends
                <5>1. <<>> \o Tail(p) = <<>>
                    BY <3>5
                <5> QED
                    BY <5>1, <3>2, <3>5, <2>6 DEF WriteCompletes, Renders, first, plan, Ends
            <4> QED
                BY <1>1, <1>8, <2>6, <3>2, <3>3, <3>5, <4>1 DEF RendersFirst
        <3>6. CASE mapData'.map = None /\ Tail(p) # <<>>
            <4>1. <<>> \o Tail(p) = Tail(p)
                BY <3>1 DEF Rest, Plain
            <4>2. /\ running' = [running EXCEPT ![first.by] = Tail(Tail(p))]
                  /\ writes' = Append(Tail(writes), [by |-> first.by, write |-> Head(Tail(p))])
                BY <4>1, <3>2, <3>6, <2>6 DEF WriteCompletes, Renders, first, plan
            <4>3. Fits(other, Tail(Tail(p)))
                BY <3>1, <3>6 DEF Fits, After, Ids, write, other
            <4> QED
                BY <1>1, <1>8, <2>6, <3>2, <3>3, <3>6, <4>2, <4>3 DEF RendersFirst, GoesOn
        <3> QED
            BY <3>4, <3>5, <3>6
    <2> QED
        BY <2>1, <2>2, <2>3, <2>4, <2>5, <2>6, <1>3, RestHead
<1> QED
    BY <1>6, <1>7, <1>8

\* The handler of the oldest write, and the other writes.
LEMMA FirstFacts ==
    ASSUME Handlers, writes # <<>>
    PROVE  /\ first.by \in DOMAIN running /\ first.write.id \in DOMAIN states
           /\ Plain(Tail(writes)) /\ Len(writes) \in Nat \ {0}
           /\ Len(Tail(writes)) = Len(writes) - 1
           /\ \A i \in 1..Len(writes) - 1 :
                 Tail(writes)[i] = writes[i + 1] /\ writes[i + 1].by \in DOMAIN running \ {first.by}
                 /\ Fits(writes[i + 1].write, running[writes[i + 1].by])
<1> DEFINE us == Tail(writes)
           n == Len(writes)
<1>1. /\ Plain(us) /\ n \in Nat \ {0} /\ Len(us) = n - 1 /\ first = writes[1]
      /\ \A i \in 1..n - 1 : us[i] = writes[i + 1]
    BY TailFacts DEF Handlers, first
<1>2. 1 \in 1..n
    BY <1>1
<1>3. first.by \in DOMAIN running /\ first.write.id \in DOMAIN states
    BY <1>1, <1>2 DEF Handlers, Fits
<1>4. ASSUME NEW i \in 1..n - 1
      PROVE  writes[i + 1].by \in DOMAIN running \ {first.by}
             /\ Fits(writes[i + 1].write, running[writes[i + 1].by])
    <2>1. i + 1 \in 1..n /\ i + 1 # 1
        BY <1>1
    <2> QED
        BY <2>1, <1>1, <1>2 DEF Handlers
<1> QED
    BY <1>1, <1>3, <1>4

\* What a handler has yet to do is a sequence.
LEMMA PlanFacts ==
    ASSUME Handlers, Applies
    PROVE  Plain(plan)
<1>1. Plain(writes) /\ writes # <<>>
    BY DEF Handlers, Applies
<1>2. first = writes[1] /\ 1 \in 1..Len(writes)
    BY <1>1, TailFacts DEF first
<1>3. Fits(first.write, plan)
    BY <1>2 DEF Handlers, plan
<1>4. PICK q : Rest(q) /\ plan = After(first.write, q)
    BY <1>3 DEF Fits
<1> QED
    BY <1>4, ConsFacts, PairConsFacts DEF Rest, After

\* A handler that ends leaves the writes of the others.
LEMMA EndsKeepsHandlers ==
    ASSUME Handlers, Applies, Ends
    PROVE  Handlers'
<1> DEFINE us == Tail(writes)
           n == Len(writes)
<1>1. /\ first.by \in DOMAIN running /\ first.write.id \in DOMAIN states
      /\ Plain(us) /\ n \in Nat \ {0} /\ Len(us) = n - 1
      /\ \A i \in 1..n - 1 :
            us[i] = writes[i + 1] /\ writes[i + 1].by \in DOMAIN running \ {first.by}
            /\ Fits(writes[i + 1].write, running[writes[i + 1].by])
    BY FirstFacts DEF Applies
<1>2. writes' = us /\ DOMAIN states' = Ids /\ events' = events
      /\ DOMAIN running' = DOMAIN running \ {first.by}
      /\ \A d \in DOMAIN running' : running'[d] = running[d]
    BY DEF Ends, Applies, Handlers
<1>3. ASSUME NEW i \in 1..Len(us)
      PROVE  /\ us[i].by \in DOMAIN running'
             /\ Fits(us[i].write, running'[us[i].by])
    BY <1>1, <1>2
<1>4. ASSUME NEW i \in 1..Len(us), NEW j \in 1..Len(us), i # j
      PROVE  us[i].by # us[j].by
    <2>1. i + 1 \in 1..n /\ j + 1 \in 1..n /\ i + 1 # j + 1
        BY <1>1, <1>4
    <2>2. writes[i + 1].by # writes[j + 1].by
        BY <2>1 DEF Handlers
    <2> QED
        BY <2>2, <1>1
<1> QED
    BY <1>1, <1>2, <1>3, <1>4 DEF Handlers

\* A handler that goes on has one write outstanding again.
LEMMA GoesOnKeepsHandlers ==
    ASSUME Handlers, Applies, NEW x, NEW r, GoesOn(x, r)
    PROVE  Handlers'
<1> DEFINE us == Tail(writes)
           n == Len(writes)
           a == [by |-> first.by, write |-> x]
<1>1. /\ first.by \in DOMAIN running /\ first.write.id \in DOMAIN states
      /\ Plain(us) /\ n \in Nat \ {0} /\ Len(us) = n - 1
      /\ \A i \in 1..n - 1 :
            us[i] = writes[i + 1] /\ writes[i + 1].by \in DOMAIN running \ {first.by}
            /\ Fits(writes[i + 1].write, running[writes[i + 1].by])
    BY FirstFacts DEF Applies
<1>2. /\ writes' = Append(us, a) /\ DOMAIN states' = Ids /\ events' = events
      /\ DOMAIN running' = DOMAIN running
      /\ \A d \in DOMAIN running' \ {first.by} : running'[d] = running[d]
      /\ running'[first.by] = r
    BY <1>1 DEF GoesOn, Applies, Handlers
<1>3. /\ Plain(writes') /\ Len(writes') = n
      /\ \A i \in 1..n : writes'[i] = IF i = n THEN a ELSE us[i]
    <2>1. /\ Plain(Append(us, a)) /\ Len(Append(us, a)) = Len(us) + 1
          /\ \A i \in 1..Len(us) + 1 : Append(us, a)[i] = IF i = Len(us) + 1 THEN a ELSE us[i]
        BY <1>1, AppendFacts
    <2>2. Len(us) + 1 = n
        BY <1>1
    <2> HIDE DEF us, n, a
    <2> QED
        BY <1>2, <2>1, <2>2
<1>4. a.by = first.by /\ a.write = x /\ Fits(x, r)
    BY DEF GoesOn
<1>5. \A k \in 1..n : k = n \/ k \in 1..n - 1
    <2>1. n \in Nat
        BY <1>1
    <2> HIDE DEF n
    <2> QED
        BY <2>1
<1>6. ASSUME NEW i \in 1..n - 1
      PROVE  writes'[i] = writes[i + 1] /\ writes'[i].by \in DOMAIN running' \ {first.by}
             /\ Fits(writes'[i].write, running'[writes'[i].by])
    <2>1. i \in 1..n /\ i # n
        <3>1. n \in Nat
            BY <1>1
        <3> HIDE DEF n
        <3> QED
            BY <3>1
    <2>2. us[i] = writes[i + 1] /\ writes[i + 1].by \in DOMAIN running \ {first.by}
          /\ Fits(writes[i + 1].write, running[writes[i + 1].by])
        BY <1>1
    <2> HIDE DEF n, a, us
    <2>3. writes'[i] = us[i]
        BY <2>1, <1>3
    <2> QED
        BY <2>2, <2>3, <1>2
<1>7. writes'[n] = a
    <2>1. n \in 1..n
        BY <1>1
    <2> HIDE DEF n, a
    <2> QED
        BY <2>1, <1>3
<1> HIDE DEF a
<1>8. ASSUME NEW i \in 1..n
      PROVE  /\ writes'[i].by \in DOMAIN running'
             /\ Fits(writes'[i].write, running'[writes'[i].by])
    BY <1>1, <1>2, <1>4, <1>5, <1>6, <1>7
<1>9. ASSUME NEW i \in 1..n, NEW j \in 1..n, i # j
      PROVE  writes'[i].by # writes'[j].by
    <2>1. CASE i \in 1..n - 1 /\ j \in 1..n - 1
        <3>1. i + 1 \in 1..n /\ j + 1 \in 1..n /\ i + 1 # j + 1
            BY <1>1, <1>9, <2>1
        <3>2. writes[i + 1].by # writes[j + 1].by
            BY <3>1 DEF Handlers
        <3> QED
            BY <3>2, <2>1, <1>6
    <2>2. CASE i = n /\ j \in 1..n - 1
        BY <1>4, <1>6, <1>7, <2>2
    <2>3. CASE j = n /\ i \in 1..n - 1
        BY <1>4, <1>6, <1>7, <2>3
    <2> QED
        BY <1>5, <1>9, <2>1, <2>2, <2>3
<1> QED
    BY <1>2, <1>3, <1>8, <1>9 DEF Handlers

\* The debts of the handler that goes on may be paid, those of the others stay.
LEMMA GoesOnOwes ==
    ASSUME Handlers, Applies, NEW x, NEW r, GoesOn(x, r), NEW K,
           Holds(plan, K) => Holds(r, K)
    PROVE  Owes(K) => Owes(K)'
<1>1. first.by \in DOMAIN running
    BY FirstFacts DEF Applies
<1>2. /\ DOMAIN running' = DOMAIN running
      /\ \A d \in DOMAIN running' \ {first.by} : running'[d] = running[d]
      /\ running'[first.by] = r
    BY <1>1 DEF GoesOn
<1> QED
    BY <1>1, <1>2 DEF Owes, plan

\* A handler that ends owes nothing.
LEMMA EndsOwes ==
    ASSUME Handlers, Applies, Ends, NEW K, ~Holds(plan, K)
    PROVE  Owes(K) => Owes(K)'
BY DEF Ends, Owes, plan

\* What the states will say when a handler ends ...
LEMMA LatestEnds ==
    ASSUME Handlers, Applies, Ends, NEW id
    PROVE  /\ Latest(writes', states', id) \subseteq Latest(writes, states, id)
           /\ WritesOf(writes, id) = {} => WritesOf(writes', id) = {} /\ states'[id] = states[id]
<1>1. Plain(writes) /\ writes # <<>> /\ Head(writes).write.id \in DOMAIN states
    BY FirstFacts DEF Handlers, Applies, first
<1>2. /\ writes' = Tail(writes)
      /\ states' = [states EXCEPT ![Head(writes).write.id] = Head(writes).write.value]
    BY DEF Ends, Applies, first
<1>3. /\ Latest(Tail(writes), states', id) \subseteq Latest(writes, states, id)
      /\ WritesOf(writes, id) = {} => WritesOf(Tail(writes), id) = {} /\ Head(writes).write.id # id
    BY <1>1, <1>2, LatestOfCompleted
<1>4. Head(writes).write.id # id => states'[id] = states[id]
    BY <1>2
<1> QED
    BY <1>2, <1>3, <1>4

\* ... and when it goes on.
LEMMA LatestGoesOn ==
    ASSUME Handlers, Applies, NEW x, NEW r, GoesOn(x, r), NEW id
    PROVE  /\ x.id = id => Latest(writes', states', id) \subseteq {x.value} /\ WritesOf(writes', id) # {}
           /\ x.id # id => /\ Latest(writes', states', id) \subseteq Latest(writes, states, id)
                           /\ WritesOf(writes, id) = {} => WritesOf(writes', id) = {}
           /\ WritesOf(writes, id) = {} => states'[id] = states[id]
<1> DEFINE a == [by |-> first.by, write |-> x]
           us == Tail(writes)
<1>1. Plain(writes) /\ writes # <<>> /\ Head(writes).write.id \in DOMAIN states /\ Plain(us)
    BY FirstFacts DEF Handlers, Applies, first
<1>2. /\ writes' = Append(us, a)
      /\ states' = [states EXCEPT ![Head(writes).write.id] = Head(writes).write.value]
    BY DEF GoesOn, Applies, first
<1>3. /\ Latest(us, states', id) \subseteq Latest(writes, states, id)
      /\ WritesOf(writes, id) = {} => WritesOf(us, id) = {} /\ Head(writes).write.id # id
    BY <1>1, <1>2, LatestOfCompleted
<1>4. Head(writes).write.id # id => states'[id] = states[id]
    BY <1>2
<1>5. a.write = x
    OBVIOUS
<1> HIDE DEF a, us
<1>6. /\ x.id = id => /\ Latest(writes', states', id) \subseteq {x.value}
                      /\ WritesOf(writes', id) # {}
      /\ x.id # id => /\ Latest(writes', states', id) = Latest(us, states', id)
                      /\ WritesOf(writes', id) = WritesOf(us, id)
    <2>1. ASSUME a.write.id = id
          PROVE  /\ Latest(Append(us, a), states', id) \subseteq {a.write.value}
                 /\ WritesOf(Append(us, a), id) # {}
        BY <1>1, <2>1, LatestOfAppended
    <2>2. ASSUME a.write.id # id
          PROVE  /\ Latest(Append(us, a), states', id) = Latest(us, states', id)
                 /\ WritesOf(Append(us, a), id) = WritesOf(us, id)
        BY <1>1, <2>2, OthersOfAppended
    <2> QED
        BY <1>2, <1>5, <2>1, <2>2
<1> QED
    BY <1>3, <1>4, <1>6

\* If no write of id is left and the one that is complete was of another state, there was none.
LEMMA NoneBefore ==
    ASSUME Handlers, Applies, NEW id, first.write.id # id, WritesOf(writes', id) = {},
           Ends \/ \E x, r : GoesOn(x, r)
    PROVE  WritesOf(writes, id) = {}
<1>1. Plain(writes) /\ writes # <<>> /\ Plain(Tail(writes)) /\ Head(writes).write.id # id
    BY FirstFacts DEF Handlers, Applies, first
<1>2. WritesOf(Tail(writes), id) = {}
    <2>1. CASE Ends
        BY <2>1 DEF Ends
    <2>2. ASSUME NEW x, NEW r, GoesOn(x, r) PROVE WritesOf(Tail(writes), id) = {}
        <3> DEFINE a == [by |-> first.by, write |-> x]
                   us == Tail(writes)
        <3>1. writes' = Append(us, a)
            BY <2>2 DEF GoesOn
        <3> HIDE DEF a, us
        <3>2. Plain(us)
            BY <1>1 DEF us
        <3>3. ASSUME a.write.id = id PROVE WritesOf(Append(us, a), id) # {}
            BY <3>2, <3>3, LatestOfAppended
        <3>4. ASSUME a.write.id # id PROVE WritesOf(Append(us, a), id) = WritesOf(us, id)
            BY <3>2, <3>4, OthersOfAppended
        <3> QED
            BY <3>1, <3>3, <3>4 DEF us
    <2> QED
        BY <2>1, <2>2
<1> QED
    BY <1>1, <1>2, OthersStay

\* The handler goes on with x: if its picture has more parts, then x is the next one.
Proceeds(x, r) ==
    /\ GoesOn(x, r)
    /\ first.write.id = "svg" <=> x.id = "png"
    /\ first.write.id = "png" <=> x.id = "areas"
    /\ x.id \in {"png", "areas"} => x.value = first.write.value
    /\ x.id \notin {"setting", "selected"}
Finishes == Ends /\ first.write.id \notin {"svg", "png"}

\* The parts of a picture keep their order, as a handler issues the next when the one
\* before is complete, and writes are completed in the order of their issue.
LEMMA ProceedsInStep ==
    ASSUME LiveInv, Applies, Finishes \/ \E x, r : Proceeds(x, r)
    PROVE  InStep("svg", "png")' /\ InStep("png", "areas")'
<1>1. Handlers /\ Ids = DOMAIN states /\ first.write.id \in Ids
    BY FirstFacts DEF LiveInv, Handlers, Applies
<1>2. states' = [states EXCEPT ![first.write.id] = first.write.value]
    BY DEF Applies
<1>3. ASSUME NEW a, NEW b, (a = "svg" /\ b = "png") \/ (a = "png" /\ b = "areas"),
             WritesOf(writes', a) = {}
      PROVE  \A v \in Latest(writes', states', b) : v = states'[a]
    <2>1. a \in Ids /\ InStep(a, b)
        BY <1>3 DEF LiveInv, Ids
    <2>2. CASE first.write.id = a
        <3>1. states'[a] = first.write.value
            BY <1>1, <1>2, <2>2
        <3>2. PICK x, r : GoesOn(x, r) /\ x.id = b /\ x.value = first.write.value
            BY <1>3, <2>2 DEF Finishes, Proceeds
        <3>3. Latest(writes', states', b) \subseteq {x.value}
            BY <1>1, <3>2, LatestGoesOn
        <3> QED
            BY <3>1, <3>2, <3>3
    <2>3. CASE first.write.id # a
        <3>1. Ends \/ \E x, r : GoesOn(x, r)
            BY DEF Finishes, Proceeds
        <3>2. WritesOf(writes, a) = {}
            BY <1>1, <1>3, <2>3, <3>1, NoneBefore
        <3>3. states'[a] = states[a]
            BY <1>2, <2>3
        <3>4. Latest(writes', states', b) \subseteq Latest(writes, states, b)
            <4>1. CASE Ends
                BY <1>1, <4>1, LatestEnds
            <4>2. ASSUME NEW x, NEW r, GoesOn(x, r), x.id # b
                  PROVE  Latest(writes', states', b) \subseteq Latest(writes, states, b)
                BY <1>1, <4>2, LatestGoesOn
            <4>3. Ends \/ \E x, r : GoesOn(x, r) /\ x.id # b
                BY <1>3, <2>3 DEF Finishes, Proceeds
            <4> QED
                BY <4>1, <4>2, <4>3
        <3> QED
            BY <2>1, <3>2, <3>3, <3>4 DEF InStep
    <2> QED
        BY <2>2, <2>3
<1>4. InStep("svg", "png")'
    BY <1>3 DEF InStep
<1>5. InStep("png", "areas")'
    BY <1>3 DEF InStep
<1> QED
    BY <1>4, <1>5

\* No handler that goes on writes a setting or the selection.
LEMMA ProceedsSettled ==
    ASSUME LiveInv, Applies, Finishes \/ \E x, r : Proceeds(x, r)
    PROVE  Handlers' /\ Inbox' /\ Settled("setting", setting)' /\ Settled("selected", selected)'
<1>1. Handlers
    BY DEF LiveInv
<1>2. Handlers'
    BY <1>1, EndsKeepsHandlers, GoesOnKeepsHandlers DEF Finishes, Proceeds
<1>3. ASSUME NEW id \in {"setting", "selected"}
      PROVE  Latest(writes', states', id) \subseteq Latest(writes, states, id)
    <2>1. CASE Ends
        BY <1>1, <2>1, LatestEnds
    <2>2. ASSUME NEW x, NEW r, Proceeds(x, r)
          PROVE  Latest(writes', states', id) \subseteq Latest(writes, states, id)
        <3>1. x.id # id /\ GoesOn(x, r)
            BY <2>2 DEF Proceeds
        <3> QED
            BY <1>1, <3>1, LatestGoesOn
    <2> QED
        BY <2>1, <2>2 DEF Finishes
<1>4. UNCHANGED <<setting, selected, inbox>>
    BY DEF Applies
<1> QED
    BY <1>2, <1>3, <1>4 DEF LiveInv, Inbox, Settled, InInbox

\* The activity is derived last by a handler that still has to, or it follows already.
LEMMA ProceedsActivity ==
    ASSUME LiveInv, Applies,
           \/ Finishes /\ ~Holds(plan, {"activity"})
           \/ \E x, r : /\ Proceeds(x, r)
                        /\ \/ x = write("activity", deriveRobotActivity(cloud, gateway, mode, inferred))
                           \/ x.id # "activity" /\ (Holds(plan, {"activity"}) => Holds(r, {"activity"}))
    PROVE  ActivityKnown'
<1>1. Handlers
    BY DEF LiveInv
<1>2. UNCHANGED <<cloud, gateway, mode, inferred>>
    BY DEF Applies, taskVars
<1>3. CASE Finishes /\ ~Holds(plan, {"activity"})
    <2>1. Ends
        BY <1>3 DEF Finishes
    <2>2. Latest(writes', states', "activity") \subseteq Latest(writes, states, "activity")
        BY <1>1, <2>1, LatestEnds
    <2>3. Owes({"activity"}) => Owes({"activity"})'
        BY <1>1, <1>3, <2>1, EndsOwes
    <2> QED
        BY <1>2, <2>2, <2>3 DEF LiveInv, ActivityKnown, deriveRobotActivity
<1>4. ASSUME NEW x, NEW r, GoesOn(x, r), x.id # "activity",
             Holds(plan, {"activity"}) => Holds(r, {"activity"})
      PROVE  ActivityKnown'
    <2>1. Latest(writes', states', "activity") \subseteq Latest(writes, states, "activity")
        BY <1>1, <1>4, LatestGoesOn
    <2>2. Owes({"activity"}) => Owes({"activity"})'
        BY <1>1, <1>4, GoesOnOwes
    <2> QED
        BY <1>2, <2>1, <2>2 DEF LiveInv, ActivityKnown, deriveRobotActivity
<1>5. ASSUME NEW x, NEW r, GoesOn(x, r),
             x = write("activity", deriveRobotActivity(cloud, gateway, mode, inferred))
      PROVE  ActivityKnown'
    <2>1. x.id = "activity" /\ x.value = deriveRobotActivity(cloud, gateway, mode, inferred)
        BY <1>5 DEF write
    <2>2. Latest(writes', states', "activity") \subseteq {x.value}
        BY <1>1, <1>5, <2>1, LatestGoesOn
    <2> QED
        BY <1>2, <2>1, <2>2 DEF ActivityKnown, deriveRobotActivity
<1> QED
    BY <1>3, <1>4, <1>5 DEF Proceeds

\* So with the picture, as long as what it shows stays the same.
LEMMA ProceedsPicture ==
    ASSUME LiveInv, Applies, UNCHANGED memory,
           \/ Finishes /\ ~Holds(plan, Renders)
           \/ \E x, r : Proceeds(x, r) /\ x.id # "svg" /\ (Holds(plan, Renders) => Holds(r, Renders))
    PROVE  PictureKnown'
<1>1. Handlers
    BY DEF LiveInv
<1>2. UNCHANGED <<mapData, catalog, setting, selected, trail>>
    BY DEF memory
<1>3. CASE Finishes /\ ~Holds(plan, Renders)
    <2>1. Ends
        BY <1>3 DEF Finishes
    <2>2. Latest(writes', states', "svg") \subseteq Latest(writes, states, "svg")
        BY <1>1, <2>1, LatestEnds
    <2>3. Owes(Renders) => Owes(Renders)'
        BY <1>1, <1>3, <2>1, EndsOwes
    <2> QED
        BY <1>2, <2>2, <2>3 DEF LiveInv, PictureKnown, Shows, shown
<1>4. ASSUME NEW x, NEW r, GoesOn(x, r), x.id # "svg", Holds(plan, Renders) => Holds(r, Renders)
      PROVE  PictureKnown'
    <2>1. Latest(writes', states', "svg") \subseteq Latest(writes, states, "svg")
        BY <1>1, <1>4, LatestGoesOn
    <2>2. Owes(Renders) => Owes(Renders)'
        BY <1>1, <1>4, GoesOnOwes
    <2> QED
        BY <1>2, <2>1, <2>2 DEF LiveInv, PictureKnown, Shows, shown
<1> QED
    BY <1>3, <1>4 DEF Proceeds

\* A completed write, whatever its handler does next.
LEMMA WriteKeepsLive ==
    ASSUME LiveInv, WriteCompletes
    PROVE  LiveInv'
<1>1. Handlers
    BY DEF LiveInv
<1>2. Applies /\ (Stops \/ Writes \/ Derives \/ Merges \/ RendersFirst)
      /\ (first.write.id \in {"svg", "png"} => Writes)
    BY <1>1, WriteOutcome
<1>3. Plain(plan)
    BY <1>1, <1>2, PlanFacts
<1>4. ASSUME plan # <<>>, NEW K
      PROVE  /\ Plain(Tail(plan))
             /\ Holds(plan, K) <=> (Head(plan).do \in K \/ Holds(Tail(plan), K))
    BY <1>3, <1>4, TailFacts, HoldsTail
<1>5. ASSUME plan # <<>>, Tail(plan) # <<>>, NEW K
      PROVE  Holds(Tail(plan), K) <=> (Head(Tail(plan)).do \in K \/ Holds(Tail(Tail(plan)), K))
    BY <1>4, <1>5, HoldsTail
<1>6. ASSUME Finishes \/ \E x, r : Proceeds(x, r), ActivityKnown', PictureKnown'
      PROVE  LiveInv'
    BY <1>2, <1>6, ProceedsInStep, ProceedsSettled DEF LiveInv
<1>7. CASE Writes
    <2> DEFINE x == Head(plan)
               r == Tail(plan)
    <2>1. plan # <<>> /\ x.do = "write" /\ UNCHANGED memory
        BY <1>7 DEF Writes
    <2>2. Proceeds(x, r) /\ x.id \notin {"svg", "activity"}
        BY <1>7 DEF Writes, Proceeds
    <2>3. /\ Holds(plan, {"activity"}) => Holds(r, {"activity"})
          /\ Holds(plan, Renders) => Holds(r, Renders)
        <3>1. Holds(plan, {"activity"}) <=> (x.do \in {"activity"} \/ Holds(r, {"activity"}))
            BY <1>4, <2>1
        <3>2. Holds(plan, Renders) <=> (x.do \in Renders \/ Holds(r, Renders))
            BY <1>4, <2>1
        <3> QED
            BY <2>1, <3>1, <3>2 DEF Renders
    <2> HIDE DEF x, r
    <2> QED
        BY <1>2, <1>6, <2>1, <2>2, <2>3, ProceedsActivity, ProceedsPicture
<1>8. CASE Stops /\ ~Writes
    <2>1. Finishes /\ UNCHANGED memory /\ plan = <<>>
        BY <1>2, <1>8 DEF Stops, Finishes
    <2>2. \A K : ~Holds(plan, K)
        BY <2>1 DEF Holds
    <2> QED
        BY <1>2, <1>6, <2>1, <2>2, ProceedsActivity, ProceedsPicture
<1>9. CASE Derives /\ ~Writes
    <2> DEFINE x == write("activity", deriveRobotActivity(cloud, gateway, mode, inferred))
               r == Tail(plan)
    <2>1. plan # <<>> /\ Head(plan).do = "activity" /\ UNCHANGED memory /\ GoesOn(x, r)
        BY <1>9 DEF Derives
    <2>2. x.id = "activity"
        BY ActionIds
    <2>3. Proceeds(x, r)
        <3> HIDE DEF x, r
        <3> QED
            BY <1>2, <1>9, <2>1, <2>2 DEF Proceeds
    <2>4. Holds(plan, Renders) => Holds(r, Renders)
        <3>1. Holds(plan, Renders) <=> (Head(plan).do \in Renders \/ Holds(r, Renders))
            BY <1>4, <2>1
        <3> QED
            BY <2>1, <3>1 DEF Renders
    <2>5. ActivityKnown'
        BY <1>2, <2>3, ProceedsActivity
    <2> HIDE DEF x, r
    <2>6. PictureKnown'
        BY <1>2, <2>1, <2>2, <2>3, <2>4, ProceedsPicture
    <2> QED
        BY <1>6, <2>3, <2>5, <2>6
<1>10. CASE Merges /\ ~Writes
    <2> DEFINE r == Tail(Tail(plan))
    <2>1. plan # <<>> /\ Head(plan).do = "merge" /\ GoesOn(other, r) /\ Holds(r, {"map"})
          /\ Tail(plan) # <<>> /\ Head(Tail(plan)) = other
        BY <1>10 DEF Merges
    <2>2. Proceeds(other, r)
        BY <1>2, <1>10, <2>1, ActionIds DEF Proceeds
    <2>3. other.do = "write"
        BY DEF other, write
    <2>4. Holds(plan, {"activity"}) => Holds(r, {"activity"})
        <3>1. Holds(plan, {"activity"}) <=> (Head(plan).do \in {"activity"} \/ Holds(Tail(plan), {"activity"}))
            BY <1>4, <2>1
        <3>2. Holds(Tail(plan), {"activity"}) <=> (other.do \in {"activity"} \/ Holds(r, {"activity"}))
            BY <1>5, <2>1
        <3> QED
            BY <2>1, <2>3, <3>1, <3>2
    <2> HIDE DEF r
    <2>5. ActivityKnown'
        BY <1>2, <2>2, <2>4, ActionIds, ProceedsActivity
    <2>6. Owes(Renders)'
        <3>1. Holds(r, Renders)
            BY <2>1 DEF Holds, Renders
        <3>2. running'[first.by] = r /\ first.by \in DOMAIN running'
            BY <1>1, <1>2, <2>1, FirstFacts DEF GoesOn, Applies
        <3> QED
            BY <3>1, <3>2 DEF Owes
    <2>7. PictureKnown'
        BY <2>6 DEF PictureKnown
    <2> QED
        BY <1>6, <2>2, <2>5, <2>7
<1>11. CASE RendersFirst /\ ~Writes
    <2>1. plan # <<>> /\ Head(plan).do \in Renders /\ first.write.id \notin {"svg", "png"}
        BY <1>2, <1>11 DEF RendersFirst
    <2>2. Holds(plan, {"activity"}) => Holds(Tail(plan), {"activity"})
        <3>1. Holds(plan, {"activity"}) <=> (Head(plan).do \in {"activity"} \/ Holds(Tail(plan), {"activity"}))
            BY <1>4, <2>1
        <3> QED
            BY <2>1, <3>1 DEF Renders
    <2>3. CASE mapData'.map # None
        <3> DEFINE x == write("svg", frame)
                   a == write("png", frame)
                   b == write("areas", frame)
                   r == <<a, b>> \o Tail(plan)
        <3>1. GoesOn(x, r) /\ x.id = "svg" /\ x.value = frame
            BY <1>11, <2>3, ActionIds DEF RendersFirst
        <3>2. Holds(Tail(plan), {"activity"}) => Holds(r, {"activity"})
            <4>1. Plain(Tail(plan))
                BY <1>4, <2>1
            <4> HIDE DEF a, b
            <4>2. r = <<a>> \o (<<b>> \o Tail(plan)) /\ Plain(<<b>> \o Tail(plan))
                <5>1. <<a, b>> \o Tail(plan) = <<a>> \o (<<b>> \o Tail(plan))
                    BY <4>1, PairConsFacts
                <5>2. Plain(<<b>> \o Tail(plan))
                    BY <4>1, ConsFacts
                <5> QED
                    BY <5>1, <5>2
            <4>3. Holds(Tail(plan), {"activity"}) => Holds(<<b>> \o Tail(plan), {"activity"})
                BY <4>1, HoldsCons
            <4>4. Holds(<<b>> \o Tail(plan), {"activity"}) => Holds(<<a>> \o (<<b>> \o Tail(plan)), {"activity"})
                BY <4>2, HoldsCons
            <4> QED
                BY <4>2, <4>3, <4>4
        <3> HIDE DEF x, r
        <3>3. Proceeds(x, r)
            BY <1>2, <1>11, <2>1, <3>1 DEF Proceeds
        <3>4. ActivityKnown'
            BY <1>2, <2>2, <3>1, <3>2, <3>3, ProceedsActivity
        <3>5. PictureKnown'
            <4>1. Latest(writes', states', "svg") \subseteq {frame}
                BY <1>1, <1>2, <3>1, LatestGoesOn
            <4>2. setting' = setting /\ selected' = selected
                BY <1>2 DEF Applies
            <4>3. ASSUME NEW f, f = frame PROVE Shows(f)'
                BY <4>2, <4>3 DEF Shows, frame, shown
            <4>4. ASSUME NEW f \in Latest(writes', states', "svg") PROVE Shows(f)'
                BY <4>1, <4>3
            <4> QED
                BY <4>4 DEF PictureKnown
        <3> QED
            BY <1>6, <3>3, <3>4, <3>5
    <2>4. CASE mapData'.map = None
        <3>1. PictureKnown'
            BY <2>4 DEF PictureKnown
        <3>2. CASE Tail(plan) = <<>> /\ Ends
            <4>1. Finishes /\ ~Holds(plan, {"activity"})
                <5>1. ~Holds(<<>>, {"activity"})
                    BY DEF Holds
                <5> QED
                    BY <2>1, <2>2, <3>2, <5>1 DEF Finishes
            <4>2. ActivityKnown'
                BY <1>2, <4>1, ProceedsActivity
            <4> QED
                BY <1>6, <3>1, <4>1, <4>2
        <3>3. CASE Tail(plan) # <<>> /\ Head(Tail(plan)) = other /\ GoesOn(other, Tail(Tail(plan)))
            <4> DEFINE r == Tail(Tail(plan))
            <4>1. Proceeds(other, r)
                BY <1>2, <2>1, <3>3, ActionIds DEF Proceeds
            <4>2. other.do = "write"
                BY DEF other, write
            <4>3. Holds(Tail(plan), {"activity"}) <=> (other.do \in {"activity"} \/ Holds(r, {"activity"}))
                BY <1>5, <2>1, <3>3
            <4> HIDE DEF r
            <4>4. ActivityKnown'
                BY <1>2, <2>2, <4>1, <4>2, <4>3, ActionIds, ProceedsActivity
            <4> QED
                BY <1>6, <3>1, <4>1, <4>4
        <3> QED
            BY <1>11, <2>4, <3>2, <3>3 DEF RendersFirst
    <2> QED
        BY <2>3, <2>4
<1> QED
    BY <1>2, <1>7, <1>8, <1>9, <1>10, <1>11

-----------------------------------------------------------------------------
(* Events *)

\* An event that writes something else leaves the settings to those who owe them.
LEMMA OtherSettles ==
    ASSUME LiveInv, NEW x, NEW r, Begins(x, r), x.id = "other",
           UNCHANGED <<setting, selected, inbox, states>>
    PROVE  Inbox' /\ Settled("setting", setting)' /\ Settled("selected", selected)'
<1>1. Latest(writes', states', "setting") = Latest(writes, states, "setting")
    BY LatestBegins DEF LiveInv
<1>2. Latest(writes', states', "selected") = Latest(writes, states, "selected")
    BY LatestBegins DEF LiveInv
<1> QED
    BY <1>1, <1>2 DEF LiveInv, Inbox, Settled, InInbox

\* An event that writes a state which nothing follows from only adds to what is owed.
LEMMA EventKeeps ==
    ASSUME LiveInv, NEW x, NEW r, Begins(x, r), states' = states,
           x.id \in {"other", "setting", "selected"},
           Inbox',
           Settled("setting", setting)', Settled("selected", selected)',
           Holds(r, {"activity"}) \/ UNCHANGED <<cloud, gateway, mode, inferred>>,
           Holds(r, Renders) \/ 
              (UNCHANGED <<mapData, catalog, setting, selected>> /\ (trail' = trail \/ trail' = <<>>))
    PROVE  LiveInv'
<1>1. Handlers
    BY DEF LiveInv
<1>2. Handlers'
    BY <1>1, BeginsKeepsHandlers
<1>3. ASSUME NEW id \in {"svg", "png", "areas", "activity"}
      PROVE  /\ Latest(writes', states', id) = Latest(writes, states, id)
             /\ WritesOf(writes', id) = WritesOf(writes, id)
    <2>1. x.id # id
        OBVIOUS
    <2> QED
        BY <1>1, <2>1, LatestBegins
<1>4. ASSUME NEW K, Owes(K) \/ Holds(r, K) PROVE Owes(K)'
    BY <1>1, <1>4, BeginsOwes
<1>5. ActivityKnown'
    <2>1. CASE Owes({"activity"}) \/ Holds(r, {"activity"})
        BY <2>1, <1>4 DEF ActivityKnown
    <2>2. CASE ~Owes({"activity"}) /\ UNCHANGED <<cloud, gateway, mode, inferred>>
        BY <2>2, <1>3 DEF LiveInv, ActivityKnown, deriveRobotActivity
    <2> QED
        BY <2>1, <2>2
<1>6. InStep("svg", "png")' /\ InStep("png", "areas")'
    BY <1>3 DEF LiveInv, InStep
<1>7. PictureKnown'
    <2>1. CASE Owes(Renders) \/ Holds(r, Renders)
        <3>1. Owes(Renders)'
            BY <2>1, <1>4
        <3> QED
            BY <3>1 DEF PictureKnown
    <2>2. CASE /\ ~Owes(Renders) /\ UNCHANGED <<mapData, catalog, setting, selected>>
               /\ (trail' = trail \/ trail' = <<>>)
        BY <2>2, <1>3 DEF LiveInv, PictureKnown, Shows, shown
    <2> QED
        BY <2>1, <2>2
<1> QED
    BY <1>2, <1>5, <1>6, <1>7 DEF LiveInv

\* A status may clear the selection, which it then writes and renders.
LEMMA StatusKeepsLive ==
    ASSUME LiveInv, NEW s \in Statuses, NEW recovered \in BOOLEAN, Status(s, recovered)
    PROVE  LiveInv'
<1> DEFINE cleaning == inferred \/ s.mode = "sweep" \/ s.progress
           ends == endsTask(s.mode, cleaning)
           clears == selected /\ ((ends /\ active) \/ recovered)
           P == statusProgram(s, clears)
           x == Head(P)
           r == Tail(P)
<1>1. /\ selected' = (selected /\ ~clears) /\ starts(P)
      /\ trail' = IF resetTrail(s.mode) THEN <<>> ELSE trail
      /\ UNCHANGED <<mapData, latestMapId, catalog, setting, cloud, gateway, states, inbox>>
    BY DEF Status, statusProgram
<1>2. clears \in BOOLEAN
    OBVIOUS
<1> HIDE DEF clears
<1>3. /\ x = IF clears THEN write("selected", FALSE) ELSE other
      /\ Rest(r) /\ Holds(r, {"activity"}) /\ (clears => Holds(r, Renders))
    BY <1>2, StatusProgram
<1> HIDE DEF P
<1>4. x.id \in {"other", "selected"} /\ (clears => x.id = "selected" /\ x.value = FALSE)
      /\ (~clears => x.id = "other")
    BY <1>3, OtherFacts DEF write
<1>5. Begins(x, r)
    <2>1. Fits(x, r)
        BY <1>3, <1>4 DEF Fits, After, Ids
    <2> QED
        BY <2>1, <1>1, StartsBegins
<1>6. selected \in BOOLEAN
    BY DEF LiveInv, Inbox
<1>7. Inbox' /\ Settled("setting", setting)' /\ Settled("selected", selected)'
    <2>1. CASE ~clears
        <3>1. UNCHANGED <<setting, selected, inbox, states>>
            BY <1>1, <1>6, <2>1
        <3> HIDE DEF x, r
        <3> QED
            BY <3>1, <1>4, <1>5, <2>1, OtherSettles
    <2>2. CASE clears
        <3>1. selected' = FALSE
            BY <1>1, <1>6, <2>2
        <3> HIDE DEF x, r
        <3>2. Latest(writes', states', "selected") \subseteq {FALSE}
            BY <1>1, <1>4, <1>5, <2>2, LatestBegins DEF LiveInv
        <3>3. Latest(writes', states', "setting") = Latest(writes, states, "setting")
            BY <1>1, <1>4, <1>5, <2>2, LatestBegins DEF LiveInv
        <3> QED
            BY <1>1, <3>1, <3>2, <3>3 DEF LiveInv, Inbox, Settled, InInbox
    <2> QED
        BY <2>1, <2>2
<1>8. Holds(r, Renders) \/ 
         (UNCHANGED <<mapData, catalog, setting, selected>> /\ (trail' = trail \/ trail' = <<>>))
    <2>1. CASE ~clears
        <3>1. selected' = selected
            BY <1>1, <1>6, <2>1
        <3> QED
            BY <3>1, <1>1
    <2> QED
        BY <2>1, <1>3
<1> HIDE DEF x, r
<1> QED
    BY <1>1, <1>3, <1>4, <1>5, <1>7, <1>8, EventKeeps

\* The completion timer clears the selection, which is then written and rendered.
LEMMA TimerKeepsLive ==
    ASSUME LiveInv, CompletionTimerFires
    PROVE  LiveInv'
<1> DEFINE x == write("selected", FALSE)
           P == <<x, Do("render")>>
           r == Tail(P)
<1>1. /\ selected' = FALSE /\ starts(P)
      /\ UNCHANGED <<mapData, latestMapId, catalog, setting, trail, taskVars, cloud, gateway,
                     states, inbox>>
    BY DEF CompletionTimerFires, clearsSelection
<1>2. x.id = "selected" /\ x.value = FALSE /\ x.id \in Ids \ {"svg", "png"}
    BY DEF write, Ids
<1>3. Do("render").do \in Renders
    BY DEF Do, Renders
<1> HIDE DEF x
<1>4. Head(P) = x /\ Fits(x, r) /\ Holds(r, Renders)
    BY <1>2, <1>3, PairProgram
<1> HIDE DEF P
<1>5. Begins(x, r)
    BY <1>1, <1>4, StartsBegins
<1>6. Latest(writes', states', "selected") \subseteq {FALSE}
    BY <1>1, <1>2, <1>5, LatestBegins DEF LiveInv
<1>7. Latest(writes', states', "setting") = Latest(writes, states, "setting")
    BY <1>1, <1>2, <1>5, LatestBegins DEF LiveInv
<1>8. Inbox' /\ Settled("setting", setting)' /\ Settled("selected", selected)'
    BY <1>1, <1>6, <1>7 DEF LiveInv, Inbox, Settled, InInbox
<1>9. UNCHANGED <<cloud, gateway, mode, inferred>>
    BY <1>1 DEF taskVars
<1> HIDE DEF r
<1> QED
    BY <1>1, <1>2, <1>4, <1>5, <1>8, <1>9, EventKeeps

\* A map changes the areas at once and is rendered later, if it can be drawn.
LEMMA MapKeepsLive ==
    ASSUME LiveInv, NEW m \in MapIds, NEW drawable \in BOOLEAN, Map(m, drawable)
    PROVE  LiveInv'
<1> DEFINE d == IF drawable THEN m ELSE None
<1>1. UNCHANGED <<setting, selected, inbox, states, mapData, trail, taskVars, cloud, gateway>>
    BY DEF Map
<1>2. \E r : Begins(other, r) /\ Holds(r, Renders)
    <2>1. CASE knownMapId \in {None, m}
        <3> DEFINE P == <<other, DoMap("map", d)>>
        <3>1. starts(P)
            BY <2>1 DEF Map
        <3>4. d \in Maps
            BY DEF Maps
        <3> HIDE DEF d
        <3>2. DoMap("map", d).do \in Renders
            BY DEF DoMap, Renders
        <3>3. Head(P) = other /\ Fits(other, Tail(P)) /\ Holds(Tail(P), Renders)
            BY <3>2, <3>4, OtherFacts, PairProgram
        <3> HIDE DEF P
        <3> QED
            BY <3>1, <3>3, StartsBegins
    <2>2. CASE ~(knownMapId \in {None, m})
        <3> DEFINE P == <<other, DoMap("merge", m), other, DoMap("map", d)>>
        <3>1. starts(P)
            BY <2>2 DEF Map
        <3>3. d \in Maps
            BY DEF Maps
        <3> HIDE DEF d
        <3>2. Head(P) = other /\ Fits(other, Tail(P)) /\ Holds(Tail(P), Renders)
            BY <3>3, MergeProgram
        <3> HIDE DEF P
        <3> QED
            BY <3>1, <3>2, StartsBegins
    <2> QED
        BY <2>1, <2>2
<1>3. PICK r : Begins(other, r) /\ Holds(r, Renders)
    BY <1>2
<1>4. Inbox' /\ Settled("setting", setting)' /\ Settled("selected", selected)'
    BY <1>1, <1>3, OtherFacts, OtherSettles
<1>5. UNCHANGED <<cloud, gateway, mode, inferred>>
    BY <1>1 DEF taskVars
<1> QED
    BY <1>1, <1>3, <1>4, <1>5, OtherFacts, EventKeeps

\* A catalog is rendered after a write.
LEMMA ZonesKeepsLive ==
    ASSUME LiveInv, NEW m \in MapIds, Zones(m)
    PROVE  LiveInv'
<1> DEFINE P == <<other, Do("render")>>
           r == Tail(P)
<1>1. /\ UNCHANGED <<setting, selected, inbox, states, mapData, trail, taskVars, cloud, gateway>>
      /\ starts(P)
    BY DEF Zones, catalogAccepted
<1>2. Do("render").do \in Renders
    BY DEF Do, Renders
<1>3. Head(P) = other /\ Fits(other, r) /\ Holds(r, Renders)
    BY <1>2, OtherFacts, PairProgram
<1> HIDE DEF P
<1>4. Begins(other, r)
    BY <1>1, <1>3, StartsBegins
<1>5. Inbox' /\ Settled("setting", setting)' /\ Settled("selected", selected)'
    BY <1>1, <1>4, OtherFacts, OtherSettles
<1>6. UNCHANGED <<cloud, gateway, mode, inferred>>
    BY <1>1 DEF taskVars
<1> QED
    BY <1>1, <1>3, <1>4, <1>5, <1>6, OtherFacts, EventKeeps

\* A connection changes the activity, which is derived after a write.
LEMMA ConnectionKeepsLive ==
    ASSUME LiveInv, NEW c \in BOOLEAN, NEW g \in BOOLEAN, Connection(c, g)
    PROVE  LiveInv'
<1> DEFINE P == <<other, Do("activity")>>
           r == Tail(P)
<1>1. UNCHANGED <<memory, inbox, states>> /\ starts(P)
    BY DEF Connection
<1>2. Do("activity").do \in {"activity"}
    BY DEF Do
<1>3. Head(P) = other /\ Fits(other, r) /\ Holds(r, {"activity"})
    BY <1>2, OtherFacts, PairProgram
<1> HIDE DEF P
<1>4. Begins(other, r)
    BY <1>1, <1>3, StartsBegins
<1>5. UNCHANGED <<mapData, catalog, setting, selected, trail>>
    BY <1>1 DEF memory
<1>6. Inbox' /\ Settled("setting", setting)' /\ Settled("selected", selected)'
    BY <1>1, <1>4, <1>5, OtherFacts, OtherSettles
<1> QED
    BY <1>1, <1>3, <1>4, <1>5, <1>6, OtherFacts, EventKeeps

\* The end of inferred cleaning only adds to what the activity may say.
LEMMA ExpiryKeepsLive ==
    ASSUME LiveInv, InferenceExpires
    PROVE  LiveInv'
<1>1. /\ inferred /\ inferred' = FALSE
      /\ UNCHANGED <<memory, mode, cloud, gateway, states, inbox, writes, running, events>>
    BY DEF InferenceExpires
<1>2. UNCHANGED <<mapData, catalog, setting, selected, trail>>
    BY <1>1 DEF memory
<1>3. Handlers' /\ Inbox' /\ Settled("setting", setting)' /\ Settled("selected", selected)'
    BY <1>1, <1>2 DEF LiveInv, Handlers, Inbox, Settled, InInbox
<1>4. \A K : Owes(K)' <=> Owes(K)
    BY <1>1 DEF Owes
<1>5. ActivityKnown'
    BY <1>1, <1>4 DEF LiveInv, ActivityKnown, deriveRobotActivity
<1>6. InStep("svg", "png")' /\ InStep("png", "areas")'
    BY <1>1 DEF LiveInv, InStep
<1>7. PictureKnown'
    BY <1>1, <1>2, <1>4 DEF LiveInv, PictureKnown, Shows, shown
<1> QED
    BY <1>3, <1>5, <1>6, <1>7 DEF LiveInv

\* A write of the user is in the states before the adapter sees it.
LEMMA UserKeepsLive ==
    ASSUME LiveInv, User
    PROVE  LiveInv'
<1>1. PICK id \in {"setting", "selected"} :
          \E v : UserSets(id, v) /\ (id = "selected" => v \in BOOLEAN)
    BY DEF User
<1>2. PICK v : UserSets(id, v) /\ (id = "selected" => v \in BOOLEAN)
    BY <1>1
<1> DEFINE n == Len(inbox)
           a == [id |-> id, value |-> v]
<1>3. /\ states' = [states EXCEPT ![id] = v] /\ inbox' = Append(inbox, a)
      /\ UNCHANGED <<memory, taskVars, cloud, gateway, writes, running, events>>
    BY <1>2 DEF UserSets
<1>4. UNCHANGED <<mapData, catalog, setting, selected, trail, inferred, mode>>
    BY <1>3 DEF memory, taskVars
<1>5. /\ Plain(inbox') /\ n \in Nat /\ Len(inbox') = n + 1
      /\ \A i \in 1..n + 1 : inbox'[i] = IF i = n + 1 THEN a ELSE inbox[i]
    BY <1>3, AppendFacts DEF LiveInv, Inbox
<1>6. Inbox'
    <2>1. ASSUME NEW i \in 1..Len(inbox')
          PROVE  inbox'[i].id = "selected" => inbox'[i].value \in BOOLEAN
        <3>1. CASE i = n + 1
            BY <3>1, <1>2, <1>5
        <3>2. CASE i # n + 1
            <4>1. i \in 1..n
                BY <3>2, <1>5
            <4> QED
                BY <4>1, <3>2, <1>5 DEF LiveInv, Inbox
        <3> QED
            BY <3>1, <3>2
    <2> QED
        BY <2>1, <1>4, <1>5 DEF LiveInv, Inbox
<1>7. InInbox(id)'
    <2>1. n + 1 \in 1..Len(inbox') /\ inbox'[n + 1].id = id
        BY <1>5
    <2> QED
        BY <2>1 DEF InInbox
<1>8. \A k : InInbox(k) => InInbox(k)'
    BY <1>5 DEF InInbox
<1>9. ASSUME NEW k, k # id
      PROVE  Latest(writes', states', k) = Latest(writes, states, k) /\ states'[k] = states[k]
    BY <1>3, <1>9 DEF Latest
<1>10. Settled("setting", setting)' /\ Settled("selected", selected)'
    <2>1. CASE id = "setting"
        BY <2>1, <1>3, <1>4, <1>7, <1>8, <1>9 DEF LiveInv, Settled
    <2>2. CASE id = "selected"
        BY <2>2, <1>3, <1>4, <1>7, <1>8, <1>9 DEF LiveInv, Settled
    <2> QED
        BY <2>1, <2>2
<1>11. \A k \in {"svg", "png", "areas", "activity"} :
           Latest(writes', states', k) = Latest(writes, states, k) /\ states'[k] = states[k]
    BY <1>9
<1>12. \A K : Owes(K)' <=> Owes(K)
    BY <1>3 DEF Owes
<1>13. ActivityKnown'
    BY <1>3, <1>4, <1>11, <1>12 DEF LiveInv, ActivityKnown, deriveRobotActivity
<1>14. InStep("svg", "png")' /\ InStep("png", "areas")'
    BY <1>3, <1>11 DEF LiveInv, InStep
<1>15. PictureKnown'
    BY <1>4, <1>11, <1>12 DEF LiveInv, PictureKnown, Shows, shown
<1>16. Handlers'
    BY <1>3 DEF LiveInv, Handlers
<1> QED
    BY <1>6, <1>10, <1>13, <1>14, <1>15, <1>16 DEF LiveInv

\* What the adapter has seen of the inbox is gone, the rest stays.
LEMMA InboxTail ==
    ASSUME Inbox, inbox # <<>>, inbox' = Tail(inbox), selected' \in BOOLEAN
    PROVE  /\ Inbox' /\ (Head(inbox).id = "selected" => Head(inbox).value \in BOOLEAN)
           /\ \A id : id # Head(inbox).id /\ InInbox(id) => InInbox(id)'
<1>1. /\ Plain(inbox') /\ Len(inbox) \in Nat \ {0} /\ Len(inbox') = Len(inbox) - 1
      /\ Head(inbox) = inbox[1] /\ \A i \in 1..Len(inbox) - 1 : inbox'[i] = inbox[i + 1]
    BY TailFacts DEF Inbox
<1>2. ASSUME NEW i \in 1..Len(inbox')
      PROVE  inbox'[i].id = "selected" => inbox'[i].value \in BOOLEAN
    <2>1. i + 1 \in 1..Len(inbox) /\ inbox'[i] = inbox[i + 1]
        BY <1>1
    <2> QED
        BY <2>1 DEF Inbox
<1>3. ASSUME NEW id, NEW i \in 1..Len(inbox), inbox[i].id = id, id # Head(inbox).id
      PROVE  InInbox(id)'
    <2>1. i # 1
        BY <1>1, <1>3
    <2>2. i - 1 \in 1..Len(inbox') /\ inbox'[i - 1] = inbox[i]
        BY <1>1, <2>1
    <2> QED
        BY <2>2, <1>3 DEF InInbox
<1>4. Head(inbox).id = "selected" => Head(inbox).value \in BOOLEAN
    BY <1>1 DEF Inbox
<1> QED
    BY <1>1, <1>2, <1>3, <1>4 DEF Inbox, InInbox

\* A setting the adapter sees is answered with what it uses from then on.
LEMMA SettingKeepsLive ==
    ASSUME LiveInv, SettingChanges
    PROVE  LiveInv'
<1>1. /\ inbox # <<>> /\ Head(inbox).id = "setting" /\ inbox' = Tail(inbox)
      /\ UNCHANGED <<mapData, latestMapId, catalog, selected, trail,
                     taskVars, cloud, gateway, states>>
    BY DEF SettingChanges
<1> DEFINE x == write("setting", setting')
<1>2. x.id = "setting" /\ x.value = setting' /\ x.id \in Ids \ {"svg", "png"}
    BY DEF write, Ids
<1>3. \E r : Begins(x, r) /\ (Holds(r, Renders) \/ setting' = setting)
    <2>1. CASE Head(inbox).value = Invalid
        <3> DEFINE P == <<x>>
        <3>1. setting' = setting /\ starts(P)
            BY <2>1 DEF SettingChanges
        <3> HIDE DEF x
        <3>2. Head(P) = x /\ Fits(x, Tail(P))
            BY <1>2, SingleProgram
        <3> HIDE DEF P
        <3> QED
            BY <3>1, <3>2, StartsBegins
    <2>2. CASE Head(inbox).value # Invalid
        <3> DEFINE P == <<x, Do("render")>>
        <3>1. starts(P)
            BY <2>2 DEF SettingChanges
        <3>2. Do("render").do \in Renders
            BY DEF Do, Renders
        <3> HIDE DEF x
        <3>3. Head(P) = x /\ Fits(x, Tail(P)) /\ Holds(Tail(P), Renders)
            BY <1>2, <3>2, PairProgram
        <3> HIDE DEF P
        <3> QED
            BY <3>1, <3>3, StartsBegins
    <2> QED
        BY <2>1, <2>2
<1> HIDE DEF x
<1>4. PICK r : Begins(x, r) /\ (Holds(r, Renders) \/ setting' = setting)
    BY <1>3
<1>5. /\ Inbox' /\ (InInbox("selected") => InInbox("selected")')
    BY <1>1, InboxTail DEF LiveInv, Inbox
<1>6. Latest(writes', states', "setting") \subseteq {setting'}
    BY <1>1, <1>2, <1>4, LatestBegins DEF LiveInv
<1>7. Latest(writes', states', "selected") = Latest(writes, states, "selected")
    BY <1>1, <1>2, <1>4, LatestBegins DEF LiveInv
<1>8. Settled("setting", setting)' /\ Settled("selected", selected)'
    BY <1>1, <1>5, <1>6, <1>7 DEF LiveInv, Settled
<1>9. UNCHANGED <<cloud, gateway, mode, inferred>>
    BY <1>1 DEF taskVars
<1> QED
    BY <1>1, <1>2, <1>4, <1>5, <1>8, <1>9, EventKeeps

\* ... and so is a selection.
LEMMA SelectionKeepsLive ==
    ASSUME LiveInv, SelectionChanges
    PROVE  LiveInv'
<1>1. /\ inbox # <<>> /\ Head(inbox).id = "selected" /\ inbox' = Tail(inbox)
      /\ selected' = Head(inbox).value
      /\ UNCHANGED <<mapData, latestMapId, catalog, setting, trail,
                     taskVars, cloud, gateway, states>>
    BY DEF SelectionChanges
<1> DEFINE x == write("selected", selected')
           P == <<x, Do("render")>>
           r == Tail(P)
<1>2. x.id = "selected" /\ x.value = selected' /\ x.id \in Ids \ {"svg", "png"}
    BY DEF write, Ids
<1>3. starts(P)
    BY DEF SelectionChanges
<1>4. Do("render").do \in Renders
    BY DEF Do, Renders
<1> HIDE DEF x
<1>5. Head(P) = x /\ Fits(x, r) /\ Holds(r, Renders)
    BY <1>2, <1>4, PairProgram
<1> HIDE DEF P
<1>6. Begins(x, r)
    BY <1>3, <1>5, StartsBegins
<1>7. selected' \in BOOLEAN
    <2>1. Plain(inbox) /\ Head(inbox) = inbox[1] /\ 1 \in 1..Len(inbox)
        BY <1>1, TailFacts DEF LiveInv, Inbox
    <2> QED
        BY <1>1, <2>1 DEF LiveInv, Inbox
<1>8. Inbox' /\ (InInbox("setting") => InInbox("setting")')
    BY <1>1, <1>7, InboxTail DEF LiveInv
<1>9. Latest(writes', states', "selected") \subseteq {selected'}
    BY <1>1, <1>2, <1>6, LatestBegins DEF LiveInv
<1>10. Latest(writes', states', "setting") = Latest(writes, states, "setting")
    BY <1>1, <1>2, <1>6, LatestBegins DEF LiveInv
<1>11. Settled("setting", setting)' /\ Settled("selected", selected)'
    BY <1>1, <1>8, <1>9, <1>10 DEF LiveInv, Settled
<1>12. UNCHANGED <<cloud, gateway, mode, inferred>>
    BY <1>1 DEF taskVars
<1> HIDE DEF r
<1> QED
    BY <1>1, <1>2, <1>5, <1>6, <1>8, <1>11, <1>12, EventKeeps

\* Nothing happens.
LEMMA StutterKeepsLive ==
    ASSUME LiveInv, UNCHANGED vars
    PROVE  LiveInv'
<1>1. UNCHANGED <<mapData, catalog, setting, selected, trail, inferred, mode, cloud, gateway,
                  states, inbox, writes, running, events>>
    BY DEF vars, memory, taskVars
<1>2. Handlers' /\ Inbox' /\ Settled("setting", setting)' /\ Settled("selected", selected)'
    BY <1>1 DEF LiveInv, Handlers, Inbox, Settled, InInbox
<1>3. \A K : Owes(K)' <=> Owes(K)
    BY <1>1 DEF Owes
<1>4. ActivityKnown'
    BY <1>1, <1>3 DEF LiveInv, ActivityKnown, deriveRobotActivity
<1>5. InStep("svg", "png")' /\ InStep("png", "areas")'
    BY <1>1 DEF LiveInv, InStep
<1>6. PictureKnown'
    BY <1>1, <1>3 DEF LiveInv, PictureKnown, Shows, shown
<1> QED
    BY <1>2, <1>4, <1>5, <1>6 DEF LiveInv

-----------------------------------------------------------------------------
(* Once all handlers are done *)

\* Nothing is known and nothing is shown.
LEMMA InitiallyLive == Init => LiveInv
<1> SUFFICES ASSUME Init PROVE LiveInv
    OBVIOUS
<1>1. writes = <<>> /\ inbox = <<>> /\ Len(writes) = 0 /\ Len(inbox) = 0 /\ DOMAIN running = {}
    BY DEF Init
<1>2. \A id : WritesOf(writes, id) = {} /\ Latest(writes, states, id) = {states[id]}
    BY <1>1 DEF WritesOf, Latest
<1>3. Plain(writes) /\ Plain(inbox)
    <2>1. writes \in Seq({}) /\ inbox \in Seq({})
        BY <1>1
    <2> QED
        BY <2>1 DEF Plain
<1>4. DOMAIN states = Ids
    BY DEF Init, Ids
<1>5. Handlers
    BY <1>1, <1>3, <1>4 DEF Init, Handlers
<1>6. Inbox
    <2>1. selected = FALSE
        BY DEF Init
    <2>2. \A i \in 1..Len(inbox) : FALSE
        BY <1>1
    <2> QED
        BY <1>3, <2>1, <2>2 DEF Inbox
<1>7. Settled("setting", setting) /\ Settled("selected", selected)
    BY <1>2 DEF Init, Settled
<1>8. ActivityKnown
    BY <1>2 DEF Init, ActivityKnown, deriveRobotActivity
<1>9. InStep("svg", "png") /\ InStep("png", "areas")
    BY <1>2 DEF Init, InStep
<1>10. PictureKnown
    BY DEF Init, PictureKnown
<1> QED
    BY <1>5, <1>6, <1>7, <1>8, <1>9, <1>10 DEF LiveInv

\* Whatever happens, what is not current is owed.
LEMMA StepKeepsLive ==
    ASSUME LiveInv, [Next]_vars
    PROVE  LiveInv'
<1>1. CASE \E s \in Statuses, recovered \in BOOLEAN : Status(s, recovered)
    BY <1>1, StatusKeepsLive
<1>2. CASE \E m \in MapIds, drawable \in BOOLEAN : Map(m, drawable) \/ Zones(m)
    BY <1>2, MapKeepsLive, ZonesKeepsLive
<1>3. CASE \E c, g \in BOOLEAN : Connection(c, g)
    BY <1>3, ConnectionKeepsLive
<1> QED
    BY <1>1, <1>2, <1>3, TimerKeepsLive, ExpiryKeepsLive, UserKeepsLive, SettingKeepsLive, SelectionKeepsLive,
       WriteKeepsLive, StutterKeepsLive DEF Next, GatewayEvent

\* So at all times.
LEMMA LiveInvariant == Spec => []LiveInv
BY InitiallyLive, StepKeepsLive, PTL DEF Spec

\* Without a handler there is no write, and what a state says is what it will say.
LEMMA IdleFacts ==
    ASSUME LiveInv, Idle
    PROVE  /\ \A id : states[id] \in Latest(writes, states, id)
           /\ \A id : ~InInbox(id)
           /\ \A K : ~Owes(K)
<1>1. running = <<>> /\ inbox = <<>>
    BY DEF Idle
<1>2. DOMAIN running = {} /\ Len(inbox) = 0
    BY <1>1
<1>3. Len(writes) = 0
    <2>1. Len(writes) \in Nat
        BY AppendFacts DEF LiveInv, Handlers
    <2>2. \A i \in 1..Len(writes) : FALSE
        BY <1>2 DEF LiveInv, Handlers
    <2> QED
        BY <2>1, <2>2
<1>4. \A id : Latest(writes, states, id) = {states[id]}
    BY <1>3 DEF WritesOf, Latest
<1> QED
    BY <1>2, <1>4 DEF InInbox, Owes

\* Once all handlers are done a setting and the selection say what the adapter uses.
THEOREM SettingsFinallyAgree == Spec => []SettingsAgree
<1>1. LiveInv => SettingsAgree
    <2> SUFFICES ASSUME LiveInv, Idle PROVE states.setting = setting /\ states.selected = selected
        BY DEF SettingsAgree
    <2> QED
        BY IdleFacts DEF LiveInv, Settled
<1> QED
    BY <1>1, LiveInvariant, PTL

\* Once all handlers are done status.activity follows from the connections and the latest
\* status.
THEOREM ActivityFinallyCurrent == Spec => []ActivityIsCurrent
<1>1. LiveInv => ActivityIsCurrent
    <2> SUFFICES ASSUME LiveInv, Idle
                 PROVE  \E c \in {inferred, TRUE} : states.activity = deriveRobotActivity(cloud, gateway, mode, c)
        BY DEF ActivityIsCurrent
    <2> QED
        BY IdleFacts DEF LiveInv, ActivityKnown
<1> QED
    BY <1>1, LiveInvariant, PTL

\* Once all handlers are done, and if the latest map can be drawn, the picture shows the map,
\* the zones, the settings, the selection and the trail the adapter knows.
THEOREM PictureFinallyCurrent == Spec => []PictureIsCurrent
<1>1. LiveInv => PictureIsCurrent
    <2> SUFFICES ASSUME LiveInv, Idle, mapData.map # None PROVE Shows(states.svg)
        BY DEF PictureIsCurrent, Shows
    <2> QED
        BY IdleFacts DEF LiveInv, PictureKnown
<1> QED
    BY <1>1, LiveInvariant, PTL

\* The SVG, the PNG and the areas are of the same rendering when no write of them is
\* outstanding.
THEOREM PicturesFinallyAgree == Spec => []PicturesAgree
<1>1. LiveInv => PicturesAgree
    <2> SUFFICES ASSUME LiveInv, ~Coming("svg"), ~Coming("png"), ~Coming("areas")
                 PROVE  states.svg = states.png /\ states.png = states.areas
        BY DEF PicturesAgree
    <2>1. /\ WritesOf(writes, "svg") = {}
          /\ WritesOf(writes, "png") = {} /\ WritesOf(writes, "areas") = {}
        BY DEF Coming, WritesOf
    <2>2. /\ states.png \in Latest(writes, states, "png")
          /\ states.areas \in Latest(writes, states, "areas")
        BY <2>1 DEF Latest
    <2> QED
        BY <2>1, <2>2 DEF LiveInv, InStep
<1> QED
    BY <1>1, LiveInvariant, PTL

-----------------------------------------------------------------------------
(* The trail of a task *)

\* Pushing to a trail of bounded length never shortens it.
LEMMA PushKeepsLength ==
    ASSUME Plain(trail), NEW e
    PROVE  Plain(push(e)) /\ Len(push(e)) >= Len(trail)
<1>1. Len(trail) \in Nat
    BY AppendFacts
<1>2. CASE Len(trail) = MaxPoses
    <2>1. PICK S : trail \in Seq(S)
        BY DEF Plain
    <2>2. trail # <<>>
        BY <1>2, BoundAssumption
    <2>3. Tail(trail) \in Seq(S) /\ Len(Tail(trail)) = Len(trail) - 1
        BY <2>1, <2>2
    <2>4. Plain(Tail(trail))
        BY <2>3 DEF Plain
    <2>5. Plain(Append(Tail(trail), e)) /\ Len(Append(Tail(trail), e)) = Len(trail)
        BY <2>3, <2>4, <1>1, AppendFacts
    <2> QED
        BY <1>1, <1>2, <2>5 DEF push
<1>3. CASE Len(trail) # MaxPoses
    BY <1>1, <1>3, AppendFacts DEF push
<1> QED
    BY <1>2, <1>3

\* No task is active at first.
LEMMA Initially == Init => TrailInv
<1> SUFFICES ASSUME Init PROVE TrailInv
    OBVIOUS
<1>1. trail \in Seq({}) /\ docked = FALSE /\ active = FALSE
    BY DEF Init
<1> QED
    BY <1>1 DEF TrailInv, Plain

\* A status moves the task between its states, and clears the trail only at the dock.
LEMMA StatusKeeps ==
    ASSUME TrailInv, NEW s \in Statuses, NEW recovered, Status(s, recovered)
    PROVE  TrailInv' /\ (active /\ active' => Len(trail') >= Len(trail))
<1> DEFINE ends == endsTask(s.mode, inferred \/ s.mode = "sweep" \/ s.progress)
<1>1. /\ trail' = IF resetTrail(s.mode) THEN <<>> ELSE trail
      /\ docked' = (s.mode # "sweep" /\ (ends \/ docked))
      /\ active' = (s.mode = "sweep" \/ (~ends /\ active))
    BY DEF Status
<1>2. Plain(trail')
    <2>1. CASE resetTrail(s.mode)
        <3>1. trail' \in Seq({})
            BY <1>1, <2>1
        <3> QED
            BY <3>1 DEF Plain
    <2>2. CASE ~resetTrail(s.mode)
        BY <1>1, <2>2 DEF TrailInv
    <2> QED
        BY <2>1, <2>2
<1> HIDE DEF ends
<1>3. (docked' = FALSE \/ docked' = TRUE) /\ (active' = FALSE \/ active' = TRUE)
    BY <1>1, Zenon
<1>4. docked' => ~active'
    BY <1>1, Zenon DEF TrailInv
<1>5. active => trail' = trail
    BY <1>1, Zenon DEF TrailInv, resetTrail
<1>6. Len(trail) \in Nat
    BY AppendFacts DEF TrailInv
<1> QED
    BY <1>2, <1>3, <1>4, <1>5, <1>6 DEF TrailInv

\* A completed write pushes a pose or leaves the trail.
LEMMA WriteKeeps ==
    ASSUME TrailInv, WriteCompletes
    PROVE  TrailInv' /\ Len(trail') >= Len(trail)
<1>1. (\E e : trail' = push(e)) \/ trail' = trail
    BY DEF WriteCompletes
<1>2. Plain(trail') /\ Len(trail') >= Len(trail)
    <2>1. Plain(trail) /\ Len(trail) \in Nat
        BY AppendFacts DEF TrailInv
    <2>2. CASE trail' = trail
        BY <2>1, <2>2
    <2>3. ASSUME NEW e, trail' = push(e) PROVE Plain(trail') /\ Len(trail') >= Len(trail)
        BY <2>1, <2>3, PushKeepsLength
    <2> QED
        BY <1>1, <2>2, <2>3
<1>3. docked' = docked /\ active' = active
    BY DEF WriteCompletes, taskVars
<1> QED
    BY <1>2, <1>3 DEF TrailInv

\* Whatever else happens leaves the trail and the task as they are.
LEMMA RestKeeps ==
    ASSUME TrailInv, UNCHANGED <<trail, docked, active>>
    PROVE  TrailInv' /\ Len(trail') >= Len(trail)
<1>1. Len(trail) \in Nat
    BY AppendFacts DEF TrailInv
<1> QED
    BY <1>1 DEF TrailInv

\* No step shortens the trail of a task that is active before and after it.
LEMMA StepKeeps ==
    ASSUME TrailInv, [Next]_vars
    PROVE  TrailInv' /\ (active /\ active' => Len(trail') >= Len(trail))
<1>1. CASE \E s \in Statuses, recovered \in BOOLEAN : Status(s, recovered)
    BY <1>1, StatusKeeps
<1>2. CASE WriteCompletes
    BY <1>2, WriteKeeps
<1>3. CASE \E m \in MapIds, drawable \in BOOLEAN : Map(m, drawable) \/ Zones(m)
    <2>1. UNCHANGED <<trail, docked, active>>
        BY <1>3 DEF Map, Zones, catalogAccepted, taskVars
    <2> QED
        BY <2>1, RestKeeps
<1>4. CASE \E c, g \in BOOLEAN : Connection(c, g)
    <2>1. UNCHANGED <<trail, docked, active>>
        BY <1>4 DEF Connection, memory, taskVars
    <2> QED
        BY <2>1, RestKeeps
<1>5. CASE InferenceExpires \/ CompletionTimerFires \/ User
    <2>1. UNCHANGED <<trail, docked, active>>
        BY <1>5 DEF InferenceExpires, CompletionTimerFires, User, UserSets, memory, taskVars
    <2> QED
        BY <2>1, RestKeeps
<1>6. CASE SettingChanges \/ SelectionChanges
    <2>1. UNCHANGED <<trail, docked, active>>
        BY <1>6 DEF SettingChanges, SelectionChanges, taskVars
    <2> QED
        BY <2>1, RestKeeps
<1>7. CASE UNCHANGED vars
    <2>1. UNCHANGED <<trail, docked, active>>
        BY <1>7 DEF vars, memory, taskVars
    <2> QED
        BY <2>1, RestKeeps
<1> QED
    BY <1>1, <1>2, <1>3, <1>4, <1>5, <1>6, <1>7 DEF Next, GatewayEvent

\* No status of an active task clears its trail, and no pose shortens it, whatever handlers
\* run meanwhile.
THEOREM TrailOfActiveTaskKept == Spec => InterruptionKeepsTrail
<1>1. Init => TrailInv
    BY Initially
<1>2. TrailInv /\ [Next]_vars => TrailInv'
    BY StepKeeps
<1>3. TrailInv /\ [Next]_vars => [active /\ active' => Len(trail') >= Len(trail)]_vars
    BY StepKeeps
<1> QED
    BY <1>1, <1>2, <1>3, PTL DEF Spec, InterruptionKeepsTrail
=============================================================================
