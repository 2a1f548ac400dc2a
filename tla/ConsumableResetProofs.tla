------------------------- MODULE ConsumableResetProofs -------------------------
(* ConsumableReset keeps the promise of SafeReset, for counters of any size. *)
EXTENDS ConsumableReset, SequenceTheorems, TLAPS

HeadIs(o) == chain # <<>> /\ Head(chain) = o

\* What the head has read and asked is what its stage says.
ReadSoFar ==
    \/ /\ stage = "before" /\ asked = <<>>
       /\ IF at = "capability" THEN Len(seen) = 1 ELSE seen = <<>>
    \/ /\ stage = "send" /\ at # "capability"
       /\ Len(seen) = 1 /\ seen[1].snap.target # 0
       /\ asked = IF at = "start" THEN <<>> ELSE <<zeroed(seen[1].snap)>>
    \/ /\ stage = "readback" /\ asked = <<zeroed(seen[1].snap)>>
       /\ Len(seen) = IF at = "capability" THEN 3 ELSE 2
       /\ seen[2].snap = zeroed(seen[1].snap)

\* The reset is in the chain only while it is chained, and only at its head it reads
\* and asks; what resolved the awaited event is of the type awaited.
ResetAgrees ==
    /\ (chain = <<>>) = (at = "none")
    /\ reset # "chained" => \A i \in 1..Len(chain) : chain[i] # "reset"
    /\ HeadIs("reset") => ReadSoFar
    /\ ~HeadIs("reset") => seen = <<>> /\ asked = <<>>
    /\ HeadIs("refresh") => stage = "before" /\ at # "capability"
    /\ answer = "resolved" => brought.type = expected
    /\ ~Requested => answer = "none"

CInv == TypeOK /\ SlotIsOfHead /\ ResetAgrees
Ops == {"refresh", "reset"}

LEMMA ZeroedType == ASSUME NEW s \in Snapshot PROVE zeroed(s) \in Snapshot
BY BoundAssumption DEF Snapshot, Counts, zeroed, BoundAssumption

LEMMA Booleans == \A b : b = FALSE \/ b = TRUE <=> b \in BOOLEAN
BY Zenon

LEMMA Lengthened ==
    ASSUME NEW s \in Seq(Event), NEW e \in Event
    PROVE  /\ Append(s, e) \in Seq(Event)
           /\ Len(s) = 0 => Len(Append(s, e)) = 1
           /\ Len(s) = 1 => /\ Len(Append(s, e)) = 2 /\ s[1] \in Event
                            /\ Append(s, e)[1] = s[1] /\ Append(s, e)[2] = e
           /\ Len(s) = 2 => /\ Len(Append(s, e)) = 3
                            /\ Append(s, e)[1] = s[1] /\ Append(s, e)[2] = s[2]
<1>1. Append(s, e) \in Seq(Event) /\ Len(s) \in Nat /\ Len(Append(s, e)) = Len(s) + 1
  OBVIOUS
<1>2. \A i \in 1..Len(s) : Append(s, e)[i] = s[i] /\ s[i] \in Event
  OBVIOUS
<1>3. Append(s, e)[Len(s) + 1] = e
  OBVIOUS
<1>4. Len(s) = 1 => Append(s, e)[2] = e /\ 1 \in 1..Len(s)
  BY <1>1, <1>3
<1>5. Len(s) = 2 => 1 \in 1..Len(s) /\ 2 \in 1..Len(s)
  BY <1>1
<1> QED BY <1>1, <1>2, <1>4, <1>5

\* An operation that is not in the chain may join it.
LEMMA Joins ==
    ASSUME NEW c \in Seq(Ops), \A i, j \in 1..Len(c) : c[i] = c[j] => i = j,
           NEW o \in Ops, \A i \in 1..Len(c) : c[i] # o
    PROVE  /\ Append(c, o) \in Seq(Ops) /\ Append(c, o) # <<>>
           /\ \A i, j \in 1..Len(Append(c, o)) : Append(c, o)[i] = Append(c, o)[j] => i = j
           /\ \A p \in Ops \ {o} : (\A i \in 1..Len(c) : c[i] # p)
                                 => \A i \in 1..Len(Append(c, o)) : Append(c, o)[i] # p
           /\ Head(Append(c, o)) = IF c = <<>> THEN o ELSE Head(c)
<1>1. Len(Append(c, o)) = Len(c) + 1 /\ Append(c, o)[Len(c) + 1] = o
      /\ \A i \in 1..Len(c) : Append(c, o)[i] = c[i]
  OBVIOUS
<1>2. Append(c, o) \in Seq(Ops) /\ Append(c, o) # <<>>
  OBVIOUS
<1>3. Head(Append(c, o)) = Append(c, o)[1] /\ (c # <<>> => Len(c) > 0 /\ Head(c) = c[1])
  BY <1>1, EmptySeq
<1>4. Head(Append(c, o)) = IF c = <<>> THEN o ELSE Head(c)
  <2>1. CASE c = <<>>
    BY <2>1, <1>1, <1>3
  <2>2. CASE c # <<>>
    BY <2>2, <1>1, <1>3
  <2> QED BY <2>1, <2>2
<1> QED BY <1>1, <1>2, <1>4

\* When the head leaves, it is in the chain no more.
LEMMA Leaves ==
    ASSUME NEW c \in Seq(Ops), c # <<>>, \A i, j \in 1..Len(c) : c[i] = c[j] => i = j
    PROVE  /\ Tail(c) \in Seq(Ops) /\ Head(c) \in Ops
           /\ \A i, j \in 1..Len(Tail(c)) : Tail(c)[i] = Tail(c)[j] => i = j
           /\ \A i \in 1..Len(Tail(c)) : Tail(c)[i] # Head(c)
           /\ \A p \in Ops : (\A i \in 1..Len(c) : c[i] # p)
                             => \A i \in 1..Len(Tail(c)) : Tail(c)[i] # p
           /\ Tail(c) # <<>> => Head(Tail(c)) = Tail(c)[1] /\ 1 \in 1..Len(Tail(c))
<1>1. /\ Tail(c) \in Seq(Ops) /\ Len(Tail(c)) = Len(c) - 1 /\ Len(c) \in Nat \ {0}
      /\ \A i \in 1..Len(Tail(c)) : Tail(c)[i] = c[i + 1]
      /\ Head(c) = c[1] /\ Head(c) \in Ops
  BY HeadTailProperties, EmptySeq
<1>2. Tail(c) # <<>> => Head(Tail(c)) = Tail(c)[1] /\ 1 \in 1..Len(Tail(c))
  BY <1>1, EmptySeq
<1> QED BY <1>1, <1>2

\* The operations hold what they should after the head is settled.
LEMMA Settled ==
    ASSUME CInv, chain # <<>>, NEW r \in {"none", "failed", "verified", "already-zero"},
           settleHead(r), answer' = "none", slot' = 0
    PROVE  /\ chain' \in Seq(Ops) /\ \A i, j \in 1..Len(chain') : chain'[i] = chain'[j] => i = j
           /\ SlotIsOfHead' /\ ResetAgrees'
           /\ reset' \in {"idle", "announced", "waiting", "chained"} /\ seen' \in Seq(Event)
           /\ asked' \in Seq(Snapshot)
           /\ result' \in {"none", "progress", "failed", "verified", "already-zero"}
           /\ stage' \in {"none", "before"} /\ at' \in {"none", "start"}
<1>0. CInv /\ settleHead(r)
  OBVIOUS
<1> USE DEF settleHead, HeadIs, Ops, resetVars
<1>1. chain \in Seq(Ops) /\ chain' = Tail(chain) /\ Head(chain) \in Ops
      /\ \A i, j \in 1..Len(chain) : chain[i] = chain[j] => i = j
  BY Leaves DEF CInv, TypeOK
<1>2. /\ chain' \in Seq(Ops)
      /\ \A i, j \in 1..Len(chain') : chain'[i] = chain'[j] => i = j
      /\ \A i \in 1..Len(chain') : chain'[i] # Head(chain)
      /\ (\A i \in 1..Len(chain) : chain[i] # "reset") => \A i \in 1..Len(chain') : chain'[i] # "reset"
      /\ chain' # <<>> => Head(chain') # Head(chain) /\ Head(chain') \in Ops
  BY <1>1, Leaves
<1>3. seen' = <<>> /\ asked' = <<>>
  BY DEF CInv, ResetAgrees
<1>4. reset' # "chained" => \A i \in 1..Len(chain') : chain'[i] # "reset"
  <2>1. CASE Head(chain) = "reset"
    BY <2>1, <1>2
  <2>2. CASE Head(chain) # "reset"
    BY <2>2, <1>2 DEF CInv, ResetAgrees
  <2> QED BY <2>1, <2>2
<1>5. (chain' = <<>>) = (at' = "none") /\ (chain' # <<>> => stage' = "before" /\ at' = "start")
      /\ stage' \in {"none", "before"} /\ at' \in {"none", "start"}
  BY <1>1
<1>6. ResetAgrees'
  <2>1. ReadSoFar' \/ chain' = <<>>
    BY <1>3, <1>5 DEF ReadSoFar
  <2> QED BY <1>3, <1>4, <1>5, <2>1 DEF ResetAgrees
<1>7. SlotIsOfHead'
  BY <1>5 DEF SlotIsOfHead, Requested
<1>8. /\ reset' \in {"idle", "announced", "waiting", "chained"}
      /\ result' \in {"none", "progress", "failed", "verified", "already-zero"}
  BY DEF CInv, TypeOK
<1> HIDE DEF settleHead
<1> QED BY <1>2, <1>3, <1>5, <1>6, <1>7, <1>8

-----------------------------------------------------------------------------
\* Steps that leave the operations and the slot alone.
LEMMA Untouched ==
    ASSUME CInv, UNCHANGED <<reset, headVars, slotVars, seen, asked>>
    PROVE  SlotIsOfHead' /\ ResetAgrees'
BY DEF CInv, SlotIsOfHead, ResetAgrees, HeadIs, ReadSoFar, Requested, expected, headVars, slotVars

\* Steps that end the wait for the pending event, or leave it alone.
LEMMA SlotGiven ==
    ASSUME CInv, UNCHANGED <<reset, headVars, seen, asked>>,
           \/ UNCHANGED slotVars
           \/ slot # 0 /\ slot' = 0 /\ answer' \in {"rejected", "resolved"}
              /\ (answer' = "resolved" => brought'.type = slot)
    PROVE  SlotIsOfHead' /\ ResetAgrees'
BY DEF CInv, TypeOK, SlotIsOfHead, ResetAgrees, HeadIs, ReadSoFar, Requested, expected, headVars, slotVars

\* Everything that is inductive.
LEMMA Inductive == Spec => []CInv
<1>1. Init => CInv
  <2> SUFFICES ASSUME Init PROVE CInv
    OBVIOUS
  <2>1. TypeOK
    BY BoundAssumption, Booleans DEF BoundAssumption, Init, TypeOK, NoEvent, Event, Snapshot, Counts
  <2>2. SlotIsOfHead /\ ResetAgrees
    BY DEF Init, SlotIsOfHead, ResetAgrees, HeadIs, Requested
  <2> QED BY <2>1, <2>2 DEF CInv
<1>2. CInv /\ [Next]_vars => CInv'
  <2> SUFFICES ASSUME CInv, [Next]_vars PROVE CInv'
    OBVIOUS
  <2> USE Booleans DEF headVars, slotVars, resetVars, robotVars
  <2>0. NoEvent \in Event /\ Ops = {"refresh", "reset"}
    BY BoundAssumption DEF BoundAssumption, NoEvent, Event, Snapshot, Counts, Ops
  <2>1. CASE executeConsumableReset
    <3>1. TypeOK' /\ SlotIsOfHead'
      BY <2>1 DEF executeConsumableReset, CInv, TypeOK, SlotIsOfHead, Requested, expected
    <3>2. ResetAgrees'
      BY <2>1 DEF executeConsumableReset, CInv, ResetAgrees, HeadIs, ReadSoFar, expected, Requested
    <3> QED BY <3>1, <3>2 DEF CInv
  <2>2. CASE SessionFound
    <3>1. chain \in Seq(Ops) /\ \A i \in 1..Len(chain) : chain[i] # "reset"
      BY <2>2, <2>0 DEF SessionFound, looksForSession, CInv, ResetAgrees, TypeOK
    <3>2. /\ chain' \in Seq(Ops) /\ chain' # <<>>
          /\ \A i, j \in 1..Len(chain') : chain'[i] = chain'[j] => i = j
          /\ Head(chain') = IF chain = <<>> THEN "reset" ELSE Head(chain)
      BY <2>2, <3>1, Joins, <2>0 DEF SessionFound, runConsumableOperation, CInv, TypeOK
    <3>3. TypeOK'
      BY <2>2, <3>2, <2>0 DEF SessionFound, runConsumableOperation, CInv, TypeOK
    <3>4. seen = <<>> /\ asked = <<>> /\ (chain # <<>> => Head(chain) # "reset")
      BY <2>2 DEF SessionFound, looksForSession, CInv, ResetAgrees, HeadIs
    <3>5. ResetAgrees' /\ SlotIsOfHead'
      BY <2>2, <3>2, <3>4 DEF SessionFound, runConsumableOperation, CInv, ResetAgrees, HeadIs,
         ReadSoFar, SlotIsOfHead, Requested, expected
    <3> QED BY <3>3, <3>5 DEF CInv
  <2>3. CASE NoSession \/ DelayBegins
    <3>1. TypeOK' /\ SlotIsOfHead'
      BY <2>3 DEF NoSession, DelayBegins, looksForSession, CInv, TypeOK, SlotIsOfHead, Requested, expected
    <3>2. ResetAgrees'
      BY <2>3 DEF NoSession, DelayBegins, looksForSession, CInv, ResetAgrees, HeadIs, ReadSoFar,
         expected, Requested
    <3> QED BY <3>1, <3>2 DEF CInv
  <2>4. CASE refreshConsumables
    <3>1. chain \in Seq(Ops) /\ \A i \in 1..Len(chain) : chain[i] # "refresh"
      BY <2>4, <2>0 DEF refreshConsumables, CInv, TypeOK
    <3>2. \A i, j \in 1..Len(chain) : chain[i] = chain[j] => i = j
      BY DEF CInv, TypeOK
    <3>3. chain' = Append(chain, "refresh") /\ "reset" \in Ops \ {"refresh"}
      BY <2>4, <2>0 DEF refreshConsumables, runConsumableOperation
    <3>4. /\ chain' \in Seq(Ops) /\ chain' # <<>>
          /\ \A i, j \in 1..Len(chain') : chain'[i] = chain'[j] => i = j
          /\ (\A i \in 1..Len(chain) : chain[i] # "reset")
             => \A i \in 1..Len(chain') : chain'[i] # "reset"
          /\ Head(chain') = IF chain = <<>> THEN "refresh" ELSE Head(chain)
      BY <3>3, <3>1, <3>2, Joins, <2>0
    <3>5. TypeOK'
      BY <2>4, <3>4, <2>0 DEF refreshConsumables, runConsumableOperation, CInv, TypeOK
    <3>6. chain = <<>> => seen = <<>> /\ asked = <<>>
      BY DEF CInv, ResetAgrees, HeadIs
    <3>7. ResetAgrees' /\ SlotIsOfHead'
      BY <2>4, <3>4, <3>6 DEF refreshConsumables, runConsumableOperation, CInv, ResetAgrees,
         HeadIs, ReadSoFar, SlotIsOfHead, Requested, expected
    <3> QED BY <3>5, <3>7 DEF CInv
  <2>5. CASE Request
    <3>1. chain # <<>> /\ (Head(chain) = "reset" \/ Head(chain) = "refresh")
      BY <2>5, Leaves, <2>0 DEF Request, CInv, ResetAgrees, TypeOK
    <3>2. stage = "send" => Len(seen) = 1 /\ asked = <<>> /\ seen[1].snap.target # 0
                           /\ Head(chain) = "reset"
      BY <2>5, <3>1 DEF Request, CInv, ResetAgrees, HeadIs, ReadSoFar
    <3>3. stage = "send" => zeroed(seen[1].snap) \in Snapshot
      <4>1. stage = "send" => seen[1] \in Event
        <5>1. seen \in Seq(Event)
          BY DEF CInv, TypeOK
        <5> QED BY <3>2, <5>1
      <4> QED BY <4>1, ZeroedType DEF Event
    <3>4. stage = "send" => asked' = <<zeroed(seen[1].snap)>>
      BY <2>5, <3>2, <3>3 DEF Request
    <3>5. orders' \subseteq Order /\ asked' \in Seq(Snapshot)
      BY <2>5, <3>3, <3>4 DEF Request, CInv, TypeOK, Order
    <3>6. wire' \in Seq(Message) /\ handling' \in Seq(Message)
      <4>1. ASSUME NEW ms \in Seq(Message) PROVE aged(ms) \in Seq(Message)
        <5>1. \A m \in Message : [m EXCEPT !.fresh = FALSE] \in Message
          BY DEF Message
        <5>2. \A i \in 1..Len(ms) : [ms[i] EXCEPT !.fresh = FALSE] \in Message
          BY <4>1, <5>1
        <5> QED BY <5>2, <4>1 DEF aged
      <4> QED BY <2>5, <4>1 DEF Request, CInv, TypeOK
    <3>7. TypeOK'
      BY <2>5, <3>5, <3>6 DEF Request, awaitNextConsumableEvent, CInv, TypeOK, expected
    <3>8. SlotIsOfHead'
      BY <2>5 DEF Request, awaitNextConsumableEvent, CInv, SlotIsOfHead, Requested, expected
    <3>9. ResetAgrees'
      BY <2>5, <3>1, <3>2, <3>4 DEF Request, awaitNextConsumableEvent, CInv, ResetAgrees,
         HeadIs, ReadSoFar, Requested
    <3> QED BY <3>7, <3>8, <3>9 DEF CInv
  <2>6. CASE RestResolves \/ RestHangs
    <3>1. TypeOK' /\ SlotIsOfHead'
      BY <2>6 DEF RestResolves, RestHangs, CInv, TypeOK, SlotIsOfHead, Requested, expected
    <3>2. ResetAgrees'
      BY <2>6 DEF RestResolves, RestHangs, CInv, ResetAgrees, HeadIs, ReadSoFar, expected, Requested
    <3> QED BY <3>1, <3>2 DEF CInv
  <2>7. CASE RestFails
    <3>1. chain # <<>>
      BY <2>7 DEF RestFails, CInv, ResetAgrees
    <3>2. SlotIsOfHead' /\ ResetAgrees' /\ TypeOK'
      BY <2>7, <3>1, Settled, <2>0, SMTT(30) DEF RestFails, CInv, TypeOK
    <3> QED BY <3>2 DEF CInv
  <2>8. CASE EventTimesOut
    <3>1. SlotIsOfHead' /\ ResetAgrees'
      BY <2>8, SlotGiven DEF EventTimesOut, rejectPendingConsumableEvent
    <3>2. TypeOK'
      BY <2>8 DEF EventTimesOut, rejectPendingConsumableEvent, CInv, TypeOK
    <3> QED BY <3>1, <3>2 DEF CInv
  <2>9. CASE OperationRejected
    <3>1. chain # <<>> /\ slot = 0
      BY <2>9 DEF OperationRejected, CInv, ResetAgrees, SlotIsOfHead
    <3>2. SlotIsOfHead' /\ ResetAgrees' /\ TypeOK'
      BY <2>9, <3>1, Settled, <2>0, SMTT(30) DEF OperationRejected, consumed, CInv, TypeOK
    <3> QED BY <3>2 DEF CInv
  <2>10. CASE RefreshAnswered
    <3>1. chain # <<>> /\ slot = 0
      BY <2>10 DEF RefreshAnswered, CInv, ResetAgrees, SlotIsOfHead
    <3>2. SlotIsOfHead' /\ ResetAgrees' /\ TypeOK'
      BY <2>10, <3>1, Settled, <2>0, SMTT(30) DEF RefreshAnswered, consumed, CInv, TypeOK
    <3> QED BY <3>2 DEF CInv
  <2>11. CASE SnapshotRead
    <3>1. chain # <<>> /\ slot = 0 /\ HeadIs("reset") /\ ~HeadIs("refresh")
      BY <2>11 DEF SnapshotRead, CInv, ResetAgrees, SlotIsOfHead, HeadIs
    <3>2. TypeOK'
      BY <2>11, <2>0 DEF SnapshotRead, consumed, CInv, TypeOK
    <3>3. SlotIsOfHead'
      BY <2>11, <3>1 DEF SnapshotRead, consumed, SlotIsOfHead, Requested
    <3>4. \/ stage = "before" /\ asked = <<>> /\ Len(seen) = 0
          \/ stage = "readback" /\ asked = <<zeroed(seen[1].snap)>> /\ Len(seen) = 2
             /\ seen[2].snap = zeroed(seen[1].snap)
      BY <2>11, <3>1 DEF SnapshotRead, CInv, ResetAgrees, ReadSoFar
    <3>5. /\ Len(seen) = 0 => Len(seen') = 1
          /\ Len(seen) = 2 => Len(seen') = 3 /\ seen'[1] = seen[1] /\ seen'[2] = seen[2]
      BY <2>11, Lengthened DEF SnapshotRead, CInv, TypeOK
    <3>6. ReadSoFar'
      <4>1. at' = "capability" /\ stage' = stage /\ asked' = asked
        BY <2>11 DEF SnapshotRead
      <4>2. CASE stage = "before"
        BY <3>4, <3>5, <4>1, <4>2 DEF ReadSoFar
      <4>3. CASE stage = "readback"
        <5>1. Len(seen) = 2 /\ Len(seen') = 3 /\ seen'[1] = seen[1] /\ seen'[2] = seen[2]
          BY <3>4, <3>5, <4>3
        <5> QED BY <3>4, <5>1, <4>1, <4>3 DEF ReadSoFar
      <4> QED BY <3>4, <4>2, <4>3
    <3>7. ResetAgrees'
      BY <2>11, <3>1, <3>6 DEF SnapshotRead, consumed, CInv, ResetAgrees, HeadIs, Requested
    <3> QED BY <3>2, <3>3, <3>7 DEF CInv
  <2>12. CASE BeforeRead
    <3>1. chain # <<>> /\ slot = 0 /\ HeadIs("reset") /\ ~HeadIs("refresh") /\ answer = "none"
          /\ Len(seen) = 1 /\ asked = <<>>
      <4>1. chain # <<>> /\ at = "capability" /\ stage = "before"
        BY <2>12 DEF BeforeRead, CInv, ResetAgrees
      <4>2. Head(chain) \in Ops
        BY <4>1, Leaves, <2>0 DEF CInv, TypeOK
      <4>3. HeadIs("reset") /\ ~HeadIs("refresh") /\ answer = "none" /\ ReadSoFar
        BY <4>1, <4>2, <2>0 DEF CInv, ResetAgrees, HeadIs, Requested
      <4> QED BY <4>1, <4>3 DEF ReadSoFar, CInv, SlotIsOfHead, Requested
    <3>2. CASE seen[1].snap.target = 0
      <4>1. SlotIsOfHead' /\ ResetAgrees' /\ TypeOK'
        BY <2>12, <3>1, <3>2, Settled, <2>0, SMTT(30) DEF BeforeRead, CInv, TypeOK
      <4> QED BY <4>1 DEF CInv
    <3>3. CASE seen[1].snap.target # 0
      <4>1. TypeOK' /\ SlotIsOfHead'
        BY <2>12, <3>1, <3>3 DEF BeforeRead, CInv, TypeOK, SlotIsOfHead, Requested
      <4>2. ResetAgrees'
        BY <2>12, <3>1, <3>3 DEF BeforeRead, CInv, ResetAgrees, HeadIs, ReadSoFar, Requested
      <4> QED BY <4>1, <4>2 DEF CInv
    <3> QED BY <3>2, <3>3
  <2>13. CASE Echoed
    <3>1. chain # <<>> /\ slot = 0 /\ HeadIs("reset") /\ ~HeadIs("refresh")
          /\ Len(seen) = 1 /\ seen[1].snap.target # 0 /\ asked = <<zeroed(seen[1].snap)>>
      BY <2>13 DEF Echoed, CInv, ResetAgrees, SlotIsOfHead, HeadIs, ReadSoFar
    <3>2. CASE brought.snap = zeroed(seen[1].snap)
      <4>0. seen' = Append(seen, brought) /\ seen \in Seq(Event) /\ brought \in Event
        BY <2>13, <3>1, <3>2 DEF Echoed, CInv, TypeOK
      <4>1. Len(seen') = 2 /\ seen'[1] = seen[1] /\ seen'[2] = brought
        BY <4>0, <3>1, Lengthened
      <4>2. TypeOK'
        <5>1. seen' \in Seq(Event)
          BY <4>0, Lengthened
        <5>2. /\ stage' = "readback" /\ at' = "start" /\ slot' = slot /\ answer' = "none"
              /\ brought' = NoEvent /\ chain' = chain /\ reset' = reset /\ asked' = asked
              /\ result' = result /\ robot' = robot /\ orders' = orders /\ wire' = wire
              /\ handling' = handling /\ stopping' = stopping /\ session' = session
              /\ capability' = capability
          BY <2>13, <3>1, <3>2 DEF Echoed, consumed
        <5>3. TypeOK
          BY DEF CInv
        <5>4. chain' \in Seq({"refresh", "reset"})
              /\ \A i, j \in 1..Len(chain') : chain'[i] = chain'[j] => i = j
          BY <5>2, <5>3 DEF TypeOK
        <5>5. brought' \in Event /\ asked' \in Seq(Snapshot) /\ wire' \in Seq(Message)
              /\ handling' \in Seq(Message) /\ robot' \in Snapshot /\ orders' \subseteq Order
          BY <5>2, <5>3, <2>0 DEF TypeOK
        <5>6. /\ stopping' \in BOOLEAN /\ session' \in BOOLEAN /\ capability' \in BOOLEAN
              /\ reset' \in {"idle", "announced", "waiting", "chained"} /\ slot' \in {0, 21015, 21016}
              /\ result' \in {"none", "progress", "failed", "verified", "already-zero"}
          BY <5>2, <5>3 DEF TypeOK
        <5> QED BY <5>1, <5>2, <5>4, <5>5, <5>6 DEF TypeOK
      <4>5. SlotIsOfHead'
        BY <2>13, <3>1, <3>2 DEF Echoed, consumed, SlotIsOfHead, Requested
      <4>3. ReadSoFar'
        BY <2>13, <3>1, <3>2, <4>1 DEF Echoed, ReadSoFar
      <4>4. ResetAgrees'
        BY <2>13, <3>1, <3>2, <4>3 DEF Echoed, consumed, CInv, ResetAgrees, HeadIs, Requested
      <4> QED BY <4>2, <4>4, <4>5 DEF CInv
    <3>3. CASE brought.snap # zeroed(seen[1].snap)
      <4>1. SlotIsOfHead' /\ ResetAgrees' /\ TypeOK'
        BY <2>13, <3>1, <3>3, Settled, <2>0, SMTT(30) DEF Echoed, consumed, CInv, TypeOK
      <4> QED BY <4>1 DEF CInv
    <3> QED BY <3>2, <3>3
  <2>14. CASE ReadBack
    <3>1. chain # <<>> /\ slot = 0 /\ answer = "none"
      BY <2>14 DEF ReadBack, CInv, ResetAgrees, SlotIsOfHead, Requested
    <3>2. SlotIsOfHead' /\ ResetAgrees' /\ TypeOK'
      BY <2>14, <3>1, Settled, <2>0, SMTT(30) DEF ReadBack, CInv, TypeOK
    <3> QED BY <3>2 DEF CInv
  <2>15. CASE Robot
    <3>1. SlotIsOfHead' /\ ResetAgrees'
      <4>1. RobotWorks => UNCHANGED <<reset, headVars, slotVars, seen, asked>>
        BY DEF RobotWorks
      <4>2. \A o \in orders : RobotObeys(o) \/ OrderLost(o)
                => UNCHANGED <<reset, headVars, slotVars, seen, asked>>
        BY DEF RobotObeys, OrderLost
      <4> QED BY <2>15, <4>1, <4>2, SlotGiven DEF Robot
    <3>2. CASE RobotWorks
      BY <3>1, <3>2 DEF RobotWorks, CInv, TypeOK
    <3>3. ASSUME NEW o \in orders, RobotObeys(o) PROVE CInv'
      <4>1. robot' \in Snapshot
        BY <3>3 DEF RobotObeys, CInv, TypeOK, Order
      <4>2. [event |-> [type |-> o.type, snap |-> robot'], fresh |-> TRUE] \in Message
        BY <3>3, <4>1 DEF CInv, TypeOK, Order, Message, Event
      <4>3. wire' \in Seq(Message) /\ orders' \subseteq Order
        <5>1. wire' \in Seq(Message)
          <6> DEFINE m == [event |-> [type |-> o.type, snap |-> robot'], fresh |-> TRUE]
          <6>1. m \in Message /\ wire \in Seq(Message)
            BY <4>2 DEF CInv, TypeOK
          <6>2. wire' = Append(wire, m) \/ wire' = wire
            BY <3>3 DEF RobotObeys
          <6> HIDE DEF m
          <6> QED BY <6>1, <6>2
        <5>2. orders' \subseteq Order
          BY <3>3 DEF RobotObeys, CInv, TypeOK
        <5> QED BY <5>1, <5>2
      <4> QED BY <3>1, <3>3, <4>1, <4>3 DEF RobotObeys, CInv, TypeOK
    <3>4. ASSUME NEW o \in orders, OrderLost(o) PROVE CInv'
      BY <3>1, <3>4 DEF OrderLost, CInv, TypeOK
    <3> QED BY <2>15, <3>2, <3>3, <3>4 DEF Robot
  <2>16. CASE EventArrives
    <3>1. SlotIsOfHead' /\ ResetAgrees'
      BY <2>16, SlotGiven DEF EventArrives
    <3>2. Head(wire) \in Message /\ Tail(wire) \in Seq(Message)
      BY <2>16, HeadTailProperties DEF EventArrives, CInv, TypeOK
    <3> QED BY <2>16, <3>1, <3>2 DEF EventArrives, CInv, TypeOK
  <2>17. CASE EventProjected
    <3>1. Head(handling) \in Message /\ Tail(handling) \in Seq(Message)
      BY <2>17, HeadTailProperties DEF EventProjected, CInv, TypeOK
    <3>2. Head(handling).event \in Event /\ Head(handling).event.type # 0
      BY <3>1 DEF Message, Event
    <3>3. SlotIsOfHead' /\ ResetAgrees'
      BY <2>17, <3>2, SlotGiven DEF EventProjected, resolvePendingConsumableEvent
    <3>4. TypeOK'
      BY <2>17, <3>1, <3>2 DEF EventProjected, resolvePendingConsumableEvent, CInv, TypeOK
    <3> QED BY <3>3, <3>4 DEF CInv
  <2>18. CASE GatewayCloses \/ onUnload
    <3>1. SlotIsOfHead' /\ ResetAgrees'
      BY <2>18, SlotGiven DEF GatewayCloses, onUnload, rejectPendingConsumableEvent
    <3>2. slot' \in {0, 21015, 21016} /\ brought' \in Event
          /\ answer' \in {"none", "waiting", "rejected", "resolved"}
      BY <2>18 DEF GatewayCloses, onUnload, rejectPendingConsumableEvent, CInv, TypeOK
    <3>3. CASE GatewayCloses
      BY <3>1, <3>2, <3>3 DEF GatewayCloses, CInv, TypeOK
    <3>4. CASE onUnload
      BY <3>1, <3>2, <3>4 DEF onUnload, CInv, TypeOK
    <3> QED BY <2>18, <3>3, <3>4
  <2>19. CASE SessionArrives \/ clearCommandSession
    <3>1. SlotIsOfHead' /\ ResetAgrees'
      BY <2>19, SlotGiven DEF SessionArrives, clearCommandSession
    <3> QED BY <2>19, <3>1 DEF SessionArrives, clearCommandSession, CInv, TypeOK
  <2>20. CASE UNCHANGED vars
    <3>1. SlotIsOfHead' /\ ResetAgrees'
      BY <2>20, SlotGiven DEF vars
    <3> QED BY <2>20, <3>1 DEF vars, CInv, TypeOK
  <2> QED
    BY <2>1, <2>2, <2>3, <2>4, <2>5, <2>6, <2>7, <2>8, <2>9, <2>10, <2>11, <2>12, <2>13,
       <2>14, <2>15, <2>16, <2>17, <2>18, <2>19, <2>20
       DEF Next, Operations, Gateway
<1> QED BY <1>1, <1>2, PTL DEF Spec

\* The variables keep their types, for counters and queues of events of any size.
THEOREM TypeCorrect == Spec => []TypeOK
<1>1. CInv => TypeOK
  BY DEF CInv
<1> QED BY <1>1, Inductive, PTL

\* Whoever awaits a 21015 or 21016 event owns the slot, with its timer, until the
\* event's promise is settled.
THEOREM SlotBelongsToHead == Spec => []SlotIsOfHead
<1>1. CInv => SlotIsOfHead
  BY DEF CInv
<1> QED BY <1>1, Inductive, PTL

-----------------------------------------------------------------------------
\* A reset at the head is chained.
LEMMA HeadOfReset ==
    ASSUME CInv, HeadIs("reset")
    PROVE  reset = "chained" /\ ReadSoFar
<1>1. chain \in Seq({"refresh", "reset"}) /\ chain # <<>> /\ Head(chain) = "reset"
  BY DEF CInv, TypeOK, HeadIs
<1>2. 1 \in 1..Len(chain) /\ chain[1] = "reset"
  BY <1>1, EmptySeq
<1> QED BY <1>2 DEF CInv, ResetAgrees

\* Only a reset awaits the writing of the capability, and writes to the robot.
LEMMA BeyondRefresh ==
    ASSUME CInv, at = "capability" \/ (at = "start" /\ stage = "send")
    PROVE  HeadIs("reset")
<1>1. chain # <<>> /\ chain \in Seq(Ops)
  BY DEF CInv, ResetAgrees, TypeOK, Ops
<1>2. Head(chain) \in Ops
  BY <1>1, HeadTailProperties
<1> QED BY <1>1, <1>2 DEF Ops, CInv, ResetAgrees, HeadIs

\* A reset is reported as verified only on the strength of an echo and of a read that
\* both say what it asked the robot to store; ConsumableReset implements SafeReset.
THEOREM ResetKeepsPromise == Spec => SafeResetSpec
<1>1. Init => Promise!Init
  BY DEF Init, Promise!Init
<1>2. CInv /\ [Next]_vars => [Promise!Next]_(Promise!resetVars)
  <2> SUFFICES ASSUME CInv, [Next]_vars PROVE Promise!Next \/ UNCHANGED Promise!resetVars
    OBVIOUS
  <2> USE DEF headVars, slotVars, resetVars, robotVars, Promise!resetVars
  <2>0. Promise!Event = Event /\ \A s \in Snapshot : Promise!zeroed(s) = zeroed(s)
    BY DEF Promise!Event, Promise!Snapshot, Event, Snapshot, Promise!zeroed, zeroed
  <2>1. CASE executeConsumableReset
    <3>1. seen = <<>> /\ asked = <<>>
      BY <2>1 DEF executeConsumableReset, CInv, ResetAgrees, HeadIs, TypeOK
    <3>2. Promise!Begin
      BY <2>1, <3>1 DEF executeConsumableReset, Promise!Begin
    <3> QED BY <3>2 DEF Promise!Next
  <2>2. CASE SessionFound \/ DelayBegins \/ refreshConsumables \/ RestResolves \/ RestHangs
             \/ EventTimesOut
    BY <2>2 DEF SessionFound, DelayBegins, looksForSession, refreshConsumables, RestResolves, RestHangs, EventTimesOut
  <2>3. CASE NoSession
    <3>1. seen = <<>> /\ asked = <<>>
      BY <2>3 DEF NoSession, looksForSession, CInv, ResetAgrees, HeadIs, TypeOK
    <3>2. Promise!End("failed")
      BY <2>3, <3>1 DEF NoSession, looksForSession, Promise!End
    <3> QED BY <3>2 DEF Promise!Next
  <2>4. CASE Request
    <3>1. CASE stage = "send"
      <4>1. /\ reset # "idle" /\ Len(seen) = 1 /\ seen[1].snap.target # 0 /\ asked = <<>>
        BY <2>4, <3>1, BeyondRefresh, HeadOfReset DEF Request, ReadSoFar
      <4>2. seen[1] \in Event
        BY <4>1, Lengthened, <2>0 DEF CInv, TypeOK
      <4>3. asked' = <<zeroed(seen[1].snap)>> /\ Promise!zeroed(seen[1].snap) = zeroed(seen[1].snap)
        BY <2>4, <3>1, <4>1, <4>2, <2>0 DEF Request, Event
      <4>4. Promise!Ask
        BY <2>4, <4>1, <4>3 DEF Request, Promise!Ask
      <4> QED BY <4>4 DEF Promise!Next
    <3>2. CASE stage # "send"
      BY <2>4, <3>2 DEF Request
    <3> QED BY <3>1, <3>2
  <2>5. ASSUME NEW r \in {"none", "failed"}, chain # <<>>, settleHead(r), r = "failed" \/ ~HeadIs("reset")
        PROVE  Promise!Next \/ UNCHANGED Promise!resetVars
    <3>1. CASE HeadIs("reset")
      <4>1. Promise!End("failed")
        BY <2>5, <3>1, HeadOfReset DEF HeadIs, settleHead, Promise!End, CInv
      <4> QED BY <4>1 DEF Promise!Next
    <3>2. CASE ~HeadIs("reset")
      BY <2>5, <3>2 DEF HeadIs, settleHead
    <3> QED BY <3>1, <3>2
  <2>6. CASE RestFails \/ OperationRejected
    <3>1. chain # <<>> /\ settleHead("failed")
      BY <2>6 DEF RestFails, OperationRejected, CInv, ResetAgrees
    <3> QED BY <3>1, <2>5
  <2>7. CASE RefreshAnswered
    <3>1. chain # <<>> /\ settleHead("none") /\ ~HeadIs("reset")
      BY <2>7 DEF RefreshAnswered, CInv, ResetAgrees, HeadIs
    <3> QED BY <3>1, <2>5
  <2>8. CASE SnapshotRead
    <3>1. chain # <<>> /\ HeadIs("reset") /\ reset # "idle" /\ brought \in Event
          /\ brought.type = expected /\ stage # "send" /\ at = "event"
      BY <2>8, HeadOfReset DEF SnapshotRead, CInv, ResetAgrees, HeadIs, TypeOK
    <3>2. \/ seen = <<>> /\ asked = <<>>
          \/ Len(seen) = 2 /\ asked = <<zeroed(seen[1].snap)>>
             /\ seen[2].snap = zeroed(seen[1].snap)
      BY <3>1 DEF CInv, ResetAgrees, ReadSoFar
    <3>3. Promise!Accept(brought)
      BY <2>8, <3>1, <3>2 DEF SnapshotRead, Promise!Accept, expected
    <3> QED BY <3>1, <3>3, <2>0 DEF Promise!Next
  <2>9. CASE BeforeRead
    <3>1. HeadIs("reset") /\ reset # "idle" /\ Len(seen) = 1
      BY <2>9, BeyondRefresh, HeadOfReset DEF BeforeRead, CInv, ReadSoFar, HeadIs
    <3>2. CASE seen[1].snap.target = 0
      <4>1. Promise!End("already-zero")
        BY <2>9, <3>1, <3>2 DEF BeforeRead, settleHead, HeadIs, Promise!End
      <4> QED BY <4>1 DEF Promise!Next
    <3>3. CASE seen[1].snap.target # 0
      BY <2>9, <3>3 DEF BeforeRead
    <3> QED BY <3>2, <3>3
  <2>10. CASE Echoed
    <3>1. HeadIs("reset") /\ chain # <<>> /\ reset # "idle" /\ brought \in Event
          /\ brought.type = 21016 /\ Len(seen) = 1 /\ asked = <<zeroed(seen[1].snap)>>
      BY <2>10, HeadOfReset DEF Echoed, CInv, ResetAgrees, HeadIs, ReadSoFar, TypeOK, expected
    <3>2. CASE brought.snap = zeroed(seen[1].snap)
      <4>1. Promise!Accept(brought)
        BY <2>10, <3>1, <3>2 DEF Echoed, Promise!Accept
      <4> QED BY <3>1, <4>1, <2>0 DEF Promise!Next
    <3>3. CASE brought.snap # zeroed(seen[1].snap)
      <4>1. settleHead("failed")
        BY <2>10, <3>3 DEF Echoed
      <4> QED BY <3>1, <4>1, <2>5
    <3> QED BY <3>2, <3>3
  <2>11. CASE ReadBack
    <3>1. HeadIs("reset") /\ chain # <<>> /\ reset # "idle" /\ Len(seen) = 3
          /\ asked = <<zeroed(seen[1].snap)>> /\ seen[2].snap = zeroed(seen[1].snap)
      BY <2>11, BeyondRefresh, HeadOfReset DEF ReadBack, CInv, ReadSoFar, HeadIs
    <3>2. CASE seen[3].snap = zeroed(seen[1].snap)
      <4>1. settleHead("verified")
        BY <2>11, <3>2 DEF ReadBack
      <4>2. Promise!End("verified")
        BY <3>1, <3>2, <4>1 DEF settleHead, HeadIs, Promise!End
      <4> QED BY <4>2 DEF Promise!Next
    <3>3. CASE seen[3].snap # zeroed(seen[1].snap)
      <4>1. settleHead("failed")
        BY <2>11, <3>3 DEF ReadBack
      <4> QED BY <3>1, <4>1, <2>5
    <3> QED BY <3>2, <3>3
  <2>12. CASE Robot
    <3>1. RobotWorks => UNCHANGED Promise!resetVars
      BY DEF RobotWorks
    <3>2. \A o \in orders : RobotObeys(o) \/ OrderLost(o) => UNCHANGED Promise!resetVars
      BY DEF RobotObeys, OrderLost
    <3> QED BY <2>12, <3>1, <3>2 DEF Robot
  <2>13. CASE Gateway \/ SessionArrives \/ clearCommandSession \/ onUnload \/ UNCHANGED vars
    BY <2>13 DEF Gateway, EventArrives, EventProjected, GatewayCloses, SessionArrives,
       clearCommandSession, onUnload, vars
  <2> QED
    BY <2>1, <2>2, <2>3, <2>4, <2>6, <2>7, <2>8, <2>9, <2>10, <2>11, <2>12, <2>13
       DEF Next, Operations
<1> QED BY <1>1, <1>2, Inductive, PTL DEF Spec, SafeResetSpec, Promise!Spec
=============================================================================
