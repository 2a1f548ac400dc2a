----------------------------- MODULE QueueProofs -----------------------------
(* Delivery keeps its promise, and CommandQueue implements Delivery. *)
EXTENDS CommandQueue, SequenceTheorems, TLAPS

LEMMA Booleans == \A b : b = FALSE \/ b = TRUE <=> b \in BOOLEAN
BY Zenon

\* The step from p to q, without its tuples.
LEMMA MovesLeaves ==
    ASSUME NEW p, NEW q, Moves(p, q)
    PROVE  /\ chain # <<>> /\ phase = p /\ phase' = q
           /\ shuttingDown' = shuttingDown /\ accepted' = accepted /\ presses' = presses
           /\ queuedCommandCount' = queuedCommandCount /\ chain' = chain
           /\ overflow' = overflow
BY DEF Moves, queueVars

\* What is known of the running command while there is one.
LEMMA RunningType == ASSUME TypeOK, chain # <<>> PROVE Running \in Commands
<1>1. Head(chain) \in Trigger
  BY HeadTailProperties DEF TypeOK
<1> QED BY <1>1 DEF Running, Trigger

\* A trigger that is sent is one of the accepted ones.
LEMMA SentType == ASSUME TypeOK, chain # <<>> PROVE Append(sent, Head(chain)) \in Seq(Trigger)
<1>1. Head(chain) \in Trigger /\ sent \in Seq(Trigger)
  BY HeadTailProperties DEF TypeOK
<1> QED BY <1>1, AppendProperties

\* What is inductive.
QInv == TypeOK /\ CountMatchesChain

\* The chain and its counter keep their types and agree with each other.
THEOREM QueueCounted == Spec => [](TypeOK /\ CountMatchesChain)
<1>1. Init => QInv
  BY QueueAssumption, Booleans DEF QueueAssumption, Init, QInv, TypeOK, CountMatchesChain,
     Undecided, Decided, NoCommand
<1>2. QInv /\ [Next]_vars => QInv'
  <2> SUFFICES ASSUME QInv, [Next]_vars PROVE QInv'
    OBVIOUS
  <2> USE QueueAssumption, Booleans DEF QueueAssumption, QInv, TypeOK, CountMatchesChain,
      Undecided, Decided, NoCommand, Trigger, confirmVars, resultVars, queueVars
  <2>1. ASSUME NEW c \in Commands, Enqueue(c) PROVE QInv'
    BY <2>1 DEF Enqueue
  <2>2. ASSUME NEW c \in Commands, Refuse(c) PROVE QInv'
    BY <2>2 DEF Refuse
  <2>3. ASSUME NEW c \in Commands, confirmPendingCommand(c) PROVE QInv'
    BY <2>3 DEF confirmPendingCommand
  <2>4. CASE RefusalWritten
    BY <2>4 DEF RefusalWritten
  <2>5. CASE Begin
    BY <2>5, RunningType, MovesLeaves DEF Begin
  <2>6. CASE ReportWaiting
    BY <2>6, MovesLeaves DEF ReportWaiting
  <2>7. CASE SessionReady
    BY <2>7, MovesLeaves DEF SessionReady
  <2>8. CASE Validated
    BY <2>8, MovesLeaves DEF Validated
  <2>9. CASE Send
    <3>1. sent' = Append(sent, Head(chain)) /\ UNCHANGED <<confirmVars, resultVars>>
      BY <2>9 DEF Send
    <3>2. chain # <<>> /\ phase' \in {"requested", "reset"} /\ phase # "draining"
          /\ shuttingDown' = shuttingDown /\ accepted' = accepted /\ presses' = presses
          /\ queuedCommandCount' = queuedCommandCount /\ chain' = chain
          /\ overflow' = overflow
      BY <2>9, MovesLeaves DEF Send
    <3>3. sent' \in Seq(Trigger)
      BY <3>1, <3>2, SentType
    <3> QED BY <3>1, <3>2, <3>3
  <2>10. CASE Answered
    BY <2>10, RunningType, MovesLeaves DEF Answered
  <2>11. CASE ReportAccepted
    BY <2>11, MovesLeaves DEF ReportAccepted
  <2>12. CASE ReportConfirmation
    BY <2>12, MovesLeaves DEF ReportConfirmation
  <2>13. CASE Fail
    BY <2>13, RunningType, MovesLeaves DEF Fail, cancelPendingCommandConfirmation
  <2>14. CASE ReportFailure
    BY <2>14, MovesLeaves DEF ReportFailure
  <2>15. CASE Settle
    BY <2>15 DEF Settle
  <2>16. CASE Drained
    BY <2>16 DEF Drained
  <2>17. CASE RequestHangs
    BY <2>17, MovesLeaves DEF RequestHangs
  <2>18. CASE ConfirmationTimesOut \/ onUnload
    BY <2>18, SMTT(30) DEF ConfirmationTimesOut, onUnload, cancelPendingCommandConfirmation
  <2>19. CASE UNCHANGED vars
    BY <2>19 DEF vars
  <2> QED
    BY <2>1, <2>2, <2>3, <2>4, <2>5, <2>6, <2>7, <2>8, <2>9, <2>10, <2>11, <2>12, <2>13,
       <2>14, <2>15, <2>16, <2>17, <2>18, <2>19
       DEF Next, Advance, WaitEnds, ReadEnds, RequestEnds
<1> QED BY <1>1, <1>2, PTL DEF Spec, QInv

-----------------------------------------------------------------------------
\* The first trigger of a chain stays the first when another one joins it.
LEMMA HeadStays ==
    ASSUME NEW s \in Seq(Trigger), s # <<>>, NEW t \in Trigger
    PROVE  /\ Append(s, t) # <<>> /\ Head(Append(s, t)) = Head(s)
           /\ Tail(Append(s, t)) = Append(Tail(s), t)
<1>1. Len(s) \in Nat \ {0}
  BY EmptySeq
<1>2. Append(s, t) # <<>> /\ Head(Append(s, t)) = Head(s)
  BY <1>1
<1>3. Tail(Append(s, t)) = Append(Tail(s), t)
  BY <1>1
<1> QED BY <1>2, <1>3

\* Moving on neither names another running command nor touches the slot.
LEMMA MovesKeepsRunning == ASSUME NEW p, NEW q, Moves(p, q) PROVE Running' = Running
BY MovesLeaves DEF Running

\* Of which the types alone: a chain within its bound, one phase at a time, and a slot that
\* is empty or holds a command.
THEOREM TypeCorrect == Spec => []TypeOK
BY QueueCounted, PTL

\* A status never confirms another command than the one that runs, and no running
\* command waits for a slot that was given away.
THEOREM SlotBelongsToRunning == Spec => []SlotIsOfRunning
<1>1. Init => SlotIsOfRunning
  BY DEF Init, SlotIsOfRunning, NoCommand
<1>2. QInv /\ SlotIsOfRunning /\ [Next]_vars => SlotIsOfRunning'
  <2> SUFFICES ASSUME QInv, SlotIsOfRunning, [Next]_vars PROVE SlotIsOfRunning'
    OBVIOUS
  <2> USE QueueAssumption DEF QueueAssumption, SlotIsOfRunning, NoCommand, confirmVars,
      resultVars, queueVars
  <2>1. ASSUME NEW c \in Commands, Enqueue(c) PROVE SlotIsOfRunning'
    <3>1. CASE pendingConfirmation = NoCommand
      BY <2>1, <3>1 DEF Enqueue
    <3>2. CASE pendingConfirmation # NoCommand
      <4>1. [id |-> accepted, command |-> c] \in Trigger /\ chain \in Seq(Trigger)
        BY DEF Trigger, QInv, TypeOK
      <4>2. chain' # <<>> /\ Head(chain') = Head(chain)
        BY <2>1, <3>2, <4>1, HeadStays DEF Enqueue
      <4> QED BY <2>1, <3>2, <4>2 DEF Enqueue, Running
    <3> QED BY <3>1, <3>2
  <2>2. ASSUME NEW c \in Commands, Refuse(c) PROVE SlotIsOfRunning'
    BY <2>2 DEF Refuse, Running
  <2>3. ASSUME NEW c \in Commands, confirmPendingCommand(c) PROVE SlotIsOfRunning'
    BY <2>3 DEF confirmPendingCommand
  <2>4. CASE RefusalWritten
    BY <2>4 DEF RefusalWritten, Running
  <2>5. CASE Begin
    BY <2>5, MovesLeaves DEF Begin
  <2>6. CASE ReportWaiting
    BY <2>6, MovesLeaves DEF ReportWaiting
  <2>7. CASE SessionReady
    BY <2>7, MovesLeaves DEF SessionReady
  <2>8. CASE Validated
    BY <2>8, MovesLeaves DEF Validated
  <2>9. CASE Send
    BY <2>9, MovesLeaves DEF Send
  <2>10. CASE Answered
    <3>1. Running \in Commands
      BY <2>10, RunningType, MovesLeaves DEF Answered, QInv
    <3> QED BY <2>10, <3>1, MovesLeaves, MovesKeepsRunning DEF Answered
  <2>11. CASE ReportAccepted
    BY <2>11, MovesLeaves, MovesKeepsRunning DEF ReportAccepted
  <2>12. CASE ReportConfirmation
    BY <2>12, MovesLeaves DEF ReportConfirmation
  <2>13. CASE Fail
    BY <2>13, MovesLeaves DEF Fail, cancelPendingCommandConfirmation
  <2>14. CASE ReportFailure
    BY <2>14, MovesLeaves DEF ReportFailure
  <2>15. CASE Settle
    BY <2>15 DEF Settle
  <2>16. CASE Drained
    BY <2>16 DEF Drained
  <2>17. CASE RequestHangs
    BY <2>17, MovesLeaves DEF RequestHangs
  <2>18. CASE ConfirmationTimesOut \/ onUnload
    BY <2>18 DEF ConfirmationTimesOut, onUnload, cancelPendingCommandConfirmation
  <2>19. CASE UNCHANGED vars
    BY <2>19 DEF vars, Running
  <2> QED
    BY <2>1, <2>2, <2>3, <2>4, <2>5, <2>6, <2>7, <2>8, <2>9, <2>10, <2>11, <2>12, <2>13,
       <2>14, <2>15, <2>16, <2>17, <2>18, <2>19
       DEF Next, Advance, WaitEnds, ReadEnds, RequestEnds
<1> QED BY <1>1, <1>2, QueueCounted, PTL DEF Spec, QInv

-----------------------------------------------------------------------------
\* Between two undecided awaits, and between two decided ones, nothing happens
\* to what Delivery sees; a step from an undecided to a decided one is a GiveUp.
LEMMA SeenByDelivery ==
    ASSUME NEW p, NEW q, Moves(p, q), sent' = sent
    PROVE  /\ (p \in Decided <=> q \in Decided) => UNCHANGED D!deliveryVars
           /\ p \notin Decided /\ q \in Decided => D!GiveUp
<1> USE MovesLeaves DEF undecided
<1>1. ASSUME p \in Decided <=> q \in Decided PROVE UNCHANGED D!deliveryVars
  BY <1>1 DEF D!deliveryVars
<1>2. ASSUME p \notin Decided, q \in Decided PROVE D!GiveUp
  BY <1>2 DEF D!GiveUp
<1> QED BY <1>1, <1>2

\* The queue implements Delivery: at most MaxQueuedCommands triggers wait, they are
\* decided in the order of acceptance, and each is sent at most once.
THEOREM QueueDelivers == Spec => DeliverySpec
<1>1. Init => D!Init
  BY DEF Init, D!Init, undecided
<1>2. QInv /\ [Next]_vars => [D!Next]_(D!deliveryVars)
  <2> SUFFICES ASSUME QInv, [Next]_vars PROVE D!Next \/ UNCHANGED D!deliveryVars
    OBVIOUS
  <2> USE DEF queueVars, resultVars, confirmVars
  <2>1. ASSUME NEW c \in Commands, Enqueue(c) PROVE D!Accept(c)
    <3> DEFINE t == [id |-> accepted, command |-> c]
    <3>1. t \in Trigger /\ chain \in Seq(Trigger)
      BY DEF Trigger, QInv, TypeOK
    <3>2. /\ chain' = Append(chain, t) /\ accepted' = accepted + 1
          /\ phase' = phase /\ sent' = sent /\ queuedCommandCount < MaxQueuedCommands
      BY <2>1 DEF Enqueue
    <3> HIDE DEF t
    <3>3. undecided' = Append(undecided, t)
      <4>1. CASE chain = <<>>
        BY <3>1, <3>2, <4>1 DEF undecided, QInv, TypeOK, Decided
      <4>2. CASE chain # <<>>
        BY <3>1, <3>2, <4>2, HeadStays DEF undecided
      <4> QED BY <4>1, <4>2
    <3>4. Len(undecided) <= queuedCommandCount
      <4>1. CASE chain # <<>> /\ phase \in Decided
        <5>1. Len(Tail(chain)) = Len(chain) - 1
          BY <3>1, <4>1, HeadTailProperties
        <5> QED BY <4>1, <5>1, QueueAssumption
                DEF undecided, QInv, TypeOK, CountMatchesChain, QueueAssumption
      <4>2. CASE ~(chain # <<>> /\ phase \in Decided)
        BY <4>2, QueueAssumption
           DEF undecided, QInv, TypeOK, CountMatchesChain, QueueAssumption, Decided
      <4> QED BY <4>1, <4>2
    <3>5. Len(undecided) < MaxQueuedCommands
      <4>1. undecided \in Seq(Trigger)
        BY HeadTailProperties DEF undecided, QInv, TypeOK
      <4>2. Len(undecided) \in Nat
        BY <4>1
      <4> QED BY <3>2, <3>4, <4>2, QueueAssumption DEF QInv, TypeOK, QueueAssumption
    <3> QED BY <3>2, <3>3, <3>5 DEF D!Accept, t
  <2>2. CASE Send
    <3>1. CASE Moves("sending", "requested") /\ sent' = Append(sent, Head(chain))
      BY <3>1, MovesLeaves DEF D!Send, D!Next, undecided, Decided
    <3>2. CASE Moves("resetting", "reset") /\ sent' = Append(sent, Head(chain))
      BY <3>2, MovesLeaves DEF D!Send, D!Next, undecided, Decided
    <3> QED BY <2>2, <3>1, <3>2 DEF Send
  <2>3. CASE Settle
    <3>1. /\ chain # <<>> /\ chain' = chain /\ accepted' = accepted /\ sent' = sent
          /\ phase' = "draining"
          /\ phase \in {"confirming", "reported", "failed", "reset", "resetting"}
      BY <2>3 DEF Settle
    <3>2. CASE phase = "resetting"
      BY <3>1, <3>2 DEF D!GiveUp, D!Next, undecided, Decided
    <3>3. CASE phase # "resetting"
      BY <3>1, <3>3 DEF D!deliveryVars, undecided, Decided
    <3> QED BY <3>2, <3>3
  <2>4. CASE Drained
    BY <2>4 DEF Drained, D!deliveryVars, undecided, Decided
  <2>5. CASE \/ \E c \in Commands : Refuse(c) \/ confirmPendingCommand(c)
             \/ RefusalWritten \/ ConfirmationTimesOut \/ onUnload
    BY <2>5 DEF Refuse, confirmPendingCommand, RefusalWritten, ConfirmationTimesOut,
       onUnload, D!deliveryVars, undecided
  <2>6. CASE Begin \/ ReportWaiting \/ SessionReady \/ Validated
    BY <2>6, SeenByDelivery DEF Begin, ReportWaiting, SessionReady, Validated, Decided
  <2>7. CASE Answered \/ ReportAccepted \/ ReportConfirmation \/ ReportFailure
    BY <2>7, SeenByDelivery DEF Answered, ReportAccepted, ReportConfirmation,
       ReportFailure, Decided
  <2>8. CASE Fail
    BY <2>8, SeenByDelivery DEF Fail, Decided, D!Next
  <2>10. CASE RequestHangs
    BY <2>10, SeenByDelivery DEF RequestHangs, Decided
  <2>9. CASE UNCHANGED vars
    BY <2>9 DEF vars, D!deliveryVars, undecided
  <2> QED
    BY <2>1, <2>2, <2>3, <2>4, <2>5, <2>6, <2>7, <2>8, <2>9, <2>10
       DEF Next, Advance, WaitEnds, ReadEnds, RequestEnds, D!Next
<1> QED BY <1>1, <1>2, QueueCounted, PTL DEF Spec, QInv, DeliverySpec, D!Spec

-----------------------------------------------------------------------------
(* What Delivery promises *)

\* A number above all others extends an increasing sequence.
LEMMA AppendIncreasing ==
    ASSUME NEW s \in Seq(D!Trigger), NEW t \in D!Trigger, D!IncreasingIds(s),
           \A i \in 1..Len(s) : s[i].id < t.id
    PROVE  D!IncreasingIds(Append(s, t))
<1>1. Len(Append(s, t)) = Len(s) + 1
  OBVIOUS
<1>2. \A i \in 1..Len(s) : Append(s, t)[i] = s[i]
  OBVIOUS
<1>3. Append(s, t)[Len(s) + 1] = t
  OBVIOUS
<1> QED BY <1>1, <1>2, <1>3 DEF D!IncreasingIds

\* The tail of an increasing sequence is increasing, and above the head.
LEMMA TailIncreasing ==
    ASSUME NEW s \in Seq(D!Trigger), s # <<>>, D!IncreasingIds(s)
    PROVE  /\ D!IncreasingIds(Tail(s))
           /\ \A i \in 1..Len(Tail(s)) : Head(s).id < Tail(s)[i].id
<1>1. /\ Len(Tail(s)) = Len(s) - 1 /\ Len(s) \in Nat \ {0}
      /\ \A i \in 1..Len(Tail(s)) : Tail(s)[i] = s[i + 1]
  BY HeadTailProperties, EmptySeq
<1>2. Head(s) = s[1]
  OBVIOUS
<1> QED BY <1>1, <1>2 DEF D!IncreasingIds

LEMMA NumbersAreNat ==
    ASSUME NEW s \in Seq(D!Trigger), NEW i \in 1..Len(s) PROVE s[i].id \in Nat
<1>1. s[i] \in D!Trigger
  BY ElementOfSeq
<1> QED BY <1>1 DEF D!Trigger

\* What is sent and what is pending is numbered in order, without repetition, and
\* below the number of the next trigger: FIFO and at most once.
THEOREM DeliveryInOrder == D!Spec => [](D!TypeOK /\ D!Numbered)
<1> USE DEF D!TypeOK, D!Numbered, D!InOrder
<1>1. D!Init => D!TypeOK /\ D!Numbered
  BY DEF D!Init, D!IncreasingIds
<1>2. D!TypeOK /\ D!Numbered /\ [D!Next]_D!deliveryVars => (D!TypeOK /\ D!Numbered)'
  <2> SUFFICES ASSUME D!TypeOK, D!Numbered, [D!Next]_D!deliveryVars
               PROVE (D!TypeOK /\ D!Numbered)'
    OBVIOUS
  <2>1. ASSUME NEW c \in Commands, D!Accept(c) PROVE (D!TypeOK /\ D!Numbered)'
    <3> DEFINE t == [id |-> accepted, command |-> c]
    <3>1. t \in D!Trigger /\ t.id = accepted
      BY DEF D!Trigger
    <3>2. undecided' = Append(undecided, t) /\ accepted' = accepted + 1 /\ sent' = sent
      BY <2>1 DEF D!Accept
    <3> HIDE DEF t
    <3>3. D!IncreasingIds(undecided)'
      BY <3>1, <3>2, AppendIncreasing DEF D!IncreasingIds
    <3>4. D!TypeOK'
      BY <3>1, <3>2
    <3>5. Len(undecided') = Len(undecided) + 1 /\ undecided'[Len(undecided) + 1] = t
          /\ \A j \in 1..Len(undecided) : undecided'[j] = undecided[j]
      BY <3>1, <3>2
    <3>6. \A i \in 1..Len(sent) : sent[i].id \in Nat
      BY NumbersAreNat
    <3>7. \A j \in 1..Len(undecided) : undecided[j].id \in Nat
      BY NumbersAreNat
    <3>8. (\A i \in 1..Len(sent) : sent[i].id < accepted)'
      BY <3>2, <3>6
    <3>9. (\A j \in 1..Len(undecided) : undecided[j].id < accepted)'
      BY <3>1, <3>2, <3>5, <3>7
    <3>10. (\A i \in 1..Len(sent), j \in 1..Len(undecided) : sent[i].id < undecided[j].id)'
      BY <3>1, <3>2, <3>5
    <3>11. D!IncreasingIds(sent)'
      BY <3>2 DEF D!IncreasingIds
    <3> QED BY <3>3, <3>4, <3>8, <3>9, <3>10, <3>11
  <2> DEFINE Rest == Tail(undecided)
  <2>2. ASSUME undecided # <<>>
        PROVE  /\ Head(undecided) \in D!Trigger /\ Rest \in Seq(D!Trigger)
               /\ D!IncreasingIds(Rest)
               /\ \A j \in 1..Len(Rest) : Head(undecided).id < Rest[j].id
               /\ \A j \in 1..Len(Rest) : j + 1 \in 1..Len(undecided) /\ Rest[j] = undecided[j + 1]
               /\ 1 \in 1..Len(undecided) /\ Head(undecided) = undecided[1]
    BY <2>2, TailIncreasing, HeadTailProperties, EmptySeq
  <2>3. CASE D!GiveUp
    BY <2>2, <2>3 DEF D!GiveUp, D!IncreasingIds
  <2>4. CASE D!Send
    <3> DEFINE h == Head(undecided)
    <3>1. /\ undecided # <<>> /\ sent' = Append(sent, h) /\ undecided' = Rest
          /\ accepted' = accepted /\ h \in D!Trigger
      BY <2>2, <2>4 DEF D!Send
    <3>2. \A i \in 1..Len(sent) : sent[i].id < h.id
      BY <2>2, <3>1
    <3>3. h.id < accepted
      BY <2>2, <3>1
    <3>4. \A j \in 1..Len(Rest) : Rest[j].id < accepted /\ h.id < Rest[j].id
      BY <2>2, <3>1
    <3>5. \A i \in 1..Len(sent), j \in 1..Len(Rest) : sent[i].id < Rest[j].id
      BY <2>2, <3>1
    <3>6. Rest \in Seq(D!Trigger) /\ D!IncreasingIds(Rest)
      BY <2>2, <3>1
    <3> HIDE DEF h, Rest
    <3>7. D!IncreasingIds(sent)'
      BY <3>1, <3>2, AppendIncreasing DEF D!IncreasingIds
    <3>8. Len(sent') = Len(sent) + 1 /\ sent'[Len(sent) + 1] = h
          /\ \A i \in 1..Len(sent) : sent'[i] = sent[i]
      BY <3>1
    <3>9. D!TypeOK'
      BY <3>1, <3>6
    <3>10. (\A i \in 1..Len(sent) : sent[i].id < accepted)'
      BY <3>1, <3>3, <3>8
    <3>11. (\A j \in 1..Len(undecided) : undecided[j].id < accepted)'
      BY <3>1, <3>4
    <3>12. (\A i \in 1..Len(sent), j \in 1..Len(undecided) : sent[i].id < undecided[j].id)'
      BY <3>1, <3>4, <3>5, <3>8
    <3>13. D!IncreasingIds(undecided)'
      BY <3>1, <3>6 DEF D!IncreasingIds
    <3> QED BY <3>7, <3>9, <3>10, <3>11, <3>12, <3>13
  <2>5. CASE UNCHANGED D!deliveryVars
    BY <2>5 DEF D!deliveryVars, D!IncreasingIds
  <2> QED BY <2>1, <2>3, <2>4, <2>5 DEF D!Next
<1> QED BY <1>1, <1>2, PTL DEF D!Spec

\* The queue sends the accepted triggers in the order in which they were accepted, and each
\* at most once.
THEOREM QueueInOrder == Spec => []D!InOrder
<1>1. D!Numbered => D!InOrder
  BY DEF D!Numbered
<1> QED BY <1>1, QueueDelivers, DeliveryInOrder, PTL DEF DeliverySpec
=============================================================================
