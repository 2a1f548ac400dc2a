------------------------------- MODULE Delivery -------------------------------
(***************************************************************************)
(* What docs/decisions/0019 promises of accepted command triggers: a       *)
(* bounded number of them waits, they are decided in the order in which    *)
(* they were accepted, and each is sent at most once or not at all.        *)
(***************************************************************************)
EXTENDS Naturals, Sequences

CONSTANTS Commands, MaxQueuedCommands

VARIABLES
    accepted,   \* the number of triggers accepted so far; it numbers them
    pending,    \* the accepted triggers that are neither sent nor given up
    sent        \* the triggers whose request was sent, in that order

deliveryVars == <<accepted, pending, sent>>

Trigger == [id : Nat, command : Commands]

Init == accepted = 0 /\ pending = <<>> /\ sent = <<>>

Accept(c) ==
    /\ Len(pending) < MaxQueuedCommands
    /\ accepted' = accepted + 1
    /\ pending' = Append(pending, [id |-> accepted, command |-> c])
    /\ UNCHANGED sent

Send ==
    /\ pending # <<>>
    /\ sent' = Append(sent, Head(pending)) /\ pending' = Tail(pending)
    /\ UNCHANGED accepted

GiveUp ==
    /\ pending # <<>> /\ pending' = Tail(pending)
    /\ UNCHANGED <<accepted, sent>>

Next == (\E c \in Commands : Accept(c)) \/ Send \/ GiveUp

Spec == Init /\ [][Next]_deliveryVars

TypeOK == accepted \in Nat /\ pending \in Seq(Trigger) /\ sent \in Seq(Trigger)

\* What was sent, and behind it what is pending, is in the order of acceptance and
\* free of repetition: FIFO, and at most once.
IncreasingIds(s) == \A i, j \in 1..Len(s) : i < j => s[i].id < s[j].id

InOrder ==
    /\ IncreasingIds(sent) /\ IncreasingIds(pending)
    /\ \A i \in 1..Len(sent), j \in 1..Len(pending) : sent[i].id < pending[j].id

\* Inductive together with TypeOK: the next trigger accepted has a number of its own.
Numbered ==
    /\ InOrder
    /\ \A i \in 1..Len(sent) : sent[i].id < accepted
    /\ \A j \in 1..Len(pending) : pending[j].id < accepted
=============================================================================
