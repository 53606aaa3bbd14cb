-------------------------- MODULE Dispatcher_proofs --------------------------
(***************************************************************************)
(* Proofs about Dispatcher, for any subscriptions, topics and bounds.      *)
(***************************************************************************)
EXTENDS Dispatcher, FiniteSetTheorems, SequenceTheorems, TLAPS

\* A sequence over 1..m is one over any larger interval.
LEMMA SeqWidens ==
    ASSUME NEW m \in Nat, NEW n \in Nat, m <= n, NEW q \in Seq(1..m)
    PROVE  q \in Seq(1..n)
  OBVIOUS

\* What is left of a queue when its head is taken.
LEMMA TailFacts ==
    ASSUME NEW S, NEW q \in Seq(S), q # <<>>
    PROVE  /\ Head(q) \in S
           /\ Head(q) = q[1]
           /\ 1 \in DOMAIN q
           /\ Tail(q) \in Seq(S)
           /\ Len(Tail(q)) = Len(q) - 1
           /\ \A i \in DOMAIN Tail(q) : i + 1 \in DOMAIN q /\ Tail(q)[i] = q[i + 1]
  OBVIOUS

\* A queue with one more element.
LEMMA AppendFacts ==
    ASSUME NEW S, NEW q \in Seq(S), NEW e \in S
    PROVE  /\ Append(q, e) \in Seq(S)
           /\ DOMAIN Append(q, e) = 1..(Len(q) + 1)
           /\ DOMAIN q = 1..Len(q)
           /\ Append(q, e)[Len(q) + 1] = e
           /\ \A i \in DOMAIN q : Append(q, e)[i] = q[i]
  OBVIOUS

-----------------------------------------------------------------------------
(* Type correctness *)

USE DEF vars, serverVars, apiVars, loadVars, watchVars, handleVars, processUnchanged

LEMMA NoMappingType == NoMapping \in [SubTopics -> SUBSET Subs]
  BY DEF NoMapping

LEMMA NoCallType == NoCall \in [CallSteps -> Nat]
  BY DEF NoCall

LEMMA InitType == Init => TypeOK
<1> SUFFICES ASSUME Init PROVE TypeOK
  OBVIOUS
<1>1. IsFiniteSet(touched)
  BY FS_EmptySet DEF Init
<1>2. /\ published \in Seq(Topics) /\ localq \in Seq(1..Len(published))
      /\ queue \in [Subs -> Seq(1..Len(published))]
  BY DEF Init
<1>3. current \in 0..Len(published) /\ Len(published) = 0
  BY DEF Init
<1> QED
  BY <1>1, <1>2, <1>3, NoMappingType, NoCallType DEF Init, TypeOK

LEMMA PublishType ==
    ASSUME TypeOK, NEW t \in Topics, PublishEvent(t)
    PROVE  TypeOK'
<1>1. Len(published) \in Nat /\ Len(published') = Len(published) + 1
  BY DEF TypeOK, PublishEvent
<1>2. published' \in Seq(Topics)
  BY DEF TypeOK, PublishEvent
<1>3. \A q \in Seq(1..Len(published)) : q \in Seq(1..Len(published'))
  BY <1>1, SeqWidens
<1>4. queue' \in [Subs -> Seq(1..Len(published'))] /\ localq' \in Seq(1..Len(published'))
  BY <1>3 DEF TypeOK, PublishEvent
<1>5. stream' \subseteq 1..Len(published')
  <2> SUFFICES ASSUME NEW x \in stream' PROVE x \in 1..Len(published')
    OBVIOUS
  <2>1. x \in stream \/ x = Len(published) + 1
    BY DEF PublishEvent
  <2>2. x \in stream => x \in 1..Len(published)
    BY DEF TypeOK
  <2> QED
    BY <1>1, <2>1, <2>2
<1>5a. current' \in 0..Len(published') /\ outstanding' \in stream' \cup {0}
  BY <1>1 DEF TypeOK, PublishEvent
<1>6. promised' \in [Subs -> SUBSET (1..Len(published'))]
  BY <1>1 DEF TypeOK, PublishEvent
<1> QED
  BY <1>2, <1>4, <1>5, <1>5a, <1>6 DEF TypeOK, PublishEvent

LEMMA PushType ==
    ASSUME TypeOK, NEW e \in stream, Push(e)
    PROVE  localq' \in Seq(1..Len(published'))
  BY AppendFacts DEF TypeOK, Push

LEMMA ServerType == TypeOK /\ Server => TypeOK'
<1> SUFFICES ASSUME TypeOK, Server PROVE TypeOK'
  OBVIOUS
<1>1. ASSUME NEW t \in Topics, PublishEvent(t) PROVE TypeOK'
  BY <1>1, PublishType
<1>2. ASSUME NEW e \in stream, Deliver(e) PROVE TypeOK'
  <2>1. localq' \in Seq(1..Len(published'))
    BY <1>2, PushType DEF Deliver
  <2> QED
    BY <1>2, <2>1 DEF TypeOK, Deliver, Push
<1>3. CASE Redeliver
  <2>1. localq' \in Seq(1..Len(published'))
    BY <1>3, PushType DEF Redeliver, TypeOK
  <2> QED
    BY <1>3, <2>1 DEF TypeOK, Redeliver, Push
<1>4. CASE ExpireAckWait
  <2>1. localq' \in Seq(1..Len(published'))
    BY <1>4, PushType DEF ExpireAckWait, TypeOK
  <2> QED
    BY <1>4, <2>1 DEF TypeOK, ExpireAckWait, Push
<1> QED
  BY <1>1, <1>2, <1>3, <1>4 DEF Server

\* The counts of the calls under way stay counts.
LEMMA ProceedType ==
    ASSUME TypeOK, NEW s \in Subs, NEW from \in CallSteps, NEW to \in CallSteps,
           Proceed(s, from, to)
    PROVE  todo' \in [Subs -> [CallSteps -> Nat]]
<1>1. todo \in [Subs -> [CallSteps -> Nat]] /\ todo[s][from] > 0
  BY DEF TypeOK, Proceed
<1> DEFINE row == [todo[s] EXCEPT ![from] = @ - 1]
           step == [todo EXCEPT ![s] = row]
<1>2. row \in [CallSteps -> Nat]
  BY <1>1
<1>3. step \in [Subs -> [CallSteps -> Nat]]
  BY <1>1, <1>2
<1>4. [step[s] EXCEPT ![to] = @ + 1] \in [CallSteps -> Nat]
  BY <1>3
<1>5. todo' = [todo EXCEPT ![s] = [row EXCEPT ![to] = @ + 1]]
  BY <1>1 DEF Proceed
<1>6. step[s] = row
  BY <1>1
<1> QED
  BY <1>1, <1>4, <1>5, <1>6

LEMMA BeginsType ==
    ASSUME TypeOK, NEW s \in Subs, NEW first \in CallSteps,
           todo' = [todo EXCEPT ![s][first] = @ + 1]
    PROVE  todo' \in [Subs -> [CallSteps -> Nat]]
<1>1. [todo[s] EXCEPT ![first] = @ + 1] \in [CallSteps -> Nat]
  BY DEF TypeOK
<1> QED
  BY <1>1 DEF TypeOK

LEMMA EndsType ==
    ASSUME TypeOK, NEW s \in Subs, NEW last \in CallSteps, Ends(s, last)
    PROVE  todo' \in [Subs -> [CallSteps -> Nat]]
<1>1. [todo[s] EXCEPT ![last] = @ - 1] \in [CallSteps -> Nat]
  BY DEF TypeOK, Ends
<1> QED
  BY <1>1 DEF TypeOK, Ends

\* What no API call touches, and what only the deletion of a stream does.
LEMMA ApiLeaves ==
    ASSUME NEW s \in Subs, Api(s)
    PROVE  /\ UNCHANGED <<serverVars, dpc, handleVars, mapping, loadVars, watching, crashes,
                          expiries, disturbed>>
           /\ DropQueue(s) \/ queue' = queue
<1> USE DEF restUnchanged, bucketUnchanged, Begin, WriteEntry
<1>1. ASSUME BeginRegister(s) \/ BeginDelete(s) \/ BeginRewrite(s)
      PROVE  UNCHANGED <<serverVars, dpc, handleVars, mapping, loadVars, watching, crashes,
                         expiries, disturbed, queue>>
  BY <1>1 DEF BeginRegister, BeginDelete, BeginRewrite
<1>2. ASSUME NEW T \in SUBSET SubTopics, StoreSubscription(s, T) \/ RewriteSubscription(s, T)
      PROVE  UNCHANGED <<serverVars, dpc, handleVars, mapping, loadVars, watching, crashes,
                         expiries, disturbed, queue>>
  BY <1>2 DEF StoreSubscription, RewriteSubscription
<1>3. ASSUME RemoveSubscription(s) \/ EnsureQueue(s)
      PROVE  UNCHANGED <<serverVars, dpc, handleVars, mapping, loadVars, watching, crashes,
                         expiries, disturbed, queue>>
  BY <1>3 DEF RemoveSubscription, EnsureQueue
<1>4. CASE DropQueue(s)
  BY <1>4 DEF DropQueue
<1> QED
  BY <1>1, <1>2, <1>3, <1>4 DEF Api, GoOn

LEMMA WriteType ==
    ASSUME TypeOK, NEW s \in Subs, NEW T \in SUBSET SubTopics, WriteEntry(s, T),
           todo' \in [Subs -> [CallSteps -> Nat]],
           rewriting' \in [Subs -> SUBSET SUBSET SubTopics]
    PROVE  TypeOK'
<1>1. touched' \subseteq Subs /\ IsFiniteSet(touched')
  BY FS_AddElement DEF TypeOK, WriteEntry
<1>2. kv' \in [Subs -> SUBSET SubTopics]
  BY DEF TypeOK, WriteEntry
<1>3. promised' \in [Subs -> SUBSET (1..Len(published))]
  BY DEF TypeOK, WriteEntry
<1>4. changes' \in Nat
  BY DEF TypeOK, WriteEntry
<1> QED
  BY <1>1, <1>2, <1>3, <1>4 DEF TypeOK, WriteEntry, restUnchanged

LEMMA ApiType == ASSUME TypeOK, NEW s \in Subs, Api(s) PROVE TypeOK'
<1>0. {"store", "ensure", "remove", "drop"} = CallSteps
  BY DEF CallSteps
<1>1. ASSUME NEW T \in SUBSET SubTopics, StoreSubscription(s, T) PROVE TypeOK'
  <2>1. todo' \in [Subs -> [CallSteps -> Nat]]
    BY <1>0, <1>1, ProceedType DEF StoreSubscription
  <2>2. rewriting' \in [Subs -> SUBSET SUBSET SubTopics]
    BY <1>1 DEF StoreSubscription, TypeOK
  <2> QED
    BY <1>1, <2>1, <2>2, WriteType DEF StoreSubscription
<1>2. CASE RemoveSubscription(s)
  <2>1. todo' \in [Subs -> [CallSteps -> Nat]]
    BY <1>0, <1>2, ProceedType DEF RemoveSubscription
  <2>2. rewriting' \in [Subs -> SUBSET SUBSET SubTopics] /\ {} \in SUBSET SubTopics
    BY <1>2 DEF RemoveSubscription, TypeOK
  <2> QED
    BY <1>2, <2>1, <2>2, WriteType DEF RemoveSubscription
<1>3. ASSUME NEW T \in SUBSET SubTopics, RewriteSubscription(s, T) PROVE TypeOK'
  <2>1. todo' \in [Subs -> [CallSteps -> Nat]] /\ rewriting' \in [Subs -> SUBSET SUBSET SubTopics]
    BY <1>3 DEF RewriteSubscription, TypeOK
  <2> QED
    BY <1>3, <2>1, WriteType DEF RewriteSubscription
<1>4. CASE EnsureQueue(s)
  <2>1. todo' \in [Subs -> [CallSteps -> Nat]]
    BY <1>0, <1>4, EndsType DEF EnsureQueue
  <2> QED
    BY <1>4, <2>1 DEF TypeOK, EnsureQueue, bucketUnchanged, restUnchanged
<1>5. CASE DropQueue(s)
  <2>1. todo' \in [Subs -> [CallSteps -> Nat]]
    BY <1>0, <1>5, EndsType DEF DropQueue
  <2>2. queue' \in [Subs -> Seq(1..Len(published'))]
    BY <1>5 DEF TypeOK, DropQueue, restUnchanged
  <2>3. promised' \in [Subs -> SUBSET (1..Len(published'))]
    BY <1>5 DEF TypeOK, DropQueue, restUnchanged
  <2> QED
    BY <1>5, <2>1, <2>2, <2>3 DEF TypeOK, DropQueue, restUnchanged
<1>6. ASSUME BeginRegister(s) \/ BeginDelete(s) \/ BeginRewrite(s) PROVE TypeOK'
  <2>1. CASE BeginRegister(s) \/ BeginDelete(s)
    <3>1. todo' \in [Subs -> [CallSteps -> Nat]]
      BY <1>0, <2>1, BeginsType DEF BeginRegister, BeginDelete
    <3>2. Begin(s) /\ UNCHANGED rewriting
      BY <2>1 DEF BeginRegister, BeginDelete
    <3> QED
      BY <3>1, <3>2 DEF TypeOK, Begin, bucketUnchanged, restUnchanged
  <2>2. CASE BeginRewrite(s)
    <3>1. rewriting' \in [Subs -> SUBSET SUBSET SubTopics]
      BY <2>2 DEF BeginRewrite, TypeOK
    <3> QED
      BY <2>2, <3>1 DEF TypeOK, BeginRewrite, Begin, bucketUnchanged, restUnchanged
  <2> QED
    BY <1>6, <2>1, <2>2
<1> QED
  BY <1>1, <1>2, <1>3, <1>4, <1>5, <1>6 DEF Api, GoOn

\* Whatever takes the process down leaves a state of the right type.
LEMMA GoDownType == ASSUME TypeOK, GoDown, crashes' \in Nat PROVE TypeOK'
<1>1. localq' \in Seq(1..Len(published')) /\ current' \in 0..Len(published')
  BY DEF TypeOK, GoDown
<1>2. mapping' \in [SubTopics -> SUBSET Subs] /\ lmap' \in [SubTopics -> SUBSET Subs]
  BY NoMappingType DEF GoDown
<1> QED
  BY <1>1, <1>2 DEF TypeOK, GoDown

LEMMA LoadType == TypeOK /\ LoadMapping => TypeOK'
<1> SUFFICES ASSUME TypeOK, LoadMapping PROVE TypeOK'
  OBVIOUS
<1>1. CASE ReadKeys
  BY <1>1, NoMappingType DEF TypeOK, ReadKeys, Listed
<1>2. ASSUME NEW s \in Subs, ReadEntry(s) PROVE TypeOK'
  BY <1>2 DEF TypeOK, ReadEntry
<1>3. ASSUME NEW s \in Subs, ReadEntryFails(s) PROVE TypeOK'
  BY <1>3, GoDownType DEF TypeOK, ReadEntryFails
<1>4. CASE ReplaceMapping
  BY <1>4, NoMappingType DEF TypeOK, ReplaceMapping
<1> QED
  BY <1>1, <1>2, <1>3, <1>4 DEF LoadMapping

LEMMA HandleType == TypeOK /\ HandleEvent => TypeOK'
<1> SUFFICES ASSUME TypeOK, HandleEvent PROVE TypeOK'
  OBVIOUS
<1>1. CASE TakeEvent
  <2>1. /\ Head(localq) \in 1..Len(published)
        /\ Tail(localq) \in Seq(1..Len(published))
    BY <1>1, TailFacts DEF TypeOK, TakeEvent
  <2>2. mapping[published[Head(localq)]] \subseteq Subs
    BY <2>1, TopicsAssumption DEF TypeOK
  <2> QED
    BY <1>1, <2>1, <2>2 DEF TypeOK, TakeEvent
<1>2. ASSUME NEW s \in Subs, Send(s) PROVE TypeOK'
  <2>1. Append(queue[s], current) \in Seq(1..Len(published))
    BY <1>2, AppendFacts DEF TypeOK, Send
  <2> QED
    BY <1>2, <2>1 DEF TypeOK, Send
<1>3. ASSUME NEW s \in Subs, SendFails(s) PROVE TypeOK'
  BY <1>3, GoDownType DEF TypeOK, SendFails
<1>4. CASE Acknowledge
  BY <1>4 DEF TypeOK, Acknowledge
<1> QED
  BY <1>1, <1>2, <1>3, <1>4 DEF HandleEvent

LEMMA NextType == TypeOK /\ [Next]_vars => TypeOK'
<1> SUFFICES ASSUME TypeOK, [Next]_vars PROVE TypeOK'
  OBVIOUS
<1>1. ASSUME NEW s \in Subs, Api(s) PROVE TypeOK'
  BY <1>1, ApiType
<1>2. CASE Server
  BY <1>2, ServerType
<1>3. CASE Start
  BY <1>3 DEF TypeOK, Start
<1>4. CASE Crash
  BY <1>4, GoDownType DEF TypeOK, Crash
<1>5. CASE LoadMapping
  BY <1>5, LoadType
<1>6. CASE StartWatch
  <2>1. Cardinality(touched) \in Nat
    BY FS_CardinalityType DEF TypeOK
  <2> QED
    BY <1>6, <2>1 DEF TypeOK, StartWatch
<1>7. CASE TakeUpdate
  BY <1>7 DEF TypeOK, TakeUpdate
<1>8. CASE HandleEvent
  BY <1>8, HandleType
<1>9. CASE LoseAcknowledgement
  BY <1>9 DEF TypeOK, LoseAcknowledgement
<1>10. CASE UNCHANGED vars
  BY <1>10 DEF TypeOK
<1> QED
  BY <1>1, <1>2, <1>3, <1>4, <1>5, <1>6, <1>7, <1>8, <1>9, <1>10 DEF Next

\* The state of the dispatcher, of its stream and of the API's data is well
\* typed in every reachable state; in particular no subscription is left to be
\* served without an event at hand.
THEOREM TypeCorrect == Spec => []TypeOK
<1>1. Init => TypeOK
  BY InitType
<1>2. TypeOK /\ [Next]_vars => TypeOK'
  BY NextType
<1> QED
  BY <1>1, <1>2, PTL DEF Spec

-----------------------------------------------------------------------------
(* Order *)

\* Nothing pending on the server is older than the delivered event, than
\* anything the process holds or than anything in a queue; what the process
\* holds is in order, and no queue is ahead of it.
QueuesUpTo(x) == \A s \in Subs : \A i \in DOMAIN queue[s] : queue[s][i] <= x

OutstandingIsOldest == outstanding # 0 => \A e \in stream : outstanding <= e

LocalInOrder ==
    /\ \A i, j \in DOMAIN localq : i < j => localq[i] <= localq[j]
    /\ \A i \in DOMAIN localq, e \in stream : localq[i] <= e

CurrentIsFirst ==
    current # 0 => /\ \A i \in DOMAIN localq : current <= localq[i]
                   /\ \A e \in stream : current <= e

QueuesBehind ==
    /\ current # 0 => QueuesUpTo(current)
    /\ \A i \in DOMAIN localq : QueuesUpTo(localq[i])
    /\ \A e \in stream : QueuesUpTo(e)

OrderInv ==
    /\ OutstandingIsOldest
    /\ LocalInOrder
    /\ CurrentIsFirst
    /\ QueuesBehind
    /\ OrderRetained

\* Steps that leave the events where they are.
orderVars == <<stream, outstanding, queue, localq, current>>

LEMMA OrderUnchanged == OrderInv /\ UNCHANGED orderVars => OrderInv'
  BY DEF OrderInv, OutstandingIsOldest, LocalInOrder, CurrentIsFirst, QueuesBehind,
         QueuesUpTo, OrderRetained, orderVars

LEMMA InitOrder == Init => OrderInv
  BY DEF Init, OrderInv, OutstandingIsOldest, LocalInOrder, CurrentIsFirst, QueuesBehind,
         QueuesUpTo, OrderRetained

\* A new event comes after everything that exists.
LEMMA PublishOrder ==
    ASSUME TypeOK, OrderInv, NEW t \in Topics, PublishEvent(t)
    PROVE  OrderInv'
<1>1. /\ stream' = stream \cup {Len(published) + 1}
      /\ UNCHANGED <<outstanding, queue, localq, current>>
      /\ Len(published) \in Nat
  BY DEF PublishEvent, TypeOK
<1>2. outstanding <= Len(published) + 1
  BY <1>1 DEF TypeOK
<1>3. \A i \in DOMAIN localq : localq[i] <= Len(published) + 1
  BY <1>1 DEF TypeOK
<1>4. current <= Len(published) + 1
  BY <1>1 DEF TypeOK
<1>5. QueuesUpTo(Len(published) + 1)
  <2> SUFFICES ASSUME NEW s \in Subs, NEW i \in DOMAIN queue[s]
               PROVE  queue[s][i] <= Len(published) + 1
    BY DEF QueuesUpTo
  <2>1. queue[s] \in Seq(1..Len(published))
    BY DEF TypeOK
  <2> QED
    BY <1>1, <2>1
<1> QED
  BY <1>1, <1>2, <1>3, <1>4, <1>5
  DEF OrderInv, OutstandingIsOldest, LocalInOrder, CurrentIsFirst, QueuesBehind,
      QueuesUpTo, OrderRetained

\* The server pushes the oldest event, so the process gets it behind what it has.
LEMMA PushOrder ==
    ASSUME TypeOK, OrderInv, NEW e \in stream, IsOldest(e), Push(e),
           outstanding' \in {outstanding, e}
    PROVE  OrderInv'
<1>1. /\ UNCHANGED <<stream, queue, current>>
      /\ localq' = Append(localq, e)
      /\ e \in 1..Len(published)
  BY DEF Push, TypeOK
<1>2. /\ DOMAIN localq' = 1..(Len(localq) + 1) /\ DOMAIN localq = 1..Len(localq)
      /\ localq'[Len(localq) + 1] = e
      /\ \A i \in DOMAIN localq : localq'[i] = localq[i]
      /\ Len(localq) \in Nat
  BY <1>1, AppendFacts DEF TypeOK
<1>3. \A i \in DOMAIN localq' : localq'[i] = e \/ (i \in DOMAIN localq /\ localq'[i] = localq[i])
  BY <1>2
<1>4. OutstandingIsOldest'
  BY <1>1 DEF OrderInv, OutstandingIsOldest, IsOldest
<1>5. LocalInOrder'
  <2>1. ASSUME NEW i \in DOMAIN localq', NEW j \in DOMAIN localq', i < j
        PROVE  localq'[i] <= localq'[j]
    <3>1. i \in DOMAIN localq
      BY <1>2, <2>1
    <3>2. CASE j \in DOMAIN localq
      BY <1>2, <2>1, <3>1, <3>2 DEF OrderInv, LocalInOrder
    <3>3. CASE j \notin DOMAIN localq
      BY <1>2, <2>1, <3>1, <3>3 DEF OrderInv, LocalInOrder
    <3> QED
      BY <3>2, <3>3
  <2>2. ASSUME NEW i \in DOMAIN localq', NEW f \in stream' PROVE localq'[i] <= f
    BY <1>1, <1>3, <2>2 DEF OrderInv, LocalInOrder, IsOldest
  <2> QED
    BY <2>1, <2>2 DEF LocalInOrder
<1>6. CurrentIsFirst'
  BY <1>1, <1>3 DEF OrderInv, CurrentIsFirst
<1>7. QueuesBehind'
  BY <1>1, <1>3 DEF OrderInv, QueuesBehind, QueuesUpTo
<1>8. OrderRetained'
  BY <1>1 DEF OrderInv, OrderRetained
<1> QED
  BY <1>4, <1>5, <1>6, <1>7, <1>8 DEF OrderInv

LEMMA ServerOrder == TypeOK /\ OrderInv /\ Server => OrderInv'
<1> SUFFICES ASSUME TypeOK, OrderInv, Server PROVE OrderInv'
  OBVIOUS
<1>1. ASSUME NEW t \in Topics, PublishEvent(t) PROVE OrderInv'
  BY <1>1, PublishOrder
<1>2. ASSUME NEW e \in stream, Deliver(e) PROVE OrderInv'
  BY <1>2, PushOrder DEF Deliver
<1>3. ASSUME outstanding # 0 PROVE outstanding \in stream /\ IsOldest(outstanding)
  BY <1>3 DEF TypeOK, OrderInv, OutstandingIsOldest, IsOldest
<1>4. CASE Redeliver
  BY <1>3, <1>4, PushOrder DEF Redeliver
<1>5. CASE ExpireAckWait
  BY <1>3, <1>5, PushOrder DEF ExpireAckWait
<1> QED
  BY <1>1, <1>2, <1>4, <1>5 DEF Server

\* The API moves no events, except that it discards a queue.
LEMMA ApiOrder == ASSUME TypeOK, OrderInv, NEW s \in Subs, Api(s) PROVE OrderInv'
<1>1. CASE DropQueue(s)
  <2>1. /\ UNCHANGED <<stream, outstanding, localq, current>>
        /\ queue' = [queue EXCEPT ![s] = <<>>]
        /\ queue \in [Subs -> Seq(1..Len(published))]
    BY <1>1, ApiLeaves DEF DropQueue, TypeOK
  <2>2. \A q \in Subs : queue'[q] = <<>> \/ queue'[q] = queue[q]
    BY <2>1
  <2> QED
    BY <2>1, <2>2
    DEF OrderInv, OutstandingIsOldest, LocalInOrder, CurrentIsFirst, QueuesBehind,
        QueuesUpTo, OrderRetained
<1>2. CASE ~DropQueue(s)
  <2>1. UNCHANGED orderVars
    BY <1>2, ApiLeaves DEF orderVars
  <2> QED
    BY <2>1, OrderUnchanged
<1> QED
  BY <1>1, <1>2

\* A process that goes down takes only its own copies along.
LEMMA GoDownOrder == OrderInv /\ GoDown => OrderInv'
  BY DEF GoDown, OrderInv, OutstandingIsOldest, LocalInOrder, CurrentIsFirst, QueuesBehind,
         QueuesUpTo, OrderRetained

LEMMA LoadOrder == OrderInv /\ LoadMapping => OrderInv'
<1> SUFFICES ASSUME OrderInv, LoadMapping PROVE OrderInv'
  OBVIOUS
<1>1. ASSUME NEW s \in Subs, ReadEntryFails(s) PROVE OrderInv'
  BY <1>1, GoDownOrder DEF ReadEntryFails
<1>2. ASSUME ReadKeys \/ ReplaceMapping \/ \E s \in Subs : ReadEntry(s) PROVE OrderInv'
  <2>1. UNCHANGED orderVars
    BY <1>2 DEF ReadKeys, ReplaceMapping, ReadEntry, orderVars
  <2> QED
    BY <2>1, OrderUnchanged
<1> QED
  BY <1>1, <1>2 DEF LoadMapping

\* The first local copy becomes the current one, ahead of what stays behind.
LEMMA TakeOrder == ASSUME TypeOK, OrderInv, TakeEvent PROVE OrderInv'
<1>1. /\ UNCHANGED <<stream, outstanding, queue>>
      /\ current' = localq[1]
      /\ 1 \in DOMAIN localq
      /\ \A i \in DOMAIN localq' : i + 1 \in DOMAIN localq /\ localq'[i] = localq[i + 1]
      /\ DOMAIN localq' \subseteq Nat \ {0}
  BY TailFacts DEF TakeEvent, TypeOK
<1>2. LocalInOrder'
  BY <1>1 DEF OrderInv, LocalInOrder
<1>3. CurrentIsFirst'
  <2>1. ASSUME NEW i \in DOMAIN localq' PROVE current' <= localq'[i]
    BY <1>1 DEF OrderInv, LocalInOrder
  <2>2. ASSUME NEW e \in stream' PROVE current' <= e
    BY <1>1 DEF OrderInv, LocalInOrder
  <2> QED
    BY <2>1, <2>2 DEF CurrentIsFirst
<1>4. QueuesBehind'
  BY <1>1 DEF OrderInv, QueuesBehind, QueuesUpTo
<1> QED
  BY <1>1, <1>2, <1>3, <1>4 DEF OrderInv, OutstandingIsOldest, OrderRetained

\* The current event goes behind everything in the queue, and nothing that
\* comes later is older.
LEMMA SendOrder == ASSUME TypeOK, OrderInv, NEW s \in Subs, Send(s) PROVE OrderInv'
<1>1. /\ UNCHANGED <<stream, outstanding, localq, current>>
      /\ current # 0 /\ current \in 1..Len(published)
      /\ queue[s] \in Seq(1..Len(published))
      /\ queue' = [queue EXCEPT ![s] = queue'[s]]
      /\ queue'[s] = queue[s] \/ queue'[s] = Append(queue[s], current)
  BY DEF Send, TypeOK
<1>2. \A q \in Subs : q # s => queue'[q] = queue[q]
  BY <1>1 DEF TypeOK
<1>3. \A i \in DOMAIN queue'[s] :
          queue'[s][i] = current \/ (i \in DOMAIN queue[s] /\ queue'[s][i] = queue[s][i])
  BY <1>1, AppendFacts
<1>4. ASSUME NEW x \in 1..Len(published), current <= x, QueuesUpTo(x)
      PROVE  QueuesUpTo(x)'
  BY <1>2, <1>3, <1>4 DEF QueuesUpTo
<1>5. QueuesBehind'
  <2>1. QueuesUpTo(current)'
    BY <1>1, <1>4 DEF OrderInv, QueuesBehind
  <2>2. ASSUME NEW i \in DOMAIN localq PROVE QueuesUpTo(localq[i])'
    <3>1. localq[i] \in 1..Len(published) /\ current <= localq[i]
      BY <1>1 DEF TypeOK, OrderInv, CurrentIsFirst
    <3> QED
      BY <1>1, <1>4, <3>1 DEF OrderInv, QueuesBehind
  <2>3. ASSUME NEW e \in stream PROVE QueuesUpTo(e)'
    <3>1. e \in 1..Len(published) /\ current <= e
      BY <1>1 DEF TypeOK, OrderInv, CurrentIsFirst
    <3> QED
      BY <1>1, <1>4, <3>1 DEF OrderInv, QueuesBehind
  <2> QED
    BY <1>1, <2>1, <2>2, <2>3 DEF QueuesBehind
<1>6. OrderRetained'
  <2> SUFFICES ASSUME NEW q \in Subs, NEW i \in DOMAIN queue'[q], NEW j \in DOMAIN queue'[q],
                      i < j
               PROVE  queue'[q][i] <= queue'[q][j]
    BY DEF OrderRetained
  <2>1. CASE queue'[q] = queue[q]
    BY <2>1 DEF OrderInv, OrderRetained
  <2>2. CASE queue'[q] # queue[q]
    <3>1. q = s /\ queue'[q] = Append(queue[q], current)
      BY <1>1, <1>2, <2>2
    <3>2. /\ DOMAIN queue'[q] = 1..(Len(queue[q]) + 1) /\ DOMAIN queue[q] = 1..Len(queue[q])
          /\ queue'[q][Len(queue[q]) + 1] = current
          /\ \A k \in DOMAIN queue[q] : queue'[q][k] = queue[q][k]
          /\ Len(queue[q]) \in Nat
      BY <1>1, <3>1, AppendFacts
    <3>3. i \in DOMAIN queue[q] /\ queue[q][i] <= current
      BY <1>1, <3>2 DEF OrderInv, QueuesBehind, QueuesUpTo
    <3> QED
      BY <3>2, <3>3 DEF OrderInv, OrderRetained
  <2> QED
    BY <2>1, <2>2
<1> QED
  BY <1>1, <1>5, <1>6 DEF OrderInv, OutstandingIsOldest, LocalInOrder, CurrentIsFirst

LEMMA AcknowledgeOrder == ASSUME TypeOK, OrderInv, Acknowledge PROVE OrderInv'
  BY DEF Acknowledge, OrderInv, OutstandingIsOldest, LocalInOrder, CurrentIsFirst,
         QueuesBehind, QueuesUpTo, OrderRetained

LEMMA NextOrder == TypeOK /\ OrderInv /\ [Next]_vars => OrderInv'
<1> SUFFICES ASSUME TypeOK, OrderInv, [Next]_vars PROVE OrderInv'
  OBVIOUS
<1>1. ASSUME NEW s \in Subs, Api(s) PROVE OrderInv'
  BY <1>1, ApiOrder
<1>2. CASE Server
  BY <1>2, ServerOrder
<1>3. CASE Crash
  BY <1>3, GoDownOrder DEF Crash
<1>4. CASE LoadMapping
  BY <1>4, LoadOrder
<1>5. CASE Start \/ StartWatch \/ TakeUpdate \/ UNCHANGED vars
  <2>1. UNCHANGED orderVars
    BY <1>5 DEF Start, StartWatch, TakeUpdate, orderVars
  <2> QED
    BY <2>1, OrderUnchanged
<1>6. CASE HandleEvent
  <2>1. CASE TakeEvent
    BY <2>1, TakeOrder
  <2>2. ASSUME NEW s \in Subs, Send(s) PROVE OrderInv'
    BY <2>2, SendOrder
  <2>3. ASSUME NEW s \in Subs, SendFails(s) PROVE OrderInv'
    BY <2>3, GoDownOrder DEF SendFails
  <2>4. CASE Acknowledge
    BY <2>4, AcknowledgeOrder
  <2> QED
    BY <1>6, <2>1, <2>2, <2>3, <2>4 DEF HandleEvent
<1>7. CASE LoseAcknowledgement
  BY <1>7 DEF LoseAcknowledgement, OrderInv, OutstandingIsOldest, LocalInOrder,
              CurrentIsFirst, QueuesBehind, QueuesUpTo, OrderRetained
<1> QED
  BY <1>1, <1>2, <1>3, <1>4, <1>5, <1>6, <1>7 DEF Next

\* No redelivery, no second local copy, no restart and no deletion ever puts an
\* event behind a later one in a subscription's stream.
THEOREM OrderIsRetained == Spec => []OrderRetained
<1>1. Init => OrderInv
  BY InitOrder
<1>2. TypeOK /\ OrderInv /\ [Next]_vars => OrderInv'
  BY NextOrder
<1>3. OrderInv => OrderRetained
  BY DEF OrderInv
<1> QED
  BY <1>1, <1>2, <1>3, TypeCorrect, PTL DEF Spec

-----------------------------------------------------------------------------
(* No loss *)

\* A subscription that is owed events is listed with their topics, and the
\* dispatcher's mapping, or the one that replaces it, knows it for each of them.
OwedAreKnown ==
    \A s \in Subs : \A e \in promised[s] :
        s \in exists /\ KnownToDispatcher(s, published[e])

OwedAreStated == \A s \in Subs : \A e \in promised[s] : published[e] \in kv[s]

InQueue(s, e) == \E i \in DOMAIN queue[s] : queue[s][i] = e

\* The event at hand still goes to whoever is owed it, or went there.
CurrentIsServed ==
    \A s \in Subs : current \in promised[s] => s \in targets \/ InQueue(s, current)

OwedInv ==
    /\ OwedAreKnown
    /\ OwedAreStated
    /\ CurrentIsServed
    /\ NoOwedEventLost

LEMMA InitOwed == Init => OwedInv
  BY DEF Init, OwedInv, OwedAreKnown, OwedAreStated, CurrentIsServed, NoOwedEventLost

owedVars == <<stream, queue, exists, kv, current, targets, promised, published>>

\* What the dispatcher knows may change as long as nothing else does.
LEMMA OwedUnchanged ==
    ASSUME OwedInv, UNCHANGED owedVars,
           \A s \in Subs : \A t \in kv[s] : KnownToDispatcher(s, t) => KnownToDispatcher(s, t)'
    PROVE  OwedInv'
  BY DEF OwedInv, OwedAreKnown, OwedAreStated, CurrentIsServed, NoOwedEventLost, InQueue,
         owedVars

LEMMA PublishOwed ==
    ASSUME TypeOK, OwedInv, NEW t \in Topics, PublishEvent(t)
    PROVE  OwedInv'
<1> DEFINE n == Len(published) + 1
<1>1. /\ UNCHANGED <<queue, exists, kv, current, targets, dpc, mapping, lpc, lkeys, lmap>>
      /\ stream' = stream \cup {n}
      /\ n \in Nat
      /\ published'[n] = t
      /\ \A e \in 1..Len(published) : published'[e] = published[e]
  BY DEF PublishEvent, TypeOK
<1>2. ASSUME NEW s \in Subs, NEW e \in promised'[s]
      PROVE  \/ e \in promised[s] /\ e \in 1..Len(published)
             \/ e = n /\ s \in Owed(t)
  BY DEF PublishEvent, TypeOK
<1>3. \A s \in Subs, x \in SubTopics : KnownToDispatcher(s, x)' <=> KnownToDispatcher(s, x)
  BY <1>1 DEF KnownToDispatcher
<1>4. OwedAreKnown'
  <2> SUFFICES ASSUME NEW s \in Subs, NEW e \in promised'[s]
               PROVE  (s \in exists /\ KnownToDispatcher(s, published[e]))'
    BY DEF OwedAreKnown
  <2>1. CASE e \in promised[s] /\ e \in 1..Len(published)
    <3>1. s \in exists /\ KnownToDispatcher(s, published[e]) /\ published'[e] = published[e]
      BY <1>1, <2>1 DEF OwedInv, OwedAreKnown
    <3> QED
      BY <1>1, <3>1 DEF KnownToDispatcher
  <2>2. CASE e = n /\ s \in Owed(t)
    BY <1>1, <2>2 DEF Owed, KnownToDispatcher
  <2> QED
    BY <1>2, <2>1, <2>2
<1>5. OwedAreStated'
  BY <1>1, <1>2 DEF OwedInv, OwedAreStated, Owed
<1>6. CurrentIsServed'
  <2>1. current # n
    BY DEF TypeOK
  <2> QED
    BY <1>1, <1>2, <2>1 DEF OwedInv, CurrentIsServed, InQueue
<1>7. NoOwedEventLost'
  BY <1>1, <1>2 DEF OwedInv, NoOwedEventLost
<1> QED
  BY <1>4, <1>5, <1>6, <1>7 DEF OwedInv

LEMMA ServerOwed == TypeOK /\ OwedInv /\ Server => OwedInv'
<1> SUFFICES ASSUME TypeOK, OwedInv, Server PROVE OwedInv'
  OBVIOUS
<1>1. ASSUME NEW t \in Topics, PublishEvent(t) PROVE OwedInv'
  BY <1>1, PublishOwed
<1>2. ASSUME Redeliver \/ ExpireAckWait \/ \E e \in stream : Deliver(e) PROVE OwedInv'
  <2>1. UNCHANGED owedVars /\ UNCHANGED <<dpc, mapping, lpc, lkeys, lmap>>
    BY <1>2 DEF Redeliver, ExpireAckWait, Deliver, Push, owedVars
  <2>2. \A s \in Subs : \A t \in kv[s] : KnownToDispatcher(s, t)' <=> KnownToDispatcher(s, t)
    BY <2>1 DEF KnownToDispatcher, owedVars
  <2> QED
    BY <2>1, <2>2, OwedUnchanged
<1> QED
  BY <1>1, <1>2 DEF Server

\* Whoever writes an entry, even one read before another call stored or removed it,
\* ends what the entry does not state any more; whoever deletes a stream ends what is
\* owed to it.
LEMMA ApiOwed == ASSUME TypeOK, OwedInv, NEW s \in Subs, Api(s) PROVE OwedInv'
<1>1. UNCHANGED <<stream, published, current, targets, dpc, mapping, lpc, lkeys, lmap>>
  BY ApiLeaves
<1>2. ASSUME NEW q \in Subs, NEW e \in promised'[q]
      PROVE  /\ e \in promised[q] /\ published[e] \in kv'[q]
             /\ queue'[q] = queue[q] /\ (q \in exists => q \in exists')
  <2>0. e \in promised[q] => published[e] \in kv[q]
    BY DEF OwedInv, OwedAreStated
  <2>1. ASSUME NEW T \in SUBSET SubTopics, WriteEntry(s, T)
        PROVE  /\ e \in promised[q] /\ published[e] \in kv'[q]
               /\ queue'[q] = queue[q] /\ (q \in exists => q \in exists')
    <3>1. /\ kv'[q] = IF q = s THEN T ELSE kv[q]
          /\ promised'[q] = IF q = s THEN {f \in promised[s] : published[f] \in T} ELSE promised[q]
          /\ UNCHANGED <<exists, queue>>
      BY <2>1 DEF WriteEntry, TypeOK
    <3> QED
      BY <1>2, <2>0, <3>1
  <2>2. CASE DropQueue(s)
    <3>1. /\ q # s /\ promised'[q] = promised[q] /\ queue'[q] = queue[q] /\ kv' = kv
          /\ exists' = exists \ {s}
      BY <1>2, <2>2 DEF DropQueue, TypeOK
    <3> QED
      BY <1>2, <2>0, <3>1
  <2>3. ASSUME UNCHANGED <<kv, promised, queue>>, exists \subseteq exists'
        PROVE  /\ e \in promised[q] /\ published[e] \in kv'[q]
               /\ queue'[q] = queue[q] /\ (q \in exists => q \in exists')
    BY <1>2, <2>0, <2>3
  <2>4. \/ \E T \in SUBSET SubTopics : WriteEntry(s, T)
        \/ DropQueue(s)
        \/ UNCHANGED <<kv, promised, queue>> /\ exists \subseteq exists'
    <3>1. ASSUME BeginRegister(s) \/ BeginDelete(s) \/ BeginRewrite(s) \/ EnsureQueue(s)
          PROVE  UNCHANGED <<kv, promised, queue>> /\ exists \subseteq exists'
      BY <3>1 DEF BeginRegister, BeginDelete, BeginRewrite, Begin, EnsureQueue, bucketUnchanged
    <3>2. RemoveSubscription(s) => WriteEntry(s, {})
      BY DEF RemoveSubscription
    <3>3. ASSUME NEW T \in SUBSET SubTopics, StoreSubscription(s, T) \/ RewriteSubscription(s, T)
          PROVE  WriteEntry(s, T)
      BY <3>3 DEF StoreSubscription, RewriteSubscription
    <3> QED
      BY <3>1, <3>2, <3>3 DEF Api, GoOn
  <2> QED
    BY <2>1, <2>2, <2>3, <2>4
<1>3. OwedAreKnown'
  BY <1>1, <1>2 DEF OwedInv, OwedAreKnown, KnownToDispatcher
<1>4. OwedAreStated'
  BY <1>1, <1>2 DEF OwedAreStated
<1>5. CurrentIsServed'
  BY <1>1, <1>2 DEF OwedInv, CurrentIsServed, InQueue
<1>6. NoOwedEventLost'
  BY <1>1, <1>2 DEF OwedInv, NoOwedEventLost
<1> QED
  BY <1>3, <1>4, <1>5, <1>6 DEF OwedInv

\* The events the process had are still in the stream: none was acknowledged.
LEMMA GoDownOwed == ASSUME TypeOK, OwedInv, GoDown PROVE OwedInv'
<1>1. \A s \in Subs : \A t : KnownToDispatcher(s, t)'
  BY DEF KnownToDispatcher, GoDown
<1>2. \A s \in Subs : 0 \notin promised[s]
  BY DEF TypeOK
<1> QED
  BY <1>1, <1>2
  DEF GoDown, OwedInv, OwedAreKnown, OwedAreStated, CurrentIsServed, NoOwedEventLost

\* A rebuild finds every subscription that is owed something.
LEMMA LoadOwed == ASSUME TypeOK, OwedInv, LoadMapping PROVE OwedInv'
<1>1. ASSUME NEW s \in Subs, ReadEntryFails(s) PROVE OwedInv'
  BY <1>1, GoDownOwed DEF ReadEntryFails
<1>2. CASE ReadKeys
  <2>1. UNCHANGED owedVars /\ UNCHANGED <<dpc, mapping>> /\ lkeys' = Listed
    BY <1>2 DEF ReadKeys, owedVars
  <2>2. \A s \in Subs : kv[s] # {} => s \in Listed
    BY DEF Listed
  <2> QED
    BY <2>1, <2>2, OwedUnchanged DEF KnownToDispatcher, owedVars
<1>3. ASSUME NEW s \in Subs, ReadEntry(s) PROVE OwedInv'
  <2>1. UNCHANGED owedVars /\ UNCHANGED <<dpc, lpc, mapping>>
    BY <1>3 DEF ReadEntry, owedVars
  <2>2. \A q \in Subs : \A t \in kv[q] : KnownToDispatcher(q, t) => KnownToDispatcher(q, t)'
    BY <1>3, <2>1 DEF KnownToDispatcher, ReadEntry, owedVars, TypeOK
  <2> QED
    BY <2>1, <2>2, OwedUnchanged
<1>4. CASE ReplaceMapping
  <2>1. UNCHANGED owedVars
    BY <1>4 DEF ReplaceMapping, owedVars
  <2>2. \A s \in Subs : \A t \in kv[s] : KnownToDispatcher(s, t) => KnownToDispatcher(s, t)'
    BY <1>4, <2>1 DEF KnownToDispatcher, ReplaceMapping, owedVars
  <2> QED
    BY <2>1, <2>2, OwedUnchanged
<1> QED
  BY <1>1, <1>2, <1>3, <1>4 DEF LoadMapping

\* The snapshot of the mapping has every subscription that is owed the event.
LEMMA TakeOwed == ASSUME TypeOK, OwedInv, TakeEvent PROVE OwedInv'
<1>1. /\ UNCHANGED <<stream, queue, exists, kv, promised, published, dpc, mapping, lpc, lkeys, lmap>>
      /\ dpc = "running"
      /\ targets' = mapping[published[current']]
  BY DEF TakeEvent
<1>2. ASSUME NEW s \in Subs, current' \in promised[s] PROVE s \in targets'
  <2>1. s \in mapping[published[current']]
    BY <1>1, <1>2 DEF OwedInv, OwedAreKnown, KnownToDispatcher
  <2> QED
    BY <1>1, <2>1
<1> QED
  BY <1>1, <1>2
  DEF OwedInv, OwedAreKnown, OwedAreStated, CurrentIsServed, NoOwedEventLost, KnownToDispatcher

LEMMA SendOwed == ASSUME TypeOK, OwedInv, NEW s \in Subs, Send(s) PROVE OwedInv'
<1>1. /\ UNCHANGED <<stream, exists, kv, promised, published, current, dpc, mapping, lpc, lkeys, lmap>>
      /\ targets' = targets \ {s}
      /\ current \in 1..Len(published)
      /\ queue[s] \in Seq(1..Len(published))
  BY DEF Send, TypeOK
<1>2. \A q \in Subs : q # s => queue'[q] = queue[q]
  BY DEF Send, TypeOK
<1>3. InQueue(s, current)'
  <2>1. CASE Repeated(s, current)
    <3>1. queue'[s] = queue[s]
      BY <2>1 DEF Send, TypeOK
    <3>2. MaxRepeats \in Nat /\ MaxRepeats >= 1 /\ Len(queue[s]) >= MaxRepeats
      BY <2>1, BoundsAssumption DEF Repeated
    <3>3. Len(queue[s]) \in Nat /\ DOMAIN queue[s] = 1..Len(queue[s])
      BY <1>1
    <3>4. Len(queue[s]) \in (Len(queue[s]) - MaxRepeats + 1)..Len(queue[s])
      BY <3>2, <3>3
    <3>5. queue[s][Len(queue[s])] = current
      BY <2>1, <3>4 DEF Repeated
    <3> QED
      BY <1>1, <3>1, <3>2, <3>3, <3>5 DEF InQueue
  <2>2. CASE ~Repeated(s, current)
    <3>1. queue'[s] = Append(queue[s], current)
      BY <2>2 DEF Send, TypeOK
    <3>2. Len(queue[s]) + 1 \in DOMAIN queue'[s] /\ queue'[s][Len(queue[s]) + 1] = current
      BY <1>1, <3>1, AppendFacts
    <3> QED
      BY <1>1, <3>2 DEF InQueue
  <2> QED
    BY <2>1, <2>2
<1>4. \A e \in Nat : InQueue(s, e) => InQueue(s, e)'
  <2>1. queue'[s] = queue[s] \/ queue'[s] = Append(queue[s], current)
    BY DEF Send, TypeOK
  <2>2. \A i \in DOMAIN queue[s] : i \in DOMAIN queue'[s] /\ queue'[s][i] = queue[s][i]
    <3>1. CASE queue'[s] = queue[s]
      BY <3>1
    <3>2. CASE queue'[s] = Append(queue[s], current)
      <4>1. /\ DOMAIN queue'[s] = 1..(Len(queue[s]) + 1) /\ DOMAIN queue[s] = 1..Len(queue[s])
            /\ \A i \in DOMAIN queue[s] : queue'[s][i] = queue[s][i]
            /\ Len(queue[s]) \in Nat
        BY <1>1, <3>2, AppendFacts
      <4> QED
        BY <4>1
    <3> QED
      BY <2>1, <3>1, <3>2
  <2> QED
    BY <2>2 DEF InQueue
<1>5. \A q \in Subs, e \in Nat : InQueue(q, e) => InQueue(q, e)'
  BY <1>2, <1>4 DEF InQueue
<1>6. CurrentIsServed'
  BY <1>1, <1>3, <1>5 DEF OwedInv, CurrentIsServed
<1>7. NoOwedEventLost'
  <2> SUFFICES ASSUME NEW q \in Subs, NEW e \in promised[q] PROVE e \in stream \/ InQueue(q, e)'
    BY <1>1 DEF NoOwedEventLost, InQueue
  <2>1. e \in stream \/ InQueue(q, e)
    BY DEF OwedInv, NoOwedEventLost, InQueue
  <2>2. e \in Nat
    BY DEF TypeOK
  <2> QED
    BY <1>5, <2>1, <2>2
<1> QED
  BY <1>1, <1>6, <1>7 DEF OwedInv, OwedAreKnown, OwedAreStated, KnownToDispatcher

\* Only the event at hand leaves the stream, when everybody has been served.
LEMMA AcknowledgeOwed == ASSUME TypeOK, OwedInv, Acknowledge PROVE OwedInv'
<1>1. \A s \in Subs : 0 \notin promised[s]
  BY DEF TypeOK
<1>2. \A s \in Subs : current \in promised[s] => InQueue(s, current)
  BY DEF Acknowledge, OwedInv, CurrentIsServed
<1> QED
  BY <1>1, <1>2
  DEF Acknowledge, OwedInv, OwedAreKnown, OwedAreStated, CurrentIsServed, NoOwedEventLost,
      KnownToDispatcher, InQueue

LEMMA NextOwed == TypeOK /\ OwedInv /\ [Next]_vars => OwedInv'
<1> SUFFICES ASSUME TypeOK, OwedInv, [Next]_vars PROVE OwedInv'
  OBVIOUS
<1>1. ASSUME NEW s \in Subs, Api(s) PROVE OwedInv'
  BY <1>1, ApiOwed
<1>2. CASE Server
  BY <1>2, ServerOwed
<1>3. CASE Crash
  BY <1>3, GoDownOwed DEF Crash
<1>4. CASE LoadMapping
  BY <1>4, LoadOwed
<1>5. CASE Start \/ StartWatch \/ TakeUpdate \/ UNCHANGED vars
  <2>1. /\ UNCHANGED owedVars
        /\ \A s \in Subs : \A t \in kv[s] : KnownToDispatcher(s, t) => KnownToDispatcher(s, t)'
    BY <1>5 DEF Start, StartWatch, TakeUpdate, owedVars, KnownToDispatcher
  <2> QED
    BY <2>1, OwedUnchanged
<1>6. CASE HandleEvent
  <2>1. CASE TakeEvent
    BY <2>1, TakeOwed
  <2>2. ASSUME NEW s \in Subs, Send(s) PROVE OwedInv'
    BY <2>2, SendOwed
  <2>3. ASSUME NEW s \in Subs, SendFails(s) PROVE OwedInv'
    BY <2>3, GoDownOwed DEF SendFails
  <2>4. CASE Acknowledge
    BY <2>4, AcknowledgeOwed
  <2> QED
    BY <1>6, <2>1, <2>2, <2>3, <2>4 DEF HandleEvent
<1>7. CASE LoseAcknowledgement
  <2>1. \A s \in Subs : 0 \notin promised[s]
    BY DEF TypeOK
  <2> QED
    BY <1>7, <2>1
    DEF LoseAcknowledgement, OwedInv, OwedAreKnown, OwedAreStated, CurrentIsServed,
        NoOwedEventLost, KnownToDispatcher
<1> QED
  BY <1>1, <1>2, <1>3, <1>4, <1>5, <1>6, <1>7 DEF Next

\* Whoever is owed an event has it before the event leaves the stream, whatever
\* mapping rebuilds, restarts and redeliveries lie between.
THEOREM NoOwedEventIsLost == Spec => []NoOwedEventLost
<1>1. Init => OwedInv
  BY InitOwed
<1>2. TypeOK /\ OwedInv /\ [Next]_vars => OwedInv'
  BY NextOwed
<1>3. OwedInv => NoOwedEventLost
  BY DEF OwedInv
<1> QED
  BY <1>1, <1>2, <1>3, TypeCorrect, PTL DEF Spec

-----------------------------------------------------------------------------
(* What ends a promise *)

\* At most one call for s is under way: a registration found no entry and none has been
\* written since, a write-back has read the entry as it still is.
OneCallAtMost(s) ==
    \/ Idle(s)
    \/ rewriting[s] = {} /\ todo[s] = [NoCall EXCEPT !["store"] = 1] /\ kv[s] = {}
    \/ rewriting[s] = {} /\ \E a \in CallSteps \ {"store"} : todo[s] = [NoCall EXCEPT ![a] = 1]
    \/ todo[s] = NoCall /\ rewriting[s] = {kv[s]}

CallsInTurn == \A s \in Subs : OneCallAtMost(s)

\* A promise ends with the deletion of the entry or of the stream, and with nothing else.
KeepsPromises ==
    \A s \in Subs : \/ promised[s] \subseteq promised'[s]
                    \/ RemoveSubscription(s)
                    \/ DropQueue(s)
DeletionEndsPromises == [][KeepsPromises]_vars

\* Which call goes on, and which step is next: there is one of it.
LEMMA OnlyThatCall ==
    ASSUME TypeOK, NEW s \in Subs, OneCallAtMost(s), NEW a \in CallSteps, todo[s][a] > 0
    PROVE  /\ rewriting[s] = {} /\ todo[s] = [NoCall EXCEPT ![a] = 1]
           /\ a = "store" => kv[s] = {}
<1>1. NoCall[a] = 0
  BY DEF NoCall
<1>2. todo[s] # NoCall
  BY <1>1
<1>3. ASSUME NEW b \in CallSteps, todo[s] = [NoCall EXCEPT ![b] = 1] PROVE a = b
  BY <1>1, <1>3 DEF NoCall
<1>4. "store" \in CallSteps
  BY DEF CallSteps
<1> QED
  BY <1>2, <1>3, <1>4 DEF OneCallAtMost, Idle

\* The row of s after its only call went on from a to b, or ended with a.
LEMMA RowAfter ==
    ASSUME NEW s \in Subs, todo \in [Subs -> [CallSteps -> Nat]],
           NEW a \in CallSteps, todo[s] = [NoCall EXCEPT ![a] = 1]
    PROVE  /\ \A b \in CallSteps \ {a} : Proceed(s, a, b) => todo'[s] = [NoCall EXCEPT ![b] = 1]
           /\ Ends(s, a) => todo'[s] = NoCall
<1>1. [[NoCall EXCEPT ![a] = 1] EXCEPT ![a] = @ - 1] = NoCall
  BY DEF NoCall
<1>2. ASSUME Ends(s, a) PROVE todo'[s] = NoCall
  BY <1>1, <1>2 DEF Ends
<1>3. ASSUME NEW b \in CallSteps \ {a}, Proceed(s, a, b)
      PROVE  todo'[s] = [NoCall EXCEPT ![b] = 1]
  <2>1. todo'[s] = [[todo[s] EXCEPT ![a] = @ - 1] EXCEPT ![b] = @ + 1]
    BY <1>3 DEF Proceed
  <2>2. todo'[s] = [NoCall EXCEPT ![b] = @ + 1]
    BY <1>1, <2>1
  <2> QED
    BY <2>2 DEF NoCall
<1> QED
  BY <1>2, <1>3

\* A call for s leaves the calls and the entries of the others alone.
LEMMA ApiOthers ==
    ASSUME TypeOK, NEW s \in Subs, Api(s), NEW q \in Subs, q # s
    PROVE  kv'[q] = kv[q] /\ todo'[q] = todo[q] /\ rewriting'[q] = rewriting[q]
<1> USE DEF TypeOK, bucketUnchanged, Begin, WriteEntry, Proceed, Ends
<1>1. CASE BeginRegister(s) \/ BeginDelete(s) \/ BeginRewrite(s)
  BY <1>1 DEF BeginRegister, BeginDelete, BeginRewrite
<1>2. ASSUME NEW T \in SUBSET SubTopics, StoreSubscription(s, T) \/ RewriteSubscription(s, T)
      PROVE  kv'[q] = kv[q] /\ todo'[q] = todo[q] /\ rewriting'[q] = rewriting[q]
  BY <1>2 DEF StoreSubscription, RewriteSubscription
<1>3. CASE RemoveSubscription(s) \/ EnsureQueue(s) \/ DropQueue(s)
  BY <1>3 DEF RemoveSubscription, EnsureQueue, DropQueue
<1> QED
  BY <1>1, <1>2, <1>3 DEF Api, GoOn

LEMMA FirstCall == \A a \in CallSteps : [NoCall EXCEPT ![a] = @ + 1] = [NoCall EXCEPT ![a] = 1]
<1> SUFFICES ASSUME NEW a \in CallSteps
             PROVE  [NoCall EXCEPT ![a] = @ + 1] = [NoCall EXCEPT ![a] = 1]
  OBVIOUS
<1>1. NoCall[a] + 1 = 1
  BY DEF NoCall
<1> QED
  BY <1>1

LEMMA InTurnKept ==
    ASSUME ~ApiFaults, TypeOK, CallsInTurn, NEW s \in Subs, Api(s)
    PROVE  CallsInTurn'
<1>1. {"store", "ensure", "remove", "drop"} = CallSteps
  BY DEF CallSteps
<1>2. OneCallAtMost(s)
  BY DEF CallsInTurn
<1>3. todo \in [Subs -> [CallSteps -> Nat]] /\ rewriting \in [Subs -> SUBSET SUBSET SubTopics]
  BY DEF TypeOK
<1>4. OneCallAtMost(s)'
  <2>1. CASE BeginRegister(s)
    <3>1. todo[s] = NoCall /\ rewriting'[s] = {} /\ kv'[s] = {}
      BY <2>1 DEF BeginRegister, Begin, Idle, bucketUnchanged
    <3>2. todo'[s] = [NoCall EXCEPT !["store"] = @ + 1]
      BY <1>3, <2>1, <3>1 DEF BeginRegister
    <3>3. todo'[s] = [NoCall EXCEPT !["store"] = 1]
      BY <1>1, <3>2, FirstCall
    <3> QED
      BY <3>1, <3>3 DEF OneCallAtMost
  <2>2. CASE BeginDelete(s)
    <3>1. todo[s] = NoCall /\ rewriting'[s] = {}
      BY <2>2 DEF BeginDelete, Begin, Idle
    <3>2. todo'[s] = [NoCall EXCEPT !["remove"] = @ + 1]
      BY <1>3, <2>2, <3>1 DEF BeginDelete
    <3>3. [NoCall EXCEPT !["remove"] = @ + 1] = [NoCall EXCEPT !["remove"] = 1]
      BY <1>1, FirstCall
    <3> QED
      BY <1>1, <3>1, <3>2, <3>3 DEF OneCallAtMost
  <2>3. CASE BeginRewrite(s)
    BY <1>3, <2>3 DEF BeginRewrite, Begin, Idle, bucketUnchanged, OneCallAtMost
  <2>4. ASSUME NEW T \in SUBSET SubTopics, StoreSubscription(s, T) PROVE OneCallAtMost(s)'
    <3>1. rewriting[s] = {} /\ todo[s] = [NoCall EXCEPT !["store"] = 1]
      BY <1>1, <1>2, <2>4, OnlyThatCall DEF StoreSubscription, Proceed
    <3>2. todo'[s] = [NoCall EXCEPT !["ensure"] = 1] /\ rewriting'[s] = {}
      BY <1>1, <1>3, <2>4, <3>1, RowAfter DEF StoreSubscription
    <3> QED
      BY <1>1, <3>2 DEF OneCallAtMost
  <2>5. CASE RemoveSubscription(s)
    <3>1. rewriting[s] = {} /\ todo[s] = [NoCall EXCEPT !["remove"] = 1]
      BY <1>1, <1>2, <2>5, OnlyThatCall DEF RemoveSubscription, Proceed
    <3>2. todo'[s] = [NoCall EXCEPT !["drop"] = 1] /\ rewriting'[s] = {}
      BY <1>1, <1>3, <2>5, <3>1, RowAfter DEF RemoveSubscription
    <3> QED
      BY <1>1, <3>2 DEF OneCallAtMost
  <2>6. ASSUME NEW T \in SUBSET SubTopics, RewriteSubscription(s, T) PROVE OneCallAtMost(s)'
    <3>1. T \in rewriting[s] /\ todo' = todo /\ rewriting'[s] = rewriting[s] \ {T}
      BY <1>3, <2>6 DEF RewriteSubscription
    <3>2. todo[s] = NoCall /\ rewriting[s] = {kv[s]}
      BY <1>2, <3>1 DEF OneCallAtMost, Idle
    <3> QED
      BY <3>1, <3>2 DEF OneCallAtMost, Idle
  <2>7. ASSUME NEW a \in {"ensure", "drop"}, Ends(s, a), rewriting' = rewriting
        PROVE  OneCallAtMost(s)'
    <3>1. rewriting[s] = {} /\ todo[s] = [NoCall EXCEPT ![a] = 1]
      BY <1>1, <1>2, <2>7, OnlyThatCall DEF Ends
    <3>2. todo'[s] = NoCall
      BY <1>1, <1>3, <2>7, <3>1, RowAfter
    <3> QED
      BY <2>7, <3>1, <3>2 DEF OneCallAtMost, Idle
  <2> QED
    BY <2>1, <2>2, <2>3, <2>4, <2>5, <2>6, <2>7 DEF Api, GoOn, EnsureQueue, DropQueue
<1>5. ASSUME NEW q \in Subs, q # s PROVE OneCallAtMost(q)'
  <2>1. OneCallAtMost(q)
    BY DEF CallsInTurn
  <2>2. kv'[q] = kv[q] /\ todo'[q] = todo[q] /\ rewriting'[q] = rewriting[q]
    BY <1>5, ApiOthers
  <2> QED
    BY <2>1, <2>2 DEF OneCallAtMost, Idle
<1> QED
  BY <1>4, <1>5 DEF CallsInTurn

\* Nothing but the API touches the entries and its calls or takes a promise back.
LEMMA OnlyApi ==
    ASSUME TypeOK, [Next]_vars
    PROVE  \/ \E s \in Subs : Api(s)
           \/ UNCHANGED <<kv, todo, rewriting>> /\ \A s \in Subs : promised[s] \subseteq promised'[s]
<1>1. CASE Server
  BY <1>1 DEF Server, PublishEvent, Deliver, Redeliver, ExpireAckWait, Push, TypeOK
<1>2. CASE Start \/ Crash \/ StartWatch \/ TakeUpdate \/ LoseAcknowledgement
  BY <1>2 DEF Start, Crash, GoDown, StartWatch, TakeUpdate, LoseAcknowledgement
<1>3. CASE LoadMapping
  BY <1>3 DEF LoadMapping, ReadKeys, ReadEntry, ReadEntryFails, ReplaceMapping, GoDown
<1>4. CASE HandleEvent
  <2>1. ASSUME NEW s \in Subs, Send(s)
        PROVE  UNCHANGED promised /\ UNCHANGED <<kv, todo, rewriting>>
    BY <2>1 DEF Send
  <2>2. ASSUME NEW s \in Subs, SendFails(s) PROVE UNCHANGED promised /\ UNCHANGED apiVars
    BY <2>2 DEF SendFails, GoDown
  <2>3. CASE TakeEvent \/ Acknowledge
    <3>1. UNCHANGED apiVars /\ UNCHANGED promised
      BY <2>3 DEF TakeEvent, Acknowledge
    <3> QED
      BY <3>1
  <2> QED
    BY <1>4, <2>1, <2>2, <2>3 DEF HandleEvent
<1>5. CASE UNCHANGED vars
  BY <1>5
<1> QED
  BY <1>1, <1>2, <1>3, <1>4, <1>5 DEF Next

\* A registration that found no entry finds no promise to end, and a write-back states
\* what the entry states.
LEMMA PromisesKept ==
    ASSUME TypeOK, OwedInv, CallsInTurn, NEW s \in Subs, Api(s), NEW q \in Subs
    PROVE  promised[q] \subseteq promised'[q] \/ RemoveSubscription(q) \/ DropQueue(q)
<1>1. OneCallAtMost(s) /\ "store" \in CallSteps
  BY DEF CallsInTurn, CallSteps
<1>2. CASE BeginRegister(s) \/ BeginDelete(s) \/ BeginRewrite(s) \/ EnsureQueue(s)
  BY <1>2 DEF BeginRegister, BeginDelete, BeginRewrite, Begin, EnsureQueue, bucketUnchanged
<1>3. ASSUME NEW T \in SUBSET SubTopics, WriteEntry(s, T), kv[s] \subseteq T
      PROVE  promised[q] \subseteq promised'[q]
  BY <1>3 DEF WriteEntry, TypeOK, OwedInv, OwedAreStated
<1>4. ASSUME NEW T \in SUBSET SubTopics, StoreSubscription(s, T)
      PROVE  promised[q] \subseteq promised'[q]
  <2>1. kv[s] = {}
    BY <1>1, <1>4, OnlyThatCall DEF StoreSubscription, Proceed
  <2> QED
    BY <1>3, <1>4, <2>1 DEF StoreSubscription
<1>5. ASSUME NEW T \in SUBSET SubTopics, RewriteSubscription(s, T)
      PROVE  promised[q] \subseteq promised'[q]
  <2>1. T = kv[s]
    BY <1>1, <1>5 DEF RewriteSubscription, OneCallAtMost, Idle
  <2> QED
    BY <1>3, <1>5, <2>1 DEF RewriteSubscription
<1>6. CASE RemoveSubscription(s)
  BY <1>6 DEF RemoveSubscription, WriteEntry, TypeOK
<1>7. CASE DropQueue(s)
  BY <1>7 DEF DropQueue, TypeOK
<1> QED
  BY <1>2, <1>4, <1>5, <1>6, <1>7 DEF Api, GoOn

\* As long as the calls for one subscription follow one another, only its deletion ends
\* what it is owed: no second registration and no late write-back takes a topic away.
THEOREM OnlyDeletionEndsPromises == ASSUME ~ApiFaults PROVE Spec => DeletionEndsPromises
<1>1. Init => CallsInTurn
  BY DEF Init, CallsInTurn, OneCallAtMost, Idle
<1>2. TypeOK /\ CallsInTurn /\ [Next]_vars => CallsInTurn'
  <2> SUFFICES ASSUME TypeOK, CallsInTurn, [Next]_vars PROVE CallsInTurn'
    OBVIOUS
  <2>1. ASSUME NEW s \in Subs, Api(s) PROVE CallsInTurn'
    BY <2>1, InTurnKept
  <2>2. CASE UNCHANGED <<kv, todo, rewriting>>
    BY <2>2 DEF CallsInTurn, OneCallAtMost, Idle
  <2> QED
    BY <2>1, <2>2, OnlyApi
<1>3. TypeOK /\ OwedInv /\ CallsInTurn /\ [Next]_vars => [KeepsPromises]_vars
  BY OnlyApi, PromisesKept DEF KeepsPromises
<1>4. Init => OwedInv
  BY InitOwed
<1>5. TypeOK /\ OwedInv /\ [Next]_vars => OwedInv'
  BY NextOwed
<1> QED
  BY <1>1, <1>2, <1>3, <1>4, <1>5, TypeCorrect, PTL DEF Spec, DeletionEndsPromises

-----------------------------------------------------------------------------
(* Nothing twice *)

\* As long as nothing was disturbed, the process has one copy of the event that is
\* delivered, and none of any other.
OneCopy ==
    /\ outstanding = 0 => localq = <<>> /\ current = 0
    /\ outstanding # 0 => \/ current = outstanding /\ localq = <<>>
                          \/ current = 0 /\ localq = <<outstanding>>

\* Of the events in the stream, only the one at hand has been sent, to whoever is no
\* target any more.
SentOnlyAtHand ==
    \A s \in Subs : \A i \in DOMAIN queue[s], e \in stream :
        queue[s][i] = e => e = current /\ s \notin targets

OnceInv == ~disturbed => OneCopy /\ SentOnlyAtHand /\ OnceIfUndisturbed

onceVars == <<stream, outstanding, localq, current, targets, queue>>

LEMMA OnceUnchanged == OnceInv /\ UNCHANGED <<onceVars, disturbed>> => OnceInv'
  BY DEF OnceInv, OneCopy, SentOnlyAtHand, OnceIfUndisturbed, onceVars

LEMMA InitOnce == Init => OnceInv
  BY DEF Init, OnceInv, OneCopy, SentOnlyAtHand, OnceIfUndisturbed

\* A new event is in no queue, and what is pushed is what the process lacks.
LEMMA ServerOnce == TypeOK /\ OnceInv /\ Server => OnceInv'
<1> SUFFICES ASSUME TypeOK, OnceInv, Server PROVE OnceInv'
  OBVIOUS
<1>1. ASSUME NEW t \in Topics, PublishEvent(t) PROVE OnceInv'
  <2>1. /\ stream' = stream \cup {Len(published) + 1}
        /\ UNCHANGED <<outstanding, localq, current, targets, queue, disturbed>>
    BY <1>1 DEF PublishEvent
  <2>2. \A s \in Subs : \A i \in DOMAIN queue[s] : queue[s][i] # Len(published) + 1
    <3> SUFFICES ASSUME NEW s \in Subs, NEW i \in DOMAIN queue[s]
                 PROVE  queue[s][i] # Len(published) + 1
      OBVIOUS
    <3>1. queue[s] \in Seq(1..Len(published)) /\ Len(published) \in Nat
      BY DEF TypeOK
    <3> QED
      BY <3>1
  <2> QED
    BY <2>1, <2>2 DEF OnceInv, OneCopy, SentOnlyAtHand, OnceIfUndisturbed
<1>2. ASSUME NEW e \in stream, Deliver(e) PROVE OnceInv'
  <2> SUFFICES ASSUME ~disturbed PROVE OneCopy' /\ SentOnlyAtHand' /\ OnceIfUndisturbed'
    BY <1>2 DEF OnceInv, Deliver
  <2>1. /\ outstanding = 0 /\ outstanding' = e /\ localq' = Append(localq, e)
        /\ UNCHANGED <<stream, current, targets, queue, disturbed>>
    BY <1>2 DEF Deliver, Push
  <2>2. localq = <<>> /\ current = 0 /\ e # 0
    BY <2>1 DEF OnceInv, OneCopy, TypeOK
  <2>3. localq' = <<e>>
    BY <2>1, <2>2
  <2> QED
    BY <2>1, <2>2, <2>3 DEF OnceInv, OneCopy, SentOnlyAtHand, OnceIfUndisturbed
<1>3. CASE Redeliver
  <2>1. outstanding # 0 /\ ~Held(outstanding) /\ UNCHANGED disturbed
    BY <1>3 DEF Redeliver
  <2>2. CASE current = outstanding
    BY <2>1, <2>2 DEF Held
  <2>3. CASE localq = <<outstanding>>
    BY <2>1, <2>3 DEF Held
  <2>4. CASE disturbed
    BY <2>1, <2>4 DEF OnceInv
  <2> QED
    BY <2>1, <2>2, <2>3, <2>4 DEF OnceInv, OneCopy
<1>4. CASE ExpireAckWait
  BY <1>4 DEF ExpireAckWait, OnceInv
<1> QED
  BY <1>1, <1>2, <1>3, <1>4 DEF Server

LEMMA ApiOnce == ASSUME TypeOK, OnceInv, NEW s \in Subs, Api(s) PROVE OnceInv'
<1>1. CASE DropQueue(s)
  <2>1. /\ UNCHANGED <<stream, outstanding, localq, current, targets, disturbed>>
        /\ queue' = [queue EXCEPT ![s] = <<>>]
        /\ queue \in [Subs -> Seq(1..Len(published))]
    BY <1>1, ApiLeaves DEF DropQueue, TypeOK
  <2>2. \A q \in Subs : queue'[q] = <<>> \/ queue'[q] = queue[q]
    BY <2>1
  <2> QED
    BY <2>1, <2>2 DEF OnceInv, OneCopy, SentOnlyAtHand, OnceIfUndisturbed
<1>2. CASE ~DropQueue(s)
  <2>1. UNCHANGED <<onceVars, disturbed>>
    BY <1>2, ApiLeaves DEF onceVars
  <2> QED
    BY <2>1, OnceUnchanged
<1> QED
  BY <1>1, <1>2

LEMMA TakeOnce == ASSUME TypeOK, OnceInv, TakeEvent PROVE OnceInv'
<1> SUFFICES ASSUME ~disturbed PROVE OneCopy' /\ SentOnlyAtHand' /\ OnceIfUndisturbed'
  BY DEF OnceInv, TakeEvent
<1>1. /\ current = 0 /\ localq # <<>> /\ current' = Head(localq) /\ localq' = Tail(localq)
      /\ UNCHANGED <<stream, outstanding, queue, disturbed>>
  BY DEF TakeEvent
<1>2. outstanding # 0 /\ localq = <<outstanding>>
  BY <1>1 DEF OnceInv, OneCopy
<1>3. current' = outstanding /\ localq' = <<>>
  BY <1>1, <1>2
<1>4. 0 \notin stream
  BY DEF TypeOK
<1> QED
  BY <1>1, <1>2, <1>3, <1>4 DEF OnceInv, OneCopy, SentOnlyAtHand, OnceIfUndisturbed

\* A target has not got the event yet.
LEMMA SendOnce == ASSUME TypeOK, OnceInv, NEW s \in Subs, Send(s) PROVE OnceInv'
<1> SUFFICES ASSUME ~disturbed PROVE OneCopy' /\ SentOnlyAtHand' /\ OnceIfUndisturbed'
  BY DEF OnceInv, Send
<1>1. /\ UNCHANGED <<stream, outstanding, localq, current, disturbed>>
      /\ s \in targets /\ targets' = targets \ {s}
      /\ current # 0 /\ current \in 1..Len(published)
      /\ queue[s] \in Seq(1..Len(published))
      /\ queue'[s] = queue[s] \/ queue'[s] = Append(queue[s], current)
      /\ \A q \in Subs : q # s => queue'[q] = queue[q]
  BY DEF Send, TypeOK
<1>2. current \in stream
  BY <1>1 DEF OnceInv, OneCopy, TypeOK
<1>3. \A i \in DOMAIN queue[s] : queue[s][i] # current
  BY <1>1, <1>2 DEF OnceInv, SentOnlyAtHand
<1>4. \A i \in DOMAIN queue'[s] :
          queue'[s][i] = current \/ (i \in DOMAIN queue[s] /\ queue'[s][i] = queue[s][i])
  <2>1. CASE queue'[s] = queue[s]
    BY <2>1
  <2>2. CASE queue'[s] = Append(queue[s], current)
    BY <1>1, <2>2, AppendFacts
  <2> QED
    BY <1>1, <2>1, <2>2
<1>5. OneCopy'
  BY <1>1 DEF OnceInv, OneCopy
<1>6. SentOnlyAtHand'
  BY <1>1, <1>4 DEF OnceInv, SentOnlyAtHand
<1>7. OnceIfUndisturbed'
  <2> SUFFICES ASSUME NEW q \in Subs, NEW i \in DOMAIN queue'[q], NEW j \in DOMAIN queue'[q],
                      queue'[q][i] = queue'[q][j]
               PROVE  i = j
    BY DEF OnceIfUndisturbed
  <2>1. CASE queue'[q] = queue[q]
    BY <2>1 DEF OnceInv, OnceIfUndisturbed
  <2>2. CASE queue'[q] # queue[q]
    <3>1. q = s /\ queue'[q] = Append(queue[q], current)
      BY <1>1, <2>2
    <3>2. /\ DOMAIN queue'[q] = 1..(Len(queue[q]) + 1) /\ DOMAIN queue[q] = 1..Len(queue[q])
          /\ queue'[q][Len(queue[q]) + 1] = current
          /\ \A k \in DOMAIN queue[q] : queue'[q][k] = queue[q][k]
          /\ Len(queue[q]) \in Nat
      BY <1>1, <3>1, AppendFacts
    <3>3. \A k \in DOMAIN queue'[q] : k \in DOMAIN queue[q] \/ k = Len(queue[q]) + 1
      BY <3>2
    <3>4. CASE i \in DOMAIN queue[q] /\ j \in DOMAIN queue[q]
      BY <3>2, <3>4 DEF OnceInv, OnceIfUndisturbed
    <3>5. CASE i \notin DOMAIN queue[q]
      BY <1>3, <3>1, <3>2, <3>3, <3>5
    <3>6. CASE j \notin DOMAIN queue[q]
      BY <1>3, <3>1, <3>2, <3>3, <3>6
    <3> QED
      BY <3>4, <3>5, <3>6
  <2> QED
    BY <2>1, <2>2
<1> QED
  BY <1>5, <1>6, <1>7

LEMMA AcknowledgeOnce == ASSUME TypeOK, OnceInv, Acknowledge PROVE OnceInv'
<1> SUFFICES ASSUME ~disturbed PROVE OneCopy' /\ SentOnlyAtHand' /\ OnceIfUndisturbed'
  BY DEF OnceInv, Acknowledge
<1>1. /\ current # 0 /\ current' = 0 /\ stream' = stream \ {current}
      /\ outstanding' = IF outstanding = current THEN 0 ELSE outstanding
      /\ UNCHANGED <<localq, targets, queue, disturbed>>
  BY DEF Acknowledge
<1>2. outstanding = current /\ localq = <<>>
  BY <1>1 DEF OnceInv, OneCopy
<1> QED
  BY <1>1, <1>2 DEF OnceInv, OneCopy, SentOnlyAtHand, OnceIfUndisturbed

LEMMA NextOnce == TypeOK /\ OnceInv /\ [Next]_vars => OnceInv'
<1> SUFFICES ASSUME TypeOK, OnceInv, [Next]_vars PROVE OnceInv'
  OBVIOUS
<1>1. GoDown => OnceInv'
  BY DEF GoDown, OnceInv
<1>2. ASSUME NEW s \in Subs, Api(s) PROVE OnceInv'
  BY <1>2, ApiOnce
<1>3. CASE Server
  BY <1>3, ServerOnce
<1>4. CASE Crash
  BY <1>1, <1>4 DEF Crash
<1>5. CASE LoadMapping
  <2>1. CASE UNCHANGED <<onceVars, disturbed>>
    BY <2>1, OnceUnchanged
  <2>2. GoDown \/ UNCHANGED <<onceVars, disturbed>>
    BY <1>5 DEF LoadMapping, ReadKeys, ReadEntry, ReadEntryFails, ReplaceMapping, onceVars
  <2> QED
    BY <1>1, <2>1, <2>2
<1>6. CASE Start \/ StartWatch \/ TakeUpdate \/ UNCHANGED vars
  <2>1. UNCHANGED <<onceVars, disturbed>>
    BY <1>6 DEF Start, StartWatch, TakeUpdate, onceVars
  <2> QED
    BY <2>1, OnceUnchanged
<1>7. CASE HandleEvent
  <2>1. ASSUME NEW s \in Subs, SendFails(s) PROVE OnceInv'
    BY <1>1, <2>1 DEF SendFails
  <2> QED
    BY <1>7, <2>1, TakeOnce, SendOnce, AcknowledgeOnce DEF HandleEvent
<1>8. CASE LoseAcknowledgement
  BY <1>8 DEF LoseAcknowledgement, OnceInv
<1> QED
  BY <1>2, <1>3, <1>4, <1>5, <1>6, <1>7, <1>8 DEF Next

\* As long as no delivery had to be repeated and the process did not go down, no
\* subscription has an event twice, whatever becomes of mapping and subscriptions.
THEOREM UndisturbedOnce == Spec => []OnceIfUndisturbed
<1>1. Init => OnceInv
  BY InitOnce
<1>2. TypeOK /\ OnceInv /\ [Next]_vars => OnceInv'
  BY NextOnce
<1>3. OnceInv => OnceIfUndisturbed
  BY DEF OnceInv, OnceIfUndisturbed
<1> QED
  BY <1>1, <1>2, <1>3, TypeCorrect, PTL DEF Spec

-----------------------------------------------------------------------------
(* The dispatcher implements SequentialForwarding *)

\* Events are completed one after the other: those up to d are gone from the stream,
\* and what the process holds is the last of them or the first that is left.
InHand(e) == e # 0 /\ (e = current \/ \E i \in DOMAIN localq : localq[i] = e)

CompletedUpTo(d) ==
    /\ stream = (d + 1)..Len(published)
    /\ \A e \in Nat : InHand(e) => e \in {d, d + 1}

SuffixInv == \E d \in 0..Len(published) : CompletedUpTo(d)

LEMMA CompletedIs ==
    ASSUME TypeOK, NEW d \in 0..Len(published), CompletedUpTo(d)
    PROVE  Completed = d
<1>1. Len(published) \in Nat /\ d \in Nat /\ d <= Len(published)
  BY DEF TypeOK
<1>2. CASE stream = {}
  BY <1>1, <1>2 DEF Completed, CompletedUpTo
<1>3. CASE stream # {}
  <2>1. d + 1 \in stream /\ \A f \in stream : d + 1 <= f /\ f \in Nat
    BY <1>1, <1>3 DEF CompletedUpTo
  <2>2. \A e : IsOldest(e) <=> e = d + 1
    BY <1>1, <2>1 DEF IsOldest
  <2>3. (CHOOSE e \in stream : IsOldest(e)) = d + 1
    BY <2>1, <2>2
  <2>4. Completed = (d + 1) - 1
    BY <1>3, <2>3, Zenon DEF Completed
  <2> QED
    BY <1>1, <2>4
<1> QED
  BY <1>2, <1>3

LEMMA InitSuffix == Init => CompletedUpTo(0) /\ SuffixInv
<1> SUFFICES ASSUME Init PROVE CompletedUpTo(0) /\ SuffixInv
  OBVIOUS
<1>1. published = <<>> /\ stream = {} /\ localq = <<>> /\ current = 0
  BY DEF Init
<1>2. Len(published) = 0
  BY <1>1
<1>3. CompletedUpTo(0)
  BY <1>1, <1>2 DEF CompletedUpTo, InHand
<1> QED
  BY <1>2, <1>3 DEF SuffixInv

\* The process gets hold of nothing but the first event left, or holds less.
LEMMA HoldsLess ==
    ASSUME NEW d \in 0..Len(published), CompletedUpTo(d), UNCHANGED <<published, stream>>,
           \A e \in Nat : InHand(e)' => InHand(e) \/ e = d + 1
    PROVE  CompletedUpTo(d)'
  BY DEF CompletedUpTo

LEMMA PushSuffix ==
    ASSUME TypeOK, NEW d \in 0..Len(published), CompletedUpTo(d), NEW e \in stream, IsOldest(e),
           Push(e)
    PROVE  CompletedUpTo(d)'
<1>1. UNCHANGED <<published, stream, current>> /\ localq' = Append(localq, e)
  BY DEF Push
<1>2. e = d + 1
  <2>1. Len(published) \in Nat /\ d + 1 <= e /\ e <= Len(published) /\ e \in Nat
    BY DEF TypeOK, CompletedUpTo
  <2>2. d + 1 \in stream
    BY <2>1 DEF CompletedUpTo
  <2> QED
    BY <2>1, <2>2 DEF IsOldest
<1>3. \A i \in DOMAIN localq' : localq'[i] = e \/ (i \in DOMAIN localq /\ localq'[i] = localq[i])
  <2>1. e \in 1..Len(published) /\ localq \in Seq(1..Len(published))
    BY DEF TypeOK
  <2> QED
    BY <1>1, <2>1, AppendFacts
<1>4. \A f \in Nat : InHand(f)' => InHand(f) \/ f = d + 1
  BY <1>1, <1>2, <1>3 DEF InHand
<1> QED
  BY <1>1, <1>4, HoldsLess

\* The process takes its first copy; no event gets into its hands.
LEMMA TakeSuffix ==
    ASSUME TypeOK, NEW d \in 0..Len(published), CompletedUpTo(d), TakeEvent
    PROVE  CompletedUpTo(d)'
<1>1. /\ UNCHANGED <<published, stream>> /\ current' = localq[1] /\ 1 \in DOMAIN localq
      /\ \A i \in DOMAIN localq' : i + 1 \in DOMAIN localq /\ localq'[i] = localq[i + 1]
  BY TailFacts DEF TakeEvent, TypeOK
<1>2. \A f \in Nat : InHand(f)' => InHand(f)
  BY <1>1 DEF InHand
<1> QED
  BY <1>1, <1>2, HoldsLess

\* The acknowledged event is the first one left, or it was gone before.
LEMMA AcknowledgeSuffix ==
    ASSUME TypeOK, OrderInv, NEW d \in 0..Len(published), CompletedUpTo(d), Acknowledge
    PROVE  \/ CompletedUpTo(d)'
           \/ d + 1 \in 0..Len(published) /\ CompletedUpTo(d + 1)'
<1>1. /\ current # 0 /\ current' = 0 /\ stream' = stream \ {current}
      /\ UNCHANGED <<published, localq>>
      /\ Len(published) \in Nat /\ d \in Nat /\ current \in Nat
  BY DEF Acknowledge, TypeOK
<1>2. current \in {d, d + 1}
  BY <1>1 DEF CompletedUpTo, InHand
<1>3. \A e \in Nat : InHand(e)' => InHand(e) /\ current <= e
  BY <1>1 DEF InHand, OrderInv, CurrentIsFirst
<1>4. CASE current \notin stream
  <2>1. stream' = stream
    BY <1>1, <1>4
  <2> QED
    BY <1>1, <1>3, <2>1, HoldsLess
<1>5. CASE current \in stream
  <2>1. current = d + 1 /\ d + 1 <= Len(published)
    BY <1>1, <1>2, <1>5 DEF CompletedUpTo
  <2>2. stream' = (d + 1 + 1)..Len(published)
    BY <1>1, <2>1 DEF CompletedUpTo
  <2>3. \A e \in Nat : InHand(e)' => e = d + 1
    BY <1>1, <1>3, <2>1 DEF CompletedUpTo
  <2> QED
    BY <1>1, <2>1, <2>2, <2>3 DEF CompletedUpTo
<1> QED
  BY <1>4, <1>5

LEMMA PublishSuffix ==
    ASSUME TypeOK, NEW d \in 0..Len(published), CompletedUpTo(d), NEW t \in Topics, PublishEvent(t)
    PROVE  CompletedUpTo(d)'
<1>1. /\ stream' = stream \cup {Len(published) + 1} /\ Len(published') = Len(published) + 1
      /\ UNCHANGED <<localq, current>> /\ Len(published) \in Nat
  BY DEF PublishEvent, TypeOK
<1>2. stream' = (d + 1)..(Len(published) + 1)
  BY <1>1 DEF CompletedUpTo
<1> QED
  BY <1>1, <1>2 DEF CompletedUpTo, InHand

suffixVars == <<published, stream, queue>>

\* How the steps of the dispatcher appear in SequentialForwarding: events are
\* published and completed in turn, what is sent is at hand, a queue is discarded
\* with its subscription, and all else leaves the abstract state alone.
AbstractStep(d) ==
    \/ \E t \in Topics : PublishEvent(t) /\ CompletedUpTo(d)'
    \/ Acknowledge /\ CompletedUpTo(d + 1)' /\ d + 1 \in 0..Len(published)
    \/ \E s \in Subs : (Send(s) \/ DropQueue(s)) /\ CompletedUpTo(d)'
    \/ UNCHANGED suffixVars /\ CompletedUpTo(d)'

LEMMA NextSuffix ==
    ASSUME TypeOK, OrderInv, [Next]_vars, NEW d \in 0..Len(published), CompletedUpTo(d)
    PROVE  AbstractStep(d)
<1>1. ASSUME UNCHANGED suffixVars, \A e \in Nat : InHand(e)' => InHand(e)
      PROVE  AbstractStep(d)
  BY <1>1, HoldsLess DEF AbstractStep, suffixVars
<1>2. ASSUME GoDown PROVE AbstractStep(d)
  <2>1. \A e \in Nat : ~InHand(e)'
    BY <1>2 DEF GoDown, InHand
  <2> QED
    BY <1>1, <1>2, <2>1 DEF GoDown, suffixVars
<1>3. ASSUME UNCHANGED <<published, stream, localq, current>> PROVE CompletedUpTo(d)'
  BY <1>3 DEF CompletedUpTo, InHand
<1>4. ASSUME NEW s \in Subs, Api(s) PROVE AbstractStep(d)
  <2>1. CASE DropQueue(s)
    BY <1>3, <1>4, <2>1, ApiLeaves DEF AbstractStep
  <2>2. CASE ~DropQueue(s)
    <3>1. UNCHANGED <<suffixVars, localq, current>>
      BY <1>4, <2>2, ApiLeaves DEF suffixVars
    <3> QED
      BY <1>3, <3>1 DEF AbstractStep, suffixVars
  <2> QED
    BY <2>1, <2>2
<1>5. CASE Server
  <2>1. ASSUME NEW t \in Topics, PublishEvent(t) PROVE AbstractStep(d)
    BY <2>1, PublishSuffix DEF AbstractStep
  <2>2. ASSUME NEW e \in stream, IsOldest(e), Push(e), queue' = queue PROVE AbstractStep(d)
    BY <2>2, PushSuffix DEF AbstractStep, Push, suffixVars
  <2>3. outstanding # 0 => outstanding \in stream /\ IsOldest(outstanding)
    BY DEF TypeOK, OrderInv, OutstandingIsOldest, IsOldest
  <2>4. ASSUME Redeliver \/ ExpireAckWait PROVE AbstractStep(d)
    BY <2>2, <2>3, <2>4 DEF Redeliver, ExpireAckWait, Push
  <2>5. ASSUME NEW e \in stream, Deliver(e) PROVE AbstractStep(d)
    BY <2>2, <2>5 DEF Deliver, Push
  <2> QED
    BY <1>5, <2>1, <2>4, <2>5 DEF Server
<1>6. CASE Crash
  BY <1>2, <1>6 DEF Crash
<1>7. CASE LoadMapping
  <2>1. GoDown \/ UNCHANGED <<suffixVars, localq, current>>
    BY <1>7 DEF LoadMapping, ReadKeys, ReadEntry, ReadEntryFails, ReplaceMapping, suffixVars
  <2> QED
    BY <1>2, <1>3, <2>1 DEF AbstractStep, suffixVars
<1>8. CASE Start \/ StartWatch \/ TakeUpdate \/ UNCHANGED vars
  <2>1. UNCHANGED <<suffixVars, localq, current>>
    BY <1>8 DEF Start, StartWatch, TakeUpdate, suffixVars
  <2> QED
    BY <1>3, <2>1 DEF AbstractStep, suffixVars
<1>9. CASE HandleEvent
  <2>1. CASE TakeEvent
    BY <2>1, TakeSuffix DEF AbstractStep, TakeEvent, suffixVars
  <2>2. ASSUME NEW s \in Subs, Send(s) PROVE AbstractStep(d)
    BY <1>3, <2>2 DEF Send, AbstractStep
  <2>3. ASSUME NEW s \in Subs, SendFails(s) PROVE AbstractStep(d)
    BY <1>2, <2>3 DEF SendFails
  <2>4. CASE Acknowledge
    <3>1. CASE CompletedUpTo(d)'
      <4>1. stream' = stream
        BY <2>4, <3>1 DEF Acknowledge, CompletedUpTo
      <4> QED
        BY <2>4, <3>1, <4>1 DEF Acknowledge, AbstractStep, suffixVars
    <3> QED
      BY <2>4, <3>1, AcknowledgeSuffix DEF AbstractStep
  <2> QED
    BY <1>9, <2>1, <2>2, <2>3, <2>4 DEF HandleEvent
<1>10. CASE LoseAcknowledgement
  <2>1. /\ UNCHANGED suffixVars
        /\ \A e \in Nat : InHand(e)' => InHand(e)
    BY <1>10 DEF LoseAcknowledgement, suffixVars, InHand
  <2> QED
    BY <1>1, <2>1
<1> QED
  BY <1>4, <1>5, <1>6, <1>7, <1>8, <1>9, <1>10 DEF Next

LEMMA SuffixKept == TypeOK /\ OrderInv /\ SuffixInv /\ [Next]_vars => SuffixInv'
<1> SUFFICES ASSUME TypeOK, OrderInv, SuffixInv, [Next]_vars PROVE SuffixInv'
  OBVIOUS
<1>1. PICK d \in 0..Len(published) : CompletedUpTo(d)
  BY DEF SuffixInv
<1>2. AbstractStep(d)
  BY <1>1, NextSuffix
<1>3. Len(published) \in Nat /\ Len(published') \in Nat /\ Len(published) <= Len(published')
  BY <1>2
  DEF AbstractStep, PublishEvent, Acknowledge, Send, DropQueue, restUnchanged, suffixVars, TypeOK
<1>4. d \in 0..Len(published') /\ (d + 1 \in 0..Len(published) => d + 1 \in 0..Len(published'))
  BY <1>1, <1>3
<1> QED
  BY <1>2, <1>4 DEF AbstractStep, SuffixInv

LEMMA StepForwards ==
    TypeOK /\ TypeOK' /\ OrderInv /\ SuffixInv /\ [Next]_vars => [Abstract!Next]_Abstract!vars
<1> SUFFICES ASSUME TypeOK, TypeOK', OrderInv, SuffixInv, [Next]_vars
             PROVE  [Abstract!Next]_Abstract!vars
  OBVIOUS
<1>1. PICK d \in 0..Len(published) : CompletedUpTo(d)
  BY DEF SuffixInv
<1>2. Completed = d /\ Len(published) \in Nat /\ d \in Nat
  BY <1>1, CompletedIs DEF TypeOK
<1>3. ASSUME NEW x \in 0..Len(published'), CompletedUpTo(x)' PROVE Completed' = x
  <2>1. Len(published') \in Nat /\ x \in Nat /\ x <= Len(published')
    BY DEF TypeOK
  <2>2. CASE stream' = {}
    BY <1>3, <2>1, <2>2 DEF Completed, CompletedUpTo
  <2>3. CASE stream' # {}
    <3>1. x + 1 \in stream' /\ \A f \in stream' : x + 1 <= f /\ f \in Nat
      BY <1>3, <2>1, <2>3 DEF CompletedUpTo
    <3>2. \A e : IsOldest(e)' <=> e = x + 1
      BY <2>1, <3>1 DEF IsOldest
    <3>3. (CHOOSE e \in stream' : IsOldest(e)') = x + 1
      BY <3>1, <3>2
    <3>4. Completed' = (x + 1) - 1
      BY <2>3, <3>3, Zenon DEF Completed
    <3> QED
      BY <2>1, <3>4
  <2> QED
    BY <2>2, <2>3
<1>4. AbstractStep(d)
  BY <1>1, NextSuffix
<1>5. ASSUME UNCHANGED suffixVars, CompletedUpTo(d)' PROVE UNCHANGED Abstract!vars
  BY <1>1, <1>2, <1>3, <1>5 DEF suffixVars, Abstract!vars
<1>6. ASSUME NEW t \in Topics, PublishEvent(t), CompletedUpTo(d)' PROVE Abstract!Publish(t)
  <2>1. d \in 0..Len(published')
    BY <1>1, <1>6 DEF PublishEvent, TypeOK
  <2> QED
    BY <1>2, <1>3, <1>6, <2>1 DEF PublishEvent, Abstract!Publish
<1>7. ASSUME Acknowledge, CompletedUpTo(d + 1)', d + 1 \in 0..Len(published)
      PROVE  Abstract!Complete
  <2>1. published' = published /\ queue' = queue /\ d < Len(published)
    BY <1>2, <1>7 DEF Acknowledge
  <2> QED
    BY <1>2, <1>3, <1>7, <2>1 DEF Abstract!Complete
<1>8. ASSUME NEW s \in Subs, DropQueue(s), CompletedUpTo(d)' PROVE Abstract!Discard(s)
  BY <1>1, <1>2, <1>3, <1>8 DEF DropQueue, restUnchanged, Abstract!Discard
<1>9. ASSUME NEW s \in Subs, Send(s), CompletedUpTo(d)', queue' # queue
      PROVE  current \in 1..Len(published) /\ Abstract!Forward(s, current)
  <2>1. /\ current \in 1..Len(published) /\ published' = published
        /\ queue' = [queue EXCEPT ![s] = Append(@, current)]
    <3>1. current \in 1..Len(published) /\ published' = published
      BY <1>9 DEF Send, TypeOK
    <3>2. CASE Repeated(s, current)
      <4>1. queue' = [queue EXCEPT ![s] = queue[s]]
        BY <1>9, <3>2 DEF Send
      <4> QED
        BY <1>9, <4>1 DEF TypeOK
    <3>3. CASE ~Repeated(s, current)
      BY <1>9, <3>1, <3>3 DEF Send
    <3> QED
      BY <3>1, <3>2, <3>3
  <2>2. current \in {d, d + 1}
    BY <1>1, <2>1 DEF CompletedUpTo, InHand
  <2>3. \A i \in DOMAIN queue[s] : queue[s][i] <= current
    BY <2>1 DEF OrderInv, QueuesBehind, QueuesUpTo
  <2>4. Completed' = Completed
    BY <1>1, <1>2, <1>3, <1>9, <2>1
  <2> QED
    BY <1>2, <2>1, <2>2, <2>3, <2>4 DEF Abstract!Forward
<1>10. ASSUME NEW s \in Subs, Send(s), queue' = queue PROVE UNCHANGED suffixVars
  BY <1>10 DEF Send, suffixVars
<1> QED
  BY <1>4, <1>5, <1>6, <1>7, <1>8, <1>9, <1>10 DEF AbstractStep, Abstract!Next

\* The dispatcher implements SequentialForwarding: events are completed one after the
\* other, and what reaches a subscription's stream is the first uncompleted event or
\* a repetition of the last completed one, through all crashes and redeliveries.
THEOREM DispatcherForwards == Spec => ForwardsSequentially
<1>1. Init => Abstract!Init
  <2> SUFFICES ASSUME Init PROVE Abstract!Init
    OBVIOUS
  <2>1. Completed = 0
    BY DEF Init, Completed
  <2> QED
    BY <2>1 DEF Init, Abstract!Init
<1>2. Init => SuffixInv
  BY InitSuffix
<1>3. Init => OrderInv
  BY InitOrder
<1>4. TypeOK /\ OrderInv /\ [Next]_vars => OrderInv'
  BY NextOrder
<1>5. TypeOK /\ OrderInv /\ SuffixInv /\ [Next]_vars => SuffixInv'
  BY SuffixKept
<1>6. TypeOK /\ TypeOK' /\ OrderInv /\ SuffixInv /\ [Next]_vars => [Abstract!Next]_Abstract!vars
  BY StepForwards
<1> QED
  BY <1>1, <1>2, <1>3, <1>4, <1>5, <1>6, TypeCorrect, PTL
     DEF Spec, ForwardsSequentially, Abstract!Spec

=============================================================================
