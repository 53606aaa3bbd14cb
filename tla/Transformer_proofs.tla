-------------------------- MODULE Transformer_proofs --------------------------
(***************************************************************************)
(* Proofs about Transformer, for any objects and bounds: types, what the   *)
(* events tell of their changes, that no change is acknowledged without    *)
(* its event, and that the transformer forwards sequentially.              *)
(***************************************************************************)
EXTENDS Transformer, SequenceTheorems, TLAPS

USE DEF transformerVars, vars, ldapUnchanged

-----------------------------------------------------------------------------
(* What the properties rest on *)

\* The changes of one object in the stream: after it was made it is known to
\* the listener, before it is changed again it is there, and a removal is the end.
ChangesInv ==
    /\ \A n \in DOMAIN changes :
         /\ present[changes[n].obj] # "never"
         /\ changes[n].new \/ present[changes[n].obj] = "gone"
    /\ \A m, n \in DOMAIN changes : m < n /\ changes[m].obj = changes[n].obj =>
         changes[m].new /\ changes[n].old

\* c is the last change up to number k that left the object o there, 0 if there is none.
IsLast(c, o, k) ==
    /\ c \in 0..k
    /\ c # 0 => changes[c].obj = o /\ changes[c].new
    /\ \A m \in 1..k : changes[m].obj = o /\ changes[m].new => m <= c

\* The cache holds every supported object as the last handled change left it, or,
\* only in the attempt that has stored it or after something failed, as the change
\* at hand leaves it.
CacheInv ==
    \A o \in Objects \ Unsupported :
        \/ IsLast(cache[o], o, handled)
        \/ /\ handled < Len(changes) /\ cache[o] = number
           /\ change.obj = o /\ change.new
           /\ tpc \in {"send", "ack"} \/ faults > 0

\* The object before the change at hand: that of the earlier change, or, once
\* something failed, what an earlier attempt has stored.
OldIs(o) == o = Before(number) \/ (faults > 0 /\ change.new /\ o = number)

HasEvent(n) == \E i \in DOMAIN events : events[i].change = n

\* What the transformer has in its hands belongs to the change at hand.
HandsInv ==
    tpc \notin {"down", "idle"} /\ Supported(number) =>
        /\ tpc = "retrieve" => change.old
        /\ tpc # "retrieve" => OldIs(old)
        /\ tpc = "store" => change.new /\ new = number
        /\ tpc \in {"send", "ack"} => new = After(number)
        /\ tpc \in {"send", "ack"} /\ change.new => cache[change.obj] = number
        /\ tpc = "ack" => HasEvent(number) \/ (After(number) = 0 /\ Before(number) = 0)

\* No event is ahead of the change at hand.
EventsInv ==
    \A i \in DOMAIN events : events[i].change <= number /\ events[i].change <= Len(changes)

IInv == ChangesInv /\ CacheInv /\ HandsInv /\ EventsInv /\ EventTellsItsChange /\ HandledIsPublished

-----------------------------------------------------------------------------
(* Type correctness *)

\* With the types: the cache is not ahead, and what is stored is an object.
TypeInv ==
    /\ TypeOK
    /\ \A o \in Objects : cache[o] <= number
    /\ tpc = "store" => new # 0

\* A change at the end leaves the earlier ones as they are.
LEMMA AppendFacts ==
    ASSUME NEW S, NEW q \in Seq(S), NEW e \in S
    PROVE  /\ Append(q, e) \in Seq(S)
           /\ Len(Append(q, e)) = Len(q) + 1
           /\ DOMAIN q = 1..Len(q)
           /\ DOMAIN Append(q, e) = 1..(Len(q) + 1)
           /\ Append(q, e)[Len(q) + 1] = e
           /\ \A i \in 1..Len(q) : Append(q, e)[i] = q[i]
  OBVIOUS

LEMMA InitType == Init => TypeInv
<1> SUFFICES ASSUME Init PROVE TypeInv
  OBVIOUS
<1>1. changes \in Seq(ChangeRecord) /\ events \in Seq(Event) /\ Len(changes) = 0
  BY DEF Init
<1> QED
  BY <1>1, BoundsAssumption DEF Init, TypeInv, TypeOK, number

LEMMA PublishType ==
    ASSUME TypeInv, NEW o \in Objects, NEW before \in BOOLEAN, NEW after \in BOOLEAN,
           Publish(o, before, after)
    PROVE  TypeInv'
<1> USE DEF TypeInv
<1>1. [obj |-> o, old |-> before, new |-> after] \in ChangeRecord
  BY DEF ChangeRecord
<1>2. changes' \in Seq(ChangeRecord) /\ Len(changes') = Len(changes) + 1 /\ Len(changes) \in Nat
  BY <1>1 DEF TypeOK, Publish
<1>3. Len(changes') <= MaxChanges
  BY <1>2, BoundsAssumption DEF Publish
<1>4. cache' \in [Objects -> 0..Len(changes')]
  BY <1>2 DEF TypeOK, Publish
<1>5. present' \in [Objects -> {"never", "present", "gone"}]
  BY DEF TypeOK, Publish
<1>6. TypeOK'
  BY <1>2, <1>3, <1>4, <1>5 DEF TypeOK, Publish
<1> QED
  BY <1>6 DEF Publish, number

LEMMA ListenerType == TypeInv /\ Listener => TypeInv'
  BY PublishType DEF Listener, Create, Modify, Remove

\* The change at hand is in the stream.
LEMMA AtHand ==
    ASSUME TypeOK, handled < Len(changes)
    PROVE  /\ number \in 1..Len(changes) /\ number \in 1..MaxChanges /\ number \in Nat
           /\ change \in ChangeRecord /\ change.obj \in Objects
           /\ change.old \in BOOLEAN /\ change.new \in BOOLEAN
<1>1. handled \in Nat /\ Len(changes) \in Nat /\ Len(changes) <= MaxChanges
  BY DEF TypeOK
<1>2. number \in 1..Len(changes) /\ number \in 1..MaxChanges /\ number \in Nat
  BY <1>1, BoundsAssumption DEF number
<1>3. change \in ChangeRecord
  BY <1>2 DEF TypeOK, change
<1> QED
  BY <1>2, <1>3 DEF ChangeRecord

LEMMA ObjectOfChange == TypeOK => \A n \in DOMAIN changes : changes[n].obj \in Objects
<1> SUFFICES ASSUME TypeOK, NEW n \in DOMAIN changes PROVE changes[n].obj \in Objects
  OBVIOUS
<1>1. changes[n] \in ChangeRecord
  BY DEF TypeOK
<1> QED
  BY <1>1 DEF ChangeRecord

LEMMA EventOfChange == TypeOK => \A i \in DOMAIN events : events[i].change \in 1..MaxChanges
<1> SUFFICES ASSUME TypeOK, NEW i \in DOMAIN events PROVE events[i].change \in 1..MaxChanges
  OBVIOUS
<1>1. events[i] \in Event
  BY DEF TypeOK
<1> QED
  BY <1>1 DEF Event

\* The event of the change at hand is one.
LEMMA EventType ==
    ASSUME TypeOK, handled < Len(changes)
    PROVE  event \in Event /\ Append(events, event) \in Seq(Event)
<1>1. number \in 1..MaxChanges /\ old \in 0..MaxChanges /\ new \in 0..MaxChanges
  BY AtHand, BoundsAssumption DEF TypeOK, number
<1>2. event \in Event
  BY <1>1 DEF event, Event
<1> QED
  BY <1>2 DEF TypeOK

LEMMA WorkerType == TypeInv /\ Worker => TypeInv'
<1> SUFFICES ASSUME TypeInv, Worker PROVE TypeInv'
  OBVIOUS
<1> USE DEF TypeInv
<1>1. CASE Start
  BY <1>1 DEF TypeOK, Start, number
<1>2. CASE TakeChange
  BY <1>2 DEF TypeOK, TakeChange, number
<1>3. CASE Retrieve
  <2>1. change.obj \in Objects /\ handled < Len(changes)
    BY <1>3, AtHand DEF Retrieve, TypeOK
  <2>2. cache[change.obj] \in 0..(handled + 1)
    BY <2>1 DEF TypeOK, number
  <2> QED
    BY <1>3, <2>1, <2>2 DEF TypeOK, Retrieve, Cached, number
<1>4. CASE Transform
  BY <1>4 DEF TypeOK, Transform, SendOrAck, number
<1>5. CASE Store
  <2>1. change.obj \in Objects /\ handled < Len(changes)
    BY <1>5, AtHand DEF Store, TypeOK
  <2>2. new \in 0..Len(changes) /\ new <= number
    BY <2>1 DEF TypeOK, number
  <2>3. cache' \in [Objects -> 0..Len(changes)] /\ \A o \in Objects : cache'[o] <= number
    BY <1>5, <2>1, <2>2 DEF TypeOK, Store
  <2> QED
    BY <1>5, <2>3 DEF TypeOK, Store, number
<1>6. CASE SendEvent
  BY <1>6, EventType DEF TypeOK, SendEvent, number
<1>7. CASE AckChange
  <2>1. handled' = handled + 1 /\ handled < Len(changes) /\ handled \in Nat
    BY <1>7 DEF TypeOK, AckChange, number
  <2>2. \A o \in Objects : cache'[o] <= number'
    BY <1>7, <2>1 DEF TypeOK, AckChange, number
  <2> QED
    BY <1>7, <2>1, <2>2 DEF TypeOK, AckChange
<1> QED
  BY <1>1, <1>2, <1>3, <1>4, <1>5, <1>6, <1>7 DEF Worker

\* A fault counts, within the bound.
LEMMA FaultFacts == TypeOK /\ Fault => faults' \in 0..MaxFaults /\ faults' > 0
  BY BoundsAssumption DEF TypeOK, Fault

LEMMA NextType == TypeInv /\ [Next]_vars => TypeInv'
<1> SUFFICES ASSUME TypeInv, [Next]_vars PROVE TypeInv'
  OBVIOUS
<1>1. CASE Listener
  BY <1>1, ListenerType
<1>2. CASE Worker
  BY <1>2, WorkerType
<1> USE DEF TypeInv
<1>3. ASSUME NEW o \in Objects, LoseChange(o) PROVE TypeInv'
  <2>1. present' \in [Objects -> {"never", "present", "gone"}]
    BY <1>3 DEF TypeOK, LoseChange
  <2> QED
    BY <1>3, <2>1, FaultFacts DEF TypeOK, LoseChange, number
<1>4. CASE Fail
  BY <1>4, FaultFacts DEF TypeOK, Fail, number
<1>5. CASE LoseResponse
  BY <1>5, EventType, FaultFacts DEF TypeOK, LoseResponse, number
<1>6. CASE LoseAck
  BY <1>6, FaultFacts DEF TypeOK, LoseAck, number
<1>7. CASE UNCHANGED vars
  BY <1>7 DEF TypeOK, number
<1> QED
  BY <1>1, <1>2, <1>3, <1>4, <1>5, <1>6, <1>7 DEF Next

LEMMA AlwaysType == Spec => []TypeInv
  BY InitType, NextType, PTL DEF Spec

\* Every variable keeps its type: what the cache holds is never ahead of the
\* change at hand, and an event is sent only if it has something to tell.
THEOREM TypeCorrect == Spec => []TypeOK
<1>1. TypeInv => TypeOK
  BY DEF TypeInv
<1> QED
  BY <1>1, AlwaysType, PTL

-----------------------------------------------------------------------------
(* What is known of earlier changes stays *)

\* The change before is the only one that is the last of the earlier ones.
LEMMA BeforeIs ==
    ASSUME NEW n \in Nat, NEW b,
           \/ b = 0 /\ Earlier(n) = {}
           \/ b \in Earlier(n) /\ \A k \in Earlier(n) : k <= b
    PROVE  Before(n) = b
<1>1. CASE Earlier(n) = {}
  BY <1>1 DEF Before
<1>2. CASE b \in Earlier(n) /\ \A k \in Earlier(n) : k <= b
  <2>1. Earlier(n) \subseteq Nat
    BY DEF Earlier
  <2>2. \A m \in Earlier(n) : (\A k \in Earlier(n) : k <= m) => m = b
    BY <1>2, <2>1
  <2> QED
    BY <1>2, <2>2 DEF Before
<1> QED
  BY <1>1, <1>2

\* What is said of a change depends on the stream alone, ...
LEMMA SameChanges ==
    ASSUME NEW n, UNCHANGED changes
    PROVE  /\ Before(n)' = Before(n) /\ After(n)' = After(n)
           /\ Supported(n)' <=> Supported(n)
  BY DEF Before, Earlier, After, Supported

\* ... and a further change does not touch it.
LEMMA FurtherChange ==
    ASSUME TypeOK, NEW c \in ChangeRecord, changes' = Append(changes, c),
           NEW n \in 1..Len(changes)
    PROVE  /\ Before(n)' = Before(n) /\ After(n)' = After(n)
           /\ Supported(n)' <=> Supported(n)
<1>1. \A m \in 1..Len(changes) : changes'[m] = changes[m]
  BY AppendFacts DEF TypeOK
<1>2. Earlier(n)' = Earlier(n)
  BY <1>1 DEF Earlier, TypeOK
<1> QED
  BY <1>1, <1>2 DEF Before, After, Supported

\* The cache holds the object before the change at hand.
LEMMA CachedIsBefore ==
    ASSUME TypeOK, ChangesInv, handled < Len(changes), IsLast(cache[change.obj], change.obj, handled)
    PROVE  Before(number) = cache[change.obj]
<1> DEFINE c == cache[change.obj]
<1>1. number \in 1..Len(changes) /\ number \in Nat /\ handled \in Nat /\ number = handled + 1
  BY AtHand DEF number, TypeOK
<1>2. Earlier(number) = {m \in 1..handled : changes[m].obj = change.obj}
  BY <1>1 DEF Earlier, change
<1>3. DOMAIN changes = 1..Len(changes)
  BY DEF TypeOK
<1>4. \A m \in Earlier(number) : changes[m].new
  BY <1>1, <1>2, <1>3 DEF ChangesInv, change
<1>5. \A m \in Earlier(number) : m <= c
  BY <1>2, <1>4 DEF IsLast
<1>6. CASE c = 0
  <2>1. Earlier(number) = {}
    BY <1>2, <1>5, <1>6
  <2> QED
    BY <1>1, <1>6, <2>1, BeforeIs
<1>7. CASE c # 0
  <2>1. c \in Earlier(number)
    BY <1>2, <1>7 DEF IsLast
  <2> QED
    BY <1>1, <1>5, <2>1, BeforeIs
<1> QED
  BY <1>6, <1>7

\* The first change of an object has none before it.
LEMMA FirstHasNoneBefore ==
    ASSUME TypeOK, ChangesInv, handled < Len(changes), ~change.old
    PROVE  Before(number) = 0
<1>1. number \in 1..Len(changes) /\ number \in Nat /\ DOMAIN changes = 1..Len(changes)
  BY AtHand DEF TypeOK
<1>2. Earlier(number) = {}
  BY <1>1 DEF Earlier, ChangesInv, change
<1> QED
  BY <1>1, <1>2, BeforeIs

-----------------------------------------------------------------------------
(* The invariant holds at first, and through every change of the listener *)

LEMMA InitInv == Init => IInv
<1> SUFFICES ASSUME Init PROVE IInv
  OBVIOUS
<1>1. DOMAIN changes = {} /\ DOMAIN events = {} /\ 1..handled = {} /\ Len(changes) = 0
  BY DEF Init
<1>2. CacheInv
  BY <1>1 DEF Init, CacheInv, IsLast
<1> QED
  BY <1>1, <1>2 DEF Init, IInv, ChangesInv, HandsInv, EventsInv, EventTellsItsChange,
                    HandledIsPublished, change

\* A change is published for an object that was not removed, and that is new or
\* known to be there.
LEMMA PublishChanges ==
    ASSUME TypeInv, ChangesInv, NEW o \in Objects, NEW before \in BOOLEAN, NEW after \in BOOLEAN,
           Publish(o, before, after),
           present[o] = IF before THEN "present" ELSE "never", before \/ after
    PROVE  ChangesInv'
<1> DEFINE c == [obj |-> o, old |-> before, new |-> after]
           last == Len(changes) + 1
<1>1. c \in ChangeRecord
  BY DEF ChangeRecord
<1>2. /\ DOMAIN changes = 1..Len(changes) /\ DOMAIN changes' = 1..last /\ Len(changes) \in Nat
      /\ changes'[last] = c /\ \A m \in 1..Len(changes) : changes'[m] = changes[m]
  BY <1>1, AppendFacts DEF TypeInv, TypeOK, Publish
<1>3. /\ present'[o] = IF after THEN "present" ELSE "gone"
      /\ \A p \in Objects \ {o} : present'[p] = present[p]
  BY DEF TypeInv, TypeOK, Publish
<1>4. \A m \in 1..Len(changes) : changes[m].obj \in Objects
  BY <1>2, ObjectOfChange DEF TypeInv
<1>5. \A m \in 1..Len(changes) : changes[m].obj = o => before /\ changes[m].new
  BY <1>2 DEF ChangesInv
<1>6. ASSUME NEW n \in 1..last
      PROVE  /\ present'[changes'[n].obj] # "never"
             /\ changes'[n].new \/ present'[changes'[n].obj] = "gone"
  <2>1. CASE n = last
    BY <1>2, <1>3, <2>1
  <2>2. CASE n # last
    <3>1. n \in 1..Len(changes)
      BY <1>2, <1>6, <2>2
    <3>2. /\ present[changes[n].obj] # "never"
          /\ changes[n].new \/ present[changes[n].obj] = "gone"
      BY <1>2, <3>1 DEF ChangesInv
    <3> QED
      BY <1>2, <1>3, <1>4, <1>5, <3>1, <3>2
  <2> QED
    BY <2>1, <2>2
<1>7. ASSUME NEW m \in 1..last, NEW n \in 1..last, m < n, changes'[m].obj = changes'[n].obj
      PROVE  changes'[m].new /\ changes'[n].old
  <2>1. m \in 1..Len(changes)
    BY <1>2, <1>7
  <2>2. CASE n = last
    BY <1>2, <1>5, <1>7, <2>1, <2>2
  <2>3. CASE n # last
    <3>1. n \in 1..Len(changes)
      BY <1>2, <1>7, <2>3
    <3> QED
      BY <1>2, <1>7, <2>1, <3>1 DEF ChangesInv
  <2> QED
    BY <2>2, <2>3
<1> QED
  BY <1>2, <1>6, <1>7 DEF ChangesInv

\* Whatever was there before stays as it was.
LEMMA PublishRest ==
    ASSUME TypeInv, IInv, NEW o \in Objects, NEW before \in BOOLEAN, NEW after \in BOOLEAN,
           Publish(o, before, after)
    PROVE  CacheInv' /\ HandsInv' /\ EventsInv' /\ EventTellsItsChange' /\ HandledIsPublished'
<1> DEFINE c == [obj |-> o, old |-> before, new |-> after]
<1> USE DEF IInv
<1>0. TypeOK
  BY DEF TypeInv
<1>1. c \in ChangeRecord /\ changes' = Append(changes, c)
  BY DEF ChangeRecord, Publish
<1>2. /\ Len(changes) \in Nat /\ Len(changes') = Len(changes) + 1
      /\ \A m \in 1..Len(changes) : changes'[m] = changes[m]
  BY <1>0, <1>1, AppendFacts DEF TypeOK
<1>3. \A n \in 1..Len(changes) :
        /\ Before(n)' = Before(n) /\ After(n)' = After(n)
        /\ Supported(n)' <=> Supported(n)
  BY <1>0, <1>1, FurtherChange
<1>4. UNCHANGED <<handled, cache, events, tpc, old, new, faults>> /\ number' = number
  BY DEF Publish, number
<1>5. handled \in Nat /\ handled <= Len(changes) /\ DOMAIN events = 1..Len(events)
  BY <1>0 DEF TypeOK
<1>6. handled < Len(changes) => number \in 1..Len(changes) /\ change' = change
  BY <1>0, <1>2, <1>4, AtHand DEF change
<1>7. CacheInv'
  <2> SUFFICES ASSUME NEW p \in Objects \ Unsupported
               PROVE  \/ IsLast(cache[p], p, handled)'
                      \/ /\ handled < Len(changes') /\ cache[p] = number
                         /\ change'.obj = p /\ change'.new
                         /\ tpc \in {"send", "ack"} \/ faults > 0
    BY <1>4 DEF CacheInv
  <2>1. CASE IsLast(cache[p], p, handled)
    BY <1>2, <1>4, <1>5, <2>1 DEF IsLast
  <2>2. CASE ~IsLast(cache[p], p, handled)
    BY <1>2, <1>5, <1>6, <2>2 DEF CacheInv
  <2> QED
    BY <2>1, <2>2
<1>8. HandsInv'
  <2> SUFFICES ASSUME tpc \notin {"down", "idle"}, Supported(number)'
               PROVE  HandsInv'
    BY <1>4 DEF HandsInv
  <2>1. /\ change' = change /\ Supported(number)
        /\ Before(number)' = Before(number) /\ After(number)' = After(number)
    BY <1>0, <1>3, <1>4, <1>6 DEF TypeOK
  <2> QED
    BY <1>4, <2>1 DEF HandsInv, OldIs, HasEvent
<1>9. EventsInv'
  <2>1. \A i \in DOMAIN events : events[i] \in Event
    BY <1>0 DEF TypeOK
  <2> QED
    BY <1>2, <1>4, <1>5, <2>1 DEF EventsInv, Event, number
<1>10. \A i \in DOMAIN events : events[i].change \in 1..Len(changes)
  <2> SUFFICES ASSUME NEW i \in DOMAIN events PROVE events[i].change \in 1..Len(changes)
    OBVIOUS
  <2>1. events[i] \in Event
    BY <1>0 DEF TypeOK
  <2> QED
    BY <1>2, <2>1 DEF EventsInv, Event
<1>11. EventTellsItsChange'
  BY <1>3, <1>4, <1>10 DEF EventTellsItsChange
<1>12. HandledIsPublished'
  BY <1>2, <1>3, <1>4, <1>5 DEF HandledIsPublished
<1> QED
  BY <1>7, <1>8, <1>9, <1>11, <1>12

LEMMA ListenerInv == TypeInv /\ IInv /\ Listener => IInv'
<1> SUFFICES ASSUME TypeInv, IInv, NEW o \in Objects, Create(o) \/ Modify(o) \/ Remove(o)
             PROVE  IInv'
  BY DEF Listener
<1>1. PICK before \in BOOLEAN, after \in BOOLEAN :
        /\ Publish(o, before, after)
        /\ present[o] = IF before THEN "present" ELSE "never"
        /\ before \/ after
  BY DEF Create, Modify, Remove
<1>2. ChangesInv'
  BY <1>1, PublishChanges DEF IInv
<1> QED
  BY <1>1, <1>2, PublishRest DEF IInv

-----------------------------------------------------------------------------
(* ... and through the steps of the transformer *)

\* Until it is acknowledged, the change at hand is the same.
LEMMA SameHand ==
    ASSUME UNCHANGED <<changes, handled>>
    PROVE  /\ number' = number /\ change' = change
           /\ Before(number)' = Before(number) /\ After(number)' = After(number)
           /\ Supported(number)' <=> Supported(number)
           /\ \A n : Before(n)' = Before(n)
           /\ \A n : After(n)' = After(n)
           /\ \A n : Supported(n)' <=> Supported(n)
  BY SameChanges DEF number, change

\* What a step leaves alone that only touches the transformer's own variables.
LEMMA OwnStep ==
    ASSUME IInv, UNCHANGED <<changes, present, handled, cache, events>>,
           faults \in Nat, faults' \in Nat, faults > 0 => faults' > 0,
           tpc \in {"send", "ack"} => tpc' \in {"send", "ack"} \/ faults' > 0
    PROVE  ChangesInv' /\ CacheInv' /\ EventsInv' /\ EventTellsItsChange' /\ HandledIsPublished'
<1>1. ChangesInv'
  BY DEF IInv, ChangesInv
<1>2. CacheInv'
  BY SameHand DEF IInv, CacheInv, IsLast
<1>3. EventsInv'
  BY SameHand DEF IInv, EventsInv
<1>4. EventTellsItsChange'
  BY SameHand DEF IInv, EventTellsItsChange
<1>5. HandledIsPublished'
  BY SameHand DEF IInv, HandledIsPublished
<1> QED
  BY <1>1, <1>2, <1>3, <1>4, <1>5

LEMMA StartInv == TypeInv /\ IInv /\ Start => IInv'
<1> SUFFICES ASSUME TypeInv, IInv, Start PROVE IInv'
  OBVIOUS
<1>1. HandsInv'
  BY DEF Start, HandsInv
<1> QED
  BY <1>1, OwnStep DEF Start, IInv, TypeInv, TypeOK

\* A change that is taken and has no object before is the first one of its object.
LEMMA TakeChangeInv == TypeInv /\ IInv /\ TakeChange => IInv'
<1> SUFFICES ASSUME TypeInv, IInv, TakeChange PROVE IInv'
  OBVIOUS
<1>1. ~change.old => Before(number) = 0
  BY FirstHasNoneBefore DEF TakeChange, IInv, TypeInv
<1>2. change.old \in BOOLEAN
  BY AtHand DEF TypeInv, TakeChange
<1>3. HandsInv'
  BY <1>1, <1>2, SameHand DEF TakeChange, HandsInv, OldIs
<1> QED
  BY <1>3, OwnStep DEF TakeChange, IInv, TypeInv, TypeOK

\* What is retrieved is the object before, or what an attempt that failed stored.
LEMMA RetrieveInv == TypeInv /\ IInv /\ Retrieve => IInv'
<1> SUFFICES ASSUME TypeInv, IInv, Retrieve PROVE IInv'
  OBVIOUS
<1>1. handled < Len(changes) /\ change.obj \in Objects
  BY AtHand DEF TypeInv, TypeOK, Retrieve
<1>2. ASSUME Supported(number) PROVE OldIs(cache[change.obj])
  <2>1. change.obj \in Objects \ Unsupported
    BY <1>1, <1>2 DEF Supported, change
  <2>2. CASE IsLast(cache[change.obj], change.obj, handled)
    BY <1>1, <2>2, CachedIsBefore DEF IInv, TypeInv, OldIs
  <2>3. CASE cache[change.obj] = number /\ change.new /\ faults > 0
    BY <2>3 DEF OldIs
  <2> QED
    BY <2>1, <2>2, <2>3 DEF IInv, CacheInv, Retrieve
<1>3. HandsInv'
  BY <1>2, SameHand DEF Retrieve, HandsInv, OldIs, Cached
<1> QED
  BY <1>3, OwnStep DEF Retrieve, IInv, TypeInv, TypeOK

\* The object after is the transformed one, or the empty one of a removal.
LEMMA TransformInv == TypeInv /\ IInv /\ Transform => IInv'
<1> SUFFICES ASSUME TypeInv, IInv, Transform PROVE IInv'
  OBVIOUS
<1>1. handled < Len(changes) /\ number # 0
  BY AtHand DEF TypeInv, TypeOK, Transform
<1>2. ASSUME Supported(number)
      PROVE  /\ OldIs(old)
             /\ \/ change.new /\ new' = number /\ tpc' = "store"
                \/ After(number) = 0 /\ new' = 0 /\ tpc' = SendOrAck(old, 0)
    BY <1>2 DEF Transform, IInv, HandsInv, After, Supported, change
<1>3. ASSUME Supported(number), tpc' = "ack" PROVE After(number) = 0 /\ Before(number) = 0
    BY <1>1, <1>2, <1>3 DEF SendOrAck, OldIs
<1>4. Supported(number) =>
        /\ tpc' \in {"send", "ack"} => new' = After(number) /\ ~change.new
    BY <1>1, <1>2 DEF SendOrAck, After, change
<1>5. HandsInv'
  BY <1>2, <1>3, <1>4, SameHand DEF Transform, HandsInv, OldIs, SendOrAck
<1> QED
  BY <1>5, OwnStep DEF Transform, IInv, TypeInv, TypeOK

\* What is stored is the object after the change at hand.
LEMMA StoreInv == TypeInv /\ IInv /\ Store => IInv'
<1> SUFFICES ASSUME TypeInv, IInv, Store PROVE IInv'
  OBVIOUS
<1>1. handled < Len(changes) /\ change.obj \in Objects
  BY AtHand DEF TypeInv, TypeOK, Store
<1>2. Supported(number) => change.new /\ new = number /\ OldIs(old)
  BY DEF Store, IInv, HandsInv
<1>3. /\ cache'[change.obj] = new
      /\ \A o \in Objects \ {change.obj} : cache'[o] = cache[o]
  BY <1>1 DEF Store, TypeInv, TypeOK
<1>4. UNCHANGED <<changes, present, handled, events, old, new, faults>> /\ tpc' = "send"
  BY DEF Store
<1>5. CacheInv'
  <2> SUFFICES ASSUME NEW o \in Objects \ Unsupported
               PROVE  \/ IsLast(cache[o], o, handled)'
                      \/ /\ handled < Len(changes) /\ cache'[o] = number
                         /\ change.obj = o /\ change.new
    BY <1>4, SameHand DEF CacheInv
  <2>1. CASE o = change.obj
    BY <1>1, <1>2, <1>3, <2>1 DEF Supported, change
  <2>2. CASE o # change.obj
    BY <1>3, <1>4, <2>2 DEF IInv, CacheInv, IsLast
  <2> QED
    BY <2>1, <2>2
<1>6. HandsInv'
  BY <1>2, <1>3, <1>4, SameHand DEF HandsInv, OldIs, After, change
<1>7. ChangesInv' /\ EventsInv' /\ EventTellsItsChange' /\ HandledIsPublished'
  BY <1>4, SameHand DEF IInv, ChangesInv, EventsInv, EventTellsItsChange, HandledIsPublished
<1> QED
  BY <1>5, <1>6, <1>7 DEF IInv

\* The event that is published tells the change at hand.
LEMMA PublishEvent ==
    ASSUME TypeInv, IInv, tpc = "send", events' = Append(events, event),
           UNCHANGED <<changes, present, handled, cache>>,
           faults' \in Nat, faults > 0 => faults' > 0,
           tpc' = "ack" \/ faults' > 0
    PROVE  /\ ChangesInv' /\ CacheInv' /\ EventsInv'
           /\ EventTellsItsChange' /\ HandledIsPublished'
           /\ HasEvent(number)'
<1>1. TypeOK /\ handled < Len(changes) /\ faults \in Nat
  BY DEF TypeInv, TypeOK
<1>2. /\ DOMAIN events = 1..Len(events) /\ DOMAIN events' = 1..(Len(events) + 1)
      /\ events'[Len(events) + 1] = event /\ \A i \in DOMAIN events : events'[i] = events[i]
      /\ Len(events) \in Nat
  BY <1>1, EventType, AppendFacts DEF TypeOK
<1>3. \A i \in DOMAIN events' : i \in DOMAIN events \/ events'[i] = event
  BY <1>2
<1>4. event.change = number /\ event.old = old /\ event.new = new
  BY DEF event
<1>5. Supported(number) => new = After(number) /\ OldIs(old)
  BY DEF IInv, HandsInv
<1>6. ChangesInv' /\ CacheInv'
  BY SameHand DEF IInv, ChangesInv, CacheInv, IsLast
<1>7. EventsInv'
  BY <1>1, <1>2, <1>3, <1>4, AtHand, SameHand DEF IInv, EventsInv
<1>8. EventTellsItsChange'
  <2> SUFFICES ASSUME NEW i \in DOMAIN events', Supported(events'[i].change)
               PROVE  /\ events'[i].new = After(events'[i].change)
                      /\ \/ events'[i].old = Before(events'[i].change)
                         \/ faults' > 0 /\ events'[i].old = After(events'[i].change)
    BY SameHand DEF EventTellsItsChange
  <2>1. CASE i \in DOMAIN events
    BY <1>2, <2>1 DEF IInv, EventTellsItsChange
  <2>2. CASE events'[i] = event
    BY <1>4, <1>5, <2>2 DEF OldIs, After, change
  <2> QED
    BY <1>3, <2>1, <2>2
<1>9. \A n : HasEvent(n) => HasEvent(n)'
  BY <1>2 DEF HasEvent
<1>10. HandledIsPublished'
  BY <1>9, SameHand DEF IInv, HandledIsPublished, HasEvent
<1>11. HasEvent(number)'
  BY <1>2, <1>4, SameHand DEF HasEvent
<1> QED
  BY <1>6, <1>7, <1>8, <1>10, <1>11

LEMMA SendEventInv == TypeInv /\ IInv /\ SendEvent => IInv'
<1> SUFFICES ASSUME TypeInv, IInv, SendEvent PROVE IInv'
  OBVIOUS
<1>1. /\ ChangesInv' /\ CacheInv' /\ EventsInv'
      /\ EventTellsItsChange' /\ HandledIsPublished'
      /\ HasEvent(number)'
  BY PublishEvent DEF SendEvent, TypeInv, TypeOK
<1>2. Supported(number) =>
        /\ OldIs(old) /\ new = After(number)
        /\ change.new => cache[change.obj] = number
  BY DEF IInv, HandsInv, SendEvent
<1>3. HandsInv'
  BY <1>1, <1>2, SameHand DEF SendEvent, HandsInv, OldIs
<1> QED
  BY <1>1, <1>3 DEF IInv

\* Once it is acknowledged, the change at hand is the last one handled, and the
\* cache is as it left its object.
LEMMA AckChangeInv == TypeInv /\ IInv /\ AckChange => IInv'
<1> SUFFICES ASSUME TypeInv, IInv, AckChange PROVE IInv'
  OBVIOUS
<1>1. /\ TypeOK /\ handled < Len(changes) /\ handled \in Nat /\ number = handled + 1
      /\ handled' = handled + 1 /\ number' = handled + 2
  BY DEF TypeInv, TypeOK, AckChange, number
<1>2. UNCHANGED <<changes, present, cache, events, faults>> /\ tpc' = "idle"
  BY DEF AckChange
<1>3. CacheInv'
  <2> SUFFICES ASSUME NEW o \in Objects \ Unsupported PROVE IsLast(cache[o], o, number)
    BY <1>1, <1>2 DEF CacheInv, IsLast
  <2>1. CASE change.obj = o /\ change.new
    <3>1. cache[o] = number
      BY <2>1 DEF IInv, HandsInv, Supported, change, AckChange
    <3> QED
      BY <1>1, <2>1, <3>1 DEF IsLast, change
  <2>2. CASE ~(change.obj = o /\ change.new)
    <3>1. IsLast(cache[o], o, handled)
      BY <2>2 DEF IInv, CacheInv
    <3> QED
      BY <1>1, <2>2, <3>1 DEF IsLast, change
  <2> QED
    BY <2>1, <2>2
<1>4. HandsInv'
  BY <1>2 DEF HandsInv
<1>5. EventsInv'
  <2>1. \A i \in DOMAIN events : events[i] \in Event
    BY <1>1 DEF TypeOK
  <2> QED
    BY <1>1, <1>2, <2>1 DEF IInv, EventsInv, Event
<1>6. EventTellsItsChange'
  BY <1>2, SameChanges DEF IInv, EventTellsItsChange
<1>7. HandledIsPublished'
  <2>1. Supported(number) => HasEvent(number) \/ (After(number) = 0 /\ Before(number) = 0)
    BY DEF IInv, HandsInv, AckChange
  <2>2. \A n \in 1..handled' : n \in 1..handled \/ n = number
    BY <1>1
  <2>3. \A n \in 1..handled' : Supported(n) /\ (After(n) # 0 \/ Before(n) # 0) => HasEvent(n)
    BY <2>1, <2>2 DEF IInv, HandledIsPublished, HasEvent
  <2> QED
    BY <1>2, <2>3, SameChanges DEF HandledIsPublished, HasEvent
<1>8. ChangesInv'
  BY <1>2 DEF IInv, ChangesInv, AckChange
<1> QED
  BY <1>3, <1>4, <1>5, <1>6, <1>7, <1>8 DEF IInv

-----------------------------------------------------------------------------
(* ... and through every fault *)

LEMMA LoseChangeInv ==
    ASSUME TypeInv, IInv, NEW o \in Objects, LoseChange(o)
    PROVE  IInv'
<1>1. TypeOK /\ faults' \in Nat /\ faults' > 0
  BY FaultFacts DEF TypeInv, LoseChange
<1>2. UNCHANGED <<changes, handled, cache, events, tpc, old, new>>
  BY DEF LoseChange
<1>3. ChangesInv'
  <2>1. \A n \in DOMAIN changes : changes[n].obj \in Objects
    BY <1>1, ObjectOfChange
  <2>2. \A p \in Objects :
          /\ present[p] # "never" => present'[p] # "never"
          /\ present[p] = "gone" => present'[p] = "gone"
    BY <1>1 DEF LoseChange, TypeOK
  <2> QED
    BY <1>2, <2>1, <2>2 DEF IInv, ChangesInv
<1>4. HandsInv'
  BY <1>1, <1>2, SameHand DEF IInv, HandsInv, OldIs, HasEvent
<1>5. CacheInv' /\ EventsInv' /\ EventTellsItsChange' /\ HandledIsPublished'
  BY <1>1, <1>2, SameHand
     DEF IInv, CacheInv, IsLast, EventsInv, EventTellsItsChange, HandledIsPublished
<1> QED
  BY <1>3, <1>4, <1>5 DEF IInv

LEMMA FailInv == TypeInv /\ IInv /\ (Fail \/ LoseAck) => IInv'
<1> SUFFICES ASSUME TypeInv, IInv, Fail \/ LoseAck PROVE IInv'
  OBVIOUS
<1>1. /\ TypeOK /\ faults \in Nat /\ faults' \in Nat /\ faults' > 0
      /\ tpc' \in {"down", "idle"}
      /\ UNCHANGED <<changes, present, handled, cache, events>>
  BY FaultFacts DEF TypeInv, TypeOK, Fail, LoseAck
<1>2. HandsInv'
  BY <1>1 DEF HandsInv
<1> QED
  BY <1>1, <1>2, OwnStep DEF IInv

LEMMA LoseResponseInv == TypeInv /\ IInv /\ LoseResponse => IInv'
<1> SUFFICES ASSUME TypeInv, IInv, LoseResponse PROVE IInv'
  OBVIOUS
<1>1. faults' \in Nat /\ faults' > 0
  BY FaultFacts DEF TypeInv, LoseResponse
<1>2. HandsInv'
  BY DEF HandsInv, LoseResponse
<1> QED
  BY <1>1, <1>2, PublishEvent DEF LoseResponse, IInv

-----------------------------------------------------------------------------
(* The properties *)

LEMMA NextInv == TypeInv /\ IInv /\ [Next]_vars => IInv'
<1> SUFFICES ASSUME TypeInv, IInv, [Next]_vars PROVE IInv'
  OBVIOUS
<1>1. CASE Listener
  BY <1>1, ListenerInv
<1>2. CASE Worker
  BY <1>2, StartInv, TakeChangeInv, RetrieveInv, TransformInv, StoreInv, SendEventInv,
     AckChangeInv DEF Worker
<1>3. ASSUME NEW o \in Objects, LoseChange(o) PROVE IInv'
  BY <1>3, LoseChangeInv
<1>4. CASE Fail \/ LoseAck
  BY <1>4, FailInv
<1>5. CASE LoseResponse
  BY <1>5, LoseResponseInv
<1>6. CASE UNCHANGED vars
  <2>1. HandsInv'
    BY <1>6, SameHand DEF IInv, HandsInv, OldIs, HasEvent
  <2> QED
    BY <1>6, <2>1, OwnStep DEF IInv, TypeInv, TypeOK
<1> QED
  BY <1>1, <1>2, <1>3, <1>4, <1>5, <1>6 DEF Next

LEMMA AlwaysInv == Spec => []IInv
  BY InitInv, NextInv, AlwaysType, PTL DEF Spec

\* Whatever fails, is lost or comes again: an event tells the object after its
\* change and the one before it, the latter replaced at most by the former.
THEOREM EventsTellTheirChanges == Spec => []EventTellsItsChange
<1>1. IInv => EventTellsItsChange
  BY DEF IInv
<1> QED
  BY <1>1, AlwaysInv, PTL

\* No change is acknowledged without its event in the dispatcher stream.
THEOREM NoEventIsMissing == Spec => []HandledIsPublished
<1>1. IInv => HandledIsPublished
  BY DEF IInv
<1> QED
  BY <1>1, AlwaysInv, PTL

-----------------------------------------------------------------------------
(* The transformer forwards sequentially *)

\* What the abstract specification sees of the changes and of the events.
ObjectsOf(q) == [n \in DOMAIN q |-> q[n].obj]
ChangesOf(q) == [i \in DOMAIN q |-> q[i].change]

LEMMA FunctionIsSequence ==
    ASSUME NEW n \in Nat, NEW T, NEW f \in [1..n -> T]
    PROVE  f \in Seq(T) /\ Len(f) = n
  BY SeqDef

\* A sequence that has one element more than another and starts like it.
LEMMA IsAppended ==
    ASSUME NEW T, NEW p \in Seq(T), NEW q \in Seq(T), NEW e \in T,
           Len(q) = Len(p) + 1, q[Len(p) + 1] = e, \A i \in 1..Len(p) : q[i] = p[i]
    PROVE  q = Append(p, e)
<1>1. /\ Append(p, e) \in Seq(T) /\ Len(Append(p, e)) = Len(q) /\ Len(p) \in Nat
      /\ \A i \in 1..Len(q) : q[i] = Append(p, e)[i]
  BY AppendFacts
<1> QED
  BY <1>1, SeqEqual

LEMMA ObjectsOfAppended ==
    ASSUME NEW q \in Seq(ChangeRecord), NEW c \in ChangeRecord
    PROVE  /\ ObjectsOf(q) \in Seq(Objects) /\ Len(ObjectsOf(q)) = Len(q)
           /\ ObjectsOf(Append(q, c)) = Append(ObjectsOf(q), c.obj)
<1>1. \A d \in ChangeRecord : d.obj \in Objects
  BY DEF ChangeRecord
<1>2. ASSUME NEW p \in Seq(ChangeRecord)
      PROVE  ObjectsOf(p) \in Seq(Objects) /\ Len(ObjectsOf(p)) = Len(p)
  <2>1. Len(p) \in Nat /\ DOMAIN p = 1..Len(p) /\ \A i \in 1..Len(p) : p[i] \in ChangeRecord
    OBVIOUS
  <2>2. ObjectsOf(p) \in [1..Len(p) -> Objects]
    BY <1>1, <2>1 DEF ObjectsOf
  <2> QED
    BY <2>1, <2>2, FunctionIsSequence
<1>3. /\ Append(q, c) \in Seq(ChangeRecord) /\ Len(Append(q, c)) = Len(q) + 1 /\ Len(q) \in Nat
      /\ DOMAIN q = 1..Len(q) /\ DOMAIN Append(q, c) = 1..(Len(q) + 1)
      /\ Append(q, c)[Len(q) + 1] = c /\ \A i \in 1..Len(q) : Append(q, c)[i] = q[i]
  BY AppendFacts
<1>4. /\ ObjectsOf(Append(q, c))[Len(q) + 1] = c.obj
      /\ \A i \in 1..Len(q) : ObjectsOf(Append(q, c))[i] = ObjectsOf(q)[i]
  BY <1>3 DEF ObjectsOf
<1>5. /\ ObjectsOf(q) \in Seq(Objects) /\ Len(ObjectsOf(q)) = Len(q)
      /\ ObjectsOf(Append(q, c)) \in Seq(Objects) /\ Len(ObjectsOf(Append(q, c))) = Len(q) + 1
  BY <1>2, <1>3
<1>6. c.obj \in Objects
  BY <1>1
<1> QED
  BY <1>4, <1>5, <1>6, IsAppended

LEMMA ChangesOfAppended ==
    ASSUME NEW q \in Seq(Event), NEW e \in Event
    PROVE  ChangesOf(Append(q, e)) = Append(ChangesOf(q), e.change)
<1>1. \A d \in Event : d.change \in 1..MaxChanges
  BY DEF Event
<1>2. ASSUME NEW p \in Seq(Event)
      PROVE  ChangesOf(p) \in Seq(1..MaxChanges) /\ Len(ChangesOf(p)) = Len(p)
  <2>1. Len(p) \in Nat /\ DOMAIN p = 1..Len(p) /\ \A i \in 1..Len(p) : p[i] \in Event
    OBVIOUS
  <2>2. ChangesOf(p) \in [1..Len(p) -> 1..MaxChanges]
    BY <1>1, <2>1 DEF ChangesOf
  <2> QED
    BY <2>1, <2>2, FunctionIsSequence
<1>3. /\ Append(q, e) \in Seq(Event) /\ Len(Append(q, e)) = Len(q) + 1 /\ Len(q) \in Nat
      /\ DOMAIN q = 1..Len(q) /\ DOMAIN Append(q, e) = 1..(Len(q) + 1)
      /\ Append(q, e)[Len(q) + 1] = e /\ \A i \in 1..Len(q) : Append(q, e)[i] = q[i]
  BY AppendFacts
<1>4. /\ ChangesOf(Append(q, e))[Len(q) + 1] = e.change
      /\ \A i \in 1..Len(q) : ChangesOf(Append(q, e))[i] = ChangesOf(q)[i]
  BY <1>3 DEF ChangesOf
<1>5. /\ ChangesOf(q) \in Seq(1..MaxChanges) /\ Len(ChangesOf(q)) = Len(q)
      /\ ChangesOf(Append(q, e)) \in Seq(1..MaxChanges) /\ Len(ChangesOf(Append(q, e))) = Len(q) + 1
  BY <1>2, <1>3
<1>6. e.change \in 1..MaxChanges
  BY <1>1
<1> QED
  BY <1>4, <1>5, <1>6, IsAppended

LEMMA InitForwards == Init => Forwarding!Init
  BY DEF Init, Forwarding!Init

LEMMA PublishForwards ==
    ASSUME TypeInv, NEW o \in Objects, NEW before \in BOOLEAN, NEW after \in BOOLEAN,
           Publish(o, before, after)
    PROVE  Forwarding!Publish(o)
<1> DEFINE c == [obj |-> o, old |-> before, new |-> after]
<1>1. c \in ChangeRecord /\ changes' = Append(changes, c) /\ c.obj = o
  BY DEF ChangeRecord, Publish
<1>2. ObjectsOf(changes') = Append(ObjectsOf(changes), o)
  BY <1>1, ObjectsOfAppended DEF TypeInv, TypeOK
<1> QED
  BY <1>2 DEF Publish, Forwarding!Publish, ObjectsOf

\* An event reaches the stream only for the change at hand.
LEMMA EventForwards ==
    ASSUME TypeInv, IInv, tpc = "send", events' = Append(events, event),
           UNCHANGED <<changes, handled>>
    PROVE  \E e \in 1..Len(ObjectsOf(changes)) : Forwarding!Forward("dispatcher", e)
<1>1. /\ handled < Len(changes) /\ number \in 1..Len(changes) /\ number = handled + 1
      /\ Len(ObjectsOf(changes)) = Len(changes)
  <2>1. handled < Len(changes) /\ changes \in Seq(ChangeRecord) /\ TypeOK
    BY DEF TypeInv, TypeOK
  <2>2. number \in 1..Len(changes) /\ change \in ChangeRecord
    BY <2>1, AtHand
  <2> QED
    BY <2>1, <2>2, ObjectsOfAppended DEF number
<1>2. ChangesOf(events') = Append(ChangesOf(events), number)
  BY <1>1, EventType, ChangesOfAppended DEF TypeInv, TypeOK, event
<1>3. \A i \in DOMAIN ChangesOf(events) : ChangesOf(events)[i] <= number
  BY DEF IInv, EventsInv, ChangesOf
<1> QED
  BY <1>1, <1>2, <1>3 DEF Forwarding!Forward, ObjectsOf, ChangesOf

LEMMA AckForwards == TypeInv /\ AckChange => Forwarding!Complete
<1> SUFFICES ASSUME TypeInv, AckChange PROVE Forwarding!Complete
  OBVIOUS
<1>1. handled < Len(changes) /\ handled' = handled + 1
  BY DEF TypeInv, TypeOK, AckChange, number
<1>2. Len(ObjectsOf(changes)) = Len(changes)
  BY <1>1, AtHand, ObjectsOfAppended DEF TypeInv, TypeOK
<1> QED
  BY <1>1, <1>2 DEF AckChange, Forwarding!Complete, ObjectsOf

LEMMA NextForwards == TypeInv /\ IInv /\ [Next]_vars => [Forwarding!Next]_Forwarding!vars
<1> SUFFICES ASSUME TypeInv, IInv, [Next]_vars PROVE [Forwarding!Next]_Forwarding!vars
  OBVIOUS
<1>1. ASSUME NEW o \in Objects, NEW before \in BOOLEAN, NEW after \in BOOLEAN,
             Publish(o, before, after)
      PROVE  Forwarding!Next
  BY <1>1, PublishForwards DEF Forwarding!Next
<1>2. CASE Listener
  BY <1>1, <1>2 DEF Listener, Create, Modify, Remove
<1>3. CASE SendEvent \/ LoseResponse
  <2>1. \E e \in 1..Len(ObjectsOf(changes)) : Forwarding!Forward("dispatcher", e)
    BY <1>3, EventForwards DEF SendEvent, LoseResponse
  <2> QED
    BY <2>1 DEF Forwarding!Next, ObjectsOf
<1>4. CASE AckChange
  BY <1>4, AckForwards DEF Forwarding!Next
<1>5. CASE UNCHANGED <<changes, handled, events>>
  BY <1>5 DEF Forwarding!vars
<1> QED
  BY <1>2, <1>3, <1>4, <1>5
     DEF Next, Worker, Start, TakeChange, Retrieve, Transform, Store, LoseChange, Fail, LoseAck

\* The transformer implements SequentialForwarding: the events appear in the order
\* of the changes, and what is repeated is the last one.
THEOREM TransformerForwards == Spec => ForwardsSequentially
<1>1. Init => Forwarding!Init
  BY InitForwards
<1>2. TypeInv /\ IInv /\ [Next]_vars => [Forwarding!Next]_Forwarding!vars
  BY NextForwards
<1> QED
  BY <1>1, <1>2, AlwaysType, AlwaysInv, PTL DEF Spec, ForwardsSequentially, Forwarding!Spec
=============================================================================
