------------------------- MODULE InitialState_proofs -------------------------
(***************************************************************************)
(* Proofs about InitialState, for any objects, types, topics and bounds:   *)
(* types, and that the consumer ends up with every object as it is, but    *)
(* for those of the two races.                                             *)
(***************************************************************************)
EXTENDS InitialState, WellFoundedInduction, TLAPS

USE DEF vars, udmVars, queueVars, workerVars, outside

-----------------------------------------------------------------------------
(* What the property rests on *)

\* What the stream still has for an object, and what of it is live.
AllOf(o) == {m \in stream : m.obj = o}
LiveOf(o) == {m \in AllOf(o) : m.subject = "main"}
IsLast(m, S) == \A n \in S : n.seq <= m.seq

\* An object's initial state is published only if it is there, a change only after
\* the subscription is known; the last change of an object in the stream is the last
\* one the dispatcher has dealt with.
InitialInv == \A m \in stream : m.subject = "prefill" => m.value # Absent
KnownInv == \A m \in stream : m.subject = "main" => known
LiveInv == \A o \in Objects : \A m \in LiveOf(o) : IsLast(m, LiveOf(o)) => m.value = AsOf(o, forwarded)

\* What the worker has in its hands: it read the object as it was.
HandsInv ==
    /\ wpc \in {"idle", "types"} => urls = {}
    /\ wpc = "read" => obj.value = AsOf(obj.obj, obj.at)

\* A change of o is still on its way to the dispatcher.
Pending(o) == \E i \in 1..Len(changes) : forwarded < i /\ changes[i].obj = o

\* When the consumer has got what the stream has for o, it will know o as it is.
Told(o) ==
    /\ AllOf(o) = {} => replica[o] = Current(o)
    /\ \A m \in AllOf(o) : IsLast(m, AllOf(o)) => m.value = Current(o)

\* The prefill was given up.
Parked == wpc \in {"ack", "end"} /\ status = "failed"

\* The worker is still to read o, or to publish it, or never will.
Owed(o) ==
    \/ wpc = "idle" \/ Parked
    \/ wpc \in {"types", "objects", "read"} /\ \E p \in todo : ObjectTypes[p[2]] = TypeOf[o]
    \/ wpc \in {"objects", "read"} /\ o \in urls
    \/ wpc = "read" /\ obj.obj = o

\* An object the consumer is not told of is one the worker owes it, or one of a race.
Fine(o) == ~Pending(o) => Told(o) \/ (Owed(o) /\ Current(o) # Absent)
ToldInv == \A o \in Objects \ excused : Fine(o)

IInv == InitialInv /\ KnownInv /\ LiveInv /\ HandsInv /\ ToldInv

-----------------------------------------------------------------------------
(* Objects and their changes *)

LEMMA Largest ==
    ASSUME NEW n \in Nat, NEW S \in SUBSET (0..n), S # {}
    PROVE  \E x \in S : \A y \in S : y <= x
<1> DEFINE less == {ss \in Nat \X Nat : ss[1] < ss[2]}
<1> DEFINE T == {n - x : x \in S}
<1>1. IsWellFoundedOn(less, Nat)
  BY NatLessThanWellFounded DEF OpToRel
<1>2. T \in SUBSET Nat
  OBVIOUS
<1>3. T # {}
  OBVIOUS
<1>4. \E t \in T : \A u \in T : ~(<<u, t>> \in less)
  <2> HIDE DEF T, less
  <2> QED
    BY <1>1, <1>2, <1>3, WFMin
<1>5. PICK x \in S : \A u \in T : ~(<<u, n - x>> \in less)
  BY <1>4
<1>6. \A y \in S : n - y \in T /\ n - y \in Nat /\ n - x \in Nat
  OBVIOUS
<1>7. \A y \in S : ~(n - y < n - x)
  BY <1>5, <1>6
<1>8. \A y \in S : y <= x
  BY <1>7
<1> QED
  BY <1>8

LEMMA MaxIsLargest ==
    ASSUME NEW n \in Nat, NEW S \in SUBSET (0..n), S # {}
    PROVE  Max(S) \in S /\ \A y \in S : y <= Max(S)
<1>1. \E x \in S : \A y \in S : x >= y
  BY Largest
<1> QED
  BY <1>1 DEF Max

\* Nothing was made of an object by the changes of others.
LEMMA AsOfSame ==
    ASSUME NEW o, NEW k \in Nat, NEW n \in Nat, k <= n,
           \A i \in 1..n : k < i => changes[i].obj # o
    PROVE  AsOf(o, k) = AsOf(o, n)
<1>1. ChangesOf(o, k) = ChangesOf(o, n)
  BY DEF ChangesOf
<1> QED
  BY <1>1 DEF AsOf

\* After a change its object is what the change made of it.
LEMMA AsOfLast ==
    ASSUME NEW o, NEW n \in Nat \ {0}, changes[n].obj = o
    PROVE  AsOf(o, n) = changes[n].value
<1>1. n \in ChangesOf(o, n) /\ ChangesOf(o, n) \in SUBSET (0..n)
  BY DEF ChangesOf
<1>2. Max(ChangesOf(o, n)) \in ChangesOf(o, n) /\ n <= Max(ChangesOf(o, n))
  BY <1>1, MaxIsLargest
<1>3. Max(ChangesOf(o, n)) = n
  BY <1>1, <1>2
<1> QED
  BY <1>1, <1>3 DEF AsOf

LEMMA AsOfType ==
    ASSUME TypeOK, NEW o \in Objects, NEW n \in 0..Len(changes)
    PROVE  AsOf(o, n) \in Value
<1>1. CASE ChangesOf(o, n) # {}
  <2>1. n \in Nat /\ Len(changes) \in Nat /\ ChangesOf(o, n) \in SUBSET (0..n)
    BY DEF ChangesOf, TypeOK
  <2>2. Max(ChangesOf(o, n)) \in ChangesOf(o, n)
    BY <1>1, <2>1, MaxIsLargest
  <2>3. Max(ChangesOf(o, n)) \in 1..Len(changes)
    BY <2>1, <2>2 DEF ChangesOf
  <2>4. changes[Max(ChangesOf(o, n))] \in Change
    BY <2>3 DEF TypeOK
  <2> QED
    BY <1>1, <2>4 DEF AsOf, Change
<1>2. CASE ChangesOf(o, n) = {}
  BY <1>2, BoundsAssumption DEF AsOf, Value
<1> QED
  BY <1>1, <1>2

LEMMA CurrentType == TypeOK => \A o \in Objects : Current(o) \in Value
<1> SUFFICES ASSUME TypeOK, NEW o \in Objects PROVE Current(o) \in Value
  OBVIOUS
<1>1. Len(changes) \in 0..Len(changes)
  BY DEF TypeOK
<1> QED
  BY <1>1, AsOfType DEF Current

\* What was, does not change.
LEMMA AsOfAppend ==
    ASSUME TypeOK, NEW c \in Change, changes' = Append(changes, c),
           NEW o, NEW n \in 0..Len(changes)
    PROVE  AsOf(o, n)' = AsOf(o, n)
<1>1. \A i \in 1..n : changes'[i] = changes[i]
  BY DEF TypeOK
<1>2. ChangesOf(o, n)' = ChangesOf(o, n)
  BY <1>1 DEF ChangesOf
<1>3. CASE ChangesOf(o, n) # {}
  <2>1. n \in Nat /\ ChangesOf(o, n) \in SUBSET (0..n) /\ ChangesOf(o, n) \subseteq 1..n
    BY DEF ChangesOf, TypeOK
  <2>2. Max(ChangesOf(o, n)) \in ChangesOf(o, n)
    BY <1>3, <2>1, MaxIsLargest
  <2> QED
    BY <1>1, <1>2, <1>3, <2>1, <2>2 DEF AsOf
<1>4. CASE ChangesOf(o, n) = {}
  BY <1>2, <1>4 DEF AsOf
<1> QED
  BY <1>3, <1>4

\* A topic of the subscription matches the type of each object.
LEMMA PlaceOf == \A o \in Objects : \E p \in Places : ObjectTypes[p[2]] = TypeOf[o]
<1> SUFFICES ASSUME NEW o \in Objects PROVE \E p \in Places : ObjectTypes[p[2]] = TypeOf[o]
  OBVIOUS
<1>1. PICK topic \in Range(Topics) : <<topic, TypeOf[o]>> \in Matching
  BY ObjectsAssumption
<1>2. PICK i \in DOMAIN Topics : Topics[i] = topic
  BY DEF Range
<1>3. TypeOf[o] \in Range(ObjectTypes)
  BY ObjectsAssumption
<1>4. PICK j \in DOMAIN ObjectTypes : ObjectTypes[j] = TypeOf[o]
  BY <1>3 DEF Range
<1>5. <<i, j>> \in Places
  BY <1>1, <1>2, <1>4 DEF Places
<1> QED
  BY <1>4, <1>5

-----------------------------------------------------------------------------
(* Type correctness *)

LEMMA NoObjectType == NoObject \in [obj : Objects, value : Value, at : {0}]
<1>1. (CHOOSE o \in Objects : TRUE) \in Objects
  BY ObjectsAssumption
<1> QED
  BY <1>1 DEF NoObject, Value

LEMMA InitType == Init => TypeOK
<1> SUFFICES ASSUME Init PROVE TypeOK
  OBVIOUS
<1>1. changes \in Seq(Change) /\ Len(changes) = 0
  BY DEF Init
<1>2. replica \in [Objects -> Value]
  BY DEF Init, Value
<1>3. obj \in [obj : Objects, value : Value, at : 0..Len(changes)]
  BY <1>1, NoObjectType DEF Init
<1>4. Len(changes) <= MaxChanges /\ forwarded \in 0..Len(changes) /\ lastSeq \in Nat /\ faults \in 0..MaxFaults
  BY <1>1, BoundsAssumption DEF Init
<1>5. known \in BOOLEAN /\ open \in BOOLEAN /\ status = "pending" /\ wpc = "idle" /\ attempts = 0
  BY DEF Init
<1>6. stream \subseteq Message /\ todo \subseteq Places /\ urls \subseteq Objects /\ excused \subseteq Objects
  BY DEF Init
<1> QED
  BY <1>1, <1>2, <1>3, <1>4, <1>5, <1>6 DEF TypeOK

\* What a publication does to the stream.
LEMMA PublishType ==
    ASSUME TypeOK, NEW subject \in {"main", "prefill"}, NEW o \in Objects, NEW value \in Value,
           Publish(subject, o, value)
    PROVE  lastSeq' \in Nat /\ stream' \subseteq Message'
<1>1. lastSeq \in Nat /\ lastSeq' = lastSeq + 1
  BY DEF TypeOK, Publish
<1>2. Message \subseteq Message'
  BY <1>1 DEF Message
<1>3. [seq |-> lastSeq + 1, subject |-> subject, obj |-> o, value |-> value] \in Message'
  BY <1>1 DEF Message
<1> QED
  BY <1>1, <1>2, <1>3 DEF TypeOK, Publish

LEMMA ChangeType ==
    ASSUME TypeOK, NEW n \in 1..Len(changes)
    PROVE  changes[n].obj \in Objects /\ changes[n].value \in Value
<1>1. changes \in Seq(Change)
  BY DEF TypeOK
<1>2. changes[n] \in Change
  BY <1>1
<1> QED
  BY <1>2 DEF Change

LEMMA ChangeObjectType == ASSUME TypeOK, NEW o \in Objects, ChangeObject(o) PROVE TypeOK'
<1>1. PICK value \in {Absent, Len(changes) + 1} : changes' = Append(changes, [obj |-> o, value |-> value])
  BY DEF ChangeObject
<1>2. Len(changes) \in Nat /\ Len(changes) < MaxChanges /\ MaxChanges \in Nat
  BY BoundsAssumption DEF ChangeObject, TypeOK
<1>3. value \in Value
  BY <1>2 DEF Value
<1>4. [obj |-> o, value |-> value] \in Change
  BY <1>3 DEF Change
<1>5. changes' \in Seq(Change) /\ Len(changes') = Len(changes) + 1
  BY <1>1, <1>4 DEF TypeOK
<1>6. Message' = Message
  BY DEF ChangeObject, Message
<1>7. forwarded' \in 0..Len(changes') /\ Len(changes') <= MaxChanges
  BY <1>2, <1>5 DEF TypeOK, ChangeObject
<1>8. obj' \in [obj : Objects, value : Value, at : 0..Len(changes')]
  BY <1>2, <1>5 DEF TypeOK, ChangeObject
<1> QED
  BY <1>5, <1>6, <1>7, <1>8 DEF TypeOK, ChangeObject

LEMMA ForwardType == TypeOK /\ Forward => TypeOK'
<1> SUFFICES ASSUME TypeOK, Forward PROVE TypeOK'
  OBVIOUS
<1>1. forwarded' = forwarded + 1 /\ forwarded' \in 1..Len(changes) /\ UNCHANGED changes
  BY DEF Forward, TypeOK
<1>2. changes[forwarded'].obj \in Objects /\ changes[forwarded'].value \in Value
  BY <1>1, ChangeType
<1>3. CASE known
  <2>1. Publish("main", changes[forwarded'].obj, changes[forwarded'].value)
    BY <1>3, <1>1 DEF Forward, PublishLive
  <2>2. lastSeq' \in Nat /\ stream' \subseteq Message'
    BY <1>2, <2>1, PublishType
  <2> QED
    BY <1>1, <1>3, <2>2 DEF TypeOK, Forward
<1>4. CASE ~known
  <2>1. UNCHANGED <<stream, lastSeq>> /\ Message' = Message
    BY <1>4 DEF Forward, Message
  <2> QED
    BY <1>1, <1>2, <1>4, <2>1 DEF TypeOK, Forward
<1> QED
  BY <1>3, <1>4

LEMMA ForwardAgainType == TypeOK /\ ForwardAgain => TypeOK'
<1> SUFFICES ASSUME TypeOK, ForwardAgain PROVE TypeOK'
  OBVIOUS
<1>1. forwarded \in 1..Len(changes)
  BY DEF ForwardAgain, TypeOK
<1>2. changes[forwarded].obj \in Objects /\ changes[forwarded].value \in Value
  BY <1>1, ChangeType
<1>3. lastSeq' \in Nat /\ stream' \subseteq Message'
  BY <1>2, PublishType DEF ForwardAgain, PublishLive
<1>4. faults' \in 0..MaxFaults
  BY BoundsAssumption DEF ForwardAgain, TypeOK
<1> QED
  BY <1>3, <1>4 DEF TypeOK, ForwardAgain

LEMMA PublishObjectType == TypeOK /\ PublishObject => TypeOK'
<1> SUFFICES ASSUME TypeOK, PublishObject PROVE TypeOK'
  OBVIOUS
<1>1. obj.obj \in Objects /\ obj.value \in Value
  BY DEF TypeOK
<1>2. lastSeq' \in Nat /\ stream' \subseteq Message'
  BY <1>1, PublishType DEF PublishObject, PublishInitial
<1>3. obj' \in [obj : Objects, value : Value, at : 0..Len(changes')]
  BY NoObjectType DEF TypeOK, PublishObject
<1>4. excused' \subseteq Objects
  BY <1>1 DEF TypeOK, PublishObject
<1> QED
  BY <1>2, <1>3, <1>4 DEF TypeOK, PublishObject

\* The other steps of the worker, which add nothing to the stream.
LEMMA GoDownType ==
    ASSUME TypeOK, GoDown, UNCHANGED <<outside, queueVars, status, attempts, excused>>, faults' \in 0..MaxFaults
    PROVE  TypeOK'
<1>1. Message' = Message
  BY DEF Message
<1>2. obj' \in [obj : Objects, value : Value, at : 0..Len(changes')]
  BY NoObjectType DEF TypeOK, GoDown
<1> QED
  BY <1>1, <1>2 DEF TypeOK, GoDown

LEMMA WorkerType == TypeOK /\ Worker => TypeOK'
<1> SUFFICES ASSUME TypeOK, Worker PROVE TypeOK'
  OBVIOUS
<1>1. UNCHANGED lastSeq => Message' = Message
  BY DEF Message
<1>2. CASE Begin
  BY <1>1, <1>2 DEF TypeOK, Begin
<1>10. CASE Park
  BY <1>1, <1>10 DEF TypeOK, Park
<1>3. CASE ListObjects
  <2>1. todo' \subseteq Places /\ urls' \subseteq Objects
    BY <1>3 DEF ListObjects, Listed, TypeOK
  <2> QED
    BY <1>1, <1>3, <2>1 DEF TypeOK, ListObjects
<1>4. CASE TypeIsFilled
  BY <1>1, <1>4 DEF TypeOK, TypeIsFilled
<1>5. CASE PublishObject
  BY <1>5, PublishObjectType
<1>6. CASE ReportDone
  BY <1>1, <1>6 DEF TypeOK, ReportDone
<1>7. CASE AckRequest
  BY <1>1, <1>7 DEF TypeOK, AckRequest
<1>8. ASSUME NEW o \in Objects, GetObject(o) PROVE TypeOK'
  <2>1. Len(changes) \in 0..Len(changes) /\ Current(o) \in Value
    BY CurrentType DEF TypeOK
  <2>2. obj' = [obj |-> o, value |-> Current(o), at |-> Len(changes)] /\ Current(o) # Absent
    BY <1>8 DEF GetObject
  <2>3. obj' \in [obj : Objects, value : Value, at : 0..Len(changes)] /\ obj'.value # Absent
    BY <2>1, <2>2
  <2> QED
    BY <1>1, <1>8, <2>3 DEF TypeOK, GetObject
<1>9. ASSUME NEW o \in Objects, ObjectIsGone(o) PROVE TypeOK'
  BY <1>9, GoDownType DEF ObjectIsGone, TypeOK
<1> QED
  BY <1>2, <1>3, <1>4, <1>5, <1>6, <1>7, <1>8, <1>9, <1>10 DEF Worker

LEMMA ConsumeType == TypeOK /\ Consume => TypeOK'
<1> SUFFICES ASSUME TypeOK, Consume PROVE TypeOK'
  OBVIOUS
<1>1. PICK m \in stream : /\ replica' = [replica EXCEPT ![m.obj] = m.value]
                          /\ stream' = stream \ {m}
  BY DEF Consume
<1>2. m.obj \in Objects /\ m.value \in Value
  BY DEF TypeOK, Message
<1>3. Message' = Message
  BY DEF Consume, Message
<1>4. replica' \in [Objects -> Value]
  BY <1>1, <1>2 DEF TypeOK
<1> QED
  BY <1>1, <1>3, <1>4 DEF TypeOK, Consume

LEMMA NextType == TypeOK /\ [Next]_vars => TypeOK'
<1> SUFFICES ASSUME TypeOK, [Next]_vars PROVE TypeOK'
  OBVIOUS
<1>1. UNCHANGED lastSeq => Message' = Message
  BY DEF Message
<1>2. ASSUME NEW o \in Objects, ChangeObject(o) PROVE TypeOK'
  BY <1>2, ChangeObjectType
<1>3. CASE LearnSubscription
  BY <1>1, <1>3 DEF TypeOK, LearnSubscription
<1>4. CASE Fail
  <2>1. faults' \in 0..MaxFaults
    BY <1>4, BoundsAssumption DEF TypeOK, Fail
  <2> QED
    BY <1>4, <2>1, GoDownType DEF Fail
<1>5. CASE FindNothing
  BY <1>1, <1>5 DEF TypeOK, FindNothing
<1>6. CASE UNCHANGED vars
  BY <1>1, <1>6 DEF TypeOK
<1> QED
  BY <1>2, <1>3, <1>4, <1>5, <1>6, ForwardType, ForwardAgainType, WorkerType, ConsumeType DEF Next

\* Every variable has its type, whatever objects, types and topics there are.
THEOREM TypeCorrect == Spec => []TypeOK
<1>1. Init => TypeOK
  BY InitType
<1>2. TypeOK /\ [Next]_vars => TypeOK'
  BY NextType
<1> QED
  BY <1>1, <1>2, PTL DEF Spec

-----------------------------------------------------------------------------
(* The stream *)

\* What is published is the last of its object, and nothing to the other objects.
LEMMA Published ==
    ASSUME TypeOK, NEW subject \in {"main", "prefill"}, NEW o \in Objects, NEW value \in Value,
           Publish(subject, o, value)
    PROVE  /\ \A x \in Objects \ {o} : AllOf(x)' = AllOf(x) /\ LiveOf(x)' = LiveOf(x)
           /\ AllOf(o)' # {}
           /\ \A m \in AllOf(o)' : IsLast(m, AllOf(o)') => m.value = value
           /\ subject = "main" => \A m \in LiveOf(o)' : IsLast(m, LiveOf(o)') => m.value = value
           /\ subject = "prefill" => LiveOf(o)' = LiveOf(o)
<1> DEFINE n == [seq |-> lastSeq + 1, subject |-> subject, obj |-> o, value |-> value]
<1>1. stream' = stream \cup {n}
  BY DEF Publish
<1>2. n.seq = lastSeq + 1 /\ n.subject = subject /\ n.obj = o /\ n.value = value
  OBVIOUS
<1>3. \A m \in stream : ~(n.seq <= m.seq)
  BY <1>2 DEF TypeOK, Message
<1> HIDE DEF n
<1>4. AllOf(o)' = AllOf(o) \cup {n}
  BY <1>1, <1>2 DEF AllOf
<1>5. \A x \in Objects \ {o} : AllOf(x)' = AllOf(x)
  BY <1>1, <1>2 DEF AllOf
<1>6. \A x \in Objects \ {o} : LiveOf(x)' = LiveOf(x)
  BY <1>5 DEF LiveOf
<1>7. \A m \in AllOf(o)' : IsLast(m, AllOf(o)') => m.value = value
  BY <1>2, <1>3, <1>4 DEF IsLast, AllOf
<1>8. ASSUME subject = "main"
      PROVE  \A m \in LiveOf(o)' : IsLast(m, LiveOf(o)') => m.value = value
  <2>1. LiveOf(o)' = LiveOf(o) \cup {n}
    BY <1>2, <1>4, <1>8 DEF LiveOf
  <2> QED
    BY <1>2, <1>3, <2>1 DEF IsLast, LiveOf, AllOf
<1>9. subject = "prefill" => LiveOf(o)' = LiveOf(o)
  BY <1>2, <1>4 DEF LiveOf
<1> QED
  BY <1>4, <1>5, <1>6, <1>7, <1>8, <1>9

\* If there is something for an object, one message is the last.
LEMMA LastThere ==
    ASSUME TypeOK, NEW o, AllOf(o) # {}
    PROVE  \E m \in AllOf(o) : IsLast(m, AllOf(o))
<1> DEFINE S == {m.seq : m \in AllOf(o)}
<1>1. S \in SUBSET (0..lastSeq) /\ S # {} /\ lastSeq \in Nat
  BY DEF TypeOK, Message, AllOf
<1>2. \E x \in S : \A y \in S : y <= x
  <2> HIDE DEF S
  <2> QED
    BY <1>1, Largest
<1> QED
  BY <1>2 DEF IsLast

LEMMA InitStream == Init => InitialInv /\ KnownInv /\ LiveInv /\ HandsInv
  BY DEF Init, InitialInv, KnownInv, LiveInv, LiveOf, AllOf, HandsInv

LEMMA InitialStep == TypeOK /\ InitialInv /\ [Next]_vars => InitialInv'
<1> SUFFICES ASSUME TypeOK, InitialInv, [Next]_vars PROVE InitialInv'
  OBVIOUS
<1>1. stream' \subseteq stream => InitialInv'
  BY DEF InitialInv
<1>2. ASSUME NEW o, NEW value, PublishLive(o, value) PROVE InitialInv'
  BY <1>2 DEF InitialInv, PublishLive, Publish
<1>3. CASE PublishObject
  BY <1>3 DEF InitialInv, PublishObject, PublishInitial, Publish, TypeOK
<1>4. CASE Forward
  BY <1>1, <1>2, <1>4 DEF Forward
<1>5. CASE ForwardAgain
  BY <1>2, <1>5 DEF ForwardAgain
<1> QED
  BY <1>1, <1>3, <1>4, <1>5
     DEF Next, Worker, ChangeObject, LearnSubscription, Fail, Consume, FindNothing, Begin, Park, ListObjects,
         TypeIsFilled, ReportDone, AckRequest, GetObject, ObjectIsGone

LEMMA KnownStep == KnownInv /\ [Next]_vars => KnownInv'
<1> SUFFICES ASSUME KnownInv, [Next]_vars PROVE KnownInv'
  OBVIOUS
<1>1. stream' \subseteq stream /\ known' = known => KnownInv'
  BY DEF KnownInv
<1>2. ASSUME NEW o, NEW value, PublishInitial(o, value), known' = known PROVE KnownInv'
  BY <1>2 DEF KnownInv, PublishInitial, Publish
<1>3. known' = TRUE => KnownInv'
  BY DEF KnownInv
<1>4. CASE PublishObject
  BY <1>2, <1>4 DEF PublishObject
<1>5. CASE Forward
  BY <1>1, <1>3, <1>5 DEF Forward
<1>6. CASE ForwardAgain
  BY <1>3, <1>6 DEF ForwardAgain, KnownInv
<1>7. CASE LearnSubscription
  BY <1>3, <1>7 DEF LearnSubscription
<1> QED
  BY <1>1, <1>4, <1>5, <1>6, <1>7
     DEF Next, Worker, ChangeObject, Fail, Consume, FindNothing, Begin, Park, ListObjects,
         TypeIsFilled, ReportDone, AckRequest, GetObject, ObjectIsGone

\* What is gone from the front of the stream, or from its other subject, leaves the
\* last live message of an object the last one.
LEMMA ShorterLive ==
    ASSUME LiveInv, UNCHANGED <<changes, forwarded>>,
           \A o \in Objects : \A m \in LiveOf(o)' : /\ m \in LiveOf(o)
                                                  /\ \A n \in LiveOf(o) \ LiveOf(o)' : n.seq <= m.seq
    PROVE  LiveInv'
<1> SUFFICES ASSUME NEW o \in Objects, NEW m \in LiveOf(o)', IsLast(m, LiveOf(o)')
             PROVE  m.value = AsOf(o, forwarded)'
  BY DEF LiveInv
<1>1. m \in LiveOf(o) /\ IsLast(m, LiveOf(o))
  BY DEF IsLast
<1>2. m.value = AsOf(o, forwarded)
  BY <1>1 DEF LiveInv
<1> QED
  BY <1>2 DEF AsOf, ChangesOf

LEMMA SameLive == LiveInv /\ UNCHANGED <<changes, forwarded, stream>> => LiveInv'
<1> SUFFICES ASSUME LiveInv, UNCHANGED <<changes, forwarded, stream>> PROVE LiveInv'
  OBVIOUS
<1>1. \A o \in Objects : LiveOf(o)' = LiveOf(o)
  BY DEF LiveOf, AllOf
<1> QED
  BY <1>1, ShorterLive

LEMMA ChangeLive ==
    ASSUME TypeOK, LiveInv, NEW o \in Objects, ChangeObject(o)
    PROVE  LiveInv'
<1>1. PICK value \in {Absent, Len(changes) + 1} : changes' = Append(changes, [obj |-> o, value |-> value])
  BY DEF ChangeObject
<1>2. Len(changes) \in Nat /\ Len(changes) < MaxChanges /\ MaxChanges \in Nat
  BY BoundsAssumption DEF ChangeObject, TypeOK
<1>3. [obj |-> o, value |-> value] \in Change
  BY <1>2 DEF Change, Value
<1>4. forwarded \in 0..Len(changes) /\ UNCHANGED <<forwarded, stream>>
  BY DEF TypeOK, ChangeObject
<1>5. ASSUME NEW x \in Objects PROVE AsOf(x, forwarded)' = AsOf(x, forwarded)
  <2>1. PICK n \in 0..Len(changes) : n = forwarded
    BY <1>4
  <2>2. AsOf(x, n)' = AsOf(x, n)
    BY <1>1, <1>3, AsOfAppend
  <2> QED
    BY <1>4, <2>1, <2>2
<1>6. \A x \in Objects : LiveOf(x)' = LiveOf(x)
  BY <1>4 DEF LiveOf, AllOf
<1> QED
  BY <1>5, <1>6 DEF LiveInv

\* The next event: it makes its object what it is after the change, and no other.
LEMMA NextChange ==
    ASSUME TypeOK, Forward
    PROVE  /\ \A x \in Objects : changes[forwarded + 1].obj # x => AsOf(x, forwarded)' = AsOf(x, forwarded)
           /\ \A x \in Objects : changes[forwarded + 1].obj = x => AsOf(x, forwarded)' = changes[forwarded + 1].value
<1>1. forwarded \in Nat /\ forwarded' = forwarded + 1 /\ changes' = changes
  BY DEF TypeOK, Forward
<1>2. PICK n \in Nat : n = forwarded
  BY <1>1
<1>3. \A x \in Objects : AsOf(x, forwarded)' = AsOf(x, n + 1)
  BY <1>1, <1>2 DEF AsOf, ChangesOf
<1>4. ASSUME NEW x \in Objects, changes[n + 1].obj # x PROVE AsOf(x, n + 1) = AsOf(x, n)
  <2>1. \A i \in 1..(n + 1) : n < i => changes[i].obj # x
    <3>1. \A i \in 1..(n + 1) : n < i => i = n + 1
      OBVIOUS
    <3> QED
      BY <1>4, <3>1
  <2> QED
    BY <2>1, AsOfSame
<1>5. ASSUME NEW x \in Objects, changes[n + 1].obj = x PROVE AsOf(x, n + 1) = changes[n + 1].value
  BY <1>5, AsOfLast
<1> QED
  BY <1>2, <1>3, <1>4, <1>5

LEMMA LiveStep == TypeOK /\ KnownInv /\ LiveInv /\ [Next]_vars => LiveInv'
<1> SUFFICES ASSUME TypeOK, KnownInv, LiveInv, [Next]_vars PROVE LiveInv'
  OBVIOUS
<1>1. CASE Forward
  <2>1. forwarded + 1 \in 1..Len(changes) /\ forwarded' = forwarded + 1 /\ UNCHANGED changes
    BY <1>1 DEF TypeOK, Forward
  <2>2. PICK c \in Change : c = changes[forwarded + 1]
    BY <2>1 DEF TypeOK
  <2>3. c.obj \in Objects /\ c.value \in Value
    BY DEF Change
  <2>4. /\ \A x \in Objects : c.obj # x => AsOf(x, forwarded)' = AsOf(x, forwarded)
        /\ AsOf(c.obj, forwarded)' = c.value
    BY <1>1, <2>2, <2>3, NextChange
  <2>5. CASE known
    <3>1. Publish("main", c.obj, c.value)
      BY <1>1, <2>1, <2>2, <2>5 DEF Forward, PublishLive
    <3>2. /\ \A x \in Objects \ {c.obj} : LiveOf(x)' = LiveOf(x)
          /\ \A m \in LiveOf(c.obj)' : IsLast(m, LiveOf(c.obj)') => m.value = c.value
      BY <2>3, <3>1, Published
    <3> QED
      BY <2>4, <3>2 DEF LiveInv
  <2>6. CASE ~known
    <3>1. \A x \in Objects : LiveOf(x)' = LiveOf(x) /\ LiveOf(x) \subseteq stream
      BY <1>1, <2>6 DEF Forward, LiveOf, AllOf
    <3>2. \A x \in Objects : LiveOf(x) = {}
      BY <2>6 DEF LiveOf, AllOf, KnownInv
    <3> QED
      BY <3>1, <3>2 DEF LiveInv
  <2> QED
    BY <2>5, <2>6
<1>2. CASE ForwardAgain
  <2>1. forwarded \in 1..Len(changes) /\ UNCHANGED <<changes, forwarded>>
    BY <1>2 DEF TypeOK, ForwardAgain
  <2>2. PICK c \in Change : c = changes[forwarded]
    BY <2>1 DEF TypeOK
  <2>3. c.obj \in Objects /\ c.value \in Value
    BY DEF Change
  <2>4. AsOf(c.obj, forwarded) = c.value
    BY <2>1, <2>2, AsOfLast
  <2>5. \A x : AsOf(x, forwarded)' = AsOf(x, forwarded)
    BY <2>1 DEF AsOf, ChangesOf
  <2>6. Publish("main", c.obj, c.value)
    BY <1>2, <2>2 DEF ForwardAgain, PublishLive
  <2>7. /\ \A x \in Objects \ {c.obj} : LiveOf(x)' = LiveOf(x)
        /\ \A m \in LiveOf(c.obj)' : IsLast(m, LiveOf(c.obj)') => m.value = c.value
    BY <2>3, <2>6, Published
  <2> QED
    BY <2>4, <2>5, <2>7 DEF LiveInv
<1>3. CASE PublishObject
  <2>1. obj.obj \in Objects /\ obj.value \in Value
    BY DEF TypeOK
  <2>2. Publish("prefill", obj.obj, obj.value) /\ UNCHANGED <<changes, forwarded>>
    BY <1>3 DEF PublishObject, PublishInitial
  <2>3. \A x \in Objects : LiveOf(x)' = LiveOf(x)
    BY <2>1, <2>2, Published
  <2> QED
    BY <2>2, <2>3, ShorterLive
<1>4. CASE Begin
  <2>1. stream' = {m \in stream : m.subject # "prefill"} /\ UNCHANGED <<changes, forwarded>>
    BY <1>4 DEF Begin
  <2>2. \A x \in Objects : LiveOf(x)' = LiveOf(x)
    BY <2>1 DEF LiveOf, AllOf
  <2> QED
    BY <2>1, <2>2, ShorterLive
<1>5. CASE Consume
  <2>1. PICK n \in stream : stream' = stream \ {n} /\ \A m \in stream : n.seq <= m.seq
    BY <1>5 DEF Consume
  <2>2. \A x \in Objects : LiveOf(x)' = LiveOf(x) \ {n} /\ LiveOf(x) \subseteq stream
    BY <2>1 DEF LiveOf, AllOf
  <2>3. UNCHANGED <<changes, forwarded>>
    BY <1>5 DEF Consume
  <2> QED
    BY <2>1, <2>2, <2>3, ShorterLive
<1>6. ASSUME NEW o \in Objects, ChangeObject(o) PROVE LiveInv'
  BY <1>6, ChangeLive
<1> QED
  BY <1>1, <1>2, <1>3, <1>4, <1>5, <1>6, SameLive
     DEF Next, Worker, LearnSubscription, Fail, FindNothing, Park, ListObjects,
         TypeIsFilled, ReportDone, AckRequest, GetObject, ObjectIsGone

-----------------------------------------------------------------------------
(* The worker's hands *)

LEMMA SameHands ==
    ASSUME HandsInv, UNCHANGED <<changes, workerVars>>
    PROVE  HandsInv'
  BY DEF HandsInv, AsOf, ChangesOf

LEMMA HandsStep == TypeOK /\ HandsInv /\ [Next]_vars => HandsInv'
<1> SUFFICES ASSUME TypeOK, HandsInv, [Next]_vars PROVE HandsInv'
  OBVIOUS
<1>1. ASSUME NEW o \in Objects, ChangeObject(o) PROVE HandsInv'
  <2>1. PICK value \in {Absent, Len(changes) + 1} : changes' = Append(changes, [obj |-> o, value |-> value])
    BY <1>1 DEF ChangeObject
  <2>2. Len(changes) \in Nat /\ Len(changes) < MaxChanges /\ MaxChanges \in Nat
    BY <1>1, BoundsAssumption DEF ChangeObject, TypeOK
  <2>3. [obj |-> o, value |-> value] \in Change
    BY <2>2 DEF Change, Value
  <2>4. PICK x, n : x = obj.obj /\ n = obj.at /\ n \in 0..Len(changes)
    BY DEF TypeOK
  <2>5. AsOf(x, n)' = AsOf(x, n)
    BY <2>1, <2>3, <2>4, AsOfAppend
  <2>6. UNCHANGED workerVars
    BY <1>1 DEF ChangeObject
  <2> QED
    BY <2>4, <2>5, <2>6 DEF HandsInv
<1>2. ASSUME NEW o \in Objects, GetObject(o) PROVE HandsInv'
  <2>1. /\ obj' = [obj |-> o, value |-> Current(o), at |-> Len(changes)]
        /\ wpc' = "read" /\ UNCHANGED changes
    BY <1>2 DEF GetObject
  <2>2. obj'.obj = o /\ obj'.value = AsOf(o, Len(changes)) /\ obj'.at = Len(changes)
    BY <2>1 DEF Current
  <2>3. AsOf(obj.obj, obj.at)' = AsOf(o, Len(changes))
    BY <2>1, <2>2 DEF AsOf, ChangesOf
  <2> QED
    BY <2>1, <2>2, <2>3 DEF HandsInv
<1>3. Begin \/ Park \/ ListObjects \/ TypeIsFilled \/ PublishObject \/ ReportDone \/ AckRequest => HandsInv'
  BY DEF HandsInv, Begin, Park, ListObjects, TypeIsFilled, PublishObject, ReportDone, AckRequest
<1>4. GoDown => HandsInv'
  BY DEF HandsInv, GoDown
<1> QED
  BY <1>1, <1>2, <1>3, <1>4, SameHands
     DEF Next, Worker, LearnSubscription, Forward, ForwardAgain, Fail, Consume, FindNothing, ObjectIsGone

-----------------------------------------------------------------------------
(* What the consumer is told *)

LEMMA InitTold == Init => ToldInv
  BY DEF Init, ToldInv, Fine, Pending, Owed, Told, AllOf, IsLast, Current, AsOf, ChangesOf, Absent

\* Nothing happens to o but that the worker goes on.
LEMMA SameFine ==
    ASSUME NEW o \in Objects, Fine(o), UNCHANGED <<changes, forwarded, replica>>, AllOf(o)' = AllOf(o),
           Owed(o) /\ Current(o) # Absent => Owed(o)'
    PROVE  Fine(o)'
<1>1. Current(o)' = Current(o)
  BY DEF Current, AsOf, ChangesOf
<1>2. Pending(o)' = Pending(o)
  BY DEF Pending
<1>3. Told(o) => Told(o)'
  BY <1>1 DEF Told
<1> QED
  BY <1>1, <1>2, <1>3 DEF Fine

LEMMA OwedSame == ASSUME NEW o, UNCHANGED <<workerVars, status>> PROVE Owed(o)' = Owed(o)
  BY DEF Owed, Parked

LEMMA AllSame == ASSUME NEW o, UNCHANGED stream PROVE AllOf(o)' = AllOf(o)
  BY DEF AllOf

\* No change of o is on its way: it is as the dispatcher knows it.
LEMMA Arrived ==
    ASSUME TypeOK, NEW o \in Objects, ~Pending(o)
    PROVE  AsOf(o, forwarded) = Current(o)
<1>1. forwarded \in Nat /\ Len(changes) \in Nat /\ forwarded <= Len(changes)
  BY DEF TypeOK
<1>2. \A i \in 1..Len(changes) : forwarded < i => changes[i].obj # o
  BY DEF Pending
<1> QED
  BY <1>1, <1>2, AsOfSame DEF Current

LEMMA ChangeTold ==
    ASSUME TypeOK, ToldInv, NEW o \in Objects, ChangeObject(o)
    PROVE  ToldInv'
<1>1. PICK value \in {Absent, Len(changes) + 1} : changes' = Append(changes, [obj |-> o, value |-> value])
  BY DEF ChangeObject
<1>2. Len(changes) \in Nat /\ Len(changes) < MaxChanges /\ MaxChanges \in Nat /\ forwarded \in 0..Len(changes)
  BY BoundsAssumption DEF ChangeObject, TypeOK
<1>3. [obj |-> o, value |-> value] \in Change
  BY <1>2 DEF Change, Value
<1>4. changes \in Seq(Change)
  BY DEF TypeOK
<1>5. /\ Len(changes') = Len(changes) + 1
      /\ changes'[Len(changes) + 1] = [obj |-> o, value |-> value]
      /\ \A i \in 1..Len(changes) : changes'[i] = changes[i]
  BY <1>1, <1>3, <1>4
<1>6. UNCHANGED <<forwarded, queueVars, workerVars, status, replica, excused>>
  BY DEF ChangeObject
<1>7. Fine(o)'
  <2>1. Pending(o)'
    BY <1>2, <1>5, <1>6 DEF Pending
  <2> QED
    BY <2>1 DEF Fine
<1>8. ASSUME NEW x \in Objects \ {o}, Fine(x) PROVE Fine(x)'
  <2>1. Current(x)' = Current(x)
    <3>1. PICK n \in Nat : n = Len(changes)
      BY <1>2
    <3>2. AsOf(x, n)' = AsOf(x, n)
      BY <1>1, <1>2, <1>3, <3>1, AsOfAppend
    <3>3. \A i \in 1..(n + 1) : n < i => i = n + 1
      BY <3>1
    <3>4. ChangesOf(x, n + 1)' = ChangesOf(x, n)'
      BY <1>5, <3>1, <3>3 DEF ChangesOf
    <3>5. AsOf(x, n + 1)' = AsOf(x, n)'
      BY <3>4 DEF AsOf
    <3> QED
      BY <1>5, <3>1, <3>2, <3>5 DEF Current
  <2>2. Pending(x) => Pending(x)'
    BY <1>2, <1>5, <1>6 DEF Pending
  <2>3. Told(x) => Told(x)'
    BY <1>6, <2>1 DEF Told, AllOf
  <2>4. Owed(x)' = Owed(x)
    BY <1>6, OwedSame
  <2> QED
    BY <1>8, <2>1, <2>2, <2>3, <2>4 DEF Fine
<1> QED
  BY <1>6, <1>7, <1>8 DEF ToldInv

LEMMA ForwardTold == TypeOK /\ ToldInv /\ Forward => ToldInv'
<1> SUFFICES ASSUME TypeOK, ToldInv, Forward PROVE ToldInv'
  OBVIOUS
<1>1. forwarded \in Nat /\ forwarded + 1 \in 1..Len(changes) /\ forwarded' = forwarded + 1 /\ Len(changes) \in Nat
  BY DEF TypeOK, Forward
<1>2. PICK c \in Change : c = changes[forwarded + 1]
  BY <1>1 DEF TypeOK
<1>3. c.obj \in Objects /\ c.value \in Value
  BY DEF Change
<1>4. UNCHANGED <<changes, workerVars, status, replica>>
  BY DEF Forward
<1>5. ASSUME NEW x \in Objects PROVE Current(x)' = Current(x)
  BY <1>4 DEF Current, AsOf, ChangesOf
<1>6. \A x \in Objects \ {c.obj} : Pending(x) => Pending(x)'
  <2>1. \A i \in 1..Len(changes) : forwarded < i => i = forwarded + 1 \/ forwarded' < i
    BY <1>1
  <2> QED
    BY <1>2, <1>4, <2>1 DEF Pending
<1>7. ASSUME NEW x \in Objects \ {c.obj}, Fine(x), AllOf(x)' = AllOf(x) PROVE Fine(x)'
  <2>1. Told(x) => Told(x)'
    BY <1>4, <1>5, <1>7 DEF Told
  <2>2. Owed(x)' = Owed(x)
    BY <1>4, OwedSame
  <2> QED
    BY <1>5, <1>6, <1>7, <2>1, <2>2 DEF Fine
<1>8. CASE known
  <2>1. Publish("main", c.obj, c.value) /\ excused' = excused \ {c.obj}
    BY <1>1, <1>2, <1>8 DEF Forward, PublishLive
  <2>2. /\ \A x \in Objects \ {c.obj} : AllOf(x)' = AllOf(x)
        /\ AllOf(c.obj)' # {}
        /\ \A m \in AllOf(c.obj)' : IsLast(m, AllOf(c.obj)') => m.value = c.value
    BY <1>3, <2>1, Published
  <2>3. ASSUME ~Pending(c.obj)' PROVE Current(c.obj)' = c.value
    <3>1. PICK n \in Nat : n = forwarded + 1
      BY <1>1
    <3>2. \A i \in 1..Len(changes) : n < i => changes[i].obj # c.obj
      BY <1>1, <1>4, <2>3, <3>1 DEF Pending
    <3>3. AsOf(c.obj, n) = Current(c.obj)
      BY <1>1, <3>1, <3>2, AsOfSame DEF Current
    <3>4. AsOf(c.obj, n) = c.value
      BY <1>1, <1>2, <3>1, AsOfLast
    <3> QED
      BY <1>3, <1>5, <3>3, <3>4
  <2>4. Fine(c.obj)'
    BY <2>2, <2>3 DEF Fine, Told
  <2> QED
    BY <1>7, <2>1, <2>2, <2>4 DEF ToldInv
<1>9. CASE ~known
  <2>1. excused' = excused \cup {c.obj} /\ UNCHANGED stream
    BY <1>1, <1>2, <1>9 DEF Forward
  <2>2. \A x \in Objects : AllOf(x)' = AllOf(x)
    BY <2>1 DEF AllOf
  <2> QED
    BY <1>7, <2>1, <2>2 DEF ToldInv
<1> QED
  BY <1>8, <1>9

LEMMA ForwardAgainTold == TypeOK /\ ToldInv /\ ForwardAgain => ToldInv'
<1> SUFFICES ASSUME TypeOK, ToldInv, ForwardAgain PROVE ToldInv'
  OBVIOUS
<1>1. forwarded \in 1..Len(changes) /\ UNCHANGED <<changes, forwarded, workerVars, status, replica, excused>>
  BY DEF TypeOK, ForwardAgain
<1>2. PICK c \in Change : c = changes[forwarded]
  BY <1>1 DEF TypeOK
<1>3. c.obj \in Objects /\ c.value \in Value
  BY DEF Change
<1>4. Publish("main", c.obj, c.value)
  BY <1>2 DEF ForwardAgain, PublishLive
<1>5. /\ \A x \in Objects \ {c.obj} : AllOf(x)' = AllOf(x)
      /\ AllOf(c.obj)' # {}
      /\ \A m \in AllOf(c.obj)' : IsLast(m, AllOf(c.obj)') => m.value = c.value
  BY <1>3, <1>4, Published
<1>6. AsOf(c.obj, forwarded) = c.value
  BY <1>1, <1>2, AsOfLast
<1>7. Fine(c.obj)'
  <2>1. Pending(c.obj)' = Pending(c.obj) /\ Current(c.obj)' = Current(c.obj)
    BY <1>1 DEF Pending, Current, AsOf, ChangesOf
  <2>2. ~Pending(c.obj) => Current(c.obj) = c.value
    BY <1>3, <1>6, Arrived
  <2> QED
    BY <1>5, <2>1, <2>2 DEF Fine, Told
<1>8. \A x \in Objects \ {c.obj} : Fine(x) => Fine(x)'
  BY <1>1, <1>5, SameFine, OwedSame
<1> QED
  BY <1>1, <1>7, <1>8 DEF ToldInv

\* The prefill starts: what was published of it is gone, and owed again.
LEMMA BeginTold ==
    TypeOK /\ InitialInv /\ KnownInv /\ LiveInv /\ ToldInv /\ Begin => ToldInv'
<1> SUFFICES ASSUME TypeOK, InitialInv, LiveInv, ToldInv, Begin, NEW x \in Objects, x \notin excused',
                    ~Pending(x)', ~(Owed(x)' /\ Current(x)' # Absent)
             PROVE  Told(x)'
  BY DEF ToldInv, Fine
<1>1. /\ UNCHANGED <<changes, forwarded, replica>> /\ wpc = "idle" /\ wpc' = "types" /\ todo' = Places
      /\ stream' = {m \in stream : m.subject # "prefill"}
      /\ excused' = {o \in excused : replica[o] # Absent}
  BY DEF Begin
<1>2. Current(x)' = Current(x) /\ Pending(x)' = Pending(x)
  BY <1>1 DEF Current, Pending, AsOf, ChangesOf
<1>3. Current(x) = Absent
  <2>1. Owed(x)'
    BY <1>1, PlaceOf DEF Owed
  <2> QED
    BY <1>2, <2>1
<1>4. AllOf(x)' = LiveOf(x)
  BY <1>1 DEF AllOf, LiveOf, TypeOK, Message
<1>5. \A m \in AllOf(x)' : IsLast(m, AllOf(x)') => m.value = Current(x)'
  <2>1. AsOf(x, forwarded) = Current(x)
    BY <1>2, Arrived
  <2> QED
    BY <1>2, <1>4, <2>1 DEF LiveInv
<1>6. ASSUME AllOf(x)' = {}, x \notin excused PROVE replica[x] = Absent
  <2>1. Told(x)
    BY <1>2, <1>3, <1>6 DEF ToldInv, Fine
  <2>2. AllOf(x) = {}
    <3> SUFFICES ASSUME AllOf(x) # {} PROVE FALSE
      OBVIOUS
    <3>1. PICK m \in AllOf(x) : IsLast(m, AllOf(x))
      BY LastThere
    <3>2. m.value = Absent
      BY <1>3, <2>1, <3>1 DEF Told
    <3>3. m.subject = "prefill"
      BY <1>4, <1>6 DEF LiveOf, AllOf, TypeOK, Message
    <3> QED
      BY <3>2, <3>3 DEF InitialInv, AllOf
  <2> QED
    BY <1>3, <2>1, <2>2 DEF Told
<1>7. AllOf(x)' = {} => replica'[x] = Current(x)'
  BY <1>1, <1>2, <1>3, <1>6
<1> QED
  BY <1>5, <1>7 DEF Told

LEMMA PublishObjectTold == TypeOK /\ HandsInv /\ ToldInv /\ PublishObject => ToldInv'
<1> SUFFICES ASSUME TypeOK, HandsInv, ToldInv, PublishObject PROVE ToldInv'
  OBVIOUS
<1>1. PICK o \in Objects, value \in Value, n \in 0..Len(changes) : obj.obj = o /\ obj.value = value /\ obj.at = n
  BY DEF TypeOK
<1>2. /\ UNCHANGED <<changes, forwarded, replica, todo, urls>> /\ wpc = "read" /\ wpc' = "objects"
      /\ Publish("prefill", o, value)
      /\ excused' = IF Overtaken THEN excused \cup {o} ELSE excused
  BY <1>1 DEF PublishObject, PublishInitial
<1>3. /\ \A x \in Objects \ {o} : AllOf(x)' = AllOf(x)
      /\ AllOf(o)' # {}
      /\ \A m \in AllOf(o)' : IsLast(m, AllOf(o)') => m.value = value
  BY <1>2, Published
<1>4. ASSUME o \notin excused' PROVE Fine(o)'
  <2>1. \A i \in 1..forwarded : changes[i].obj = o => ~(i > n)
    BY <1>1, <1>2, <1>4 DEF Overtaken, ChangesOf
  <2>2. Pending(o)' = Pending(o) /\ Current(o)' = Current(o)
    BY <1>2 DEF Pending, Current, AsOf, ChangesOf
  <2>3. ASSUME ~Pending(o) PROVE Current(o) = value
    <3>1. forwarded \in Nat /\ Len(changes) \in Nat
      BY DEF TypeOK
    <3>2. \A i \in 1..Len(changes) : forwarded < i => changes[i].obj # o
      BY <2>3 DEF Pending
    <3>3. \A i \in 1..Len(changes) : n < i => changes[i].obj # o
      BY <2>1, <3>1, <3>2
    <3>4. AsOf(o, n) = AsOf(o, Len(changes))
      BY <3>1, <3>3, AsOfSame
    <3> QED
      BY <1>1, <1>2, <3>4 DEF HandsInv, Current
  <2> QED
    BY <1>3, <2>2, <2>3 DEF Fine, Told
<1>5. ASSUME NEW x \in Objects \ {o}, Fine(x) PROVE Fine(x)'
  <2>1. Owed(x) => Owed(x)'
    BY <1>1, <1>2 DEF Owed, Parked
  <2> QED
    BY <1>2, <1>3, <1>5, <2>1, SameFine
<1>6. excused \subseteq excused'
  BY <1>2
<1> QED
  BY <1>4, <1>5, <1>6 DEF ToldInv

\* The steps of the worker that leave the stream as it is: none forgets an object
\* that is owed.
LEMMA OwedStays ==
    ASSUME TypeOK, HandsInv, NEW x \in Objects, Owed(x), Current(x) # Absent,
           \/ Park \/ ListObjects \/ TypeIsFilled \/ ReportDone \/ AckRequest \/ GoDown
           \/ \E o \in Objects : GetObject(o)
    PROVE  Owed(x)'
<1>1. CASE ListObjects
  <2>1. PICK p \in todo : todo' = todo \ {p} /\ urls' = Listed(ObjectTypes[p[2]])
    BY <1>1 DEF ListObjects
  <2>2. wpc = "types" /\ wpc' = "objects"
    BY <1>1 DEF ListObjects
  <2>3. PICK q \in todo : ObjectTypes[q[2]] = TypeOf[x]
    BY <2>2 DEF Owed, Parked
  <2>4. CASE q = p
    BY <2>1, <2>2, <2>3, <2>4 DEF Owed, Listed
  <2>5. CASE q # p
    BY <2>1, <2>2, <2>3, <2>5 DEF Owed
  <2> QED
    BY <2>4, <2>5
<1>2. CASE Park \/ TypeIsFilled
  BY <1>2 DEF Park, TypeIsFilled, Owed, Parked
<1>3. CASE ReportDone
  BY <1>3 DEF ReportDone, Owed, Parked
<1>4. CASE AckRequest
  BY <1>4 DEF AckRequest, Owed, Parked
<1>5. CASE GoDown
  BY <1>5 DEF GoDown, Owed
<1>6. ASSUME NEW o \in Objects, GetObject(o) PROVE Owed(x)'
  <2>1. obj'.obj = o
    BY <1>6 DEF GetObject
  <2> QED
    BY <1>6, <2>1 DEF GetObject, Owed, Parked
<1> QED
  BY <1>1, <1>2, <1>3, <1>4, <1>5, <1>6

LEMMA WorkerTold ==
    TypeOK /\ InitialInv /\ KnownInv /\ LiveInv /\ HandsInv /\ ToldInv /\ (Worker \/ Fail) => ToldInv'
<1> SUFFICES ASSUME TypeOK, InitialInv, KnownInv, LiveInv, HandsInv, ToldInv, Worker \/ Fail PROVE ToldInv'
  OBVIOUS
<1>1. ASSUME Park \/ ListObjects \/ TypeIsFilled \/ ReportDone \/ AckRequest \/ GoDown,
             UNCHANGED <<outside, queueVars, excused>>
      PROVE  ToldInv'
  <2>1. \A x \in Objects : Fine(x) => Fine(x)'
    BY <1>1, OwedStays, AllSame, SameFine
  <2> QED
    BY <1>1, <2>1 DEF ToldInv
<1>2. ASSUME NEW o \in Objects, GetObject(o) PROVE ToldInv'
  <2>1. UNCHANGED <<outside, queueVars>> /\ excused' = excused \ {o}
    BY <1>2 DEF GetObject
  <2>2. \A x \in Objects : Fine(x) => Fine(x)'
    BY <1>2, <2>1, OwedStays, AllSame, SameFine
  <2>3. Fine(o)'
    <3>1. Current(o)' # Absent
      BY <1>2 DEF GetObject, Current, AsOf, ChangesOf
    <3>2. Owed(o)'
      BY <1>2 DEF GetObject, Owed
    <3> QED
      BY <3>1, <3>2 DEF Fine
  <2> QED
    BY <2>1, <2>2, <2>3 DEF ToldInv
<1>3. CASE ListObjects
  BY <1>1, <1>3 DEF ListObjects
<1>4. CASE Park \/ TypeIsFilled \/ ReportDone \/ AckRequest
  BY <1>1, <1>4 DEF Park, TypeIsFilled, ReportDone, AckRequest
<1>5. CASE Fail
  BY <1>1, <1>5 DEF Fail
<1>6. ASSUME NEW o \in Objects, ObjectIsGone(o) PROVE ToldInv'
  BY <1>1, <1>6 DEF ObjectIsGone
<1> QED
  BY <1>2, <1>3, <1>4, <1>5, <1>6, BeginTold, PublishObjectTold DEF Worker

LEMMA ConsumeTold == TypeOK /\ ToldInv /\ Consume => ToldInv'
<1> SUFFICES ASSUME TypeOK, ToldInv, Consume PROVE ToldInv'
  OBVIOUS
<1>1. PICK m \in stream : /\ \A n \in stream : m.seq <= n.seq
                          /\ replica' = [replica EXCEPT ![m.obj] = m.value]
                          /\ stream' = stream \ {m}
  BY DEF Consume
<1>2. UNCHANGED <<changes, forwarded, workerVars, status, excused>>
  BY DEF Consume
<1>3. m \in Message /\ m.obj \in Objects
  BY DEF TypeOK, Message
<1>4. ASSUME NEW x \in Objects, Fine(x) PROVE Fine(x)'
  <2>1. Current(x)' = Current(x) /\ Pending(x)' = Pending(x) /\ Owed(x)' = Owed(x)
    BY <1>2, OwedSame DEF Current, Pending, AsOf, ChangesOf
  <2>2. CASE x # m.obj
    <3>1. AllOf(x)' = AllOf(x) /\ replica'[x] = replica[x]
      BY <1>1, <2>2 DEF AllOf, TypeOK
    <3> QED
      BY <1>4, <2>1, <3>1 DEF Fine, Told
  <2>3. CASE x = m.obj
    <3>1. AllOf(x)' = AllOf(x) \ {m} /\ replica'[x] = m.value /\ m \in AllOf(x) /\ AllOf(x) \subseteq stream
      BY <1>1, <1>3, <2>3 DEF AllOf, TypeOK
    <3>2. \A n \in AllOf(x)' : IsLast(n, AllOf(x)') => n \in AllOf(x) /\ IsLast(n, AllOf(x))
      BY <1>1, <3>1 DEF IsLast
    <3>3. AllOf(x)' = {} => IsLast(m, AllOf(x))
      BY <1>3, <3>1 DEF IsLast, Message
    <3>4. Told(x) => Told(x)'
      BY <2>1, <3>1, <3>2, <3>3 DEF Told
    <3> QED
      BY <1>4, <2>1, <3>4 DEF Fine
  <2> QED
    BY <2>2, <2>3
<1> QED
  BY <1>2, <1>4 DEF ToldInv

LEMMA ToldStep == TypeOK /\ IInv /\ [Next]_vars => ToldInv'
<1> SUFFICES ASSUME TypeOK, IInv, [Next]_vars PROVE ToldInv'
  OBVIOUS
<1>1. InitialInv /\ KnownInv /\ LiveInv /\ HandsInv /\ ToldInv
  BY DEF IInv
<1>2. UNCHANGED <<changes, forwarded, stream, workerVars, status, replica, excused>> => ToldInv'
  BY <1>1, OwedSame, AllSame, SameFine DEF ToldInv
<1>3. ASSUME NEW o \in Objects, ChangeObject(o) PROVE ToldInv'
  BY <1>1, <1>3, ChangeTold
<1>4. Worker \/ Fail => ToldInv'
  BY <1>1, WorkerTold
<1>5. Forward \/ ForwardAgain \/ Consume => ToldInv'
  BY <1>1, ForwardTold, ForwardAgainTold, ConsumeTold
<1>6. LearnSubscription \/ FindNothing => ToldInv'
  BY <1>2 DEF LearnSubscription, FindNothing
<1> QED
  BY <1>2, <1>3, <1>4, <1>5, <1>6 DEF Next

-----------------------------------------------------------------------------
(* The purpose of the prefill *)

\* Whenever everything has come to rest, the consumer has every object as it is, but
\* for those of the two races: however often the worker starts over, whatever is
\* changed, made or removed meanwhile, and wherever the live events come in between.
THEOREM ReplicaEndsCurrent == Spec => []ReplicaIsCurrentUnlessExcused
<1>1. Init => IInv
  BY InitStream, InitTold DEF IInv
<1>2. TypeOK /\ IInv /\ [Next]_vars => IInv'
  BY InitialStep, KnownStep, LiveStep, HandsStep, ToldStep DEF IInv
<1>3. TypeOK /\ IInv => ReplicaIsCurrentUnlessExcused
  <2> SUFFICES ASSUME TypeOK, ToldInv, AtRest, NEW o \in Objects \ excused PROVE replica[o] = Current(o)
    BY DEF IInv, ReplicaIsCurrentUnlessExcused
  <2>1. ~Pending(o)
    BY DEF AtRest, Pending, TypeOK
  <2>2. ~Owed(o)
    BY DEF AtRest, Owed, Parked
  <2>3. AllOf(o) = {}
    BY DEF AtRest, AllOf
  <2> QED
    BY <2>1, <2>2, <2>3 DEF ToldInv, Fine, Told
<1> QED
  BY <1>1, <1>2, <1>3, TypeCorrect, PTL DEF Spec

=============================================================================
