---------------------------- MODULE InitialState ----------------------------
(***************************************************************************)
(* What a prefill is for: a consumer that starts with nothing and applies  *)
(* what it gets ends up with the UDM objects as they are.  Two writers     *)
(* fill the one stream of the subscription.  The prefill worker lists the  *)
(* objects of the requested types, reads each of them and publishes it     *)
(* (src/src/server/core/prefill/service/udm_prefill.py,                    *)
(* src/src/server/adapters/udm_adapter.py).  The dispatcher publishes the  *)
(* changes, in order, from the moment its mapping knows the subscription;  *)
(* nothing makes the worker wait for that.                                 *)
(*                                                                         *)
(* One registered subscription; the objects change meanwhile.  Transformer *)
(* and Dispatcher show what is used here of the way of a change: order, no *)
(* omission, repetitions only before the next change.                      *)
(***************************************************************************)
EXTENDS Integers, Sequences, FiniteSetsExt, Functions

CONSTANTS
    Objects,        \* UDM objects of requested types
    Initially,      \* those that are there at first
    ObjectTypes,    \* the object types of UDM, in the order it gives them
    TypeOf,         \* the type of each object
    Topics,         \* the topics of the subscription, in order
    Matching,       \* the pairs of a topic, an expression, and an object type it matches
    MaxAttempts,    \* max_prefill_attempts, -1 for no limit
    MaxChanges,     \* bound: changes of objects
    MaxFaults       \* bound: crashes and failing steps of the worker, lost acknowledgements

ASSUME ObjectsAssumption ==
    /\ Objects # {} /\ Initially \subseteq Objects
    /\ TypeOf \in [Objects -> Range(ObjectTypes)]
    /\ Matching \subseteq Range(Topics) \X Range(ObjectTypes)
    /\ \A o \in Objects : \E topic \in Range(Topics) : <<topic, TypeOf[o]>> \in Matching
ASSUME AttemptsAssumption == MaxAttempts \in Nat \cup {-1}
ASSUME BoundsAssumption == {MaxChanges, MaxFaults} \subseteq Nat

VARIABLES
    \* UDM, and the way of its changes to the dispatcher
    changes,        \* all changes since the registration: [obj, value]
    forwarded,      \* how many of them the dispatcher has dealt with
    known,          \* whether its mapping has the subscription
    \* the subscription on the NATS server
    stream,         \* messages published, and not purged or consumed
    lastSeq,        \* sequence number of the last one that was published
    status,         \* prefill_queue_status
    \* the prefill worker
    wpc,            \* "idle", "types", "objects", "read", "done", "ack" or "end"
    todo,           \* where the types are that are still to be filled, see Places
    urls,           \* objects of the present type still to be read
    attempts,       \* num_delivered of the request
    obj,            \* the object read, with its number: [obj, value, at]
    \* the REST API and the consumer
    open,           \* MessageService._subscription_prefill_done for the subscription
    replica,        \* what the consumer knows of each object
    \* bound and history
    faults,
    excused         \* objects that the two races below may have made stale

udmVars == <<changes, forwarded, known>>
queueVars == <<stream, lastSeq>>
workerVars == <<wpc, todo, urls, attempts, obj>>
vars == <<udmVars, queueVars, status, workerVars, open, replica, faults, excused>>

\* An object is known by the number of the change that made it, 0 before the first;
\* Absent stands for no object.
Absent == -1
Value == {Absent} \cup 0..MaxChanges
Change == [obj : Objects, value : Value]
Message == [seq : 1..lastSeq, subject : {"main", "prefill"}, obj : Objects, value : Value]
NoObject == [obj |-> CHOOSE o \in Objects : TRUE, value |-> Absent, at |-> 0]

\* fetch_udm: for each topic, the object types that match it, the same ones if need
\* be.  A place is the position of a topic and that of a type.
Places == {p \in (DOMAIN Topics) \X (DOMAIN ObjectTypes) : <<Topics[p[1]], ObjectTypes[p[2]]>> \in Matching}
Before(p, q) == p[1] < q[1] \/ (p[1] = q[1] /\ p[2] < q[2])

\* The changes of o up to the n-th, and what they made of o.
ChangesOf(o, n) == {i \in 1..n : changes[i].obj = o}
AsOf(o, n) == IF ChangesOf(o, n) # {} THEN changes[Max(ChangesOf(o, n))].value
              ELSE IF o \in Initially THEN 0 ELSE Absent
Current(o) == AsOf(o, Len(changes))
Listed(type) == {o \in Objects : TypeOf[o] = type /\ Current(o) # Absent}

TypeOK ==
    /\ changes \in Seq(Change) /\ Len(changes) <= MaxChanges
    /\ forwarded \in 0..Len(changes)
    /\ known \in BOOLEAN
    /\ lastSeq \in Nat /\ stream \subseteq Message
    /\ status \in {"pending", "running", "done", "failed"}
    /\ wpc \in {"idle", "types", "objects", "read", "done", "ack", "end"}
    /\ todo \subseteq Places
    /\ urls \subseteq Objects
    /\ attempts \in Nat
    /\ obj \in [obj : Objects, value : Value, at : 0..Len(changes)]
    /\ wpc = "read" => obj.value # Absent
    /\ open \in BOOLEAN
    /\ replica \in [Objects -> Value]
    /\ faults \in 0..MaxFaults
    /\ excused \subseteq Objects

\* The subscription has been stored and its request for a prefill queued.
Init ==
    /\ changes = <<>> /\ forwarded = 0 /\ known \in BOOLEAN
    /\ stream = {} /\ lastSeq = 0 /\ status = "pending"
    /\ wpc = "idle" /\ todo = {} /\ urls = {} /\ attempts = 0 /\ obj = NoObject
    /\ open = FALSE /\ replica = [o \in Objects |-> Absent]
    /\ faults = 0 /\ excused = {}

-----------------------------------------------------------------------------
(* The two subjects of the stream *)

Publish(subject, o, value) ==
    /\ lastSeq' = lastSeq + 1
    /\ stream' = stream \cup {[seq |-> lastSeq + 1, subject |-> subject, obj |-> o, value |-> value]}

PublishLive(o, value) == Publish("main", o, value)
PublishInitial(o, value) == Publish("prefill", o, value)

-----------------------------------------------------------------------------
(* UDM and the dispatcher *)

ChangeObject(o) ==
    /\ Len(changes) < MaxChanges
    /\ \E value \in {Absent, Len(changes) + 1} :
         /\ value = Absent => Current(o) # Absent
         /\ changes' = Append(changes, [obj |-> o, value |-> value])
    /\ UNCHANGED <<forwarded, known, queueVars, status, workerVars, open, replica, faults, excused>>

\* The dispatcher's watch tells it of the subscription.
LearnSubscription ==
    /\ ~known
    /\ known' = TRUE
    /\ UNCHANGED <<changes, forwarded, queueVars, status, workerVars, open, replica, faults, excused>>

\* It deals with the next event.  First race: an object may have been read before
\* a change of which the subscription does not hear.
Forward ==
    /\ forwarded < Len(changes)
    /\ forwarded' = forwarded + 1
    /\ LET c == changes[forwarded'] IN
         IF known THEN /\ PublishLive(c.obj, c.value)
                       /\ excused' = excused \ {c.obj}
                  ELSE /\ excused' = excused \cup {c.obj}
                       /\ UNCHANGED queueVars
    /\ UNCHANGED <<changes, known, status, workerVars, open, replica, faults>>

\* The dispatcher is restarted, or its acknowledgement gets lost: the event comes
\* to the subscription once more, before the next one.
ForwardAgain ==
    /\ faults < MaxFaults /\ faults' = faults + 1
    /\ known /\ forwarded > 0
    /\ PublishLive(changes[forwarded].obj, changes[forwarded].value)
    /\ UNCHANGED <<udmVars, status, workerVars, open, replica, excused>>

-----------------------------------------------------------------------------
(* The prefill worker *)

outside == <<udmVars, open, replica>>

\* num_delivered of the next delivery is beyond the limit.
Exhausted == MaxAttempts # -1 /\ attempts >= MaxAttempts

\* Mutant: the live events are purged as well.
BeginWithEmptyStream ==
    /\ wpc = "idle" /\ ~Exhausted
    /\ attempts' = attempts + 1
    /\ stream' = {}
    /\ wpc' = "types" /\ todo' = Places
    /\ UNCHANGED <<outside, lastSeq, status, urls, obj, faults, excused>>

\* A delivery of the request: the prefill subject is purged.
Begin ==
    /\ wpc = "idle" /\ ~Exhausted
    /\ attempts' = attempts + 1
    /\ stream' = {m \in stream : m.subject # "prefill"}
    /\ excused' = {o \in excused : replica[o] # Absent}
    /\ wpc' = "types" /\ todo' = Places
    /\ UNCHANGED <<outside, lastSeq, status, urls, obj, faults>>

\* A delivery beyond the limit: the failure is reported, and the request is over.
Park ==
    /\ wpc = "idle" /\ Exhausted
    /\ status' = "failed"
    /\ wpc' = "ack"
    /\ UNCHANGED <<outside, queueVars, todo, urls, attempts, obj, faults, excused>>

\* The next object type: running is reported, and its objects are listed.
ListObjects ==
    /\ wpc = "types"
    /\ \E p \in todo :
         /\ \A q \in todo \ {p} : Before(p, q)
         /\ todo' = todo \ {p}
         /\ urls' = Listed(ObjectTypes[p[2]])
    /\ status' = "running"
    /\ wpc' = "objects"
    /\ UNCHANGED <<outside, queueVars, attempts, obj, faults, excused>>

TypeIsFilled ==
    /\ wpc = "objects" /\ urls = {}
    /\ wpc' = "types"
    /\ UNCHANGED <<outside, queueVars, status, todo, urls, attempts, obj, faults, excused>>

\* Mutant: an empty answer is taken for an object.
GetWhateverComes(o) ==
    /\ wpc = "objects" /\ o \in urls
    /\ obj' = [obj |-> o, value |-> Current(o), at |-> Len(changes)]
    /\ urls' = urls \ {o}
    /\ excused' = excused \ {o}
    /\ wpc' = "read"
    /\ UNCHANGED <<outside, queueVars, status, todo, attempts, faults>>

\* The whole object is read, if it is still there.
GetObject(o) ==
    /\ wpc = "objects" /\ o \in urls
    /\ Current(o) # Absent
    /\ obj' = [obj |-> o, value |-> Current(o), at |-> Len(changes)]
    /\ urls' = urls \ {o}
    /\ excused' = excused \ {o}
    /\ wpc' = "read"
    /\ UNCHANGED <<outside, queueVars, status, todo, attempts, faults>>

\* Second race: the dispatcher may have published a later change meanwhile.
Overtaken == \E i \in ChangesOf(obj.obj, forwarded) : i > obj.at

PublishObject ==
    /\ wpc = "read"
    /\ PublishInitial(obj.obj, obj.value)
    /\ excused' = IF Overtaken THEN excused \cup {obj.obj} ELSE excused
    /\ wpc' = "objects" /\ obj' = NoObject
    /\ UNCHANGED <<outside, status, todo, urls, attempts, faults>>

ReportDone ==
    /\ wpc = "types"
    /\ todo = {}
    /\ status' = "done"
    /\ wpc' = "ack"
    /\ UNCHANGED <<outside, queueVars, todo, urls, attempts, obj, faults, excused>>

AckRequest ==
    /\ wpc = "ack"
    /\ wpc' = "end"
    /\ UNCHANGED <<outside, queueVars, status, todo, urls, attempts, obj, faults, excused>>

\* The process ends, the request is delivered again.
GoDown == wpc' = "idle" /\ todo' = {} /\ urls' = {} /\ obj' = NoObject

\* Mutant: the request for the object is repeated.
AskAgain(o) ==
    /\ wpc = "objects" /\ o \in urls
    /\ Current(o) = Absent
    /\ UNCHANGED vars

\* The object was removed since it was listed: the response is 404.
ObjectIsGone(o) ==
    /\ wpc = "objects" /\ o \in urls
    /\ Current(o) = Absent
    /\ GoDown
    /\ UNCHANGED <<outside, queueVars, status, attempts, faults, excused>>

\* A step fails, the process dies, or the acknowledgement is lost.
Fail ==
    /\ faults < MaxFaults /\ faults' = faults + 1
    /\ wpc \notin {"idle", "end"}
    /\ GoDown
    /\ UNCHANGED <<outside, queueVars, status, attempts, excused>>

Worker ==
    \/ Begin \/ Park \/ ListObjects \/ TypeIsFilled \/ PublishObject \/ ReportDone \/ AckRequest
    \/ \E o \in Objects : GetObject(o) \/ ObjectIsGone(o)

-----------------------------------------------------------------------------
(* The consumer *)

\* The gate of GET .../messages/next: done, or found empty since it was.
Served == status = "done" \/ open

\* One message after the other, from either subject; the consumer handles it and
\* acknowledges it.  (Messages has the repetitions in between.)
Consume ==
    /\ Served
    /\ \E m \in stream :
         /\ \A n \in stream : m.seq <= n.seq
         /\ replica' = [replica EXCEPT ![m.obj] = m.value]
         /\ stream' = stream \ {m}
    /\ UNCHANGED <<udmVars, lastSeq, status, workerVars, open, faults, excused>>

FindNothing ==
    /\ Served
    /\ stream = {}
    /\ open' = TRUE
    /\ UNCHANGED <<udmVars, queueVars, status, workerVars, replica, faults, excused>>

Next ==
    \/ \E o \in Objects : ChangeObject(o)
    \/ LearnSubscription
    \/ Forward
    \/ ForwardAgain
    \/ Worker
    \/ Fail
    \/ Consume
    \/ FindNothing

Spec == Init /\ [][Next]_vars

\* The dispatcher, the worker, which is restarted, and the consumer go on.
FairSpec ==
    /\ Spec
    /\ WF_vars(LearnSubscription) /\ WF_vars(Forward)
    /\ WF_vars(Worker)
    /\ WF_vars(Consume)

-----------------------------------------------------------------------------
(* Properties *)

\* Every change has passed, the prefill is over, the consumer has got everything.
AtRest == forwarded = Len(changes) /\ wpc = "end" /\ status = "done" /\ stream = {}

\* Every change has passed, and the prefill was given up.
GivenUp == forwarded = Len(changes) /\ wpc = "end" /\ status = "failed" /\ Exhausted

\* "it can request to be informed about the current state of objects"
\* (docs/prefill.md): in the end the consumer has every object as it is.
ReplicaIsCurrent == AtRest => \A o \in Objects : replica[o] = Current(o)

\* It has, through restarts of the prefill, changes and removals while it runs, and
\* live events before, between and after the initial state, for every object but
\* those of the two races: a change that passes the dispatcher while it does not
\* know the subscription yet, and the worker publishing an object after a later
\* change of it.
ReplicaIsCurrentUnlessExcused ==
    AtRest => \A o \in Objects \ excused : replica[o] = Current(o)

\* The prefill ends and the consumer comes to rest, as soon as nothing changes any
\* more, unless the attempts are used up: an object that is removed while the prefill
\* runs makes it start over.
ComesToRest == <>[](AtRest \/ GivenUp)

=============================================================================
