------------------------------ MODULE Transformer ------------------------------
(***************************************************************************)
(* The listener and the UDM transformer: the listener puts every LDAP      *)
(* change into a work queue, the transformer takes them one by one, looks  *)
(* up the UDM object as it was before in a cache, transforms the LDAP      *)
(* object as it is now, stores it in the cache and posts an event with     *)
(* both to the REST API, which publishes it to the dispatcher stream       *)
(* (src/provisioning-listener/provisioning_listener/service.py,            *)
(* src/src/udm_transformer).                                               *)
(*                                                                         *)
(* A change is known by its number, and so is the object as the change     *)
(* left it; 0 stands for the empty object.  A removed object does not come *)
(* back: a new one has another entryUUID.                                  *)
(***************************************************************************)
EXTENDS Integers, Sequences, FiniteSets

CONSTANTS
    Objects,        \* LDAP objects (entryUUIDs)
    Unsupported,    \* those whose type is unknown, or may fail to be transformed
    MaxChanges,     \* bound: LDAP changes
    MaxFaults       \* bound: failing steps, crashes and lost acknowledgements

ASSUME ObjectsAssumption == Unsupported \subseteq Objects
ASSUME BoundsAssumption == {MaxChanges, MaxFaults} \subseteq Nat

VARIABLES
    \* LDAP and the stream of its changes
    changes,        \* all changes the listener published
    present,        \* "never", "present" or "gone", for each object
    handled,        \* how many changes were acknowledged, in the order of the work queue
    \* what the transformer leaves behind
    cache,          \* bucket "CACHE": the number of the change that made the stored object, or 0
    events,         \* the events published to the dispatcher stream
    \* the transformer
    tpc,            \* "down", "idle", "retrieve", "transform", "store", "send" or "ack"
    old, new,       \* the objects before and after, as handle_changes knows them
    \* bound and history
    faults

transformerVars == <<tpc, old, new>>
vars == <<changes, present, handled, cache, events, transformerVars, faults>>

\* Whether the listener gave an object before and an object after.
ChangeRecord == [obj : Objects, old : BOOLEAN, new : BOOLEAN]
Event == [change : 1..MaxChanges, old : 0..MaxChanges, new : 0..MaxChanges]

TypeOK ==
    /\ changes \in Seq(ChangeRecord) /\ Len(changes) <= MaxChanges
    /\ present \in [Objects -> {"never", "present", "gone"}]
    /\ handled \in 0..Len(changes)
    /\ cache \in [Objects -> 0..Len(changes)]
    /\ events \in Seq(Event)
    /\ tpc \in {"down", "idle", "retrieve", "transform", "store", "send", "ack"}
    /\ tpc \notin {"down", "idle"} => handled < Len(changes)
    /\ {old, new} \subseteq 0..(handled + 1)
    /\ tpc = "send" => old # 0 \/ new # 0
    /\ faults \in 0..MaxFaults

\* Objects may have been there before the listener; the cache knows none of them.
Init ==
    /\ changes = <<>> /\ handled = 0
    /\ present \in [Objects -> {"never", "present"}]
    /\ cache = [o \in Objects |-> 0]
    /\ events = <<>>
    /\ tpc = "down" /\ old = 0 /\ new = 0
    /\ faults = 0

-----------------------------------------------------------------------------
(* LdapListener: create, modify, remove *)

Publish(o, before, after) ==
    /\ Len(changes) < MaxChanges
    /\ changes' = Append(changes, [obj |-> o, old |-> before, new |-> after])
    /\ present' = [present EXCEPT ![o] = IF after THEN "present" ELSE "gone"]
    /\ UNCHANGED <<handled, cache, events, transformerVars, faults>>

Create(o) == present[o] = "never" /\ Publish(o, FALSE, TRUE)
Modify(o) == present[o] = "present" /\ Publish(o, TRUE, TRUE)
Remove(o) == present[o] = "present" /\ Publish(o, TRUE, FALSE)

Fault == faults < MaxFaults /\ faults' = faults + 1

\* The listener cannot connect, or the message is not stored: the handler raises
\* and the directory listener goes on with the next change.  (A modification that
\* is lost leaves no trace at all.)
LoseChange(o) ==
    /\ Fault
    /\ \/ present[o] = "never" /\ present' = [present EXCEPT ![o] = "present"]
       \/ present[o] = "present" /\ present' = [present EXCEPT ![o] = "gone"]
    /\ UNCHANGED <<changes, handled, cache, events, transformerVars>>

-----------------------------------------------------------------------------
(* UDMTransformerController and UDMMessagingService.handle_changes *)

\* The change that a fetch gets: the work queue's durable consumer has one pending
\* at most.
number == handled + 1
change == changes[number]

\* What the cache gives for an object it may not know.
Cached(o) == cache[o]

ldapUnchanged == UNCHANGED <<changes, present>>

\* The orchestrator starts a new process.
Start ==
    /\ tpc = "down"
    /\ tpc' = "idle"
    /\ UNCHANGED <<handled, cache, events, old, new, faults>>
    /\ ldapUnchanged

TakeChange ==
    /\ tpc = "idle"
    /\ handled < Len(changes)
    /\ tpc' = IF change.old THEN "retrieve" ELSE "transform"
    /\ old' = 0 /\ new' = 0
    /\ UNCHANGED <<handled, cache, events, faults>>
    /\ ldapUnchanged

\* Mutant: the new object is stored before the old one is retrieved.
RetrieveNewest ==
    /\ tpc = "retrieve"
    /\ old' = IF change.new THEN number ELSE Cached(change.obj)
    /\ tpc' = "transform"
    /\ UNCHANGED <<handled, cache, events, new, faults>>
    /\ ldapUnchanged

\* The object before the change is what the cache holds, if anything.
Retrieve ==
    /\ tpc = "retrieve"
    /\ old' = Cached(change.obj)
    /\ tpc' = "transform"
    /\ UNCHANGED <<handled, cache, events, new, faults>>
    /\ ldapUnchanged

\* Mutant: an event is sent even when there is nothing to tell.
SendAlways(before, after) == "send"

\* send_event has nothing to send when both objects are empty.
SendOrAck(before, after) == IF before = 0 /\ after = 0 THEN "ack" ELSE "send"

\* ldap_to_udm: a type that is not known, or that fails and is not supported,
\* gives the empty object, and so does a removal.
Transform ==
    /\ tpc = "transform"
    /\ \/ change.new /\ new' = number /\ tpc' = "store"
       \/ /\ change.new => change.obj \in Unsupported
          /\ new' = 0 /\ tpc' = SendOrAck(old, 0)
    /\ UNCHANGED <<handled, cache, events, old, faults>>
    /\ ldapUnchanged

Store ==
    /\ tpc = "store"
    /\ cache' = [cache EXCEPT ![change.obj] = new]
    /\ tpc' = "send"
    /\ UNCHANGED <<handled, events, old, new, faults>>
    /\ ldapUnchanged

event == [change |-> number, old |-> old, new |-> new]

\* InternalAPIAdapter.send_event: the API publishes the event and answers.
SendEvent ==
    /\ tpc = "send"
    /\ events' = Append(events, event)
    /\ tpc' = "ack"
    /\ UNCHANGED <<handled, cache, old, new, faults>>
    /\ ldapUnchanged

\* Mutant: the acknowledgement covers everything published so far.
AckAll ==
    /\ tpc = "ack"
    /\ handled' = Len(changes)
    /\ tpc' = "idle"
    /\ UNCHANGED <<cache, events, old, new, faults>>
    /\ ldapUnchanged

\* Mutant: a change without an event is not acknowledged.
AckIfSent ==
    /\ tpc = "ack"
    /\ handled' = IF old = 0 /\ new = 0 THEN handled ELSE number
    /\ tpc' = "idle"
    /\ UNCHANGED <<cache, events, old, new, faults>>
    /\ ldapUnchanged

AckChange ==
    /\ tpc = "ack"
    /\ handled' = number
    /\ tpc' = "idle"
    /\ UNCHANGED <<cache, events, old, new, faults>>
    /\ ldapUnchanged

-----------------------------------------------------------------------------
(* Faults: whatever fails ends the process, the change is delivered again *)

\* Mutant: exceptions are logged and the change is acknowledged.
FailAndAcknowledge ==
    /\ Fault
    /\ tpc \in {"retrieve", "transform", "store", "send"}
    /\ tpc' = "ack"
    /\ UNCHANGED <<handled, cache, events, old, new>>
    /\ ldapUnchanged

\* A step raises, a supported type that cannot be transformed included, or the
\* process dies.
Fail ==
    /\ Fault
    /\ tpc # "down"
    /\ tpc' = "down" /\ old' = 0 /\ new' = 0
    /\ UNCHANGED <<handled, cache, events>>
    /\ ldapUnchanged

\* The API has published the event, its response gets lost.
LoseResponse ==
    /\ Fault
    /\ tpc = "send"
    /\ events' = Append(events, event)
    /\ tpc' = "down" /\ old' = 0 /\ new' = 0
    /\ UNCHANGED <<handled, cache>>
    /\ ldapUnchanged

\* The acknowledgement gets lost, the change comes again after AckWait.
LoseAck ==
    /\ Fault
    /\ tpc = "ack"
    /\ tpc' = "idle"
    /\ UNCHANGED <<handled, cache, events, old, new>>
    /\ ldapUnchanged

-----------------------------------------------------------------------------
Listener == \E o \in Objects : Create(o) \/ Modify(o) \/ Remove(o)

Worker == Start \/ TakeChange \/ Retrieve \/ Transform \/ Store \/ SendEvent \/ AckChange

Next == Listener \/ Worker \/ (\E o \in Objects : LoseChange(o)) \/ Fail \/ LoseResponse \/ LoseAck

Spec == Init /\ [][Next]_vars

\* The transformer is restarted and goes on.
FairSpec == Spec /\ WF_vars(Worker)

-----------------------------------------------------------------------------
(* Properties *)

\* The change before change n that the transformer had for the same object, and
\* the object as it left it: 0 for the first one.  Lost changes do not count.
Earlier(n) == {m \in 1..(n - 1) : changes[m].obj = changes[n].obj}
Before(n) == IF Earlier(n) = {} THEN 0 ELSE CHOOSE m \in Earlier(n) : \A k \in Earlier(n) : k <= m
After(n) == IF changes[n].new THEN n ELSE 0

Supported(n) == changes[n].obj \notin Unsupported

\* What one event tells of its change: the object after it, and the object before it
\* ("The UDM object before the change", models/queue.py), or, once something failed
\* on the way and the change is repeated, the one after it again.  Nothing older, and
\* nothing of another change, ever gets in from the cache.
EventTellsItsChange ==
    \A i \in DOMAIN events : LET e == events[i] IN Supported(e.change) =>
        /\ e.new = After(e.change)
        /\ e.old = Before(e.change) \/ (faults > 0 /\ e.old = After(e.change))

\* A change is acknowledged only after its event was published, whatever failed
\* in between; only the removal of an object nobody had seen has no event.
HandledIsPublished ==
    \A n \in 1..handled : Supported(n) /\ (After(n) # 0 \/ Before(n) # 0) =>
        \E i \in DOMAIN events : events[i].change = n

\* The events appear in the order of the changes, repeated at most until the
\* next one: the transformer forwards sequentially, as the dispatcher does.
Forwarding == INSTANCE SequentialForwarding
    WITH Subs <- {"dispatcher"}, Topics <- Objects,
         published <- [n \in DOMAIN changes |-> changes[n].obj],
         done <- handled,
         queue <- [s \in {"dispatcher"} |-> [i \in DOMAIN events |-> events[i].change]]
ForwardsSequentially == Forwarding!Spec

\* Every change is handled in the end.
EveryChangeHandled == \A n \in 1..MaxChanges : (Len(changes) >= n) ~> (handled >= n)

=============================================================================
