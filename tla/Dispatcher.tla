----------------------------- MODULE Dispatcher -----------------------------
(***************************************************************************)
(* The dispatcher service: it takes the events of the dispatcher stream    *)
(* one by one, looks up the subscriptions of the event's topic in a        *)
(* mapping held in memory, publishes the event to the stream of each of    *)
(* them and acknowledges it.  The mapping is rebuilt from the              *)
(* SUBSCRIPTIONS bucket at start-up and after every change the watch       *)
(* reports (src/src/server/core/dispatcher/service/dispatcher.py).         *)
(*                                                                         *)
(* Around it: the work-queue stream with its push consumer                 *)
(* (max_ack_pending = 1), and the REST API that registers, updates and     *)
(* deletes subscriptions while the dispatcher runs.  An event is its       *)
(* stream sequence number; a (realm, topic) pair is one topic.             *)
(***************************************************************************)
EXTENDS Integers, Sequences, FiniteSets

CONSTANTS
    Subs,           \* subscription names
    Topics,         \* topics of events
    SubTopics,      \* topics a subscription may state (any string, also a pattern)
    ApiFaults,      \* TRUE: API calls for one name overlap and a call may die half-way
    MaxEvents,      \* bound: events published
    MaxCalls,       \* bound: API calls
    MaxCrashes,     \* bound: crashes that no failed step explains
    MaxExpiries,    \* bound: AckWait expiries and lost acknowledgements
    MaxRepeats      \* bound: copies in a row of one event that a queue records

ASSUME TopicsAssumption == Topics \subseteq SubTopics
ASSUME FaultsAssumption == ApiFaults \in BOOLEAN
ASSUME BoundsAssumption == {MaxEvents, MaxCalls, MaxCrashes, MaxExpiries} \subseteq Nat /\ MaxRepeats \in Nat \ {0}

VARIABLES
    \* the dispatcher stream and its consumer on the NATS server
    published,      \* topics of all events ever published; the index is the sequence number
    stream,         \* sequence numbers still in the stream
    outstanding,    \* the delivered and unacknowledged one (max_ack_pending = 1), or 0
    \* what the REST API keeps on the NATS server
    kv,             \* SUBSCRIPTIONS bucket: stated topics per subscription, {} without entry
    touched,        \* keys of the bucket with an entry or a delete marker
    exists,         \* subscriptions whose stream exists
    queue,          \* events published to that stream since its creation
    todo,           \* API calls under way: how many are about to take which step for s
    rewriting,      \* entries that set_subscription_queue_status has read, to write them back
    \* the dispatcher process
    dpc,            \* "down", "loading" (the first mapping) or "running"
    localq,         \* NatsMQAdapter._message_queue
    current,        \* the event handle_message is working on, or 0
    targets,        \* subscriptions of the snapshot not yet published to
    mapping,        \* DispatcherService._subscriptions
    lpc,            \* mapping rebuild: "idle", "keys" or "entries"
    lkeys,          \* keys whose entry is still to be read
    lmap,           \* new_subscriptions_mapping
    watching,       \* whether the KV watch is established
    changes,        \* updates the watch has queued
    \* bounds and history
    calls, crashes, expiries,
    disturbed,      \* some delivery had to be repeated, or the process went down
    promised        \* events the dispatcher owes each subscription (see PublishEvent)

serverVars == <<published, stream, outstanding>>
apiVars    == <<kv, touched, exists, queue, todo, rewriting>>
loadVars   == <<lpc, lkeys, lmap>>
watchVars  == <<watching, changes>>
handleVars == <<localq, current, targets>>
vars == <<serverVars, apiVars, dpc, handleVars, mapping, loadVars, watchVars,
          calls, crashes, expiries, disturbed, promised>>

NoMapping == [t \in SubTopics |-> {}]
CallSteps == {"store", "ensure", "remove", "drop"}
NoCall == [step \in CallSteps |-> 0]
Listed == {s \in Subs : kv[s] # {}}

TypeOK ==
    /\ published \in Seq(Topics)
    /\ stream \subseteq 1..Len(published)
    /\ outstanding \in stream \cup {0}
    /\ kv \in [Subs -> SUBSET SubTopics]
    /\ touched \subseteq Subs /\ IsFiniteSet(touched)
    /\ exists \subseteq Subs
    /\ queue \in [Subs -> Seq(1..Len(published))]
    /\ todo \in [Subs -> [CallSteps -> Nat]]
    /\ rewriting \in [Subs -> SUBSET SUBSET SubTopics]
    /\ dpc \in {"down", "loading", "running"}
    /\ localq \in Seq(1..Len(published))
    /\ current \in 0..Len(published)
    /\ targets \subseteq Subs
    /\ targets # {} => current # 0
    /\ mapping \in [SubTopics -> SUBSET Subs]
    /\ lpc \in {"idle", "keys", "entries"}
    /\ lkeys \subseteq Subs
    /\ lmap \in [SubTopics -> SUBSET Subs]
    /\ watching \in BOOLEAN
    /\ changes \in Nat
    /\ calls \in Nat /\ crashes \in Nat /\ expiries \in Nat
    /\ disturbed \in BOOLEAN
    /\ promised \in [Subs -> SUBSET (1..Len(published))]

Init ==
    /\ published = <<>> /\ stream = {} /\ outstanding = 0
    /\ kv = [s \in Subs |-> {}]
    /\ touched = {} /\ exists = {} /\ queue = [s \in Subs |-> <<>>]
    /\ todo = [s \in Subs |-> NoCall] /\ rewriting = [s \in Subs |-> {}]
    /\ dpc = "down"
    /\ localq = <<>> /\ current = 0 /\ targets = {}
    /\ mapping = NoMapping
    /\ lpc = "idle" /\ lkeys = {} /\ lmap = NoMapping
    /\ watching = FALSE /\ changes = 0
    /\ calls = 0 /\ crashes = 0 /\ expiries = 0
    /\ disturbed = FALSE
    /\ promised = [s \in Subs |-> {}]

-----------------------------------------------------------------------------
(* The dispatcher stream and its push consumer *)

\* The dispatcher's current mapping holds s for the topic t, and so will the mapping
\* that is being built, if one is.
KnownToDispatcher(s, t) ==
    /\ dpc = "running" => s \in mapping[t]
    /\ lpc = "entries" => s \in lkeys \/ s \in lmap[t]

\* Owed: the subscription is listed, its stream exists, the dispatcher knows it.
Owed(t) == {s \in exists : t \in kv[s] /\ KnownToDispatcher(s, t)}

\* POST /v1/messages, MessageService.add_live_event.
PublishEvent(t) ==
    /\ Len(published) < MaxEvents
    /\ published' = Append(published, t)
    /\ stream' = stream \cup {Len(published) + 1}
    /\ promised' = [s \in Subs |->
                     promised[s] \cup (IF s \in Owed(t) THEN {Len(published) + 1} ELSE {})]
    /\ UNCHANGED <<outstanding, apiVars, dpc, handleVars, mapping, loadVars, watchVars,
                   calls, crashes, expiries, disturbed>>

IsOldest(e) == e \in stream /\ \A f \in stream : e <= f

\* Whether the running process still has e to handle or to acknowledge.
Held(e) == current = e \/ \E i \in DOMAIN localq : localq[i] = e

Push(e) ==
    /\ dpc # "down"
    /\ localq' = Append(localq, e)
    /\ UNCHANGED <<published, stream, apiVars, dpc, current, targets, mapping, loadVars,
                   watchVars, calls, crashes, promised>>

\* Mutant: subscribed without manual_ack, the client acknowledges what it queues.
DeliverAutoAcknowledged(e) ==
    /\ dpc # "down"
    /\ IsOldest(e)
    /\ stream' = stream \ {e}
    /\ localq' = Append(localq, e)
    /\ UNCHANGED <<published, outstanding, apiVars, dpc, current, targets, mapping, loadVars,
                   watchVars, calls, crashes, promised, expiries, disturbed>>

\* Mutant: a consumer that does not keep the order of the stream.
DeliverAny(e) ==
    /\ outstanding = 0
    /\ outstanding' = e
    /\ Push(e)
    /\ UNCHANGED <<expiries, disturbed>>

\* The consumer has nothing pending: the server pushes the next event (cb).
Deliver(e) ==
    /\ outstanding = 0
    /\ IsOldest(e)
    /\ outstanding' = e
    /\ Push(e)
    /\ UNCHANGED <<expiries, disturbed>>

\* AckWait has run out on an event that went down with the process that had
\* it, or whose acknowledgement was lost.
Redeliver ==
    /\ outstanding # 0
    /\ ~Held(outstanding)
    /\ Push(outstanding)
    /\ UNCHANGED <<outstanding, expiries, disturbed>>

\* AckWait runs out on an event this process still has: it was not extended in time.
ExpireAckWait ==
    /\ outstanding # 0
    /\ Held(outstanding)
    /\ expiries < MaxExpiries
    /\ expiries' = expiries + 1
    /\ disturbed' = TRUE
    /\ Push(outstanding)
    /\ UNCHANGED outstanding

-----------------------------------------------------------------------------
(* The REST API: SubscriptionService, step by step on the NATS server.  A call whose *)
(* process dies, or loses NATS, is one that never goes on.                           *)

Idle(s) == todo[s] = NoCall /\ rewriting[s] = {}

bucketUnchanged == UNCHANGED <<kv, touched, changes, promised>>
restUnchanged == UNCHANGED <<serverVars, dpc, handleVars, mapping, loadVars, watching, crashes,
                             expiries, disturbed>>

\* A call reads the entry and comes to its first write.
Begin(s) ==
    /\ calls < MaxCalls
    /\ calls' = calls + 1
    /\ ApiFaults \/ Idle(s)
    /\ UNCHANGED <<exists, queue>>
    /\ bucketUnchanged /\ restUnchanged

\* register_subscription; an existing entry ends the call.
BeginRegister(s) ==
    /\ kv[s] = {}
    /\ todo' = [todo EXCEPT ![s]["store"] = @ + 1]
    /\ Begin(s)
    /\ UNCHANGED rewriting

\* delete_subscription; a missing entry ends the call.
BeginDelete(s) ==
    /\ kv[s] # {}
    /\ todo' = [todo EXCEPT ![s]["remove"] = @ + 1]
    /\ Begin(s)
    /\ UNCHANGED rewriting

\* set_subscription_queue_status; a missing entry ends the call.  Several calls that
\* read the same entry count as one.
BeginRewrite(s) ==
    /\ kv[s] # {}
    /\ rewriting' = [rewriting EXCEPT ![s] = @ \cup {kv[s]}]
    /\ Begin(s)
    /\ UNCHANGED todo

\* One call for s goes from one step to the next.
Proceed(s, from, to) ==
    /\ todo[s][from] > 0
    /\ todo' = [todo EXCEPT ![s][from] = @ - 1, ![s][to] = @ + 1]

\* A write to the bucket, {} for a delete marker; the watch, once it is established,
\* reports it.  Whatever is in the bucket by now is replaced, and what the entry does
\* not state any more is not owed any more.
WriteEntry(s, T) ==
    /\ kv' = [kv EXCEPT ![s] = T]
    /\ touched' = touched \cup {s}
    /\ changes' = IF watching THEN changes + 1 ELSE changes
    /\ promised' = [promised EXCEPT ![s] = {e \in @ : published[e] \in T}]
    /\ UNCHANGED <<exists, queue, calls>>
    /\ restUnchanged

\* set_sub_info of register_subscription
StoreSubscription(s, T) ==
    /\ T # {}
    /\ Proceed(s, "store", "ensure")
    /\ WriteEntry(s, T)
    /\ UNCHANGED rewriting

\* delete_sub_info
RemoveSubscription(s) ==
    /\ Proceed(s, "remove", "drop")
    /\ WriteEntry(s, {})
    /\ UNCHANGED rewriting

\* set_sub_info of set_subscription_queue_status: the entry as it was read, with another
\* status.
RewriteSubscription(s, T) ==
    /\ T \in rewriting[s]
    /\ rewriting' = [rewriting EXCEPT ![s] = @ \ {T}]
    /\ WriteEntry(s, T)
    /\ UNCHANGED todo

\* One call for s is done with its last step.
Ends(s, last) ==
    /\ todo[s][last] > 0
    /\ todo' = [todo EXCEPT ![s][last] = @ - 1]

\* ensure_stream: an existing stream keeps its messages.
EnsureQueue(s) ==
    /\ Ends(s, "ensure")
    /\ exists' = exists \cup {s}
    /\ UNCHANGED <<queue, rewriting, calls>>
    /\ bucketUnchanged /\ restUnchanged

\* delete_stream: a missing stream is ignored.
DropQueue(s) ==
    /\ Ends(s, "drop")
    /\ exists' = exists \ {s}
    /\ queue' = [queue EXCEPT ![s] = <<>>]
    /\ promised' = [promised EXCEPT ![s] = {}]
    /\ UNCHANGED <<kv, touched, changes, rewriting, calls>>
    /\ restUnchanged

-----------------------------------------------------------------------------
(* The dispatcher process *)

processUnchanged == UNCHANGED <<serverVars, apiVars, calls, crashes, expiries, promised>>

\* A new process: subscribe_to_queue, then the first update_subscriptions_mapping.
Start ==
    /\ dpc = "down"
    /\ dpc' = "loading"
    /\ lpc' = "keys"
    /\ UNCHANGED <<lkeys, lmap, handleVars, mapping, watchVars, disturbed>>
    /\ processUnchanged

\* The process ends, and with it everything it holds in memory.
GoDown ==
    /\ dpc' = "down"
    /\ localq' = <<>> /\ current' = 0 /\ targets' = {}
    /\ mapping' = NoMapping
    /\ lpc' = "idle" /\ lkeys' = {} /\ lmap' = NoMapping
    /\ watching' = FALSE /\ changes' = 0
    /\ disturbed' = TRUE
    /\ UNCHANGED <<serverVars, apiVars, calls, expiries, promised>>

Crash ==
    /\ dpc # "down"
    /\ crashes < MaxCrashes
    /\ crashes' = crashes + 1
    /\ GoDown

\* get_all_subscriptions: first the keys of the bucket ...
ReadKeys ==
    /\ lpc = "keys"
    /\ lpc' = "entries"
    /\ lkeys' = Listed
    /\ lmap' = NoMapping
    /\ UNCHANGED <<dpc, handleVars, mapping, watchVars, disturbed>>
    /\ processUnchanged

\* ... then the entry of each key.
ReadEntry(s) ==
    /\ lpc = "entries"
    /\ s \in lkeys
    /\ kv[s] # {}
    /\ lkeys' = lkeys \ {s}
    /\ lmap' = [t \in SubTopics |-> IF t \in kv[s] THEN lmap[t] \cup {s} ELSE lmap[t]]
    /\ UNCHANGED <<lpc, dpc, handleVars, mapping, watchVars, disturbed>>
    /\ processUnchanged

\* The key was deleted since: KeyNotFoundError is caught by nobody, it ends the
\* task group and the process.
ReadEntryFails(s) ==
    /\ lpc = "entries"
    /\ s \in lkeys
    /\ kv[s] = {}
    /\ UNCHANGED crashes
    /\ GoDown

\* self._subscriptions = new_subscriptions_mapping
ReplaceMapping ==
    /\ lpc = "entries"
    /\ lkeys = {}
    /\ mapping' = lmap
    /\ lpc' = "idle"
    /\ lmap' = NoMapping
    /\ dpc' = "running"
    /\ UNCHANGED <<lkeys, handleVars, watchVars, disturbed>>
    /\ processUnchanged

\* Mutant: a watch that reports only what changes from now on.
StartWatchWithoutReplay ==
    /\ dpc = "running"
    /\ ~watching
    /\ watching' = TRUE
    /\ UNCHANGED <<changes, dpc, handleVars, mapping, loadVars, disturbed>>
    /\ processUnchanged

\* watch_for_subscription_changes: watchall first replays the last entry of
\* every key, delete markers included.
StartWatch ==
    /\ dpc = "running"
    /\ ~watching
    /\ watching' = TRUE
    /\ changes' = Cardinality(touched)
    /\ UNCHANGED <<dpc, handleVars, mapping, loadVars, disturbed>>
    /\ processUnchanged

\* The watch task takes an update and calls update_subscriptions_mapping.
TakeUpdate ==
    /\ watching
    /\ changes > 0
    /\ lpc = "idle"
    /\ changes' = changes - 1
    /\ lpc' = "keys"
    /\ UNCHANGED <<dpc, lkeys, lmap, handleVars, mapping, watching, disturbed>>
    /\ processUnchanged

\* Mutant: the local queue gives the newest message first.
TakeNewest ==
    /\ dpc = "running"
    /\ current = 0
    /\ localq # <<>>
    /\ current' = localq[Len(localq)]
    /\ localq' = SubSeq(localq, 1, Len(localq) - 1)
    /\ targets' = mapping[published[localq[Len(localq)]]]
    /\ UNCHANGED <<dpc, mapping, loadVars, watchVars, disturbed>>
    /\ processUnchanged

\* Mutant: handle_message returns early, unacknowledged, when nobody subscribes.
TakeUnlessUnwanted ==
    /\ dpc = "running"
    /\ current = 0
    /\ localq # <<>>
    /\ localq' = Tail(localq)
    /\ targets' = mapping[published[Head(localq)]]
    /\ current' = IF targets' = {} THEN 0 ELSE Head(localq)
    /\ UNCHANGED <<dpc, mapping, loadVars, watchVars, disturbed>>
    /\ processUnchanged

\* wait_for_event, then handle_message up to the lookup in the mapping.
TakeEvent ==
    /\ dpc = "running"
    /\ current = 0
    /\ localq # <<>>
    /\ current' = Head(localq)
    /\ localq' = Tail(localq)
    /\ targets' = mapping[published[Head(localq)]]
    /\ UNCHANGED <<dpc, mapping, loadVars, watchVars, disturbed>>
    /\ processUnchanged

\* A process that goes down after some of the sends repeats them as often as it
\* restarts: the queue of the model records only MaxRepeats of them in a row.
Repeated(s, e) ==
    /\ Len(queue[s]) >= MaxRepeats
    /\ \A i \in (Len(queue[s]) - MaxRepeats + 1)..Len(queue[s]) : queue[s][i] = e

\* send_message_to_subscription for one subscription of the snapshot.
Send(s) ==
    /\ s \in targets
    /\ s \in exists
    /\ queue' = [queue EXCEPT ![s] = IF Repeated(s, current) THEN @ ELSE Append(@, current)]
    /\ targets' = targets \ {s}
    /\ UNCHANGED <<serverVars, kv, touched, exists, todo, rewriting, dpc, localq, current, mapping,
                   loadVars, watchVars, calls, crashes, expiries, disturbed, promised>>

\* No stream takes the subject: the publish raises and ends the process.
SendFails(s) ==
    /\ s \in targets
    /\ s \notin exists
    /\ UNCHANGED crashes
    /\ GoDown

\* Mutant: the event is acknowledged before all sends are done.
AcknowledgeEarly ==
    /\ current # 0
    /\ stream' = stream \ {current}
    /\ outstanding' = IF outstanding = current THEN 0 ELSE outstanding
    /\ current' = 0
    /\ UNCHANGED <<published, apiVars, dpc, localq, targets, mapping, loadVars, watchVars,
                   calls, crashes, expiries, disturbed, promised>>

\* Mutant: the acknowledgement is forgotten.
AcknowledgeNever ==
    /\ current # 0
    /\ targets = {}
    /\ current' = 0
    /\ UNCHANGED <<serverVars, apiVars, dpc, localq, targets, mapping, loadVars, watchVars,
                   calls, crashes, expiries, disturbed, promised>>

\* acknowledge_message: the work-queue stream removes the event.  For a second
\* copy of an event that was acknowledged before, nothing happens.
Acknowledge ==
    /\ current # 0
    /\ targets = {}
    /\ stream' = stream \ {current}
    /\ outstanding' = IF outstanding = current THEN 0 ELSE outstanding
    /\ current' = 0
    /\ UNCHANGED <<published, apiVars, dpc, localq, targets, mapping, loadVars, watchVars,
                   calls, crashes, expiries, disturbed, promised>>

\* The acknowledgement, which nobody answers, is lost on the way.
LoseAcknowledgement ==
    /\ current # 0
    /\ targets = {}
    /\ expiries < MaxExpiries
    /\ expiries' = expiries + 1
    /\ disturbed' = TRUE
    /\ current' = 0
    /\ UNCHANGED <<serverVars, apiVars, dpc, localq, targets, mapping, loadVars, watchVars,
                   calls, crashes, promised>>

-----------------------------------------------------------------------------
GoOn(s) ==
    \/ \E T \in SUBSET SubTopics : StoreSubscription(s, T) \/ RewriteSubscription(s, T)
    \/ RemoveSubscription(s)
    \/ EnsureQueue(s)
    \/ DropQueue(s)

Api(s) ==
    \/ BeginRegister(s)
    \/ BeginDelete(s)
    \/ BeginRewrite(s)
    \/ GoOn(s)

Server ==
    \/ \E t \in Topics : PublishEvent(t)
    \/ \E e \in stream : Deliver(e)
    \/ Redeliver
    \/ ExpireAckWait

LoadMapping ==
    \/ ReadKeys
    \/ \E s \in Subs : ReadEntry(s) \/ ReadEntryFails(s)
    \/ ReplaceMapping

HandleEvent ==
    \/ TakeEvent
    \/ \E s \in Subs : Send(s) \/ SendFails(s)
    \/ Acknowledge

Next ==
    \/ \E s \in Subs : Api(s)
    \/ Server
    \/ Start
    \/ Crash
    \/ LoadMapping
    \/ StartWatch
    \/ TakeUpdate
    \/ HandleEvent
    \/ LoseAcknowledgement

Spec == Init /\ [][Next]_vars

\* asyncio runs every task that can run, the orchestrator restarts the process,
\* the server pushes what is pending, and API calls go on unless they may die.
Fairness ==
    /\ WF_vars(Start)
    /\ WF_vars(LoadMapping)
    /\ WF_vars(StartWatch)
    /\ WF_vars(TakeUpdate)
    /\ WF_vars(HandleEvent)
    /\ WF_vars(Redeliver \/ \E e \in stream : Deliver(e))
    /\ ~ApiFaults => \A s \in Subs : WF_vars(GoOn(s))

FairSpec == Spec /\ Fairness

-----------------------------------------------------------------------------
(* Properties *)

\* Redeliveries, late second copies and restarts never reorder: no subscription's
\* stream holds an event behind a later one ("redeliveries while retaining the
\* message order", docs/queue_configuration.md).
OrderRetained ==
    \A s \in Subs : \A i, j \in DOMAIN queue[s] : i < j => queue[s][i] <= queue[s][j]

\* An event leaves the dispatcher stream only when every subscription that the
\* dispatcher knew for its topic when it was published has it, unless the
\* subscription was deleted since or its entry did not state the topic any more for a
\* time: mapping rebuilds, restarts, redeliveries and calls that add topics lose nothing.
NoOwedEventLost ==
    \A s \in Subs : \A e \in promised[s] :
        e \in stream \/ \E i \in DOMAIN queue[s] : queue[s][i] = e

\* Without a crash, an expired AckWait or a lost acknowledgement, nobody gets an
\* event twice.
OnceIfUndisturbed ==
    ~disturbed =>
        \A s \in Subs : \A i, j \in DOMAIN queue[s] : queue[s][i] = queue[s][j] => i = j

\* The dispatcher implements SequentialForwarding: the completed events are those
\* before the oldest one left in the stream.
Completed == IF stream = {} THEN Len(published)
             ELSE (CHOOSE e \in stream : IsOldest(e)) - 1
Abstract == INSTANCE SequentialForwarding WITH done <- Completed
ForwardsSequentially == Abstract!Spec

\* Every event is eventually handled and acknowledged, through any number of
\* restarts ("ensures it's handling with retries if necessary").
EveryEventDispatched ==
    \A e \in 1..MaxEvents : (e \in stream) ~> (e \notin stream)

\* The mapping follows the bucket: when the API rests, it ends up the inverse of
\* what the bucket lists, for updates missed between load and watch as well.
MappingConverges ==
    <>[](\A s \in Subs : \A t \in SubTopics : s \in mapping[t] <=> t \in kv[s])

=============================================================================
