---------------------------- MODULE Provisioning ----------------------------
(***************************************************************************)
(* The whole way of a change, from LDAP to the callbacks of a consumer:    *)
(* Transformer, Dispatcher and Messages put together where they meet.      *)
(*   - The transformer's POST /v1/messages publishes to the dispatcher     *)
(*     stream (src/src/server/core/app/messages.py).                       *)
(*   - What the dispatcher sends to the subscription is published to the   *)
(*     stream that the messages API serves                                 *)
(*     (src/src/server/core/dispatcher/port.py).                           *)
(* All other steps of the three are independent of each other.  One        *)
(* subscription was registered before, its prefill is done; registering    *)
(* and deleting is the matter of the three modules themselves.             *)
(***************************************************************************)
EXTENDS Integers, Sequences, FiniteSets, FiniteSetsExt

CONSTANTS
    Objects,        \* LDAP objects
    Requests,       \* handlers of GET requests that the API may have at the same time
    MaxRetries,     \* max_acknowledgement_retries of the consumer
    MaxChanges,     \* bound: LDAP changes
    MaxFaults,      \* bound: faults of all three together
    MaxRepeats      \* bound: copies in a row of one event that the stream records

ASSUME BoundsAssumption == {MaxRetries, MaxChanges, MaxFaults} \subseteq Nat /\ MaxRepeats \in Nat \ {0}

VARIABLES
    \* Transformer; its handled is transformed here, its faults are transformerFaults
    changes, present, transformed, cache, events, tpc, old, new, transformerFaults,
    \* Dispatcher; its stream is incoming here, its changes are updates
    published, incoming, outstanding, queue, dpc, localq, current, targets, mapping,
    lpc, lkeys, lmap, watching, updates, crashes, expiries, disturbed, promised,
    \* Messages; its stream is waiting here, its handled is received, its faults are
    \* consumerFaults
    waiting, lastSeq, delivered, pending, expired, prefillDone, request, acks,
    cpc, asked, message, attempt, received, consumerFaults,
    \* what is the same all the time: the subscription in Dispatcher, whose exists is
    \* subjects here, and in Messages
    kv, touched, subjects, todo, rewriting, exists, filling, wasDone, pop

transformerVars == <<changes, present, transformed, cache, events, tpc, old, new, transformerFaults>>
dispatcherVars == <<published, incoming, outstanding, queue, dpc, localq, current, targets,
                    mapping, lpc, lkeys, lmap, watching, updates, crashes, expiries, disturbed,
                    promised, kv, touched, subjects, todo, rewriting>>
messagesVars == <<waiting, lastSeq, delivered, pending, expired, prefillDone, request, acks,
                  cpc, asked, message, attempt, received, consumerFaults, exists, filling, wasDone,
                  pop>>
vars == <<transformerVars, dispatcherVars, messagesVars>>

\* The subscription and the one topic of the events, which it states.
portal == "portal"
topic == "users/user"

\* Each step of the transformer publishes an event at most, each event comes to the
\* subscription MaxRepeats times at most.
MaxMessages == (MaxChanges + MaxFaults) * MaxRepeats

T == INSTANCE Transformer WITH
    Unsupported <- {}, handled <- transformed, faults <- transformerFaults

D == INSTANCE Dispatcher WITH
    Subs <- {portal}, Topics <- {topic}, SubTopics <- {topic}, ApiFaults <- FALSE,
    MaxEvents <- MaxChanges + MaxFaults, MaxCalls <- 0,
    MaxCrashes <- MaxFaults, MaxExpiries <- MaxFaults,
    stream <- incoming, changes <- updates,
    exists <- subjects, calls <- 0

M == INSTANCE Messages WITH
    MaxEpochs <- 1, stream <- waiting, handled <- received,
    epoch <- 1, status <- "done", ofEpoch <- 1, faults <- consumerFaults,
    queued <- 0, prefilled <- {}, purgedTo <- 0, lostPops <- {}

ASSUME RequestsAssumption == M!Nobody \notin Requests

FaultsInAll == transformerFaults + crashes + expiries + consumerFaults

TypeOK ==
    /\ T!TypeOK /\ D!TypeOK /\ M!TypeOK
    /\ Len(events) = Len(published)
    /\ Len(queue[portal]) = lastSeq
    /\ FaultsInAll <= MaxFaults

\* The objects are made after the subscription.
Init ==
    /\ T!Init /\ present = [o \in Objects |-> "never"]
    /\ M!Init /\ ~pop
    /\ kv = [s \in {portal} |-> {topic}] /\ touched = {portal}
    /\ subjects = {portal}
    /\ todo = [s \in {portal} |-> D!NoCall] /\ rewriting = [s \in {portal} |-> {}]
    /\ published = <<>> /\ incoming = {} /\ outstanding = 0
    /\ queue = [s \in {portal} |-> <<>>]
    /\ dpc = "down" /\ localq = <<>> /\ current = 0 /\ targets = {}
    /\ mapping = D!NoMapping
    /\ lpc = "idle" /\ lkeys = {} /\ lmap = D!NoMapping
    /\ watching = FALSE /\ updates = 0
    /\ crashes = 0 /\ expiries = 0 /\ disturbed = FALSE
    /\ promised = [s \in {portal} |-> {}]

-----------------------------------------------------------------------------
(* Where two components meet *)

\* create_new_message: the API publishes what the transformer posts, and answers.
PostEvent ==
    /\ T!SendEvent
    /\ D!PublishEvent(topic)
    /\ UNCHANGED messagesVars

\* The same, but the answer gets lost.
PostEventUnanswered ==
    /\ T!LoseResponse
    /\ D!PublishEvent(topic)
    /\ UNCHANGED messagesVars

\* Mutant: the subscription's stream is not the one the dispatcher publishes to.
ForwardElsewhere ==
    /\ D!Send(portal)
    /\ UNCHANGED <<messagesVars, transformerVars>>

\* send_message_to_subscription puts the event into the subscription's stream.
ForwardEvent ==
    /\ D!Send(portal)
    /\ IF queue' = queue THEN UNCHANGED messagesVars ELSE M!Publish
    /\ UNCHANGED transformerVars

-----------------------------------------------------------------------------
(* The steps of one component *)

Listen ==
    /\ T!Listener \/ \E o \in Objects : T!LoseChange(o)
    /\ UNCHANGED <<dispatcherVars, messagesVars>>

Transform ==
    /\ T!Start \/ T!TakeChange \/ T!Retrieve \/ T!Transform \/ T!Store \/ T!AckChange
    /\ UNCHANGED <<dispatcherVars, messagesVars>>

FailToTransform ==
    /\ T!Fail \/ T!LoseAck
    /\ UNCHANGED <<dispatcherVars, messagesVars>>

othersOfDispatcher == <<transformerVars, messagesVars>>

StartDispatcher == D!Start /\ UNCHANGED othersOfDispatcher
LoadMapping ==
    /\ D!ReadKeys \/ D!ReadEntry(portal) \/ D!ReplaceMapping
    /\ UNCHANGED othersOfDispatcher
StartWatch == D!StartWatch /\ UNCHANGED othersOfDispatcher
TakeUpdate == D!TakeUpdate /\ UNCHANGED othersOfDispatcher
PushEvent ==
    /\ D!Redeliver \/ \E e \in incoming : D!Deliver(e)
    /\ UNCHANGED othersOfDispatcher
HandleEvent ==
    /\ D!TakeEvent \/ D!Acknowledge
    /\ UNCHANGED othersOfDispatcher
FailToDispatch ==
    /\ D!Crash \/ D!ExpireAckWait \/ D!LoseAcknowledgement
    /\ UNCHANGED othersOfDispatcher

othersOfMessages == <<transformerVars, dispatcherVars>>

ExpireAckWait == M!ExpireAckWait /\ UNCHANGED othersOfMessages
GetHandler(r) ==
    /\ \/ M!StartGet(r) \/ M!PassGate(r) \/ M!FetchNothing(r) \/ M!DropReply(r)
       \/ \E m \in waiting : M!Fetch(r, m)
    /\ UNCHANGED othersOfMessages
AckHandler == (\E a \in acks : M!AcknowledgeMessage(a)) /\ UNCHANGED othersOfMessages
Consume == M!Client /\ UNCHANGED othersOfMessages
FailToConsume ==
    /\ \/ M!LoseAckResponse \/ M!CrashClient \/ M!RestartApi
       \/ \E r \in Requests, m \in waiting : M!MissDelivery(r, m)
    /\ UNCHANGED othersOfMessages

Faults == FailToTransform \/ PostEventUnanswered \/ FailToDispatch \/ FailToConsume

Next ==
    /\ \/ Listen \/ Transform \/ PostEvent
       \/ StartDispatcher \/ LoadMapping \/ StartWatch \/ TakeUpdate
       \/ PushEvent \/ HandleEvent \/ ForwardEvent
       \/ ExpireAckWait \/ (\E r \in Requests : GetHandler(r)) \/ AckHandler \/ Consume
       \/ Faults
    /\ FaultsInAll' <= MaxFaults

Spec == Init /\ [][Next]_vars

\* The transformer, the dispatcher and the server between them, the consumer and its
\* requests, and AckWait go on.
Forwarding ==
    \/ Transform \/ PostEvent
    \/ StartDispatcher \/ LoadMapping \/ StartWatch \/ TakeUpdate
    \/ PushEvent \/ HandleEvent \/ ForwardEvent
Consuming == Consume \/ \E r \in Requests : GetHandler(r)

FairSpec ==
    /\ Spec
    /\ WF_vars(Forwarding) /\ WF_vars(Consuming)
    /\ WF_vars(AckHandler) /\ WF_vars(ExpireAckWait)

-----------------------------------------------------------------------------
(* Properties *)

\* The event in the m-th message of the subscription's stream, and its change.
EventOf(m) == events[queue[portal][m]]
ChangeOf(m) == EventOf(m).change

\* Everything but the removal of an object that the transformer never saw.
HasEvent(n) == T!After(n) # 0 \/ T!Before(n) # 0

\* When the callbacks get a change, they have got all changes before it, whatever
\* crashed, expired or was lost and repeated in any of the components: the promises
\* of the three add up ("while retaining the message order",
\* docs/queue_configuration.md).
ToldInTurn ==
    \A m \in received : \A n \in 1..ChangeOf(m) :
        HasEvent(n) => \E k \in received : k <= m /\ ChangeOf(k) = n

\* At rest the last thing the callbacks got of an object is the object as the last
\* change left it: no repetition, of an event or a message, comes after it.
AtRest == transformed = Len(changes) /\ incoming = {} /\ waiting = {}
Told(o) == {m \in received : changes[ChangeOf(m)].obj = o}
ChangesOf(o) == {n \in DOMAIN changes : changes[n].obj = o /\ HasEvent(n)}
ConsumerIsCurrent ==
    AtRest => \A o \in Objects : ChangesOf(o) # {} =>
        Told(o) # {} /\ EventOf(Max(Told(o))).new = T!After(Max(ChangesOf(o)))

\* The pipeline comes to rest, whatever was lost or restarted: with ConsumerIsCurrent
\* it follows that every object ends up with the consumer as it is.
ComesToRest == <>[]AtRest

=============================================================================
