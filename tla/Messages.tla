------------------------------ MODULE Messages ------------------------------
(***************************************************************************)
(* How a consumer gets the messages of its subscription, one at a time.    *)
(* The REST API serves GET .../messages/next from the subscription's       *)
(* JetStream stream through a durable pull consumer with                   *)
(* max_ack_pending = 1, once the prefill status allows it                  *)
(* (src/src/server/services/messages.py), and deletes from the stream the  *)
(* message that PATCH .../messages/{seq_num}/status reports as processed.  *)
(* The consumer is a MessageHandler (src/src/univention/provisioning/      *)
(* consumer/api.py): get, callbacks, acknowledge with retries.  Another    *)
(* client may ask the API to acknowledge with the delivery (pop).          *)
(*                                                                         *)
(* A message is its sequence number in the stream.  An administrator may   *)
(* delete the subscription and register it again: the numbers of the new   *)
(* stream start from 1.                                                    *)
(***************************************************************************)
EXTENDS Integers, FiniteSets

CONSTANTS
    Requests,       \* handlers of GET requests that the API may have at the same time
    MaxRetries,     \* max_acknowledgement_retries of the consumer
    MaxMessages,    \* bound: messages per stream
    MaxEpochs,      \* bound: registrations of the subscription
    MaxFaults       \* bound: lost responses, crashes and restarts

ASSUME BoundsAssumption ==
    /\ {MaxRetries, MaxMessages, MaxFaults} \subseteq Nat
    /\ MaxEpochs \in Nat \ {0}

Nobody == "nobody"
ASSUME RequestsAssumption == Nobody \notin Requests

VARIABLES
    \* the subscription on the NATS server
    exists,         \* whether the subscription and its stream exist
    epoch,          \* how often it was registered
    stream,         \* sequence numbers in the stream
    lastSeq,        \* the last one assigned
    delivered,      \* the highest one the consumer delivered
    pending,        \* the one delivered and not acknowledged, or 0
    expired,        \* whether its AckWait has run out
    status,         \* prefill_queue_status
    queued,         \* prefill requests for the name in the prefill queue
    filling,        \* whether the prefill worker fills the stream for the first of them
    prefilled,      \* sequence numbers of the prefill subject, the other are live ones
    lostPops,       \* the ones whose acknowledgement as popped got lost
    \* the API process
    prefillDone,    \* MessageService._subscription_prefill_done for the subscription
    request,        \* GET handlers: [pc, msg, epoch], the epoch is that of msg
    pop,            \* what the consumer sends as pop; MessageHandler sends none
    acks,           \* PATCH requests under way: [msg, attempt]
    \* the MessageHandler of the consumer
    cpc,            \* "idle", "waiting", "handling", "acking" or "acked?"
    asked,          \* the request whose response it waits for, or Nobody
    message,        \* the message it has, or 0
    ofEpoch,        \* the registration that message comes from
    attempt,        \* number of the acknowledgement attempt
    \* bounds and history
    faults,
    wasDone,        \* the status was done at some time of this registration
    purgedTo,       \* lastSeq when a prefill attempt last purged its subject
    handled         \* messages of the present stream that went through the callbacks

consumerVars == <<delivered, pending, expired>>
prefillVars  == <<status, wasDone, queued, filling, prefilled, purgedTo>>
subVars      == <<exists, epoch, prefillVars, lostPops>>
clientVars   == <<cpc, asked, message, ofEpoch, attempt, pop>>
vars == <<stream, lastSeq, consumerVars, subVars, prefillDone, request, acks, clientVars,
          faults, handled>>

Messages == 1..MaxMessages
Free == [pc |-> "free", msg |-> 0, epoch |-> 1]
Reply(m) == [pc |-> "reply", msg |-> m, epoch |-> epoch]

TypeOK ==
    /\ exists \in BOOLEAN
    /\ epoch \in 1..MaxEpochs
    /\ stream \subseteq 1..lastSeq
    /\ lastSeq \in 0..MaxMessages
    /\ delivered \in 0..lastSeq
    /\ pending \in stream \cup {0} /\ pending <= delivered
    /\ expired \in BOOLEAN /\ (expired => pending # 0)
    /\ status \in {"pending", "running", "done", "failed"}
    /\ queued \in 0..MaxEpochs
    /\ filling \in BOOLEAN /\ (filling => queued > 0)
    /\ prefilled \subseteq 1..lastSeq /\ purgedTo \in 0..lastSeq
    /\ lostPops \subseteq 0..MaxMessages
    /\ prefillDone \in BOOLEAN
    /\ request \in [Requests -> [pc : {"free", "start", "gate", "prefill", "main", "pop", "reply",
                                       "error"},
                                 msg : 0..MaxMessages, epoch : 1..MaxEpochs]]
    /\ acks \subseteq [msg : Messages, attempt : 0..MaxRetries]
    /\ cpc \in {"idle", "waiting", "handling", "acking", "acked?"}
    /\ asked \in Requests \cup {Nobody} /\ (asked # Nobody <=> cpc = "waiting")
    /\ pop \in BOOLEAN
    /\ message \in 0..MaxMessages /\ ofEpoch \in 1..MaxEpochs
    /\ attempt \in 0..MaxRetries
    /\ faults \in 0..MaxFaults
    /\ wasDone \in BOOLEAN
    /\ handled \subseteq Messages

\* Right after the first registration, with or without a prefill.
Init ==
    /\ exists = TRUE /\ epoch = 1
    /\ stream = {} /\ lastSeq = 0
    /\ delivered = 0 /\ pending = 0 /\ expired = FALSE
    /\ status \in {"pending", "done"}
    /\ wasDone = (status = "done")
    /\ queued = (IF status = "pending" THEN 1 ELSE 0)
    /\ filling = FALSE /\ prefilled = {} /\ purgedTo = 0
    /\ lostPops = {}
    /\ prefillDone = FALSE
    /\ request = [r \in Requests |-> Free]
    /\ acks = {}
    /\ pop \in BOOLEAN
    /\ cpc = "idle" /\ asked = Nobody /\ message = 0 /\ ofEpoch = 1 /\ attempt = 0
    /\ faults = 0
    /\ handled = {}

-----------------------------------------------------------------------------
(* The subscription's stream and its durable consumer *)

\* The dispatcher publishes to the main subject of the stream, or the prefill to the
\* prefill subject.
Publish ==
    /\ exists
    /\ lastSeq < MaxMessages
    /\ lastSeq' = lastSeq + 1
    /\ stream' = stream \cup {lastSeq'}
    /\ \/ UNCHANGED prefilled
       \/ filling /\ prefilled' = prefilled \cup {lastSeq'}
    /\ UNCHANGED <<consumerVars, exists, epoch, status, wasDone, queued, filling, purgedTo,
                   lostPops, prefillDone, request, acks, clientVars, faults, handled>>

\* Mutant: the consumer has no max_ack_pending.
FetchableBesidesPending(m) ==
    \/ expired /\ m = pending
    \/ /\ m \in stream /\ m > delivered
       /\ \A n \in stream : n > delivered => m <= n

\* What a fetch would get: the message whose AckWait ran out, else, when nothing
\* is pending, the next undelivered one.  The subject asked for plays no role,
\* the durable consumer has no filter.
Fetchable(m) ==
    \/ expired /\ m = pending
    \/ /\ pending = 0
       /\ m \in stream /\ m > delivered
       /\ \A n \in stream : n > delivered => m <= n

NothingToFetch == \A m \in stream : ~Fetchable(m)

ExpireAckWait ==
    /\ pending # 0 /\ ~expired
    /\ expired' = TRUE
    /\ UNCHANGED <<stream, lastSeq, delivered, pending, subVars, prefillDone, request, acks,
                   clientVars, faults, handled>>

-----------------------------------------------------------------------------
(* The subscription's life: prefill, deletion, registration *)

Fault == faults < MaxFaults /\ faults' = faults + 1

lifeUnchanged == UNCHANGED <<lostPops, prefillDone, request, acks, clientVars>>

\* Mutant: the purge is not restricted to the prefill subject.
PurgeEverything ==
    /\ stream' = {}
    /\ pending' = 0
    /\ expired' = FALSE
    /\ purgedTo' = lastSeq

\* purge_subject_from_messages: whatever an earlier attempt published goes, delivered
\* or not, and what goes is no longer pending.
PurgePrefillSubject ==
    /\ stream' = stream \ prefilled
    /\ pending' = IF pending \in prefilled THEN 0 ELSE pending
    /\ expired' = (expired /\ pending \notin prefilled)
    /\ purgedTo' = lastSeq

\* The worker takes up the first request, for the first time or again, and removes
\* the old messages.  Without a stream that raises, the request stays in the queue.
BeginPrefill ==
    /\ exists
    /\ queued > 0 /\ ~filling
    /\ filling' = TRUE
    /\ PurgePrefillSubject
    /\ UNCHANGED <<lastSeq, delivered, exists, epoch, status, wasDone, queued, prefilled,
                   faults, handled>>
    /\ lifeUnchanged

streamUnchanged ==
    UNCHANGED <<stream, lastSeq, consumerVars, exists, epoch, prefilled, purgedTo, handled>>

\* The worker reports before it fills in the first topic, also when an earlier
\* attempt was done and its request is redelivered.
RunPrefill ==
    /\ exists
    /\ filling /\ status # "running"
    /\ status' = "running"
    /\ UNCHANGED <<wasDone, queued, filling, faults>>
    /\ streamUnchanged
    /\ lifeUnchanged

\* The attempt is complete: the worker reports and acknowledges the request, unless it
\* crashes in between or the acknowledgement gets lost.
EndPrefill ==
    /\ exists
    /\ filling
    /\ status' = "done" /\ wasDone' = TRUE
    /\ filling' = FALSE
    /\ \/ queued' = queued - 1 /\ UNCHANGED faults
       \/ Fault /\ UNCHANGED queued
    /\ streamUnchanged
    /\ lifeUnchanged

\* The attempt fails, or finds the subscription deleted: the request is redelivered.
FailPrefill ==
    /\ filling
    /\ filling' = FALSE
    /\ \/ Fault
       \/ ~exists /\ UNCHANGED faults
    /\ UNCHANGED <<status, wasDone, queued>>
    /\ streamUnchanged
    /\ lifeUnchanged

\* After max_prefill_attempts, from 0 on, the worker reports the failure and is
\* through with the request.
ParkPrefill ==
    /\ exists
    /\ queued > 0 /\ ~filling
    /\ queued' = queued - 1
    /\ status' = "failed"
    /\ UNCHANGED <<wasDone, filling, faults>>
    /\ streamUnchanged
    /\ lifeUnchanged

\* delete_subscription.  The prefill queue does not learn of it.
DeleteSubscription ==
    /\ exists
    /\ epoch < MaxEpochs
    /\ exists' = FALSE
    /\ stream' = {} /\ lastSeq' = 0
    /\ delivered' = 0 /\ pending' = 0 /\ expired' = FALSE
    /\ prefilled' = {} /\ purgedTo' = 0
    /\ lostPops' = {}
    /\ handled' = {}
    /\ UNCHANGED <<epoch, status, wasDone, queued, filling, prefillDone, request, acks,
                   clientVars, faults>>

\* register_subscription, and the request to the prefill if there is to be one
RegisterSubscription ==
    /\ ~exists
    /\ exists' = TRUE
    /\ epoch' = epoch + 1
    /\ \/ status' = "pending" /\ queued' = queued + 1
       \/ status' = "done" /\ UNCHANGED queued
    /\ wasDone' = (status' = "done")
    /\ UNCHANGED <<stream, lastSeq, consumerVars, filling, prefilled, purgedTo, faults, handled>>
    /\ lifeUnchanged

-----------------------------------------------------------------------------
(* GET /v1/subscriptions/{name}/messages/next *)

Goto(r, pc) == request' = [request EXCEPT ![r].pc = pc]

apiUnchanged == UNCHANGED <<lastSeq, subVars, acks, clientVars, faults, handled>>

\* MessageService.get_next_message: main queue or prefill queue?
StartGet(r) ==
    /\ request[r].pc = "start"
    /\ Goto(r, IF prefillDone THEN "main" ELSE "gate")
    /\ UNCHANGED <<stream, consumerVars, prefillDone>>
    /\ apiUnchanged

\* Mutant: the gate only waits for the prefill to start.
PassGateWhenRunning(r) ==
    /\ request[r].pc = "gate"
    /\ exists /\ status # "pending"
    /\ Goto(r, "prefill")
    /\ UNCHANGED <<stream, consumerVars, prefillDone>>
    /\ apiUnchanged

\* check_subscription_status finds the status done within the timeout.
PassGate(r) ==
    /\ request[r].pc = "gate"
    /\ exists /\ status = "done"
    /\ Goto(r, "prefill")
    /\ UNCHANGED <<stream, consumerVars, prefillDone>>
    /\ apiUnchanged

\* The timeout is over before: no message.
FailGate(r) ==
    /\ request[r].pc = "gate"
    /\ exists /\ status # "done"
    /\ request' = [request EXCEPT ![r] = Reply(0)]
    /\ UNCHANGED <<stream, consumerVars, prefillDone>>
    /\ apiUnchanged

\* There is no such subscription: ValueError, which nothing catches, the response is 500.
GateRaises(r) ==
    /\ request[r].pc = "gate"
    /\ ~exists
    /\ Goto(r, "error")
    /\ UNCHANGED <<stream, consumerVars, prefillDone>>
    /\ apiUnchanged

\* The server delivers m to the fetch of a request.
Delivery(r, m) ==
    /\ request[r].pc \in {"prefill", "main"}
    /\ m \in stream
    /\ Fetchable(m)
    /\ delivered' = IF m > delivered THEN m ELSE delivered
    /\ pending' = m
    /\ expired' = FALSE
    /\ UNCHANGED stream

\* Mutant: pop is not looked at.
FetchWithoutPop(r, m) ==
    /\ Delivery(r, m)
    /\ request' = [request EXCEPT ![r] = Reply(m)]
    /\ UNCHANGED prefillDone
    /\ apiUnchanged

\* NatsMQAdapter.get_message: fetch one message from the durable consumer.
Fetch(r, m) ==
    /\ Delivery(r, m)
    /\ request' = [request EXCEPT ![r] = [Reply(m) EXCEPT !.pc = IF pop THEN "pop" ELSE "reply"]]
    /\ UNCHANGED prefillDone
    /\ apiUnchanged

\* The handler acknowledges.  The message stays in the stream, the consumer is
\* through with it; the acknowledgement names the message by its number.
Pop(r) ==
    /\ request[r].pc = "pop"
    /\ pending' = IF pending = request[r].msg THEN 0 ELSE pending
    /\ expired' = (expired /\ pending # request[r].msg)
    /\ Goto(r, "reply")
    /\ UNCHANGED <<stream, delivered, prefillDone>>
    /\ apiUnchanged

\* The acknowledgement, which nobody answers, gets lost; the handler replies as well.
LosePopAck(r) ==
    /\ Fault
    /\ request[r].pc = "pop"
    /\ Goto(r, "reply")
    /\ lostPops' = IF exists /\ request[r].epoch = epoch
                     THEN lostPops \cup {request[r].msg} ELSE lostPops
    /\ UNCHANGED <<stream, lastSeq, consumerVars, exists, epoch, prefillVars, prefillDone, acks,
                   clientVars, handled>>

\* What the handler makes of a fetch without a message.  After the prefill queue
\* the subscription is remembered as prefilled.
NoMessage(r) ==
    /\ prefillDone' = (prefillDone \/ request[r].pc = "prefill")
    /\ request' = [request EXCEPT ![r] = Reply(0)]

\* The fetch runs into its timeout, or the stream is gone.
FetchNothing(r) ==
    /\ request[r].pc \in {"prefill", "main"}
    /\ NothingToFetch
    /\ NoMessage(r)
    /\ UNCHANGED <<stream, consumerVars>>
    /\ apiUnchanged

-----------------------------------------------------------------------------
(* PATCH /v1/subscriptions/{name}/messages/{seq_num}/status *)

\* The client goes on to the next message.
NextMessage == cpc' = "idle" /\ message' = 0 /\ attempt' = 0 /\ ofEpoch' = 1

\* Mutant: one retry more than configured.
RetryAckOnceMore ==
    \/ /\ attempt <= MaxRetries
       /\ cpc' = "acking" /\ attempt' = attempt + 1 /\ UNCHANGED <<message, ofEpoch>>
    \/ attempt > MaxRetries /\ NextMessage

\* An attempt failed: acknowledge_message_with_retries tries again or gives up.
RetryAck ==
    \/ /\ attempt < MaxRetries
       /\ cpc' = "acking" /\ attempt' = attempt + 1 /\ UNCHANGED <<message, ofEpoch>>
    \/ attempt = MaxRetries /\ NextMessage

\* delete_message: the message with that number is deleted, which also ends its
\* being pending.
DeleteMessage(m) ==
    /\ stream' = stream \ {m}
    /\ pending' = IF pending = m THEN 0 ELSE pending
    /\ expired' = (expired /\ pending # m)

\* update_message_status: the only status there is, ok, deletes the message; without
\* one the response is 404, for the client an error.  Only the answer to the
\* attempt the client is at reaches it.
AcknowledgeMessage(a) ==
    /\ a \in acks
    /\ acks' = acks \ {a}
    /\ DeleteMessage(a.msg)
    /\ IF cpc = "acked?" /\ a.msg = message /\ a.attempt = attempt
         THEN IF a.msg \in stream THEN NextMessage ELSE RetryAck
         ELSE UNCHANGED <<cpc, message, ofEpoch, attempt>>
    /\ UNCHANGED <<lastSeq, delivered, subVars, prefillDone, request, asked, pop, faults, handled>>

-----------------------------------------------------------------------------
(* MessageHandler.run *)

handlerUnchanged == UNCHANGED <<stream, lastSeq, consumerVars, subVars, prefillDone, pop>>

SendGet(r) ==
    /\ cpc = "idle"
    /\ request[r].pc = "free"
    /\ request' = [request EXCEPT ![r] = [Free EXCEPT !.pc = "start"]]
    /\ cpc' = "waiting"
    /\ asked' = r
    /\ UNCHANGED <<acks, message, ofEpoch, attempt, faults, handled>>
    /\ handlerUnchanged

\* Mutant: messages are acknowledged upon reception.
ReceiveAndAcknowledge ==
    /\ cpc = "waiting"
    /\ request[asked].pc = "reply"
    /\ message' = request[asked].msg
    /\ ofEpoch' = IF message' = 0 THEN 1 ELSE request[asked].epoch
    /\ cpc' = IF message' = 0 THEN "idle" ELSE "acking"
    /\ request' = [request EXCEPT ![asked] = Free]
    /\ asked' = Nobody
    /\ UNCHANGED <<acks, attempt, faults, handled>>
    /\ handlerUnchanged

ReceiveReply ==
    /\ cpc = "waiting"
    /\ request[asked].pc = "reply"
    /\ message' = request[asked].msg
    /\ ofEpoch' = IF message' = 0 THEN 1 ELSE request[asked].epoch
    /\ cpc' = IF message' = 0 THEN "idle" ELSE "handling"
    /\ request' = [request EXCEPT ![asked] = Free]
    /\ asked' = Nobody
    /\ UNCHANGED <<acks, attempt, faults, handled>>
    /\ handlerUnchanged

\* The status 500 raises (raise_for_status) and ends the client, which starts anew.
ReceiveError ==
    /\ cpc = "waiting"
    /\ request[asked].pc = "error"
    /\ NextMessage
    /\ request' = [request EXCEPT ![asked] = Free]
    /\ asked' = Nobody
    /\ UNCHANGED <<acks, faults, handled>>
    /\ handlerUnchanged

\* Whether the message the client has is from the present stream.
OfThisStream == exists /\ ofEpoch = epoch

\* Mutant: no acknowledgement follows the callbacks.
RunCallbacksOnly ==
    /\ cpc = "handling"
    /\ handled' = IF OfThisStream THEN handled \cup {message} ELSE handled
    /\ NextMessage
    /\ UNCHANGED <<request, acks, asked, faults>>
    /\ handlerUnchanged

\* All callbacks have returned; a popped message has been acknowledged already.
RunCallbacks ==
    /\ cpc = "handling"
    /\ handled' = IF OfThisStream THEN handled \cup {message} ELSE handled
    /\ IF pop THEN NextMessage
              ELSE cpc' = "acking" /\ attempt' = 0 /\ UNCHANGED <<message, ofEpoch>>
    /\ UNCHANGED <<request, acks, asked, faults>>
    /\ handlerUnchanged

\* acknowledge_message_with_retries sends one attempt.
SendAck ==
    /\ cpc = "acking"
    /\ acks' = acks \cup {[msg |-> message, attempt |-> attempt]}
    /\ cpc' = "acked?"
    /\ UNCHANGED <<request, asked, message, ofEpoch, attempt, faults, handled>>
    /\ handlerUnchanged

\* The connection fails before the response, whether or not the API has acted or
\* will act: the client tries again, or gives up and goes on.
LoseAckResponse ==
    /\ Fault
    /\ cpc = "acked?"
    /\ RetryAck
    /\ UNCHANGED <<request, acks, asked, handled>>
    /\ handlerUnchanged

\* The client goes down, by a callback or a request that raises, and starts anew.
\* The API does not notice.
CrashClient ==
    /\ Fault
    /\ cpc # "idle"
    /\ NextMessage
    /\ asked' = Nobody
    /\ UNCHANGED <<request, acks, handled>>
    /\ handlerUnchanged

\* A message is delivered to a fetch that has just run into its timeout.
MissDelivery(r, m) ==
    /\ Fault
    /\ Delivery(r, m)
    /\ NoMessage(r)
    /\ UNCHANGED <<lastSeq, subVars, acks, clientVars, handled>>

\* The response to a client that is no longer there goes nowhere.
DropReply(r) ==
    /\ request[r].pc \in {"reply", "error"}
    /\ ~(cpc = "waiting" /\ asked = r)
    /\ request' = [request EXCEPT ![r] = Free]
    /\ UNCHANGED <<acks, clientVars, faults, handled>>
    /\ handlerUnchanged

\* The API process restarts: requests under way fail, the memory is empty.
RestartApi ==
    /\ Fault
    /\ prefillDone' = FALSE
    /\ request' = [r \in Requests |-> Free]
    /\ acks' = {}
    /\ CASE cpc = "waiting" -> NextMessage
         [] cpc = "acked?" -> RetryAck
         [] OTHER -> UNCHANGED <<cpc, message, ofEpoch, attempt>>
    /\ asked' = Nobody
    /\ UNCHANGED <<stream, lastSeq, consumerVars, subVars, pop, handled>>

-----------------------------------------------------------------------------
GetHandler(r) ==
    \/ StartGet(r)
    \/ PassGate(r)
    \/ FailGate(r)
    \/ GateRaises(r)
    \/ \E m \in stream : Fetch(r, m)
    \/ Pop(r)
    \/ FetchNothing(r)
    \/ DropReply(r)

Client ==
    \/ \E r \in Requests : SendGet(r)
    \/ ReceiveReply
    \/ ReceiveError
    \/ RunCallbacks
    \/ SendAck

PrefillWorker == BeginPrefill \/ RunPrefill \/ EndPrefill

Next ==
    \/ Publish
    \/ ExpireAckWait
    \/ PrefillWorker
    \/ FailPrefill
    \/ ParkPrefill
    \/ DeleteSubscription
    \/ RegisterSubscription
    \/ \E r \in Requests : GetHandler(r)
    \/ \E a \in acks : AcknowledgeMessage(a)
    \/ Client
    \/ \E r \in Requests : LosePopAck(r)
    \/ LoseAckResponse
    \/ CrashClient
    \/ \E r \in Requests, m \in stream : MissDelivery(r, m)
    \/ RestartApi

Spec == Init /\ [][Next]_vars

\* The server's timers and the tasks of both processes go on.
FairSpec ==
    /\ Spec
    /\ WF_vars(ExpireAckWait)
    /\ WF_vars(PrefillWorker)
    /\ \A r \in Requests : WF_vars(GetHandler(r))
    /\ WF_vars(\E a \in acks : AcknowledgeMessage(a))
    /\ WF_vars(Client)

-----------------------------------------------------------------------------
(* Properties *)

\* "A subscriber must acknowledge the successful processing of a message"
\* (docs/about.md): no message of the present stream is deleted before it went
\* through the consumer's callbacks, but for those of a prefill attempt that a later
\* attempt has replaced.
HandledBeforeDeleted ==
    \A m \in 1..lastSeq : m \in stream \/ m \in handled \/ (m \in prefilled /\ m <= purgedTo)

\* As long as the subscription was not deleted and registered again, that holds
\* in spite of purges, lost responses, repeated attempts and abandoned requests.
HandledBeforeDeletedAtFirst == epoch = 1 => HandledBeforeDeleted

\* "Until a message is acknowledged, the Provisioning API will redeliver the
\* current message" (docs/about.md): the consumer gets a message only when every
\* earlier one of its stream has been acknowledged, by its deletion or a pop.
OneAfterTheOther ==
    cpc = "handling" /\ OfThisStream =>
        \A m \in stream : m < message => pop /\ m # pending

\* The acknowledgement of a popped message precedes the response (the price is a
\* message lost with the response), but nobody answers it: whatever times out, is
\* abandoned, restarted or expires, a popped message goes through the callbacks again
\* only when an acknowledgement of just this message got lost, and before any later one.
PoppedOnceUnlessAckLost ==
    pop /\ cpc = "handling" /\ OfThisStream /\ message \in handled =>
        message \in lostPops /\ \A n \in handled : n <= message

\* "Only once the queue status is `ok`, the subscriber will start to receive
\* messages" (docs/prefill.md): nothing is fetched for a registration whose
\* prefill never was done.
NothingBeforeDone == delivered > 0 => wasDone

\* The gate holds for the first registration, through restarts of the API.
NothingBeforeDoneAtFirst == epoch = 1 => NothingBeforeDone

\* Every message is acknowledged in the end, unless the prefill is repeated and parked:
\* purges, lost responses, missed deliveries, abandoned requests and crashes only
\* delay it.
EveryMessageAcknowledged ==
    \A m \in Messages :
        (m \in stream /\ status = "done")
            ~> (\/ m \notin stream
                \/ pop /\ m <= delivered /\ m # pending
                \/ status = "failed")

=============================================================================
