------------------------------- MODULE Prefill -------------------------------
(***************************************************************************)
(* The prefill service: it takes prefill requests one by one from a work   *)
(* queue, purges the prefill subject of the subscription's stream,         *)
(* publishes every UDM object of the requested topics to it and reports    *)
(* its progress to the REST API, which writes it into the subscription's   *)
(* entry (src/src/server/core/prefill/service/udm_prefill.py).  A request  *)
(* that was delivered too often is parked and reported as failed.          *)
(*                                                                         *)
(* Around it: the REST API that registers and deletes subscriptions and    *)
(* queues the requests, its handler of the progress reports, which reads   *)
(* the entry and writes it back, and the dispatcher, which publishes live  *)
(* events to the same stream.  Every subscription here requests a prefill; *)
(* register and delete calls for one name do not overlap (Dispatcher and   *)
(* Messages have the other cases).                                         *)
(***************************************************************************)
EXTENDS Integers, FiniteSets, SequencesExt

CONSTANTS
    Subs,           \* subscription names
    RealmTopics,    \* (realm, topic) pairs a subscription may state
    Foreign,        \* those of another realm than udm
    Objects,        \* UDM objects
    Contents,       \* the objects of the UDM modules that match a realm-topic, in order
    TopicLists,     \* the realms_topics of subscriptions
    MaxAttempts,    \* max_prefill_attempts; -1: no limit
    SlowCalls,      \* TRUE: a handler of the API may outlive the restart of its client
    Live,           \* a live event
    MaxRegistrations, \* bound: register calls
    MaxLive,        \* bound: live events per stream
    MaxFaults       \* bound: crashes, failing steps and lost acknowledgements

ASSUME TopicsAssumption ==
    /\ Foreign \subseteq RealmTopics
    /\ TopicLists \subseteq Seq(RealmTopics)
    /\ Contents \in [RealmTopics \ Foreign -> Seq(Objects)]
    /\ Live \notin Objects
ASSUME AttemptsAssumption == MaxAttempts \in Nat \cup {-1}
ASSUME CallsAssumption == SlowCalls \in BOOLEAN
ASSUME BoundsAssumption == {MaxLive, MaxFaults} \subseteq Nat /\ MaxRegistrations \in Nat \ {0}

VARIABLES
    \* on the NATS server
    kv,             \* SUBSCRIPTIONS bucket: the entry of each name, or NoEntry
    exists,         \* subscriptions whose stream exists
    stream,         \* what was published to each stream and not purged
    requests,       \* the prefill stream, a work queue
    attempts,       \* how often its first request was delivered (num_delivered)
    failures,       \* requests in the prefill-failures stream
    \* the REST API
    registrations,  \* number of subscriptions registered, each gets the next number
    calls,          \* the register or delete call for each name, see Call
    patches,        \* PATCH handlers under way, see Patch
    \* the prefill worker
    wpc,            \* "down", "idle", "purge", "fill", "park", "report", "reported",
                    \* "list" or "ack"
    todo,           \* realms_topics still to be filled
    urls,           \* objects of the present one still to be published
    report,         \* the status it reports
    \* bound and history
    faults,
    fresh           \* registered when nothing of an earlier registration was left, see Fresh

serverVars == <<exists, stream, requests, attempts, failures>>
apiVars    == <<kv, registrations, fresh, calls, patches>>
fillVars   == <<todo, urls, report>>
vars == <<serverVars, apiVars, wpc, fillVars, faults>>

Statuses == {"pending", "running", "done", "failed"}
Entry    == [id : 1..MaxRegistrations, topics : TopicLists, status : Statuses]
NoEntry  == [id |-> 0]
Request  == [sub : Subs, id : 1..MaxRegistrations, topics : TopicLists]
Call     == [next : {"ensure", "request"}, sends : Request] \cup [next : {"drop"}]
NoCall   == [next |-> "none"]

\* A PATCH handler: the entry it has read, NoEntry before, and whether the
\* worker that sent the request still waits for the response.
Patch == [sub : Subs, status : Statuses, read : Entry \cup {NoEntry}, awaited : BOOLEAN]

\* Attempts beyond MaxAttempts + 1 make no difference, nor do any without a limit.
CountAttempt(n) == IF n > MaxAttempts THEN n ELSE n + 1

Registered(s) == kv[s] # NoEntry

TypeOK ==
    /\ kv \in [Subs -> Entry \cup {NoEntry}]
    /\ exists \subseteq Subs
    /\ stream \in [Subs -> Seq(Objects \cup {Live})]
    /\ requests \in Seq(Request)
    /\ attempts \in Nat
    /\ failures \subseteq Request
    /\ registrations \in 0..MaxRegistrations
    /\ fresh \subseteq Subs
    /\ calls \in [Subs -> Call \cup {NoCall}]
    /\ patches \subseteq Patch
    /\ wpc \in {"down", "idle", "purge", "fill", "list", "park", "report", "reported", "ack"}
    /\ wpc \notin {"down", "idle"} => requests # <<>>
    /\ wpc = "reported" => \E p \in patches : p.awaited
    /\ todo \in Seq(RealmTopics)
    /\ urls \in Seq(Objects)
    /\ report \in Statuses
    /\ faults \in 0..MaxFaults

Init ==
    /\ kv = [s \in Subs |-> NoEntry]
    /\ exists = {} /\ stream = [s \in Subs |-> <<>>]
    /\ requests = <<>> /\ attempts = 0 /\ failures = {}
    /\ registrations = 0 /\ fresh = {}
    /\ calls = [s \in Subs |-> NoCall]
    /\ patches = {}
    /\ wpc = "down" /\ todo = <<>> /\ urls = <<>> /\ report = "pending"
    /\ faults = 0

-----------------------------------------------------------------------------
(* The REST API: register and delete calls, step by step *)

workerUnchanged == UNCHANGED <<wpc, fillVars, faults>>
queueUnchanged == UNCHANGED <<requests, attempts, failures>>

\* Neither a request nor a report for the name is under way.
Requested(s) == \E i \in DOMAIN requests : requests[i].sub = s
Fresh(s) == ~Requested(s) /\ \A p \in patches : p.sub # s

\* set_sub_info of prepare_and_store_subscription_info
StoreSubscription(s, T) ==
    /\ calls[s] = NoCall
    /\ ~Registered(s)
    /\ registrations < MaxRegistrations
    /\ registrations' = registrations + 1
    /\ kv' = [kv EXCEPT ![s] = [id |-> registrations', topics |-> T, status |-> "pending"]]
    /\ calls' = [calls EXCEPT ![s] =
                   [next |-> "ensure", sends |-> [sub |-> s, id |-> registrations', topics |-> T]]]
    /\ fresh' = IF Fresh(s) THEN fresh \cup {s} ELSE fresh
    /\ UNCHANGED <<serverVars, patches>>
    /\ workerUnchanged

EnsureStream(s) ==
    /\ calls[s].next = "ensure"
    /\ exists' = exists \cup {s}
    /\ calls' = [calls EXCEPT ![s].next = "request"]
    /\ UNCHANGED <<stream, kv, registrations, fresh, patches>>
    /\ queueUnchanged /\ workerUnchanged

\* create_subscription: send_request_to_prefill
SendRequest(s) ==
    /\ calls[s].next = "request"
    /\ requests' = Append(requests, calls[s].sends)
    /\ calls' = [calls EXCEPT ![s] = NoCall]
    /\ UNCHANGED <<exists, stream, attempts, failures, kv, registrations, fresh, patches>>
    /\ workerUnchanged

\* delete_subscription up to delete_sub_info
RemoveSubscription(s) ==
    /\ calls[s] = NoCall
    /\ Registered(s)
    /\ kv' = [kv EXCEPT ![s] = NoEntry]
    /\ calls' = [calls EXCEPT ![s] = [next |-> "drop"]]
    /\ fresh' = fresh \ {s}
    /\ UNCHANGED <<serverVars, registrations, patches>>
    /\ workerUnchanged

DropStream(s) ==
    /\ calls[s].next = "drop"
    /\ exists' = exists \ {s}
    /\ stream' = [stream EXCEPT ![s] = <<>>]
    /\ calls' = [calls EXCEPT ![s] = NoCall]
    /\ UNCHANGED <<kv, registrations, fresh, patches>>
    /\ queueUnchanged /\ workerUnchanged

-----------------------------------------------------------------------------
(* The REST API: PATCH /v1/subscriptions/{name}/prefill *)

\* set_subscription_queue_status reads the entry ...
ReadEntry(p) ==
    /\ p.read = NoEntry
    /\ Registered(p.sub)
    /\ patches' = (patches \ {p}) \cup {[p EXCEPT !.read = kv[p.sub]]}
    /\ UNCHANGED <<serverVars, kv, registrations, fresh, calls>>
    /\ workerUnchanged

\* Mutant: after a report of failed, handle_message raises PrefillFailedError.
WriteEntryThenRaise(p) ==
    /\ p.read # NoEntry
    /\ kv' = [kv EXCEPT ![p.sub] = [p.read EXCEPT !.status = p.status]]
    /\ patches' = patches \ {p}
    /\ wpc' = IF ~p.awaited THEN wpc
              ELSE CASE p.status = "running" -> "list" [] p.status = "done" -> "ack" [] OTHER -> "down"
    /\ UNCHANGED <<serverVars, registrations, fresh, calls, fillVars, faults>>

\* ... and writes it back with the new status, whatever happened since.
WriteEntry(p) ==
    /\ p.read # NoEntry
    /\ kv' = [kv EXCEPT ![p.sub] = [p.read EXCEPT !.status = p.status]]
    /\ patches' = patches \ {p}
    /\ wpc' = IF ~p.awaited THEN wpc ELSE IF p.status = "running" THEN "list" ELSE "ack"
    /\ UNCHANGED <<serverVars, registrations, fresh, calls, fillVars, faults>>

-----------------------------------------------------------------------------
(* The dispatcher *)

\* It publishes an event to a stream; its mapping may be stale.
LiveEvent(s) ==
    /\ s \in exists
    /\ Cardinality({i \in DOMAIN stream[s] : stream[s][i] = Live}) < MaxLive
    /\ stream' = [stream EXCEPT ![s] = Append(@, Live)]
    /\ UNCHANGED <<exists, apiVars>>
    /\ queueUnchanged /\ workerUnchanged

-----------------------------------------------------------------------------
(* The prefill worker: UDMPreFill *)

request == Head(requests)

Start ==
    /\ wpc = "down"
    /\ SlowCalls \/ patches = {}
    /\ wpc' = "idle"
    /\ UNCHANGED <<serverVars, apiVars, fillVars, faults>>

\* The process ends, after a negative acknowledgement if it can: the request is
\* delivered again.  The API does not notice.
GoDown ==
    /\ wpc' = "down"
    /\ todo' = <<>> /\ urls' = <<>>
    /\ UNCHANGED <<serverVars, kv, registrations, fresh, calls, report>>

\* Any step may fail, and the process may die: no exception of handle_message is
\* recoverable, the TaskGroup turns each of them into an ExceptionGroup.
Fault == faults < MaxFaults /\ faults' = faults + 1

Crash ==
    /\ Fault
    /\ wpc # "down"
    /\ GoDown
    /\ patches' = {[p EXCEPT !.awaited = FALSE] : p \in patches}

\* Mutant: the request is acknowledged upon reception.
TakeAndAcknowledge ==
    /\ wpc = "idle"
    /\ requests # <<>>
    /\ requests' = Tail(requests)
    /\ wpc' = "purge"
    /\ UNCHANGED <<exists, stream, attempts, failures, apiVars, fillVars, faults>>

\* get_one_message; handle_message looks at num_delivered first.
TakeRequest ==
    /\ wpc = "idle"
    /\ requests # <<>>
    /\ attempts' = CountAttempt(attempts)
    /\ wpc' = IF MaxAttempts # -1 /\ attempts' > MaxAttempts THEN "park" ELSE "purge"
    /\ UNCHANGED <<exists, stream, requests, failures, apiVars, fillVars, faults>>

\* Mutant: a parked request is acknowledged and never reported.
ParkSilently ==
    /\ wpc = "park"
    /\ failures' = failures \cup {request}
    /\ wpc' = "ack"
    /\ UNCHANGED <<exists, stream, requests, attempts, apiVars, fillVars, faults>>

\* The request goes to the failure queue before it is reported.
Park ==
    /\ wpc = "park"
    /\ failures' = failures \cup {request}
    /\ wpc' = "report" /\ report' = "failed"
    /\ UNCHANGED <<exists, stream, requests, attempts, apiVars, todo, urls, faults>>

\* The messages of q that are in S, in their order.
Only(q, S) == FlattenSeq([i \in DOMAIN q |-> IF q[i] \in S THEN <<q[i]>> ELSE <<>>])

\* Mutant: a repeated delivery fills on top of what the last one left.
StartWithoutPurge ==
    /\ wpc = "purge"
    /\ request.sub \in exists
    /\ wpc' = "fill" /\ todo' = request.topics
    /\ UNCHANGED <<exists, stream, apiVars, urls, report, faults>>
    /\ queueUnchanged

\* Mutant: the whole stream is purged, not the prefill subject.
PurgeStream ==
    /\ wpc = "purge"
    /\ request.sub \in exists
    /\ stream' = [stream EXCEPT ![request.sub] = <<>>]
    /\ wpc' = "fill" /\ todo' = request.topics
    /\ UNCHANGED <<exists, apiVars, urls, report, faults>>
    /\ queueUnchanged

\* remove_old_messages_from_prefill_subject
Purge ==
    /\ wpc = "purge"
    /\ request.sub \in exists
    /\ stream' = [stream EXCEPT ![request.sub] = Only(@, {Live})]
    /\ wpc' = "fill" /\ todo' = request.topics
    /\ UNCHANGED <<exists, apiVars, urls, report, faults>>
    /\ queueUnchanged

\* The next realm-topic: one of another realm is skipped.
SkipForeign ==
    /\ wpc = "fill" /\ urls = <<>>
    /\ todo # <<>> /\ Head(todo) \in Foreign
    /\ todo' = Tail(todo)
    /\ UNCHANGED <<serverVars, apiVars, wpc, urls, report, faults>>

\* Before each realm-topic of udm the status is reported as running ...
ReportRunning ==
    /\ wpc = "fill" /\ urls = <<>>
    /\ todo # <<>> /\ Head(todo) \notin Foreign
    /\ wpc' = "report" /\ report' = "running"
    /\ UNCHANGED <<serverVars, apiVars, todo, urls, faults>>

\* ... and done after the last one.
ReportDone ==
    /\ wpc = "fill" /\ urls = <<>>
    /\ todo = <<>>
    /\ wpc' = "report" /\ report' = "done"
    /\ UNCHANGED <<serverVars, apiVars, todo, urls, faults>>

\* InternalAPIAdapter.update_subscription_queue_status sends the PATCH request.
SendReport ==
    /\ wpc = "report"
    /\ patches' = patches \cup {[sub |-> request.sub, status |-> report,
                                 read |-> NoEntry, awaited |-> TRUE]}
    /\ wpc' = "reported"
    /\ UNCHANGED <<serverVars, kv, registrations, fresh, calls, fillVars, faults>>

\* fetch_udm: what UDM has now for the topic.
ListObjects ==
    /\ wpc = "list"
    /\ urls' = Contents[Head(todo)]
    /\ todo' = Tail(todo)
    /\ wpc' = "fill"
    /\ UNCHANGED <<serverVars, apiVars, report, faults>>

\* _fill_object publishes to the prefill subject of the stream.
FillObject ==
    /\ wpc = "fill" /\ urls # <<>>
    /\ request.sub \in exists
    /\ stream' = [stream EXCEPT ![request.sub] = Append(@, Head(urls))]
    /\ urls' = Tail(urls)
    /\ UNCHANGED <<exists, apiVars, wpc, todo, report, faults>>
    /\ queueUnchanged

\* Neither a purge nor a publication finds a stream: an exception.
FailWithoutStream ==
    /\ wpc = "purge" \/ (wpc = "fill" /\ urls # <<>>)
    /\ request.sub \notin exists
    /\ GoDown
    /\ UNCHANGED <<patches, faults>>

\* acknowledge_message removes the request from the work queue.
AckRequest ==
    /\ wpc = "ack"
    /\ requests' = Tail(requests) /\ attempts' = 0
    /\ wpc' = "idle"
    /\ UNCHANGED <<exists, stream, failures, apiVars, fillVars, faults>>

\* The acknowledgement gets lost: AckWait runs out and the request comes again.
LoseAck ==
    /\ Fault
    /\ wpc = "ack"
    /\ wpc' = "idle"
    /\ UNCHANGED <<serverVars, apiVars, fillVars>>

-----------------------------------------------------------------------------
(* Failing reports *)

\* No entry: the response is 404, for the worker an exception.
NoEntryToReport(p) ==
    /\ p.read = NoEntry
    /\ ~Registered(p.sub)
    /\ patches' = patches \ {p}
    /\ IF p.awaited THEN GoDown ELSE UNCHANGED <<serverVars, kv, registrations, fresh, calls, wpc, fillVars>>
    /\ UNCHANGED faults

\* The API process dies, and with it the handlers under way.
RestartApi ==
    /\ Fault
    /\ patches # {}
    /\ patches' = {}
    /\ IF wpc = "reported" THEN GoDown ELSE UNCHANGED <<serverVars, kv, registrations, fresh, calls, wpc, fillVars>>

-----------------------------------------------------------------------------
Register(s) ==
    \/ \E T \in TopicLists : StoreSubscription(s, T)
    \/ EnsureStream(s)
    \/ SendRequest(s)

Delete(s) == RemoveSubscription(s) \/ DropStream(s)

Handler(p) == ReadEntry(p) \/ WriteEntry(p) \/ NoEntryToReport(p)

Worker ==
    \/ Start
    \/ TakeRequest
    \/ Park
    \/ Purge
    \/ SkipForeign
    \/ ReportRunning
    \/ ReportDone
    \/ SendReport
    \/ ListObjects
    \/ FillObject
    \/ FailWithoutStream
    \/ AckRequest

Next ==
    \/ \E s \in Subs : Register(s) \/ Delete(s) \/ LiveEvent(s)
    \/ \E p \in patches : Handler(p)
    \/ Worker
    \/ Crash
    \/ LoseAck
    \/ RestartApi

Spec == Init /\ [][Next]_vars

\* The worker is restarted and goes on, calls that are under way end.
FairSpec ==
    /\ Spec
    /\ WF_vars(Worker)
    /\ WF_vars(\E p \in patches : Handler(p))
    /\ \A s \in Subs : WF_vars(EnsureStream(s) \/ SendRequest(s) \/ DropStream(s))

-----------------------------------------------------------------------------
(* Properties *)

\* The initial state a subscription asks for: the objects of its realm-topics
\* of the realm udm, in the order of the realm-topics.
InitialState(T) ==
    FlattenSeq([i \in DOMAIN T |-> IF T[i] \in Foreign THEN <<>> ELSE Contents[T[i]]])

Prefilled(s) == Only(stream[s], Objects)

\* Registered, by a call that came to its end and found nothing of an earlier
\* registration under way, and not deleted since.
Undisturbed(s) == s \in fresh /\ calls[s] = NoCall

\* A request leaves the queue only when its outcome is known: as long as the
\* status says pending or running there is a request to bring it on, and a
\* prefill reported as failed can be found among the failures, through every
\* crash, repeated delivery and lost acknowledgement.
SettledIsFinal ==
    \A s \in Subs : Undisturbed(s) /\ ~Requested(s) =>
        \/ kv[s].status = "done"
        \/ kv[s].status = "failed" /\ [sub |-> s, id |-> kv[s].id, topics |-> kv[s].topics] \in failures

\* "Once the all objects for all object types have been placed in the queue, the
\* queue status is set to `ok`" and "the initial groups should be provided ahead
\* of the initial users" (docs/prefill.md): the stream of a prefill that is done
\* and over holds the initial state, completely, once and in the order of the
\* request, however often the request was delivered.
DoneIsComplete ==
    \A s \in Subs : Undisturbed(s) /\ ~Requested(s) /\ kv[s].status = "done" =>
        Prefilled(s) = InitialState(kv[s].topics)

LiveEvents(s) == Only(stream[s], {Live})

\* The purge before a fill takes none of the live events that are waiting in the
\* same stream: only a deletion of the subscription does.
LiveEventsSurvive ==
    [][\A s \in Subs : s \in exists' => Len(LiveEvents(s)) <= Len(LiveEvents(s)')]_vars

Orphaned == \E i \in DOMAIN requests : ~(Registered(requests[i].sub) /\ requests[i].sub \in exists)

\* "The prefill will not be retried again and the subscription will be marked as
\* failed" (udm_prefill.py): every prefill comes to an end, done or failed.
EveryPrefillEnds ==
    \A s \in Subs : Requested(s) ~> ~Requested(s)

\* That holds unless the subscription of some queued request is gone.
EveryPrefillEndsUnlessOrphaned ==
    \A s \in Subs : Requested(s) ~> (~Requested(s) \/ Orphaned)

=============================================================================
