------------------------------- MODULE StartUp -------------------------------
(***************************************************************************)
(* How the processes set up what they share on the NATS server.  Each of   *)
(* them connects, creates the buckets, streams and durable consumers it    *)
(* needs if they are missing, and then goes to work; nothing orders the    *)
(* processes, and each is started again when it ends                       *)
(* (the ports, and src/src/server/adapters/nats_adapter.py).               *)
(*                                                                         *)
(* What can be told apart then is whether a message finds its stream: the  *)
(* listener's changes, the events that the transformer posts to the REST   *)
(* API, and the prefill requests of registrations.  The API connects to    *)
(* NATS for every request anew (src/src/server/services/port.py).          *)
(***************************************************************************)
EXTENDS Integers, Sequences, FiniteSets

CONSTANTS
    Requests,           \* requests the API may have under way at the same time
    MaxChanges,         \* bound: LDAP changes
    MaxRegistrations,   \* bound: registrations with a prefill
    MaxFaults           \* bound: crashes, outages of NATS, failing connections

ASSUME BoundsAssumption == {MaxChanges, MaxRegistrations, MaxFaults} \subseteq Nat

Nobody == "nobody"
ASSUME RequestsAssumption == IsFiniteSet(Requests) /\ Nobody \notin Requests

VARIABLES
    \* the NATS server; what it stores outlives it
    nats,           \* whether it can be reached
    buckets,        \* KV buckets
    streams,        \* the subjects of each stream, {} if there is none
    consumers,      \* streams with a durable consumer
    \* the processes
    at,             \* the step of its program a process is at, 0 while it is down
    looked,         \* what stream_info said in the middle of ensure_stream
    \* the transformer
    queued,         \* LDAP changes published and not acknowledged
    waiting,        \* the request whose answer the transformer awaits, or Nobody
    \* the API's requests, and the connections to NATS they have opened
    request,        \* "none" or [kind, at]
    connections,
    \* bounds and history
    changes, registrations, faults

natsVars == <<buckets, streams, consumers>>
apiVars == <<request, connections>>
boundVars == <<changes, registrations, faults>>
vars == <<nats, natsVars, at, looked, queued, waiting, apiVars, boundVars>>

Processes == {"api", "dispatcher", "prefill", "transformer", "listener"}
Streams == {"incoming", "prefill", "ldap-producer"}
Subjects == Streams \cup {"ldap-producer-subject"}
Buckets == {"SUBSCRIPTIONS", "CREDENTIALS", "CACHE"}

\* What a process does on the server before it goes to work.
BucketSet(names) == [op |-> "buckets", names |-> names]
Stream(name, subject) == [op |-> "stream", name |-> name, subject |-> subject]
Consumer(name) == [op |-> "consumer", name |-> name]

\* ensure_stream: the subject is the stream's name if none is stated.
EnsureStream(name) == Stream(name, name)
\* Mutant: the subject is not passed on.
PullSubscriptionOfName(name, subject) == <<EnsureStream(name), Consumer(name)>>
\* initialize_subscription, for a pull consumer
PullSubscription(name, subject) == <<Stream(name, subject), Consumer(name)>>
\* subscribe_to_queue, for a push consumer
PushSubscription(name) == <<EnsureStream(name), Consumer(name)>>

\* Mutant: the API leaves the stream to the prefill service.
StartUpTaskForBuckets == <<BucketSet({"SUBSCRIPTIONS", "CREDENTIALS"})>>

\* Port.connect, startup_task
StartUpTask == <<BucketSet({"SUBSCRIPTIONS", "CREDENTIALS"}), EnsureStream("prefill")>>

\* DispatcherPort.connect, dispatch_events
DispatcherSetUp == <<BucketSet({"SUBSCRIPTIONS"})>> \o PushSubscription("incoming")

\* handle_requests_to_prefill.  (Before it there is the stream of the failures, which
\* nobody else has anything to do with.)
PrefillSetUp == PullSubscription("prefill", "prefill")

\* UDMTransformerPort.connect, transform_events
TransformerSetUp == <<BucketSet({"CACHE"})>>
                        \o PullSubscription("ldap-producer", "ldap-producer-subject")

\* LdapListener.initialize
ListenerSetUp == <<Stream("ldap-producer", "ldap-producer-subject")>>

Program == [api |-> StartUpTask, dispatcher |-> DispatcherSetUp, prefill |-> PrefillSetUp,
            transformer |-> TransformerSetUp, listener |-> ListenerSetUp]

Ready(p) == at[p] = Len(Program[p]) + 1
AtStep(p) == at[p] \in DOMAIN Program[p]
Step(p) == Program[p][at[p]]
Performs(p, op) == AtStep(p) /\ Step(p).op = op

\* JetStream takes a message only if the stream has its subject.
Takes(stream, subject) == nats /\ subject \in streams[stream]

TypeOK ==
    /\ nats \in BOOLEAN
    /\ buckets \subseteq Buckets
    /\ streams \in [Streams -> SUBSET Subjects]
    /\ consumers \subseteq {s \in Streams : streams[s] # {}}
    /\ \A p \in Processes : at[p] \in 0..(Len(Program[p]) + 1)
    /\ looked \in [Processes -> {"no", "missing", "there"}]
    /\ \A p \in Processes : looked[p] # "no" => Performs(p, "stream")
    /\ queued \in 0..changes
    /\ waiting \in Requests \cup {Nobody}
    /\ waiting # Nobody => Ready("transformer") /\ request[waiting].kind = "event"
    /\ \A r \in Requests : request[r].kind = "none" \/ Ready("api")
    /\ request \in [Requests -> [kind : {"none", "event", "registration"},
                                 at : {"mq", "kv", "buckets", "handle", "stored", "refused", "failed"}]]
    /\ connections \in Nat
    /\ changes \in 0..MaxChanges /\ registrations \in 0..MaxRegistrations
    /\ faults \in 0..MaxFaults

NoRequest == [kind |-> "none", at |-> "mq"]

\* Nothing has been started, nothing was set up before.
Init ==
    /\ nats = FALSE
    /\ buckets = {} /\ streams = [s \in Streams |-> {}] /\ consumers = {}
    /\ at = [p \in Processes |-> 0] /\ looked = [p \in Processes |-> "no"]
    /\ queued = 0
    /\ waiting = Nobody
    /\ request = [r \in Requests |-> NoRequest] /\ connections = 0
    /\ changes = 0 /\ registrations = 0 /\ faults = 0

Fault == faults < MaxFaults /\ faults' = faults + 1

-----------------------------------------------------------------------------
(* The NATS server *)

StartNats ==
    /\ ~nats
    /\ nats' = TRUE
    /\ UNCHANGED <<natsVars, at, looked, queued, waiting, apiVars, boundVars>>

\* The services that keep a connection get it back, or they end; what they have
\* under way in the API goes on.
StopNats ==
    /\ nats
    /\ Fault
    /\ nats' = FALSE
    /\ \E lost \in SUBSET {p \in {"dispatcher", "prefill", "transformer"} : Ready(p)} :
         /\ at' = [p \in Processes |-> IF p \in lost THEN 0 ELSE at[p]]
         /\ waiting' = IF "transformer" \in lost THEN Nobody ELSE waiting
    /\ UNCHANGED <<natsVars, looked, queued, apiVars, changes, registrations>>

-----------------------------------------------------------------------------
(* Setting up *)

setUpUnchanged == UNCHANGED <<nats, queued, waiting, apiVars, boundVars>>

\* The process is started and connects; that ends at once without NATS.
Start(p) ==
    /\ at[p] = 0 /\ nats
    /\ at' = [at EXCEPT ![p] = 1]
    /\ UNCHANGED <<natsVars, looked>>
    /\ setUpUnchanged

\* A step is done.
Proceed(p) == at' = [at EXCEPT ![p] = @ + 1] /\ looked' = [looked EXCEPT ![p] = "no"]

\* create_kv_store, for each bucket: two that create one bucket get the same one.
CreateBuckets(p) ==
    /\ Performs(p, "buckets") /\ nats
    /\ buckets' = buckets \cup Step(p).names
    /\ Proceed(p)
    /\ UNCHANGED <<streams, consumers>>
    /\ setUpUnchanged

\* ensure_stream asks first whether the stream is there.
LookForStream(p) ==
    /\ Performs(p, "stream") /\ nats /\ looked[p] = "no"
    /\ looked' = [looked EXCEPT ![p] = IF streams[Step(p).name] = {} THEN "missing" ELSE "there"]
    /\ UNCHANGED <<natsVars, at>>
    /\ setUpUnchanged

\* The stream was missing.  It may have been added since: the server accepts that
\* only if it is the same.
AddStream(p) ==
    /\ looked[p] = "missing" /\ nats
    /\ streams[Step(p).name] \in {{}, {Step(p).subject}}
    /\ streams' = [streams EXCEPT ![Step(p).name] = {Step(p).subject}]
    /\ Proceed(p)
    /\ UNCHANGED <<buckets, consumers>>
    /\ setUpUnchanged

UpdateStream(p) ==
    /\ looked[p] = "there" /\ nats
    /\ streams' = [streams EXCEPT ![Step(p).name] = {Step(p).subject}]
    /\ Proceed(p)
    /\ UNCHANGED <<buckets, consumers>>
    /\ setUpUnchanged

\* ensure_consumer: each durable has one creator, an existing one is kept.
EnsureConsumer(p) ==
    /\ Performs(p, "consumer") /\ nats
    /\ streams[Step(p).name] # {}
    /\ consumers' = consumers \cup {Step(p).name}
    /\ Proceed(p)
    /\ UNCHANGED <<buckets, streams>>
    /\ setUpUnchanged

\* Mutant: the transformer does not notice that the API is gone.
GoDownAlone(p) ==
    /\ at' = [at EXCEPT ![p] = 0]
    /\ looked' = [looked EXCEPT ![p] = "no"]
    /\ waiting' = IF p = "transformer" THEN Nobody ELSE waiting
    /\ IF p = "api"
         THEN request' = [r \in Requests |-> NoRequest] /\ connections' = 0
         ELSE UNCHANGED <<request, connections>>

\* The process ends.  With the API its requests and connections do, and with the
\* answer that does not come, the transformer.
GoDown(p) ==
    LET gone == {p} \cup (IF p = "api" /\ waiting # Nobody THEN {"transformer"} ELSE {}) IN
    /\ at' = [q \in Processes |-> IF q \in gone THEN 0 ELSE at[q]]
    /\ looked' = [q \in Processes |-> IF q \in gone THEN "no" ELSE looked[q]]
    /\ waiting' = IF "transformer" \in gone THEN Nobody ELSE waiting
    /\ IF p = "api"
         THEN request' = [r \in Requests |-> NoRequest] /\ connections' = 0
         ELSE UNCHANGED <<request, connections>>

\* NATS cannot be reached, or refuses the stream: the step raises.
StepFails(p) ==
    /\ AtStep(p)
    /\ \/ ~nats
       \/ looked[p] = "missing" /\ streams[Step(p).name] \notin {{}, {Step(p).subject}}
    /\ GoDown(p)
    /\ UNCHANGED <<nats, natsVars, queued, boundVars>>

Crash(p) ==
    /\ Fault
    /\ at[p] # 0
    /\ GoDown(p)
    /\ UNCHANGED <<nats, natsVars, queued, changes, registrations>>

-----------------------------------------------------------------------------
(* At work *)

\* handle_changes: the listener has set up its stream before it gets changes.
\* (Transformer has the changes it loses.)
PublishChange ==
    /\ Ready("listener")
    /\ changes < MaxChanges
    /\ Takes("ldap-producer", "ldap-producer-subject")
    /\ changes' = changes + 1
    /\ queued' = queued + 1
    /\ UNCHANGED <<nats, natsVars, at, looked, waiting, apiVars, registrations, faults>>

SendRequest(r, kind) ==
    /\ Ready("api")
    /\ request[r] = NoRequest
    /\ request' = [request EXCEPT ![r] = [kind |-> kind, at |-> "mq"]]
    /\ UNCHANGED <<nats, natsVars, at, looked, queued, connections>>

\* The transformer has a change and posts its event.
PostEvent(r) ==
    /\ Ready("transformer") /\ waiting = Nobody
    /\ nats /\ queued > 0
    /\ SendRequest(r, "event")
    /\ waiting' = r
    /\ UNCHANGED boundVars

\* The API is not up.
PostFails ==
    /\ Ready("transformer") /\ waiting = Nobody
    /\ nats /\ queued > 0
    /\ ~Ready("api")
    /\ GoDown("transformer")
    /\ UNCHANGED <<nats, natsVars, queued, boundVars>>

\* POST /v1/subscriptions with request_prefill
Register(r) ==
    /\ registrations < MaxRegistrations
    /\ registrations' = registrations + 1
    /\ SendRequest(r, "registration")
    /\ UNCHANGED <<waiting, changes, faults>>

requestUnchanged == UNCHANGED <<nats, natsVars, at, looked, waiting, changes, registrations>>

Connecting == {"mq", "kv", "buckets"}
Serves(r, here) == request[r].kind # "none" /\ request[r].at = here

\* Port.connect: one connection for the streams, then one for the buckets ...
OpenConnection(r, here, next) ==
    /\ Serves(r, here)
    /\ nats
    /\ request' = [request EXCEPT ![r].at = next]
    /\ connections' = connections + 1
    /\ UNCHANGED <<queued, faults>>
    /\ requestUnchanged
ConnectMQ(r) == OpenConnection(r, "mq", "kv")
ConnectKV(r) == OpenConnection(r, "kv", "buckets")

\* ... on which the buckets are looked up, which startup_task has created.
LookUpBuckets(r) ==
    /\ Serves(r, "buckets")
    /\ nats
    /\ request' = [request EXCEPT ![r].at = "handle"]
    /\ UNCHANGED <<queued, connections, faults>>
    /\ requestUnchanged

\* One of the three fails.  They are outside of the try block of port_dependency:
\* none of the connections opened before is closed.  (One that an outage cuts counts
\* as open all the same, until the process ends.)
ConnectFails(r) ==
    /\ request[r].kind # "none" /\ request[r].at \in Connecting
    /\ IF nats THEN Fault ELSE UNCHANGED faults
    /\ request' = [request EXCEPT ![r] = NoRequest]
    /\ at' = IF waiting = r THEN [at EXCEPT !["transformer"] = 0] ELSE at
    /\ waiting' = IF waiting = r THEN Nobody ELSE waiting
    /\ UNCHANGED <<nats, natsVars, looked, queued, connections, changes, registrations>>

\* The stream that takes what a request publishes.
StreamOf(kind) == IF kind = "event" THEN "incoming" ELSE "prefill"

\* add_live_event or send_request_to_prefill
Handle(r) ==
    /\ Serves(r, "handle")
    /\ LET stream == StreamOf(request[r].kind) IN
         request' = [request EXCEPT ![r].at = IF Takes(stream, stream) THEN "stored"
                                              ELSE IF nats THEN "refused" ELSE "failed"]
    /\ UNCHANGED <<queued, connections, faults>>
    /\ requestUnchanged

\* Mutant: only the connection for the streams is closed.
CloseOne(r) ==
    /\ request[r].at \in {"stored", "refused", "failed"}
    /\ request' = [request EXCEPT ![r] = NoRequest]
    /\ connections' = connections - 1
    /\ waiting' = IF waiting = r THEN Nobody ELSE waiting
    /\ UNCHANGED <<nats, natsVars, at, looked, queued, boundVars>>

\* Mutant: a request that fails is not answered.
CloseSilently(r) ==
    /\ request[r].at = "stored"
    /\ request' = [request EXCEPT ![r] = NoRequest]
    /\ connections' = connections - 2
    /\ waiting' = IF waiting = r THEN Nobody ELSE waiting
    /\ queued' = IF waiting = r THEN queued - 1 ELSE queued
    /\ UNCHANGED <<nats, natsVars, at, looked, boundVars>>

\* Port.close and the answer; the transformer acknowledges, or it ends.
Close(r) ==
    /\ request[r].at \in {"stored", "refused", "failed"}
    /\ request' = [request EXCEPT ![r] = NoRequest]
    /\ connections' = connections - 2
    /\ IF waiting # r
         THEN UNCHANGED <<at, queued, waiting>>
         ELSE /\ waiting' = Nobody
              /\ IF request[r].at = "stored" /\ nats
                   THEN /\ queued' = queued - 1
                        /\ UNCHANGED at
                   ELSE /\ at' = [at EXCEPT !["transformer"] = 0]
                        /\ UNCHANGED queued
    /\ UNCHANGED <<nats, natsVars, looked, boundVars>>

-----------------------------------------------------------------------------
SetUp(p) ==
    \/ Start(p) \/ CreateBuckets(p)
    \/ LookForStream(p) \/ AddStream(p) \/ UpdateStream(p) \/ EnsureConsumer(p)
    \/ StepFails(p)

Transform == PostFails \/ \E r \in Requests : PostEvent(r)
Serve(r) ==
    \/ ConnectMQ(r) \/ ConnectKV(r) \/ LookUpBuckets(r) \/ (~nats /\ ConnectFails(r))
    \/ Handle(r) \/ Close(r)

Next ==
    \/ StartNats \/ StopNats
    \/ \E p \in Processes : SetUp(p) \/ Crash(p)
    \/ PublishChange
    \/ Transform
    \/ \E r \in Requests : Register(r) \/ Serve(r) \/ (nats /\ ConnectFails(r))

Spec == Init /\ [][Next]_vars

\* The orchestrator starts everything, and again when it has ended.
FairSpec ==
    /\ Spec
    /\ WF_vars(StartNats)
    /\ \A p \in Processes : WF_vars(SetUp(p))
    /\ WF_vars(Transform)
    /\ \A r \in Requests : WF_vars(Serve(r))

-----------------------------------------------------------------------------
(* Properties *)

\* Two processes set up the LDAP stream, and two the prefill stream, in any order
\* and at the same time: none of them ever takes away the subject that the other's
\* messages have.
SubjectsStay ==
    [][\A s \in Streams : streams[s] # {} => streams'[s] = streams[s]]_vars

\* A registration that the API accepts finds the prefill stream, whether or not the
\* prefill service was ever started (startup_task).  Nobody promises that for
\* events and the dispatcher stream.
NoRegistrationRefused ==
    \A r \in Requests : request[r].at = "refused" => request[r].kind = "event"

\* Only faults cost the API connections.  A request that fails in Port.connect leaves
\* up to two of them open (services/port.py); but an outage does so at most to the
\* requests that it meets, however often clients, and the transformer that is
\* started again and again, retry while it lasts, and requests that are refused
\* because the dispatcher stream is missing lose none at all.
HasMQ == {r \in Requests : request[r].kind # "none" /\ request[r].at # "mq"}
HasKV == {r \in HasMQ : request[r].at # "kv"}
Lost == connections - Cardinality(HasMQ) - Cardinality(HasKV)
OnlyFaultsLoseConnections == Lost \in 0..(faults * (2 * Cardinality(Requests)))

\* Whatever is started first, and in spite of outages and crashes, everything is up
\* in the end, and every change has its event in the dispatcher stream, one that
\* was refused since the dispatcher had not been started yet as well.  (What becomes
\* of stored events and prefill requests is shown by Dispatcher and Prefill.)
EverythingWorks == <>[]((\A p \in Processes : Ready(p)) /\ queued = 0)

=============================================================================
