# Verification of the Provisioning API

TLA+ models of the Univention Provisioning stack, checked with TLC on small
instances and, where it matters most, proved with TLAPS for instances of any
size. Paths are relative to the repository; `services/`, `core/`, `adapters/`
and `utils/` are short for `src/server/...`.

## 1. The system

Changes of LDAP objects reach consumers as messages. Everything in between is
asynchronous and persisted on a NATS server with JetStream streams and
key-value buckets:

```
LDAP -> provisioning-listener -> (stream ldap-producer) -> udm-transformer
     -> REST API, POST /v1/messages -> (stream of the dispatcher) -> dispatcher
     -> (one stream per subscription) -> REST API, GET .../messages/next -> consumer
UDM REST API -> prefill service -> (the same stream per subscription)
```

### Inventory

| Component | State | Operations |
|---|---|---|
| provisioning-listener (`provisioning-listener/provisioning_listener`) | none | create, modify, remove: publish old and new LDAP entry |
| udm-transformer (`src/udm_transformer`) | bucket `CACHE` (the UDM object last stored, per entryUUID) | take a change, look up the old object, transform the new one, store it, post the event, acknowledge |
| dispatcher (`core/dispatcher`) | in memory: a mapping from topics to subscriptions, a local queue; on NATS: its push consumer | load the mapping, watch the bucket `SUBSCRIPTIONS`, take an event, publish it to each subscription, acknowledge |
| subscriptions API (`services/subscriptions.py`, `core/app/subscriptions.py`) | buckets `credentials` and `SUBSCRIPTIONS`, a stream and a durable consumer per subscription; in memory: a password cache | register, delete, report a prefill status, authenticate, list, show |
| messages API (`services/messages.py`, `core/app/messages.py`) | in memory: `_subscription_prefill_done` | publish an event, get the next message (gated by the prefill status), acknowledge a message by deleting it, request a prefill |
| consumer client (`univention/provisioning/consumer/api.py`) | the message it is handling | poll, run callbacks, acknowledge with retries |
| prefill service (`core/prefill`) | stream of requests, stream of failures | take a request, purge the prefill subject, list and publish UDM objects, report the status, park after too many attempts |
| set-up (`services/port.py`, the ports, `core/app/main.py`, `adapters/nats_adapter.py`) | buckets, streams and durable consumers on NATS; two connections per API request | connect, create what is missing or update it, close |
| internal API and UDM adapters, ack managers (`adapters/`, `utils/`) | connections, timers | the calls the others are made of |

The components share no memory. They meet in the streams, in the buckets (the
dispatcher watches the one the API writes), and in two REST calls (the prefill's
status report, the transformer's event). `PROJECT.json` lists all components,
also those left out.

### What is hard

* No operation of the API is atomic: each is a row of requests to NATS, and a
  handler may die, or meet another one, between any two of them.
* Every process ends upon the first unexpected exception and is restarted;
  whatever it had not acknowledged is delivered again. Responses and
  acknowledgements get lost, an AckWait can run out on a message that is still
  being handled.
* Every process sets up by itself what it shares with others, and nothing orders
  their starts.
* The initial state and the live events of a subscription come from two writers
  that do not know of each other.
* The dispatcher and the messages API keep copies in memory of what is in the
  buckets.
* Sequence numbers, status and the memory of the API are tied to a name, and a
  name can be deleted and registered again.

### What makes it correct

* dispatcher: no event is lost that a known subscription is owed; every stream
  keeps the order of the events; repetitions reach back by one event at most;
  every event is handled in the end; the mapping catches up with the bucket.
* subscriptions API: the answers are true (created means complete, deleted means
  gone, refused means unchanged), whatever earlier calls left behind.
* messages API and client: one message after the other; none is deleted before
  it was handled; none is served before the prefill is done; all are
  acknowledged in the end.
* prefill: a request is dropped only with a known outcome; a prefill that is done
  is complete, in order and without repetition; live events are untouched; every
  prefill ends.
* udm-transformer: every change is told, in order, with the object before and
  the object after it.
* prefill and dispatcher together: a consumer that starts with nothing ends up
  with the objects as they are.
* transformer, dispatcher, messages API and consumer together: the repetitions of
  all of them neither take a consumer back nor let it skip a change.
* set-up: whatever starts first, no stream loses the subject of another's
  messages, and everything works in the end.

## 2. The modules

| Module | What it is |
|---|---|
| `SequentialForwarding` | abstract specification: events are forwarded one after the other; what reaches a queue is the first uncompleted event or the last completed one |
| `Dispatcher` | the dispatcher, its stream and push consumer, and register, delete and update calls of the API as far as the dispatcher sees them |
| `Messages` | GET and PATCH of messages, one consumer, one subscription that may be deleted and registered again |
| `Prefill` | the prefill worker, its queues, the API's status handler, the calls that register and delete, live events |
| `SubscriptionService` | all handlers of one subscription name, await by await |
| `Transformer` | the listener's changes and the transformer; also an implementation of `SequentialForwarding` |
| `InitialState` | the fill object by object, beside the changes of the objects that the dispatcher forwards, and the consumer that applies both |
| `Provisioning` | composition: instances of `Transformer`, `Dispatcher` and `Messages`, joined where one publishes to the stream that the next one reads |
| `StartUp` | what each process sets up on NATS, in any order, and whether messages find their streams then; the API's connections |
| `Dispatcher_proofs`, `Messages_proofs`, `Prefill_proofs`, `SubscriptionService_proofs`, `Transformer_proofs`, `InitialState_proofs`, `StartUp_proofs`, `Provisioning_proofs` | theorems about each of them, with their proofs |
| `MC...` | constant values and symmetry for TLC |

A variable is what the code keeps (the comments at the declarations name it);
a step is what runs from one await to the next, so interleavings and deaths
happen at the awaits and nowhere else. A TaskGroup whose task raises, which in
this code always ends the process, is a step to "down" that forgets all memory
(`GoDown`). A message, an object, a password or a topic is a value without
structure. Definitions marked "Mutant" are plausible bugs of the code that show
which property notices them; no specification uses them.

### Dispatcher

An event is its sequence number. `Deliver`, `Redeliver` and `ExpireAckWait` are
JetStream with `max_ack_pending = 1` (`ensure_consumer`): one event is
outstanding; it comes again when the process that had it is gone, or when
AckWait runs out although it still has it, which the extension after 25 of 30
seconds does not exclude (an event may wait in the local queue before). The
mapping is rebuilt as in `update_subscriptions_mapping`: keys first, then each
entry, failing when a key was deleted in between. `StartWatch` replays the
last entry of every key, delete markers included (`touched`); this is what
makes up for changes between the first load and the watch, see
`MappingConverges`.

The API's calls are in `Dispatcher` as far as the dispatcher sees them, and each
await is a step: a call reads the entry (`BeginRegister`, `BeginDelete`,
`BeginRewrite`), writes (`StoreSubscription`, `RemoveSubscription`,
`RewriteSubscription`), then creates or removes the stream (`EnsureQueue`,
`DropQueue`). `todo` counts the calls that have come to each of these steps, and
`rewriting` has the entries that status reports have read and are going to write
back. Nothing makes a call go on, which is how it dies; with `ApiFaults` calls for
one name overlap. So two registrations that both found nothing both store, the
second one over the topics of the first; and a report may write its old entry back
over a new registration, or after a deletion.

`promised` is a history variable. An event is owed to a subscription if, at
publication, its entry and its stream exist and the mapping (and the one being
built) has it. It stops being owed when the subscription is deleted, and when a
write leaves an entry that does not state the event's topic. The theorem
`OnlyDeletionEndsPromises` says that the latter takes overlapping calls; no property
forbids it then, since the code does it.

### Messages

`request` holds the GET handlers on the server, which outlive the client's
interest; `acks` the PATCH requests. A fetch from either subject gets the next
message of the whole stream: the durable consumer has no filter. Acknowledging
is `delete_message`, which also ends the message's being pending. A consumer may
ask with `pop`, which acknowledges (`Pop`) between the fetch and the response; the
message is not deleted then, only not delivered again. Nobody answers that
acknowledgement: it may get lost (`LosePopAck`), and then the message comes again.
A gate that finds no subscription raises (`GateRaises`, status 500), which ends the
client.

Live messages and those of the prefill are in one stream, and the prefill worker
purges its own ones, delivered or not, before every attempt (`BeginPrefill`). An
attempt may fail (`FailPrefill`), its request may be delivered again after it was
done (`EndPrefill` with a fault), or be given up (`ParkPrefill`); so the status goes
back from done to running, or to failed. `queued` counts the requests of the name,
those of deleted registrations included, `prefilled` has the messages of the
prefill subject, `purgedTo` is how far the last purge reached.

### Prefill

`wpc` follows `handle_requests_to_prefill` and `handle_message`. Two `except`
clauses of the code (`PrefillFailedError`, `ValidationError`,
`udm_prefill.py:61-70`) cannot be reached, because the ack manager's TaskGroup
wraps exceptions in an ExceptionGroup: every failure is the third clause, a
negative acknowledgement and the end of the process. A report is a PATCH handler
of its own that reads the entry and writes it back; the worker waits for it.

### SubscriptionService

One name. `handler` holds up to two handlers with the step each has reached, and
for the properties who else was under way and, unless these were others than
repetitions of itself, what the server held when it began. A die-step ends a
handler anywhere; a failing request to NATS looks the same. The list reads the
keys of one bucket and then the entry of the other, so it has a step for each.
Before the first call nothing is registered, or a subscription from an older
version, whose password hash is outdated.

The password cache needs no variable: it is keyed by password and hash, keeps
only positive results, and so returns what the comparison would.

### Transformer

A change is a number, the object it leaves behind is the same number, 0 is the
empty object. `Unsupported` objects are those of an unknown type, or of one that
may fail to be transformed without being a supported topic. Failing supported
ones are `Fail`. What the API publishes for a POST that the transformer no
longer waits for is published at once (`LoseResponse`); a publication that comes
even later, after the restarted transformer went on, is not modelled. `LoseChange`
is a change that the listener cannot publish: its handler raises, and nobody
comes back to that change.

### InitialState

An object's value is the number of the change that made it, so that "older" can be
said. The worker asks for the types, lists the objects of each type that a topic
matches, reads each object and publishes it, at an await each; a type that two
topics match is filled twice. An object that is gone when it is read is a 404,
which starts the prefill over, until its attempts are used up (`Park`). What
`Transformer` and `Dispatcher` show of the way of a change is used: changes are
forwarded in order, and repeated before the next one only. `stream` is the set of
the messages that are there, each with its sequence number; `todo` has the places,
of a topic and of an object type that it matches, that are still to be filled, of
which the least comes next. `excused` records which objects the two races have
touched that the code leaves open (section 5).

### Provisioning

`T`, `D` and `M` are instances whose streams and queues are variables of
`Provisioning`. Two actions are joint steps: `PostEvent` is the transformer's POST
and the API's publication, `ForwardEvent` the dispatcher's send and the
publication to the subscription's stream. All others are steps of one instance
that leave the others alone. The subscription is registered and filled before;
registering, deleting and filling are the matter of the single modules.

### StartUp

`Program` has, for each process, what it does on the NATS server before it goes to
work: a sequence of `BucketSet`, `Stream` and `Consumer`, composed as the ports
and the adapter compose them. `at` is the position in it. `ensure_stream` is a
check and then an act (`LookForStream`, then `AddStream` or `UpdateStream`), so two
processes can be in the middle of it for one stream. At work, only that is
modelled which needs another process: changes, events, registrations. The API has
two connections per request: it connects for messages (`ConnectMQ`), connects for the
buckets (`ConnectKV`), looks the buckets up (`LookUpBuckets`), and closes both when
it has answered. All three are outside of the `try` of `port_dependency`: when the
second one fails, or the third, one connection or two stay open (`ConnectFails`).

## 3. The runs

| Run | Result | Shows |
|---|---|---|
| `dispatcher_safety` | holds | order, no loss of what is owed, no repetition without a disturbance, refinement of `SequentialForwarding`, with overlapping and dying API calls and late write-backs |
| `dispatcher_liveness` | holds | every event is handled and the mapping converges, when API calls of one name do not overlap and do not die |
| `dispatcher_poison` | violated | a register call that died stops the dispatcher for ever |
| `messages` | holds | sequential, deleted only when handled or replaced by a later prefill attempt, popped again only after a lost acknowledgement, gated, all acknowledged in the end |
| `prefill` | holds | settled is final, done is complete, live events survive, every prefill ends unless a request lost its subscription |
| `prefill_poison` | violated | a deleted subscription's request blocks the prefill queue for ever |
| `subscriptions` | holds | what each answer means |
| `transformer` | holds | events tell their change, in order, at least once; every change is handled |
| `initial_state` | holds | the consumer ends up with every object as it is, but for two races, once the prefill is done; the prefill ends |
| `initial_state_stale` | violated | one change during the prefill: the consumer keeps the older object |
| `provisioning` | holds | from the listener to the callbacks: changes in turn, the last thing told of an object is the object, everything comes to rest |
| `start_up` | holds | set-up in any order: no subject taken away, no registration refused, connections accounted for, everything works in the end |

The violated properties are the words of the documentation or of a comment; the
passing runs have the version that the code keeps (`...AtFirst`,
`...UnlessOrphaned`, `...UnlessExcused`). `PROJECT.json` quotes the lines.

### Bounds

* Dispatcher: `dispatcher_safety` has one name with two topics, of which events
  have one, two events, three API calls, one crash, one expiry or lost
  acknowledgement. Two events are what reordering and repetition need; three calls
  let a subscription be registered, deleted and registered again, or two
  registrations with different topics overlap with a report. `dispatcher_liveness`
  has two names, which makes a partial round of sends, and two calls. Steps that
  fail bring the process down without a bound. `MaxRepeats` bounds what a queue
  *records* of the same event in a row: a crash loop would repeat it without end.
* Messages: two GET handlers (one of them abandoned), two messages, two
  registrations, one retry, one fault (a lost response or acknowledgement, a crash
  of either side, a prefill that fails or is delivered again). What happens
  without being counted as a fault: AckWait, timeouts, attempts of the prefill
  that find the subscription gone, and giving up.
* Prefill: two registrations, of two names or of one name twice, each for
  groups, a foreign topic and users with one object each; two attempts allowed
  (the third delivery parks), so that a prefill can be broken off and done, and
  broken off twice and given up; two faults, one live event per stream.
  `SlowCalls = FALSE` assumes that a PATCH handler ends before the worker that
  sent it, and died, is back. With `TRUE` a late "running" may overwrite "done".
* SubscriptionService: two handlers, four calls, two deaths, two passwords, two
  values of realms_topics. Four calls make a death, a repetition, a deletion and
  a new registration; a third handler would only be one more of the others.
* Transformer: three changes, three objects, one of them unsupported, two
  faults. Three changes of one object are the least in which the cache can hold
  something older than the previous change.
* InitialState: two objects of two types, the second type matched by both topics;
  two changes (an object is removed and made again, or one of each), two faults, two
  attempts, so that a third delivery, after faults or objects that are gone, parks.
  The violation needs one object and one change.
* Provisioning: one object, two changes, one fault in any component, two copies in
  a row of an event, no retry of an acknowledgement. Two changes are what an order
  takes; more faults at a time in one component are what its own run has.
* StartUp: five processes, one change, one registration, one request at a time,
  one fault (outage, crash or failing connection). The processes meet in pairs,
  over one stream each; starting anew after the fault puts any two of them in any
  two steps.

`CHECK_DEADLOCK FALSE` stands in every configuration: when the bounded events,
calls and faults are used up, the system rests.

### Fairness

Weak fairness is assumed for what asyncio, NATS and the orchestrator do on their
own: a task that can run is run; a process that is down is started again
(`restart: on-failure` in the compose file, restart policies in the charts);
JetStream delivers what is pending and expires AckWait; a handler of the API
that lives goes on. Nothing is assumed of clients, events, crashes or losses.

* `Dispatcher!Fairness`: start, load, watch, updates, handling, delivery, and
  the API calls under way. `ApiFaults = FALSE` in the liveness run: with
  calls that die, the property is false (`dispatcher_poison`).
* `Messages!FairSpec`: AckWait, the prefill worker, handlers, acknowledgements, the
  client's loop. Failing and giving up are not fair.
* `Prefill!FairSpec`: the worker, the PATCH handlers and the calls under way.
* `Transformer!FairSpec`: the worker.
* `InitialState!FairSpec`: the worker, the dispatcher, the consumer.
* `Provisioning!FairSpec`: the pipeline up to the subscription's stream, the
  consumer with its requests, the acknowledgements, AckWait. Fairness is stated for
  the pipeline as a whole: its parts that wait for each other leave one enabled.
* `StartUp!FairSpec`: NATS and the processes are started again, a set-up goes on,
  the transformer and the API's handlers do. A connection may fail at any time,
  but as a fault, so not for ever.

## 4. The proofs

Eight modules have theorems, for any sets of subscriptions, topics, objects and
handlers, and for any bounds: so for any number of events, calls, crashes and
repetitions. Each begins with `TypeCorrect`, `Spec => []TypeOK`; then comes an
inductive invariant, in named parts, and for each part a proof that every action
keeps it. What TLC is asked in a run and what is proved is the same formula.

### Dispatcher

* `OrderIsRetained`: `Spec => []OrderRetained`. Order in the queues is not
  inductive. `OrderInv` is, and says how far each place can be: the outstanding
  event is the oldest one in the stream; the local queue is in order and nothing
  in it is newer than the oldest one in the stream (it may hold late copies of
  completed events); the event at hand is not newer than either; and no
  subscription's stream has anything newer than the event at hand, those in the
  local queue or those in the dispatcher stream. So whatever is sent next belongs
  at the end.
* `NoOwedEventIsLost`: `Spec => []NoOwedEventLost`. `OwedInv` adds that a
  subscription that is owed an event has its stream, states the event's topic, and is
  for this topic in the mapping and in the one being built; and that it is among the
  targets of the event at hand, if it is owed that one, or has it. The steps that
  could break this are a rebuild of the mapping, which reads an entry that still
  states the topic, and the writes to the bucket, which end what they take away.
* `OnlyDeletionEndsPromises`: under `~ApiFaults`, `Spec => DeletionEndsPromises`, an
  action property. `CallsInTurn`: at most one call is under way for each name; a
  registration that is about to store finds nothing, a report that is about to
  write has read what is still there.
* `UndisturbedOnce`: `Spec => []OnceIfUndisturbed`. `OnceInv`: while nothing is
  disturbed, the process has one copy of the outstanding event, and of the events
  in the stream only that one can have been sent, to those who are no targets any
  more.
* `DispatcherForwards`: `Spec => ForwardsSequentially`, the refinement of
  `SequentialForwarding`. `SuffixInv` says that the events in the stream are all
  those after some number d, and that the process holds none but d and d + 1; d
  is what the abstract specification calls completed. Each action then is an
  abstract publication, completion, forwarding or a stutter.

### Transformer

* `EventsTellTheirChanges` and `NoEventIsMissing`: `IInv` follows what is in hand
  step by step. `ChangesInv`: changes of one object fit together. `CacheInv`: the
  cache has each object as the last handled change left it, or already as the
  change at hand leaves it, which after a failure is what makes the old object
  wrong. `HandsInv`: at each step the worker holds the objects of that change.
  `EventsInv`: no event is ahead of it.
* `TransformerForwards`: `Spec => ForwardsSequentially`, from the same.

### Messages

* `DeliveredInTurn` and `PoppedOnce`, from `TurnInv`: a message in the hands of a
  handler, or of the client, is the first in the stream (with `pop`: not behind
  the pending one, and handled neither itself, unless its acknowledgement got lost,
  nor any later one); what was delivered is pending or gone.
* `NothingDeletedUnhandled`, from `AckInv`: in the first registration every
  acknowledgement under way is of a handled message; a purge takes what was
  published to the prefill subject before it.
* `GateHolds`, from `GateInv`: in the first registration nobody is behind the gate
  before the prefill is done.

### Prefill

* `LiveEventsAreSpared`: the action property `LiveEventsSurvive`.
* `SettledStays` and `DoneAreComplete`, both under the hypothesis `~SlowCalls`, as
  in the run. They need it: with `SlowCalls = TRUE` TLC violates both properties,
  because a late report overwrites a later one. `PatchInv`
  says what `~SlowCalls` gives: at most one report is under way, and it is of the
  request at the head of the queue. `FreshInv`: a fresh registration has at most
  one request, that with its topics, and reports read its entry. `OutcomeInv`:
  when a request is over, its outcome is written. `FillInv`: what is published
  and what is still to be published make up the initial state of the topics
  listed so far, in order; so with the last one it is complete (`DoneInv`).
* What flattening, filtering and appending do to sequences of any length is
  proved first, by induction over the length. The library's induction theorems
  cannot be used with the installed provers; `Induction` is derived instead
  for a set in the place of a predicate, from the well-foundedness of the naturals.

### SubscriptionService

One invariant, `IInv`, for any number of handlers of one name, gives four theorems.
`ProgramInv`: who is at which step is decided by the operation and the caller.
`CompanyInv`: who is not alone knows it.

* `CreationIsComplete`, from `RegisteredInv`: what a registration has done so far
  stays done while only repetitions of it are about.
* `LoneCallsKeepTheirWord` and `LoginsAreRight`, from `LoneInv` and `LoginInv`:
  what a call that was alone up to a step has changed by then.
* `ListsAreRight`, from `ListInv`: undisturbed, there are credentials exactly if
  there is an entry, but between the writes of the two.

### InitialState

* `ReplicaEndsCurrent`: `Spec => []ReplicaIsCurrentUnlessExcused`. `ToldInv` says
  of an object that is not excused, and of which no change is on its way to the
  dispatcher: the last thing the stream has for it is the object as it is (the
  replica is, if there is nothing), or the object exists and the worker still owes
  it or has given up. At rest the prefill is done, no change is on its way, the
  worker owes nothing and the stream is empty. A purge is the difficult step: what
  it takes away is owed again if the object exists; if it does not, the last
  message cannot have been of the prefill (`InitialInv`), and the last live one
  tells the object as the dispatcher knows it (`LiveInv`, `KnownInv`).

### StartUp

* `RegistrationsFindTheirStream` and `ConnectionsAreBounded`: `ServerInv` (a consumer
  has its stream; a stream has no subject or its own), `ProcessInv` (only in the
  middle of `ensure_stream` is an answer of `stream_info` in use), `PrefillThere`
  (the API is ready only when the prefill stream is there), `RequestInv`,
  `WaitingInv`, `ConnectionInv`.
* `SubjectsAreKept`: the action property `SubjectsStay`, from `ServerInv`: all
  programs agree on the subject of a stream.

### Provisioning

The composition is proved from the theorems about its parts. `TransformerStep`,
`DispatcherStep` and `MessagesStep` say that every step of `Provisioning` is a step
of each part or leaves it alone; so the invariants of the three modules hold of
their instances (`PartsInv`). Four more put them together:

* `KnownInv`: the subscription stays registered and the dispatcher knows it, so it
  owes it every event. `MeetInv`: what one component published is what the next
  one reads.
* `EventsInTurn`: an event comes after an event of every earlier change that has
  one. The step to show is the publication: the earlier changes are acknowledged,
  so by `HandledIsPublished` they have theirs.
* `QueueInTurn`: the same of the subscription's stream and the events. When the
  dispatcher sends, no earlier event is in its stream any more (`OrderInv`), so by
  `NoOwedEventLost` the queue has it.
* `ReceivedInTurn`: the same of the callbacks and the messages. When the callbacks
  run, no earlier message is left (`OneAfterTheOther`), so by
  `HandledBeforeDeleted` it went through them.

`ConsumerIsToldInTurn` (`Spec => []ToldInTurn`) is the sum of the last three.
`ConsumerEndsCurrent` (`Spec => []ConsumerIsCurrent`) adds that at rest every change
with an event has got through; that what comes later never tells an older change,
because both queues keep their order; and that an event tells its change
(`EventTellsItsChange`). Neither depends on how many faults there are, where they
are or how often an event is repeated.

### Assumptions

Only those on the constants, which every run evaluates: the bounds are natural
numbers; a topic of an event is one that can be subscribed to
(`TopicsAssumption`); unsupported objects are objects, objects have a type that is
listed and a topic that matches it (`ObjectsAssumption`, in `Transformer` and
`InitialState`); there is a password and a value of realms_topics
(`ParametersAssumption`); `Nobody` is no request, in `StartUp` requests are
finitely many, as their connections are counted (`RequestsAssumption`); and those
in `Prefill` and `InitialState` that say which values the settings have.

### Model-checked only

* Liveness (`EveryEventDispatched`, `ComesToRest` and their like): fairness and ENABLED
  are out of the prover's reach.
* The runs that expect a violation: their properties are false.

## 5. Disagreements between code and documentation

1. `dispatcher_poison` (`services/subscriptions.py:117`): the entry is stored
   before the stream is created; a call that dies in between leaves an entry
   for which every event ends the dispatcher. A repeated registration answers
   200 and repairs nothing, while `docs/prefill/prefill-architecture.md:46-47`
   says 200 means that the queues have been created.
2. `prefill_poison` (`udm_prefill.py:100`): the request of a deleted subscription
   is never acknowledged.
3. `initial_state_stale` (`udm_prefill.py:166`): an object that changes between
   being read and being published comes after its change; a change that the
   dispatcher forwards before it knows the subscription comes not at all.

Properties that are checked for the first registration of a name, without faults or
without an overlap, only, since the code does not keep them otherwise:

* `NothingBeforeDoneAtFirst` (`services/messages.py:61`): the prefill status is
  remembered, or was checked, for an earlier registration of the name, although
  `docs/prefill.md:55-56` makes it a condition for every message.
* `HandledBeforeDeletedAtFirst` (`services/messages.py:103`): messages are
  acknowledged by sequence number, and numbers start again with a new stream, so a
  late acknowledgement deletes a message that nobody has seen.
* `NoOwedEventLost` (`services/subscriptions.py:100`, `:158`): overlapping
  registrations, or a status report that writes an old entry back, take a topic away
  without a deletion, and the owed events of that topic with it.
* `EventTellsItsChange` (`udm_transformer/service/udm.py:148`): the cache is
  written before the event is sent, so the repetition of a failed attempt gives
  the new object as the old one.

Noticed, without a run:

* `docs/prefill.md:12-13` has the initial state served first. Both subjects are in
  one stream with one unfiltered consumer (`services/messages.py:92-99`), so live
  events that were published before the fill come first. `InitialState` has them
  in this order.
* Topics may be regular expressions according to `docs/about.md:37-38`; the
  dispatcher compares them for equality (`dispatcher.py:66`).
* `pop_after_handling = False` acknowledges nothing, although its description says
  upon reception (`consumer/api.py:128-129`). `pop` acknowledges a message and does
  not delete it.
* `get_subscriptions` of the client (`consumer/api.py`) validates the list as one
  subscription; `debug_msg` fails for an event without either object
  (`consumer/api.py:205-232`).
* `pull_subscription` is read by `get_one_message` and not set by the constructor
  of `NatsMQAdapter`.

## 6. Not modelled

* `pop_after_handling = False` and `message_limit` of the client's loop, and the
  client's thin wrappers of the REST calls.
* Comparing a request with configured credentials (`core/app/dependencies.py`):
  only whom it lets in. Settings, logging, deployment, the example client.
* The encoders; the operations of the adapters that nothing calls; most of the
  listener's copy of them.
* The stream of failed prefill requests in `StartUp` (nothing else uses it), and
  the LDIF producer's stream, which the transformer can be configured to read in
  place of the listener's.
* What UDM does: transformation, reload of its modules, the REST interface, of
  which only the result is a constant.
* Regular expressions of topics; realms (a realm and a topic are one value).
* Timers: AckWait, its extension and the timeouts of requests may run out at any
  time, within the bounds on faults.
* Subscriptions without a prefill, in `Prefill` only; register calls that die, in
  `Prefill` and `Messages` (`Dispatcher` and `SubscriptionService` have them).

## 7. Plan

Done, in this order: `Dispatcher` with its abstract specification and proofs,
`Messages`, `Prefill`, `SubscriptionService`, `Transformer`, `InitialState`,
`Provisioning`, `StartUp`; then the proofs about all of them.

Next models:

1. the ack managers with their clocks, to replace `ExpireAckWait`;
2. register calls that die in `Prefill`, `SlowCalls = TRUE`, several worker
   processes during a rolling restart;
3. registering and deleting in `Provisioning`.

Next theorems: `SettledIsFinal` and `DoneIsComplete` for the reports that the code
orders even when `SlowCalls = TRUE`; what `ReplicaIsCurrentUnlessExcused` says once
`excused` is confined to the objects that a race really left older; the composition
of `Provisioning` for several subscriptions.
