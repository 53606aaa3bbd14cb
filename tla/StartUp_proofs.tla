----------------------------- MODULE StartUp_proofs -----------------------------
(***************************************************************************)
(* Proofs about StartUp, for any number of requests, outages and crashes:  *)
(* types, that no two processes take a subject away from one another, that *)
(* a registration finds its stream, and that only faults cost connections. *)
(***************************************************************************)
EXTENDS StartUp, FiniteSetTheorems, SequenceTheorems, TLAPS

USE DEF natsVars, apiVars, boundVars, vars, setUpUnchanged, requestUnchanged

-----------------------------------------------------------------------------
(* What the properties rest on *)

\* All programs agree on the subject of a stream.
SubjectOf(s) == IF s = "ldap-producer" THEN "ldap-producer-subject" ELSE s

StepRecord == {BucketSet(names) : names \in SUBSET Buckets}
                \cup {Stream(s, SubjectOf(s)) : s \in Streams}
                \cup {Consumer(s) : s \in Streams}

ServerInv ==
    /\ nats \in BOOLEAN
    /\ buckets \subseteq Buckets
    /\ streams \in [Streams -> SUBSET Subjects]
    /\ consumers \subseteq {s \in Streams : streams[s] # {}}
    /\ \A s \in Streams : streams[s] \in {{}, {SubjectOf(s)}}

\* What stream_info said is known only in the middle of ensure_stream.
ProcessInv ==
    /\ at \in [Processes -> Nat]
    /\ \A p \in Processes : at[p] <= Len(Program[p]) + 1
    /\ looked \in [Processes -> {"no", "missing", "there"}]
    /\ \A p \in Processes : looked[p] # "no" => Performs(p, "stream")

\* startup_task is through only when the prefill stream is there.
PrefillThere == Ready("api") => streams["prefill"] # {}

RequestRecord == [kind : {"none", "event", "registration"},
                  at : {"mq", "kv", "buckets", "handle", "stored", "refused", "failed"}]

RequestInv ==
    /\ request \in [Requests -> RequestRecord]
    /\ \A r \in Requests : request[r].kind = "none" => request[r].at = "mq"
    /\ \A r \in Requests : request[r].kind # "none" => Ready("api")
    /\ NoRegistrationRefused

\* The transformer awaits the answer for a change that is still in the stream.
WaitingInv ==
    /\ waiting \in Requests \cup {Nobody}
    /\ waiting # Nobody => /\ Ready("transformer") /\ request[waiting].kind = "event"
                           /\ queued > 0
    /\ queued \in 0..changes
    /\ changes \in 0..MaxChanges /\ registrations \in 0..MaxRegistrations
    /\ faults \in 0..MaxFaults

\* While NATS cannot be reached, whatever the API still has open may get lost, but
\* it opens nothing more.
Budget == faults * (2 * Cardinality(Requests))
ConnectionInv ==
    /\ connections \in Nat
    /\ OnlyFaultsLoseConnections
    /\ ~nats => connections <= Budget

IInv == ServerInv /\ ProcessInv /\ PrefillThere /\ RequestInv /\ WaitingInv /\ ConnectionInv

-----------------------------------------------------------------------------
(* The programs *)

LEMMA Concat ==
    ASSUME NEW a, NEW b, NEW c
    PROVE  <<a>> \o <<b, c>> = <<a, b, c>>
<1> DEFINE S == {a, b, c}
           p == <<a>>
           q == <<b, c>>
           r == <<a, b, c>>
<1>1. p \in Seq(S) /\ q \in Seq(S) /\ r \in Seq(S)
  OBVIOUS
<1>2. /\ Len(p) = 1 /\ Len(q) = 2 /\ Len(r) = 3
      /\ p[1] = a /\ q[1] = b /\ q[2] = c /\ r[1] = a /\ r[2] = b /\ r[3] = c
  OBVIOUS
<1> HIDE DEF S, p, q, r
<1>3. /\ p \o q \in Seq(S) /\ Len(p \o q) = Len(p) + Len(q)
      /\ \A i \in 1..(Len(p) + Len(q)) :
           (p \o q)[i] = IF i <= Len(p) THEN p[i] ELSE q[i - Len(p)]
  BY <1>1, ConcatProperties
<1>4. \A i \in 1..3 : (p \o q)[i] = r[i]
  BY <1>2, <1>3
<1>5. p \o q = r
  BY <1>1, <1>2, <1>3, <1>4, SeqEqual
<1> QED
  BY <1>5 DEF p, q, r

LEMMA Programs ==
    /\ Program["api"] = <<BucketSet({"SUBSCRIPTIONS", "CREDENTIALS"}), Stream("prefill", "prefill")>>
    /\ Program["dispatcher"] = <<BucketSet({"SUBSCRIPTIONS"}), Stream("incoming", "incoming"),
                                 Consumer("incoming")>>
    /\ Program["prefill"] = <<Stream("prefill", "prefill"), Consumer("prefill")>>
    /\ Program["transformer"] = <<BucketSet({"CACHE"}),
                                  Stream("ldap-producer", "ldap-producer-subject"),
                                  Consumer("ldap-producer")>>
    /\ Program["listener"] = <<Stream("ldap-producer", "ldap-producer-subject")>>
<1>1. Program["api"] = <<BucketSet({"SUBSCRIPTIONS", "CREDENTIALS"}), Stream("prefill", "prefill")>>
  BY DEF Program, StartUpTask, EnsureStream
<1>2. Program["dispatcher"] = <<BucketSet({"SUBSCRIPTIONS"}), Stream("incoming", "incoming"),
                                Consumer("incoming")>>
  BY Concat DEF Program, DispatcherSetUp, PushSubscription, EnsureStream
<1>3. Program["prefill"] = <<Stream("prefill", "prefill"), Consumer("prefill")>>
  BY DEF Program, PrefillSetUp, PullSubscription
<1>4. Program["transformer"] = <<BucketSet({"CACHE"}),
                                 Stream("ldap-producer", "ldap-producer-subject"),
                                 Consumer("ldap-producer")>>
  BY Concat DEF Program, TransformerSetUp, PullSubscription
<1>5. Program["listener"] = <<Stream("ldap-producer", "ldap-producer-subject")>>
  BY DEF Program, ListenerSetUp
<1> QED
  BY <1>1, <1>2, <1>3, <1>4, <1>5

\* Every process does well-formed steps.
LEMMA ProgramType ==
    \A p \in Processes : Program[p] \in Seq(StepRecord) /\ Len(Program[p]) \in Nat \ {0}
<1>1. /\ BucketSet({"SUBSCRIPTIONS", "CREDENTIALS"}) \in StepRecord
      /\ BucketSet({"SUBSCRIPTIONS"}) \in StepRecord /\ BucketSet({"CACHE"}) \in StepRecord
  <2>1. \A names \in SUBSET Buckets : BucketSet(names) \in StepRecord
    BY DEF StepRecord
  <2> QED
    BY <2>1 DEF Buckets
<1>2. /\ Stream("prefill", "prefill") \in StepRecord /\ Stream("incoming", "incoming") \in StepRecord
      /\ Stream("ldap-producer", "ldap-producer-subject") \in StepRecord
  <2>1. \A s \in Streams : Stream(s, SubjectOf(s)) \in StepRecord
    BY DEF StepRecord
  <2> QED
    BY <2>1 DEF Streams, SubjectOf
<1>3. /\ Consumer("prefill") \in StepRecord /\ Consumer("incoming") \in StepRecord
      /\ Consumer("ldap-producer") \in StepRecord
  <2>1. \A s \in Streams : Consumer(s) \in StepRecord
    BY DEF StepRecord
  <2> QED
    BY <2>1 DEF Streams
<1>4. \A a \in StepRecord : <<a>> \in Seq(StepRecord) /\ Len(<<a>>) = 1
  OBVIOUS
<1>5. \A a, b \in StepRecord : <<a, b>> \in Seq(StepRecord) /\ Len(<<a, b>>) = 2
  OBVIOUS
<1>6. \A a, b, c \in StepRecord : <<a, b, c>> \in Seq(StepRecord) /\ Len(<<a, b, c>>) = 3
  OBVIOUS
<1>7. Program["api"] \in Seq(StepRecord) /\ Len(Program["api"]) = 2
  BY <1>1, <1>2, <1>5, Programs
<1>8. Program["prefill"] \in Seq(StepRecord) /\ Len(Program["prefill"]) = 2
  BY <1>2, <1>3, <1>5, Programs
<1>9. Program["listener"] \in Seq(StepRecord) /\ Len(Program["listener"]) = 1
  BY <1>2, <1>4, Programs
<1>10. Program["dispatcher"] \in Seq(StepRecord) /\ Len(Program["dispatcher"]) = 3
  <2>1. Program["dispatcher"] = <<BucketSet({"SUBSCRIPTIONS"}), Stream("incoming", "incoming"),
                                  Consumer("incoming")>>
    BY Programs
  <2> QED
    BY <1>1, <1>2, <1>3, <1>6, <2>1
<1>11. Program["transformer"] \in Seq(StepRecord) /\ Len(Program["transformer"]) = 3
  <2>1. Program["transformer"] = <<BucketSet({"CACHE"}),
                                   Stream("ldap-producer", "ldap-producer-subject"),
                                   Consumer("ldap-producer")>>
    BY Programs
  <2> QED
    BY <1>1, <1>2, <1>3, <1>6, <2>1
<1> QED
  <2> SUFFICES ASSUME NEW p \in Processes
               PROVE  Program[p] \in Seq(StepRecord) /\ Len(Program[p]) \in Nat \ {0}
    OBVIOUS
  <2>1. p \in {"api", "dispatcher", "prefill", "transformer", "listener"}
    BY DEF Processes
  <2>2. CASE p = "api"
    BY <1>7, <2>2
  <2>3. CASE p = "prefill"
    BY <1>8, <2>3
  <2>4. CASE p = "listener"
    BY <1>9, <2>4
  <2>5. CASE p = "dispatcher"
    BY <1>10, <2>5
  <2>6. CASE p = "transformer"
    BY <1>11, <2>6
  <2> QED
    BY <2>1, <2>2, <2>3, <2>4, <2>5, <2>6

\* What each kind of step says.
LEMMA StepFields ==
    ASSUME NEW e \in StepRecord
    PROVE  /\ e.op = "buckets" => e.names \subseteq Buckets
           /\ e.op = "stream" => e.name \in Streams /\ e.subject = SubjectOf(e.name)
           /\ e.op = "consumer" => e.name \in Streams
<1>1. CASE \E names \in SUBSET Buckets : e = BucketSet(names)
  BY <1>1 DEF BucketSet
<1>2. CASE \E s \in Streams : e = Stream(s, SubjectOf(s))
  BY <1>2 DEF Stream
<1>3. CASE \E s \in Streams : e = Consumer(s)
  BY <1>3 DEF Consumer
<1> QED
  BY <1>1, <1>2, <1>3, Zenon DEF StepRecord

LEMMA ProgramSteps ==
    ASSUME NEW p \in Processes
    PROVE  /\ Len(Program[p]) \in Nat \ {0}
           /\ DOMAIN Program[p] = 1..Len(Program[p])
           /\ \A i \in 1..Len(Program[p]) : Program[p][i] \in StepRecord
<1>1. Program[p] \in Seq(StepRecord) /\ Len(Program[p]) \in Nat \ {0}
  BY ProgramType
<1> QED
  BY <1>1

\* The last thing the API does before it serves requests (startup_task).
LEMMA ApiProgram ==
    /\ "api" \in Processes /\ "transformer" \in Processes /\ "prefill" \in Streams
    /\ Len(Program["api"]) = 2
    /\ Program["api"][2].op = "stream" /\ Program["api"][2].name = "prefill"
<1>1. Program["api"] = <<BucketSet({"SUBSCRIPTIONS", "CREDENTIALS"}), Stream("prefill", "prefill")>>
  BY Programs
<1>2. Len(Program["api"]) = 2 /\ Program["api"][2] = Stream("prefill", "prefill")
  BY <1>1
<1> QED
  BY <1>2 DEF Stream, Processes, Streams

\* A process that is setting up is at a well-formed step, and not at work.
LEMMA AtStepFacts ==
    ASSUME ProcessInv, NEW p \in Processes, AtStep(p)
    PROVE  /\ at[p] \in 1..Len(Program[p]) /\ ~Ready(p)
           /\ Step(p) \in StepRecord
<1>1. at[p] \in 1..Len(Program[p]) /\ Len(Program[p]) \in Nat
  BY ProgramSteps DEF AtStep
<1>2. ~Ready(p)
  BY <1>1 DEF Ready
<1>3. Program[p][at[p]] \in StepRecord
  BY <1>1, ProgramSteps
<1> QED
  BY <1>1, <1>2, <1>3 DEF Step

-----------------------------------------------------------------------------
(* Processes that set up, and that end *)

LEMMA InitInv == Init => IInv
<1> SUFFICES ASSUME Init PROVE IInv
  OBVIOUS
<1> USE DEF Init
<1>1. ServerInv
  BY DEF ServerInv, Buckets
<1>2. ProcessInv
  BY ProgramSteps DEF ProcessInv
<1>3. ~Ready("api") /\ PrefillThere
  BY ApiProgram DEF PrefillThere, Ready
<1>4. RequestInv
  BY DEF RequestInv, RequestRecord, NoRequest, NoRegistrationRefused
<1>5. WaitingInv
  BY BoundsAssumption DEF WaitingInv
<1>6. ConnectionInv
  <2>1. HasMQ = {} /\ HasKV = {}
    BY DEF HasMQ, HasKV, NoRequest
  <2>2. Lost = 0 /\ Budget = 0
    BY <2>1, FS_EmptySet, RequestsAssumption, FS_CardinalityType DEF Lost, Budget
  <2> QED
    BY <2>2 DEF ConnectionInv, OnlyFaultsLoseConnections, Budget
<1> QED
  BY <1>1, <1>2, <1>3, <1>4, <1>5, <1>6 DEF IInv

\* What is unchanged stays right, while no process at work ends.
LEMMA RequestsKept ==
    ASSUME RequestInv, WaitingInv, ConnectionInv,
           UNCHANGED <<queued, waiting, apiVars, boundVars>>, nats' \in {nats, TRUE},
           Ready("api") => Ready("api")', Ready("transformer") => Ready("transformer")'
    PROVE  RequestInv' /\ WaitingInv' /\ ConnectionInv'
<1>1. RequestInv'
  BY DEF RequestInv, NoRegistrationRefused
<1>2. WaitingInv'
  BY DEF WaitingInv
<1>3. ConnectionInv'
  BY DEF ConnectionInv, OnlyFaultsLoseConnections, Lost, Budget, HasMQ, HasKV
<1> QED
  BY <1>1, <1>2, <1>3

LEMMA ServerKept ==
    ASSUME ServerInv, UNCHANGED natsVars, nats' \in BOOLEAN
    PROVE  ServerInv'
BY DEF ServerInv

\* A process that has done a step: nobody who was at work ceases to be, and the API
\* goes to work only with the step for the prefill stream.
LEMMA Proceeds ==
    ASSUME ProcessInv, NEW p \in Processes, AtStep(p), Proceed(p)
    PROVE  /\ ProcessInv'
           /\ \A q \in Processes : Ready(q) => Ready(q)'
           /\ Ready("api")' => \/ Ready("api")
                               \/ Step(p).op = "stream" /\ Step(p).name = "prefill"
<1>1. at[p] \in 1..Len(Program[p]) /\ Len(Program[p]) \in Nat /\ ~Ready(p)
  BY AtStepFacts, ProgramSteps
<1>2. /\ at' = [at EXCEPT ![p] = @ + 1] /\ looked' = [looked EXCEPT ![p] = "no"]
      /\ at \in [Processes -> Nat]
  BY DEF Proceed, ProcessInv
<1>3. at' \in [Processes -> Nat] /\ \A q \in Processes : at'[q] <= Len(Program[q]) + 1
  BY <1>1, <1>2 DEF ProcessInv
<1>4. looked' \in [Processes -> {"no", "missing", "there"}]
  BY <1>2 DEF ProcessInv
<1>5. \A q \in Processes : looked'[q] # "no" => Performs(q, "stream")'
  <2> SUFFICES ASSUME NEW q \in Processes, looked'[q] # "no" PROVE Performs(q, "stream")'
    OBVIOUS
  <2>1. q # p /\ looked[q] # "no" /\ at'[q] = at[q]
    BY <1>2 DEF ProcessInv
  <2>2. Performs(q, "stream")
    BY <2>1 DEF ProcessInv
  <2> QED
    BY <2>1, <2>2 DEF Performs, AtStep, Step
<1>6. \A q \in Processes : Ready(q) => Ready(q)'
  BY <1>1, <1>2 DEF Ready
<1>7. Ready("api")' => \/ Ready("api")
                       \/ Step(p).op = "stream" /\ Step(p).name = "prefill"
  <2> SUFFICES ASSUME Ready("api")', ~Ready("api")
               PROVE  Step(p).op = "stream" /\ Step(p).name = "prefill"
    OBVIOUS
  <2>1. p = "api"
    BY <1>2, ApiProgram DEF Ready
  <2>2. at["api"] = 2
    BY <1>1, <1>2, <2>1, ApiProgram DEF Ready
  <2> QED
    BY <2>1, <2>2, ApiProgram DEF Step
<1> QED
  BY <1>3, <1>4, <1>5, <1>6, <1>7 DEF ProcessInv

\* The processes of a set end, the others are where they were.
LEMMA Ends ==
    ASSUME ProcessInv, NEW gone,
           at' = [q \in Processes |-> IF q \in gone THEN 0 ELSE at[q]],
           looked' = [q \in Processes |-> IF q \in gone THEN "no" ELSE looked[q]]
    PROVE  /\ ProcessInv'
           /\ \A q \in Processes : Ready(q)' <=> Ready(q) /\ q \notin gone
<1>1. at' \in [Processes -> Nat] /\ \A q \in Processes : at'[q] <= Len(Program[q]) + 1
  BY ProgramSteps DEF ProcessInv
<1>2. looked' \in [Processes -> {"no", "missing", "there"}]
  BY DEF ProcessInv
<1>3. \A q \in Processes : looked'[q] # "no" => Performs(q, "stream")'
  <2> SUFFICES ASSUME NEW q \in Processes, looked'[q] # "no" PROVE Performs(q, "stream")'
    OBVIOUS
  <2>1. q \notin gone /\ looked[q] # "no" /\ at'[q] = at[q]
    OBVIOUS
  <2>2. Performs(q, "stream")
    BY <2>1 DEF ProcessInv
  <2> QED
    BY <2>1, <2>2 DEF Performs, AtStep, Step
<1>4. \A q \in Processes : Ready(q)' <=> Ready(q) /\ q \notin gone
  BY ProgramSteps DEF Ready
<1> QED
  BY <1>1, <1>2, <1>3, <1>4 DEF ProcessInv

\* A process at work is not in the middle of ensure_stream.
LEMMA ReadyLooked ==
    ASSUME ProcessInv, NEW p \in Processes, Ready(p)
    PROVE  looked[p] = "no"
<1>1. ~AtStep(p)
  BY AtStepFacts
<1> QED
  BY <1>1 DEF ProcessInv, Performs

-----------------------------------------------------------------------------
(* Setting up *)

LEMMA StartStep ==
    ASSUME IInv, NEW p \in Processes, Start(p)
    PROVE  IInv'
<1>1. /\ at[p] = 0 /\ at' = [at EXCEPT ![p] = 1] /\ looked' = looked
      /\ UNCHANGED <<nats, natsVars, queued, waiting, apiVars, boundVars>>
  BY DEF Start
<1>2. at \in [Processes -> Nat] /\ looked[p] = "no"
  BY <1>1, ProgramSteps DEF IInv, ProcessInv, Performs, AtStep
<1>3. ProcessInv'
  <2>1. at' \in [Processes -> Nat] /\ \A q \in Processes : at'[q] <= Len(Program[q]) + 1
    BY <1>1, <1>2, ProgramSteps DEF IInv, ProcessInv
  <2>2. \A q \in Processes : looked'[q] # "no" => Performs(q, "stream")'
    <3> SUFFICES ASSUME NEW q \in Processes, looked'[q] # "no" PROVE Performs(q, "stream")'
      OBVIOUS
    <3>1. at'[q] = at[q] /\ Performs(q, "stream")
      BY <1>1, <1>2 DEF IInv, ProcessInv
    <3> QED
      BY <3>1 DEF Performs, AtStep, Step
  <2> QED
    BY <1>1, <2>1, <2>2 DEF IInv, ProcessInv
<1>4. \A q \in Processes : Ready(q)' <=> Ready(q)
  BY <1>1, <1>2, ProgramSteps DEF Ready
<1>5. ServerInv' /\ PrefillThere'
  BY <1>1, <1>4, ServerKept, ApiProgram DEF IInv, ServerInv, PrefillThere
<1>6. RequestInv' /\ WaitingInv' /\ ConnectionInv'
  BY <1>1, <1>4, RequestsKept, ApiProgram DEF IInv
<1> QED
  BY <1>3, <1>5, <1>6 DEF IInv

LEMMA LookForStreamStep ==
    ASSUME IInv, NEW p \in Processes, LookForStream(p)
    PROVE  IInv'
<1>1. /\ Performs(p, "stream") /\ at' = at
      /\ \E said \in {"missing", "there"} : looked' = [looked EXCEPT ![p] = said]
      /\ UNCHANGED <<nats, natsVars, queued, waiting, apiVars, boundVars>>
  BY DEF LookForStream
<1>2. ProcessInv'
  <2>1. \A q \in Processes : looked'[q] # "no" => Performs(q, "stream")
    BY <1>1 DEF IInv, ProcessInv
  <2>2. \A q \in Processes : Performs(q, "stream")' <=> Performs(q, "stream")
    BY <1>1 DEF Performs, AtStep, Step
  <2> QED
    BY <1>1, <2>1, <2>2 DEF IInv, ProcessInv
<1>3. \A q \in Processes : Ready(q)' <=> Ready(q)
  BY <1>1 DEF Ready
<1>4. ServerInv' /\ PrefillThere'
  BY <1>1, <1>3, ServerKept, ApiProgram DEF IInv, ServerInv, PrefillThere
<1>5. RequestInv' /\ WaitingInv' /\ ConnectionInv'
  BY <1>1, <1>3, RequestsKept, ApiProgram DEF IInv
<1> QED
  BY <1>2, <1>4, <1>5 DEF IInv

\* A step that is done on the server.
LEMMA ProceedStep ==
    ASSUME IInv, NEW p \in Processes, AtStep(p), Proceed(p), setUpUnchanged, ServerInv',
           \A s \in Streams : streams[s] # {} => streams'[s] # {},
           Step(p).op = "stream" => streams'[Step(p).name] # {}
    PROVE  IInv'
<1>1. /\ ProcessInv' /\ \A q \in Processes : Ready(q) => Ready(q)'
      /\ Ready("api")' => \/ Ready("api")
                          \/ Step(p).op = "stream" /\ Step(p).name = "prefill"
  BY Proceeds DEF IInv
<1>2. PrefillThere'
  BY <1>1, ApiProgram DEF IInv, PrefillThere
<1>3. RequestInv' /\ WaitingInv' /\ ConnectionInv'
  BY <1>1, RequestsKept, ApiProgram DEF IInv
<1> QED
  BY <1>1, <1>2, <1>3 DEF IInv

LEMMA CreateBucketsStep ==
    ASSUME IInv, NEW p \in Processes, CreateBuckets(p)
    PROVE  IInv'
<1>1. AtStep(p) /\ Step(p).op = "buckets" /\ Proceed(p) /\ setUpUnchanged
  BY DEF CreateBuckets, Performs
<1>2. /\ buckets' = buckets \cup Step(p).names /\ streams' = streams /\ consumers' = consumers
      /\ nats' = nats
  BY DEF CreateBuckets
<1>3. Step(p).names \subseteq Buckets
  BY <1>1, AtStepFacts, StepFields DEF IInv
<1>4. ServerInv'
  BY <1>2, <1>3 DEF IInv, ServerInv
<1> QED
  BY <1>1, <1>2, <1>4, ProceedStep

\* Adding a stream and updating it both leave it with the subject of all programs.
LEMMA SetStreamStep ==
    ASSUME IInv, NEW p \in Processes, AddStream(p) \/ UpdateStream(p)
    PROVE  IInv'
<1>1. looked[p] # "no" /\ Proceed(p) /\ setUpUnchanged
  BY DEF AddStream, UpdateStream
<1>2. /\ buckets' = buckets /\ consumers' = consumers /\ nats' = nats
      /\ streams' = [streams EXCEPT ![Step(p).name] = {Step(p).subject}]
  BY DEF AddStream, UpdateStream
<1>3. AtStep(p) /\ Step(p).op = "stream"
  BY <1>1 DEF IInv, ProcessInv, Performs
<1>4. Step(p).name \in Streams /\ Step(p).subject = SubjectOf(Step(p).name)
  BY <1>3, AtStepFacts, StepFields DEF IInv
<1>5. /\ streams \in [Streams -> SUBSET Subjects]
      /\ \A s \in Streams : SubjectOf(s) \in Subjects
  BY DEF IInv, ServerInv, SubjectOf, Subjects, Streams
<1>6. streams' \in [Streams -> SUBSET Subjects]
  BY <1>2, <1>4, <1>5
<1>7. \A s \in Streams : /\ streams'[s] = IF s = Step(p).name THEN {SubjectOf(s)} ELSE streams[s]
  BY <1>2, <1>4, <1>5
<1>8. \A s \in Streams : streams[s] # {} => streams'[s] # {}
  BY <1>7
<1>9. consumers' \subseteq {s \in Streams : streams'[s] # {}}
  BY <1>2, <1>8 DEF IInv, ServerInv
<1>10. ServerInv'
  BY <1>2, <1>6, <1>7, <1>9 DEF IInv, ServerInv
<1> QED
  BY <1>1, <1>3, <1>4, <1>7, <1>8, <1>10, ProceedStep

LEMMA EnsureConsumerStep ==
    ASSUME IInv, NEW p \in Processes, EnsureConsumer(p)
    PROVE  IInv'
<1>1. AtStep(p) /\ Step(p).op = "consumer" /\ Proceed(p) /\ setUpUnchanged
  BY DEF EnsureConsumer, Performs
<1>2. /\ consumers' = consumers \cup {Step(p).name} /\ streams[Step(p).name] # {}
      /\ streams' = streams /\ buckets' = buckets /\ nats' = nats
  BY DEF EnsureConsumer
<1>3. Step(p).name \in Streams
  BY <1>1, AtStepFacts, StepFields DEF IInv
<1>4. ServerInv'
  BY <1>2, <1>3 DEF IInv, ServerInv
<1> QED
  BY <1>1, <1>2, <1>4, ProceedStep

-----------------------------------------------------------------------------
(* Processes that end *)

-----------------------------------------------------------------------------
(* Connections *)

\* The connections of requests can be counted.
LEMMA Counted ==
    /\ IsFiniteSet(HasMQ) /\ IsFiniteSet(HasKV)
    /\ Cardinality(HasMQ) \in Nat /\ Cardinality(HasKV) \in Nat /\ Cardinality(Requests) \in Nat
    /\ Cardinality(HasMQ) <= Cardinality(Requests) /\ Cardinality(HasKV) <= Cardinality(Requests)
<1>1. HasMQ \subseteq Requests /\ HasKV \subseteq Requests
  BY DEF HasMQ, HasKV
<1>2. /\ IsFiniteSet(HasMQ) /\ IsFiniteSet(HasKV)
      /\ Cardinality(HasMQ) <= Cardinality(Requests) /\ Cardinality(HasKV) <= Cardinality(Requests)
  BY <1>1, RequestsAssumption, FS_Subset
<1> QED
  BY <1>2, RequestsAssumption, FS_CardinalityType

\* A fault may cost each request its two connections.
LEMMA BudgetGrows ==
    ASSUME IInv, faults' \in {faults, faults + 1}
    PROVE  /\ Budget \in Nat /\ Budget' \in Nat /\ Budget <= Budget'
           /\ faults' = faults + 1 => Budget' = Budget + 2 * Cardinality(Requests)
<1>1. faults \in Nat
  BY BoundsAssumption DEF IInv, WaitingInv
<1>2. PICK c \in Nat : c = 2 * Cardinality(Requests)
  BY Counted
<1>3. faults * c \in Nat /\ (faults + 1) * c = faults * c + c
  BY <1>1
<1>4. Budget = faults * c /\ Budget' = faults' * c
  BY <1>2 DEF Budget
<1> QED
  BY <1>1, <1>2, <1>3, <1>4

\* A step that opens nothing, and of which no request has more than before.
LEMMA NothingOpened ==
    ASSUME IInv, HasMQ' = HasMQ, HasKV' = HasKV, connections' = connections,
           nats' = nats, faults' \in {faults, faults + 1}
    PROVE  ConnectionInv'
<1>1. Lost' = Lost
  BY DEF Lost
<1>2. Budget \in Nat /\ Budget' \in Nat /\ Budget <= Budget'
  BY BudgetGrows
<1>3. connections \in Nat /\ Lost \in 0..Budget /\ (~nats => connections <= Budget)
  BY DEF IInv, ConnectionInv, OnlyFaultsLoseConnections, Budget
<1>4. Lost' \in 0..Budget' /\ (~nats' => connections' <= Budget')
  BY <1>1, <1>2, <1>3
<1> QED
  BY <1>3, <1>4 DEF ConnectionInv, OnlyFaultsLoseConnections, Budget

\* Only a request that is gone lets the transformer stop waiting: the API's requests
\* end with it, and so does the transformer if it awaits one of them.
LEMMA GoDownStep ==
    ASSUME IInv, NEW p \in Processes, GoDown(p), faults' \in 0..MaxFaults, faults' \in {faults, faults + 1},
           UNCHANGED <<nats, natsVars, queued, changes, registrations>>
    PROVE  IInv'
<1> DEFINE gone == {p} \cup (IF p = "api" /\ waiting # Nobody THEN {"transformer"} ELSE {})
<1>1. /\ at' = [q \in Processes |-> IF q \in gone THEN 0 ELSE at[q]]
      /\ looked' = [q \in Processes |-> IF q \in gone THEN "no" ELSE looked[q]]
      /\ waiting' = IF "transformer" \in gone THEN Nobody ELSE waiting
  BY Zenon DEF GoDown
<1>2. /\ p = "api" => request' = [r \in Requests |-> NoRequest] /\ connections' = 0
      /\ p # "api" => UNCHANGED <<request, connections>>
  BY DEF GoDown
<1>3. ProcessInv' /\ \A q \in Processes : Ready(q)' <=> Ready(q) /\ q \notin gone
  <2> HIDE DEF gone
  <2> QED
    BY <1>1, Ends DEF IInv
<1>4. ServerInv' /\ PrefillThere'
  BY <1>3, ServerKept, ApiProgram DEF IInv, ServerInv, PrefillThere
<1>5. RequestInv'
  <2>1. CASE p = "api"
    BY <1>2, <2>1 DEF RequestInv, RequestRecord, NoRequest, NoRegistrationRefused
  <2>2. CASE p # "api"
    <3>1. Ready("api") => Ready("api")'
      BY <1>3, <2>2, ApiProgram
    <3> QED
      BY <1>2, <2>2, <3>1 DEF IInv, RequestInv, NoRegistrationRefused
  <2> QED
    BY <2>1, <2>2
<1>6. WaitingInv'
  <2>1. /\ waiting' \in Requests \cup {Nobody} /\ queued' \in 0..changes'
        /\ changes' \in 0..MaxChanges /\ registrations' \in 0..MaxRegistrations
    BY <1>1 DEF IInv, WaitingInv
  <2>2. ASSUME waiting' # Nobody
        PROVE  Ready("transformer")' /\ request'[waiting'].kind = "event" /\ queued' > 0
    <3>1. waiting' = waiting /\ "transformer" \notin gone /\ p # "api"
      BY <1>1, <2>2
    <3> QED
      BY <1>2, <1>3, <2>2, <3>1, ApiProgram DEF IInv, WaitingInv
  <2> QED
    BY <2>1, <2>2 DEF WaitingInv
<1>7. ConnectionInv'
  <2>1. CASE p = "api"
    <3>1. HasMQ' = {} /\ HasKV' = {}
      BY <1>2, <2>1 DEF HasMQ, HasKV, NoRequest
    <3>2. Lost' = 0 /\ connections' = 0
      BY <1>2, <2>1, <3>1, FS_EmptySet DEF Lost
    <3> QED
      BY <3>2, BudgetGrows DEF ConnectionInv, OnlyFaultsLoseConnections, Budget
  <2>2. CASE p # "api"
    <3>1. HasMQ' = HasMQ /\ HasKV' = HasKV /\ connections' = connections
      BY <1>2, <2>2 DEF HasMQ, HasKV
    <3> QED
      BY <3>1, NothingOpened
  <2> QED
    BY <2>1, <2>2
<1> QED
  BY <1>3, <1>4, <1>5, <1>6, <1>7 DEF IInv

LEMMA StopNatsStep ==
    ASSUME IInv, StopNats
    PROVE  IInv'
<1>1. PICK lost \in SUBSET {p \in {"dispatcher", "prefill", "transformer"} : Ready(p)} :
        /\ at' = [p \in Processes |-> IF p \in lost THEN 0 ELSE at[p]]
        /\ waiting' = IF "transformer" \in lost THEN Nobody ELSE waiting
  BY DEF StopNats
<1>2. /\ nats' = FALSE /\ faults < MaxFaults /\ faults' = faults + 1
      /\ UNCHANGED <<natsVars, looked, queued, apiVars, changes, registrations>>
  BY DEF StopNats, Fault
<1>3. looked' = [p \in Processes |-> IF p \in lost THEN "no" ELSE looked[p]]
  <2>1. \A p \in Processes : p \in lost => looked[p] = "no"
    BY ReadyLooked DEF IInv
  <2> QED
    BY <1>2, <2>1 DEF IInv, ProcessInv
<1>4. ProcessInv' /\ \A p \in Processes : Ready(p)' <=> Ready(p) /\ p \notin lost
  BY <1>1, <1>3, Ends DEF IInv
<1>5. Ready("api")' <=> Ready("api")
  BY <1>4, ApiProgram
<1>6. ServerInv' /\ PrefillThere' /\ RequestInv'
  BY <1>2, <1>5, ServerKept DEF IInv, ServerInv, PrefillThere, RequestInv, NoRegistrationRefused
<1>7. WaitingInv'
  <2>1. waiting' # Nobody => waiting' = waiting /\ "transformer" \notin lost
    BY <1>1
  <2>2. faults' \in 0..MaxFaults
    BY <1>2, BoundsAssumption DEF IInv, WaitingInv
  <2> QED
    BY <1>1, <1>2, <1>4, <2>1, <2>2, ApiProgram DEF IInv, WaitingInv
<1>8. ConnectionInv'
  <2>1. HasMQ' = HasMQ /\ HasKV' = HasKV /\ connections' = connections /\ Lost' = Lost
    BY <1>2 DEF HasMQ, HasKV, Lost
  <2>2. /\ Budget \in Nat /\ Budget' = Budget + 2 * Cardinality(Requests)
        /\ Lost \in 0..Budget /\ connections \in Nat
    BY <1>2, BudgetGrows DEF IInv, WaitingInv, ConnectionInv, OnlyFaultsLoseConnections, Budget
  <2>3. connections <= Lost + 2 * Cardinality(Requests)
    BY <2>2, Counted DEF Lost
  <2>4. Lost' \in 0..Budget' /\ connections' <= Budget' /\ connections' \in Nat
    BY <2>1, <2>2, <2>3, Counted
  <2> QED
    BY <2>4 DEF ConnectionInv, OnlyFaultsLoseConnections, Budget
<1> QED
  BY <1>4, <1>6, <1>7, <1>8 DEF IInv

\* The transformer alone ends, while no request of it is awaited any more.
LEMMA TransformerEnds ==
    ASSUME ProcessInv, Ready("transformer"), UNCHANGED looked,
           at' = [at EXCEPT !["transformer"] = 0]
    PROVE  /\ ProcessInv'
           /\ \A q \in Processes : Ready(q)' <=> Ready(q) /\ q # "transformer"
<1>1. looked["transformer"] = "no"
  BY ReadyLooked, ApiProgram
<1>2. at' = [q \in Processes |-> IF q \in {"transformer"} THEN 0 ELSE at[q]]
  BY DEF ProcessInv
<1>3. looked' = [q \in Processes |-> IF q \in {"transformer"} THEN "no" ELSE looked[q]]
  BY <1>1 DEF ProcessInv
<1> QED
  BY <1>2, <1>3, Ends

-----------------------------------------------------------------------------
(* At work *)

LEMMA PublishChangeStep ==
    ASSUME IInv, PublishChange
    PROVE  IInv'
<1>1. /\ changes < MaxChanges /\ changes' = changes + 1 /\ queued' = queued + 1
      /\ UNCHANGED <<nats, natsVars, at, looked, waiting, apiVars, registrations, faults>>
  BY DEF PublishChange
<1>2. ServerInv' /\ PrefillThere' /\ ProcessInv'
  BY <1>1 DEF IInv, ServerInv, PrefillThere, ProcessInv, Ready, Performs, AtStep, Step
<1>3. RequestInv' /\ ConnectionInv'
  BY <1>1 DEF IInv, RequestInv, NoRegistrationRefused, Ready, ConnectionInv,
              OnlyFaultsLoseConnections, Lost, Budget, HasMQ, HasKV
<1>4. WaitingInv'
  BY <1>1, BoundsAssumption DEF IInv, WaitingInv, Ready
<1> QED
  BY <1>2, <1>3, <1>4 DEF IInv

\* What a step of one request means for the processes and for the other requests.
\* The step may end the transformer, if it has waited for this request.
LEMMA OneRequest ==
    ASSUME IInv, NEW r \in Requests, NEW q \in RequestRecord,
           request' = [request EXCEPT ![r] = q],
           q.kind # "none" => q.kind = request[r].kind \/ Ready("api"),
           q.kind = "none" => q.at = "mq",
           q.at = "refused" => q.kind = "event",
           Ready("api") => Ready("api")'
    PROVE  RequestInv'
<1>1. \A s \in Requests : request'[s] = IF s = r THEN q ELSE request[s]
  BY DEF IInv, RequestInv
<1>2. request' \in [Requests -> RequestRecord]
  BY DEF IInv, RequestInv
<1>3. \A s \in Requests : request'[s].kind # "none" => Ready("api")'
  BY <1>1 DEF IInv, RequestInv
<1>4. NoRegistrationRefused'
  BY <1>1 DEF IInv, RequestInv, NoRegistrationRefused
<1> QED
  BY <1>1, <1>2, <1>3, <1>4 DEF IInv, RequestInv

LEMMA ProcessesKept ==
    ASSUME IInv, UNCHANGED <<nats, natsVars, at, looked>>
    PROVE  /\ ServerInv' /\ ProcessInv' /\ PrefillThere'
           /\ \A q \in Processes : Ready(q)' <=> Ready(q)
BY DEF IInv, ServerInv, ProcessInv, PrefillThere, Ready, Performs, AtStep, Step

LEMMA SendRequestStep ==
    ASSUME IInv, NEW r \in Requests, NEW kind \in {"event", "registration"}, SendRequest(r, kind),
           \/ waiting' = waiting
           \/ waiting' = r /\ kind = "event" /\ Ready("transformer") /\ queued > 0,
           changes' = changes, registrations' \in 0..MaxRegistrations, faults' = faults
    PROVE  IInv'
<1> DEFINE q == [kind |-> kind, at |-> "mq"]
<1>1. /\ Ready("api") /\ request[r] = NoRequest /\ request' = [request EXCEPT ![r] = q]
      /\ UNCHANGED <<nats, natsVars, at, looked, queued, connections>>
  BY DEF SendRequest
<1>2. ServerInv' /\ ProcessInv' /\ PrefillThere' /\ \A p \in Processes : Ready(p)' <=> Ready(p)
  BY <1>1, ProcessesKept
<1>3. q \in RequestRecord /\ q.kind = kind /\ q.at = "mq"
  BY DEF RequestRecord
<1> HIDE DEF q
<1>4. RequestInv'
  BY <1>1, <1>2, <1>3, OneRequest, ApiProgram
<1>5. \A s \in Requests : request'[s] = IF s = r THEN q ELSE request[s]
  BY <1>1 DEF IInv, RequestInv
<1>6. WaitingInv'
  <2>1. waiting # Nobody => waiting # r
    BY <1>1 DEF IInv, WaitingInv, NoRequest
  <2> QED
    BY <1>1, <1>2, <1>3, <1>5, <2>1, ApiProgram DEF IInv, WaitingInv
<1>7. ConnectionInv'
  <2>1. HasMQ' = HasMQ /\ HasKV' = HasKV
    BY <1>1, <1>3, <1>5 DEF HasMQ, HasKV, NoRequest
  <2> QED
    BY <1>1, <2>1, NothingOpened
<1> QED
  BY <1>2, <1>4, <1>6, <1>7 DEF IInv

\* A request that goes on, without the transformer being told.
LEMMA RequestGoesOn ==
    ASSUME IInv, NEW r \in Requests, request[r].kind # "none",
           NEW here \in {"mq", "kv", "buckets", "handle", "stored", "refused", "failed"},
           here = "refused" => request[r].kind = "event",
           request' = [request EXCEPT ![r].at = here],
           UNCHANGED <<nats, natsVars, at, looked, queued, waiting, boundVars>>
    PROVE  /\ ServerInv' /\ ProcessInv' /\ PrefillThere' /\ RequestInv' /\ WaitingInv'
           /\ \A s \in Requests : /\ request'[s].kind = request[s].kind
                                  /\ request'[s].at = IF s = r THEN here ELSE request[s].at
<1> DEFINE q == [request[r] EXCEPT !.at = here]
<1>1. ServerInv' /\ ProcessInv' /\ PrefillThere' /\ \A p \in Processes : Ready(p)' <=> Ready(p)
  BY ProcessesKept
<1>2. q \in RequestRecord /\ q.kind = request[r].kind /\ q.at = here
  BY DEF IInv, RequestInv, RequestRecord
<1>3. request' = [request EXCEPT ![r] = q]
  OBVIOUS
<1> HIDE DEF q
<1>4. RequestInv'
  BY <1>1, <1>2, <1>3, OneRequest, ApiProgram
<1>5. \A s \in Requests : request'[s] = IF s = r THEN q ELSE request[s]
  BY <1>3 DEF IInv, RequestInv
<1>6. WaitingInv'
  BY <1>1, <1>2, <1>5, ApiProgram DEF IInv, WaitingInv
<1> QED
  BY <1>1, <1>2, <1>4, <1>5, <1>6

LEMMA ConnectMQStep ==
    ASSUME IInv, NEW r \in Requests, ConnectMQ(r)
    PROVE  IInv'
<1>1. /\ request[r].kind # "none" /\ request[r].at = "mq" /\ nats
      /\ request' = [request EXCEPT ![r].at = "kv"] /\ connections' = connections + 1
      /\ UNCHANGED <<nats, natsVars, at, looked, queued, waiting, boundVars>>
  BY DEF ConnectMQ, OpenConnection, Serves
<1>2. /\ ServerInv' /\ ProcessInv' /\ PrefillThere' /\ RequestInv' /\ WaitingInv'
      /\ \A s \in Requests : /\ request'[s].kind = request[s].kind
                             /\ request'[s].at = IF s = r THEN "kv" ELSE request[s].at
  <2> DEFINE here == "kv"
  <2>1. here \in {"mq", "kv", "buckets", "handle", "stored", "refused", "failed"} /\ here # "refused"
    OBVIOUS
  <2>2. request' = [request EXCEPT ![r].at = here]
    BY <1>1
  <2> HIDE DEF here
  <2>3. /\ ServerInv' /\ ProcessInv' /\ PrefillThere' /\ RequestInv' /\ WaitingInv'
        /\ \A s \in Requests : /\ request'[s].kind = request[s].kind
                               /\ request'[s].at = IF s = r THEN here ELSE request[s].at
    BY <1>1, <2>1, <2>2, RequestGoesOn
  <2> QED
    BY <2>3 DEF here
<1>3. r \notin HasMQ /\ HasMQ' = HasMQ \cup {r} /\ HasKV' = HasKV
  BY <1>1, <1>2 DEF HasMQ, HasKV
<1>4. Cardinality(HasMQ') = Cardinality(HasMQ) + 1
  BY <1>3, Counted, FS_AddElement
<1>5. ConnectionInv'
  <2>1. Lost' = Lost
    BY <1>1, <1>3, <1>4, Counted DEF Lost, IInv, ConnectionInv
  <2> QED
    BY <1>1, <2>1 DEF IInv, ConnectionInv, OnlyFaultsLoseConnections
<1> QED
  BY <1>2, <1>5 DEF IInv

LEMMA ConnectKVStep ==
    ASSUME IInv, NEW r \in Requests, ConnectKV(r)
    PROVE  IInv'
<1>1. /\ request[r].kind # "none" /\ request[r].at = "kv" /\ nats
      /\ request' = [request EXCEPT ![r].at = "buckets"] /\ connections' = connections + 1
      /\ UNCHANGED <<nats, natsVars, at, looked, queued, waiting, boundVars>>
  BY DEF ConnectKV, OpenConnection, Serves
<1>2. /\ ServerInv' /\ ProcessInv' /\ PrefillThere' /\ RequestInv' /\ WaitingInv'
      /\ \A s \in Requests : /\ request'[s].kind = request[s].kind
                             /\ request'[s].at = IF s = r THEN "buckets" ELSE request[s].at
  <2> DEFINE here == "buckets"
  <2>1. here \in {"mq", "kv", "buckets", "handle", "stored", "refused", "failed"} /\ here # "refused"
    OBVIOUS
  <2>2. request' = [request EXCEPT ![r].at = here]
    BY <1>1
  <2> HIDE DEF here
  <2>3. /\ ServerInv' /\ ProcessInv' /\ PrefillThere' /\ RequestInv' /\ WaitingInv'
        /\ \A s \in Requests : /\ request'[s].kind = request[s].kind
                               /\ request'[s].at = IF s = r THEN here ELSE request[s].at
    BY <1>1, <2>1, <2>2, RequestGoesOn
  <2> QED
    BY <2>3 DEF here
<1>3. r \notin HasKV /\ HasKV' = HasKV \cup {r} /\ HasMQ' = HasMQ
  BY <1>1, <1>2 DEF HasMQ, HasKV
<1>4. Cardinality(HasKV') = Cardinality(HasKV) + 1
  BY <1>3, Counted, FS_AddElement
<1>5. ConnectionInv'
  <2>1. Lost' = Lost
    BY <1>1, <1>3, <1>4, Counted DEF Lost, IInv, ConnectionInv
  <2> QED
    BY <1>1, <2>1 DEF IInv, ConnectionInv, OnlyFaultsLoseConnections
<1> QED
  BY <1>2, <1>5 DEF IInv

LEMMA LookUpBucketsStep ==
    ASSUME IInv, NEW r \in Requests, LookUpBuckets(r)
    PROVE  IInv'
<1>1. /\ request[r].kind # "none" /\ request[r].at = "buckets"
      /\ request' = [request EXCEPT ![r].at = "handle"]
      /\ UNCHANGED <<nats, natsVars, at, looked, queued, waiting, connections, boundVars>>
  BY DEF LookUpBuckets, Serves
<1> DEFINE here == "handle"
<1>2. /\ here \in {"mq", "kv", "buckets", "handle", "stored", "refused", "failed"}
      /\ here \notin {"mq", "kv", "refused"} /\ request' = [request EXCEPT ![r].at = here]
  BY <1>1
<1> HIDE DEF here
<1>3. /\ ServerInv' /\ ProcessInv' /\ PrefillThere' /\ RequestInv' /\ WaitingInv'
      /\ \A s \in Requests : /\ request'[s].kind = request[s].kind
                             /\ request'[s].at = IF s = r THEN here ELSE request[s].at
  BY <1>1, <1>2, RequestGoesOn
<1>4. HasKV' = HasKV /\ HasMQ' = HasMQ
  BY <1>1, <1>2, <1>3 DEF HasMQ, HasKV
<1>5. ConnectionInv'
  BY <1>1, <1>4, NothingOpened
<1> QED
  BY <1>3, <1>5 DEF IInv

\* The prefill stream is there, so that a registration cannot be refused.
LEMMA HandleStep ==
    ASSUME IInv, NEW r \in Requests, Handle(r)
    PROVE  IInv'
<1>1. /\ request[r].kind # "none" /\ request[r].at = "handle"
      /\ UNCHANGED <<nats, natsVars, at, looked, queued, waiting, connections, boundVars>>
  BY DEF Handle, Serves
<1> DEFINE stream == StreamOf(request[r].kind)
           here == IF Takes(stream, stream) THEN "stored" ELSE IF nats THEN "refused" ELSE "failed"
<1>2. request' = [request EXCEPT ![r].at = here] /\ here \in {"stored", "refused", "failed"}
  BY DEF Handle
<1>3. here = "refused" => request[r].kind = "event"
  <2> SUFFICES ASSUME here = "refused", request[r].kind = "registration" PROVE FALSE
    BY <1>1 DEF IInv, RequestInv, RequestRecord
  <2>1. streams["prefill"] = {"prefill"}
    <3>1. streams["prefill"] # {} /\ "prefill" \in Streams
      BY <1>1, ApiProgram DEF IInv, RequestInv, PrefillThere
    <3> QED
      BY <3>1 DEF IInv, ServerInv, SubjectOf
  <2> QED
    BY <2>1 DEF Takes, StreamOf
<1> HIDE DEF here
<1>4. /\ ServerInv' /\ ProcessInv' /\ PrefillThere' /\ RequestInv' /\ WaitingInv'
      /\ \A s \in Requests : /\ request'[s].kind = request[s].kind
                             /\ request'[s].at = IF s = r THEN here ELSE request[s].at
  <2>1. here \in {"mq", "kv", "buckets", "handle", "stored", "refused", "failed"}
    BY <1>2
  <2> QED
    BY <1>1, <1>2, <1>3, <2>1, RequestGoesOn
<1>5. HasKV' = HasKV /\ HasMQ' = HasMQ
  BY <1>1, <1>2, <1>4 DEF HasMQ, HasKV
<1>6. ConnectionInv'
  BY <1>1, <1>5, NothingOpened
<1> QED
  BY <1>4, <1>6 DEF IInv

\* A request that is over.  If the transformer has waited for it, it goes on or ends.
LEMMA RequestOver ==
    ASSUME IInv, NEW r \in Requests, request' = [request EXCEPT ![r] = NoRequest],
           UNCHANGED <<nats, natsVars, looked, changes, registrations>>, faults' \in 0..MaxFaults,
           waiting' = IF waiting = r THEN Nobody ELSE waiting,
           \/ UNCHANGED at
           \/ waiting = r /\ at' = [at EXCEPT !["transformer"] = 0],
           \/ UNCHANGED queued
           \/ waiting = r /\ queued' = queued - 1
    PROVE  /\ ServerInv' /\ ProcessInv' /\ PrefillThere' /\ RequestInv' /\ WaitingInv'
           /\ HasMQ' = HasMQ \ {r} /\ HasKV' = HasKV \ {r}
<1>1. \A s \in Requests : request'[s] = IF s = r THEN NoRequest ELSE request[s]
  BY DEF IInv, RequestInv
<1>2. /\ ProcessInv'
      /\ \A q \in Processes : Ready(q) /\ (q = "transformer" => at' = at) => Ready(q)'
      /\ Ready("api")' <=> Ready("api")
  <2>1. CASE UNCHANGED at
    BY <2>1, ApiProgram DEF IInv, ProcessInv, Ready, Performs, AtStep, Step
  <2>2. CASE waiting = r /\ at' = [at EXCEPT !["transformer"] = 0]
    <3>1. Ready("transformer")
      BY <2>2, RequestsAssumption DEF IInv, WaitingInv
    <3>2. ProcessInv' /\ \A q \in Processes : Ready(q)' <=> Ready(q) /\ q # "transformer"
      BY <2>2, <3>1, TransformerEnds DEF IInv
    <3>3. at' # at
      <4>1. at["transformer"] \in Nat \ {0}
        BY <3>1, ApiProgram, ProgramSteps DEF Ready
      <4> QED
        BY <2>2, <4>1, ApiProgram DEF IInv, ProcessInv
    <3> QED
      BY <3>2, <3>3, ApiProgram
  <2> QED
    BY <2>1, <2>2
<1>3. ServerInv' /\ PrefillThere'
  BY <1>2, ServerKept DEF IInv, ServerInv, PrefillThere
<1>4. RequestInv'
  <2>1. NoRequest \in RequestRecord /\ NoRequest.kind = "none" /\ NoRequest.at = "mq"
    BY DEF NoRequest, RequestRecord
  <2> HIDE DEF NoRequest
  <2> QED
    BY <1>2, <2>1, OneRequest
<1>5. WaitingInv'
  <2>1. CASE waiting = r
    BY <2>1, RequestsAssumption DEF IInv, WaitingInv
  <2>2. CASE waiting # r
    BY <1>1, <1>2, <2>2, ApiProgram DEF IInv, WaitingInv
  <2> QED
    BY <2>1, <2>2
<1>6. HasMQ' = HasMQ \ {r} /\ HasKV' = HasKV \ {r}
  BY <1>1 DEF HasMQ, HasKV, NoRequest
<1> QED
  BY <1>2, <1>3, <1>4, <1>5, <1>6

\* A request that fails in Port.connect leaves up to two connections behind.  If that
\* is not for an outage, it is a fault of its own.
LEMMA ConnectFailsStep ==
    ASSUME IInv, NEW r \in Requests, ConnectFails(r)
    PROVE  IInv'
<1>1. /\ request[r].kind # "none" /\ request[r].at \in Connecting
      /\ request' = [request EXCEPT ![r] = NoRequest]
      /\ at' = IF waiting = r THEN [at EXCEPT !["transformer"] = 0] ELSE at
      /\ waiting' = IF waiting = r THEN Nobody ELSE waiting
      /\ UNCHANGED <<nats, natsVars, looked, queued, connections, changes, registrations>>
  BY DEF ConnectFails
<1>2. faults' \in 0..MaxFaults /\ faults' = IF nats THEN faults + 1 ELSE faults
  BY BoundsAssumption DEF ConnectFails, Fault, IInv, WaitingInv
<1>3. /\ ServerInv' /\ ProcessInv' /\ PrefillThere' /\ RequestInv' /\ WaitingInv'
      /\ HasMQ' = HasMQ \ {r} /\ HasKV' = HasKV \ {r}
  BY <1>1, <1>2, RequestOver
<1>4. ConnectionInv'
  <2>1. /\ Cardinality(HasMQ') \in Nat
        /\ Cardinality(HasMQ') \in {Cardinality(HasMQ), Cardinality(HasMQ) - 1}
    BY <1>3, Counted, FS_RemoveElement, FS_CardinalityType
  <2>2. /\ Cardinality(HasKV') \in Nat
        /\ Cardinality(HasKV') \in {Cardinality(HasKV), Cardinality(HasKV) - 1}
    BY <1>3, Counted, FS_RemoveElement, FS_CardinalityType
  <2>3. /\ connections \in Nat /\ Lost \in 0..Budget
        /\ Lost' \in Lost..(Lost + 2) /\ Lost' <= connections /\ connections' = connections
    BY <1>1, <2>1, <2>2, Counted DEF Lost, IInv, ConnectionInv, OnlyFaultsLoseConnections, Budget
  <2>4. CASE nats
    <3>1. Budget \in Nat /\ Budget' = Budget + 2 * Cardinality(Requests)
      BY <1>2, <2>4, BudgetGrows
    <3>2. Cardinality(Requests) >= 1
      <4>1. Cardinality(Requests) # 0
        BY RequestsAssumption, FS_EmptySet
      <4> QED
        BY <4>1, Counted
    <3>3. Lost' \in 0..Budget'
      BY <2>3, <3>1, <3>2, Counted
    <3> QED
      BY <1>1, <2>3, <2>4, <3>3 DEF ConnectionInv, OnlyFaultsLoseConnections, Budget
  <2>5. CASE ~nats
    <3>1. Budget \in Nat /\ Budget' = Budget
      BY <1>2, <2>5, BudgetGrows DEF Budget
    <3>2. connections <= Budget
      BY <2>5 DEF IInv, ConnectionInv
    <3>3. Lost' \in 0..Budget' /\ connections' <= Budget'
      BY <2>3, <3>1, <3>2
    <3> QED
      BY <2>3, <3>3 DEF ConnectionInv, OnlyFaultsLoseConnections, Budget
  <2> QED
    BY <2>4, <2>5
<1> QED
  BY <1>3, <1>4 DEF IInv

LEMMA CloseStep ==
    ASSUME IInv, NEW r \in Requests, Close(r)
    PROVE  IInv'
<1>1. /\ request[r].at \in {"stored", "refused", "failed"}
      /\ request' = [request EXCEPT ![r] = NoRequest] /\ connections' = connections - 2
      /\ UNCHANGED <<nats, natsVars, looked, boundVars>>
  BY DEF Close
<1>2. /\ waiting' = IF waiting = r THEN Nobody ELSE waiting
      /\ \/ UNCHANGED at
         \/ waiting = r /\ at' = [at EXCEPT !["transformer"] = 0]
      /\ \/ UNCHANGED queued
         \/ waiting = r /\ queued' = queued - 1
  BY DEF Close
<1>3. faults' \in 0..MaxFaults
  BY <1>1 DEF IInv, WaitingInv
<1>4. /\ ServerInv' /\ ProcessInv' /\ PrefillThere' /\ RequestInv' /\ WaitingInv'
      /\ HasMQ' = HasMQ \ {r} /\ HasKV' = HasKV \ {r}
  BY <1>1, <1>2, <1>3, RequestOver
<1>5. r \in HasMQ /\ r \in HasKV
  BY <1>1 DEF HasMQ, HasKV, IInv, RequestInv
<1>6. /\ Cardinality(HasMQ') = Cardinality(HasMQ) - 1
      /\ Cardinality(HasKV') = Cardinality(HasKV) - 1
  BY <1>4, <1>5, Counted, FS_RemoveElement
<1>7. ConnectionInv'
  <2>1. Cardinality(HasMQ') \in Nat /\ Cardinality(HasKV') \in Nat
    BY <1>4, Counted, FS_RemoveElement, FS_CardinalityType
  <2>2. Lost' = Lost /\ connections' \in Nat /\ connections' <= connections
    BY <1>1, <1>6, <2>1, Counted DEF Lost, IInv, ConnectionInv, OnlyFaultsLoseConnections
  <2>3. Budget' = Budget /\ nats' = nats /\ Budget \in Nat
    BY <1>1, BudgetGrows DEF Budget
  <2>4. connections \in Nat /\ Lost \in 0..Budget /\ (~nats => connections <= Budget)
    BY DEF IInv, ConnectionInv, OnlyFaultsLoseConnections, Budget
  <2>5. Lost' \in 0..Budget' /\ (~nats' => connections' <= Budget')
    BY <2>2, <2>3, <2>4
  <2> QED
    BY <2>2, <2>5 DEF ConnectionInv, OnlyFaultsLoseConnections, Budget
<1> QED
  BY <1>4, <1>7 DEF IInv

-----------------------------------------------------------------------------
(* The theorems *)

LEMMA NextInv == IInv /\ [Next]_vars => IInv'
<1> SUFFICES ASSUME IInv, [Next]_vars PROVE IInv'
  OBVIOUS
<1>1. CASE StartNats
  <2>1. nats' = TRUE /\ UNCHANGED <<natsVars, at, looked, queued, waiting, apiVars, boundVars>>
    BY <1>1 DEF StartNats
  <2>2. \A p \in Processes : Ready(p)' <=> Ready(p)
    BY <2>1 DEF Ready
  <2>3. RequestInv' /\ WaitingInv' /\ ConnectionInv'
    BY <2>1, <2>2, RequestsKept, ApiProgram DEF IInv
  <2>4. ServerInv' /\ PrefillThere'
    BY <2>1, <2>2, ServerKept, ApiProgram DEF IInv, PrefillThere
  <2>5. ProcessInv'
    BY <2>1 DEF IInv, ProcessInv, Performs, AtStep, Step
  <2> QED
    BY <2>3, <2>4, <2>5 DEF IInv
<1>2. CASE StopNats
  BY <1>2, StopNatsStep
<1>3. ASSUME NEW p \in Processes, SetUp(p) PROVE IInv'
  <2>1. CASE StepFails(p)
    <3>1. GoDown(p) /\ UNCHANGED <<nats, natsVars, queued, boundVars>>
      BY <2>1 DEF StepFails
    <3>2. faults' \in 0..MaxFaults /\ faults' \in {faults, faults + 1}
      BY <3>1 DEF IInv, WaitingInv
    <3> QED
      BY <3>1, <3>2, GoDownStep
  <2> QED
    BY <1>3, <2>1, StartStep, CreateBucketsStep, LookForStreamStep, SetStreamStep,
       EnsureConsumerStep DEF SetUp
<1>4. ASSUME NEW p \in Processes, Crash(p) PROVE IInv'
  <2>1. GoDown(p) /\ UNCHANGED <<nats, natsVars, queued, changes, registrations>>
    BY <1>4 DEF Crash
  <2>2. faults' \in 0..MaxFaults /\ faults' \in {faults, faults + 1}
    BY <1>4, BoundsAssumption DEF Crash, Fault, IInv, WaitingInv
  <2> QED
    BY <2>1, <2>2, GoDownStep
<1>5. CASE PublishChange
  BY <1>5, PublishChangeStep
<1>6. CASE PostFails
  <2>1. GoDown("transformer") /\ UNCHANGED <<nats, natsVars, queued, boundVars>>
    BY <1>6 DEF PostFails
  <2>2. faults' \in 0..MaxFaults /\ faults' \in {faults, faults + 1}
    BY <2>1 DEF IInv, WaitingInv
  <2> QED
    BY <2>1, <2>2, GoDownStep, ApiProgram
<1>7. ASSUME NEW r \in Requests, PostEvent(r) PROVE IInv'
  <2>1. /\ Ready("transformer") /\ queued > 0 /\ SendRequest(r, "event") /\ waiting' = r
        /\ UNCHANGED boundVars
    BY <1>7 DEF PostEvent
  <2>2. registrations' \in 0..MaxRegistrations
    BY <2>1 DEF IInv, WaitingInv
  <2> QED
    BY <2>1, <2>2, SendRequestStep
<1>8. ASSUME NEW r \in Requests, Register(r) PROVE IInv'
  <2>1. SendRequest(r, "registration") /\ UNCHANGED <<waiting, changes, faults>>
    BY <1>8 DEF Register
  <2>2. registrations' \in 0..MaxRegistrations
    BY <1>8, BoundsAssumption DEF Register, IInv, WaitingInv
  <2> QED
    BY <2>1, <2>2, SendRequestStep
<1>9. ASSUME NEW r \in Requests, Serve(r) PROVE IInv'
  BY <1>9, ConnectMQStep, ConnectKVStep, LookUpBucketsStep, ConnectFailsStep, HandleStep, CloseStep DEF Serve
<1>10. CASE UNCHANGED vars
  <2>1. ServerInv' /\ ProcessInv' /\ PrefillThere' /\ \A q \in Processes : Ready(q)' <=> Ready(q)
    BY <1>10, ProcessesKept
  <2> QED
    BY <1>10, <2>1, RequestsKept, ApiProgram DEF IInv
<1> QED
  BY <1>1, <1>2, <1>3, <1>4, <1>5, <1>6, <1>7, <1>8, <1>9, <1>10, ConnectFailsStep
     DEF Next, Transform

LEMMA Invariance == Spec => []IInv
<1>1. Init => IInv
  BY InitInv
<1>2. IInv /\ [Next]_vars => IInv'
  BY NextInv
<1> QED
  BY <1>1, <1>2, PTL DEF Spec

\* Every variable has its type.  In particular, a consumer has its stream, only a
\* process inside ensure_stream has an answer of stream_info, the API has requests
\* only when its start-up is over, and what the transformer awaits is an event.
THEOREM TypeCorrect == Spec => []TypeOK
<1>1. IInv => TypeOK
  <2> SUFFICES ASSUME IInv PROVE TypeOK
    OBVIOUS
  <2>1. /\ nats \in BOOLEAN /\ buckets \subseteq Buckets /\ streams \in [Streams -> SUBSET Subjects]
        /\ consumers \subseteq {s \in Streams : streams[s] # {}}
    BY DEF IInv, ServerInv
  <2>2. /\ \A p \in Processes : at[p] \in 0..(Len(Program[p]) + 1)
        /\ looked \in [Processes -> {"no", "missing", "there"}]
        /\ \A p \in Processes : looked[p] # "no" => Performs(p, "stream")
    BY ProgramSteps DEF IInv, ProcessInv
  <2>3. /\ queued \in 0..changes
        /\ waiting \in Requests \cup {Nobody}
        /\ waiting # Nobody => Ready("transformer") /\ request[waiting].kind = "event"
        /\ changes \in 0..MaxChanges /\ registrations \in 0..MaxRegistrations
        /\ faults \in 0..MaxFaults
    BY DEF IInv, WaitingInv
  <2>4. /\ \A r \in Requests : request[r].kind = "none" \/ Ready("api")
        /\ request \in [Requests -> RequestRecord]
        /\ connections \in Nat
    BY DEF IInv, RequestInv, ConnectionInv
  <2> QED
    BY <2>1, <2>2, <2>3, <2>4, Zenon DEF TypeOK, RequestRecord
<1> QED
  BY <1>1, Invariance, PTL

\* A registration that asks for a prefill is never refused for want of the prefill
\* stream, whoever is started first (startup_task creates it too).
THEOREM RegistrationsFindTheirStream == Spec => []NoRegistrationRefused
<1>1. IInv => NoRegistrationRefused
  BY DEF IInv, RequestInv
<1> QED
  BY <1>1, Invariance, PTL

\* Whatever fails, however often and for how many requests, each crash, outage or
\* failing connection costs the API at most two connections for each request it can
\* have under way, and nothing else costs it any (Port.connect and port_dependency).
THEOREM ConnectionsAreBounded == Spec => []OnlyFaultsLoseConnections
<1>1. IInv => OnlyFaultsLoseConnections
  BY DEF IInv, ConnectionInv
<1> QED
  BY <1>1, Invariance, PTL

\* Once a stream has a subject, no process takes it away: all programs state the
\* same one, those that find the stream missing and add it late as well
\* (ensure_stream).
THEOREM SubjectsAreKept == Spec => SubjectsStay
<1>1. IInv /\ IInv' /\ [Next]_vars =>
        [\A s \in Streams : streams[s] # {} => streams'[s] = streams[s]]_vars
  <2> SUFFICES ASSUME IInv, IInv', [Next]_vars, NEW s \in Streams, streams[s] # {}
               PROVE  streams'[s] = streams[s]
    BY Zenon
  <2>1. streams[s] = {SubjectOf(s)} /\ streams'[s] \in {{}, {SubjectOf(s)}}
    BY DEF IInv, ServerInv
  <2>2. streams'[s] # {}
    <3>1. CASE UNCHANGED streams
      BY <3>1
    <3>2. ASSUME NEW p \in Processes, AddStream(p) \/ UpdateStream(p)
          PROVE  streams'[s] # {}
      BY <3>2 DEF AddStream, UpdateStream, IInv, ServerInv
    <3>3. \/ UNCHANGED streams
          \/ \E p \in Processes : AddStream(p) \/ UpdateStream(p)
      BY DEF Next, StartNats, StopNats, SetUp, Start, CreateBuckets, LookForStream,
             EnsureConsumer, StepFails, Crash, PublishChange, Transform, PostFails, PostEvent,
             SendRequest, Register, Serve, ConnectMQ, ConnectKV, OpenConnection, LookUpBuckets, ConnectFails,
             Handle, Close
    <3> QED
      BY <3>1, <3>2, <3>3
  <2> QED
    BY <2>1, <2>2
<1> QED
  BY <1>1, Invariance, PTL DEF Spec, SubjectsStay
=============================================================================
