---------------------------- MODULE Messages_proofs ----------------------------
(***************************************************************************)
(* Proofs about Messages, for any number of requests, retries and          *)
(* messages: types, and what a consumer can rely on while its messages are *)
(* fetched, abandoned, repeated, popped and deleted.                       *)
(***************************************************************************)
EXTENDS Messages, TLAPS

USE DEF consumerVars, prefillVars, subVars, clientVars, vars, lifeUnchanged, streamUnchanged,
        apiUnchanged, handlerUnchanged

-----------------------------------------------------------------------------
(* What the properties rest on *)

PCs == {"free", "start", "gate", "prefill", "main", "pop", "reply", "error"}
RequestRecord == [pc : PCs, msg : 0..MaxMessages, epoch : 1..MaxEpochs]
AckRecord == [msg : Messages, attempt : 0..MaxRetries]

\* The types, by whose state it is.  A subscription that does not exist has no
\* messages, and can be registered again.
ServerTypes ==
    /\ exists \in BOOLEAN /\ epoch \in 1..MaxEpochs
    /\ stream \subseteq 1..lastSeq /\ lastSeq \in 0..MaxMessages
    /\ delivered \in 0..lastSeq
    /\ pending \in stream \cup {0} /\ pending <= delivered
    /\ expired \in BOOLEAN /\ (expired => pending # 0)
    /\ status \in {"pending", "running", "done", "failed"} /\ wasDone \in BOOLEAN
    /\ handled \subseteq Messages
    /\ ~exists => lastSeq = 0 /\ handled = {} /\ epoch < MaxEpochs

\* There is a request to the prefill for every registration at most.
PrefillTypes ==
    /\ queued \in 0..epoch
    /\ filling \in BOOLEAN /\ (filling => queued > 0)
    /\ prefilled \subseteq 1..lastSeq /\ purgedTo \in 0..lastSeq
    /\ lostPops \subseteq 0..MaxMessages

\* No request has a message of a registration to come.
ApiTypes ==
    /\ prefillDone \in BOOLEAN
    /\ request \in [Requests -> RequestRecord]
    /\ \A r \in Requests : request[r].epoch <= epoch
    /\ acks \subseteq AckRecord

\* What the client handles and acknowledges is a message.
ClientTypes ==
    /\ cpc \in {"idle", "waiting", "handling", "acking", "acked?"}
    /\ asked \in Requests \cup {Nobody} /\ (asked # Nobody <=> cpc = "waiting")
    /\ pop \in BOOLEAN
    /\ message \in 0..MaxMessages /\ attempt \in 0..MaxRetries
    /\ ofEpoch \in 1..MaxEpochs /\ ofEpoch <= epoch
    /\ cpc \in {"handling", "acking", "acked?"} => message # 0

TypeInv == ServerTypes /\ ApiTypes /\ ClientTypes /\ faults \in 0..MaxFaults

\* A request has a message m of the present stream in its hands.
Holds(r, m) ==
    /\ request[r].pc \in {"pop", "reply"} /\ request[r].msg = m /\ m # 0
    /\ exists /\ request[r].epoch = epoch

\* The client is at work on a message m of the present stream.
WorksOn(m) == cpc = "handling" /\ message = m /\ OfThisStream

\* A message m that is on its way to the client is the first of the stream, unless
\* it is popped; then the consumer is through with all before it.
InTurn(m) ==
    /\ m <= delivered
    /\ ~pop => \A n \in stream : m <= n
    /\ pop => pending = 0 \/ m <= pending

\* Without pop, what was delivered is gone from the stream or is pending.  Only the
\* latest delivery is.
StreamInv ==
    /\ exists /\ ~pop => \A m \in stream : m <= delivered => m = pending
    /\ pending # 0 => pending = delivered

\* The acknowledgement of a popped message m got lost, or nobody has handled it; nor
\* has anybody handled a later one.
Unhandled(m) ==
    /\ m \in handled => m \in lostPops
    /\ \A n \in handled : n <= m

RequestInv ==
    \A r \in Requests :
        /\ request[r].pc = "pop" => pop
        /\ \A m \in Messages : Holds(r, m) =>
             /\ InTurn(m)
             /\ pop /\ request[r].pc = "reply" => m # pending \/ m \in lostPops
             /\ pop /\ asked = r => Unhandled(m)

ClientInv ==
    \A m \in Messages : WorksOn(m) =>
        /\ InTurn(m)
        /\ pop => Unhandled(m) /\ (m # pending \/ m \in lostPops)

\* With pop, the consumer is through with what the client has handled, unless the
\* acknowledgement got lost.
HandledInv ==
    pop => \A m \in handled : m <= delivered /\ (m # pending \/ m \in lostPops)

TurnInv == StreamInv /\ RequestInv /\ ClientInv /\ HandledInv

\* In the first registration, what the client acknowledges it has handled, and
\* nothing else is deleted.
AckInv ==
    epoch = 1 /\ exists =>
        /\ HandledBeforeDeleted
        /\ \A a \in acks : a.msg \in handled
        /\ cpc \in {"acking", "acked?"} => message \in handled

\* In the first registration, nobody is past the gate before the prefill is done.
GateInv ==
    /\ status = "done" => wasDone
    /\ epoch = 1 =>
         /\ NothingBeforeDone
         /\ prefillDone => wasDone
         /\ \A r \in Requests : request[r].pc \in {"prefill", "main"} => wasDone

-----------------------------------------------------------------------------
(* Type correctness *)

LEMMA TypeInvIsStronger == TypeInv /\ PrefillTypes => TypeOK
<1> SUFFICES ASSUME TypeInv, PrefillTypes PROVE TypeOK
  OBVIOUS
<1>1. queued \in 0..MaxEpochs
  BY BoundsAssumption DEF TypeInv, ServerTypes, PrefillTypes
<1> QED
  BY <1>1 DEF TypeInv, ServerTypes, PrefillTypes, ApiTypes, ClientTypes, TypeOK, RequestRecord,
              PCs, AckRecord

LEMMA BoundFacts ==
    /\ MaxRetries \in Nat /\ MaxMessages \in Nat /\ MaxFaults \in Nat
    /\ MaxEpochs \in Nat /\ MaxEpochs > 0
  BY BoundsAssumption

\* An empty stream.
LEMMA EmptyFacts ==
    ASSUME NEW str, NEW last, NEW del, NEW pend, str = {}, last = 0, del = 0, pend = 0
    PROVE  /\ str \subseteq 1..last /\ last \in 0..MaxMessages
           /\ del \in 0..last
           /\ pend \in str \cup {0} /\ pend <= del
  BY BoundFacts

LEMMA RequestFacts ==
    ASSUME ApiTypes, NEW r \in Requests
    PROVE  /\ request[r] \in RequestRecord
           /\ request[r].pc \in PCs /\ request[r].msg \in 0..MaxMessages
           /\ request[r].epoch \in 1..MaxEpochs /\ request[r].epoch <= epoch
<1>1. request[r] \in RequestRecord
  BY DEF ApiTypes
<1> QED
  BY <1>1 DEF ApiTypes, RequestRecord

\* What replaces a request.
LEMMA ReplaceFacts ==
    ASSUME ApiTypes, NEW r \in Requests, NEW v \in RequestRecord,
           request' = [request EXCEPT ![r] = v],
           v.epoch <= epoch, UNCHANGED epoch
    PROVE  /\ request' \in [Requests -> RequestRecord]
           /\ request'[r] = v
           /\ \A q \in Requests \ {r} : request'[q] = request[q]
           /\ \A q \in Requests : request'[q].epoch <= epoch'
  BY DEF ApiTypes

\* A handler that moves on holds what it held.
LEMMA GotoFacts ==
    ASSUME ApiTypes, NEW r \in Requests, NEW pc \in PCs, Goto(r, pc), UNCHANGED epoch
    PROVE  /\ request' \in [Requests -> RequestRecord]
           /\ request'[r] = [pc |-> pc, msg |-> request[r].msg, epoch |-> request[r].epoch]
           /\ \A q \in Requests \ {r} : request'[q] = request[q]
           /\ \A q \in Requests : request'[q].epoch <= epoch'
<1> DEFINE v == [pc |-> pc, msg |-> request[r].msg, epoch |-> request[r].epoch]
<1>1. /\ request[r] \in RequestRecord
      /\ request[r].pc \in PCs /\ request[r].msg \in 0..MaxMessages
      /\ request[r].epoch \in 1..MaxEpochs /\ request[r].epoch <= epoch
  BY RequestFacts
<1>2. v \in RequestRecord /\ v.epoch <= epoch
  BY <1>1 DEF RequestRecord
<1>3. [request[r] EXCEPT !.pc = pc] = v
  BY <1>1 DEF RequestRecord
<1>4. request' = [request EXCEPT ![r] = v]
  BY <1>3 DEF Goto, ApiTypes
<1> QED
  BY <1>2, <1>4, ReplaceFacts

LEMMA FreeFacts ==
    ASSUME epoch \in 1..MaxEpochs
    PROVE  /\ Free \in RequestRecord /\ Free.epoch <= epoch /\ Free.pc = "free"
           /\ [Free EXCEPT !.pc = "start"] = [pc |-> "start", msg |-> 0, epoch |-> 1]
           /\ [pc |-> "start", msg |-> 0, epoch |-> 1] \in RequestRecord
           /\ [pc |-> "start", msg |-> 0, epoch |-> 1].epoch <= epoch
  BY BoundFacts DEF Free, RequestRecord, PCs

LEMMA RecordFacts ==
    ASSUME epoch \in 1..MaxEpochs, NEW m \in 0..MaxMessages
    PROVE  /\ Reply(m) = [pc |-> "reply", msg |-> m, epoch |-> epoch]
           /\ Reply(m) \in RequestRecord /\ Reply(m).epoch = epoch
           /\ [Reply(m) EXCEPT !.pc = "pop"] = [pc |-> "pop", msg |-> m, epoch |-> epoch]
           /\ [Reply(m) EXCEPT !.pc = "reply"] = Reply(m)
           /\ [pc |-> "pop", msg |-> m, epoch |-> epoch] \in RequestRecord
  BY BoundFacts DEF Free, Reply, RequestRecord, PCs

LEMMA InitType == Init => TypeInv
<1> SUFFICES ASSUME Init PROVE TypeInv
  OBVIOUS
<1>1. ServerTypes /\ faults \in 0..MaxFaults
  <2>1. /\ stream \subseteq 1..lastSeq /\ lastSeq \in 0..MaxMessages
        /\ delivered \in 0..lastSeq
        /\ pending \in stream \cup {0} /\ pending <= delivered
    BY EmptyFacts DEF Init
  <2>2. epoch \in 1..MaxEpochs /\ faults \in 0..MaxFaults
    BY BoundFacts DEF Init
  <2> QED
    BY <2>1, <2>2 DEF Init, ServerTypes
<1>2. ApiTypes
  <2>1. Free \in RequestRecord /\ Free.epoch = 1
    BY BoundFacts DEF Free, RequestRecord, PCs
  <2>2. request \in [Requests -> RequestRecord] /\ \A r \in Requests : request[r].epoch <= epoch
    BY <2>1 DEF Init
  <2> QED
    BY <2>2 DEF Init, ApiTypes
<1>3. ClientTypes
  BY BoundFacts DEF Init, ClientTypes
<1> QED
  BY <1>1, <1>2, <1>3 DEF TypeInv

\* What happens to the subscription and its stream alone.
LEMMA ServerType ==
    TypeInv /\ (Publish \/ ExpireAckWait \/ DeleteSubscription \/ RegisterSubscription)
        => TypeInv'
<1> SUFFICES ASSUME TypeInv, Publish \/ ExpireAckWait \/ DeleteSubscription
                                \/ RegisterSubscription
             PROVE  TypeInv'
  OBVIOUS
<1> DEFINE others == UNCHANGED <<prefillDone, request, acks, cpc, asked, message, ofEpoch,
                                 attempt, pop, faults>>
<1>1. CASE Publish
  <2>1. ServerTypes' /\ others /\ epoch' = epoch
    BY <1>1, BoundFacts DEF Publish, TypeInv, ServerTypes
  <2> QED
    BY <2>1 DEF TypeInv, ApiTypes, ClientTypes
<1>2. CASE ExpireAckWait
  <2>1. ServerTypes' /\ others /\ epoch' = epoch
    BY <1>2 DEF ExpireAckWait, TypeInv, ServerTypes
  <2> QED
    BY <2>1 DEF TypeInv, ApiTypes, ClientTypes
<1>4. CASE DeleteSubscription
  <2>1. ServerTypes' /\ others /\ epoch' = epoch
    BY <1>4, EmptyFacts DEF DeleteSubscription, TypeInv, ServerTypes
  <2> QED
    BY <2>1 DEF TypeInv, ApiTypes, ClientTypes
<1>5. CASE RegisterSubscription
  <2>1. epoch' = epoch + 1 /\ others
    BY <1>5 DEF RegisterSubscription
  <2>2. ServerTypes'
    BY <1>5, BoundFacts DEF RegisterSubscription, TypeInv, ServerTypes
  <2>3. ApiTypes'
    <3>1. \A r \in Requests : request[r].epoch \in Nat
      BY RequestFacts DEF TypeInv
    <3> QED
      BY <2>1, <3>1 DEF TypeInv, ServerTypes, ApiTypes
  <2> QED
    BY <2>1, <2>2, <2>3 DEF TypeInv, ServerTypes, ClientTypes
<1> QED
  BY <1>1, <1>2, <1>4, <1>5

LEMMA FaultFacts == faults \in 0..MaxFaults /\ Fault => faults' \in 0..MaxFaults
  BY BoundFacts DEF Fault

\* The prefill takes messages off the stream and reports.
LEMMA PrefillType ==
    ASSUME TypeInv, PrefillWorker \/ FailPrefill \/ ParkPrefill
    PROVE  TypeInv'
<1>1. /\ UNCHANGED <<lastSeq, delivered, exists, epoch, prefillDone, request, acks, clientVars,
                      handled>>
      /\ stream' \subseteq stream /\ pending' \in stream' \cup {0} /\ pending' <= delivered
      /\ expired' \in BOOLEAN /\ (expired' => pending' # 0)
  <2>1. CASE BeginPrefill
    <3>1. /\ UNCHANGED <<lastSeq, delivered, exists, epoch, prefillDone, request, acks,
                          clientVars, handled>>
          /\ stream' = stream \ prefilled
          /\ pending' = IF pending \in prefilled THEN 0 ELSE pending
          /\ expired' = (expired /\ pending \notin prefilled)
      BY <2>1 DEF BeginPrefill, PurgePrefillSubject
    <3>2. stream' \subseteq stream /\ pending' \in stream' \cup {0} /\ pending' <= delivered
      BY <3>1 DEF TypeInv, ServerTypes
    <3>3. expired' \in BOOLEAN /\ (expired' => pending' # 0)
      BY <3>1, Zenon DEF TypeInv, ServerTypes
    <3> QED
      BY <3>1, <3>2, <3>3
  <2>2. CASE RunPrefill \/ EndPrefill \/ FailPrefill \/ ParkPrefill
    BY <2>2 DEF RunPrefill, EndPrefill, FailPrefill, ParkPrefill, TypeInv, ServerTypes
  <2> QED
    BY <2>1, <2>2 DEF PrefillWorker
<1>2. status' \in {"pending", "running", "done", "failed"} /\ wasDone' \in BOOLEAN
  BY DEF PrefillWorker, BeginPrefill, RunPrefill, EndPrefill, FailPrefill, ParkPrefill, TypeInv,
         ServerTypes
<1>3. faults' \in 0..MaxFaults
  BY FaultFacts
     DEF PrefillWorker, BeginPrefill, RunPrefill, EndPrefill, FailPrefill, ParkPrefill, TypeInv
<1> QED
  BY <1>1, <1>2, <1>3 DEF TypeInv, ServerTypes, ApiTypes, ClientTypes

\* A delivery leaves the subscription in order: m was not delivered before, or it is
\* the one that is pending.
LEMMA DeliveryFacts ==
    ASSUME ServerTypes, NEW r \in Requests, NEW m, Delivery(r, m)
    PROVE  /\ m \in 1..lastSeq /\ m \in stream /\ UNCHANGED stream
           /\ delivered' \in 0..lastSeq /\ delivered <= delivered' /\ m <= delivered'
           /\ pending' = m /\ expired' = FALSE
           /\ request[r].pc \in {"prefill", "main"}
           /\ \/ pending = m /\ delivered' = delivered
              \/ /\ pending = 0 /\ m > delivered /\ delivered' = m
                 /\ \A n \in stream : n > delivered => m <= n
<1>1. /\ m \in 1..lastSeq /\ m \in stream /\ UNCHANGED stream
      /\ pending' = m /\ expired' = FALSE /\ request[r].pc \in {"prefill", "main"}
      /\ delivered \in Nat /\ delivered <= lastSeq /\ lastSeq \in Nat
      /\ delivered' = IF m > delivered THEN m ELSE delivered
  BY DEF Delivery, ServerTypes
<1>2. CASE expired /\ m = pending
  <2>1. m <= delivered
    BY <1>2 DEF ServerTypes
  <2> QED
    BY <1>1, <1>2, <2>1
<1>3. CASE pending = 0 /\ m > delivered /\ \A n \in stream : n > delivered => m <= n
  BY <1>1, <1>3
<1> QED
  BY <1>2, <1>3 DEF Delivery, Fetchable

LEMMA DeliveryType ==
    ASSUME ServerTypes, NEW r \in Requests, NEW m, Delivery(r, m),
           UNCHANGED <<lastSeq, exists, epoch, status, wasDone, handled>>
    PROVE  ServerTypes'
<1>1. /\ m \in 1..lastSeq /\ m \in stream /\ UNCHANGED stream
      /\ delivered' \in 0..lastSeq /\ m <= delivered'
      /\ pending' = m /\ expired' = FALSE
  BY DeliveryFacts
<1> QED
  BY <1>1 DEF ServerTypes

\* A pop and a deletion take the message off the consumer's hands.
LEMMA ReleaseType ==
    ASSUME ServerTypes, NEW m,
           stream' = stream \/ stream' = stream \ {m},
           pending' = (IF pending = m THEN 0 ELSE pending),
           expired' = (expired /\ pending # m),
           UNCHANGED <<lastSeq, delivered, exists, epoch, status, wasDone, handled>>
    PROVE  ServerTypes'
<1>1. /\ stream' \subseteq 1..lastSeq
  BY DEF ServerTypes
<1>2. pending' \in stream' \cup {0} /\ pending' <= delivered
  BY DEF ServerTypes
<1>3. expired' \in BOOLEAN /\ (expired' => pending' # 0)
  BY DEF ServerTypes
<1> QED
  BY <1>1, <1>2, <1>3 DEF ServerTypes

\* A request that is replaced leaves the rest of the API in order.
LEMMA ReplaceType ==
    ASSUME ApiTypes, NEW r \in Requests, NEW v \in RequestRecord,
           request' = [request EXCEPT ![r] = v], v.epoch <= epoch,
           prefillDone' \in BOOLEAN, acks' \subseteq AckRecord, UNCHANGED epoch
    PROVE  ApiTypes'
  BY ReplaceFacts DEF ApiTypes

LEMMA GotoType ==
    ASSUME ApiTypes, NEW r \in Requests, NEW pc \in PCs, Goto(r, pc),
           UNCHANGED <<prefillDone, acks, epoch>>
    PROVE  ApiTypes'
  BY GotoFacts DEF ApiTypes

\* The answer with or without a message.
LEMMA AnswerType ==
    ASSUME ServerTypes, ApiTypes, NEW r \in Requests, NEW m \in 0..lastSeq,
           \/ request' = [request EXCEPT ![r] = Reply(m)]
           \/ request' = [request EXCEPT ![r] = [pc |-> "pop", msg |-> m, epoch |-> epoch]],
           prefillDone' \in BOOLEAN, UNCHANGED <<acks, epoch>>
    PROVE  ApiTypes'
<1>1. epoch \in 1..MaxEpochs /\ m \in 0..MaxMessages /\ epoch \in Nat
  BY BoundFacts DEF ServerTypes
<1>2. /\ Reply(m) \in RequestRecord /\ Reply(m).epoch = epoch
      /\ [pc |-> "pop", msg |-> m, epoch |-> epoch] \in RequestRecord
  BY <1>1, RecordFacts
<1>3. acks' \subseteq AckRecord
  BY DEF ApiTypes
<1>4. ASSUME NEW v \in RequestRecord, request' = [request EXCEPT ![r] = v], v.epoch <= epoch
      PROVE  ApiTypes'
  BY <1>3, <1>4, ReplaceType
<1>5. CASE request' = [request EXCEPT ![r] = Reply(m)]
  <2>1. Reply(m).epoch <= epoch
    BY <1>1, <1>2
  <2> QED
    BY <1>2, <1>4, <1>5, <2>1
<1>6. CASE request' = [request EXCEPT ![r] = [pc |-> "pop", msg |-> m, epoch |-> epoch]]
  <2>1. [pc |-> "pop", msg |-> m, epoch |-> epoch].epoch <= epoch
    BY <1>1
  <2> QED
    BY <1>2, <1>4, <1>6, <2>1
<1> QED
  BY <1>5, <1>6

LEMMA ClientStays ==
    ASSUME ClientTypes, UNCHANGED <<clientVars, epoch>>
    PROVE  ClientTypes'
  BY DEF ClientTypes

LEMMA GetHandlerType == ASSUME TypeInv, NEW r \in Requests, GetHandler(r) PROVE TypeInv'
<1> USE DEF TypeInv
<1>0. ServerTypes /\ ApiTypes /\ ClientTypes /\ faults \in 0..MaxFaults
      /\ prefillDone \in BOOLEAN /\ 0 \in 0..lastSeq
  BY BoundFacts DEF ApiTypes, ServerTypes
<1>1. CASE StartGet(r) \/ PassGate(r)
  <2>1. UNCHANGED <<stream, lastSeq, consumerVars, subVars, handled, clientVars, faults,
                    prefillDone, acks>>
    BY <1>1 DEF StartGet, PassGate
  <2>2. \E pc \in PCs : Goto(r, pc)
    BY <1>1 DEF StartGet, PassGate, PCs
  <2> QED
    BY <1>0, <2>1, <2>2, GotoType, ClientStays DEF ServerTypes
<1>7. CASE GateRaises(r)
  <2>1. UNCHANGED <<stream, lastSeq, consumerVars, subVars, handled, clientVars, faults,
                    prefillDone, acks>> /\ Goto(r, "error") /\ "error" \in PCs
    BY <1>7 DEF GateRaises, PCs
  <2> QED
    BY <1>0, <2>1, GotoType, ClientStays DEF ServerTypes
<1>2. CASE FailGate(r)
  <2>1. UNCHANGED <<stream, lastSeq, consumerVars, subVars, handled, clientVars, faults,
                    prefillDone, acks>>
    BY <1>2 DEF FailGate
  <2>2. ApiTypes'
    BY <1>0, <1>2, <2>1, AnswerType DEF FailGate
  <2> QED
    BY <1>0, <2>1, <2>2, ClientStays DEF ServerTypes
<1>3. ASSUME NEW m \in stream, Fetch(r, m) PROVE TypeInv'
  <2>1. /\ Delivery(r, m)
        /\ UNCHANGED <<lastSeq, subVars, handled, clientVars, faults, prefillDone, acks>>
    BY <1>3 DEF Fetch
  <2>2. m \in 0..lastSeq /\ m \in 0..MaxMessages /\ epoch \in 1..MaxEpochs
    BY <1>0, BoundFacts DEF ServerTypes
  <2>3. \/ request' = [request EXCEPT ![r] = Reply(m)]
        \/ request' = [request EXCEPT ![r] = [pc |-> "pop", msg |-> m, epoch |-> epoch]]
    BY <1>3, <2>2, RecordFacts DEF Fetch
  <2>4. ApiTypes'
    BY <1>0, <2>1, <2>2, <2>3, AnswerType
  <2> QED
    BY <1>0, <2>1, <2>4, DeliveryType, ClientStays
<1>4. CASE Pop(r)
  <2>1. UNCHANGED <<stream, lastSeq, delivered, subVars, handled, clientVars, faults,
                    prefillDone, acks>> /\ Goto(r, "reply") /\ "reply" \in PCs
    BY <1>4 DEF Pop, PCs
  <2>2. ServerTypes'
    BY <1>0, <1>4, <2>1, ReleaseType DEF Pop
  <2> QED
    BY <1>0, <2>1, <2>2, GotoType, ClientStays
<1>5. CASE FetchNothing(r)
  <2>1. UNCHANGED <<stream, lastSeq, consumerVars, subVars, handled, clientVars, faults, acks>>
    BY <1>5 DEF FetchNothing
  <2>2. prefillDone' \in BOOLEAN /\ request' = [request EXCEPT ![r] = Reply(0)]
    BY <1>0, <1>5 DEF FetchNothing, NoMessage
  <2>3. ApiTypes'
    BY <1>0, <2>1, <2>2, AnswerType
  <2> QED
    BY <1>0, <2>1, <2>3, ClientStays DEF ServerTypes
<1>6. CASE DropReply(r)
  <2>1. UNCHANGED <<stream, lastSeq, consumerVars, subVars, handled, clientVars, faults,
                    prefillDone, acks>>
    BY <1>6 DEF DropReply
  <2>2. Free \in RequestRecord /\ Free.epoch <= epoch
    BY <1>0, FreeFacts DEF ServerTypes
  <2>3. ApiTypes'
    BY <1>0, <1>6, <2>1, <2>2, ReplaceType DEF DropReply, ApiTypes
  <2> QED
    BY <1>0, <2>1, <2>3, ClientStays DEF ServerTypes
<1> QED
  BY <1>1, <1>2, <1>3, <1>4, <1>5, <1>6, <1>7 DEF GetHandler

LEMMA LosePopAckType ==
    ASSUME TypeInv, NEW r \in Requests, LosePopAck(r) PROVE TypeInv'
<1>1. /\ ServerTypes /\ ApiTypes /\ ClientTypes /\ faults' \in 0..MaxFaults
      /\ Goto(r, "reply") /\ "reply" \in PCs
      /\ UNCHANGED <<stream, lastSeq, consumerVars, exists, epoch, prefillVars, prefillDone, acks,
                      clientVars, handled>>
  BY FaultFacts DEF LosePopAck, TypeInv, PCs
<1>2. ServerTypes' /\ ClientTypes'
  BY <1>1, ClientStays DEF ServerTypes
<1>3. ApiTypes'
  BY <1>1, GotoType
<1> QED
  BY <1>1, <1>2, <1>3 DEF TypeInv

LEMMA MissDeliveryType ==
    ASSUME TypeInv, NEW r \in Requests, NEW m \in stream, MissDelivery(r, m)
    PROVE  TypeInv'
<1>1. /\ ServerTypes /\ ApiTypes /\ ClientTypes /\ faults' \in 0..MaxFaults
      /\ 0 \in 0..lastSeq /\ prefillDone \in BOOLEAN
  BY FaultFacts DEF TypeInv, MissDelivery, ServerTypes, ApiTypes
<1>2. Delivery(r, m) /\ UNCHANGED <<lastSeq, subVars, acks, clientVars, handled>>
  BY DEF MissDelivery
<1>3. prefillDone' \in BOOLEAN /\ request' = [request EXCEPT ![r] = Reply(0)]
  BY <1>1 DEF MissDelivery, NoMessage
<1>4. ApiTypes'
  BY <1>1, <1>2, <1>3, AnswerType
<1> QED
  BY <1>1, <1>2, <1>4, DeliveryType, ClientStays DEF TypeInv

\* The client that goes on, or tries to acknowledge again, awaits no response.
LEMMA ProceedType ==
    ASSUME ServerTypes, ClientTypes, NextMessage \/ (RetryAck /\ cpc = "acked?"),
           asked' = Nobody, UNCHANGED <<pop, epoch>>
    PROVE  ClientTypes'
<1>1. 0 \in 0..MaxMessages /\ 0 \in 0..MaxRetries /\ 1 \in 1..MaxEpochs /\ 1 <= epoch
  BY BoundFacts DEF ServerTypes
<1>2. CASE NextMessage
  BY <1>1, <1>2 DEF NextMessage, ClientTypes
<1>3. CASE RetryAck /\ cpc = "acked?" /\ ~NextMessage
  <2>1. /\ cpc' = "acking" /\ attempt' = attempt + 1 /\ UNCHANGED <<message, ofEpoch>>
        /\ attempt < MaxRetries
    BY <1>3 DEF RetryAck
  <2>2. attempt' \in 0..MaxRetries
    BY <2>1, BoundFacts DEF ClientTypes
  <2> QED
    BY <1>3, <2>1, <2>2 DEF ClientTypes
<1> QED
  BY <1>2, <1>3

LEMMA AcknowledgeType == ASSUME TypeInv, NEW a \in acks, AcknowledgeMessage(a) PROVE TypeInv'
<1>1. ServerTypes /\ ApiTypes /\ ClientTypes /\ faults \in 0..MaxFaults
  BY DEF TypeInv
<1>2. /\ UNCHANGED <<lastSeq, delivered, subVars, prefillDone, request, asked, pop, faults, handled>>
      /\ acks' = acks \ {a} /\ DeleteMessage(a.msg)
  BY DEF AcknowledgeMessage
<1>3. ServerTypes'
  BY <1>1, <1>2, ReleaseType DEF DeleteMessage
<1>4. ApiTypes'
  BY <1>1, <1>2 DEF ApiTypes
<1>5. ClientTypes'
  <2>1. CASE UNCHANGED <<cpc, message, ofEpoch, attempt>>
    BY <1>1, <1>2, <2>1 DEF ClientTypes
  <2>2. CASE cpc = "acked?" /\ (NextMessage \/ RetryAck)
    <3>1. asked' = Nobody
      BY <1>1, <1>2, <2>2 DEF ClientTypes
    <3> QED
      BY <1>1, <1>2, <2>2, <3>1, ProceedType
  <2> QED
    BY <2>1, <2>2 DEF AcknowledgeMessage
<1> QED
  BY <1>1, <1>2, <1>3, <1>4, <1>5 DEF TypeInv

LEMMA ClientType == TypeInv /\ Client => TypeInv'
<1> SUFFICES ASSUME TypeInv, Client PROVE TypeInv'
  OBVIOUS
<1>0. ServerTypes /\ ApiTypes /\ ClientTypes /\ faults \in 0..MaxFaults
      /\ epoch \in 1..MaxEpochs /\ epoch \in Nat
  BY BoundFacts DEF TypeInv, ServerTypes
<1>1. ASSUME NEW r \in Requests, SendGet(r) PROVE TypeInv'
  <2>1. /\ request' = [request EXCEPT ![r] = [pc |-> "start", msg |-> 0, epoch |-> 1]]
        /\ [pc |-> "start", msg |-> 0, epoch |-> 1] \in RequestRecord
        /\ [pc |-> "start", msg |-> 0, epoch |-> 1].epoch <= epoch
    BY <1>0, <1>1, FreeFacts DEF SendGet
  <2>2. UNCHANGED <<stream, lastSeq, consumerVars, subVars, prefillDone, pop, acks, message,
                    ofEpoch, attempt, faults, handled>> /\ cpc' = "waiting" /\ asked' = r
    BY <1>1 DEF SendGet
  <2>3. ApiTypes'
    BY <1>0, <2>1, <2>2, ReplaceType DEF ApiTypes
  <2>4. ClientTypes'
    BY <1>0, <2>2, RequestsAssumption DEF ClientTypes
  <2> QED
    BY <1>0, <2>2, <2>3, <2>4 DEF TypeInv, ServerTypes
<1>2. CASE ReceiveReply
  <2>1. asked \in Requests
    BY <1>0, <1>2 DEF ClientTypes, ReceiveReply
  <2>2. /\ request[asked].msg \in 0..MaxMessages
        /\ request[asked].epoch \in 1..MaxEpochs /\ request[asked].epoch <= epoch
    BY <1>0, <2>1, RequestFacts
  <2>3. UNCHANGED <<stream, lastSeq, consumerVars, subVars, prefillDone, pop, acks, attempt,
                    faults, handled>>
    BY <1>2 DEF ReceiveReply
  <2>4. ApiTypes'
    <3>1. Free \in RequestRecord /\ Free.epoch <= epoch
      BY <1>0, FreeFacts
    <3> QED
      BY <1>0, <1>2, <2>1, <2>3, <3>1, ReplaceType DEF ReceiveReply, ApiTypes
  <2>5. message' \in 0..MaxMessages /\ ofEpoch' \in 1..MaxEpochs /\ ofEpoch' <= epoch
    BY <1>0, <1>2, <2>2, BoundFacts DEF ReceiveReply
  <2>6. ClientTypes'
    BY <1>0, <1>2, <2>3, <2>5 DEF ClientTypes, ReceiveReply
  <2> QED
    BY <1>0, <2>3, <2>4, <2>6 DEF TypeInv, ServerTypes
<1>5. CASE ReceiveError
  <2>1. asked \in Requests
    BY <1>0, <1>5 DEF ClientTypes, ReceiveError
  <2>2. UNCHANGED <<stream, lastSeq, consumerVars, subVars, prefillDone, pop, acks, faults, handled>>
    BY <1>5 DEF ReceiveError
  <2>3. ApiTypes'
    <3>1. Free \in RequestRecord /\ Free.epoch <= epoch
      BY <1>0, FreeFacts
    <3> QED
      BY <1>0, <1>5, <2>1, <2>2, <3>1, ReplaceType DEF ReceiveError, ApiTypes
  <2>4. ClientTypes'
    BY <1>0, <1>5, <2>2, ProceedType DEF ReceiveError
  <2> QED
    BY <1>0, <2>2, <2>3, <2>4 DEF TypeInv, ServerTypes
<1>3. CASE RunCallbacks
  <2>1. UNCHANGED <<request, acks, asked, faults, stream, lastSeq, consumerVars, subVars,
                    prefillDone, pop>> /\ asked = Nobody
    BY <1>0, <1>3 DEF RunCallbacks, ClientTypes
  <2>2. message \in Messages
    BY <1>0, <1>3 DEF RunCallbacks, ClientTypes, Messages
  <2>3. ServerTypes'
    BY <1>0, <1>3, <2>1, <2>2 DEF RunCallbacks, OfThisStream, ServerTypes
  <2>4. ApiTypes'
    BY <1>0, <2>1 DEF ApiTypes
  <2>5. ClientTypes'
    <3>1. CASE pop
      BY <1>0, <1>3, <2>1, <3>1, ProceedType DEF RunCallbacks
    <3>2. CASE ~pop
      BY <1>0, <1>3, <2>1, <3>2, BoundFacts DEF RunCallbacks, ClientTypes
    <3> QED
      BY <3>1, <3>2
  <2> QED
    BY <1>0, <2>1, <2>3, <2>4, <2>5 DEF TypeInv
<1>4. CASE SendAck
  <2>1. UNCHANGED <<request, asked, message, ofEpoch, attempt, faults, handled, stream, lastSeq,
                    consumerVars, subVars, prefillDone, pop>>
    BY <1>4 DEF SendAck
  <2>2. [msg |-> message, attempt |-> attempt] \in AckRecord
    BY <1>0, <1>4 DEF SendAck, ClientTypes, AckRecord, Messages
  <2>3. ApiTypes'
    BY <1>0, <1>4, <2>1, <2>2 DEF SendAck, ApiTypes
  <2>4. ClientTypes'
    BY <1>0, <1>4, <2>1 DEF SendAck, ClientTypes
  <2> QED
    BY <1>0, <2>1, <2>3, <2>4 DEF TypeInv, ServerTypes
<1> QED
  BY <1>1, <1>2, <1>3, <1>4, <1>5 DEF Client

LEMMA FaultType == TypeInv /\ (LoseAckResponse \/ CrashClient \/ RestartApi) => TypeInv'
<1> SUFFICES ASSUME TypeInv, LoseAckResponse \/ CrashClient \/ RestartApi PROVE TypeInv'
  OBVIOUS
<1>0. /\ ServerTypes /\ ApiTypes /\ ClientTypes /\ faults' \in 0..MaxFaults
      /\ UNCHANGED <<stream, lastSeq, consumerVars, subVars, pop, handled>>
  BY FaultFacts DEF TypeInv, LoseAckResponse, CrashClient, RestartApi
<1>1. ServerTypes'
  BY <1>0 DEF ServerTypes
<1>2. CASE LoseAckResponse
  <2>1. asked' = Nobody /\ UNCHANGED <<request, acks, prefillDone>>
    BY <1>0, <1>2 DEF LoseAckResponse, ClientTypes
  <2> QED
    BY <1>0, <1>1, <1>2, <2>1, ProceedType DEF LoseAckResponse, TypeInv, ApiTypes
<1>3. CASE CrashClient
  BY <1>0, <1>1, <1>3, ProceedType DEF CrashClient, TypeInv, ApiTypes
<1>4. CASE RestartApi
  <2>1. Free \in RequestRecord /\ Free.epoch <= epoch
    BY <1>0, FreeFacts DEF ServerTypes
  <2>2. ApiTypes'
    BY <1>0, <1>4, <2>1 DEF RestartApi, ApiTypes
  <2>3. CASE cpc \in {"waiting", "acked?"}
    BY <1>0, <1>1, <1>4, <2>2, <2>3, ProceedType DEF RestartApi, TypeInv
  <2>4. CASE cpc \notin {"waiting", "acked?"}
    BY <1>0, <1>1, <1>4, <2>2, <2>4 DEF RestartApi, TypeInv, ClientTypes
  <2> QED
    BY <2>3, <2>4
<1> QED
  BY <1>2, <1>3, <1>4

LEMMA NextType == TypeInv /\ [Next]_vars => TypeInv'
<1> SUFFICES ASSUME TypeInv, [Next]_vars PROVE TypeInv'
  OBVIOUS
<1>1. CASE UNCHANGED vars
  BY <1>1 DEF TypeInv, ServerTypes, ApiTypes, ClientTypes
<1> QED
  BY <1>1, ServerType, PrefillType, GetHandlerType, AcknowledgeType, ClientType, FaultType,
     LosePopAckType, MissDeliveryType
     DEF Next

LEMMA AlwaysType == Spec => []TypeInv
  BY InitType, NextType, PTL DEF Spec

\* The prefill queue holds one request at most for each registration.
LEMMA InitPrefillTypes == Init => PrefillTypes
<1> SUFFICES ASSUME Init PROVE PrefillTypes
  OBVIOUS
<1>1. queued \in {0, 1} /\ epoch = 1 /\ lastSeq = 0 /\ purgedTo = 0
  BY DEF Init
<1>2. filling = FALSE /\ prefilled = {} /\ lostPops = {}
  BY DEF Init
<1>3. queued \in 0..epoch /\ purgedTo \in 0..lastSeq
  BY <1>1
<1> QED
  BY <1>2, <1>3 DEF PrefillTypes

LEMMA NextPrefillTypes == TypeInv /\ PrefillTypes /\ [Next]_vars => PrefillTypes'
<1> SUFFICES ASSUME TypeInv, PrefillTypes, [Next]_vars PROVE PrefillTypes'
  OBVIOUS
<1>0. /\ lastSeq \in 0..MaxMessages /\ lastSeq \in Nat /\ epoch \in Nat /\ queued \in Nat
      /\ queued <= epoch
  BY BoundFacts DEF TypeInv, ServerTypes, PrefillTypes
<1>1. CASE UNCHANGED <<lastSeq, subVars>>
  BY <1>1 DEF PrefillTypes
<1>2. CASE Publish
  <2>1. /\ lastSeq' = lastSeq + 1 /\ UNCHANGED <<epoch, queued, filling, purgedTo, lostPops>>
        /\ prefilled' \subseteq prefilled \cup {lastSeq + 1}
    BY <1>2 DEF Publish
  <2> QED
    BY <1>0, <2>1 DEF PrefillTypes
<1>3. CASE PrefillWorker \/ FailPrefill \/ ParkPrefill
  <2>1. UNCHANGED <<lastSeq, epoch, prefilled, lostPops>> /\ purgedTo' \in {purgedTo, lastSeq}
    BY <1>3 DEF PrefillWorker, BeginPrefill, PurgePrefillSubject, RunPrefill, EndPrefill,
                FailPrefill, ParkPrefill
  <2>2. queued' \in 0..epoch /\ filling' \in BOOLEAN /\ (filling' => queued' > 0)
    <3>1. CASE BeginPrefill
      BY <1>0, <3>1 DEF BeginPrefill, PrefillTypes
    <3>2. CASE RunPrefill
      BY <1>0, <3>2 DEF RunPrefill, PrefillTypes
    <3>3. CASE EndPrefill
      <4>1. queued' \in {queued, queued - 1} /\ filling' = FALSE /\ filling
        BY <3>3 DEF EndPrefill
      <4>2. queued > 0
        BY <4>1 DEF PrefillTypes
      <4>3. queued' \in 0..epoch
        <5>1. queued' = queued \/ queued' = queued - 1
          BY <4>1
        <5> QED
          BY <1>0, <4>2, <5>1
      <4> QED
        BY <4>1, <4>3
    <3>4. CASE FailPrefill
      BY <1>0, <3>4 DEF FailPrefill, PrefillTypes
    <3>5. CASE ParkPrefill
      BY <1>0, <3>5 DEF ParkPrefill, PrefillTypes
    <3> QED
      BY <1>3, <3>1, <3>2, <3>3, <3>4, <3>5 DEF PrefillWorker
  <2> QED
    BY <1>0, <2>1, <2>2 DEF PrefillTypes
<1>4. CASE DeleteSubscription
  BY <1>4 DEF DeleteSubscription, PrefillTypes
<1>5. CASE RegisterSubscription
  <2>1. /\ epoch' = epoch + 1 /\ queued' \in {queued, queued + 1}
        /\ UNCHANGED <<lastSeq, filling, prefilled, purgedTo, lostPops>>
    BY <1>5 DEF RegisterSubscription
  <2> QED
    BY <1>0, <2>1 DEF PrefillTypes
<1>6. ASSUME NEW r \in Requests, LosePopAck(r) PROVE PrefillTypes'
  <2>1. request[r].msg \in 0..MaxMessages
    BY RequestFacts DEF TypeInv
  <2>2. /\ UNCHANGED <<lastSeq, epoch, queued, filling, prefilled, purgedTo>>
        /\ lostPops' \subseteq lostPops \cup {request[r].msg}
    BY <1>6 DEF LosePopAck
  <2> QED
    BY <2>1, <2>2 DEF PrefillTypes
<1>7. CASE \/ UNCHANGED vars \/ ExpireAckWait \/ Client
           \/ LoseAckResponse \/ CrashClient \/ RestartApi
  <2>1. UNCHANGED <<lastSeq, subVars>>
    BY <1>7 DEF ExpireAckWait, Client, SendGet, ReceiveReply, ReceiveError, RunCallbacks, SendAck,
                LoseAckResponse, CrashClient, RestartApi
  <2> QED
    BY <1>1, <2>1
<1>8. ASSUME NEW r \in Requests, GetHandler(r) PROVE PrefillTypes'
  <2>1. UNCHANGED <<lastSeq, subVars>>
    BY <1>8 DEF GetHandler, StartGet, PassGate, FailGate, GateRaises, Fetch, Pop, FetchNothing,
                DropReply
  <2> QED
    BY <1>1, <2>1
<1>9. CASE \/ \E a \in acks : AcknowledgeMessage(a)
           \/ \E r \in Requests, m \in stream : MissDelivery(r, m)
  <2>1. UNCHANGED <<lastSeq, subVars>>
    BY <1>9 DEF AcknowledgeMessage, MissDelivery
  <2> QED
    BY <1>1, <2>1
<1> QED
  BY <1>2, <1>3, <1>4, <1>5, <1>6, <1>7, <1>8, <1>9 DEF Next

\* Every variable keeps its type: what is pending is in the stream and was delivered,
\* and the client awaits a response exactly while it is waiting.
THEOREM TypeCorrect == Spec => []TypeOK
  BY InitPrefillTypes, NextPrefillTypes, AlwaysType, TypeInvIsStronger, PTL DEF Spec

-----------------------------------------------------------------------------
(* One message after the other *)

\* The numbers that play a role.
LEMMA NumberFacts ==
    ASSUME ServerTypes
    PROVE  /\ lastSeq \in Nat /\ delivered \in Nat /\ pending \in Nat /\ delivered <= lastSeq
           /\ stream \subseteq 1..lastSeq /\ pending \in stream \cup {0} /\ pending <= delivered
           /\ handled \subseteq Messages
  BY DEF ServerTypes

LEMMA InitTurn == Init => TurnInv
<1> SUFFICES ASSUME Init PROVE TurnInv
  OBVIOUS
<1>1. \A r \in Requests : request[r].pc = "free"
  BY DEF Init, Free
<1> QED
  BY <1>1 DEF Init, TurnInv, StreamInv, RequestInv, ClientInv, HandledInv, Holds, WorksOn

\* What was in turn stays so while messages are only taken off the stream or the
\* consumer's hands.
LEMMA TurnStays ==
    ASSUME TypeInv, TurnInv, stream' \subseteq stream, pending' \in {0, pending},
           UNCHANGED <<delivered, exists, epoch, pop, handled>>, lostPops \subseteq lostPops',
           StreamInv',
           \A r \in Requests : request'[r].pc = "pop" => pop,
           \A r \in Requests, m \in Messages : Holds(r, m)' =>
              /\ Holds(r, m)
              /\ asked' = r => asked = r
              /\ request'[r].pc = "reply" =>
                    request[r].pc = "reply" \/ pending' # m \/ m \in lostPops',
           \A m \in Messages : WorksOn(m)' => WorksOn(m)
    PROVE  TurnInv'
<1>1. \A m \in Messages : m # 0
  BY DEF Messages
<1>2. \A m \in Messages : InTurn(m) => InTurn(m)'
  BY DEF InTurn
<1>3. \A m \in Messages :
        /\ m # pending \/ m \in lostPops => m # pending' \/ m \in lostPops'
        /\ Unhandled(m) => Unhandled(m)'
  BY <1>1 DEF Unhandled
<1>4. RequestInv'
  BY <1>2, <1>3 DEF TurnInv, RequestInv
<1>5. ClientInv'
  BY <1>2, <1>3 DEF TurnInv, ClientInv
<1>6. HandledInv'
  BY <1>3, NumberFacts DEF TypeInv, TurnInv, HandledInv
<1> QED
  BY <1>4, <1>5, <1>6 DEF TurnInv

\* A handler that comes away without a message, the client and the rest as they were.
LEMMA EmptyHandedTurn ==
    ASSUME TypeInv, TurnInv, NEW r \in Requests,
           request'[r].pc # "pop", request'[r].pc = "reply" => request'[r].msg = 0,
           \A q \in Requests \ {r} : request'[q] = request[q],
           UNCHANGED <<stream, delivered, pending, exists, epoch, pop, handled, lostPops>>,
           asked' \in {asked, r, Nobody}, \A m \in Messages : WorksOn(m)' => WorksOn(m)
    PROVE  TurnInv'
<1>1. StreamInv'
  BY DEF TurnInv, StreamInv
<1>2. \A q \in Requests, m \in Messages : Holds(q, m)' => q # r /\ Holds(q, m)
  BY DEF Holds
<1>3. \A q \in Requests : request'[q].pc = "pop" => pop
  BY DEF TurnInv, RequestInv
<1>4. \A q \in Requests, m \in Messages : Holds(q, m)' =>
        /\ Holds(q, m)
        /\ asked' = q => asked = q
        /\ request'[q].pc = "reply" => request[q].pc = "reply"
  BY <1>2, RequestsAssumption
<1> QED
  BY <1>1, <1>3, <1>4, TurnStays

LEMMA SystemTurn ==
    TypeInv /\ TurnInv /\ (Publish \/ ExpireAckWait \/ PrefillWorker \/ FailPrefill
                              \/ ParkPrefill \/ DeleteSubscription \/ RegisterSubscription)
        => TurnInv'
<1> SUFFICES ASSUME TypeInv, TurnInv,
                    Publish \/ ExpireAckWait \/ PrefillWorker \/ FailPrefill
                      \/ ParkPrefill \/ DeleteSubscription \/ RegisterSubscription
             PROVE  TurnInv'
  OBVIOUS
<1>1. CASE Publish
  <2>1. /\ stream' = stream \cup {lastSeq + 1}
        /\ UNCHANGED <<delivered, pending, exists, epoch, pop, handled, request, asked, cpc,
                       message, ofEpoch, lostPops>>
    BY <1>1 DEF Publish
  <2>2. lastSeq + 1 > delivered /\ delivered \in Nat /\ lastSeq \in Nat
    BY NumberFacts DEF TypeInv
  <2>3. StreamInv'
    BY <2>1, <2>2 DEF TurnInv, StreamInv
  <2>4. \A m \in Messages : InTurn(m) => InTurn(m)'
    BY <2>1, <2>2 DEF InTurn, Messages
  <2> QED
    BY <2>1, <2>3, <2>4 DEF TurnInv, RequestInv, ClientInv, HandledInv, Holds, WorksOn, OfThisStream,
                            Unhandled
<1>2. CASE ExpireAckWait \/ RunPrefill \/ EndPrefill \/ FailPrefill \/ ParkPrefill
  <2>1. UNCHANGED <<stream, delivered, pending, exists, epoch, pop, handled, request, asked, cpc,
                    message, ofEpoch, lostPops>>
    BY <1>2 DEF ExpireAckWait, RunPrefill, EndPrefill, FailPrefill, ParkPrefill
  <2> QED
    BY <2>1 DEF TurnInv, StreamInv, RequestInv, ClientInv, HandledInv, Holds, WorksOn, OfThisStream,
                InTurn, Unhandled
<1>5. CASE BeginPrefill
  <2>1. /\ UNCHANGED <<delivered, exists, epoch, pop, handled, request, asked, cpc, message,
                        ofEpoch, lostPops>>
        /\ stream' = stream \ prefilled
        /\ pending' = IF pending \in prefilled THEN 0 ELSE pending
    BY <1>5 DEF BeginPrefill, PurgePrefillSubject
  <2>2. StreamInv'
    BY <2>1 DEF TurnInv, StreamInv
  <2>3. \A r \in Requests : request'[r].pc = "pop" => pop
    BY <2>1 DEF TurnInv, RequestInv
  <2> QED
    BY <2>1, <2>2, <2>3, TurnStays DEF Holds, WorksOn, OfThisStream
<1>3. CASE DeleteSubscription
  <2>1. exists' = FALSE /\ handled' = {} /\ pending' = 0 /\ UNCHANGED <<request, pop>>
    BY <1>3 DEF DeleteSubscription
  <2> QED
    BY <2>1 DEF TurnInv, StreamInv, RequestInv, ClientInv, HandledInv, Holds, WorksOn, OfThisStream
<1>4. CASE RegisterSubscription
  <2>1. /\ epoch' = epoch + 1 /\ handled = {} /\ lastSeq = 0
        /\ UNCHANGED <<stream, delivered, pending, pop, handled, request, asked, cpc, message, ofEpoch>>
    BY <1>4 DEF RegisterSubscription, TypeInv, ServerTypes
  <2>2. stream = {}
    BY <2>1, NumberFacts DEF TypeInv
  <2>3. epoch \in Nat /\ ofEpoch \in Nat /\ ofEpoch < epoch'
    BY <2>1, BoundFacts DEF TypeInv, ServerTypes, ClientTypes
  <2>4. \A r \in Requests : request[r].epoch # epoch'
    BY <2>1, <2>3, RequestFacts DEF TypeInv
  <2> QED
    BY <2>1, <2>2, <2>3, <2>4
       DEF TurnInv, StreamInv, RequestInv, ClientInv, HandledInv, Holds, WorksOn, OfThisStream
<1> QED
  BY <1>1, <1>2, <1>3, <1>4, <1>5 DEF PrefillWorker

\* A delivery does not disturb what is on its way already, and the message that is
\* delivered is in turn itself.
LEMMA DeliveryTurn ==
    ASSUME TypeInv, TurnInv, NEW r \in Requests, NEW m \in stream, Delivery(r, m),
           UNCHANGED <<exists, epoch, pop, handled, lostPops>>, exists
    PROVE  /\ StreamInv' /\ HandledInv'
           /\ InTurn(m)' /\ (pop => Unhandled(m))
           /\ \A n \in Messages : InTurn(n) =>
                 InTurn(n)' /\ (n # pending => n # pending')
<1>1. /\ m \in 1..lastSeq /\ m \in stream /\ UNCHANGED stream
      /\ delivered' \in 0..lastSeq /\ delivered <= delivered' /\ m <= delivered'
      /\ pending' = m
      /\ \/ pending = m /\ delivered' = delivered
         \/ /\ pending = 0 /\ m > delivered /\ delivered' = m
            /\ \A n \in stream : n > delivered => m <= n
  <2>1. ServerTypes
    BY DEF TypeInv
  <2>2. /\ m \in 1..lastSeq /\ m \in stream /\ UNCHANGED stream
        /\ delivered' \in 0..lastSeq /\ delivered <= delivered' /\ m <= delivered'
        /\ pending' = m
    BY <2>1, DeliveryFacts
  <2>3. \/ pending = m /\ delivered' = delivered
        \/ /\ pending = 0 /\ m > delivered /\ delivered' = m
           /\ \A n \in stream : n > delivered => m <= n
    BY <2>1, DeliveryFacts, Zenon
  <2> QED
    BY <2>2, <2>3
<1>2. /\ lastSeq \in Nat /\ delivered \in Nat /\ pending \in Nat /\ stream \subseteq Nat
      /\ handled \subseteq Nat /\ m \in Nat /\ m # 0 /\ pending <= delivered
  BY <1>1, NumberFacts DEF TypeInv, Messages
<1>3. CASE pending = m /\ delivered' = delivered
  <2>1. StreamInv' /\ HandledInv'
    BY <1>1, <1>3 DEF TurnInv, StreamInv, HandledInv
  <2>2. ~pop => \A n \in stream : m <= n
    BY <1>2, <1>3 DEF TurnInv, StreamInv
  <2>3. InTurn(m)'
    BY <1>1, <1>2, <2>2 DEF InTurn
  <2>4. pop => Unhandled(m)
    <3>1. m = delivered
      BY <1>2, <1>3 DEF TurnInv, StreamInv
    <3> QED
      BY <1>3, <3>1 DEF TurnInv, HandledInv, Unhandled
  <2> QED
    BY <1>1, <1>3, <2>1, <2>3, <2>4 DEF InTurn
<1>4. CASE /\ pending = 0 /\ m > delivered /\ delivered' = m
           /\ \A n \in stream : n > delivered => m <= n
  <2>1. ~pop => \A n \in stream : n > delivered
    BY <1>2, <1>4, NumberFacts DEF TurnInv, StreamInv, TypeInv
  <2>2. StreamInv'
    BY <1>1, <1>2, <1>4, <2>1 DEF StreamInv
  <2>3. HandledInv'
    BY <1>1, <1>2, <1>4 DEF TurnInv, HandledInv
  <2>4. InTurn(m)'
    BY <1>1, <1>2, <1>4, <2>1 DEF InTurn
  <2>5. pop => Unhandled(m)
    BY <1>2, <1>4 DEF TurnInv, HandledInv, Unhandled
  <2>6. \A n \in Messages : InTurn(n) => InTurn(n)' /\ n # pending'
    BY <1>1, <1>2, <1>4 DEF InTurn, Messages
  <2> QED
    BY <2>2, <2>3, <2>4, <2>5, <2>6
<1> QED
  BY <1>1, <1>3, <1>4

\* A subscription that does not exist has no message to deliver.
LEMMA DeliveredExists ==
    ASSUME TypeInv, NEW m \in stream PROVE exists
  BY NumberFacts DEF TypeInv, ServerTypes

LEMMA FetchTurn ==
    ASSUME TypeInv, TurnInv, NEW r \in Requests, NEW m \in stream, Fetch(r, m)
    PROVE  TurnInv'
<1>1. /\ Delivery(r, m) /\ exists /\ request[r].pc \in {"prefill", "main"}
      /\ UNCHANGED <<exists, epoch, pop, handled, lostPops, cpc, asked, message, ofEpoch>>
  BY DeliveredExists DEF Fetch, Delivery
<1>2. /\ StreamInv' /\ HandledInv'
      /\ InTurn(m)' /\ (pop => Unhandled(m))
      /\ \A n \in Messages : InTurn(n) => InTurn(n)' /\ (n # pending => n # pending')
  BY <1>1, DeliveryTurn
<1>3. m \in 0..MaxMessages /\ epoch \in 1..MaxEpochs /\ epoch \in Nat
  BY NumberFacts, BoundFacts DEF TypeInv, ServerTypes
<1>4. request' = [request EXCEPT ![r] =
                    [pc |-> IF pop THEN "pop" ELSE "reply", msg |-> m, epoch |-> epoch]]
  <2>1. [Reply(m) EXCEPT !.pc = IF pop THEN "pop" ELSE "reply"]
          = [pc |-> IF pop THEN "pop" ELSE "reply", msg |-> m, epoch |-> epoch]
    BY DEF Reply
  <2> QED
    BY <2>1 DEF Fetch
<1>5. /\ request'[r].pc = (IF pop THEN "pop" ELSE "reply") /\ request'[r].msg = m
      /\ \A q \in Requests \ {r} : request'[q] = request[q]
  BY <1>4 DEF TypeInv, ApiTypes
<1>6. RequestInv'
  <2> SUFFICES ASSUME NEW q \in Requests
               PROVE  /\ request'[q].pc = "pop" => pop
                      /\ \A n \in Messages : Holds(q, n)' =>
                           /\ InTurn(n)'
                           /\ pop /\ request'[q].pc = "reply" => n # pending' \/ n \in lostPops
                           /\ pop /\ asked = q => Unhandled(n)
    BY <1>1 DEF RequestInv, Unhandled
  <2>1. CASE q = r
    BY <1>2, <1>5, <2>1 DEF Holds
  <2>2. CASE q # r
    <3>1. request'[q] = request[q] /\ \A n \in Messages : Holds(q, n)' => Holds(q, n)
      BY <1>1, <1>5, <2>2 DEF Holds
    <3> QED
      BY <1>2, <3>1 DEF TurnInv, RequestInv
  <2> QED
    BY <2>1, <2>2
<1>7. ClientInv'
  BY <1>1, <1>2 DEF TurnInv, ClientInv, WorksOn, OfThisStream, Unhandled
<1> QED
  BY <1>2, <1>6, <1>7 DEF TurnInv

LEMMA MissDeliveryTurn ==
    ASSUME TypeInv, TurnInv, NEW r \in Requests, NEW m \in stream, MissDelivery(r, m)
    PROVE  TurnInv'
<1>1. /\ Delivery(r, m) /\ exists
      /\ UNCHANGED <<exists, epoch, pop, handled, lostPops, cpc, asked, message, ofEpoch>>
  BY DeliveredExists DEF MissDelivery
<1>2. /\ StreamInv' /\ HandledInv'
      /\ \A n \in Messages : InTurn(n) => InTurn(n)' /\ (n # pending => n # pending')
  BY <1>1, DeliveryTurn
<1>3. /\ request'[r].msg = 0 /\ request'[r].pc = "reply"
      /\ \A q \in Requests \ {r} : request'[q] = request[q]
  BY DEF MissDelivery, NoMessage, TypeInv, ApiTypes, Reply
<1>4. \A q \in Requests, n \in Messages : Holds(q, n)' => q # r /\ Holds(q, n)
  BY <1>1, <1>3 DEF Holds
<1>5. RequestInv'
  BY <1>1, <1>2, <1>3, <1>4 DEF TurnInv, RequestInv, Unhandled
<1>6. ClientInv'
  BY <1>1, <1>2 DEF TurnInv, ClientInv, WorksOn, OfThisStream, Unhandled
<1> QED
  BY <1>2, <1>5, <1>6 DEF TurnInv

LEMMA GetHandlerTurn ==
    ASSUME TypeInv, TurnInv, NEW r \in Requests, GetHandler(r)
    PROVE  TurnInv'
<1>0. ApiTypes /\ epoch \in 1..MaxEpochs
  BY DEF TypeInv, ServerTypes
<1>1. CASE StartGet(r) \/ PassGate(r)
  <2>1. UNCHANGED <<stream, delivered, pending, subVars, handled, clientVars>>
    BY <1>1 DEF StartGet, PassGate
  <2>2. PICK pc \in {"main", "gate", "prefill"} : Goto(r, pc)
    BY <1>1 DEF StartGet, PassGate
  <2>3. request'[r].pc = pc /\ \A q \in Requests \ {r} : request'[q] = request[q]
    <3>1. pc \in PCs /\ UNCHANGED epoch
      BY <2>1 DEF PCs
    <3>2. request'[r] = [pc |-> pc, msg |-> request[r].msg, epoch |-> request[r].epoch]
      BY <1>0, <2>2, <3>1, GotoFacts
    <3> QED
      BY <1>0, <2>2, <3>1, <3>2, GotoFacts
  <2> QED
    BY <2>1, <2>2, <2>3, EmptyHandedTurn DEF WorksOn, OfThisStream
<1>6. CASE GateRaises(r)
  <2>1. UNCHANGED <<stream, delivered, pending, subVars, handled, clientVars>>
        /\ Goto(r, "error") /\ "error" \in PCs
    BY <1>6 DEF GateRaises, PCs
  <2>2. /\ request'[r] = [pc |-> "error", msg |-> request[r].msg, epoch |-> request[r].epoch]
        /\ \A q \in Requests \ {r} : request'[q] = request[q]
    BY <1>0, <2>1, GotoFacts
  <2> QED
    BY <2>1, <2>2, EmptyHandedTurn DEF WorksOn, OfThisStream
<1>2. CASE FailGate(r) \/ FetchNothing(r)
  <2>1. UNCHANGED <<stream, delivered, pending, subVars, handled, clientVars>>
    BY <1>2 DEF FailGate, FetchNothing
  <2>2. /\ request'[r].pc = "reply" /\ request'[r].msg = 0
        /\ \A q \in Requests \ {r} : request'[q] = request[q]
    BY <1>0, <1>2 DEF FailGate, FetchNothing, NoMessage, Reply, ApiTypes
  <2> QED
    BY <2>1, <2>2, EmptyHandedTurn DEF WorksOn, OfThisStream
<1>3. ASSUME NEW m \in stream, Fetch(r, m) PROVE TurnInv'
  BY <1>3, FetchTurn
<1>4. CASE Pop(r)
  <2>1. /\ UNCHANGED <<stream, delivered, subVars, handled, clientVars>>
        /\ pending' = IF pending = request[r].msg THEN 0 ELSE pending
        /\ request[r].pc = "pop" /\ pop
    BY <1>4 DEF Pop, TurnInv, RequestInv
  <2>2. /\ request'[r] = [pc |-> "reply", msg |-> request[r].msg, epoch |-> request[r].epoch]
        /\ \A q \in Requests \ {r} : request'[q] = request[q]
    BY <1>0, <1>4, <2>1, GotoFacts DEF Pop, PCs
  <2>3. \A q \in Requests, m \in Messages : Holds(q, m)' =>
          /\ Holds(q, m)
          /\ request'[q].pc = "reply" => request[q].pc = "reply" \/ pending' # m
    <3> SUFFICES ASSUME NEW q \in Requests, NEW m \in Messages, Holds(q, m)'
                 PROVE  /\ Holds(q, m)
                        /\ request'[q].pc = "reply" => request[q].pc = "reply" \/ pending' # m
      OBVIOUS
    <3>1. CASE q = r
      BY <2>1, <2>2, <3>1 DEF Holds
    <3>2. CASE q # r
      BY <2>1, <2>2, <3>2 DEF Holds
    <3> QED
      BY <3>1, <3>2
  <2>4. StreamInv' /\ \A q \in Requests : request'[q].pc = "pop" => pop
    BY <2>1 DEF TurnInv, StreamInv
  <2> QED
    BY <2>1, <2>3, <2>4, TurnStays DEF WorksOn, OfThisStream
<1>5. CASE DropReply(r)
  <2>1. UNCHANGED <<stream, delivered, pending, subVars, handled, clientVars>>
    BY <1>5 DEF DropReply
  <2>2. request'[r].pc = "free" /\ \A q \in Requests \ {r} : request'[q] = request[q]
    BY <1>0, <1>5 DEF DropReply, Free, ApiTypes
  <2> QED
    BY <2>1, <2>2, EmptyHandedTurn DEF WorksOn, OfThisStream
<1> QED
  BY <1>1, <1>2, <1>3, <1>4, <1>5, <1>6 DEF GetHandler

\* The message whose acknowledgement gets lost stays pending, and is known as such.
LEMMA LosePopAckTurn ==
    ASSUME TypeInv, TurnInv, NEW r \in Requests, LosePopAck(r)
    PROVE  TurnInv'
<1>1. /\ UNCHANGED <<stream, delivered, pending, exists, epoch, handled, pop, asked, cpc, message,
                      ofEpoch>>
      /\ request[r].pc = "pop" /\ Goto(r, "reply") /\ "reply" \in PCs /\ pop
      /\ lostPops \subseteq lostPops'
      /\ exists /\ request[r].epoch = epoch => request[r].msg \in lostPops'
  BY DEF LosePopAck, PCs, TurnInv, RequestInv
<1>2. /\ request'[r] = [pc |-> "reply", msg |-> request[r].msg, epoch |-> request[r].epoch]
      /\ \A q \in Requests \ {r} : request'[q] = request[q]
  BY <1>1, GotoFacts DEF TypeInv
<1>3. \A q \in Requests, m \in Messages : Holds(q, m)' =>
        /\ Holds(q, m)
        /\ request'[q].pc = "reply" => request[q].pc = "reply" \/ m \in lostPops'
  <2> SUFFICES ASSUME NEW q \in Requests, NEW m \in Messages, Holds(q, m)'
               PROVE  /\ Holds(q, m)
                      /\ request'[q].pc = "reply" => request[q].pc = "reply" \/ m \in lostPops'
    OBVIOUS
  <2>1. CASE q = r
    BY <1>1, <1>2, <2>1 DEF Holds
  <2>2. CASE q # r
    BY <1>1, <1>2, <2>2 DEF Holds
  <2> QED
    BY <2>1, <2>2
<1>4. StreamInv' /\ \A q \in Requests : request'[q].pc = "pop" => pop
  BY <1>1 DEF TurnInv, StreamInv
<1> QED
  BY <1>1, <1>3, <1>4, TurnStays DEF WorksOn, OfThisStream

LEMMA AcknowledgeTurn ==
    ASSUME TypeInv, TurnInv, NEW a \in acks, AcknowledgeMessage(a)
    PROVE  TurnInv'
<1>1. /\ UNCHANGED <<delivered, subVars, request, asked, pop, handled>>
      /\ stream' = stream \ {a.msg} /\ pending' = IF pending = a.msg THEN 0 ELSE pending
  BY DEF AcknowledgeMessage, DeleteMessage
<1>2. \A m \in Messages : WorksOn(m)' => WorksOn(m)
  BY <1>1 DEF AcknowledgeMessage, NextMessage, RetryAck, WorksOn, OfThisStream
<1>3. StreamInv'
  BY <1>1 DEF TurnInv, StreamInv
<1>4. \A r \in Requests, m \in Messages : Holds(r, m)' => Holds(r, m)
  BY <1>1 DEF Holds
<1>5. \A r \in Requests : request'[r].pc = "pop" => pop
  BY <1>1 DEF TurnInv, RequestInv
<1> QED
  BY <1>1, <1>2, <1>3, <1>4, <1>5, TurnStays

LEMMA ClientTurn == TypeInv /\ TurnInv /\ Client => TurnInv'
<1> SUFFICES ASSUME TypeInv, TurnInv, Client PROVE TurnInv'
  OBVIOUS
<1>1. ASSUME NEW r \in Requests, SendGet(r) PROVE TurnInv'
  <2>1. /\ UNCHANGED <<stream, delivered, pending, subVars, pop, handled>>
        /\ cpc' = "waiting" /\ asked' = r
    BY <1>1 DEF SendGet
  <2>2. request'[r].pc = "start" /\ \A q \in Requests \ {r} : request'[q] = request[q]
    BY <1>1 DEF SendGet, Free, TypeInv, ApiTypes
  <2> QED
    BY <2>1, <2>2, EmptyHandedTurn DEF WorksOn
<1>2. CASE ReceiveReply
  <2> DEFINE r == asked
             m == request[r].msg
  <2>1. /\ UNCHANGED <<stream, delivered, pending, subVars, pop, handled>>
        /\ cpc' = (IF m = 0 THEN "idle" ELSE "handling") /\ message' = m /\ asked' = Nobody
        /\ ofEpoch' = (IF m = 0 THEN 1 ELSE request[r].epoch)
        /\ request[r].pc = "reply" /\ cpc = "waiting"
    BY <1>2 DEF ReceiveReply
  <2>2. r \in Requests
    BY <2>1 DEF TypeInv, ClientTypes
  <2>3. m \in 0..MaxMessages /\ (m # 0 => m \in Messages)
    BY <2>2, RequestFacts DEF TypeInv, Messages
  <2>4. request'[r].pc = "free" /\ \A q \in Requests \ {r} : request'[q] = request[q]
    BY <1>2, <2>2 DEF ReceiveReply, Free, TypeInv, ApiTypes
  <2>5. RequestInv' /\ StreamInv' /\ HandledInv'
    <3>1. \A q \in Requests, n \in Messages : Holds(q, n)' =>
            Holds(q, n) /\ q # r /\ request'[q] = request[q] /\ asked' # q
      BY <2>1, <2>2, <2>4, RequestsAssumption DEF Holds
    <3>2. \A q \in Requests : request'[q].pc = "pop" => pop
      BY <2>4 DEF TurnInv, RequestInv
    <3>3. \A n \in Messages : (InTurn(n) => InTurn(n)') /\ (Unhandled(n) => Unhandled(n)')
      BY <2>1 DEF InTurn, Unhandled
    <3>4. RequestInv'
      BY <2>1, <3>1, <3>2, <3>3 DEF TurnInv, RequestInv
    <3> QED
      BY <2>1, <3>4 DEF TurnInv, StreamInv, HandledInv
  <2>6. ClientInv'
    <3> SUFFICES ASSUME NEW n \in Messages, WorksOn(n)'
                 PROVE  InTurn(n)' /\ (pop => Unhandled(n) /\ (n # pending \/ n \in lostPops))
      BY <2>1 DEF ClientInv, Unhandled
    <3>1. n = m /\ n # 0 /\ exists /\ request[r].epoch = epoch
      BY <2>1 DEF WorksOn, OfThisStream, Messages
    <3>2. Holds(r, n)
      BY <2>1, <3>1 DEF Holds
    <3>3. InTurn(n) /\ (pop => Unhandled(n) /\ (n # pending \/ n \in lostPops))
      BY <2>1, <2>2, <3>2 DEF TurnInv, RequestInv
    <3> QED
      BY <2>1, <3>3 DEF InTurn
  <2> QED
    BY <2>5, <2>6 DEF TurnInv
<1>3. CASE RunCallbacks
  <2>1. /\ UNCHANGED <<stream, delivered, pending, subVars, pop, request, asked>>
        /\ cpc = "handling" /\ cpc' # "handling" /\ asked = Nobody
        /\ handled' = IF OfThisStream THEN handled \cup {message} ELSE handled
    BY <1>3 DEF RunCallbacks, NextMessage, TypeInv, ClientTypes
  <2>2. ClientInv' /\ StreamInv'
    BY <2>1 DEF ClientInv, WorksOn, TurnInv, StreamInv
  <2>3. \A n \in Messages : InTurn(n) => InTurn(n)'
    BY <2>1 DEF InTurn
  <2>4. RequestInv'
    BY <2>1, <2>3, RequestsAssumption DEF TurnInv, RequestInv, Holds
  <2>5. message \in Messages
    BY <2>1 DEF TypeInv, ClientTypes, Messages
  <2>6. pop /\ OfThisStream =>
          message <= delivered /\ (message # pending \/ message \in lostPops)
    BY <2>1, <2>5 DEF TurnInv, ClientInv, WorksOn, InTurn
  <2>7. HandledInv'
    BY <2>1, <2>6 DEF TurnInv, HandledInv
  <2> QED
    BY <2>2, <2>4, <2>7 DEF TurnInv
<1>4. CASE SendAck
  <2>1. UNCHANGED <<stream, delivered, pending, subVars, pop, request, asked, handled>>
        /\ cpc' = "acked?"
    BY <1>4 DEF SendAck
  <2> QED
    BY <2>1 DEF TurnInv, StreamInv, RequestInv, ClientInv, HandledInv, Holds, WorksOn, InTurn,
                Unhandled
<1>5. CASE ReceiveError
  <2>1. /\ UNCHANGED <<stream, delivered, pending, subVars, pop, handled>>
        /\ cpc' = "idle" /\ asked' = Nobody /\ cpc = "waiting"
    BY <1>5 DEF ReceiveError, NextMessage
  <2>2. asked \in Requests
    BY <2>1 DEF TypeInv, ClientTypes
  <2>3. request'[asked].pc = "free" /\ \A q \in Requests \ {asked} : request'[q] = request[q]
    BY <1>5, <2>2 DEF ReceiveError, Free, TypeInv, ApiTypes
  <2> QED
    BY <2>1, <2>2, <2>3, EmptyHandedTurn DEF WorksOn
<1> QED
  BY <1>1, <1>2, <1>3, <1>4, <1>5 DEF Client

LEMMA FaultTurn ==
    TypeInv /\ TurnInv /\ (LoseAckResponse \/ CrashClient \/ RestartApi) => TurnInv'
<1> SUFFICES ASSUME TypeInv, TurnInv, LoseAckResponse \/ CrashClient \/ RestartApi
             PROVE  TurnInv'
  OBVIOUS
<1>1. /\ UNCHANGED <<stream, delivered, pending, subVars, pop, handled>>
      /\ \A m \in Messages : WorksOn(m)' => WorksOn(m)
  BY DEF LoseAckResponse, CrashClient, RestartApi, NextMessage, RetryAck, WorksOn, OfThisStream
<1>2. asked' \in {asked, Nobody}
  BY DEF LoseAckResponse, CrashClient, RestartApi
<1>3. request' = request \/ \A r \in Requests : request'[r].pc = "free"
  BY DEF LoseAckResponse, CrashClient, RestartApi, Free
<1>4. \A r \in Requests, m \in Messages : Holds(r, m)' =>
        Holds(r, m) /\ request'[r].pc = request[r].pc /\ (asked' = r => asked = r)
  BY <1>1, <1>2, <1>3, RequestsAssumption DEF Holds
<1>5. \A r \in Requests : request'[r].pc = "pop" => pop
  BY <1>3 DEF TurnInv, RequestInv
<1>6. StreamInv'
  BY <1>1 DEF TurnInv, StreamInv
<1> QED
  BY <1>1, <1>4, <1>5, <1>6, TurnStays

LEMMA NextTurn == TypeInv /\ TurnInv /\ [Next]_vars => TurnInv'
<1> SUFFICES ASSUME TypeInv, TurnInv, [Next]_vars PROVE TurnInv'
  OBVIOUS
<1>1. CASE UNCHANGED vars
  BY <1>1 DEF TurnInv, StreamInv, RequestInv, ClientInv, HandledInv, Holds, WorksOn, OfThisStream,
              InTurn, Unhandled
<1> QED
  BY <1>1, SystemTurn, GetHandlerTurn, AcknowledgeTurn, ClientTurn, FaultTurn, LosePopAckTurn,
     MissDeliveryTurn
     DEF Next

LEMMA AlwaysTurn == Spec => []TurnInv
  BY InitTurn, NextTurn, AlwaysType, PTL DEF Spec

LEMMA Working ==
    ASSUME TypeInv, cpc = "handling", OfThisStream
    PROVE  message \in Messages /\ WorksOn(message)
  BY DEF TypeInv, ClientTypes, Messages, WorksOn

\* "Until a message is acknowledged, the Provisioning API will redeliver the current
\* message": whatever is abandoned, times out, is repeated or restarted, the consumer
\* gets a message only when all before it are deleted or popped.
THEOREM DeliveredInTurn == Spec => []OneAfterTheOther
<1>1. TypeInv /\ TurnInv => OneAfterTheOther
  <2> SUFFICES ASSUME TypeInv, TurnInv, cpc = "handling", OfThisStream,
                      NEW m \in stream, m < message
               PROVE  pop /\ m # pending
    BY DEF OneAfterTheOther
  <2>1. InTurn(message) /\ message \in Nat /\ m \in Nat /\ m # 0
    BY Working, NumberFacts DEF TypeInv, TurnInv, ClientInv, Messages
  <2> QED
    BY <2>1 DEF InTurn
<1> QED
  BY <1>1, AlwaysType, AlwaysTurn, PTL

\* However many handlers have fetched it, a popped message goes through the callbacks
\* again only when an acknowledgement of it got lost, and before any later one.
THEOREM PoppedOnce == Spec => []PoppedOnceUnlessAckLost
<1>1. TypeInv /\ TurnInv => PoppedOnceUnlessAckLost
  BY Working DEF TurnInv, ClientInv, Unhandled, PoppedOnceUnlessAckLost
<1> QED
  BY <1>1, AlwaysType, AlwaysTurn, PTL

-----------------------------------------------------------------------------
(* In the first registration: nothing is deleted that was not handled *)

LEMMA InitAck == Init => AckInv
  BY DEF Init, AckInv, HandledBeforeDeleted

\* Everything but the callbacks and the deletion only adds to the stream, and to what
\* was handled, or ends the subscription.
LEMMA AckStays ==
    ASSUME TypeInv, AckInv,
           \/ ~exists' \/ epoch' # 1
           \/ /\ UNCHANGED <<exists, epoch>>
              /\ stream \subseteq stream' /\ handled \subseteq handled'
              /\ \A m \in 1..lastSeq' : m \in 1..lastSeq \/ m \in stream'
              /\ prefilled \subseteq prefilled' /\ UNCHANGED purgedTo
              /\ acks' \subseteq acks
              /\ cpc' \in {"acking", "acked?"} =>
                    cpc \in {"acking", "acked?"} /\ message' = message
    PROVE  AckInv'
  BY DEF AckInv, HandledBeforeDeleted

LEMMA NextAck == TypeInv /\ AckInv /\ [Next]_vars => AckInv'
<1> SUFFICES ASSUME TypeInv, AckInv, [Next]_vars PROVE AckInv'
  OBVIOUS
<1>1. CASE Publish
  <2>1. lastSeq \in Nat
    BY NumberFacts DEF TypeInv
  <2>2. \A m \in 1..lastSeq' : m \in 1..lastSeq \/ m \in stream'
    BY <1>1, <2>1 DEF Publish
  <2> QED
    BY <1>1, <2>2, AckStays DEF Publish
<1>2. CASE DeleteSubscription \/ RegisterSubscription
  <2>1. epoch \in 1..MaxEpochs
    BY DEF TypeInv, ServerTypes
  <2>2. ~exists' \/ epoch' # 1
    BY <1>2, <2>1, BoundFacts DEF DeleteSubscription, RegisterSubscription
  <2> QED
    BY <2>2, AckStays
<1>3. CASE \/ ExpireAckWait \/ RunPrefill \/ EndPrefill \/ FailPrefill \/ ParkPrefill
           \/ LoseAckResponse \/ CrashClient \/ RestartApi \/ UNCHANGED vars
  <2>1. UNCHANGED <<exists, epoch, stream, lastSeq, handled, prefilled, purgedTo>>
        /\ acks' \subseteq acks
    BY <1>3 DEF ExpireAckWait, RunPrefill, EndPrefill, FailPrefill, ParkPrefill, LoseAckResponse,
                CrashClient, RestartApi
  <2>2. cpc' \in {"acking", "acked?"} => cpc \in {"acking", "acked?"} /\ message' = message
    BY <1>3 DEF ExpireAckWait, RunPrefill, EndPrefill, FailPrefill, ParkPrefill, LoseAckResponse,
                CrashClient, RestartApi, NextMessage, RetryAck
  <2> QED
    BY <2>1, <2>2, AckStays
<1>4. ASSUME NEW r \in Requests, GetHandler(r) PROVE AckInv'
  <2>1. UNCHANGED <<exists, epoch, stream, lastSeq, handled, acks, cpc, message, prefilled, purgedTo>>
    BY <1>4 DEF GetHandler, StartGet, PassGate, FailGate, GateRaises, Fetch, Delivery, Pop,
                FetchNothing, DropReply
  <2> QED
    BY <2>1, AckStays
<1>5. ASSUME NEW r \in Requests, NEW m \in stream, MissDelivery(r, m) PROVE AckInv'
  BY <1>5, AckStays DEF MissDelivery, Delivery
<1>6. ASSUME NEW a \in acks, AcknowledgeMessage(a) PROVE AckInv'
  <2>1. /\ UNCHANGED <<exists, epoch, lastSeq, handled, prefilled, purgedTo>>
        /\ stream' = stream \ {a.msg} /\ acks' = acks \ {a}
    BY <1>6 DEF AcknowledgeMessage, DeleteMessage
  <2>2. cpc' \in {"acking", "acked?"} => cpc \in {"acking", "acked?"} /\ message' = message
    BY <1>6 DEF AcknowledgeMessage, NextMessage, RetryAck
  <2> QED
    BY <2>1, <2>2 DEF AckInv, HandledBeforeDeleted
<1>7. CASE Client
  <2>1. ASSUME NEW r \in Requests, SendGet(r) PROVE AckInv'
    BY <2>1, AckStays DEF SendGet
  <2>2. CASE ReceiveReply
    BY <2>2, AckStays DEF ReceiveReply
  <2>3. CASE RunCallbacks
    <3>1. epoch = 1 => ofEpoch = epoch
      BY BoundFacts DEF TypeInv, ClientTypes
    <3>2. /\ UNCHANGED <<exists, epoch, stream, lastSeq, acks, prefilled, purgedTo>>
          /\ handled' = IF exists /\ ofEpoch = epoch THEN handled \cup {message} ELSE handled
          /\ cpc' \in {"acking", "acked?"} => message' = message
      BY <2>3 DEF RunCallbacks, NextMessage, OfThisStream
    <3> QED
      BY <3>1, <3>2 DEF AckInv, HandledBeforeDeleted
  <2>4. CASE SendAck
    <3>1. /\ UNCHANGED <<exists, epoch, stream, lastSeq, handled, message, prefilled, purgedTo>>
          /\ cpc = "acking"
          /\ acks' = acks \cup {[msg |-> message, attempt |-> attempt]}
      BY <2>4 DEF SendAck
    <3> QED
      BY <3>1 DEF AckInv, HandledBeforeDeleted
  <2>5. CASE ReceiveError
    BY <2>5, AckStays DEF ReceiveError, NextMessage
  <2> QED
    BY <1>7, <2>1, <2>2, <2>3, <2>4, <2>5 DEF Client
<1>8. CASE BeginPrefill
  <2>1. /\ UNCHANGED <<exists, epoch, lastSeq, handled, acks, cpc, message, prefilled>>
        /\ stream' = stream \ prefilled /\ purgedTo' = lastSeq
    BY <1>8 DEF BeginPrefill, PurgePrefillSubject
  <2>2. \A m \in 1..lastSeq : m <= lastSeq
    BY NumberFacts DEF TypeInv
  <2>3. HandledBeforeDeleted => HandledBeforeDeleted'
    BY <2>1, <2>2 DEF HandledBeforeDeleted
  <2> QED
    BY <2>1, <2>3 DEF AckInv
<1>9. ASSUME NEW r \in Requests, LosePopAck(r) PROVE AckInv'
  BY <1>9, AckStays DEF LosePopAck
<1> QED
  BY <1>1, <1>2, <1>3, <1>4, <1>5, <1>6, <1>7, <1>8, <1>9 DEF Next, PrefillWorker

\* "A subscriber must acknowledge the successful processing of a message": in the first
\* registration of a subscription no message is deleted before it went through the
\* callbacks, but for those of a prefill attempt that a later one replaces.
THEOREM NothingDeletedUnhandled == Spec => []HandledBeforeDeletedAtFirst
<1>1. TypeInv /\ AckInv => HandledBeforeDeletedAtFirst
  <2>1. CASE ~exists
    BY <2>1 DEF TypeInv, ServerTypes, HandledBeforeDeletedAtFirst, HandledBeforeDeleted
  <2>2. CASE exists
    BY <2>2 DEF AckInv, HandledBeforeDeletedAtFirst
  <2> QED
    BY <2>1, <2>2
<1> QED
  BY <1>1, InitAck, NextAck, AlwaysType, PTL DEF Spec

-----------------------------------------------------------------------------
(* In the first registration: nothing is delivered before the prefill is done *)

LEMMA InitGate == Init => GateInv
<1> SUFFICES ASSUME Init PROVE GateInv
  OBVIOUS
<1>1. status = "done" => wasDone
  BY DEF Init
<1>2. \A r \in Requests : request[r].pc = "free"
  BY DEF Init, Free
<1>3. ~prefillDone /\ delivered = 0
  BY DEF Init
<1> QED
  BY <1>1, <1>2, <1>3 DEF GateInv, NothingBeforeDone

\* Nobody gets past the gate.
LEMMA GateStays ==
    ASSUME TypeInv, GateInv, UNCHANGED <<status, wasDone, epoch>>,
           delivered' > 0 => delivered > 0 \/ wasDone,
           prefillDone' => prefillDone \/ (epoch = 1 => wasDone),
           \A r \in Requests : request'[r].pc \in {"prefill", "main"} =>
              request[r].pc \in {"prefill", "main"} \/ (epoch = 1 => wasDone)
    PROVE  GateInv'
  BY DEF GateInv, NothingBeforeDone

LEMMA GetHandlerGate ==
    ASSUME TypeInv, GateInv, NEW r \in Requests, GetHandler(r)
    PROVE  GateInv'
<1>0. ApiTypes /\ UNCHANGED <<status, wasDone, epoch>>
  BY DEF TypeInv, GetHandler, StartGet, PassGate, FailGate, GateRaises, Fetch, Pop, FetchNothing,
         DropReply
<1>1. CASE StartGet(r)
  BY <1>0, <1>1, GateStays DEF StartGet, Goto, ApiTypes, GateInv, PCs
<1>2. CASE PassGate(r)
  BY <1>0, <1>2, GateStays DEF PassGate, Goto, ApiTypes, GateInv
<1>3. CASE FailGate(r)
  BY <1>0, <1>3, GateStays DEF FailGate, Reply, ApiTypes
<1>8. CASE GateRaises(r)
  BY <1>0, <1>8, GateStays DEF GateRaises, Goto, ApiTypes
<1>4. ASSUME NEW m \in stream, Fetch(r, m) PROVE GateInv'
  BY <1>0, <1>4 DEF Fetch, Delivery, Reply, ApiTypes, GateInv, NothingBeforeDone
<1>5. CASE Pop(r)
  BY <1>0, <1>5, GateStays DEF Pop, Goto, ApiTypes
<1>6. CASE FetchNothing(r)
  BY <1>0, <1>6, GateStays DEF FetchNothing, NoMessage, Reply, ApiTypes, GateInv
<1>7. CASE DropReply(r)
  BY <1>0, <1>7, GateStays DEF DropReply, Free, ApiTypes
<1> QED
  BY <1>1, <1>2, <1>3, <1>4, <1>5, <1>6, <1>7, <1>8 DEF GetHandler

LEMMA NextGate == TypeInv /\ GateInv /\ [Next]_vars => GateInv'
<1> SUFFICES ASSUME TypeInv, GateInv, [Next]_vars PROVE GateInv'
  OBVIOUS
<1>1. CASE Publish \/ ExpireAckWait \/ Client \/ LoseAckResponse \/ CrashClient
           \/ UNCHANGED vars
  <2>1. UNCHANGED <<status, wasDone, epoch, delivered, prefillDone>>
    BY <1>1 DEF Publish, ExpireAckWait, Client, SendGet, ReceiveReply, ReceiveError, RunCallbacks,
                SendAck, LoseAckResponse, CrashClient
  <2>2. \A r \in Requests : request'[r].pc \in {"prefill", "main"} =>
          request[r].pc \in {"prefill", "main"}
    BY <1>1 DEF Publish, ExpireAckWait, Client, SendGet, ReceiveReply, ReceiveError, RunCallbacks,
                SendAck, LoseAckResponse, CrashClient, Free, TypeInv, ApiTypes
  <2> QED
    BY <2>1, <2>2, GateStays
<1>2. CASE PrefillWorker \/ FailPrefill \/ ParkPrefill
  <2>1. /\ UNCHANGED <<epoch, delivered, prefillDone, request>>
        /\ wasDone => wasDone'
        /\ status' = "done" => wasDone' \/ status = "done"
    BY <1>2 DEF PrefillWorker, BeginPrefill, RunPrefill, EndPrefill, FailPrefill, ParkPrefill
  <2> QED
    BY <2>1 DEF GateInv, NothingBeforeDone
<1>9. ASSUME NEW r \in Requests, LosePopAck(r) PROVE GateInv'
  BY <1>9, GateStays DEF LosePopAck, Goto, TypeInv, ApiTypes
<1>3. CASE DeleteSubscription
  BY <1>3 DEF DeleteSubscription, GateInv, NothingBeforeDone
<1>4. CASE RegisterSubscription
  <2>1. epoch' # 1
    BY <1>4, BoundFacts DEF RegisterSubscription, TypeInv, ServerTypes
  <2> QED
    BY <1>4, <2>1 DEF RegisterSubscription, GateInv
<1>5. ASSUME NEW r \in Requests, GetHandler(r) PROVE GateInv'
  BY <1>5, GetHandlerGate
<1>6. ASSUME NEW a \in acks, AcknowledgeMessage(a) PROVE GateInv'
  BY <1>6, GateStays DEF AcknowledgeMessage
<1>7. ASSUME NEW r \in Requests, NEW m \in stream, MissDelivery(r, m) PROVE GateInv'
  <2>1. /\ request[r].pc \in {"prefill", "main"} /\ UNCHANGED <<status, wasDone, epoch>>
        /\ prefillDone' = (prefillDone \/ request[r].pc = "prefill")
    BY <1>7 DEF MissDelivery, NoMessage, Delivery
  <2>2. request'[r].pc = "reply" /\ \A q \in Requests \ {r} : request'[q] = request[q]
    BY <1>7 DEF MissDelivery, NoMessage, Reply, TypeInv, ApiTypes
  <2> QED
    BY <2>1, <2>2 DEF GateInv, NothingBeforeDone
<1>8. CASE RestartApi
  BY <1>8, GateStays DEF RestartApi, Free
<1> QED
  BY <1>1, <1>2, <1>3, <1>4, <1>5, <1>6, <1>7, <1>8, <1>9 DEF Next

\* "Only once the queue status is `ok`, the subscriber will start to receive messages":
\* no restart of the API opens the gate of a first registration before its prefill is
\* done.
THEOREM GateHolds == Spec => []NothingBeforeDoneAtFirst
<1>1. GateInv => NothingBeforeDoneAtFirst
  BY DEF GateInv, NothingBeforeDoneAtFirst
<1> QED
  BY <1>1, InitGate, NextGate, AlwaysType, PTL DEF Spec
=============================================================================
