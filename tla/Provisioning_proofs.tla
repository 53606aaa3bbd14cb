------------------------- MODULE Provisioning_proofs -------------------------
(***************************************************************************)
(* Proofs about Provisioning, for any objects, handlers and bounds.  What  *)
(* is proved of Transformer, Dispatcher and Messages holds of the three    *)
(* instances, since every step is one of each of them or leaves it alone;  *)
(* here it is put together.                                                *)
(***************************************************************************)
EXTENDS Provisioning, FiniteSetTheorems, WellFoundedInduction, TLAPS

\* The instances of Provisioning, with the theorems about their modules.
TP == INSTANCE Transformer_proofs WITH
    Unsupported <- {}, handled <- transformed, faults <- transformerFaults

DP == INSTANCE Dispatcher_proofs WITH
    Subs <- {portal}, Topics <- {topic}, SubTopics <- {topic}, ApiFaults <- FALSE,
    MaxEvents <- MaxChanges + MaxFaults, MaxCalls <- 0,
    MaxCrashes <- MaxFaults, MaxExpiries <- MaxFaults,
    stream <- incoming, changes <- updates,
    exists <- subjects, calls <- 0

MP == INSTANCE Messages_proofs WITH
    MaxEpochs <- 1, stream <- waiting, handled <- received,
    epoch <- 1, status <- "done", ofEpoch <- 1, faults <- consumerFaults,
    queued <- 0, prefilled <- {}, purgedTo <- 0, lostPops <- {}

USE DEF transformerVars, dispatcherVars, messagesVars, vars

-----------------------------------------------------------------------------
(* The instances *)

LEMMA TransformerAssumptions == TP!ObjectsAssumption /\ TP!BoundsAssumption
  BY BoundsAssumption DEF TP!ObjectsAssumption, TP!BoundsAssumption

LEMMA DispatcherAssumptions == DP!TopicsAssumption /\ DP!FaultsAssumption /\ DP!BoundsAssumption
  BY BoundsAssumption DEF DP!TopicsAssumption, DP!FaultsAssumption, DP!BoundsAssumption

LEMMA MessagesAssumptions == MP!BoundsAssumption /\ MP!RequestsAssumption
<1>1. MaxMessages \in Nat
  BY BoundsAssumption DEF MaxMessages
<1> QED
  BY <1>1, BoundsAssumption, RequestsAssumption
     DEF MP!BoundsAssumption, MP!RequestsAssumption, MP!Nobody, M!Nobody

LEMMA TransformerNext == T!Next <=> TP!Next
  BY DEF T!Next, TP!Next, T!Listener, TP!Listener, T!Create, TP!Create, T!Modify, TP!Modify, T!Remove,
         TP!Remove, T!Publish, TP!Publish, T!Worker, TP!Worker, T!Start, TP!Start, T!TakeChange, TP!TakeChange,
         T!Retrieve, TP!Retrieve, T!Transform, TP!Transform, T!Store, TP!Store, T!SendEvent, TP!SendEvent,
         T!AckChange, TP!AckChange, T!LoseChange, TP!LoseChange, T!Fail, TP!Fail, T!LoseResponse,
         TP!LoseResponse, T!LoseAck, TP!LoseAck, T!Fault, TP!Fault, T!number, TP!number, T!change, TP!change,
         T!Cached, TP!Cached, T!ldapUnchanged, TP!ldapUnchanged, T!event, TP!event, T!SendOrAck, TP!SendOrAck,
         T!transformerVars, TP!transformerVars

LEMMA DispatcherNext == D!Next <=> DP!Next
<1>1. \A t : D!PublishEvent(t) <=> DP!PublishEvent(t)
  BY DEF D!PublishEvent, DP!PublishEvent, D!Owed, DP!Owed, D!KnownToDispatcher,
         DP!KnownToDispatcher, D!apiVars, DP!apiVars, D!handleVars, DP!handleVars, D!loadVars,
         DP!loadVars, D!watchVars, DP!watchVars
<1>2. \A e : D!Deliver(e) <=> DP!Deliver(e)
  BY DEF D!Deliver, DP!Deliver, D!IsOldest, DP!IsOldest, D!Push, DP!Push, D!apiVars, DP!apiVars,
         D!loadVars, DP!loadVars, D!watchVars, DP!watchVars
<1>3. D!Redeliver <=> DP!Redeliver
  BY DEF D!Redeliver, DP!Redeliver, D!Held, DP!Held, D!Push, DP!Push, D!apiVars, DP!apiVars,
         D!loadVars, DP!loadVars, D!watchVars, DP!watchVars
<1>4. D!ExpireAckWait <=> DP!ExpireAckWait
  BY DEF D!ExpireAckWait, DP!ExpireAckWait, D!Held, DP!Held, D!Push, DP!Push, D!apiVars,
         DP!apiVars, D!loadVars, DP!loadVars, D!watchVars, DP!watchVars
<1>5. D!Start <=> DP!Start
  BY DEF D!Start, DP!Start, D!handleVars, DP!handleVars, D!watchVars, DP!watchVars,
         D!processUnchanged, DP!processUnchanged, D!serverVars, DP!serverVars, D!apiVars,
         DP!apiVars
<1>6. D!Crash <=> DP!Crash
  BY DEF D!Crash, DP!Crash, D!GoDown, DP!GoDown, D!NoMapping, DP!NoMapping, D!serverVars,
         DP!serverVars, D!apiVars, DP!apiVars
<1>7. D!ReadKeys <=> DP!ReadKeys
  BY DEF D!ReadKeys, DP!ReadKeys, D!Listed, DP!Listed, D!NoMapping, DP!NoMapping, D!handleVars,
         DP!handleVars, D!watchVars, DP!watchVars, D!processUnchanged, DP!processUnchanged,
         D!serverVars, DP!serverVars, D!apiVars, DP!apiVars
<1>8. \A s : D!ReadEntry(s) <=> DP!ReadEntry(s)
  BY DEF D!ReadEntry, DP!ReadEntry, D!handleVars, DP!handleVars, D!watchVars, DP!watchVars,
         D!processUnchanged, DP!processUnchanged, D!serverVars, DP!serverVars, D!apiVars,
         DP!apiVars
<1>9. \A s : D!ReadEntryFails(s) <=> DP!ReadEntryFails(s)
  BY DEF D!ReadEntryFails, DP!ReadEntryFails, D!GoDown, DP!GoDown, D!NoMapping, DP!NoMapping,
         D!serverVars, DP!serverVars, D!apiVars, DP!apiVars
<1>10. D!ReplaceMapping <=> DP!ReplaceMapping
  BY DEF D!ReplaceMapping, DP!ReplaceMapping, D!NoMapping, DP!NoMapping, D!handleVars,
         DP!handleVars, D!watchVars, DP!watchVars, D!processUnchanged, DP!processUnchanged,
         D!serverVars, DP!serverVars, D!apiVars, DP!apiVars
<1>11. D!StartWatch <=> DP!StartWatch
  BY DEF D!StartWatch, DP!StartWatch, D!handleVars, DP!handleVars, D!loadVars, DP!loadVars,
         D!processUnchanged, DP!processUnchanged, D!serverVars, DP!serverVars, D!apiVars,
         DP!apiVars, D!Cardinality, DP!Cardinality
<1>12. D!TakeUpdate <=> DP!TakeUpdate
  BY DEF D!TakeUpdate, DP!TakeUpdate, D!handleVars, DP!handleVars, D!processUnchanged,
         DP!processUnchanged, D!serverVars, DP!serverVars, D!apiVars, DP!apiVars
<1>13. D!TakeEvent <=> DP!TakeEvent
  BY DEF D!TakeEvent, DP!TakeEvent, D!loadVars, DP!loadVars, D!watchVars, DP!watchVars,
         D!processUnchanged, DP!processUnchanged, D!serverVars, DP!serverVars, D!apiVars,
         DP!apiVars
<1>14. \A s : D!Send(s) <=> DP!Send(s)
  BY DEF D!Send, DP!Send, D!Repeated, DP!Repeated, D!serverVars, DP!serverVars, D!loadVars,
         DP!loadVars, D!watchVars, DP!watchVars
<1>15. \A s : D!SendFails(s) <=> DP!SendFails(s)
  BY DEF D!SendFails, DP!SendFails, D!GoDown, DP!GoDown, D!NoMapping, DP!NoMapping, D!serverVars,
         DP!serverVars, D!apiVars, DP!apiVars
<1>16. D!Acknowledge <=> DP!Acknowledge
  BY DEF D!Acknowledge, DP!Acknowledge, D!apiVars, DP!apiVars, D!loadVars, DP!loadVars,
         D!watchVars, DP!watchVars
<1>17. D!LoseAcknowledgement <=> DP!LoseAcknowledgement
  BY DEF D!LoseAcknowledgement, DP!LoseAcknowledgement, D!serverVars, DP!serverVars, D!apiVars,
         DP!apiVars, D!loadVars, DP!loadVars, D!watchVars, DP!watchVars
<1>18. \A s : D!BeginRegister(s) <=> DP!BeginRegister(s)
  BY DEF D!BeginRegister, DP!BeginRegister, D!Begin, DP!Begin, D!Idle, DP!Idle, D!NoCall,
         DP!NoCall, D!CallSteps, DP!CallSteps, D!bucketUnchanged, DP!bucketUnchanged,
         D!restUnchanged, DP!restUnchanged, D!serverVars, DP!serverVars, D!handleVars,
         DP!handleVars, D!loadVars, DP!loadVars
<1>19. \A s : D!BeginDelete(s) <=> DP!BeginDelete(s)
  BY DEF D!BeginDelete, DP!BeginDelete, D!Begin, DP!Begin, D!Idle, DP!Idle, D!NoCall, DP!NoCall,
         D!CallSteps, DP!CallSteps, D!bucketUnchanged, DP!bucketUnchanged, D!restUnchanged,
         DP!restUnchanged, D!serverVars, DP!serverVars, D!handleVars, DP!handleVars, D!loadVars,
         DP!loadVars
<1>20. \A s : D!BeginRewrite(s) <=> DP!BeginRewrite(s)
  BY DEF D!BeginRewrite, DP!BeginRewrite, D!Begin, DP!Begin, D!Idle, DP!Idle, D!NoCall, DP!NoCall,
         D!CallSteps, DP!CallSteps, D!bucketUnchanged, DP!bucketUnchanged, D!restUnchanged,
         DP!restUnchanged, D!serverVars, DP!serverVars, D!handleVars, DP!handleVars, D!loadVars,
         DP!loadVars
<1>21. \A s, ts : D!StoreSubscription(s, ts) <=> DP!StoreSubscription(s, ts)
  BY DEF D!StoreSubscription, DP!StoreSubscription, D!Proceed, DP!Proceed, D!WriteEntry,
         DP!WriteEntry, D!restUnchanged, DP!restUnchanged, D!serverVars, DP!serverVars,
         D!handleVars, DP!handleVars, D!loadVars, DP!loadVars
<1>22. \A s, ts : D!RewriteSubscription(s, ts) <=> DP!RewriteSubscription(s, ts)
  BY DEF D!RewriteSubscription, DP!RewriteSubscription, D!WriteEntry, DP!WriteEntry,
         D!restUnchanged, DP!restUnchanged, D!serverVars, DP!serverVars, D!handleVars,
         DP!handleVars, D!loadVars, DP!loadVars
<1>23. \A s : D!RemoveSubscription(s) <=> DP!RemoveSubscription(s)
  BY DEF D!RemoveSubscription, DP!RemoveSubscription, D!Proceed, DP!Proceed, D!WriteEntry,
         DP!WriteEntry, D!restUnchanged, DP!restUnchanged, D!serverVars, DP!serverVars,
         D!handleVars, DP!handleVars, D!loadVars, DP!loadVars
<1>24. \A s : D!EnsureQueue(s) <=> DP!EnsureQueue(s)
  BY DEF D!EnsureQueue, DP!EnsureQueue, D!Ends, DP!Ends, D!bucketUnchanged, DP!bucketUnchanged,
         D!restUnchanged, DP!restUnchanged, D!serverVars, DP!serverVars, D!handleVars,
         DP!handleVars, D!loadVars, DP!loadVars
<1>25. \A s : D!DropQueue(s) <=> DP!DropQueue(s)
  BY DEF D!DropQueue, DP!DropQueue, D!Ends, DP!Ends, D!restUnchanged, DP!restUnchanged,
         D!serverVars, DP!serverVars, D!handleVars, DP!handleVars, D!loadVars, DP!loadVars
<1> QED
  BY <1>1, <1>2, <1>3, <1>4, <1>5, <1>6, <1>7, <1>8, <1>9, <1>10, <1>11, <1>12, <1>13, <1>14,
     <1>15, <1>16, <1>17, <1>18, <1>19, <1>20, <1>21, <1>22, <1>23, <1>24, <1>25
     DEF D!Next, DP!Next, D!Server, DP!Server, D!LoadMapping, DP!LoadMapping, D!HandleEvent,
         DP!HandleEvent, D!Api, DP!Api, D!GoOn, DP!GoOn

LEMMA MessagesNext == M!Next <=> MP!Next
<1>1. M!Publish <=> MP!Publish
  BY DEF M!Publish, MP!Publish, M!consumerVars, MP!consumerVars, M!clientVars, MP!clientVars
<1>2. M!ExpireAckWait <=> MP!ExpireAckWait
  BY DEF M!ExpireAckWait, MP!ExpireAckWait, M!subVars, MP!subVars, M!prefillVars, MP!prefillVars,
         M!clientVars, MP!clientVars
<1>3. M!BeginPrefill <=> MP!BeginPrefill
  BY DEF M!BeginPrefill, MP!BeginPrefill, M!PurgePrefillSubject, MP!PurgePrefillSubject,
         M!lifeUnchanged, MP!lifeUnchanged, M!clientVars, MP!clientVars
<1>4. M!RunPrefill <=> MP!RunPrefill
  BY DEF M!RunPrefill, MP!RunPrefill, M!streamUnchanged, MP!streamUnchanged, M!consumerVars,
         MP!consumerVars, M!lifeUnchanged, MP!lifeUnchanged, M!clientVars, MP!clientVars
<1>5. M!EndPrefill <=> MP!EndPrefill
  BY DEF M!EndPrefill, MP!EndPrefill, M!Fault, MP!Fault, M!streamUnchanged, MP!streamUnchanged,
         M!consumerVars, MP!consumerVars, M!lifeUnchanged, MP!lifeUnchanged, M!clientVars,
         MP!clientVars
<1>6. M!FailPrefill <=> MP!FailPrefill
  BY DEF M!FailPrefill, MP!FailPrefill, M!Fault, MP!Fault, M!streamUnchanged, MP!streamUnchanged,
         M!consumerVars, MP!consumerVars, M!lifeUnchanged, MP!lifeUnchanged, M!clientVars,
         MP!clientVars
<1>7. M!ParkPrefill <=> MP!ParkPrefill
  BY DEF M!ParkPrefill, MP!ParkPrefill, M!streamUnchanged, MP!streamUnchanged, M!consumerVars,
         MP!consumerVars, M!lifeUnchanged, MP!lifeUnchanged, M!clientVars, MP!clientVars
<1>8. M!DeleteSubscription <=> MP!DeleteSubscription
  BY DEF M!DeleteSubscription, MP!DeleteSubscription, M!clientVars, MP!clientVars
<1>9. M!RegisterSubscription <=> MP!RegisterSubscription
  BY DEF M!RegisterSubscription, MP!RegisterSubscription, M!consumerVars, MP!consumerVars,
         M!lifeUnchanged, MP!lifeUnchanged, M!clientVars, MP!clientVars
<1>10. \A r : M!StartGet(r) <=> MP!StartGet(r)
  BY DEF M!StartGet, MP!StartGet, M!Goto, MP!Goto, M!consumerVars, MP!consumerVars,
         M!apiUnchanged, MP!apiUnchanged, M!subVars, MP!subVars, M!prefillVars, MP!prefillVars,
         M!clientVars, MP!clientVars
<1>11. \A r : M!PassGate(r) <=> MP!PassGate(r)
  BY DEF M!PassGate, MP!PassGate, M!Goto, MP!Goto, M!consumerVars, MP!consumerVars,
         M!apiUnchanged, MP!apiUnchanged, M!subVars, MP!subVars, M!prefillVars, MP!prefillVars,
         M!clientVars, MP!clientVars
<1>12. \A r : M!FailGate(r) <=> MP!FailGate(r)
  BY DEF M!FailGate, MP!FailGate, M!Reply, MP!Reply, M!consumerVars, MP!consumerVars,
         M!apiUnchanged, MP!apiUnchanged, M!subVars, MP!subVars, M!prefillVars, MP!prefillVars,
         M!clientVars, MP!clientVars
<1>13. \A r : M!GateRaises(r) <=> MP!GateRaises(r)
  BY DEF M!GateRaises, MP!GateRaises, M!Goto, MP!Goto, M!consumerVars, MP!consumerVars,
         M!apiUnchanged, MP!apiUnchanged, M!subVars, MP!subVars, M!prefillVars, MP!prefillVars,
         M!clientVars, MP!clientVars
<1>14. \A r, m : M!Fetch(r, m) <=> MP!Fetch(r, m)
  BY DEF M!Fetch, MP!Fetch, M!Delivery, MP!Delivery, M!Fetchable, MP!Fetchable, M!Reply, MP!Reply,
         M!apiUnchanged, MP!apiUnchanged, M!subVars, MP!subVars, M!prefillVars, MP!prefillVars,
         M!clientVars, MP!clientVars
<1>15. \A r : M!Pop(r) <=> MP!Pop(r)
  BY DEF M!Pop, MP!Pop, M!Goto, MP!Goto, M!apiUnchanged, MP!apiUnchanged, M!subVars, MP!subVars,
         M!prefillVars, MP!prefillVars, M!clientVars, MP!clientVars
<1>16. \A r : M!FetchNothing(r) <=> MP!FetchNothing(r)
  BY DEF M!FetchNothing, MP!FetchNothing, M!NothingToFetch, MP!NothingToFetch, M!Fetchable,
         MP!Fetchable, M!NoMessage, MP!NoMessage, M!Reply, MP!Reply, M!consumerVars,
         MP!consumerVars, M!apiUnchanged, MP!apiUnchanged, M!subVars, MP!subVars, M!prefillVars,
         MP!prefillVars, M!clientVars, MP!clientVars
<1>17. \A r : M!DropReply(r) <=> MP!DropReply(r)
  BY DEF M!DropReply, MP!DropReply, M!Free, MP!Free, M!clientVars, MP!clientVars,
         M!handlerUnchanged, MP!handlerUnchanged, M!consumerVars, MP!consumerVars, M!subVars,
         MP!subVars, M!prefillVars, MP!prefillVars
<1>18. \A a : M!AcknowledgeMessage(a) <=> MP!AcknowledgeMessage(a)
  BY DEF M!AcknowledgeMessage, MP!AcknowledgeMessage, M!DeleteMessage, MP!DeleteMessage,
         M!NextMessage, MP!NextMessage, M!RetryAck, MP!RetryAck, M!subVars, MP!subVars,
         M!prefillVars, MP!prefillVars
<1>19. \A r : M!SendGet(r) <=> MP!SendGet(r)
  BY DEF M!SendGet, MP!SendGet, M!Free, MP!Free, M!handlerUnchanged, MP!handlerUnchanged,
         M!consumerVars, MP!consumerVars, M!subVars, MP!subVars, M!prefillVars, MP!prefillVars
<1>20. M!ReceiveReply <=> MP!ReceiveReply
  BY DEF M!ReceiveReply, MP!ReceiveReply, M!Free, MP!Free, M!Nobody, MP!Nobody,
         M!handlerUnchanged, MP!handlerUnchanged, M!consumerVars, MP!consumerVars, M!subVars,
         MP!subVars, M!prefillVars, MP!prefillVars
<1>21. M!ReceiveError <=> MP!ReceiveError
  BY DEF M!ReceiveError, MP!ReceiveError, M!NextMessage, MP!NextMessage, M!Free, MP!Free,
         M!Nobody, MP!Nobody, M!handlerUnchanged, MP!handlerUnchanged, M!consumerVars,
         MP!consumerVars, M!subVars, MP!subVars, M!prefillVars, MP!prefillVars
<1>22. M!RunCallbacks <=> MP!RunCallbacks
  BY DEF M!RunCallbacks, MP!RunCallbacks, M!OfThisStream, MP!OfThisStream, M!NextMessage,
         MP!NextMessage, M!handlerUnchanged, MP!handlerUnchanged, M!consumerVars, MP!consumerVars,
         M!subVars, MP!subVars, M!prefillVars, MP!prefillVars
<1>23. M!SendAck <=> MP!SendAck
  BY DEF M!SendAck, MP!SendAck, M!handlerUnchanged, MP!handlerUnchanged, M!consumerVars,
         MP!consumerVars, M!subVars, MP!subVars, M!prefillVars, MP!prefillVars
<1>24. \A r : M!LosePopAck(r) <=> MP!LosePopAck(r)
  BY DEF M!LosePopAck, MP!LosePopAck, M!Fault, MP!Fault, M!Goto, MP!Goto, M!consumerVars,
         MP!consumerVars, M!prefillVars, MP!prefillVars, M!clientVars, MP!clientVars
<1>25. M!LoseAckResponse <=> MP!LoseAckResponse
  BY DEF M!LoseAckResponse, MP!LoseAckResponse, M!Fault, MP!Fault, M!RetryAck, MP!RetryAck,
         M!NextMessage, MP!NextMessage, M!handlerUnchanged, MP!handlerUnchanged, M!consumerVars,
         MP!consumerVars, M!subVars, MP!subVars, M!prefillVars, MP!prefillVars
<1>26. M!CrashClient <=> MP!CrashClient
  BY DEF M!CrashClient, MP!CrashClient, M!Fault, MP!Fault, M!NextMessage, MP!NextMessage,
         M!Nobody, MP!Nobody, M!handlerUnchanged, MP!handlerUnchanged, M!consumerVars,
         MP!consumerVars, M!subVars, MP!subVars, M!prefillVars, MP!prefillVars
<1>27. \A r, m : M!MissDelivery(r, m) <=> MP!MissDelivery(r, m)
  BY DEF M!MissDelivery, MP!MissDelivery, M!Fault, MP!Fault, M!Delivery, MP!Delivery, M!Fetchable,
         MP!Fetchable, M!NoMessage, MP!NoMessage, M!Reply, MP!Reply, M!subVars, MP!subVars,
         M!prefillVars, MP!prefillVars, M!clientVars, MP!clientVars
<1>28. M!RestartApi <=> MP!RestartApi
  BY DEF M!RestartApi, MP!RestartApi, M!Fault, MP!Fault, M!Free, MP!Free, M!NextMessage,
         MP!NextMessage, M!RetryAck, MP!RetryAck, M!Nobody, MP!Nobody, M!consumerVars,
         MP!consumerVars, M!subVars, MP!subVars, M!prefillVars, MP!prefillVars
<1> QED
  BY <1>1, <1>2, <1>3, <1>4, <1>5, <1>6, <1>7, <1>8, <1>9, <1>10, <1>11, <1>12, <1>13, <1>14,
     <1>15, <1>16, <1>17, <1>18, <1>19, <1>20, <1>21, <1>22, <1>23, <1>24, <1>25, <1>26, <1>27,
     <1>28
     DEF M!Next, MP!Next, M!PrefillWorker, MP!PrefillWorker, M!GetHandler, MP!GetHandler, M!Client,
         MP!Client

LEMMA TransformerStep == [Next]_vars => [TP!Next]_(TP!vars)
<1>1. CASE UNCHANGED vars
  BY <1>1 DEF TP!vars, TP!transformerVars
<1>2. CASE T!Next
  BY <1>2, TransformerNext
<1>3. CASE UNCHANGED transformerVars
  BY <1>3 DEF TP!vars, TP!transformerVars
<1>4. Next => T!Next \/ UNCHANGED transformerVars
  BY DEF Next, Listen, Transform, PostEvent, StartDispatcher, LoadMapping, StartWatch, TakeUpdate,
         PushEvent, HandleEvent, ForwardEvent, ExpireAckWait, GetHandler, AckHandler, Consume,
         Faults, FailToTransform, PostEventUnanswered, FailToDispatch, FailToConsume,
         othersOfDispatcher, othersOfMessages, T!Next, T!Worker
<1> QED
  BY <1>1, <1>2, <1>3, <1>4

LEMMA DispatcherStep == [Next]_vars => [DP!Next]_(DP!vars)
<1>1. UNCHANGED dispatcherVars => UNCHANGED DP!vars
  BY DEF DP!vars, DP!serverVars, DP!apiVars, DP!handleVars, DP!loadVars, DP!watchVars
<1>2. CASE D!Next
  BY <1>2, DispatcherNext
<1>3. Next => D!Next \/ UNCHANGED dispatcherVars
  BY DEF Next, Listen, Transform, PostEvent, StartDispatcher, LoadMapping, StartWatch, TakeUpdate,
         PushEvent, HandleEvent, ForwardEvent, ExpireAckWait, GetHandler, AckHandler, Consume,
         Faults, FailToTransform, PostEventUnanswered, FailToDispatch, FailToConsume,
         othersOfDispatcher, othersOfMessages, D!Next, D!Server, D!LoadMapping, D!HandleEvent
<1> QED
  BY <1>1, <1>2, <1>3

LEMMA MessagesStep == [Next]_vars => [MP!Next]_(MP!vars)
<1>1. UNCHANGED messagesVars => UNCHANGED MP!vars
  BY DEF MP!vars, MP!consumerVars, MP!subVars, MP!prefillVars, MP!clientVars
<1>2. CASE M!Next
  BY <1>2, MessagesNext
<1>3. Next => M!Next \/ UNCHANGED messagesVars
  BY DEF Next, Listen, Transform, PostEvent, StartDispatcher, LoadMapping, StartWatch, TakeUpdate,
         PushEvent, HandleEvent, ForwardEvent, ExpireAckWait, GetHandler, AckHandler, Consume,
         Faults, FailToTransform, PostEventUnanswered, FailToDispatch, FailToConsume,
         othersOfDispatcher, othersOfMessages, M!Next, M!GetHandler
<1> QED
  BY <1>1, <1>2, <1>3

-----------------------------------------------------------------------------
(* What the theorems about the three say of the instances *)

PartsInv ==
    /\ TP!TypeInv /\ TP!IInv
    /\ DP!TypeOK /\ DP!OrderInv /\ DP!OwedInv
    /\ MP!TypeInv /\ MP!TurnInv /\ MP!AckInv

LEMMA InitParts == Init => PartsInv
<1> SUFFICES ASSUME Init PROVE PartsInv
  OBVIOUS
<1>1. TP!TypeInv /\ TP!IInv
  <2>1. TP!Init
    BY DEF Init, T!Init, TP!Init
  <2> QED
    BY <2>1, TransformerAssumptions, TP!InitType, TP!InitInv
<1>2. DP!TypeOK
  <2>1. DP!NoMapping \in [{topic} -> SUBSET {portal}] /\ D!NoMapping = DP!NoMapping
    BY DEF DP!NoMapping, D!NoMapping
  <2>2. DP!IsFiniteSet({portal})
    BY FS_Singleton DEF DP!IsFiniteSet, IsFiniteSet
  <2>3. /\ published = <<>> /\ incoming = {} /\ outstanding = 0 /\ localq = <<>> /\ current = 0
        /\ targets = {} /\ queue = [s \in {portal} |-> <<>>]
    BY DEF Init
  <2>4. /\ <<>> \in Seq({topic}) /\ <<>> \in Seq(1..0) /\ Len(<<>>) = 0
        /\ [s \in {portal} |-> <<>>] \in [{portal} -> Seq(1..0)]
        /\ [s \in {portal} |-> {topic}] \in [{portal} -> SUBSET {topic}]
        /\ [s \in {portal} |-> {}] \in [{portal} -> SUBSET (1..0)]
    OBVIOUS
  <2>5. /\ kv = [s \in {portal} |-> {topic}] /\ touched = {portal} /\ subjects = {portal}
        /\ todo = [s \in {portal} |-> D!NoCall] /\ rewriting = [s \in {portal} |-> {}]
        /\ promised = [s \in {portal} |-> {}]
    BY DEF Init
  <2>6. /\ mapping = D!NoMapping /\ lmap = D!NoMapping /\ dpc = "down" /\ lpc = "idle"
        /\ lkeys = {} /\ watching = FALSE /\ updates = 0 /\ crashes = 0 /\ expiries = 0
        /\ disturbed = FALSE
    BY DEF Init
  <2>7. Len(published) = 0
    BY <2>3, <2>4
  <2>8. /\ published \in Seq({topic}) /\ queue \in [{portal} -> Seq(1..Len(published))]
        /\ localq \in Seq(1..Len(published))
    BY <2>3, <2>4, <2>7
  <2>12. /\ todo \in [{portal} -> [DP!CallSteps -> Nat]]
         /\ rewriting \in [{portal} -> SUBSET SUBSET {topic}]
    <3>1. D!NoCall \in [DP!CallSteps -> Nat]
      BY DEF D!NoCall, D!CallSteps, DP!CallSteps
    <3> QED
      BY <2>5, <3>1
  <2>9. /\ kv \in [{portal} -> SUBSET {topic}]
        /\ promised \in [{portal} -> SUBSET (1..Len(published))]
    BY <2>4, <2>5, <2>7
  <2>10. /\ mapping \in [{topic} -> SUBSET {portal}] /\ lmap \in [{topic} -> SUBSET {portal}]
         /\ DP!IsFiniteSet(touched)
    BY <2>1, <2>2, <2>5, <2>6
  <2>11. /\ incoming \subseteq 1..Len(published) /\ outstanding \in incoming \cup {0}
         /\ current \in 0..Len(published)
    BY <2>3, <2>7
  <2> QED
    BY <2>3, <2>5, <2>6, <2>8, <2>9, <2>10, <2>11, <2>12 DEF DP!TypeOK
<1>3. DP!OrderInv
  BY DEF Init, DP!OrderInv, DP!OutstandingIsOldest, DP!LocalInOrder, DP!CurrentIsFirst,
         DP!QueuesBehind, DP!OrderRetained
<1>4. DP!OwedInv
  BY DEF Init, DP!OwedInv, DP!OwedAreKnown, DP!OwedAreStated, DP!CurrentIsServed, DP!NoOwedEventLost
<1>5. MP!TypeInv /\ MP!TurnInv /\ MP!AckInv
  <2>1. MP!Init
    BY DEF Init, M!Init, MP!Init, M!Free, MP!Free, M!Nobody, MP!Nobody
  <2> QED
    BY <2>1, MessagesAssumptions, MP!InitType, MP!InitTurn, MP!InitAck
<1> QED
  BY <1>1, <1>2, <1>3, <1>4, <1>5 DEF PartsInv

LEMMA NextParts == PartsInv /\ [Next]_vars => PartsInv'
<1> SUFFICES ASSUME PartsInv, [Next]_vars PROVE PartsInv'
  OBVIOUS
<1>1. (TP!TypeInv /\ TP!IInv)'
  BY TransformerStep, TransformerAssumptions, TP!NextType, TP!NextInv DEF PartsInv
<1>2. (DP!TypeOK /\ DP!OrderInv /\ DP!OwedInv)'
  BY DispatcherStep, DispatcherAssumptions, DP!NextType, DP!NextOrder, DP!NextOwed DEF PartsInv
<1>3. (MP!TypeInv /\ MP!TurnInv /\ MP!AckInv)'
  BY MessagesStep, MessagesAssumptions, MP!NextType, MP!NextTurn, MP!NextAck DEF PartsInv
<1> QED
  BY <1>1, <1>2, <1>3 DEF PartsInv

-----------------------------------------------------------------------------
(* The subscription *)

\* The subscription stays as it was registered, the dispatcher knows it, or reads of
\* it before it handles events, and so owes it every event.
KnownInv ==
    /\ kv = [s \in {portal} |-> {topic}] /\ subjects = {portal}
    /\ exists /\ filling = FALSE /\ ~pop
    /\ dpc = "running" => portal \in mapping[topic]
    /\ lpc = "entries" => portal \in lkeys \/ portal \in lmap[topic]
    /\ promised[portal] = 1..Len(published)

\* What a step of the dispatcher does to the subscription: it is always one of these.
DispatcherAction ==
    \/ D!PublishEvent(topic) \/ D!Send(portal)
    \/ D!Start \/ D!ReadKeys \/ D!ReadEntry(portal) \/ D!ReplaceMapping
    \/ D!StartWatch \/ D!TakeUpdate
    \/ D!Redeliver \/ \E e \in incoming : D!Deliver(e)
    \/ D!TakeEvent \/ D!Acknowledge
    \/ D!Crash \/ D!ExpireAckWait \/ D!LoseAcknowledgement
    \/ UNCHANGED dispatcherVars

LEMMA DispatcherActs == [Next]_vars => DispatcherAction
  BY DEF DispatcherAction, Next, Listen, Transform, PostEvent, StartDispatcher, LoadMapping, StartWatch,
         TakeUpdate, PushEvent, HandleEvent, ForwardEvent, ExpireAckWait, GetHandler, AckHandler,
         Consume, Faults, FailToTransform, PostEventUnanswered, FailToDispatch, FailToConsume,
         othersOfDispatcher, othersOfMessages

LEMMA InitKnown == Init => KnownInv
  BY DEF Init, M!Init, KnownInv

LEMMA NextKnown == PartsInv /\ KnownInv /\ [Next]_vars => KnownInv'
<1> SUFFICES ASSUME PartsInv, KnownInv, [Next]_vars PROVE KnownInv'
  OBVIOUS
<1>t. DP!TypeOK
  BY DEF PartsInv
<1>1. UNCHANGED <<exists, filling, pop>>
  BY DEF Next, Listen, Transform, PostEvent, StartDispatcher, LoadMapping, StartWatch, TakeUpdate,
         PushEvent, HandleEvent, ForwardEvent, ExpireAckWait, GetHandler, AckHandler, Consume,
         Faults, FailToTransform, PostEventUnanswered, FailToDispatch, FailToConsume,
         othersOfDispatcher, othersOfMessages, M!Publish, M!ExpireAckWait, M!StartGet, M!PassGate,
         M!FetchNothing, M!DropReply, M!Fetch, M!AcknowledgeMessage, M!Client, M!SendGet,
         M!ReceiveReply, M!RunCallbacks, M!SendAck, M!LoseAckResponse, M!CrashClient, M!RestartApi,
         M!MissDelivery, M!subVars, M!prefillVars, M!clientVars, M!apiUnchanged,
         M!handlerUnchanged, M!ReceiveError
<1>2. UNCHANGED <<kv, subjects>>
  BY DispatcherActs
     DEF DispatcherAction, D!PublishEvent, D!Send, D!Start, D!ReadKeys, D!ReadEntry, D!ReplaceMapping,
         D!StartWatch, D!TakeUpdate, D!Redeliver, D!Deliver, D!TakeEvent, D!Acknowledge, D!Crash,
         D!GoDown, D!ExpireAckWait, D!LoseAcknowledgement, D!Push, D!processUnchanged, D!apiVars
<1>3. CASE D!PublishEvent(topic)
  <2>1. UNCHANGED <<dpc, mapping, lpc, lkeys, lmap>>
    BY <1>3 DEF D!PublishEvent, D!loadVars
  <2>2. portal \in D!Owed(topic)
    BY DEF KnownInv, D!Owed, D!KnownToDispatcher
  <2>3. promised'[portal] = promised[portal] \cup {Len(published) + 1}
    BY <1>3, <2>2 DEF D!PublishEvent
  <2>4. published \in Seq({topic}) /\ Len(published') = Len(published) + 1 /\ Len(published) \in Nat
    BY <1>3, <1>t DEF D!PublishEvent, DP!TypeOK
  <2>5. promised'[portal] = 1..Len(published')
    BY <2>3, <2>4 DEF KnownInv
  <2> QED
    BY <1>1, <1>2, <2>1, <2>5 DEF KnownInv
<1>4. ~D!PublishEvent(topic) => UNCHANGED <<promised, published>>
  BY DispatcherActs
     DEF DispatcherAction, D!Send, D!Start, D!ReadKeys, D!ReadEntry, D!ReplaceMapping,
         D!StartWatch, D!TakeUpdate, D!Redeliver, D!Deliver, D!TakeEvent, D!Acknowledge, D!Crash,
         D!GoDown, D!ExpireAckWait, D!LoseAcknowledgement, D!Push, D!processUnchanged, D!serverVars
<1>5. CASE D!ReadKeys
  <2>1. lpc' = "entries" /\ lkeys' = D!Listed /\ UNCHANGED <<dpc, mapping>>
    BY <1>5 DEF D!ReadKeys
  <2>2. portal \in D!Listed
    BY DEF D!Listed, KnownInv
  <2> QED
    BY <1>1, <1>2, <1>4, <1>5, <2>1, <2>2 DEF KnownInv, D!ReadKeys, D!processUnchanged, D!serverVars
<1>6. CASE D!ReadEntry(portal)
  <2>1. lmap'[topic] = lmap[topic] \cup {portal} /\ UNCHANGED <<lpc, dpc, mapping, promised, published>>
    BY <1>6 DEF D!ReadEntry, KnownInv, D!processUnchanged, D!serverVars
  <2> QED
    BY <1>1, <1>2, <2>1 DEF KnownInv
<1>7. CASE D!ReplaceMapping
  <2>1. mapping' = lmap /\ lpc' = "idle" /\ UNCHANGED <<promised, published>> /\ portal \in lmap[topic]
    BY <1>7 DEF D!ReplaceMapping, KnownInv, D!processUnchanged, D!serverVars
  <2> QED
    BY <1>1, <1>2, <2>1 DEF KnownInv
<1>8. CASE ~(D!PublishEvent(topic) \/ D!ReadKeys \/ D!ReadEntry(portal) \/ D!ReplaceMapping)
  <2>1. /\ UNCHANGED <<promised, published>>
        /\ dpc' = "running" => dpc = "running" /\ mapping' = mapping
        /\ lpc' = "entries" => lpc = "entries" /\ lkeys' = lkeys /\ lmap' = lmap
    BY <1>4, <1>8, DispatcherActs
       DEF DispatcherAction, D!Send, D!Start, D!StartWatch, D!TakeUpdate, D!Redeliver, D!Deliver,
           D!TakeEvent, D!Acknowledge, D!Crash, D!GoDown, D!ExpireAckWait, D!LoseAcknowledgement,
           D!Push, D!loadVars
  <2> QED
    BY <1>1, <1>2, <2>1 DEF KnownInv
<1> QED
  BY <1>3, <1>5, <1>6, <1>7, <1>8

-----------------------------------------------------------------------------
(* Where the components meet *)

\* What is posted is published, what is forwarded is in the subscription's stream.
MeetInv ==
    /\ Len(events) = Len(published)
    /\ Len(queue[portal]) = lastSeq

LEMMA Names ==
    /\ T!event = TP!event /\ T!number = TP!number
    /\ \A n : T!After(n) = TP!After(n) /\ T!Before(n) = TP!Before(n) /\ TP!Supported(n)
  BY DEF T!event, TP!event, T!number, TP!number, T!After, TP!After, T!Before, TP!Before, T!Earlier,
         TP!Earlier, TP!Supported

\* The only steps that publish an event are those that post one.
LEMMA EventSteps ==
    [Next]_vars =>
        \/ /\ T!SendEvent \/ T!LoseResponse
           /\ D!PublishEvent(topic)
        \/ UNCHANGED <<events, published>>
<1>1. ASSUME T!Listener \/ \E o \in Objects : T!LoseChange(o) PROVE UNCHANGED events
  BY <1>1 DEF T!Listener, T!Create, T!Modify, T!Remove, T!Publish, T!LoseChange
<1>2. ASSUME T!Start \/ T!TakeChange \/ T!Retrieve \/ T!Transform \/ T!Store \/ T!AckChange
             \/ T!Fail \/ T!LoseAck
      PROVE  UNCHANGED events
  BY <1>2 DEF T!Start, T!TakeChange, T!Retrieve, T!Transform, T!Store, T!AckChange, T!Fail, T!LoseAck
<1>3. DispatcherAction => D!PublishEvent(topic) \/ UNCHANGED published
  BY DEF DispatcherAction, D!Send, D!Start, D!ReadKeys, D!ReadEntry, D!ReplaceMapping,
         D!StartWatch, D!TakeUpdate, D!Redeliver, D!Deliver, D!TakeEvent, D!Acknowledge, D!Crash,
         D!GoDown, D!ExpireAckWait, D!LoseAcknowledgement, D!Push, D!processUnchanged, D!serverVars
<1>4. ASSUME ForwardEvent \/ StartDispatcher \/ LoadMapping \/ StartWatch \/ TakeUpdate \/ PushEvent
             \/ HandleEvent \/ FailToDispatch
      PROVE  UNCHANGED <<events, published>>
  BY <1>4
     DEF ForwardEvent, StartDispatcher, LoadMapping, StartWatch, TakeUpdate, PushEvent, HandleEvent,
         FailToDispatch, othersOfDispatcher, D!Send, D!Start, D!ReadKeys, D!ReadEntry,
         D!ReplaceMapping, D!StartWatch, D!TakeUpdate, D!Redeliver, D!Deliver, D!TakeEvent,
         D!Acknowledge, D!Crash, D!GoDown, D!ExpireAckWait, D!LoseAcknowledgement, D!Push,
         D!processUnchanged, D!serverVars
<1> QED
  BY <1>1, <1>2, <1>4
     DEF Next, Listen, Transform, PostEvent, ExpireAckWait, GetHandler, AckHandler, Consume, Faults,
         FailToTransform, PostEventUnanswered, FailToConsume, othersOfMessages

\* The only step that adds to the queue and to the stream is the forwarding of an
\* event; the two grow together.
LEMMA QueueSteps ==
    [Next]_vars =>
        \/ /\ D!Send(portal)
           /\ \/ queue' = queue /\ UNCHANGED lastSeq
              \/ queue' # queue /\ lastSeq' = lastSeq + 1
           /\ UNCHANGED <<published, received>>
        \/ UNCHANGED <<queue, lastSeq>>
<1>1. ASSUME StartDispatcher \/ LoadMapping \/ StartWatch \/ TakeUpdate \/ PushEvent
             \/ HandleEvent \/ FailToDispatch
      PROVE  UNCHANGED <<queue, lastSeq>>
  BY <1>1
     DEF StartDispatcher, LoadMapping, StartWatch, TakeUpdate, PushEvent, HandleEvent,
         FailToDispatch, othersOfDispatcher, D!Start, D!ReadKeys, D!ReadEntry,
         D!ReplaceMapping, D!StartWatch, D!TakeUpdate, D!Redeliver, D!Deliver, D!TakeEvent,
         D!Acknowledge, D!Crash, D!GoDown, D!ExpireAckWait, D!LoseAcknowledgement, D!Push,
         D!processUnchanged, D!apiVars
<1>2. ASSUME ExpireAckWait \/ (\E r \in Requests : GetHandler(r)) \/ AckHandler \/ Consume \/ FailToConsume
      PROVE  UNCHANGED <<queue, lastSeq>>
  BY <1>2
     DEF ExpireAckWait, GetHandler, AckHandler, Consume, FailToConsume,
         othersOfMessages, M!ExpireAckWait, M!StartGet, M!PassGate,
         M!FetchNothing, M!DropReply, M!Fetch, M!AcknowledgeMessage, M!Client, M!SendGet,
         M!ReceiveReply, M!ReceiveError, M!RunCallbacks, M!SendAck, M!LoseAckResponse,
         M!CrashClient, M!RestartApi, M!MissDelivery, M!apiUnchanged, M!handlerUnchanged
<1>3. ASSUME PostEvent \/ PostEventUnanswered PROVE UNCHANGED <<queue, lastSeq>>
  BY <1>3 DEF PostEvent, PostEventUnanswered, D!PublishEvent, D!apiVars
<1>4. ASSUME ForwardEvent
      PROVE  /\ D!Send(portal)
             /\ \/ queue' = queue /\ UNCHANGED lastSeq
                \/ queue' # queue /\ lastSeq' = lastSeq + 1
             /\ UNCHANGED <<published, received>>
  BY <1>4 DEF ForwardEvent, M!Publish, D!Send, D!serverVars
<1> QED
  BY <1>1, <1>2, <1>3, <1>4 DEF Next, Listen, Transform, Faults, FailToTransform

LEMMA NextMeet == PartsInv /\ MeetInv /\ [Next]_vars => MeetInv'
<1> SUFFICES ASSUME PartsInv, MeetInv, [Next]_vars PROVE MeetInv'
  OBVIOUS
<1>1. /\ events \in Seq(TP!Event) /\ published \in Seq({topic})
      /\ queue \in [{portal} -> Seq(1..Len(published))]
  BY DEF PartsInv, TP!TypeInv, TP!TypeOK, DP!TypeOK
<1>2. (Len(events) = Len(published))'
  <2>1. CASE T!SendEvent \/ T!LoseResponse
    <3>1. events' = Append(events, TP!event)
      BY <2>1, Names DEF T!SendEvent, T!LoseResponse
    <3>2. CASE D!PublishEvent(topic)
      <4>1. published' = Append(published, topic)
        BY <3>2 DEF D!PublishEvent
      <4>2. Len(events') = Len(events) + 1 /\ Len(published') = Len(published) + 1
        BY <1>1, <3>1, <4>1
      <4> QED
        BY <4>2 DEF MeetInv
    <3> QED
      BY <3>2, EventSteps DEF MeetInv
  <2> QED
    BY <2>1, EventSteps DEF MeetInv
<1>3. (Len(queue[portal]) = lastSeq)'
  <2>1. CASE D!Send(portal)
    <3>1. \/ queue' = queue
          \/ queue' = [queue EXCEPT ![portal] = Append(@, current)]
      BY <1>1, <2>1 DEF D!Send
    <3>2. queue' = queue \/ Len(queue'[portal]) = Len(queue[portal]) + 1
      BY <1>1, <3>1
    <3>3. Len(queue'[portal]) = Len(queue[portal]) + 1 => queue' # queue
      BY <1>1
    <3> QED
      BY <3>2, <3>3, QueueSteps DEF MeetInv
  <2> QED
    BY <2>1, QueueSteps DEF MeetInv
<1> QED
  BY <1>2, <1>3 DEF MeetInv

-----------------------------------------------------------------------------
(* The events *)

\* Events tell something, come in the order of the changes, and leave out no change
\* that has one.
EventsInTurn ==
    /\ \A i \in DOMAIN events : events[i].old # 0 \/ events[i].new # 0
    /\ \A i, j \in DOMAIN events : i < j => events[i].change <= events[j].change
    /\ \A i \in DOMAIN events : \A n \in 1..events[i].change :
          HasEvent(n) => \E j \in 1..i : events[j].change = n

LEMMA HasEventIs ==
    /\ \A n : HasEvent(n) <=> TP!After(n) # 0 \/ TP!Before(n) # 0
    /\ \A n : HasEvent(n)' <=> TP!After(n)' # 0 \/ TP!Before(n)' # 0
  BY DEF HasEvent, T!After, TP!After, T!Before, TP!Before, T!Earlier, TP!Earlier

\* A change and whether it has an event stay as they are.
LEMMA ChangesStay ==
    PartsInv /\ [Next]_vars =>
        /\ UNCHANGED changes \/ UNCHANGED events
        /\ \A n \in 1..Len(changes) : HasEvent(n)' <=> HasEvent(n)
<1> SUFFICES ASSUME PartsInv, [Next]_vars
             PROVE  /\ UNCHANGED changes \/ UNCHANGED events
                    /\ \A n \in 1..Len(changes) : HasEvent(n)' <=> HasEvent(n)
  OBVIOUS
<1>1. TP!TypeOK
  BY DEF PartsInv, TP!TypeInv
<1>2. CASE UNCHANGED changes
  BY <1>2, HasEventIs, TransformerAssumptions, TP!SameChanges
<1>3. ASSUME NEW o \in Objects, NEW before \in BOOLEAN, NEW after \in BOOLEAN,
             TP!Publish(o, before, after)
      PROVE  /\ UNCHANGED events
             /\ \A n \in 1..Len(changes) : HasEvent(n)' <=> HasEvent(n)
  <2>1. UNCHANGED events /\ changes' = Append(changes, [obj |-> o, old |-> before, new |-> after])
    BY <1>3 DEF TP!Publish
  <2>2. [obj |-> o, old |-> before, new |-> after] \in TP!ChangeRecord
    BY DEF TP!ChangeRecord
  <2>3. \A n \in 1..Len(changes) : TP!Before(n)' = TP!Before(n) /\ TP!After(n)' = TP!After(n)
    BY <1>1, <2>1, <2>2, TransformerAssumptions, TP!FurtherChange
  <2> QED
    BY <2>1, <2>3, HasEventIs
<1>4. CASE TP!Listener
  BY <1>3, <1>4 DEF TP!Listener, TP!Create, TP!Modify, TP!Remove
<1>5. TP!Next => TP!Listener \/ UNCHANGED changes
  BY DEF TP!Next, TP!Worker, TP!Start, TP!TakeChange, TP!Retrieve, TP!Transform, TP!Store,
         TP!SendEvent, TP!AckChange, TP!Fail, TP!LoseAck, TP!LoseResponse, TP!LoseChange,
         TP!ldapUnchanged
<1>6. UNCHANGED TP!vars => UNCHANGED changes
  BY DEF TP!vars
<1> QED
  BY <1>2, <1>4, <1>3, <1>5, <1>6, TransformerStep
     DEF TP!Listener, TP!Create, TP!Modify, TP!Remove

LEMMA InitEvents == Init => EventsInTurn
<1>1. Init => DOMAIN events = {}
  BY DEF Init, T!Init
<1> QED
  BY <1>1 DEF EventsInTurn

LEMMA NextEvents == PartsInv /\ EventsInTurn /\ [Next]_vars => EventsInTurn'
<1> SUFFICES ASSUME PartsInv, EventsInTurn, [Next]_vars PROVE EventsInTurn'
  OBVIOUS
<1>1. TP!TypeOK /\ TP!EventsInv /\ TP!HandledIsPublished
  BY DEF PartsInv, TP!TypeInv, TP!IInv
<1>2. events \in Seq(TP!Event) /\ changes \in Seq(TP!ChangeRecord) /\ transformed \in Nat
  BY <1>1 DEF TP!TypeOK
<1>3. \A i \in DOMAIN events : events[i].change \in 1..Len(changes)
  <2>1. \A i \in DOMAIN events : events[i].change \in Nat /\ events[i].change >= 1
    BY <1>1, TransformerAssumptions, TP!EventOfChange, BoundsAssumption
  <2> QED
    BY <1>1, <1>2, <2>1 DEF TP!EventsInv
<1>4. CASE UNCHANGED events
  <2>1. \A i \in DOMAIN events : \A n : n \in 1..events[i].change => n \in 1..Len(changes)
    BY <1>2, <1>3
  <2> QED
    BY <1>4, <2>1, ChangesStay DEF EventsInTurn
<1>5. CASE T!SendEvent \/ T!LoseResponse
  <2>1. /\ tpc = "send" /\ events' = Append(events, TP!event)
        /\ UNCHANGED changes
    BY <1>5, Names DEF T!SendEvent, T!LoseResponse, T!ldapUnchanged
  <2>2. /\ TP!event.change = transformed + 1 /\ TP!event.old = old /\ TP!event.new = new
        /\ old # 0 \/ new # 0
        /\ transformed < Len(changes)
    BY <1>1, <2>1 DEF TP!event, TP!number, TP!TypeOK
  <2>3. TP!event \in TP!Event
    BY <1>1, <2>2, TransformerAssumptions, TP!EventType
  <2>4. /\ DOMAIN events = 1..Len(events) /\ DOMAIN events' = 1..(Len(events) + 1)
        /\ Len(events) \in Nat
        /\ events'[Len(events) + 1] = TP!event
        /\ \A i \in 1..Len(events) : events'[i] = events[i]
    BY <1>2, <2>1, <2>3, TP!AppendFacts
  <2>5. \A i \in DOMAIN events' : events'[i].old # 0 \/ events'[i].new # 0
    BY <2>2, <2>4 DEF EventsInTurn
  <2>6. \A i, j \in DOMAIN events' : i < j => events'[i].change <= events'[j].change
    <3> SUFFICES ASSUME NEW i \in DOMAIN events', NEW j \in DOMAIN events', i < j
                 PROVE  events'[i].change <= events'[j].change
      OBVIOUS
    <3>1. i \in 1..Len(events) /\ events'[i] = events[i]
      BY <2>4
    <3>2. events[i].change <= transformed + 1
      BY <1>1, <2>4, <3>1 DEF TP!EventsInv, TP!number
    <3>3. CASE j = Len(events) + 1
      BY <2>2, <2>4, <3>1, <3>2, <3>3
    <3>4. CASE j \in 1..Len(events)
      BY <2>4, <3>1, <3>4 DEF EventsInTurn
    <3> QED
      BY <2>4, <3>3, <3>4
  <2>7. \A i \in DOMAIN events' : \A n \in 1..events'[i].change :
           HasEvent(n)' => \E j \in 1..i : events'[j].change = n
    <3> SUFFICES ASSUME NEW i \in DOMAIN events', NEW n \in 1..events'[i].change, HasEvent(n)'
                 PROVE  \E j \in 1..i : events'[j].change = n
      OBVIOUS
    <3>1. CASE i \in 1..Len(events)
      <4>1. n \in 1..Len(changes) /\ n \in 1..events[i].change
        BY <1>2, <1>3, <2>4, <3>1
      <4>2. HasEvent(n)
        BY <4>1, ChangesStay
      <4>3. PICK j \in 1..i : events[j].change = n
        BY <2>4, <3>1, <4>1, <4>2 DEF EventsInTurn
      <4>4. events'[j] = events[j]
        BY <2>4, <3>1
      <4> QED
        BY <4>3, <4>4
    <3>2. CASE i = Len(events) + 1
      <4>1. n \in 1..(transformed + 1)
        BY <2>2, <2>4, <3>2
      <4>2. CASE n = transformed + 1
        BY <2>2, <2>4, <3>2, <4>2
      <4>3. CASE n \in 1..transformed
        <5>1. n \in 1..Len(changes)
          BY <1>2, <2>2, <4>3
        <5>2. TP!After(n) # 0 \/ TP!Before(n) # 0
          BY <5>1, ChangesStay, HasEventIs
        <5>3. PICK j \in DOMAIN events : events[j].change = n
          BY <1>1, <4>3, <5>2, Names DEF TP!HandledIsPublished
        <5>4. j \in 1..i /\ events'[j] = events[j]
          BY <2>4, <3>2
        <5> QED
          BY <5>3, <5>4
      <4> QED
        BY <1>2, <4>1, <4>2, <4>3
    <3> QED
      BY <2>4, <3>1, <3>2
  <2> QED
    BY <2>5, <2>6, <2>7 DEF EventsInTurn
<1> QED
  BY <1>4, <1>5, EventSteps

-----------------------------------------------------------------------------
(* The queue and what the callbacks got *)

\* What the subscription's stream got, it got after all events before.
QueueInTurn ==
    \A m \in DOMAIN queue[portal] : \A e \in 1..queue[portal][m] :
        \E k \in 1..m : queue[portal][k] = e

\* The callbacks got a message after all messages before.
ReceivedInTurn ==
    \A m \in received : m \in 1..lastSeq /\ \A k \in 1..m : k \in received

LEMMA NextQueue == PartsInv /\ KnownInv /\ QueueInTurn /\ [Next]_vars => QueueInTurn'
<1> SUFFICES ASSUME PartsInv, KnownInv, QueueInTurn, [Next]_vars PROVE QueueInTurn'
  OBVIOUS
<1>1. /\ queue \in [{portal} -> Seq(1..Len(published))] /\ published \in Seq({topic})
      /\ current \in 0..Len(published) /\ incoming \subseteq 1..Len(published)
      /\ targets # {} => current # 0
  BY DEF PartsInv, DP!TypeOK
<1>2. CASE UNCHANGED queue
  BY <1>2 DEF QueueInTurn
<1>3. CASE D!Send(portal) /\ queue' # queue
  <2>1. queue' = [queue EXCEPT ![portal] = Append(@, current)] /\ current # 0
    BY <1>1, <1>3 DEF D!Send
  <2> DEFINE q == queue[portal]
  <2>2. q \in Seq(1..Len(published)) /\ queue'[portal] = Append(q, current)
    BY <1>1, <2>1
  <2>3. current \in 1..Len(published)
    BY <1>1, <2>1
  <2>4. /\ DOMAIN q = 1..Len(q) /\ DOMAIN queue'[portal] = 1..(Len(q) + 1) /\ Len(q) \in Nat
        /\ queue'[portal][Len(q) + 1] = current
        /\ \A i \in 1..Len(q) : queue'[portal][i] = q[i]
    BY <2>2, <2>3, DP!AppendFacts, DispatcherAssumptions
  <2>5. SUFFICES ASSUME NEW m \in 1..(Len(q) + 1), NEW e \in 1..queue'[portal][m]
                 PROVE  \E k \in 1..m : queue'[portal][k] = e
    BY <2>4 DEF QueueInTurn
  <2>6. CASE m \in 1..Len(q)
    <3>1. PICK k \in 1..m : q[k] = e
      BY <2>4, <2>6 DEF QueueInTurn
    <3>2. k \in 1..Len(q)
      BY <2>4, <2>6
    <3>3. queue'[portal][k] = e
      BY <2>4, <3>1, <3>2
    <3> QED
      BY <3>3
  <2>7. CASE m = Len(q) + 1
    <3>1. e \in 1..current
      BY <2>4, <2>7
    <3>2. CASE e = current
      BY <2>4, <2>7, <3>2
    <3>3. CASE e < current
      <4>1. e \in promised[portal] /\ e \notin incoming
        BY <1>1, <2>1, <2>3, <3>1, <3>3 DEF KnownInv, PartsInv, DP!OrderInv, DP!CurrentIsFirst
      <4>2. PICK k \in DOMAIN q : q[k] = e
        BY <4>1 DEF PartsInv, DP!OwedInv, DP!NoOwedEventLost
      <4> QED
        BY <2>4, <2>7, <4>2
    <3> QED
      BY <1>1, <3>1, <3>2, <3>3
  <2> QED
    BY <2>5, <2>6, <2>7
<1> QED
  BY <1>2, <1>3, QueueSteps

LEMMA NextReceived == PartsInv /\ KnownInv /\ ReceivedInTurn /\ [Next]_vars => ReceivedInTurn'
<1> SUFFICES ASSUME PartsInv, KnownInv, ReceivedInTurn, [Next]_vars PROVE ReceivedInTurn'
  OBVIOUS
<1>1. MP!ServerTypes /\ MP!ClientTypes
  BY DEF PartsInv, MP!TypeInv
<1>2. lastSeq \in Nat /\ delivered <= lastSeq /\ delivered \in Nat
  BY <1>1, MessagesAssumptions, MP!NumberFacts
<1>3. lastSeq' \in {lastSeq, lastSeq + 1}
  BY QueueSteps
<1>4. \A m \in 1..lastSeq : m \in 1..lastSeq'
  BY <1>2, <1>3
<1>5. CASE UNCHANGED received
  BY <1>4, <1>5 DEF ReceivedInTurn
<1>6. CASE M!RunCallbacks
  <2>1. cpc = "handling" /\ M!OfThisStream
    BY <1>6 DEF M!RunCallbacks, M!OfThisStream, KnownInv, M!handlerUnchanged, M!subVars
  <2>2. received' = received \cup {message}
    BY <1>6, <2>1 DEF M!RunCallbacks
  <2>3. MP!OfThisStream
    BY <2>1 DEF M!OfThisStream, MP!OfThisStream
  <2>4. message \in MP!Messages /\ MP!WorksOn(message)
    BY <2>1, <2>3, MessagesAssumptions, MP!Working DEF PartsInv
  <2>5. MP!InTurn(message)
    BY <2>4 DEF PartsInv, MP!TurnInv, MP!ClientInv
  <2>6. message \in 1..lastSeq
    BY <1>2, <2>4, <2>5 DEF MP!Messages, MP!InTurn
  <2>7. ASSUME NEW k \in 1..message PROVE k \in received'
    <3>1. CASE k = message
      BY <2>2, <3>1
    <3>2. CASE k < message
      <4>1. k \notin waiting
        BY <1>1, <2>5, <2>6, <3>2 DEF KnownInv, MP!InTurn, MP!ServerTypes
      <4>2. k \in 1..lastSeq
        BY <1>2, <2>6
      <4> QED
        BY <2>2, <4>1, <4>2 DEF PartsInv, KnownInv, MP!AckInv, MP!HandledBeforeDeleted
    <3> QED
      BY <2>6, <3>1, <3>2
  <2> QED
    BY <1>4, <2>2, <2>6, <2>7 DEF ReceivedInTurn
<1>7. M!RunCallbacks \/ UNCHANGED received
  BY DEF Next, Listen, Transform, PostEvent, StartDispatcher, LoadMapping, StartWatch, TakeUpdate,
         PushEvent, HandleEvent, ForwardEvent, ExpireAckWait, GetHandler, AckHandler, Consume,
         Faults, FailToTransform, PostEventUnanswered, FailToDispatch, FailToConsume,
         othersOfDispatcher, othersOfMessages, M!Publish, M!ExpireAckWait, M!StartGet, M!PassGate,
         M!FetchNothing, M!DropReply, M!Fetch, M!AcknowledgeMessage, M!Client, M!SendGet,
         M!ReceiveReply, M!ReceiveError, M!SendAck, M!LoseAckResponse, M!CrashClient, M!RestartApi,
         M!MissDelivery, M!apiUnchanged
<1> QED
  BY <1>5, <1>6, <1>7

-----------------------------------------------------------------------------
(* The properties *)

JointInv == PartsInv /\ KnownInv /\ MeetInv /\ EventsInTurn /\ QueueInTurn /\ ReceivedInTurn

LEMMA AlwaysJoint == Spec => [](JointInv /\ FaultsInAll <= MaxFaults)
<1>1. Init => JointInv
  <2> SUFFICES ASSUME Init PROVE JointInv
    OBVIOUS
  <2>1. MeetInv /\ QueueInTurn /\ ReceivedInTurn
    BY DEF Init, T!Init, M!Init, MeetInv, QueueInTurn, ReceivedInTurn
  <2> QED
    BY <2>1, InitParts, InitKnown, InitEvents DEF JointInv
<1>2. Init => FaultsInAll <= MaxFaults
  BY BoundsAssumption DEF Init, T!Init, M!Init, FaultsInAll
<1>3. JointInv /\ [Next]_vars => JointInv'
  BY NextParts, NextKnown, NextMeet, NextEvents, NextQueue, NextReceived DEF JointInv
<1>4. FaultsInAll <= MaxFaults /\ [Next]_vars => (FaultsInAll <= MaxFaults)'
  BY DEF Next, FaultsInAll
<1> QED
  BY <1>1, <1>2, <1>3, <1>4, PTL DEF Spec

\* The variables of all three components have their types; every event that was posted
\* is in the dispatcher stream, every one forwarded in that of the subscription.
THEOREM TypeCorrect == Spec => []TypeOK
<1>1. JointInv /\ FaultsInAll <= MaxFaults => TypeOK
  <2> SUFFICES ASSUME JointInv, FaultsInAll <= MaxFaults PROVE TypeOK
    OBVIOUS
  <2>1. T!TypeOK
    BY DEF JointInv, PartsInv, TP!TypeInv, TP!TypeOK, T!TypeOK, TP!ChangeRecord, T!ChangeRecord,
           TP!Event, T!Event
  <2>2. D!TypeOK
    BY DEF JointInv, PartsInv, DP!TypeOK, D!TypeOK, DP!IsFiniteSet, D!IsFiniteSet, DP!CallSteps,
           D!CallSteps
  <2>3. M!TypeOK
    <3>1. MP!PrefillTypes
      <4>1. MP!ServerTypes /\ filling = FALSE
        BY DEF JointInv, PartsInv, KnownInv, MP!TypeInv
      <4>2. lastSeq \in Nat
        BY <4>1, MP!NumberFacts, MessagesAssumptions
      <4>3. 0 \in 0..1 /\ 0 \in 0..lastSeq
        BY <4>2
      <4>4. filling \in BOOLEAN
        BY <4>1
      <4>5. ~filling
        BY <4>1, Zenon
      <4> QED
        BY <4>3, <4>4, <4>5 DEF MP!PrefillTypes
    <3>2. MP!TypeOK
      BY <3>1, MessagesAssumptions, MP!TypeInvIsStronger DEF JointInv, PartsInv
    <3> QED
      BY <3>2 DEF MP!TypeOK, M!TypeOK, M!Messages, MP!Messages, M!Nobody, MP!Nobody
  <2> QED
    BY <2>1, <2>2, <2>3 DEF JointInv, MeetInv, TypeOK
<1> QED
  BY <1>1, AlwaysJoint, PTL

\* What the queue holds in place m, and the change that is told there.
LEMMA PlaceFacts ==
    ASSUME JointInv
    PROVE  /\ DOMAIN queue[portal] = 1..lastSeq /\ lastSeq \in Nat
           /\ DOMAIN events = 1..Len(events)
           /\ \A m \in 1..lastSeq : queue[portal][m] \in DOMAIN events
           /\ \A i \in DOMAIN events : events[i].change \in 1..Len(changes)
<1>1. /\ events \in Seq(TP!Event) /\ changes \in Seq(TP!ChangeRecord) /\ transformed \in Nat
      /\ queue \in [{portal} -> Seq(1..Len(published))] /\ published \in Seq({topic})
      /\ TP!TypeOK
  BY DEF JointInv, PartsInv, TP!TypeInv, TP!TypeOK, DP!TypeOK
<1>2. queue[portal] \in Seq(1..Len(published))
  BY <1>1
<1>3. DOMAIN queue[portal] = 1..lastSeq /\ lastSeq \in Nat
  BY <1>2 DEF JointInv, MeetInv
<1>4. DOMAIN events = 1..Len(events)
  BY <1>1
<1>5. \A m \in 1..lastSeq : queue[portal][m] \in DOMAIN events
  BY <1>2, <1>3, <1>4 DEF JointInv, MeetInv
<1>6. \A i \in DOMAIN events : events[i].change \in Nat /\ events[i].change >= 1
  BY <1>1, TransformerAssumptions, TP!EventOfChange, BoundsAssumption
<1>7. \A i \in DOMAIN events : events[i].change \in 1..Len(changes)
  BY <1>1, <1>6 DEF JointInv, PartsInv, TP!IInv, TP!EventsInv
<1> QED
  BY <1>3, <1>4, <1>5, <1>7

\* The callbacks get the changes in turn, none left out.
THEOREM ConsumerIsToldInTurn == Spec => []ToldInTurn
<1>1. JointInv => ToldInTurn
  <2> SUFFICES ASSUME JointInv, NEW m \in received, NEW n \in 1..ChangeOf(m), HasEvent(n)
               PROVE  \E k \in received : k <= m /\ ChangeOf(k) = n
    BY DEF ToldInTurn
  <2>1. m \in 1..lastSeq /\ \A k \in 1..m : k \in received
    BY DEF JointInv, ReceivedInTurn
  <2>2. queue[portal][m] \in DOMAIN events /\ m \in DOMAIN queue[portal]
    BY <2>1, PlaceFacts
  <2>3. PICK i \in 1..queue[portal][m] : events[i].change = n
    BY <2>2 DEF JointInv, EventsInTurn, ChangeOf, EventOf
  <2>4. PICK k \in 1..m : queue[portal][k] = i
    BY <2>2 DEF JointInv, QueueInTurn
  <2>5. k \in received /\ k <= m /\ ChangeOf(k) = n
    BY <2>1, <2>3, <2>4 DEF ChangeOf, EventOf
  <2> QED
    BY <2>5
<1> QED
  BY <1>1, AlwaysJoint, PTL

\* A set of numbers with a bound has a largest one.
LEMMA MaxIsLargest ==
    ASSUME NEW n \in Nat, NEW S \in SUBSET (0..n), S # {}
    PROVE  Max(S) \in S /\ \A y \in S : y <= Max(S)
<1> DEFINE less == {ss \in Nat \X Nat : ss[1] < ss[2]}
<1> DEFINE distances == {n - x : x \in S}
<1>1. IsWellFoundedOn(less, Nat)
  BY NatLessThanWellFounded DEF OpToRel
<1>2. distances \in SUBSET Nat
  OBVIOUS
<1>9. distances # {}
  OBVIOUS
<1>3. \E t \in distances : \A u \in distances : ~(<<u, t>> \in less)
  <2> HIDE DEF distances, less
  <2> QED
    BY <1>1, <1>2, <1>9, WFMin
<1>4. PICK x \in S : \A u \in distances : ~(<<u, n - x>> \in less)
  BY <1>3
<1>5. \A y \in S : n - y \in distances /\ n - y \in Nat /\ n - x \in Nat
  OBVIOUS
<1>6. \A y \in S : ~(n - y < n - x)
  BY <1>4, <1>5
<1>7. \A y \in S : x >= y
  BY <1>6
<1>8. \E z \in S : \A y \in S : z >= y
  BY <1>7
<1> QED
  BY <1>8 DEF Max

\* Of two places of the queue, the later one tells a later change, or the same.
LEMMA ToldForward ==
    ASSUME JointInv, NEW k \in 1..lastSeq, NEW m \in 1..lastSeq, k <= m
    PROVE  ChangeOf(k) <= ChangeOf(m)
<1>1. queue[portal][k] \in DOMAIN events /\ queue[portal][m] \in DOMAIN events
  BY PlaceFacts
<1>2. \A i \in DOMAIN events : i \in Nat /\ events[i].change \in Nat
  BY PlaceFacts
<1>3. queue[portal][k] <= queue[portal][m]
  <2>1. CASE k < m
    BY <2>1, PlaceFacts DEF JointInv, PartsInv, DP!OrderInv, DP!OrderRetained
  <2>2. CASE k = m
    BY <1>1, <1>2, <2>2
  <2> QED
    BY <2>1, <2>2
<1>4. CASE queue[portal][k] < queue[portal][m]
  BY <1>1, <1>4 DEF JointInv, EventsInTurn, ChangeOf, EventOf
<1>5. CASE queue[portal][k] = queue[portal][m]
  BY <1>1, <1>2, <1>5 DEF ChangeOf, EventOf
<1> QED
  BY <1>1, <1>2, <1>3, <1>4, <1>5

\* What is told of a change is the object as the change left it, and only changes with
\* an event are told.
LEMMA ToldTruly ==
    ASSUME JointInv, NEW m \in 1..lastSeq
    PROVE  /\ ChangeOf(m) \in 1..Len(changes)
           /\ EventOf(m).new = T!After(ChangeOf(m))
           /\ HasEvent(ChangeOf(m))
<1>1. queue[portal][m] \in DOMAIN events
  BY PlaceFacts
<1>2. ChangeOf(m) \in 1..Len(changes)
  BY <1>1, PlaceFacts DEF ChangeOf, EventOf
<1>3. EventOf(m).old # 0 \/ EventOf(m).new # 0
  BY <1>1 DEF JointInv, EventsInTurn, EventOf
<1>4. /\ EventOf(m).new = TP!After(ChangeOf(m))
      /\ EventOf(m).old = TP!Before(ChangeOf(m)) \/ EventOf(m).old = TP!After(ChangeOf(m))
  BY <1>1, Names DEF JointInv, PartsInv, TP!IInv, TP!EventTellsItsChange, ChangeOf, EventOf
<1> QED
  BY <1>2, <1>3, <1>4, Names DEF HasEvent

\* At rest every change with an event has been told.
LEMMA ToldAtRest ==
    ASSUME JointInv, AtRest, NEW n \in 1..Len(changes), HasEvent(n)
    PROVE  \E m \in received : m \in 1..lastSeq /\ ChangeOf(m) = n
<1>1. PICK i \in DOMAIN events : events[i].change = n
  BY Names DEF JointInv, PartsInv, TP!IInv, TP!HandledIsPublished, AtRest, HasEvent
<1>2. i \in promised[portal] /\ i \notin incoming
  BY <1>1, PlaceFacts DEF JointInv, KnownInv, MeetInv, AtRest
<1>3. PICK m \in DOMAIN queue[portal] : queue[portal][m] = i
  BY <1>2 DEF JointInv, PartsInv, DP!OwedInv, DP!NoOwedEventLost
<1>4. m \in 1..lastSeq
  BY <1>3, PlaceFacts
<1>5. m \in received
  BY <1>4 DEF JointInv, PartsInv, KnownInv, AtRest, MP!AckInv, MP!HandledBeforeDeleted
<1> QED
  BY <1>1, <1>3, <1>4, <1>5 DEF ChangeOf, EventOf

\* At rest the last thing the callbacks got of an object is the object as the last
\* change left it.
THEOREM ConsumerEndsCurrent == Spec => []ConsumerIsCurrent
<1>1. JointInv => ConsumerIsCurrent
  <2> SUFFICES ASSUME JointInv, AtRest, NEW o \in Objects, ChangesOf(o) # {}
               PROVE  /\ Told(o) # {}
                      /\ EventOf(Max(Told(o))).new = T!After(Max(ChangesOf(o)))
    BY DEF ConsumerIsCurrent
  <2>1. changes \in Seq(TP!ChangeRecord) /\ Len(changes) \in Nat /\ DOMAIN changes = 1..Len(changes)
    <3>1. changes \in Seq(TP!ChangeRecord)
      BY DEF JointInv, PartsInv, TP!TypeInv, TP!TypeOK
    <3> QED
      BY <3>1
  <2>2. PICK c \in ChangesOf(o) : c = Max(ChangesOf(o)) /\ \A n \in ChangesOf(o) : n <= c
    <3>1. ChangesOf(o) \in SUBSET (0..Len(changes))
      BY <2>1 DEF ChangesOf
    <3> QED
      BY <2>1, <3>1, MaxIsLargest
  <2>3. c \in 1..Len(changes) /\ changes[c].obj = o /\ HasEvent(c)
    BY <2>1 DEF ChangesOf
  <2>4. PICK k \in received : k \in 1..lastSeq /\ ChangeOf(k) = c
    BY <2>3, ToldAtRest
  <2>5. k \in Told(o)
    BY <2>3, <2>4 DEF Told
  <2>6. lastSeq \in Nat /\ \A l \in received : l \in 1..lastSeq /\ l \in 0..lastSeq
    <3>1. lastSeq \in Nat /\ \A l \in received : l \in 1..lastSeq
      BY PlaceFacts DEF JointInv, ReceivedInTurn
    <3>2. \A l \in 1..lastSeq : l \in 0..lastSeq
      BY <3>1
    <3> QED
      BY <3>1, <3>2
  <2>7. PICK m \in Told(o) : m = Max(Told(o)) /\ \A l \in Told(o) : l <= m
    <3>1. \A l \in Told(o) : l \in received
      BY DEF Told
    <3>2. Told(o) \in SUBSET (0..lastSeq)
      BY <2>6, <3>1, Zenon
    <3> QED
      BY <2>5, <2>6, <3>2, MaxIsLargest
  <2>8. m \in 1..lastSeq /\ changes[ChangeOf(m)].obj = o
    BY <2>6 DEF Told
  <2>9. ChangeOf(m) \in ChangesOf(o)
    BY <2>1, <2>8, ToldTruly DEF ChangesOf
  <2>10. c <= ChangeOf(m)
    BY <2>4, <2>5, <2>7, <2>8, ToldForward
  <2>11. ChangeOf(m) = c
    BY <2>2, <2>3, <2>8, <2>9, <2>10, ToldTruly
  <2>12. EventOf(m).new = T!After(c)
    BY <2>8, <2>11, ToldTruly
  <2> QED
    BY <2>2, <2>5, <2>7, <2>12
<1> QED
  BY <1>1, AlwaysJoint, PTL

=============================================================================
