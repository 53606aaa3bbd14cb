----------------------- MODULE SubscriptionService_proofs -----------------------
(***************************************************************************)
(* Proofs about SubscriptionService, for any number of handlers that work  *)
(* on one subscription at the same time: types, and that a call that was   *)
(* not in the way of others does what it answers.                          *)
(***************************************************************************)
EXTENDS SubscriptionService, TLAPS

USE DEF vars, server, bounds

-----------------------------------------------------------------------------
(* What the properties rest on *)

HandlersInv ==
    /\ handler \in [Handlers -> Handler \cup {Free}]
    /\ \A h \in Handlers : Active(h) /\ handler[h].at = "write status" => handler[h].read # None

ServerInv ==
    /\ credentials \in Hash \cup {None}
    /\ info \in Info \cup {None}
    /\ exists \in BOOLEAN /\ consumer \in BOOLEAN
    /\ consumer => exists
    /\ requests \in Seq(Topics)
    /\ disturbed \in BOOLEAN
    /\ calls \in 0..MaxCalls /\ deaths \in 0..MaxDeaths

TypeInv == ServerInv /\ HandlersInv

\* Each operation has its own steps, and who calls it is decided from the start.
RegisterSteps == {"register", "compare", "credentials", "info", "stream", "consumer", "request",
                  "exists", "conflict", "created", "refused"}
LoginSteps == {"login", "rehash", "refused"}
DeleteSteps == {"delete", "delete credentials", "delete info", "delete stream",
                "delete consumer", "deleted", "not found"}

Legal(op, caller, at) ==
    \/ op = "register" /\ at \in RegisterSteps /\ (caller = "consumer" => at = "refused")
    \/ op = "delete" /\ at \in LoginSteps \cup DeleteSteps
         /\ (at \in LoginSteps => caller = "consumer")
    \/ op = "report" /\ caller = "prefill"
         /\ at \in {"report", "write status", "reported", "not found"}
    \/ op = "list" /\ caller = "admin" /\ at \in {"list", "list entry", "listed", "failed"}
    \/ op = "show" /\ caller = "consumer" /\ at \in LoginSteps \cup {"show", "shown", "not found"}

ProgramInv ==
    \A h \in Handlers : Active(h) => Legal(handler[h].op, handler[h].caller, handler[h].at)

\* Who is not alone knows it, and who has only the company of repetitions is a
\* registration like them.
CompanyInv ==
    \A h \in Handlers : Active(h) =>
        /\ handler[h].company = "same" => handler[h].op = "register"
        /\ \A g \in Handlers \ {h} : Active(g) =>
             /\ handler[h].company # "nobody"
             /\ handler[h].company = "same" =>
                  handler[g].op = "register" /\ handler[g].par = handler[h].par

\* What a registration has done so far stays done, unless others are in its way.
HasRegistered(h) ==
    /\ handler[h].at \in {"info", "stream", "consumer", "request", "created"} =>
         credentials = NewHash(Par(h).password)
    /\ handler[h].at \in {"stream", "consumer", "request", "created"} => info = NewInfo(Par(h))
    /\ handler[h].at \in {"consumer", "request", "created"} => exists
    /\ handler[h].at \in {"request", "created"} => consumer
    /\ Len(requests) >= Len(Before(h).requests)
    /\ handler[h].at = "created" /\ Par(h).prefill =>
         /\ Len(requests) > Len(Before(h).requests)
         /\ requests[Len(requests)] = Par(h).topics

RegisteredInv ==
    \A h \in Handlers : Active(h) /\ handler[h].op = "register" /\ handler[h].company # "others" =>
        HasRegistered(h)

\* What a call that has been alone so far has done, from step to step.
LookedAt(h) == Now = IF handler[h].caller # "consumer" THEN Before(h)
                     ELSE [Before(h) EXCEPT !.credentials = NewHash(Par(h).password)]

HasDone(h) ==
    /\ handler[h].at \in {"register", "compare", "credentials", "exists", "conflict", "list",
                          "list entry", "listed", "failed", "report", "write status"}
                           \cup LoginSteps => Now = Before(h)
    /\ handler[h].at \in {"delete", "delete credentials", "show", "shown", "not found"} =>
         LookedAt(h)
    /\ handler[h].at = "write status" => handler[h].read = info
    /\ handler[h].at = "reported" => Now = [Before(h) EXCEPT !.info.status = handler[h].status]
    /\ handler[h].at \in {"delete info", "delete stream", "delete consumer", "deleted"} =>
         credentials = None
    /\ handler[h].at \in {"delete stream", "delete consumer", "deleted"} => info = None
    /\ handler[h].at \in {"delete consumer", "deleted"} => ~exists /\ ~consumer

LoneInv == \A h \in Handlers : Alone(h) => HasDone(h)

\* Behind the login is who knew the password when the call began, and nobody else.
Knew(h) == /\ handler[h].op # "register"
           /\ Before(h).credentials # None /\ Before(h).credentials.password = Par(h).password
LoggedIn(h) ==
    handler[h].caller = "consumer" =>
        /\ handler[h].at = "refused" => ~Knew(h)
        /\ handler[h].at \notin {"login", "refused"} => Knew(h)

LoginInv == \A h \in Handlers : Alone(h) => LoggedIn(h)

\* Undisturbed, there are credentials exactly if there is an entry, except between
\* the writes of the two.
Halfway(h) == Active(h) /\ handler[h].at \in {"info", "delete info"}
ListInv ==
    ~disturbed =>
        /\ \A h \in Handlers : Active(h) => handler[h].company # "others"
        /\ (\A h \in Handlers : ~Halfway(h)) => (credentials = None <=> info = None)
        /\ \A h \in Handlers : Active(h) =>
             /\ handler[h].at = "list" => handler[h].read = None
             /\ handler[h].at = "list entry" => credentials # None
             /\ handler[h].at \in {"listed", "shown"} => handler[h].read = info
             /\ handler[h].at # "failed"

IInv == ProgramInv /\ CompanyInv /\ RegisteredInv /\ LoneInv /\ LoginInv /\ ListInv

-----------------------------------------------------------------------------
(* Data *)

LEMMA SomeParameters == anyParameters \in Parameters
<1>1. \E par : par \in Parameters
  <2>1. PICK pw \in Passwords, t \in Topics : TRUE
    BY ParametersAssumption
  <2>2. [password |-> pw, prefill |-> TRUE, topics |-> t] \in Parameters
    BY DEF Parameters
  <2> QED
    BY <2>2
<1> QED
  BY <1>1 DEF anyParameters

LEMMA PasswordParameters ==
    \A pw \in Passwords : WithPassword(pw) \in Parameters /\ WithPassword(pw).password = pw
  BY SomeParameters DEF WithPassword, Parameters

LEMMA HashType == \A pw \in Passwords : NewHash(pw) \in Hash /\ NewHash(pw).password = pw
  BY DEF NewHash, Hash

LEMMA InfoType == \A par \in Parameters : NewInfo(par) \in Info
  BY DEF NewInfo, Info, Parameters, Status

\* An entry or a hash is there or it is not.
LEMMA NoneIsNothing == None \notin Hash /\ None \notin Info
<1>1. DOMAIN None = {"none"}
  BY DEF None
<1>2. \A x \in Hash : DOMAIN x = {"password", "outdated"}
  BY DEF Hash
<1>3. \A x \in Info : DOMAIN x = {"prefill", "topics", "status"}
  BY DEF Info
<1> QED
  BY <1>1, <1>2, <1>3

LEMMA NowType ==
    ASSUME ServerInv
    PROVE  /\ Now \in [credentials : Hash \cup {None}, info : Info \cup {None},
                       exists : BOOLEAN, consumer : BOOLEAN, requests : Seq(Topics)]
           /\ Forgotten \in [credentials : Hash \cup {None}, info : Info \cup {None},
                             exists : BOOLEAN, consumer : BOOLEAN, requests : Seq(Topics)]
  BY DEF ServerInv, Now, Forgotten

\* A handler that goes on, or that has read the entry.
LEMMA HandlerGoesOn ==
    ASSUME NEW x \in Handler, NEW s \in Steps \cup Answers
    PROVE  /\ [x EXCEPT !.at = s] \in Handler
           /\ [x EXCEPT !.at = s].at = s /\ [x EXCEPT !.at = s].read = x.read
  BY DEF Handler

LEMMA HandlerReads ==
    ASSUME NEW x \in Handler, NEW i \in Info \cup {None}
    PROVE  [x EXCEPT !.read = i] \in Handler /\ [x EXCEPT !.read = i].read = i
  BY DEF Handler

-----------------------------------------------------------------------------
(* Types *)

LEMMA InitType == Init => TypeInv
<1> SUFFICES ASSUME Init PROVE TypeInv
  OBVIOUS
<1>1. credentials \in Hash \cup {None} /\ info \in Info \cup {None}
  BY DEF Init, Hash, Info, Status
<1>2. exists \in BOOLEAN /\ consumer \in BOOLEAN /\ (consumer => exists)
  BY DEF Init
<1>3. HandlersInv
  BY DEF Init, HandlersInv, Active
<1>4. /\ requests \in Seq(Topics) /\ disturbed \in BOOLEAN
      /\ calls \in 0..MaxCalls /\ deaths \in 0..MaxDeaths
  <2>1. requests = <<>> /\ disturbed = FALSE /\ calls = 0 /\ deaths = 0
    BY Zenon DEF Init
  <2>2. MaxCalls \in Nat /\ MaxDeaths \in Nat
    BY BoundsAssumption
  <2>3. calls \in 0..MaxCalls /\ deaths \in 0..MaxDeaths
    BY <2>1, <2>2
  <2>4. requests \in Seq(Topics)
    BY <2>1
  <2> QED
    BY <2>1, <2>3, <2>4
<1> QED
  BY <1>1, <1>2, <1>3, <1>4 DEF TypeInv, ServerInv

\* One handler goes on, or ends.
LEMMA OneMoves ==
    ASSUME HandlersInv, NEW h \in Handlers, NEW x \in Handler \cup {Free},
           x # Free /\ x.at = "write status" => x.read # None,
           handler' = [handler EXCEPT ![h] = x]
    PROVE  HandlersInv'
<1>1. \A g \in Handlers : handler'[g] = IF g = h THEN x ELSE handler[g]
  BY DEF HandlersInv
<1> QED
  BY <1>1 DEF HandlersInv, Active

LEMMA GotoType ==
    ASSUME HandlersInv, NEW h \in Handlers, Active(h),
           NEW s \in (Steps \cup Answers) \ {"write status"}, Goto(h, s)
    PROVE  HandlersInv'
<1>1. handler[h] \in Handler
  BY DEF HandlersInv, Active
<1>2. handler' = [handler EXCEPT ![h] = [handler[h] EXCEPT !.at = s]]
  BY DEF Goto
<1> QED
  BY <1>1, <1>2, HandlerGoesOn, OneMoves

LEMMA ReadType ==
    ASSUME HandlersInv, NEW h \in Handlers, Active(h), info \in Info \cup {None},
           NEW s \in Steps \cup Answers, s = "write status" => info # None,
           handler' = [handler EXCEPT ![h].read = info, ![h].at = s]
    PROVE  HandlersInv'
<1> DEFINE x == [handler[h] EXCEPT !.read = info]
           y == [x EXCEPT !.at = s]
<1>1. handler[h] \in Handler
  BY DEF HandlersInv, Active
<1>2. handler' = [handler EXCEPT ![h] = y]
  BY DEF HandlersInv
<1>3. x \in Handler /\ x.read = info
  BY <1>1, HandlerReads
<1> HIDE DEF x
<1>4. y \in Handler /\ y.at = s /\ y.read = info
  BY <1>3, HandlerGoesOn
<1> HIDE DEF y
<1> QED
  BY <1>2, <1>4, OneMoves

LEMMA FirstStepType ==
    ASSUME NEW op \in Operations, NEW caller \in Callers
    PROVE  FirstStep(op, caller) \in (Steps \cup Answers) \ {"write status"}
  BY DEF FirstStep, Operations, Steps, Answers

LEMMA BeginType ==
    ASSUME TypeInv, NEW h \in Handlers, NEW op \in Operations, NEW caller \in Callers,
           NEW par \in Parameters, NEW status \in Status, Begin(h, op, caller, par, status)
    PROVE  TypeInv'
<1> DEFINE others == {g \in Handlers : Active(g)}
           company == IF others = {} THEN "nobody"
                      ELSE IF \A g \in others : Repeats(g, op, par) THEN "same" ELSE "others"
           new == [op |-> op, at |-> FirstStep(op, caller), caller |-> caller,
                   par |-> par, status |-> status, read |-> None, company |-> company,
                   before |-> IF company = "others" THEN Forgotten ELSE Now]
<1>1. /\ calls < MaxCalls /\ calls' = calls + 1 /\ UNCHANGED <<server, deaths>>
      /\ disturbed' = (disturbed \/ company = "others")
  BY DEF Begin
<1>2. handler' = [g \in Handlers |->
         IF g = h THEN new
         ELSE IF ~Active(g) THEN Free
         ELSE IF Repeats(g, op, par) /\ handler[g].company # "others"
           THEN [handler[g] EXCEPT !.company = "same"]
         ELSE [handler[g] EXCEPT !.company = "others", !.before = Forgotten]]
  BY Zenon DEF Begin
<1>3. new \in Handler /\ new.at # "write status"
  <2>1. company \in {"nobody", "same", "others"}
    OBVIOUS
  <2> HIDE DEF company
  <2> QED
    BY <2>1, NowType, FirstStepType DEF TypeInv, Handler
<1> HIDE DEF new, company
<1>4. ASSUME NEW g \in Handlers
      PROVE  /\ handler'[g] \in Handler \cup {Free}
             /\ handler'[g] # Free /\ handler'[g].at = "write status" => handler'[g].read # None
  <2>1. CASE g = h
    BY <1>2, <1>3, <2>1
  <2>2. CASE g # h /\ ~Active(g)
    BY <1>2, <2>2
  <2>3. CASE g # h /\ Active(g)
    <3>1. /\ handler[g] \in Handler
          /\ handler[g].at = "write status" => handler[g].read # None
      BY <2>3 DEF TypeInv, HandlersInv, Active
    <3>2. /\ [handler[g] EXCEPT !.company = "same"] \in Handler
          /\ [handler[g] EXCEPT !.company = "same"].at = handler[g].at
          /\ [handler[g] EXCEPT !.company = "same"].read = handler[g].read
      BY <3>1 DEF Handler
    <3>3. /\ [handler[g] EXCEPT !.company = "others", !.before = Forgotten] \in Handler
          /\ [handler[g] EXCEPT !.company = "others", !.before = Forgotten].at = handler[g].at
          /\ [handler[g] EXCEPT !.company = "others", !.before = Forgotten].read = handler[g].read
      BY <3>1, NowType DEF Handler, TypeInv
    <3> QED
      BY <1>2, <2>3, <3>1, <3>2, <3>3
  <2> QED
    BY <2>1, <2>2, <2>3
<1>5. HandlersInv'
  BY <1>2, <1>4 DEF HandlersInv, Active
<1>6. ServerInv'
  BY <1>1, BoundsAssumption DEF TypeInv, ServerInv
<1> QED
  BY <1>5, <1>6 DEF TypeInv

-----------------------------------------------------------------------------
(* The steps of the handlers under way *)

Works(h) ==
    \/ ReadForRegistration(h) \/ ComparePassword(h) \/ StoreCredentials(h) \/ StoreInfo(h)
    \/ EnsureStream(h) \/ EnsureConsumer(h) \/ SendRequest(h)
    \/ ReadForDeletion(h) \/ DeleteCredentials(h) \/ DeleteInfo(h) \/ DeleteStream(h)
    \/ DeleteConsumer(h)
    \/ ReadForReport(h) \/ WriteStatus(h)
    \/ Verify(h) \/ Rehash(h) \/ Look(h)
    \/ ListNames(h) \/ ListEntry(h)
    \/ Answer(h) \/ Die(h)

\* Who may call what, with the right password or without.
MayCall(op, caller) ==
    \/ op = "register" /\ caller \in {"admin", "consumer"}
    \/ op = "delete" /\ caller \in {"admin", "consumer"}
    \/ op = "report" /\ caller = "prefill"
    \/ op = "list" /\ caller = "admin"
    \/ op = "show" /\ caller = "consumer"

\* A step is the beginning of a call, or one of a handler under way.
LEMMA BeginOrWork ==
    ASSUME Next
    PROVE  \E h \in Handlers :
             \/ Works(h)
             \/ \E op \in Operations, caller \in Callers, par \in Parameters, status \in Status :
                  MayCall(op, caller) /\ Begin(h, op, caller, par, status)
<1>1. PICK h \in Handlers : \/ Register(h) \/ Delete(h) \/ Report(h) \/ Show(h) \/ List(h)
                            \/ Answer(h) \/ Die(h)
  BY DEF Next
<1>2. ASSUME NEW op \in Operations, NEW caller \in Callers, NEW par \in Parameters,
             NEW status \in Status, MayCall(op, caller), Begin(h, op, caller, par, status)
      PROVE  \E o \in Operations, c \in Callers, p \in Parameters, s \in Status :
               MayCall(o, c) /\ Begin(h, o, c, p, s)
  BY <1>2
<1>3. /\ Operations = {"register", "delete", "report", "list", "show"}
      /\ Callers = {"admin", "prefill", "consumer"} /\ "pending" \in Status
  BY DEF Operations, Callers, Status
<1>4. CASE Register(h)
  <2>1. CASE \E par \in Parameters : Begin(h, "register", "admin", par, "pending")
    BY <1>2, <1>3, <2>1 DEF MayCall
  <2>2. CASE Begin(h, "register", "consumer", anyParameters, "pending")
    BY <1>2, <1>3, <2>2, SomeParameters DEF MayCall
  <2> QED
    BY <1>4, <2>1, <2>2 DEF Register, Works
<1>5. CASE Delete(h)
  <2>1. CASE Begin(h, "delete", "admin", anyParameters, "pending")
    BY <1>2, <1>3, <2>1, SomeParameters DEF MayCall
  <2>2. CASE \E pw \in Passwords : Begin(h, "delete", "consumer", WithPassword(pw), "pending")
    BY <1>2, <1>3, <2>2, PasswordParameters DEF MayCall
  <2> QED
    BY <1>5, <2>1, <2>2 DEF Delete, Works
<1>6. CASE Report(h)
  <2>1. CASE \E status \in Status \ {"pending"} : Begin(h, "report", "prefill", anyParameters, status)
    BY <1>2, <1>3, <2>1, SomeParameters DEF MayCall
  <2> QED
    BY <1>6, <2>1 DEF Report, Works
<1>7. CASE Show(h)
  <2>1. CASE \E pw \in Passwords : Begin(h, "show", "consumer", WithPassword(pw), "pending")
    BY <1>2, <1>3, <2>1, PasswordParameters DEF MayCall
  <2> QED
    BY <1>7, <2>1 DEF Show, Works
<1>8. CASE List(h)
  <2>1. CASE Begin(h, "list", "admin", anyParameters, "pending")
    BY <1>2, <1>3, <2>1, SomeParameters DEF MayCall
  <2> QED
    BY <1>8, <2>1 DEF List, Works
<1> QED
  BY <1>1, <1>4, <1>5, <1>6, <1>7, <1>8 DEF Works

\* What a call is about does not change while it is under way.
SameCall(h) ==
    /\ handler'[h].op = handler[h].op /\ handler'[h].caller = handler[h].caller
    /\ handler'[h].par = handler[h].par /\ handler'[h].status = handler[h].status
    /\ handler'[h].company = handler[h].company /\ handler'[h].before = handler[h].before

LEMMA GotoFacts ==
    ASSUME HandlersInv, NEW h \in Handlers, Active(h), NEW s \in Steps \cup Answers, Goto(h, s)
    PROVE  /\ \A g \in Handlers \ {h} : handler'[g] = handler[g]
           /\ SameCall(h) /\ handler'[h].at = s /\ handler'[h].read = handler[h].read
<1>1. handler[h] \in Handler
  BY DEF HandlersInv, Active
<1>2. handler' = [handler EXCEPT ![h] = [handler[h] EXCEPT !.at = s]]
  BY DEF Goto
<1> QED
  BY <1>1, <1>2 DEF HandlersInv, SameCall, Handler

LEMMA ReadFacts ==
    ASSUME TypeInv, NEW h \in Handlers, Active(h), NEW s \in Steps \cup Answers,
           handler' = [handler EXCEPT ![h].read = info, ![h].at = s]
    PROVE  /\ \A g \in Handlers \ {h} : handler'[g] = handler[g]
           /\ SameCall(h) /\ handler'[h].at = s /\ handler'[h].read = info
<1>1. handler[h] \in Handler
  BY DEF TypeInv, HandlersInv, Active
<1> DEFINE x == [handler[h] EXCEPT !.read = info]
<1>2. handler' = [handler EXCEPT ![h] = [x EXCEPT !.at = s]]
  BY DEF TypeInv, HandlersInv
<1>3. /\ x \in Handler /\ x.read = info
      /\ x.op = handler[h].op /\ x.caller = handler[h].caller /\ x.par = handler[h].par
      /\ x.status = handler[h].status /\ x.company = handler[h].company
      /\ x.before = handler[h].before
  BY <1>1 DEF Handler, TypeInv, ServerInv
<1> HIDE DEF x
<1> DEFINE y == [x EXCEPT !.at = s]
<1>4. /\ y.at = s /\ y.read = x.read
      /\ y.op = x.op /\ y.caller = x.caller /\ y.par = x.par
      /\ y.status = x.status /\ y.company = x.company /\ y.before = x.before
  BY <1>3 DEF Handler
<1> HIDE DEF y
<1>5. handler' = [handler EXCEPT ![h] = y]
  BY <1>2 DEF y
<1>6. handler'[h] = y /\ \A g \in Handlers \ {h} : handler'[g] = handler[g]
  BY <1>5 DEF TypeInv, HandlersInv
<1> QED
  BY <1>3, <1>4, <1>6 DEF SameCall

LEMMA EndFacts ==
    ASSUME HandlersInv, NEW h \in Handlers, handler' = [handler EXCEPT ![h] = Free]
    PROVE  HandlersInv' /\ ~Active(h)' /\ \A g \in Handlers \ {h} : handler'[g] = handler[g]
<1>1. ~Active(h)' /\ \A g \in Handlers \ {h} : handler'[g] = handler[g]
  BY DEF HandlersInv, Active
<1> QED
  BY <1>1, OneMoves

\* A step of a handler under way, in terms of where it stands before and after: the
\* other handlers stay where they are.
Moved(h, from, to) ==
    /\ Active(h) /\ handler[h].at = from /\ handler'[h].at = to
    /\ SameCall(h) /\ \A g \in Handlers \ {h} : handler'[g] = handler[g]
    /\ UNCHANGED <<disturbed, calls, deaths>>
Went(h, from, to) == Moved(h, from, to) /\ handler'[h].read = handler[h].read
Read(h, from, to) == Moved(h, from, to) /\ handler'[h].read = info

LEMMA Gone ==
    ASSUME HandlersInv, NEW h \in Handlers, NEW from, NEW to, At(h, from), Goto(h, to),
           UNCHANGED <<disturbed, calls, deaths>>
    PROVE  Went(h, from, to)
<1>1. handler[h] \in Handler /\ Active(h) /\ handler[h].at = from
  BY DEF HandlersInv, Active, At
<1>2. handler' = [handler EXCEPT ![h] = [handler[h] EXCEPT !.at = to]]
  BY DEF Goto
<1>3. /\ \A g \in Handlers \ {h} : handler'[g] = handler[g]
      /\ SameCall(h) /\ handler'[h].at = to /\ handler'[h].read = handler[h].read
  BY <1>1, <1>2 DEF HandlersInv, SameCall, Handler
<1> QED
  BY <1>1, <1>3 DEF Went, Moved

LEMMA RegisterMoves ==
    ASSUME TypeInv, NEW h \in Handlers
    PROVE  /\ ReadForRegistration(h) =>
                /\ UNCHANGED server
                /\ \/ info = None /\ Went(h, "register", "credentials")
                   \/ info # None /\ \E to \in {"compare", "conflict"} : Went(h, "register", to)
           /\ ComparePassword(h) =>
                UNCHANGED server /\ \E to \in {"exists", "conflict"} : Went(h, "compare", to)
           /\ StoreCredentials(h) =>
                /\ Went(h, "credentials", "info") /\ credentials' = NewHash(Par(h).password)
                /\ UNCHANGED <<info, exists, consumer, requests>>
           /\ StoreInfo(h) =>
                /\ Went(h, "info", "stream") /\ info' = NewInfo(Par(h))
                /\ UNCHANGED <<credentials, exists, consumer, requests>>
           /\ EnsureStream(h) =>
                /\ Went(h, "stream", "consumer") /\ exists' = TRUE
                /\ UNCHANGED <<credentials, info, consumer, requests>>
           /\ EnsureConsumer(h) /\ exists =>
                /\ \/ Par(h).prefill /\ Went(h, "consumer", "request")
                   \/ ~Par(h).prefill /\ Went(h, "consumer", "created")
                /\ consumer' = TRUE /\ UNCHANGED <<credentials, info, exists, requests>>
           /\ SendRequest(h) =>
                /\ Went(h, "request", "created") /\ requests' = Append(requests, Par(h).topics)
                /\ UNCHANGED <<credentials, info, exists, consumer>>
<1> HandlersInv
  BY DEF TypeInv
<1>1. ASSUME ReadForRegistration(h)
      PROVE  /\ UNCHANGED server
             /\ \/ info = None /\ Went(h, "register", "credentials")
                \/ info # None /\ \E to \in {"compare", "conflict"} : Went(h, "register", to)
  <2>1. CASE info = None
    BY <1>1, <2>1, Gone DEF ReadForRegistration
  <2>2. CASE info # None
    <3>1. Goto(h, "compare") \/ Goto(h, "conflict")
      BY <1>1, <2>2, Zenon DEF ReadForRegistration
    <3> QED
      BY <1>1, <2>2, <3>1, Gone DEF ReadForRegistration
  <2> QED
    BY <2>1, <2>2
<1>2. ASSUME ComparePassword(h)
      PROVE  UNCHANGED server /\ \E to \in {"exists", "conflict"} : Went(h, "compare", to)
  <2>1. Goto(h, "exists") \/ Goto(h, "conflict")
    BY <1>2, Zenon DEF ComparePassword
  <2> QED
    BY <1>2, <2>1, Gone DEF ComparePassword
<1>3. ASSUME StoreCredentials(h)
      PROVE  /\ Went(h, "credentials", "info") /\ credentials' = NewHash(Par(h).password)
             /\ UNCHANGED <<info, exists, consumer, requests>>
  BY <1>3, Gone DEF StoreCredentials
<1>4. ASSUME StoreInfo(h)
      PROVE  /\ Went(h, "info", "stream") /\ info' = NewInfo(Par(h))
             /\ UNCHANGED <<credentials, exists, consumer, requests>>
  BY <1>4, Gone DEF StoreInfo
<1>5. ASSUME EnsureStream(h)
      PROVE  /\ Went(h, "stream", "consumer") /\ exists' = TRUE
             /\ UNCHANGED <<credentials, info, consumer, requests>>
  BY <1>5, Gone DEF EnsureStream
<1>6. ASSUME EnsureConsumer(h), exists
      PROVE  /\ \/ Par(h).prefill /\ Went(h, "consumer", "request")
                \/ ~Par(h).prefill /\ Went(h, "consumer", "created")
             /\ consumer' = TRUE /\ UNCHANGED <<credentials, info, exists, requests>>
  <2>1. CASE Par(h).prefill
    BY <1>6, <2>1, Gone DEF EnsureConsumer
  <2>2. CASE ~Par(h).prefill
    BY <1>6, <2>2, Gone DEF EnsureConsumer
  <2> QED
    BY <1>6, <2>1, <2>2 DEF EnsureConsumer
<1>7. ASSUME SendRequest(h)
      PROVE  /\ Went(h, "request", "created") /\ requests' = Append(requests, Par(h).topics)
             /\ UNCHANGED <<credentials, info, exists, consumer>>
  BY <1>7, Gone DEF SendRequest
<1> QED
  BY <1>1, <1>2, <1>3, <1>4, <1>5, <1>6, <1>7

LEMMA DeleteMoves ==
    ASSUME TypeInv, NEW h \in Handlers
    PROVE  /\ ReadForDeletion(h) =>
                /\ UNCHANGED server
                /\ \E to \in {"not found", "delete credentials"} : Went(h, "delete", to)
           /\ DeleteCredentials(h) =>
                /\ Went(h, "delete credentials", "delete info") /\ credentials' = None
                /\ UNCHANGED <<info, exists, consumer, requests>>
           /\ DeleteInfo(h) =>
                /\ Went(h, "delete info", "delete stream") /\ info' = None
                /\ UNCHANGED <<credentials, exists, consumer, requests>>
           /\ DeleteStream(h) =>
                /\ Went(h, "delete stream", "delete consumer")
                /\ exists' = FALSE /\ consumer' = FALSE
                /\ UNCHANGED <<credentials, info, requests>>
           /\ DeleteConsumer(h) =>
                /\ Went(h, "delete consumer", "deleted") /\ consumer' = FALSE
                /\ UNCHANGED <<credentials, info, exists, requests>>
<1> HandlersInv
  BY DEF TypeInv
<1>1. ASSUME ReadForDeletion(h)
      PROVE  /\ UNCHANGED server
             /\ \E to \in {"not found", "delete credentials"} : Went(h, "delete", to)
  <2>1. Goto(h, "not found") \/ Goto(h, "delete credentials")
    BY <1>1, Zenon DEF ReadForDeletion
  <2> QED
    BY <1>1, <2>1, Gone DEF ReadForDeletion
<1>2. ASSUME DeleteCredentials(h)
      PROVE  /\ Went(h, "delete credentials", "delete info") /\ credentials' = None
             /\ UNCHANGED <<info, exists, consumer, requests>>
  BY <1>2, Gone DEF DeleteCredentials
<1>3. ASSUME DeleteInfo(h)
      PROVE  /\ Went(h, "delete info", "delete stream") /\ info' = None
             /\ UNCHANGED <<credentials, exists, consumer, requests>>
  BY <1>3, Gone DEF DeleteInfo
<1>4. ASSUME DeleteStream(h)
      PROVE  /\ Went(h, "delete stream", "delete consumer")
             /\ exists' = FALSE /\ consumer' = FALSE
             /\ UNCHANGED <<credentials, info, requests>>
  BY <1>4, Gone DEF DeleteStream
<1>5. ASSUME DeleteConsumer(h)
      PROVE  /\ Went(h, "delete consumer", "deleted") /\ consumer' = FALSE
             /\ UNCHANGED <<credentials, info, exists, requests>>
  BY <1>5, Gone DEF DeleteConsumer
<1> QED
  BY <1>1, <1>2, <1>3, <1>4, <1>5

LEMMA OtherMoves ==
    ASSUME TypeInv, NEW h \in Handlers
    PROVE  /\ ReadForReport(h) =>
                /\ UNCHANGED server
                /\ \/ info = None /\ Read(h, "report", "not found")
                   \/ info # None /\ Read(h, "report", "write status")
           /\ WriteStatus(h) =>
                /\ Went(h, "write status", "reported")
                /\ info' = [handler[h].read EXCEPT !.status = handler[h].status]
                /\ UNCHANGED <<credentials, exists, consumer, requests>>
           /\ Verify(h) =>
                /\ UNCHANGED server
                /\ \/ ~Matches(Par(h).password) /\ Went(h, "login", "refused")
                   \/ Matches(Par(h).password) /\ credentials.outdated /\ Went(h, "login", "rehash")
                   \/ Matches(Par(h).password) /\ ~credentials.outdated /\ Went(h, "login", LetIn(h))
           /\ Rehash(h) =>
                /\ Went(h, "rehash", LetIn(h)) /\ credentials' = NewHash(Par(h).password)
                /\ UNCHANGED <<info, exists, consumer, requests>>
           /\ Look(h) =>
                UNCHANGED server /\ \E to \in {"not found", "shown"} : Read(h, "show", to)
           /\ ListNames(h) =>
                /\ UNCHANGED server
                /\ \/ credentials = None /\ Went(h, "list", "listed")
                   \/ credentials # None /\ Went(h, "list", "list entry")
           /\ ListEntry(h) =>
                /\ UNCHANGED server
                /\ \/ info = None /\ Read(h, "list entry", "failed")
                   \/ info # None /\ Read(h, "list entry", "listed")
<1> HandlersInv
  BY DEF TypeInv
<1>0. ASSUME NEW from, NEW to \in Steps \cup Answers, At(h, from),
             handler' = [handler EXCEPT ![h].read = info, ![h].at = to],
             UNCHANGED <<disturbed, calls, deaths>>
      PROVE  Read(h, from, to)
  BY <1>0, ReadFacts DEF At, Read, Moved
<1>a. {"not found", "write status", "shown", "failed", "listed"} \subseteq Steps \cup Answers
  BY DEF Steps, Answers
<1>1. ASSUME ReadForReport(h)
      PROVE  /\ UNCHANGED server
             /\ \/ info = None /\ Read(h, "report", "not found")
                \/ info # None /\ Read(h, "report", "write status")
  <2>1. CASE info = None
    BY <1>0, <1>a, <1>1, <2>1 DEF ReadForReport
  <2>2. CASE info # None
    BY <1>0, <1>a, <1>1, <2>2 DEF ReadForReport
  <2> QED
    BY <2>1, <2>2
<1>2. ASSUME WriteStatus(h)
      PROVE  /\ Went(h, "write status", "reported")
             /\ info' = [handler[h].read EXCEPT !.status = handler[h].status]
             /\ UNCHANGED <<credentials, exists, consumer, requests>>
  BY <1>2, Gone DEF WriteStatus
<1>3. ASSUME Verify(h)
      PROVE  /\ UNCHANGED server
             /\ \/ ~Matches(Par(h).password) /\ Went(h, "login", "refused")
                \/ Matches(Par(h).password) /\ credentials.outdated /\ Went(h, "login", "rehash")
                \/ Matches(Par(h).password) /\ ~credentials.outdated /\ Went(h, "login", LetIn(h))
  <2>1. CASE ~Matches(Par(h).password)
    BY <1>3, <2>1, Gone DEF Verify
  <2>2. CASE Matches(Par(h).password) /\ credentials.outdated
    BY <1>3, <2>2, Gone DEF Verify
  <2>3. CASE Matches(Par(h).password) /\ ~credentials.outdated
    BY <1>3, <2>3, Gone DEF Verify
  <2> QED
    BY <2>1, <2>2, <2>3
<1>4. ASSUME Rehash(h)
      PROVE  /\ Went(h, "rehash", LetIn(h)) /\ credentials' = NewHash(Par(h).password)
             /\ UNCHANGED <<info, exists, consumer, requests>>
  BY <1>4, Gone DEF Rehash
<1>5. ASSUME Look(h)
      PROVE  UNCHANGED server /\ \E to \in {"not found", "shown"} : Read(h, "show", to)
  <2>1. CASE info = None
    BY <1>0, <1>a, <1>5, <2>1 DEF Look
  <2>2. CASE info # None
    BY <1>0, <1>a, <1>5, <2>2 DEF Look
  <2> QED
    BY <2>1, <2>2
<1>6. ASSUME ListNames(h)
      PROVE  /\ UNCHANGED server
             /\ \/ credentials = None /\ Went(h, "list", "listed")
                \/ credentials # None /\ Went(h, "list", "list entry")
  <2>1. CASE credentials = None
    BY <1>6, <2>1, Gone DEF ListNames
  <2>2. CASE credentials # None
    BY <1>6, <2>2, Gone DEF ListNames
  <2> QED
    BY <2>1, <2>2
<1>7. ASSUME ListEntry(h)
      PROVE  /\ UNCHANGED server
             /\ \/ info = None /\ Read(h, "list entry", "failed")
                \/ info # None /\ Read(h, "list entry", "listed")
  <2>1. CASE info = None
    BY <1>0, <1>a, <1>7, <2>1 DEF ListEntry
  <2>2. CASE info # None
    BY <1>0, <1>a, <1>7, <2>2 DEF ListEntry
  <2> QED
    BY <2>1, <2>2
<1> QED
  BY <1>1, <1>2, <1>3, <1>4, <1>5, <1>6, <1>7

\* A handler that ends: it has answered, it died, or the server has refused it.
LEMMA Ended ==
    ASSUME TypeInv, NEW h \in Handlers,
           Answer(h) \/ Die(h) \/ (EnsureConsumer(h) /\ ~exists)
    PROVE  /\ UNCHANGED server /\ HandlersInv' /\ Active(h) /\ ~Active(h)'
           /\ \A g \in Handlers \ {h} : handler'[g] = handler[g]
           /\ UNCHANGED bounds \/ (disturbed' = TRUE /\ calls' = calls /\ deaths' = deaths + 1
                                     /\ deaths < MaxDeaths)
<1>1. handler' = [handler EXCEPT ![h] = Free] /\ Active(h)
  BY DEF Answer, Die, EnsureConsumer, At
<1>2. UNCHANGED server
  BY DEF Answer, Die, EnsureConsumer, TypeInv, ServerInv
<1>3. UNCHANGED bounds \/ (disturbed' = TRUE /\ calls' = calls /\ deaths' = deaths + 1
                             /\ deaths < MaxDeaths)
  BY DEF Answer, Die, EnsureConsumer
<1>4. HandlersInv' /\ ~Active(h)' /\ \A g \in Handlers \ {h} : handler'[g] = handler[g]
  BY <1>1, EndFacts DEF TypeInv
<1> QED
  BY <1>1, <1>2, <1>3, <1>4

\* Where the steps of each operation lead.
LEMMA LegalSteps ==
    ASSUME NEW op, NEW caller
    PROVE  /\ Legal(op, caller, "register") =>
                \A to \in {"credentials", "compare", "conflict"} : Legal(op, caller, to)
           /\ Legal(op, caller, "compare") =>
                \A to \in {"exists", "conflict"} : Legal(op, caller, to)
           /\ Legal(op, caller, "credentials") => Legal(op, caller, "info")
           /\ Legal(op, caller, "info") => Legal(op, caller, "stream")
           /\ Legal(op, caller, "stream") => Legal(op, caller, "consumer")
           /\ Legal(op, caller, "consumer") =>
                \A to \in {"request", "created"} : Legal(op, caller, to)
           /\ Legal(op, caller, "request") => Legal(op, caller, "created")
           /\ Legal(op, caller, "delete") =>
                \A to \in {"not found", "delete credentials"} : Legal(op, caller, to)
           /\ Legal(op, caller, "delete credentials") => Legal(op, caller, "delete info")
           /\ Legal(op, caller, "delete info") => Legal(op, caller, "delete stream")
           /\ Legal(op, caller, "delete stream") => Legal(op, caller, "delete consumer")
           /\ Legal(op, caller, "delete consumer") => Legal(op, caller, "deleted")
           /\ Legal(op, caller, "report") =>
                \A to \in {"not found", "write status"} : Legal(op, caller, to)
           /\ Legal(op, caller, "write status") => Legal(op, caller, "reported")
           /\ Legal(op, caller, "login") =>
                \A to \in {"refused", "rehash", op} : Legal(op, caller, to)
           /\ Legal(op, caller, "rehash") => Legal(op, caller, op)
           /\ Legal(op, caller, "show") => \A to \in {"not found", "shown"} : Legal(op, caller, to)
           /\ Legal(op, caller, "list") =>
                \A to \in {"listed", "list entry"} : Legal(op, caller, to)
           /\ Legal(op, caller, "list entry") =>
                \A to \in {"listed", "failed"} : Legal(op, caller, to)
<1> USE DEF RegisterSteps, LoginSteps, DeleteSteps
<1>1. CASE op = "register"
  BY <1>1 DEF Legal
<1>2. CASE op = "delete"
  BY <1>2 DEF Legal
<1>3. CASE op \notin {"register", "delete"}
  BY <1>3 DEF Legal
<1> QED
  BY <1>1, <1>2, <1>3

LEMMA ProgramKept ==
    ASSUME TypeInv, ProgramInv, NEW h \in Handlers, Works(h)
    PROVE  ProgramInv'
<1>1. ASSUME NEW from, NEW to, Moved(h, from, to),
             Legal(handler[h].op, handler[h].caller, from)
               => Legal(handler[h].op, handler[h].caller, to)
      PROVE  ProgramInv'
  <2> SUFFICES ASSUME NEW g \in Handlers, Active(g)'
               PROVE  Legal(handler'[g].op, handler'[g].caller, handler'[g].at)
    BY DEF ProgramInv
  <2>1. CASE g = h
    BY <1>1, <2>1 DEF Moved, SameCall, ProgramInv
  <2>2. CASE g # h
    BY <1>1, <2>2 DEF Moved, ProgramInv, Active
  <2> QED
    BY <2>1, <2>2
<1>2. ASSUME ~Active(h)', \A g \in Handlers \ {h} : handler'[g] = handler[g]
      PROVE  ProgramInv'
  BY <1>2 DEF ProgramInv, Active
<1>3. CASE ReadForRegistration(h) \/ ComparePassword(h) \/ StoreCredentials(h) \/ StoreInfo(h)
             \/ EnsureStream(h) \/ SendRequest(h)
  BY <1>1, <1>3, RegisterMoves, LegalSteps DEF Went
<1>4. CASE EnsureConsumer(h)
  BY <1>1, <1>2, <1>4, RegisterMoves, Ended, LegalSteps DEF Went
<1>5. CASE ReadForDeletion(h) \/ DeleteCredentials(h) \/ DeleteInfo(h) \/ DeleteStream(h)
             \/ DeleteConsumer(h)
  BY <1>1, <1>5, DeleteMoves, LegalSteps DEF Went
<1>6. CASE ReadForReport(h) \/ WriteStatus(h) \/ Verify(h) \/ Rehash(h) \/ Look(h)
             \/ ListNames(h) \/ ListEntry(h)
  BY <1>1, <1>6, OtherMoves, LegalSteps DEF Went, Read, LetIn
<1>7. CASE Answer(h) \/ Die(h)
  BY <1>2, <1>7, Ended
<1> QED
  BY <1>3, <1>4, <1>5, <1>6, <1>7 DEF Works

\* A handler under way keeps the types.
LEMMA WorkType ==
    ASSUME TypeInv, NEW h \in Handlers, Works(h)
    PROVE  TypeInv'
<1> DEFINE Places == (Steps \cup Answers) \ {"write status"}
<1>a. HandlersInv /\ ServerInv
  BY DEF TypeInv
<1>b. Active(h) /\ handler[h] \in Handler
  BY <1>a DEF Works, HandlersInv, Active, Answer, Die, ReadForRegistration, ComparePassword,
     StoreCredentials, StoreInfo, EnsureStream, EnsureConsumer, SendRequest, ReadForDeletion,
     DeleteCredentials, DeleteInfo, DeleteStream, DeleteConsumer, ReadForReport, WriteStatus,
     Verify, Rehash, Look, ListNames, ListEntry, At
<1>c. ASSUME NEW s \in Places, Goto(h, s) PROVE HandlersInv'
  BY <1>a, <1>b, <1>c, GotoType
<1>d. /\ handler[h].par \in Parameters /\ handler[h].par.password \in Passwords
      /\ handler[h].par.topics \in Topics
      /\ handler[h].read \in Info \cup {None} /\ handler[h].status \in Status
      /\ handler[h].op \in Places
  BY <1>b DEF Handler, Parameters, Operations, Steps
<1>e. /\ NewHash(Par(h).password) \in Hash /\ NewInfo(Par(h)) \in Info
      /\ Append(requests, Par(h).topics) \in Seq(Topics)
  <2>1. requests \in Seq(Topics)
    BY <1>a DEF ServerInv
  <2>2. \A q \in Seq(Topics), t \in Topics : Append(q, t) \in Seq(Topics)
    OBVIOUS
  <2> QED
    BY <1>d, <2>1, <2>2, HashType, InfoType DEF Par
<1>f. ASSUME UNCHANGED bounds,
             credentials' \in Hash \cup {None}, info' \in Info \cup {None},
             exists' \in BOOLEAN, consumer' \in BOOLEAN, consumer' => exists',
             requests' \in Seq(Topics)
      PROVE  ServerInv'
  BY <1>a, <1>f DEF ServerInv
<1>g. /\ credentials \in Hash \cup {None} /\ info \in Info \cup {None}
      /\ exists \in BOOLEAN /\ consumer \in BOOLEAN /\ (consumer => exists)
      /\ requests \in Seq(Topics)
  BY <1>a DEF ServerInv
<1>1. CASE ReadForRegistration(h)
  <2>1. Goto(h, "credentials") \/ Goto(h, "compare") \/ Goto(h, "conflict")
    BY <1>1, Zenon DEF ReadForRegistration
  <2>2. HandlersInv'
    BY <1>c, <2>1 DEF Steps, Answers
  <2> QED
    BY <1>1, <1>a, <2>2 DEF ReadForRegistration, TypeInv, ServerInv
<1>2. CASE ComparePassword(h)
  <2>1. Goto(h, "exists") \/ Goto(h, "conflict")
    BY <1>2, Zenon DEF ComparePassword
  <2>2. HandlersInv'
    BY <1>c, <2>1 DEF Answers
  <2> QED
    BY <1>2, <1>a, <2>2 DEF ComparePassword, TypeInv, ServerInv
<1>3. CASE StoreCredentials(h) \/ StoreInfo(h) \/ EnsureStream(h) \/ SendRequest(h)
  <2>1. Goto(h, "info") \/ Goto(h, "stream") \/ Goto(h, "consumer") \/ Goto(h, "created")
    BY <1>3 DEF StoreCredentials, StoreInfo, EnsureStream, SendRequest
  <2>2. HandlersInv'
    BY <1>c, <2>1 DEF Steps, Answers
  <2>3. ServerInv'
    <3>1. CASE StoreCredentials(h)
      BY <1>e, <1>f, <1>g, <3>1 DEF StoreCredentials
    <3>2. CASE StoreInfo(h)
      BY <1>e, <1>f, <1>g, <3>2 DEF StoreInfo
    <3>3. CASE EnsureStream(h)
      BY <1>f, <1>g, <3>3 DEF EnsureStream
    <3>4. CASE SendRequest(h)
      BY <1>e, <1>f, <1>g, <3>4 DEF SendRequest
    <3> QED
      BY <1>3, <3>1, <3>2, <3>3, <3>4
  <2> QED
    BY <2>2, <2>3 DEF TypeInv
<1>4. CASE EnsureConsumer(h)
  <2>1. Goto(h, "request") \/ Goto(h, "created") \/ handler' = [handler EXCEPT ![h] = Free]
    BY <1>4, Zenon DEF EnsureConsumer
  <2>2. HandlersInv'
    BY <1>a, <1>c, <2>1, EndFacts DEF Steps, Answers
  <2> QED
    BY <1>4, <1>a, <2>2 DEF EnsureConsumer, TypeInv, ServerInv
<1>5. CASE ReadForDeletion(h)
  <2>1. Goto(h, "not found") \/ Goto(h, "delete credentials")
    BY <1>5, Zenon DEF ReadForDeletion
  <2>2. HandlersInv'
    BY <1>c, <2>1 DEF Steps, Answers
  <2> QED
    BY <1>5, <1>a, <2>2 DEF ReadForDeletion, TypeInv, ServerInv
<1>6. CASE DeleteCredentials(h) \/ DeleteInfo(h) \/ DeleteStream(h) \/ DeleteConsumer(h)
  <2>1. \/ Goto(h, "delete info") \/ Goto(h, "delete stream") \/ Goto(h, "delete consumer")
        \/ Goto(h, "deleted")
    BY <1>6 DEF DeleteCredentials, DeleteInfo, DeleteStream, DeleteConsumer
  <2>2. HandlersInv'
    BY <1>c, <2>1 DEF Steps, Answers
  <2>3. ServerInv'
    <3>1. CASE DeleteCredentials(h)
      BY <1>f, <1>g, <3>1 DEF DeleteCredentials
    <3>2. CASE DeleteInfo(h)
      BY <1>f, <1>g, <3>2 DEF DeleteInfo
    <3>3. CASE DeleteStream(h)
      BY <1>f, <1>g, <3>3 DEF DeleteStream
    <3>4. CASE DeleteConsumer(h)
      BY <1>f, <1>g, <3>4 DEF DeleteConsumer
    <3> QED
      BY <1>6, <3>1, <3>2, <3>3, <3>4
  <2> QED
    BY <2>2, <2>3 DEF TypeInv
<1>7. CASE ReadForReport(h) \/ Look(h) \/ ListEntry(h)
  <2>1. \E s \in Steps \cup Answers :
           /\ s = "write status" => info # None
           /\ handler' = [handler EXCEPT ![h].read = info, ![h].at = s]
    <3>1. CASE info = None
      BY <1>7, <3>1 DEF ReadForReport, Look, ListEntry, Answers
    <3>2. CASE info # None
      BY <1>7, <3>2 DEF ReadForReport, Look, ListEntry, Answers, Steps
    <3> QED
      BY <3>1, <3>2
  <2>2. HandlersInv'
    BY <1>a, <1>b, <2>1, ReadType DEF ServerInv
  <2>3. UNCHANGED <<server, bounds>>
    BY <1>7, Zenon DEF ReadForReport, Look, ListEntry
  <2>4. ServerInv'
    BY <1>a, <2>3 DEF ServerInv
  <2> QED
    BY <2>2, <2>4 DEF TypeInv
<1>8. CASE WriteStatus(h)
  <2>1. HandlersInv'
    BY <1>8, <1>c DEF WriteStatus, Answers
  <2>2. handler[h].read \in Info
    BY <1>8, <1>a, <1>b, <1>d DEF HandlersInv, WriteStatus, At
  <2>3. info' \in Info
    BY <1>8, <1>d, <2>2 DEF WriteStatus, Info
  <2> QED
    BY <1>8, <1>a, <2>1, <2>3 DEF WriteStatus, TypeInv, ServerInv
<1>9. CASE Verify(h)
  <2>1. Goto(h, "refused") \/ Goto(h, "rehash") \/ Goto(h, handler[h].op)
    BY <1>9, Zenon DEF Verify, LetIn
  <2>2. HandlersInv'
    BY <1>c, <1>d, <2>1 DEF Steps, Answers
  <2> QED
    BY <1>9, <1>a, <2>2 DEF Verify, TypeInv, ServerInv
<1>10. CASE Rehash(h)
  <2>1. HandlersInv'
    BY <1>10, <1>c, <1>d DEF Rehash, LetIn
  <2> QED
    BY <1>10, <1>a, <1>e, <2>1 DEF Rehash, TypeInv, ServerInv
<1>11. CASE ListNames(h)
  <2>1. Goto(h, "listed") \/ Goto(h, "list entry")
    BY <1>11, Zenon DEF ListNames
  <2>2. HandlersInv'
    BY <1>c, <2>1 DEF Steps, Answers
  <2> QED
    BY <1>11, <1>a, <2>2 DEF ListNames, TypeInv, ServerInv
<1>12. CASE Answer(h) \/ Die(h)
  <2>1. UNCHANGED server /\ HandlersInv'
    BY <1>12, Ended
  <2>2. UNCHANGED bounds \/ (disturbed' = TRUE /\ calls' = calls /\ deaths' = deaths + 1
                                /\ deaths < MaxDeaths)
    BY <1>12, Ended
  <2>3. disturbed' \in BOOLEAN /\ calls' \in 0..MaxCalls /\ deaths' \in 0..MaxDeaths
    <3>1. /\ MaxDeaths \in Nat /\ deaths \in 0..MaxDeaths /\ calls \in 0..MaxCalls
          /\ disturbed \in BOOLEAN
      BY <1>a, BoundsAssumption DEF ServerInv
    <3>2. disturbed' \in BOOLEAN
      BY <2>2, <3>1, Zenon
    <3>3. calls' = calls /\ (deaths' = deaths \/ (deaths' = deaths + 1 /\ deaths < MaxDeaths))
      BY <2>2, Zenon
    <3> QED
      BY <3>1, <3>2, <3>3
  <2> QED
    BY <1>a, <2>1, <2>3 DEF TypeInv, ServerInv
<1> QED
  BY <1>1, <1>2, <1>3, <1>4, <1>5, <1>6, <1>7, <1>8, <1>9, <1>10, <1>11, <1>12 DEF Works

\* Whoever works, the calls under way stay what they are, and no call begins.
LEMMA WorkFrame ==
    ASSUME TypeInv, NEW h \in Handlers, Works(h)
    PROVE  /\ Active(h)
           /\ \A g \in Handlers \ {h} : handler'[g] = handler[g]
           /\ Active(h)' => SameCall(h)
           /\ disturbed' = disturbed \/ (disturbed' = TRUE /\ ~Active(h)')
<1>1. ASSUME NEW from, NEW to, Moved(h, from, to)
      PROVE  /\ Active(h) /\ SameCall(h) /\ disturbed' = disturbed
             /\ \A g \in Handlers \ {h} : handler'[g] = handler[g]
  BY <1>1 DEF Moved
<1>3. CASE ReadForRegistration(h) \/ ComparePassword(h) \/ StoreCredentials(h) \/ StoreInfo(h)
             \/ EnsureStream(h) \/ SendRequest(h)
  BY <1>1, <1>3, RegisterMoves DEF Went
<1>4. CASE EnsureConsumer(h)
  BY <1>1, <1>4, RegisterMoves, Ended DEF Went
<1>5. CASE ReadForDeletion(h) \/ DeleteCredentials(h) \/ DeleteInfo(h) \/ DeleteStream(h)
             \/ DeleteConsumer(h)
  BY <1>1, <1>5, DeleteMoves DEF Went
<1>6. CASE ReadForReport(h) \/ WriteStatus(h) \/ Verify(h) \/ Rehash(h) \/ Look(h)
             \/ ListNames(h) \/ ListEntry(h)
  BY <1>1, <1>6, OtherMoves DEF Went, Read
<1>7. CASE Answer(h) \/ Die(h)
  BY <1>7, Ended
<1> QED
  BY <1>3, <1>4, <1>5, <1>6, <1>7 DEF Works

LEMMA CompanyKept ==
    ASSUME TypeInv, CompanyInv, NEW h \in Handlers, Works(h)
    PROVE  CompanyInv'
<1>1. \A g \in Handlers : Active(g)' => Active(g) /\ SameCall(g)
  BY WorkFrame DEF Active, SameCall
<1> QED
  BY <1>1 DEF CompanyInv, SameCall

\* Who is not in the company of others is alone or one of several repetitions of
\* one registration.
LEMMA AloneOrAlike ==
    ASSUME TypeInv, CompanyInv, NEW g \in Handlers, Active(g), handler[g].company # "others"
    PROVE  /\ handler[g].company = "nobody" => \A h \in Handlers : Active(h) => h = g
           /\ handler[g].op # "register" => Alone(g)
           /\ handler[g].op = "register" => \A h \in Handlers : Active(h) =>
                handler[h].op = "register" /\ Par(h) = Par(g)
<1>1. handler[g].company \in {"nobody", "same"}
  BY DEF TypeInv, HandlersInv, Active, Handler
<1> QED
  BY <1>1 DEF CompanyInv, Par, Alone

LEMMA RegisteredKept ==
    ASSUME TypeInv, ProgramInv, CompanyInv, RegisteredInv, NEW h \in Handlers, Works(h)
    PROVE  RegisteredInv'
<1> SUFFICES ASSUME NEW g \in Handlers, Active(g)', handler'[g].op = "register",
                    handler'[g].company # "others"
             PROVE  HasRegistered(g)'
  BY DEF RegisteredInv
<1>1. Active(g) /\ SameCall(g) /\ Active(h)
  BY WorkFrame DEF Active, SameCall
<1>2. HasRegistered(g)
  BY <1>1 DEF SameCall, RegisteredInv
<1>3. handler[h].op = "register" /\ Par(h) = Par(g)
  BY <1>1, AloneOrAlike DEF SameCall
<1>4. handler[h].at \in RegisterSteps
  BY <1>1, <1>3 DEF ProgramInv, Legal
<1>5. Par(g)' = Par(g) /\ Before(g)' = Before(g) /\ (g # h => handler'[g].at = handler[g].at)
  BY <1>1, WorkFrame DEF SameCall, Par, Before
<1>6. Par(g).topics \in Topics /\ requests \in Seq(Topics) /\ Before(g).requests \in Seq(Topics)
  BY <1>1 DEF TypeInv, HandlersInv, ServerInv, Active, Handler, Par, Parameters, Before
<1>7. CASE ReadForRegistration(h) \/ ComparePassword(h)
  <2>1. UNCHANGED server
    BY <1>7, RegisterMoves
  <2>2. handler'[g].at = handler[g].at
          \/ handler'[g].at \in {"credentials", "compare", "conflict", "exists"}
    BY <1>5, <1>7, RegisterMoves DEF Went, Moved
  <2> QED
    BY <1>2, <1>5, <2>1, <2>2 DEF HasRegistered
<1>8. CASE StoreCredentials(h)
  BY <1>2, <1>3, <1>5, <1>8, RegisterMoves DEF HasRegistered, Went, Moved
<1>9. CASE StoreInfo(h)
  BY <1>2, <1>3, <1>5, <1>9, RegisterMoves DEF HasRegistered, Went, Moved
<1>10. CASE EnsureStream(h)
  BY <1>2, <1>3, <1>5, <1>10, RegisterMoves DEF HasRegistered, Went, Moved
<1>11. CASE EnsureConsumer(h) /\ exists
  <2>1. /\ consumer' = TRUE /\ UNCHANGED <<credentials, info, exists, requests>>
        /\ g # h \/ (handler[g].at = "consumer"
                       /\ \/ handler'[g].at = "request"
                          \/ handler'[g].at = "created" /\ ~Par(g).prefill)
    BY <1>3, <1>11, RegisterMoves DEF Went, Moved
  <2> QED
    BY <1>2, <1>5, <2>1 DEF HasRegistered
<1>12. CASE SendRequest(h)
  <2>1. /\ requests' = Append(requests, Par(g).topics)
        /\ UNCHANGED <<credentials, info, exists, consumer>>
        /\ g # h \/ (handler[g].at = "request" /\ handler'[g].at = "created")
    BY <1>3, <1>12, RegisterMoves DEF Went, Moved
  <2>2. Len(requests') = Len(requests) + 1 /\ requests'[Len(requests')] = Par(g).topics
    BY <1>6, <2>1
  <2>3. Len(requests) \in Nat /\ Len(Before(g).requests) \in Nat
    BY <1>6
  <2> HIDE DEF Before
  <2> QED
    BY <1>2, <1>5, <2>1, <2>2, <2>3 DEF HasRegistered
<1>13. CASE Answer(h) \/ Die(h) \/ (EnsureConsumer(h) /\ ~exists)
  <2>1. UNCHANGED server /\ ~Active(h)'
    BY <1>13, Ended
  <2> QED
    BY <1>2, <1>5, <2>1 DEF HasRegistered
<1>14. CASE ReadForDeletion(h) \/ DeleteCredentials(h) \/ DeleteInfo(h) \/ DeleteStream(h)
              \/ DeleteConsumer(h)
  BY <1>4, <1>14, DeleteMoves DEF Went, Moved, RegisterSteps
<1>15. CASE ReadForReport(h) \/ WriteStatus(h) \/ Verify(h) \/ Rehash(h) \/ Look(h)
              \/ ListNames(h) \/ ListEntry(h)
  BY <1>4, <1>15, OtherMoves DEF Went, Read, Moved, RegisterSteps
<1> QED
  BY <1>7, <1>8, <1>9, <1>10, <1>11, <1>12, <1>13, <1>14, <1>15 DEF Works

\* Who is alone is the one that works.
LEMMA LoneWorks ==
    ASSUME TypeInv, CompanyInv, NEW h \in Handlers, Works(h), NEW g \in Handlers, Alone(g)'
    PROVE  g = h /\ Alone(h) /\ SameCall(h) /\ Active(h)'
<1>1. Active(g) /\ SameCall(g) /\ Active(h)
  BY WorkFrame DEF Alone, Active, SameCall
<1>2. handler[g].company = "nobody"
  BY <1>1 DEF Alone, SameCall
<1> QED
  BY <1>1, <1>2, AloneOrAlike DEF Alone, SameCall

\* Now, before and after, of a call that goes on.
LEMMA SameBefore ==
    ASSUME NEW h \in Handlers, SameCall(h)
    PROVE  /\ Before(h)' = Before(h) /\ Par(h)' = Par(h)
           /\ handler'[h].caller = handler[h].caller /\ handler'[h].op = handler[h].op
           /\ handler'[h].status = handler[h].status
  BY DEF SameCall, Before, Par

LEMMA LoneKept ==
    ASSUME TypeInv, ProgramInv, CompanyInv, LoneInv, NEW h \in Handlers, Works(h)
    PROVE  LoneInv'
<1> SUFFICES ASSUME Alone(h)', Alone(h), SameCall(h), Active(h)'
             PROVE  HasDone(h)'
  BY LoneWorks DEF LoneInv
<1>1. HasDone(h) /\ Active(h)
  BY DEF LoneInv, Alone
<1>2. Legal(handler[h].op, handler[h].caller, handler[h].at)
  BY <1>1 DEF ProgramInv
<1>3. /\ Before(h)' = Before(h) /\ Par(h)' = Par(h)
      /\ handler'[h].caller = handler[h].caller /\ handler'[h].status = handler[h].status
  BY SameBefore
<1>a. ASSUME UNCHANGED server PROVE Now' = Now
  BY <1>a DEF Now
<1>b. LookedAt(h)' = (Now' = IF handler[h].caller # "consumer" THEN Before(h)
                             ELSE [Before(h) EXCEPT !.credentials = NewHash(Par(h).password)])
  BY <1>3 DEF LookedAt
<1> HIDE DEF Before, Par
<1>7. CASE ReadForRegistration(h) \/ ComparePassword(h)
  <2>1. UNCHANGED server /\ handler[h].at \in {"register", "compare"}
          /\ handler'[h].at \in {"credentials", "compare", "conflict", "exists"}
    BY <1>7, RegisterMoves DEF Went, Moved
  <2> QED
    BY <1>1, <1>3, <1>a, <2>1 DEF HasDone, LoginSteps
<1>8. CASE StoreCredentials(h) \/ StoreInfo(h) \/ EnsureStream(h) \/ SendRequest(h)
             \/ (EnsureConsumer(h) /\ exists)
  <2>1. handler'[h].at \in {"info", "stream", "consumer", "request", "created"}
    BY <1>8, RegisterMoves DEF Went, Moved
  <2> QED
    BY <2>1 DEF HasDone, LoginSteps
<1>9. CASE ReadForDeletion(h)
  <2>1. /\ UNCHANGED server /\ handler[h].at = "delete"
        /\ handler'[h].at \in {"not found", "delete credentials"}
    BY <1>9, DeleteMoves DEF Went, Moved
  <2>2. LookedAt(h)'
    BY <1>1, <1>a, <1>b, <2>1 DEF HasDone, LookedAt
  <2> QED
    BY <2>1, <2>2 DEF HasDone, LoginSteps
<1>10. CASE DeleteCredentials(h)
  BY <1>10, DeleteMoves DEF HasDone, LoginSteps, Went, Moved
<1>11. CASE DeleteInfo(h)
  BY <1>1, <1>11, DeleteMoves DEF HasDone, LoginSteps, Went, Moved
<1>12. CASE DeleteStream(h)
  BY <1>1, <1>12, DeleteMoves DEF HasDone, LoginSteps, Went, Moved
<1>13. CASE DeleteConsumer(h)
  BY <1>1, <1>13, DeleteMoves DEF HasDone, LoginSteps, Went, Moved
<1>14. CASE ReadForReport(h)
  <2>1. /\ UNCHANGED server /\ handler[h].at = "report"
        /\ handler'[h].at \in {"not found", "write status"} /\ handler'[h].read = info
    BY <1>14, OtherMoves DEF Read, Moved
  <2>2. Now = Before(h) /\ handler[h].caller = "prefill"
    BY <1>1, <1>2, <2>1 DEF HasDone, Legal, RegisterSteps, LoginSteps, DeleteSteps
  <2>3. Now' = Before(h)' /\ LookedAt(h)'
    BY <1>3, <1>a, <1>b, <2>1, <2>2
  <2> QED
    BY <2>1, <2>3 DEF HasDone, LoginSteps
<1>15. CASE WriteStatus(h)
  <2>1. /\ handler[h].at = "write status" /\ handler'[h].at = "reported"
        /\ info' = [handler[h].read EXCEPT !.status = handler[h].status]
        /\ UNCHANGED <<credentials, exists, consumer, requests>>
    BY <1>15, OtherMoves DEF Went, Moved
  <2>2. Now = Before(h) /\ handler[h].read = info
    BY <1>1, <2>1 DEF HasDone
  <2> DEFINE entry == [info EXCEPT !.status = handler[h].status]
  <2>3. info' = entry /\ Now.info = info
    BY <2>1, <2>2 DEF Now
  <2> HIDE DEF entry
  <2>4. Now' = [Now EXCEPT !.info = entry]
    <3>1. Now' = [credentials |-> credentials, info |-> entry, exists |-> exists,
                  consumer |-> consumer, requests |-> requests]
      BY <2>1, <2>3, Zenon DEF Now
    <3>2. [Now EXCEPT !.info = entry]
            = [credentials |-> credentials, info |-> entry, exists |-> exists,
               consumer |-> consumer, requests |-> requests]
      BY DEF Now
    <3> QED
      BY <3>1, <3>2, Zenon
  <2>5. Now' = [Now EXCEPT !.info.status = handler[h].status]
    <3>1. [Now EXCEPT !.info.status = handler[h].status]
            = [Now EXCEPT !.info = [Now.info EXCEPT !.status = handler[h].status]]
      OBVIOUS
    <3>2. entry = [Now.info EXCEPT !.status = handler[h].status]
      BY <2>3 DEF entry
    <3> QED
      BY <2>4, <3>1, <3>2, Zenon
  <2> QED
    BY <1>3, <2>1, <2>2, <2>5 DEF HasDone, LoginSteps
<1>16. CASE Verify(h)
  <2>1. UNCHANGED server /\ handler[h].at = "login"
    BY <1>16, OtherMoves DEF Went, Moved
  <2>2. Now = Before(h) /\ Now' = Now
    BY <1>1, <1>a, <2>1 DEF HasDone, LoginSteps
  <2>3. CASE handler'[h].at \in {"refused", "rehash"}
    BY <1>3, <2>2, <2>3 DEF HasDone, LoginSteps
  <2>4. CASE handler'[h].at \notin {"refused", "rehash"}
    <3>1. Matches(Par(h).password) /\ ~credentials.outdated /\ handler'[h].at = handler[h].op
      BY <1>16, <2>4, OtherMoves DEF Went, Moved, LetIn
    <3>2. handler[h].op \in {"delete", "show"} /\ handler[h].caller = "consumer"
      BY <1>2, <2>1 DEF Legal, RegisterSteps, LoginSteps
    <3>3. credentials \in Hash
      BY <3>1 DEF TypeInv, ServerInv, Matches
    <3>4. credentials = NewHash(Par(h).password)
      BY <3>1, <3>3 DEF Matches, Hash, NewHash
    <3>5. Now = [Now EXCEPT !.credentials = NewHash(Par(h).password)]
      BY <3>4 DEF Now
    <3>6. LookedAt(h)'
      BY <1>b, <2>2, <3>2, <3>5
    <3> QED
      BY <3>1, <3>2, <3>6 DEF HasDone, LoginSteps
  <2> QED
    BY <2>3, <2>4
<1>17. CASE Rehash(h)
  <2>1. /\ handler[h].at = "rehash" /\ handler'[h].at = handler[h].op
        /\ credentials' = NewHash(Par(h).password)
        /\ UNCHANGED <<info, exists, consumer, requests>>
    BY <1>17, OtherMoves DEF Went, Moved, LetIn
  <2>2. handler[h].op \in {"delete", "show"} /\ handler[h].caller = "consumer"
    BY <1>2, <2>1 DEF Legal, RegisterSteps, LoginSteps
  <2>3. Now = Before(h)
    BY <1>1, <2>1 DEF HasDone, LoginSteps
  <2>4. Now' = [Now EXCEPT !.credentials = NewHash(Par(h).password)]
    BY <2>1 DEF Now
  <2>5. LookedAt(h)'
    BY <1>b, <2>2, <2>3, <2>4
  <2> QED
    BY <2>1, <2>2, <2>5 DEF HasDone, LoginSteps
<1>18. CASE Look(h)
  <2>1. /\ UNCHANGED server /\ handler[h].at = "show"
        /\ handler'[h].at \in {"not found", "shown"}
    BY <1>18, OtherMoves DEF Read, Moved
  <2>2. LookedAt(h)'
    BY <1>1, <1>a, <1>b, <2>1 DEF HasDone, LookedAt
  <2> QED
    BY <2>1, <2>2 DEF HasDone, LoginSteps
<1>19. CASE ListNames(h) \/ ListEntry(h)
  <2>1. /\ UNCHANGED server /\ handler[h].at \in {"list", "list entry"}
        /\ handler'[h].at \in {"list entry", "listed", "failed"}
    BY <1>19, OtherMoves DEF Went, Read, Moved
  <2> QED
    BY <1>1, <1>3, <1>a, <2>1 DEF HasDone, LoginSteps
<1>20. CASE Answer(h) \/ Die(h) \/ (EnsureConsumer(h) /\ ~exists)
  BY <1>20, Ended
<1> QED
  BY <1>7, <1>8, <1>9, <1>10, <1>11, <1>12, <1>13, <1>14, <1>15, <1>16, <1>17, <1>18, <1>19,
     <1>20 DEF Works

LEMMA LoginKept ==
    ASSUME TypeInv, ProgramInv, CompanyInv, LoneInv, LoginInv, NEW h \in Handlers, Works(h)
    PROVE  LoginInv'
<1> SUFFICES ASSUME Alone(h)', Alone(h), SameCall(h), Active(h)', handler'[h].caller = "consumer"
             PROVE  /\ handler'[h].at = "refused" => ~Knew(h)'
                    /\ handler'[h].at \notin {"login", "refused"} => Knew(h)'
  BY LoneWorks DEF LoginInv, LoggedIn
<1>1. HasDone(h) /\ LoggedIn(h) /\ Active(h)
  BY DEF LoneInv, LoginInv, Alone
<1>2. Knew(h)' <=> Knew(h)
  BY SameBefore DEF Knew
<1>3. handler[h].caller = "consumer" /\ Legal(handler[h].op, "consumer", handler[h].at)
  BY <1>1, SameBefore DEF ProgramInv
<1>4. /\ handler[h].op = "register" => handler[h].at = "refused"
      /\ handler[h].at # "list" /\ handler[h].at # "list entry" /\ handler[h].at # "report"
      /\ handler[h].at # "write status"
  BY <1>3 DEF Legal, LoginSteps, DeleteSteps
<1>5. ASSUME handler[h].at \notin {"login", "refused"}, handler'[h].at # "refused"
      PROVE  /\ handler'[h].at = "refused" => ~Knew(h)'
             /\ handler'[h].at \notin {"login", "refused"} => Knew(h)'
  BY <1>1, <1>2, <1>3, <1>5 DEF LoggedIn
<1>6. CASE ReadForRegistration(h) \/ ComparePassword(h) \/ StoreCredentials(h) \/ StoreInfo(h)
             \/ EnsureStream(h) \/ SendRequest(h) \/ (EnsureConsumer(h) /\ exists)
  <2>1. /\ handler[h].at \in RegisterSteps \ {"refused"}
        /\ handler'[h].at \in RegisterSteps \ {"refused"}
    BY <1>6, RegisterMoves DEF Went, Moved, RegisterSteps
  <2> QED
    BY <1>5, <2>1 DEF RegisterSteps
<1>7. CASE ReadForDeletion(h) \/ DeleteCredentials(h) \/ DeleteInfo(h) \/ DeleteStream(h)
             \/ DeleteConsumer(h)
  <2>1. handler[h].at \in DeleteSteps /\ handler'[h].at \in DeleteSteps
    BY <1>7, DeleteMoves DEF Went, Moved, DeleteSteps
  <2> QED
    BY <1>5, <2>1 DEF DeleteSteps
<1>8. CASE ReadForReport(h) \/ WriteStatus(h) \/ ListNames(h) \/ ListEntry(h)
  BY <1>4, <1>8, OtherMoves DEF Went, Read, Moved
<1>9. CASE Look(h)
  <2>1. handler[h].at = "show" /\ handler'[h].at \in {"not found", "shown"}
    BY <1>9, OtherMoves DEF Read, Moved
  <2> QED
    BY <1>5, <2>1
<1>10. CASE Verify(h)
  <2>1. handler[h].at = "login" /\ (handler'[h].at = "refused" <=> ~Matches(Par(h).password))
    <3>1. handler[h].at = "login"
      BY <1>10, OtherMoves DEF Went, Moved
    <3>2. handler[h].op \in {"delete", "show"}
      BY <1>3, <3>1 DEF Legal, RegisterSteps
    <3> QED
      BY <1>10, <3>1, <3>2, OtherMoves DEF Went, Moved, LetIn
  <2>2. handler[h].op # "register" /\ Now = Before(h)
    BY <1>1, <1>4, <1>10, OtherMoves DEF HasDone, LoginSteps, Went, Moved
  <2>3. Before(h).credentials = credentials
    BY <2>2 DEF Now
  <2>4. Knew(h) <=> Matches(Par(h).password)
    BY <2>2, <2>3 DEF Knew, Matches
  <2> QED
    BY <1>2, <2>1, <2>4
<1>11. CASE Rehash(h)
  <2>1. handler[h].at = "rehash" /\ handler'[h].at = handler[h].op
    BY <1>11, OtherMoves DEF Went, Moved, LetIn
  <2>2. handler[h].op \in {"delete", "show"}
    BY <1>3, <2>1 DEF Legal, RegisterSteps
  <2> QED
    BY <1>5, <2>1, <2>2
<1>12. CASE Answer(h) \/ Die(h) \/ (EnsureConsumer(h) /\ ~exists)
  BY <1>12, Ended
<1> QED
  BY <1>6, <1>7, <1>8, <1>9, <1>10, <1>11, <1>12 DEF Works

LEMMA ListKept ==
    ASSUME TypeInv, IInv, NEW h \in Handlers, Works(h)
    PROVE  ListInv'
<1> SUFFICES ASSUME ~disturbed' PROVE ListInv'
  BY DEF ListInv
<1> USE DEF IInv
<1>2. ~disturbed
  BY WorkFrame
<1>3. Active(h) /\ \A g \in Handlers \ {h} : handler'[g] = handler[g]
  BY WorkFrame
<1>4. \A g \in Handlers : Active(g) => handler[g].company # "others"
  BY <1>2 DEF ListInv
<1>5. (\A g \in Handlers : ~Halfway(g)) => (credentials = None <=> info = None)
  BY <1>2 DEF ListInv
<1>6. \A g \in Handlers : Active(g) =>
        /\ handler[g].at = "list" => handler[g].read = None
        /\ handler[g].at = "list entry" => credentials # None
        /\ handler[g].at \in {"listed", "shown"} => handler[g].read = info
        /\ handler[g].at # "failed"
  BY <1>2 DEF ListInv
<1>7. Legal(handler[h].op, handler[h].caller, handler[h].at)
  BY <1>3 DEF ProgramInv
\* Either all are registrations, or nobody else is under way.
<1>8. handler[h].op # "register" =>
        Alone(h) /\ HasDone(h) /\ LoggedIn(h) /\ \A g \in Handlers : Active(g) => g = h
  BY <1>3, <1>4, AloneOrAlike DEF Alone, LoneInv, LoginInv
<1>9. handler[h].op = "register" =>
        \A g \in Handlers : Active(g) => handler[g].at \in RegisterSteps
  BY <1>3, <1>4, AloneOrAlike DEF ProgramInv, Legal
<1>10. \A g \in Handlers : Active(g)' => handler'[g].company # "others"
  BY <1>3, <1>4, WorkFrame DEF Active, SameCall
<1>11. \A g \in Handlers \ {h} : Active(g)' =>
         handler'[g].at \notin {"list", "list entry", "listed", "shown", "failed"}
  BY <1>3, <1>8, <1>9 DEF Active, RegisterSteps
\* The credentials and the entry stay, and nobody comes to be half-way.
<1>12. ASSUME UNCHANGED <<credentials, info>>, ~Halfway(h)
       PROVE  (\A g \in Handlers : ~Halfway(g)') => (credentials' = None <=> info' = None)
  <2>1. ASSUME \A g \in Handlers : ~Halfway(g)' PROVE \A g \in Handlers : ~Halfway(g)
    BY <1>3, <1>12, <2>1 DEF Halfway, Active
  <2> QED
    BY <1>5, <1>12, <2>1
<1>13. ASSUME handler[h].op # "register", ~Halfway(h)
       PROVE  credentials = None <=> info = None
  BY <1>5, <1>8, <1>13 DEF Halfway
<1>14. ASSUME Active(h)' => handler'[h].at \notin {"list", "list entry", "listed", "shown", "failed"},
              (\A g \in Handlers : ~Halfway(g)') => (credentials' = None <=> info' = None)
       PROVE  ListInv'
  BY <1>10, <1>11, <1>14 DEF ListInv
<1>15. CASE ReadForRegistration(h) \/ ComparePassword(h) \/ EnsureStream(h) \/ SendRequest(h)
              \/ (EnsureConsumer(h) /\ exists)
  <2>1. /\ UNCHANGED <<credentials, info>>
        /\ handler[h].at \in {"register", "compare", "stream", "request", "consumer"}
        /\ handler'[h].at \in {"credentials", "compare", "conflict", "exists", "consumer",
                               "request", "created"}
    BY <1>15, RegisterMoves DEF Went, Moved
  <2>2. ~Halfway(h)
    BY <2>1 DEF Halfway
  <2>3. (\A g \in Handlers : ~Halfway(g)') => (credentials' = None <=> info' = None)
    BY <1>12, <2>1, <2>2
  <2> QED
    BY <1>14, <2>1, <2>3
<1>16. CASE StoreCredentials(h)
  <2>1. handler'[h].at = "info"
    BY <1>16, RegisterMoves DEF Went, Moved
  <2>2. Halfway(h)'
    BY <2>1 DEF Halfway, Active, Free
  <2> QED
    BY <1>14, <2>1, <2>2
<1>17. CASE StoreInfo(h)
  <2>1. /\ handler[h].at = "info" /\ handler'[h].at = "stream"
        /\ info' = NewInfo(Par(h)) /\ credentials' = credentials
    BY <1>17, RegisterMoves DEF Went, Moved
  <2>2. handler[h].op = "register"
    BY <1>7, <2>1 DEF Legal, LoginSteps, DeleteSteps
  <2>3. credentials = NewHash(Par(h).password)
    BY <1>3, <1>4, <2>1, <2>2 DEF RegisteredInv, HasRegistered
  <2>4. NewHash(Par(h).password) # None /\ NewInfo(Par(h)) # None
    <3>1. handler[h].par \in Parameters /\ handler[h].par.password \in Passwords
      BY <1>3 DEF TypeInv, HandlersInv, Active, Handler, Parameters
    <3> QED
      BY <3>1, HashType, InfoType, NoneIsNothing DEF Par
  <2> QED
    BY <1>14, <2>1, <2>3, <2>4
<1>18. CASE ReadForDeletion(h) \/ ReadForReport(h) \/ Verify(h) \/ DeleteStream(h)
              \/ DeleteConsumer(h)
  <2>1. /\ UNCHANGED <<credentials, info>>
        /\ handler[h].at \in {"delete", "report", "login", "delete stream", "delete consumer"}
        /\ handler'[h].at \in {"not found", "delete credentials", "write status", "refused",
                               "rehash", "delete consumer", "deleted"}
             \/ (handler[h].at = "login" /\ handler'[h].at = handler[h].op)
    BY <1>18, DeleteMoves, OtherMoves DEF Went, Read, Moved, LetIn
  <2>2. ~Halfway(h)
    BY <2>1 DEF Halfway
  <2>3. (\A g \in Handlers : ~Halfway(g)') => (credentials' = None <=> info' = None)
    BY <1>12, <2>1, <2>2
  <2>4. handler'[h].at \notin {"list", "list entry", "listed", "shown", "failed"}
    BY <1>7, <2>1 DEF Legal, RegisterSteps, LoginSteps
  <2> QED
    BY <1>14, <2>3, <2>4
<1>19. CASE DeleteCredentials(h)
  <2>1. handler'[h].at = "delete info"
    BY <1>19, DeleteMoves DEF Went, Moved
  <2>2. Free.at = "free"
    BY DEF Free
  <2>3. handler'[h] # Free
    BY <2>1, <2>2
  <2>4. Halfway(h)'
    BY <2>1, <2>3 DEF Halfway, Active
  <2> QED
    BY <1>14, <2>1, <2>4
<1>20. CASE DeleteInfo(h)
  <2>1. /\ handler[h].at = "delete info" /\ handler'[h].at = "delete stream"
        /\ info' = None /\ credentials' = credentials
    BY <1>20, DeleteMoves DEF Went, Moved
  <2>2. handler[h].op # "register"
    BY <1>7, <2>1 DEF Legal, RegisterSteps
  <2>3. credentials = None
    BY <1>8, <2>1, <2>2 DEF HasDone
  <2> QED
    BY <1>14, <2>1, <2>3
<1>21. CASE WriteStatus(h)
  <2>1. /\ handler[h].at = "write status" /\ handler'[h].at = "reported"
        /\ info' = [handler[h].read EXCEPT !.status = handler[h].status]
        /\ credentials' = credentials
    BY <1>21, OtherMoves DEF Went, Moved
  <2>2. handler[h].op # "register"
    BY <1>7, <2>1 DEF Legal, RegisterSteps
  <2>3. handler[h].read = info /\ handler[h].read # None
    BY <1>3, <1>8, <2>1, <2>2 DEF HasDone, TypeInv, HandlersInv
  <2>4. credentials # None
    BY <1>13, <2>1, <2>2, <2>3 DEF Halfway
  <2>5. info' # None
    <3>1. info \in Info /\ handler[h].status \in Status
      BY <1>3, <2>3 DEF TypeInv, ServerInv, HandlersInv, Active, Handler
    <3>2. [info EXCEPT !.status = handler[h].status] \in Info
      BY <3>1 DEF Info
    <3> QED
      BY <2>1, <2>3, <3>2, NoneIsNothing
  <2> QED
    BY <1>14, <2>1, <2>4, <2>5
<1>22. CASE Rehash(h)
  <2>1. /\ handler[h].at = "rehash" /\ handler'[h].at = handler[h].op
        /\ credentials' = NewHash(Par(h).password) /\ info' = info
    BY <1>22, OtherMoves DEF Went, Moved, LetIn
  <2>2. handler[h].op \in {"delete", "show"} /\ handler[h].caller = "consumer"
    BY <1>7, <2>1 DEF Legal, RegisterSteps, LoginSteps
  <2>3. Now = Before(h) /\ Before(h).credentials # None
    BY <1>8, <2>1, <2>2 DEF HasDone, LoginSteps, LoggedIn, Knew
  <2>4. credentials # None
    BY <2>3 DEF Now
  <2>5. info # None
    BY <1>13, <2>1, <2>2, <2>4 DEF Halfway
  <2>6. NewHash(Par(h).password) # None
    <3>1. handler[h].par.password \in Passwords
      BY <1>3 DEF TypeInv, HandlersInv, Active, Handler, Parameters
    <3> QED
      BY <3>1, HashType, NoneIsNothing DEF Par
  <2> QED
    BY <1>14, <2>1, <2>2, <2>5, <2>6
<1>23. CASE Look(h) \/ ListNames(h) \/ ListEntry(h)
  <2>1. UNCHANGED <<credentials, info>> /\ handler[h].at \in {"show", "list", "list entry"}
    BY <1>23, OtherMoves DEF Went, Read, Moved
  <2>2. handler[h].op # "register" /\ ~Halfway(h)
    BY <1>7, <2>1 DEF Legal, RegisterSteps, Halfway
  <2>3. (\A g \in Handlers : ~Halfway(g)') => (credentials' = None <=> info' = None)
    BY <1>12, <2>1, <2>2
  <2>4. credentials = None <=> info = None
    BY <1>13, <2>2
  <2>5. /\ handler'[h].at # "list"
        /\ handler'[h].at = "list entry" => credentials' # None
        /\ handler'[h].at \in {"listed", "shown"} => handler'[h].read = info'
        /\ handler'[h].at # "failed"
    <3>1. CASE Look(h)
      BY <2>1, <3>1, OtherMoves DEF Read, Moved
    <3>2. CASE ListNames(h)
      BY <1>3, <1>6, <2>1, <2>4, <3>2, OtherMoves DEF Went, Moved
    <3>3. CASE ListEntry(h)
      BY <1>3, <1>6, <2>1, <2>4, <3>3, OtherMoves DEF Read, Moved
    <3> QED
      BY <1>23, <3>1, <3>2, <3>3
  <2> QED
    BY <1>10, <1>11, <2>3, <2>5 DEF ListInv
<1>24. CASE Answer(h) \/ Die(h) \/ (EnsureConsumer(h) /\ ~exists)
  <2>1. UNCHANGED server /\ ~Active(h)'
    BY <1>24, Ended
  <2>2. ~Halfway(h)
    BY <1>2, <1>24 DEF Answer, Die, EnsureConsumer, Halfway, At, Answers
  <2>3. (\A g \in Handlers : ~Halfway(g)') => (credentials' = None <=> info' = None)
    BY <1>12, <2>1, <2>2
  <2> QED
    BY <1>14, <2>1, <2>3
<1> QED
  BY <1>15, <1>16, <1>17, <1>18, <1>19, <1>20, <1>21, <1>22, <1>23, <1>24 DEF Works

-----------------------------------------------------------------------------
(* The beginning of a call *)

LEMMA FirstStepIs ==
    ASSUME NEW op \in Operations, NEW caller \in Callers, MayCall(op, caller)
    PROVE  /\ Legal(op, caller, FirstStep(op, caller))
           /\ \/ FirstStep(op, caller) = op /\ caller # "consumer" /\ op # "show"
              \/ FirstStep(op, caller) = "login" /\ caller = "consumer"
              \/ FirstStep(op, caller) = "refused" /\ op = "register"
<1> USE DEF MayCall, FirstStep, Static, Legal, RegisterSteps, LoginSteps, DeleteSteps
<1>1. CASE op = "register"
  BY <1>1
<1>2. CASE op = "delete"
  BY <1>2
<1>3. CASE op = "report"
  BY <1>3
<1>4. CASE op = "list"
  BY <1>4
<1>5. CASE op = "show"
  BY <1>5
<1> QED
  BY <1>1, <1>2, <1>3, <1>4, <1>5 DEF Operations

\* What the newcomer finds, and what it changes for those under way.
LEMMA Begun ==
    ASSUME TypeInv, NEW h \in Handlers, NEW op \in Operations, NEW caller \in Callers,
           NEW par \in Parameters, NEW status \in Status, Begin(h, op, caller, par, status)
    PROVE  /\ ~Active(h) /\ UNCHANGED server
           /\ disturbed' = (disturbed \/ handler'[h].company = "others")
           /\ handler'[h].op = op /\ handler'[h].at = FirstStep(op, caller)
           /\ handler'[h].caller = caller /\ handler'[h].par = par /\ handler'[h].read = None
           /\ handler'[h].company = "nobody" => \A g \in Handlers : ~Active(g)
           /\ handler'[h].company = "same" =>
                op = "register" /\ \A g \in Handlers : Active(g) => Repeats(g, op, par)
           /\ handler'[h].company # "others" => handler'[h].before = Now
           /\ \A g \in Handlers \ {h} :
                /\ Active(g)' <=> Active(g)
                /\ Active(g) =>
                     /\ handler'[g].op = handler[g].op /\ handler'[g].caller = handler[g].caller
                     /\ handler'[g].par = handler[g].par /\ handler'[g].at = handler[g].at
                     /\ handler'[g].read = handler[g].read
                     /\ \/ /\ Repeats(g, op, par) /\ handler[g].company # "others"
                           /\ handler'[g].company = "same"
                           /\ handler'[g].before = handler[g].before
                        \/ /\ ~(Repeats(g, op, par) /\ handler[g].company # "others")
                           /\ handler'[g].company = "others"
<1> DEFINE others == {g \in Handlers : Active(g)}
           company == IF others = {} THEN "nobody"
                      ELSE IF \A g \in others : Repeats(g, op, par) THEN "same" ELSE "others"
           new == [op |-> op, at |-> FirstStep(op, caller), caller |-> caller,
                   par |-> par, status |-> status, read |-> None, company |-> company,
                   before |-> IF company = "others" THEN Forgotten ELSE Now]
<1>1. ~Active(h) /\ UNCHANGED server /\ disturbed' = (disturbed \/ company = "others")
  BY DEF Begin
<1>2. handler' = [g \in Handlers |->
         IF g = h THEN new
         ELSE IF ~Active(g) THEN Free
         ELSE IF Repeats(g, op, par) /\ handler[g].company # "others"
           THEN [handler[g] EXCEPT !.company = "same"]
         ELSE [handler[g] EXCEPT !.company = "others", !.before = Forgotten]]
  BY Zenon DEF Begin
<1>3. /\ company = "nobody" => \A g \in Handlers : ~Active(g)
      /\ company = "same" =>
           op = "register" /\ \A g \in Handlers : Active(g) => Repeats(g, op, par)
  BY DEF Repeats
<1> HIDE DEF company
<1>4. /\ new.op = op /\ new.at = FirstStep(op, caller) /\ new.caller = caller
      /\ new.par = par /\ new.read = None /\ new.company = company
      /\ company # "others" => new.before = Now
  OBVIOUS
<1> HIDE DEF new
<1>5. handler'[h] = new
  BY <1>2
<1>6. ASSUME NEW g \in Handlers \ {h}
      PROVE  /\ Active(g)' <=> Active(g)
             /\ Active(g) =>
                  /\ handler'[g].op = handler[g].op /\ handler'[g].caller = handler[g].caller
                  /\ handler'[g].par = handler[g].par /\ handler'[g].at = handler[g].at
                  /\ handler'[g].read = handler[g].read
                  /\ \/ /\ Repeats(g, op, par) /\ handler[g].company # "others"
                        /\ handler'[g].company = "same"
                        /\ handler'[g].before = handler[g].before
                     \/ /\ ~(Repeats(g, op, par) /\ handler[g].company # "others")
                        /\ handler'[g].company = "others"
  <2>1. CASE ~Active(g)
    BY <1>2, <2>1 DEF Active
  <2>2. CASE Active(g)
    <3>1. handler[g] \in Handler
      BY <2>2 DEF TypeInv, HandlersInv, Active
    <3>2. Free \notin Handler
      <4>1. DOMAIN Free = {"at"}
        BY DEF Free
      <4>2. \A x \in Handler : "op" \in DOMAIN x
        BY DEF Handler
      <4> QED
        BY <4>1, <4>2
    <3>3. CASE Repeats(g, op, par) /\ handler[g].company # "others"
      <4> DEFINE x == [handler[g] EXCEPT !.company = "same"]
      <4>1. handler'[g] = x
        BY <1>2, <2>2, <3>3
      <4>2. /\ x \in Handler /\ x.company = "same" /\ x.before = handler[g].before
            /\ x.op = handler[g].op /\ x.caller = handler[g].caller /\ x.par = handler[g].par
            /\ x.at = handler[g].at /\ x.read = handler[g].read
        BY <3>1 DEF Handler
      <4> HIDE DEF x
      <4> QED
        BY <2>2, <3>2, <3>3, <4>1, <4>2 DEF Active
    <3>4. CASE ~(Repeats(g, op, par) /\ handler[g].company # "others")
      <4> DEFINE x == [handler[g] EXCEPT !.company = "others"]
                 y == [x EXCEPT !.before = Forgotten]
      <4>1. handler'[g] = y
        BY <1>2, <2>2, <3>4
      <4>2. /\ x \in Handler /\ x.company = "others"
            /\ x.op = handler[g].op /\ x.caller = handler[g].caller /\ x.par = handler[g].par
            /\ x.at = handler[g].at /\ x.read = handler[g].read
        BY <3>1 DEF Handler
      <4> HIDE DEF x
      <4>3. /\ y \in Handler /\ y.company = x.company
            /\ y.op = x.op /\ y.caller = x.caller /\ y.par = x.par
            /\ y.at = x.at /\ y.read = x.read
        BY <4>2, NowType DEF Handler, TypeInv
      <4> HIDE DEF y
      <4> QED
        BY <2>2, <3>2, <3>4, <4>1, <4>2, <4>3 DEF Active
    <3> QED
      BY <3>3, <3>4
  <2> QED
    BY <2>1, <2>2
<1> QED
  BY <1>1, <1>3, <1>4, <1>5, <1>6

LEMMA BeginKeeps ==
    ASSUME TypeInv, IInv, NEW h \in Handlers, NEW op \in Operations, NEW caller \in Callers,
           NEW par \in Parameters, NEW status \in Status, MayCall(op, caller),
           Begin(h, op, caller, par, status)
    PROVE  IInv'
<1>a. /\ ProgramInv /\ CompanyInv /\ RegisteredInv /\ LoneInv /\ LoginInv /\ ListInv
  BY DEF IInv
<1>b. /\ ~Active(h) /\ UNCHANGED server
      /\ disturbed' = (disturbed \/ handler'[h].company = "others")
      /\ handler'[h].op = op /\ handler'[h].at = FirstStep(op, caller)
      /\ handler'[h].caller = caller /\ handler'[h].par = par /\ handler'[h].read = None
      /\ handler'[h].company = "nobody" => \A g \in Handlers : ~Active(g)
      /\ handler'[h].company = "same" =>
           op = "register" /\ \A g \in Handlers : Active(g) => Repeats(g, op, par)
      /\ handler'[h].company # "others" => handler'[h].before = Now
  BY Begun
<1>c. \A g \in Handlers \ {h} :
        /\ Active(g)' <=> Active(g)
        /\ Active(g) =>
             /\ handler'[g].op = handler[g].op /\ handler'[g].caller = handler[g].caller
             /\ handler'[g].par = handler[g].par /\ handler'[g].at = handler[g].at
             /\ handler'[g].read = handler[g].read
             /\ \/ /\ Repeats(g, op, par) /\ handler[g].company # "others"
                   /\ handler'[g].company = "same"
                   /\ handler'[g].before = handler[g].before
                \/ /\ ~(Repeats(g, op, par) /\ handler[g].company # "others")
                   /\ handler'[g].company = "others"
  BY Begun
<1>d. /\ Legal(op, caller, FirstStep(op, caller))
      /\ \/ FirstStep(op, caller) = op /\ caller # "consumer" /\ op # "show"
         \/ FirstStep(op, caller) = "login" /\ caller = "consumer"
         \/ FirstStep(op, caller) = "refused" /\ op = "register"
  BY FirstStepIs
<1>e. \A g \in Handlers : Active(g) => handler[g].company \in {"nobody", "same", "others"}
  BY DEF TypeInv, HandlersInv, Active, Handler
<1>f. Now' = Now /\ requests' = requests /\ Len(requests) \in Nat
  BY <1>b DEF Now, TypeInv, ServerInv
<1>1. ProgramInv'
  <2> SUFFICES ASSUME NEW g \in Handlers, Active(g)'
               PROVE  Legal(handler'[g].op, handler'[g].caller, handler'[g].at)
    BY DEF ProgramInv
  <2>1. CASE g = h
    BY <1>b, <1>d, <2>1
  <2>2. CASE g # h
    BY <1>a, <1>c, <2>2 DEF ProgramInv
  <2> QED
    BY <2>1, <2>2
<1>2. CompanyInv'
  <2> SUFFICES ASSUME NEW g \in Handlers, Active(g)'
               PROVE  /\ handler'[g].company = "same" => handler'[g].op = "register"
                      /\ \A k \in Handlers \ {g} : Active(k)' =>
                           /\ handler'[g].company # "nobody"
                           /\ handler'[g].company = "same" =>
                                handler'[k].op = "register" /\ handler'[k].par = handler'[g].par
    BY DEF CompanyInv
  <2>1. CASE g = h
    BY <1>b, <1>c, <2>1 DEF Repeats
  <2>2. CASE g # h
    <3>1. Active(g) /\ handler'[g].company \in {"same", "others"}
      BY <1>c, <2>2
    <3>2. ASSUME handler'[g].company = "same"
          PROVE  /\ op = "register" /\ handler'[g].op = "register" /\ handler'[g].par = par
                 /\ handler[g].company \in {"nobody", "same"} /\ handler[g].par = par
      BY <1>c, <1>e, <2>2, <3>1, <3>2 DEF Repeats
    <3>3. ASSUME handler'[g].company = "same", NEW k \in Handlers \ {g}, Active(k)'
          PROVE  handler'[k].op = "register" /\ handler'[k].par = handler'[g].par
      <4>1. CASE k = h
        BY <1>b, <3>2, <3>3, <4>1
      <4>2. CASE k # h
        <5>1. /\ Active(k) /\ handler'[k].op = handler[k].op /\ handler'[k].par = handler[k].par
          BY <1>c, <3>3, <4>2
        <5>2. handler[k].op = "register" /\ handler[k].par = handler[g].par
          BY <1>a, <3>1, <3>2, <3>3, <5>1 DEF CompanyInv
        <5> QED
          BY <3>2, <3>3, <5>1, <5>2
      <4> QED
        BY <4>1, <4>2
    <3> QED
      BY <3>1, <3>2, <3>3
  <2> QED
    BY <2>1, <2>2
<1>3. RegisteredInv'
  <2> SUFFICES ASSUME NEW g \in Handlers, Active(g)', handler'[g].op = "register",
                      handler'[g].company # "others"
               PROVE  HasRegistered(g)'
    BY DEF RegisteredInv
  <2>1. CASE g = h
    <3>1. handler'[g].at \in {"register", "login", "refused"}
      BY <1>b, <1>d, <2>1
    <3>2. Len(requests') >= Len(handler'[g].before.requests)
      <4>1. handler'[g].before.requests = requests
        BY <1>b, <2>1 DEF Now
      <4> QED
        BY <1>f, <4>1
    <3> QED
      BY <3>1, <3>2 DEF HasRegistered, Before
  <2>2. CASE g # h
    <3>1. /\ Active(g) /\ handler'[g].at = handler[g].at /\ handler[g].op = "register"
          /\ handler[g].company # "others"
          /\ Par(g)' = Par(g) /\ Before(g)' = Before(g)
      BY <1>c, <2>2 DEF Par, Before
    <3>2. HasRegistered(g)
      BY <1>a, <3>1 DEF RegisteredInv
    <3> QED
      BY <1>b, <3>1, <3>2 DEF HasRegistered
  <2> QED
    BY <2>1, <2>2
<1>4. LoneInv' /\ LoginInv'
  <2>1. ASSUME NEW g \in Handlers, Alone(g)' PROVE g = h
    BY <1>c, <2>1 DEF Alone
  <2> SUFFICES ASSUME Alone(h)' PROVE HasDone(h)' /\ LoggedIn(h)'
    BY <2>1 DEF LoneInv, LoginInv
  <2>2. Now' = Before(h)'
    BY <1>b, <1>f DEF Alone, Before
  <2>3. handler'[h].at \in {"register", "delete", "report", "list", "login", "refused"}
    BY <1>b, <1>d DEF Operations
  <2>4. handler'[h].at = "delete" => handler'[h].caller # "consumer"
    BY <1>b, <1>d
  <2>5. HasDone(h)'
    <3>1. handler'[h].at = "delete" => LookedAt(h)'
      BY <2>2, <2>4 DEF LookedAt
    <3> QED
      BY <2>2, <2>3, <3>1 DEF HasDone, LoginSteps
  <2>6. LoggedIn(h)'
    BY <1>b, <1>d DEF LoggedIn, Knew
  <2> QED
    BY <2>5, <2>6
<1>5. ListInv'
  <2> SUFFICES ASSUME ~disturbed' PROVE ListInv'
    BY DEF ListInv
  <2>1. ~disturbed /\ handler'[h].company # "others"
    BY <1>b
  <2>2. \A g \in Handlers : Active(g) => handler[g].company # "others"
    BY <1>a, <2>1 DEF ListInv
  <2>3. \A g \in Handlers : Active(g)' => handler'[g].company # "others"
    <3> SUFFICES ASSUME NEW g \in Handlers \ {h}, Active(g)
                 PROVE  handler'[g].company # "others"
      BY <1>c, <2>1
    <3>1. handler'[h].company = "same"
      <4>1. TypeInv'
        BY BeginType
      <4>2. handler'[h] # Free
        <5>1. handler'[h].at \in {"register", "delete", "report", "list", "login", "refused"}
          BY <1>b, <1>d DEF Operations
        <5>2. Free.at = "free"
          BY DEF Free
        <5> QED
          BY <5>1, <5>2
      <4> QED
        BY <1>b, <2>1, <4>1, <4>2 DEF TypeInv, HandlersInv, Handler
    <3> QED
      BY <1>b, <1>c, <2>2, <3>1
  <2>4. handler'[h].at \in {"register", "delete", "report", "list", "login", "refused"}
    BY <1>b, <1>d DEF Operations
  <2>5. (\A g \in Handlers : ~Halfway(g)') => (credentials' = None <=> info' = None)
    <3>1. ASSUME \A g \in Handlers : ~Halfway(g)' PROVE \A g \in Handlers : ~Halfway(g)
      BY <1>b, <1>c, <3>1 DEF Halfway
    <3> QED
      BY <1>a, <1>b, <2>1, <3>1 DEF ListInv
  <2>6. ASSUME NEW g \in Handlers, Active(g)'
        PROVE  /\ handler'[g].at = "list" => handler'[g].read = None
               /\ handler'[g].at = "list entry" => credentials' # None
               /\ handler'[g].at \in {"listed", "shown"} => handler'[g].read = info'
               /\ handler'[g].at # "failed"
    <3>1. CASE g = h
      BY <1>b, <2>4, <3>1
    <3>2. CASE g # h
      BY <1>a, <1>b, <1>c, <2>1, <2>6, <3>2 DEF ListInv
    <3> QED
      BY <3>1, <3>2
  <2> QED
    BY <2>3, <2>5, <2>6 DEF ListInv
<1> QED
  BY <1>1, <1>2, <1>3, <1>4, <1>5 DEF IInv

-----------------------------------------------------------------------------
(* The theorems *)

LEMMA InitIInv == Init => IInv
<1> SUFFICES ASSUME Init PROVE IInv
  OBVIOUS
<1>1. \A h \in Handlers : ~Active(h)
  BY DEF Init, Active
<1>2. ProgramInv /\ CompanyInv /\ RegisteredInv /\ LoneInv /\ LoginInv
  BY <1>1 DEF ProgramInv, CompanyInv, RegisteredInv, LoneInv, LoginInv, Alone
<1>3. credentials = None <=> info = None
  <2>1. CASE credentials = None /\ info = None
    BY <2>1
  <2>2. CASE credentials \in Hash /\ info \in Info
    BY <2>2, NoneIsNothing
  <2> QED
    BY <2>1, <2>2 DEF Init, Hash, Info, Status
<1>4. ListInv
  BY <1>1, <1>3 DEF ListInv
<1> QED
  BY <1>2, <1>4 DEF IInv

LEMMA StepKeeps ==
    ASSUME TypeInv, IInv, [Next]_vars
    PROVE  TypeInv' /\ IInv'
<1>1. CASE Next
  <2>1. PICK h \in Handlers :
           \/ Works(h)
           \/ \E op \in Operations, caller \in Callers, par \in Parameters, status \in Status :
                MayCall(op, caller) /\ Begin(h, op, caller, par, status)
    BY <1>1, BeginOrWork
  <2>2. CASE Works(h)
    <3>1. TypeInv' /\ ListInv'
      BY <2>2, WorkType, ListKept
    <3>2. ProgramInv' /\ CompanyInv' /\ RegisteredInv' /\ LoneInv' /\ LoginInv'
      BY <2>2, ProgramKept, CompanyKept, RegisteredKept, LoneKept, LoginKept DEF IInv
    <3> QED
      BY <3>1, <3>2 DEF IInv
  <2>3. CASE \E op \in Operations, caller \in Callers, par \in Parameters, status \in Status :
               MayCall(op, caller) /\ Begin(h, op, caller, par, status)
    BY <2>3, BeginType, BeginKeeps
  <2> QED
    BY <2>1, <2>2, <2>3
<1>2. CASE UNCHANGED vars
  <2>1. TypeInv'
    BY <1>2 DEF TypeInv, ServerInv, HandlersInv, Active
  <2>2. ProgramInv' /\ CompanyInv'
    BY <1>2 DEF IInv, ProgramInv, CompanyInv, Active
  <2>3. RegisteredInv'
    BY <1>2 DEF IInv, RegisteredInv, HasRegistered, Active, Par, Before
  <2>4. LoneInv'
    BY <1>2 DEF IInv, LoneInv, HasDone, LookedAt, Now, Alone, Active, Par, Before
  <2>5. LoginInv'
    BY <1>2 DEF IInv, LoginInv, LoggedIn, Knew, Alone, Active, Par, Before
  <2>6. ListInv'
    BY <1>2 DEF IInv, ListInv, Halfway, Active
  <2> QED
    BY <2>1, <2>2, <2>3, <2>4, <2>5, <2>6 DEF IInv
<1> QED
  BY <1>1, <1>2

LEMMA Invariance == Spec => [](TypeInv /\ IInv)
  BY InitType, InitIInv, StepKeeps, PTL DEF Spec

\* The state keeps its types: the entry, the credentials and what each handler has
\* read are what the handlers of subscriptions.py take them for, a consumer exists
\* only on a stream, and a report that writes has an entry to write.
THEOREM TypeCorrect == Spec => []TypeOK
<1>1. TypeInv => TypeOK
  BY DEF TypeInv, ServerInv, HandlersInv, TypeOK, Active
<1> QED
  BY <1>1, Invariance, PTL

\* A registration that answers 201 (create_subscription), while at most repetitions
\* of it were under way, has left a complete subscription with its own terms,
\* whatever calls that died before have left half done, for any number of handlers.
THEOREM CreationIsComplete == Spec => []CreatedIsComplete
<1>1. TypeInv /\ IInv => CreatedIsComplete
  <2> SUFFICES ASSUME TypeInv, IInv, NEW h \in Handlers, Active(h), handler[h].at = "created",
                      handler[h].company # "others"
               PROVE  /\ credentials = NewHash(Par(h).password) /\ info = NewInfo(Par(h))
                      /\ exists /\ consumer
                      /\ Par(h).prefill =>
                           /\ Len(requests) > Len(Before(h).requests)
                           /\ requests[Len(requests)] = Par(h).topics
    BY DEF CreatedIsComplete, Answered
  <2>1. handler[h].op = "register"
    BY DEF IInv, ProgramInv, Legal, LoginSteps, DeleteSteps
  <2>2. HasRegistered(h)
    BY <2>1 DEF IInv, RegisteredInv
  <2> QED
    BY <2>2 DEF HasRegistered
<1> QED
  BY <1>1, Invariance, PTL

\* A call during which no other one was under way does what it answers and nothing
\* else: a deletion leaves nothing behind, a report changes only the status, the
\* others leave the subscription as it was, but for the age of the hash.
THEOREM LoneCallsKeepTheirWord == Spec => []LoneCallsDoAsTheySay
<1>1. TypeInv /\ IInv => LoneCallsDoAsTheySay
  <2> SUFFICES ASSUME TypeInv, IInv PROVE DeletedIsGone /\ OthersKeepTheSubscription
    BY DEF LoneCallsDoAsTheySay
  <2>1. \A h \in Handlers : Alone(h) => HasDone(h)
    BY DEF IInv, LoneInv
  <2>2. DeletedIsGone
    BY <2>1 DEF DeletedIsGone, Answered, HasDone
  <2>3. OthersKeepTheSubscription
    BY <2>1 DEF OthersKeepTheSubscription, Answered, HasDone, LookedAt, LoginSteps
  <2> QED
    BY <2>2, <2>3
<1> QED
  BY <1>1, Invariance, PTL

\* A consumer gets in with the registered password and with no other
\* (authenticate_user), and what it may not ask for it is refused, also when the
\* stored hash is brought up to date on the way.
THEOREM LoginsAreRight == Spec => []LoginIsRight
<1>1. TypeInv /\ IInv => LoginIsRight
  <2> SUFFICES ASSUME TypeInv, IInv, NEW h \in Handlers, Alone(h), Answered(h, Answers),
                      handler[h].caller = "consumer"
               PROVE  handler[h].at # "refused"
                        <=> /\ handler[h].op # "register"
                            /\ \E hash \in {Before(h).credentials} \ {None} :
                                 hash.password = Par(h).password
    BY DEF LoginIsRight
  <2>1. LoggedIn(h)
    BY DEF IInv, LoginInv
  <2>2. handler[h].at # "login"
    BY DEF Answered, Answers
  <2>3. handler[h].at # "refused" <=> Knew(h)
    BY <2>1, <2>2 DEF LoggedIn
  <2> QED
    BY <2>3 DEF Knew
<1> QED
  BY <1>1, Invariance, PTL

\* As long as no call has died half-way or got in the way of another, the list of
\* the subscriptions (get_subscriptions) is an answer, and it and the look at one
\* agree with the entry.
THEOREM ListsAreRight == Spec => []ListIsRight
<1>1. TypeInv /\ IInv => ListIsRight
  BY DEF IInv, ListInv, ListIsRight, Answered
<1> QED
  BY <1>1, Invariance, PTL
=============================================================================
