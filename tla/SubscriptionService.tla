-------------------------- MODULE SubscriptionService --------------------------
(***************************************************************************)
(* The handlers of the subscriptions API for one name, await by await:     *)
(* registration, deletion, the report of a prefill status, the list of all *)
(* subscriptions and the authenticated look at one.  They work on five     *)
(* things on the NATS server that no transaction holds together: the       *)
(* credentials, the subscription's entry, its stream, the stream's durable *)
(* consumer and the prefill queue                                          *)
(* (src/src/server/services/subscriptions.py).                             *)
(*                                                                         *)
(* Handlers overlap and die at any await.  What is promised is promised to *)
(* a call that ran alone, whatever earlier calls that overlapped or died   *)
(* have left behind.                                                       *)
(***************************************************************************)
EXTENDS Integers, Sequences, FiniteSets

CONSTANTS
    Handlers,       \* slots for handlers under way
    Passwords,
    Topics,         \* values of realms_topics
    MaxCalls,       \* bound: calls
    MaxDeaths       \* bound: handlers that die with the API process

ASSUME BoundsAssumption == {MaxCalls, MaxDeaths} \subseteq Nat
ASSUME ParametersAssumption == Passwords # {} /\ Topics # {}

VARIABLES
    \* on the NATS server
    credentials,    \* bucket "credentials": the hash for the name, or None
    info,           \* bucket "SUBSCRIPTIONS": the entry for the name, or None
    exists,         \* whether the stream exists
    consumer,       \* whether its durable consumer exists
    requests,       \* prefill requests for the name, in order
    \* the API process
    handler,        \* see Handler
    \* history: a call died, or ran in the company of others
    disturbed,
    \* bounds
    calls, deaths

server == <<credentials, info, exists, consumer, requests>>
vars == <<server, handler, disturbed, calls, deaths>>

None == [none |-> TRUE]

\* What a registration states; the consumer's own requests use the password only.
Parameters == [password : Passwords, prefill : BOOLEAN, topics : Topics]

\* A bcrypt hash is known by its password; an outdated one was made with other
\* settings than those of today, a login replaces it.
Hash == [password : Passwords, outdated : BOOLEAN]
NewHash(pw) == [password |-> pw, outdated |-> FALSE]

Status == {"pending", "running", "done", "failed"}
Info == [prefill : BOOLEAN, topics : Topics, status : Status]
NewInfo(par) == [prefill |-> par.prefill, topics |-> par.topics,
                 status |-> IF par.prefill THEN "pending" ELSE "done"]

Steps == {"register", "compare", "credentials", "info", "stream", "consumer", "request",
          "delete", "delete credentials", "delete info", "delete stream", "delete consumer",
          "report", "write status", "login", "rehash", "list", "list entry", "show"}
Answers == {"created", "exists", "conflict", "deleted", "reported", "not found",
            "shown", "listed", "failed", "refused"}

\* The settings hold the passwords of the administrator and of the prefill
\* service; a consumer shows the password of a subscription.
Callers == {"admin", "prefill", "consumer"}

\* A handler: its operation, its next step or its answer, who calls, its
\* parameters, the entry it has read, what the server held when it began, and its
\* company: who else was under way at the same time, nobody, only registrations
\* with the same parameters (a client that repeats its request), or others.
Operations == {"register", "delete", "report", "list", "show"}
Free == [at |-> "free"]
Handler == [op : Operations, at : Steps \cup Answers, caller : Callers, par : Parameters,
            status : Status, read : Info \cup {None}, company : {"nobody", "same", "others"},
            before : [credentials : Hash \cup {None}, info : Info \cup {None},
                      exists : BOOLEAN, consumer : BOOLEAN, requests : Seq(Topics)]]

TypeOK ==
    /\ credentials \in Hash \cup {None}
    /\ info \in Info \cup {None}
    /\ exists \in BOOLEAN
    /\ consumer \in BOOLEAN
    /\ consumer => exists
    /\ requests \in Seq(Topics)
    /\ \A h \in Handlers : handler[h] = Free \/ handler[h] \in Handler
    /\ DOMAIN handler = Handlers
    /\ \A h \in Handlers : handler[h] # Free /\ handler[h].at = "write status" => handler[h].read # None
    /\ disturbed \in BOOLEAN
    /\ calls \in 0..MaxCalls /\ deaths \in 0..MaxDeaths

Now == [credentials |-> credentials, info |-> info, exists |-> exists,
        consumer |-> consumer, requests |-> requests]

\* Nothing is registered, or a subscription since before the last update.
Init ==
    /\ \/ credentials = None /\ info = None /\ exists = FALSE
       \/ /\ credentials \in [password : Passwords, outdated : {TRUE}]
          /\ info \in [prefill : {TRUE}, topics : Topics, status : {"running", "done"}]
          /\ exists = TRUE
    /\ consumer = exists
    /\ requests = <<>>
    /\ handler = [h \in Handlers |-> Free]
    /\ disturbed = FALSE
    /\ calls = 0 /\ deaths = 0

-----------------------------------------------------------------------------
Active(h) == handler[h] # Free

Repeats(g, op, par) == op = "register" /\ handler[g].op = op /\ handler[g].par = par

\* A request arrives, and is company to whoever is under way.  Nothing is promised
\* to calls in the company of others: what they began with is forgotten.
Forgotten == [credentials |-> None, info |-> None, exists |-> FALSE,
              consumer |-> FALSE, requests |-> <<>>]

\* authenticate_admin, authenticate_prefill: decided from the settings alone
Static(op) == CASE op \in {"register", "list", "delete"} -> {"admin"}
                [] op = "report" -> {"prefill"}
                [] op = "show" -> {}

\* Where the handler of a caller starts.  Two operations ask for the password of
\* the subscription, one of them when the caller is not the administrator.
FirstStep(op, caller) == IF caller \in Static(op) THEN op
                         ELSE IF op \in {"delete", "show"} THEN "login"
                         ELSE "refused"

Begin(h, op, caller, par, status) ==
    LET others == {g \in Handlers : Active(g)}
        company == IF others = {} THEN "nobody"
                   ELSE IF \A g \in others : Repeats(g, op, par) THEN "same" ELSE "others"
    IN
    /\ ~Active(h)
    /\ calls < MaxCalls
    /\ calls' = calls + 1
    /\ handler' = [g \in Handlers |->
         IF g = h
           THEN [op |-> op, at |-> FirstStep(op, caller), caller |-> caller,
                 par |-> par, status |-> status, read |-> None,
                 company |-> company,
                 before |-> IF company = "others" THEN Forgotten ELSE Now]
         ELSE IF ~Active(g) THEN Free
         ELSE IF Repeats(g, op, par) /\ handler[g].company # "others"
           THEN [handler[g] EXCEPT !.company = "same"]
         ELSE [handler[g] EXCEPT !.company = "others", !.before = Forgotten]]
    /\ disturbed' = (disturbed \/ company = "others")
    /\ UNCHANGED <<server, deaths>>

\* Handler h makes a step from one await to the next, or to its answer.
At(h, step) == Active(h) /\ handler[h].at = step
Goto(h, step) == handler' = [handler EXCEPT ![h].at = step]
Par(h) == handler[h].par

bounds == <<disturbed, calls, deaths>>

\* verify_and_update_password; without a hash nothing matches
Matches(pw) == credentials # None /\ credentials.password = pw

anyParameters == CHOOSE par \in Parameters : TRUE
WithPassword(pw) == [anyParameters EXCEPT !.password = pw]

-----------------------------------------------------------------------------
(* POST /v1/subscriptions *)

\* is_subscriptions_matching, as far as the entry tells
SameTerms(par) == info.prefill = par.prefill /\ info.topics = par.topics

\* get_subscription_info: with an entry the call ends in a comparison.
ReadForRegistration(h) ==
    /\ At(h, "register")
    /\ Goto(h, IF info = None THEN "credentials"
               ELSE IF SameTerms(Par(h)) THEN "compare" ELSE "conflict")
    /\ UNCHANGED <<server, bounds>>

\* The password is compared with the hash; there may be none.
ComparePassword(h) ==
    /\ At(h, "compare")
    /\ Goto(h, IF Matches(Par(h).password) THEN "exists" ELSE "conflict")
    /\ UNCHANGED <<server, bounds>>

\* Mutant: credentials that are there already are kept.
StoreCredentialsIfMissing(h) ==
    /\ At(h, "credentials")
    /\ credentials' = IF credentials = None THEN NewHash(Par(h).password) ELSE credentials
    /\ Goto(h, "info")
    /\ UNCHANGED <<info, exists, consumer, requests, bounds>>

StoreCredentials(h) ==
    /\ At(h, "credentials")
    /\ credentials' = NewHash(Par(h).password)
    /\ Goto(h, "info")
    /\ UNCHANGED <<info, exists, consumer, requests, bounds>>

StoreInfo(h) ==
    /\ At(h, "info")
    /\ info' = NewInfo(Par(h))
    /\ Goto(h, "stream")
    /\ UNCHANGED <<credentials, exists, consumer, requests, bounds>>

EnsureStream(h) ==
    /\ At(h, "stream")
    /\ exists' = TRUE
    /\ Goto(h, "consumer")
    /\ UNCHANGED <<credentials, info, consumer, requests, bounds>>

\* Without the stream the server refuses: the call fails.
EnsureConsumer(h) ==
    /\ At(h, "consumer")
    /\ consumer' = exists
    /\ IF exists THEN Goto(h, IF Par(h).prefill THEN "request" ELSE "created")
                 ELSE handler' = [handler EXCEPT ![h] = Free]
    /\ UNCHANGED <<credentials, info, exists, requests, bounds>>

SendRequest(h) ==
    /\ At(h, "request")
    /\ requests' = Append(requests, Par(h).topics)
    /\ Goto(h, "created")
    /\ UNCHANGED <<credentials, info, exists, consumer, bounds>>

Register(h) ==
    \/ \E par \in Parameters : Begin(h, "register", "admin", par, "pending")
    \/ Begin(h, "register", "consumer", anyParameters, "pending")
    \/ ReadForRegistration(h)
    \/ ComparePassword(h)
    \/ StoreCredentials(h)
    \/ StoreInfo(h)
    \/ EnsureStream(h)
    \/ EnsureConsumer(h)
    \/ SendRequest(h)

-----------------------------------------------------------------------------
(* DELETE /v1/subscriptions/{name} *)

\* Mutant: the credentials are deleted before the entry is looked for.
DeleteBeforeReading(h) ==
    /\ At(h, "delete")
    /\ credentials' = None
    /\ Goto(h, IF info = None THEN "not found" ELSE "delete info")
    /\ UNCHANGED <<info, exists, consumer, requests, bounds>>

\* Mutant: the credentials stay.
DeleteAllButCredentials(h) ==
    /\ At(h, "delete")
    /\ Goto(h, IF info = None THEN "not found" ELSE "delete info")
    /\ UNCHANGED <<server, bounds>>

ReadForDeletion(h) ==
    /\ At(h, "delete")
    /\ Goto(h, IF info = None THEN "not found" ELSE "delete credentials")
    /\ UNCHANGED <<server, bounds>>

DeleteCredentials(h) ==
    /\ At(h, "delete credentials")
    /\ credentials' = None
    /\ Goto(h, "delete info")
    /\ UNCHANGED <<info, exists, consumer, requests, bounds>>

DeleteInfo(h) ==
    /\ At(h, "delete info")
    /\ info' = None
    /\ Goto(h, "delete stream")
    /\ UNCHANGED <<credentials, exists, consumer, requests, bounds>>

\* A stream goes with its consumers; a missing one is ignored.
DeleteStream(h) ==
    /\ At(h, "delete stream")
    /\ exists' = FALSE /\ consumer' = FALSE
    /\ Goto(h, "delete consumer")
    /\ UNCHANGED <<credentials, info, requests, bounds>>

DeleteConsumer(h) ==
    /\ At(h, "delete consumer")
    /\ consumer' = FALSE
    /\ Goto(h, "deleted")
    /\ UNCHANGED <<credentials, info, exists, requests, bounds>>

Delete(h) ==
    \/ Begin(h, "delete", "admin", anyParameters, "pending")
    \/ \E pw \in Passwords : Begin(h, "delete", "consumer", WithPassword(pw), "pending")
    \/ ReadForDeletion(h)
    \/ DeleteCredentials(h)
    \/ DeleteInfo(h)
    \/ DeleteStream(h)
    \/ DeleteConsumer(h)

-----------------------------------------------------------------------------
(* PATCH /v1/subscriptions/{name}/prefill *)

\* Mutant: a missing entry is not noticed.
ReadWhateverThereIs(h) ==
    /\ At(h, "report")
    /\ handler' = [handler EXCEPT ![h].read = info, ![h].at = "write status"]
    /\ UNCHANGED <<server, bounds>>

ReadForReport(h) ==
    /\ At(h, "report")
    /\ handler' = [handler EXCEPT ![h].read = info,
                                  ![h].at = IF info = None THEN "not found" ELSE "write status"]
    /\ UNCHANGED <<server, bounds>>

\* The entry that was read is written, without a check of its revision.
WriteStatus(h) ==
    /\ At(h, "write status")
    /\ info' = [handler[h].read EXCEPT !.status = handler[h].status]
    /\ Goto(h, "reported")
    /\ UNCHANGED <<credentials, exists, consumer, requests, bounds>>

Report(h) ==
    \/ \E status \in Status \ {"pending"} :
         Begin(h, "report", "prefill", anyParameters, status)
    \/ ReadForReport(h)
    \/ WriteStatus(h)

-----------------------------------------------------------------------------
(* authenticate_user, and GET /v1/subscriptions/{name} *)

\* What follows the authentication is the operation itself.
LetIn(h) == handler[h].op

\* Mutant: an outdated hash is replaced before the password is verified.
RehashBeforeVerifying(h) ==
    /\ At(h, "login")
    /\ Goto(h, IF credentials = None THEN "refused"
               ELSE IF credentials.outdated THEN "rehash"
               ELSE IF Matches(Par(h).password) THEN LetIn(h) ELSE "refused")
    /\ UNCHANGED <<server, bounds>>

\* The hash decides; verifying it takes long, so positive results are cached
\* under the password and the hash.
Verify(h) ==
    /\ At(h, "login")
    /\ Goto(h, IF ~Matches(Par(h).password) THEN "refused"
               ELSE IF credentials.outdated THEN "rehash" ELSE LetIn(h))
    /\ UNCHANGED <<server, bounds>>

\* The hash made with today's settings replaces whatever there is.
Rehash(h) ==
    /\ At(h, "rehash")
    /\ credentials' = NewHash(Par(h).password)
    /\ Goto(h, LetIn(h))
    /\ UNCHANGED <<info, exists, consumer, requests, bounds>>

Look(h) ==
    /\ At(h, "show")
    /\ handler' = [handler EXCEPT ![h].read = info,
                                  ![h].at = IF info = None THEN "not found" ELSE "shown"]
    /\ UNCHANGED <<server, bounds>>

Show(h) ==
    \/ \E pw \in Passwords : Begin(h, "show", "consumer", WithPassword(pw), "pending")
    \/ Verify(h)
    \/ Rehash(h)
    \/ Look(h)

-----------------------------------------------------------------------------
(* GET /v1/subscriptions *)

\* The names are the keys of the credentials bucket.
ListNames(h) ==
    /\ At(h, "list")
    /\ Goto(h, IF credentials = None THEN "listed" ELSE "list entry")
    /\ UNCHANGED <<server, bounds>>

\* Each name's entry is read.  Without one there is a None in the list, which the
\* validation of the answer does not let through.
ListEntry(h) ==
    /\ At(h, "list entry")
    /\ handler' = [handler EXCEPT ![h].read = info,
                                  ![h].at = IF info = None THEN "failed" ELSE "listed"]
    /\ UNCHANGED <<server, bounds>>

List(h) ==
    \/ Begin(h, "list", "admin", anyParameters, "pending")
    \/ ListNames(h)
    \/ ListEntry(h)

-----------------------------------------------------------------------------
\* The answer is on its way to the client, the handler ends.
Answer(h) ==
    /\ Active(h)
    /\ handler[h].at \in Answers
    /\ handler' = [handler EXCEPT ![h] = Free]
    /\ UNCHANGED <<server, bounds>>

\* The handler ends in the middle: the process dies, or a request to NATS fails.
Die(h) ==
    /\ Active(h)
    /\ handler[h].at \in Steps
    /\ deaths < MaxDeaths
    /\ deaths' = deaths + 1
    /\ handler' = [handler EXCEPT ![h] = Free]
    /\ disturbed' = TRUE
    /\ UNCHANGED <<server, calls>>

Next == \E h \in Handlers :
    \/ Register(h) \/ Delete(h) \/ Report(h) \/ Show(h) \/ List(h)
    \/ Answer(h) \/ Die(h)

Spec == Init /\ [][Next]_vars

-----------------------------------------------------------------------------
(* Properties *)

Answered(h, answers) == Active(h) /\ handler[h].at \in answers
Alone(h) == Active(h) /\ handler[h].company = "nobody"
Before(h) == handler[h].before

\* POST /v1/subscriptions answered 201: the subscription is complete, with the
\* password, the realms and topics of this call, its stream and consumer, and a
\* request if it asks for a prefill.  It is so after calls that died, whose
\* leftovers it takes over, and when the client repeats the call meanwhile.
CreatedIsComplete ==
    \A h \in Handlers : Answered(h, {"created"}) /\ handler[h].company # "others" =>
        /\ credentials = NewHash(Par(h).password)
        /\ info = NewInfo(Par(h))
        /\ exists /\ consumer
        /\ Par(h).prefill =>
             /\ Len(requests) > Len(Before(h).requests)
             /\ requests[Len(requests)] = Par(h).topics

\* "Delete a subscription and all of its data" (delete_subscription): nothing is
\* left after a deletion during which no other call for the name was under way.
DeletedIsGone ==
    \A h \in Handlers : Answered(h, {"deleted"}) /\ Alone(h) =>
        credentials = None /\ info = None /\ ~exists /\ ~consumer

\* The other answers leave the subscription as it was: a registration that is
\* refused or found to be a repetition changes nothing, nor does a list, a report
\* changes only the status, a look at the subscription at most the age of the hash.
OthersKeepTheSubscription ==
    \A h \in Handlers : Alone(h) =>
        /\ Answered(h, {"exists", "conflict", "refused", "listed", "failed"}) => Now = Before(h)
        /\ Answered(h, {"reported"}) =>
             Now = [Before(h) EXCEPT !.info.status = handler[h].status]
        /\ Answered(h, {"shown", "not found"}) =>
             Now = IF handler[h].caller # "consumer" THEN Before(h)
                   ELSE [Before(h) EXCEPT !.credentials = NewHash(Par(h).password)]

\* A call during which no other one for the name was under way does what it answers,
\* and nothing else.
LoneCallsDoAsTheySay == DeletedIsGone /\ OthersKeepTheSubscription

\* A consumer looks at its subscription, or deletes it, with the registered
\* password and with no other, whatever is cached, and this stays so when the hash
\* is brought up to date; nobody but the administrator registers.
LoginIsRight ==
    \A h \in Handlers :
        Alone(h) /\ Answered(h, Answers) /\ handler[h].caller = "consumer" =>
            (handler[h].at # "refused"
              <=> /\ handler[h].op # "register"
                  /\ \E hash \in {Before(h).credentials} \ {None} :
                       hash.password = Par(h).password)

\* The list of all subscriptions is an answer, and it and the look at one agree
\* with the entry, as long as no call has died half-way or got in the way of
\* another: then no credentials are left without an entry, on which every list
\* would fail.
ListIsRight ==
    \A h \in Handlers : ~disturbed /\ Answered(h, {"listed", "failed", "shown"}) =>
        handler[h].at # "failed" /\ handler[h].read = info

=============================================================================
