---------------------------- MODULE Prefill_proofs ----------------------------
(***************************************************************************)
(* Proofs about the prefill service: type correctness, that a settled      *)
(* prefill stays settled, that a prefill which is done is complete, and    *)
(* that purges spare the live events.                                      *)
(***************************************************************************)
EXTENDS Prefill, WellFoundedInduction, TLAPS

-----------------------------------------------------------------------------
(* Induction, and the flattening of sequences *)

\* Every set of natural numbers that is not empty has a least element.
LEMMA Least == ASSUME NEW T \in SUBSET Nat, T # {} PROVE \E n \in T : \A m \in T : n <= m
<1> DEFINE less == {ss \in Nat \X Nat : ss[1] < ss[2]}
<1>1. IsWellFoundedOn(less, Nat)
  BY NatLessThanWellFounded DEF OpToRel
<1>2. \E x \in T : \A y \in T : ~(<<y, x>> \in less)
  BY <1>1, WFMin
<1>3. \A x, y \in Nat : ~(<<y, x>> \in less) => x <= y
  OBVIOUS
<1> HIDE DEF less
<1> QED
  BY <1>2, <1>3

\* Induction, for a set instead of a predicate.
LEMMA Induction ==
  ASSUME NEW T, 0 \in T, \A n \in Nat : n \in T => n + 1 \in T
  PROVE  Nat \subseteq T
<1> SUFFICES ASSUME Nat \ T # {} PROVE FALSE
  OBVIOUS
<1>1. PICK n \in Nat \ T : \A m \in Nat \ T : n <= m
  BY Least
<1>2. n # 0 /\ n - 1 \in Nat /\ n - 1 \in T
  BY <1>1
<1> QED
  BY <1>1, <1>2

\* f holds the beginnings of the flattened sequence s, up to the n-th part.
IsFlat(f, s, n) == \A i \in 1..n : f[i] = IF i = 1 THEN s[i] ELSE f[i - 1] \o s[i]

\* There are such beginnings,
LEMMA FlatExists ==
  ASSUME NEW S, NEW s \in Seq(Seq(S))
  PROVE  \A n \in 1..Len(s) : \E f \in [1..n -> Seq(S)] : IsFlat(f, s, n)
<1> DEFINE T == {n \in Nat : n \in 1..Len(s) => \E f \in [1..n -> Seq(S)] : IsFlat(f, s, n)}
<1>1. 0 \in T
  OBVIOUS
<1>2. ASSUME NEW n \in Nat, n \in T PROVE n + 1 \in T
  <2> SUFFICES ASSUME n + 1 \in 1..Len(s) PROVE \E f \in [1..n + 1 -> Seq(S)] : IsFlat(f, s, n + 1)
    OBVIOUS
  <2>0. s[n + 1] \in Seq(S)
    OBVIOUS
  <2>1. CASE n = 0
    <3> DEFINE f == [i \in 1..1 |-> s[i]]
    <3>1. f \in [1..1 -> Seq(S)] /\ IsFlat(f, s, 1)
      BY <2>0, <2>1 DEF IsFlat
    <3> QED
      BY <2>1, <3>1
  <2>2. CASE n # 0
    <3>1. n \in 1..Len(s)
      BY <2>2
    <3>2. PICK f \in [1..n -> Seq(S)] : IsFlat(f, s, n)
      BY <1>2, <3>1
    <3> DEFINE g == [i \in 1..n + 1 |-> IF i = n + 1 THEN f[n] \o s[n + 1] ELSE f[i]]
    <3>3. g \in [1..n + 1 -> Seq(S)]
      BY <2>0, <2>2, <3>2
    <3>4. IsFlat(g, s, n + 1)
      <4>1. \A j \in 1..n + 1 : g[j] = IF j = n + 1 THEN f[n] \o s[n + 1] ELSE f[j]
        OBVIOUS
      <4>2. n \in 1..n + 1 /\ n + 1 \in 1..n + 1 /\ n # n + 1 /\ n + 1 # 1 /\ (n + 1) - 1 = n
        BY <2>2
      <4> HIDE DEF g
      <4>3. ASSUME NEW i \in 1..n + 1
            PROVE g[i] = IF i = 1 THEN s[i] ELSE g[i - 1] \o s[i]
        <5>1. CASE i = n + 1
          BY <4>1, <4>2, <5>1, Zenon
        <5>2. CASE i # n + 1
          <6>1. i \in 1..n /\ (i # 1 => i - 1 \in 1..n + 1 /\ i - 1 # n + 1)
            BY <5>2
          <6>2. f[i] = IF i = 1 THEN s[i] ELSE f[i - 1] \o s[i]
            BY <3>2, <6>1, Zenon DEF IsFlat
          <6>3. g[i] = f[i] /\ (i # 1 => g[i - 1] = f[i - 1])
            BY <4>1, <5>2, <6>1, Zenon
          <6> QED
            BY <6>2, <6>3, Zenon
        <5> QED
          BY <5>1, <5>2
      <4> QED
        BY <4>3 DEF IsFlat
    <3> QED
      BY <3>3, <3>4
  <2> QED
    BY <2>1, <2>2
<1>3. Nat \subseteq T
  <2> HIDE DEF T
  <2> QED
    BY <1>1, <1>2, Induction
<1> QED
  BY <1>3

\* they are determined by the sequence,
LEMMA FlatUnique ==
  ASSUME NEW n \in Nat, NEW f, NEW g, NEW s, IsFlat(f, s, n), IsFlat(g, s, n)
  PROVE  \A i \in 1..n : f[i] = g[i]
<1> DEFINE T == {i \in Nat : i \in 1..n => f[i] = g[i]}
<1>1. 0 \in T
  OBVIOUS
<1>2. ASSUME NEW i \in Nat, i \in T PROVE i + 1 \in T
  <2> SUFFICES ASSUME i + 1 \in 1..n PROVE f[i + 1] = g[i + 1]
    OBVIOUS
  <2>1. /\ f[i + 1] = IF i + 1 = 1 THEN s[i + 1] ELSE f[i] \o s[i + 1]
        /\ g[i + 1] = IF i + 1 = 1 THEN s[i + 1] ELSE g[i] \o s[i + 1]
    BY DEF IsFlat
  <2> QED
    BY <1>2, <2>1
<1>3. Nat \subseteq T
  <2> HIDE DEF T
  <2> QED
    BY <1>1, <1>2, Induction
<1> QED
  BY <1>3

\* and FlattenSeq is the last of them.
LEMMA FlattenIs ==
  ASSUME NEW S, NEW s \in Seq(Seq(S)), s # <<>>
  PROVE  \E f \in [1..Len(s) -> Seq(S)] : IsFlat(f, s, Len(s)) /\ FlattenSeq(s) = f[Len(s)]
<1> DEFINE n == Len(s)
           f == CHOOSE f : f = [i \in 1..n |-> IF i = 1 THEN s[i] ELSE f[i - 1] \o s[i]]
<1>1. n \in Nat /\ n # 0 /\ n \in 1..n
  OBVIOUS
<1>2. PICK g \in [1..n -> Seq(S)] : IsFlat(g, s, n)
  BY <1>1, FlatExists
<1>3. g = [i \in 1..n |-> IF i = 1 THEN s[i] ELSE g[i - 1] \o s[i]]
  BY <1>2 DEF IsFlat
<1>4. f = [i \in 1..n |-> IF i = 1 THEN s[i] ELSE f[i - 1] \o s[i]]
  BY <1>3, Zenon
<1>5. FlattenSeq(s) = f[n]
  BY <1>1, Zenon DEF FlattenSeq
<1> HIDE DEF f
<1>6. IsFlat(f, s, n) /\ DOMAIN f = 1..n
  <2>1. ASSUME NEW i \in 1..n
        PROVE  f[i] = IF i = 1 THEN s[i] ELSE f[i - 1] \o s[i]
    BY <1>4, Zenon
  <2>2. DOMAIN f = 1..n
    BY <1>4, Zenon
  <2> QED
    BY <2>1, <2>2 DEF IsFlat
<1>7. \A i \in 1..n : f[i] = g[i]
  <2> HIDE DEF n
  <2> QED
    BY <1>1, <1>2, <1>6, FlatUnique
<1>8. f \in [1..n -> Seq(S)]
  <2>1. f = [i \in 1..n |-> f[i]]
    BY <1>4, Zenon
  <2> QED
    BY <1>7, <2>1
<1> QED
  BY <1>5, <1>6, <1>8

\* What FlattenSeq returns is a sequence over the same elements,
LEMMA FlattenType ==
  ASSUME NEW S, NEW s \in Seq(Seq(S))
  PROVE  FlattenSeq(s) \in Seq(S)
<1>1. CASE s = <<>>
  BY <1>1 DEF FlattenSeq
<1>2. CASE s # <<>>
  <2>1. Len(s) \in 1..Len(s)
    BY <1>2
  <2>2. PICK f \in [1..Len(s) -> Seq(S)] : IsFlat(f, s, Len(s)) /\ FlattenSeq(s) = f[Len(s)]
    BY <1>2, FlattenIs
  <2> QED
    BY <2>1, <2>2
<1> QED
  BY <1>1, <1>2

\* and one part more is concatenated to it.
LEMMA FlattenAppend ==
  ASSUME NEW S, NEW s \in Seq(Seq(S)), NEW x \in Seq(S)
  PROVE  FlattenSeq(Append(s, x)) = FlattenSeq(s) \o x
<1>1. PICK t : t = Append(s, x)
  OBVIOUS
<1>2. PICK n \in Nat : n = Len(s)
  OBVIOUS
<1>3. t \in Seq(Seq(S)) /\ Len(t) = n + 1 /\ t[n + 1] = x /\ \A i \in 1..n : s[i] = t[i]
  BY <1>1, <1>2
<1>4. t # <<>>
  <2>1. Len(t) # Len(<<>>)
    BY <1>2, <1>3
  <2> QED
    BY <2>1
<1>5. PICK g \in [1..n + 1 -> Seq(S)] : IsFlat(g, t, n + 1) /\ FlattenSeq(t) = g[n + 1]
  BY <1>3, <1>4, FlattenIs
<1>6. CASE s = <<>>
  <2>1. n = 0 /\ FlattenSeq(s) = <<>>
    BY <1>2, <1>6 DEF FlattenSeq
  <2>2. g[1] = x
    BY <1>3, <1>5, <2>1 DEF IsFlat
  <2> QED
    BY <1>1, <1>5, <2>1, <2>2
<1>7. CASE s # <<>>
  <2>1. PICK f \in [1..n -> Seq(S)] : IsFlat(f, s, n) /\ FlattenSeq(s) = f[n]
    BY <1>2, <1>7, FlattenIs
  <2>2. /\ n \in 1..n /\ n + 1 \in 1..n + 1 /\ n + 1 # 1 /\ (n + 1) - 1 = n
        /\ \A i \in 1..n : i \in 1..n + 1
    BY <1>2, <1>7
  <2>3. IsFlat(g, s, n)
    BY <1>3, <1>5, <2>2, Zenon DEF IsFlat
  <2>4. \A i \in 1..n : f[i] = g[i]
    BY <2>1, <2>3, FlatUnique
  <2>5. g[n + 1] = g[n] \o x
    BY <1>3, <1>5, <2>2, Zenon DEF IsFlat
  <2> QED
    BY <1>1, <1>5, <2>1, <2>2, <2>4, <2>5
<1> QED
  BY <1>6, <1>7
-----------------------------------------------------------------------------
(* The messages of a stream, and the objects of realm-topics *)

LEMMA OnlyType ==
  ASSUME NEW R, NEW S, NEW q \in Seq(R)
  PROVE  Only(q, S) \in Seq(R) /\ Only(q, S) \in Seq(S)
<1> DEFINE parts == [i \in DOMAIN q |-> IF q[i] \in S THEN <<q[i]>> ELSE <<>>]
<1>1. parts \in Seq(Seq(R)) /\ parts \in Seq(Seq(S))
  <2>1. \A i \in DOMAIN q : parts[i] \in Seq(R) /\ parts[i] \in Seq(S)
    OBVIOUS
  <2>2. DOMAIN q = 1..Len(q) /\ Len(q) \in Nat
    OBVIOUS
  <2> QED
    BY <2>1, <2>2
<1> HIDE DEF parts
<1>2. FlattenSeq(parts) \in Seq(R) /\ FlattenSeq(parts) \in Seq(S)
  BY <1>1, FlattenType
<1> QED
  BY <1>2 DEF Only, parts

LEMMA OnlyAppend ==
  ASSUME NEW R, NEW S, NEW q \in Seq(R), NEW x \in R
  PROVE  Only(Append(q, x), S) = IF x \in S THEN Append(Only(q, S), x) ELSE Only(q, S)
<1> DEFINE parts == [i \in DOMAIN q |-> IF q[i] \in S THEN <<q[i]>> ELSE <<>>]
           part == IF x \in S THEN <<x>> ELSE <<>>
           r == Append(q, x)
           rParts == [i \in DOMAIN r |-> IF r[i] \in S THEN <<r[i]>> ELSE <<>>]
<1>1. parts \in Seq(Seq(R)) /\ part \in Seq(R)
  <2>1. \A i \in DOMAIN q : parts[i] \in Seq(R)
    OBVIOUS
  <2>2. DOMAIN q = 1..Len(q) /\ Len(q) \in Nat
    OBVIOUS
  <2> QED
    BY <2>1, <2>2
<1>2. rParts = Append(parts, part)
  <2>1. /\ DOMAIN r = 1..Len(q) + 1 /\ DOMAIN q = 1..Len(q) /\ Len(q) \in Nat
        /\ r[Len(q) + 1] = x /\ \A i \in 1..Len(q) : r[i] = q[i]
    OBVIOUS
  <2> HIDE DEF r
  <2>2. /\ DOMAIN rParts = 1..Len(q) + 1 /\ Len(parts) = Len(q)
        /\ rParts[Len(q) + 1] = part /\ \A i \in 1..Len(q) : rParts[i] = parts[i]
    BY <2>1
  <2>3. rParts \in Seq(Seq(R))
    <3>1. \A i \in DOMAIN r : r[i] \in R
      BY DEF r
    <3>2. \A i \in DOMAIN r : rParts[i] \in Seq(R)
      BY <3>1
    <3> QED
      BY <2>1, <3>2
  <2> HIDE DEF rParts, parts, part
  <2> QED
    BY <1>1, <2>1, <2>2, <2>3
<1>3. Only(q, S) = FlattenSeq(parts) /\ Only(r, S) = FlattenSeq(rParts)
  BY Zenon DEF Only
<1> HIDE DEF parts, r, rParts
<1>4. Only(r, S) = Only(q, S) \o part
  BY <1>1, <1>2, <1>3, FlattenAppend
<1>5. Only(q, S) \in Seq(R)
  BY OnlyType
<1> QED
  BY <1>4, <1>5 DEF r

LEMMA OnlyEmpty == ASSUME NEW S PROVE Only(<<>>, S) = <<>>
BY DEF Only, FlattenSeq

\* A sequence over S is what it has of S,
LEMMA OnlyAll ==
  ASSUME NEW S, NEW q \in Seq(S)
  PROVE  Only(q, S) = q
<1> DEFINE T == {n \in Nat : \A r \in Seq(S) : Len(r) = n => Only(r, S) = r}
<1>1. 0 \in T
  <2> SUFFICES ASSUME NEW r \in Seq(S), Len(r) = 0 PROVE Only(r, S) = r
    OBVIOUS
  <2>1. r = <<>>
    OBVIOUS
  <2> QED
    BY <2>1, OnlyEmpty
<1>2. ASSUME NEW n \in Nat, n \in T PROVE n + 1 \in T
  <2> SUFFICES ASSUME NEW r \in Seq(S), Len(r) = n + 1 PROVE Only(r, S) = r
    OBVIOUS
  <2>1. PICK b \in Seq(S), x \in S : r = Append(b, x) /\ Len(b) = n
    <3>1. SubSeq(r, 1, n) \in Seq(S) /\ Len(SubSeq(r, 1, n)) = n /\ r[n + 1] \in S
      OBVIOUS
    <3>2. r = Append(SubSeq(r, 1, n), r[n + 1])
      OBVIOUS
    <3> QED
      BY <3>1, <3>2
  <2>2. Only(b, S) = b
    BY <1>2, <2>1
  <2> QED
    BY <2>1, <2>2, OnlyAppend
<1>3. Nat \subseteq T
  <2> HIDE DEF T
  <2> QED
    BY <1>1, <1>2, Induction
<1> QED
  BY <1>3

\* and one over another set has nothing of it.
LEMMA OnlyNone ==
  ASSUME NEW R, NEW S, R \cap S = {}, NEW q \in Seq(R)
  PROVE  Only(q, S) = <<>>
<1>1. Only(q, S) \in Seq(R) /\ Only(q, S) \in Seq(S)
  BY OnlyType
<1> QED
  BY <1>1

LEMMA Purged ==
  ASSUME NEW q \in Seq(Objects \cup {Live})
  PROVE  /\ Only(q, {Live}) \in Seq(Objects \cup {Live})
         /\ Only(Only(q, {Live}), {Live}) = Only(q, {Live})
         /\ Only(Only(q, {Live}), Objects) = <<>>
<1>1. Only(q, {Live}) \in Seq(Objects \cup {Live}) /\ Only(q, {Live}) \in Seq({Live})
  BY OnlyType
<1>2. {Live} \cap Objects = {}
  BY TopicsAssumption
<1> QED
  BY <1>1, <1>2, OnlyAll, OnlyNone

LEMMA InitialStateType ==
  ASSUME NEW d \in Seq(RealmTopics)
  PROVE  InitialState(d) \in Seq(Objects)
<1> DEFINE parts == [i \in DOMAIN d |-> IF d[i] \in Foreign THEN <<>> ELSE Contents[d[i]]]
<1>1. parts \in Seq(Seq(Objects))
  <2>1. \A i \in DOMAIN d : parts[i] \in Seq(Objects)
    BY TopicsAssumption
  <2>2. DOMAIN d = 1..Len(d) /\ Len(d) \in Nat
    OBVIOUS
  <2> QED
    BY <2>1, <2>2
<1> HIDE DEF parts
<1>2. FlattenSeq(parts) \in Seq(Objects)
  BY <1>1, FlattenType
<1> QED
  BY <1>2 DEF InitialState, parts

LEMMA InitialStateEmpty == InitialState(<<>>) = <<>>
BY DEF InitialState, FlattenSeq

LEMMA InitialStateAppend ==
  ASSUME NEW d \in Seq(RealmTopics), NEW t \in RealmTopics
  PROVE  /\ t \in Foreign => InitialState(Append(d, t)) = InitialState(d)
         /\ t \notin Foreign => InitialState(Append(d, t)) = InitialState(d) \o Contents[t]
<1> DEFINE parts == [i \in DOMAIN d |-> IF d[i] \in Foreign THEN <<>> ELSE Contents[d[i]]]
           part == IF t \in Foreign THEN <<>> ELSE Contents[t]
           e == Append(d, t)
           eParts == [i \in DOMAIN e |-> IF e[i] \in Foreign THEN <<>> ELSE Contents[e[i]]]
<1>1. parts \in Seq(Seq(Objects)) /\ part \in Seq(Objects)
  <2>1. (\A i \in DOMAIN d : parts[i] \in Seq(Objects)) /\ part \in Seq(Objects)
    BY TopicsAssumption
  <2>2. DOMAIN d = 1..Len(d) /\ Len(d) \in Nat
    OBVIOUS
  <2> QED
    BY <2>1, <2>2
<1>2. eParts = Append(parts, part)
  <2>1. /\ DOMAIN e = 1..Len(d) + 1 /\ DOMAIN d = 1..Len(d) /\ Len(d) \in Nat
        /\ e[Len(d) + 1] = t /\ \A i \in 1..Len(d) : e[i] = d[i]
    OBVIOUS
  <2> HIDE DEF e
  <2>2. /\ DOMAIN eParts = 1..Len(d) + 1 /\ Len(parts) = Len(d)
        /\ eParts[Len(d) + 1] = part /\ \A i \in 1..Len(d) : eParts[i] = parts[i]
    BY <2>1
  <2>3. eParts \in Seq(Seq(Objects))
    <3>1. \A i \in DOMAIN e : e[i] \in RealmTopics
      BY DEF e
    <3>2. \A i \in DOMAIN e : eParts[i] \in Seq(Objects)
      BY <3>1, TopicsAssumption
    <3> QED
      BY <2>1, <3>2
  <2> HIDE DEF eParts, parts, part
  <2> QED
    BY <1>1, <2>1, <2>2, <2>3
<1>3. InitialState(d) = FlattenSeq(parts) /\ InitialState(e) = FlattenSeq(eParts)
  BY Zenon DEF InitialState
<1> HIDE DEF parts, e, eParts
<1>4. InitialState(e) = InitialState(d) \o part
  BY <1>1, <1>2, <1>3, FlattenAppend
<1>5. InitialState(d) \in Seq(Objects)
  BY InitialStateType
<1> QED
  BY <1>4, <1>5 DEF e

-----------------------------------------------------------------------------
(* Type correctness *)

EntriesOK ==
    /\ kv \in [Subs -> Entry \cup {NoEntry}]
    /\ registrations \in 0..MaxRegistrations
    /\ fresh \subseteq Subs

CallsOK == calls \in [Subs -> Call \cup {NoCall}]

PatchesOK == patches \subseteq Patch

StreamsOK == exists \subseteq Subs /\ stream \in [Subs -> Seq(Objects \cup {Live})]

QueueOK == requests \in Seq(Request) /\ attempts \in Nat /\ failures \subseteq Request

WorkerOK ==
    /\ wpc \in {"down", "idle", "purge", "fill", "list", "park", "report", "reported", "ack"}
    /\ wpc \notin {"down", "idle"} => requests # <<>>
    /\ wpc = "reported" => \E p \in patches : p.awaited
    /\ todo \in Seq(RealmTopics)
    /\ urls \in Seq(Objects)
    /\ report \in Statuses

FaultsOK == faults \in 0..MaxFaults

\* The response that is awaited is the one to the present report, and what the
\* worker reports agrees with how far it has got.
WorkerInv ==
    /\ \A p \in patches : p.awaited => wpc = "reported" /\ p.status = report
    /\ \A p, q \in patches : p.awaited /\ q.awaited => p = q
    /\ urls # <<>> => wpc = "fill"
    /\ wpc \in {"report", "reported"} => report # "pending"
    /\ wpc \in {"report", "reported"} /\ report = "failed" => request \in failures
    /\ wpc \in {"report", "reported"} /\ report = "done" => todo = <<>>
    /\ (wpc \in {"report", "reported"} /\ report = "running") \/ wpc = "list" =>
          todo # <<>> /\ Head(todo) \notin Foreign

Typed == EntriesOK /\ CallsOK /\ PatchesOK /\ StreamsOK /\ QueueOK /\ WorkerOK /\ FaultsOK

LEMMA TypeParts == (TypeOK <=> Typed) /\ (TypeOK' <=> Typed')
BY DEF TypeOK, Typed, EntriesOK, CallsOK, PatchesOK, StreamsOK, QueueOK, WorkerOK, FaultsOK

LEMMA CallTypes ==
  ASSUME NEW c \in Call \cup {NoCall}
  PROVE  /\ c.next \in {"ensure", "request", "drop", "none"}
         /\ c.next \in {"ensure", "request"} =>
              c \in [next : {"ensure", "request"}, sends : Request]
         /\ c.next = "none" => c = NoCall
         /\ c.next = "ensure" => [c EXCEPT !.next = "request"] \in Call
BY DEF Call, NoCall

LEMMA EntryTypes ==
  ASSUME NEW s \in Subs, NEW i \in 1..MaxRegistrations, NEW T \in TopicLists, NEW x \in Statuses
  PROVE  /\ [id |-> i, topics |-> T, status |-> x] \in Entry
         /\ [id |-> i, topics |-> T, status |-> x] # NoEntry
         /\ [sub |-> s, id |-> i, topics |-> T] \in Request
BY DEF Entry, NoEntry, Request

\* NoEntry is not an entry.
LEMMA NoEntryIsNone == NoEntry \notin Entry
BY DEF Entry, NoEntry

LEMMA TypeInit == Init => TypeOK /\ WorkerInv
<1> SUFFICES ASSUME Init PROVE TypeOK /\ WorkerInv
  OBVIOUS
<1>1. EntriesOK /\ CallsOK /\ PatchesOK /\ StreamsOK
  BY BoundsAssumption DEF Init, EntriesOK, CallsOK, PatchesOK, StreamsOK
<1>2. QueueOK /\ WorkerOK /\ FaultsOK
  BY BoundsAssumption DEF Init, QueueOK, WorkerOK, FaultsOK, Statuses
<1>3. WorkerInv
  BY DEF Init, WorkerInv
<1> QED
  BY <1>1, <1>2, <1>3, TypeParts DEF Typed

LEMMA TypeApi ==
  ASSUME TypeOK, WorkerInv, NEW s \in Subs, Register(s) \/ Delete(s) \/ LiveEvent(s)
  PROVE  TypeOK' /\ WorkerInv'
<1>0. EntriesOK /\ CallsOK /\ PatchesOK /\ StreamsOK /\ QueueOK /\ WorkerOK /\ FaultsOK
  BY TypeParts DEF Typed
<1>1. CASE \E T \in TopicLists : StoreSubscription(s, T)
  <2>1. PICK T \in TopicLists : StoreSubscription(s, T)
    BY <1>1
  <2>2. registrations' \in 1..MaxRegistrations /\ "pending" \in Statuses
    BY <1>0, <2>1, BoundsAssumption DEF StoreSubscription, EntriesOK, Statuses
  <2>3. /\ [id |-> registrations', topics |-> T, status |-> "pending"] \in Entry
        /\ [sub |-> s, id |-> registrations', topics |-> T] \in Request
    BY <2>2, EntryTypes
  <2>4. EntriesOK'
    BY <1>0, <2>1, <2>2, <2>3 DEF StoreSubscription, EntriesOK
  <2>5. CallsOK'
    BY <1>0, <2>1, <2>3 DEF StoreSubscription, CallsOK, Call
  <2>6. UNCHANGED <<serverVars, patches, wpc, fillVars, faults>>
    BY <2>1 DEF StoreSubscription, workerUnchanged
  <2>7. PatchesOK' /\ StreamsOK' /\ QueueOK' /\ WorkerOK' /\ FaultsOK' /\ WorkerInv'
    BY <1>0, <2>6 DEF PatchesOK, StreamsOK, QueueOK, WorkerOK, FaultsOK, WorkerInv, request,
                      serverVars, fillVars
  <2> QED
    BY <2>4, <2>5, <2>7, TypeParts DEF Typed
<1>2. CASE EnsureStream(s)
  <2>1. calls[s] \in Call \cup {NoCall}
    BY <1>0 DEF CallsOK
  <2>2. [calls[s] EXCEPT !.next = "request"] \in Call
    BY <1>2, <2>1, CallTypes DEF EnsureStream
  <2>3. CallsOK'
    BY <1>0, <1>2, <2>2 DEF EnsureStream, CallsOK
  <2>4. UNCHANGED <<stream, kv, registrations, fresh, patches, requests, attempts, failures,
                    wpc, fillVars, faults>> /\ exists' = exists \cup {s}
    BY <1>2 DEF EnsureStream, workerUnchanged, queueUnchanged
  <2>5. EntriesOK' /\ PatchesOK' /\ StreamsOK' /\ QueueOK' /\ WorkerOK' /\ FaultsOK' /\ WorkerInv'
    BY <1>0, <2>4 DEF EntriesOK, PatchesOK, StreamsOK, QueueOK, WorkerOK, FaultsOK, WorkerInv,
                      request, fillVars
  <2> QED
    BY <2>3, <2>5, TypeParts DEF Typed
<1>3. CASE SendRequest(s)
  <2>1. calls[s] \in Call \cup {NoCall}
    BY <1>0 DEF CallsOK
  <2>2. calls[s].sends \in Request
    BY <1>3, <2>1, CallTypes DEF SendRequest
  <2>3. CallsOK' /\ QueueOK'
    BY <1>0, <1>3, <2>2 DEF SendRequest, CallsOK, QueueOK
  <2>4. UNCHANGED <<exists, stream, kv, registrations, fresh, patches, failures,
                    wpc, fillVars, faults>>
    BY <1>3 DEF SendRequest, workerUnchanged
  <2>5. requests' # <<>> /\ (requests # <<>> => request' = request)
    BY <1>0, <1>3, <2>2 DEF SendRequest, QueueOK, request
  <2>6. EntriesOK' /\ PatchesOK' /\ StreamsOK' /\ WorkerOK' /\ FaultsOK' /\ WorkerInv'
    BY <1>0, <2>4, <2>5 DEF EntriesOK, PatchesOK, StreamsOK, WorkerOK, FaultsOK, WorkerInv, fillVars
  <2> QED
    BY <2>3, <2>6, TypeParts DEF Typed
<1>4. CASE RemoveSubscription(s)
  <2>1. CallsOK' /\ EntriesOK'
    BY <1>0, <1>4 DEF RemoveSubscription, CallsOK, EntriesOK, Call
  <2>2. UNCHANGED <<serverVars, patches, wpc, fillVars, faults>>
    BY <1>4 DEF RemoveSubscription, workerUnchanged
  <2>3. PatchesOK' /\ StreamsOK' /\ QueueOK' /\ WorkerOK' /\ FaultsOK' /\ WorkerInv'
    BY <1>0, <2>2 DEF PatchesOK, StreamsOK, QueueOK, WorkerOK, FaultsOK, WorkerInv, request,
                      serverVars, fillVars
  <2> QED
    BY <2>1, <2>3, TypeParts DEF Typed
<1>5. CASE DropStream(s)
  <2>1. CallsOK' /\ StreamsOK'
    BY <1>0, <1>5 DEF DropStream, CallsOK, StreamsOK
  <2>2. UNCHANGED <<kv, registrations, fresh, patches, requests, attempts, failures,
                    wpc, fillVars, faults>>
    BY <1>5 DEF DropStream, workerUnchanged, queueUnchanged
  <2>3. EntriesOK' /\ PatchesOK' /\ QueueOK' /\ WorkerOK' /\ FaultsOK' /\ WorkerInv'
    BY <1>0, <2>2 DEF EntriesOK, PatchesOK, QueueOK, WorkerOK, FaultsOK, WorkerInv, request, fillVars
  <2> QED
    BY <2>1, <2>3, TypeParts DEF Typed
<1>6. CASE LiveEvent(s)
  <2>1. StreamsOK'
    BY <1>0, <1>6 DEF LiveEvent, StreamsOK
  <2>2. UNCHANGED <<apiVars, requests, attempts, failures, wpc, fillVars, faults>>
    BY <1>6 DEF LiveEvent, workerUnchanged, queueUnchanged
  <2>3. EntriesOK' /\ CallsOK' /\ PatchesOK' /\ QueueOK' /\ WorkerOK' /\ FaultsOK' /\ WorkerInv'
    BY <1>0, <2>2 DEF EntriesOK, CallsOK, PatchesOK, QueueOK, WorkerOK, FaultsOK, WorkerInv, request,
                      apiVars, fillVars
  <2> QED
    BY <2>1, <2>3, TypeParts DEF Typed
<1> QED
  BY <1>1, <1>2, <1>3, <1>4, <1>5, <1>6 DEF Register, Delete

LEMMA TypeHandler ==
  ASSUME TypeOK, WorkerInv, NEW p \in patches, Handler(p)
  PROVE  TypeOK' /\ WorkerInv'
<1>0. EntriesOK /\ CallsOK /\ PatchesOK /\ StreamsOK /\ QueueOK /\ WorkerOK /\ FaultsOK
  BY TypeParts DEF Typed
<1>1. /\ p \in Patch /\ p.sub \in Subs /\ p.status \in Statuses
      /\ p.read \in Entry \cup {NoEntry} /\ p.awaited \in BOOLEAN
  BY <1>0 DEF PatchesOK, Patch
<1>2. CASE ReadEntry(p)
  <2>1. PICK q : q = [p EXCEPT !.read = kv[p.sub]]
    OBVIOUS
  <2>2. q \in Patch /\ q.awaited = p.awaited /\ q.status = p.status
    BY <1>0, <1>1, <2>1 DEF EntriesOK, Patch
  <2>3. patches' = (patches \ {p}) \cup {q}
    BY <1>2, <2>1 DEF ReadEntry
  <2>4. UNCHANGED <<serverVars, kv, registrations, fresh, calls, wpc, fillVars, faults>>
    BY <1>2 DEF ReadEntry, workerUnchanged
  <2>5. EntriesOK' /\ CallsOK' /\ PatchesOK' /\ StreamsOK' /\ QueueOK' /\ FaultsOK'
    BY <1>0, <2>2, <2>3, <2>4 DEF EntriesOK, CallsOK, PatchesOK, StreamsOK, QueueOK, FaultsOK, serverVars
  <2>6. wpc' = "reported" => \E r \in patches' : r.awaited
    BY <1>0, <2>2, <2>3, <2>4 DEF WorkerOK
  <2>7. WorkerOK'
    BY <1>0, <2>4, <2>6 DEF WorkerOK, serverVars, fillVars
  <2>8. \A a, b \in patches' : a.awaited /\ b.awaited => a = b
    BY <2>2, <2>3 DEF WorkerInv
  <2>9. \A a \in patches' : a.awaited => wpc' = "reported" /\ a.status = report'
    BY <2>2, <2>3, <2>4 DEF WorkerInv, fillVars
  <2>10. WorkerInv'
    BY <2>4, <2>8, <2>9 DEF WorkerInv, request, serverVars, fillVars
  <2> QED
    BY <2>5, <2>7, <2>10, TypeParts DEF Typed
<1>3. CASE WriteEntry(p)
  <2>1. p.read \in Entry
    BY <1>1, <1>3 DEF WriteEntry
  <2>2. [p.read EXCEPT !.status = p.status] \in Entry
    BY <1>1, <2>1 DEF Entry
  <2>3. EntriesOK'
    BY <1>0, <1>3, <2>2 DEF WriteEntry, EntriesOK
  <2>4. /\ UNCHANGED <<serverVars, registrations, fresh, calls, fillVars, faults>>
        /\ patches' = patches \ {p}
        /\ wpc' = IF ~p.awaited THEN wpc ELSE IF p.status = "running" THEN "list" ELSE "ack"
    BY <1>3 DEF WriteEntry
  <2>5. CallsOK' /\ PatchesOK' /\ StreamsOK' /\ QueueOK' /\ FaultsOK'
    BY <1>0, <2>4 DEF CallsOK, PatchesOK, StreamsOK, QueueOK, FaultsOK, serverVars
  <2>6. CASE p.awaited
    <3>1. /\ wpc = "reported" /\ p.status = report /\ \A r \in patches' : ~r.awaited
          /\ requests' # <<>> /\ urls' = <<>> /\ wpc' \in {"list", "ack"}
          /\ wpc' = "list" => report = "running"
      BY <1>0, <2>4, <2>6 DEF WorkerInv, WorkerOK, serverVars, fillVars
    <3>2. WorkerOK'
      BY <1>0, <2>4, <3>1 DEF WorkerOK, fillVars
    <3>3. WorkerInv'
      BY <2>4, <3>1 DEF WorkerInv, fillVars
    <3> QED
      BY <2>3, <2>5, <3>2, <3>3, TypeParts DEF Typed
  <2>7. CASE ~p.awaited
    <3>1. wpc' = wpc /\ (wpc' = "reported" => \E r \in patches' : r.awaited)
      BY <1>0, <2>4, <2>7 DEF WorkerOK
    <3>2. WorkerOK'
      BY <1>0, <2>4, <3>1 DEF WorkerOK, serverVars, fillVars
    <3>3. WorkerInv'
      BY <2>4, <3>1 DEF WorkerInv, request, serverVars, fillVars
    <3> QED
      BY <2>3, <2>5, <3>2, <3>3, TypeParts DEF Typed
  <2> QED
    BY <2>6, <2>7
<1>4. CASE NoEntryToReport(p)
  <2>1. /\ UNCHANGED <<serverVars, kv, registrations, fresh, calls, report, faults>>
        /\ patches' = patches \ {p}
    BY <1>4 DEF NoEntryToReport, GoDown, fillVars
  <2>2. EntriesOK' /\ CallsOK' /\ PatchesOK' /\ StreamsOK' /\ QueueOK' /\ FaultsOK'
    BY <1>0, <2>1 DEF EntriesOK, CallsOK, PatchesOK, StreamsOK, QueueOK, FaultsOK, serverVars
  <2>3. CASE p.awaited
    <3>1. wpc' = "down" /\ todo' = <<>> /\ urls' = <<>> /\ \A r \in patches' : ~r.awaited
      BY <1>4, <2>1, <2>3 DEF NoEntryToReport, GoDown, WorkerInv
    <3>2. WorkerOK' /\ WorkerInv'
      BY <1>0, <2>1, <3>1 DEF WorkerOK, WorkerInv
    <3> QED
      BY <2>2, <3>2, TypeParts DEF Typed
  <2>4. CASE ~p.awaited
    <3>1. /\ wpc' = wpc /\ UNCHANGED fillVars
          /\ wpc' = "reported" => \E r \in patches' : r.awaited
      BY <1>0, <1>4, <2>1, <2>4 DEF NoEntryToReport, WorkerOK
    <3>2. WorkerOK'
      BY <1>0, <2>1, <3>1 DEF WorkerOK, serverVars, fillVars
    <3>3. WorkerInv'
      BY <2>1, <3>1 DEF WorkerInv, request, serverVars, fillVars
    <3> QED
      BY <2>2, <3>2, <3>3, TypeParts DEF Typed
  <2> QED
    BY <2>3, <2>4
<1> QED
  BY <1>2, <1>3, <1>4 DEF Handler

\* A worker that goes down loses what it was doing; no response is awaited then.
LEMMA TypeDown ==
  ASSUME TypeOK, GoDown, patches' \subseteq Patch, \A p \in patches' : ~p.awaited, FaultsOK'
  PROVE  TypeOK' /\ WorkerInv'
<1>0. EntriesOK /\ CallsOK /\ PatchesOK /\ StreamsOK /\ QueueOK /\ WorkerOK
  BY TypeParts DEF Typed
<1>1. /\ UNCHANGED <<serverVars, kv, registrations, fresh, calls, report>>
      /\ wpc' = "down" /\ todo' = <<>> /\ urls' = <<>>
  BY DEF GoDown
<1>2. EntriesOK' /\ CallsOK' /\ PatchesOK' /\ StreamsOK' /\ QueueOK'
  BY <1>0, <1>1 DEF EntriesOK, CallsOK, PatchesOK, StreamsOK, QueueOK, serverVars
<1>3. WorkerOK' /\ WorkerInv'
  BY <1>0, <1>1 DEF WorkerOK, WorkerInv
<1> QED
  BY <1>2, <1>3, TypeParts DEF Typed

LEMMA TypeFault ==
  ASSUME TypeOK, WorkerInv, Crash \/ LoseAck \/ RestartApi
  PROVE  TypeOK' /\ WorkerInv'
<1>0. EntriesOK /\ CallsOK /\ PatchesOK /\ StreamsOK /\ QueueOK /\ WorkerOK /\ FaultsOK
  BY TypeParts DEF Typed
<1>1. FaultsOK'
  BY <1>0, BoundsAssumption DEF FaultsOK, Crash, LoseAck, RestartApi, Fault
<1>2. CASE Crash
  <2>1. \A p \in patches : [p EXCEPT !.awaited = FALSE] \in Patch /\ ~[p EXCEPT !.awaited = FALSE].awaited
    BY <1>0 DEF PatchesOK, Patch
  <2>2. GoDown /\ patches' \subseteq Patch /\ \A p \in patches' : ~p.awaited
    BY <1>2, <2>1 DEF Crash
  <2> QED
    BY <1>1, <2>2, TypeDown
<1>3. CASE LoseAck
  <2>1. UNCHANGED <<serverVars, apiVars, fillVars>> /\ wpc = "ack" /\ wpc' = "idle"
    BY <1>3 DEF LoseAck
  <2>2. EntriesOK' /\ CallsOK' /\ PatchesOK' /\ StreamsOK' /\ QueueOK'
    BY <1>0, <2>1 DEF EntriesOK, CallsOK, PatchesOK, StreamsOK, QueueOK, serverVars, apiVars
  <2>3. WorkerOK' /\ WorkerInv'
    BY <1>0, <2>1 DEF WorkerOK, WorkerInv, serverVars, apiVars, fillVars
  <2> QED
    BY <1>1, <2>2, <2>3, TypeParts DEF Typed
<1>4. CASE RestartApi
  <2>1. patches' = {}
    BY <1>4 DEF RestartApi
  <2>2. CASE wpc = "reported"
    BY <1>1, <1>4, <2>1, <2>2, TypeDown DEF RestartApi
  <2>3. CASE wpc # "reported"
    <3>1. UNCHANGED <<serverVars, kv, registrations, fresh, calls, wpc, fillVars>>
      BY <1>4, <2>3 DEF RestartApi
    <3>2. EntriesOK' /\ CallsOK' /\ PatchesOK' /\ StreamsOK' /\ QueueOK'
      BY <1>0, <2>1, <3>1 DEF EntriesOK, CallsOK, PatchesOK, StreamsOK, QueueOK, serverVars
    <3>3. WorkerOK' /\ WorkerInv'
      BY <1>0, <2>1, <2>3, <3>1 DEF WorkerOK, WorkerInv, request, serverVars, fillVars
    <3> QED
      BY <1>1, <3>2, <3>3, TypeParts DEF Typed
  <2> QED
    BY <2>2, <2>3
<1> QED
  BY <1>2, <1>3, <1>4

LEMMA RequestTypes ==
  ASSUME QueueOK, requests # <<>>
  PROVE  /\ request \in Request /\ request.sub \in Subs /\ request.topics \in Seq(RealmTopics)
         /\ Tail(requests) \in Seq(Request)
<1>1. request \in Request /\ Tail(requests) \in Seq(Request)
  BY DEF QueueOK, request
<1> QED
  BY <1>1, TopicsAssumption DEF Request

LEMMA TypeWorker ==
  ASSUME TypeOK, WorkerInv, Worker
  PROVE  TypeOK' /\ WorkerInv'
<1>0. EntriesOK /\ CallsOK /\ PatchesOK /\ StreamsOK /\ QueueOK /\ WorkerOK /\ FaultsOK
  BY TypeParts DEF Typed
<1>1. CASE Start
  <2>1. UNCHANGED <<serverVars, apiVars, fillVars, faults>> /\ wpc = "down" /\ wpc' = "idle"
    BY <1>1 DEF Start
  <2>2. EntriesOK' /\ CallsOK' /\ PatchesOK' /\ StreamsOK' /\ QueueOK' /\ FaultsOK'
    BY <1>0, <2>1 DEF EntriesOK, CallsOK, PatchesOK, StreamsOK, QueueOK, FaultsOK, serverVars, apiVars
  <2>3. WorkerOK' /\ WorkerInv'
    BY <1>0, <2>1 DEF WorkerOK, WorkerInv, serverVars, apiVars, fillVars
  <2> QED
    BY <2>2, <2>3, TypeParts DEF Typed
<1>2. CASE TakeRequest
  <2>1. /\ UNCHANGED <<exists, stream, requests, failures, apiVars, fillVars, faults>>
        /\ wpc = "idle" /\ requests # <<>> /\ wpc' \in {"park", "purge"}
        /\ attempts' = CountAttempt(attempts)
    BY <1>2 DEF TakeRequest
  <2>2. EntriesOK' /\ CallsOK' /\ PatchesOK' /\ StreamsOK' /\ FaultsOK'
    BY <1>0, <2>1 DEF EntriesOK, CallsOK, PatchesOK, StreamsOK, FaultsOK, apiVars
  <2>3. QueueOK'
    BY <1>0, <2>1, AttemptsAssumption DEF QueueOK, CountAttempt
  <2>4. WorkerOK' /\ WorkerInv'
    BY <1>0, <2>1 DEF WorkerOK, WorkerInv, apiVars, fillVars
  <2> QED
    BY <2>2, <2>3, <2>4, TypeParts DEF Typed
<1>3. CASE Park
  <2>1. /\ UNCHANGED <<exists, stream, requests, attempts, apiVars, todo, urls, faults>>
        /\ wpc = "park" /\ wpc' = "report" /\ report' = "failed" /\ failures' = failures \cup {request}
        /\ requests # <<>>
    BY <1>0, <1>3 DEF Park, WorkerOK
  <2>2. EntriesOK' /\ CallsOK' /\ PatchesOK' /\ StreamsOK' /\ FaultsOK'
    BY <1>0, <2>1 DEF EntriesOK, CallsOK, PatchesOK, StreamsOK, FaultsOK, apiVars
  <2>3. QueueOK'
    BY <1>0, <2>1, RequestTypes DEF QueueOK
  <2>4. WorkerOK' /\ WorkerInv'
    BY <1>0, <2>1 DEF WorkerOK, WorkerInv, request, apiVars, Statuses
  <2> QED
    BY <2>2, <2>3, <2>4, TypeParts DEF Typed
<1>4. CASE Purge
  <2>1. /\ UNCHANGED <<exists, apiVars, urls, report, faults, requests, attempts, failures>>
        /\ stream' = [stream EXCEPT ![request.sub] = Only(@, {Live})]
        /\ wpc = "purge" /\ wpc' = "fill" /\ todo' = request.topics /\ requests # <<>>
    BY <1>0, <1>4 DEF Purge, queueUnchanged, WorkerOK
  <2>2. request.sub \in Subs /\ request.topics \in Seq(RealmTopics)
    BY <1>0, <2>1, RequestTypes
  <2>3. EntriesOK' /\ CallsOK' /\ PatchesOK' /\ QueueOK' /\ FaultsOK'
    BY <1>0, <2>1 DEF EntriesOK, CallsOK, PatchesOK, QueueOK, FaultsOK, apiVars
  <2>4. StreamsOK'
    <3>1. stream[request.sub] \in Seq(Objects \cup {Live})
      BY <1>0, <2>2 DEF StreamsOK
    <3>2. Only(stream[request.sub], {Live}) \in Seq(Objects \cup {Live})
      BY <3>1, Purged
    <3> QED
      BY <1>0, <2>1, <3>2 DEF StreamsOK
  <2>5. WorkerOK' /\ WorkerInv'
    BY <1>0, <2>1, <2>2 DEF WorkerOK, WorkerInv, apiVars
  <2> QED
    BY <2>3, <2>4, <2>5, TypeParts DEF Typed
<1>5. CASE SkipForeign \/ ReportRunning \/ ReportDone
  <2>1. /\ UNCHANGED <<serverVars, apiVars, urls, faults>>
        /\ wpc = "fill" /\ urls = <<>>
        /\ \/ wpc' = "fill" /\ todo # <<>> /\ todo' = Tail(todo) /\ report' = report
           \/ wpc' = "report" /\ todo' = todo /\ report' = "done" /\ todo = <<>>
           \/ wpc' = "report" /\ todo' = todo /\ report' = "running"
                /\ todo # <<>> /\ Head(todo) \notin Foreign
    BY <1>5 DEF SkipForeign, ReportRunning, ReportDone
  <2>2. EntriesOK' /\ CallsOK' /\ PatchesOK' /\ StreamsOK' /\ QueueOK' /\ FaultsOK'
    BY <1>0, <2>1 DEF EntriesOK, CallsOK, PatchesOK, StreamsOK, QueueOK, FaultsOK, serverVars, apiVars
  <2>3. todo' \in Seq(RealmTopics) /\ report' \in Statuses
    BY <1>0, <2>1 DEF WorkerOK, Statuses
  <2>4. WorkerOK' /\ WorkerInv'
    BY <1>0, <2>1, <2>3 DEF WorkerOK, WorkerInv, serverVars, apiVars
  <2> QED
    BY <2>2, <2>4, TypeParts DEF Typed
<1>6. CASE SendReport
  <2>1. PICK q : q = [sub |-> request.sub, status |-> report, read |-> NoEntry, awaited |-> TRUE]
    OBVIOUS
  <2>2. /\ UNCHANGED <<serverVars, kv, registrations, fresh, calls, fillVars, faults>>
        /\ wpc = "report" /\ wpc' = "reported" /\ requests # <<>>
        /\ patches' = patches \cup {q}
    BY <1>0, <1>6, <2>1 DEF SendReport, WorkerOK
  <2>3. q \in Patch /\ q.awaited /\ q.status = report
    BY <1>0, <2>1, <2>2, RequestTypes DEF Patch, WorkerOK
  <2>4. EntriesOK' /\ CallsOK' /\ PatchesOK' /\ StreamsOK' /\ QueueOK' /\ FaultsOK'
    BY <1>0, <2>2, <2>3 DEF EntriesOK, CallsOK, PatchesOK, StreamsOK, QueueOK, FaultsOK, serverVars
  <2>5. \A r \in patches : ~r.awaited
    BY <2>2 DEF WorkerInv
  <2>6. WorkerOK' /\ WorkerInv'
    BY <1>0, <2>2, <2>3, <2>5 DEF WorkerOK, WorkerInv, request, serverVars, fillVars
  <2> QED
    BY <2>4, <2>6, TypeParts DEF Typed
<1>7. CASE ListObjects
  <2>1. /\ UNCHANGED <<serverVars, apiVars, report, faults>>
        /\ wpc = "list" /\ wpc' = "fill" /\ todo' = Tail(todo) /\ urls' = Contents[Head(todo)]
        /\ todo # <<>> /\ Head(todo) \notin Foreign
    BY <1>7 DEF ListObjects, WorkerInv
  <2>2. todo' \in Seq(RealmTopics) /\ urls' \in Seq(Objects)
    <3>1. Head(todo) \in RealmTopics \ Foreign /\ Tail(todo) \in Seq(RealmTopics)
      BY <1>0, <2>1 DEF WorkerOK
    <3> QED
      BY <2>1, <3>1, TopicsAssumption
  <2>3. EntriesOK' /\ CallsOK' /\ PatchesOK' /\ StreamsOK' /\ QueueOK' /\ FaultsOK'
    BY <1>0, <2>1 DEF EntriesOK, CallsOK, PatchesOK, StreamsOK, QueueOK, FaultsOK, serverVars, apiVars
  <2>4. WorkerOK' /\ WorkerInv'
    BY <1>0, <2>1, <2>2 DEF WorkerOK, WorkerInv, serverVars, apiVars
  <2> QED
    BY <2>3, <2>4, TypeParts DEF Typed
<1>8. CASE FillObject
  <2>1. /\ UNCHANGED <<exists, apiVars, wpc, todo, report, faults, requests, attempts, failures>>
        /\ stream' = [stream EXCEPT ![request.sub] = Append(@, Head(urls))]
        /\ wpc = "fill" /\ urls # <<>> /\ urls' = Tail(urls) /\ requests # <<>>
    BY <1>0, <1>8 DEF FillObject, queueUnchanged, WorkerOK
  <2>2. request.sub \in Subs /\ Head(urls) \in Objects /\ urls' \in Seq(Objects)
    BY <1>0, <2>1, RequestTypes DEF WorkerOK
  <2>3. EntriesOK' /\ CallsOK' /\ PatchesOK' /\ QueueOK' /\ FaultsOK'
    BY <1>0, <2>1 DEF EntriesOK, CallsOK, PatchesOK, QueueOK, FaultsOK, apiVars
  <2>4. StreamsOK'
    BY <1>0, <2>1, <2>2 DEF StreamsOK
  <2>5. WorkerOK' /\ WorkerInv'
    BY <1>0, <2>1, <2>2 DEF WorkerOK, WorkerInv, apiVars
  <2> QED
    BY <2>3, <2>4, <2>5, TypeParts DEF Typed
<1>9. CASE FailWithoutStream
  <2>1. GoDown /\ patches' = patches /\ faults' = faults /\ wpc # "reported"
    BY <1>9 DEF FailWithoutStream
  <2>2. patches' \subseteq Patch /\ (\A p \in patches' : ~p.awaited) /\ FaultsOK'
    BY <1>0, <2>1 DEF PatchesOK, WorkerInv, FaultsOK
  <2> QED
    BY <2>1, <2>2, TypeDown
<1>10. CASE AckRequest
  <2>1. /\ UNCHANGED <<exists, stream, failures, apiVars, fillVars, faults>>
        /\ wpc = "ack" /\ wpc' = "idle" /\ requests' = Tail(requests) /\ attempts' = 0
        /\ requests # <<>>
    BY <1>0, <1>10 DEF AckRequest, WorkerOK
  <2>2. EntriesOK' /\ CallsOK' /\ PatchesOK' /\ StreamsOK' /\ FaultsOK'
    BY <1>0, <2>1 DEF EntriesOK, CallsOK, PatchesOK, StreamsOK, FaultsOK, apiVars
  <2>3. QueueOK'
    BY <1>0, <2>1, RequestTypes DEF QueueOK
  <2>4. WorkerOK' /\ WorkerInv'
    BY <1>0, <2>1 DEF WorkerOK, WorkerInv, apiVars, fillVars
  <2> QED
    BY <2>2, <2>3, <2>4, TypeParts DEF Typed
<1> QED
  BY <1>1, <1>2, <1>3, <1>4, <1>5, <1>6, <1>7, <1>8, <1>9, <1>10 DEF Worker

LEMMA TypeStutter ==
  ASSUME TypeOK, WorkerInv, UNCHANGED vars
  PROVE  TypeOK' /\ WorkerInv'
<1>1. /\ UNCHANGED <<kv, registrations, fresh, calls, patches, exists, stream, requests, attempts>>
      /\ UNCHANGED <<failures, wpc, todo, urls, report, faults>>
  BY DEF vars, serverVars, apiVars, fillVars
<1> QED
  BY <1>1 DEF TypeOK, WorkerInv, request

LEMMA TypeStep == TypeOK /\ WorkerInv /\ [Next]_vars => TypeOK' /\ WorkerInv'
BY TypeApi, TypeHandler, TypeWorker, TypeFault, TypeStutter DEF Next

\* Every variable keeps its type; while a request is handled it stays at the
\* head of the queue, and a report that is sent is waited for.
THEOREM TypeCorrect == Spec => []TypeOK
<1>1. TypeOK /\ WorkerInv /\ [Next]_vars => (TypeOK /\ WorkerInv)'
  BY TypeStep
<1> QED
  BY TypeInit, <1>1, PTL DEF Spec

-----------------------------------------------------------------------------
(* The live events *)

\* The steps that change a stream.
LEMMA StreamStep ==
  ASSUME [Next]_vars
  PROVE  \/ stream' = stream
         \/ \E t \in Subs : DropStream(t) \/ LiveEvent(t)
         \/ Purge \/ FillObject
<1>1. CASE UNCHANGED vars
  BY <1>1 DEF vars, serverVars
<1>2. CASE \E s \in Subs : Register(s) \/ Delete(s) \/ LiveEvent(s)
  <2>1. ASSUME NEW s \in Subs, Register(s) \/ RemoveSubscription(s) PROVE stream' = stream
    BY <2>1 DEF Register, StoreSubscription, EnsureStream, SendRequest, RemoveSubscription, serverVars
  <2> QED
    BY <1>2, <2>1 DEF Delete
<1>3. CASE \E p \in patches : Handler(p)
  BY <1>3 DEF Handler, ReadEntry, WriteEntry, NoEntryToReport, GoDown, serverVars
<1>4. CASE Worker
  BY <1>4 DEF Worker, Start, TakeRequest, Park, SkipForeign, ReportRunning, ReportDone, SendReport,
              ListObjects, FailWithoutStream, AckRequest, GoDown, serverVars
<1>5. CASE Crash \/ LoseAck \/ RestartApi
  BY <1>5 DEF Crash, LoseAck, RestartApi, GoDown, serverVars
<1> QED
  BY <1>1, <1>2, <1>3, <1>4, <1>5 DEF Next

LEMMA LiveKept ==
  ASSUME TypeOK, [Next]_vars, NEW s \in Subs, s \in exists'
  PROVE  Len(LiveEvents(s)) <= Len(LiveEvents(s)')
<1>0. StreamsOK /\ QueueOK /\ WorkerOK
  BY TypeParts DEF Typed
<1>1. PICK q \in Seq(Objects \cup {Live}) : q = stream[s]
  BY <1>0 DEF StreamsOK
<1>2. Only(q, {Live}) \in Seq(Objects \cup {Live})
  BY OnlyType
<1>3. SUFFICES ASSUME NEW r, r = stream'[s] PROVE Len(Only(q, {Live})) <= Len(Only(r, {Live}))
  BY <1>1 DEF LiveEvents
<1>4. CASE r = q
  BY <1>2, <1>4
<1>5. ASSUME NEW t \in Subs, DropStream(t) PROVE r = q
  BY <1>0, <1>1, <1>3, <1>5 DEF DropStream, StreamsOK
<1>6. ASSUME NEW t \in Subs, LiveEvent(t), r # q
      PROVE Len(Only(q, {Live})) <= Len(Only(r, {Live}))
  <2>1. r = Append(q, Live)
    BY <1>0, <1>1, <1>3, <1>6 DEF LiveEvent, StreamsOK
  <2>2. Only(r, {Live}) = Append(Only(q, {Live}), Live)
    BY <2>1, OnlyAppend
  <2> QED
    BY <1>2, <2>2
<1>7. ASSUME Purge, r # q PROVE Len(Only(q, {Live})) <= Len(Only(r, {Live}))
  <2>1. r = Only(q, {Live})
    BY <1>0, <1>1, <1>3, <1>7, RequestTypes DEF Purge, StreamsOK, WorkerOK
  <2>2. Only(r, {Live}) = Only(q, {Live})
    BY <2>1, Purged, Zenon
  <2> QED
    BY <1>2, <2>2
<1>8. ASSUME FillObject, r # q PROVE Len(Only(q, {Live})) <= Len(Only(r, {Live}))
  <2>1. Head(urls) \in Objects /\ Head(urls) \notin {Live}
    BY <1>0, <1>8, TopicsAssumption DEF FillObject, WorkerOK
  <2>2. r = Append(q, Head(urls))
    BY <1>0, <1>1, <1>3, <1>8, RequestTypes DEF FillObject, StreamsOK, WorkerOK
  <2>3. Only(r, {Live}) = Only(q, {Live})
    BY <2>1, <2>2, OnlyAppend
  <2> QED
    BY <1>2, <2>3
<1> QED
  BY <1>1, <1>3, <1>4, <1>5, <1>6, <1>7, <1>8, StreamStep

\* The purge before a fill takes none of the live events that wait in the same
\* stream: only a deletion of the subscription does.
THEOREM LiveEventsAreSpared == Spec => LiveEventsSurvive
<1>1. TypeOK /\ WorkerInv /\ [Next]_vars => (TypeOK /\ WorkerInv)'
  BY TypeStep
<1>2. TypeOK /\ [Next]_vars =>
        [\A s \in Subs : s \in exists' => Len(LiveEvents(s)) <= Len(LiveEvents(s)')]_vars
  BY LiveKept
<1> QED
  BY TypeInit, <1>1, <1>2, PTL DEF Spec, LiveEventsSurvive

-----------------------------------------------------------------------------
(* A registration that found nothing of an earlier one *)

RequestOf(s) == [sub |-> s, id |-> kv[s].id, topics |-> kv[s].topics]

HasRead(p, s) == p.read.id = kv[s].id /\ p.read.topics = kv[s].topics

\* Until the request of a fresh registration is queued there is none, nor a
\* report, for its name; then it is the only one, and every report that has
\* read the entry has read the present one.
FreshOK(s) ==
    /\ Registered(s)
    /\ calls[s].next # "drop"
    /\ calls[s] # NoCall => Fresh(s) /\ calls[s].sends = RequestOf(s)
    /\ \A i \in DOMAIN requests : requests[i].sub = s => requests[i] = RequestOf(s)
    /\ \A i, j \in DOMAIN requests : requests[i].sub = s /\ requests[j].sub = s => i = j
    /\ \A p \in patches : p.sub = s => p.read = NoEntry \/ HasRead(p, s)

FreshInv ==
    /\ \A s \in Subs : calls[s].next \in {"ensure", "request"} => calls[s].sends.sub = s
    /\ \A s \in fresh : FreshOK(s)

LEMMA FreshInit == Init => FreshInv
BY DEF Init, FreshInv, NoCall

\* What keeps a registration fresh: its entry and its call stay, and reports are
\* added only for requests, or in the place of others.
LEMMA FreshKept ==
  ASSUME NEW s \in Subs, FreshOK(s), Registered(s)',
         kv'[s].id = kv[s].id, kv'[s].topics = kv[s].topics,
         calls'[s] = calls[s], requests' = requests,
         \A p \in patches' : p.sub = s =>
            /\ Requested(s) \/ \E o \in patches : o.sub = s
            /\ p.read = NoEntry \/ HasRead(p, s)
  PROVE  FreshOK(s)'
<1>1. RequestOf(s)' = RequestOf(s) /\ Requested(s)' = Requested(s)
  BY DEF RequestOf, Requested
<1>2. \A p \in patches' : p.sub = s => p.read = NoEntry \/ HasRead(p, s)'
  BY DEF HasRead
<1>3. Fresh(s) => Fresh(s)'
  BY <1>1 DEF Fresh
<1> QED
  BY <1>1, <1>2, <1>3 DEF FreshOK

LEMMA FreshSame ==
  ASSUME NEW s \in Subs, FreshOK(s), kv'[s] = kv[s],
         calls'[s] = calls[s], requests' = requests, patches' \subseteq patches
  PROVE  FreshOK(s)'
<1>1. Registered(s)'
  BY DEF FreshOK, Registered
<1>2. \A p \in patches' : p.sub = s =>
         /\ Requested(s) \/ \E o \in patches : o.sub = s
         /\ p.read = NoEntry \/ HasRead(p, s)
  BY DEF FreshOK
<1> QED
  BY <1>1, <1>2, FreshKept

LEMMA FreshApi ==
  ASSUME TypeOK, FreshInv, NEW t \in Subs, Register(t) \/ Delete(t) \/ LiveEvent(t)
  PROVE  FreshInv'
<1>0. EntriesOK /\ CallsOK /\ QueueOK
  BY TypeParts DEF Typed
<1>a. \A s \in Subs : kv[s] \in Entry \cup {NoEntry} /\ calls[s] \in Call \cup {NoCall}
  BY <1>0 DEF EntriesOK, CallsOK
<1>1. ASSUME NEW T \in TopicLists, StoreSubscription(t, T) PROVE FreshInv'
  <2>1. /\ calls[t] = NoCall /\ ~Registered(t)
        /\ kv' = [kv EXCEPT ![t] = [id |-> registrations', topics |-> T, status |-> "pending"]]
        /\ calls' = [calls EXCEPT ![t] =
              [next |-> "ensure", sends |-> [sub |-> t, id |-> registrations', topics |-> T]]]
        /\ fresh' = IF Fresh(t) THEN fresh \cup {t} ELSE fresh
        /\ requests' = requests /\ patches' = patches
    BY <1>1 DEF StoreSubscription, serverVars
  <2>2. registrations' \in 1..MaxRegistrations /\ "pending" \in Statuses
    BY <1>0, <1>1, BoundsAssumption DEF StoreSubscription, EntriesOK, Statuses
  <2>3. \A s \in Subs : calls'[s].next \in {"ensure", "request"} => calls'[s].sends.sub = s
    BY <1>0, <2>1 DEF CallsOK, FreshInv
  <2>4. ASSUME NEW s \in fresh', s # t PROVE FreshOK(s)'
    <3>1. s \in Subs /\ s \in fresh /\ kv'[s] = kv[s] /\ calls'[s] = calls[s]
      BY <1>0, <2>1, <2>4 DEF EntriesOK, CallsOK
    <3> QED
      BY <2>1, <3>1, FreshSame DEF FreshInv
  <2>5. ASSUME t \in fresh' PROVE FreshOK(t)'
    <3>1. Fresh(t)
      BY <2>1, <2>5 DEF FreshInv, FreshOK
    <3>2. Fresh(t)'
      BY <2>1, <3>1 DEF Fresh, Requested
    <3>3. /\ kv'[t] = [id |-> registrations', topics |-> T, status |-> "pending"]
          /\ calls'[t] = [next |-> "ensure", sends |-> [sub |-> t, id |-> registrations', topics |-> T]]
      BY <1>0, <2>1 DEF EntriesOK, CallsOK
    <3>4. Registered(t)' /\ calls'[t].next # "drop" /\ calls'[t].sends = RequestOf(t)'
      BY <2>2, <3>3, EntryTypes DEF Registered, RequestOf
    <3>5. (\A i \in DOMAIN requests' : requests'[i].sub # t) /\ \A p \in patches' : p.sub # t
      BY <3>2 DEF Fresh, Requested
    <3> QED
      BY <3>2, <3>4, <3>5 DEF FreshOK
  <2> QED
    BY <2>3, <2>4, <2>5 DEF FreshInv
<1>2. CASE EnsureStream(t)
  <2>1. /\ calls[t].next = "ensure" /\ calls' = [calls EXCEPT ![t].next = "request"]
        /\ UNCHANGED <<kv, requests, fresh, patches>>
    BY <1>2 DEF EnsureStream, queueUnchanged
  <2>2. calls[t] \in [next : {"ensure", "request"}, sends : Request] /\ calls[t] # NoCall
    BY <1>a, <2>1, CallTypes DEF NoCall
  <2>3. calls'[t].next = "request" /\ calls'[t].sends = calls[t].sends
    BY <1>0, <2>1, <2>2 DEF CallsOK
  <2>4. \A s \in Subs : s # t => calls'[s] = calls[s]
    BY <1>0, <2>1 DEF CallsOK
  <2>5. \A s \in Subs : calls'[s].next \in {"ensure", "request"} => calls'[s].sends.sub = s
    BY <2>1, <2>3, <2>4 DEF FreshInv
  <2>6. ASSUME NEW s \in fresh', s # t PROVE FreshOK(s)'
    <3>1. s \in Subs /\ s \in fresh /\ kv'[s] = kv[s] /\ calls'[s] = calls[s]
      BY <1>0, <2>1, <2>4, <2>6 DEF EntriesOK
    <3> QED
      BY <2>1, <3>1, FreshSame DEF FreshInv
  <2>7. ASSUME t \in fresh' PROVE FreshOK(t)'
    <3>1. FreshOK(t)
      BY <2>1, <2>7 DEF FreshInv
    <3> QED
      BY <2>1, <2>2, <2>3, <3>1 DEF FreshOK, Fresh, Requested, Registered, RequestOf, HasRead
  <2> QED
    BY <2>5, <2>6, <2>7 DEF FreshInv
<1>3. CASE SendRequest(t)
  <2>1. /\ calls[t].next = "request" /\ calls' = [calls EXCEPT ![t] = NoCall]
        /\ requests' = Append(requests, calls[t].sends)
        /\ UNCHANGED <<kv, fresh, patches>>
    BY <1>3 DEF SendRequest
  <2>2. calls[t].sends \in Request /\ calls[t].sends.sub = t /\ calls[t] # NoCall
    BY <1>a, <2>1, CallTypes DEF NoCall, FreshInv
  <2>3. calls'[t] = NoCall /\ \A s \in Subs : s # t => calls'[s] = calls[s]
    BY <1>0, <2>1 DEF CallsOK
  <2>4. \A s \in Subs : calls'[s].next \in {"ensure", "request"} => calls'[s].sends.sub = s
    BY <2>3 DEF FreshInv, NoCall
  <2>5. PICK n \in Nat : n = Len(requests)
    BY <1>0 DEF QueueOK
  <2>6. /\ DOMAIN requests = 1..n /\ DOMAIN requests' = 1..n + 1
        /\ requests'[n + 1] = calls[t].sends
        /\ \A i \in 1..n : requests'[i] = requests[i]
    BY <1>0, <2>1, <2>2, <2>5 DEF QueueOK
  <2>7. ASSUME NEW s \in fresh' PROVE FreshOK(s)'
    <3>1. s \in Subs /\ FreshOK(s)
      BY <1>0, <2>1 DEF EntriesOK, FreshInv
    <3>2. /\ Registered(s)' /\ RequestOf(s)' = RequestOf(s)
          /\ \A p \in patches' : p.sub = s => p.read = NoEntry \/ HasRead(p, s)'
      BY <2>1, <3>1 DEF FreshOK, Registered, RequestOf, HasRead
    <3>3. CASE s = t
      <4>1. Fresh(t) /\ calls[t].sends = RequestOf(t)
        BY <2>2, <3>1, <3>3 DEF FreshOK
      <4>2. \A i \in 1..n : requests'[i].sub # t
        BY <2>6, <4>1 DEF Fresh, Requested
      <4>3. \A i \in DOMAIN requests' : requests'[i].sub = t => i = n + 1
        BY <2>6, <4>2
      <4> QED
        BY <2>3, <2>6, <3>2, <3>3, <4>1, <4>3 DEF FreshOK, NoCall
    <3>4. CASE s # t
      <4>1. calls'[s] = calls[s] /\ \A i \in DOMAIN requests' : requests'[i].sub = s => i \in 1..n
        BY <2>2, <2>3, <2>6, <3>1, <3>4
      <4>2. Requested(s)' => Requested(s)
        BY <2>6, <4>1 DEF Requested
      <4>3. Fresh(s) => Fresh(s)'
        BY <2>1, <4>2 DEF Fresh
      <4>4. \A i \in DOMAIN requests' : requests'[i].sub = s => requests'[i] = RequestOf(s)'
        BY <2>6, <3>1, <3>2, <4>1 DEF FreshOK
      <4>5. \A i, j \in DOMAIN requests' : requests'[i].sub = s /\ requests'[j].sub = s => i = j
        BY <2>6, <3>1, <4>1 DEF FreshOK
      <4> QED
        BY <3>1, <3>2, <4>1, <4>3, <4>4, <4>5 DEF FreshOK
    <3> QED
      BY <3>3, <3>4
  <2> QED
    BY <2>4, <2>7 DEF FreshInv
<1>4. CASE RemoveSubscription(t) \/ DropStream(t)
  <2>1. /\ UNCHANGED <<requests, patches>>
        /\ calls'[t].next \in {"drop", "none"}
        /\ \A s \in Subs : s # t => calls'[s] = calls[s] /\ kv'[s] = kv[s]
        /\ fresh' \subseteq fresh
    BY <1>0, <1>4 DEF RemoveSubscription, DropStream, serverVars, queueUnchanged, CallsOK, EntriesOK, NoCall
  <2>2. t \notin fresh'
    BY <1>4 DEF RemoveSubscription, DropStream, FreshInv, FreshOK
  <2>3. \A s \in Subs : calls'[s].next \in {"ensure", "request"} => calls'[s].sends.sub = s
    BY <2>1 DEF FreshInv
  <2>4. ASSUME NEW s \in fresh' PROVE FreshOK(s)'
    <3>1. s \in Subs /\ s \in fresh /\ s # t
      BY <1>0, <2>1, <2>2 DEF EntriesOK
    <3> QED
      BY <2>1, <3>1, FreshSame DEF FreshInv
  <2> QED
    BY <2>3, <2>4 DEF FreshInv
<1>5. CASE LiveEvent(t)
  <2>1. UNCHANGED <<kv, calls, requests, patches, fresh>>
    BY <1>5 DEF LiveEvent, apiVars, queueUnchanged
  <2>2. ASSUME NEW s \in fresh' PROVE FreshOK(s)'
    BY <1>0, <2>1, FreshSame DEF FreshInv, EntriesOK
  <2> QED
    BY <2>1, <2>2 DEF FreshInv
<1> QED
  BY <1>1, <1>2, <1>3, <1>4, <1>5 DEF Register, Delete

LEMMA FreshHandler ==
  ASSUME TypeOK, FreshInv, NEW p \in patches, Handler(p)
  PROVE  FreshInv'
<1>0. EntriesOK /\ PatchesOK
  BY TypeParts DEF Typed
<1>a. p.sub \in Subs /\ p.read \in Entry \cup {NoEntry} /\ p \in Patch
  BY <1>0 DEF PatchesOK, Patch
<1>b. UNCHANGED <<calls, requests, fresh>>
  BY DEF Handler, ReadEntry, WriteEntry, NoEntryToReport, GoDown, serverVars
<1>1. SUFFICES ASSUME NEW s \in fresh PROVE FreshOK(s)'
  BY <1>b DEF FreshInv
<1>2. s \in Subs /\ FreshOK(s)
  BY <1>0, <1>1 DEF EntriesOK, FreshInv
<1>3. CASE ReadEntry(p)
  <2>1. PICK q : q = [p EXCEPT !.read = kv[p.sub]]
    OBVIOUS
  <2>2. q.sub = p.sub /\ q.read = kv[p.sub]
    BY <1>a, <2>1 DEF Patch
  <2>3. patches' = (patches \ {p}) \cup {q} /\ kv' = kv
    BY <1>3, <2>1 DEF ReadEntry
  <2>4. \A r \in patches' : r.sub = s =>
           /\ Requested(s) \/ \E o \in patches : o.sub = s
           /\ r.read = NoEntry \/ HasRead(r, s)
    BY <1>2, <2>2, <2>3 DEF FreshOK, HasRead
  <2>5. Registered(s)' /\ kv'[s] = kv[s]
    BY <1>2, <2>3 DEF FreshOK, Registered
  <2> QED
    BY <1>2, <1>b, <2>4, <2>5, FreshKept
<1>4. CASE WriteEntry(p)
  <2>1. patches' \subseteq patches /\ kv' = [kv EXCEPT ![p.sub] = [p.read EXCEPT !.status = p.status]]
    BY <1>4 DEF WriteEntry
  <2>2. CASE p.sub # s
    <3>1. kv'[s] = kv[s]
      BY <1>0, <1>2, <2>1, <2>2 DEF EntriesOK
    <3> QED
      BY <1>2, <1>b, <2>1, <3>1, FreshSame
  <2>3. CASE p.sub = s
    <3>1. p.read \in Entry /\ p.read # NoEntry /\ HasRead(p, s)
      BY <1>2, <1>4, <1>a, <2>3 DEF FreshOK, WriteEntry
    <3>2. kv'[s] = [p.read EXCEPT !.status = p.status]
      BY <1>0, <1>2, <2>1, <2>3 DEF EntriesOK
    <3>3. kv'[s].id = kv[s].id /\ kv'[s].topics = kv[s].topics /\ Registered(s)'
      BY <3>1, <3>2 DEF HasRead, Registered, Entry, NoEntry
    <3>4. \A r \in patches' : r.sub = s =>
             /\ Requested(s) \/ \E o \in patches : o.sub = s
             /\ r.read = NoEntry \/ HasRead(r, s)
      BY <1>2, <2>1 DEF FreshOK
    <3> QED
      BY <1>2, <1>b, <3>3, <3>4, FreshKept
  <2> QED
    BY <2>2, <2>3
<1>5. CASE NoEntryToReport(p)
  <2>1. patches' \subseteq patches /\ kv' = kv
    BY <1>5 DEF NoEntryToReport, GoDown
  <2> QED
    BY <1>2, <1>b, <2>1, FreshSame
<1> QED
  BY <1>3, <1>4, <1>5 DEF Handler

LEMMA FreshOthers ==
  ASSUME TypeOK, FreshInv, Worker \/ Crash \/ LoseAck \/ RestartApi \/ UNCHANGED vars
  PROVE  FreshInv'
<1>0. EntriesOK /\ PatchesOK /\ QueueOK /\ WorkerOK
  BY TypeParts DEF Typed
<1>1. UNCHANGED <<kv, calls, fresh>>
  <2>1. ASSUME Worker PROVE UNCHANGED <<kv, calls, fresh>>
    BY <2>1 DEF Worker, Start, TakeRequest, Park, Purge, SkipForeign, ReportRunning, ReportDone,
          SendReport, ListObjects, FillObject, FailWithoutStream, AckRequest, GoDown, apiVars
  <2>2. ASSUME Crash \/ LoseAck \/ RestartApi \/ UNCHANGED vars PROVE UNCHANGED <<kv, calls, fresh>>
    BY <2>2 DEF Crash, LoseAck, RestartApi, GoDown, apiVars, vars
  <2> QED
    BY <2>1, <2>2
<1>2. SUFFICES ASSUME NEW s \in fresh PROVE FreshOK(s)'
  BY <1>1 DEF FreshInv
<1>3. s \in Subs /\ FreshOK(s) /\ Registered(s)'
  BY <1>0, <1>1, <1>2 DEF EntriesOK, FreshInv, FreshOK, Registered
<1>4. CASE SendReport
  <2>1. PICK q : q = [sub |-> request.sub, status |-> report, read |-> NoEntry, awaited |-> TRUE]
    OBVIOUS
  <2>2. patches' = patches \cup {q} /\ requests' = requests /\ requests # <<>>
    BY <1>0, <1>4, <2>1 DEF SendReport, serverVars, WorkerOK
  <2>3. q.read = NoEntry /\ (q.sub = s => Requested(s))
    <3>1. 1 \in DOMAIN requests /\ requests[1] = request
      BY <1>0, <2>2 DEF QueueOK, request
    <3> QED
      BY <2>1, <3>1 DEF Requested
  <2>4. \A r \in patches' : r.sub = s =>
           /\ Requested(s) \/ \E o \in patches : o.sub = s
           /\ r.read = NoEntry \/ HasRead(r, s)
    BY <1>3, <2>2, <2>3 DEF FreshOK
  <2> QED
    BY <1>1, <1>3, <2>2, <2>4, FreshKept
<1>5. CASE AckRequest
  <2>1. requests' = Tail(requests) /\ patches' = patches /\ requests # <<>>
    BY <1>0, <1>5 DEF AckRequest, apiVars, WorkerOK
  <2>2. PICK n \in Nat : n = Len(requests)
    BY <1>0 DEF QueueOK
  <2>3. /\ DOMAIN requests = 1..n
        /\ \A i \in DOMAIN requests' : i \in Nat /\ i + 1 \in 1..n /\ requests'[i] = requests[i + 1]
    BY <1>0, <2>1, <2>2 DEF QueueOK
  <2>4. Requested(s)' => Requested(s)
    BY <2>3 DEF Requested
  <2>5. Fresh(s) => Fresh(s)'
    BY <2>1, <2>4 DEF Fresh
  <2>6. RequestOf(s)' = RequestOf(s)
    BY <1>1 DEF RequestOf
  <2>7. \A i \in DOMAIN requests' : requests'[i].sub = s => requests'[i] = RequestOf(s)'
    BY <1>3, <2>3, <2>6 DEF FreshOK
  <2>8. \A i, j \in DOMAIN requests' : requests'[i].sub = s /\ requests'[j].sub = s => i = j
    <3>1. \A i, j \in DOMAIN requests' : requests'[i].sub = s /\ requests'[j].sub = s => i + 1 = j + 1
      BY <1>3, <2>3 DEF FreshOK
    <3> QED
      BY <2>3, <3>1
  <2>9. \A p \in patches' : p.sub = s => p.read = NoEntry \/ HasRead(p, s)'
    BY <1>1, <1>3, <2>1 DEF FreshOK, HasRead
  <2> QED
    BY <1>1, <1>3, <2>5, <2>6, <2>7, <2>8, <2>9 DEF FreshOK
<1>6. CASE Crash
  <2>1. requests' = requests /\ patches' = {[p EXCEPT !.awaited = FALSE] : p \in patches}
    BY <1>6 DEF Crash, GoDown, serverVars
  <2>2. \A r \in patches' : \E p \in patches : r.sub = p.sub /\ r.read = p.read
    BY <1>0, <2>1 DEF PatchesOK, Patch
  <2>3. \A r \in patches' : r.sub = s =>
           /\ Requested(s) \/ \E o \in patches : o.sub = s
           /\ r.read = NoEntry \/ HasRead(r, s)
    BY <1>3, <2>2 DEF FreshOK, HasRead
  <2> QED
    BY <1>1, <1>3, <2>1, <2>3, FreshKept
<1>7. ASSUME Worker, ~SendReport, ~AckRequest PROVE UNCHANGED <<requests, patches>>
  BY <1>7 DEF Worker, Start, TakeRequest, Park, Purge, SkipForeign, ReportRunning, ReportDone,
        ListObjects, FillObject, FailWithoutStream, GoDown, serverVars, apiVars, queueUnchanged
<1>8. ASSUME LoseAck \/ RestartApi \/ UNCHANGED vars PROVE requests' = requests /\ patches' \subseteq patches
  BY <1>8 DEF LoseAck, RestartApi, GoDown, serverVars, apiVars, vars
<1>9. CASE requests' = requests /\ patches' \subseteq patches
  BY <1>1, <1>3, <1>9, FreshSame
<1> QED
  BY <1>4, <1>5, <1>6, <1>7, <1>8, <1>9

LEMMA FreshStep == TypeOK /\ FreshInv /\ [Next]_vars => FreshInv'
BY FreshApi, FreshHandler, FreshOthers DEF Next

-----------------------------------------------------------------------------
(* The reports, when no handler of the API outlives the restart of its client *)

\* There is at most one report under way, and it is of the request at the head
\* of the queue: the worker waits for the response or is down.
PatchInv ==
    /\ \A p, q \in patches : p = q
    /\ \A p \in patches :
        /\ wpc \in {"down", "reported"}
        /\ requests # <<>> /\ p.sub = request.sub
        /\ wpc = "reported" => p.awaited

LEMMA PatchInit == Init => PatchInv
BY DEF Init, PatchInv

\* The head of the queue stays when a request is appended.
LEMMA HeadKept ==
  ASSUME NEW t \in Subs, TypeOK, SendRequest(t), requests # <<>>
  PROVE  requests' # <<>> /\ request' = request
<1>1. CallsOK /\ QueueOK
  BY TypeParts DEF Typed
<1>2. calls[t].sends \in Request
  BY <1>1, CallTypes DEF SendRequest, CallsOK
<1> QED
  BY <1>1, <1>2 DEF SendRequest, QueueOK, request

LEMMA PatchStep ==
  ASSUME ~SlowCalls, TypeOK, WorkerInv, PatchInv, [Next]_vars
  PROVE  PatchInv'
<1>0. PatchesOK /\ QueueOK /\ WorkerOK
  BY TypeParts DEF Typed
<1>1. CASE UNCHANGED vars
  BY <1>1 DEF vars, PatchInv, request, serverVars, apiVars
<1>2. ASSUME NEW t \in Subs, Register(t) \/ Delete(t) \/ LiveEvent(t) PROVE PatchInv'
  <2>1. UNCHANGED <<patches, wpc>> /\ (SendRequest(t) \/ requests' = requests)
    BY <1>2 DEF Register, Delete, LiveEvent, StoreSubscription, EnsureStream, RemoveSubscription,
          DropStream, SendRequest, workerUnchanged, queueUnchanged, apiVars, serverVars
  <2>2. requests # <<>> => requests' # <<>> /\ request' = request
    BY <2>1, HeadKept DEF request
  <2> QED
    BY <2>1, <2>2 DEF PatchInv
<1>3. ASSUME NEW p \in patches, ReadEntry(p) PROVE PatchInv'
  <2>1. PICK q : q = [p EXCEPT !.read = kv[p.sub]]
    OBVIOUS
  <2>2. patches' = {q} /\ UNCHANGED <<requests, wpc>> /\ q.sub = p.sub /\ q.awaited = p.awaited
    BY <1>0, <1>3, <2>1 DEF ReadEntry, PatchInv, serverVars, workerUnchanged, PatchesOK, Patch
  <2> QED
    BY <2>2 DEF PatchInv, request
<1>4. ASSUME NEW p \in patches, WriteEntry(p) \/ NoEntryToReport(p) PROVE PatchInv'
  <2>1. patches' = {}
    BY <1>4 DEF WriteEntry, NoEntryToReport, PatchInv
  <2> QED
    BY <2>1 DEF PatchInv
<1>5. CASE SendReport
  <2>1. PICK q : q = [sub |-> request.sub, status |-> report, read |-> NoEntry, awaited |-> TRUE]
    OBVIOUS
  <2>2. patches' = {q} /\ wpc' = "reported" /\ requests' = requests /\ requests # <<>>
    BY <1>0, <1>5, <2>1 DEF SendReport, PatchInv, serverVars, WorkerOK
  <2> QED
    BY <2>1, <2>2 DEF PatchInv, request
<1>6. ASSUME Worker, ~SendReport PROVE patches = {} /\ patches' = patches
  BY <1>6 DEF Worker, Start, TakeRequest, Park, Purge, SkipForeign, ReportRunning, ReportDone,
        ListObjects, FillObject, FailWithoutStream, AckRequest, PatchInv, apiVars
<1>7. CASE Crash
  <2>1. /\ wpc' = "down" /\ requests' = requests
        /\ patches' = {[p EXCEPT !.awaited = FALSE] : p \in patches}
    BY <1>7 DEF Crash, GoDown, serverVars
  <2>2. \A p \in patches : [p EXCEPT !.awaited = FALSE].sub = p.sub
    BY <1>0 DEF PatchesOK, Patch
  <2> QED
    BY <2>1, <2>2 DEF PatchInv, request
<1>8. CASE LoseAck \/ RestartApi
  <2>1. patches' = {}
    BY <1>8 DEF LoseAck, RestartApi, PatchInv, apiVars
  <2> QED
    BY <2>1 DEF PatchInv
<1>9. ASSUME patches' = {} PROVE PatchInv'
  BY <1>9 DEF PatchInv
<1> QED
  BY <1>1, <1>2, <1>3, <1>4, <1>5, <1>6, <1>7, <1>8, <1>9 DEF Next, Handler

-----------------------------------------------------------------------------
(* The outcome *)

Settled(s) ==
    \/ kv[s].status = "done"
    \/ kv[s].status = "failed" /\ RequestOf(s) \in failures

\* The outcome of the request of s has been written, at the latest.
Over(s) ==
    /\ calls[s] = NoCall
    /\ Requested(s) => wpc = "ack" /\ request.sub = s

OutcomeInv == \A s \in fresh : Over(s) => Settled(s)

LEMMA OutcomeInit == Init => OutcomeInv
BY DEF Init, OutcomeInv

\* What the worker and the faults leave alone.
LEMMA WorkerFrame ==
  ASSUME Worker \/ Crash \/ LoseAck \/ RestartApi \/ UNCHANGED vars
  PROVE  /\ UNCHANGED <<kv, calls, fresh>> /\ failures \subseteq failures'
         /\ wpc' = wpc \/ wpc' # "ack"
         /\ AckRequest \/ requests' = requests
<1>1. ASSUME Worker
      PROVE  /\ UNCHANGED <<kv, calls, fresh>> /\ failures \subseteq failures'
             /\ wpc' = wpc \/ wpc' # "ack"
             /\ AckRequest \/ requests' = requests
  BY <1>1 DEF Worker, Start, TakeRequest, Park, Purge, SkipForeign, ReportRunning, ReportDone,
        SendReport, ListObjects, FillObject, FailWithoutStream, AckRequest, GoDown,
        serverVars, apiVars, queueUnchanged
<1>2. ASSUME Crash \/ LoseAck \/ RestartApi \/ UNCHANGED vars
      PROVE  /\ UNCHANGED <<kv, calls, fresh>> /\ failures \subseteq failures'
             /\ wpc' = wpc \/ wpc' # "ack"
             /\ requests' = requests
  BY <1>2 DEF Crash, LoseAck, RestartApi, GoDown, serverVars, apiVars, vars
<1> QED
  BY <1>1, <1>2

LEMMA RequestedIs ==
  ASSUME QueueOK
  PROVE  /\ requests # <<>> => Requested(request.sub)
         /\ \A s : Requested(s) => requests # <<>>
<1>1. requests # <<>> => 1 \in DOMAIN requests /\ requests[1] = request
  BY DEF QueueOK, request
<1> QED
  BY <1>1 DEF Requested

\* An acknowledgement takes the request at the head only.
LEMMA RequestedAfterAck ==
  ASSUME QueueOK, requests # <<>>, requests' = Tail(requests), NEW s, Requested(s), request.sub # s
  PROVE  Requested(s)'
<1>1. PICK i \in DOMAIN requests : requests[i].sub = s
  BY DEF Requested
<1>2. i # 1
  BY <1>1 DEF QueueOK, request
<1>3. i - 1 \in DOMAIN requests' /\ requests'[i - 1] = requests[i]
  BY <1>1, <1>2 DEF QueueOK
<1> QED
  BY <1>1, <1>3 DEF Requested

\* A step after which a prefill is over, that neither writes the outcome nor
\* registers the subscription, finds it over.
LEMMA OverBefore ==
  ASSUME TypeOK, NEW s \in Subs, Over(s)',
         Worker \/ Crash \/ LoseAck \/ RestartApi \/ UNCHANGED vars
  PROVE  Over(s)
<1>0. QueueOK /\ WorkerOK
  BY TypeParts DEF Typed
<1>1. /\ UNCHANGED <<kv, calls, fresh>> /\ (wpc' = wpc \/ wpc' # "ack")
      /\ AckRequest \/ requests' = requests
  BY WorkerFrame
<1>2. CASE requests' = requests
  BY <1>1, <1>2 DEF Over, Requested, request
<1>3. CASE AckRequest
  <2>1. wpc = "ack" /\ wpc' = "idle" /\ requests' = Tail(requests) /\ requests # <<>>
    BY <1>0, <1>3 DEF AckRequest, WorkerOK
  <2>2. Requested(s) /\ request.sub # s => Requested(s)'
    BY <1>0, <2>1, RequestedAfterAck
  <2> QED
    BY <1>1, <2>1, <2>2 DEF Over
<1> QED
  BY <1>1, <1>2, <1>3

LEMMA OverBeforeApi ==
  ASSUME TypeOK, FreshInv, NEW t \in Subs, Register(t) \/ Delete(t) \/ LiveEvent(t),
         NEW s \in fresh', Over(s)'
  PROVE  s \in fresh /\ Over(s) /\ kv'[s] = kv[s] /\ failures' = failures
<1>0. EntriesOK /\ CallsOK /\ QueueOK /\ WorkerOK
  BY TypeParts DEF Typed
<1>1. calls'[s] = NoCall
  BY DEF Over
<1>2. wpc' = wpc /\ failures' = failures
  BY DEF Register, Delete, LiveEvent, StoreSubscription, EnsureStream, RemoveSubscription,
         DropStream, SendRequest, workerUnchanged, queueUnchanged, serverVars
<1>3. CASE \E T \in TopicLists : StoreSubscription(t, T)
  <2>1. PICK T \in TopicLists : StoreSubscription(t, T)
    BY <1>3
  <2>2. PICK c, e : /\ c.next = "ensure" /\ kv' = [kv EXCEPT ![t] = e] /\ calls' = [calls EXCEPT ![t] = c]
                    /\ fresh' \subseteq fresh \cup {t} /\ requests' = requests
    BY <2>1 DEF StoreSubscription, serverVars
  <2>3. s # t
    BY <1>0, <1>1, <2>2 DEF CallsOK, NoCall
  <2>4. s \in fresh /\ s \in Subs
    BY <1>0, <2>2, <2>3 DEF EntriesOK
  <2>5. kv'[s] = kv[s] /\ calls'[s] = calls[s]
    BY <1>0, <2>2, <2>3, <2>4 DEF EntriesOK, CallsOK
  <2> QED
    BY <1>2, <2>2, <2>4, <2>5 DEF Over, Requested, request
<1>4. CASE EnsureStream(t)
  <2>1. fresh' = fresh /\ kv' = kv /\ requests' = requests /\ calls' = [calls EXCEPT ![t].next = "request"]
    BY <1>4 DEF EnsureStream, queueUnchanged
  <2>2. calls[t] \in [next : {"ensure", "request"}, sends : Request]
    BY <1>0, <1>4, CallTypes DEF EnsureStream, CallsOK
  <2>3. s # t
    BY <1>0, <1>1, <2>1, <2>2 DEF CallsOK, NoCall
  <2>4. calls'[s] = calls[s]
    BY <1>0, <2>1, <2>3 DEF CallsOK, EntriesOK
  <2> QED
    BY <1>2, <2>1, <2>4 DEF Over, Requested, request
<1>5. CASE SendRequest(t)
  <2>1. /\ fresh' = fresh /\ kv' = kv /\ requests' = Append(requests, calls[t].sends)
        /\ calls' = [calls EXCEPT ![t] = NoCall] /\ calls[t].next = "request"
    BY <1>5 DEF SendRequest
  <2>2. calls[t].sends \in Request /\ calls[t].sends.sub = t
    BY <1>0, <2>1, CallTypes DEF CallsOK, FreshInv
  <2>3. s \in Subs /\ FreshOK(s)
    BY <1>0, <2>1 DEF FreshInv, EntriesOK
  <2>4. PICK n \in Nat : n = Len(requests)
    BY <1>0 DEF QueueOK
  <2>5. /\ DOMAIN requests = 1..n /\ DOMAIN requests' = 1..n + 1
        /\ requests'[n + 1] = calls[t].sends
        /\ \A i \in 1..n : requests'[i] = requests[i]
    BY <1>0, <2>1, <2>2, <2>4 DEF QueueOK
  <2>6. Requested(s) => Requested(s)'
    BY <2>5 DEF Requested
  <2>7. wpc = "ack" => request' = request /\ Requested(request.sub)
    BY <1>0, <1>5, HeadKept, RequestedIs DEF WorkerOK
  <2>8. s # t
    <3> SUFFICES ASSUME s = t PROVE FALSE
      OBVIOUS
    <3>1. ~Requested(t)
      BY <2>1, <2>3 DEF FreshOK, Fresh, NoCall
    <3>2. Requested(t)'
      BY <2>2, <2>5 DEF Requested
    <3> QED
      BY <1>2, <2>7, <3>1, <3>2 DEF Over
  <2>9. calls'[s] = calls[s]
    BY <1>0, <2>1, <2>3, <2>8 DEF CallsOK
  <2> QED
    BY <1>2, <2>1, <2>6, <2>7, <2>9 DEF Over
<1>6. CASE RemoveSubscription(t) \/ DropStream(t)
  <2>1. t \notin fresh' /\ fresh' \subseteq fresh /\ requests' = requests
    BY <1>6 DEF RemoveSubscription, DropStream, FreshInv, FreshOK, serverVars, queueUnchanged
  <2>2. s \in fresh /\ s \in Subs /\ s # t
    BY <1>0, <2>1 DEF EntriesOK
  <2>3. calls'[s] = calls[s] /\ kv'[s] = kv[s]
    BY <1>0, <1>6, <2>2 DEF RemoveSubscription, DropStream, CallsOK, EntriesOK
  <2> QED
    BY <1>2, <2>1, <2>2, <2>3 DEF Over, Requested, request
<1>7. CASE LiveEvent(t)
  <2>1. UNCHANGED <<kv, calls, requests, fresh>>
    BY <1>7 DEF LiveEvent, apiVars, queueUnchanged
  <2> QED
    BY <1>2, <2>1 DEF Over, Requested, request
<1> QED
  BY <1>3, <1>4, <1>5, <1>6, <1>7 DEF Register, Delete

\* A handler that makes the prefill of s over writes the outcome of its request.
LEMMA OverBeforeHandler ==
  ASSUME ~SlowCalls, TypeOK, WorkerInv, FreshInv, PatchInv, NEW p \in patches, Handler(p),
         NEW s \in fresh, Over(s)'
  PROVE  /\ fresh' = fresh /\ failures' = failures /\ stream' = stream
         /\ \/ Over(s) /\ kv'[s] = kv[s]
            \/ /\ wpc = "reported" /\ report \in {"failed", "done"} /\ urls = <<>>
               /\ requests # <<>> /\ request = RequestOf(s)
               /\ RequestOf(s)' = RequestOf(s) /\ kv'[s].status = report
<1>0. EntriesOK /\ PatchesOK /\ WorkerOK /\ QueueOK
  BY TypeParts DEF Typed
<1>1. UNCHANGED <<requests, calls, fresh, failures, stream>>
  BY DEF Handler, ReadEntry, WriteEntry, NoEntryToReport, GoDown, serverVars
<1>2. s \in Subs /\ FreshOK(s)
  BY <1>0 DEF EntriesOK, FreshInv
<1>3. CASE ReadEntry(p) \/ NoEntryToReport(p)
  <2>1. kv' = kv /\ (wpc' = wpc \/ wpc' # "ack")
    BY <1>3 DEF ReadEntry, NoEntryToReport, GoDown, workerUnchanged
  <2> QED
    BY <1>1, <2>1 DEF Over, Requested, request
<1>4. CASE WriteEntry(p)
  <2>1. /\ requests # <<>> /\ p.sub = request.sub /\ wpc \in {"down", "reported"}
        /\ wpc = "reported" => p.awaited
        /\ p.awaited => wpc = "reported" /\ p.status = report
        /\ wpc = "reported" => report # "pending" /\ urls = <<>>
    BY DEF PatchInv, WorkerInv
  <2>2. /\ kv' = [kv EXCEPT ![p.sub] = [p.read EXCEPT !.status = p.status]]
        /\ wpc' = IF ~p.awaited THEN wpc ELSE IF p.status = "running" THEN "list" ELSE "ack"
        /\ p.read # NoEntry
    BY <1>4 DEF WriteEntry
  <2>3. CASE s # p.sub
    <3>1. kv'[s] = kv[s]
      BY <1>0, <1>2, <2>2, <2>3 DEF EntriesOK
    <3>2. ~Requested(s)
      BY <1>1, <2>1, <2>3 DEF Over, Requested, request
    <3>3. Over(s)
      BY <1>1, <3>2 DEF Over
    <3> QED
      BY <1>1, <3>1, <3>3
  <2>4. CASE s = p.sub
    <3>1. 1 \in DOMAIN requests /\ requests[1] = request
      BY <1>0, <2>1 DEF QueueOK, request
    <3>2. Requested(s)' /\ request = RequestOf(s)
      BY <1>1, <1>2, <2>1, <2>4, <3>1 DEF Requested, FreshOK
    <3>3. wpc' = "ack"
      BY <3>2 DEF Over
    <3>4. wpc = "reported" /\ p.status = report /\ report \in {"failed", "done"}
      BY <1>0, <2>1, <2>2, <3>3 DEF WorkerOK, Statuses
    <3>5. p.read \in Entry /\ HasRead(p, s)
      BY <1>0, <1>2, <2>2, <2>4 DEF PatchesOK, Patch, FreshOK
    <3>6. kv'[s] = [p.read EXCEPT !.status = p.status]
      BY <1>0, <1>2, <2>2, <2>4 DEF EntriesOK
    <3>7. kv'[s].status = p.status /\ kv'[s].id = kv[s].id /\ kv'[s].topics = kv[s].topics
      BY <3>5, <3>6 DEF Entry, HasRead
    <3> QED
      BY <1>1, <2>1, <3>2, <3>4, <3>7 DEF RequestOf
  <2> QED
    BY <2>3, <2>4
<1> QED
  BY <1>3, <1>4 DEF Handler

LEMMA OutcomeStep ==
  ASSUME ~SlowCalls, TypeOK, WorkerInv, FreshInv, PatchInv, OutcomeInv, [Next]_vars
  PROVE  OutcomeInv'
<1>0. EntriesOK
  BY TypeParts DEF Typed
<1>1. SUFFICES ASSUME NEW s \in fresh', Over(s)' PROVE Settled(s)'
  BY DEF OutcomeInv
<1>2. ASSUME s \in fresh, Over(s), kv'[s] = kv[s], failures \subseteq failures' PROVE Settled(s)'
  BY <1>2 DEF OutcomeInv, Settled, RequestOf
<1>3. ASSUME NEW t \in Subs, Register(t) \/ Delete(t) \/ LiveEvent(t) PROVE Settled(s)'
  BY <1>1, <1>2, <1>3, OverBeforeApi
<1>4. ASSUME NEW p \in patches, Handler(p) PROVE Settled(s)'
  <2>1. fresh' = fresh
    BY <1>4 DEF Handler, ReadEntry, WriteEntry, NoEntryToReport, GoDown
  <2>2. /\ failures' = failures
        /\ \/ Over(s) /\ kv'[s] = kv[s]
           \/ /\ wpc = "reported" /\ report \in {"failed", "done"}
              /\ request = RequestOf(s)
              /\ RequestOf(s)' = RequestOf(s) /\ kv'[s].status = report
    BY <1>1, <1>4, <2>1, OverBeforeHandler
  <2>3. wpc = "reported" /\ report = "failed" => request \in failures
    BY DEF WorkerInv
  <2>4. CASE Over(s) /\ kv'[s] = kv[s]
    BY <1>1, <1>2, <2>1, <2>2, <2>4
  <2> QED
    BY <2>2, <2>3, <2>4 DEF Settled
<1>5. ASSUME Worker \/ Crash \/ LoseAck \/ RestartApi \/ UNCHANGED vars PROVE Settled(s)'
  <2>1. UNCHANGED <<kv, calls, fresh>> /\ failures \subseteq failures'
    BY <1>5, WorkerFrame
  <2>2. Over(s)
    BY <1>0, <1>1, <1>5, <2>1, OverBefore DEF EntriesOK
  <2> QED
    BY <1>1, <1>2, <2>1, <2>2
<1> QED
  BY <1>3, <1>4, <1>5 DEF Next

\* As long as the status says pending or running there is a request to bring it
\* on, and a prefill reported as failed is among the failures: the outcome of a
\* request is written before the request leaves the queue, through every crash,
\* repeated delivery and lost acknowledgement.
THEOREM SettledStays == ASSUME ~SlowCalls PROVE Spec => []SettledIsFinal
<1>1. Init => TypeOK /\ WorkerInv /\ FreshInv /\ PatchInv /\ OutcomeInv
  BY TypeInit, FreshInit, PatchInit, OutcomeInit
<1>2. TypeOK /\ WorkerInv /\ FreshInv /\ PatchInv /\ OutcomeInv /\ [Next]_vars
        => (TypeOK /\ WorkerInv /\ FreshInv /\ PatchInv /\ OutcomeInv)'
  BY TypeStep, FreshStep, PatchStep, OutcomeStep
<1>3. OutcomeInv => SettledIsFinal
  BY DEF OutcomeInv, SettledIsFinal, Undisturbed, Over, Settled, RequestOf
<1> QED
  BY <1>1, <1>2, <1>3, PTL DEF Spec

-----------------------------------------------------------------------------
(* The initial state of a subscription *)

Filling ==
    \/ wpc \in {"fill", "list"}
    \/ wpc \in {"report", "reported"} /\ report # "failed"

\* k realm-topics of the request are listed: what is published of them and what
\* is still to be published make up their objects.
FilledUpTo(k) ==
    /\ todo = SubSeq(request.topics, k + 1, Len(request.topics))
    /\ Prefilled(request.sub) \o urls = InitialState(SubSeq(request.topics, 1, k))

FillInv ==
    Filling /\ request.sub \in fresh => \E k \in 0..Len(request.topics) : FilledUpTo(k)

DoneInv ==
    \A s \in fresh : Over(s) /\ kv[s].status = "done" => Prefilled(s) = InitialState(kv[s].topics)

LEMMA FillInit == Init => FillInv /\ DoneInv
BY DEF Init, FillInv, DoneInv, Filling

LEMMA PrefilledType ==
  ASSUME StreamsOK, NEW s \in Subs
  PROVE  Prefilled(s) \in Seq(Objects)
BY OnlyType DEF StreamsOK, Prefilled

\* One realm-topic more.
LEMMA NextTopic ==
  ASSUME NEW T \in Seq(RealmTopics), NEW k \in 0..Len(T),
         NEW rest, rest = SubSeq(T, k + 1, Len(T)), rest # <<>>
  PROVE  /\ k + 1 \in 0..Len(T) /\ Head(rest) = T[k + 1]
         /\ Tail(rest) = SubSeq(T, k + 2, Len(T))
         /\ T[k + 1] \in Foreign =>
              InitialState(SubSeq(T, 1, k + 1)) = InitialState(SubSeq(T, 1, k))
         /\ T[k + 1] \notin Foreign =>
              InitialState(SubSeq(T, 1, k + 1)) = InitialState(SubSeq(T, 1, k)) \o Contents[T[k + 1]]
<1>1. k + 1 \in 1..Len(T) /\ k + 1 \in 0..Len(T)
  OBVIOUS
<1>2. PICK d \in Seq(RealmTopics), t \in RealmTopics : d = SubSeq(T, 1, k) /\ t = T[k + 1]
  <2>1. SubSeq(T, 1, k) \in Seq(RealmTopics) /\ T[k + 1] \in RealmTopics
    BY <1>1
  <2> QED
    BY <2>1, Zenon
<1>3. SubSeq(T, 1, k + 1) = Append(d, t)
  BY <1>1, <1>2
<1>4. /\ t \in Foreign => InitialState(Append(d, t)) = InitialState(d)
      /\ t \notin Foreign => InitialState(Append(d, t)) = InitialState(d) \o Contents[t]
  BY InitialStateAppend
<1>5. Head(rest) = T[k + 1] /\ Tail(rest) = SubSeq(T, k + 2, Len(T))
  BY <1>1
<1> QED
  BY <1>1, <1>2, <1>3, <1>4, <1>5, Zenon

\* Deletions and live events leave the objects of the others alone.
LEMMA PrefilledKept ==
  ASSUME TypeOK, FreshInv, NEW s \in fresh,
         stream' = stream \/ \E t \in Subs : DropStream(t) \/ LiveEvent(t)
  PROVE  Prefilled(s)' = Prefilled(s)
<1>0. EntriesOK /\ StreamsOK
  BY TypeParts DEF Typed
<1>1. s \in Subs /\ FreshOK(s)
  BY <1>0 DEF EntriesOK, FreshInv
<1>2. CASE stream' = stream
  BY <1>2 DEF Prefilled
<1>3. ASSUME NEW t \in Subs, DropStream(t) PROVE Prefilled(s)' = Prefilled(s)
  <2>1. s # t
    BY <1>1, <1>3 DEF DropStream, FreshOK
  <2>2. stream'[s] = stream[s]
    BY <1>0, <1>1, <1>3, <2>1 DEF DropStream, StreamsOK
  <2> QED
    BY <2>2 DEF Prefilled
<1>4. ASSUME NEW t \in Subs, LiveEvent(t) PROVE Prefilled(s)' = Prefilled(s)
  <2>1. PICK q \in Seq(Objects \cup {Live}) : q = stream[s]
    BY <1>0, <1>1 DEF StreamsOK
  <2>2. stream'[s] = q \/ stream'[s] = Append(q, Live)
    BY <1>0, <1>1, <1>4, <2>1 DEF LiveEvent, StreamsOK
  <2>3. Only(Append(q, Live), Objects) = Only(q, Objects)
    BY TopicsAssumption, OnlyAppend
  <2> QED
    BY <2>1, <2>2, <2>3 DEF Prefilled
<1> QED
  BY <1>2, <1>3, <1>4

\* The worker touches the stream of its request only.
LEMMA PrefilledOthers ==
  ASSUME TypeOK, NEW s \in Subs, Purge \/ FillObject, request.sub # s
  PROVE  Prefilled(s)' = Prefilled(s)
<1>0. StreamsOK /\ QueueOK /\ WorkerOK
  BY TypeParts DEF Typed
<1>1. stream'[s] = stream[s]
  BY <1>0, RequestTypes DEF Purge, FillObject, StreamsOK, WorkerOK
<1> QED
  BY <1>1 DEF Prefilled

LEMMA FillKept ==
  ASSUME TypeOK, FreshInv, FillInv, Filling, request' = request, request.sub \in fresh,
         todo' = todo, urls' = urls,
         stream' = stream \/ \E t \in Subs : DropStream(t) \/ LiveEvent(t)
  PROVE  \E k \in 0..Len(request'.topics) : FilledUpTo(k)'
<1>1. PICK k \in 0..Len(request.topics) : FilledUpTo(k)
  BY DEF FillInv
<1>2. Prefilled(request.sub)' = Prefilled(request.sub)
  <2>1. PICK s \in fresh : s = request.sub
    OBVIOUS
  <2>2. Prefilled(s)' = Prefilled(s)
    BY PrefilledKept
  <2> QED
    BY <2>1, <2>2 DEF Prefilled
<1>3. FilledUpTo(k)'
  BY <1>1, <1>2 DEF FilledUpTo
<1> QED
  BY <1>3

LEMMA FillApi ==
  ASSUME TypeOK, FreshInv, FillInv, NEW t \in Subs, Register(t) \/ Delete(t) \/ LiveEvent(t)
  PROVE  FillInv'
<1>0. QueueOK /\ WorkerOK
  BY TypeParts DEF Typed
<1>1. SUFFICES ASSUME Filling', request'.sub \in fresh'
               PROVE \E k \in 0..Len(request'.topics) : FilledUpTo(k)'
  BY DEF FillInv
<1>2. /\ UNCHANGED <<wpc, fillVars>> /\ (requests' = requests \/ SendRequest(t))
      /\ stream' = stream \/ DropStream(t) \/ LiveEvent(t)
  BY DEF Register, Delete, LiveEvent, StoreSubscription, EnsureStream, RemoveSubscription,
         DropStream, SendRequest, workerUnchanged, queueUnchanged, serverVars
<1>3. Filling /\ requests # <<>>
  BY <1>0, <1>1, <1>2 DEF Filling, WorkerOK, fillVars
<1>4. request' = request
  BY <1>2, <1>3, HeadKept DEF request
<1>5. request.sub \in fresh
  <2>1. Requested(request.sub)
    BY <1>0, <1>3, RequestedIs
  <2>2. fresh' \subseteq fresh \/ (Fresh(t) /\ fresh' \subseteq fresh \cup {t})
    BY DEF Register, Delete, LiveEvent, StoreSubscription, EnsureStream, RemoveSubscription,
           DropStream, SendRequest, apiVars
  <2> QED
    BY <1>1, <1>4, <2>1, <2>2 DEF Fresh
<1> QED
  BY <1>2, <1>3, <1>4, <1>5, FillKept DEF fillVars

LEMMA FillOthers ==
  ASSUME TypeOK, WorkerInv, FreshInv, FillInv,
         \/ \E p \in patches : Handler(p)
         \/ SendReport \/ ReportRunning \/ ReportDone
         \/ Crash \/ LoseAck \/ RestartApi \/ UNCHANGED vars
  PROVE  FillInv'
<1>1. SUFFICES ASSUME Filling', request'.sub \in fresh'
               PROVE \E k \in 0..Len(request'.topics) : FilledUpTo(k)'
  BY DEF FillInv
<1>2. /\ UNCHANGED <<requests, fresh, stream>>
      /\ Filling => todo' = todo /\ urls' = urls
      /\ Filling
  <2>1. CASE \E p \in patches : Handler(p)
    <3>1. PICK p \in patches : Handler(p)
      BY <2>1
    <3>2. CASE ReadEntry(p)
      BY <1>1, <3>2 DEF ReadEntry, workerUnchanged, Filling, fillVars, serverVars
    <3>3. CASE WriteEntry(p)
      BY <1>1, <3>3 DEF WriteEntry, WorkerInv, Filling, fillVars, serverVars
    <3>4. CASE NoEntryToReport(p)
      BY <1>1, <3>4 DEF NoEntryToReport, GoDown, Filling, fillVars, serverVars
    <3> QED
      BY <3>1, <3>2, <3>3, <3>4 DEF Handler
  <2>2. CASE SendReport \/ ReportRunning \/ ReportDone
    BY <1>1, <2>2 DEF SendReport, ReportRunning, ReportDone, Filling, fillVars, serverVars, apiVars
  <2>3. CASE Crash \/ LoseAck \/ RestartApi \/ UNCHANGED vars
    BY <1>1, <2>3 DEF Crash, LoseAck, RestartApi, GoDown, vars, Filling, fillVars, serverVars, apiVars
  <2> QED
    BY <2>1, <2>2, <2>3
<1>3. request' = request
  BY <1>2 DEF request
<1> QED
  BY <1>1, <1>2, <1>3, FillKept

LEMMA FillWorker ==
  ASSUME TypeOK, WorkerInv, FreshInv, FillInv,
         Purge \/ SkipForeign \/ ListObjects \/ FillObject
  PROVE  FillInv'
<1>0. StreamsOK /\ QueueOK /\ WorkerOK
  BY TypeParts DEF Typed
<1>a. UNCHANGED <<requests, fresh>> /\ requests # <<>>
  BY <1>0 DEF Purge, SkipForeign, ListObjects, FillObject, WorkerOK, serverVars, apiVars, queueUnchanged
<1>b. request' = request
  BY <1>a DEF request
<1>1. SUFFICES ASSUME request.sub \in fresh
               PROVE \E k \in 0..Len(request.topics) : FilledUpTo(k)'
  BY <1>a, <1>b DEF FillInv
<1>2. PICK s \in Subs : s = request.sub
  BY <1>0, <1>a, RequestTypes
<1>3. PICK T \in Seq(RealmTopics) : T = request.topics
  BY <1>0, <1>a, RequestTypes
<1>4. Prefilled(s) \in Seq(Objects) /\ urls \in Seq(Objects)
  BY <1>0, PrefilledType DEF WorkerOK
<1>5. SUFFICES \E k \in 0..Len(T) :
                  /\ todo' = SubSeq(T, k + 1, Len(T))
                  /\ Prefilled(s)' \o urls' = InitialState(SubSeq(T, 1, k))
  BY <1>2, <1>3, <1>b DEF FilledUpTo, Prefilled
<1>6. CASE Purge
  <2>1. todo' = T /\ urls' = urls /\ urls = <<>> /\ stream'[s] = Only(stream[s], {Live})
    BY <1>0, <1>2, <1>3, <1>6 DEF Purge, WorkerInv, StreamsOK
  <2>2. stream[s] \in Seq(Objects \cup {Live})
    BY <1>0 DEF StreamsOK
  <2>3. Prefilled(s)' = <<>>
    BY <2>1, <2>2, Purged DEF Prefilled
  <2>4. T = SubSeq(T, 0 + 1, Len(T)) /\ SubSeq(T, 1, 0) = <<>> /\ 0 \in 0..Len(T)
    OBVIOUS
  <2>5. Prefilled(s)' \o urls' = InitialState(SubSeq(T, 1, 0))
    <3>1. <<>> \o <<>> = <<>>
      OBVIOUS
    <3>2. urls' = <<>>
      BY <2>1
    <3> QED
      BY <2>3, <2>4, <3>1, <3>2, InitialStateEmpty, Zenon
  <2> QED
    BY <2>1, <2>4, <2>5
<1>7. ASSUME ~Purge PROVE Filling
  BY <1>7 DEF SkipForeign, ListObjects, FillObject, Filling
<1>8. ASSUME Filling
      PROVE  \E k \in 0..Len(T) :
                /\ todo = SubSeq(T, k + 1, Len(T))
                /\ Prefilled(s) \o urls = InitialState(SubSeq(T, 1, k))
  BY <1>1, <1>2, <1>3, <1>8 DEF FillInv, FilledUpTo
<1>9. CASE SkipForeign
  <2>1. /\ todo # <<>> /\ Head(todo) \in Foreign /\ todo' = Tail(todo)
        /\ urls' = urls /\ stream' = stream
    BY <1>9 DEF SkipForeign, serverVars
  <2>2. PICK k \in 0..Len(T) : /\ todo = SubSeq(T, k + 1, Len(T))
                               /\ Prefilled(s) \o urls = InitialState(SubSeq(T, 1, k))
    BY <1>8, <1>9 DEF SkipForeign, Filling
  <2>3. k + 1 \in 0..Len(T) /\ Head(todo) = T[k + 1] /\ Tail(todo) = SubSeq(T, k + 2, Len(T))
    BY <2>1, <2>2, NextTopic
  <2>5. InitialState(SubSeq(T, 1, k + 1)) = InitialState(SubSeq(T, 1, k))
    BY <2>1, <2>2, <2>3, NextTopic
  <2>4. (k + 1) + 1 = k + 2 /\ Prefilled(s)' = Prefilled(s)
    BY <2>1 DEF Prefilled
  <2> QED
    BY <2>1, <2>2, <2>3, <2>4, <2>5
<1>10. CASE ListObjects
  <2>1. /\ todo # <<>> /\ Head(todo) \notin Foreign /\ todo' = Tail(todo) /\ urls = <<>>
        /\ urls' = Contents[Head(todo)] /\ stream' = stream
    BY <1>10 DEF ListObjects, serverVars, WorkerInv
  <2>2. PICK k \in 0..Len(T) : /\ todo = SubSeq(T, k + 1, Len(T))
                               /\ Prefilled(s) \o urls = InitialState(SubSeq(T, 1, k))
    BY <1>8, <1>10 DEF ListObjects, Filling
  <2>3. /\ k + 1 \in 0..Len(T) /\ Head(todo) = T[k + 1] /\ Tail(todo) = SubSeq(T, k + 2, Len(T))
        /\ T[k + 1] \notin Foreign =>
             InitialState(SubSeq(T, 1, k + 1)) = InitialState(SubSeq(T, 1, k)) \o Contents[T[k + 1]]
    BY <2>1, <2>2, NextTopic
  <2>4. (k + 1) + 1 = k + 2 /\ Prefilled(s)' = Prefilled(s)
    BY <2>1 DEF Prefilled
  <2>5. Prefilled(s) = InitialState(SubSeq(T, 1, k))
    BY <1>4, <2>1, <2>2
  <2> QED
    BY <2>1, <2>3, <2>4, <2>5
<1>11. CASE FillObject
  <2>1. /\ urls # <<>> /\ urls' = Tail(urls) /\ todo' = todo
        /\ stream'[s] = Append(stream[s], Head(urls))
    BY <1>0, <1>2, <1>11 DEF FillObject, StreamsOK
  <2>2. stream[s] \in Seq(Objects \cup {Live}) /\ Head(urls) \in Objects
    BY <1>0, <1>4, <2>1 DEF StreamsOK
  <2>3. Prefilled(s)' = Append(Prefilled(s), Head(urls))
    BY <2>1, <2>2, OnlyAppend DEF Prefilled
  <2>4. Append(Prefilled(s), Head(urls)) \o Tail(urls) = Prefilled(s) \o urls
    <3>1. PICK a \in Seq(Objects), u \in Seq(Objects) : a = Prefilled(s) /\ u = urls
      BY <1>4
    <3>2. u # <<>> => Append(a, Head(u)) \o Tail(u) = a \o u
      OBVIOUS
    <3> QED
      BY <2>1, <3>1, <3>2
  <2>5. PICK k \in 0..Len(T) : /\ todo = SubSeq(T, k + 1, Len(T))
                               /\ Prefilled(s) \o urls = InitialState(SubSeq(T, 1, k))
    BY <1>8, <1>11 DEF FillObject, Filling
  <2> QED
    BY <2>1, <2>3, <2>4, <2>5, Zenon
<1> QED
  BY <1>6, <1>9, <1>10, <1>11

LEMMA FillStep ==
  ASSUME TypeOK, WorkerInv, FreshInv, FillInv, [Next]_vars
  PROVE  FillInv'
<1>1. ASSUME Start \/ TakeRequest \/ Park \/ FailWithoutStream \/ AckRequest PROVE FillInv'
  <2>1. ~Filling'
    BY <1>1 DEF Start, TakeRequest, Park, FailWithoutStream, AckRequest, GoDown, Filling
  <2> QED
    BY <2>1 DEF FillInv
<1>2. ASSUME NEW t \in Subs, Register(t) \/ Delete(t) \/ LiveEvent(t) PROVE FillInv'
  BY <1>2, FillApi
<1>3. ASSUME \/ \E p \in patches : Handler(p)
             \/ SendReport \/ ReportRunning \/ ReportDone
             \/ Crash \/ LoseAck \/ RestartApi \/ UNCHANGED vars
      PROVE  FillInv'
  BY <1>3, FillOthers
<1>4. ASSUME Purge \/ SkipForeign \/ ListObjects \/ FillObject PROVE FillInv'
  BY <1>4, FillWorker
<1> QED
  BY <1>1, <1>2, <1>3, <1>4 DEF Next, Worker

LEMMA DoneStep ==
  ASSUME ~SlowCalls, TypeOK, WorkerInv, FreshInv, PatchInv, FillInv, DoneInv, [Next]_vars
  PROVE  DoneInv'
<1>0. EntriesOK /\ StreamsOK /\ QueueOK /\ WorkerOK
  BY TypeParts DEF Typed
<1>1. SUFFICES ASSUME NEW s \in fresh', Over(s)', kv'[s].status = "done"
               PROVE  Prefilled(s)' = InitialState(kv'[s].topics)
  BY DEF DoneInv
<1>2. ASSUME s \in fresh, Over(s), kv'[s] = kv[s], Prefilled(s)' = Prefilled(s)
      PROVE  Prefilled(s)' = InitialState(kv'[s].topics)
  BY <1>1, <1>2 DEF DoneInv
<1>3. ASSUME NEW t \in Subs, Register(t) \/ Delete(t) \/ LiveEvent(t)
      PROVE  Prefilled(s)' = InitialState(kv'[s].topics)
  <2>1. s \in fresh /\ Over(s) /\ kv'[s] = kv[s]
    BY <1>1, <1>3, OverBeforeApi
  <2>2. stream' = stream \/ DropStream(t) \/ LiveEvent(t)
    BY <1>3 DEF Register, Delete, StoreSubscription, EnsureStream, RemoveSubscription,
                SendRequest, serverVars
  <2> QED
    BY <1>2, <2>1, <2>2, PrefilledKept
<1>4. ASSUME NEW p \in patches, Handler(p)
      PROVE  Prefilled(s)' = InitialState(kv'[s].topics)
  <2>1. s \in fresh
    BY <1>1, <1>4 DEF Handler, ReadEntry, WriteEntry, NoEntryToReport, GoDown
  <2>2. /\ stream' = stream
        /\ \/ Over(s) /\ kv'[s] = kv[s]
           \/ /\ wpc = "reported" /\ report \in {"failed", "done"} /\ urls = <<>>
              /\ requests # <<>> /\ request = RequestOf(s)
              /\ RequestOf(s)' = RequestOf(s) /\ kv'[s].status = report
    BY <1>1, <1>4, <2>1, OverBeforeHandler
  <2>3. Prefilled(s)' = Prefilled(s)
    BY <2>2 DEF Prefilled
  <2>4. CASE Over(s) /\ kv'[s] = kv[s]
    BY <1>2, <2>1, <2>3, <2>4
  <2>5. CASE ~(Over(s) /\ kv'[s] = kv[s])
    <3>1. /\ wpc = "reported" /\ report = "done" /\ urls = <<>> /\ todo = <<>>
          /\ requests # <<>> /\ request.sub = s /\ request.topics = kv[s].topics
          /\ kv'[s].topics = kv[s].topics
      BY <1>1, <2>2, <2>5 DEF RequestOf, WorkerInv
    <3>2. PICK k \in 0..Len(request.topics) : FilledUpTo(k)
      BY <2>1, <3>1 DEF FillInv, Filling
    <3>3. PICK T \in Seq(RealmTopics) : T = request.topics
      BY <1>0, <3>1, RequestTypes
    <3>4. /\ <<>> = SubSeq(T, k + 1, Len(T)) /\ k \in 0..Len(T)
          /\ Prefilled(s) \o <<>> = InitialState(SubSeq(T, 1, k))
      BY <3>1, <3>2, <3>3 DEF FilledUpTo
    <3>5. k = Len(T) /\ SubSeq(T, 1, k) = T
      <4>1. Len(SubSeq(T, k + 1, Len(T))) = Len(T) - k
        BY <3>4
      <4>2. Len(T) - k = 0
        BY <3>4, <4>1, Len(<<>>) = 0, Zenon
      <4>3. k = Len(T)
        BY <3>4, <4>2
      <4> QED
        BY <4>3
    <3>6. Prefilled(s) \o <<>> = Prefilled(s)
      <4>1. s \in Subs
        BY <1>0, <2>1 DEF EntriesOK
      <4> QED
        BY <1>0, <4>1, PrefilledType
    <3> QED
      BY <2>3, <3>1, <3>3, <3>4, <3>5, <3>6
  <2> QED
    BY <2>4, <2>5
<1>5. ASSUME Worker \/ Crash \/ LoseAck \/ RestartApi \/ UNCHANGED vars
      PROVE  Prefilled(s)' = InitialState(kv'[s].topics)
  <2>1. UNCHANGED <<kv, calls, fresh>>
    BY <1>5, WorkerFrame
  <2>2. s \in fresh /\ s \in Subs
    BY <1>0, <2>1 DEF EntriesOK
  <2>3. Over(s)
    BY <1>1, <1>5, <2>2, OverBefore
  <2>4. CASE Purge \/ FillObject
    <3>1. requests # <<>> /\ wpc # "ack"
      BY <1>0, <2>4 DEF Purge, FillObject, WorkerOK
    <3>2. request.sub # s
      BY <1>0, <2>3, <3>1, RequestedIs DEF Over
    <3> QED
      BY <1>2, <2>1, <2>2, <2>3, <2>4, <3>2, PrefilledOthers
  <2>5. CASE ~(Purge \/ FillObject)
    <3>1. stream' = stream \/ \E t \in Subs : DropStream(t) \/ LiveEvent(t)
      BY <2>5, StreamStep
    <3> QED
      BY <1>2, <2>1, <2>2, <2>3, <3>1, PrefilledKept
  <2> QED
    BY <2>4, <2>5
<1> QED
  BY <1>3, <1>4, <1>5 DEF Next

\* "Once the all objects for all object types have been placed in the queue, the
\* queue status is set to `ok`" (docs/prefill.md): the stream of a prefill that is
\* done and over holds the initial state, completely, once and in the order of
\* the request, however often the request was delivered.
THEOREM DoneAreComplete == ASSUME ~SlowCalls PROVE Spec => []DoneIsComplete
<1> DEFINE IInv == /\ TypeOK /\ WorkerInv /\ FreshInv /\ PatchInv
                   /\ OutcomeInv /\ FillInv /\ DoneInv
<1>1. Init => IInv
  BY TypeInit, FreshInit, PatchInit, OutcomeInit, FillInit
<1>2. IInv /\ [Next]_vars => IInv'
  BY TypeStep, FreshStep, PatchStep, OutcomeStep, FillStep, DoneStep
<1>3. IInv => DoneIsComplete
  BY DEF DoneInv, DoneIsComplete, Undisturbed, Over
<1> HIDE DEF IInv
<1> QED
  BY <1>1, <1>2, <1>3, PTL DEF Spec

=============================================================================
