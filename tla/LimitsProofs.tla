---------------------------- MODULE LimitsProofs ----------------------------
(***************************************************************************)
(* Proofs about Limits for any requests, processes, accounts and limits.   *)
(* They rest on Inv: each tracker holds what its process carried out, no   *)
(* more and no less, and an act that was judged alone still has the room   *)
(* that the engine found for it.                                           *)
(***************************************************************************)
EXTENDS Limits, TLAPS, FiniteSetTheorems, SequenceTheorems

-----------------------------------------------------------------------------
(* The inductive invariant, in parts.                                      *)

\* The acts a process carried out for an account, with a verb; those of them
\* that are no older than c; its texts; the promotional ones.
Acts(p, a, verb) == {r \in Done(p) : req[r].ask.account = a /\ req[r].ask.verb = verb}
Since(p, a, verb, c) == {r \in Acts(p, a, verb) : req[r].at >= c}
Texts(p, a)  == {r \in Done(p) : req[r].ask.account = a /\ HasDraft(req[r].ask)}
Promos(p, a) == {r \in Texts(p, a) : req[r].ask.promotional}

\* The ones judged alone: in a window that ends at t, promotional, on a target.
SoloWithin(p, a, verb, t) == {r \in Within(p, a, verb, t) : req[r].solo}
SoloPromos(p, a) == {r \in Promos(p, a) : req[r].solo}
There(p, target, t) ==
  {r \in Done(p) : /\ OnTarget(req[r].ask) /\ req[r].ask.target = target
                   /\ ~IsOwned(req[r].ask) /\ req[r].solo
                   /\ req[r].at \in (t - TargetWindow)..t}
Present(p, target, t) == {req[r].ask.account : r \in There(p, target, t)}

\* The entries of a list that are no older than c.
Entries(times, c) == {i \in DOMAIN times : times[i] >= c}

\* A limiter's list is in order, and nothing is dated later than now.
OrderedTimes(times) ==
  /\ \A i \in DOMAIN times : times[i] <= now
  /\ \A i, j \in DOMAIN times : i <= j => times[i] <= times[j]
Ordered ==
  /\ \A p \in Processes, k \in Accounts \X Verbs : OrderedTimes(events[p][k])
  /\ \A r \in Requests : req[r].at <= now

\* The limiter has one entry for each act that may still be in a window.
CountedFrom(p, a, verb, c) ==
  Cardinality(Entries(events[p][<<a, verb>>], c)) = Cardinality(Since(p, a, verb, c))
Counted(p) ==
  \A a \in Accounts, verb \in Verbs, c \in Int :
    c >= now - RateWindow => CountedFrom(p, a, verb, c)

\* The ledger has counted each text on its side.
Recorded(p) ==
  \A a \in Accounts :
    /\ promo[p][a] = Cardinality(Promos(p, a))
    /\ nonPromo[p][a] = Cardinality(Texts(p, a) \ Promos(p, a))

\* The coordination tracker has the hits of the acts on a target.
Met(p) ==
  \A target \in Targets : ToSet(hits[p][target]) = {Hit(r) : r \in ActsOn(p, target)}

\* The trackers of process p hold its acts, which are finitely many.
Tracked(p) == IsFiniteSet(Done(p)) /\ Counted(p) /\ Recorded(p) /\ Met(p)

\* The acts of process p that were judged alone are within the limits.
RateLimited(p) ==
  \A a \in Accounts, verb \in Verbs, t \in 0..now :
    Limit(a, verb) > 0 => Cardinality(SoloWithin(p, a, verb, t)) <= Limit(a, verb)
RatioLimited(p) ==
  \A a \in Accounts :
    Ratio > 0 => Cardinality(SoloPromos(p, a)) <= Cardinality(Texts(p, a) \ Promos(p, a)) \div Ratio
TargetLimited(p) ==
  \A target \in Targets, t \in 0..now :
    There(p, target, t) # {} => Cardinality(Present(p, target, t)) <= MaxDistinct
Limited(p) == RateLimited(p) /\ RatioLimited(p) /\ TargetLimited(p)

\* An act that was judged alone is the only such act under way, and there is
\* still room for it: under the limit, under the ratio, on the target.
Sole(r) ==
  \A q \in Requests \ {r} :
    req[q].process = req[r].process /\ req[q].pc = "dispatch" => ~req[q].solo
RateRoom(p, ask) ==
  Limit(ask.account, ask.verb) > 0
    => Cardinality(SoloWithin(p, ask.account, ask.verb, now)) < Limit(ask.account, ask.verb)
RatioRoom(p, ask) ==
  HasDraft(ask) /\ ask.promotional /\ Ratio > 0
    => Cardinality(SoloPromos(p, ask.account))
         < Cardinality(Texts(p, ask.account) \ Promos(p, ask.account)) \div Ratio
TargetRoom(p, ask) ==
  OnTarget(ask) /\ ~IsOwned(ask)
    => Cardinality(Present(p, ask.target, now) \cup {ask.account}) <= MaxDistinct
Roomy ==
  \A r \in Requests, p \in Processes, ask \in Asks :
    /\ req[r].pc = "dispatch" /\ req[r].solo
    /\ req[r].process = p /\ req[r].ask = ask
    => Sole(r) /\ RateRoom(p, ask) /\ RatioRoom(p, ask) /\ TargetRoom(p, ask)

Inv == TypeOK /\ Ordered /\ Roomy /\ \A p \in Processes : Tracked(p) /\ Limited(p)

-----------------------------------------------------------------------------
(* Finite sets.                                                            *)

\* The values of a function on a finite set are finitely many.
LEMMA FiniteImage ==
  ASSUME NEW S, IsFiniteSet(S), NEW f, DOMAIN f = S, f = [x \in S |-> f[x]]
  PROVE  IsFiniteSet({f[x] : x \in S})
<1> DEFINE T == {f[x] : x \in S}
<1>1. f \in [S -> T]
  OBVIOUS
<1>2. f \in Surjection(S, T)
  BY <1>1 DEF Surjection
<1> QED
  BY <1>2, FS_Surjection

\* Moving a finite set of numbers keeps its size.
LEMMA Shifted ==
  ASSUME NEW S \in SUBSET Int, NEW T \in SUBSET Int, NEW k \in Int, IsFiniteSet(S),
         \A i \in Int : i \in T <=> i + k \in S
  PROVE  IsFiniteSet(T) /\ Cardinality(T) = Cardinality(S)
<1> DEFINE f == [i \in S |-> i - k]
<1>1. f \in [S -> T]
  <2>1. ASSUME NEW i \in S  PROVE i - k \in T
    <3>1. i \in Int /\ i - k \in Int /\ (i - k) + k = i
      OBVIOUS
    <3> QED
      BY <3>1
  <2> QED
    BY <2>1
<1>2. f \in Injection(S, T)
  BY <1>1 DEF Injection, IsInjective
<1>3. f \in Surjection(S, T)
  <2>1. ASSUME NEW j \in T  PROVE \E i \in S : f[i] = j
    <3>1. j \in Int /\ j + k \in S /\ (j + k) - k = j
      OBVIOUS
    <3> QED
      BY <3>1
  <2> QED
    BY <1>1, <2>1 DEF Surjection
<1>4. ExistsBijection(S, T)
  BY <1>2, <1>3 DEF ExistsBijection, Bijection
<1> QED
  BY <1>4, FS_Bijection

\* The size of an interval that may be empty.
LEMMA IntervalSize ==
  ASSUME NEW k \in Int, NEW n \in Int, k <= n
  PROVE  IsFiniteSet((k + 1)..n) /\ Cardinality((k + 1)..n) = n - k
<1>1. k + 1 \in Int /\ n - (k + 1) + 1 = n - k /\ (k + 1 > n => n - k = 0)
  OBVIOUS
<1> DEFINE m == k + 1
<1> HIDE DEF m
<1>2. m \in Int
  BY <1>1 DEF m
<1>3. IsFiniteSet(m..n) /\ Cardinality(m..n) = IF m > n THEN 0 ELSE n - m + 1
  BY <1>2, FS_Interval
<1> QED
  BY <1>1, <1>3 DEF m

-----------------------------------------------------------------------------
(* A limiter's list: what it keeps and what is appended.                   *)

\* What is stale comes first, and the live rest is what follows.
LEMMA StaleFirst ==
  ASSUME now \in Nat, NEW times \in Seq(Nat), OrderedTimes(times)
  PROVE  \E k \in 0..Len(times) :
           /\ Live(times) = SubSeq(times, k + 1, Len(times))
           /\ \A i \in DOMAIN times : times[i] < now - RateWindow <=> i <= k
<1> DEFINE stale == {i \in DOMAIN times : times[i] < now - RateWindow}
           k == Cardinality(stale)
<1>1. DOMAIN times = 1..Len(times) /\ Len(times) \in Nat /\ \A i \in DOMAIN times : times[i] \in Nat
  OBVIOUS
<1>2. now - RateWindow \in Int
  BY LimitsAssumption
<1>3. /\ IsFiniteSet(1..Len(times)) /\ Cardinality(1..Len(times)) = Len(times)
      /\ stale \subseteq 1..Len(times)
  <2> DEFINE n == Len(times)
  <2>1. 1 \in Int /\ n \in Int /\ n \in Nat
    BY <1>1
  <2> HIDE DEF n
  <2>2. IsFiniteSet(1..n) /\ Cardinality(1..n) = IF 1 > n THEN 0 ELSE n - 1 + 1
    BY <2>1, FS_Interval
  <2>3. (IF 1 > n THEN 0 ELSE n - 1 + 1) = n
    BY <2>1
  <2> QED
    BY <1>1, <2>2, <2>3 DEF n
<1>4. IsFiniteSet(stale) /\ k \in Nat /\ k <= Len(times)
  BY <1>3, FS_Subset, FS_CardinalityType
<1>5. ASSUME NEW i \in stale  PROVE i <= k
  <2>1. i \in 1..Len(times) /\ times[i] < now - RateWindow
    BY <1>1
  <2>2. ASSUME NEW j \in 1..i  PROVE j \in stale
    <3>1. j \in DOMAIN times /\ i \in DOMAIN times /\ j <= i
      BY <1>1, <2>1
    <3>2. times[j] <= times[i] /\ times[j] \in Nat /\ times[i] \in Nat
      BY <1>1, <3>1 DEF OrderedTimes
    <3> QED
      BY <1>2, <2>1, <3>1, <3>2
  <2>3. 1..i \subseteq stale
    BY <2>2
  <2>4. Cardinality(1..i) = i
    BY <2>1, FS_Interval
  <2>5. Cardinality(1..i) <= k
    BY <1>4, <2>3, FS_Subset
  <2> QED
    BY <2>4, <2>5
<1>6. stale \subseteq 1..k
  BY <1>3, <1>4, <1>5
<1>7. IsFiniteSet(1..k) /\ Cardinality(1..k) = k
  BY <1>4, FS_Interval
<1> HIDE DEF stale, k
<1>8. stale = 1..k
  BY <1>6, <1>7, FS_Subset DEF k
<1>9. Live(times) = SubSeq(times, k + 1, Len(times))
  BY DEF Live, stale, k
<1>10. \A i \in DOMAIN times : i \in stale <=> times[i] < now - RateWindow
  BY DEF stale
<1> QED
  BY <1>1, <1>4, <1>8, <1>9, <1>10

\* Pruning keeps the order of a list, and every entry that is not stale; its
\* length is the number of those.
LEMMA LiveEntries ==
  ASSUME now \in Nat, NEW times \in Seq(Nat), OrderedTimes(times)
  PROVE  /\ Live(times) \in Seq(Nat) /\ OrderedTimes(Live(times))
         /\ \A c \in Int : c >= now - RateWindow =>
              Cardinality(Entries(Live(times), c)) = Cardinality(Entries(times, c))
         /\ Len(Live(times)) = Cardinality(Entries(times, now - RateWindow))
<1> DEFINE live == Live(times)
<1>1. PICK k \in 0..Len(times) :
        /\ live = SubSeq(times, k + 1, Len(times))
        /\ \A i \in DOMAIN times : times[i] < now - RateWindow <=> i <= k
  BY StaleFirst
<1>2. /\ DOMAIN times = 1..Len(times) /\ Len(times) \in Nat
      /\ \A i \in DOMAIN times : times[i] \in Nat
  OBVIOUS
<1> HIDE DEF live
<1>3. /\ live \in Seq(Nat) /\ Len(live) = Len(times) - k /\ DOMAIN live = 1..(Len(times) - k)
      /\ \A i \in 1..(Len(times) - k) : live[i] = times[i + k]
  <2>1. \A i \in (k + 1)..Len(times) : times[i] \in Nat
    BY <1>2
  <2>2. k + 1 \in Int /\ Len(times) \in Int /\ Len(times) - (k + 1) + 1 = Len(times) - k
    BY <1>2
  <2>3. /\ SubSeq(times, k + 1, Len(times)) \in Seq(Nat)
        /\ Len(SubSeq(times, k + 1, Len(times)))
             = IF k + 1 <= Len(times) THEN Len(times) - (k + 1) + 1 ELSE 0
        /\ \A i \in 1..(Len(times) - (k + 1) + 1) :
             SubSeq(times, k + 1, Len(times))[i] = times[k + 1 + i - 1]
    BY <2>1, <2>2, SubSeqProperties
  <2>4. Len(live) = Len(times) - k
    <3>1. CASE k + 1 <= Len(times)
      BY <1>1, <2>2, <2>3, <3>1
    <3>2. CASE ~(k + 1 <= Len(times))
      <4>1. k = Len(times) /\ Len(times) - k = 0
        <5> DEFINE n == Len(times)
        <5>1. k \in Nat /\ n \in Nat /\ k <= n
          BY <1>2
        <5> HIDE DEF n
        <5>2. ~(k + 1 <= n)
          BY <3>2 DEF n
        <5>3. k = n /\ n - k = 0
          BY <5>1, <5>2
        <5> QED
          BY <5>3 DEF n
      <4> QED
        BY <1>1, <2>3, <3>2, <4>1
    <3> QED
      BY <3>1, <3>2
  <2>5. live \in Seq(Nat) /\ DOMAIN live = 1..(Len(times) - k)
    BY <1>1, <2>3, <2>4
  <2>6. ASSUME NEW i \in 1..(Len(times) - k)  PROVE live[i] = times[i + k]
    <3>1. k + 1 + i - 1 = i + k
      BY <1>2
    <3>2. live[i] = times[k + 1 + i - 1]
      BY <1>1, <2>2, <2>3
    <3> QED
      BY <3>1, <3>2
  <2> QED
    BY <2>4, <2>5, <2>6
<1>4. OrderedTimes(live)
  <2>1. ASSUME NEW i \in DOMAIN live  PROVE i + k \in DOMAIN times /\ live[i] = times[i + k]
    BY <1>2, <1>3
  <2>2. \A i \in DOMAIN live : live[i] <= now
    BY <2>1 DEF OrderedTimes
  <2>3. ASSUME NEW i \in DOMAIN live, NEW j \in DOMAIN live, i <= j  PROVE live[i] <= live[j]
    <3>1. i + k <= j + k
      BY <1>3, <2>3
    <3> QED
      BY <2>1, <3>1 DEF OrderedTimes
  <2> QED
    BY <2>2, <2>3 DEF OrderedTimes
<1>5. ASSUME NEW c \in Int, c >= now - RateWindow
      PROVE  /\ IsFiniteSet(Entries(live, c))
             /\ Cardinality(Entries(live, c)) = Cardinality(Entries(times, c))
  <2>1. Entries(times, c) \subseteq 1..Len(times) /\ IsFiniteSet(1..Len(times))
    BY <1>2, FS_Interval DEF Entries
  <2>2. IsFiniteSet(Entries(times, c)) /\ Entries(times, c) \in SUBSET Int
    BY <1>2, <2>1, FS_Subset
  <2>3. Entries(live, c) \in SUBSET Int
    BY <1>3 DEF Entries
  <2>4. ASSUME NEW i \in Int  PROVE i \in Entries(live, c) <=> i + k \in Entries(times, c)
    <3>1. ASSUME i \in Entries(live, c)  PROVE i + k \in Entries(times, c)
      BY <1>2, <1>3, <3>1 DEF Entries
    <3>2. ASSUME i + k \in Entries(times, c)  PROVE i \in Entries(live, c)
      <4>1. i + k \in DOMAIN times /\ times[i + k] >= c /\ times[i + k] \in Nat
        BY <1>2, <3>2 DEF Entries
      <4>2. ~(times[i + k] < now - RateWindow)
        BY <1>5, <4>1, LimitsAssumption
      <4>3. ~(i + k <= k)
        BY <1>1, <4>1, <4>2
      <4>4. i \in 1..(Len(times) - k)
        BY <1>2, <4>1, <4>3
      <4> QED
        BY <1>3, <4>1, <4>4 DEF Entries
    <3> QED
      BY <3>1, <3>2
  <2>5. k \in Int
    BY <1>2
  <2> QED
    BY <2>2, <2>3, <2>4, <2>5, Shifted, Zenon
<1>6. Len(live) = Cardinality(Entries(times, now - RateWindow))
  <2> DEFINE c == now - RateWindow
  <2>1. c \in Int
    BY LimitsAssumption
  <2>2. Entries(times, c) = (k + 1)..Len(times)
    <3>1. \A i \in DOMAIN times : times[i] >= c <=> i > k
      BY <1>1, <1>2, <2>1
    <3> QED
      BY <1>2, <3>1 DEF Entries
  <2>3. k + 1 \in Int /\ Len(times) \in Int /\ k \in Nat /\ k <= Len(times)
    BY <1>2
  <2>4. Cardinality((k + 1)..Len(times)) = Len(times) - k
    BY <2>3, IntervalSize
  <2> QED
    BY <1>3, <2>2, <2>4
<1> QED
  BY <1>3, <1>4, <1>5, <1>6 DEF live

\* An entry for now is one more entry, from every time that is not to come.
LEMMA AppendEntry ==
  ASSUME now \in Nat, NEW times \in Seq(Nat), OrderedTimes(times)
  PROVE  LET longer == Append(times, now) IN
         /\ longer \in Seq(Nat) /\ OrderedTimes(longer)
         /\ \A c \in Int : Cardinality(Entries(longer, c))
              = IF c <= now THEN Cardinality(Entries(times, c)) + 1 ELSE 0
<1> DEFINE longer == Append(times, now)
<1>1. /\ longer \in Seq(Nat) /\ DOMAIN times = 1..Len(times) /\ Len(times) \in Nat
      /\ DOMAIN longer = 1..(Len(times) + 1) /\ longer[Len(times) + 1] = now
      /\ \A i \in DOMAIN times : longer[i] = times[i] /\ times[i] \in Nat
  OBVIOUS
<1> HIDE DEF longer
<1>2. OrderedTimes(longer)
  <2> DEFINE n == Len(times)
  <2>1. \A i \in DOMAIN longer : i \in DOMAIN times \/ i = n + 1
    BY <1>1
  <2>2. ASSUME NEW i \in DOMAIN longer  PROVE longer[i] <= now
    <3>1. now <= now
      OBVIOUS
    <3> QED
      BY <1>1, <2>1, <3>1 DEF OrderedTimes
  <2>3. ASSUME NEW i \in DOMAIN longer, NEW j \in DOMAIN longer, i <= j
        PROVE  longer[i] <= longer[j]
    <3>1. CASE j = n + 1
      BY <1>1, <2>2, <3>1
    <3>2. CASE j \in DOMAIN times
      <4>1. i \in DOMAIN times
        BY <1>1, <2>1, <2>3, <3>2
      <4> QED
        BY <1>1, <2>3, <3>2, <4>1 DEF OrderedTimes
    <3> QED
      BY <2>1, <3>1, <3>2
  <2> QED
    BY <2>2, <2>3 DEF OrderedTimes
<1>3. ASSUME NEW c \in Int, c <= now
      PROVE  Cardinality(Entries(longer, c)) = Cardinality(Entries(times, c)) + 1
  <2>1. Entries(longer, c) = Entries(times, c) \cup {Len(times) + 1}
    BY <1>1, <1>3 DEF Entries
  <2>2. Entries(times, c) \subseteq 1..Len(times) /\ IsFiniteSet(1..Len(times))
    BY <1>1, FS_Interval DEF Entries
  <2>3. IsFiniteSet(Entries(times, c)) /\ Len(times) + 1 \notin Entries(times, c)
    BY <1>1, <2>2, FS_Subset
  <2> QED
    BY <2>1, <2>3, FS_AddElement
<1>4. ASSUME NEW c \in Int, ~(c <= now)  PROVE Cardinality(Entries(longer, c)) = 0
  <2>1. \A i \in DOMAIN longer : longer[i] <= now /\ longer[i] \in Nat
    BY <1>1, <1>2 DEF OrderedTimes
  <2>2. Entries(longer, c) = {}
    BY <1>4, <2>1 DEF Entries
  <2> QED
    BY <2>2, FS_EmptySet
<1> QED
  BY <1>1, <1>2, <1>3, <1>4 DEF longer

-----------------------------------------------------------------------------
(* Types.                                                                  *)

\* What an ask holds.
LEMMA AskFields ==
  ASSUME NEW ask \in Asks
  PROVE  /\ ask.account \in Accounts /\ ask.verb \in Verbs /\ ask.promotional \in BOOLEAN
         /\ OnTarget(ask) => ask.target \in Targets
BY LimitsAssumption DEF AskSet, OnTarget

\* What the memory of a request holds.
LEMMA Fields ==
  ASSUME NEW k \in ReqSet
  PROVE  /\ k.pc \in {"new", "review", "dispatch", "done", "ended"} /\ k.ask \in Asks
         /\ k.process \in Processes /\ k.solo \in BOOLEAN /\ k.at \in Nat /\ k.kept \in BOOLEAN
BY DEF ReqSet

\* A limit is a number, also without an entry.
LEMMA LimitType ==
  ASSUME NEW a \in Accounts, NEW verb \in Verbs
  PROVE  Limit(a, verb) \in Int
<1> DEFINE entries == {Base[verb], Override[a][verb]} \ {NoLimit}
<1>1. Base[verb] \in Nat \cup {NoLimit} /\ Override[a][verb] \in Int \cup {NoLimit}
  BY LimitsAssumption
<1>2. entries \subseteq Int
  BY <1>1
<1>3. Limit(a, verb) = IF entries = {} THEN 0 ELSE Min(entries)
  BY DEF Limit
<1>4. ASSUME entries # {}  PROVE Min(entries) \in Int
  <2>1. \E m \in entries : \A n \in entries : m <= n
    <3>1. PICK m \in entries : TRUE
      BY <1>4
    <3>2. CASE \A n \in entries : m <= n
      BY <3>2
    <3>3. CASE \E n \in entries : ~(m <= n)
      <4>1. PICK n \in entries : ~(m <= n)
        BY <3>3
      <4>2. m \in Int /\ n \in Int /\ n <= m /\ n <= n /\ m # n
        BY <1>2, <4>1
      <4>3. \A x \in entries : x = m \/ x = n
        BY <4>2
      <4> QED
        BY <4>2, <4>3
    <3> QED
      BY <3>2, <3>3
  <2> HIDE DEF entries
  <2>2. Min(entries) \in entries
    BY <2>1 DEF Min
  <2> QED
    BY <1>2, <2>2
<1> QED
  BY <1>3, <1>4

-----------------------------------------------------------------------------
(* How a step changes the memory of the request that takes it.             *)

\* A step replaces the memory of one request.
LEMMA SetReq ==
  ASSUME TypeOK, NEW r \in Requests, NEW k \in ReqSet, req' = [req EXCEPT ![r] = k]
  PROVE  /\ req' \in [Requests -> ReqSet] /\ req'[r] = k
         /\ \A q \in Requests \ {r} : req'[q] = req[q]
BY DEF TypeOK

\* The acts of process p stay what they are.
Keeps(p) == Done(p)' = Done(p) /\ \A q \in Done(p) : req'[q] = req[q]

\* A request that is neither carried out before nor after a step.
LEMMA KeepsAll ==
  ASSUME NEW r \in Requests, req[r].pc # "done", req'[r].pc # "done",
         \A q \in Requests \ {r} : req'[q] = req[q]
  PROVE  \A p \in Processes : Keeps(p)
BY DEF Keeps, Done

\* An act is judged, on its own if none of its process is under way.
LEMMA JudgeStep ==
  ASSUME TypeOK, NEW r \in Requests, Judge(r)
  PROVE  /\ req' \in [Requests -> ReqSet] /\ req[r].pc = "new"
         /\ \A q \in Requests \ {r} : req'[q] = req[q]
         /\ req'[r].process = req[r].process /\ req'[r].at = req[r].at
         /\ req'[r].pc \in {"ended", "review", "dispatch"}
         /\ req'[r].solo = ~Dispatching(req[r].process)
         /\ req'[r].pc = "dispatch" => Verdict(req[r].process, req'[r].ask) # "deny"
         /\ UNCHANGED <<trackers, now>>
<1> DEFINE p == req[r].process
<1>1. PICK ask \in Asks :
        req' = [req EXCEPT ![r] =
                 [@ EXCEPT !.ask = ask, !.solo = ~Dispatching(p),
                           !.pc = CASE Verdict(p, ask) = "deny" -> "ended"
                                    [] Verdict(p, ask) = "route" -> "review"
                                    [] OTHER -> "dispatch"]]
  BY DEF Judge
<1> DEFINE pc == CASE Verdict(p, ask) = "deny" -> "ended"
                   [] Verdict(p, ask) = "route" -> "review"
                   [] OTHER -> "dispatch"
           k == [req[r] EXCEPT !.ask = ask, !.solo = ~Dispatching(p), !.pc = pc]
<1>2. pc \in {"ended", "review", "dispatch"} /\ (pc = "dispatch" => Verdict(p, ask) # "deny")
  <2>1. CASE Verdict(p, ask) = "deny"
    BY <2>1
  <2>2. CASE Verdict(p, ask) = "route"
    BY <2>2
  <2>3. CASE Verdict(p, ask) # "deny" /\ Verdict(p, ask) # "route"
    BY <2>3
  <2> QED
    BY <2>1, <2>2, <2>3
<1>3. req[r] \in ReqSet
  BY DEF TypeOK
<1>4. Dispatching(p) \in BOOLEAN
  BY DEF Dispatching
<1> HIDE DEF pc
<1>5. /\ k \in ReqSet /\ k.process = p /\ k.at = req[r].at /\ k.pc = pc /\ k.ask = ask
      /\ k.solo = ~Dispatching(p)
  BY <1>2, <1>3, <1>4 DEF ReqSet
<1>6. req' = [req EXCEPT ![r] = k]
  BY <1>1, <1>3 DEF pc
<1> HIDE DEF k
<1>7. req' \in [Requests -> ReqSet] /\ req'[r] = k /\ \A q \in Requests \ {r} : req'[q] = req[q]
  BY <1>5, <1>6, SetReq
<1> QED
  BY <1>2, <1>5, <1>7 DEF Judge

\* An act goes on, or ends, after its review or without success.
LEMMA OtherStep ==
  ASSUME TypeOK, NEW r \in Requests, Fail(r) \/ \E p \in Processes : Decide(r, p)
  PROVE  /\ req' \in [Requests -> ReqSet] /\ req[r].pc \in {"review", "dispatch"}
         /\ \A q \in Requests \ {r} : req'[q] = req[q]
         /\ req'[r].at = req[r].at /\ req'[r].pc \in {"ended", "dispatch"}
         /\ req'[r].pc = "dispatch" => ~req'[r].solo
         /\ UNCHANGED <<trackers, now>>
<1>1. req[r] \in ReqSet
  BY DEF TypeOK
<1>2. CASE Fail(r)
  <2> DEFINE k == [req[r] EXCEPT !.pc = "ended"]
  <2>1. k \in ReqSet /\ k.pc = "ended" /\ k.at = req[r].at
    BY <1>1 DEF ReqSet
  <2>2. req' = [req EXCEPT ![r] = k] /\ req[r].pc = "dispatch"
    BY <1>2 DEF Fail
  <2> HIDE DEF k
  <2> QED
    BY <1>2, <2>1, <2>2, SetReq DEF Fail
<1>3. CASE \E p \in Processes : Decide(r, p)
  <2>1. PICK p \in Processes, pc \in {"dispatch", "ended"} :
          req' = [req EXCEPT ![r] = [@ EXCEPT !.pc = pc, !.process = p, !.solo = FALSE]]
    BY <1>3 DEF Decide
  <2> DEFINE k == [req[r] EXCEPT !.pc = pc, !.process = p, !.solo = FALSE]
  <2>2. k \in ReqSet /\ k.pc = pc /\ k.at = req[r].at /\ ~k.solo
    BY <1>1 DEF ReqSet
  <2>3. req' = [req EXCEPT ![r] = k] /\ req[r].pc = "review"
    BY <1>3, <2>1 DEF Decide
  <2> HIDE DEF k
  <2> QED
    BY <1>3, <2>2, <2>3, SetReq DEF Decide
<1> QED
  BY <1>2, <1>3

\* An act is carried out, and counted with its process.
LEMMA SucceedStep ==
  ASSUME TypeOK, NEW r \in Requests, Succeed(r)
  PROVE  /\ req' \in [Requests -> ReqSet] /\ req[r].pc = "dispatch"
         /\ \A q \in Requests \ {r} : req'[q] = req[q]
         /\ req'[r].ask = req[r].ask /\ req'[r].process = req[r].process
         /\ req'[r].solo = req[r].solo /\ req'[r].pc = "done" /\ req'[r].kept
         /\ req'[r].at = now /\ now' = now
<1> DEFINE k == [req[r] EXCEPT !.pc = "done", !.at = now, !.kept = TRUE]
<1>1. /\ k \in ReqSet /\ k.ask = req[r].ask /\ k.process = req[r].process
      /\ k.solo = req[r].solo /\ k.pc = "done" /\ k.kept /\ k.at = now
  BY DEF TypeOK, ReqSet
<1>2. req' = [req EXCEPT ![r] = k] /\ req[r].pc = "dispatch" /\ now' = now
  BY DEF Succeed
<1> HIDE DEF k
<1> QED
  BY <1>1, <1>2, SetReq

\* A restart of process p loses its acts, and no others.
LEMMA RestartStep ==
  ASSUME TypeOK, NEW p \in Processes, Restart(p)
  PROVE  /\ req' \in [Requests -> ReqSet] /\ Done(p)' = {} /\ now' = now
         /\ \A q \in Requests : req[q].process # p => req'[q] = req[q]
         /\ \A q \in Requests : req[q].process = p =>
              /\ req'[q].process = p /\ req'[q].pc # "dispatch" /\ ~req'[q].kept
              /\ req'[q].at = req[q].at
         /\ \A q \in Processes \ {p} : Keeps(q)
<1>1. req' = [r \in Requests |->
                IF req[r].process # p THEN req[r]
                ELSE [req[r] EXCEPT !.kept = FALSE,
                                    !.pc = IF @ = "dispatch" THEN "ended" ELSE @]]
  BY DEF Restart
<1>2. \A q \in Requests : req[q].process # p => req'[q] = req[q]
  BY <1>1
<1>3. ASSUME NEW q \in Requests, req[q].process = p
      PROVE  /\ req'[q] \in ReqSet /\ req'[q].process = p /\ req'[q].pc # "dispatch"
             /\ ~req'[q].kept /\ req'[q].at = req[q].at
  <2>1. req[q] \in ReqSet
    BY DEF TypeOK
  <2>2. req'[q] = [req[q] EXCEPT !.kept = FALSE, !.pc = IF @ = "dispatch" THEN "ended" ELSE @]
    BY <1>1, <1>3
  <2> QED
    BY <1>3, <2>1, <2>2 DEF ReqSet
<1>4. req' \in [Requests -> ReqSet]
  <2>1. \A q \in Requests : req'[q] \in ReqSet
    BY <1>2, <1>3 DEF TypeOK
  <2> QED
    BY <1>1, <2>1
<1>5. Done(p)' = {}
  BY <1>2, <1>3 DEF Done
<1>6. \A q \in Processes \ {p} : Keeps(q)
  BY <1>2, <1>3 DEF Done, Keeps
<1> QED
  BY <1>2, <1>3, <1>4, <1>5, <1>6 DEF Restart

-----------------------------------------------------------------------------
(* What a process has carried out, counted.                                *)

\* Every set of acts that the invariant counts is finite.
LEMMA FiniteSets ==
  ASSUME NEW p, IsFiniteSet(Done(p)), NEW a, NEW verb, NEW c, NEW t, NEW target
  PROVE  /\ IsFiniteSet(Since(p, a, verb, c)) /\ IsFiniteSet(Texts(p, a))
         /\ IsFiniteSet(Promos(p, a)) /\ IsFiniteSet(SoloPromos(p, a))
         /\ IsFiniteSet(Texts(p, a) \ Promos(p, a)) /\ IsFiniteSet(Within(p, a, verb, t))
         /\ IsFiniteSet(SoloWithin(p, a, verb, t)) /\ IsFiniteSet(There(p, target, t))
         /\ IsFiniteSet(Present(p, target, t))
<1>2. /\ Since(p, a, verb, c) \subseteq Done(p) /\ Texts(p, a) \subseteq Done(p)
      /\ Promos(p, a) \subseteq Done(p) /\ SoloPromos(p, a) \subseteq Done(p)
      /\ Texts(p, a) \ Promos(p, a) \subseteq Done(p) /\ Within(p, a, verb, t) \subseteq Done(p)
      /\ SoloWithin(p, a, verb, t) \subseteq Done(p) /\ There(p, target, t) \subseteq Done(p)
  BY DEF Since, Acts, Texts, Promos, SoloPromos, Within, SoloWithin, There
<1>3. IsFiniteSet(There(p, target, t))
  BY <1>2, FS_Subset
<1>4. IsFiniteSet(Present(p, target, t))
  <2> DEFINE f == [r \in There(p, target, t) |-> req[r].ask.account]
  <2>1. IsFiniteSet({f[x] : x \in There(p, target, t)})
    BY <1>3, FiniteImage
  <2>2. Present(p, target, t) = {f[x] : x \in There(p, target, t)}
    BY DEF Present
  <2> QED
    BY <2>1, <2>2
<1> QED
  BY <1>2, <1>4, FS_Subset

\* What a process keeps, it keeps in every set of its acts.
LEMMA KeptSets ==
  ASSUME NEW p \in Processes, Keeps(p), NEW a, NEW verb, NEW c, NEW t, NEW target
  PROVE  /\ Since(p, a, verb, c)' = Since(p, a, verb, c)
         /\ Texts(p, a)' = Texts(p, a) /\ Promos(p, a)' = Promos(p, a)
         /\ SoloPromos(p, a)' = SoloPromos(p, a)
         /\ SoloWithin(p, a, verb, t)' = SoloWithin(p, a, verb, t)
         /\ There(p, target, t)' = There(p, target, t)
         /\ Present(p, target, t)' = Present(p, target, t)
<1>1. Since(p, a, verb, c)' = Since(p, a, verb, c)
  BY DEF Keeps, Since, Acts
<1>2. Texts(p, a)' = Texts(p, a)
  BY DEF Keeps, Texts
<1>3. Promos(p, a)' = Promos(p, a)
  BY DEF Keeps, Texts, Promos
<1>4. SoloPromos(p, a)' = SoloPromos(p, a)
  BY DEF Keeps, Texts, Promos, SoloPromos
<1>5. SoloWithin(p, a, verb, t)' = SoloWithin(p, a, verb, t)
  BY DEF Keeps, SoloWithin, Within
<1>6. There(p, target, t)' = There(p, target, t)
  BY DEF Keeps, There
<1>7. \A r \in There(p, target, t) : req'[r] = req[r]
  BY DEF Keeps, There
<1>8. Present(p, target, t)' = {req'[r].ask.account : r \in There(p, target, t)'}
  BY DEF Present
<1>9. Present(p, target, t)' = Present(p, target, t)
  BY <1>6, <1>7, <1>8 DEF Present
<1> QED
  BY <1>1, <1>2, <1>3, <1>4, <1>5, <1>6, <1>9

\* A window that ends later holds, of what is done, nothing that was not in
\* the window that ends now.
LEMMA LaterWindow ==
  ASSUME TypeOK, Ordered, NEW t \in Nat, t >= now, NEW p \in Processes, NEW a, NEW verb, NEW target
  PROVE  /\ SoloWithin(p, a, verb, t) \subseteq SoloWithin(p, a, verb, now)
         /\ There(p, target, t) \subseteq There(p, target, now)
         /\ Present(p, target, t) \subseteq Present(p, target, now)
<1>1. RateWindow \in Nat /\ TargetWindow \in Nat /\ now \in Nat
  BY LimitsAssumption DEF TypeOK
<1>2. \A r \in Requests : req[r].at \in Nat /\ req[r].at <= now
  BY DEF TypeOK, ReqSet, Ordered
<1>3. ASSUME NEW at \in Nat, at <= now
      PROVE  /\ at \in (t - RateWindow)..t => at \in (now - RateWindow)..now
             /\ at \in (t - TargetWindow)..t => at \in (now - TargetWindow)..now
  BY <1>1, <1>3
<1>4. SoloWithin(p, a, verb, t) \subseteq SoloWithin(p, a, verb, now)
  BY <1>2, <1>3 DEF SoloWithin, Within, Done
<1>5. There(p, target, t) \subseteq There(p, target, now)
  BY <1>2, <1>3 DEF There, Done
<1> QED
  BY <1>4, <1>5 DEF Present

\* The window that ends now is what the list has from its cutoff on.
LEMMA WindowSince ==
  ASSUME TypeOK, Ordered, NEW p, NEW a, NEW verb
  PROVE  Within(p, a, verb, now) = Since(p, a, verb, now - RateWindow)
<1>1. now \in Nat /\ RateWindow \in Nat
  BY LimitsAssumption DEF TypeOK
<1>2. \A r \in Requests : req[r].at \in Nat /\ req[r].at <= now
  BY DEF TypeOK, ReqSet, Ordered
<1>3. \A at \in Nat : at <= now => (at \in (now - RateWindow)..now <=> at >= now - RateWindow)
  BY <1>1
<1> QED
  BY <1>2, <1>3 DEF Within, Since, Acts, Done

\* The limiter's entries are the acts of the window.
LEMMA LimiterCounts ==
  ASSUME TypeOK, Ordered, NEW p \in Processes, Tracked(p), NEW a \in Accounts, NEW verb \in Verbs
  PROVE  Len(Live(events[p][<<a, verb>>])) = Cardinality(Within(p, a, verb, now))
<1> DEFINE times == events[p][<<a, verb>>]
           c == now - RateWindow
<1>1. /\ times \in Seq(Nat) /\ OrderedTimes(times) /\ now \in Nat
      /\ c \in Int /\ c >= now - RateWindow
  BY LimitsAssumption DEF TypeOK, Ordered
<1>2. Len(Live(times)) = Cardinality(Entries(times, c))
  BY <1>1, LiveEntries
<1>3. Cardinality(Entries(times, c)) = Cardinality(Since(p, a, verb, c))
  BY <1>1 DEF Tracked, Counted, CountedFrom
<1> QED
  BY <1>2, <1>3, WindowSince

-----------------------------------------------------------------------------
(* Steps that carry out nothing.                                           *)

\* The trackers of a process agree with what it carried out if neither changes.
LEMMA KeptTrackers ==
  ASSUME TypeOK, NEW p \in Processes, Tracked(p), Keeps(p), now' \in Nat, now' >= now,
         events'[p] = events[p], promo'[p] = promo[p], nonPromo'[p] = nonPromo[p],
         hits'[p] = hits[p]
  PROVE  Tracked(p)'
<1> USE DEF Tracked
<1>1. IsFiniteSet(Done(p)')
  BY DEF Keeps
<1>2. Counted(p)'
  <2> SUFFICES ASSUME NEW a \in Accounts, NEW verb \in Verbs, NEW c \in Int,
                      c >= now' - RateWindow
               PROVE  CountedFrom(p, a, verb, c)'
    BY DEF Counted
  <2>1. c >= now - RateWindow
    <3>1. now \in Nat /\ RateWindow \in Nat
      BY LimitsAssumption DEF TypeOK
    <3>2. ASSUME NEW later \in Nat, later >= now, c >= later - RateWindow
          PROVE  c >= now - RateWindow
      BY <3>1, <3>2
    <3> QED
      BY <3>2
  <2>2. CountedFrom(p, a, verb, c)
    BY <2>1 DEF Counted
  <2>3. Since(p, a, verb, c)' = Since(p, a, verb, c)
    BY KeptSets
  <2> QED
    BY <2>2, <2>3 DEF CountedFrom
<1>3. Recorded(p)'
  <2> SUFFICES ASSUME NEW a \in Accounts
               PROVE  (/\ promo[p][a] = Cardinality(Promos(p, a))
                       /\ nonPromo[p][a] = Cardinality(Texts(p, a) \ Promos(p, a)))'
    BY DEF Recorded
  <2>1. Promos(p, a)' = Promos(p, a) /\ Texts(p, a)' = Texts(p, a)
    BY KeptSets
  <2> QED
    BY <2>1 DEF Recorded
<1>4. Met(p)'
  <2> SUFFICES ASSUME NEW target \in Targets
               PROVE  ToSet(hits'[p][target]) = {Hit(r)' : r \in ActsOn(p, target)'}
    BY DEF Met
  <2>1. ActsOn(p, target)' = ActsOn(p, target)
    BY DEF ActsOn, Keeps, OnTarget
  <2>2. \A r \in ActsOn(p, target) : Hit(r)' = Hit(r)
    BY DEF ActsOn, Hit, Keeps
  <2> QED
    BY <2>1, <2>2 DEF Met
<1> QED
  BY <1>1, <1>2, <1>3, <1>4

\* A process that carries out nothing stays within its limits, also a tick later.
LEMMA KeptLimits ==
  ASSUME TypeOK, Ordered, NEW p \in Processes, IsFiniteSet(Done(p)), Limited(p), Keeps(p),
         now' \in {now, now + 1}
  PROVE  Limited(p)'
<1> USE DEF Limited
<1>1. now \in Nat /\ now' \in Nat
  BY DEF TypeOK
<1>2. RateLimited(p)'
  <2> SUFFICES ASSUME NEW a \in Accounts, NEW verb \in Verbs, NEW t \in 0..now',
                      Limit(a, verb) > 0
               PROVE  Cardinality(SoloWithin(p, a, verb, t)') <= Limit(a, verb)
    BY DEF RateLimited, Limit
  <2>1. SoloWithin(p, a, verb, t)' = SoloWithin(p, a, verb, t)
    BY KeptSets
  <2>2. \A u \in 0..now : Cardinality(SoloWithin(p, a, verb, u)) <= Limit(a, verb)
    BY DEF RateLimited
  <2>3. CASE t \in 0..now
    BY <2>1, <2>2, <2>3
  <2>4. CASE t \notin 0..now
    <3>1. t \in Nat /\ t >= now /\ now \in 0..now
      BY <1>1, <2>4
    <3>2. SoloWithin(p, a, verb, t) \subseteq SoloWithin(p, a, verb, now)
      BY <3>1, LaterWindow
    <3>3. /\ IsFiniteSet(SoloWithin(p, a, verb, now)) /\ IsFiniteSet(SoloWithin(p, a, verb, t))
      BY FiniteSets
    <3>4. /\ Cardinality(SoloWithin(p, a, verb, t)) <= Cardinality(SoloWithin(p, a, verb, now))
          /\ Cardinality(SoloWithin(p, a, verb, t)) \in Nat
          /\ Cardinality(SoloWithin(p, a, verb, now)) \in Nat
      BY <3>2, <3>3, FS_Subset, FS_CardinalityType
    <3>5. Limit(a, verb) \in Int /\ Cardinality(SoloWithin(p, a, verb, now)) <= Limit(a, verb)
      BY <2>2, <3>1, LimitType
    <3> QED
      BY <2>1, <3>4, <3>5
  <2> QED
    BY <2>3, <2>4
<1>3. RatioLimited(p)'
  <2> SUFFICES ASSUME NEW a \in Accounts, Ratio > 0
               PROVE  Cardinality(SoloPromos(p, a)')
                        <= Cardinality(Texts(p, a)' \ Promos(p, a)') \div Ratio
    BY DEF RatioLimited
  <2>1. /\ SoloPromos(p, a)' = SoloPromos(p, a) /\ Texts(p, a)' = Texts(p, a)
        /\ Promos(p, a)' = Promos(p, a)
    BY KeptSets
  <2> QED
    BY <2>1 DEF RatioLimited
<1>4. TargetLimited(p)'
  <2> SUFFICES ASSUME NEW target \in Targets, NEW t \in 0..now', There(p, target, t)' # {}
               PROVE  Cardinality(Present(p, target, t)') <= MaxDistinct
    BY DEF TargetLimited
  <2>1. There(p, target, t)' = There(p, target, t) /\ Present(p, target, t)' = Present(p, target, t)
    BY KeptSets
  <2>2. \A u \in 0..now :
          There(p, target, u) # {} => Cardinality(Present(p, target, u)) <= MaxDistinct
    BY DEF TargetLimited
  <2>3. CASE t \in 0..now
    BY <2>1, <2>2, <2>3
  <2>4. CASE t \notin 0..now
    <3>1. t \in Nat /\ t >= now /\ now \in 0..now
      BY <1>1, <2>4
    <3>2. /\ Present(p, target, t) \subseteq Present(p, target, now)
          /\ There(p, target, t) \subseteq There(p, target, now)
      BY <3>1, LaterWindow
    <3>3. Cardinality(Present(p, target, now)) <= MaxDistinct
      BY <2>1, <2>2, <3>1, <3>2
    <3>4. IsFiniteSet(Present(p, target, now)) /\ IsFiniteSet(Present(p, target, t))
      BY FiniteSets
    <3>5. /\ Cardinality(Present(p, target, t)) <= Cardinality(Present(p, target, now))
          /\ Cardinality(Present(p, target, t)) \in Nat
          /\ Cardinality(Present(p, target, now)) \in Nat
      BY <3>2, <3>4, FS_Subset, FS_CardinalityType
    <3> QED
      BY <2>1, <3>3, <3>5, LimitsAssumption
  <2> QED
    BY <2>3, <2>4
<1> QED
  BY <1>2, <1>3, <1>4

\* Where nothing is carried out there is as much room as there was.
LEMMA KeptRoom ==
  ASSUME TypeOK, Ordered, NEW p \in Processes, IsFiniteSet(Done(p)), Keeps(p),
         now' \in {now, now + 1}, NEW ask \in Asks
  PROVE  /\ RateRoom(p, ask) => RateRoom(p, ask)'
         /\ RatioRoom(p, ask) => RatioRoom(p, ask)'
         /\ TargetRoom(p, ask) => TargetRoom(p, ask)'
<1> DEFINE a == ask.account
           verb == ask.verb
           target == ask.target
<1>1. PICK t \in {now, now + 1} : t = now'
  OBVIOUS
<1>2. now \in Nat /\ t \in Nat /\ t >= now
  BY DEF TypeOK
<1>3. a \in Accounts /\ verb \in Verbs /\ Limit(a, verb) \in Int
  BY AskFields, LimitType
<1>4. ASSUME RateRoom(p, ask)  PROVE RateRoom(p, ask)'
  <2>1. SoloWithin(p, a, verb, now)' = SoloWithin(p, a, verb, t)'
    BY <1>1 DEF SoloWithin, Within
  <2>2. SoloWithin(p, a, verb, t)' = SoloWithin(p, a, verb, t)
    BY KeptSets
  <2>3. SoloWithin(p, a, verb, t) \subseteq SoloWithin(p, a, verb, now)
    BY <1>2, LaterWindow
  <2>4. IsFiniteSet(SoloWithin(p, a, verb, now)) /\ IsFiniteSet(SoloWithin(p, a, verb, t))
    BY FiniteSets
  <2>5. /\ Cardinality(SoloWithin(p, a, verb, t)) <= Cardinality(SoloWithin(p, a, verb, now))
        /\ Cardinality(SoloWithin(p, a, verb, t)) \in Nat
        /\ Cardinality(SoloWithin(p, a, verb, now)) \in Nat
    BY <2>3, <2>4, FS_Subset, FS_CardinalityType
  <2>6. Limit(a, verb) > 0 => Cardinality(SoloWithin(p, a, verb, t)) < Limit(a, verb)
    BY <1>3, <1>4, <2>5 DEF RateRoom
  <2>7. RateRoom(p, ask)'
          <=> (Limit(a, verb) > 0 => Cardinality(SoloWithin(p, a, verb, now)') < Limit(a, verb))
    BY DEF RateRoom, Limit
  <2> QED
    BY <2>1, <2>2, <2>6, <2>7
<1>5. ASSUME RatioRoom(p, ask)  PROVE RatioRoom(p, ask)'
  <2>1. /\ SoloPromos(p, a)' = SoloPromos(p, a) /\ Texts(p, a)' = Texts(p, a)
        /\ Promos(p, a)' = Promos(p, a)
    BY KeptSets
  <2> QED
    BY <1>5, <2>1 DEF RatioRoom
<1>6. ASSUME TargetRoom(p, ask)  PROVE TargetRoom(p, ask)'
  <2>1. Present(p, target, now)' = Present(p, target, t)'
    BY <1>1 DEF Present, There
  <2>2. Present(p, target, t)' = Present(p, target, t)
    BY KeptSets
  <2>3. Present(p, target, t) \subseteq Present(p, target, now)
    BY <1>2, LaterWindow
  <2>4. IsFiniteSet(Present(p, target, now)) /\ IsFiniteSet(Present(p, target, t))
    BY FiniteSets
  <2>5. IsFiniteSet(Present(p, target, now) \cup {a}) /\ IsFiniteSet(Present(p, target, t) \cup {a})
    BY <2>4, FS_AddElement
  <2>6. Present(p, target, t) \cup {a} \subseteq Present(p, target, now) \cup {a}
    BY <2>3
  <2>7. /\ Cardinality(Present(p, target, t) \cup {a})
             <= Cardinality(Present(p, target, now) \cup {a})
        /\ Cardinality(Present(p, target, t) \cup {a}) \in Nat
        /\ Cardinality(Present(p, target, now) \cup {a}) \in Nat
    BY <2>5, <2>6, FS_Subset, FS_CardinalityType
  <2>8. OnTarget(ask) /\ ~IsOwned(ask)
          => Cardinality(Present(p, target, t) \cup {a}) <= MaxDistinct
    BY <1>6, <2>7, LimitsAssumption DEF TargetRoom
  <2>9. TargetRoom(p, ask)'
          <=> (OnTarget(ask) /\ ~IsOwned(ask)
                 => Cardinality(Present(p, target, now)' \cup {a}) <= MaxDistinct)
    BY DEF TargetRoom
  <2> QED
    BY <2>1, <2>2, <2>8, <2>9
<1> QED
  BY <1>4, <1>5, <1>6

\* The engine judges by the trackers: what it lets pass has room, also among
\* the acts that were judged alone.
LEMMA JudgedRoom ==
  ASSUME TypeOK, Ordered, NEW p \in Processes, Tracked(p), NEW ask \in Asks,
         Verdict(p, ask) # "deny"
  PROVE  RateRoom(p, ask) /\ RatioRoom(p, ask) /\ TargetRoom(p, ask)
<1> USE DEF Tracked
<1> DEFINE a == ask.account
           verb == ask.verb
           target == ask.target
<1>1. /\ a \in Accounts /\ verb \in Verbs /\ Limit(a, verb) \in Int
      /\ OnTarget(ask) => target \in Targets
  BY AskFields, LimitType
<1>2. /\ RateAllows(p, a, verb)
      /\ ~(HasDraft(ask) /\ ask.promotional /\ WouldExceed(p, a))
      /\ ~(OnTarget(ask) /\ ~IsOwned(ask) /\ WouldCoordinate(p, target, a))
  BY DEF Verdict
<1>3. RateRoom(p, ask)
  <2> SUFFICES ASSUME Limit(a, verb) > 0
               PROVE  Cardinality(SoloWithin(p, a, verb, now)) < Limit(a, verb)
    BY DEF RateRoom
  <2>1. Len(Live(events[p][<<a, verb>>])) < Limit(a, verb)
    BY <1>1, <1>2 DEF RateAllows
  <2>2. Len(Live(events[p][<<a, verb>>])) = Cardinality(Within(p, a, verb, now))
    BY <1>1, LimiterCounts
  <2>3. SoloWithin(p, a, verb, now) \subseteq Within(p, a, verb, now)
    BY DEF SoloWithin
  <2>4. IsFiniteSet(Within(p, a, verb, now)) /\ IsFiniteSet(SoloWithin(p, a, verb, now))
    BY FiniteSets
  <2>5. /\ Cardinality(SoloWithin(p, a, verb, now)) <= Cardinality(Within(p, a, verb, now))
        /\ Cardinality(SoloWithin(p, a, verb, now)) \in Nat
        /\ Cardinality(Within(p, a, verb, now)) \in Nat
    BY <2>3, <2>4, FS_Subset, FS_CardinalityType
  <2> QED
    BY <1>1, <2>1, <2>2, <2>5
<1>4. RatioRoom(p, ask)
  <2> SUFFICES ASSUME HasDraft(ask), ask.promotional, Ratio > 0
               PROVE  Cardinality(SoloPromos(p, a))
                        < Cardinality(Texts(p, a) \ Promos(p, a)) \div Ratio
    BY DEF RatioRoom
  <2>1. ~(promo[p][a] >= nonPromo[p][a] \div Ratio)
    BY <1>2 DEF WouldExceed
  <2>2. /\ promo[p][a] = Cardinality(Promos(p, a))
        /\ nonPromo[p][a] = Cardinality(Texts(p, a) \ Promos(p, a))
    BY <1>1 DEF Recorded
  <2>3. SoloPromos(p, a) \subseteq Promos(p, a)
    BY DEF SoloPromos
  <2>4. /\ IsFiniteSet(Promos(p, a)) /\ IsFiniteSet(SoloPromos(p, a))
        /\ IsFiniteSet(Texts(p, a) \ Promos(p, a))
    BY FiniteSets
  <2>5. /\ Cardinality(SoloPromos(p, a)) <= Cardinality(Promos(p, a))
        /\ Cardinality(SoloPromos(p, a)) \in Nat /\ Cardinality(Promos(p, a)) \in Nat
        /\ Cardinality(Texts(p, a) \ Promos(p, a)) \in Nat
    BY <2>3, <2>4, FS_Subset, FS_CardinalityType
  <2>6. Cardinality(Texts(p, a) \ Promos(p, a)) \div Ratio \in Int
    BY <2>5, LimitsAssumption
  <2> QED
    BY <2>1, <2>2, <2>5, <2>6
<1>5. TargetRoom(p, ask)
  <2> SUFFICES ASSUME OnTarget(ask), ~IsOwned(ask)
               PROVE  Cardinality(Present(p, target, now) \cup {a}) <= MaxDistinct
    BY DEF TargetRoom
  <2> DEFINE listed == hits[p][target]
             seen == {h.account : h \in LiveHits(p, target)}
             Hits == [account : Accounts, time : Nat]
  <2>1. ~(Cardinality(seen \cup {a}) > MaxDistinct)
    BY <1>2 DEF WouldCoordinate
  <2>2. DOMAIN listed = 1..Len(listed) /\ Len(listed) \in Nat
    <3>1. listed \in Seq(Hits)
      BY <1>1 DEF TypeOK
    <3> HIDE DEF listed, Hits
    <3> QED
      BY <3>1
  <2>3. Present(p, target, now) \subseteq seen
    <3> SUFFICES ASSUME NEW r \in There(p, target, now)  PROVE req[r].ask.account \in seen
      BY DEF Present
    <3>1. /\ r \in Done(p) /\ OnTarget(req[r].ask) /\ req[r].ask.target = target
          /\ req[r].at \in (now - TargetWindow)..now
      BY DEF There
    <3> DEFINE h == [account |-> req[r].ask.account, time |-> req[r].at]
    <3>2. h \in ToSet(hits[p][target])
      BY <1>1, <3>1 DEF Met, ActsOn, Hit
    <3>3. h.time >= now - TargetWindow /\ h.account = req[r].ask.account
      BY <3>1
    <3> QED
      BY <3>2, <3>3 DEF LiveHits
  <2>4. IsFiniteSet(seen)
    <3> DEFINE f == [i \in DOMAIN listed |-> listed[i].account]
    <3>1. IsFiniteSet(DOMAIN listed)
      <4> DEFINE n == Len(listed)
      <4>1. n \in Int /\ 1 \in Int /\ DOMAIN listed = 1..n
        BY <2>2
      <4> HIDE DEF n
      <4>2. IsFiniteSet(1..n)
        BY <4>1, FS_Interval
      <4> QED
        BY <4>1, <4>2
    <3>2. IsFiniteSet({f[i] : i \in DOMAIN listed})
      BY <3>1, FiniteImage
    <3>3. seen \subseteq {f[i] : i \in DOMAIN listed}
      BY DEF LiveHits, ToSet
    <3> QED
      BY <3>2, <3>3, FS_Subset
  <2> HIDE DEF seen
  <2>5. IsFiniteSet(seen \cup {a}) /\ IsFiniteSet(Present(p, target, now) \cup {a})
    BY <2>4, FiniteSets, FS_AddElement
  <2>6. Present(p, target, now) \cup {a} \subseteq seen \cup {a}
    BY <2>3
  <2>7. /\ Cardinality(Present(p, target, now) \cup {a}) <= Cardinality(seen \cup {a})
        /\ Cardinality(Present(p, target, now) \cup {a}) \in Nat
        /\ Cardinality(seen \cup {a}) \in Nat
    BY <2>5, <2>6, FS_Subset, FS_CardinalityType
  <2> QED
    BY <2>1, <2>7, LimitsAssumption
<1> QED
  BY <1>3, <1>4, <1>5

\* Types and order, where the trackers stay as they are.
LEMMA KeptOrder ==
  ASSUME TypeOK, Ordered, UNCHANGED trackers, now' \in {now, now + 1},
         req' \in [Requests -> ReqSet], \A r \in Requests : req'[r].at = req[r].at
  PROVE  TypeOK' /\ Ordered'
<1>1. now \in Nat /\ now' \in Nat /\ now <= now'
  BY DEF TypeOK
<1>2. TypeOK'
  BY <1>1 DEF TypeOK, trackers
<1>3. ASSUME NEW x \in Nat, x <= now  PROVE x <= now'
  <2>1. CASE now' = now
    BY <1>3, <2>1
  <2>2. CASE now' = now + 1
    BY <1>1, <1>3, <2>2
  <2> QED
    BY <2>1, <2>2
<1>4. \A r \in Requests : req'[r].at <= now'
  BY <1>3 DEF TypeOK, ReqSet, Ordered
<1>5. ASSUME NEW p \in Processes, NEW k \in Accounts \X Verbs
      PROVE  OrderedTimes(events[p][k])'
  <2>1. events[p][k] \in Seq(Nat) /\ OrderedTimes(events[p][k]) /\ events' = events
    BY DEF TypeOK, Ordered, trackers
  <2>2. \A i \in DOMAIN events[p][k] : events[p][k][i] \in Nat
    BY <2>1
  <2> QED
    BY <1>3, <2>1, <2>2 DEF OrderedTimes
<1> QED
  BY <1>2, <1>4, <1>5 DEF Ordered

\* The memory of a request as it is under way; what Roomy says of it.
UnderWay(r, p, ask) ==
  req[r].pc = "dispatch" /\ req[r].solo /\ req[r].process = p /\ req[r].ask = ask
Room(p, ask) == RateRoom(p, ask) /\ RatioRoom(p, ask) /\ TargetRoom(p, ask)

\* Everything but Roomy is kept where nothing is carried out.
LEMMA QuietStep ==
  ASSUME Inv, UNCHANGED trackers, now' \in {now, now + 1}, req' \in [Requests -> ReqSet],
         \A r \in Requests : req'[r].at = req[r].at, \A p \in Processes : Keeps(p)
  PROVE  /\ TypeOK' /\ Ordered'
         /\ \A p \in Processes : Tracked(p)' /\ Limited(p)'
         /\ \A p \in Processes, ask \in Asks : Room(p, ask) => Room(p, ask)'
<1> USE DEF Inv
<1>1. TypeOK' /\ Ordered'
  BY KeptOrder
<1>2. now' \in Nat /\ now' >= now
  BY DEF TypeOK
<1>3. ASSUME NEW p \in Processes
      PROVE  Tracked(p)' /\ Limited(p)' /\ \A ask \in Asks : Room(p, ask) => Room(p, ask)'
  <2>1. TypeOK /\ Ordered /\ Tracked(p) /\ Limited(p) /\ Keeps(p) /\ IsFiniteSet(Done(p))
    BY DEF Tracked
  <2>2. Tracked(p)'
    BY <1>2, <2>1, KeptTrackers DEF trackers
  <2>3. Limited(p)'
    BY <2>1, KeptLimits
  <2>4. \A ask \in Asks : Room(p, ask) => Room(p, ask)'
    BY <2>1, KeptRoom DEF Room
  <2> QED
    BY <2>2, <2>3, <2>4
<1> QED
  BY <1>1, <1>3

\* Roomy, request by request.
LEMMA RoomyAs ==
  Roomy <=> \A r \in Requests, p \in Processes, ask \in Asks :
              UnderWay(r, p, ask) => Sole(r) /\ Room(p, ask)
BY DEF Roomy, UnderWay, Room

\* An act is judged.
LEMMA JudgeInv == ASSUME Inv, NEW r \in Requests, Judge(r)  PROVE Inv'
<1> USE DEF Inv
<1>1. /\ req' \in [Requests -> ReqSet] /\ req[r].pc = "new"
      /\ \A q \in Requests \ {r} : req'[q] = req[q]
      /\ req'[r].process = req[r].process /\ req'[r].at = req[r].at
      /\ req'[r].pc \in {"ended", "review", "dispatch"}
      /\ req'[r].solo = ~Dispatching(req[r].process)
      /\ req'[r].pc = "dispatch" => Verdict(req[r].process, req'[r].ask) # "deny"
      /\ UNCHANGED <<trackers, now>>
  BY JudgeStep
<1>2. \A p \in Processes : Keeps(p)
  BY <1>1, KeepsAll
<1>3. /\ TypeOK' /\ Ordered' /\ \A p \in Processes : Tracked(p)' /\ Limited(p)'
      /\ \A p \in Processes, ask \in Asks : Room(p, ask) => Room(p, ask)'
  BY <1>1, <1>2, QuietStep
<1>4. ASSUME NEW q \in Requests, NEW p \in Processes, NEW ask \in Asks, UnderWay(q, p, ask)'
      PROVE  Sole(q)' /\ Room(p, ask)'
  <2>1. CASE q = r
    <3>1. /\ req'[r].pc = "dispatch" /\ req'[r].solo /\ req[r].process = p /\ req'[r].ask = ask
      BY <1>1, <1>4, <2>1 DEF UnderWay
    <3>2. ~Dispatching(p) /\ Verdict(p, ask) # "deny"
      BY <1>1, <3>1
    <3>3. Room(p, ask)
      BY <3>2, JudgedRoom DEF Room
    <3>4. Sole(q)'
      BY <1>1, <2>1, <3>1, <3>2 DEF Sole, Dispatching
    <3> QED
      BY <1>3, <3>3, <3>4
  <2>2. CASE q # r
    <3>1. UnderWay(q, p, ask)
      BY <1>1, <1>4, <2>2 DEF UnderWay
    <3>2. Sole(q) /\ Room(p, ask)
      BY <3>1, RoomyAs
    <3>3. Dispatching(p)
      BY <3>1 DEF Dispatching, UnderWay
    <3>4. Sole(q)'
      BY <1>1, <2>2, <3>1, <3>2, <3>3 DEF Sole, UnderWay
    <3> QED
      BY <1>3, <3>2, <3>4
  <2> QED
    BY <2>1, <2>2
<1>5. Roomy'
  BY <1>4 DEF Roomy, UnderWay, Room
<1> QED
  BY <1>3, <1>5

\* A review is decided, or an act fails.
LEMMA OtherInv ==
  ASSUME Inv, NEW r \in Requests, Fail(r) \/ \E p \in Processes : Decide(r, p)
  PROVE  Inv'
<1> USE DEF Inv
<1>1. /\ req' \in [Requests -> ReqSet] /\ req[r].pc \in {"review", "dispatch"}
      /\ \A q \in Requests \ {r} : req'[q] = req[q]
      /\ req'[r].at = req[r].at /\ req'[r].pc \in {"ended", "dispatch"}
      /\ req'[r].pc = "dispatch" => ~req'[r].solo
      /\ UNCHANGED <<trackers, now>>
  BY OtherStep
<1>2. \A p \in Processes : Keeps(p)
  BY <1>1, KeepsAll
<1>3. /\ TypeOK' /\ Ordered' /\ \A p \in Processes : Tracked(p)' /\ Limited(p)'
      /\ \A p \in Processes, ask \in Asks : Room(p, ask) => Room(p, ask)'
  BY <1>1, <1>2, QuietStep
<1>4. ASSUME NEW q \in Requests, NEW p \in Processes, NEW ask \in Asks, UnderWay(q, p, ask)'
      PROVE  Sole(q)' /\ Room(p, ask)'
  <2>1. q # r
    BY <1>1, <1>4 DEF UnderWay
  <2>2. UnderWay(q, p, ask)
    BY <1>1, <1>4, <2>1 DEF UnderWay
  <2>3. Sole(q) /\ Room(p, ask)
    BY <2>2, RoomyAs
  <2>4. Sole(q)'
    BY <1>1, <2>1, <2>2, <2>3 DEF Sole, UnderWay
  <2> QED
    BY <1>3, <2>3, <2>4
<1>5. Roomy'
  BY <1>4 DEF Roomy, UnderWay, Room
<1> QED
  BY <1>3, <1>5

\* Time passes, or nothing happens.
LEMMA TickInv == ASSUME Inv, Tick \/ UNCHANGED vars  PROVE Inv'
<1> USE DEF Inv
<1>1. UNCHANGED trackers /\ req' = req /\ now' \in {now, now + 1}
  BY DEF Tick, vars, trackers
<1>2. \A p \in Processes : Keeps(p)
  BY <1>1 DEF Keeps, Done
<1>3. req' \in [Requests -> ReqSet] /\ \A r \in Requests : req'[r].at = req[r].at
  BY <1>1 DEF TypeOK
<1>4. /\ TypeOK' /\ Ordered' /\ \A p \in Processes : Tracked(p)' /\ Limited(p)'
      /\ \A p \in Processes, ask \in Asks : Room(p, ask) => Room(p, ask)'
  BY <1>1, <1>2, <1>3, QuietStep
<1>5. ASSUME NEW q \in Requests, NEW p \in Processes, NEW ask \in Asks, UnderWay(q, p, ask)'
      PROVE  Sole(q)' /\ Room(p, ask)'
  <2>1. UnderWay(q, p, ask)
    BY <1>1, <1>5 DEF UnderWay
  <2>2. Sole(q) /\ Room(p, ask)
    BY <2>1, RoomyAs
  <2>3. Sole(q)'
    BY <1>1, <2>2 DEF Sole
  <2> QED
    BY <1>4, <2>2, <2>3
<1>6. Roomy'
  BY <1>5 DEF Roomy, UnderWay, Room
<1> QED
  BY <1>4, <1>6

-----------------------------------------------------------------------------
(* A process starts from nothing.                                          *)

\* A process that has carried out nothing, with trackers that hold nothing.
LEMMA EmptyTrackers ==
  ASSUME NEW p \in Processes, Done(p) = {},
         events[p] = [k \in Accounts \X Verbs |-> << >>],
         promo[p] = [a \in Accounts |-> 0], nonPromo[p] = [a \in Accounts |-> 0],
         hits[p] = [t \in Targets |-> << >>]
  PROVE  Tracked(p) /\ Limited(p)
<1>1. /\ \A a, verb, c : Since(p, a, verb, c) = {}
      /\ \A a : Texts(p, a) = {} /\ Promos(p, a) = {} /\ SoloPromos(p, a) = {}
      /\ \A a, verb, t : SoloWithin(p, a, verb, t) = {}
      /\ \A target, t : There(p, target, t) = {}
  BY DEF Since, Acts, Texts, Promos, SoloPromos, SoloWithin, Within, There
<1>2. IsFiniteSet({}) /\ Cardinality({}) = 0
  BY FS_EmptySet
<1>3. Counted(p)
  <2> SUFFICES ASSUME NEW a \in Accounts, NEW verb \in Verbs, NEW c \in Int
               PROVE  CountedFrom(p, a, verb, c)
    BY DEF Counted
  <2>1. Entries(events[p][<<a, verb>>], c) = {}
    BY DEF Entries
  <2> QED
    BY <1>1, <2>1 DEF CountedFrom
<1>4. Recorded(p)
  BY <1>1, <1>2 DEF Recorded
<1>5. Met(p)
  <2>1. \A target \in Targets : ToSet(hits[p][target]) = {} /\ ActsOn(p, target) = {}
    BY DEF ToSet, ActsOn
  <2> QED
    BY <2>1 DEF Met
<1>6. RateLimited(p)
  <2> SUFFICES ASSUME NEW a \in Accounts, NEW verb \in Verbs, NEW t \in 0..now, Limit(a, verb) > 0
               PROVE  Cardinality(SoloWithin(p, a, verb, t)) <= Limit(a, verb)
    BY DEF RateLimited
  <2>1. Cardinality(SoloWithin(p, a, verb, t)) = 0
    BY <1>1, <1>2
  <2> QED
    BY <2>1, LimitType
<1>7. RatioLimited(p)
  <2> SUFFICES ASSUME NEW a \in Accounts, Ratio > 0
               PROVE  Cardinality(SoloPromos(p, a))
                        <= Cardinality(Texts(p, a) \ Promos(p, a)) \div Ratio
    BY DEF RatioLimited
  <2>1. Cardinality(SoloPromos(p, a)) = 0 /\ Cardinality(Texts(p, a) \ Promos(p, a)) = 0
    BY <1>1, <1>2
  <2>2. 0 <= 0 \div Ratio
    BY LimitsAssumption
  <2> QED
    BY <2>1, <2>2
<1>8. TargetLimited(p)
  BY <1>1 DEF TargetLimited
<1> QED
  BY <1>2, <1>3, <1>4, <1>5, <1>6, <1>7, <1>8 DEF Tracked, Limited

\* Nothing has been carried out, and nothing is under way.
LEMMA InvInit == Init => Inv
<1> SUFFICES ASSUME Init  PROVE Inv
  OBVIOUS
<1>1. NoAsk \in Asks
  BY LimitsAssumption DEF NoAsk
<1>2. /\ req \in [Requests -> ReqSet]
      /\ \A r \in Requests : req[r].pc = "new" /\ req[r].at = 0
  <2>1. ASSUME NEW r \in Requests  PROVE req[r] \in ReqSet /\ req[r].pc = "new" /\ req[r].at = 0
    <3>1. req[r] \in [pc : {"new"}, ask : {NoAsk}, process : Processes,
                      solo : {FALSE}, at : {0}, kept : {FALSE}]
      BY DEF Init
    <3>2. ASSUME NEW ask \in Asks,
                 NEW k \in [pc : {"new"}, ask : {ask}, process : Processes,
                           solo : {FALSE}, at : {0}, kept : {FALSE}]
          PROVE  k \in ReqSet /\ k.pc = "new" /\ k.at = 0
      <4>1. /\ k.pc = "new" /\ k.ask = ask /\ k.process \in Processes /\ k.solo = FALSE
            /\ k.at = 0 /\ k.kept = FALSE
        OBVIOUS
      <4>2. k = [pc |-> k.pc, ask |-> k.ask, process |-> k.process, solo |-> k.solo,
                 at |-> k.at, kept |-> k.kept]
        OBVIOUS
      <4>3. k = [pc |-> "new", ask |-> ask, process |-> k.process, solo |-> FALSE,
                 at |-> 0, kept |-> FALSE]
        BY <4>1, <4>2
      <4>4. ASSUME NEW p \in Processes
            PROVE  [pc |-> "new", ask |-> ask, process |-> p, solo |-> FALSE,
                    at |-> 0, kept |-> FALSE] \in ReqSet
        BY DEF ReqSet
      <4> QED
        BY <4>1, <4>3, <4>4
    <3> QED
      BY <1>1, <3>1, <3>2
  <2> QED
    BY <2>1 DEF Init
<1>3. TypeOK
  <2>1. [k \in Accounts \X Verbs |-> << >>] \in [Accounts \X Verbs -> Seq(Nat)]
    OBVIOUS
  <2>2. [t \in Targets |-> << >>] \in [Targets -> Seq([account : Accounts, time : Nat])]
    OBVIOUS
  <2>3. events \in [Processes -> [Accounts \X Verbs -> Seq(Nat)]]
    BY <2>1 DEF Init
  <2>4. hits \in [Processes -> [Targets -> Seq([account : Accounts, time : Nat])]]
    BY <2>2 DEF Init
  <2> QED
    BY <1>2, <2>3, <2>4 DEF Init, TypeOK
<1>4. Ordered
  BY <1>2 DEF Init, Ordered, OrderedTimes
<1>5. \A p \in Processes : Tracked(p) /\ Limited(p)
  <2>1. \A p \in Processes : Done(p) = {}
    BY <1>2 DEF Done
  <2> QED
    BY <2>1, EmptyTrackers DEF Init
<1>6. Roomy
  BY <1>2 DEF Roomy
<1> QED
  BY <1>3, <1>4, <1>5, <1>6 DEF Inv

\* A process restarts.
LEMMA RestartInv == ASSUME Inv, NEW x \in Processes, Restart(x)  PROVE Inv'
<1> USE DEF Inv
<1>1. /\ req' \in [Requests -> ReqSet] /\ Done(x)' = {} /\ now' = now
      /\ \A q \in Requests : req[q].process # x => req'[q] = req[q]
      /\ \A q \in Requests : req[q].process = x =>
           /\ req'[q].process = x /\ req'[q].pc # "dispatch" /\ ~req'[q].kept
           /\ req'[q].at = req[q].at
      /\ \A q \in Processes \ {x} : Keeps(q)
  BY RestartStep
<1>2. /\ events' = [events EXCEPT ![x] = [k \in Accounts \X Verbs |-> <<>>]]
      /\ promo' = [promo EXCEPT ![x] = [a \in Accounts |-> 0]]
      /\ nonPromo' = [nonPromo EXCEPT ![x] = [a \in Accounts |-> 0]]
      /\ hits' = [hits EXCEPT ![x] = [t \in Targets |-> <<>>]]
  BY DEF Restart
<1>3. /\ events'[x] = [k \in Accounts \X Verbs |-> <<>>]
      /\ promo'[x] = [a \in Accounts |-> 0] /\ nonPromo'[x] = [a \in Accounts |-> 0]
      /\ hits'[x] = [t \in Targets |-> <<>>]
      /\ \A p \in Processes \ {x} : /\ events'[p] = events[p] /\ promo'[p] = promo[p]
                                    /\ nonPromo'[p] = nonPromo[p] /\ hits'[p] = hits[p]
  BY <1>2 DEF TypeOK
<1>4. TypeOK'
  <2>1. [k \in Accounts \X Verbs |-> << >>] \in [Accounts \X Verbs -> Seq(Nat)]
    OBVIOUS
  <2>2. [t \in Targets |-> << >>] \in [Targets -> Seq([account : Accounts, time : Nat])]
    OBVIOUS
  <2>3. events' \in [Processes -> [Accounts \X Verbs -> Seq(Nat)]]
    BY <1>2, <2>1 DEF TypeOK
  <2>4. hits' \in [Processes -> [Targets -> Seq([account : Accounts, time : Nat])]]
    BY <1>2, <2>2 DEF TypeOK
  <2> QED
    BY <1>1, <1>2, <2>3, <2>4 DEF TypeOK
<1>5. Ordered'
  <2>1. ASSUME NEW p \in Processes, NEW k \in Accounts \X Verbs  PROVE OrderedTimes(events[p][k])'
    <3>1. CASE p = x
      BY <1>3, <3>1 DEF OrderedTimes
    <3>2. CASE p # x
      BY <1>1, <1>3, <3>2 DEF Ordered, OrderedTimes
    <3> QED
      BY <3>1, <3>2
  <2>2. \A r \in Requests : req'[r].at = req[r].at
    BY <1>1
  <2> QED
    BY <1>1, <2>1, <2>2 DEF Ordered
<1>6. ASSUME NEW p \in Processes  PROVE Tracked(p)' /\ Limited(p)'
  <2>1. CASE p = x
    <3>1. (/\ Done(p) = {} /\ events[p] = [k \in Accounts \X Verbs |-> << >>]
           /\ promo[p] = [a \in Accounts |-> 0] /\ nonPromo[p] = [a \in Accounts |-> 0]
           /\ hits[p] = [t \in Targets |-> << >>])'
      BY <1>1, <1>3, <2>1
    <3> QED
      BY <3>1, EmptyTrackers, PTL
  <2>2. CASE p # x
    <3>1. TypeOK /\ Ordered /\ Tracked(p) /\ Limited(p) /\ Keeps(p) /\ IsFiniteSet(Done(p))
      BY <1>1, <2>2 DEF Tracked
    <3>2. now' \in Nat /\ now' >= now /\ now' \in {now, now + 1}
      BY <1>1 DEF TypeOK
    <3>3. Tracked(p)'
      BY <1>3, <2>2, <3>1, <3>2, KeptTrackers
    <3> QED
      BY <3>1, <3>2, <3>3, KeptLimits
  <2> QED
    BY <2>1, <2>2
<1>7. ASSUME NEW q \in Requests, NEW p \in Processes, NEW ask \in Asks, UnderWay(q, p, ask)'
      PROVE  Sole(q)' /\ Room(p, ask)'
  <2>1. p # x /\ req[q].process # x /\ req'[q] = req[q]
    BY <1>1, <1>7 DEF UnderWay
  <2>2. UnderWay(q, p, ask)
    BY <1>7, <2>1 DEF UnderWay
  <2>3. Sole(q) /\ Room(p, ask)
    BY <2>2, RoomyAs
  <2>4. Sole(q)'
    BY <1>1, <2>1, <2>3 DEF Sole
  <2>5. Keeps(p) /\ IsFiniteSet(Done(p)) /\ now' \in {now, now + 1}
    BY <1>1, <2>1 DEF Tracked
  <2> QED
    BY <2>3, <2>4, <2>5, KeptRoom DEF Room
<1>8. Roomy'
  BY <1>7 DEF Roomy, UnderWay, Room
<1> QED
  BY <1>4, <1>5, <1>6, <1>8

-----------------------------------------------------------------------------
(* An act is carried out.                                                  *)

\* Process p carries out act r besides what it has carried out.
Adds(p, r) ==
  /\ r \notin Done(p) /\ Done(p)' = Done(p) \cup {r}
  /\ \A q \in Done(p) : req'[q] = req[q]

\* Where an act is carried out: its process has it in addition, others do not.
LEMMA SucceedAdds ==
  ASSUME TypeOK, NEW r \in Requests, Succeed(r)
  PROVE  /\ req[r].process \in Processes /\ Adds(req[r].process, r)
         /\ \A q \in Processes \ {req[r].process} : Keeps(q)
<1>1. req[r] \in ReqSet
  BY DEF TypeOK
<1>2. /\ req[r].pc = "dispatch" /\ req'[r].pc = "done" /\ req'[r].kept
      /\ req'[r].process = req[r].process /\ \A q \in Requests \ {r} : req'[q] = req[q]
  BY SucceedStep
<1>3. req[r].process \in Processes
  BY <1>1, Fields
<1>4. Adds(req[r].process, r)
  BY <1>2 DEF Adds, Done
<1>5. \A q \in Processes \ {req[r].process} : Keeps(q)
  BY <1>2 DEF Keeps, Done
<1> QED
  BY <1>3, <1>4, <1>5

\* A set that an element joins, on a condition; its size.
Joined(S, T, r, joins) == T = IF joins THEN S \cup {r} ELSE S

LEMMA JoinedSize ==
  ASSUME NEW S, IsFiniteSet(S), NEW r, r \notin S, NEW T, NEW joins \in BOOLEAN,
         Joined(S, T, r, joins)
  PROVE  /\ Cardinality(S) \in Nat
         /\ joins => T = S \cup {r} /\ Cardinality(T) = Cardinality(S) + 1
         /\ ~joins => T = S
<1>1. Cardinality(S) \in Nat
  BY FS_CardinalityType
<1>2. CASE joins
  BY <1>1, <1>2, FS_AddElement DEF Joined
<1>3. CASE ~joins
  BY <1>1, <1>3 DEF Joined
<1> QED
  BY <1>2, <1>3

\* The sets of acts that the new one is in have it in addition.
LEMMA AddedSince ==
  ASSUME NEW p, NEW r, Adds(p, r), NEW a, NEW verb, NEW c,
         NEW ask, ask = req'[r].ask, NEW at, at = req'[r].at
  PROVE  Joined(Since(p, a, verb, c), Since(p, a, verb, c)', r,
                ask.account = a /\ ask.verb = verb /\ at >= c)
<1>1. Done(p)' = Done(p) \cup {r} /\ \A q \in Done(p) : req'[q] = req[q]
  BY DEF Adds
<1>2. Since(p, a, verb, c)' =
        {q \in Done(p)' : req'[q].ask.account = a /\ req'[q].ask.verb = verb /\ req'[q].at >= c}
  BY DEF Since, Acts
<1> QED
  BY <1>1, <1>2 DEF Since, Acts, Joined

LEMMA AddedTexts ==
  ASSUME NEW p, NEW r, Adds(p, r), NEW a,
         NEW ask, ask = req'[r].ask, NEW solo, solo = req'[r].solo
  PROVE  /\ Joined(Texts(p, a), Texts(p, a)', r, ask.account = a /\ HasDraft(ask))
         /\ Joined(Promos(p, a), Promos(p, a)', r,
                   ask.account = a /\ HasDraft(ask) /\ ask.promotional)
         /\ Joined(SoloPromos(p, a), SoloPromos(p, a)', r,
                   ask.account = a /\ HasDraft(ask) /\ ask.promotional /\ solo)
<1>1. Done(p)' = Done(p) \cup {r} /\ \A q \in Done(p) : req'[q] = req[q]
  BY DEF Adds
<1>2. Texts(p, a)' = {q \in Done(p)' : req'[q].ask.account = a /\ HasDraft(req'[q].ask)}
  BY DEF Texts, HasDraft
<1>3. Promos(p, a)' =
        {q \in Done(p)' : /\ req'[q].ask.account = a /\ HasDraft(req'[q].ask)
                          /\ req'[q].ask.promotional}
  BY <1>2 DEF Promos
<1>4. SoloPromos(p, a)' =
        {q \in Done(p)' : /\ req'[q].ask.account = a /\ HasDraft(req'[q].ask)
                          /\ req'[q].ask.promotional /\ req'[q].solo}
  BY <1>3 DEF SoloPromos
<1>5. Joined(Texts(p, a), Texts(p, a)', r, ask.account = a /\ HasDraft(ask))
  BY <1>1, <1>2 DEF Texts, Joined
<1>6. Joined(Promos(p, a), Promos(p, a)', r,
             ask.account = a /\ HasDraft(ask) /\ ask.promotional)
  BY <1>1, <1>3 DEF Promos, Texts, Joined
<1>7. Joined(SoloPromos(p, a), SoloPromos(p, a)', r,
             ask.account = a /\ HasDraft(ask) /\ ask.promotional /\ solo)
  BY <1>1, <1>4 DEF SoloPromos, Promos, Texts, Joined
<1> QED
  BY <1>5, <1>6, <1>7

LEMMA AddedWithin ==
  ASSUME NEW p, NEW r, Adds(p, r), NEW a, NEW verb, NEW t
  PROVE  Joined(SoloWithin(p, a, verb, t), SoloWithin(p, a, verb, t)', r,
                /\ req'[r].ask.account = a /\ req'[r].ask.verb = verb
                /\ req'[r].solo /\ req'[r].at \in (t - RateWindow)..t)
<1>1. Done(p)' = Done(p) \cup {r} /\ \A q \in Done(p) : req'[q] = req[q]
  BY DEF Adds
<1>2. SoloWithin(p, a, verb, t)' =
        {q \in Done(p)' : /\ req'[q].ask.account = a /\ req'[q].ask.verb = verb
                          /\ req'[q].at \in (t - RateWindow)..t /\ req'[q].solo}
  BY DEF SoloWithin, Within
<1> QED
  BY <1>1, <1>2 DEF SoloWithin, Within, Joined

LEMMA AddedThere ==
  ASSUME NEW p, NEW r, Adds(p, r), NEW target, NEW t,
         NEW ask, ask = req'[r].ask
  PROVE  Joined(There(p, target, t), There(p, target, t)', r,
                /\ OnTarget(ask) /\ ask.target = target /\ ~IsOwned(ask) /\ req'[r].solo
                /\ req'[r].at \in (t - TargetWindow)..t)
<1>1. Done(p)' = Done(p) \cup {r} /\ \A q \in Done(p) : req'[q] = req[q]
  BY DEF Adds
<1>2. There(p, target, t)' =
        {q \in Done(p)' : /\ OnTarget(req'[q].ask) /\ req'[q].ask.target = target
                          /\ ~IsOwned(req'[q].ask) /\ req'[q].solo
                          /\ req'[q].at \in (t - TargetWindow)..t}
  BY DEF There, OnTarget, IsOwned
<1> QED
  BY <1>1, <1>2 DEF There, Joined

\* The limiter's lists: one is pruned and longer by the act, the others stay.
LEMMA SucceedEvents ==
  ASSUME TypeOK, Ordered, NEW r \in Requests, Succeed(r),
         NEW p \in Processes, p = req[r].process, NEW ask \in Asks, ask = req[r].ask
  PROVE  LET k == <<ask.account, ask.verb>> IN
         /\ k \in Accounts \X Verbs /\ events'[p][k] = Append(Live(events[p][k]), now)
         /\ \A j \in Accounts \X Verbs : j # k => events'[p][j] = events[p][j]
         /\ \A q \in Processes \ {p} : events'[q] = events[q]
         /\ events' \in [Processes -> [Accounts \X Verbs -> Seq(Nat)]]
         /\ \A q \in Processes, j \in Accounts \X Verbs : OrderedTimes(events[q][j])'
<1> DEFINE k == <<ask.account, ask.verb>>
           live == Live(events[p][k])
<1>1. now \in Nat /\ now' = now
  BY DEF TypeOK, Succeed
<1>2. k \in Accounts \X Verbs
  BY AskFields
<1>3. events[p][k] \in Seq(Nat) /\ OrderedTimes(events[p][k])
  BY <1>2 DEF TypeOK, Ordered
<1>4. live \in Seq(Nat) /\ OrderedTimes(live)
  BY <1>1, <1>3, LiveEntries
<1> HIDE DEF live
<1>5. Append(live, now) \in Seq(Nat) /\ OrderedTimes(Append(live, now))
  BY <1>1, <1>4, AppendEntry
<1>6. events' = [events EXCEPT ![p][k] = Append(live, now)]
  BY DEF Succeed, Consume, live
<1>7. events \in [Processes -> [Accounts \X Verbs -> Seq(Nat)]]
  BY DEF TypeOK
<1> HIDE DEF k
<1>8. /\ events'[p][k] = Append(live, now)
      /\ \A j \in Accounts \X Verbs : j # k => events'[p][j] = events[p][j]
      /\ \A q \in Processes \ {p} : events'[q] = events[q]
      /\ events' \in [Processes -> [Accounts \X Verbs -> Seq(Nat)]]
  BY <1>2, <1>5, <1>6, <1>7
<1>9. ASSUME NEW q \in Processes, NEW j \in Accounts \X Verbs
      PROVE  OrderedTimes(events[q][j])'
  <2>1. OrderedTimes(events[q][j])
    BY DEF Ordered
  <2>2. CASE q = p /\ j = k
    <3>1. events'[q][j] = Append(live, now)
      BY <1>8, <2>2
    <3> QED
      BY <1>1, <1>5, <3>1 DEF OrderedTimes
  <2>3. CASE ~(q = p /\ j = k)
    <3>1. events'[q][j] = events[q][j]
      BY <1>8, <2>3
    <3> QED
      BY <1>1, <2>1, <3>1 DEF OrderedTimes
  <2> QED
    BY <2>2, <2>3
<1> QED
  BY <1>2, <1>8, <1>9, Zenon DEF k, live

\* The ledger: one side of the account counts the text.
LEMMA SucceedLedger ==
  ASSUME TypeOK, NEW r \in Requests, Succeed(r),
         NEW p \in Processes, p = req[r].process, NEW ask \in Asks, ask = req[r].ask
  PROVE  /\ \A b \in Accounts : promo'[p][b] =
              IF b = ask.account /\ HasDraft(ask) /\ ask.promotional
                THEN promo[p][b] + 1 ELSE promo[p][b]
         /\ \A b \in Accounts : nonPromo'[p][b] =
              IF b = ask.account /\ HasDraft(ask) /\ ~ask.promotional
                THEN nonPromo[p][b] + 1 ELSE nonPromo[p][b]
         /\ \A q \in Processes \ {p} : promo'[q] = promo[q] /\ nonPromo'[q] = nonPromo[q]
         /\ promo' \in [Processes -> [Accounts -> Nat]]
         /\ nonPromo' \in [Processes -> [Accounts -> Nat]]
<1> DEFINE a == ask.account
<1>1. a \in Accounts
  BY AskFields
<1>2. promo \in [Processes -> [Accounts -> Nat]] /\ nonPromo \in [Processes -> [Accounts -> Nat]]
  BY Zenon DEF TypeOK
<1>3. IF HasDraft(ask)
        THEN IF ask.promotional
               THEN promo' = [promo EXCEPT ![p][a] = @ + 1] /\ UNCHANGED nonPromo
               ELSE nonPromo' = [nonPromo EXCEPT ![p][a] = @ + 1] /\ UNCHANGED promo
        ELSE UNCHANGED <<promo, nonPromo>>
  BY DEF Succeed
<1> HIDE DEF a
<1>4. CASE HasDraft(ask) /\ ask.promotional
  <2>1. promo' = [promo EXCEPT ![p][a] = @ + 1] /\ nonPromo' = nonPromo
    BY <1>3, <1>4
  <2>2. \A b \in Accounts : promo[p][b] \in Nat
    BY <1>2
  <2>3. \A b \in Accounts : promo'[p][b] = IF b = a THEN promo[p][b] + 1 ELSE promo[p][b]
    BY <1>1, <1>2, <2>1
  <2>4. \A q \in Processes \ {p} : promo'[q] = promo[q]
    BY <1>2, <2>1
  <2>5. promo' \in [Processes -> [Accounts -> Nat]]
    BY <1>1, <1>2, <2>1, <2>2
  <2> QED
    BY <1>2, <1>4, <2>1, <2>3, <2>4, <2>5 DEF a
<1>5. CASE HasDraft(ask) /\ ~ask.promotional
  <2>1. nonPromo' = [nonPromo EXCEPT ![p][a] = @ + 1] /\ promo' = promo
    BY <1>3, <1>5
  <2>2. \A b \in Accounts : nonPromo[p][b] \in Nat
    BY <1>2
  <2>3. \A b \in Accounts :
          nonPromo'[p][b] = IF b = a THEN nonPromo[p][b] + 1 ELSE nonPromo[p][b]
    BY <1>1, <1>2, <2>1
  <2>4. \A q \in Processes \ {p} : nonPromo'[q] = nonPromo[q]
    BY <1>2, <2>1
  <2>5. nonPromo' \in [Processes -> [Accounts -> Nat]]
    BY <1>1, <1>2, <2>1, <2>2
  <2> QED
    BY <1>2, <1>5, <2>1, <2>3, <2>4, <2>5 DEF a
<1>6. CASE ~HasDraft(ask)
  <2>1. promo' = promo /\ nonPromo' = nonPromo
    BY <1>3, <1>6
  <2> QED
    BY <1>2, <1>6, <2>1
<1> QED
  BY <1>4, <1>5, <1>6

\* A list that is longer by an element has it and its others.
LEMMA AppendMember ==
  ASSUME NEW T, NEW s \in Seq(T), NEW h \in T
  PROVE  ToSet(Append(s, h)) = ToSet(s) \cup {h}
<1> DEFINE longer == Append(s, h)
<1>1. /\ DOMAIN s = 1..Len(s) /\ Len(s) \in Nat /\ DOMAIN longer = 1..(Len(s) + 1)
      /\ longer[Len(s) + 1] = h /\ \A i \in 1..Len(s) : longer[i] = s[i]
  OBVIOUS
<1> HIDE DEF longer
<1>2. Len(s) + 1 \in DOMAIN longer /\ \A i \in DOMAIN s : i \in DOMAIN longer
  BY <1>1
<1>3. ToSet(longer) = ToSet(s) \cup {h}
  BY <1>1, <1>2 DEF ToSet
<1> QED
  BY <1>3 DEF longer

\* The coordination tracker: the target has another hit, and loses none.
LEMMA SucceedHits ==
  ASSUME TypeOK, NEW r \in Requests, Succeed(r),
         NEW p \in Processes, p = req[r].process, NEW ask \in Asks, ask = req[r].ask
  PROVE  /\ OnTarget(ask) =>
              ToSet(hits'[p][ask.target])
                = ToSet(hits[p][ask.target]) \cup {[account |-> ask.account, time |-> now]}
         /\ \A target \in Targets :
              ~(OnTarget(ask) /\ ask.target = target) => hits'[p][target] = hits[p][target]
         /\ \A q \in Processes \ {p} : hits'[q] = hits[q]
         /\ hits' \in [Processes -> [Targets -> Seq([account : Accounts, time : Nat])]]
<1> DEFINE x == ask.target
           h == [account |-> ask.account, time |-> now]
           Hits == [account : Accounts, time : Nat]
<1>1. ask.account \in Accounts /\ (OnTarget(ask) => x \in Targets) /\ now \in Nat
  BY AskFields DEF TypeOK
<1>2. h \in Hits
  BY <1>1
<1>3. hits \in [Processes -> [Targets -> Seq(Hits)]]
  BY Zenon DEF TypeOK
<1>4. CASE OnTarget(ask)
  <2>1. hits' = [hits EXCEPT ![p][x] = Append(@, h)]
    BY <1>4 DEF Succeed
  <2> HIDE DEF h, x, Hits
  <2>2. hits[p][x] \in Seq(Hits)
    BY <1>1, <1>3, <1>4
  <2>3. Append(hits[p][x], h) \in Seq(Hits)
    BY <1>2, <2>2
  <2>4. /\ hits'[p][x] = Append(hits[p][x], h)
        /\ \A target \in Targets \ {x} : hits'[p][target] = hits[p][target]
        /\ \A q \in Processes \ {p} : hits'[q] = hits[q]
        /\ hits' \in [Processes -> [Targets -> Seq(Hits)]]
    BY <1>1, <1>3, <1>4, <2>1, <2>3
  <2>5. ToSet(Append(hits[p][x], h)) = ToSet(hits[p][x]) \cup {h}
    BY <1>2, <2>2, AppendMember
  <2>6. ToSet(hits'[p][x]) = ToSet(hits[p][x]) \cup {h}
    BY <2>4, <2>5
  <2> QED
    BY <1>4, <2>4, <2>6, Zenon DEF h, x, Hits
<1>5. CASE ~OnTarget(ask)
  <2>1. hits' = hits
    BY <1>5 DEF Succeed
  <2> QED
    BY <1>3, <1>5, <2>1
<1> QED
  BY <1>4, <1>5

\* The trackers of the process count the act, once.
LEMMA SucceedTracked ==
  ASSUME TypeOK, Ordered, NEW r \in Requests, Succeed(r),
         NEW p \in Processes, p = req[r].process, NEW ask \in Asks, ask = req[r].ask,
         Tracked(p)
  PROVE  Tracked(p)'
<1> DEFINE k == <<ask.account, ask.verb>>
<1> USE DEF Tracked
<1>1. /\ Adds(p, r) /\ now \in Nat /\ now' = now
      /\ req'[r].ask = ask /\ req'[r].process = p /\ req'[r].at = now
  BY SucceedAdds, SucceedStep DEF TypeOK
<1>2. IsFiniteSet(Done(p)) /\ r \notin Done(p) /\ Done(p)' = Done(p) \cup {r}
  BY <1>1 DEF Adds
<1>3. IsFiniteSet(Done(p)')
  BY <1>2, FS_AddElement
<1>4. Counted(p)'
  <2> SUFFICES ASSUME NEW a \in Accounts, NEW verb \in Verbs, NEW c \in Int,
                      c >= now - RateWindow
               PROVE  Cardinality(Entries(events'[p][<<a, verb>>], c))
                        = Cardinality(Since(p, a, verb, c)')
    BY <1>1 DEF Counted, CountedFrom, Entries
  <2> DEFINE joins == ask.account = a /\ ask.verb = verb /\ now >= c
             times == events[p][<<a, verb>>]
             since == Since(p, a, verb, c)
  <2>1. Joined(since, since', r, joins)
    <3>1. PICK at : at = now
      OBVIOUS
    <3>2. Joined(since, since', r, ask.account = a /\ ask.verb = verb /\ at >= c)
      BY <1>1, <3>1, AddedSince
    <3> QED
      BY <3>1, <3>2
  <2>2. IsFiniteSet(since) /\ r \notin since
    <3>1. IsFiniteSet(since)
      BY <1>2, FiniteSets
    <3>2. since \subseteq Done(p)
      BY DEF Since, Acts
    <3> QED
      BY <1>2, <3>1, <3>2
  <2>3. joins \in BOOLEAN
    OBVIOUS
  <2>4. /\ Cardinality(since) \in Nat /\ (joins => Cardinality(since') = Cardinality(since) + 1)
        /\ ~joins => since' = since
    <3> HIDE DEF joins, since
    <3> QED
      BY <2>1, <2>2, <2>3, JoinedSize
  <2>5. times \in Seq(Nat) /\ OrderedTimes(times)
    BY <1>1 DEF TypeOK, Ordered
  <2>6. Cardinality(Entries(times, c)) = Cardinality(since)
    BY DEF Counted, CountedFrom
  <2> HIDE DEF times, since
  <2>7. CASE <<a, verb>> = k
    <3>1. events'[p][<<a, verb>>] = Append(Live(times), now)
      <4>1. events'[p][k] = Append(Live(events[p][k]), now)
        BY SucceedEvents, Zenon
      <4> QED
        BY <2>7, <4>1, Zenon DEF times
    <3>2. /\ Live(times) \in Seq(Nat) /\ OrderedTimes(Live(times))
          /\ Cardinality(Entries(Live(times), c)) = Cardinality(Entries(times, c))
      BY <1>1, <2>5, LiveEntries
    <3>3. /\ c <= now => Cardinality(Entries(Append(Live(times), now), c))
                           = Cardinality(Entries(Live(times), c)) + 1
          /\ ~(c <= now) => Cardinality(Entries(Append(Live(times), now), c)) = 0
      BY <1>1, <3>2, AppendEntry
    <3>4. CASE c <= now
      <4>1. joins
        BY <1>1, <2>7, <3>4
      <4> QED
        BY <2>4, <2>6, <3>1, <3>2, <3>3, <3>4, <4>1 DEF since
    <3>5. CASE ~(c <= now)
      <4>1. ~joins
        BY <1>1, <3>5
      <4>2. Cardinality(since') = Cardinality(since)
        BY <2>4, <4>1
      <4>3. \A q \in Requests : req[q].at \in Nat /\ req[q].at <= now
        BY DEF TypeOK, ReqSet, Ordered
      <4>4. \A at \in Nat : at <= now => ~(at >= c)
        BY <1>1, <3>5
      <4>5. since = {}
        BY <4>3, <4>4 DEF since, Since, Acts, Done
      <4>6. Cardinality(since) = 0
        BY <4>5, FS_EmptySet
      <4> QED
        BY <3>1, <3>3, <3>5, <4>2, <4>6 DEF since
    <3> QED
      BY <3>4, <3>5
  <2>8. CASE <<a, verb>> # k
    <3>1. events'[p][<<a, verb>>] = times
      <4>1. \A j \in Accounts \X Verbs : j # k => events'[p][j] = events[p][j]
        BY SucceedEvents, Zenon
      <4>2. <<a, verb>> \in Accounts \X Verbs /\ <<a, verb>> # k
        BY <2>8
      <4> QED
        BY <4>1, <4>2 DEF times
    <3>2. ~joins
      BY <2>8
    <3>3. since' = since
      BY <2>4, <3>2
    <3> QED
      BY <2>6, <3>1, <3>3 DEF since
  <2> QED
    BY <2>7, <2>8
<1>5. Recorded(p)'
  <2> SUFFICES ASSUME NEW a \in Accounts
               PROVE  /\ promo'[p][a] = Cardinality(Promos(p, a)')
                      /\ nonPromo'[p][a] = Cardinality(Texts(p, a)' \ Promos(p, a)')
    BY <1>1 DEF Recorded
  <2> DEFINE joins == ask.account = a /\ HasDraft(ask) /\ ask.promotional
             joinsOther == ask.account = a /\ HasDraft(ask) /\ ~ask.promotional
             promos == Promos(p, a)
             others == Texts(p, a) \ Promos(p, a)
  <2>1. Joined(promos, promos', r, joins)
    BY <1>1, AddedTexts
  <2>2. Joined(Texts(p, a), Texts(p, a)', r, ask.account = a /\ HasDraft(ask))
    BY <1>1, AddedTexts
  <2>3. r \notin promos /\ r \notin Texts(p, a) /\ promos \subseteq Texts(p, a)
    BY <1>2 DEF Promos, Texts
  <2>4. Joined(others, others', r, joinsOther)
    BY <2>1, <2>2, <2>3 DEF Joined
  <2>5. IsFiniteSet(promos) /\ IsFiniteSet(others) /\ r \notin others
    BY <1>2, <2>3, FiniteSets
  <2>6. joins \in BOOLEAN /\ joinsOther \in BOOLEAN
    BY <1>1, AskFields
  <2>7. promo[p][a] = Cardinality(promos) /\ nonPromo[p][a] = Cardinality(others)
    BY DEF Recorded
  <2>8. /\ promo'[p][a] = IF joins THEN promo[p][a] + 1 ELSE promo[p][a]
        /\ nonPromo'[p][a] = IF joinsOther THEN nonPromo[p][a] + 1 ELSE nonPromo[p][a]
    BY SucceedLedger
  <2> HIDE DEF joins, joinsOther, promos, others
  <2>9. promo'[p][a] = Cardinality(promos')
    <3>1. /\ joins => Cardinality(promos') = Cardinality(promos) + 1
          /\ ~joins => promos' = promos
      BY <2>1, <2>5, <2>6, <2>3, JoinedSize
    <3> QED
      BY <2>7, <2>8, <3>1
  <2>10. nonPromo'[p][a] = Cardinality(others')
    <3>1. /\ joinsOther => Cardinality(others') = Cardinality(others) + 1
          /\ ~joinsOther => others' = others
      BY <2>4, <2>5, <2>6, JoinedSize
    <3> QED
      BY <2>7, <2>8, <3>1
  <2> QED
    BY <2>9, <2>10 DEF promos, others
<1>6. Met(p)'
  <2> SUFFICES ASSUME NEW target \in Targets
               PROVE  ToSet(hits'[p][target]) = {Hit(q)' : q \in ActsOn(p, target)'}
    BY <1>1 DEF Met
  <2> DEFINE h == [account |-> ask.account, time |-> now]
             joins == OnTarget(ask) /\ ask.target = target
  <2>1. ToSet(hits[p][target]) = {Hit(q) : q \in ActsOn(p, target)}
    BY DEF Met
  <2>2. ToSet(hits'[p][target]) = IF joins THEN ToSet(hits[p][target]) \cup {h}
                                  ELSE ToSet(hits[p][target])
    <3>1. CASE joins
      BY <3>1, SucceedHits
    <3>2. CASE ~joins
      BY <3>2, SucceedHits
    <3> QED
      BY <3>1, <3>2
  <2>3. Hit(r)' = h /\ \A q \in ActsOn(p, target) : Hit(q)' = Hit(q)
    BY <1>1, <1>2 DEF Hit, ActsOn, Adds
  <2>4. ActsOn(p, target)' = IF joins THEN ActsOn(p, target) \cup {r} ELSE ActsOn(p, target)
    BY <1>1, <1>2 DEF ActsOn, Adds, OnTarget
  <2> HIDE DEF h, joins
  <2> QED
    BY <2>1, <2>2, <2>3, <2>4
<1>7. (IsFiniteSet(Done(p)) /\ Counted(p) /\ Recorded(p) /\ Met(p))'
  BY <1>1, <1>3, <1>4, <1>5, <1>6
<1> QED
  BY <1>1, <1>7

\* A larger number grants no fewer promotional acts.
LEMMA LargerGrant ==
  ASSUME NEW m \in Nat, NEW n \in Nat, m <= n, Ratio > 0
  PROVE  m \div Ratio \in Nat /\ n \div Ratio \in Nat /\ m \div Ratio <= n \div Ratio
<1> DEFINE d == Ratio
           x == m \div d
           y == n \div d
<1>1. d \in Nat /\ d > 0
  BY LimitsAssumption
<1> HIDE DEF d
<1>2. x \in Nat /\ y \in Nat /\ d * x <= m /\ n < d * (y + 1)
  BY <1>1
<1> HIDE DEF x, y
<1>3. d * x < d * (y + 1) /\ x \in Int /\ y \in Int
  BY <1>1, <1>2
<1>4. x < y + 1
  BY <1>1, <1>3
<1>5. x <= y
  BY <1>2, <1>4
<1> QED
  BY <1>2, <1>5 DEF x, y, d

\* The process that carries out an act, and what the act asked for.
Carries(r, p, ask, solo) ==
  req[r].process = p /\ req[r].ask = ask /\ req[r].solo = solo

\* How the sets change that the invariant compares.
LEMMA SucceedSets ==
  ASSUME Inv, NEW r \in Requests, Succeed(r),
         NEW p \in Processes, NEW ask \in Asks, NEW solo \in BOOLEAN, Carries(r, p, ask, solo)
  PROVE  /\ IsFiniteSet(Done(p))
         /\ \A a \in Accounts :
              /\ Joined(SoloPromos(p, a), SoloPromos(p, a)', r,
                        ask.account = a /\ HasDraft(ask) /\ ask.promotional /\ solo)
              /\ r \notin SoloPromos(p, a)
              /\ Joined(Texts(p, a) \ Promos(p, a), (Texts(p, a) \ Promos(p, a))', r,
                        ask.account = a /\ HasDraft(ask) /\ ~ask.promotional)
              /\ r \notin Texts(p, a) \ Promos(p, a)
         /\ \A a \in Accounts, verb \in Verbs, t \in Int :
              /\ Joined(SoloWithin(p, a, verb, t), SoloWithin(p, a, verb, t)', r,
                        /\ ask.account = a /\ ask.verb = verb
                        /\ solo /\ now \in (t - RateWindow)..t)
              /\ r \notin SoloWithin(p, a, verb, t)
         /\ \A target \in Targets, t \in Int :
              /\ Joined(There(p, target, t), There(p, target, t)', r,
                        /\ OnTarget(ask) /\ ask.target = target /\ ~IsOwned(ask) /\ solo
                        /\ now \in (t - TargetWindow)..t)
              /\ Joined(Present(p, target, t), Present(p, target, t)', ask.account,
                        /\ OnTarget(ask) /\ ask.target = target /\ ~IsOwned(ask) /\ solo
                        /\ now \in (t - TargetWindow)..t)
<1> USE DEF Inv, Carries
<1>1. /\ Adds(p, r) /\ req'[r].ask = ask /\ req'[r].solo = solo /\ req'[r].at = now
  BY SucceedAdds, SucceedStep
<1>2. r \notin Done(p) /\ IsFiniteSet(Done(p)) /\ \A q \in Done(p) : req'[q] = req[q]
  BY <1>1 DEF Adds, Tracked
<1>3. ASSUME NEW a \in Accounts
      PROVE  /\ Joined(SoloPromos(p, a), SoloPromos(p, a)', r,
                       ask.account = a /\ HasDraft(ask) /\ ask.promotional /\ solo)
             /\ r \notin SoloPromos(p, a)
             /\ Joined(Texts(p, a) \ Promos(p, a), (Texts(p, a) \ Promos(p, a))', r,
                       ask.account = a /\ HasDraft(ask) /\ ~ask.promotional)
             /\ r \notin Texts(p, a) \ Promos(p, a)
  <2>1. /\ Joined(Texts(p, a), Texts(p, a)', r, ask.account = a /\ HasDraft(ask))
        /\ Joined(Promos(p, a), Promos(p, a)', r,
                  ask.account = a /\ HasDraft(ask) /\ ask.promotional)
        /\ Joined(SoloPromos(p, a), SoloPromos(p, a)', r,
                  ask.account = a /\ HasDraft(ask) /\ ask.promotional /\ solo)
    BY <1>1, AddedTexts
  <2>2. /\ r \notin Texts(p, a) /\ r \notin SoloPromos(p, a)
        /\ Promos(p, a) \subseteq Texts(p, a)
    BY <1>2 DEF Texts, SoloPromos, Promos
  <2>3. Joined(Texts(p, a) \ Promos(p, a), (Texts(p, a) \ Promos(p, a))', r,
               ask.account = a /\ HasDraft(ask) /\ ~ask.promotional)
    BY <2>1, <2>2 DEF Joined
  <2> QED
    BY <2>1, <2>2, <2>3
<1>4. ASSUME NEW a \in Accounts, NEW verb \in Verbs, NEW t \in Int
      PROVE  /\ Joined(SoloWithin(p, a, verb, t), SoloWithin(p, a, verb, t)', r,
                       /\ ask.account = a /\ ask.verb = verb
                       /\ solo /\ now \in (t - RateWindow)..t)
             /\ r \notin SoloWithin(p, a, verb, t)
  <2>1. Joined(SoloWithin(p, a, verb, t), SoloWithin(p, a, verb, t)', r,
               /\ req'[r].ask.account = a /\ req'[r].ask.verb = verb
               /\ req'[r].solo /\ req'[r].at \in (t - RateWindow)..t)
    BY <1>1, AddedWithin
  <2>2. SoloWithin(p, a, verb, t) \subseteq Done(p)
    BY DEF SoloWithin, Within
  <2> QED
    BY <1>1, <1>2, <2>1, <2>2
<1>5. ASSUME NEW target \in Targets, NEW t \in Int
      PROVE  /\ Joined(There(p, target, t), There(p, target, t)', r,
                       /\ OnTarget(ask) /\ ask.target = target /\ ~IsOwned(ask) /\ solo
                       /\ now \in (t - TargetWindow)..t)
             /\ Joined(Present(p, target, t), Present(p, target, t)', ask.account,
                       /\ OnTarget(ask) /\ ask.target = target /\ ~IsOwned(ask) /\ solo
                       /\ now \in (t - TargetWindow)..t)
  <2> DEFINE joins == /\ OnTarget(ask) /\ ask.target = target /\ ~IsOwned(ask) /\ solo
                      /\ now \in (t - TargetWindow)..t
  <2>1. Joined(There(p, target, t), There(p, target, t)', r,
               /\ OnTarget(ask) /\ ask.target = target /\ ~IsOwned(ask) /\ req'[r].solo
               /\ req'[r].at \in (t - TargetWindow)..t)
    BY <1>1, AddedThere
  <2>2. Joined(There(p, target, t), There(p, target, t)', r, joins)
    BY <1>1, <2>1
  <2>3. \A q \in There(p, target, t) : req'[q] = req[q]
    BY <1>2 DEF There
  <2>4. Present(p, target, t)' = {req'[q].ask.account : q \in There(p, target, t)'}
    BY DEF Present
  <2> HIDE DEF joins
  <2>5. ASSUME joins
        PROVE  Joined(Present(p, target, t), Present(p, target, t)', ask.account, joins)
    <3>1. There(p, target, t)' = There(p, target, t) \cup {r}
      BY <2>2, <2>5 DEF Joined
    <3>2. Present(p, target, t)' =
            {req'[q].ask.account : q \in There(p, target, t)} \cup {req'[r].ask.account}
      BY <2>4, <3>1
    <3>3. {req'[q].ask.account : q \in There(p, target, t)} = Present(p, target, t)
      BY <2>3 DEF Present
    <3> QED
      BY <1>1, <2>5, <3>2, <3>3 DEF Joined
  <2>6. ASSUME ~joins
        PROVE  Joined(Present(p, target, t), Present(p, target, t)', ask.account, joins)
    <3>1. There(p, target, t)' = There(p, target, t)
      BY <2>2, <2>6 DEF Joined
    <3>2. Present(p, target, t)' = {req'[q].ask.account : q \in There(p, target, t)}
      BY <2>4, <3>1
    <3>3. {req'[q].ask.account : q \in There(p, target, t)} = Present(p, target, t)
      BY <2>3 DEF Present
    <3> QED
      BY <2>6, <3>2, <3>3 DEF Joined
  <2> QED
    BY <2>2, <2>5, <2>6 DEF joins
<1> QED
  BY <1>2, <1>3, <1>4, <1>5

\* The process stays within its limits: an act that was judged alone had room,
\* and another one is not among those that are counted.
LEMMA SucceedLimited ==
  ASSUME Inv, NEW r \in Requests, Succeed(r),
         NEW p \in Processes, NEW ask \in Asks, NEW solo \in BOOLEAN, Carries(r, p, ask, solo)
  PROVE  Limited(p)'
<1> USE DEF Inv
<1>1. now \in Nat /\ now' = now /\ Limited(p) /\ IsFiniteSet(Done(p))
  BY SucceedStep DEF TypeOK, Tracked
<1>2. solo => RateRoom(p, ask) /\ RatioRoom(p, ask) /\ TargetRoom(p, ask)
  <2>1. req[r].pc = "dispatch"
    BY SucceedStep
  <2> QED
    BY <2>1 DEF Roomy, Carries
<1>3. RateLimited(p)'
  <2> SUFFICES ASSUME NEW a \in Accounts, NEW verb \in Verbs, NEW t \in 0..now,
                      Limit(a, verb) > 0
               PROVE  Cardinality(SoloWithin(p, a, verb, t)') <= Limit(a, verb)
    BY <1>1 DEF RateLimited, Limit
  <2> DEFINE joins == /\ ask.account = a /\ ask.verb = verb
                      /\ solo /\ now \in (t - RateWindow)..t
             S == SoloWithin(p, a, verb, t)
  <2>1. t \in Int
    BY <1>1
  <2>2. Joined(S, S', r, joins) /\ r \notin S
    BY <2>1, SucceedSets
  <2>3. IsFiniteSet(S) /\ joins \in BOOLEAN
    BY <1>1, FiniteSets
  <2>4. Cardinality(S) <= Limit(a, verb)
    BY <1>1 DEF Limited, RateLimited
  <2>5. joins => Cardinality(S) < Limit(a, verb)
    <3>1. ASSUME joins  PROVE t = now
      BY <1>1, <3>1, LimitsAssumption
    <3> QED
      BY <1>2, <3>1 DEF RateRoom
  <2> HIDE DEF joins, S
  <2>6. /\ Cardinality(S) \in Nat /\ (joins => Cardinality(S') = Cardinality(S) + 1)
        /\ ~joins => S' = S
    BY <2>2, <2>3, JoinedSize
  <2>7. Limit(a, verb) \in Int
    BY LimitType
  <2>8. CASE joins
    BY <2>5, <2>6, <2>7, <2>8 DEF S
  <2>9. CASE ~joins
    BY <2>4, <2>6, <2>9 DEF S
  <2> QED
    BY <2>8, <2>9
<1>4. RatioLimited(p)'
  <2> SUFFICES ASSUME NEW a \in Accounts, Ratio > 0
               PROVE  Cardinality(SoloPromos(p, a)')
                        <= Cardinality(Texts(p, a)' \ Promos(p, a)') \div Ratio
    BY DEF RatioLimited
  <2> DEFINE joins == ask.account = a /\ HasDraft(ask) /\ ask.promotional /\ solo
             joinsOther == ask.account = a /\ HasDraft(ask) /\ ~ask.promotional
             S == SoloPromos(p, a)
             T == Texts(p, a) \ Promos(p, a)
  <2>1. Joined(S, S', r, joins) /\ r \notin S /\ Joined(T, T', r, joinsOther) /\ r \notin T
    <3>1. Joined(S, S', r, joins) /\ r \notin S
      BY SucceedSets
    <3>2. Joined(T, T', r, joinsOther)
      BY SucceedSets
    <3>3. r \notin T
      BY SucceedAdds DEF Adds, Carries, Texts
    <3> QED
      BY <3>1, <3>2, <3>3
  <2>2. IsFiniteSet(S) /\ IsFiniteSet(T)
    BY <1>1, FiniteSets
  <2>3. joins \in BOOLEAN /\ joinsOther \in BOOLEAN /\ ~(joins /\ joinsOther)
    BY AskFields
  <2>4. Cardinality(S) <= Cardinality(T) \div Ratio
    BY <1>1 DEF Limited, RatioLimited
  <2>5. joins => Cardinality(S) < Cardinality(T) \div Ratio
    BY <1>2 DEF RatioRoom
  <2> HIDE DEF joins, joinsOther, S, T
  <2>6. /\ Cardinality(S) \in Nat /\ (joins => Cardinality(S') = Cardinality(S) + 1)
        /\ ~joins => S' = S
    BY <2>1, <2>2, <2>3, JoinedSize
  <2>7. /\ Cardinality(T) \in Nat /\ (joinsOther => Cardinality(T') = Cardinality(T) + 1)
        /\ ~joinsOther => T' = T
    BY <2>1, <2>2, <2>3, JoinedSize
  <2>8. Cardinality(S') <= Cardinality(T') \div Ratio
    <3>1. CASE joins
      <4>1. T' = T /\ Cardinality(T) \div Ratio \in Nat
        BY <2>3, <2>7, <3>1, LargerGrant
      <4> DEFINE grant == Cardinality(T) \div Ratio
      <4>2. grant \in Nat /\ Cardinality(S) < grant /\ Cardinality(S') = Cardinality(S) + 1
        BY <2>5, <2>6, <3>1, <4>1
      <4>3. Cardinality(T') \div Ratio = grant
        BY <4>1
      <4> HIDE DEF grant
      <4> QED
        BY <2>6, <4>2, <4>3
    <3>2. CASE joinsOther
      <4>1. S' = S /\ Cardinality(T') = Cardinality(T) + 1
        BY <2>3, <2>6, <2>7, <3>2
      <4>2. ASSUME NEW m \in Nat, NEW n \in Nat, n <= m \div Ratio
            PROVE  n <= (m + 1) \div Ratio
        <5> DEFINE x == m \div Ratio
                   y == (m + 1) \div Ratio
        <5>1. x \in Nat /\ y \in Nat /\ x <= y
          BY LargerGrant
        <5> HIDE DEF x, y
        <5>2. n <= y
          BY <4>2, <5>1 DEF x
        <5> QED
          BY <5>2 DEF y
      <4> QED
        BY <2>4, <2>6, <2>7, <4>1, <4>2
    <3>3. CASE ~joins /\ ~joinsOther
      BY <2>4, <2>6, <2>7, <3>3
    <3> QED
      BY <3>1, <3>2, <3>3
  <2> QED
    BY <2>8 DEF S, T
<1>5. TargetLimited(p)'
  <2> SUFFICES ASSUME NEW target \in Targets, NEW t \in 0..now, There(p, target, t)' # {}
               PROVE  Cardinality(Present(p, target, t)') <= MaxDistinct
    BY <1>1 DEF TargetLimited
  <2> DEFINE joins == /\ OnTarget(ask) /\ ask.target = target /\ ~IsOwned(ask) /\ solo
                      /\ now \in (t - TargetWindow)..t
  <2>1. t \in Int
    BY <1>1
  <2>2. /\ Joined(There(p, target, t), There(p, target, t)', r, joins)
        /\ Joined(Present(p, target, t), Present(p, target, t)', ask.account, joins)
    BY <2>1, SucceedSets
  <2>3. CASE joins
    <3>1. t = now /\ OnTarget(ask) /\ ~IsOwned(ask) /\ solo /\ ask.target = target
      BY <1>1, <2>3, LimitsAssumption
    <3>2. Cardinality(Present(p, target, t) \cup {ask.account}) <= MaxDistinct
      BY <1>2, <3>1 DEF TargetRoom
    <3>3. Present(p, target, t)' = Present(p, target, t) \cup {ask.account}
      BY <2>2, <2>3 DEF Joined
    <3> QED
      BY <3>2, <3>3
  <2>4. CASE ~joins
    <3>1. /\ There(p, target, t)' = There(p, target, t)
          /\ Present(p, target, t)' = Present(p, target, t)
      BY <2>2, <2>4 DEF Joined
    <3> QED
      BY <1>1, <3>1 DEF Limited, TargetLimited
  <2> QED
    BY <2>3, <2>4
<1> QED
  BY <1>3, <1>4, <1>5 DEF Limited

\* Another act that was judged alone keeps its room, and this one was not.
LEMMA SucceedRoom ==
  ASSUME Inv, NEW r \in Requests, Succeed(r),
         NEW p \in Processes, NEW ask \in Asks, NEW solo \in BOOLEAN, Carries(r, p, ask, solo),
         ~solo, NEW other \in Asks, Room(p, other)
  PROVE  Room(p, other)'
<1> USE DEF Inv
<1>1. now \in Nat /\ now' = now /\ now \in Int /\ IsFiniteSet(Done(p))
  <2>1. now \in Nat /\ now' = now
    BY SucceedStep DEF TypeOK
  <2> QED
    BY <2>1 DEF Tracked
<1>2. /\ other.account \in Accounts /\ other.verb \in Verbs
      /\ OnTarget(other) => other.target \in Targets
  BY AskFields
<1> DEFINE a == other.account
           verb == other.verb
           target == other.target
<1>3. RateRoom(p, other)'
  <2>1. PICK t : t = now
    OBVIOUS
  <2>2. SoloWithin(p, a, verb, t)' = SoloWithin(p, a, verb, t)
    <3>1. t \in Int
      BY <1>1, <2>1
    <3>2. Joined(SoloWithin(p, a, verb, t), SoloWithin(p, a, verb, t)', r,
                 /\ ask.account = a /\ ask.verb = verb
                 /\ solo /\ now \in (t - RateWindow)..t)
      BY <1>2, <3>1, SucceedSets
    <3> QED
      BY <3>2 DEF Joined
  <2>3. SoloWithin(p, a, verb, now)' = SoloWithin(p, a, verb, t)'
    BY <1>1, <2>1 DEF SoloWithin, Within
  <2>4. Limit(a, verb) > 0 => Cardinality(SoloWithin(p, a, verb, t)) < Limit(a, verb)
    BY <2>1 DEF Room, RateRoom
  <2>5. RateRoom(p, other)'
          <=> (Limit(a, verb) > 0 => Cardinality(SoloWithin(p, a, verb, now)') < Limit(a, verb))
    BY DEF RateRoom, Limit
  <2> QED
    BY <2>2, <2>3, <2>4, <2>5
<1>4. RatioRoom(p, other)'
  <2> SUFFICES ASSUME HasDraft(other), other.promotional, Ratio > 0
               PROVE  Cardinality(SoloPromos(p, a)')
                        < Cardinality(Texts(p, a)' \ Promos(p, a)') \div Ratio
    BY DEF RatioRoom, HasDraft
  <2> DEFINE joins == ask.account = a /\ HasDraft(ask) /\ ~ask.promotional
             S == SoloPromos(p, a)
             T == Texts(p, a) \ Promos(p, a)
  <2>1. S' = S /\ Joined(T, T', r, joins) /\ r \notin T
    <3>1. Joined(S, S', r, ask.account = a /\ HasDraft(ask) /\ ask.promotional /\ solo)
      BY <1>2, SucceedSets
    <3>2. S' = S
      BY <3>1 DEF Joined
    <3>3. Joined(T, T', r, joins)
      BY <1>2, SucceedSets
    <3>4. r \notin T
      BY SucceedAdds DEF Adds, Carries, Texts
    <3> QED
      BY <3>2, <3>3, <3>4
  <2>2. IsFiniteSet(S) /\ IsFiniteSet(T) /\ Cardinality(S) \in Nat
    BY <1>1, FiniteSets, FS_CardinalityType
  <2>3. Cardinality(S) < Cardinality(T) \div Ratio
    BY DEF Room, RatioRoom
  <2>4. joins \in BOOLEAN
    BY AskFields
  <2> HIDE DEF joins, S, T
  <2>5. /\ Cardinality(T) \in Nat /\ (joins => Cardinality(T') = Cardinality(T) + 1)
        /\ ~joins => T' = T
    BY <2>1, <2>2, <2>4, JoinedSize
  <2>6. ASSUME NEW m \in Nat, NEW n \in Nat, n < m \div Ratio  PROVE n < (m + 1) \div Ratio
    <3> DEFINE x == m \div Ratio
               y == (m + 1) \div Ratio
    <3>1. x \in Nat /\ y \in Nat /\ x <= y
      BY LargerGrant
    <3> HIDE DEF x, y
    <3>2. n < y
      BY <2>6, <3>1 DEF x
    <3> QED
      BY <3>2 DEF y
  <2>7. Cardinality(S') < Cardinality(T') \div Ratio
    <3>1. CASE joins
      BY <2>1, <2>2, <2>3, <2>5, <2>6, <3>1
    <3>2. CASE ~joins
      BY <2>1, <2>3, <2>5, <3>2
    <3> QED
      BY <3>1, <3>2
  <2> QED
    BY <2>7 DEF S, T
<1>5. TargetRoom(p, other)'
  <2> SUFFICES ASSUME OnTarget(other), ~IsOwned(other)
               PROVE  Cardinality(Present(p, target, now)' \cup {a}) <= MaxDistinct
    BY DEF TargetRoom, OnTarget, IsOwned
  <2>1. PICK t : t = now
    OBVIOUS
  <2>2. Present(p, target, t)' = Present(p, target, t)
    <3>1. t \in Int
      BY <1>1, <2>1
    <3>2. Joined(Present(p, target, t), Present(p, target, t)', ask.account,
                 /\ OnTarget(ask) /\ ask.target = target /\ ~IsOwned(ask) /\ solo
                 /\ now \in (t - TargetWindow)..t)
      BY <1>2, <3>1, SucceedSets
    <3> QED
      BY <3>2 DEF Joined
  <2>3. Present(p, target, now)' = Present(p, target, t)'
    BY <1>1, <2>1 DEF Present, There
  <2>4. Cardinality(Present(p, target, t) \cup {a}) <= MaxDistinct
    BY <2>1 DEF Room, TargetRoom
  <2> QED
    BY <2>2, <2>3, <2>4
<1> QED
  BY <1>3, <1>4, <1>5 DEF Room

\* An act is carried out.
LEMMA SucceedInv == ASSUME Inv, NEW r \in Requests, Succeed(r)  PROVE Inv'
<1> USE DEF Inv
<1>1. PICK p \in Processes, ask \in Asks, solo \in BOOLEAN : Carries(r, p, ask, solo)
  BY Fields DEF TypeOK, Carries
<1>2. /\ req' \in [Requests -> ReqSet] /\ req[r].pc = "dispatch" /\ now' = now
      /\ \A q \in Requests \ {r} : req'[q] = req[q]
      /\ req'[r].pc = "done" /\ req'[r].at = now
  BY SucceedStep
<1>3. /\ Adds(p, r) /\ p = req[r].process /\ ask = req[r].ask
      /\ \A q \in Processes \ {p} : Keeps(q)
  BY <1>1, SucceedAdds DEF Carries
<1>4. /\ events' \in [Processes -> [Accounts \X Verbs -> Seq(Nat)]]
      /\ \A q \in Processes, j \in Accounts \X Verbs : OrderedTimes(events[q][j])'
      /\ \A q \in Processes \ {p} : events'[q] = events[q]
  BY <1>3, SucceedEvents, Zenon
<1>5. /\ promo' \in [Processes -> [Accounts -> Nat]]
      /\ nonPromo' \in [Processes -> [Accounts -> Nat]]
      /\ \A q \in Processes \ {p} : promo'[q] = promo[q] /\ nonPromo'[q] = nonPromo[q]
  BY <1>3, SucceedLedger
<1>6. /\ hits' \in [Processes -> [Targets -> Seq([account : Accounts, time : Nat])]]
      /\ \A q \in Processes \ {p} : hits'[q] = hits[q]
  BY <1>3, SucceedHits
<1>7. TypeOK'
  BY <1>2, <1>4, <1>5, <1>6 DEF TypeOK
<1>8. Ordered'
  <2>1. now \in Nat /\ now <= now /\ \A q \in Requests : req[q].at <= now
    BY DEF Ordered, TypeOK
  <2>2. \A q \in Requests : req'[q].at <= now'
    BY <1>2, <2>1
  <2> QED
    BY <1>4, <2>2 DEF Ordered
<1>9. ASSUME NEW q \in Processes  PROVE Tracked(q)' /\ Limited(q)'
  <2>1. CASE q = p
    BY <1>1, <1>3, <2>1, SucceedTracked, SucceedLimited
  <2>2. CASE q # p
    <3>1. Keeps(q) /\ Tracked(q) /\ Limited(q) /\ IsFiniteSet(Done(q))
      BY <1>3, <2>2 DEF Tracked
    <3>2. now' \in Nat /\ now' >= now /\ now' \in {now, now + 1}
      BY <1>2 DEF TypeOK
    <3>3. Tracked(q)'
      BY <1>4, <1>5, <1>6, <2>2, <3>1, <3>2, KeptTrackers
    <3> QED
      BY <3>1, <3>2, <3>3, KeptLimits
  <2> QED
    BY <2>1, <2>2
<1>10. ASSUME NEW q \in Requests, NEW x \in Processes, NEW other \in Asks, UnderWay(q, x, other)'
       PROVE  Sole(q)' /\ Room(x, other)'
  <2>1. q # r
    BY <1>2, <1>10 DEF UnderWay
  <2>2. UnderWay(q, x, other)
    BY <1>2, <1>10, <2>1 DEF UnderWay
  <2>3. Sole(q) /\ Room(x, other)
    BY <2>2, RoomyAs
  <2>4. Sole(q)'
    BY <1>2, <2>1, <2>3 DEF Sole
  <2>5. CASE x = p
    <3>1. ~req[r].solo
      BY <1>2, <1>3, <2>1, <2>2, <2>3, <2>5 DEF Sole, UnderWay
    <3>2. ~solo
      BY <1>1, <3>1 DEF Carries
    <3>3. Room(x, other)'
      BY <1>1, <2>3, <2>5, <3>2, SucceedRoom
    <3> QED
      BY <2>4, <3>3
  <2>6. CASE x # p
    <3>1. Keeps(x) /\ IsFiniteSet(Done(x)) /\ now' \in {now, now + 1}
      BY <1>2, <1>3, <2>6 DEF Tracked
    <3>2. Room(x, other)'
      BY <2>3, <3>1, KeptRoom DEF Room
    <3> QED
      BY <2>4, <3>2
  <2> QED
    BY <2>5, <2>6
<1>11. Roomy'
  BY <1>10 DEF Roomy, UnderWay, Room
<1> QED
  BY <1>7, <1>8, <1>9, <1>11

-----------------------------------------------------------------------------
(* The theorems.                                                           *)

\* The invariant holds in every state.
THEOREM Invariance == Spec => []Inv
<1>1. Inv /\ [Next]_vars => Inv'
  BY JudgeInv, SucceedInv, OtherInv, RestartInv, TickInv DEF Next
<1> QED
  BY <1>1, InvInit, PTL DEF Spec

\* The trackers, the clock and the memory of the requests have their types.
THEOREM TypeCorrect == Spec => []TypeOK
BY Invariance, PTL DEF Inv

\* RateLimiter: in no rolling window does a process carry out more acts that
\* were judged alone than the limit, whatever else it has under way.
THEOREM RateKept == Spec => []RateHoldsAlone
<1>1. Inv => RateHoldsAlone
  BY DEF Inv, Limited, RateLimited, RateHoldsAlone, SoloWithin
<1> QED
  BY <1>1, Invariance, PTL

\* SelfPromoLedger: the promotional writes that were judged alone never exceed
\* what the other writes grant.
THEOREM RatioKept == Spec => []RatioHoldsAlone
<1>1. Inv => RatioHoldsAlone
  BY DEF Inv, Limited, RatioLimited, RatioHoldsAlone, SoloPromos, Promos, Texts
<1> QED
  BY <1>1, Invariance, PTL

\* CoordinationTracker: no more accounts act on a target within the window,
\* when judged alone, than are let through.
THEOREM CoordinationKept == Spec => []CoordinationHoldsAlone
<1>1. Inv => CoordinationHoldsAlone
  BY DEF Inv, Limited, TargetLimited, CoordinationHoldsAlone, There, Present
<1> QED
  BY <1>1, Invariance, PTL

\* The trackers count what an adapter reported as done, each act once and on
\* its side of the ledger, whatever was refused, routed or failed in between,
\* and after any number of restarts.
THEOREM Counts == Spec => []CountsWhatWasDone
<1>1. Inv => CountsWhatWasDone
  BY LimiterCounts DEF Inv, CountsWhatWasDone, Tracked, Recorded, Met, Texts, Promos
<1> QED
  BY <1>1, Invariance, PTL

=============================================================================
