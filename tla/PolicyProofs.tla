---------------------------- MODULE PolicyProofs ----------------------------
(***************************************************************************)
(* Proofs about Policy for any overrides, consents, counts and ledgers.    *)
(* They rest on one fact about the engine, Judgement, which says without   *)
(* an order what its first guard to speak comes to, and on one invariant   *)
(* of the account, that the compliance markers come with a connection and  *)
(* that in dry run nothing but these markers is ever written.              *)
(***************************************************************************)
EXTENDS Policy, TLAPS

-----------------------------------------------------------------------------
(* The engine: the first guard that does not allow decides.                *)

\* Some guard refuses account a the request r under policy p.
Forbidden(a, r, p) ==
  \/ AccountActiveRefuses(a) \/ LockRefuses(r) \/ AuthorizationRefuses(a, r)
  \/ CapabilityRefuses(a, r, p) \/ SelfIdentificationRefuses(a, r, p)
  \/ RateLimitRefuses(r, p) \/ ManipulationRefuses(a, r, p)
  \/ PlatformRulesRefuse(a, r, p) \/ CoordinationRefuses(r)

\* The policy that applies to an account.
PolicyOf(a) == Resolve(a.platform, a.overrides)

\* The opinion of each guard is its own condition, and only the reviewer routes.
LEMMA Opinions ==
  ASSUME NEW a, NEW r, NEW p
  PROVE  /\ Opinion("account_active", a, r, p) = IF AccountActiveRefuses(a) THEN "deny" ELSE "allow"
         /\ Opinion("lock", a, r, p) = IF LockRefuses(r) THEN "deny" ELSE "allow"
         /\ Opinion("authorization", a, r, p)
              = IF AuthorizationRefuses(a, r) THEN "deny" ELSE "allow"
         /\ Opinion("capability", a, r, p) = IF CapabilityRefuses(a, r, p) THEN "deny" ELSE "allow"
         /\ Opinion("self_identification", a, r, p)
              = IF SelfIdentificationRefuses(a, r, p) THEN "deny" ELSE "allow"
         /\ Opinion("rate_limit", a, r, p) = IF RateLimitRefuses(r, p) THEN "deny" ELSE "allow"
         /\ Opinion("manipulation", a, r, p)
              = IF ManipulationRefuses(a, r, p) THEN "deny" ELSE "allow"
         /\ Opinion("platform_rules", a, r, p)
              = IF PlatformRulesRefuse(a, r, p) THEN "deny" ELSE "allow"
         /\ Opinion("coordination", a, r, p) = IF CoordinationRefuses(r) THEN "deny" ELSE "allow"
         /\ Opinion("autonomy", a, r, p) = IF AutonomyRoutes(a, r) THEN "route" ELSE "allow"
BY DEF Opinion

\* The reviewer comes last, and every guard has its place before.
LEMMA Places ==
  /\ DOMAIN Guards = 1..10
  /\ Guards[1] = "account_active" /\ Guards[2] = "lock" /\ Guards[3] = "authorization"
  /\ Guards[4] = "capability" /\ Guards[5] = "self_identification" /\ Guards[6] = "rate_limit"
  /\ Guards[7] = "manipulation" /\ Guards[8] = "platform_rules" /\ Guards[9] = "coordination"
  /\ Guards[10] = "autonomy"
BY DEF Guards

\* Some guard is the first of those that stop a request.
LEMMA FirstStop ==
  ASSUME NEW stops \in SUBSET (1..10), stops # {}
  PROVE  \E i \in stops : \A j \in stops : i <= j
<1>1. CASE 1 \in stops \/ 2 \in stops \/ 3 \in stops \/ 4 \in stops \/ 5 \in stops
  <2>1. CASE 1 \in stops
    BY <2>1
  <2>2. CASE 1 \notin stops /\ 2 \in stops
    BY <2>2
  <2>3. CASE 1 \notin stops /\ 2 \notin stops /\ 3 \in stops
    BY <2>3
  <2>4. CASE 1 \notin stops /\ 2 \notin stops /\ 3 \notin stops /\ 4 \in stops
    BY <2>4
  <2>5. CASE /\ 1 \notin stops /\ 2 \notin stops /\ 3 \notin stops /\ 4 \notin stops
             /\ 5 \in stops
    BY <2>5
  <2> QED
    BY <1>1, <2>1, <2>2, <2>3, <2>4, <2>5
<1>2. CASE 1 \notin stops /\ 2 \notin stops /\ 3 \notin stops /\ 4 \notin stops /\ 5 \notin stops
  <2>1. stops \subseteq 6..10
    BY <1>2
  <2>2. CASE 6 \in stops
    BY <2>1, <2>2
  <2>3. CASE 6 \notin stops /\ 7 \in stops
    BY <2>1, <2>3
  <2>4. CASE 6 \notin stops /\ 7 \notin stops /\ 8 \in stops
    BY <2>1, <2>4
  <2>5. CASE 6 \notin stops /\ 7 \notin stops /\ 8 \notin stops /\ 9 \in stops
    BY <2>1, <2>5
  <2>6. CASE 6 \notin stops /\ 7 \notin stops /\ 8 \notin stops /\ 9 \notin stops
    <3>1. PICK i \in stops : TRUE
      OBVIOUS
    <3>2. i = 10 /\ \A j \in stops : j = 10
      BY <2>1, <2>6
    <3> QED
      BY <3>2
  <2> QED
    BY <2>2, <2>3, <2>4, <2>5, <2>6
<1> QED
  BY <1>1, <1>2

\* What the pipeline comes to: a request is refused if and only if some guard
\* refuses it, routed if none does and the reviewer wants it, else allowed.
THEOREM Judgement ==
  ASSUME NEW a, NEW r
  PROVE  Verdict(a, r) = IF Forbidden(a, r, PolicyOf(a)) THEN "deny"
                         ELSE IF AutonomyRoutes(a, r) THEN "route" ELSE "allow"
<1> DEFINE p == PolicyOf(a)
           says(i) == Opinion(Guards[i], a, r, p)
           stops == {i \in DOMAIN Guards : says(i) # "allow"}
           first == CHOOSE i \in stops : \A j \in stops : i <= j
<1>1. Verdict(a, r) = IF stops = {} THEN "allow" ELSE says(first)
  BY DEF Verdict, PolicyOf
<1>2. /\ \A i \in 1..9 : says(i) \in {"deny", "allow"}
      /\ (\E i \in 1..9 : says(i) = "deny") <=> Forbidden(a, r, p)
      /\ says(10) = IF AutonomyRoutes(a, r) THEN "route" ELSE "allow"
  <2> HIDE DEF p
  <2>1. /\ says(1) = IF AccountActiveRefuses(a) THEN "deny" ELSE "allow"
        /\ says(2) = IF LockRefuses(r) THEN "deny" ELSE "allow"
        /\ says(3) = IF AuthorizationRefuses(a, r) THEN "deny" ELSE "allow"
        /\ says(4) = IF CapabilityRefuses(a, r, p) THEN "deny" ELSE "allow"
        /\ says(5) = IF SelfIdentificationRefuses(a, r, p) THEN "deny" ELSE "allow"
    BY Places, Opinions
  <2>2. /\ says(6) = IF RateLimitRefuses(r, p) THEN "deny" ELSE "allow"
        /\ says(7) = IF ManipulationRefuses(a, r, p) THEN "deny" ELSE "allow"
        /\ says(8) = IF PlatformRulesRefuse(a, r, p) THEN "deny" ELSE "allow"
        /\ says(9) = IF CoordinationRefuses(r) THEN "deny" ELSE "allow"
        /\ says(10) = IF AutonomyRoutes(a, r) THEN "route" ELSE "allow"
    BY Places, Opinions
  <2> HIDE DEF says
  <2>3. \A i \in 1..9 :
          i = 1 \/ i = 2 \/ i = 3 \/ i = 4 \/ i = 5 \/ i = 6 \/ i = 7 \/ i = 8 \/ i = 9
    OBVIOUS
  <2>4. \A i \in 1..9 : says(i) \in {"deny", "allow"}
    BY <2>1, <2>2, <2>3
  <2>5. ASSUME NEW i \in 1..9, says(i) = "deny"  PROVE Forbidden(a, r, p)
    BY <2>1, <2>2, <2>3, <2>5 DEF Forbidden
  <2>6. ASSUME Forbidden(a, r, p)  PROVE \E i \in 1..9 : says(i) = "deny"
    <3>1. \/ says(1) = "deny" \/ says(2) = "deny" \/ says(3) = "deny" \/ says(4) = "deny"
          \/ says(5) = "deny" \/ says(6) = "deny" \/ says(7) = "deny" \/ says(8) = "deny"
          \/ says(9) = "deny"
      BY <2>1, <2>2, <2>6 DEF Forbidden
    <3> QED
      BY <3>1
  <2> QED
    BY <2>2, <2>4, <2>5, <2>6
<1>3. stops \subseteq 1..10 /\ \A i \in 1..10 : i \in stops <=> says(i) # "allow"
  BY Places
<1> HIDE DEF stops, says, p
<1>4. ASSUME stops # {}  PROVE first \in stops /\ \A j \in stops : first <= j
  BY <1>3, <1>4, FirstStop
<1> HIDE DEF first
<1>5. CASE Forbidden(a, r, p)
  <2>1. PICK i \in 1..9 : says(i) = "deny"
    BY <1>2, <1>5
  <2>2. i \in stops
    BY <1>3, <2>1
  <2>3. first \in stops /\ first <= i
    BY <1>4, <2>2
  <2>4. first \in 1..9
    BY <1>3, <2>3
  <2> QED
    BY <1>1, <1>2, <1>3, <1>5, <2>2, <2>3, <2>4 DEF p
<1>6. CASE ~Forbidden(a, r, p)
  <2>1. \A i \in 1..9 : i \notin stops
    BY <1>2, <1>3, <1>6
  <2>2. stops \subseteq {10}
    BY <1>3, <2>1
  <2>3. CASE AutonomyRoutes(a, r)
    <3>1. says(10) = "route" /\ 10 \in 1..10
      BY <1>2, <2>3
    <3>2. stops = {10}
      BY <1>3, <2>2, <3>1
    <3>3. first = 10
      BY <1>4, <3>2
    <3> QED
      BY <1>1, <1>6, <2>3, <3>1, <3>2, <3>3 DEF p
  <2>4. CASE ~AutonomyRoutes(a, r)
    <3>1. stops = {}
      BY <1>2, <1>3, <2>2, <2>4
    <3> QED
      BY <1>1, <1>6, <2>4, <3>1 DEF p
  <2> QED
    BY <2>3, <2>4
<1> QED
  BY <1>5, <1>6

-----------------------------------------------------------------------------
(* The tables: policies, overrides and adapters.                           *)

Modes == {"api", "draft_only", "manual"}
Policies == [mode : Modes, verbs : SUBSET Verbs, rate : [Verbs -> Nat], react : BOOLEAN,
             vote : {FALSE}, bot : BOOLEAN, label : BOOLEAN, ratio : {0, 9}]

\* A policy that offers what it lists, and no vote.
LEMMA PlainPolicy ==
  ASSUME NEW mode \in Modes, NEW verbs \in SUBSET Verbs, NEW rate \in [Verbs -> Nat]
  PROVE  Plain(mode, verbs, rate) \in Policies
BY DEF Plain, Policies

\* Limits given verb by verb.
LEMMA RatesType ==
  ASSUME NEW u \in Nat, NEW v \in Nat, NEW w \in Nat, NEW x \in Nat, NEW y \in Nat, NEW z \in Nat
  PROVE  Rates(u, v, w, x, y, z) \in [Verbs -> Nat]
<1>1. \A verb \in Verbs : Rates(u, v, w, x, y, z)[verb] \in {u, v, w, x, y, z}
  BY DEF Rates, Verbs, Writes, ReadVerbs
<1> QED
  BY <1>1 DEF Rates

\* Platform by platform.
LEMMA Baselines ==
  /\ Baseline["reddit"]
       = [Plain("api", Verbs \ {"react"}, Rates(1, 3, 0, 30, 30, 10)) EXCEPT !.ratio = 9]
  /\ Baseline["mastodon"]
       = [Plain("api", Verbs, Rates(5, 10, 20, 60, 0, 30)) EXCEPT !.bot = TRUE]
  /\ Baseline["bluesky"]
       = [Plain("api", Verbs, Rates(5, 10, 20, 60, 0, 30)) EXCEPT !.label = TRUE]
  /\ Baseline["twitter"] = Plain("api", Verbs, Rates(3, 5, 10, 15, 0, 10))
  /\ Baseline["medium"] = Plain("draft_only", {"publish", "read"}, Rates(2, 0, 0, 20, 0, 0))
  /\ Baseline["substack"] = Plain("manual", {"publish", "read"}, Rates(1, 0, 0, 20, 0, 0))
  /\ Baseline["other"] = Plain("manual", ReadVerbs, Rates(0, 0, 0, 20, 0, 0))
BY DEF Baseline, Platforms

\* Every baseline is a policy.
LEMMA BaselineType == ASSUME NEW p \in Platforms  PROVE Baseline[p] \in Policies
<1>1. CASE p \in {"reddit", "mastodon", "bluesky", "twitter"}
  <2>1. /\ Rates(1, 3, 0, 30, 30, 10) \in [Verbs -> Nat]
        /\ Rates(5, 10, 20, 60, 0, 30) \in [Verbs -> Nat]
        /\ Rates(3, 5, 10, 15, 0, 10) \in [Verbs -> Nat]
    BY RatesType
  <2>2. /\ Plain("api", Verbs \ {"react"}, Rates(1, 3, 0, 30, 30, 10)) \in Policies
        /\ Plain("api", Verbs, Rates(5, 10, 20, 60, 0, 30)) \in Policies
        /\ Plain("api", Verbs, Rates(3, 5, 10, 15, 0, 10)) \in Policies
    BY <2>1, PlainPolicy DEF Modes
  <2> HIDE DEF Policies
  <2>3. ASSUME NEW q \in Policies
        PROVE  /\ [q EXCEPT !.ratio = 9] \in Policies /\ [q EXCEPT !.bot = TRUE] \in Policies
               /\ [q EXCEPT !.label = TRUE] \in Policies
    BY DEF Policies
  <2>4. /\ Baseline["reddit"] \in Policies /\ Baseline["mastodon"] \in Policies
        /\ Baseline["bluesky"] \in Policies /\ Baseline["twitter"] \in Policies
    <3>1. Baseline["reddit"] \in Policies
      BY <2>2, <2>3, Baselines
    <3>2. Baseline["mastodon"] \in Policies
      BY <2>2, <2>3, Baselines
    <3>3. Baseline["bluesky"] \in Policies
      BY <2>2, <2>3, Baselines
    <3>4. Baseline["twitter"] \in Policies
      BY <2>2, Baselines
    <3> QED
      BY <3>1, <3>2, <3>3, <3>4
  <2> QED
    BY <1>1, <2>4
<1>2. CASE p \in {"medium", "substack", "other"}
  <2>1. /\ Rates(2, 0, 0, 20, 0, 0) \in [Verbs -> Nat]
        /\ Rates(1, 0, 0, 20, 0, 0) \in [Verbs -> Nat]
        /\ Rates(0, 0, 0, 20, 0, 0) \in [Verbs -> Nat]
    BY RatesType
  <2>2. {"publish", "read"} \subseteq Verbs /\ ReadVerbs \subseteq Verbs
    BY DEF Verbs, Writes, ReadVerbs
  <2>3. /\ Plain("draft_only", {"publish", "read"}, Rates(2, 0, 0, 20, 0, 0)) \in Policies
        /\ Plain("manual", {"publish", "read"}, Rates(1, 0, 0, 20, 0, 0)) \in Policies
        /\ Plain("manual", ReadVerbs, Rates(0, 0, 0, 20, 0, 0)) \in Policies
    BY <2>1, <2>2, PlainPolicy DEF Modes
  <2> QED
    BY <1>2, <2>3, Baselines
<1> QED
  BY <1>1, <1>2 DEF Platforms

\* An override changes the limits, the marks and the ratio of a policy; it
\* asks for marks, it waives none, and a ratio only grows.
LEMMA Resolved ==
  ASSUME NEW p \in Platforms, NEW o \in Overrides
  PROVE  LET base == Baseline[p]
             all  == Resolve(p, o)
         IN  /\ all.mode = base.mode /\ all.verbs = base.verbs
             /\ all.react = base.react /\ all.vote = FALSE
             /\ all.rate = [v \in Verbs |-> Lowered(base.rate[v], o.rate, v)]
             /\ all.bot = (base.bot \/ o.bot) /\ all.label = (base.label \/ o.label)
             /\ all.ratio = IF o.ratio > base.ratio THEN o.ratio ELSE base.ratio
<1> DEFINE base == Baseline[p]
           all  == Resolve(p, o)
<1>1. base \in Policies
  BY BaselineType
<1>2. all = [base EXCEPT !.rate  = [v \in Verbs |-> Lowered(@[v], o.rate, v)],
                          !.bot   = @ \/ o.bot,
                          !.label = @ \/ o.label,
                          !.ratio = IF o.ratio > @ THEN o.ratio ELSE @]
  BY DEF Resolve
<1> HIDE DEF base, all
<1>3. /\ all.mode = base.mode /\ all.verbs = base.verbs
      /\ all.react = base.react /\ all.vote = FALSE
  BY <1>1, <1>2 DEF Policies
<1>4. /\ all.rate = [v \in Verbs |-> Lowered(base.rate[v], o.rate, v)]
      /\ all.bot = (base.bot \/ o.bot) /\ all.label = (base.label \/ o.label)
      /\ all.ratio = IF o.ratio > base.ratio THEN o.ratio ELSE base.ratio
  BY <1>1, <1>2 DEF Policies
<1> QED
  BY <1>3, <1>4 DEF base, all

\* What each adapter declares, what it implements, and what it reports.
LEMMA Adapters ==
  /\ \A p : LET fake == FakeAdapter(p) IN
       /\ fake.can = Verbs /\ fake.does = Methods /\ fake.blind = {}
       /\ fake.bot = {p = "mastodon"} /\ fake.label = {p = "bluesky"}
  /\ RedditAdapter.can = Verbs \ {"react"} /\ RedditAdapter.does = Methods \ {"react"}
  /\ MastodonAdapter.can = Verbs /\ MastodonAdapter.does = Methods
  /\ BlueskyAdapter.can = Verbs /\ BlueskyAdapter.does = Methods
  /\ TwitterAdapter.can = Verbs /\ TwitterAdapter.does = Methods
  /\ MediumAdapter.can = {"publish", "read", "monitor"} /\ MediumAdapter.does = {"read"}
  /\ SubstackAdapter.can = {"publish", "read", "monitor"} /\ SubstackAdapter.does = {"read"}
  /\ MastodonAdapter.bot = BOOLEAN /\ MastodonAdapter.label = {FALSE}
  /\ MastodonAdapter.blind = {"ensure_self_identification"}
  /\ BlueskyAdapter.bot = {FALSE} /\ BlueskyAdapter.label = {TRUE} /\ BlueskyAdapter.blind = {}
  /\ \A d \in {RedditAdapter, TwitterAdapter, MediumAdapter, SubstackAdapter} :
       d.bot = {FALSE} /\ d.label = {FALSE} /\ d.blind = {}
<1>1. PlatformAdapter = [can |-> {}, does |-> {}, bot |-> {FALSE}, label |-> {FALSE}, blind |-> {}]
  BY DEF PlatformAdapter
<1>2. /\ RedditAdapter.can = Verbs \ {"react"} /\ RedditAdapter.does = Methods \ {"react"}
      /\ RedditAdapter.bot = {FALSE} /\ RedditAdapter.label = {FALSE} /\ RedditAdapter.blind = {}
  BY <1>1 DEF RedditAdapter
<1>3. /\ MastodonAdapter.can = Verbs /\ MastodonAdapter.does = Methods
      /\ MastodonAdapter.bot = BOOLEAN /\ MastodonAdapter.label = {FALSE}
      /\ MastodonAdapter.blind = {"ensure_self_identification"}
  BY <1>1 DEF MastodonAdapter
<1>4. /\ BlueskyAdapter.can = Verbs /\ BlueskyAdapter.does = Methods
      /\ BlueskyAdapter.bot = {FALSE} /\ BlueskyAdapter.label = {TRUE} /\ BlueskyAdapter.blind = {}
  BY <1>1 DEF BlueskyAdapter
<1>5. /\ TwitterAdapter.can = Verbs /\ TwitterAdapter.does = Methods
      /\ TwitterAdapter.bot = {FALSE} /\ TwitterAdapter.label = {FALSE} /\ TwitterAdapter.blind = {}
  BY <1>1 DEF TwitterAdapter
<1>6. /\ MediumAdapter.can = {"publish", "read", "monitor"} /\ MediumAdapter.does = {"read"}
      /\ MediumAdapter.bot = {FALSE} /\ MediumAdapter.label = {FALSE} /\ MediumAdapter.blind = {}
  BY <1>1 DEF MediumAdapter
<1>7. /\ SubstackAdapter.can = {"publish", "read", "monitor"} /\ SubstackAdapter.does = {"read"}
      /\ SubstackAdapter.bot = {FALSE} /\ SubstackAdapter.label = {FALSE}
      /\ SubstackAdapter.blind = {}
  BY <1>1 DEF SubstackAdapter
<1>8. ASSUME NEW p
      PROVE  LET fake == FakeAdapter(p) IN
             /\ fake.can = Verbs /\ fake.does = Methods /\ fake.blind = {}
             /\ fake.bot = {p = "mastodon"} /\ fake.label = {p = "bluesky"}
  BY <1>1 DEF FakeAdapter
<1> QED
  BY <1>2, <1>3, <1>4, <1>5, <1>6, <1>7, <1>8

\* The adapter of an account is one of these, by platform and configuration.
LEMMA AdapterCases ==
  ASSUME NEW a \in Accounts
  PROVE  \/ AdapterOf(a) = FakeAdapter(a.platform)
         \/ a.platform = "reddit" /\ AdapterOf(a) = RedditAdapter
         \/ a.platform = "mastodon" /\ AdapterOf(a) = MastodonAdapter
         \/ a.platform = "bluesky" /\ AdapterOf(a) = BlueskyAdapter
         \/ a.platform = "twitter" /\ AdapterOf(a) = TwitterAdapter
         \/ a.platform = "medium" /\ AdapterOf(a) = MediumAdapter
         \/ a.platform = "substack" /\ AdapterOf(a) = SubstackAdapter
BY DEF AdapterOf, RealPlatforms, Platforms, Accounts

\* What an adapter reports of its marks are flags, and the only method that
\* may write in spite of dry_run sets them.
LEMMA AdapterMarks ==
  ASSUME NEW a \in Accounts
  PROVE  /\ AdapterOf(a).bot \subseteq BOOLEAN /\ AdapterOf(a).label \subseteq BOOLEAN
         /\ AdapterOf(a).blind \subseteq {"ensure_self_identification"}
<1>1. CASE AdapterOf(a) = FakeAdapter(a.platform)
  <2>1. /\ AdapterOf(a).bot = {a.platform = "mastodon"}
        /\ AdapterOf(a).label = {a.platform = "bluesky"} /\ AdapterOf(a).blind = {}
    BY <1>1, Adapters
  <2>2. \A x : {x = "mastodon"} \subseteq BOOLEAN /\ {x = "bluesky"} \subseteq BOOLEAN
    BY Zenon
  <2> QED
    BY <2>1, <2>2, Zenon
<1>2. CASE /\ AdapterOf(a).bot \in {{FALSE}, BOOLEAN} /\ AdapterOf(a).label \in {{FALSE}, {TRUE}}
           /\ AdapterOf(a).blind \in {{}, {"ensure_self_identification"}}
  BY <1>2, Zenon
<1> QED
  BY <1>1, <1>2, AdapterCases, Adapters, Zenon

\* What an adapter declares, it implements, save for content that is staged.
LEMMA AdapterOffers ==
  ASSUME NEW a \in Accounts, NEW verb \in AdapterOf(a).can
  PROVE  \/ verb = "publish" /\ Baseline[a.platform].mode \in Staged
         \/ (IF verb = "monitor" THEN "read" ELSE verb) \in AdapterOf(a).does
<1>1. CASE \/ AdapterOf(a).can = Verbs /\ AdapterOf(a).does = Methods
           \/ AdapterOf(a).can = Verbs \ {"react"} /\ AdapterOf(a).does = Methods \ {"react"}
  BY <1>1 DEF Verbs, Writes, ReadVerbs, Methods
<1>2. CASE /\ a.platform \in {"medium", "substack"}
           /\ AdapterOf(a).can = {"publish", "read", "monitor"} /\ AdapterOf(a).does = {"read"}
  <2>1. Baseline[a.platform].mode \in Staged
    BY <1>2, Baselines DEF Plain, Staged
  <2> QED
    BY <1>2, <2>1
<1> QED
  BY <1>1, <1>2, AdapterCases, Adapters


-----------------------------------------------------------------------------
(* The account: its type, and where its compliance markers come from.      *)

\* The markers of an account are what was said of the connection it has.
Marked == /\ account.bot = told.bot /\ account.label = told.label
          /\ ~account.connected => told = Nothing

Inv == TypeOK /\ Marked /\ ActsStayDry

\* Settling changes an account's status, and nothing else.
LEMMA Settling ==
  ASSUME NEW a \in Accounts
  PROVE  /\ Settled(a) \in Accounts /\ Settled(a).connected = a.connected
         /\ Settled(a).bot = a.bot /\ Settled(a).label = a.label
<1>1. CASE a.status \in {"suspended", "retired"}
  BY <1>1 DEF Settled
<1>2. CASE a.status \notin {"suspended", "retired"}
  <2>1. PICK s \in States : Settled(a) = [a EXCEPT !.status = s]
    BY <1>2 DEF Settled, States
  <2> QED
    BY <2>1 DEF Accounts
<1> QED
  BY <1>1, <1>2

\* An account starts as a draft, with neither connection nor markers.
LEMMA InvInit == Init => Inv
<1> SUFFICES ASSUME Init  PROVE Inv
  OBVIOUS
<1>1. account \in Accounts
  BY PolicyAssumption DEF Init, Accounts, States
<1>2. ~account.bot /\ ~account.label
  BY DEF Init
<1> QED
  BY <1>1, <1>2 DEF Init, Inv, TypeOK, Marked, Marks, Nothing, ActsStayDry

\* Consent, in scopes that were given at once.
LEMMA AuthorizeInv == Inv /\ Authorize => Inv'
<1> SUFFICES ASSUME Inv, Authorize  PROVE Inv'
  OBVIOUS
<1>1. PICK scopes \in Consents :
        account' = Settled([account EXCEPT !.authorized = TRUE, !.scopes = scopes])
  BY DEF Authorize
<1> DEFINE b == [account EXCEPT !.authorized = TRUE, !.scopes = scopes]
<1>2. /\ b \in Accounts /\ b.connected = account.connected
      /\ b.bot = account.bot /\ b.label = account.label
  BY DEF Inv, TypeOK, Accounts
<1> HIDE DEF b
<1>3. account' = Settled(b)
  BY <1>1 DEF b
<1> QED
  BY <1>2, <1>3, Settling DEF Inv, TypeOK, Marked, Authorize, ActsStayDry

\* A connection, with the marks the adapter reports.
LEMMA ConnectInv == Inv /\ Connect => Inv'
<1> SUFFICES ASSUME Inv, Connect  PROVE Inv'
  OBVIOUS
<1>1. PICK bot \in AdapterOf(account).bot, label \in AdapterOf(account).label :
        /\ account' = Settled([account EXCEPT !.connected = TRUE, !.bot = bot, !.label = label])
        /\ told' = [bot |-> bot, label |-> label]
  BY DEF Connect
<1>2. account \in Accounts
  BY DEF Inv, TypeOK
<1>3. bot \in BOOLEAN /\ label \in BOOLEAN
  BY <1>2, AdapterMarks
<1> DEFINE b == [account EXCEPT !.connected = TRUE, !.bot = bot, !.label = label]
<1>4. b \in Accounts /\ b.connected = TRUE /\ b.bot = bot /\ b.label = label
  BY <1>2, <1>3 DEF Accounts
<1> HIDE DEF b
<1>5. account' = Settled(b)
  BY <1>1 DEF b
<1>6. /\ account' \in Accounts /\ account'.connected
      /\ account'.bot = bot /\ account'.label = label
  BY <1>4, <1>5, Settling
<1>7. Sends("ensure_self_identification") \subseteq {"ensure_self_identification"}
      /\ (~DryRun => Sends("ensure_self_identification") = {})
  BY DEF Sends
<1>8. TypeOK' /\ ActsStayDry'
  BY <1>1, <1>3, <1>6, <1>7 DEF Connect, Inv, TypeOK, ActsStayDry, Marks
<1> QED
  BY <1>1, <1>6, <1>8 DEF Inv, Marked

\* A disconnect takes the marks with the connection.
LEMMA DisconnectInv == Inv /\ Disconnect => Inv'
<1> SUFFICES ASSUME Inv, Disconnect  PROVE Inv'
  OBVIOUS
<1> DEFINE b == [account EXCEPT !.connected = FALSE, !.bot = FALSE, !.label = FALSE]
<1>1. b \in Accounts /\ b.bot = FALSE /\ b.label = FALSE
  BY DEF Inv, TypeOK, Accounts
<1> HIDE DEF b
<1>2. account' = Settled(b)
  BY DEF Disconnect, b
<1> QED
  BY <1>1, <1>2, Settling DEF Inv, TypeOK, Marked, Disconnect, Marks, Nothing, ActsStayDry

\* What changes neither the connection nor its marks.
LEMMA OthersInv == Inv /\ (Revoke \/ Retire \/ Patch \/ Restart \/ Act) => Inv'
<1> SUFFICES ASSUME Inv, Revoke \/ Retire \/ Patch \/ Restart \/ Act  PROVE Inv'
  OBVIOUS
<1> USE DEF Inv, TypeOK, Marked, ActsStayDry
<1>1. CASE Revoke
  BY <1>1 DEF Revoke, Accounts, States
<1>2. CASE Retire
  BY <1>2 DEF Retire, Accounts, States
<1>3. CASE Patch
  BY <1>3 DEF Patch, Accounts
<1>4. CASE Restart
  BY <1>4 DEF Restart, Accounts
<1>5. CASE Act
  <2>1. PICK method \in Methods \cup {"none"} : wrote' = wrote \cup Sends(method)
    BY <1>5 DEF Act
  <2>2. Sends(method) \subseteq {"ensure_self_identification"}
    BY AdapterMarks DEF Sends
  <2> QED
    BY <1>5, <2>1, <2>2 DEF Act
<1> QED
  BY <1>1, <1>2, <1>3, <1>4, <1>5

\* The invariant, for every behaviour of the account.
THEOREM Invariance == Spec => []Inv
<1>1. Inv /\ [Next]_vars => Inv'
  <2> SUFFICES ASSUME Inv, [Next]_vars  PROVE Inv'
    OBVIOUS
  <2>1. CASE UNCHANGED vars
    BY <2>1 DEF Inv, TypeOK, Marked, ActsStayDry, vars
  <2> QED
    BY <2>1, AuthorizeInv, ConnectInv, DisconnectInv, OthersInv DEF Next
<1> QED
  BY <1>1, InvInit, PTL DEF Spec

\* TypeOK: the account stays an account as the tables know it, and only
\* adapter methods are ever recorded.
THEOREM TypeCorrect == Spec => []TypeOK
<1>1. Inv => TypeOK
  BY DEF Inv
<1> QED
  BY <1>1, Invariance, PTL

\* ActsStayDry: of the methods that a request can come to, every adapter looks
\* at dry_run before it writes.
THEOREM DryActs == Spec => []ActsStayDry
<1>1. Inv => ActsStayDry
  BY DEF Inv
<1> QED
  BY <1>1, Invariance, PTL

-----------------------------------------------------------------------------
(* What the guards keep, in whatever state the account is.                 *)

\* What a request is, as far as the guards need it.
LEMMA RequestFields ==
  ASSUME NEW r \in Requests
  PROVE  /\ r.verb \in Verbs /\ (r.vote => r.verb = "react")
         /\ r.ledger \in Ledgers \cup {NoLink} /\ r.used \in Uses
BY DEF Requests, Verbs, Writes

\* VotesNeverPass: no platform policy allows a vote, and no override can, so
\* the manipulation guard refuses every one, whatever the guards before it say.
THEOREM NoVotes == Spec => []VotesNeverPass
<1>1. Inv => VotesNeverPass
  <2> SUFFICES ASSUME Inv, NEW r \in Requests, r.vote  PROVE Verdict(account, r) = "deny"
    BY DEF VotesNeverPass
  <2>1. account.platform \in Platforms /\ account.overrides \in Overrides
    BY DEF Inv, TypeOK, Accounts
  <2>2. PolicyOf(account).vote = FALSE
    BY <2>1, Resolved DEF PolicyOf
  <2>3. ManipulationRefuses(account, r, PolicyOf(account))
    BY <2>2, RequestFields DEF ManipulationRefuses
  <2> QED
    BY <2>3, Judgement DEF Forbidden
<1> QED
  BY <1>1, Invariance, PTL

\* ReviewIsTheLastWord: whether an account is reviewed is looked at by the
\* autonomy guard only, and that guard comes last.
THEOREM ReviewedLast == Spec => []ReviewIsTheLastWord
<1>1. Inv => ReviewIsTheLastWord
  <2> DEFINE trusted == [account EXCEPT !.reviewed = FALSE, !.overrides = [@ EXCEPT !.all = FALSE]]
  <2> SUFFICES ASSUME Inv, NEW r \in Requests, Verdict(account, r) = "route"
               PROVE  Verdict(trusted, r) = "allow"
    BY DEF ReviewIsTheLastWord
  <2>1. account \in Accounts /\ account.overrides \in Overrides /\ IsOverride(account.overrides)
    BY PolicyAssumption DEF Inv, TypeOK, Accounts
  <2>2. /\ trusted.platform = account.platform /\ trusted.real = account.real
        /\ trusted.status = account.status /\ trusted.authorized = account.authorized
        /\ trusted.scopes = account.scopes /\ trusted.bot = account.bot
        /\ trusted.label = account.label /\ trusted.reviewed = FALSE
        /\ trusted.overrides = [account.overrides EXCEPT !.all = FALSE]
    BY <2>1 DEF Accounts
  <2>3. /\ trusted.overrides.rate = account.overrides.rate
        /\ trusted.overrides.bot = account.overrides.bot
        /\ trusted.overrides.label = account.overrides.label
        /\ trusted.overrides.ratio = account.overrides.ratio
        /\ trusted.overrides.all = FALSE
    BY <2>1, <2>2 DEF IsOverride
  <2> HIDE DEF trusted
  <2>4. PolicyOf(trusted) = PolicyOf(account)
    BY <2>2, <2>3 DEF PolicyOf, Resolve
  <2>5. AdapterOf(trusted) = AdapterOf(account)
    BY <2>2 DEF AdapterOf
  <2>6. Forbidden(trusted, r, PolicyOf(trusted)) <=> Forbidden(account, r, PolicyOf(account))
    BY <2>2, <2>4, <2>5
    DEF Forbidden, AccountActiveRefuses, AuthorizationRefuses, CapabilityRefuses,
        SelfIdentificationRefuses, ManipulationRefuses, PlatformRulesRefuse
  <2>7. ~AutonomyRoutes(trusted, r)
    BY <2>2, <2>3 DEF AutonomyRoutes
  <2>8. ~Forbidden(account, r, PolicyOf(account))
    BY Judgement
  <2> QED
    BY <2>6, <2>7, <2>8, Judgement
<1> QED
  BY <1>1, Invariance, PTL

\* WritesAreDisclosed: the self-identification guard asks for the markers of
\* the account, and those are, by the invariant, what was said of its connection.
THEOREM Disclosed == Spec => []WritesAreDisclosed
<1>1. Inv => WritesAreDisclosed
  <2> DEFINE p == PolicyOf(account)
  <2> SUFFICES ASSUME Inv, NEW r \in Requests, IsWrite(r), Verdict(account, r) # "deny"
               PROVE  /\ p.bot   => account.connected /\ told.bot
                      /\ p.label => account.connected /\ told.label
    BY DEF WritesAreDisclosed, PolicyOf
  <2>1. ~SelfIdentificationRefuses(account, r, p)
    BY Judgement DEF Forbidden
  <2>2. (p.bot => account.bot) /\ (p.label => account.label)
    BY <2>1 DEF SelfIdentificationRefuses
  <2>3. account.bot = told.bot /\ account.label = told.label
    BY DEF Inv, Marked
  <2>4. told.bot \/ told.label => account.connected
    BY DEF Inv, Marked, Nothing
  <2> QED
    BY <2>2, <2>3, <2>4
<1> QED
  BY <1>1, Invariance, PTL

\* UnsupportedNeverReached: the capability guard lets pass only what the
\* adapter declares, and that it implements, or the service stages.
THEOREM Supported == Spec => []UnsupportedNeverReached
<1>1. Inv => UnsupportedNeverReached
  <2> SUFFICES ASSUME Inv, NEW r \in Requests,
                      Method(account, r) \notin AdapterOf(account).does \cup {"none"}
               PROVE  Verdict(account, r) = "deny"
    BY DEF UnsupportedNeverReached
  <2>1. account \in Accounts
    BY DEF Inv, TypeOK
  <2>2. CASE r.verb \in AdapterOf(account).can
    <3>1. \/ r.verb = "publish" /\ Baseline[account.platform].mode \in Staged
          \/ (IF r.verb = "monitor" THEN "read" ELSE r.verb) \in AdapterOf(account).does
      BY <2>1, <2>2, AdapterOffers
    <3> QED
      BY <3>1 DEF Method
  <2>3. CASE r.verb \notin AdapterOf(account).can
    <3>1. CapabilityRefuses(account, r, PolicyOf(account))
      BY <2>3 DEF CapabilityRefuses
    <3> QED
      BY <3>1, Judgement DEF Forbidden
  <2> QED
    BY <2>2, <2>3
<1> QED
  BY <1>1, Invariance, PTL

\* TiersAreHonest: where the tier is not live a policy offers no comments and
\* no reactions, overrides add none, and what it publishes is staged.
THEOREM HonestTiers == Spec => []TiersAreHonest
<1>1. Inv => TiersAreHonest
  <2> SUFFICES ASSUME Inv, Tier(account.platform) # "live",
                      NEW r \in Requests, Method(account, r) \in Writes
               PROVE  Verdict(account, r) = "deny"
    BY DEF TiersAreHonest
  <2>1. account.platform \in Platforms /\ account.overrides \in Overrides
    BY DEF Inv, TypeOK, Accounts
  <2>2. \A p \in {"reddit", "mastodon", "bluesky", "twitter"} : Baseline[p].mode = "api"
    BY Baselines DEF Plain
  <2>3. account.platform \in {"medium", "substack", "other"}
    BY <2>1, <2>2 DEF Tier, RealPlatforms, Platforms
  <2>4. /\ Baseline[account.platform].mode \in Staged
        /\ Baseline[account.platform].verbs \in {{"publish", "read"}, ReadVerbs}
    BY <2>3, Baselines DEF Plain, Staged
  <2>5. PolicyOf(account).verbs = Baseline[account.platform].verbs
    BY <2>1, Resolved DEF PolicyOf
  <2>6. r.verb \in {"comment", "react"}
    BY <2>4 DEF Method, Writes
  <2>7. CapabilityRefuses(account, r, PolicyOf(account))
    BY <2>4, <2>5, <2>6 DEF CapabilityRefuses, ReadVerbs
  <2> QED
    BY <2>7, Judgement DEF Forbidden
<1> QED
  BY <1>1, Invariance, PTL

-----------------------------------------------------------------------------
(* Overrides.                                                              *)

\* No limit that an override sets is zero or less: the limiter takes such a
\* limit for none at all, and patch does not look at it.
Limiting(o) == \A v \in DOMAIN o.rate : o.rate[v] > 0

\* The more other writes a promotional one takes, the fewer there may be.
LEMMA FewerPromotional ==
  ASSUME NEW x \in Nat, NEW m \in Nat \ {0}, NEW n \in Nat \ {0}, m <= n
  PROVE  x \div n <= x \div m
<1> DEFINE q == x \div n
           d == x \div m
<1>1. q \in Nat /\ q * n <= x
  OBVIOUS
<1>2. d \in Nat /\ x < (d + 1) * m
  OBVIOUS
<1> HIDE DEF q, d
<1>3. q * m <= q * n
  BY <1>1
<1>4. q * m < (d + 1) * m
  BY <1>1, <1>2, <1>3
<1>5. q < d + 1
  BY <1>1, <1>2, <1>4
<1> QED
  BY <1>1, <1>2, <1>5 DEF q, d

\* Without overrides an account has the policy of its platform.
LEMMA Unmodified ==
  ASSUME NEW p \in Platforms
  PROVE  LET base == Baseline[p]
             all  == Resolve(p, NoOverrides)
         IN  /\ all.mode = base.mode /\ all.verbs = base.verbs
             /\ all.react = base.react /\ all.vote = FALSE
             /\ \A v \in Verbs : all.rate[v] = base.rate[v]
             /\ all.bot = base.bot /\ all.label = base.label /\ all.ratio = base.ratio
<1>1. /\ NoOverrides \in Overrides /\ NoOverrides.rate = << >> /\ ~NoOverrides.bot
      /\ ~NoOverrides.label /\ NoOverrides.ratio = 0
  BY PolicyAssumption DEF NoOverrides
<1>2. Baseline[p] \in Policies
  BY BaselineType
<1>3. \A v \in Verbs : Lowered(Baseline[p].rate[v], NoOverrides.rate, v) = Baseline[p].rate[v]
  BY <1>1 DEF Lowered
<1>4. Baseline[p].bot \in BOOLEAN /\ Baseline[p].label \in BOOLEAN /\ Baseline[p].ratio \in {0, 9}
  BY <1>2 DEF Policies
<1> DEFINE base == Baseline[p]
           all  == Resolve(p, NoOverrides)
<1>5. /\ all.mode = base.mode /\ all.verbs = base.verbs
      /\ all.react = base.react /\ all.vote = FALSE
      /\ all.rate = [v \in Verbs |-> Lowered(base.rate[v], NoOverrides.rate, v)]
      /\ all.bot = (base.bot \/ NoOverrides.bot) /\ all.label = (base.label \/ NoOverrides.label)
      /\ all.ratio = IF NoOverrides.ratio > base.ratio THEN NoOverrides.ratio ELSE base.ratio
  BY <1>1, Resolved
<1> HIDE DEF base, all
<1>6. \A v \in Verbs : all.rate[v] = base.rate[v]
  BY <1>3, <1>5 DEF base
<1>7. all.ratio = base.ratio
  BY <1>1, <1>4, <1>5 DEF base
<1>8. all.bot = base.bot /\ all.label = base.label
  BY <1>1, <1>4, <1>5 DEF base
<1> QED
  BY <1>5, <1>6, <1>7, <1>8 DEF base, all

\* The account as if it had no overrides: what its guards look at.
LEMMA PlainAccount ==
  ASSUME NEW a \in Accounts
  PROVE  LET plain == [a EXCEPT !.overrides = NoOverrides] IN
         /\ plain \in Accounts /\ plain.platform = a.platform /\ plain.overrides = NoOverrides
         /\ plain.status = a.status /\ plain.authorized = a.authorized
         /\ plain.scopes = a.scopes /\ plain.bot = a.bot /\ plain.label = a.label
         /\ plain.reviewed = a.reviewed /\ AdapterOf(plain) = AdapterOf(a)
BY PolicyAssumption DEF Accounts, AdapterOf

\* A rate that an override lowers still refuses what the platform's refuses.
LEMMA RateTightens ==
  ASSUME NEW limit \in Nat, NEW rate, NEW verb \in Verbs, NEW used \in Nat,
         rate \in [DOMAIN rate -> Int], \A v \in DOMAIN rate : rate[v] > 0,
         limit > 0, used >= limit
  PROVE  Lowered(limit, rate, verb) > 0 /\ used >= Lowered(limit, rate, verb)
BY DEF Lowered, Lower

\* OverridesOnlyTighten, for one account: whatever a guard forbids under the
\* policy of the platform, it forbids under that of the account.
LEMMA Tighter ==
  ASSUME NEW a \in Accounts, NEW r \in Requests, Limiting(a.overrides)
  PROVE  LET plain == [a EXCEPT !.overrides = NoOverrides] IN
         Strictness[Verdict(a, r)] >= Strictness[Verdict(plain, r)]
<1> DEFINE plain == [a EXCEPT !.overrides = NoOverrides]
           o     == a.overrides
           base  == Baseline[a.platform]
           p     == PolicyOf(a)
           q     == PolicyOf(plain)
<1>1. a.platform \in Platforms /\ o \in Overrides /\ IsOverride(o)
  BY PolicyAssumption DEF Accounts
<1>2. /\ o.rate \in [DOMAIN o.rate -> Int] /\ o.bot \in BOOLEAN /\ o.label \in BOOLEAN
      /\ o.ratio \in Int /\ o.all \in BOOLEAN
  BY <1>1 DEF IsOverride
<1>3. base \in Policies
  BY <1>1, BaselineType
<1>4. /\ plain \in Accounts /\ plain.platform = a.platform /\ plain.overrides = NoOverrides
      /\ plain.status = a.status /\ plain.authorized = a.authorized
      /\ plain.scopes = a.scopes /\ plain.bot = a.bot /\ plain.label = a.label
      /\ plain.reviewed = a.reviewed /\ AdapterOf(plain) = AdapterOf(a)
  BY PlainAccount
<1>5. /\ p.mode = base.mode /\ p.verbs = base.verbs /\ p.react = base.react /\ ~p.vote
      /\ p.rate = [v \in Verbs |-> Lowered(base.rate[v], o.rate, v)]
      /\ p.bot = (base.bot \/ o.bot) /\ p.label = (base.label \/ o.label)
      /\ p.ratio = IF o.ratio > base.ratio THEN o.ratio ELSE base.ratio
  BY <1>1, Resolved DEF PolicyOf
<1>6. /\ q.mode = base.mode /\ q.verbs = base.verbs /\ q.react = base.react /\ ~q.vote
      /\ \A v \in Verbs : q.rate[v] = base.rate[v]
      /\ q.bot = base.bot /\ q.label = base.label /\ q.ratio = base.ratio
  BY <1>1, <1>4, Unmodified DEF PolicyOf
<1> HIDE DEF plain, o, base, p, q
<1>7. r.verb \in Verbs /\ r.ledger \in Ledgers \cup {NoLink} /\ r.used \in Nat
  BY RequestFields, PolicyAssumption
<1>8. ASSUME Forbidden(plain, r, q)  PROVE Forbidden(a, r, p)
  <2>1. CASE AccountActiveRefuses(plain) \/ LockRefuses(r) \/ AuthorizationRefuses(plain, r)
             \/ CoordinationRefuses(r)
    BY <2>1, <1>4 DEF Forbidden, AccountActiveRefuses, AuthorizationRefuses
  <2>2. CASE CapabilityRefuses(plain, r, q)
    BY <2>2, <1>4, <1>5, <1>6 DEF Forbidden, CapabilityRefuses
  <2>3. CASE SelfIdentificationRefuses(plain, r, q)
    BY <2>3, <1>4, <1>5, <1>6 DEF Forbidden, SelfIdentificationRefuses
  <2>4. CASE RateLimitRefuses(r, q)
    <3>1. base.rate[r.verb] \in Nat /\ base.rate[r.verb] > 0 /\ r.used >= base.rate[r.verb]
      BY <2>4, <1>3, <1>6, <1>7 DEF RateLimitRefuses, Policies
    <3>2. p.rate[r.verb] = Lowered(base.rate[r.verb], o.rate, r.verb)
      BY <1>5, <1>7
    <3>3. \A v \in DOMAIN o.rate : o.rate[v] > 0
      BY DEF Limiting, o
    <3>4. p.rate[r.verb] > 0 /\ r.used >= p.rate[r.verb]
      BY <3>1, <3>2, <3>3, <1>2, <1>7, RateTightens
    <3> QED
      BY <3>4 DEF RateLimitRefuses, Forbidden
  <2>5. CASE ManipulationRefuses(plain, r, q)
    BY <2>5, <1>5 DEF Forbidden, ManipulationRefuses
  <2>6. CASE PlatformRulesRefuse(plain, r, q)
    <3>1. /\ IsWrite(r) /\ a.platform = "reddit" /\ r.ledger # NoLink
          /\ base.ratio > 0 /\ r.ledger[1] >= r.ledger[2] \div base.ratio
      BY <2>6, <1>4, <1>6 DEF PlatformRulesRefuse
    <3>2. r.ledger[1] \in Nat /\ r.ledger[2] \in Nat
      BY <3>1, <1>7, PolicyAssumption
    <3>3. base.ratio \in Nat \ {0} /\ p.ratio \in Nat \ {0} /\ base.ratio <= p.ratio
      BY <3>1, <1>2, <1>3, <1>5 DEF Policies
    <3>4. r.ledger[2] \div p.ratio <= r.ledger[2] \div base.ratio
      BY <3>2, <3>3, FewerPromotional
    <3>5. r.ledger[2] \div p.ratio \in Int /\ r.ledger[2] \div base.ratio \in Int
      BY <3>2, <3>3
    <3>6. r.ledger[1] >= r.ledger[2] \div p.ratio
      BY <3>1, <3>2, <3>4, <3>5
    <3> QED
      BY <3>1, <3>3, <3>6 DEF PlatformRulesRefuse, Forbidden
  <2> QED
    BY <1>8, <2>1, <2>2, <2>3, <2>4, <2>5, <2>6 DEF Forbidden
<1>9. ASSUME AutonomyRoutes(plain, r)  PROVE AutonomyRoutes(a, r)
  <2>1. ~plain.overrides.all
    BY <1>4 DEF NoOverrides
  <2> QED
    BY <1>4, <1>9, <2>1 DEF AutonomyRoutes
<1>10. /\ Verdict(a, r) = IF Forbidden(a, r, p) THEN "deny"
                          ELSE IF AutonomyRoutes(a, r) THEN "route" ELSE "allow"
       /\ Verdict(plain, r) = IF Forbidden(plain, r, q) THEN "deny"
                              ELSE IF AutonomyRoutes(plain, r) THEN "route" ELSE "allow"
  BY Judgement DEF p, q
<1>11. Strictness["allow"] = 0 /\ Strictness["route"] = 1 /\ Strictness["deny"] = 2
  BY DEF Strictness
<1>12. Strictness[Verdict(a, r)] >= Strictness[Verdict(plain, r)]
  BY <1>8, <1>9, <1>10, <1>11
<1> QED
  BY <1>12 DEF plain

\* OverridesOnlyTighten, of every account whose own limits are above zero,
\* whatever the other fields of its overrides are.
THEOREM LimitingTightens == Spec => [](Limiting(account.overrides) => OverridesOnlyTighten)
<1>1. Inv => (Limiting(account.overrides) => OverridesOnlyTighten)
  BY Tighter DEF Inv, TypeOK, OverridesOnlyTighten
<1> QED
  BY <1>1, Invariance, PTL

\* OverridesOnlyTighten, of every account, if no patch sets a limit of zero or
\* less.  The code does not see to that, and without it the property is false.
THEOREM OverridesTighten ==
  ASSUME \A o \in Overrides : Limiting(o)
  PROVE  Spec => []OverridesOnlyTighten
<1>1. Inv => OverridesOnlyTighten
  <2> SUFFICES ASSUME Inv  PROVE OverridesOnlyTighten
    OBVIOUS
  <2>1. account \in Accounts /\ account.overrides \in Overrides
    BY DEF Inv, TypeOK, Accounts
  <2>2. Limiting(account.overrides)
    BY <2>1
  <2> QED
    BY <2>1, <2>2, Tighter DEF OverridesOnlyTighten
<1> QED
  BY <1>1, Invariance, PTL
=============================================================================
