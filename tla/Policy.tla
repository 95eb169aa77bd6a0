------------------------------- MODULE Policy -------------------------------
(***************************************************************************)
(* What the pool lets an account do: the guard pipeline (policy/guards.py, *)
(* policy/engine.py) over the platform policies and their overrides        *)
(* (policy/policies.py), the capabilities the adapters declare, and what   *)
(* the action service hands to an adapter once the guards have passed.     *)
(*                                                                         *)
(* The state is one account, as far as the guards look at it.  It changes  *)
(* by the operations of the account service, each one step (Lifecycle.tla  *)
(* shows that they act at one instant) and by restarts of the server with  *)
(* other adapters.  A request is a record of what it asks and of what the  *)
(* lease and the trackers say of it (Checkout.tla, Limits.tla).            *)
(***************************************************************************)
EXTENDS Integers, Sequences, FiniteSets

CONSTANTS Overrides,   \* the policy_overrides a patch may set
          Consents,    \* the consent scopes an owner may give at once
          Uses,        \* acts of the verb in the current window
          Ledgers,     \* pairs of promotional and other writes so far
          DryRun       \* the server's safety switch, dry_run

\* "other" stands for every platform without a policy of its own.
Platforms == {"reddit", "mastodon", "bluesky", "twitter", "medium", "substack", "other"}
ReadVerbs == {"read", "monitor", "search"}
Writes    == {"publish", "comment", "react"}
Verbs     == Writes \cup ReadVerbs
States    == {"draft", "connected", "active", "suspended", "retired"}

\* What a verb needs the owner's consent for (ACTION_CONSENT).
ConsentFor(verb) == IF verb \in ReadVerbs THEN "read" ELSE verb
Scopes == {ConsentFor(v) : v \in Verbs}

\* policy_overrides: limits for some verbs, requirements, a ratio (0 if not given).
NoOverrides == [rate |-> << >>, bot |-> FALSE, label |-> FALSE, ratio |-> 0, all |-> FALSE]
IsOverride(o) ==
  /\ o \in [rate : {o.rate}, bot : BOOLEAN, label : BOOLEAN, ratio : Int, all : BOOLEAN]
  /\ DOMAIN o.rate \subseteq Verbs /\ o.rate \in [DOMAIN o.rate -> Int]

ASSUME PolicyAssumption ==
  /\ NoOverrides \in Overrides /\ \A o \in Overrides : IsOverride(o)
  /\ Consents \subseteq SUBSET Scopes
  /\ Uses \subseteq Nat /\ Ledgers \subseteq Nat \X Nat
  /\ DryRun \in BOOLEAN

VARIABLES account,
          wrote,     \* history: adapter methods that wrote to a platform in spite of dry_run
          told       \* history: what the platform said of its marks when the connection
                     \* that is in use was made

vars == <<account, wrote, told>>

Marks == [bot : BOOLEAN, label : BOOLEAN]
Nothing == [bot |-> FALSE, label |-> FALSE]

Accounts == [platform : Platforms,
             real : BOOLEAN,         \* the server is configured for the platform's own adapter
             status : States, connected : BOOLEAN,
             authorized : BOOLEAN,   \* consent given and not revoked
             scopes : Consents \cup {{}},
             bot : BOOLEAN, label : BOOLEAN,      \* compliance markers
             reviewed : BOOLEAN,                  \* requires_approval
             overrides : Overrides]

-----------------------------------------------------------------------------
(* Platform policies.                                                      *)

\* rate_per_minute: 0 for a verb without an entry.
Rates(publish, comment, react, read, monitor, search) ==
  [v \in Verbs |-> CASE v = "publish" -> publish [] v = "comment" -> comment
                     [] v = "react" -> react [] v = "read" -> read
                     [] v = "monitor" -> monitor [] v = "search" -> search]

Plain(mode, verbs, rate) ==
  [mode |-> mode, verbs |-> verbs, rate |-> rate, react |-> "react" \in verbs,
   vote |-> FALSE, bot |-> FALSE, label |-> FALSE, ratio |-> 0]

Baseline ==
  [p \in Platforms |->
     CASE p = "reddit" ->
            [Plain("api", Verbs \ {"react"}, Rates(1, 3, 0, 30, 30, 10)) EXCEPT !.ratio = 9]
       [] p = "mastodon" -> [Plain("api", Verbs, Rates(5, 10, 20, 60, 0, 30)) EXCEPT !.bot = TRUE]
       [] p = "bluesky"  -> [Plain("api", Verbs, Rates(5, 10, 20, 60, 0, 30)) EXCEPT !.label = TRUE]
       [] p = "twitter"  -> Plain("api", Verbs, Rates(3, 5, 10, 15, 0, 10))
       [] p = "medium"   -> Plain("draft_only", {"publish", "read"}, Rates(2, 0, 0, 20, 0, 0))
       [] p = "substack" -> Plain("manual", {"publish", "read"}, Rates(1, 0, 0, 20, 0, 0))
       [] p = "other"    -> Plain("manual", ReadVerbs, Rates(0, 0, 0, 20, 0, 0))]

Lower(m, n) == IF m < n THEN m ELSE n

\* Mutant: the account's own limit stands in for the platform's.
LoweredTo(limit, rate, verb) == IF verb \in DOMAIN rate THEN rate[verb] ELSE limit

\* A verb's limit under an override of the rates.
Lowered(limit, rate, verb) ==
  IF verb \notin DOMAIN rate THEN limit
  ELSE IF limit = 0 THEN rate[verb] ELSE Lower(limit, rate[verb])

\* resolve_policy
Resolve(p, o) ==
  LET base == Baseline[p] IN
  [base EXCEPT !.rate  = [v \in Verbs |-> Lowered(@[v], o.rate, v)],
               !.bot   = @ \/ o.bot,
               !.label = @ \/ o.label,
               !.ratio = IF o.ratio > @ THEN o.ratio ELSE @]

-----------------------------------------------------------------------------
(* Adapters, a record for each class: what it declares it can do, the      *)
(* methods it implements (the others raise UnsupportedCapability), the bot *)
(* flags and self-labels that ensure_self_identification may report, and   *)
(* the methods that write to the platform without looking at dry_run.      *)

Methods == {"publish", "comment", "react", "read", "search"}

PlatformAdapter == [can |-> {}, does |-> {}, bot |-> {FALSE}, label |-> {FALSE}, blind |-> {}]

\* The stand-in declares and does everything, and says what its platform wants.
FakeAdapter(p) ==
  [PlatformAdapter EXCEPT !.can = Verbs, !.does = Methods,
                          !.bot = {p = "mastodon"}, !.label = {p = "bluesky"}]

\* Reacting on Reddit is voting, which is not offered.
RedditAdapter ==
  [PlatformAdapter EXCEPT !.can = Verbs \ {"react"}, !.does = Methods \ {"react"}]

\* Mutant: the like is sent without a look at dry_run.
MastodonAdapterLikes ==
  [PlatformAdapter EXCEPT !.can = Verbs, !.does = Methods, !.bot = BOOLEAN,
                          !.blind = {"ensure_self_identification", "react"}]

\* It sets the platform's bot flag; Mastodon's own answer decides on it.
MastodonAdapter ==
  [PlatformAdapter EXCEPT !.can = Verbs, !.does = Methods, !.bot = BOOLEAN,
                          !.blind = {"ensure_self_identification"}]

BlueskyAdapter == [PlatformAdapter EXCEPT !.can = Verbs, !.does = Methods, !.label = {TRUE}]

\* As the registry makes it, with reads enabled.
TwitterAdapter == [PlatformAdapter EXCEPT !.can = Verbs, !.does = Methods]

\* Content is staged by the service: publish is declared, and raises.
MediumAdapter == [PlatformAdapter EXCEPT !.can = {"publish", "read", "monitor"}, !.does = {"read"}]

SubstackAdapter == [PlatformAdapter EXCEPT !.can = {"publish", "read", "monitor"}, !.does = {"read"}]

\* Platforms with an adapter of their own (real_adapter_platforms).
RealPlatforms == Platforms \ {"other"}

\* The registry: a platform's own adapter where the server is configured for it.
AdapterOf(a) ==
  CASE ~a.real \/ a.platform \notin RealPlatforms -> FakeAdapter(a.platform)
    [] a.real /\ a.platform = "reddit"   -> RedditAdapter
    [] a.real /\ a.platform = "mastodon" -> MastodonAdapter
    [] a.real /\ a.platform = "bluesky"  -> BlueskyAdapter
    [] a.real /\ a.platform = "twitter"  -> TwitterAdapter
    [] a.real /\ a.platform = "medium"   -> MediumAdapter
    [] a.real /\ a.platform = "substack" -> SubstackAdapter

\* support_tier: what the pool tells its administrators of a platform.
Tier(p) ==
  LET real == p \in RealPlatforms
      mode == Baseline[p].mode
  IN  CASE real /\ mode = "api"    -> "live"
        [] mode = "draft_only"      -> "draft_only"
        [] real /\ mode = "manual" -> "manual"
        [] OTHER                    -> "planned"

-----------------------------------------------------------------------------
(* The guards, one by one: when each refuses account a the request r under *)
(* policy p.                                                               *)

\* leased: the caller holds the active lease and shows its token; owned: the
\* target is the pool's own channel; crowded: too many accounts on the target;
\* ledger: the account's counts if the draft links to a domain of its owner.
NoLink == << >>

Requests ==
  [verb : {"publish"}, leased : BOOLEAN, owned : {TRUE}, vote : {FALSE}, used : Uses,
   ledger : Ledgers \cup {NoLink}, crowded : {FALSE}]
  \cup [verb : {"comment"}, leased : BOOLEAN, owned : BOOLEAN, vote : {FALSE}, used : Uses,
        ledger : Ledgers \cup {NoLink}, crowded : BOOLEAN]
  \cup [verb : {"react"}, leased : BOOLEAN, owned : BOOLEAN, vote : BOOLEAN, used : Uses,
        ledger : {NoLink}, crowded : BOOLEAN]
  \cup [verb : ReadVerbs, leased : {FALSE}, owned : {FALSE}, vote : {FALSE}, used : Uses,
        ledger : {NoLink}, crowded : {FALSE}]

IsWrite(r) == r.verb \in Writes

AccountActiveRefuses(a) == a.status # "active"

LockRefuses(r) == IsWrite(r) /\ ~r.leased

AuthorizationRefuses(a, r) == ~(a.authorized /\ ConsentFor(r.verb) \in a.scopes)

CapabilityRefuses(a, r, p) ==
  \/ r.verb \notin p.verbs
  \/ r.verb \notin AdapterOf(a).can
  \/ r.verb = "comment" /\ p.mode # "api"
  \/ r.verb = "react" /\ ~p.react

SelfIdentificationRefuses(a, r, p) ==
  IsWrite(r) /\ ((p.bot /\ ~a.bot) \/ (p.label /\ ~a.label))

\* RateLimiter.check: zero or less is no limit.
RateLimitRefuses(r, p) == p.rate[r.verb] > 0 /\ r.used >= p.rate[r.verb]

\* Mutant: only a vote that the adapter could cast is looked at.
ManipulationTrusts(a, r, p) == r.verb = "react" /\ r.vote /\ a.platform = "reddit" /\ ~p.vote

ManipulationRefuses(a, r, p) == r.verb = "react" /\ r.vote /\ ~p.vote

\* Reddit's ratio of promotional to other writes.  No container is blocked.
PlatformRulesRefuse(a, r, p) ==
  /\ IsWrite(r) /\ a.platform = "reddit" /\ r.ledger # NoLink
  /\ p.ratio > 0 /\ r.ledger[1] >= r.ledger[2] \div p.ratio

CoordinationRefuses(r) == IsWrite(r) /\ ~r.owned /\ r.crowded

AutonomyRoutes(a, r) == IsWrite(r) /\ (a.overrides.all \/ (~r.owned /\ a.reviewed))

-----------------------------------------------------------------------------
(* The engine.                                                             *)

\* Mutant: the reviewer is asked before the limits are.
GuardsWithReviewFirst ==
  <<"account_active", "lock", "authorization", "capability", "autonomy",
    "self_identification", "rate_limit", "manipulation", "platform_rules",
    "coordination">>

\* DEFAULT_GUARDS
Guards ==
  <<"account_active", "lock", "authorization", "capability", "self_identification",
    "rate_limit", "manipulation", "platform_rules", "coordination", "autonomy">>

Opinion(guard, a, r, p) ==
  CASE guard = "account_active" /\ AccountActiveRefuses(a)               -> "deny"
    [] guard = "lock" /\ LockRefuses(r)                                  -> "deny"
    [] guard = "authorization" /\ AuthorizationRefuses(a, r)             -> "deny"
    [] guard = "capability" /\ CapabilityRefuses(a, r, p)                -> "deny"
    [] guard = "self_identification" /\ SelfIdentificationRefuses(a, r, p) -> "deny"
    [] guard = "rate_limit" /\ RateLimitRefuses(r, p)                    -> "deny"
    [] guard = "manipulation" /\ ManipulationRefuses(a, r, p)            -> "deny"
    [] guard = "platform_rules" /\ PlatformRulesRefuse(a, r, p)          -> "deny"
    [] guard = "coordination" /\ CoordinationRefuses(r)                  -> "deny"
    [] guard = "autonomy" /\ AutonomyRoutes(a, r)                        -> "route"
    [] OTHER                                                             -> "allow"

\* PolicyEngine.evaluate: the first guard that does not allow decides.
Verdict(a, r) ==
  LET p     == Resolve(a.platform, a.overrides)
      stops == {i \in DOMAIN Guards : Opinion(Guards[i], a, r, p) # "allow"}
  IN  IF stops = {} THEN "allow"
      ELSE Opinion(Guards[CHOOSE i \in stops : \A j \in stops : i <= j], a, r, p)

\* Mutant: a manual platform is published to like any other.
StagedDraftOnly == {"draft_only"}

\* The publish modes whose content is staged for a human.
Staged == {"draft_only", "manual"}

\* The adapter method a request comes to, "none" if its content is staged.
Method(a, r) ==
  CASE r.verb = "publish" /\ Baseline[a.platform].mode \in Staged -> "none"
    [] r.verb = "monitor"                                        -> "read"
    [] OTHER                                                     -> r.verb

-----------------------------------------------------------------------------
(* The account's operations.                                               *)

Settled(a) ==
  IF a.status \in {"suspended", "retired"} THEN a
  ELSE [a EXCEPT !.status = IF ~a.connected THEN "draft"
                            ELSE IF a.authorized THEN "active" ELSE "connected"]

Init ==
  /\ wrote = {} /\ told = Nothing
  /\ account \in [platform : Platforms, real : BOOLEAN, status : {"draft"}, connected : {FALSE},
                  authorized : {FALSE}, scopes : {{}}, bot : {FALSE}, label : {FALSE},
                  reviewed : {TRUE}, overrides : {NoOverrides}]

\* Mutant: verbs are stored for the scopes they need.
AuthorizeVerbs ==
  /\ UNCHANGED <<wrote, told>>
  /\ \E scopes \in Consents :
       account' = Settled([account EXCEPT !.authorized = TRUE,
                                          !.scopes = {v \in Verbs : ConsentFor(v) \in scopes}])

Authorize ==
  /\ UNCHANGED <<wrote, told>>
  /\ \E scopes \in Consents :
       account' = Settled([account EXCEPT !.authorized = TRUE, !.scopes = scopes])

Revoke ==
  /\ account' = [account EXCEPT !.authorized = FALSE, !.status = "suspended"]
  /\ UNCHANGED <<wrote, told>>

\* What a call of an adapter method adds to wrote.
Sends(method) == IF DryRun THEN {method} \cap AdapterOf(account).blind ELSE {}

Connect ==
  /\ wrote' = wrote \cup Sends("ensure_self_identification")
  /\ \E bot \in AdapterOf(account).bot, label \in AdapterOf(account).label :
       /\ account' = Settled([account EXCEPT !.connected = TRUE, !.bot = bot, !.label = label])
       /\ told' = [bot |-> bot, label |-> label]

\* Mutant: the compliance markers outlive the connection they came with.
DisconnectKeepsMarkers ==
  /\ account' = Settled([account EXCEPT !.connected = FALSE])
  /\ told' = Nothing /\ UNCHANGED wrote

Disconnect ==
  /\ account' = Settled([account EXCEPT !.connected = FALSE, !.bot = FALSE, !.label = FALSE])
  /\ told' = Nothing /\ UNCHANGED wrote

Retire == account' = [account EXCEPT !.status = "retired"] /\ UNCHANGED <<wrote, told>>

\* A patch, under the lease (Checkout.tla), replaces the overrides as a whole,
\* asks for review or not, and sets the status, any of them or all.
Patch ==
  /\ UNCHANGED <<wrote, told>>
  /\ \E o \in Overrides, b \in BOOLEAN, s \in States :
       account' = [account EXCEPT !.overrides = o, !.reviewed = b, !.status = s]

\* The server restarts with other adapters configured; the account stays as stored.
Restart ==
  (\E b \in BOOLEAN : account' = [account EXCEPT !.real = b]) /\ UNCHANGED <<wrote, told>>

\* A write that passes, at once or after its review, comes to its adapter.
Act ==
  /\ \E method \in Methods \cup {"none"} :
       /\ \E r \in Requests :
            IsWrite(r) /\ Method(account, r) = method /\ Verdict(account, r) # "deny"
       /\ wrote' = wrote \cup Sends(method)
  /\ UNCHANGED <<account, told>>

Next ==
  \/ Authorize \/ Revoke \/ Connect \/ Disconnect \/ Retire \/ Patch \/ Restart
  \/ Act

Spec == Init /\ [][Next]_vars

-----------------------------------------------------------------------------
TypeOK == /\ account \in Accounts /\ told \in Marks
          /\ wrote \subseteq Methods \cup {"ensure_self_identification"}

\* How strict a verdict is.
Strictness == [allow |-> 0, route |-> 1, deny |-> 2]

\* "Overrides on an account may only tighten [...] never relax below these
\* baselines": whatever was patched, no request gets a milder verdict than it
\* would without overrides.
OverridesOnlyTighten ==
  LET plain == [account EXCEPT !.overrides = NoOverrides] IN
  \A r \in Requests : Strictness[Verdict(account, r)] >= Strictness[Verdict(plain, r)]

\* A reviewer is asked only about requests that nothing forbids: what is routed
\* would be allowed if the account needed no review at all.  An approval carries
\* it out without asking most of the guards again.
ReviewIsTheLastWord ==
  LET trusted == [account EXCEPT !.reviewed = FALSE, !.overrides = [@ EXCEPT !.all = FALSE]] IN
  \A r \in Requests : Verdict(account, r) = "route" => Verdict(trusted, r) = "allow"

\* Where the platform, or the account's owner, wants a mark, a write passes only
\* over a connection of which the platform said, when it was made, that the mark
\* is set: not after a disconnect and a patch of the status, nor on the word of
\* an earlier connection, whatever override or adapter came in between.
WritesAreDisclosed ==
  LET p == Resolve(account.platform, account.overrides) IN
  \A r \in Requests :
    IsWrite(r) /\ Verdict(account, r) # "deny"
      => /\ p.bot   => account.connected /\ told.bot
         /\ p.label => account.connected /\ told.label

\* No request that passes comes to a method its adapter does not implement
\* ("the guard should already have blocked it via capability checks"), with any
\* platform's policy, adapter and publish mode.
UnsupportedNeverReached ==
  \A r \in Requests :
    Method(account, r) \notin AdapterOf(account).does \cup {"none"}
      => Verdict(account, r) = "deny"

\* No vote passes, on any platform: where reactions are offered it is told
\* apart from them, where they are not it is refused with them.
VotesNeverPass ==
  \A r \in Requests : r.vote => Verdict(account, r) = "deny"

\* The tiers are "an honest view of what the pool can actually do": no request
\* that passes makes an adapter write, unless the platform's tier is live.
TiersAreHonest ==
  Tier(account.platform) # "live"
    => \A r \in Requests : Method(account, r) \in Writes => Verdict(account, r) = "deny"

\* "Global safety switch. When true, no adapter performs a real network write":
\* holds of acts.  In dry run no write that passes reaches its platform, whatever
\* adapter serves the account; what does write is the bot flag that is set when
\* an account is connected, which asks nobody.
ActsStayDry == DryRun => wrote \subseteq {"ensure_self_identification"}
=============================================================================
