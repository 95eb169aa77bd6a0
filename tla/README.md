# account-pool: a TLA+ model

account-pool lets a set of software agents act on social accounts that people
own. An account is registered, its owner consents, credentials are connected,
agents take turns on it under a checkout lease, every act passes a pipeline of
guards, some acts wait for a human, and everything is written to an audit log.
Two servers, an MCP server for agents and a REST server for administrators,
share one database.

This directory holds TLA+ modules for the parts of that system where the order
of steps decides whether it is right, TLC runs on small instances of them, and
TLAPS proofs about all of them for every instance. Paths below are relative to
`src/account_pool/` of the repository.

## 1. The system

### How it runs

* The **MCP server** (`server/mcp_server.py`) serves the agents' tools. With the
  default stdio transport every client starts a process of its own; with HTTP
  there is one. Tools run on the event loop: another tool of the same process
  runs only while the first awaits an adapter.
* The **admin server** (`server/rest_admin.py`) is a further process. Its `def`
  handlers run in a thread pool, its `async def` handlers on its event loop.
* All of them share the **SQLite database** (`db/`) and the **vault** file
  (`vault/vault.py`). Each repository call is a session with a commit of its
  own; no transaction spans two of them. Accounts are written by a conditional
  update on `record_version`, every other table by an unconditional one.
* The **trackers** behind the guards are in the memory of each process
  (`app.py:72-74`).

So a call of a service is a sequence of atomic sessions. Between any two of
them, calls of other processes and threads run; between two with an `await` in
between, calls of the same event loop as well. A process may die anywhere.

### Components

| Component | State it keeps | Operations | Modelled in |
|---|---|---|---|
| Checkout lock, `actions/locking.py` over `AccountRepository.update` | `Account.lock` (holder, token, expiry), `record_version` | checkout, refresh, checkin; `patch` under the lock | `Checkout`, refines `Lease` |
| Account service, `accounts/service.py` | status, consent, connection id of the account | register, authorize, revoke, connect, refresh credentials, health check, patch, retire, disconnect | `Lifecycle`, refines `AccountStates` |
| Vault and connections, `vault/`, `ConnectionRepository` | secrets by reference, connections | store, delete | `Lifecycle` (no encryption) |
| Action service, `actions/service.py` | stored actions, drafts | publish, comment, react, read, search, create_draft, update_draft, decide, resubmit | `Acting` |
| Approval queue, `approvals/queue.py` | approvals with pinned revision and time to live | submit, reopen, set_state | `Acting` |
| Audit log, `audit/log.py` | append-only events | record | `Acting` (counted), `Lifecycle` (its session only) |
| Policy engine, guards, platform policies, `policy/` | none; overrides are in the account | resolve, evaluate | `Policy` (all guards), `Acting` (verdicts that go stale), `Limits` (the trackers they ask) |
| Trackers, `policy/ratelimit.py`, `policy/trackers.py` | events, counters and hits per process | check, consume, would_exceed, would_coordinate, record | `Limits` |
| Adapters, `adapters/` | none that the pool relies on | resolve, publish, comment, react, read, authenticate, refresh | `Policy` (what each declares and implements); elsewhere an await with any outcome its callers tell apart |
| Support tiers, `support.py` | none | support_tier | `Policy` |
| Servers | none | tools and routes | the calls and processes of every module |
| Wiring, configuration | `dry_run`, real adapters, time to live | build_app | `Policy` (`dry_run`, adapters), constants elsewhere |
| Dashboard page, master key, contracts, ids, notifier | static | - | not modelled, see section 7 |

### How they interact, and what is hard

* **The account row is one value with many writers.** Lock, patch and the
  account operations each read it whole, change their copy and write it back
  whole. Correctness hangs on the conditional update alone. *Properties:* no
  edit is lost, no lease is stolen, no dead token returns, an operation takes
  effect as if at one instant, consent that was revoked stays revoked.
* **Copies age across awaits.** An act is judged on an account, a lease and a
  draft read before the target was resolved, and carried out after more
  awaiting. *Properties:* what reaches the platform was authorised, leased and
  reviewed at some time since the request was made.
* **A review is a second, later path to the platform.** It is bound to a draft
  revision, it may expire, be reopened, be decided twice. *Properties:* only
  reviewed text is posted, once per approval.
* **Partial failure.** Action, approval and audit event are three sessions, an
  adapter may raise after it performed, a process may die in between.
  *Properties:* a routed action can be decided, the log never claims what did
  not happen, what finished is in the log, what was performed is on record, an
  action is left executing by a crash or an exception and nothing else.
* **Callers retry.** An idempotency key is looked up in one session and stored
  in another. *Properties:* one action per key in a process; a retry of a stored
  action never acts, whatever became of the action.
* **Credentials and status are in different stores.** *Properties:* the account
  names a missing connection only if a disconnect is under way or failed, and
  credentials no account names are of a connect that did not return ok, were
  replaced, or are a secret that the vault refused to delete.
* **What may be done is spread over tables.** Platform policies, overrides of an
  account, declared capabilities, implemented methods and compliance markers are
  kept apart and must fit for every platform, in the order the guards ask.
  *Properties:* overrides only tighten, a review comes after every refusal,
  nothing unsupported is reached, writes are disclosed, votes never pass, the
  published support tiers are honest, acts write nothing in dry run.
* **Limits are read and counted at different times.** *Properties:* each act is
  counted once, limits hold for acts judged one at a time.

`PROJECT.json` lists the hazards line by line under `hazards`, with the property
for each, or the reason there is none.

## 2. The modules

`Lease` is what the lock promises: one register, granted only when free, run
out or one's own, each grant with a token never used before, extended under the
same token, or released.

`Checkout` is the code. `row` is the stored account: version, lock, and a count
of edits standing for all other fields. `call[c]` is what a running call has in
memory: its parameters, its copy of the row, how many tries it lost. The pc
names the next session or clock reading: `read` is `accounts.get`, `check` the
decision on the copy, `build` the second clock reading of `refresh`, `cas` the
conditional update. `CasWins`, `CasRetries` and `CasFails` are the outcomes of
the update. Calls may take any lease length up to `MaxTTL`, present any token
that was ever issued, and crash anywhere. `edit` stands for the services that
write the row without looking at the lock (authorize, revoke, connect, health
check, retire, disconnect). `issued` and `acked` are history: tokens returned to
callers, and edits acknowledged.

`AccountStates` is the account an owner thinks of: status, consent, connected,
each operation at one instant. `Lifecycle` is the code: `row`, the table of
`connections`, the `vault`, and what each call has in memory. Its actions are
sessions: read, add, store secret, add connection, the await, find connection,
delete secret, delete connection, commit, record. `Settled` is
`_recompute_status`; `Outcomes` says what each operation does to its copy;
`Touch` is a write by the lock service. A connection and its secret are named by
the connect call that made them, since the code mints a fresh id for each.
`fate` is history: whether the account has named that connection yet, names it,
or lost it to another connect or to a disconnect.

`Acting` is the acting path for one account and one draft. `req[r]` is what a
request has in memory, including its copies of account, draft and approval;
`actions`, `approvals`, `audit` are the tables. A request goes through the
sessions of `publish`, `comment`, `react`, `read`, `search`, `create_draft`,
`update_draft`, `decide_approval` or `resubmit_approval` in the code's order; a
behaviour starts with the draft there or not. `Mixes` and `OpsOf` say which
calls a behaviour is made of. `MayRun` is the event loop: in one process, a
request takes a step only if every other one is at an await. The guards are told
apart where their verdict can go stale: account status and consent, and the
lock. All others together are a free choice to refuse, to route, or to pass. The
adapter performs, fails, or raises before or after performing. A process may die
between any two sessions (`Crash`), and all of its requests with it. Around the
requests the clock ticks, leases run out and change hands, and consent is
withdrawn and given back, all as single steps, which `Checkout` and `Lifecycle`
justify: there the operations are shown to act at one instant. What a request
will not look at again is dropped from its memory (`Kept`, `Past`, `Rest`).
`performed`, `granted`, `reviewed`, `held`, `fit` and `known` are history.

`Limits` is the three trackers of each server process, the guards that read
them, and the acts that are judged (`Judge`), await their adapter and are then
counted (`Succeed`) or not (`Fail`), or wait for a review (`Decide`). A process
may restart and lose its trackers. `Live` is the list without the stale entries
it begins with. `_prune` filters the whole list instead; entries are appended as
time goes by, which is the invariant `Ordered` of the proofs, so the two leave
the same.

`Policy` is one account as far as the guards look at it, and every request that
can be made of it. The state changes by the account service's operations and by
a restart with other adapters. `told` is history: what the platform said of its
marks when the connection was made. Each guard is an operator that says when it
refuses (`...Refuses`) or routes; `Guards` is `DEFAULT_GUARDS`, and `Verdict` is
the engine: the first guard that does not allow decides. `Baseline` is the table
of platform policies with the fallback, `Resolve` applies an account's overrides
to it. An adapter class is a record of the verbs it declares, the methods that
do not raise `UnsupportedCapability`, the markers its self-identification may
report, and the methods that write without asking for `dry_run`; `AdapterOf` is
the registry. `Method` is what `_dispatch` and `_run_read` call. `Tier` is
`support_tier`, what administrators are told of a platform. `wrote` is history:
with `DryRun`, the methods that wrote to a platform, from an act (`Act`) or from
`Connect`. What the lease and the trackers say is part of the request:
`Checkout` and `Limits` are about that. The properties are invariants over all
requests in every reachable account.

`MCCheckout`, `MCLifecycle`, `MCActing`, `MCLimits` and `MCPolicy` give the constants their
values. `CheckoutProofs`, `LifecycleProofs`, `PolicyProofs` and `LimitsProofs`
hold the proofs about a module each; those about `Acting` are in `ActingSteps`
(types, and what each session does to a request) and `ActingProofs` (the
properties). Operators marked "Mutant" or "Broken
variant" in a module are the code with a plausible mistake; each property is
known to fail for one of them.

## 3. The runs

### Runs that pass

| Run | What it asks | Bounds |
|---|---|---|
| `checkout` | Every race of two calls on the row; does a served call return? | 2 calls at a time, 2 agents, 2 tries, 2 tokens, versions to 4, clock to 2, leases of 1 tick |
| `lifecycle` | Do account operations overlap as if they were atomic? | registration, one connect (or registration again), two calls of any operation, one write of the lock service |
| `acting` | What review, lock, consent, key, stored actions and log guarantee, in processes that may die | three mixes of calls. `beside`: a comment, a second request of the same MCP server (publish, edit, resubmit or approve) and a decision in the admin server. `alone`: any act beside a review, a resubmission, an edit, a creation of the draft or a publish in another process. `again`: a publish, an edit, a resubmission and a decision. Clock to 2, lease and review of 1 tick, one key |
| `limits` | Do trackers count right and do limits hold? | 3 acts of 2 accounts, 2 processes, clock to 3, windows of 1 and 2 ticks, limits of 1 and 2, ratio 2, one account per target |
| `policy` | What the guard pipeline lets through | every platform, its own adapter or the stand-in, 8 overrides, 2 consents, acts used 0, 1 or 12, three ledgers |

*checkout.* `NoLostEdit`: the row holds exactly the acknowledged edits.
`NoStolenLease`: before its time an active lease changes only by a call of its
own holder: it is given up or extended only by a call that shows its holder and
its token, and another takes its place only by a checkout of the same holder,
whatever copy of the row a writer was working on. `NoTokenReturns`: though every writer writes back a whole row, a
replaced token never comes back. `PatchUnderLease`: a patch checked two sessions
ago lands only under the lease it was checked against. `ContentionIsReal`: a
checkout gives up only for writes that did land. `Promise`: it implements
`Lease`. `CallsReturn`: a call that is served ends.

*lifecycle.* `Promise`: operations take effect at one instant, on the account as
it is then. `RevocationIsKept`: no copy read before a revocation carries the old
consent over it. `WithheldUntilPatched`: a suspended or retired account changes
its status only by a patch, retire or revoke whose caller saw it so; connecting,
authorizing and disconnecting leave it withheld, and no call that read it before
releases it. That retirement ends at all is the run `lifecycle_retire`. `ActiveIsEarned`: with no patch of the status, active
means consent and a connection. `DanglesOnlyByFailedDisconnect`: a missing
connection or secret behind an account is always the work of a disconnect that
is under way, lost its race, or died. `LeftoversAreExplained`: a record or secret
of a connection that the account does not name belongs to a connect that is under
way or did not return ok, so that the account never named it; or it was replaced
by another connect; or a disconnect took it from the account, and then its record
is gone and the vault refused to delete this very secret.

*acting.* `ReviewedTextOnly`: an approval posts only text that was bound to it.
`OnePostPerApproval`: a routed action is performed at most once for each stored
approval. `RevocationHolds`, `LeaseHolds`: no request reaches the platform
without the account having been fit, and its agent having held the lease, at
some time since the request began. That is what the code gives: it does not
look again after the awaits. `KeyNamesOneAction`: in one process, one action per
idempotency key. `RetriesActOnce`: across processes, a request whose key was
stored when it began does not act, though reviews, failures and crashes have
rewritten the action since, and a failed one is not tried again under its key; first requests that overlap in two processes are not
covered, and both may act. `RoutedHasApproval`: an action that needs a review has one, whatever
dies. `PerformedIsOnRecord`: what the platform carried out is stored as
executing or done, whatever dies, unless the action was reviewed more than once
(reviews that overlap overwrite each other). `StuckIsExplained`: an action is left executing only by a request
that died or whose adapter raised. `ActsAreAudited`: a request that stored an
action and ran to its end wrote one event. `AllowMeansPerformed`: no allow in
the log without the act.

*limits.* `RateHoldsAlone`, `RatioHoldsAlone`, `CoordinationHoldsAlone`: the
three limits, over any rolling window, for acts judged while their process had
no other act with an adapter. `CountsWhatWasDone`: since its process started, the
limiter has counted each act of the window once, the ledger each text on its own
side, and the hits on a target are those of the acts on it; an act is what an
adapter reported as done.

*policy.* `OverridesOnlyTighten`: no patch of `policy_overrides` gives any request
a milder verdict than the platform's own policy would, for every override of the
run (limits above and below the platform's, requirements, ratios, review of all
writes; zero is the subject of `policy_zero`). `ReviewIsTheLastWord`: what is
routed to a reviewer would be allowed without the review; this matters because
`decide_approval` does not ask the guards again. `WritesAreDisclosed`: where a
bot flag or a self-label is required, a write passes only over a connection of
which the platform said, when it was made, that the mark is set; not after a
disconnect and a patch, nor on the word of an earlier connection.
`UnsupportedNeverReached`: policies, capabilities and methods fit, through
staging too. `TiersAreHonest`: nothing that passes writes to a platform whose
tier is not `live`. `VotesNeverPass`: on platforms with and without reactions.
`ActsStayDry`: the server of the run is in dry run, and no act that passes comes
to a method that writes without asking for `dry_run`. The property names the one
exception: connecting a Mastodon account sets its bot flag all the same
(`mastodon.py:110-117`), though `config.py:30` says that in dry run "no adapter
performs a real network write".

### Runs that find a disagreement

Each checks one statement of the repository and TLC finds a behaviour of the
code that contradicts it; `findings` in `PROJECT.json` quotes the lines.

| Run | Statement | What happens |
|---|---|---|
| `acting_audit` | every acting path writes exactly one event | an adapter raises something `_execute` does not catch: the action stays `executing`, no event |
| `acting_reopen` | resubmit re-opens a *changes-requested* approval | it reopens an approved one too, and the action runs a second time |
| `acting_edits` | editing invalidates any pinned approval | two edits read the same revision and store two texts under the next one |
| `lifecycle_race` | connected and active mean credentials are there | disconnect deletes them, then loses its race for the row |
| `lifecycle_retire` | retire is terminal | revoke sets a retired account to suspended, patch to anything |
| `limits_overlap` | max writes per rolling window | two acts are judged before either is counted |
| `policy_zero` | overrides may only tighten, never relax | the minimum with an override of 0 is 0, which the limiter takes for no limit |

### Why these bounds

A race on the row needs a reader and one writer in between; the third party
that profits is a later call, and calls are made again once they return. Version
4 leaves three writes: a grant, an interfering write, and the one that
must lose. Two tries exercise the retry and the giving up. One-tick leases with
a clock to 2 let a lease expire between any two steps and one more be taken. In
`Lifecycle` an operation races with at most two others besides the lock's write
and the connect. In `Acting` the third request is what a double decision or a
decision beside two acts needs, the fourth an edit and a resubmission around a
decision on one post; a retry after a crash, and every pairing of an
act with another call, need two. The second call of `alone` is served by another
process, so that a retry crosses processes. Two tokens are two grants, the
second while or after the first. In `Policy` the values of an override lie on either side of the
platforms' values, and the acts used below, at and above the lowest limits. In
`Limits` three acts fill a limit of two. Every bound is a constant, or a
guard named "Bound" where it is declared. The theorems of section 4 hold for
any value of these constants, so the bounds limit only what no theorem states:
`CallsReturn`.

The seven states of the code's `ActionState` and the trackers' floats (seconds)
become the states that occur and whole ticks. A tick is any amount of time;
the comparisons at the boundary (`<` for the lease, `>` for the approval, `>=`
for the windows) are the code's.

### Deadlock and fairness

Deadlock is checked in `checkout` and in all runs of `Policy` and `Acting`; a
behaviour of `Acting` whose requests have all ended goes on stuttering.
`Lifecycle` and `Limits` have a fixed number of calls, each made once, and stop
when all have ended: there it is switched off.

Liveness is asked of the lock only, where the code has a loop. `FairSpec`
assumes weak fairness of the server's own steps on behalf of a call, `Step(c)`:
the handler is synchronous code that the interpreter runs to its end. Nothing
is assumed about callers, the clock, or crashes. Lost tries cannot go on for
ever, because the loop counts them.

## 4. What is proved

Every invariant, action property and refinement that a passing run checks is
also a theorem, for any sets of calls, requests, agents, accounts, processes and
overrides and any values of the bounds. Each stands on the assumption of its
module (`BoundsAssumption`, `LifecycleAssumption`, `ActingAssumption`, ...), which
gives the constants their types and keeps names such as `Nobody` apart from
agents. Two theorems assume more, and say so in their statement:

* `ReviewedOnly` assumes `OneEditor`, that one process serves all edits of the
  draft. With the default transport it is false, and `acting_edits` shows that
  two processes do lose an edit.
* `OverridesTighten` assumes that no patch sets a rate of zero or less. The code
  does not see to that, and `policy_zero` shows what then happens.
  `LimitingTightens` says the same without the assumption, of an account whose
  own rates are above zero.

Few of the properties are inductive. What has to be added is below for each
module; the named parts are defined in its proof module.

### `CheckoutProofs`

| Theorem | Statement |
|---|---|
| `TypeCorrect`, `Invariance` | `Spec => []TypeOK`, `Spec => []Inv` |
| `EditsSurvive` | `Spec => []NoLostEdit` |
| `GivesUpOnlyUnderLoad` | `Spec => []ContentionIsReal` |
| `LeasesAreKept` | `Spec => NoStolenLease` |
| `TokensStayDead` | `Spec => NoTokenReturns` |
| `PatchesNeedTheLease` | `Spec => PatchUnderLease` |
| `ImplementsLease` | `Spec => Promise`, that is `L!Spec` |

Whether a write is harmless depends on the copy the call made several sessions
ago. `Inv` says what such a copy is worth. For every running call: its copy's
version is at most the row's; *if the versions are equal*, the copy differs from
the row only by what the call itself has done to it, and the lease it is about to
overwrite was free, run out or its own when it looked, which stays so as time
passes; a call that is about to give up or extend an active lease has shown its
holder and token (`Shown`); the number of tries it lost is covered by writes that landed; and a token
it minted is neither issued nor in another call's copy. The conditional update
lets a write through only in the equal case. `CallInvKept` shows that time and
fresh tokens do not disturb this, `LocalStep` covers the steps that change one
call's memory only, and `WinningWrite` says what a successful update can be; the
theorems about steps and the refinement are then a case split on it.

### `LifecycleProofs`

| Theorem | Statement |
|---|---|
| `TypeCorrect`, `Invariance` | `Spec => []TypeOK`, `Spec => []Inv` |
| `ImplementsAccount` | `Spec => Promise`, that is `AccountStates` |
| `RevocationsHold` | `Spec => RevocationIsKept` |
| `WithheldStays` | `Spec => WithheldUntilPatched` |
| `ActiveEarned` | `Spec => []ActiveIsEarned` |
| `DanglingExplained` | `Spec => []DanglesOnlyByFailedDisconnect` |
| `LeftoversExplained` | `Spec => []LeftoversAreExplained` |

`Copies` is the thought of `Checkout` again: while the version has not moved, a
copy *is* the account, except that a connect has put its own new connection into
it. So a commit that wins is the operation done at that instant, which gives the
refinement and the three properties of steps. The two about credentials need to
know where each record and secret has been. `Fresh`: until its call has
written the account, a new connection is in no memory but that call's. `Backed`:
the connection of the account has its record and secret until a disconnect sets
out to drop it. `Taken`: a disconnect that wrote the account took from it the
connection it dropped. `Fated`: a connection is unnamed until its connect commits,
and one that a disconnect took away has no record and was set out to be deleted;
`Retained`: a secret that was to be deleted is there because the vault raised for
it. A crash is covered by all of
them, because none asks whether the call that left something is still alive.

### `ActingSteps` and `ActingProofs`

| Theorem | Statement | Added invariant |
|---|---|---|
| `TypeCorrect`, `OnPath` | `Spec => []TypeOK`, `Spec => []Paths` | `Paths` |
| `Revoked`, `Leased` | `Spec => []RevocationHolds`, `Spec => []LeaseHolds` | `AllMarked` |
| `Routed` | `Spec => []RoutedHasApproval` | `Stored` |
| `KeysApart`, `RetryActsOnce` | `Spec => []KeyNamesOneAction`, `Spec => []RetriesActOnce` | `Keyed` |
| `OnePost`, `AllowsPerformed` | `Spec => []OnePostPerApproval`, `Spec => []AllowMeansPerformed` | `AllCounted` |
| `OnRecordAlways` | `Spec => []PerformedIsOnRecord` | `Logged` |
| `Explained`, `Audited` | `Spec => []StuckIsExplained`, `Spec => []ActsAreAudited` | `Paths` |
| `ReviewedOnly` | `OneEditor` implies `Spec => []ReviewedTextOnly` | `Texts` |

`Paths` says of every request that it stands at a session of its own call, with
the copies which that session needs, and how far its action and its event have
come. `ActingSteps` also says once, for each session, what it does to the
request and to the tables (`Moves`, `Passes`, `Stores`, `Ends`); every later proof
that a step keeps an invariant cites these and not the actions. The other
invariants are about one thing each.

* `AllMarked`: if the account is fit, or the copy in a request's memory is, the
  request is marked as having seen it so; at the adapter the mark is there. The
  same for the lease. A copy taken before a revocation is the case that matters.
* `Stored`: an action is made by the request it is named after, after its
  evaluation; a routed one has its approval first; what a reviewer has read is
  there to stay.
* `Keyed`: between its lookup and its first write no other request of the
  process can store the same key. There is no await between the two, which is
  what the event loop makes of the code's check and insert.
* `AllCounted`: the acts performed and the reviewers on their way to perform one
  are together no more than the approvals granted; the allows in the log and the
  requests about to write one are together no more than the acts performed. The
  requests are counted as the cardinality of a set, with lemmas for one that
  joins it or leaves it.
* `Logged`: unless two requests review the action, what is stored of it is what
  its one reviewer, or the request that made it, has made of it: executing at the
  adapter, executing or done once it was performed, and not performed as long as
  something else may still be stored.
* `Texts`: a revision has one text, wherever a copy of it is; the text of the
  revision that an approval pins, stored or in memory, is one that was put before
  the reviewers; so is the text a reviewer takes to the adapter. The first needs
  `OneEditor`: there is no await between an edit's read and its write.

### `PolicyProofs`

| Theorem | Statement |
|---|---|
| `Judgement` | `Verdict` in closed form |
| `TypeCorrect`, `Invariance` | `Spec => []TypeOK`, `Spec => []Inv` |
| `ReviewedLast` | `Spec => []ReviewIsTheLastWord` |
| `NoVotes` | `Spec => []VotesNeverPass` |
| `Disclosed` | `Spec => []WritesAreDisclosed` |
| `Supported` | `Spec => []UnsupportedNeverReached` |
| `HonestTiers` | `Spec => []TiersAreHonest` |
| `DryActs` | `Spec => []ActsStayDry` |
| `LimitingTightens` | `Spec => [](Limiting(account.overrides) => OverridesOnlyTighten)` |
| `OverridesTighten` | positive rates imply `Spec => []OverridesOnlyTighten` |

`Verdict` takes the first guard of a sequence that does not allow, so all of it
rests on `Judgement`: the verdict is deny if and only if one of the nine guards
that can refuse does, else route if the guard for autonomy does, else allow. The
place of that guard at the end of the sequence is what `ReviewedLast` comes from.
The tightening theorems take each field of a policy by itself: minimum,
disjunction and ceiling make each guard refuse no less, except that the minimum
with a rate of zero turns a limit off. `Disclosed` needs an
invariant, `Marked`: the markers of an account are what the platform said when
its connection was made, and an account without a connection has none.
Revocation leaves connection and markers, disconnecting takes both, and a new
connect replaces both; a disconnect that kept the markers would let a write pass
on the word of a connection that is gone.

### `LimitsProofs`

| Theorem | Statement |
|---|---|
| `TypeCorrect`, `Invariance` | `Spec => []TypeOK`, `Spec => []Inv` |
| `Counts` | `Spec => []CountsWhatWasDone` |
| `RateKept` | `Spec => []RateHoldsAlone` |
| `RatioKept` | `Spec => []RatioHoldsAlone` |
| `CoordinationKept` | `Spec => []CoordinationHoldsAlone` |

`Tracked(p)`: each tracker holds what the process carried out. For the limiter
this is said for every cutoff `c` that is still in the window, that as many
entries are dated `c` or later as acts were done since: one number for the whole
window would not survive a tick, which moves the window over some entries and
not others. `Ordered` makes the stale entries a prefix, so that pruning loses
only what is older than every such cutoff. `Roomy`: an act judged alone is the
only one so judged that its process has with the adapter, and the room which the
engine found is there still, counted over such acts, under each of the three limits. Its own success then uses
the room; a tick only makes more; no other act judged alone can take it before.
That last step is what overlapping acts lack, as `limits_overlap` shows, and acts
that waited for a reviewer: their approval does not ask the engine again.

## 5. What is only model-checked

* `CallsReturn`, liveness of the lock: the prover does not do liveness under
  fairness. It is checked for the bounds of `checkout`.
* `ReviewedTextOnly` and `OverridesOnlyTighten` where the assumption of their
  theorem fails. They are false there, and the runs that violate them are the
  evidence.
* The statements of the repository that the other violation runs refute. They
  are false of the code; there is nothing to prove.

## 6. Plan

Order of work, the most important behaviour first:

1. done: `Checkout` against `Lease`; `Lifecycle` against `AccountStates`;
   `Acting`; `Limits`; `Policy`; checked.
2. done: the theorems of section 4, one for each property of a passing run
   except `CallsReturn`.
3. `Limits` for acts that overlap: by how much a limit can be exceeded. With `n`
   acts with the adapter at a time the answer should be the limit and `n - 1`
   more; TLC first, then from `Tracked` with a count of the acts under way.
4. `Acting`: what remains of `PerformedIsOnRecord` when an action is reviewed
   more than once, and of `ReviewedTextOnly` when edits are lost: the text that
   is posted was then at least stored under the pinned revision by someone.
5. Steps from one module to another: that the single steps `CheckOut`, `CheckIn`,
   `Revoke` and `Reactivate` of `Acting` are steps of `Lease` and `AccountStates`,
   as refinements of parts of its state.


## 7. What is not modelled, and why

* Encryption, key handling and the contents of credentials: their correctness
  is not a matter of order.
* HTTP requests of the adapters, payloads, JSON shapes, the dashboard page:
  input and output without state of the pool's own. What an adapter may do to
  its caller is modelled.
* `action_validate`, `policy_explain`, listings and resources: they read.
* The admin server's route that registers, authorizes and connects an account in
  one request, as an action of its own: it is those three calls in turn, and
  `Lifecycle` has each of them beside the others. A failure in the second leaves
  what the first did, as three calls would.
* Rotated credentials, which `refresh_credentials` would store under the old
  reference (`accounts/service.py:213-220`): every adapter returns none, so that
  the branch is never taken. A refresh is the await and the write after it.
* An abstract specification of an action's life: with decisions that do not ask
  for the approval's state and resubmissions that do not ask for the action's,
  every state of an action can follow every other. What does hold is stated as
  `OnePostPerApproval`, `RoutedHasApproval` and `PerformedIsOnRecord`.
* The text of drafts, reasons, decision traces, and the classification of a text
  as promotional: a text is a name, promotional or not an input.
* The notifier: its exceptions are swallowed and nothing depends on it.
* The compliance markers an account keeps when its server changes from the
  stand-in to the platform's own adapter: `Policy` has the step, the repository
  does not say what should become of them.
* Wiring and the master key: they run once before any call. Two processes that
  start at the same time without a key may both make one and keep different
  ones in memory (`vault/keyref.py:44-47`); that path is for development only.
