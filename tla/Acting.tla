------------------------------- MODULE Acting -------------------------------
(***************************************************************************)
(* The path every act takes: ActionService (actions/service.py) with the   *)
(* approval queue (approvals/queue.py), the drafts, the stored actions and *)
(* the audit log, for one account and one draft.                           *)
(*                                                                         *)
(* A request is one call of publish, comment, react, read, search,         *)
(* create_draft, update_draft, decide_approval or resubmit_approval.  Each *)
(* database session is one step.  Requests of different server processes   *)
(* interleave at every step; requests of one process share an event loop,  *)
(* so another one runs only while the first awaits (target resolution,     *)
(* adapter dispatch).                                                      *)
(*                                                                         *)
(* An action is named by the request that created it and an approval by    *)
(* its action; a text by the request that wrote it.                        *)
(***************************************************************************)
EXTENDS Naturals, FiniteSets

CONSTANTS Requests,     \* bound: the requests of a behaviour, each made once
          Mixes,        \* bound: a behaviour is made of one of these mixes of calls
          OpsOf,        \* which calls a request may be in a mix, if any
          ProcessOf,    \* the server process that serves it
          Agents, AgentOf, Nobody,    \* the agent each request names as caller
          Keys, KeyOf, NoKey,         \* the idempotency key a write carries
          Original,     \* the text of the draft when it is created
          LeaseTTL,     \* checkout lease, in clock ticks
          ReviewTTL,    \* approval_ttl_seconds; 0 means approvals never expire
          MaxTime,      \* bound: the clock stops here
          Crashes       \* whether a server process may die during a request

Writes  == {"publish", "comment", "react"}
Reads   == {"read", "search"}
Reviews == {"approve", "reject", "changes", "resubmit"}
Ops     == Writes \cup Reads \cup Reviews \cup {"create", "edit"}
Kinds   == Writes \cup Reads

ASSUME ActingAssumption ==
  /\ OpsOf \in [Mixes -> [Requests -> SUBSET Ops]] /\ Crashes \in BOOLEAN
  /\ AgentOf \in [Requests -> Agents] /\ KeyOf \in [Requests -> Keys \cup {NoKey}]
  /\ LeaseTTL \in Nat \ {0} /\ ReviewTTL \in Nat /\ MaxTime \in Nat
  /\ Nobody \notin Agents /\ NoKey \notin Keys /\ Original \notin Requests

VARIABLES account,     \* status and consent as one flag, and the checkout lease
          draft,       \* revision and text; revision 0 if there is none
          actions,     \* the stored action of each write request
          approvals,   \* the stored approval of each routed action
          audit,       \* audit events per action and outcome
          now,
          mix,
          req,         \* what each request has in memory
          performed,   \* history: times the adapter carried out each action
          granted,     \* history: times a reviewer's approval was stored
          reviewed     \* history: the texts each approval was bound to

vars == <<account, draft, actions, approvals, audit, now, mix, req, performed, granted, reviewed>>
stored == <<account, draft, actions, approvals, audit, now, mix, performed, granted, reviewed>>

Accounts  == [eligible : BOOLEAN, holder : Agents \cup {Nobody}, until : Nat]
Drafts    == [rev : Nat, text : Requests \cup {Original}]
Actions   == [state : {"none", "needs_approval", "executing", "done", "failed", "refused"},
              kind : Kinds, key : Keys \cup {NoKey}]
Approvals == [state : {"none", "open", "approved", "changes_requested"},
              pinned : Nat, expires : Nat]
Events    == [allow : Nat, deny : Nat, route : Nat]

PCs == {"new", "account", "draft", "resolve", "lookup", "evaluate", "store_routed",
        "execute", "dispatch", "store_done", "store_failed", "allow", "deny", "route",
        "approval", "action", "decide", "check", "store_refused", "reopen", "store_reopened",
        "write_draft", "ended"}
Memory == [pc : PCs, op : Ops, key : Keys \cup {NoKey},
           act : Requests,            \* the action it is about
           kind : Kinds,
           account : Accounts, draft : Drafts, approval : Approvals,
           changed : BOOLEAN,         \* it has stored an action
           events : Nat,              \* audit events it has written
           cut : {"no", "raise", "crash"},     \* how it ended early
           held : BOOLEAN, fit : BOOLEAN, known : BOOLEAN]     \* history, see Begin

NoAction   == [state |-> "none", kind |-> "publish", key |-> NoKey]
NoApproval == [state |-> "none", pinned |-> 0, expires |-> 0]
NoDraft    == [rev |-> 0, text |-> Original]
NoAccount  == [eligible |-> FALSE, holder |-> Nobody, until |-> 0]
Blank(r) == [pc |-> "new", op |-> "edit", key |-> NoKey, act |-> r,
                kind |-> "publish", account |-> NoAccount,
                draft |-> NoDraft, approval |-> NoApproval,
                changed |-> FALSE, events |-> 0, cut |-> "no",
                held |-> FALSE, fit |-> FALSE, known |-> FALSE]

Init ==
  /\ account = [eligible |-> TRUE, holder |-> Nobody, until |-> 0]
  /\ draft \in {NoDraft, [rev |-> 1, text |-> Original]}
  /\ actions = [r \in Requests |-> NoAction]
  /\ approvals = [r \in Requests |-> NoApproval]
  /\ audit = [r \in Requests |-> [allow |-> 0, deny |-> 0, route |-> 0]]
  /\ now = 0
  /\ mix \in Mixes
  /\ req = [r \in Requests |->
              [Blank(r) EXCEPT !.pc = IF OpsOf[mix][r] = {} THEN "ended" ELSE "new"]]
  /\ performed = [r \in Requests |-> 0]
  /\ granted = [r \in Requests |-> 0]
  /\ reviewed = [r \in Requests |-> {}]

-----------------------------------------------------------------------------
HoldsLease(acc, a) == acc.holder = a /\ now < acc.until

IsExpired(approval) == ReviewTTL > 0 /\ now > approval.expires

Running(r) == req[r].pc \notin {"new", "ended"}

\* The event loop of a process serves one request until it awaits.
AtAwait(r) == req[r].pc \in {"new", "ended", "resolve", "dispatch"}
MayRun(r) == \A q \in Requests \ {r} : ProcessOf[q] = ProcessOf[r] => AtAwait(q)

At(r, pc) == req[r].pc = pc /\ MayRun(r)

\* The memory m of r becomes what it is, at step pc.
Goto(r, m, pc) == req' = [req EXCEPT ![r] = [m EXCEPT !.pc = pc]]

\* What is kept of a request that has ended: what its caller and the log can tell.
Rest(r, m, cut) ==
  [Blank(r) EXCEPT !.pc = "ended", !.op = m.op, !.act = m.act, !.changed = m.changed,
                   !.events = m.events, !.cut = cut]

End(r, m, cut) == req' = [req EXCEPT ![r] = Rest(r, m, cut)]

\* A request that will not come to an adapter any more: neither its copies of
\* the account and the draft are looked at again, nor its history.
Past(m) == [m EXCEPT !.account = NoAccount, !.draft = NoDraft,
                     !.held = FALSE, !.fit = FALSE, !.known = FALSE]

\* ActionRepository.upsert of the action in memory, with a new state.  The key
\* is a column of its own, which only the first store of an action fills.  The
\* copies of the account and the approval are not looked at again.
Store(r, state, pc) ==
  LET m == req[r]
      n == [m EXCEPT !.changed = TRUE, !.account = NoAccount, !.approval = NoApproval]
  IN
  /\ actions' = [actions EXCEPT ![m.act] =
                   [state |-> state, kind |-> m.kind,
                    key |-> IF @.state = "none" THEN m.key ELSE @.key]]
  /\ Goto(r, IF state = "executing" THEN n ELSE Past(n), pc)

\* The calls that may come to an adapter.
Acts(op) == op \in Kinds \cup {"approve"}

\* The caller's choice of call, and of the approval a review is about.  The
\* flags held and fit record whether, at some time since, the agent held the
\* checkout lease and the account was active with consent; known, whether the
\* request is a retry: an action made with its key was stored when it began.
Begin(r) ==
  /\ At(r, "new")
  /\ \E op \in OpsOf[mix][r], a \in Requests :
       /\ IF op \in Reviews THEN approvals[a].state # "none" ELSE a = r
       /\ LET m == [Blank(r) EXCEPT
                      !.op = op, !.key = IF op \in Writes THEN KeyOf[r] ELSE NoKey, !.act = a,
                      !.kind = IF op \in Kinds THEN op ELSE "publish",
                      !.held = op \in Writes /\ HoldsLease(account, AgentOf[r]),
                      !.fit = Acts(op) /\ account.eligible,
                      !.known = op \in Writes /\ KeyOf[r] # NoKey /\ \E q \in Requests :
                                  /\ actions[q].state # "none"
                                  /\ req[q].op \in Writes /\ KeyOf[q] = KeyOf[r]]
          IN  Goto(r, m, CASE op \in Kinds \cup {"create"} -> "account"
                           [] op \in Reviews -> "approval"
                           [] OTHER -> "draft")
  /\ UNCHANGED stored

-----------------------------------------------------------------------------
(* Reads: one session each.                                                *)

HasDraft(kind)  == kind \in {"publish", "comment"}
HasTarget(kind) == kind \in {"comment", "react", "read"}

\* What is kept of an account is what is looked at later: all of it for an act,
\* status and consent for an approval.
Kept(op) ==
  CASE op \in Kinds -> account
    [] op = "approve" -> [NoAccount EXCEPT !.eligible = account.eligible]
    [] OTHER -> NoAccount

ReadAccount(r) ==
  LET m == req[r] IN
  /\ At(r, "account")
  /\ Goto(r, [m EXCEPT !.account = Kept(m.op)],
          CASE m.op \in Kinds -> IF HasDraft(m.op) THEN "draft"
                                 ELSE IF HasTarget(m.op) THEN "resolve" ELSE "evaluate"
            [] m.op = "resubmit" -> IF HasDraft(m.kind) THEN "draft" ELSE "reopen"
            [] m.op = "create" -> "write_draft"
            [] OTHER -> "decide")
  /\ UNCHANGED stored

ReadDraft(r) ==
  LET m == req[r] IN
  /\ At(r, "draft")
  /\ IF draft = NoDraft
       THEN End(r, m, "no")
       ELSE Goto(r, [m EXCEPT !.draft = draft],
                 CASE m.op = "publish" -> "lookup" [] m.op = "comment" -> "resolve"
                   [] m.op = "approve" -> "check" [] m.op = "resubmit" -> "reopen"
                   [] OTHER -> "write_draft")
  /\ UNCHANGED stored

\* await adapter.resolve_target: the account and the draft in memory age.
Resolve(r) ==
  /\ At(r, "resolve")
  /\ \/ Goto(r, req[r], IF req[r].op \in Reads THEN "evaluate" ELSE "lookup")
     \/ End(r, req[r], "raise")
  /\ UNCHANGED stored

\* Mutant: the key is not looked up.
LookupSkipped(r) == At(r, "lookup") /\ Goto(r, req[r], "evaluate") /\ UNCHANGED stored

\* Mutant: what failed, or was refused, may be tried again under its key.
LookupUnlessFailed(r) ==
  LET m == req[r]
      known == m.key # NoKey /\ \E a \in Requests :
                 actions[a].key = m.key /\ actions[a].state \notin {"failed", "refused"}
  IN
  /\ At(r, "lookup")
  /\ IF known THEN End(r, m, "no") ELSE Goto(r, m, "evaluate")
  /\ UNCHANGED stored

\* find_by_idempotency_key: a stored action with the key is returned as it is.
Lookup(r) ==
  LET m == req[r]
      known == m.key # NoKey /\ \E a \in Requests : actions[a].key = m.key
  IN
  /\ At(r, "lookup")
  /\ IF known THEN End(r, m, "no") ELSE Goto(r, m, "evaluate")
  /\ UNCHANGED stored

ReadApproval(r) ==
  /\ At(r, "approval")
  /\ Goto(r, [req[r] EXCEPT !.approval = approvals[req[r].act]], "action")
  /\ UNCHANGED stored

\* The approval is stored before its action: the action may not be there yet.
ReadAction(r) ==
  LET m == req[r]
      found == actions[m.act]
  IN
  /\ At(r, "action")
  /\ IF found.state = "none"
       THEN End(r, m, "no")
       ELSE Goto(r, [m EXCEPT !.kind = found.kind], "account")
  /\ UNCHANGED stored

-----------------------------------------------------------------------------
(* A fresh act: the engine judges the copies in memory.                    *)

\* Mutant: the pipeline without the lock guard.
VerdictsWithoutLock(r) ==
  LET m == req[r] IN
  IF ~m.account.eligible
    THEN {"deny"}
    ELSE {"allow", "deny"} \cup IF m.op \in Writes THEN {"route"} ELSE {}

\* Of the ten guards, account_active, authorization and, for writes, lock
\* are told apart; the others may refuse, route a write, or let it pass.
Verdicts(r) ==
  LET m == req[r] IN
  IF ~m.account.eligible \/ (m.op \in Writes /\ ~HoldsLease(m.account, AgentOf[r]))
    THEN {"deny"}
    ELSE {"allow", "deny"} \cup IF m.op \in Writes THEN {"route"} ELSE {}

Refuse(r) ==
  /\ At(r, "evaluate") /\ "deny" \in Verdicts(r)
  /\ Store(r, "refused", "deny")
  /\ UNCHANGED <<account, draft, approvals, audit, now, mix, performed, granted, reviewed>>

\* ApprovalQueue.submit and reopen: open, bound to the revision in memory.
Bind(r, pc) ==
  LET m == req[r] IN
  /\ approvals' = [approvals EXCEPT ![m.act] =
                     [state |-> "open", pinned |-> m.draft.rev, expires |-> now + ReviewTTL]]
  /\ reviewed' = [reviewed EXCEPT ![m.act] =
                    @ \cup IF HasDraft(m.kind) THEN {m.draft.text} ELSE {}]
  /\ Goto(r, Past(m), pc)
  /\ UNCHANGED <<account, draft, actions, audit, now, mix, performed, granted>>

\* Mutant: the action is stored before its approval.
RouteStoresFirst(r) ==
  /\ At(r, "evaluate") /\ "route" \in Verdicts(r)
  /\ Store(r, "needs_approval", "reopen")
  /\ UNCHANGED <<account, draft, approvals, audit, now, mix, performed, granted, reviewed>>

Route(r) == At(r, "evaluate") /\ "route" \in Verdicts(r) /\ Bind(r, "store_routed")

StoreRouted(r) ==
  /\ At(r, "store_routed")
  /\ Store(r, "needs_approval", "route")
  /\ UNCHANGED <<account, draft, approvals, audit, now, mix, performed, granted, reviewed>>

\* A read is not stored before it is dispatched.
StartRead(r) ==
  /\ At(r, "evaluate") /\ req[r].op \in Reads /\ "allow" \in Verdicts(r)
  /\ Goto(r, req[r], "dispatch")
  /\ UNCHANGED stored

\* Mutant: the act is handed to the adapter before it is stored.
StartExecutionUnstored(r) ==
  /\ \/ At(r, "evaluate") /\ req[r].op \in Writes /\ "allow" \in Verdicts(r)
     \/ At(r, "execute")
  /\ Goto(r, [req[r] EXCEPT !.changed = TRUE], "dispatch")
  /\ UNCHANGED stored

StartExecution(r) ==
  /\ \/ At(r, "evaluate") /\ req[r].op \in Writes /\ "allow" \in Verdicts(r)
     \/ At(r, "execute")
  /\ Store(r, "executing", "dispatch")
  /\ UNCHANGED <<account, draft, approvals, audit, now, mix, performed, granted, reviewed>>

-----------------------------------------------------------------------------
(* The adapter.  It performs the act, reports a failure (a result that is  *)
(* not ok, UnsupportedCapability, ContentInvalid), or raises anything      *)
(* else, after performing it or not: nothing above catches that.           *)

Performed(a) == performed' = [performed EXCEPT ![a] = @ + 1]

DispatchOk(r) ==
  /\ At(r, "dispatch")
  /\ Performed(req[r].act)
  /\ Goto(r, Past(req[r]), "store_done")
  /\ UNCHANGED <<account, draft, actions, approvals, audit, now, mix, granted, reviewed>>

\* Mutant: a refusal of the adapter is returned, and not stored.
DispatchFailsUnstored(r) ==
  /\ At(r, "dispatch") /\ req[r].op \notin Reads
  /\ End(r, req[r], "no")
  /\ UNCHANGED stored

\* A read has no such branch: its adapter returns or raises.
DispatchFails(r) ==
  /\ At(r, "dispatch") /\ req[r].op \notin Reads
  /\ Goto(r, Past(req[r]), "store_failed")
  /\ UNCHANGED stored

DispatchRaises(r) ==
  /\ At(r, "dispatch")
  /\ UNCHANGED performed \/ Performed(req[r].act)
  /\ End(r, req[r], "raise")
  /\ UNCHANGED <<account, draft, actions, approvals, audit, now, mix, granted, reviewed>>

StoreDone(r) ==
  /\ At(r, "store_done")
  /\ Store(r, "done", "allow")
  /\ UNCHANGED <<account, draft, approvals, audit, now, mix, performed, granted, reviewed>>

\* Mutant: a failed act is recorded as allowed.
StoreFailedAsAllowed(r) ==
  /\ At(r, "store_failed")
  /\ Store(r, "failed", "allow")
  /\ UNCHANGED <<account, draft, approvals, audit, now, mix, performed, granted, reviewed>>

StoreFailed(r) ==
  /\ At(r, "store_failed")
  /\ Store(r, "failed", "deny")
  /\ UNCHANGED <<account, draft, approvals, audit, now, mix, performed, granted, reviewed>>

\* AuditLog.record, the last session of every path that has one.
Record(r) ==
  LET m == req[r] IN
  /\ At(r, m.pc) /\ m.pc \in {"allow", "deny", "route"}
  /\ audit' = [audit EXCEPT ![m.act][m.pc] = @ + 1]
  /\ End(r, [m EXCEPT !.events = @ + 1], "no")
  /\ UNCHANGED <<account, draft, actions, approvals, now, mix, performed, granted, reviewed>>

-----------------------------------------------------------------------------
(* A review.  Every decision writes back the approval as it was read; none *)
(* of them asks whether it is still open.                                  *)

\* Mutant: the state of the action is written to the approval.
SetReviewMixedUp(r, state) ==
  approvals' = [approvals EXCEPT
                  ![req[r].act] = [req[r].approval EXCEPT !.state = actions[req[r].act].state]]

SetReview(r, state) ==
  approvals' = [approvals EXCEPT ![req[r].act] = [req[r].approval EXCEPT !.state = state]]

RequestChanges(r) ==
  /\ At(r, "decide") /\ req[r].op = "changes"
  /\ SetReview(r, "changes_requested")
  /\ End(r, req[r], "no")
  /\ UNCHANGED <<account, draft, actions, audit, now, mix, performed, granted, reviewed>>

\* reject, or an approve that comes after the approval's time to live.
Reject(r) ==
  /\ At(r, "decide")
  /\ req[r].op = "reject" \/ (req[r].op = "approve" /\ IsExpired(req[r].approval))
  /\ SetReview(r, "changes_requested")
  /\ Goto(r, Past(req[r]), "store_refused")
  /\ UNCHANGED <<account, draft, actions, audit, now, mix, performed, granted, reviewed>>

\* Mutant: straight to the execution.
ApproveUnchecked(r) ==
  /\ At(r, "decide") /\ req[r].op = "approve" /\ ~IsExpired(req[r].approval)
  /\ Goto(r, req[r], "execute")
  /\ UNCHANGED stored

Approve(r) ==
  /\ At(r, "decide") /\ req[r].op = "approve" /\ ~IsExpired(req[r].approval)
  /\ Goto(r, req[r], IF HasDraft(req[r].kind) THEN "draft" ELSE "check")
  /\ UNCHANGED stored

\* Mutants: a revision, or an account, that is not checked again.
IsStaleIgnored(m) == FALSE
EligibleUnchecked(m) == TRUE

\* The draft moved on since the approval was bound, if it was to one.
IsStale(m) == HasDraft(m.kind) /\ m.approval.pinned # 0 /\ m.draft.rev # m.approval.pinned

Eligible(m) == m.account.eligible

RefuseApproved(r) ==
  /\ At(r, "check") /\ (IsStale(req[r]) \/ ~Eligible(req[r]))
  /\ SetReview(r, "changes_requested")
  /\ Goto(r, Past(req[r]), "store_refused")
  /\ UNCHANGED <<account, draft, actions, audit, now, mix, performed, granted, reviewed>>

Grant(r) ==
  /\ At(r, "check") /\ ~IsStale(req[r]) /\ Eligible(req[r])
  /\ SetReview(r, "approved")
  /\ granted' = [granted EXCEPT ![req[r].act] = @ + 1]
  /\ Goto(r, req[r], "execute")
  /\ UNCHANGED <<account, draft, actions, audit, now, mix, performed, reviewed>>

\* Mutant: a rejection leaves no audit event.
StoreRefusedSilently(r) ==
  /\ At(r, "store_refused")
  /\ actions' = [actions EXCEPT ![req[r].act].state = "refused"]
  /\ End(r, [req[r] EXCEPT !.changed = TRUE], "no")
  /\ UNCHANGED <<account, draft, approvals, audit, now, mix, performed, granted, reviewed>>

StoreRefused(r) ==
  /\ At(r, "store_refused")
  /\ Store(r, "refused", "deny")
  /\ UNCHANGED <<account, draft, approvals, audit, now, mix, performed, granted, reviewed>>

Reopen(r) == At(r, "reopen") /\ Bind(r, "store_reopened")

StoreReopened(r) ==
  /\ At(r, "store_reopened")
  /\ Store(r, "needs_approval", "route")
  /\ UNCHANGED <<account, draft, approvals, audit, now, mix, performed, granted, reviewed>>

\* create_draft mints an id of its own: a second draft is apart from this one.
CreateDraft(r) ==
  /\ At(r, "write_draft") /\ req[r].op = "create"
  /\ draft' = IF draft = NoDraft THEN [rev |-> 1, text |-> r] ELSE draft
  /\ End(r, req[r], "no")
  /\ UNCHANGED <<account, actions, approvals, audit, now, mix, performed, granted, reviewed>>

\* update_draft: revision + 1 on the copy read before, without a comparison.
WriteDraft(r) ==
  /\ At(r, "write_draft") /\ req[r].op = "edit"
  /\ draft' = [rev |-> req[r].draft.rev + 1, text |-> r]
  /\ End(r, req[r], "no")
  /\ UNCHANGED <<account, actions, approvals, audit, now, mix, performed, granted, reviewed>>

-----------------------------------------------------------------------------
(* Around the requests: the clock, the lease (Checkout.tla), the account's *)
(* status and consent (Lifecycle.tla), and a server process that dies.     *)

\* Bound: nothing changes around the requests once all of them have ended.
Open == \E r \in Requests : req[r].pc # "ended"

\* A lease that has run out is worth nothing to anyone from then on (Checkout.tla):
\* the account is left without it.  The copies in memory keep theirs.
Tick ==
  /\ Open /\ now < MaxTime
  /\ now' = now + 1
  /\ account' = IF account.until <= now' THEN [account EXCEPT !.holder = Nobody, !.until = 0]
                                         ELSE account
  /\ UNCHANGED <<draft, actions, approvals, audit, mix, req, performed, granted, reviewed>>

\* The request may still come to an adapter.
Ahead(r) == /\ Running(r) /\ Acts(req[r].op)
            /\ req[r].pc \notin {"store_routed", "store_refused", "store_done", "store_failed",
                                "allow", "deny", "route"}

Around == <<draft, actions, approvals, audit, now, mix, performed, granted, reviewed>>

CheckOut(a) ==
  /\ Open /\ account.holder \in {Nobody, a}
  /\ account' = [account EXCEPT !.holder = a, !.until = now + LeaseTTL]
  /\ req' = [r \in Requests |->
               [req[r] EXCEPT !.held = @ \/ (Ahead(r) /\ req[r].op \in Writes /\ AgentOf[r] = a)]]
  /\ UNCHANGED Around

CheckIn ==
  /\ Open /\ account.holder # Nobody
  /\ account' = [account EXCEPT !.holder = Nobody, !.until = 0]
  /\ UNCHANGED <<req, Around>>

Revoke ==
  /\ Open /\ account.eligible
  /\ account' = [account EXCEPT !.eligible = FALSE]
  /\ UNCHANGED <<req, Around>>

Reactivate ==
  /\ Open /\ ~account.eligible
  /\ account' = [account EXCEPT !.eligible = TRUE]
  /\ req' = [r \in Requests |-> [req[r] EXCEPT !.fit = @ \/ Ahead(r)]]
  /\ UNCHANGED Around

Crash(p) ==
  /\ Crashes
  /\ \E r \in Requests : ProcessOf[r] = p /\ Running(r)
  /\ req' = [r \in Requests |->
               IF ProcessOf[r] = p /\ Running(r)
                 THEN Rest(r, req[r], "crash") ELSE req[r]]
  /\ UNCHANGED stored

Serve(r) ==
  \/ ReadAccount(r) \/ ReadDraft(r) \/ Resolve(r) \/ Lookup(r) \/ ReadApproval(r) \/ ReadAction(r)
  \/ Refuse(r) \/ Route(r) \/ StoreRouted(r) \/ StartRead(r) \/ StartExecution(r)
  \/ DispatchOk(r) \/ DispatchFails(r) \/ DispatchRaises(r)
  \/ StoreDone(r) \/ StoreFailed(r) \/ Record(r)
  \/ RequestChanges(r) \/ Reject(r) \/ Approve(r) \/ RefuseApproved(r) \/ Grant(r)
  \/ StoreRefused(r) \/ Reopen(r) \/ StoreReopened(r)
  \/ CreateDraft(r) \/ WriteDraft(r)

Next ==
  \/ \E r \in Requests : Begin(r) \/ Serve(r)
  \/ \E r \in Requests : Crash(ProcessOf[r])
  \/ Tick \/ CheckIn \/ Revoke \/ Reactivate
  \/ \E a \in Agents : CheckOut(a)
  \/ ~Open /\ UNCHANGED vars

Spec == Init /\ [][Next]_vars

-----------------------------------------------------------------------------
\* The values every variable ranges over.
TypeOK ==
  /\ account \in Accounts /\ draft \in Drafts /\ now \in Nat
  /\ actions \in [Requests -> Actions] /\ approvals \in [Requests -> Approvals]
  /\ audit \in [Requests -> Events] /\ mix \in Mixes
  /\ req \in [Requests -> Memory]
  /\ performed \in [Requests -> Nat] /\ granted \in [Requests -> Nat]
  /\ reviewed \in [Requests -> SUBSET (Requests \cup {Original})]

Dispatching(r) == req[r].pc = "dispatch"

\* What an approval sends to the platform is a text that was put before the
\* reviewers of that action: the pinned revision identifies the text.
ReviewedTextOnly ==
  \A r \in Requests :
    Dispatching(r) /\ req[r].op = "approve" /\ HasDraft(req[r].kind)
      => req[r].draft.text \in reviewed[req[r].act]

\* An action that was routed to approval is carried out at most once for
\* every approval a reviewer gave it.
OnePostPerApproval ==
  \A a \in Requests : approvals[a].state # "none" => performed[a] <= granted[a]

\* A routed action can be decided: its approval is there whenever the action
\* says that it needs one, whichever process dies in between.
RoutedHasApproval ==
  \A a \in Requests : actions[a].state = "needs_approval" => approvals[a].state # "none"

\* Once the account is suspended or its consent revoked, no request that
\* begins afterwards reaches the platform, approvals given earlier included.
RevocationHolds == \A r \in Requests : Dispatching(r) => req[r].fit

\* A write that was not routed reaches the platform only if its agent held
\* the checkout lease at some time since the request was made.
LeaseHolds == \A r \in Requests : Dispatching(r) /\ req[r].op \in Writes => req[r].held

\* One server process never stores two actions under one idempotency key.
KeyNamesOneAction ==
  \A a, b \in Requests :
    a # b /\ ProcessOf[a] = ProcessOf[b] /\ actions[a].key = actions[b].key
      => actions[a].key = NoKey

\* A retry is not carried out: once an action was stored under a key, no
\* request that begins with the key acts, in any server process, whatever the
\* reviewers made of the action since and whichever process died on it.
RetriesActOnce ==
  \A r \in Requests : Dispatching(r) /\ req[r].op \in Writes => ~req[r].known

ReviewsOf(a) == {r \in Requests : req[r].act = a /\ req[r].op \in Reviews /\ req[r].pc # "new"}

\* What the platform carried out is on record before it happens, and stays so
\* through a crash at any step: the action is executing or done, unless
\* several reviews of it overwrote each other.
PerformedIsOnRecord ==
  \A a \in Requests :
    performed[a] > 0 /\ req[a].op \in Writes /\ Cardinality(ReviewsOf(a)) <= 1
      => actions[a].state \in {"executing", "done"}

\* An action is left executing by a request that died, or whose adapter
\* raised, and by no other path or race.
StuckIsExplained ==
  \A a \in Requests :
    actions[a].state = "executing"
      => \E r \in Requests : /\ req[r].act = a
                             /\ \/ req[r].pc \in {"dispatch", "store_done", "store_failed"}
                                \/ req[r].cut # "no"

\* A request that stored an action and ran to its end wrote one audit event.
ActsAreAudited ==
  \A r \in Requests : req[r].pc = "ended" /\ req[r].changed /\ req[r].cut = "no"
                        => req[r].events = 1

\* The audit log never reports an execution that did not take place.
AllowMeansPerformed == \A a \in Requests : audit[a].allow <= performed[a]

-----------------------------------------------------------------------------
(* What the repository says and the code does not keep: each is refuted by *)
(* a run of its own.                                                       *)

\* "Every acting path writes exactly one event", the ones that end in an
\* exception of the adapter included.
AuditedOnEveryPath ==
  \A r \in Requests : req[r].pc = "ended" /\ req[r].changed /\ req[r].cut # "crash"
                        => req[r].events = 1

\* "Re-open a changes-requested approval": what was approved is not put
\* before the reviewers, and then to the platform, once more.
ApprovedIsNotReopened ==
  [][\A a \in Requests : approvals[a].state = "approved" => approvals'[a].state # "open"]_vars

\* "Editing bumps revision and invalidates any pinned approval", two edits
\* from two server processes included.
EditInvalidatesApproval == ReviewedTextOnly
=============================================================================
