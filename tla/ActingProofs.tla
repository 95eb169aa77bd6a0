---------------------------- MODULE ActingProofs -----------------------------
(***************************************************************************)
(* Proofs about Acting for any requests, agents, processes and mixes of    *)
(* calls.  On top of the types and the paths (ActingSteps) there is one    *)
(* invariant for each thing the properties speak of: the marks of what a   *)
(* request may rely on, the stored actions with their approvals, the       *)
(* idempotency keys, how often the platform acts, what is on record, and   *)
(* the texts of the draft.                                                 *)
(***************************************************************************)
EXTENDS ActingSteps, FiniteSetTheorems

-----------------------------------------------------------------------------
(* The invariants.                                                         *)

\* A request that may come to an adapter has its marks as soon as what they
\* mark is so, of the account or of the copy in its memory.
Marked(r) ==
  /\ Ahead(r) /\ (account.eligible \/ req[r].account.eligible) => req[r].fit
  /\ req[r].pc \in {"execute", "dispatch"} => req[r].fit
  /\ Ahead(r) /\ req[r].op \in Writes
     /\ (HoldsLease(account, AgentOf[r]) \/ HoldsLease(req[r].account, AgentOf[r]))
       => req[r].held
  /\ req[r].pc = "dispatch" /\ req[r].op \in Writes => req[r].held
AllMarked == \A r \in Requests : Marked(r)

\* An action is made by the request it is named after, which is then past its
\* evaluation; a routed one is left to the reviewers.
Made(a) ==
  /\ actions[a].state # "none" \/ performed[a] > 0
       => /\ req[a].op \in Kinds
          /\ req[a].pc \in {"dispatch", "store_done", "store_failed", "allow", "deny", "route",
                            "ended"}
  /\ actions[a].state # "none" => /\ actions[a].kind = req[a].op
                                  /\ actions[a].key = OwnKey(a, req[a].op)
  /\ actions[a].state = "none" => actions[a].key = NoKey
  /\ approvals[a].state # "none" => /\ req[a].op \in Writes
                                    /\ req[a].pc \in {"store_routed", "route", "ended"}
  /\ actions[a].state = "needs_approval" => approvals[a].state # "none"

\* What a request knows to be stored.
Found(r) ==
  LET m == req[r] IN
  /\ m.op \in Reviews \/ m.pc = "store_routed" => approvals[m.act].state # "none"
  /\ m.op \in Reviews /\ Running(r) /\ m.pc \notin {"approval", "action"}
       => actions[m.act].state # "none" /\ actions[m.act].kind = m.kind
  /\ m.op \in Writes /\ m.pc \in {"dispatch", "store_done", "store_failed"}
       => actions[r].state # "none"
Stored == \A r \in Requests : Made(r) /\ Found(r)

\* From its lookup to its first write, a request shares its key with no action
\* of its process.
KeyFree(r) ==
  req[r].op \in Writes /\ KeyOf[r] # NoKey /\ req[r].pc \in {"evaluate", "store_routed"}
    => \A a \in Requests \ {r} : ProcessOf[a] = ProcessOf[r] => actions[a].key # KeyOf[r]

\* A retry is on its way to its lookup, which finds the action.
Retry(r) ==
  req[r].known => /\ req[r].op \in Writes /\ KeyOf[r] # NoKey
                  /\ req[r].pc \in {"account", "draft", "resolve", "lookup"}
                  /\ \E q \in Requests : actions[q].key = KeyOf[r]
Keyed == KeyNamesOneAction /\ \A r \in Requests : KeyFree(r) /\ Retry(r)

\* The approvals of an action that were granted and may still reach the
\* platform, and the requests that will report that the action took place.
Pending(a) ==
  {r \in Requests : /\ req[r].act = a /\ req[r].op = "approve"
                    /\ req[r].pc \in {"execute", "dispatch"}}
Reporting(a) == {r \in Requests : req[r].act = a /\ req[r].pc \in {"store_done", "allow"}}
Counted(a) ==
  /\ IsFiniteSet(Pending(a)) /\ IsFiniteSet(Reporting(a))
  /\ approvals[a].state # "none" => performed[a] + Cardinality(Pending(a)) <= granted[a]
  /\ audit[a].allow + Cardinality(Reporting(a)) <= performed[a]
AllCounted == \A a \in Requests : Counted(a)

\* Two reviews of one action.
Crowded(a) == \E r, q \in Requests : /\ r # q /\ req[r].act = a /\ req[q].act = a
                                     /\ req[r].op \in Reviews /\ req[q].op \in Reviews

\* The steps at which a request has not carried its action out, and may yet
\* store something else about it.
Unperformed == {"approval", "action", "account", "draft", "decide", "check", "reopen",
                "store_refused", "store_reopened", "execute", "dispatch", "store_failed"}

\* While one request at most reviews an action, what is stored of it is what
\* this request, or the one that made the action, has made of it.
Recorded(a) ==
  /\ performed[a] > 0 /\ approvals[a].state # "none"
       => \E r \in Requests : req[r].op \in Reviews /\ req[r].act = a
  /\ performed[a] > 0 /\ req[a].op \in Writes
       => actions[a].state \in {"executing", "done"} \/ Crowded(a)
OnRecord(r) ==
  LET m == req[r] IN
  /\ m.op \in Writes \cup Reviews /\ m.pc \in Unperformed => performed[m.act] = 0 \/ Crowded(m.act)
  /\ m.op \in Writes \cup {"approve"} /\ m.pc = "dispatch"
       => actions[m.act].state = "executing" \/ Crowded(m.act)
Logged == /\ IsFiniteSet({r \in Requests : req[r].op \in Reviews})
          /\ \A r \in Requests : Recorded(r) /\ OnRecord(r)

-----------------------------------------------------------------------------
(* The texts of the draft, if one process serves all its edits.            *)

OneEditor ==
  \A mx \in Mixes : \A r, q \in Requests :
    "edit" \in OpsOf[mx][r] \cap OpsOf[mx][q] => ProcessOf[r] = ProcessOf[q]

\* The draft as it is, and the copies of it in memory.
Copies == {draft} \cup {req[q].draft : q \in Requests}

\* A revision has one text, and none is newer than the draft.
Agreed ==
  /\ \A c \in Copies : c.rev <= draft.rev
  /\ \A c, d \in Copies : c.rev = d.rev /\ c.rev # 0 => c.text = d.text
  /\ draft.rev = 0 => draft = NoDraft

\* The text of a revision that the approval of a is bound to was put before
\* the reviewers of a, wherever that revision is found.
BoundTo(rev, a) ==
  rev <= draft.rev /\ \A c \in Copies : c.rev = rev /\ rev # 0 => c.text \in reviewed[a]

Pinned(a) ==
  /\ BoundTo(approvals[a].pinned, a)
  /\ approvals[a].state # "none" /\ HasDraft(req[a].op) => approvals[a].pinned # 0

\* At this step a request has read the draft.
HasRead(r) ==
  LET m == req[r] IN
  \/ m.op = "publish" /\ m.pc \in {"lookup", "evaluate"}
  \/ m.op = "comment" /\ m.pc \in {"resolve", "lookup", "evaluate"}
  \/ m.op \in {"approve", "resubmit"} /\ HasDraft(m.kind) /\ m.pc \in {"check", "reopen"}
  \/ m.op = "edit" /\ m.pc = "write_draft"

Reading(r) ==
  LET m == req[r] IN
  /\ HasRead(r) => m.draft.rev # 0
  /\ m.pc = "draft" /\ m.op \in Reviews => HasDraft(m.kind)
  /\ m.pc = "resolve" => m.op # "publish"
  /\ m.draft.rev # 0 => m.op = "edit" \/ (HasDraft(m.kind) /\ m.pc \notin {"approval", "action"})
  /\ m.op = "edit" /\ m.pc \in {"draft", "write_draft"} => "edit" \in OpsOf[mix][r]
  /\ m.op = "edit" /\ m.pc = "write_draft" => m.draft = draft

Reviewing(r) ==
  LET m == req[r] IN
  /\ Running(r) => BoundTo(m.approval.pinned, m.act)
  /\ m.op \in Reviews /\ HasDraft(req[m.act].op)
     /\ m.pc \in {"action", "account", "decide", "draft", "check"} => m.approval.pinned # 0
  /\ m.op = "approve" /\ m.pc \in {"execute", "dispatch"} /\ HasDraft(m.kind)
       => m.draft.text \in reviewed[m.act]
Texts == Agreed /\ \A r \in Requests : Pinned(r) /\ Reading(r) /\ Reviewing(r)

-----------------------------------------------------------------------------
(* The marks.                                                              *)

\* Every step keeps the marks: they are set no later than what they mark, and
\* an act is let through only on copies that the marks cover.
LEMMA MarkStep == TypeOK /\ Paths /\ AllMarked /\ [Next]_vars => AllMarked'
<1> SUFFICES ASSUME TypeOK, Paths, AllMarked, [Next]_vars PROVE AllMarked'
  OBVIOUS
<1> USE DEF Ahead, Running, Acts, HoldsLease, Kinds, Writes, Reads, Reviews, Ops
<1>a. \A r \in Requests : AgentOf[r] \in Agents /\ AgentOf[r] # Nobody
  BY ActingAssumption
<1>b. NoAccount.holder = Nobody /\ ~NoAccount.eligible
  BY BlankTypes
<1>c. ASSUME NEW r \in Requests, Only(r), UNCHANGED <<account, now>>, Marked(r)'
      PROVE  AllMarked'
  BY <1>c DEF Only, AllMarked, Marked
<1>1. ASSUME NEW r \in Requests, Begin(r) PROVE AllMarked'
  <2>1. Only(r) /\ UNCHANGED <<account, now>> /\ Marked(r) /\ Path(r)
    BY <1>1, BeginStep DEF AllMarked, Paths, Starts, stored
  <2>2. Marked(r)'
    BY <1>1, <1>a, <1>b, <2>1, BeginStep DEF Marked, Path, Starts, Ids, Views, Marks, Passed,
       FirstStep
  <2> QED
    BY <1>c, <2>1, <2>2
<1>2. ASSUME NEW r \in Requests, ReadAccount(r) PROVE AllMarked'
  <2>1. Only(r) /\ UNCHANGED <<account, now>> /\ Marked(r) /\ Path(r)
    BY <1>2, ReadAccountStep DEF AllMarked, Paths, stored
  <2>2. Marked(r)'
    BY <1>2, <1>a, <1>b, <2>1, ReadAccountStep, KeptFields DEF Marked, Path, Ids, Views, Marks,
       Passed
  <2> QED
    BY <1>c, <2>1, <2>2
<1>3. ASSUME NEW r \in Requests, ReadDraft(r) PROVE AllMarked'
  <2>1. Only(r) /\ UNCHANGED <<account, now>> /\ Marked(r) /\ Path(r)
    BY <1>3, ReadDraftStep DEF AllMarked, Paths, Ends, stored
  <2>2. Marked(r)'
    BY <1>3, <1>a, <1>b, <2>1, ReadDraftStep DEF Marked, Path, Ends, Ids, Views, Marks, Passed,
       Ended
  <2> QED
    BY <1>c, <2>1, <2>2
<1>4. ASSUME NEW r \in Requests, Resolve(r) PROVE AllMarked'
  <2>1. Only(r) /\ UNCHANGED <<account, now>> /\ Marked(r) /\ Path(r)
    BY <1>4, ResolveStep DEF AllMarked, Paths, Moves, Ends, stored
  <2>2. Marked(r)'
    BY <1>4, <1>a, <1>b, <2>1, ResolveStep DEF Marked, Path, Moves, Ends, Ids, Views, Marks,
       Passed, Ended
  <2> QED
    BY <1>c, <2>1, <2>2
<1>5. ASSUME NEW r \in Requests, Lookup(r) PROVE AllMarked'
  <2>1. Only(r) /\ UNCHANGED <<account, now>> /\ Marked(r) /\ Path(r)
    BY <1>5, LookupStep DEF AllMarked, Paths, Moves, Ends, stored
  <2>2. Marked(r)'
    BY <1>5, <1>a, <1>b, <2>1, LookupStep DEF Marked, Path, Moves, Ends, Ids, Views, Marks,
       Passed, Ended
  <2> QED
    BY <1>c, <2>1, <2>2
<1>6. ASSUME NEW r \in Requests, ReadApproval(r) PROVE AllMarked'
  <2>1. Only(r) /\ UNCHANGED <<account, now>> /\ Marked(r) /\ Path(r)
    BY <1>6, ReadApprovalStep DEF AllMarked, Paths, stored
  <2>2. Marked(r)'
    BY <1>6, <1>a, <1>b, <2>1, ReadApprovalStep DEF Marked, Path, Ids, Views, Marks, Passed
  <2> QED
    BY <1>c, <2>1, <2>2
<1>7. ASSUME NEW r \in Requests, ReadAction(r) PROVE AllMarked'
  <2>1. Only(r) /\ UNCHANGED <<account, now>> /\ Marked(r) /\ Path(r)
    BY <1>7, ReadActionStep DEF AllMarked, Paths, Ends, stored
  <2>2. Marked(r)'
    BY <1>7, <1>a, <1>b, <2>1, ReadActionStep DEF Marked, Path, Ends, Ids, Views, Marks, Passed,
       Ended
  <2> QED
    BY <1>c, <2>1, <2>2
<1>8. ASSUME NEW r \in Requests, Refuse(r) PROVE AllMarked'
  <2>1. Only(r) /\ UNCHANGED <<account, now>> /\ Marked(r) /\ Path(r)
    BY <1>8, RefuseStep DEF AllMarked, Paths, Stores
  <2>2. Marked(r)'
    BY <1>8, <1>a, <1>b, <2>1, RefuseStep DEF Marked, Path, Stores, Ids, Views, Marks, Passed
  <2> QED
    BY <1>c, <2>1, <2>2
<1>9. ASSUME NEW r \in Requests, Route(r) PROVE AllMarked'
  <2>1. Only(r) /\ UNCHANGED <<account, now>> /\ Marked(r) /\ Path(r)
    BY <1>9, RouteStep DEF AllMarked, Paths, Binds, Passes
  <2>2. Marked(r)'
    BY <1>9, <1>a, <1>b, <2>1, RouteStep DEF Marked, Path, Binds, Passes, Ids, Views, Marks,
       Passed
  <2> QED
    BY <1>c, <2>1, <2>2
<1>10. ASSUME NEW r \in Requests, StoreRouted(r) PROVE AllMarked'
  <2>1. Only(r) /\ UNCHANGED <<account, now>> /\ Marked(r) /\ Path(r)
    BY <1>10, StoreRoutedStep DEF AllMarked, Paths, Stores
  <2>2. Marked(r)'
    BY <1>10, <1>a, <1>b, <2>1, StoreRoutedStep DEF Marked, Path, Stores, Ids, Views, Marks,
       Passed
  <2> QED
    BY <1>c, <2>1, <2>2
<1>11. ASSUME NEW r \in Requests, StartRead(r) PROVE AllMarked'
  <2>1. Only(r) /\ UNCHANGED <<account, now>> /\ Marked(r) /\ Path(r)
    BY <1>11, StartReadStep DEF AllMarked, Paths, Moves, stored
  <2>2. Marked(r)'
    BY <1>11, <1>a, <1>b, <2>1, StartReadStep DEF Marked, Path, Moves, Ids, Views, Marks,
       Passed, Judged
  <2> QED
    BY <1>c, <2>1, <2>2
<1>12. ASSUME NEW r \in Requests, StartExecution(r) PROVE AllMarked'
  <2>1. Only(r) /\ UNCHANGED <<account, now>> /\ Marked(r) /\ Path(r)
    BY <1>12, StartExecutionStep DEF AllMarked, Paths, Stores
  <2>2. Marked(r)'
    BY <1>12, <1>a, <1>b, <2>1, StartExecutionStep DEF Marked, Path, Stores, Ids, Views, Marks,
       Passed, Judged
  <2> QED
    BY <1>c, <2>1, <2>2
<1>13. ASSUME NEW r \in Requests, DispatchOk(r) PROVE AllMarked'
  <2>1. Only(r) /\ UNCHANGED <<account, now>> /\ Marked(r) /\ Path(r)
    BY <1>13, DispatchOkStep DEF AllMarked, Paths, Passes, Counts
  <2>2. Marked(r)'
    BY <1>13, <1>a, <1>b, <2>1, DispatchOkStep DEF Marked, Path, Passes, Ids, Views, Marks,
       Passed
  <2> QED
    BY <1>c, <2>1, <2>2
<1>14. ASSUME NEW r \in Requests, DispatchFails(r) PROVE AllMarked'
  <2>1. Only(r) /\ UNCHANGED <<account, now>> /\ Marked(r) /\ Path(r)
    BY <1>14, DispatchFailsStep DEF AllMarked, Paths, Passes, stored
  <2>2. Marked(r)'
    BY <1>14, <1>a, <1>b, <2>1, DispatchFailsStep DEF Marked, Path, Passes, Ids, Views, Marks,
       Passed
  <2> QED
    BY <1>c, <2>1, <2>2
<1>15. ASSUME NEW r \in Requests, DispatchRaises(r) PROVE AllMarked'
  <2>1. Only(r) /\ UNCHANGED <<account, now>> /\ Marked(r) /\ Path(r)
    BY <1>15, DispatchRaisesStep DEF AllMarked, Paths, Ends, Counts
  <2>2. Marked(r)'
    BY <1>15, <1>a, <1>b, <2>1, DispatchRaisesStep DEF Marked, Path, Ends, Ids, Views, Marks,
       Passed, Ended
  <2> QED
    BY <1>c, <2>1, <2>2
<1>16. ASSUME NEW r \in Requests, StoreDone(r) PROVE AllMarked'
  <2>1. Only(r) /\ UNCHANGED <<account, now>> /\ Marked(r) /\ Path(r)
    BY <1>16, StoreDoneStep DEF AllMarked, Paths, Stores
  <2>2. Marked(r)'
    BY <1>16, <1>a, <1>b, <2>1, StoreDoneStep DEF Marked, Path, Stores, Ids, Views, Marks,
       Passed
  <2> QED
    BY <1>c, <2>1, <2>2
<1>17. ASSUME NEW r \in Requests, StoreFailed(r) PROVE AllMarked'
  <2>1. Only(r) /\ UNCHANGED <<account, now>> /\ Marked(r) /\ Path(r)
    BY <1>17, StoreFailedStep DEF AllMarked, Paths, Stores
  <2>2. Marked(r)'
    BY <1>17, <1>a, <1>b, <2>1, StoreFailedStep DEF Marked, Path, Stores, Ids, Views, Marks,
       Passed
  <2> QED
    BY <1>c, <2>1, <2>2
<1>18. ASSUME NEW r \in Requests, Record(r) PROVE AllMarked'
  <2>1. Only(r) /\ UNCHANGED <<account, now>> /\ Marked(r) /\ Path(r)
    BY <1>18, RecordStep DEF AllMarked, Paths
  <2>2. Marked(r)'
    BY <1>18, <1>a, <1>b, <2>1, RecordStep DEF Marked, Path, Ids, Views, Marks, Passed, Ended
  <2> QED
    BY <1>c, <2>1, <2>2
<1>19. ASSUME NEW r \in Requests, RequestChanges(r) PROVE AllMarked'
  <2>1. Only(r) /\ UNCHANGED <<account, now>> /\ Marked(r) /\ Path(r)
    BY <1>19, RequestChangesStep DEF AllMarked, Paths, Reviewed, Ends
  <2>2. Marked(r)'
    BY <1>19, <1>a, <1>b, <2>1, RequestChangesStep DEF Marked, Path, Ends, Ids, Views, Marks,
       Passed, Ended
  <2> QED
    BY <1>c, <2>1, <2>2
<1>20. ASSUME NEW r \in Requests, Reject(r) PROVE AllMarked'
  <2>1. Only(r) /\ UNCHANGED <<account, now>> /\ Marked(r) /\ Path(r)
    BY <1>20, RejectStep DEF AllMarked, Paths, Reviewed, Passes
  <2>2. Marked(r)'
    BY <1>20, <1>a, <1>b, <2>1, RejectStep DEF Marked, Path, Passes, Ids, Views, Marks, Passed
  <2> QED
    BY <1>c, <2>1, <2>2
<1>21. ASSUME NEW r \in Requests, Approve(r) PROVE AllMarked'
  <2>1. Only(r) /\ UNCHANGED <<account, now>> /\ Marked(r) /\ Path(r)
    BY <1>21, ApproveStep DEF AllMarked, Paths, Moves, stored
  <2>2. Marked(r)'
    BY <1>21, <1>a, <1>b, <2>1, ApproveStep DEF Marked, Path, Moves, Ids, Views, Marks, Passed
  <2> QED
    BY <1>c, <2>1, <2>2
<1>22. ASSUME NEW r \in Requests, RefuseApproved(r) PROVE AllMarked'
  <2>1. Only(r) /\ UNCHANGED <<account, now>> /\ Marked(r) /\ Path(r)
    BY <1>22, RefuseApprovedStep DEF AllMarked, Paths, Reviewed, Passes
  <2>2. Marked(r)'
    BY <1>22, <1>a, <1>b, <2>1, RefuseApprovedStep DEF Marked, Path, Passes, Ids, Views, Marks,
       Passed
  <2> QED
    BY <1>c, <2>1, <2>2
<1>23. ASSUME NEW r \in Requests, Grant(r) PROVE AllMarked'
  <2>1. Only(r) /\ UNCHANGED <<account, now>> /\ Marked(r) /\ Path(r)
    BY <1>23, GrantStep DEF AllMarked, Paths, Reviewed, Moves, Counts
  <2>2. Marked(r)'
    BY <1>23, <1>a, <1>b, <2>1, GrantStep DEF Marked, Path, Moves, Ids, Views, Marks, Passed,
       Eligible
  <2> QED
    BY <1>c, <2>1, <2>2
<1>24. ASSUME NEW r \in Requests, StoreRefused(r) PROVE AllMarked'
  <2>1. Only(r) /\ UNCHANGED <<account, now>> /\ Marked(r) /\ Path(r)
    BY <1>24, StoreRefusedStep DEF AllMarked, Paths, Stores
  <2>2. Marked(r)'
    BY <1>24, <1>a, <1>b, <2>1, StoreRefusedStep DEF Marked, Path, Stores, Ids, Views, Marks,
       Passed
  <2> QED
    BY <1>c, <2>1, <2>2
<1>25. ASSUME NEW r \in Requests, Reopen(r) PROVE AllMarked'
  <2>1. Only(r) /\ UNCHANGED <<account, now>> /\ Marked(r) /\ Path(r)
    BY <1>25, ReopenStep DEF AllMarked, Paths, Binds, Passes
  <2>2. Marked(r)'
    BY <1>25, <1>a, <1>b, <2>1, ReopenStep DEF Marked, Path, Binds, Passes, Ids, Views, Marks,
       Passed
  <2> QED
    BY <1>c, <2>1, <2>2
<1>26. ASSUME NEW r \in Requests, StoreReopened(r) PROVE AllMarked'
  <2>1. Only(r) /\ UNCHANGED <<account, now>> /\ Marked(r) /\ Path(r)
    BY <1>26, StoreReopenedStep DEF AllMarked, Paths, Stores
  <2>2. Marked(r)'
    BY <1>26, <1>a, <1>b, <2>1, StoreReopenedStep DEF Marked, Path, Stores, Ids, Views, Marks,
       Passed
  <2> QED
    BY <1>c, <2>1, <2>2
<1>27. ASSUME NEW r \in Requests, CreateDraft(r) PROVE AllMarked'
  <2>1. Only(r) /\ UNCHANGED <<account, now>> /\ Marked(r) /\ Path(r)
    BY <1>27, CreateDraftStep DEF AllMarked, Paths, Ends
  <2>2. Marked(r)'
    BY <1>27, <1>a, <1>b, <2>1, CreateDraftStep DEF Marked, Path, Ends, Ids, Views, Marks,
       Passed, Ended
  <2> QED
    BY <1>c, <2>1, <2>2
<1>28. ASSUME NEW r \in Requests, WriteDraft(r) PROVE AllMarked'
  <2>1. Only(r) /\ UNCHANGED <<account, now>> /\ Marked(r) /\ Path(r)
    BY <1>28, WriteDraftStep DEF AllMarked, Paths, Ends
  <2>2. Marked(r)'
    BY <1>28, <1>a, <1>b, <2>1, WriteDraftStep DEF Marked, Path, Ends, Ids, Views, Marks,
       Passed, Ended
  <2> QED
    BY <1>c, <2>1, <2>2
<1>29. ASSUME NEW p, Crash(p) PROVE AllMarked'
  BY <1>29, CrashStep DEF AllMarked, Marked, Ended, stored
<1>30. CASE Tick \/ CheckIn \/ Revoke
  <2>1. ASSUME NEW r \in Requests
        PROVE  /\ HoldsLease(account, AgentOf[r])' => HoldsLease(account, AgentOf[r])
               /\ req'[r] = req[r] /\ (account'.eligible => account.eligible)
               /\ now' < req[r].account.until => now < req[r].account.until
    <3>1. req[r].account.until \in Nat /\ account.until \in Nat /\ now \in Nat /\ now' \in Nat
      BY <1>30, AccountStep DEF TypeOK, Memory, Accounts
    <3> QED
      BY <1>30, <1>a, <3>1, AccountStep
  <2> QED
    BY <2>1 DEF AllMarked, Marked
<1>31. CASE Reactivate
  BY <1>31, ReactivateStep DEF AllMarked, Marked, Alike, Ids, Views, Around
<1>32. ASSUME NEW a \in Agents, CheckOut(a) PROVE AllMarked'
  BY <1>32, CheckOutStep DEF AllMarked, Marked, Alike, Ids, Views, Around
<1>33. CASE UNCHANGED vars
  BY <1>33 DEF AllMarked, Marked, vars
<1> QED
  BY <1>1, <1>2, <1>3, <1>4, <1>5, <1>6, <1>7, <1>8, <1>9, <1>10, <1>11, <1>12, <1>13, <1>14,
     <1>15, <1>16, <1>17, <1>18, <1>19, <1>20, <1>21, <1>22, <1>23, <1>24, <1>25, <1>26, <1>27,
     <1>28, <1>29, <1>30, <1>31, <1>32, <1>33 DEF Next, Serve

\* The types, the paths and the marks hold throughout.
LEMMA MarksHold == Spec => [](TypeOK /\ Paths /\ AllMarked)
<1>1. Init => AllMarked
  <2> SUFFICES ASSUME Init PROVE AllMarked
    OBVIOUS
  <2>1. \A r \in Requests : ~Running(r) /\ req[r].pc \in {"new", "ended"}
    BY InitReq DEF Running
  <2> QED
    BY <2>1 DEF AllMarked, Marked, Ahead
<1> QED
  BY <1>1, OnPath, MarkStep, PTL DEF Spec

\* Once the account is suspended or its consent revoked, no request that begins
\* afterwards reaches the platform.
THEOREM Revoked == Spec => []RevocationHolds
<1>1. AllMarked => RevocationHolds
  BY DEF AllMarked, Marked, RevocationHolds, Dispatching
<1> QED
  BY <1>1, MarksHold, PTL

\* A write that was not routed reaches the platform only if its agent held the
\* checkout lease since the request was made.
THEOREM Leased == Spec => []LeaseHolds
<1>1. AllMarked => LeaseHolds
  BY DEF AllMarked, Marked, LeaseHolds, Dispatching
<1> QED
  BY <1>1, MarksHold, PTL

\* A request that stored an action and ran to its end wrote one audit event.
THEOREM Audited == Spec => []ActsAreAudited
<1>1. Paths => ActsAreAudited
  BY DEF Paths, Path, ActsAreAudited
<1> QED
  BY <1>1, OnPath, PTL

-----------------------------------------------------------------------------
(* The stored actions and their approvals.                                 *)

\* Whoever stores an action again stores it with its kind, and leaves its key.
LEMMA StoreKeepsStored ==
  ASSUME TypeOK, Paths, Stored, NEW r \in Requests, NEW state, NEW pc, Stores(r, state, pc),
         UNCHANGED <<approvals, performed>>, Running(r), state # "none",
         pc \in {"dispatch", "allow", "deny", "route"},
         req[r].op \in Kinds \/ (req[r].op \in Reviews /\ req[r].pc \notin {"approval", "action"}),
         req[r].pc # "route", req[r].pc = "store_routed" => pc = "route",
         state = "needs_approval" => approvals[req[r].act].state # "none"
  PROVE  Stored'
<1> DEFINE x == req[r].act
<1>1. /\ x \in Requests /\ Path(r) /\ Made(r) /\ Found(r) /\ Made(x)
      /\ req[r].op \in Kinds => req[r].op \notin Reviews
  BY DEF TypeOK, Memory, Paths, Stored, Kinds, Writes, Reads, Reviews
<1>2. /\ Only(r) /\ req'[r].pc = pc /\ Ids(r)
      /\ actions'[x].state = state /\ actions'[x].kind = req[r].kind
      /\ actions'[x].key = IF actions[x].state = "none" THEN req[r].key ELSE actions[x].key
      /\ \A a \in Requests \ {x} : actions'[a] = actions[a]
  BY DEF Stores
<1>3. req[r].op \in Kinds => x = r
  BY <1>1 DEF Path
<1>4. /\ actions'[x].kind = req[x].op /\ actions'[x].key = OwnKey(x, req[x].op)
      /\ req[x].op \in Kinds
  BY <1>1, <1>2, <1>3 DEF Path, Found, Made
<1>5. \A q \in Requests : req'[q].op = req[q].op /\ req'[q].act = req[q].act
  BY <1>2 DEF Only, Ids
<1>6. ASSUME NEW a \in Requests PROVE Made(a)'
  <2>1. Made(a)
    BY DEF Stored
  <2>2. CASE a = x
    <3>1. req'[x].pc = req[x].pc \/ (x = r /\ req'[x].pc = pc)
      BY <1>1, <1>2 DEF Only
    <3>2. x # r => req[x].pc \in {"dispatch", "store_done", "store_failed", "allow", "deny",
                                  "route", "ended"}
      BY <1>1, <1>3 DEF Found, Made
    <3> QED
      BY <1>1, <1>2, <1>4, <1>5, <2>1, <2>2, <3>1, <3>2 DEF Made, OwnKey, Running
  <2>3. CASE a # x
    <3>1. actions'[a] = actions[a] /\ approvals'[a] = approvals[a] /\ performed'[a] = performed[a]
      BY <1>2, <2>3
    <3>2. a = r => req[r].op \in Reviews
      BY <1>3, <2>3
    <3>3. a # r => req'[a] = req[a]
      BY <1>2 DEF Only
    <3> QED
      BY <1>1, <1>5, <2>1, <3>1, <3>2, <3>3 DEF Made, OwnKey, Kinds, Writes, Reads, Reviews
  <2> QED
    BY <2>2, <2>3
<1>7. ASSUME NEW q \in Requests PROVE Found(q)'
  <2>1. Found(q) /\ req[q].act \in Requests /\ Path(q)
    BY DEF Stored, TypeOK, Memory, Paths
  <2>2. \A a \in Requests : actions[a].state # "none" =>
          /\ actions'[a].state # "none" /\ actions'[a].kind = actions[a].kind
          /\ actions'[a].key = actions[a].key
    BY <1>1, <1>2, <1>4 DEF Made
  <2>3. CASE q = r
    BY <1>1, <1>2, <1>3, <1>5, <2>1, <2>3 DEF Found, Ids, Kinds
  <2>4. CASE q # r
    BY <1>2, <2>1, <2>2, <2>4 DEF Found, Only, Running
  <2> QED
    BY <2>3, <2>4
<1> QED
  BY <1>6, <1>7 DEF Stored

\* Every step keeps the stored actions as they were made, with the approval of
\* those that need one.
LEMMA StoredStep == TypeOK /\ Paths /\ Stored /\ [Next]_vars => Stored'
<1> SUFFICES ASSUME TypeOK, Paths, Stored, [Next]_vars PROVE Stored'
  OBVIOUS
<1> USE DEF Running, Acts, Kinds, Writes, Reads, Reviews, Ops
<1>0. \A q \in Requests : req[q].act \in Requests /\ Path(q)
  BY DEF TypeOK, Memory, Paths
<1>1. ASSUME NEW r \in Requests, Begin(r) PROVE Stored'
  <2>1. Only(r) /\ Path(r) /\ req[r].act \in Requests
    BY <1>1, <1>0, BeginStep DEF Starts, stored
  <2>2. \A a \in Requests : Made(a)'
    BY <1>1, <1>0, <2>1, BeginStep DEF Stored, Made, Found, Path, OwnKey, Only, Starts, stored,
       Ids, Ended, FirstStep
  <2>3. \A q \in Requests : Found(q)'
    BY <1>1, <1>0, <2>1, BeginStep DEF Stored, Made, Found, Path, Only, Starts, stored, Ids,
       Ended, FirstStep
  <2> QED
    BY <2>2, <2>3 DEF Stored
<1>2. ASSUME NEW r \in Requests, ReadAccount(r) PROVE Stored'
  <2>1. Only(r) /\ Path(r) /\ req[r].act \in Requests
    BY <1>2, <1>0, ReadAccountStep DEF stored
  <2>2. \A a \in Requests : Made(a)'
    BY <1>2, <1>0, <2>1, ReadAccountStep DEF Stored, Made, Found, Path, OwnKey, Only, stored,
       Ids, Ended
  <2>3. \A q \in Requests : Found(q)'
    BY <1>2, <1>0, <2>1, ReadAccountStep DEF Stored, Made, Found, Path, Only, stored, Ids, Ended
  <2> QED
    BY <2>2, <2>3 DEF Stored
<1>3. ASSUME NEW r \in Requests, ReadDraft(r) PROVE Stored'
  <2>1. Only(r) /\ Path(r) /\ req[r].act \in Requests
    BY <1>3, <1>0, ReadDraftStep DEF Ends, stored
  <2>2. \A a \in Requests : Made(a)'
    BY <1>3, <1>0, <2>1, ReadDraftStep DEF Stored, Made, Found, Path, OwnKey, Only, Ends,
       stored, Ids, Ended
  <2>3. \A q \in Requests : Found(q)'
    BY <1>3, <1>0, <2>1, ReadDraftStep DEF Stored, Made, Found, Path, Only, Ends, stored, Ids,
       Ended
  <2> QED
    BY <2>2, <2>3 DEF Stored
<1>4. ASSUME NEW r \in Requests, Resolve(r) PROVE Stored'
  <2>1. Only(r) /\ Path(r) /\ req[r].act \in Requests
    BY <1>4, <1>0, ResolveStep DEF Moves, Ends, stored
  <2>2. \A a \in Requests : Made(a)'
    BY <1>4, <1>0, <2>1, ResolveStep DEF Stored, Made, Found, Path, OwnKey, Only, Moves, Ends,
       stored, Ids, Ended
  <2>3. \A q \in Requests : Found(q)'
    BY <1>4, <1>0, <2>1, ResolveStep DEF Stored, Made, Found, Path, Only, Moves, Ends, stored,
       Ids, Ended
  <2> QED
    BY <2>2, <2>3 DEF Stored
<1>5. ASSUME NEW r \in Requests, Lookup(r) PROVE Stored'
  <2>1. Only(r) /\ Path(r) /\ req[r].act \in Requests
    BY <1>5, <1>0, LookupStep DEF Moves, Ends, stored
  <2>2. \A a \in Requests : Made(a)'
    BY <1>5, <1>0, <2>1, LookupStep DEF Stored, Made, Found, Path, OwnKey, Only, Moves, Ends,
       stored, Ids, Ended
  <2>3. \A q \in Requests : Found(q)'
    BY <1>5, <1>0, <2>1, LookupStep DEF Stored, Made, Found, Path, Only, Moves, Ends, stored,
       Ids, Ended
  <2> QED
    BY <2>2, <2>3 DEF Stored
<1>6. ASSUME NEW r \in Requests, ReadApproval(r) PROVE Stored'
  <2>1. Only(r) /\ Path(r) /\ req[r].act \in Requests
    BY <1>6, <1>0, ReadApprovalStep DEF stored
  <2>2. \A a \in Requests : Made(a)'
    BY <1>6, <1>0, <2>1, ReadApprovalStep DEF Stored, Made, Found, Path, OwnKey, Only, stored,
       Ids, Ended
  <2>3. \A q \in Requests : Found(q)'
    BY <1>6, <1>0, <2>1, ReadApprovalStep DEF Stored, Made, Found, Path, Only, stored, Ids,
       Ended
  <2> QED
    BY <2>2, <2>3 DEF Stored
<1>7. ASSUME NEW r \in Requests, ReadAction(r) PROVE Stored'
  <2>1. Only(r) /\ Path(r) /\ req[r].act \in Requests
    BY <1>7, <1>0, ReadActionStep DEF Ends, stored
  <2>2. \A a \in Requests : Made(a)'
    BY <1>7, <1>0, <2>1, ReadActionStep DEF Stored, Made, Found, Path, OwnKey, Only, Ends,
       stored, Ids, Ended
  <2>3. \A q \in Requests : Found(q)'
    BY <1>7, <1>0, <2>1, ReadActionStep DEF Stored, Made, Found, Path, Only, Ends, stored, Ids,
       Ended
  <2> QED
    BY <2>2, <2>3 DEF Stored
<1>8. ASSUME NEW r \in Requests, Refuse(r) PROVE Stored'
  BY <1>8, <1>0, RefuseStep, StoreKeepsStored DEF Path, Stored, Found
<1>9. ASSUME NEW r \in Requests, Route(r) PROVE Stored'
  <2>1. Only(r) /\ Path(r) /\ req[r].act \in Requests
    BY <1>9, <1>0, RouteStep DEF Binds, Passes
  <2>2. \A a \in Requests : Made(a)'
    BY <1>9, <1>0, <2>1, RouteStep DEF Stored, Made, Found, Path, OwnKey, Only, Binds, Passes,
       Ids, Ended
  <2>3. \A q \in Requests : Found(q)'
    BY <1>9, <1>0, <2>1, RouteStep DEF Stored, Made, Found, Path, Only, Binds, Passes, Ids,
       Ended
  <2> QED
    BY <2>2, <2>3 DEF Stored
<1>10. ASSUME NEW r \in Requests, StoreRouted(r) PROVE Stored'
  BY <1>10, <1>0, StoreRoutedStep, StoreKeepsStored DEF Path, Stored, Found
<1>11. ASSUME NEW r \in Requests, StartRead(r) PROVE Stored'
  <2>1. Only(r) /\ Path(r) /\ req[r].act \in Requests
    BY <1>11, <1>0, StartReadStep DEF Moves, stored
  <2>2. \A a \in Requests : Made(a)'
    BY <1>11, <1>0, <2>1, StartReadStep DEF Stored, Made, Found, Path, OwnKey, Only, Moves,
       stored, Ids, Ended
  <2>3. \A q \in Requests : Found(q)'
    BY <1>11, <1>0, <2>1, StartReadStep DEF Stored, Made, Found, Path, Only, Moves, stored, Ids,
       Ended
  <2> QED
    BY <2>2, <2>3 DEF Stored
<1>12. ASSUME NEW r \in Requests, StartExecution(r) PROVE Stored'
  BY <1>12, <1>0, StartExecutionStep, StoreKeepsStored DEF Path, Stored, Found
<1>13. ASSUME NEW r \in Requests, DispatchOk(r) PROVE Stored'
  <2>1. Only(r) /\ Path(r) /\ req[r].act \in Requests
    BY <1>13, <1>0, DispatchOkStep DEF Passes, Counts
  <2>2. \A a \in Requests : Made(a)'
    BY <1>13, <1>0, <2>1, DispatchOkStep DEF Stored, Made, Found, Path, OwnKey, Only, Passes,
       Counts, Ids, Ended
  <2>3. \A q \in Requests : Found(q)'
    BY <1>13, <1>0, <2>1, DispatchOkStep DEF Stored, Made, Found, Path, Only, Passes, Counts,
       Ids, Ended
  <2> QED
    BY <2>2, <2>3 DEF Stored
<1>14. ASSUME NEW r \in Requests, DispatchFails(r) PROVE Stored'
  <2>1. Only(r) /\ Path(r) /\ req[r].act \in Requests
    BY <1>14, <1>0, DispatchFailsStep DEF Passes, stored
  <2>2. \A a \in Requests : Made(a)'
    BY <1>14, <1>0, <2>1, DispatchFailsStep DEF Stored, Made, Found, Path, OwnKey, Only, Passes,
       stored, Ids, Ended
  <2>3. \A q \in Requests : Found(q)'
    BY <1>14, <1>0, <2>1, DispatchFailsStep DEF Stored, Made, Found, Path, Only, Passes, stored,
       Ids, Ended
  <2> QED
    BY <2>2, <2>3 DEF Stored
<1>15. ASSUME NEW r \in Requests, DispatchRaises(r) PROVE Stored'
  <2>1. Only(r) /\ Path(r) /\ req[r].act \in Requests
    BY <1>15, <1>0, DispatchRaisesStep DEF Ends, Counts
  <2>2. \A a \in Requests : Made(a)'
    BY <1>15, <1>0, <2>1, DispatchRaisesStep DEF Stored, Made, Found, Path, OwnKey, Only, Ends,
       Counts, Ids, Ended
  <2>3. \A q \in Requests : Found(q)'
    BY <1>15, <1>0, <2>1, DispatchRaisesStep DEF Stored, Made, Found, Path, Only, Ends, Counts,
       Ids, Ended
  <2> QED
    BY <2>2, <2>3 DEF Stored
<1>16. ASSUME NEW r \in Requests, StoreDone(r) PROVE Stored'
  BY <1>16, <1>0, StoreDoneStep, StoreKeepsStored DEF Path, Stored, Found
<1>17. ASSUME NEW r \in Requests, StoreFailed(r) PROVE Stored'
  BY <1>17, <1>0, StoreFailedStep, StoreKeepsStored DEF Path, Stored, Found
<1>18. ASSUME NEW r \in Requests, Record(r) PROVE Stored'
  <2>1. Only(r) /\ Path(r) /\ req[r].act \in Requests
    BY <1>18, <1>0, RecordStep
  <2>2. \A a \in Requests : Made(a)'
    BY <1>18, <1>0, <2>1, RecordStep DEF Stored, Made, Found, Path, OwnKey, Only, Ids, Ended
  <2>3. \A q \in Requests : Found(q)'
    BY <1>18, <1>0, <2>1, RecordStep DEF Stored, Made, Found, Path, Only, Ids, Ended
  <2> QED
    BY <2>2, <2>3 DEF Stored
<1>19. ASSUME NEW r \in Requests, RequestChanges(r) PROVE Stored'
  <2>1. Only(r) /\ Path(r) /\ req[r].act \in Requests
    BY <1>19, <1>0, RequestChangesStep DEF Reviewed, Ends
  <2>2. \A a \in Requests : Made(a)'
    BY <1>19, <1>0, <2>1, RequestChangesStep DEF Stored, Made, Found, Path, OwnKey, Only,
       Reviewed, Ends, Ids, Ended
  <2>3. \A q \in Requests : Found(q)'
    BY <1>19, <1>0, <2>1, RequestChangesStep DEF Stored, Made, Found, Path, Only, Reviewed,
       Ends, Ids, Ended
  <2> QED
    BY <2>2, <2>3 DEF Stored
<1>20. ASSUME NEW r \in Requests, Reject(r) PROVE Stored'
  <2>1. Only(r) /\ Path(r) /\ req[r].act \in Requests
    BY <1>20, <1>0, RejectStep DEF Reviewed, Passes
  <2>2. \A a \in Requests : Made(a)'
    BY <1>20, <1>0, <2>1, RejectStep DEF Stored, Made, Found, Path, OwnKey, Only, Reviewed,
       Passes, Ids, Ended
  <2>3. \A q \in Requests : Found(q)'
    BY <1>20, <1>0, <2>1, RejectStep DEF Stored, Made, Found, Path, Only, Reviewed, Passes, Ids,
       Ended
  <2> QED
    BY <2>2, <2>3 DEF Stored
<1>21. ASSUME NEW r \in Requests, Approve(r) PROVE Stored'
  <2>1. Only(r) /\ Path(r) /\ req[r].act \in Requests
    BY <1>21, <1>0, ApproveStep DEF Moves, stored
  <2>2. \A a \in Requests : Made(a)'
    BY <1>21, <1>0, <2>1, ApproveStep DEF Stored, Made, Found, Path, OwnKey, Only, Moves,
       stored, Ids, Ended
  <2>3. \A q \in Requests : Found(q)'
    BY <1>21, <1>0, <2>1, ApproveStep DEF Stored, Made, Found, Path, Only, Moves, stored, Ids,
       Ended
  <2> QED
    BY <2>2, <2>3 DEF Stored
<1>22. ASSUME NEW r \in Requests, RefuseApproved(r) PROVE Stored'
  <2>1. Only(r) /\ Path(r) /\ req[r].act \in Requests
    BY <1>22, <1>0, RefuseApprovedStep DEF Reviewed, Passes
  <2>2. \A a \in Requests : Made(a)'
    BY <1>22, <1>0, <2>1, RefuseApprovedStep DEF Stored, Made, Found, Path, OwnKey, Only,
       Reviewed, Passes, Ids, Ended
  <2>3. \A q \in Requests : Found(q)'
    BY <1>22, <1>0, <2>1, RefuseApprovedStep DEF Stored, Made, Found, Path, Only, Reviewed,
       Passes, Ids, Ended
  <2> QED
    BY <2>2, <2>3 DEF Stored
<1>23. ASSUME NEW r \in Requests, Grant(r) PROVE Stored'
  <2>1. Only(r) /\ Path(r) /\ req[r].act \in Requests
    BY <1>23, <1>0, GrantStep DEF Reviewed, Moves, Counts
  <2>2. \A a \in Requests : Made(a)'
    BY <1>23, <1>0, <2>1, GrantStep DEF Stored, Made, Found, Path, OwnKey, Only, Reviewed,
       Moves, Counts, Ids, Ended
  <2>3. \A q \in Requests : Found(q)'
    BY <1>23, <1>0, <2>1, GrantStep DEF Stored, Made, Found, Path, Only, Reviewed, Moves,
       Counts, Ids, Ended
  <2> QED
    BY <2>2, <2>3 DEF Stored
<1>24. ASSUME NEW r \in Requests, StoreRefused(r) PROVE Stored'
  BY <1>24, <1>0, StoreRefusedStep, StoreKeepsStored DEF Path, Stored, Found
<1>25. ASSUME NEW r \in Requests, Reopen(r) PROVE Stored'
  <2>1. Only(r) /\ Path(r) /\ req[r].act \in Requests
    BY <1>25, <1>0, ReopenStep DEF Binds, Passes
  <2>2. \A a \in Requests : Made(a)'
    BY <1>25, <1>0, <2>1, ReopenStep DEF Stored, Made, Found, Path, OwnKey, Only, Binds, Passes,
       Ids, Ended
  <2>3. \A q \in Requests : Found(q)'
    BY <1>25, <1>0, <2>1, ReopenStep DEF Stored, Made, Found, Path, Only, Binds, Passes, Ids,
       Ended
  <2> QED
    BY <2>2, <2>3 DEF Stored
<1>26. ASSUME NEW r \in Requests, StoreReopened(r) PROVE Stored'
  BY <1>26, <1>0, StoreReopenedStep, StoreKeepsStored DEF Path, Stored, Found
<1>27. ASSUME NEW r \in Requests, CreateDraft(r) PROVE Stored'
  <2>1. Only(r) /\ Path(r) /\ req[r].act \in Requests
    BY <1>27, <1>0, CreateDraftStep DEF Ends
  <2>2. \A a \in Requests : Made(a)'
    BY <1>27, <1>0, <2>1, CreateDraftStep DEF Stored, Made, Found, Path, OwnKey, Only, Ends,
       Ids, Ended
  <2>3. \A q \in Requests : Found(q)'
    BY <1>27, <1>0, <2>1, CreateDraftStep DEF Stored, Made, Found, Path, Only, Ends, Ids, Ended
  <2> QED
    BY <2>2, <2>3 DEF Stored
<1>28. ASSUME NEW r \in Requests, WriteDraft(r) PROVE Stored'
  <2>1. Only(r) /\ Path(r) /\ req[r].act \in Requests
    BY <1>28, <1>0, WriteDraftStep DEF Ends
  <2>2. \A a \in Requests : Made(a)'
    BY <1>28, <1>0, <2>1, WriteDraftStep DEF Stored, Made, Found, Path, OwnKey, Only, Ends, Ids,
       Ended
  <2>3. \A q \in Requests : Found(q)'
    BY <1>28, <1>0, <2>1, WriteDraftStep DEF Stored, Made, Found, Path, Only, Ends, Ids, Ended
  <2> QED
    BY <2>2, <2>3 DEF Stored
<1>29. ASSUME NEW p, Crash(p) PROVE Stored'
  BY <1>29, <1>0, CrashStep DEF Stored, Made, Found, Path, Ended, OwnKey, stored
<1>30. CASE Tick \/ CheckIn \/ Revoke
  BY <1>30, AccountStep DEF Stored, Made, Found, OwnKey
<1>31. CASE Reactivate
  BY <1>31, ReactivateStep DEF Stored, Made, Found, OwnKey, Alike, Ids, Around
<1>32. ASSUME NEW a \in Agents, CheckOut(a) PROVE Stored'
  BY <1>32, CheckOutStep DEF Stored, Made, Found, OwnKey, Alike, Ids, Around
<1>33. CASE UNCHANGED vars
  BY <1>33 DEF Stored, Made, Found, OwnKey, vars
<1> QED
  BY <1>1, <1>2, <1>3, <1>4, <1>5, <1>6, <1>7, <1>8, <1>9, <1>10, <1>11, <1>12, <1>13, <1>14,
     <1>15, <1>16, <1>17, <1>18, <1>19, <1>20, <1>21, <1>22, <1>23, <1>24, <1>25, <1>26, <1>27,
     <1>28, <1>29, <1>30, <1>31, <1>32, <1>33 DEF Next, Serve

\* The stored actions are as they were made, throughout.
LEMMA StoredHolds == Spec => [](TypeOK /\ Paths /\ Stored)
<1>1. Init => Stored
  <2> SUFFICES ASSUME Init, NEW r \in Requests PROVE Made(r) /\ Found(r)
    BY DEF Stored
  <2>1. req[r].pc \in {"new", "ended"} /\ req[r].op = "edit"
    BY InitReq
  <2>2. /\ actions[r].state = "none" /\ actions[r].key = NoKey /\ approvals[r].state = "none"
        /\ performed[r] = 0
    BY DEF Init, NoAction, NoApproval
  <2> QED
    BY <2>1, <2>2 DEF Made, Found, Running, Reviews, Writes
<1> QED
  BY <1>1, OnPath, StoredStep, PTL DEF Spec

\* A routed action can be decided: its approval is there.
THEOREM Routed == Spec => []RoutedHasApproval
<1>1. Stored => RoutedHasApproval
  BY DEF Stored, Made, RoutedHasApproval
<1> QED
  BY <1>1, StoredHolds, PTL

-----------------------------------------------------------------------------
(* The actions that are left executing.                                    *)

\* Whoever left an action executing is still about it, or was cut short.
LEMMA StuckStep == TypeOK /\ Paths /\ StuckIsExplained /\ [Next]_vars => StuckIsExplained'
<1> SUFFICES ASSUME TypeOK, Paths, StuckIsExplained, [Next]_vars PROVE StuckIsExplained'
  OBVIOUS
<1>0. \A q \in Requests : req[q].act \in Requests /\ Path(q)
  BY DEF TypeOK, Memory, Paths
<1>a. ASSUME NEW r \in Requests, Only(r), UNCHANGED actions,
             req[r].pc \notin {"dispatch", "store_done", "store_failed", "ended"}
      PROVE  StuckIsExplained'
  BY <1>0, <1>a DEF StuckIsExplained, Only, Path
<1>b. ASSUME NEW r \in Requests, NEW state, NEW pc, Stores(r, state, pc), state # "executing",
             req[r].pc # "ended"
      PROVE  StuckIsExplained'
  BY <1>0, <1>b DEF StuckIsExplained, Stores, Only, Path
<1>1. ASSUME NEW r \in Requests, Begin(r) PROVE StuckIsExplained'
  BY <1>1, <1>a, BeginStep DEF Starts, stored
<1>2. ASSUME NEW r \in Requests, ReadAccount(r) PROVE StuckIsExplained'
  BY <1>2, <1>a, ReadAccountStep DEF stored
<1>3. ASSUME NEW r \in Requests, ReadDraft(r) PROVE StuckIsExplained'
  BY <1>3, <1>a, ReadDraftStep DEF Ends, stored
<1>4. ASSUME NEW r \in Requests, Resolve(r) PROVE StuckIsExplained'
  BY <1>4, <1>a, ResolveStep DEF Moves, Ends, stored
<1>5. ASSUME NEW r \in Requests, Lookup(r) PROVE StuckIsExplained'
  BY <1>5, <1>a, LookupStep DEF Moves, Ends, stored
<1>6. ASSUME NEW r \in Requests, ReadApproval(r) PROVE StuckIsExplained'
  BY <1>6, <1>a, ReadApprovalStep DEF stored
<1>7. ASSUME NEW r \in Requests, ReadAction(r) PROVE StuckIsExplained'
  BY <1>7, <1>a, ReadActionStep DEF Ends, stored
<1>8. ASSUME NEW r \in Requests, Refuse(r) PROVE StuckIsExplained'
  BY <1>8, <1>b, RefuseStep
<1>9. ASSUME NEW r \in Requests, Route(r) PROVE StuckIsExplained'
  BY <1>9, <1>a, RouteStep DEF Binds, Passes
<1>10. ASSUME NEW r \in Requests, StoreRouted(r) PROVE StuckIsExplained'
  BY <1>10, <1>b, StoreRoutedStep
<1>11. ASSUME NEW r \in Requests, StartRead(r) PROVE StuckIsExplained'
  BY <1>11, <1>a, StartReadStep DEF Moves, stored
<1>12. ASSUME NEW r \in Requests, StartExecution(r) PROVE StuckIsExplained'
  BY <1>12, <1>0, StartExecutionStep DEF StuckIsExplained, Path, Only, Stores, Ids, Ended
<1>13. ASSUME NEW r \in Requests, DispatchOk(r) PROVE StuckIsExplained'
  BY <1>13, <1>0, DispatchOkStep DEF StuckIsExplained, Path, Only, Passes, Counts, Ids, Ended
<1>14. ASSUME NEW r \in Requests, DispatchFails(r) PROVE StuckIsExplained'
  BY <1>14, <1>0, DispatchFailsStep DEF StuckIsExplained, Path, Only, Passes, stored, Ids, Ended
<1>15. ASSUME NEW r \in Requests, DispatchRaises(r) PROVE StuckIsExplained'
  BY <1>15, <1>0, DispatchRaisesStep DEF StuckIsExplained, Path, Only, Ends, Counts, Ids, Ended
<1>16. ASSUME NEW r \in Requests, StoreDone(r) PROVE StuckIsExplained'
  BY <1>16, <1>b, StoreDoneStep
<1>17. ASSUME NEW r \in Requests, StoreFailed(r) PROVE StuckIsExplained'
  BY <1>17, <1>b, StoreFailedStep
<1>18. ASSUME NEW r \in Requests, Record(r) PROVE StuckIsExplained'
  BY <1>18, <1>a, RecordStep
<1>19. ASSUME NEW r \in Requests, RequestChanges(r) PROVE StuckIsExplained'
  BY <1>19, <1>a, RequestChangesStep DEF Reviewed, Ends
<1>20. ASSUME NEW r \in Requests, Reject(r) PROVE StuckIsExplained'
  BY <1>20, <1>a, RejectStep DEF Reviewed, Passes
<1>21. ASSUME NEW r \in Requests, Approve(r) PROVE StuckIsExplained'
  BY <1>21, <1>a, ApproveStep DEF Moves, stored
<1>22. ASSUME NEW r \in Requests, RefuseApproved(r) PROVE StuckIsExplained'
  BY <1>22, <1>a, RefuseApprovedStep DEF Reviewed, Passes
<1>23. ASSUME NEW r \in Requests, Grant(r) PROVE StuckIsExplained'
  BY <1>23, <1>a, GrantStep DEF Reviewed, Moves, Counts
<1>24. ASSUME NEW r \in Requests, StoreRefused(r) PROVE StuckIsExplained'
  BY <1>24, <1>b, StoreRefusedStep
<1>25. ASSUME NEW r \in Requests, Reopen(r) PROVE StuckIsExplained'
  BY <1>25, <1>a, ReopenStep DEF Binds, Passes
<1>26. ASSUME NEW r \in Requests, StoreReopened(r) PROVE StuckIsExplained'
  BY <1>26, <1>b, StoreReopenedStep
<1>27. ASSUME NEW r \in Requests, CreateDraft(r) PROVE StuckIsExplained'
  BY <1>27, <1>a, CreateDraftStep DEF Ends
<1>28. ASSUME NEW r \in Requests, WriteDraft(r) PROVE StuckIsExplained'
  BY <1>28, <1>a, WriteDraftStep DEF Ends
<1>29. ASSUME NEW p, Crash(p) PROVE StuckIsExplained'
  BY <1>29, <1>0, CrashStep DEF StuckIsExplained, Path, Ended, stored
<1>30. CASE Tick \/ CheckIn \/ Revoke
  BY <1>30, AccountStep DEF StuckIsExplained
<1>31. CASE Reactivate
  BY <1>31, ReactivateStep DEF StuckIsExplained, Alike, Ids, Log, Around
<1>32. ASSUME NEW a \in Agents, CheckOut(a) PROVE StuckIsExplained'
  BY <1>32, CheckOutStep DEF StuckIsExplained, Alike, Ids, Log, Around
<1>33. CASE UNCHANGED vars
  BY <1>33 DEF StuckIsExplained, vars
<1> QED
  BY <1>1, <1>2, <1>3, <1>4, <1>5, <1>6, <1>7, <1>8, <1>9, <1>10, <1>11, <1>12, <1>13, <1>14,
     <1>15, <1>16, <1>17, <1>18, <1>19, <1>20, <1>21, <1>22, <1>23, <1>24, <1>25, <1>26, <1>27,
     <1>28, <1>29, <1>30, <1>31, <1>32, <1>33 DEF Next, Serve

\* An action is left executing by a request that died, or whose adapter
\* raised, and by no other path or race, for any number of requests.
THEOREM Explained == Spec => []StuckIsExplained
<1>1. Init => StuckIsExplained
  BY DEF Init, NoAction, StuckIsExplained
<1> QED
  BY <1>1, OnPath, StuckStep, PTL DEF Spec

-----------------------------------------------------------------------------
(* The idempotency keys.                                                   *)

\* A request steps only while the others of its process await.
LEMMA OthersAwait ==
  ASSUME NEW r \in Requests, Begin(r) \/ Serve(r)
  PROVE  \A q \in Requests \ {r} : ProcessOf[q] = ProcessOf[r] => AtAwait(q)
<1>1. MayRun(r)
  BY Zenon DEF Begin, Serve, ReadAccount, ReadDraft, Resolve, Lookup, ReadApproval, ReadAction,
     Refuse, Route, StoreRouted, StartRead, StartExecution, DispatchOk, DispatchFails,
     DispatchRaises, StoreDone, StoreFailed, Record, RequestChanges, Reject, Approve,
     RefuseApproved, Grant, StoreRefused, Reopen, StoreReopened, CreateDraft, WriteDraft, At
<1> QED
  BY <1>1, Zenon DEF MayRun

\* Storing an action changes no key but that of the request's own action, at
\* its first write.
LEMMA StoreKeepsKeys ==
  ASSUME TypeOK, Paths, Stored, NEW r \in Requests, NEW state, NEW pc, Stores(r, state, pc),
         Running(r),
         req[r].op \in Kinds \/ (req[r].op \in Reviews /\ req[r].pc \notin {"approval", "action"})
  PROVE  /\ \A a \in Requests \ {r} : actions'[a].key = actions[a].key
         /\ \/ actions'[r].key = actions[r].key
            \/ actions'[r].key = OwnKey(r, req[r].op) /\ actions[r].key = NoKey
               /\ req[r].pc \notin {"dispatch", "store_done", "store_failed"}
<1>1. /\ req[r].act \in Requests /\ Path(r) /\ Found(r) /\ Made(r)
      /\ req[r].op \in Kinds => req[r].op \notin Reviews
  BY DEF TypeOK, Memory, Paths, Stored, Kinds, Writes, Reads, Reviews
<1>2. /\ actions'[req[r].act].key =
           IF actions[req[r].act].state = "none" THEN req[r].key ELSE actions[req[r].act].key
      /\ \A a \in Requests \ {req[r].act} : actions'[a] = actions[a]
  BY DEF Stores
<1>3. CASE req[r].op \in Reviews
  BY <1>1, <1>2, <1>3 DEF Found, Kinds, Writes, Reads, Reviews
<1>4. CASE req[r].op \in Kinds
  <2>1. req[r].act = r /\ req[r].key = OwnKey(r, req[r].op)
    BY <1>1, <1>4 DEF Path
  <2>2. actions[r].key \in {NoKey, OwnKey(r, req[r].op)}
    BY <1>1 DEF Made
  <2>3. req[r].op \in Writes /\ req[r].pc \in {"dispatch", "store_done", "store_failed"}
          => actions[r].key = OwnKey(r, req[r].op)
    BY <1>1 DEF Found, Made
  <2> QED
    BY <1>2, <1>4, <2>1, <2>2, <2>3 DEF OwnKey, Kinds
<1> QED
  BY <1>3, <1>4

\* Every step leaves one action to a key in each process, and a retry on its
\* way to the lookup.
LEMMA KeyStep == TypeOK /\ Paths /\ Stored /\ Keyed /\ [Next]_vars => Keyed'
<1> SUFFICES ASSUME TypeOK, Paths, Stored, Keyed, [Next]_vars PROVE Keyed'
  OBVIOUS
<1> USE DEF Running, Acts, Kinds, Writes, Reads, Reviews, Ops
<1>0. \A q \in Requests : req[q].act \in Requests /\ Path(q) /\ KeyFree(q) /\ Retry(q) /\ Found(q)
  BY DEF TypeOK, Memory, Paths, Keyed, Stored
<1>a. ASSUME NEW r \in Requests, Only(r), UNCHANGED actions, KeyFree(r)', Retry(r)'
      PROVE  Keyed'
  BY <1>a DEF Only, Keyed, KeyNamesOneAction, KeyFree, Retry
<1>b. ASSUME NEW r \in Requests, NEW state, NEW pc, Stores(r, state, pc), Running(r),
             \A q \in Requests \ {r} : ProcessOf[q] = ProcessOf[r] => AtAwait(q),
             pc \in {"dispatch", "allow", "deny", "route"},
             state = "executing" => ~req[r].known,
             \/ req[r].op \in Kinds
                /\ req[r].pc \in {"evaluate", "store_routed", "store_done", "store_failed"}
             \/ req[r].op \in Reviews /\ req[r].pc \notin {"approval", "action"}
      PROVE  Keyed'
  <2>1. /\ \A a \in Requests \ {r} : actions'[a].key = actions[a].key
        /\ \/ actions'[r].key = actions[r].key
           \/ actions'[r].key = OwnKey(r, req[r].op) /\ actions[r].key = NoKey
              /\ req[r].pc \notin {"dispatch", "store_done", "store_failed"}
    BY <1>b, StoreKeepsKeys
  <2>2. Only(r) /\ req'[r].pc = pc /\ Ids(r) /\ ~req'[r].known
    BY <1>b DEF Stores, Marks, Passed
  <2>3. ASSUME NEW a \in Requests \ {r}, ProcessOf[a] = ProcessOf[r], actions'[r].key # NoKey
        PROVE  actions[a].key # actions'[r].key
    <3>1. CASE actions'[r].key = actions[r].key
      BY <2>3, <3>1 DEF Keyed, KeyNamesOneAction
    <3>2. CASE actions'[r].key = OwnKey(r, req[r].op) /\ actions[r].key = NoKey
               /\ req[r].pc \notin {"dispatch", "store_done", "store_failed"}
      <4>1. KeyFree(r) /\ Path(r)
        BY <1>0
      <4>2. req[r].op \in Writes /\ KeyOf[r] = actions'[r].key
        BY <2>3, <3>2 DEF OwnKey
      <4>3. req[r].pc \in {"evaluate", "store_routed"}
        BY <1>b, <3>2, <4>2
      <4> QED
        BY <2>3, <4>1, <4>2, <4>3 DEF KeyFree
    <3> QED
      BY <2>1, <3>1, <3>2
  <2>4. KeyNamesOneAction'
    <3> SUFFICES ASSUME NEW a \in Requests, NEW b \in Requests, a # b,
                        ProcessOf[a] = ProcessOf[b], actions'[a].key = actions'[b].key,
                        actions'[a].key # NoKey
                 PROVE  FALSE
      BY DEF KeyNamesOneAction
    <3>1. CASE a = r
      BY <2>1, <2>3, <3>1
    <3>2. CASE b = r
      BY <2>1, <2>3, <3>2
    <3>3. CASE a # r /\ b # r
      BY <2>1, <3>3 DEF Keyed, KeyNamesOneAction
    <3> QED
      BY <3>1, <3>2, <3>3
  <2>5. ASSUME NEW q \in Requests PROVE KeyFree(q)'
    <3>1. CASE q = r
      BY <1>b, <2>2, <3>1 DEF KeyFree
    <3>2. CASE q # r
      <4>1. req'[q] = req[q] /\ KeyFree(q)
        BY <1>0, <2>2, <3>2 DEF Only
      <4>2. CASE ProcessOf[q] = ProcessOf[r]
        <5>1. AtAwait(q)
          BY <1>b, <3>2, <4>2
        <5> QED
          BY <4>1, <5>1 DEF KeyFree, AtAwait
      <4>3. CASE ProcessOf[q] # ProcessOf[r]
        BY <2>1, <4>1, <4>3 DEF KeyFree
      <4> QED
        BY <4>2, <4>3
    <3> QED
      BY <3>1, <3>2
  <2>6. ASSUME NEW q \in Requests PROVE Retry(q)'
    <3>1. CASE q = r
      BY <2>2, <3>1 DEF Retry
    <3>2. CASE q # r
      <4>1. req'[q] = req[q] /\ Retry(q)
        BY <1>0, <2>2, <3>2 DEF Only
      <4>2. \A a \in Requests : actions[a].key # NoKey => actions'[a].key = actions[a].key
        BY <2>1
      <4> QED
        BY <4>1, <4>2 DEF Retry
    <3> QED
      BY <3>1, <3>2
  <2> QED
    BY <2>4, <2>5, <2>6 DEF Keyed
<1>1. ASSUME NEW r \in Requests, Begin(r) PROVE Keyed'
  <2>1. Only(r) /\ UNCHANGED actions /\ KeyFree(r)'
    BY <1>1, BeginStep DEF Starts, stored, FirstStep, KeyFree
  <2>2. \A q \in Requests : Made(q)
    BY DEF Stored
  <2>3. Retry(r)'
    BY <1>1, <2>1, <2>2, BeginStep DEF Starts, FirstStep, Retry, KeyTaken, Made, OwnKey
  <2> QED
    BY <1>a, <2>1, <2>3
<1>2. ASSUME NEW r \in Requests, ReadAccount(r) PROVE Keyed'
  <2>1. Only(r) /\ UNCHANGED actions
    BY <1>2, ReadAccountStep DEF stored
  <2>2. KeyFree(r)'
    BY <1>2, <1>0, <2>1, ReadAccountStep DEF Path, stored, Ids, Ended, KeyFree, OwnKey,
       HasDraft, HasTarget
  <2>3. Retry(r)'
    BY <1>2, <1>0, <2>1, ReadAccountStep DEF Path, stored, Ids, Marks, Passed, Ended, Retry,
       OwnKey, HasDraft, HasTarget
  <2> QED
    BY <1>a, <2>1, <2>2, <2>3
<1>3. ASSUME NEW r \in Requests, ReadDraft(r) PROVE Keyed'
  <2>1. Only(r) /\ UNCHANGED actions
    BY <1>3, ReadDraftStep DEF Ends, stored
  <2>2. KeyFree(r)'
    BY <1>3, <1>0, <2>1, ReadDraftStep DEF Path, Ends, stored, Ids, Ended, KeyFree, OwnKey
  <2>3. Retry(r)'
    BY <1>3, <1>0, <2>1, ReadDraftStep DEF Path, Ends, stored, Ids, Marks, Passed, Ended, Retry,
       OwnKey
  <2> QED
    BY <1>a, <2>1, <2>2, <2>3
<1>4. ASSUME NEW r \in Requests, Resolve(r) PROVE Keyed'
  <2>1. Only(r) /\ UNCHANGED actions
    BY <1>4, ResolveStep DEF Moves, Ends, stored
  <2>2. KeyFree(r)'
    BY <1>4, <1>0, <2>1, ResolveStep DEF Path, Moves, Ends, stored, Ids, Ended, KeyFree, OwnKey
  <2>3. Retry(r)'
    BY <1>4, <1>0, <2>1, ResolveStep DEF Path, Moves, Ends, stored, Ids, Marks, Passed, Ended,
       Retry, OwnKey
  <2> QED
    BY <1>a, <2>1, <2>2, <2>3
<1>5. ASSUME NEW r \in Requests, Lookup(r) PROVE Keyed'
  <2>1. Only(r) /\ UNCHANGED actions
    BY <1>5, LookupStep DEF Moves, Ends, stored
  <2>2. KeyFree(r)'
    BY <1>5, <1>0, <2>1, LookupStep DEF Path, Moves, Ends, stored, Ids, Ended, KeyFree, OwnKey
  <2>3. Retry(r)'
    BY <1>5, <1>0, <2>1, LookupStep DEF Path, Moves, Ends, stored, Ids, Marks, Passed, Ended,
       Retry, OwnKey
  <2> QED
    BY <1>a, <2>1, <2>2, <2>3
<1>6. ASSUME NEW r \in Requests, ReadApproval(r) PROVE Keyed'
  <2>1. Only(r) /\ UNCHANGED actions
    BY <1>6, ReadApprovalStep DEF stored
  <2>2. KeyFree(r)'
    BY <1>6, <1>0, <2>1, ReadApprovalStep DEF Path, stored, Ids, Ended, KeyFree, OwnKey
  <2>3. Retry(r)'
    BY <1>6, <1>0, <2>1, ReadApprovalStep DEF Path, stored, Ids, Marks, Passed, Ended, Retry,
       OwnKey
  <2> QED
    BY <1>a, <2>1, <2>2, <2>3
<1>7. ASSUME NEW r \in Requests, ReadAction(r) PROVE Keyed'
  <2>1. Only(r) /\ UNCHANGED actions
    BY <1>7, ReadActionStep DEF Ends, stored
  <2>2. KeyFree(r)'
    BY <1>7, <1>0, <2>1, ReadActionStep DEF Path, Ends, stored, Ids, Ended, KeyFree, OwnKey
  <2>3. Retry(r)'
    BY <1>7, <1>0, <2>1, ReadActionStep DEF Path, Ends, stored, Ids, Marks, Passed, Ended,
       Retry, OwnKey
  <2> QED
    BY <1>a, <2>1, <2>2, <2>3
<1>8. ASSUME NEW r \in Requests, Refuse(r) PROVE Keyed'
  <2>1. \A q \in Requests \ {r} : ProcessOf[q] = ProcessOf[r] => AtAwait(q)
    BY <1>8, OthersAwait DEF Serve
  <2> QED
    BY <1>8, <1>0, <1>b, <2>1, RefuseStep DEF Path, Retry
<1>9. ASSUME NEW r \in Requests, Route(r) PROVE Keyed'
  <2>1. Only(r) /\ UNCHANGED actions
    BY <1>9, RouteStep DEF Binds, Passes
  <2>2. KeyFree(r)'
    BY <1>9, <1>0, <2>1, RouteStep DEF Path, Binds, Passes, Ids, Ended, KeyFree, OwnKey
  <2>3. Retry(r)'
    BY <1>9, <1>0, <2>1, RouteStep DEF Path, Binds, Passes, Ids, Marks, Passed, Ended, Retry,
       OwnKey
  <2> QED
    BY <1>a, <2>1, <2>2, <2>3
<1>10. ASSUME NEW r \in Requests, StoreRouted(r) PROVE Keyed'
  <2>1. \A q \in Requests \ {r} : ProcessOf[q] = ProcessOf[r] => AtAwait(q)
    BY <1>10, OthersAwait DEF Serve
  <2> QED
    BY <1>10, <1>0, <1>b, <2>1, StoreRoutedStep DEF Path, Retry
<1>11. ASSUME NEW r \in Requests, StartRead(r) PROVE Keyed'
  <2>1. Only(r) /\ UNCHANGED actions
    BY <1>11, StartReadStep DEF Moves, stored
  <2>2. KeyFree(r)'
    BY <1>11, <1>0, <2>1, StartReadStep DEF Path, Moves, stored, Ids, Ended, KeyFree, OwnKey
  <2>3. Retry(r)'
    BY <1>11, <1>0, <2>1, StartReadStep DEF Path, Moves, stored, Ids, Marks, Passed, Ended,
       Retry, OwnKey
  <2> QED
    BY <1>a, <2>1, <2>2, <2>3
<1>12. ASSUME NEW r \in Requests, StartExecution(r) PROVE Keyed'
  <2>1. \A q \in Requests \ {r} : ProcessOf[q] = ProcessOf[r] => AtAwait(q)
    BY <1>12, OthersAwait DEF Serve
  <2> QED
    BY <1>12, <1>0, <1>b, <2>1, StartExecutionStep DEF Path, Retry
<1>13. ASSUME NEW r \in Requests, DispatchOk(r) PROVE Keyed'
  <2>1. Only(r) /\ UNCHANGED actions
    BY <1>13, DispatchOkStep DEF Passes, Counts
  <2>2. KeyFree(r)'
    BY <1>13, <1>0, <2>1, DispatchOkStep DEF Path, Passes, Counts, Ids, Ended, KeyFree, OwnKey
  <2>3. Retry(r)'
    BY <1>13, <1>0, <2>1, DispatchOkStep DEF Path, Passes, Counts, Ids, Marks, Passed, Ended,
       Retry, OwnKey
  <2> QED
    BY <1>a, <2>1, <2>2, <2>3
<1>14. ASSUME NEW r \in Requests, DispatchFails(r) PROVE Keyed'
  <2>1. Only(r) /\ UNCHANGED actions
    BY <1>14, DispatchFailsStep DEF Passes, stored
  <2>2. KeyFree(r)'
    BY <1>14, <1>0, <2>1, DispatchFailsStep DEF Path, Passes, stored, Ids, Ended, KeyFree,
       OwnKey
  <2>3. Retry(r)'
    BY <1>14, <1>0, <2>1, DispatchFailsStep DEF Path, Passes, stored, Ids, Marks, Passed, Ended,
       Retry, OwnKey
  <2> QED
    BY <1>a, <2>1, <2>2, <2>3
<1>15. ASSUME NEW r \in Requests, DispatchRaises(r) PROVE Keyed'
  <2>1. Only(r) /\ UNCHANGED actions
    BY <1>15, DispatchRaisesStep DEF Ends, Counts
  <2>2. KeyFree(r)'
    BY <1>15, <1>0, <2>1, DispatchRaisesStep DEF Path, Ends, Counts, Ids, Ended, KeyFree, OwnKey
  <2>3. Retry(r)'
    BY <1>15, <1>0, <2>1, DispatchRaisesStep DEF Path, Ends, Counts, Ids, Marks, Passed, Ended,
       Retry, OwnKey
  <2> QED
    BY <1>a, <2>1, <2>2, <2>3
<1>16. ASSUME NEW r \in Requests, StoreDone(r) PROVE Keyed'
  <2>1. \A q \in Requests \ {r} : ProcessOf[q] = ProcessOf[r] => AtAwait(q)
    BY <1>16, OthersAwait DEF Serve
  <2> QED
    BY <1>16, <1>0, <1>b, <2>1, StoreDoneStep DEF Path, Retry
<1>17. ASSUME NEW r \in Requests, StoreFailed(r) PROVE Keyed'
  <2>1. \A q \in Requests \ {r} : ProcessOf[q] = ProcessOf[r] => AtAwait(q)
    BY <1>17, OthersAwait DEF Serve
  <2> QED
    BY <1>17, <1>0, <1>b, <2>1, StoreFailedStep DEF Path, Retry
<1>18. ASSUME NEW r \in Requests, Record(r) PROVE Keyed'
  <2>1. Only(r) /\ UNCHANGED actions
    BY <1>18, RecordStep
  <2>2. KeyFree(r)'
    BY <1>18, <1>0, <2>1, RecordStep DEF Path, Ids, Ended, KeyFree, OwnKey
  <2>3. Retry(r)'
    BY <1>18, <1>0, <2>1, RecordStep DEF Path, Ids, Marks, Passed, Ended, Retry, OwnKey
  <2> QED
    BY <1>a, <2>1, <2>2, <2>3
<1>19. ASSUME NEW r \in Requests, RequestChanges(r) PROVE Keyed'
  <2>1. Only(r) /\ UNCHANGED actions
    BY <1>19, RequestChangesStep DEF Reviewed, Ends
  <2>2. KeyFree(r)'
    BY <1>19, <1>0, <2>1, RequestChangesStep DEF Path, Reviewed, Ends, Ids, Ended, KeyFree,
       OwnKey
  <2>3. Retry(r)'
    BY <1>19, <1>0, <2>1, RequestChangesStep DEF Path, Reviewed, Ends, Ids, Marks, Passed,
       Ended, Retry, OwnKey
  <2> QED
    BY <1>a, <2>1, <2>2, <2>3
<1>20. ASSUME NEW r \in Requests, Reject(r) PROVE Keyed'
  <2>1. Only(r) /\ UNCHANGED actions
    BY <1>20, RejectStep DEF Reviewed, Passes
  <2>2. KeyFree(r)'
    BY <1>20, <1>0, <2>1, RejectStep DEF Path, Reviewed, Passes, Ids, Ended, KeyFree, OwnKey
  <2>3. Retry(r)'
    BY <1>20, <1>0, <2>1, RejectStep DEF Path, Reviewed, Passes, Ids, Marks, Passed, Ended,
       Retry, OwnKey
  <2> QED
    BY <1>a, <2>1, <2>2, <2>3
<1>21. ASSUME NEW r \in Requests, Approve(r) PROVE Keyed'
  <2>1. Only(r) /\ UNCHANGED actions
    BY <1>21, ApproveStep DEF Moves, stored
  <2>2. KeyFree(r)'
    BY <1>21, <1>0, <2>1, ApproveStep DEF Path, Moves, stored, Ids, Ended, KeyFree, OwnKey
  <2>3. Retry(r)'
    BY <1>21, <1>0, <2>1, ApproveStep DEF Path, Moves, stored, Ids, Marks, Passed, Ended, Retry,
       OwnKey
  <2> QED
    BY <1>a, <2>1, <2>2, <2>3
<1>22. ASSUME NEW r \in Requests, RefuseApproved(r) PROVE Keyed'
  <2>1. Only(r) /\ UNCHANGED actions
    BY <1>22, RefuseApprovedStep DEF Reviewed, Passes
  <2>2. KeyFree(r)'
    BY <1>22, <1>0, <2>1, RefuseApprovedStep DEF Path, Reviewed, Passes, Ids, Ended, KeyFree,
       OwnKey
  <2>3. Retry(r)'
    BY <1>22, <1>0, <2>1, RefuseApprovedStep DEF Path, Reviewed, Passes, Ids, Marks, Passed,
       Ended, Retry, OwnKey
  <2> QED
    BY <1>a, <2>1, <2>2, <2>3
<1>23. ASSUME NEW r \in Requests, Grant(r) PROVE Keyed'
  <2>1. Only(r) /\ UNCHANGED actions
    BY <1>23, GrantStep DEF Reviewed, Moves, Counts
  <2>2. KeyFree(r)'
    BY <1>23, <1>0, <2>1, GrantStep DEF Path, Reviewed, Moves, Counts, Ids, Ended, KeyFree,
       OwnKey
  <2>3. Retry(r)'
    BY <1>23, <1>0, <2>1, GrantStep DEF Path, Reviewed, Moves, Counts, Ids, Marks, Passed,
       Ended, Retry, OwnKey
  <2> QED
    BY <1>a, <2>1, <2>2, <2>3
<1>24. ASSUME NEW r \in Requests, StoreRefused(r) PROVE Keyed'
  <2>1. \A q \in Requests \ {r} : ProcessOf[q] = ProcessOf[r] => AtAwait(q)
    BY <1>24, OthersAwait DEF Serve
  <2> QED
    BY <1>24, <1>0, <1>b, <2>1, StoreRefusedStep DEF Path, Retry
<1>25. ASSUME NEW r \in Requests, Reopen(r) PROVE Keyed'
  <2>1. Only(r) /\ UNCHANGED actions
    BY <1>25, ReopenStep DEF Binds, Passes
  <2>2. KeyFree(r)'
    BY <1>25, <1>0, <2>1, ReopenStep DEF Path, Binds, Passes, Ids, Ended, KeyFree, OwnKey
  <2>3. Retry(r)'
    BY <1>25, <1>0, <2>1, ReopenStep DEF Path, Binds, Passes, Ids, Marks, Passed, Ended, Retry,
       OwnKey
  <2> QED
    BY <1>a, <2>1, <2>2, <2>3
<1>26. ASSUME NEW r \in Requests, StoreReopened(r) PROVE Keyed'
  <2>1. \A q \in Requests \ {r} : ProcessOf[q] = ProcessOf[r] => AtAwait(q)
    BY <1>26, OthersAwait DEF Serve
  <2> QED
    BY <1>26, <1>0, <1>b, <2>1, StoreReopenedStep DEF Path, Retry
<1>27. ASSUME NEW r \in Requests, CreateDraft(r) PROVE Keyed'
  <2>1. Only(r) /\ UNCHANGED actions
    BY <1>27, CreateDraftStep DEF Ends
  <2>2. KeyFree(r)'
    BY <1>27, <1>0, <2>1, CreateDraftStep DEF Path, Ends, Ids, Ended, KeyFree, OwnKey
  <2>3. Retry(r)'
    BY <1>27, <1>0, <2>1, CreateDraftStep DEF Path, Ends, Ids, Marks, Passed, Ended, Retry,
       OwnKey
  <2> QED
    BY <1>a, <2>1, <2>2, <2>3
<1>28. ASSUME NEW r \in Requests, WriteDraft(r) PROVE Keyed'
  <2>1. Only(r) /\ UNCHANGED actions
    BY <1>28, WriteDraftStep DEF Ends
  <2>2. KeyFree(r)'
    BY <1>28, <1>0, <2>1, WriteDraftStep DEF Path, Ends, Ids, Ended, KeyFree, OwnKey
  <2>3. Retry(r)'
    BY <1>28, <1>0, <2>1, WriteDraftStep DEF Path, Ends, Ids, Marks, Passed, Ended, Retry,
       OwnKey
  <2> QED
    BY <1>a, <2>1, <2>2, <2>3
<1>29. ASSUME NEW p, Crash(p) PROVE Keyed'
  BY <1>29, <1>0, CrashStep DEF Keyed, KeyNamesOneAction, KeyFree, Retry, Ended, Passed, stored
<1>30. CASE Tick \/ CheckIn \/ Revoke
  BY <1>30, AccountStep DEF Keyed, KeyNamesOneAction, KeyFree, Retry
<1>31. CASE Reactivate
  BY <1>31, ReactivateStep DEF Keyed, KeyNamesOneAction, KeyFree, Retry, Alike, Ids, Around
<1>32. ASSUME NEW a \in Agents, CheckOut(a) PROVE Keyed'
  BY <1>32, CheckOutStep DEF Keyed, KeyNamesOneAction, KeyFree, Retry, Alike, Ids, Around
<1>33. CASE UNCHANGED vars
  BY <1>33 DEF Keyed, KeyNamesOneAction, KeyFree, Retry, vars
<1> QED
  BY <1>1, <1>2, <1>3, <1>4, <1>5, <1>6, <1>7, <1>8, <1>9, <1>10, <1>11, <1>12, <1>13, <1>14,
     <1>15, <1>16, <1>17, <1>18, <1>19, <1>20, <1>21, <1>22, <1>23, <1>24, <1>25, <1>26, <1>27,
     <1>28, <1>29, <1>30, <1>31, <1>32, <1>33 DEF Next, Serve

\* One action to a key in each process, and retries end at the lookup,
\* throughout.
LEMMA KeyedHolds == Spec => [](TypeOK /\ Paths /\ Stored /\ Keyed)
<1>1. Init => Keyed
  <2> SUFFICES ASSUME Init PROVE Keyed
    OBVIOUS
  <2>1. \A r \in Requests : req[r].pc \in {"new", "ended"} /\ ~req[r].known
    BY InitReq
  <2>2. \A r \in Requests : actions[r].key = NoKey
    BY DEF Init, NoAction
  <2> QED
    BY <2>1, <2>2 DEF Keyed, KeyNamesOneAction, KeyFree, Retry
<1> QED
  BY <1>1, StoredHolds, KeyStep, PTL DEF Spec

\* One server process never stores two actions under one idempotency key, for
\* any number of requests and keys.
THEOREM KeysApart == Spec => []KeyNamesOneAction
<1>1. Keyed => KeyNamesOneAction
  BY DEF Keyed
<1> QED
  BY <1>1, KeyedHolds, PTL

\* A retry is never carried out, in whichever server process it is made.
THEOREM RetryActsOnce == Spec => []RetriesActOnce
<1>1. Keyed => RetriesActOnce
  BY DEF Keyed, Retry, RetriesActOnce, Dispatching
<1> QED
  BY <1>1, KeyedHolds, PTL

-----------------------------------------------------------------------------
(* How often the platform acts.                                            *)

\* A set that gains or loses no other element than x.
LEMMA OneElement ==
  ASSUME NEW S, NEW T, NEW x, IsFiniteSet(S), S \ {x} = T \ {x}
  PROVE  /\ IsFiniteSet(T) /\ Cardinality(S) \in Nat /\ Cardinality(T) \in Nat
         /\ (x \in S <=> x \in T) => Cardinality(T) = Cardinality(S)
         /\ x \notin S /\ x \in T => Cardinality(T) = Cardinality(S) + 1
         /\ x \in S /\ x \notin T => Cardinality(S) = Cardinality(T) + 1
<1> DEFINE R == S \ {x}
<1>1. IsFiniteSet(R) /\ x \notin R
  BY FS_RemoveElement
<1>2. S = IF x \in S THEN R \cup {x} ELSE R
  OBVIOUS
<1>3. T = IF x \in T THEN R \cup {x} ELSE R
  OBVIOUS
<1>4. /\ IsFiniteSet(R \cup {x}) /\ Cardinality(R \cup {x}) = Cardinality(R) + 1
      /\ Cardinality(R) \in Nat /\ Cardinality(R \cup {x}) \in Nat
  BY <1>1, FS_AddElement, FS_CardinalityType
<1> HIDE DEF R
<1> QED
  BY <1>1, <1>2, <1>3, <1>4

\* A step of r changes the sets that are counted by r alone.
LEMMA CountStep ==
  ASSUME NEW r \in Requests, Only(r), NEW a \in Requests, Counted(a)
  PROVE  /\ IsFiniteSet(Pending(a)') /\ IsFiniteSet(Reporting(a)')
         /\ Cardinality(Pending(a)) \in Nat /\ Cardinality(Pending(a)') \in Nat
         /\ Cardinality(Reporting(a)) \in Nat /\ Cardinality(Reporting(a)') \in Nat
         /\ (r \in Pending(a) <=> r \in Pending(a)')
              => Cardinality(Pending(a)') = Cardinality(Pending(a))
         /\ r \notin Pending(a) /\ r \in Pending(a)'
              => Cardinality(Pending(a)') = Cardinality(Pending(a)) + 1
         /\ r \in Pending(a) /\ r \notin Pending(a)'
              => Cardinality(Pending(a)) = Cardinality(Pending(a)') + 1
         /\ (r \in Reporting(a) <=> r \in Reporting(a)')
              => Cardinality(Reporting(a)') = Cardinality(Reporting(a))
         /\ r \notin Reporting(a) /\ r \in Reporting(a)'
              => Cardinality(Reporting(a)') = Cardinality(Reporting(a)) + 1
         /\ r \in Reporting(a) /\ r \notin Reporting(a)'
              => Cardinality(Reporting(a)) = Cardinality(Reporting(a)') + 1
<1>1. Pending(a) \ {r} = Pending(a)' \ {r}
  BY DEF Pending, Only
<1>2. Reporting(a) \ {r} = Reporting(a)' \ {r}
  BY DEF Reporting, Only
<1>3. IsFiniteSet(Pending(a)) /\ IsFiniteSet(Reporting(a))
  BY DEF Counted
<1> QED
  BY <1>1, <1>2, <1>3, OneElement, Zenon

\* Every step leaves no more executions than approvals, and no more reports
\* than executions.
LEMMA CountedStep == TypeOK /\ Paths /\ Stored /\ AllCounted /\ [Next]_vars => AllCounted'
<1> SUFFICES ASSUME TypeOK, Paths, Stored, AllCounted, [Next]_vars PROVE AllCounted'
  OBVIOUS
<1> USE DEF Running, Acts, Kinds, Writes, Reads, Reviews, Ops
<1>0. \A q \in Requests : /\ req[q].act \in Requests /\ Path(q) /\ Made(q) /\ Found(q) /\ Counted(q)
                          /\ performed[q] \in Nat /\ granted[q] \in Nat /\ audit[q].allow \in Nat
  BY DEF TypeOK, Memory, Paths, Stored, AllCounted, Events
<1>a. ASSUME NEW r \in Requests, Only(r), UNCHANGED <<performed, granted>>,
             \A a \in Requests : /\ r \in Pending(a) <=> r \in Pending(a)'
                                 /\ r \in Reporting(a) <=> r \in Reporting(a)'
                                 /\ audit'[a].allow = audit[a].allow
                                 /\ approvals'[a].state # "none" => approvals[a].state # "none"
      PROVE  AllCounted'
  <2> SUFFICES ASSUME NEW a \in Requests PROVE Counted(a)'
    BY DEF AllCounted
  <2>1. Counted(a)
    BY <1>0
  <2>2. /\ IsFiniteSet(Pending(a)') /\ IsFiniteSet(Reporting(a)')
        /\ Cardinality(Pending(a)') = Cardinality(Pending(a))
        /\ Cardinality(Reporting(a)') = Cardinality(Reporting(a))
    BY <1>a, <2>1, CountStep
  <2> QED
    BY <1>a, <2>1, <2>2 DEF Counted
<1>b. ASSUME NEW r \in Requests, Only(r), UNCHANGED <<performed, granted, audit>>,
             req[r].pc \notin {"execute", "dispatch", "store_done", "allow"},
             req'[r].pc \notin {"execute", "dispatch", "store_done", "allow"},
             \A a \in Requests : approvals'[a].state # "none" => approvals[a].state # "none"
      PROVE  AllCounted'
  BY <1>a, <1>b DEF Pending, Reporting
<1>1. ASSUME NEW r \in Requests, Begin(r) PROVE AllCounted'
  <2>1. Only(r) /\ UNCHANGED <<performed, granted, audit>>
    BY <1>1, BeginStep DEF Starts, stored
  <2>2. /\ req[r].pc \notin {"execute", "dispatch", "store_done", "allow"}
        /\ req'[r].pc \notin {"execute", "dispatch", "store_done", "allow"}
    BY <1>1, BeginStep DEF Starts, stored, Ended, FirstStep
  <2>3. \A a \in Requests : approvals'[a].state # "none" => approvals[a].state # "none"
    BY <1>1, <1>0, BeginStep DEF Path, Found, Starts, stored
  <2> QED
    BY <1>b, <2>1, <2>2, <2>3
<1>2. ASSUME NEW r \in Requests, ReadAccount(r) PROVE AllCounted'
  <2>1. Only(r) /\ UNCHANGED <<performed, granted, audit>>
    BY <1>2, ReadAccountStep DEF stored
  <2>2. /\ req[r].pc \notin {"execute", "dispatch", "store_done", "allow"}
        /\ req'[r].pc \notin {"execute", "dispatch", "store_done", "allow"}
    BY <1>2, ReadAccountStep DEF stored, Ended, FirstStep
  <2>3. \A a \in Requests : approvals'[a].state # "none" => approvals[a].state # "none"
    BY <1>2, <1>0, ReadAccountStep DEF Path, Found, stored
  <2> QED
    BY <1>b, <2>1, <2>2, <2>3
<1>3. ASSUME NEW r \in Requests, ReadDraft(r) PROVE AllCounted'
  <2>1. Only(r) /\ UNCHANGED <<performed, granted, audit>>
    BY <1>3, ReadDraftStep DEF Ends, stored
  <2>2. /\ req[r].pc \notin {"execute", "dispatch", "store_done", "allow"}
        /\ req'[r].pc \notin {"execute", "dispatch", "store_done", "allow"}
    BY <1>3, ReadDraftStep DEF Ends, stored, Ended, FirstStep
  <2>3. \A a \in Requests : approvals'[a].state # "none" => approvals[a].state # "none"
    BY <1>3, <1>0, ReadDraftStep DEF Path, Found, Ends, stored
  <2> QED
    BY <1>b, <2>1, <2>2, <2>3
<1>4. ASSUME NEW r \in Requests, Resolve(r) PROVE AllCounted'
  <2>1. Only(r) /\ UNCHANGED <<performed, granted, audit>>
    BY <1>4, ResolveStep DEF Moves, Ends, stored
  <2>2. /\ req[r].pc \notin {"execute", "dispatch", "store_done", "allow"}
        /\ req'[r].pc \notin {"execute", "dispatch", "store_done", "allow"}
    BY <1>4, ResolveStep DEF Moves, Ends, stored, Ended, FirstStep
  <2>3. \A a \in Requests : approvals'[a].state # "none" => approvals[a].state # "none"
    BY <1>4, <1>0, ResolveStep DEF Path, Found, Moves, Ends, stored
  <2> QED
    BY <1>b, <2>1, <2>2, <2>3
<1>5. ASSUME NEW r \in Requests, Lookup(r) PROVE AllCounted'
  <2>1. Only(r) /\ UNCHANGED <<performed, granted, audit>>
    BY <1>5, LookupStep DEF Moves, Ends, stored
  <2>2. /\ req[r].pc \notin {"execute", "dispatch", "store_done", "allow"}
        /\ req'[r].pc \notin {"execute", "dispatch", "store_done", "allow"}
    BY <1>5, LookupStep DEF Moves, Ends, stored, Ended, FirstStep
  <2>3. \A a \in Requests : approvals'[a].state # "none" => approvals[a].state # "none"
    BY <1>5, <1>0, LookupStep DEF Path, Found, Moves, Ends, stored
  <2> QED
    BY <1>b, <2>1, <2>2, <2>3
<1>6. ASSUME NEW r \in Requests, ReadApproval(r) PROVE AllCounted'
  <2>1. Only(r) /\ UNCHANGED <<performed, granted, audit>>
    BY <1>6, ReadApprovalStep DEF stored
  <2>2. /\ req[r].pc \notin {"execute", "dispatch", "store_done", "allow"}
        /\ req'[r].pc \notin {"execute", "dispatch", "store_done", "allow"}
    BY <1>6, ReadApprovalStep DEF stored, Ended, FirstStep
  <2>3. \A a \in Requests : approvals'[a].state # "none" => approvals[a].state # "none"
    BY <1>6, <1>0, ReadApprovalStep DEF Path, Found, stored
  <2> QED
    BY <1>b, <2>1, <2>2, <2>3
<1>7. ASSUME NEW r \in Requests, ReadAction(r) PROVE AllCounted'
  <2>1. Only(r) /\ UNCHANGED <<performed, granted, audit>>
    BY <1>7, ReadActionStep DEF Ends, stored
  <2>2. /\ req[r].pc \notin {"execute", "dispatch", "store_done", "allow"}
        /\ req'[r].pc \notin {"execute", "dispatch", "store_done", "allow"}
    BY <1>7, ReadActionStep DEF Ends, stored, Ended, FirstStep
  <2>3. \A a \in Requests : approvals'[a].state # "none" => approvals[a].state # "none"
    BY <1>7, <1>0, ReadActionStep DEF Path, Found, Ends, stored
  <2> QED
    BY <1>b, <2>1, <2>2, <2>3
<1>8. ASSUME NEW r \in Requests, Refuse(r) PROVE AllCounted'
  <2>1. Only(r) /\ UNCHANGED <<performed, granted, audit>>
    BY <1>8, RefuseStep DEF Stores
  <2>2. /\ req[r].pc \notin {"execute", "dispatch", "store_done", "allow"}
        /\ req'[r].pc \notin {"execute", "dispatch", "store_done", "allow"}
    BY <1>8, RefuseStep DEF Stores, Ended, FirstStep
  <2>3. \A a \in Requests : approvals'[a].state # "none" => approvals[a].state # "none"
    BY <1>8, <1>0, RefuseStep DEF Path, Found, Stores
  <2> QED
    BY <1>b, <2>1, <2>2, <2>3
<1>9. ASSUME NEW r \in Requests, Route(r) PROVE AllCounted'
  <2>1. /\ Only(r) /\ req[r].pc = "evaluate" /\ req'[r].pc = "store_routed"
        /\ req[r].act = r /\ req[r].op \in Writes
        /\ UNCHANGED <<performed, granted, audit>>
        /\ \A a \in Requests \ {r} : approvals'[a] = approvals[a]
    BY <1>9, <1>0, RouteStep DEF Binds, Passes, Path
  <2> SUFFICES ASSUME NEW a \in Requests PROVE Counted(a)'
    BY DEF AllCounted
  <2>2. Counted(a)
    BY <1>0
  <2>3. /\ IsFiniteSet(Pending(a)') /\ IsFiniteSet(Reporting(a)')
        /\ Cardinality(Pending(a)') = Cardinality(Pending(a))
        /\ Cardinality(Reporting(a)') = Cardinality(Reporting(a))
    BY <2>1, <2>2, CountStep DEF Pending, Reporting
  <2>4. approvals[r].state = "none" /\ performed[r] = 0
    BY <1>0, <2>1 DEF Made
  <2>5. Pending(r) = {}
    BY <1>0, <2>4 DEF Pending, Found
  <2>6. performed[r] + Cardinality(Pending(r)) <= granted[r]
    BY <1>0, <2>4, <2>5, FS_EmptySet
  <2> QED
    BY <2>1, <2>2, <2>3, <2>6 DEF Counted
<1>10. ASSUME NEW r \in Requests, StoreRouted(r) PROVE AllCounted'
  <2>1. Only(r) /\ UNCHANGED <<performed, granted, audit>>
    BY <1>10, StoreRoutedStep DEF Stores
  <2>2. /\ req[r].pc \notin {"execute", "dispatch", "store_done", "allow"}
        /\ req'[r].pc \notin {"execute", "dispatch", "store_done", "allow"}
    BY <1>10, StoreRoutedStep DEF Stores, Ended, FirstStep
  <2>3. \A a \in Requests : approvals'[a].state # "none" => approvals[a].state # "none"
    BY <1>10, <1>0, StoreRoutedStep DEF Path, Found, Stores
  <2> QED
    BY <1>b, <2>1, <2>2, <2>3
<1>11. ASSUME NEW r \in Requests, StartRead(r) PROVE AllCounted'
  <2>1. Only(r) /\ Ids(r) /\ UNCHANGED <<performed, granted, audit, approvals>>
    BY <1>11, StartReadStep DEF Moves, stored
  <2>2. ASSUME NEW a \in Requests
        PROVE  /\ r \in Pending(a) <=> r \in Pending(a)'
               /\ r \in Reporting(a) <=> r \in Reporting(a)'
    BY <1>11, <2>1, StartReadStep DEF Moves, Ids, Pending, Reporting
  <2> QED
    BY <1>a, <2>1, <2>2
<1>12. ASSUME NEW r \in Requests, StartExecution(r) PROVE AllCounted'
  <2>1. /\ Only(r) /\ Ids(r) /\ UNCHANGED <<performed, granted, audit, approvals>>
        /\ Path(r)
    BY <1>12, <1>0, StartExecutionStep DEF Stores
  <2>2. ASSUME NEW a \in Requests
        PROVE  /\ r \in Pending(a) <=> r \in Pending(a)'
               /\ r \in Reporting(a) <=> r \in Reporting(a)'
    BY <1>12, <2>1, StartExecutionStep DEF Stores, Path, Ids, Pending, Reporting
  <2> QED
    BY <1>a, <2>1, <2>2
<1>13. ASSUME NEW r \in Requests, DispatchOk(r) PROVE AllCounted'
  <2>1. /\ Only(r) /\ req[r].pc = "dispatch" /\ req'[r].pc = "store_done"
        /\ req'[r].op = req[r].op /\ req'[r].act = req[r].act
        /\ UNCHANGED <<approvals, granted, audit>>
    BY <1>13, DispatchOkStep DEF Passes, Counts, Ids, Ended
  <2> SUFFICES ASSUME NEW a \in Requests PROVE Counted(a)'
    BY DEF AllCounted
  <2>2. Counted(a) /\ performed[a] \in Nat /\ granted[a] \in Nat /\ audit[a].allow \in Nat
    BY <1>0
  <2>3. performed'[a] = IF a = req[r].act THEN performed[a] + 1 ELSE performed[a]
    BY <1>13, <2>1, DispatchOkStep DEF Counts, TypeOK
  <2>4. a = req[r].act /\ approvals[a].state # "none" => req[r].op = "approve"
    BY <1>0, <2>1 DEF Path, Made
  <2>5. /\ r \in Pending(a) <=> a = req[r].act /\ req[r].op = "approve"
        /\ r \notin Pending(a)' /\ r \notin Reporting(a)
        /\ r \in Reporting(a)' <=> a = req[r].act
    BY <2>1 DEF Pending, Reporting
  <2>6. /\ IsFiniteSet(Pending(a)') /\ IsFiniteSet(Reporting(a)')
        /\ Cardinality(Pending(a)) \in Nat /\ Cardinality(Pending(a)') \in Nat
        /\ Cardinality(Reporting(a)) \in Nat /\ Cardinality(Reporting(a)') \in Nat
        /\ IF a = req[r].act /\ req[r].op = "approve"
             THEN Cardinality(Pending(a)) = Cardinality(Pending(a)') + 1
             ELSE Cardinality(Pending(a)') = Cardinality(Pending(a))
        /\ Cardinality(Reporting(a)')
             = IF a = req[r].act THEN Cardinality(Reporting(a)) + 1 ELSE Cardinality(Reporting(a))
    BY <2>1, <2>2, <2>5, CountStep
  <2> QED
    BY <2>1, <2>2, <2>3, <2>4, <2>6 DEF Counted
<1>14. ASSUME NEW r \in Requests, DispatchFails(r) PROVE AllCounted'
  <2>1. /\ Only(r) /\ req[r].pc = "dispatch" /\ req'[r].pc = "store_failed"
        /\ req'[r].op = req[r].op /\ req'[r].act = req[r].act
        /\ UNCHANGED <<approvals, granted, audit>>
    BY <1>14, DispatchFailsStep DEF Passes, stored, Ids, Ended
  <2> SUFFICES ASSUME NEW a \in Requests PROVE Counted(a)'
    BY DEF AllCounted
  <2>2. Counted(a) /\ performed[a] \in Nat /\ granted[a] \in Nat /\ audit[a].allow \in Nat
    BY <1>0
  <2>3. performed'[a] = performed[a]
    BY <1>14, <2>1, DispatchFailsStep DEF Counts, stored
  <2>4. a = req[r].act /\ approvals[a].state # "none" => req[r].op = "approve"
    BY <1>0, <2>1 DEF Path, Made
  <2>5. /\ r \in Pending(a) <=> a = req[r].act /\ req[r].op = "approve"
        /\ r \notin Pending(a)' /\ r \notin Reporting(a)
        /\ r \in Reporting(a)' <=> FALSE
    BY <2>1 DEF Pending, Reporting
  <2>6. /\ IsFiniteSet(Pending(a)') /\ IsFiniteSet(Reporting(a)')
        /\ Cardinality(Pending(a)) \in Nat /\ Cardinality(Pending(a)') \in Nat
        /\ Cardinality(Reporting(a)) \in Nat /\ Cardinality(Reporting(a)') \in Nat
        /\ IF a = req[r].act /\ req[r].op = "approve"
             THEN Cardinality(Pending(a)) = Cardinality(Pending(a)') + 1
             ELSE Cardinality(Pending(a)') = Cardinality(Pending(a))
        /\ Cardinality(Reporting(a)') = Cardinality(Reporting(a))
    BY <2>1, <2>2, <2>5, CountStep
  <2> QED
    BY <2>1, <2>2, <2>3, <2>4, <2>6 DEF Counted
<1>15. ASSUME NEW r \in Requests, DispatchRaises(r) PROVE AllCounted'
  <2>1. /\ Only(r) /\ req[r].pc = "dispatch" /\ req'[r].pc = "ended"
        /\ req'[r].op = req[r].op /\ req'[r].act = req[r].act
        /\ UNCHANGED <<approvals, granted, audit>>
    BY <1>15, DispatchRaisesStep DEF Ends, Counts, Ids, Ended
  <2> SUFFICES ASSUME NEW a \in Requests PROVE Counted(a)'
    BY DEF AllCounted
  <2>2. Counted(a) /\ performed[a] \in Nat /\ granted[a] \in Nat /\ audit[a].allow \in Nat
    BY <1>0
  <2>a. UNCHANGED performed \/ Counts(performed, req[r].act)
    BY <1>15, DispatchRaisesStep
  <2>3. \/ performed'[a] = performed[a]
        \/ a = req[r].act /\ performed'[a] = performed[a] + 1
    BY <2>a DEF Counts, TypeOK
  <2>4. a = req[r].act /\ approvals[a].state # "none" => req[r].op = "approve"
    BY <1>0, <2>1 DEF Path, Made
  <2>5. /\ r \in Pending(a) <=> a = req[r].act /\ req[r].op = "approve"
        /\ r \notin Pending(a)' /\ r \notin Reporting(a)
        /\ r \in Reporting(a)' <=> FALSE
    BY <2>1 DEF Pending, Reporting
  <2>6. /\ IsFiniteSet(Pending(a)') /\ IsFiniteSet(Reporting(a)')
        /\ Cardinality(Pending(a)) \in Nat /\ Cardinality(Pending(a)') \in Nat
        /\ Cardinality(Reporting(a)) \in Nat /\ Cardinality(Reporting(a)') \in Nat
        /\ IF a = req[r].act /\ req[r].op = "approve"
             THEN Cardinality(Pending(a)) = Cardinality(Pending(a)') + 1
             ELSE Cardinality(Pending(a)') = Cardinality(Pending(a))
        /\ Cardinality(Reporting(a)') = Cardinality(Reporting(a))
    BY <2>1, <2>2, <2>5, CountStep
  <2> QED
    BY <2>1, <2>2, <2>3, <2>4, <2>6 DEF Counted
<1>16. ASSUME NEW r \in Requests, StoreDone(r) PROVE AllCounted'
  <2>1. /\ Only(r) /\ Ids(r) /\ UNCHANGED <<performed, granted, audit, approvals>>
        /\ Path(r)
    BY <1>16, <1>0, StoreDoneStep DEF Stores
  <2>2. ASSUME NEW a \in Requests
        PROVE  /\ r \in Pending(a) <=> r \in Pending(a)'
               /\ r \in Reporting(a) <=> r \in Reporting(a)'
    BY <1>16, <2>1, StoreDoneStep DEF Stores, Path, Ids, Pending, Reporting
  <2> QED
    BY <1>a, <2>1, <2>2
<1>17. ASSUME NEW r \in Requests, StoreFailed(r) PROVE AllCounted'
  <2>1. Only(r) /\ UNCHANGED <<performed, granted, audit>>
    BY <1>17, StoreFailedStep DEF Stores
  <2>2. /\ req[r].pc \notin {"execute", "dispatch", "store_done", "allow"}
        /\ req'[r].pc \notin {"execute", "dispatch", "store_done", "allow"}
    BY <1>17, StoreFailedStep DEF Stores, Ended, FirstStep
  <2>3. \A a \in Requests : approvals'[a].state # "none" => approvals[a].state # "none"
    BY <1>17, <1>0, StoreFailedStep DEF Path, Found, Stores
  <2> QED
    BY <1>b, <2>1, <2>2, <2>3
<1>18. ASSUME NEW r \in Requests, Record(r) PROVE AllCounted'
  <2>1. /\ Only(r) /\ req[r].pc \in {"allow", "deny", "route"} /\ req'[r].pc = "ended"
        /\ UNCHANGED <<approvals, granted, performed>>
    BY <1>18, RecordStep DEF Ended
  <2> SUFFICES ASSUME NEW a \in Requests PROVE Counted(a)'
    BY DEF AllCounted
  <2>2. Counted(a) /\ performed[a] \in Nat /\ granted[a] \in Nat /\ audit[a].allow \in Nat
    BY <1>0
  <2>3. audit'[a].allow = IF a = req[r].act /\ req[r].pc = "allow" THEN audit[a].allow + 1
                                                               ELSE audit[a].allow
    BY <1>18, RecordStep
  <2>4. /\ IsFiniteSet(Pending(a)') /\ IsFiniteSet(Reporting(a)')
        /\ Cardinality(Reporting(a)) \in Nat /\ Cardinality(Reporting(a)') \in Nat
        /\ Cardinality(Pending(a)') = Cardinality(Pending(a))
        /\ IF a = req[r].act /\ req[r].pc = "allow"
             THEN Cardinality(Reporting(a)) = Cardinality(Reporting(a)') + 1
             ELSE Cardinality(Reporting(a)') = Cardinality(Reporting(a))
    BY <2>1, <2>2, CountStep DEF Pending, Reporting
  <2> QED
    BY <2>1, <2>2, <2>3, <2>4 DEF Counted
<1>19. ASSUME NEW r \in Requests, RequestChanges(r) PROVE AllCounted'
  <2>1. Only(r) /\ UNCHANGED <<performed, granted, audit>>
    BY <1>19, RequestChangesStep DEF Reviewed, Ends
  <2>2. /\ req[r].pc \notin {"execute", "dispatch", "store_done", "allow"}
        /\ req'[r].pc \notin {"execute", "dispatch", "store_done", "allow"}
    BY <1>19, RequestChangesStep DEF Reviewed, Ends, Ended, FirstStep
  <2>3. \A a \in Requests : approvals'[a].state # "none" => approvals[a].state # "none"
    BY <1>19, <1>0, RequestChangesStep DEF Path, Found, Reviewed, Ends
  <2> QED
    BY <1>b, <2>1, <2>2, <2>3
<1>20. ASSUME NEW r \in Requests, Reject(r) PROVE AllCounted'
  <2>1. Only(r) /\ UNCHANGED <<performed, granted, audit>>
    BY <1>20, RejectStep DEF Reviewed, Passes
  <2>2. /\ req[r].pc \notin {"execute", "dispatch", "store_done", "allow"}
        /\ req'[r].pc \notin {"execute", "dispatch", "store_done", "allow"}
    BY <1>20, RejectStep DEF Reviewed, Passes, Ended, FirstStep
  <2>3. \A a \in Requests : approvals'[a].state # "none" => approvals[a].state # "none"
    BY <1>20, <1>0, RejectStep DEF Path, Found, Reviewed, Passes
  <2> QED
    BY <1>b, <2>1, <2>2, <2>3
<1>21. ASSUME NEW r \in Requests, Approve(r) PROVE AllCounted'
  <2>1. Only(r) /\ UNCHANGED <<performed, granted, audit>>
    BY <1>21, ApproveStep DEF Moves, stored
  <2>2. /\ req[r].pc \notin {"execute", "dispatch", "store_done", "allow"}
        /\ req'[r].pc \notin {"execute", "dispatch", "store_done", "allow"}
    BY <1>21, ApproveStep DEF Moves, stored, Ended, FirstStep
  <2>3. \A a \in Requests : approvals'[a].state # "none" => approvals[a].state # "none"
    BY <1>21, <1>0, ApproveStep DEF Path, Found, Moves, stored
  <2> QED
    BY <1>b, <2>1, <2>2, <2>3
<1>22. ASSUME NEW r \in Requests, RefuseApproved(r) PROVE AllCounted'
  <2>1. Only(r) /\ UNCHANGED <<performed, granted, audit>>
    BY <1>22, RefuseApprovedStep DEF Reviewed, Passes
  <2>2. /\ req[r].pc \notin {"execute", "dispatch", "store_done", "allow"}
        /\ req'[r].pc \notin {"execute", "dispatch", "store_done", "allow"}
    BY <1>22, RefuseApprovedStep DEF Reviewed, Passes, Ended, FirstStep
  <2>3. \A a \in Requests : approvals'[a].state # "none" => approvals[a].state # "none"
    BY <1>22, <1>0, RefuseApprovedStep DEF Path, Found, Reviewed, Passes
  <2> QED
    BY <1>b, <2>1, <2>2, <2>3
<1>23. ASSUME NEW r \in Requests, Grant(r) PROVE AllCounted'
  <2>1. /\ Only(r) /\ req[r].pc = "check" /\ req'[r].pc = "execute"
        /\ req'[r].op = req[r].op /\ req'[r].act = req[r].act
        /\ UNCHANGED <<performed, audit>> /\ approvals[req[r].act].state # "none"
        /\ req[r].op = "approve"
    BY <1>23, <1>0, GrantStep DEF Moves, Ids, Path, Found
  <2> SUFFICES ASSUME NEW a \in Requests PROVE Counted(a)'
    BY DEF AllCounted
  <2>2. Counted(a) /\ performed[a] \in Nat /\ granted[a] \in Nat /\ audit[a].allow \in Nat
    BY <1>0
  <2>3. /\ granted'[a] = IF a = req[r].act THEN granted[a] + 1 ELSE granted[a]
        /\ approvals'[a].state # "none" => approvals[a].state # "none"
    BY <1>23, <2>1, GrantStep DEF Counts, Reviewed, TypeOK
  <2>4. /\ r \notin Pending(a) /\ (r \in Pending(a)' <=> a = req[r].act)
        /\ r \notin Reporting(a) /\ r \notin Reporting(a)'
    BY <2>1 DEF Pending, Reporting
  <2>5. /\ IsFiniteSet(Pending(a)') /\ IsFiniteSet(Reporting(a)')
        /\ Cardinality(Pending(a)) \in Nat /\ Cardinality(Pending(a)') \in Nat
        /\ Cardinality(Reporting(a)') = Cardinality(Reporting(a))
        /\ Cardinality(Pending(a)')
             = IF a = req[r].act THEN Cardinality(Pending(a)) + 1 ELSE Cardinality(Pending(a))
    BY <2>1, <2>2, <2>4, CountStep
  <2> QED
    BY <2>1, <2>2, <2>3, <2>5 DEF Counted
<1>24. ASSUME NEW r \in Requests, StoreRefused(r) PROVE AllCounted'
  <2>1. Only(r) /\ UNCHANGED <<performed, granted, audit>>
    BY <1>24, StoreRefusedStep DEF Stores
  <2>2. /\ req[r].pc \notin {"execute", "dispatch", "store_done", "allow"}
        /\ req'[r].pc \notin {"execute", "dispatch", "store_done", "allow"}
    BY <1>24, StoreRefusedStep DEF Stores, Ended, FirstStep
  <2>3. \A a \in Requests : approvals'[a].state # "none" => approvals[a].state # "none"
    BY <1>24, <1>0, StoreRefusedStep DEF Path, Found, Stores
  <2> QED
    BY <1>b, <2>1, <2>2, <2>3
<1>25. ASSUME NEW r \in Requests, Reopen(r) PROVE AllCounted'
  <2>1. Only(r) /\ UNCHANGED <<performed, granted, audit>>
    BY <1>25, ReopenStep DEF Binds, Passes
  <2>2. /\ req[r].pc \notin {"execute", "dispatch", "store_done", "allow"}
        /\ req'[r].pc \notin {"execute", "dispatch", "store_done", "allow"}
    BY <1>25, ReopenStep DEF Binds, Passes, Ended, FirstStep
  <2>3. \A a \in Requests : approvals'[a].state # "none" => approvals[a].state # "none"
    BY <1>25, <1>0, ReopenStep DEF Path, Found, Binds, Passes
  <2> QED
    BY <1>b, <2>1, <2>2, <2>3
<1>26. ASSUME NEW r \in Requests, StoreReopened(r) PROVE AllCounted'
  <2>1. Only(r) /\ UNCHANGED <<performed, granted, audit>>
    BY <1>26, StoreReopenedStep DEF Stores
  <2>2. /\ req[r].pc \notin {"execute", "dispatch", "store_done", "allow"}
        /\ req'[r].pc \notin {"execute", "dispatch", "store_done", "allow"}
    BY <1>26, StoreReopenedStep DEF Stores, Ended, FirstStep
  <2>3. \A a \in Requests : approvals'[a].state # "none" => approvals[a].state # "none"
    BY <1>26, <1>0, StoreReopenedStep DEF Path, Found, Stores
  <2> QED
    BY <1>b, <2>1, <2>2, <2>3
<1>27. ASSUME NEW r \in Requests, CreateDraft(r) PROVE AllCounted'
  <2>1. Only(r) /\ UNCHANGED <<performed, granted, audit>>
    BY <1>27, CreateDraftStep DEF Ends
  <2>2. /\ req[r].pc \notin {"execute", "dispatch", "store_done", "allow"}
        /\ req'[r].pc \notin {"execute", "dispatch", "store_done", "allow"}
    BY <1>27, CreateDraftStep DEF Ends, Ended, FirstStep
  <2>3. \A a \in Requests : approvals'[a].state # "none" => approvals[a].state # "none"
    BY <1>27, <1>0, CreateDraftStep DEF Path, Found, Ends
  <2> QED
    BY <1>b, <2>1, <2>2, <2>3
<1>28. ASSUME NEW r \in Requests, WriteDraft(r) PROVE AllCounted'
  <2>1. Only(r) /\ UNCHANGED <<performed, granted, audit>>
    BY <1>28, WriteDraftStep DEF Ends
  <2>2. /\ req[r].pc \notin {"execute", "dispatch", "store_done", "allow"}
        /\ req'[r].pc \notin {"execute", "dispatch", "store_done", "allow"}
    BY <1>28, WriteDraftStep DEF Ends, Ended, FirstStep
  <2>3. \A a \in Requests : approvals'[a].state # "none" => approvals[a].state # "none"
    BY <1>28, <1>0, WriteDraftStep DEF Path, Found, Ends
  <2> QED
    BY <1>b, <2>1, <2>2, <2>3
<1>29. ASSUME NEW p, Crash(p) PROVE AllCounted'
  <2>1. UNCHANGED stored
    BY <1>29, CrashStep
  <2> SUFFICES ASSUME NEW a \in Requests PROVE Counted(a)'
    BY DEF AllCounted
  <2>2. Counted(a) /\ performed[a] \in Nat /\ granted[a] \in Nat /\ audit[a].allow \in Nat
    BY <1>0
  <2>3. Pending(a)' \subseteq Pending(a) /\ Reporting(a)' \subseteq Reporting(a)
    BY <1>29, CrashStep DEF Pending, Reporting, Ended
  <2>4. IsFiniteSet(Pending(a)) /\ IsFiniteSet(Reporting(a))
    BY <2>2 DEF Counted
  <2>5. /\ IsFiniteSet(Pending(a)') /\ Cardinality(Pending(a)') <= Cardinality(Pending(a))
        /\ IsFiniteSet(Reporting(a)') /\ Cardinality(Reporting(a)') <= Cardinality(Reporting(a))
        /\ Cardinality(Pending(a)) \in Nat /\ Cardinality(Pending(a)') \in Nat
        /\ Cardinality(Reporting(a)) \in Nat /\ Cardinality(Reporting(a)') \in Nat
    BY <2>3, <2>4, FS_Subset, FS_CardinalityType
  <2> QED
    BY <2>1, <2>2, <2>5 DEF Counted, stored
<1>c. ASSUME UNCHANGED <<approvals, performed, granted, audit>>,
              \A q \in Requests : /\ req'[q].pc = req[q].pc /\ req'[q].op = req[q].op
                                  /\ req'[q].act = req[q].act
       PROVE  AllCounted'
  <2>1. \A a \in Requests : Pending(a)' = Pending(a) /\ Reporting(a)' = Reporting(a)
    BY <1>c DEF Pending, Reporting
  <2> QED
    BY <1>c, <2>1 DEF AllCounted, Counted
<1>30. CASE Tick \/ CheckIn \/ Revoke
  BY <1>30, <1>c, AccountStep
<1>31. CASE Reactivate
  BY <1>31, <1>c, ReactivateStep DEF Alike, Ids, Around
<1>32. ASSUME NEW a \in Agents, CheckOut(a) PROVE AllCounted'
  BY <1>32, <1>c, CheckOutStep DEF Alike, Ids, Around
<1>33. CASE UNCHANGED vars
  BY <1>33, <1>c DEF vars
<1> QED
  BY <1>1, <1>2, <1>3, <1>4, <1>5, <1>6, <1>7, <1>8, <1>9, <1>10, <1>11, <1>12, <1>13, <1>14,
     <1>15, <1>16, <1>17, <1>18, <1>19, <1>20, <1>21, <1>22, <1>23, <1>24, <1>25, <1>26, <1>27,
     <1>28, <1>29, <1>30, <1>31, <1>32, <1>33 DEF Next, Serve

\* The counts hold throughout.
LEMMA CountedHolds == Spec => [](TypeOK /\ Paths /\ Stored /\ AllCounted)
<1>1. Init => AllCounted
  <2> SUFFICES ASSUME Init, NEW a \in Requests PROVE Counted(a)
    BY DEF AllCounted
  <2>1. \A r \in Requests : req[r].pc \in {"new", "ended"}
    BY InitReq
  <2>2. Pending(a) = {} /\ Reporting(a) = {}
    BY <2>1 DEF Pending, Reporting
  <2>3. approvals[a].state = "none" /\ performed[a] = 0 /\ audit[a].allow = 0
    BY DEF Init, NoApproval
  <2> QED
    BY <2>2, <2>3, FS_EmptySet DEF Counted
<1> QED
  BY <1>1, StoredHolds, CountedStep, PTL DEF Spec

\* A routed action is carried out at most once for every approval it was
\* given, for any number of reviewers, processes and crashes.
THEOREM OnePost == Spec => []OnePostPerApproval
<1>1. TypeOK /\ AllCounted => OnePostPerApproval
  <2> SUFFICES ASSUME TypeOK, AllCounted, NEW a \in Requests, approvals[a].state # "none"
               PROVE  performed[a] <= granted[a]
    BY DEF OnePostPerApproval
  <2>1. Counted(a) /\ performed[a] \in Nat /\ granted[a] \in Nat
    BY DEF TypeOK, AllCounted
  <2>2. Cardinality(Pending(a)) \in Nat
    BY <2>1, FS_CardinalityType DEF Counted
  <2> QED
    BY <2>1, <2>2 DEF Counted
<1> QED
  BY <1>1, CountedHolds, PTL

\* The audit log never reports an execution that did not take place.
THEOREM AllowsPerformed == Spec => []AllowMeansPerformed
<1>1. TypeOK /\ AllCounted => AllowMeansPerformed
  <2> SUFFICES ASSUME TypeOK, AllCounted, NEW a \in Requests
               PROVE  audit[a].allow <= performed[a]
    BY DEF AllowMeansPerformed
  <2>1. Counted(a) /\ performed[a] \in Nat /\ audit[a].allow \in Nat
    BY DEF TypeOK, AllCounted, Events
  <2>2. Cardinality(Reporting(a)) \in Nat
    BY <2>1, FS_CardinalityType DEF Counted
  <2> QED
    BY <2>1, <2>2 DEF Counted
<1> QED
  BY <1>1, CountedHolds, PTL

-----------------------------------------------------------------------------
(* What is on record.                                                      *)

\* The request at the adapter with an action is the only one that is about to
\* store it, or the reviews of the action overlap.
LEMMA OthersReview ==
  ASSUME TypeOK, Paths, Stored, NEW r \in Requests, NEW q \in Requests \ {r},
         req[q].act = req[r].act, Running(r), req[r].pc # "route",
         req[r].op \in Kinds \cup Reviews,
         req[q].pc = "dispatch", req[q].op \in Writes \cup {"approve"}
  PROVE  Crowded(req[r].act)
<1> USE DEF Running, Kinds, Writes, Reads, Reviews
<1>1. /\ Path(r) /\ Path(q) /\ Found(r) /\ Found(q) /\ Made(r) /\ Made(q)
  BY DEF Paths, Stored
<1>2. CASE req[q].op = "approve" /\ req[r].op \in Reviews
  BY <1>2 DEF Crowded
<1>3. CASE req[q].op = "approve" /\ req[r].op \in Kinds
  BY <1>1, <1>3 DEF Path, Found, Made
<1>4. CASE req[q].op \in Writes
  BY <1>1, <1>4 DEF Path, Found, Made
<1> QED
  BY <1>2, <1>3, <1>4

\* Every step leaves what the platform performed on record.
LEMMA LoggedStep == TypeOK /\ Paths /\ Stored /\ Logged /\ [Next]_vars => Logged'
<1> SUFFICES ASSUME TypeOK, Paths, Stored, Logged, [Next]_vars PROVE Logged'
  OBVIOUS
<1> USE DEF Running, Acts, Kinds, Writes, Reads, Reviews, Ops
<1>0. \A q \in Requests : /\ req[q].act \in Requests /\ Path(q) /\ Made(q) /\ Found(q)
                          /\ Recorded(q) /\ OnRecord(q) /\ performed[q] \in Nat
  BY DEF TypeOK, Memory, Paths, Stored, Logged
<1>a. ASSUME \A q \in Requests : req'[q].op = req[q].op /\ req'[q].act = req[q].act
      PROVE  /\ \A a : Crowded(a) => Crowded(a)'
             /\ IsFiniteSet({q \in Requests : req[q].op \in Reviews})'
  <2>1. {q \in Requests : req'[q].op \in Reviews} = {q \in Requests : req[q].op \in Reviews}
    BY <1>a
  <2> QED
    BY <1>a, <2>1 DEF Crowded, Logged
<1>b. ASSUME NEW r \in Requests, Only(r), req'[r].op = req[r].op, req'[r].act = req[r].act,
             UNCHANGED <<actions, performed>>, OnRecord(r)',
             \A a \in Requests :
               approvals'[a].state # "none" => approvals[a].state # "none" \/ performed[a] = 0
      PROVE  Logged'
  <2>1. \A q \in Requests : /\ req'[q].op = req[q].op /\ req'[q].act = req[q].act
                            /\ q # r => req'[q] = req[q]
    BY <1>b DEF Only
  <2>2. /\ \A a : Crowded(a) => Crowded(a)'
        /\ IsFiniteSet({q \in Requests : req[q].op \in Reviews})'
    BY <1>a, <2>1
  <2>3. ASSUME NEW a \in Requests PROVE Recorded(a)'
    <3>1. Recorded(a) /\ performed[a] \in Nat
      BY <1>0
    <3> QED
      BY <1>b, <2>1, <2>2, <3>1 DEF Recorded
  <2>4. ASSUME NEW q \in Requests PROVE OnRecord(q)'
    <3>1. OnRecord(q)
      BY <1>0
    <3> QED
      BY <1>b, <2>1, <2>2, <3>1 DEF OnRecord
  <2> QED
    BY <2>2, <2>3, <2>4 DEF Logged
<1>c. ASSUME NEW r \in Requests, NEW state, NEW pc, Stores(r, state, pc),
             UNCHANGED <<approvals, performed>>, Running(r), req[r].pc # "route",
             req[r].op \in Kinds \cup Reviews,
             pc \in {"allow", "deny", "route"} \/ (pc = "dispatch" /\ state = "executing"
               /\ (req[r].op \in Writes \cup Reviews
                     => performed[req[r].act] = 0 \/ Crowded(req[r].act))),
             state \in {"executing", "done"} \/ Crowded(req[r].act)
               \/ performed[req[r].act] = 0 \/ req[r].op \in Reads
      PROVE  Logged'
  <2>1. \A q \in Requests : /\ req'[q].op = req[q].op /\ req'[q].act = req[q].act
                            /\ q # r => req'[q] = req[q]
    BY <1>c DEF Stores, Only, Ids
  <2>2. /\ \A a : Crowded(a) => Crowded(a)'
        /\ IsFiniteSet({q \in Requests : req[q].op \in Reviews})'
    BY <1>a, <2>1
  <2>3. /\ req'[r].pc = pc /\ actions'[req[r].act].state = state
        /\ \A a \in Requests \ {req[r].act} : actions'[a] = actions[a]
    BY <1>c DEF Stores
  <2>4. Path(r) /\ req[r].act \in Requests
    BY <1>0
  <2>5. ASSUME NEW a \in Requests PROVE Recorded(a)'
    <3>1. Recorded(a) /\ performed[a] \in Nat
      BY <1>0
    <3>2. CASE a = req[r].act
      BY <1>c, <2>1, <2>2, <2>3, <2>4, <3>1, <3>2 DEF Recorded, Path
    <3>3. CASE a # req[r].act
      BY <1>c, <2>1, <2>2, <2>3, <3>1, <3>3 DEF Recorded
    <3> QED
      BY <3>2, <3>3
  <2>6. ASSUME NEW q \in Requests PROVE OnRecord(q)'
    <3>1. OnRecord(q)
      BY <1>0
    <3>2. CASE q = r
      BY <1>c, <2>1, <2>2, <2>3, <3>2 DEF OnRecord, Unperformed
    <3>3. CASE q # r
      <4>1. ASSUME req[q].act = req[r].act, req[q].pc = "dispatch",
                   req[q].op \in Writes \cup {"approve"}
            PROVE  Crowded(req[r].act)
        BY <1>c, <3>3, <4>1, OthersReview
      <4>2. req'[q] = req[q] /\ req[q].act \in Requests
        BY <1>0, <2>1, <3>3
      <4>3. req[q].act # req[r].act => actions'[req[q].act] = actions[req[q].act]
        BY <2>3, <4>2
      <4>4. UNCHANGED performed
        BY <1>c
      <4>5. req[q].pc = "dispatch" /\ req[q].op \in Writes \cup {"approve"}
              => actions'[req[q].act].state = "executing" \/ Crowded(req[q].act)
        BY <3>1, <4>1, <4>3 DEF OnRecord
      <4> QED
        BY <2>2, <3>1, <4>2, <4>4, <4>5 DEF OnRecord
    <3> QED
      BY <3>2, <3>3
  <2> QED
    BY <2>2, <2>5, <2>6 DEF Logged
<1>d. ASSUME NEW r \in Requests, Only(r), req'[r].op = req[r].op, req'[r].act = req[r].act,
             req[r].pc = "dispatch", req'[r].pc \in {"store_done", "ended"},
             UNCHANGED <<actions, approvals>>, Counts(performed, req[r].act)
      PROVE  Logged'
  <2>1. \A q \in Requests : /\ req'[q].op = req[q].op /\ req'[q].act = req[q].act
                            /\ q # r => req'[q] = req[q]
    BY <1>d DEF Only
  <2>2. /\ \A a : Crowded(a) => Crowded(a)'
        /\ IsFiniteSet({q \in Requests : req[q].op \in Reviews})'
    BY <1>a, <2>1
  <2>3. Path(r) /\ req[r].act \in Requests /\ Made(r) /\ Found(r) /\ OnRecord(r)
    BY <1>0
  <2>4. \A a \in Requests \ {req[r].act} : performed'[a] = performed[a]
    BY <1>d DEF Counts
  <2>5. ASSUME NEW a \in Requests PROVE Recorded(a)'
    <3>1. Recorded(a)
      BY <1>0
    <3>2. CASE a = req[r].act
      <4>1. approvals[a].state # "none" => req[r].op \in Reviews
        BY <1>d, <2>3, <3>2 DEF Path, Made
      <4>2. req[a].op \in Writes => actions[a].state = "executing" \/ Crowded(a)
        BY <1>d, <2>3, <3>2 DEF Path, OnRecord
      <4> QED
        BY <1>d, <2>1, <2>2, <3>2, <4>1, <4>2 DEF Recorded
    <3>3. CASE a # req[r].act
      BY <1>d, <2>1, <2>2, <2>4, <3>1, <3>3 DEF Recorded
    <3> QED
      BY <3>2, <3>3
  <2>6. ASSUME NEW q \in Requests PROVE OnRecord(q)'
    <3>1. OnRecord(q) /\ Path(q) /\ Found(q) /\ Made(q)
      BY <1>0
    <3>2. CASE q = r
      BY <1>d, <3>2 DEF OnRecord, Unperformed
    <3>3. CASE q # r /\ req[q].act # req[r].act
      <4>1. performed'[req[q].act] = performed[req[q].act]
        BY <1>0, <2>4, <3>3
      <4> QED
        BY <1>d, <2>1, <2>2, <3>1, <3>3, <4>1 DEF OnRecord
    <3>4. CASE q # r /\ req[q].act = req[r].act
      <4>1. req[q].op \in Writes \cup Reviews /\ req[q].pc \in Unperformed => Crowded(req[q].act)
        <5>1. CASE req[q].op \in Writes
          BY <1>d, <2>3, <3>1, <3>4, <5>1 DEF Path, Found, Made, Unperformed
        <5>2. CASE req[q].op \in Reviews /\ req[r].op \in Reviews
          BY <3>4, <5>2 DEF Crowded
        <5>3. CASE req[q].op \in Reviews /\ req[r].op \notin Reviews
          BY <1>d, <2>3, <3>1, <3>4, <5>3 DEF Path, Found, Made
        <5> QED
          BY <5>1, <5>2, <5>3
      <4> QED
        BY <1>d, <2>1, <2>2, <3>1, <3>4, <4>1 DEF OnRecord, Unperformed
    <3> QED
      BY <3>2, <3>3, <3>4
  <2> QED
    BY <2>2, <2>5, <2>6 DEF Logged
<1>1. ASSUME NEW r \in Requests, Begin(r) PROVE Logged'
  <2>1. PICK op \in Ops, x \in Requests :
          (IF op \in Reviews THEN approvals[x].state # "none" ELSE x = r) /\ Starts(r, op, x)
    BY <1>1, BeginStep
  <2>2. /\ req[r].pc = "new" /\ UNCHANGED stored /\ Only(r) /\ req[r].op = "edit"
        /\ req'[r].op = op /\ req'[r].act = x /\ performed[r] = 0
        /\ req'[r].pc \notin {"dispatch"}
    BY <1>1, <1>0, <2>1, BeginStep DEF Starts, Path, Made, FirstStep
  <2>3. \A a : Crowded(a) => Crowded(a)'
    BY <2>2 DEF Crowded, Only
  <2>4. IsFiniteSet({q \in Requests : req[q].op \in Reviews})'
    <3> DEFINE S == {q \in Requests : req[q].op \in Reviews}
               T == {q \in Requests : req'[q].op \in Reviews}
    <3>1. IsFiniteSet(S) /\ S \ {r} = T \ {r}
      BY <2>2 DEF Logged, Only
    <3> HIDE DEF S, T
    <3>2. IsFiniteSet(T)
      BY <3>1, OneElement
    <3> QED
      BY <3>2 DEF T
  <2>5. ASSUME NEW a \in Requests PROVE Recorded(a)'
    <3>1. Recorded(a)
      BY <1>0
    <3> QED
      BY <2>2, <2>3, <3>1 DEF Recorded, Only, stored
  <2>6. ASSUME NEW q \in Requests PROVE OnRecord(q)'
    <3>1. OnRecord(q) /\ Recorded(x)
      BY <1>0
    <3>2. CASE q # r
      BY <2>2, <2>3, <3>1, <3>2 DEF OnRecord, Only, stored
    <3>3. CASE q = r /\ op \notin Reviews
      BY <2>1, <2>2, <3>3 DEF OnRecord, stored
    <3>4. CASE q = r /\ op \in Reviews
      <4>1. performed[x] \in Nat
        BY <1>0
      <4>2. performed[x] > 0 => Crowded(x)'
        BY <2>1, <2>2, <3>1, <3>4 DEF Recorded, Crowded, Only
      <4> QED
        BY <2>2, <3>4, <4>1, <4>2 DEF OnRecord, stored
    <3> QED
      BY <3>2, <3>3, <3>4
  <2> QED
    BY <2>3, <2>4, <2>5, <2>6 DEF Logged
<1>2. ASSUME NEW r \in Requests, ReadAccount(r) PROVE Logged'
  <2>1. /\ Only(r) /\ req'[r].op = req[r].op /\ req'[r].act = req[r].act
        /\ UNCHANGED <<actions, performed>>
    BY <1>2, ReadAccountStep DEF stored, Ids, Ended
  <2>2. OnRecord(r)'
    <3>1. \A a : Crowded(a) => Crowded(a)'
      BY <2>1 DEF Crowded, Only
    <3>2. Path(r) /\ Made(r) /\ OnRecord(r)
      BY <1>0
    <3> QED
      BY <1>2, <2>1, <3>1, <3>2, ReadAccountStep DEF Path, Made, OnRecord, Unperformed,
         stored, Ended, HasDraft, HasTarget
  <2>3. \A a \in Requests :
          approvals'[a].state # "none" => approvals[a].state # "none" \/ performed[a] = 0
    BY <1>2, <1>0, ReadAccountStep DEF Path, Found, Made, stored
  <2> QED
    BY <1>b, <2>1, <2>2, <2>3
<1>3. ASSUME NEW r \in Requests, ReadDraft(r) PROVE Logged'
  <2>1. /\ Only(r) /\ req'[r].op = req[r].op /\ req'[r].act = req[r].act
        /\ UNCHANGED <<actions, performed>>
    BY <1>3, ReadDraftStep DEF Ends, stored, Ids, Ended
  <2>2. OnRecord(r)'
    <3>1. \A a : Crowded(a) => Crowded(a)'
      BY <2>1 DEF Crowded, Only
    <3>2. Path(r) /\ Made(r) /\ OnRecord(r)
      BY <1>0
    <3> QED
      BY <1>3, <2>1, <3>1, <3>2, ReadDraftStep DEF Path, Made, OnRecord, Unperformed, Ends,
         stored, Ended
  <2>3. \A a \in Requests :
          approvals'[a].state # "none" => approvals[a].state # "none" \/ performed[a] = 0
    BY <1>3, <1>0, ReadDraftStep DEF Path, Found, Made, Ends, stored
  <2> QED
    BY <1>b, <2>1, <2>2, <2>3
<1>4. ASSUME NEW r \in Requests, Resolve(r) PROVE Logged'
  <2>1. /\ Only(r) /\ req'[r].op = req[r].op /\ req'[r].act = req[r].act
        /\ UNCHANGED <<actions, performed>>
    BY <1>4, ResolveStep DEF Moves, Ends, stored, Ids, Ended
  <2>2. OnRecord(r)'
    <3>1. \A a : Crowded(a) => Crowded(a)'
      BY <2>1 DEF Crowded, Only
    <3>2. Path(r) /\ Made(r) /\ OnRecord(r)
      BY <1>0
    <3> QED
      BY <1>4, <2>1, <3>1, <3>2, ResolveStep DEF Path, Made, OnRecord, Unperformed, Moves,
         Ends, stored, Ended
  <2>3. \A a \in Requests :
          approvals'[a].state # "none" => approvals[a].state # "none" \/ performed[a] = 0
    BY <1>4, <1>0, ResolveStep DEF Path, Found, Made, Moves, Ends, stored
  <2> QED
    BY <1>b, <2>1, <2>2, <2>3
<1>5. ASSUME NEW r \in Requests, Lookup(r) PROVE Logged'
  <2>1. /\ Only(r) /\ req'[r].op = req[r].op /\ req'[r].act = req[r].act
        /\ UNCHANGED <<actions, performed>>
    BY <1>5, LookupStep DEF Moves, Ends, stored, Ids, Ended
  <2>2. OnRecord(r)'
    <3>1. \A a : Crowded(a) => Crowded(a)'
      BY <2>1 DEF Crowded, Only
    <3>2. Path(r) /\ Made(r) /\ OnRecord(r)
      BY <1>0
    <3> QED
      BY <1>5, <2>1, <3>1, <3>2, LookupStep DEF Path, Made, OnRecord, Unperformed, Moves,
         Ends, stored, Ended
  <2>3. \A a \in Requests :
          approvals'[a].state # "none" => approvals[a].state # "none" \/ performed[a] = 0
    BY <1>5, <1>0, LookupStep DEF Path, Found, Made, Moves, Ends, stored
  <2> QED
    BY <1>b, <2>1, <2>2, <2>3
<1>6. ASSUME NEW r \in Requests, ReadApproval(r) PROVE Logged'
  <2>1. /\ Only(r) /\ req'[r].op = req[r].op /\ req'[r].act = req[r].act
        /\ UNCHANGED <<actions, performed>>
    BY <1>6, ReadApprovalStep DEF stored, Ids, Ended
  <2>2. OnRecord(r)'
    <3>1. \A a : Crowded(a) => Crowded(a)'
      BY <2>1 DEF Crowded, Only
    <3>2. Path(r) /\ Made(r) /\ OnRecord(r)
      BY <1>0
    <3> QED
      BY <1>6, <2>1, <3>1, <3>2, ReadApprovalStep DEF Path, Made, OnRecord, Unperformed,
         stored, Ended
  <2>3. \A a \in Requests :
          approvals'[a].state # "none" => approvals[a].state # "none" \/ performed[a] = 0
    BY <1>6, <1>0, ReadApprovalStep DEF Path, Found, Made, stored
  <2> QED
    BY <1>b, <2>1, <2>2, <2>3
<1>7. ASSUME NEW r \in Requests, ReadAction(r) PROVE Logged'
  <2>1. /\ Only(r) /\ req'[r].op = req[r].op /\ req'[r].act = req[r].act
        /\ UNCHANGED <<actions, performed>>
    BY <1>7, ReadActionStep DEF Ends, stored, Ids, Ended
  <2>2. OnRecord(r)'
    <3>1. \A a : Crowded(a) => Crowded(a)'
      BY <2>1 DEF Crowded, Only
    <3>2. Path(r) /\ Made(r) /\ OnRecord(r)
      BY <1>0
    <3> QED
      BY <1>7, <2>1, <3>1, <3>2, ReadActionStep DEF Path, Made, OnRecord, Unperformed, Ends,
         stored, Ended
  <2>3. \A a \in Requests :
          approvals'[a].state # "none" => approvals[a].state # "none" \/ performed[a] = 0
    BY <1>7, <1>0, ReadActionStep DEF Path, Found, Made, Ends, stored
  <2> QED
    BY <1>b, <2>1, <2>2, <2>3
<1>8. ASSUME NEW r \in Requests, Refuse(r) PROVE Logged'
  <2>1. Path(r) /\ Made(r) /\ OnRecord(r) /\ performed[r] \in Nat
    BY <1>0
  <2> QED
    BY <1>8, <1>c, <2>1, RefuseStep DEF Path, Made, OnRecord, Unperformed
<1>9. ASSUME NEW r \in Requests, Route(r) PROVE Logged'
  <2>1. /\ Only(r) /\ req'[r].op = req[r].op /\ req'[r].act = req[r].act
        /\ UNCHANGED <<actions, performed>>
    BY <1>9, RouteStep DEF Binds, Passes, Ids, Ended
  <2>2. OnRecord(r)'
    <3>1. \A a : Crowded(a) => Crowded(a)'
      BY <2>1 DEF Crowded, Only
    <3>2. Path(r) /\ Made(r) /\ OnRecord(r)
      BY <1>0
    <3> QED
      BY <1>9, <2>1, <3>1, <3>2, RouteStep DEF Path, Made, OnRecord, Unperformed, Binds,
         Passes, Ended
  <2>3. \A a \in Requests :
          approvals'[a].state # "none" => approvals[a].state # "none" \/ performed[a] = 0
    BY <1>9, <1>0, RouteStep DEF Path, Found, Made, Binds, Passes
  <2> QED
    BY <1>b, <2>1, <2>2, <2>3
<1>10. ASSUME NEW r \in Requests, StoreRouted(r) PROVE Logged'
  <2>1. Path(r) /\ Made(r) /\ OnRecord(r) /\ performed[r] \in Nat
    BY <1>0
  <2> QED
    BY <1>10, <1>c, <2>1, StoreRoutedStep DEF Path, Made, OnRecord, Unperformed
<1>11. ASSUME NEW r \in Requests, StartRead(r) PROVE Logged'
  <2>1. /\ Only(r) /\ req'[r].op = req[r].op /\ req'[r].act = req[r].act
        /\ UNCHANGED <<actions, performed>>
    BY <1>11, StartReadStep DEF Moves, stored, Ids, Ended
  <2>2. OnRecord(r)'
    <3>1. \A a : Crowded(a) => Crowded(a)'
      BY <2>1 DEF Crowded, Only
    <3>2. Path(r) /\ Made(r) /\ OnRecord(r)
      BY <1>0
    <3> QED
      BY <1>11, <2>1, <3>1, <3>2, StartReadStep DEF Path, Made, OnRecord, Unperformed, Moves,
         stored, Ended
  <2>3. \A a \in Requests :
          approvals'[a].state # "none" => approvals[a].state # "none" \/ performed[a] = 0
    BY <1>11, <1>0, StartReadStep DEF Path, Found, Made, Moves, stored
  <2> QED
    BY <1>b, <2>1, <2>2, <2>3
<1>12. ASSUME NEW r \in Requests, StartExecution(r) PROVE Logged'
  <2>1. Path(r) /\ Made(r) /\ OnRecord(r) /\ performed[r] \in Nat
    BY <1>0
  <2> QED
    BY <1>12, <1>c, <2>1, StartExecutionStep DEF Path, Made, OnRecord, Unperformed
<1>13. ASSUME NEW r \in Requests, DispatchOk(r) PROVE Logged'
  BY <1>13, <1>d, DispatchOkStep DEF Passes, Ids
<1>14. ASSUME NEW r \in Requests, DispatchFails(r) PROVE Logged'
  <2>1. /\ Only(r) /\ req'[r].op = req[r].op /\ req'[r].act = req[r].act
        /\ UNCHANGED <<actions, performed>>
    BY <1>14, DispatchFailsStep DEF Passes, stored, Ids, Ended
  <2>2. OnRecord(r)'
    <3>1. \A a : Crowded(a) => Crowded(a)'
      BY <2>1 DEF Crowded, Only
    <3>2. Path(r) /\ Made(r) /\ OnRecord(r)
      BY <1>0
    <3> QED
      BY <1>14, <2>1, <3>1, <3>2, DispatchFailsStep DEF Path, Made, OnRecord, Unperformed,
         Passes, stored, Ended
  <2>3. \A a \in Requests :
          approvals'[a].state # "none" => approvals[a].state # "none" \/ performed[a] = 0
    BY <1>14, <1>0, DispatchFailsStep DEF Path, Found, Made, Passes, stored
  <2> QED
    BY <1>b, <2>1, <2>2, <2>3
<1>15. ASSUME NEW r \in Requests, DispatchRaises(r) PROVE Logged'
  <2>1. /\ Only(r) /\ req'[r].op = req[r].op /\ req'[r].act = req[r].act
        /\ req[r].pc = "dispatch" /\ req'[r].pc = "ended" /\ UNCHANGED <<actions, approvals>>
    BY <1>15, DispatchRaisesStep DEF Ends, Ended
  <2>2. CASE UNCHANGED performed
    BY <1>b, <2>1, <2>2 DEF OnRecord, Unperformed
  <2>3. CASE Counts(performed, req[r].act)
    BY <1>d, <2>1, <2>3
  <2> QED
    BY <1>15, <2>2, <2>3, DispatchRaisesStep
<1>16. ASSUME NEW r \in Requests, StoreDone(r) PROVE Logged'
  <2>1. Path(r) /\ Made(r) /\ OnRecord(r) /\ performed[r] \in Nat
    BY <1>0
  <2> QED
    BY <1>16, <1>c, <2>1, StoreDoneStep DEF Path, Made, OnRecord, Unperformed
<1>17. ASSUME NEW r \in Requests, StoreFailed(r) PROVE Logged'
  <2>1. Path(r) /\ Made(r) /\ OnRecord(r) /\ performed[r] \in Nat
    BY <1>0
  <2> QED
    BY <1>17, <1>c, <2>1, StoreFailedStep DEF Path, Made, OnRecord, Unperformed
<1>18. ASSUME NEW r \in Requests, Record(r) PROVE Logged'
  <2>1. /\ Only(r) /\ req'[r].op = req[r].op /\ req'[r].act = req[r].act
        /\ UNCHANGED <<actions, performed>>
    BY <1>18, RecordStep DEF Ids, Ended
  <2>2. OnRecord(r)'
    <3>1. \A a : Crowded(a) => Crowded(a)'
      BY <2>1 DEF Crowded, Only
    <3>2. Path(r) /\ Made(r) /\ OnRecord(r)
      BY <1>0
    <3> QED
      BY <1>18, <2>1, <3>1, <3>2, RecordStep DEF Path, Made, OnRecord, Unperformed, Ended
  <2>3. \A a \in Requests :
          approvals'[a].state # "none" => approvals[a].state # "none" \/ performed[a] = 0
    BY <1>18, <1>0, RecordStep DEF Path, Found, Made
  <2> QED
    BY <1>b, <2>1, <2>2, <2>3
<1>19. ASSUME NEW r \in Requests, RequestChanges(r) PROVE Logged'
  <2>1. /\ Only(r) /\ req'[r].op = req[r].op /\ req'[r].act = req[r].act
        /\ UNCHANGED <<actions, performed>>
    BY <1>19, RequestChangesStep DEF Reviewed, Ends, Ids, Ended
  <2>2. OnRecord(r)'
    <3>1. \A a : Crowded(a) => Crowded(a)'
      BY <2>1 DEF Crowded, Only
    <3>2. Path(r) /\ Made(r) /\ OnRecord(r)
      BY <1>0
    <3> QED
      BY <1>19, <2>1, <3>1, <3>2, RequestChangesStep DEF Path, Made, OnRecord, Unperformed,
         Reviewed, Ends, Ended
  <2>3. \A a \in Requests :
          approvals'[a].state # "none" => approvals[a].state # "none" \/ performed[a] = 0
    BY <1>19, <1>0, RequestChangesStep DEF Path, Found, Made, Reviewed, Ends
  <2> QED
    BY <1>b, <2>1, <2>2, <2>3
<1>20. ASSUME NEW r \in Requests, Reject(r) PROVE Logged'
  <2>1. /\ Only(r) /\ req'[r].op = req[r].op /\ req'[r].act = req[r].act
        /\ UNCHANGED <<actions, performed>>
    BY <1>20, RejectStep DEF Reviewed, Passes, Ids, Ended
  <2>2. OnRecord(r)'
    <3>1. \A a : Crowded(a) => Crowded(a)'
      BY <2>1 DEF Crowded, Only
    <3>2. Path(r) /\ Made(r) /\ OnRecord(r)
      BY <1>0
    <3> QED
      BY <1>20, <2>1, <3>1, <3>2, RejectStep DEF Path, Made, OnRecord, Unperformed, Reviewed,
         Passes, Ended
  <2>3. \A a \in Requests :
          approvals'[a].state # "none" => approvals[a].state # "none" \/ performed[a] = 0
    BY <1>20, <1>0, RejectStep DEF Path, Found, Made, Reviewed, Passes
  <2> QED
    BY <1>b, <2>1, <2>2, <2>3
<1>21. ASSUME NEW r \in Requests, Approve(r) PROVE Logged'
  <2>1. /\ Only(r) /\ req'[r].op = req[r].op /\ req'[r].act = req[r].act
        /\ UNCHANGED <<actions, performed>>
    BY <1>21, ApproveStep DEF Moves, stored, Ids, Ended
  <2>2. OnRecord(r)'
    <3>1. \A a : Crowded(a) => Crowded(a)'
      BY <2>1 DEF Crowded, Only
    <3>2. Path(r) /\ Made(r) /\ OnRecord(r)
      BY <1>0
    <3> QED
      BY <1>21, <2>1, <3>1, <3>2, ApproveStep DEF Path, Made, OnRecord, Unperformed, Moves,
         stored, Ended
  <2>3. \A a \in Requests :
          approvals'[a].state # "none" => approvals[a].state # "none" \/ performed[a] = 0
    BY <1>21, <1>0, ApproveStep DEF Path, Found, Made, Moves, stored
  <2> QED
    BY <1>b, <2>1, <2>2, <2>3
<1>22. ASSUME NEW r \in Requests, RefuseApproved(r) PROVE Logged'
  <2>1. /\ Only(r) /\ req'[r].op = req[r].op /\ req'[r].act = req[r].act
        /\ UNCHANGED <<actions, performed>>
    BY <1>22, RefuseApprovedStep DEF Reviewed, Passes, Ids, Ended
  <2>2. OnRecord(r)'
    <3>1. \A a : Crowded(a) => Crowded(a)'
      BY <2>1 DEF Crowded, Only
    <3>2. Path(r) /\ Made(r) /\ OnRecord(r)
      BY <1>0
    <3> QED
      BY <1>22, <2>1, <3>1, <3>2, RefuseApprovedStep DEF Path, Made, OnRecord, Unperformed,
         Reviewed, Passes, Ended
  <2>3. \A a \in Requests :
          approvals'[a].state # "none" => approvals[a].state # "none" \/ performed[a] = 0
    BY <1>22, <1>0, RefuseApprovedStep DEF Path, Found, Made, Reviewed, Passes
  <2> QED
    BY <1>b, <2>1, <2>2, <2>3
<1>23. ASSUME NEW r \in Requests, Grant(r) PROVE Logged'
  <2>1. /\ Only(r) /\ req'[r].op = req[r].op /\ req'[r].act = req[r].act
        /\ UNCHANGED <<actions, performed>>
    BY <1>23, GrantStep DEF Reviewed, Moves, Counts, Ids, Ended
  <2>2. OnRecord(r)'
    <3>1. \A a : Crowded(a) => Crowded(a)'
      BY <2>1 DEF Crowded, Only
    <3>2. Path(r) /\ Made(r) /\ OnRecord(r)
      BY <1>0
    <3> QED
      BY <1>23, <2>1, <3>1, <3>2, GrantStep DEF Path, Made, OnRecord, Unperformed, Reviewed,
         Moves, Counts, Ended
  <2>3. \A a \in Requests :
          approvals'[a].state # "none" => approvals[a].state # "none" \/ performed[a] = 0
    BY <1>23, <1>0, GrantStep DEF Path, Found, Made, Reviewed, Moves, Counts
  <2> QED
    BY <1>b, <2>1, <2>2, <2>3
<1>24. ASSUME NEW r \in Requests, StoreRefused(r) PROVE Logged'
  <2>1. Path(r) /\ Made(r) /\ OnRecord(r) /\ performed[r] \in Nat
    BY <1>0
  <2> QED
    BY <1>24, <1>c, <2>1, StoreRefusedStep DEF Path, Made, OnRecord, Unperformed
<1>25. ASSUME NEW r \in Requests, Reopen(r) PROVE Logged'
  <2>1. /\ Only(r) /\ req'[r].op = req[r].op /\ req'[r].act = req[r].act
        /\ UNCHANGED <<actions, performed>>
    BY <1>25, ReopenStep DEF Binds, Passes, Ids, Ended
  <2>2. OnRecord(r)'
    <3>1. \A a : Crowded(a) => Crowded(a)'
      BY <2>1 DEF Crowded, Only
    <3>2. Path(r) /\ Made(r) /\ OnRecord(r)
      BY <1>0
    <3> QED
      BY <1>25, <2>1, <3>1, <3>2, ReopenStep DEF Path, Made, OnRecord, Unperformed, Binds,
         Passes, Ended
  <2>3. \A a \in Requests :
          approvals'[a].state # "none" => approvals[a].state # "none" \/ performed[a] = 0
    BY <1>25, <1>0, ReopenStep DEF Path, Found, Made, Binds, Passes
  <2> QED
    BY <1>b, <2>1, <2>2, <2>3
<1>26. ASSUME NEW r \in Requests, StoreReopened(r) PROVE Logged'
  <2>1. Path(r) /\ Made(r) /\ OnRecord(r) /\ performed[r] \in Nat
    BY <1>0
  <2> QED
    BY <1>26, <1>c, <2>1, StoreReopenedStep DEF Path, Made, OnRecord, Unperformed
<1>27. ASSUME NEW r \in Requests, CreateDraft(r) PROVE Logged'
  <2>1. /\ Only(r) /\ req'[r].op = req[r].op /\ req'[r].act = req[r].act
        /\ UNCHANGED <<actions, performed>>
    BY <1>27, CreateDraftStep DEF Ends, Ids, Ended
  <2>2. OnRecord(r)'
    <3>1. \A a : Crowded(a) => Crowded(a)'
      BY <2>1 DEF Crowded, Only
    <3>2. Path(r) /\ Made(r) /\ OnRecord(r)
      BY <1>0
    <3> QED
      BY <1>27, <2>1, <3>1, <3>2, CreateDraftStep DEF Path, Made, OnRecord, Unperformed, Ends,
         Ended
  <2>3. \A a \in Requests :
          approvals'[a].state # "none" => approvals[a].state # "none" \/ performed[a] = 0
    BY <1>27, <1>0, CreateDraftStep DEF Path, Found, Made, Ends
  <2> QED
    BY <1>b, <2>1, <2>2, <2>3
<1>28. ASSUME NEW r \in Requests, WriteDraft(r) PROVE Logged'
  <2>1. /\ Only(r) /\ req'[r].op = req[r].op /\ req'[r].act = req[r].act
        /\ UNCHANGED <<actions, performed>>
    BY <1>28, WriteDraftStep DEF Ends, Ids, Ended
  <2>2. OnRecord(r)'
    <3>1. \A a : Crowded(a) => Crowded(a)'
      BY <2>1 DEF Crowded, Only
    <3>2. Path(r) /\ Made(r) /\ OnRecord(r)
      BY <1>0
    <3> QED
      BY <1>28, <2>1, <3>1, <3>2, WriteDraftStep DEF Path, Made, OnRecord, Unperformed, Ends,
         Ended
  <2>3. \A a \in Requests :
          approvals'[a].state # "none" => approvals[a].state # "none" \/ performed[a] = 0
    BY <1>28, <1>0, WriteDraftStep DEF Path, Found, Made, Ends
  <2> QED
    BY <1>b, <2>1, <2>2, <2>3
<1>e. ASSUME UNCHANGED <<actions, approvals, performed>>,
             \A q \in Requests : /\ req'[q].op = req[q].op /\ req'[q].act = req[q].act
                                 /\ req'[q].pc \in {req[q].pc, "ended"}
      PROVE  Logged'
  <2>1. /\ \A a : Crowded(a) => Crowded(a)'
        /\ IsFiniteSet({q \in Requests : req[q].op \in Reviews})'
    BY <1>a, <1>e
  <2>2. ASSUME NEW a \in Requests PROVE Recorded(a)'
    <3>1. Recorded(a)
      BY <1>0
    <3> QED
      BY <1>e, <2>1, <3>1 DEF Recorded
  <2>3. ASSUME NEW q \in Requests PROVE OnRecord(q)'
    <3>1. OnRecord(q)
      BY <1>0
    <3> QED
      BY <1>e, <2>1, <3>1 DEF OnRecord, Unperformed
  <2> QED
    BY <2>1, <2>2, <2>3 DEF Logged
<1>29. ASSUME NEW p, Crash(p) PROVE Logged'
  <2>1. /\ \A q \in Requests : /\ req'[q].op = req[q].op /\ req'[q].act = req[q].act
                               /\ req'[q].pc \in {req[q].pc, "ended"}
        /\ UNCHANGED <<actions, approvals, performed>>
    BY <1>29, CrashStep DEF Ended, stored
  <2> QED
    BY <1>e, <2>1
<1>30. CASE Tick \/ CheckIn \/ Revoke
  <2>1. /\ \A q \in Requests : /\ req'[q].op = req[q].op /\ req'[q].act = req[q].act
                               /\ req'[q].pc \in {req[q].pc, "ended"}
        /\ UNCHANGED <<actions, approvals, performed>>
    BY <1>30, AccountStep
  <2> QED
    BY <1>e, <2>1
<1>31. CASE Reactivate
  <2>1. /\ \A q \in Requests : /\ req'[q].op = req[q].op /\ req'[q].act = req[q].act
                               /\ req'[q].pc \in {req[q].pc, "ended"}
        /\ UNCHANGED <<actions, approvals, performed>>
    BY <1>31, ReactivateStep DEF Alike, Ids, Around
  <2> QED
    BY <1>e, <2>1
<1>32. ASSUME NEW a \in Agents, CheckOut(a) PROVE Logged'
  <2>1. /\ \A q \in Requests : /\ req'[q].op = req[q].op /\ req'[q].act = req[q].act
                               /\ req'[q].pc \in {req[q].pc, "ended"}
        /\ UNCHANGED <<actions, approvals, performed>>
    BY <1>32, CheckOutStep DEF Alike, Ids, Around
  <2> QED
    BY <1>e, <2>1
<1>33. CASE UNCHANGED vars
  <2>1. /\ \A q \in Requests : /\ req'[q].op = req[q].op /\ req'[q].act = req[q].act
                               /\ req'[q].pc \in {req[q].pc, "ended"}
        /\ UNCHANGED <<actions, approvals, performed>>
    BY <1>33 DEF vars
  <2> QED
    BY <1>e, <2>1
<1> QED
  BY <1>1, <1>2, <1>3, <1>4, <1>5, <1>6, <1>7, <1>8, <1>9, <1>10, <1>11, <1>12, <1>13, <1>14,
     <1>15, <1>16, <1>17, <1>18, <1>19, <1>20, <1>21, <1>22, <1>23, <1>24, <1>25, <1>26, <1>27,
     <1>28, <1>29, <1>30, <1>31, <1>32, <1>33 DEF Next, Serve

\* What the platform performed is on record throughout.
LEMMA LoggedHolds == Spec => [](TypeOK /\ Paths /\ Stored /\ Logged)
<1>1. Init => Logged
  <2> SUFFICES ASSUME Init PROVE Logged
    OBVIOUS
  <2>1. \A r \in Requests : req[r].pc \in {"new", "ended"} /\ req[r].op = "edit"
    BY InitReq
  <2>2. \A r \in Requests : performed[r] = 0
    BY DEF Init
  <2>3. {r \in Requests : req[r].op \in Reviews} = {}
    BY <2>1 DEF Reviews
  <2>4. IsFiniteSet({r \in Requests : req[r].op \in Reviews})
    BY <2>3, FS_EmptySet
  <2> QED
    BY <2>1, <2>2, <2>4 DEF Logged, Recorded, OnRecord, Writes, Reviews
<1> QED
  BY <1>1, StoredHolds, LoggedStep, PTL DEF Spec

\* What the platform carried out is on record, through a crash at any step,
\* unless several reviews of the action overwrote each other.
THEOREM OnRecordAlways == Spec => []PerformedIsOnRecord
<1>1. TypeOK /\ Paths /\ Logged => PerformedIsOnRecord
  <2> SUFFICES ASSUME TypeOK, Paths, Logged, NEW a \in Requests, performed[a] > 0,
                      req[a].op \in Writes, Cardinality(ReviewsOf(a)) <= 1
               PROVE  actions[a].state \in {"executing", "done"}
    BY DEF PerformedIsOnRecord
  <2>1. ASSUME Crowded(a) PROVE FALSE
    <3>1. PICK r \in Requests, q \in Requests :
            /\ r # q /\ req[r].act = a /\ req[q].act = a
            /\ req[r].op \in Reviews /\ req[q].op \in Reviews
      BY <2>1 DEF Crowded
    <3>2. {r} \cup {q} \subseteq ReviewsOf(a)
      BY <3>1 DEF ReviewsOf, Paths, Path, Reviews
    <3>3. ReviewsOf(a) \subseteq {x \in Requests : req[x].op \in Reviews}
      BY DEF ReviewsOf
    <3>4. IsFiniteSet(ReviewsOf(a))
      BY <3>3, FS_Subset DEF Logged
    <3>5. IsFiniteSet({r}) /\ Cardinality({r}) = 1 /\ q \notin {r}
      BY <3>1, FS_Singleton
    <3>6. Cardinality({r} \cup {q}) = Cardinality({r}) + 1
      BY <3>5, FS_AddElement
    <3>7. /\ Cardinality({r} \cup {q}) <= Cardinality(ReviewsOf(a))
          /\ Cardinality(ReviewsOf(a)) \in Nat
      BY <3>2, <3>4, FS_Subset, FS_CardinalityType
    <3> QED
      BY <3>5, <3>6, <3>7
  <2> QED
    BY <2>1 DEF Logged, Recorded
<1> QED
  BY <1>1, LoggedHolds, PTL

-----------------------------------------------------------------------------
(* The texts of the draft.                                                 *)

\* Copies are copied, forgotten, or overtaken by a newer draft; what approvals
\* are bound to stays before their reviewers.
LEMMA AgreedStep ==
  ASSUME TypeOK, TypeOK', Agreed, Copies' \subseteq Copies \cup {NoDraft, draft'},
         draft' = draft \/ draft'.rev > draft.rev,
         \A a \in Requests : reviewed[a] \subseteq reviewed'[a]
  PROVE  /\ Agreed'
         /\ \A a \in Requests, rev \in Nat : BoundTo(rev, a) => BoundTo(rev, a)'
<1>1. /\ \A c \in Copies : c \in Drafts /\ c.rev \in Nat
      /\ draft.rev \in Nat /\ draft'.rev \in Nat /\ draft \in Copies
  BY DEF TypeOK, Memory, Drafts, Copies
<1>2. NoDraft.rev = 0
  BY BlankTypes
<1>3. /\ draft.rev <= draft'.rev /\ (draft'.rev = 0 => draft' = NoDraft)
      /\ draft'.rev = draft.rev => draft' = draft
  BY <1>1 DEF Agreed
<1>4. ASSUME NEW c \in Copies'
      PROVE  c.rev = 0 \/ c \in Copies \/ (c = draft' /\ draft'.rev > draft.rev)
  BY <1>1, <1>2
<1>5. ASSUME NEW c \in Copies' PROVE c.rev <= draft'.rev
  BY <1>1, <1>3, <1>4, <1>5 DEF Agreed
<1>6. ASSUME NEW c \in Copies', NEW d \in Copies', c.rev = d.rev, c.rev # 0 PROVE c.text = d.text
  <2>1. c \in Copies \/ (c = draft' /\ draft'.rev > draft.rev)
    BY <1>4, <1>6
  <2>2. d \in Copies \/ (d = draft' /\ draft'.rev > draft.rev)
    BY <1>4, <1>6
  <2> QED
    BY <1>1, <1>6, <2>1, <2>2 DEF Agreed
<1>7. Agreed'
  BY <1>3, <1>5, <1>6 DEF Agreed
<1>8. ASSUME NEW a \in Requests, NEW rev \in Nat, BoundTo(rev, a) PROVE BoundTo(rev, a)'
  <2>1. rev <= draft.rev /\ rev <= draft'.rev
    BY <1>1, <1>3, <1>8 DEF BoundTo
  <2>2. ASSUME NEW c \in Copies', c.rev = rev, rev # 0 PROVE c.text \in reviewed'[a]
    <3>1. c \in Copies
      BY <1>1, <1>4, <2>1, <2>2
    <3> QED
      BY <1>8, <2>2, <3>1 DEF BoundTo
  <2> QED
    BY <2>1, <2>2 DEF BoundTo
<1> QED
  BY <1>7, <1>8

\* Every step leaves the approvals bound to texts that were reviewed, if one
\* process serves all the edits.
LEMMA TextStep ==
  OneEditor /\ TypeOK /\ TypeOK' /\ Paths /\ Stored /\ Texts /\ [Next]_vars => Texts'
<1> SUFFICES ASSUME OneEditor, TypeOK, TypeOK', Paths, Stored, Texts, [Next]_vars PROVE Texts'
  OBVIOUS
<1> USE DEF Running, Acts, Kinds, Writes, Reads, Reviews, Ops, HasDraft
<1>0. \A q \in Requests :
        /\ req[q].act \in Requests /\ req[q].draft \in Drafts /\ req[q].draft.rev \in Nat
        /\ req[q].approval.pinned \in Nat /\ approvals[q].pinned \in Nat
        /\ Path(q) /\ Made(q) /\ Found(q) /\ Pinned(q) /\ Reading(q) /\ Reviewing(q)
  BY DEF TypeOK, Memory, Approvals, Drafts, Paths, Stored, Texts
<1>00. /\ NoDraft.rev = 0 /\ NoApproval.pinned = 0 /\ Agreed /\ draft.rev \in Nat
       /\ \A q \in Requests : req[q].draft \in Copies
  BY BlankTypes DEF NoApproval, Texts, TypeOK, Drafts, Copies
<1>000. \A a \in Requests : BoundTo(0, a)
  BY <1>00 DEF BoundTo
<1>a. ASSUME NEW r \in Requests, Only(r), UNCHANGED <<draft, mix>>, req'[r].op = req[r].op,
             req'[r].draft \in {req[r].draft, NoDraft, draft},
             \A a \in Requests : reviewed[a] \subseteq reviewed'[a]
      PROVE  /\ Agreed'
             /\ \A a \in Requests, rev \in Nat : BoundTo(rev, a) => BoundTo(rev, a)'
             /\ \A q \in Requests \ {r} : Reading(q)' /\ Reviewing(q)'
             /\ \A a \in Requests : approvals'[a] = approvals[a] => Pinned(a)'
  <2>1. \A q \in Requests : req'[q].op = req[q].op /\ (q # r => req'[q] = req[q])
    BY <1>a DEF Only
  <2>2. Copies' \subseteq Copies \cup {NoDraft, draft'}
    BY <1>a, <2>1 DEF Copies
  <2>3. Agreed' /\ \A a \in Requests, rev \in Nat : BoundTo(rev, a) => BoundTo(rev, a)'
    BY <1>a, <1>00, <2>2, AgreedStep
  <2>4. ASSUME NEW q \in Requests \ {r} PROVE Reading(q)'
    <3>1. Reading(q)
      BY <1>0
    <3> QED
      BY <1>a, <2>1, <3>1 DEF Reading, HasRead
  <2>5. ASSUME NEW q \in Requests \ {r} PROVE Reviewing(q)'
    <3>1. Reviewing(q) /\ req[q].act \in Requests /\ req[q].approval.pinned \in Nat
      BY <1>0
    <3>2. req'[q] = req[q] /\ req'[req[q].act].op = req[req[q].act].op
      BY <2>1, <3>1
    <3>3. Running(q) => BoundTo(req[q].approval.pinned, req[q].act)'
      BY <2>3, <3>1, <3>2 DEF Reviewing
    <3> QED
      BY <1>a, <3>1, <3>2, <3>3 DEF Reviewing
  <2>6. ASSUME NEW a \in Requests, approvals'[a] = approvals[a] PROVE Pinned(a)'
    <3>1. Pinned(a) /\ approvals[a].pinned \in Nat
      BY <1>0
    <3> QED
      BY <2>1, <2>3, <2>6, <3>1 DEF Pinned
  <2> QED
    BY <2>3, <2>4, <2>5, <2>6
<1>b. ASSUME NEW r \in Requests, Only(r), req'[r].op = req[r].op, Reading(r)', Reviewing(r)',
             UNCHANGED <<draft, mix, approvals, reviewed>>,
             req'[r].draft \in {req[r].draft, NoDraft, draft}
      PROVE  Texts'
  BY <1>a, <1>b DEF Texts
<1>c. ASSUME NEW r \in Requests, NEW how, Ended(r, how) PROVE Reading(r)' /\ Reviewing(r)'
  BY <1>c, <1>00 DEF Ended, Passed, Reading, HasRead, Reviewing
<1>d. ASSUME NEW r \in Requests, NEW pc, Stores(r, "executing", pc), pc = "dispatch",
             req[r].pc \in {"evaluate", "execute"}, UNCHANGED <<draft, mix, approvals, reviewed>>
      PROVE  Texts'
  <2>1. /\ Only(r) /\ Ids(r) /\ req'[r].pc = "dispatch" /\ req'[r].draft = req[r].draft
        /\ req'[r].approval = NoApproval
    BY <1>d DEF Stores
  <2>2. Reading(r)'
    BY <1>0, <1>d, <2>1 DEF Reading, HasRead, Ids
  <2>3. \A a \in Requests : BoundTo(0, a)'
    BY <1>000, <1>a, <1>d, <2>1 DEF Ids
  <2>4. Reviewing(r)'
    <3>1. BoundTo(0, req[r].act)'
      BY <1>0, <2>1, <2>3 DEF Ids
    <3> QED
      BY <1>0, <1>00, <1>d, <2>1, <3>1 DEF Reviewing, Ids, Path
  <2> QED
    BY <1>b, <1>d, <2>1, <2>2, <2>4 DEF Ids
<1>e. ASSUME NEW r \in Requests, NEW state, NEW pc, Stores(r, state, pc), state # "executing",
             pc \in {"allow", "deny", "route"}, UNCHANGED <<draft, mix, approvals, reviewed>>
      PROVE  Texts'
  <2>1. /\ Only(r) /\ Ids(r) /\ req'[r].pc = pc /\ req'[r].draft = NoDraft
        /\ req'[r].approval = NoApproval
    BY <1>e DEF Stores, Passed
  <2>2. Reading(r)'
    BY <1>00, <1>e, <2>1 DEF Reading, HasRead
  <2>3. \A a \in Requests : BoundTo(0, a)'
    BY <1>000, <1>a, <1>e, <2>1 DEF Ids
  <2>4. Reviewing(r)'
    <3>1. BoundTo(0, req[r].act)'
      BY <1>0, <2>1, <2>3 DEF Ids
    <3> QED
      BY <1>00, <1>e, <2>1, <3>1 DEF Reviewing, Ids
  <2> QED
    BY <1>b, <1>e, <2>1, <2>2, <2>4 DEF Ids
<1>f. ASSUME NEW r \in Requests, NEW pc, Passes(r, pc), Running(r), UNCHANGED <<draft, mix>>,
             \A a \in Requests : reviewed[a] \subseteq reviewed'[a],
             pc \in {"store_done", "store_failed", "store_refused", "store_routed",
                     "store_reopened"}
      PROVE  Reading(r)' /\ Reviewing(r)'
  <2>1. /\ Only(r) /\ Ids(r) /\ req'[r].pc = pc /\ req'[r].draft = NoDraft
        /\ req'[r].approval = req[r].approval
    BY <1>f DEF Passes, Passed
  <2>2. Reading(r)'
    BY <1>00, <1>f, <2>1 DEF Reading, HasRead
  <2>3. BoundTo(req[r].approval.pinned, req[r].act)'
    BY <1>0, <1>a, <1>f, <2>1 DEF Ids, Reviewing
  <2>4. Reviewing(r)'
    BY <1>f, <2>1, <2>3 DEF Reviewing, Ids
  <2> QED
    BY <2>2, <2>4
<1>g. ASSUME NEW r \in Requests, NEW state, Reviewed(r, state), Only(r), req'[r].op = req[r].op,
             Reading(r)', Reviewing(r)', UNCHANGED <<draft, mix, reviewed>>,
             req'[r].draft \in {req[r].draft, NoDraft},
             req[r].pc \in {"decide", "check"}, req[r].op \in Reviews
      PROVE  Texts'
  <2>1. /\ Agreed' /\ \A a \in Requests, rev \in Nat : BoundTo(rev, a) => BoundTo(rev, a)'
        /\ \A q \in Requests \ {r} : Reading(q)' /\ Reviewing(q)'
        /\ \A a \in Requests : approvals'[a] = approvals[a] => Pinned(a)'
    BY <1>a, <1>g
  <2>2. ASSUME NEW a \in Requests PROVE Pinned(a)'
    <3>1. CASE a = req[r].act
      <4>1. approvals'[a].pinned = req[r].approval.pinned
        BY <1>g, <3>1 DEF Reviewed
      <4>2. BoundTo(approvals[a].pinned, a)'
        BY <1>0, <1>g, <2>1, <3>1, <4>1 DEF Reviewing
      <4>3. HasDraft(req'[a].op) => req[r].approval.pinned # 0
        BY <1>0, <1>g, <3>1 DEF Reviewing, Only
      <4> QED
        BY <4>1, <4>2, <4>3 DEF Pinned
    <3>2. CASE a # req[r].act
      BY <1>g, <2>1, <3>2 DEF Reviewed
    <3> QED
      BY <3>1, <3>2
  <2> QED
    BY <1>g, <2>1, <2>2 DEF Texts
<1>h. ASSUME NEW r \in Requests, NEW pc, Binds(r, pc), pc \in {"store_routed", "store_reopened"},
             Running(r), req[r].pc \notin {"approval", "action"}, req[r].op # "edit",
             HasDraft(req[req[r].act].op) => req[r].draft.rev # 0
      PROVE  Texts'
  <2>1. /\ Passes(r, pc) /\ UNCHANGED <<draft, mix>>
        /\ \A a \in Requests : reviewed[a] \subseteq reviewed'[a]
    BY <1>h DEF Binds
  <2>2. Only(r) /\ req'[r].op = req[r].op /\ req'[r].draft = NoDraft
    BY <2>1 DEF Passes, Passed, Ids
  <2>3. Reading(r)' /\ Reviewing(r)'
    BY <1>f, <1>h, <2>1
  <2>4. /\ Agreed' /\ \A a \in Requests, rev \in Nat : BoundTo(rev, a) => BoundTo(rev, a)'
        /\ \A q \in Requests \ {r} : Reading(q)' /\ Reviewing(q)'
        /\ \A a \in Requests : approvals'[a] = approvals[a] => Pinned(a)'
    BY <1>a, <2>1, <2>2
  <2>5. ASSUME NEW a \in Requests PROVE Pinned(a)'
    <3>1. CASE a = req[r].act
      <4>1. approvals'[a].pinned = req[r].draft.rev
        BY <1>h, <3>1 DEF Binds
      <4>2. req[r].draft.rev # 0 => req[r].draft.text \in reviewed'[a]
        BY <1>0, <1>h, <3>1 DEF Reading, Binds
      <4>3. req[r].draft.rev <= draft.rev
        BY <1>00 DEF Agreed
      <4>4. ASSUME NEW c \in Copies', c.rev = req[r].draft.rev, c.rev # 0
            PROVE  c.text \in reviewed'[a]
        <5>1. c \in Copies
          BY <1>00, <2>1, <2>2, <4>4 DEF Copies, Only
        <5>2. c.text = req[r].draft.text
          BY <1>00, <4>4, <5>1 DEF Agreed
        <5> QED
          BY <4>2, <4>4, <5>2
      <4>5. BoundTo(approvals[a].pinned, a)'
        BY <2>1, <4>1, <4>3, <4>4 DEF BoundTo
      <4>6. HasDraft(req'[a].op) => req[r].draft.rev # 0
        BY <1>h, <2>2, <3>1 DEF Only
      <4> QED
        BY <4>1, <4>5, <4>6 DEF Pinned
    <3>2. CASE a # req[r].act
      BY <1>h, <2>4, <3>2 DEF Binds
    <3> QED
      BY <3>1, <3>2
  <2> QED
    BY <2>3, <2>4, <2>5 DEF Texts
<1>i. ASSUME NEW r \in Requests, Ends(r, "no"), req[r].op # "edit" \/ MayRun(r),
             UNCHANGED <<mix, approvals, reviewed>>, draft' # draft => draft'.rev > draft.rev,
             \A q \in Requests \ {r} :
               draft' # draft => ~(req[q].op = "edit" /\ req[q].pc = "write_draft")
      PROVE  Texts'
  <2>1. /\ Only(r) /\ req'[r].op = req[r].op /\ req'[r].act = req[r].act
        /\ req'[r].draft = NoDraft
    BY <1>i DEF Ends, Ended, Passed
  <2>2. \A q \in Requests : req'[q].op = req[q].op /\ (q # r => req'[q] = req[q])
    BY <2>1 DEF Only
  <2>3. Copies' \subseteq Copies \cup {NoDraft, draft'}
    BY <2>1, <2>2 DEF Copies
  <2>4. Agreed' /\ \A a \in Requests, rev \in Nat : BoundTo(rev, a) => BoundTo(rev, a)'
    BY <1>00, <1>i, <2>3, AgreedStep
  <2>5. Reading(r)' /\ Reviewing(r)'
    BY <1>c, <1>i DEF Ends
  <2>6. ASSUME NEW q \in Requests \ {r} PROVE Reading(q)'
    <3>1. Reading(q)
      BY <1>0
    <3> QED
      BY <1>i, <2>2, <3>1 DEF Reading, HasRead
  <2>7. ASSUME NEW q \in Requests \ {r} PROVE Reviewing(q)'
    <3>1. Reviewing(q) /\ req[q].act \in Requests /\ req[q].approval.pinned \in Nat
      BY <1>0
    <3>2. req'[q] = req[q] /\ req'[req[q].act].op = req[req[q].act].op
      BY <2>2, <3>1
    <3>3. Running(q) => BoundTo(req[q].approval.pinned, req[q].act)'
      BY <2>4, <3>1, <3>2 DEF Reviewing
    <3> QED
      BY <1>i, <3>1, <3>2, <3>3 DEF Reviewing
  <2>8. ASSUME NEW a \in Requests PROVE Pinned(a)'
    <3>1. Pinned(a) /\ approvals[a].pinned \in Nat
      BY <1>0
    <3> QED
      BY <1>i, <2>2, <2>4, <3>1 DEF Pinned
  <2> QED
    BY <2>4, <2>5, <2>6, <2>7, <2>8 DEF Texts
<1>j. ASSUME UNCHANGED <<draft, mix, approvals, reviewed>>,
             \A q \in Requests :
               \/ req'[q].draft = NoDraft /\ req'[q].pc = "ended" /\ req'[q].op = req[q].op
                  /\ req'[q].act = req[q].act
               \/ Alike(q)
      PROVE  Texts'
  <2>1. \A q \in Requests : req'[q].op = req[q].op /\ req'[q].draft \in {req[q].draft, NoDraft}
    BY <1>j DEF Alike, Ids, Views
  <2>2. Copies' \subseteq Copies \cup {NoDraft, draft'}
    BY <1>j, <2>1 DEF Copies
  <2>3. Agreed' /\ \A a \in Requests, rev \in Nat : BoundTo(rev, a) => BoundTo(rev, a)'
    BY <1>00, <1>j, <2>2, AgreedStep
  <2>4. ASSUME NEW q \in Requests PROVE Reading(q)'
    <3>1. Reading(q)
      BY <1>0
    <3> QED
      BY <1>00, <1>j, <3>1 DEF Reading, HasRead, Alike, Ids, Views
  <2>5. ASSUME NEW q \in Requests PROVE Reviewing(q)'
    <3>1. Reviewing(q) /\ req[q].act \in Requests /\ req[q].approval.pinned \in Nat
      BY <1>0
    <3>2. req'[q].act = req[q].act /\ req'[req[q].act].op = req[req[q].act].op
      BY <1>j, <2>1, <3>1 DEF Alike, Ids
    <3>3. Alike(q) /\ Running(q) => BoundTo(req[q].approval.pinned, req[q].act)'
      BY <2>3, <3>1 DEF Reviewing, Alike, Ids, Views
    <3> QED
      BY <1>j, <3>1, <3>2, <3>3 DEF Reviewing, Alike, Ids, Views
  <2>6. ASSUME NEW a \in Requests PROVE Pinned(a)'
    <3>1. Pinned(a) /\ approvals[a].pinned \in Nat
      BY <1>0
    <3> QED
      BY <1>j, <2>1, <2>3, <3>1 DEF Pinned
  <2> QED
    BY <2>3, <2>4, <2>5, <2>6 DEF Texts
<1>1. ASSUME NEW r \in Requests, Begin(r) PROVE Texts'
  <2>1. PICK op \in Ops \cap OpsOf[mix][r], x \in Requests :
          (IF op \in Reviews THEN approvals[x].state # "none" ELSE x = r) /\ Starts(r, op, x)
    BY <1>1, BeginStep
  <2>2. /\ req[r].pc = "new" /\ UNCHANGED stored /\ Only(r)
        /\ req'[r].op = op /\ req'[r].act = x /\ req'[r].pc = FirstStep(op)
        /\ req'[r].draft = NoDraft /\ req'[r].approval = NoApproval
    BY <1>1, <2>1, BeginStep DEF Starts
  <2>3. approvals[r].state = "none"
    BY <1>0, <2>2 DEF Made
  <2>4. Copies' \subseteq Copies \cup {NoDraft, draft'}
    BY <2>2 DEF Copies, Only, stored
  <2>5. Agreed' /\ \A a \in Requests, rev \in Nat : BoundTo(rev, a) => BoundTo(rev, a)'
    BY <1>00, <2>2, <2>4, AgreedStep DEF stored
  <2>6. ASSUME NEW q \in Requests PROVE Reading(q)'
    <3>1. Reading(q)
      BY <1>0
    <3>2. CASE q = r
      BY <1>00, <2>1, <2>2, <3>2 DEF Reading, HasRead, FirstStep, stored
    <3>3. CASE q # r
      BY <2>2, <3>1, <3>3 DEF Reading, HasRead, Only, stored
    <3> QED
      BY <3>2, <3>3
  <2>7. ASSUME NEW q \in Requests PROVE Reviewing(q)'
    <3>1. /\ Reviewing(q) /\ Found(q) /\ req[q].act \in Requests
          /\ req[q].approval.pinned \in Nat
      BY <1>0
    <3>2. CASE q = r
      <4>1. BoundTo(0, x)'
        BY <1>000, <2>5
      <4> QED
        BY <1>00, <2>2, <3>2, <4>1 DEF Reviewing, FirstStep
    <3>3. CASE q # r
      <4>1. req'[q] = req[q]
        BY <2>2, <3>3 DEF Only
      <4>2. Running(q) => BoundTo(req[q].approval.pinned, req[q].act)'
        BY <2>5, <3>1, <4>1 DEF Reviewing
      <4>3. req[q].op \in Reviews => req'[req[q].act] = req[req[q].act]
        BY <2>2, <2>3, <3>1 DEF Found, Only
      <4> QED
        BY <2>2, <3>1, <4>1, <4>2, <4>3 DEF Reviewing, stored
    <3> QED
      BY <3>2, <3>3
  <2>8. ASSUME NEW a \in Requests PROVE Pinned(a)'
    <3>1. Pinned(a) /\ approvals[a].pinned \in Nat
      BY <1>0
    <3> QED
      BY <2>2, <2>3, <2>5, <3>1 DEF Pinned, Only, stored
  <2> QED
    BY <2>5, <2>6, <2>7, <2>8 DEF Texts
<1>2. ASSUME NEW r \in Requests, ReadAccount(r) PROVE Texts'
  <2>1. /\ Only(r) /\ req'[r].op = req[r].op /\ UNCHANGED <<draft, mix, approvals, reviewed>>
        /\ req'[r].draft \in {req[r].draft, NoDraft, draft}
    BY <1>2, ReadAccountStep DEF stored, Ids, Views, Ended, Passed
  <2>2. \A x \in Requests, rev \in Nat : BoundTo(rev, x) => BoundTo(rev, x)'
    BY <1>a, <2>1
  <2>3. Path(r) /\ Found(r) /\ Reading(r) /\ Reviewing(r)
    BY <1>0
  <2>4. Reading(r)'
    BY <1>2, <1>00, <2>1, <2>3, ReadAccountStep DEF Path, Reading, HasRead, stored, Ids, Views,
       Ended, Passed, HasTarget
  <2>5. Reviewing(r)'
    <3>1. req'[r].approval = req[r].approval /\ req'[r].act = req[r].act /\ Running(r)
            => BoundTo(req[r].approval.pinned, req[r].act)'
      BY <1>0, <2>2 DEF Reviewing
    <3>2. \A q \in Requests : req'[q].op = req[q].op
      BY <2>1 DEF Only
    <3> QED
      BY <1>2, <1>0, <2>3, <3>1, <3>2, ReadAccountStep DEF Path, Reviewing, stored, Ids,
         Views, Ended, HasTarget
  <2> QED
    BY <1>b, <2>1, <2>4, <2>5
<1>3. ASSUME NEW r \in Requests, ReadDraft(r) PROVE Texts'
  <2>1. /\ Only(r) /\ req'[r].op = req[r].op /\ UNCHANGED <<draft, mix, approvals, reviewed>>
        /\ req'[r].draft \in {req[r].draft, NoDraft, draft}
    BY <1>3, ReadDraftStep DEF Ends, stored, Ids, Views, Ended, Passed
  <2>2. \A x \in Requests, rev \in Nat : BoundTo(rev, x) => BoundTo(rev, x)'
    BY <1>a, <2>1
  <2>3. Path(r) /\ Found(r) /\ Reading(r) /\ Reviewing(r)
    BY <1>0
  <2>4. Reading(r)'
    BY <1>3, <1>00, <2>1, <2>3, ReadDraftStep DEF Path, Reading, HasRead, Agreed, Ends, stored,
       Ids, Views, Ended, Passed
  <2>5. Reviewing(r)'
    <3>1. req'[r].approval = req[r].approval /\ req'[r].act = req[r].act /\ Running(r)
            => BoundTo(req[r].approval.pinned, req[r].act)'
      BY <1>0, <2>2 DEF Reviewing
    <3>2. \A q \in Requests : req'[q].op = req[q].op
      BY <2>1 DEF Only
    <3> QED
      BY <1>3, <1>0, <2>3, <3>1, <3>2, ReadDraftStep DEF Path, Reviewing, Ends, stored, Ids,
         Views, Ended
  <2> QED
    BY <1>b, <2>1, <2>4, <2>5
<1>4. ASSUME NEW r \in Requests, Resolve(r) PROVE Texts'
  <2>1. /\ Only(r) /\ req'[r].op = req[r].op /\ UNCHANGED <<draft, mix, approvals, reviewed>>
        /\ req'[r].draft \in {req[r].draft, NoDraft, draft}
    BY <1>4, ResolveStep DEF Moves, Ends, stored, Ids, Views, Ended, Passed
  <2>2. \A x \in Requests, rev \in Nat : BoundTo(rev, x) => BoundTo(rev, x)'
    BY <1>a, <2>1
  <2>3. Path(r) /\ Found(r) /\ Reading(r) /\ Reviewing(r)
    BY <1>0
  <2>4. Reading(r)'
    BY <1>4, <1>00, <2>1, <2>3, ResolveStep DEF Path, Reading, HasRead, Moves, Ends, stored,
       Ids, Views, Ended, Passed
  <2>5. Reviewing(r)'
    <3>1. req'[r].approval = req[r].approval /\ req'[r].act = req[r].act /\ Running(r)
            => BoundTo(req[r].approval.pinned, req[r].act)'
      BY <1>0, <2>2 DEF Reviewing
    <3>2. \A q \in Requests : req'[q].op = req[q].op
      BY <2>1 DEF Only
    <3> QED
      BY <1>4, <1>0, <2>3, <3>1, <3>2, ResolveStep DEF Path, Reviewing, Moves, Ends, stored,
         Ids, Views, Ended
  <2> QED
    BY <1>b, <2>1, <2>4, <2>5
<1>5. ASSUME NEW r \in Requests, Lookup(r) PROVE Texts'
  <2>1. /\ Only(r) /\ req'[r].op = req[r].op /\ UNCHANGED <<draft, mix, approvals, reviewed>>
        /\ req'[r].draft \in {req[r].draft, NoDraft, draft}
    BY <1>5, LookupStep DEF Moves, Ends, stored, Ids, Views, Ended, Passed
  <2>2. \A x \in Requests, rev \in Nat : BoundTo(rev, x) => BoundTo(rev, x)'
    BY <1>a, <2>1
  <2>3. Path(r) /\ Found(r) /\ Reading(r) /\ Reviewing(r)
    BY <1>0
  <2>4. Reading(r)'
    BY <1>5, <1>00, <2>1, <2>3, LookupStep DEF Path, Reading, HasRead, Moves, Ends, stored, Ids,
       Views, Ended, Passed
  <2>5. Reviewing(r)'
    <3>1. req'[r].approval = req[r].approval /\ req'[r].act = req[r].act /\ Running(r)
            => BoundTo(req[r].approval.pinned, req[r].act)'
      BY <1>0, <2>2 DEF Reviewing
    <3>2. \A q \in Requests : req'[q].op = req[q].op
      BY <2>1 DEF Only
    <3> QED
      BY <1>5, <1>0, <2>3, <3>1, <3>2, LookupStep DEF Path, Reviewing, Moves, Ends, stored,
         Ids, Views, Ended
  <2> QED
    BY <1>b, <2>1, <2>4, <2>5
<1>6. ASSUME NEW r \in Requests, ReadApproval(r) PROVE Texts'
  <2>1. /\ Only(r) /\ req'[r].op = req[r].op /\ UNCHANGED <<draft, mix, approvals, reviewed>>
        /\ req'[r].draft \in {req[r].draft, NoDraft, draft}
    BY <1>6, ReadApprovalStep DEF stored, Ids, Views, Ended, Passed
  <2>2. \A x \in Requests, rev \in Nat : BoundTo(rev, x) => BoundTo(rev, x)'
    BY <1>a, <2>1
  <2>3. Path(r) /\ Found(r) /\ Reading(r) /\ Reviewing(r)
    BY <1>0
  <2>4. Reading(r)'
    BY <1>6, <1>00, <2>1, <2>3, ReadApprovalStep DEF Path, Reading, HasRead, stored, Ids, Views,
       Ended, Passed
  <2>5. Reviewing(r)'
    <3>1. /\ Pinned(req[r].act) /\ approvals[req[r].act].pinned \in Nat /\ req[r].act \in Requests
      BY <1>0
    <3>2. BoundTo(approvals[req[r].act].pinned, req[r].act)'
      BY <1>6, <2>2, <3>1, ReadApprovalStep DEF Pinned, Ids, stored
    <3> QED
      BY <1>6, <2>1, <2>3, <3>1, <3>2, ReadApprovalStep DEF Path, Found, Reviewing, Pinned,
         Only, stored, Ids
  <2> QED
    BY <1>b, <2>1, <2>4, <2>5
<1>7. ASSUME NEW r \in Requests, ReadAction(r) PROVE Texts'
  <2>1. /\ Only(r) /\ req'[r].op = req[r].op /\ UNCHANGED <<draft, mix, approvals, reviewed>>
        /\ req'[r].draft \in {req[r].draft, NoDraft, draft}
    BY <1>7, ReadActionStep DEF Ends, stored, Ids, Views, Ended, Passed
  <2>2. \A x \in Requests, rev \in Nat : BoundTo(rev, x) => BoundTo(rev, x)'
    BY <1>a, <2>1
  <2>3. Path(r) /\ Found(r) /\ Reading(r) /\ Reviewing(r)
    BY <1>0
  <2>4. Reading(r)'
    BY <1>7, <1>00, <2>1, <2>3, ReadActionStep DEF Path, Reading, HasRead, Ends, stored, Ids,
       Views, Ended, Passed
  <2>5. Reviewing(r)'
    <3>1. req'[r].approval = req[r].approval /\ req'[r].act = req[r].act /\ Running(r)
            => BoundTo(req[r].approval.pinned, req[r].act)'
      BY <1>0, <2>2 DEF Reviewing
    <3>2. \A q \in Requests : req'[q].op = req[q].op
      BY <2>1 DEF Only
    <3> QED
      BY <1>7, <1>0, <2>3, <3>1, <3>2, ReadActionStep DEF Path, Reviewing, Ends, stored, Ids,
         Views, Ended
  <2> QED
    BY <1>b, <2>1, <2>4, <2>5
<1>8. ASSUME NEW r \in Requests, Refuse(r) PROVE Texts'
  BY <1>8, <1>e, RefuseStep
<1>9. ASSUME NEW r \in Requests, Route(r) PROVE Texts'
  <2>1. /\ Path(r) /\ Reading(r) /\ Found(r) /\ Made(req[r].act)
    BY <1>0
  <2>2. HasDraft(req[req[r].act].op) => req[r].draft.rev # 0
    BY <1>9, <2>1, RouteStep DEF Path, Reading, HasRead, Found, Made
  <2> QED
    BY <1>9, <1>h, <2>1, <2>2, RouteStep DEF Path
<1>10. ASSUME NEW r \in Requests, StoreRouted(r) PROVE Texts'
  BY <1>10, <1>e, StoreRoutedStep
<1>11. ASSUME NEW r \in Requests, StartRead(r) PROVE Texts'
  <2>1. /\ Only(r) /\ req'[r].op = req[r].op /\ UNCHANGED <<draft, mix, approvals, reviewed>>
        /\ req'[r].draft \in {req[r].draft, NoDraft, draft}
    BY <1>11, StartReadStep DEF Moves, stored, Ids, Views, Ended, Passed
  <2>2. \A x \in Requests, rev \in Nat : BoundTo(rev, x) => BoundTo(rev, x)'
    BY <1>a, <2>1
  <2>3. Path(r) /\ Found(r) /\ Reading(r) /\ Reviewing(r)
    BY <1>0
  <2>4. Reading(r)'
    BY <1>11, <1>00, <2>1, <2>3, StartReadStep DEF Path, Reading, HasRead, Moves, stored, Ids,
       Views, Ended, Passed
  <2>5. Reviewing(r)'
    <3>1. req'[r].approval = req[r].approval /\ req'[r].act = req[r].act /\ Running(r)
            => BoundTo(req[r].approval.pinned, req[r].act)'
      BY <1>0, <2>2 DEF Reviewing
    <3>2. \A q \in Requests : req'[q].op = req[q].op
      BY <2>1 DEF Only
    <3> QED
      BY <1>11, <1>0, <2>3, <3>1, <3>2, StartReadStep DEF Path, Reviewing, Moves, stored, Ids,
         Views, Ended
  <2> QED
    BY <1>b, <2>1, <2>4, <2>5
<1>12. ASSUME NEW r \in Requests, StartExecution(r) PROVE Texts'
  BY <1>12, <1>d, StartExecutionStep
<1>13. ASSUME NEW r \in Requests, DispatchOk(r) PROVE Texts'
  <2>1. Reading(r)' /\ Reviewing(r)'
    BY <1>13, <1>f, DispatchOkStep DEF stored
  <2> QED
    BY <1>13, <1>b, <2>1, DispatchOkStep DEF Passes, Passed, Ids, stored
<1>14. ASSUME NEW r \in Requests, DispatchFails(r) PROVE Texts'
  <2>1. Reading(r)' /\ Reviewing(r)'
    BY <1>14, <1>f, DispatchFailsStep DEF stored
  <2> QED
    BY <1>14, <1>b, <2>1, DispatchFailsStep DEF Passes, Passed, Ids, stored
<1>15. ASSUME NEW r \in Requests, DispatchRaises(r) PROVE Texts'
  <2>1. Reading(r)' /\ Reviewing(r)'
    BY <1>15, <1>c, DispatchRaisesStep DEF Ends
  <2> QED
    BY <1>15, <1>b, <2>1, DispatchRaisesStep DEF Ends, Ended, Passed
<1>16. ASSUME NEW r \in Requests, StoreDone(r) PROVE Texts'
  BY <1>16, <1>e, StoreDoneStep
<1>17. ASSUME NEW r \in Requests, StoreFailed(r) PROVE Texts'
  BY <1>17, <1>e, StoreFailedStep
<1>18. ASSUME NEW r \in Requests, Record(r) PROVE Texts'
  <2>1. Reading(r)' /\ Reviewing(r)'
    BY <1>18, <1>c, RecordStep DEF Ends
  <2> QED
    BY <1>18, <1>b, <2>1, RecordStep DEF Ends, Ended, Passed
<1>19. ASSUME NEW r \in Requests, RequestChanges(r) PROVE Texts'
  <2>1. Reading(r)' /\ Reviewing(r)'
    BY <1>19, <1>c, RequestChangesStep DEF Ends
  <2> QED
    BY <1>19, <1>g, <2>1, RequestChangesStep DEF Ends, Ended, Passed
<1>20. ASSUME NEW r \in Requests, Reject(r) PROVE Texts'
  <2>1. Reading(r)' /\ Reviewing(r)'
    BY <1>20, <1>f, RejectStep
  <2>2. Path(r)
    BY <1>0
  <2> QED
    BY <1>20, <1>g, <2>1, <2>2, RejectStep DEF Passes, Passed, Ids, Path
<1>21. ASSUME NEW r \in Requests, Approve(r) PROVE Texts'
  <2>1. /\ Only(r) /\ req'[r].op = req[r].op /\ UNCHANGED <<draft, mix, approvals, reviewed>>
        /\ req'[r].draft \in {req[r].draft, NoDraft, draft}
    BY <1>21, ApproveStep DEF Moves, stored, Ids, Views, Ended, Passed
  <2>2. \A x \in Requests, rev \in Nat : BoundTo(rev, x) => BoundTo(rev, x)'
    BY <1>a, <2>1
  <2>3. Path(r) /\ Found(r) /\ Reading(r) /\ Reviewing(r)
    BY <1>0
  <2>4. Reading(r)'
    BY <1>21, <1>00, <2>1, <2>3, ApproveStep DEF Path, Reading, HasRead, Moves, stored, Ids,
       Views, Ended, Passed
  <2>5. Reviewing(r)'
    <3>1. req'[r].approval = req[r].approval /\ req'[r].act = req[r].act /\ Running(r)
            => BoundTo(req[r].approval.pinned, req[r].act)'
      BY <1>0, <2>2 DEF Reviewing
    <3>2. \A q \in Requests : req'[q].op = req[q].op
      BY <2>1 DEF Only
    <3> QED
      BY <1>21, <1>0, <2>3, <3>1, <3>2, ApproveStep DEF Path, Reviewing, Moves, stored, Ids,
         Views, Ended
  <2> QED
    BY <1>b, <2>1, <2>4, <2>5
<1>22. ASSUME NEW r \in Requests, RefuseApproved(r) PROVE Texts'
  <2>1. Reading(r)' /\ Reviewing(r)'
    BY <1>22, <1>f, RefuseApprovedStep
  <2>2. Path(r)
    BY <1>0
  <2> QED
    BY <1>22, <1>g, <2>1, <2>2, RefuseApprovedStep DEF Passes, Passed, Ids, Path
<1>23. ASSUME NEW r \in Requests, Grant(r) PROVE Texts'
  <2>1. /\ req[r].pc = "check" /\ req[r].op = "approve" /\ Moves(r, "execute")
        /\ Reviewed(r, "approved") /\ UNCHANGED <<draft, mix, reviewed>> /\ ~IsStale(req[r])
    BY <1>23, <1>0, GrantStep DEF Path
  <2>2. /\ Only(r) /\ req'[r].pc = "execute" /\ Ids(r) /\ Views(r)
    BY <2>1 DEF Moves
  <2>3. Reading(r)'
    BY <1>0, <2>1, <2>2 DEF Reading, HasRead, Ids, Views
  <2>4. BoundTo(req[r].approval.pinned, req[r].act)'
    BY <1>0, <1>a, <2>1, <2>2 DEF Reviewing, Ids, Views
  <2>5. ASSUME HasDraft(req[r].kind) PROVE req[r].draft.text \in reviewed[req[r].act]
    <3>1. HasDraft(req[req[r].act].op)
      BY <1>0, <2>1, <2>5 DEF Found, Made
    <3>2. req[r].approval.pinned # 0 /\ req[r].draft.rev = req[r].approval.pinned
      BY <1>0, <2>1, <2>5, <3>1 DEF Reviewing, IsStale
    <3> QED
      BY <1>0, <1>00, <2>1, <3>2 DEF Reviewing, BoundTo
  <2>6. Reviewing(r)'
    BY <2>1, <2>2, <2>4, <2>5 DEF Reviewing, Ids, Views
  <2> QED
    BY <1>g, <2>1, <2>2, <2>3, <2>6 DEF Ids, Views
<1>24. ASSUME NEW r \in Requests, StoreRefused(r) PROVE Texts'
  BY <1>24, <1>e, StoreRefusedStep
<1>25. ASSUME NEW r \in Requests, Reopen(r) PROVE Texts'
  <2>1. /\ Path(r) /\ Reading(r) /\ Found(r) /\ Made(req[r].act)
    BY <1>0
  <2>2. HasDraft(req[req[r].act].op) => req[r].draft.rev # 0
    BY <1>25, <2>1, ReopenStep DEF Path, Reading, HasRead, Found, Made
  <2> QED
    BY <1>25, <1>h, <2>1, <2>2, ReopenStep DEF Path
<1>26. ASSUME NEW r \in Requests, StoreReopened(r) PROVE Texts'
  BY <1>26, <1>e, StoreReopenedStep
<1>27. ASSUME NEW r \in Requests, CreateDraft(r) PROVE Texts'
  <2>1. ASSUME draft' # draft PROVE draft = NoDraft /\ draft'.rev = 1
    BY <1>27, <2>1, CreateDraftStep
  <2>2. ASSUME NEW q \in Requests, req[q].op = "edit", req[q].pc = "write_draft"
        PROVE  draft # NoDraft
    BY <1>0, <1>00, <2>2 DEF Reading, HasRead
  <2> QED
    BY <1>27, <1>00, <1>i, <2>1, <2>2, CreateDraftStep
<1>28. ASSUME NEW r \in Requests, WriteDraft(r) PROVE Texts'
  <2>1. /\ req[r].op = "edit" /\ req[r].draft = draft /\ "edit" \in OpsOf[mix][r]
        /\ draft'.rev > draft.rev
    BY <1>28, <1>0, <1>00, WriteDraftStep DEF Reading
  <2>2. \A q \in Requests \ {r} : ProcessOf[q] = ProcessOf[r] => AtAwait(q)
    BY <1>28, OthersAwait DEF Serve
  <2>3. ASSUME NEW q \in Requests \ {r}, req[q].op = "edit", req[q].pc = "write_draft"
        PROVE  FALSE
    <3>1. "edit" \in OpsOf[mix][q]
      BY <1>0, <2>3 DEF Reading
    <3>2. ProcessOf[q] = ProcessOf[r]
      BY <2>1, <3>1 DEF OneEditor, TypeOK
    <3> QED
      BY <2>2, <2>3, <3>2 DEF AtAwait
  <2> QED
    BY <1>28, <1>i, <2>1, <2>2, <2>3, WriteDraftStep DEF MayRun
<1>29. ASSUME NEW p, Crash(p) PROVE Texts'
  <2>1. UNCHANGED stored
    BY <1>29, CrashStep
  <2>2. \A q \in Requests : Ended(q, "crash") \/ Alike(q)
    BY <1>29, CrashStep DEF Alike, Ids, Views, Log
  <2> QED
    BY <1>j, <2>1, <2>2 DEF Ended, Passed, stored
<1>30. CASE Tick \/ CheckIn \/ Revoke
  BY <1>30, <1>j, AccountStep DEF Alike, Ids, Views, Log
<1>31. CASE Reactivate
  BY <1>31, <1>j, ReactivateStep DEF Around
<1>32. ASSUME NEW a \in Agents, CheckOut(a) PROVE Texts'
  BY <1>32, <1>j, CheckOutStep DEF Around
<1>33. CASE UNCHANGED vars
  BY <1>33, <1>j DEF vars, Alike, Ids, Views, Log
<1> QED
  BY <1>1, <1>2, <1>3, <1>4, <1>5, <1>6, <1>7, <1>8, <1>9, <1>10, <1>11, <1>12, <1>13, <1>14,
     <1>15, <1>16, <1>17, <1>18, <1>19, <1>20, <1>21, <1>22, <1>23, <1>24, <1>25, <1>26, <1>27,
     <1>28, <1>29, <1>30, <1>31, <1>32, <1>33 DEF Next, Serve

\* What an approval sends to the platform is a text that was put before the
\* reviewers of that action, if one server process serves all the edits.  That
\* two processes may lose an edit, and then break this, is shown by a run.
THEOREM ReviewedOnly ==
  ASSUME OneEditor
  PROVE  Spec => []ReviewedTextOnly
<1>1. Init => Texts
  <2> SUFFICES ASSUME Init PROVE Texts
    OBVIOUS
  <2>1. \A r \in Requests : /\ req[r].pc \in {"new", "ended"} /\ req[r].op = "edit"
                            /\ req[r].draft = NoDraft
    BY InitReq
  <2>2. NoDraft.rev = 0 /\ NoApproval.pinned = 0 /\ NoApproval.state = "none"
    BY DEF NoDraft, NoApproval
  <2>3. /\ draft.rev \in Nat /\ (draft.rev = 0 => draft = NoDraft)
        /\ \A a \in Requests : approvals[a] = NoApproval
    BY <2>2 DEF Init
  <2>4. \A c \in Copies : c \in {draft, NoDraft}
    BY <2>1 DEF Copies
  <2>5. Agreed
    BY <2>2, <2>3, <2>4 DEF Agreed
  <2>6. \A r \in Requests : Pinned(r)
    BY <2>2, <2>3 DEF Pinned, BoundTo
  <2>7. \A r \in Requests : Reading(r) /\ Reviewing(r)
    BY <2>1, <2>2 DEF Reading, Reviewing, HasRead, Running, Reviews
  <2> QED
    BY <2>5, <2>6, <2>7 DEF Texts
<1>2. TypeOK /\ Texts => ReviewedTextOnly
  BY DEF Texts, Reviewing, ReviewedTextOnly, Dispatching
<1>3. TypeOK /\ TypeOK' /\ Paths /\ Stored /\ Texts /\ [Next]_vars => Texts'
  BY OneEditor, TextStep
<1> QED
  BY <1>1, <1>2, <1>3, StoredHolds, PTL DEF Spec
=============================================================================
