----------------------------- MODULE ActingSteps -----------------------------
(***************************************************************************)
(* What every step of Acting does to the memory of the request that takes  *)
(* it, field by field, and that the variables stay in their types and      *)
(* every request on its path.  ActingProofs builds on these lemmas only.   *)
(***************************************************************************)
EXTENDS Acting, TLAPS

-----------------------------------------------------------------------------
(* The shapes of a step.                                                   *)

\* Only the memory of r changes.
Only(r) ==
  /\ req' \in [Requests -> Memory]
  /\ \A q \in Requests \ {r} : req'[q] = req[q]

Ids(r)   == /\ req'[r].op = req[r].op /\ req'[r].act = req[r].act
            /\ req'[r].kind = req[r].kind /\ req'[r].key = req[r].key
Views(r) == /\ req'[r].account = req[r].account /\ req'[r].draft = req[r].draft
            /\ req'[r].approval = req[r].approval
Marks(r) == /\ req'[r].held = req[r].held /\ req'[r].fit = req[r].fit
            /\ req'[r].known = req[r].known
Log(r)   == /\ req'[r].changed = req[r].changed /\ req'[r].events = req[r].events
            /\ req'[r].cut = req[r].cut

\* No adapter will be called any more.
Passed(r) == /\ req'[r].account = NoAccount /\ req'[r].draft = NoDraft
             /\ ~req'[r].held /\ ~req'[r].fit /\ ~req'[r].known

\* The step goes to pc and keeps the memory of r; or lets go of what only an
\* act needs; or stores an action; or ends the request.
Moves(r, pc)  == Only(r) /\ req'[r].pc = pc /\ Ids(r) /\ Views(r) /\ Marks(r) /\ Log(r)
Passes(r, pc) == /\ Only(r) /\ req'[r].pc = pc /\ Ids(r) /\ Log(r) /\ Passed(r)
                 /\ req'[r].approval = req[r].approval
Stores(r, state, pc) ==
  /\ Only(r) /\ req'[r].pc = pc /\ Ids(r)
  /\ req'[r].changed /\ req'[r].events = req[r].events /\ req'[r].cut = req[r].cut
  /\ req'[r].account = NoAccount /\ req'[r].approval = NoApproval
  /\ IF state = "executing" THEN Marks(r) /\ req'[r].draft = req[r].draft ELSE Passed(r)
  /\ actions' \in [Requests -> Actions]
  /\ actions'[req[r].act].state = state /\ actions'[req[r].act].kind = req[r].kind
  /\ actions'[req[r].act].key =
       IF actions[req[r].act].state = "none" THEN req[r].key ELSE actions[req[r].act].key
  /\ \A a \in Requests \ {req[r].act} : actions'[a] = actions[a]
Ended(r, how) ==
  /\ req'[r].pc = "ended" /\ req'[r].op = req[r].op /\ req'[r].act = req[r].act
  /\ req'[r].changed = req[r].changed /\ req'[r].cut = how /\ Passed(r)
Ends(r, how) == Only(r) /\ Ended(r, how) /\ req'[r].events = req[r].events

\* The values that fill a memory that is not in use.
LEMMA BlankTypes ==
  /\ NoAccount \in Accounts /\ NoDraft \in Drafts /\ NoApproval \in Approvals
  /\ NoAccount.holder = Nobody /\ ~NoAccount.eligible /\ NoDraft.rev = 0
  /\ \A r \in Requests : Blank(r) \in Memory
BY DEF NoAccount, NoDraft, NoApproval, Accounts, Drafts, Approvals, Blank, Memory, PCs, Ops,
   Writes, Reads, Reviews, Kinds

\* A step replaces the memory of one request.
LEMMA SetReq ==
  ASSUME TypeOK, NEW r \in Requests, NEW k \in Memory, req' = [req EXCEPT ![r] = k]
  PROVE  Only(r) /\ req'[r] = k
BY DEF TypeOK, Only

\* Goto with the memory as it is.
LEMMA MoveStep ==
  ASSUME TypeOK, NEW r \in Requests, NEW pc \in PCs, Goto(r, req[r], pc)
  PROVE  Moves(r, pc)
<1> DEFINE k == [req[r] EXCEPT !.pc = pc]
<1>1. req[r] \in Memory
  BY DEF TypeOK
<1>2. /\ k \in Memory /\ k.pc = pc /\ k.op = req[r].op /\ k.act = req[r].act
      /\ k.kind = req[r].kind /\ k.key = req[r].key /\ k.account = req[r].account
      /\ k.draft = req[r].draft /\ k.approval = req[r].approval /\ k.held = req[r].held
      /\ k.fit = req[r].fit /\ k.known = req[r].known /\ k.changed = req[r].changed
      /\ k.events = req[r].events /\ k.cut = req[r].cut
  BY <1>1 DEF Memory
<1>3. req' = [req EXCEPT ![r] = k]
  BY DEF Goto
<1> HIDE DEF k
<1>4. Only(r) /\ req'[r] = k
  BY <1>2, <1>3, SetReq
<1> QED
  BY <1>2, <1>4 DEF Moves, Ids, Views, Marks, Log

\* Goto with what is left of the memory past an adapter.
LEMMA PassStep ==
  ASSUME TypeOK, NEW r \in Requests, NEW pc \in PCs, Goto(r, Past(req[r]), pc)
  PROVE  Passes(r, pc)
<1> DEFINE k == [Past(req[r]) EXCEPT !.pc = pc]
<1>1. req[r] \in Memory
  BY DEF TypeOK
<1>2. /\ k \in Memory /\ k.pc = pc /\ k.op = req[r].op /\ k.act = req[r].act
      /\ k.kind = req[r].kind /\ k.key = req[r].key /\ k.account = NoAccount
      /\ k.draft = NoDraft /\ k.approval = req[r].approval /\ ~k.held
      /\ ~k.fit /\ ~k.known /\ k.changed = req[r].changed
      /\ k.events = req[r].events /\ k.cut = req[r].cut
  BY <1>1, BlankTypes DEF Memory, Past
<1>3. req' = [req EXCEPT ![r] = k]
  BY DEF Goto
<1> HIDE DEF k
<1>4. Only(r) /\ req'[r] = k
  BY <1>2, <1>3, SetReq
<1> QED
  BY <1>2, <1>4 DEF Passes, Ids, Passed, Log

\* Storing the action in memory, with a new state.
LEMMA StoreStep ==
  ASSUME TypeOK, NEW r \in Requests, NEW pc \in PCs,
         NEW state \in {"needs_approval", "executing", "done", "failed", "refused"},
         Store(r, state, pc)
  PROVE  Stores(r, state, pc)
<1> DEFINE n == [req[r] EXCEPT !.changed = TRUE, !.account = NoAccount, !.approval = NoApproval]
           k == [(IF state = "executing" THEN n ELSE Past(n)) EXCEPT !.pc = pc]
<1>1. req[r] \in Memory
  BY DEF TypeOK
<1>2. /\ n \in Memory /\ n.op = req[r].op /\ n.act = req[r].act
      /\ n.kind = req[r].kind /\ n.key = req[r].key /\ n.account = NoAccount
      /\ n.draft = req[r].draft /\ n.approval = NoApproval /\ n.held = req[r].held
      /\ n.fit = req[r].fit /\ n.known = req[r].known /\ n.changed
      /\ n.events = req[r].events /\ n.cut = req[r].cut
  BY <1>1, BlankTypes DEF Memory
<1>3. req' = [req EXCEPT ![r] = k]
  BY DEF Store, Goto
<1> HIDE DEF n
<1>4. /\ k \in Memory /\ k.pc = pc /\ k.op = n.op /\ k.act = n.act
      /\ k.kind = n.kind /\ k.key = n.key /\ k.account = NoAccount
      /\ k.approval = NoApproval /\ k.changed = n.changed
      /\ k.events = n.events /\ k.cut = n.cut
      /\ IF state = "executing"
           THEN k.draft = n.draft /\ k.held = n.held /\ k.fit = n.fit /\ k.known = n.known
           ELSE k.draft = NoDraft /\ ~k.held /\ ~k.fit /\ ~k.known
  <2>1. CASE state = "executing"
    BY <1>2, <2>1 DEF Memory
  <2>2. CASE state # "executing"
    BY <1>2, <2>2, BlankTypes DEF Memory, Past
  <2> QED
    BY <2>1, <2>2
<1> HIDE DEF k
<1>5. Only(r) /\ req'[r] = k
  BY <1>3, <1>4, SetReq
<1>6. /\ actions' \in [Requests -> Actions]
      /\ actions'[req[r].act].state = state /\ actions'[req[r].act].kind = req[r].kind
      /\ actions'[req[r].act].key =
           IF actions[req[r].act].state = "none" THEN req[r].key ELSE actions[req[r].act].key
      /\ \A a \in Requests \ {req[r].act} : actions'[a] = actions[a]
  <2> DEFINE y == actions[req[r].act]
             key == IF y.state = "none" THEN req[r].key ELSE y.key
             x == [state |-> state, kind |-> req[r].kind, key |-> key]
  <2>1. req[r].act \in Requests /\ key \in Keys \cup {NoKey}
    BY <1>1 DEF TypeOK, Memory, Actions
  <2>2. actions' = [actions EXCEPT ![req[r].act] = x]
    BY DEF Store
  <2> HIDE DEF key
  <2>3. x \in Actions /\ x.state = state /\ x.kind = req[r].kind /\ x.key = key
    BY <1>1, <2>1 DEF Memory, Actions
  <2> HIDE DEF x
  <2> QED
    BY <2>1, <2>2, <2>3 DEF TypeOK, key
<1> QED
  BY <1>2, <1>4, <1>5, <1>6 DEF Stores, Ids, Marks, Passed

\* What is left of a request that has ended.
LEMMA RestFields ==
  ASSUME NEW r \in Requests, NEW m \in Memory, NEW how \in {"no", "raise", "crash"}
  PROVE  LET k == Rest(r, m, how) IN
         /\ k \in Memory /\ k.pc = "ended" /\ k.op = m.op /\ k.act = m.act
         /\ k.changed = m.changed /\ k.events = m.events /\ k.cut = how
         /\ k.account = NoAccount /\ k.draft = NoDraft /\ ~k.held /\ ~k.fit /\ ~k.known
<1> DEFINE b == Blank(r)
           k == Rest(r, m, how)
<1>1. /\ b \in Memory /\ b.account = NoAccount /\ b.draft = NoDraft
      /\ ~b.held /\ ~b.fit /\ ~b.known
  BY BlankTypes DEF Blank
<1>2. k = [b EXCEPT !.pc = "ended", !.op = m.op, !.act = m.act, !.changed = m.changed,
                    !.events = m.events, !.cut = how]
  BY DEF Rest
<1>3. /\ "ended" \in PCs /\ m.op \in Ops /\ m.act \in Requests
      /\ m.changed \in BOOLEAN /\ m.events \in Nat
  BY DEF Memory, PCs
<1> HIDE DEF b, k
<1>4. /\ k \in Memory /\ k.pc = "ended" /\ k.op = m.op /\ k.act = m.act
      /\ k.changed = m.changed /\ k.events = m.events /\ k.cut = how
      /\ k.account = b.account /\ k.draft = b.draft /\ k.held = b.held
      /\ k.fit = b.fit /\ k.known = b.known
  BY <1>1, <1>2, <1>3 DEF Memory
<1>5. /\ k \in Memory /\ k.pc = "ended" /\ k.op = m.op /\ k.act = m.act
      /\ k.changed = m.changed /\ k.events = m.events /\ k.cut = how
      /\ k.account = NoAccount /\ k.draft = NoDraft /\ ~k.held /\ ~k.fit /\ ~k.known
  BY <1>1, <1>4
<1> QED
  BY <1>5 DEF k

LEMMA EndStep ==
  ASSUME TypeOK, NEW r \in Requests, NEW how \in {"no", "raise"}, End(r, req[r], how)
  PROVE  Ends(r, how)
<1> DEFINE k == Rest(r, req[r], how)
<1>1. req[r] \in Memory
  BY DEF TypeOK
<1>2. /\ k \in Memory /\ k.pc = "ended" /\ k.op = req[r].op /\ k.act = req[r].act
      /\ k.changed = req[r].changed /\ k.events = req[r].events /\ k.cut = how
      /\ k.account = NoAccount /\ k.draft = NoDraft /\ ~k.held /\ ~k.fit /\ ~k.known
  BY <1>1, RestFields
<1>3. req' = [req EXCEPT ![r] = k]
  BY DEF End
<1> HIDE DEF k
<1>4. Only(r) /\ req'[r] = k
  BY <1>2, <1>3, SetReq
<1> QED
  BY <1>2, <1>4 DEF Ends, Ended, Passed

-----------------------------------------------------------------------------
(* What each action does.                                                  *)

\* The key a request looks up and stores its own action with.
OwnKey(r, op) == IF op \in Writes THEN KeyOf[r] ELSE NoKey

\* Another action was stored with the key of r.
KeyTaken(r) == \E q \in Requests : /\ actions[q].state # "none"
                                   /\ req[q].op \in Writes /\ KeyOf[q] = KeyOf[r]

FirstStep(op) == CASE op \in Kinds \cup {"create"} -> "account"
                   [] op \in Reviews -> "approval"
                   [] OTHER -> "draft"

\* The memory of a request that has begun as a call op about the action a.
Starts(r, op, a) ==
  /\ Only(r) /\ req'[r].pc = FirstStep(op) /\ req'[r].op = op /\ req'[r].act = a
  /\ req'[r].key = OwnKey(r, op) /\ req'[r].kind = (IF op \in Kinds THEN op ELSE "publish")
  /\ req'[r].account = NoAccount /\ req'[r].draft = NoDraft /\ req'[r].approval = NoApproval
  /\ ~req'[r].changed /\ req'[r].events = 0 /\ req'[r].cut = "no"
  /\ req'[r].held <=> (op \in Writes /\ HoldsLease(account, AgentOf[r]))
  /\ req'[r].fit <=> (Acts(op) /\ account.eligible)
  /\ req'[r].known <=> (op \in Writes /\ KeyOf[r] # NoKey /\ KeyTaken(r))

\* A request begins about an action of its own, or as a review about an
\* action that has an approval.
LEMMA BeginStep ==
  ASSUME TypeOK, NEW r \in Requests, Begin(r)
  PROVE  /\ req[r].pc = "new" /\ UNCHANGED stored
         /\ \E op \in Ops \cap OpsOf[mix][r], a \in Requests :
              /\ IF op \in Reviews THEN approvals[a].state # "none" ELSE a = r
              /\ Starts(r, op, a)
<1>1. PICK op \in OpsOf[mix][r], a \in Requests :
        /\ IF op \in Reviews THEN approvals[a].state # "none" ELSE a = r
        /\ Goto(r, [Blank(r) EXCEPT
                      !.op = op, !.key = OwnKey(r, op), !.act = a,
                      !.kind = IF op \in Kinds THEN op ELSE "publish",
                      !.held = op \in Writes /\ HoldsLease(account, AgentOf[r]),
                      !.fit = Acts(op) /\ account.eligible,
                      !.known = op \in Writes /\ KeyOf[r] # NoKey /\ KeyTaken(r)],
                FirstStep(op))
  BY DEF Begin, OwnKey, KeyTaken, FirstStep
<1>2. op \in Ops /\ FirstStep(op) \in PCs /\ OwnKey(r, op) \in Keys \cup {NoKey}
  BY ActingAssumption DEF TypeOK, FirstStep, PCs, OwnKey
<1> DEFINE kind == IF op \in Kinds THEN op ELSE "publish"
           held == op \in Writes /\ HoldsLease(account, AgentOf[r])
           fit == Acts(op) /\ account.eligible
           known == op \in Writes /\ KeyOf[r] # NoKey /\ KeyTaken(r)
           b == Blank(r)
           k == [b EXCEPT !.op = op, !.key = OwnKey(r, op), !.act = a, !.kind = kind,
                          !.held = held, !.fit = fit, !.known = known, !.pc = FirstStep(op)]
<1>3. kind \in Kinds /\ held \in BOOLEAN /\ fit \in BOOLEAN /\ known \in BOOLEAN
  BY DEF Kinds, Writes, Acts, TypeOK, Accounts
<1>4. /\ b \in Memory /\ b.account = NoAccount /\ b.draft = NoDraft /\ b.approval = NoApproval
      /\ ~b.changed /\ b.events = 0 /\ b.cut = "no"
  BY BlankTypes DEF Blank
<1>5. req' = [req EXCEPT ![r] = k]
  BY <1>1 DEF Goto
<1> HIDE DEF b, kind, held, fit, known
<1>6. /\ k \in Memory /\ k.pc = FirstStep(op) /\ k.op = op /\ k.act = a
      /\ k.key = OwnKey(r, op) /\ k.kind = kind /\ k.account = b.account /\ k.draft = b.draft
      /\ k.approval = b.approval /\ k.changed = b.changed /\ k.events = b.events
      /\ k.cut = b.cut /\ k.held = held /\ k.fit = fit /\ k.known = known
  BY <1>2, <1>3, <1>4 DEF Memory
<1> HIDE DEF k
<1>7. Only(r) /\ req'[r] = k
  BY <1>5, <1>6, SetReq
<1>8. Starts(r, op, a)
  BY <1>4, <1>6, <1>7 DEF Starts, kind, held, fit, known
<1> QED
  BY <1>1, <1>2, <1>8 DEF Begin, At

\* What is kept of the account says no more than the account does.
LEMMA KeptFields ==
  ASSUME TypeOK, NEW op
  PROVE  /\ Kept(op) \in Accounts
         /\ Kept(op).eligible => account.eligible
         /\ \/ Kept(op).holder = account.holder /\ Kept(op).until = account.until
            \/ Kept(op).holder = Nobody
<1>1. account \in Accounts /\ NoAccount \in Accounts /\ NoAccount.holder = Nobody
      /\ ~NoAccount.eligible
  BY BlankTypes DEF TypeOK
<1>2. CASE op \in Kinds
  BY <1>1, <1>2 DEF Kept, Kinds, Writes, Reads
<1>3. CASE op = "approve"
  <2>1. Kept(op) = [NoAccount EXCEPT !.eligible = account.eligible]
    BY <1>3 DEF Kept, Kinds, Writes, Reads
  <2> QED
    BY <1>1, <2>1 DEF Accounts
<1>4. CASE op \notin Kinds /\ op # "approve"
  BY <1>1, <1>4 DEF Kept
<1> QED
  BY <1>2, <1>3, <1>4

\* A copy of the account, or what is kept of it, is in memory.
LEMMA ReadAccountStep ==
  ASSUME TypeOK, NEW r \in Requests, ReadAccount(r)
  PROVE  /\ req[r].pc = "account" /\ UNCHANGED stored
         /\ Only(r) /\ Ids(r) /\ Marks(r) /\ Log(r)
         /\ req'[r].account = Kept(req[r].op) /\ req'[r].draft = req[r].draft
         /\ req'[r].approval = req[r].approval
         /\ req'[r].pc = CASE req[r].op \in Kinds ->
                                IF HasDraft(req[r].op) THEN "draft"
                                ELSE IF HasTarget(req[r].op) THEN "resolve" ELSE "evaluate"
                           [] req[r].op = "resubmit" ->
                                IF HasDraft(req[r].kind) THEN "draft" ELSE "reopen"
                           [] req[r].op = "create" -> "write_draft"
                           [] OTHER -> "decide"
<1> DEFINE m == req[r]
           pc == CASE m.op \in Kinds -> IF HasDraft(m.op) THEN "draft"
                                        ELSE IF HasTarget(m.op) THEN "resolve" ELSE "evaluate"
                   [] m.op = "resubmit" -> IF HasDraft(m.kind) THEN "draft" ELSE "reopen"
                   [] m.op = "create" -> "write_draft"
                   [] OTHER -> "decide"
           acc == Kept(m.op)
           k == [m EXCEPT !.account = acc, !.pc = pc]
<1>1. m \in Memory /\ pc \in PCs
  BY DEF TypeOK, PCs
<1>2. acc \in Accounts
  BY KeptFields
<1>3. req' = [req EXCEPT ![r] = k] /\ m.pc = "account" /\ UNCHANGED stored
  BY DEF ReadAccount, Goto, At
<1> HIDE DEF pc, acc
<1>4. /\ k \in Memory /\ k.pc = pc /\ k.op = m.op /\ k.act = m.act
      /\ k.kind = m.kind /\ k.key = m.key /\ k.account = acc
      /\ k.draft = m.draft /\ k.approval = m.approval /\ k.held = m.held
      /\ k.fit = m.fit /\ k.known = m.known /\ k.changed = m.changed
      /\ k.events = m.events /\ k.cut = m.cut
  BY <1>1, <1>2 DEF Memory
<1> HIDE DEF k
<1>5. Only(r) /\ req'[r] = k
  BY <1>3, <1>4, SetReq
<1>6. req'[r].pc = pc /\ req'[r].account = acc
  BY <1>4, <1>5
<1>7. Ids(r) /\ Marks(r) /\ Log(r) /\ req'[r].draft = m.draft /\ req'[r].approval = m.approval
  BY <1>4, <1>5 DEF Ids, Marks, Log
<1> QED
  BY <1>3, <1>5, <1>6, <1>7 DEF pc, acc

\* A copy of the draft is in memory, if there is one.
LEMMA ReadDraftStep ==
  ASSUME TypeOK, NEW r \in Requests, ReadDraft(r)
  PROVE  /\ req[r].pc = "draft" /\ UNCHANGED stored
         /\ \/ draft = NoDraft /\ Ends(r, "no")
            \/ /\ draft # NoDraft /\ Only(r) /\ Ids(r) /\ Marks(r) /\ Log(r)
               /\ req'[r].draft = draft /\ req'[r].account = req[r].account
               /\ req'[r].approval = req[r].approval
               /\ req'[r].pc = CASE req[r].op = "publish" -> "lookup"
                                 [] req[r].op = "comment" -> "resolve"
                                 [] req[r].op = "approve" -> "check"
                                 [] req[r].op = "resubmit" -> "reopen"
                                 [] OTHER -> "write_draft"
<1> DEFINE m == req[r]
           pc == CASE m.op = "publish" -> "lookup" [] m.op = "comment" -> "resolve"
                   [] m.op = "approve" -> "check" [] m.op = "resubmit" -> "reopen"
                   [] OTHER -> "write_draft"
           k == [m EXCEPT !.draft = draft, !.pc = pc]
<1>0. m.pc = "draft" /\ UNCHANGED stored
  BY DEF ReadDraft, At
<1>1. CASE draft = NoDraft
  BY <1>0, <1>1, EndStep DEF ReadDraft
<1>2. CASE draft # NoDraft
  <2>1. m \in Memory /\ pc \in PCs /\ draft \in Drafts
    BY DEF TypeOK, PCs
  <2>2. req' = [req EXCEPT ![r] = k]
    BY <1>2 DEF ReadDraft, Goto
  <2> HIDE DEF pc
  <2>3. /\ k \in Memory /\ k.pc = pc /\ k.op = m.op /\ k.act = m.act
        /\ k.kind = m.kind /\ k.key = m.key /\ k.account = m.account
        /\ k.draft = draft /\ k.approval = m.approval /\ k.held = m.held
        /\ k.fit = m.fit /\ k.known = m.known /\ k.changed = m.changed
        /\ k.events = m.events /\ k.cut = m.cut
    BY <2>1 DEF Memory
  <2> HIDE DEF k
  <2>4. Only(r) /\ req'[r] = k
    BY <2>2, <2>3, SetReq
  <2>5. /\ Ids(r) /\ Marks(r) /\ Log(r) /\ req'[r].account = m.account
        /\ req'[r].approval = m.approval /\ req'[r].draft = draft /\ req'[r].pc = pc
    BY <2>3, <2>4 DEF Ids, Marks, Log
  <2> QED
    BY <1>0, <1>2, <2>4, <2>5 DEF pc
<1> QED
  BY <1>1, <1>2

\* The approval is in memory.
LEMMA ReadApprovalStep ==
  ASSUME TypeOK, NEW r \in Requests, ReadApproval(r)
  PROVE  /\ req[r].pc = "approval" /\ UNCHANGED stored
         /\ Only(r) /\ req'[r].pc = "action" /\ Ids(r) /\ Marks(r) /\ Log(r)
         /\ req'[r].approval = approvals[req[r].act]
         /\ req'[r].account = req[r].account /\ req'[r].draft = req[r].draft
<1> DEFINE m == req[r]
           found == approvals[m.act]
           k == [m EXCEPT !.approval = found, !.pc = "action"]
<1>1. m \in Memory /\ "action" \in PCs
  BY DEF TypeOK, PCs
<1>2. found \in Approvals
  BY <1>1 DEF TypeOK, Memory
<1>3. req' = [req EXCEPT ![r] = k] /\ m.pc = "approval" /\ UNCHANGED stored
  BY DEF ReadApproval, Goto, At
<1> HIDE DEF found
<1>4. /\ k \in Memory /\ k.pc = "action" /\ k.op = m.op /\ k.act = m.act
      /\ k.kind = m.kind /\ k.key = m.key /\ k.account = m.account
      /\ k.draft = m.draft /\ k.approval = found /\ k.held = m.held
      /\ k.fit = m.fit /\ k.known = m.known /\ k.changed = m.changed
      /\ k.events = m.events /\ k.cut = m.cut
  BY <1>1, <1>2 DEF Memory
<1> HIDE DEF k
<1>5. Only(r) /\ req'[r] = k
  BY <1>3, <1>4, SetReq
<1> QED
  BY <1>3, <1>4, <1>5 DEF Ids, Marks, Log, found

\* The kind of the action is in memory, if it is stored.
LEMMA ReadActionStep ==
  ASSUME TypeOK, NEW r \in Requests, ReadAction(r)
  PROVE  /\ req[r].pc = "action" /\ UNCHANGED stored
         /\ \/ actions[req[r].act].state = "none" /\ Ends(r, "no")
            \/ /\ actions[req[r].act].state # "none"
               /\ Only(r) /\ req'[r].pc = "account" /\ Views(r) /\ Marks(r) /\ Log(r)
               /\ req'[r].op = req[r].op /\ req'[r].act = req[r].act
               /\ req'[r].kind = actions[req[r].act].kind
               /\ req'[r].key = req[r].key
<1> DEFINE m == req[r]
           found == actions[m.act]
           k == [m EXCEPT !.kind = found.kind, !.pc = "account"]
<1>0. m.pc = "action" /\ UNCHANGED stored
  BY DEF ReadAction, At
<1>1. CASE found.state = "none"
  BY <1>0, <1>1, EndStep DEF ReadAction
<1>2. CASE found.state # "none"
  <2>1. m \in Memory /\ "account" \in PCs
    BY DEF TypeOK, PCs
  <2>2. found.kind \in Kinds
    BY <2>1 DEF TypeOK, Memory, Actions
  <2>3. req' = [req EXCEPT ![r] = k]
    BY <1>2 DEF ReadAction, Goto
  <2> HIDE DEF found
  <2>4. /\ k \in Memory /\ k.pc = "account" /\ k.op = m.op /\ k.act = m.act
        /\ k.kind = found.kind /\ k.key = m.key /\ k.account = m.account
        /\ k.draft = m.draft /\ k.approval = m.approval /\ k.held = m.held
        /\ k.fit = m.fit /\ k.known = m.known /\ k.changed = m.changed
        /\ k.events = m.events /\ k.cut = m.cut
    BY <2>1, <2>2 DEF Memory
  <2> HIDE DEF k
  <2>5. Only(r) /\ req'[r] = k
    BY <2>3, <2>4, SetReq
  <2> QED
    BY <1>0, <1>2, <2>4, <2>5 DEF Views, Marks, Log, found
<1> QED
  BY <1>1, <1>2

\* The adapter has found the target, or it raised.
LEMMA ResolveStep ==
  ASSUME TypeOK, NEW r \in Requests, Resolve(r)
  PROVE  /\ req[r].pc = "resolve" /\ UNCHANGED stored
         /\ \/ Moves(r, IF req[r].op \in Reads THEN "evaluate" ELSE "lookup")
            \/ Ends(r, "raise")
BY MoveStep, EndStep DEF Resolve, At, PCs

\* A stored action with the key ends the request.
LEMMA LookupStep ==
  ASSUME TypeOK, NEW r \in Requests, Lookup(r)
  PROVE  /\ req[r].pc = "lookup" /\ UNCHANGED stored
         /\ IF req[r].key # NoKey /\ \E a \in Requests : actions[a].key = req[r].key
              THEN Ends(r, "no") ELSE Moves(r, "evaluate")
BY MoveStep, EndStep DEF Lookup, At, PCs

\* A refused act is stored.
LEMMA RefuseStep ==
  ASSUME TypeOK, NEW r \in Requests, Refuse(r)
  PROVE  /\ req[r].pc = "evaluate" /\ Stores(r, "refused", "deny")
         /\ UNCHANGED <<account, draft, approvals, audit, now, mix, performed, granted, reviewed>>
BY StoreStep DEF Refuse, At, PCs

\* What the copies in memory say of a request that is not denied.
Judged(r) == /\ req[r].account.eligible
             /\ req[r].op \in Writes => HoldsLease(req[r].account, AgentOf[r])

\* What submit and reopen store.
Binds(r, pc) ==
  /\ Passes(r, pc)
  /\ approvals' \in [Requests -> Approvals]
  /\ approvals'[req[r].act].state = "open"
  /\ approvals'[req[r].act].pinned = req[r].draft.rev
  /\ \A a \in Requests \ {req[r].act} : approvals'[a] = approvals[a]
  /\ reviewed' \in [Requests -> SUBSET (Requests \cup {Original})]
  /\ \A a \in Requests : reviewed[a] \subseteq reviewed'[a]
  /\ HasDraft(req[r].kind) => req[r].draft.text \in reviewed'[req[r].act]
  /\ UNCHANGED <<account, draft, actions, audit, now, mix, performed, granted>>

\* An approval is bound to the revision and the text in memory.
LEMMA BindStep ==
  ASSUME TypeOK, NEW r \in Requests, NEW pc \in PCs, Bind(r, pc)
  PROVE  Binds(r, pc)
<1> DEFINE m == req[r]
           x == [state |-> "open", pinned |-> m.draft.rev, expires |-> now + ReviewTTL]
           t == reviewed[m.act] \cup IF HasDraft(m.kind) THEN {m.draft.text} ELSE {}
<1>1. m \in Memory /\ m.act \in Requests /\ m.draft \in Drafts
  BY DEF TypeOK, Memory
<1>2. x \in Approvals /\ x.state = "open" /\ x.pinned = m.draft.rev
  BY <1>1, ActingAssumption DEF TypeOK, Drafts, Approvals
<1>3. /\ t \subseteq Requests \cup {Original} /\ reviewed[m.act] \subseteq t
      /\ HasDraft(m.kind) => m.draft.text \in t
  BY <1>1 DEF TypeOK, Drafts
<1>4. approvals' = [approvals EXCEPT ![m.act] = x] /\ reviewed' = [reviewed EXCEPT ![m.act] = t]
  BY DEF Bind
<1>5. Passes(r, pc) /\ UNCHANGED <<account, draft, actions, audit, now, mix, performed, granted>>
  BY PassStep DEF Bind
<1> HIDE DEF x, t
<1>6. /\ approvals' \in [Requests -> Approvals] /\ approvals'[m.act] = x
      /\ \A a \in Requests \ {m.act} : approvals'[a] = approvals[a]
  BY <1>1, <1>2, <1>4 DEF TypeOK
<1>7. /\ reviewed' \in [Requests -> SUBSET (Requests \cup {Original})] /\ reviewed'[m.act] = t
      /\ \A a \in Requests \ {m.act} : reviewed'[a] = reviewed[a]
  BY <1>1, <1>3, <1>4 DEF TypeOK
<1>8. \A a \in Requests : reviewed[a] \subseteq reviewed'[a]
  BY <1>3, <1>7
<1> QED
  BY <1>2, <1>3, <1>5, <1>6, <1>7, <1>8 DEF Binds

\* A routed act has its approval before it is stored.
LEMMA RouteStep ==
  ASSUME TypeOK, NEW r \in Requests, Route(r)
  PROVE  /\ req[r].pc = "evaluate" /\ req[r].op \in Writes
         /\ Binds(r, "store_routed")
BY BindStep DEF Route, At, PCs, Verdicts

\* A routed act is stored.
LEMMA StoreRoutedStep ==
  ASSUME TypeOK, NEW r \in Requests, StoreRouted(r)
  PROVE  /\ req[r].pc = "store_routed" /\ Stores(r, "needs_approval", "route")
         /\ UNCHANGED <<account, draft, approvals, audit, now, mix, performed, granted, reviewed>>
BY StoreStep DEF StoreRouted, At, PCs

\* A read is not stored before it is dispatched.
LEMMA StartReadStep ==
  ASSUME TypeOK, NEW r \in Requests, StartRead(r)
  PROVE  /\ req[r].pc = "evaluate" /\ req[r].op \in Reads /\ Judged(r)
         /\ Moves(r, "dispatch") /\ UNCHANGED stored
BY MoveStep DEF StartRead, At, PCs, Judged, Verdicts, Reads, Writes

\* A write, or what was approved, is stored before it is dispatched.
LEMMA StartExecutionStep ==
  ASSUME TypeOK, NEW r \in Requests, StartExecution(r)
  PROVE  /\ \/ req[r].pc = "evaluate" /\ req[r].op \in Writes /\ Judged(r)
            \/ req[r].pc = "execute"
         /\ Stores(r, "executing", "dispatch")
         /\ UNCHANGED <<account, draft, approvals, audit, now, mix, performed, granted, reviewed>>
BY StoreStep DEF StartExecution, At, PCs, Judged, Verdicts

\* The platform carried the action a out once more.
Counts(f, a) == /\ f' \in [Requests -> Nat] /\ f'[a] = f[a] + 1
                /\ \A b \in Requests \ {a} : f'[b] = f[b]

LEMMA PerformedStep ==
  ASSUME TypeOK, NEW a \in Requests, Performed(a)
  PROVE  Counts(performed, a)
BY DEF TypeOK, Performed, Counts

\* The adapter has carried the act out.
LEMMA DispatchOkStep ==
  ASSUME TypeOK, NEW r \in Requests, DispatchOk(r)
  PROVE  /\ req[r].pc = "dispatch" /\ Passes(r, "store_done") /\ Counts(performed, req[r].act)
         /\ UNCHANGED <<account, draft, actions, approvals, audit, now, mix, granted, reviewed>>
<1>1. req[r].act \in Requests
  BY DEF TypeOK, Memory
<1>2. Performed(req[r].act) /\ Goto(r, Past(req[r]), "store_done")
  BY DEF DispatchOk
<1>3. Passes(r, "store_done")
  BY <1>2, PassStep DEF PCs
<1>4. Counts(performed, req[r].act)
  BY <1>1, <1>2, PerformedStep
<1> QED
  BY <1>3, <1>4 DEF DispatchOk, At

\* The adapter has refused the act.
LEMMA DispatchFailsStep ==
  ASSUME TypeOK, NEW r \in Requests, DispatchFails(r)
  PROVE  /\ req[r].pc = "dispatch" /\ req[r].op \notin Reads
         /\ Passes(r, "store_failed") /\ UNCHANGED stored
BY PassStep DEF DispatchFails, At, PCs

\* The adapter has raised, after carrying the act out or not.
LEMMA DispatchRaisesStep ==
  ASSUME TypeOK, NEW r \in Requests, DispatchRaises(r)
  PROVE  /\ req[r].pc = "dispatch" /\ Ends(r, "raise")
         /\ UNCHANGED performed \/ Counts(performed, req[r].act)
         /\ UNCHANGED <<account, draft, actions, approvals, audit, now, mix, granted, reviewed>>
<1>1. req[r].act \in Requests
  BY DEF TypeOK, Memory
<1>2. UNCHANGED performed \/ Performed(req[r].act)
  BY DEF DispatchRaises
<1>3. Ends(r, "raise")
  BY EndStep DEF DispatchRaises
<1>4. UNCHANGED performed \/ Counts(performed, req[r].act)
  BY <1>1, <1>2, PerformedStep
<1> QED
  BY <1>3, <1>4 DEF DispatchRaises, At

\* An act that was carried out is stored as done.
LEMMA StoreDoneStep ==
  ASSUME TypeOK, NEW r \in Requests, StoreDone(r)
  PROVE  /\ req[r].pc = "store_done" /\ Stores(r, "done", "allow")
         /\ UNCHANGED <<account, draft, approvals, audit, now, mix, performed, granted, reviewed>>
BY StoreStep DEF StoreDone, At, PCs

\* An act that failed is stored as failed.
LEMMA StoreFailedStep ==
  ASSUME TypeOK, NEW r \in Requests, StoreFailed(r)
  PROVE  /\ req[r].pc = "store_failed" /\ Stores(r, "failed", "deny")
         /\ UNCHANGED <<account, draft, approvals, audit, now, mix, performed, granted, reviewed>>
BY StoreStep DEF StoreFailed, At, PCs

\* The audit event is the last thing a request writes.
LEMMA RecordStep ==
  ASSUME TypeOK, NEW r \in Requests, Record(r)
  PROVE  /\ req[r].pc \in {"allow", "deny", "route"}
         /\ Only(r) /\ Ended(r, "no") /\ req'[r].events = req[r].events + 1
         /\ audit' \in [Requests -> Events]
         /\ audit'[req[r].act].allow
              = IF req[r].pc = "allow" THEN audit[req[r].act].allow + 1 ELSE audit[req[r].act].allow
         /\ \A a \in Requests \ {req[r].act} : audit'[a] = audit[a]
         /\ UNCHANGED <<account, draft, actions, approvals, now, mix, performed, granted, reviewed>>
<1> DEFINE m == req[r]
           n == [m EXCEPT !.events = m.events + 1]
           k == Rest(r, n, "no")
           e == audit[m.act]
           x == [e EXCEPT ![m.pc] = e[m.pc] + 1]
<1>1. m \in Memory /\ m.act \in Requests /\ m.events \in Nat /\ m.pc \in {"allow", "deny", "route"}
  BY DEF TypeOK, Memory, Record
<1>2. n \in Memory /\ n.op = m.op /\ n.act = m.act /\ n.changed = m.changed
      /\ n.events = m.events + 1
  BY <1>1 DEF Memory
<1>3. req' = [req EXCEPT ![r] = k] /\ audit' = [audit EXCEPT ![m.act] = x]
  BY DEF Record, End
<1> HIDE DEF n
<1>4. /\ k \in Memory /\ k.pc = "ended" /\ k.op = n.op /\ k.act = n.act
      /\ k.changed = n.changed /\ k.events = n.events /\ k.cut = "no"
      /\ k.account = NoAccount /\ k.draft = NoDraft /\ ~k.held /\ ~k.fit /\ ~k.known
  BY <1>2, RestFields
<1> HIDE DEF k
<1>5. Only(r) /\ req'[r] = k
  BY <1>3, <1>4, SetReq
<1>6. e \in Events
  BY <1>1 DEF TypeOK
<1> HIDE DEF e
<1>7. x \in Events /\ x.allow = IF m.pc = "allow" THEN e.allow + 1 ELSE e.allow
  BY <1>1, <1>6 DEF Events
<1> HIDE DEF x
<1>8. /\ audit' \in [Requests -> Events] /\ audit'[m.act] = x
      /\ \A a \in Requests \ {m.act} : audit'[a] = audit[a]
  BY <1>1, <1>3, <1>7 DEF TypeOK
<1>9. Ended(r, "no") /\ req'[r].events = m.events + 1
  BY <1>2, <1>4, <1>5 DEF Ended, Passed
<1> QED
  BY <1>1, <1>5, <1>7, <1>8, <1>9 DEF Record, e

\* A review writes back the approval it has read, with a new state.
Reviewed(r, state) ==
  /\ approvals' \in [Requests -> Approvals]
  /\ approvals'[req[r].act].state = state
  /\ approvals'[req[r].act].pinned = req[r].approval.pinned
  /\ \A a \in Requests \ {req[r].act} : approvals'[a] = approvals[a]

LEMMA SetReviewStep ==
  ASSUME TypeOK, NEW r \in Requests, NEW state \in {"approved", "changes_requested"},
         SetReview(r, state)
  PROVE  Reviewed(r, state)
<1> DEFINE x == [req[r].approval EXCEPT !.state = state]
<1>1. req[r].act \in Requests /\ req[r].approval \in Approvals
  BY DEF TypeOK, Memory
<1>2. x \in Approvals /\ x.state = state /\ x.pinned = req[r].approval.pinned
  BY <1>1 DEF Approvals
<1>3. approvals' = [approvals EXCEPT ![req[r].act] = x]
  BY DEF SetReview
<1> HIDE DEF x
<1> QED
  BY <1>1, <1>2, <1>3 DEF TypeOK, Reviewed

\* A reviewer asks for changes.
LEMMA RequestChangesStep ==
  ASSUME TypeOK, NEW r \in Requests, RequestChanges(r)
  PROVE  /\ req[r].pc = "decide" /\ req[r].op = "changes"
         /\ Reviewed(r, "changes_requested") /\ Ends(r, "no")
         /\ UNCHANGED <<account, draft, actions, audit, now, mix, performed, granted, reviewed>>
BY SetReviewStep, EndStep DEF RequestChanges, At

\* A reviewer rejects, or approves too late.
LEMMA RejectStep ==
  ASSUME TypeOK, NEW r \in Requests, Reject(r)
  PROVE  /\ req[r].pc = "decide" /\ req[r].op \in {"reject", "approve"}
         /\ Reviewed(r, "changes_requested") /\ Passes(r, "store_refused")
         /\ UNCHANGED <<account, draft, actions, audit, now, mix, performed, granted, reviewed>>
BY SetReviewStep, PassStep DEF Reject, At, PCs

\* A reviewer approves in time.
LEMMA ApproveStep ==
  ASSUME TypeOK, NEW r \in Requests, Approve(r)
  PROVE  /\ req[r].pc = "decide" /\ req[r].op = "approve"
         /\ Moves(r, IF HasDraft(req[r].kind) THEN "draft" ELSE "check") /\ UNCHANGED stored
BY MoveStep DEF Approve, At, PCs

\* An approval of a stale draft or a withheld account is refused.
LEMMA RefuseApprovedStep ==
  ASSUME TypeOK, NEW r \in Requests, RefuseApproved(r)
  PROVE  /\ req[r].pc = "check"
         /\ Reviewed(r, "changes_requested") /\ Passes(r, "store_refused")
         /\ UNCHANGED <<account, draft, actions, audit, now, mix, performed, granted, reviewed>>
BY SetReviewStep, PassStep DEF RefuseApproved, At, PCs

\* An approval of a draft that is as it was reviewed is granted.
LEMMA GrantStep ==
  ASSUME TypeOK, NEW r \in Requests, Grant(r)
  PROVE  /\ req[r].pc = "check" /\ ~IsStale(req[r]) /\ Eligible(req[r])
         /\ Reviewed(r, "approved") /\ Moves(r, "execute") /\ Counts(granted, req[r].act)
         /\ UNCHANGED <<account, draft, actions, audit, now, mix, performed, reviewed>>
<1>1. req[r].act \in Requests
  BY DEF TypeOK, Memory
<1>2. Counts(granted, req[r].act)
  BY <1>1 DEF TypeOK, Grant, Counts
<1>3. Reviewed(r, "approved") /\ Moves(r, "execute")
  BY SetReviewStep, MoveStep DEF Grant, PCs
<1> QED
  BY <1>2, <1>3 DEF Grant, At

\* A refused approval leaves its action refused.
LEMMA StoreRefusedStep ==
  ASSUME TypeOK, NEW r \in Requests, StoreRefused(r)
  PROVE  /\ req[r].pc = "store_refused" /\ Stores(r, "refused", "deny")
         /\ UNCHANGED <<account, draft, approvals, audit, now, mix, performed, granted, reviewed>>
BY StoreStep DEF StoreRefused, At, PCs

\* A resubmission binds the approval again.
LEMMA ReopenStep ==
  ASSUME TypeOK, NEW r \in Requests, Reopen(r)
  PROVE  req[r].pc = "reopen" /\ Binds(r, "store_reopened")
BY BindStep DEF Reopen, At, PCs

\* A resubmitted action needs approval again.
LEMMA StoreReopenedStep ==
  ASSUME TypeOK, NEW r \in Requests, StoreReopened(r)
  PROVE  /\ req[r].pc = "store_reopened" /\ Stores(r, "needs_approval", "route")
         /\ UNCHANGED <<account, draft, approvals, audit, now, mix, performed, granted, reviewed>>
BY StoreStep DEF StoreReopened, At, PCs

\* A draft is created unless there is one.
LEMMA CreateDraftStep ==
  ASSUME TypeOK, NEW r \in Requests, CreateDraft(r)
  PROVE  /\ req[r].pc = "write_draft" /\ req[r].op = "create" /\ Ends(r, "no")
         /\ draft' \in Drafts
         /\ draft' = draft \/ (draft = NoDraft /\ draft'.rev = 1)
         /\ UNCHANGED <<account, actions, approvals, audit, now, mix, performed, granted, reviewed>>
<1>1. Ends(r, "no")
  BY EndStep DEF CreateDraft
<1>2. draft' \in Drafts /\ (draft' = draft \/ (draft = NoDraft /\ draft'.rev = 1))
  BY DEF CreateDraft, TypeOK, Drafts
<1> QED
  BY <1>1, <1>2 DEF CreateDraft, At

\* An edit writes the next revision of the draft it has read.
LEMMA WriteDraftStep ==
  ASSUME TypeOK, NEW r \in Requests, WriteDraft(r)
  PROVE  /\ req[r].pc = "write_draft" /\ req[r].op = "edit" /\ Ends(r, "no")
         /\ draft' \in Drafts /\ draft'.rev = req[r].draft.rev + 1 /\ draft'.text = r
         /\ UNCHANGED <<account, actions, approvals, audit, now, mix, performed, granted, reviewed>>
<1>1. Ends(r, "no")
  BY EndStep DEF WriteDraft
<1>2. draft' \in Drafts /\ draft'.rev = req[r].draft.rev + 1 /\ draft'.text = r
  <2>1. req[r].draft.rev \in Nat
    BY DEF TypeOK, Memory, Drafts
  <2> QED
    BY <2>1 DEF WriteDraft, Drafts
<1> QED
  BY <1>1, <1>2 DEF WriteDraft, At

-----------------------------------------------------------------------------
(* Around the requests.                                                    *)

\* What a change of the account leaves of the memory of q: all but two marks.
Alike(q) == req'[q].pc = req[q].pc /\ Ids(q) /\ Views(q) /\ Log(q) /\ req'[q].known = req[q].known

\* A lease is taken or refreshed, and the requests that may still use it know.
LEMMA CheckOutStep ==
  ASSUME TypeOK, NEW a \in Agents, CheckOut(a)
  PROVE  /\ account.holder \in {Nobody, a} /\ account' \in Accounts
         /\ account'.eligible = account.eligible /\ account'.holder = a
         /\ req' \in [Requests -> Memory] /\ UNCHANGED Around
         /\ \A q \in Requests : /\ Alike(q) /\ req'[q].fit = req[q].fit
                                /\ req[q].held => req'[q].held
                                /\ Ahead(q) /\ req[q].op \in Writes /\ AgentOf[q] = a
                                     => req'[q].held
<1>1. account' = [account EXCEPT !.holder = a, !.until = now + LeaseTTL]
      /\ account.holder \in {Nobody, a} /\ UNCHANGED Around
  BY DEF CheckOut
<1>2. account' \in Accounts /\ account'.eligible = account.eligible /\ account'.holder = a
  <2>1. now + LeaseTTL \in Nat /\ account \in Accounts
    BY ActingAssumption DEF TypeOK
  <2> QED
    BY <1>1, <2>1 DEF Accounts
<1> DEFINE h(q) == req[q].held \/ (Ahead(q) /\ req[q].op \in Writes /\ AgentOf[q] = a)
           k(q) == [req[q] EXCEPT !.held = h(q)]
<1>3. req' = [q \in Requests |-> k(q)]
  BY DEF CheckOut
<1>4. \A q \in Requests : h(q) \in BOOLEAN /\ req[q] \in Memory
  BY DEF TypeOK, Memory
<1> HIDE DEF h
<1>5. ASSUME NEW q \in Requests
      PROVE  /\ k(q) \in Memory /\ k(q).pc = req[q].pc /\ k(q).op = req[q].op
             /\ k(q).act = req[q].act /\ k(q).kind = req[q].kind /\ k(q).key = req[q].key
             /\ k(q).account = req[q].account /\ k(q).draft = req[q].draft
             /\ k(q).approval = req[q].approval /\ k(q).held = h(q) /\ k(q).fit = req[q].fit
             /\ k(q).known = req[q].known /\ k(q).changed = req[q].changed
             /\ k(q).events = req[q].events /\ k(q).cut = req[q].cut
  BY <1>4 DEF Memory
<1> HIDE DEF k
<1>6. req' \in [Requests -> Memory] /\ \A q \in Requests : req'[q] = k(q)
  BY <1>3, <1>5
<1>7. \A q \in Requests : Alike(q) /\ req'[q].fit = req[q].fit /\ req'[q].held = h(q)
  BY <1>5, <1>6 DEF Alike, Ids, Views, Log
<1> QED
  BY <1>1, <1>2, <1>6, <1>7 DEF h

\* The account may act again, and the requests under way know.
LEMMA ReactivateStep ==
  ASSUME TypeOK, Reactivate
  PROVE  /\ account' \in Accounts /\ account'.holder = account.holder
         /\ account'.until = account.until
         /\ req' \in [Requests -> Memory] /\ UNCHANGED Around
         /\ \A q \in Requests : /\ Alike(q) /\ req'[q].held = req[q].held
                                /\ req[q].fit \/ Ahead(q) => req'[q].fit
<1>1. account' = [account EXCEPT !.eligible = TRUE] /\ UNCHANGED Around
  BY DEF Reactivate
<1>2. /\ account' \in Accounts /\ account'.holder = account.holder
      /\ account'.until = account.until
  BY <1>1 DEF TypeOK, Accounts
<1> DEFINE f(q) == req[q].fit \/ Ahead(q)
           k(q) == [req[q] EXCEPT !.fit = f(q)]
<1>3. req' = [q \in Requests |-> k(q)]
  BY DEF Reactivate
<1>4. \A q \in Requests : f(q) \in BOOLEAN /\ req[q] \in Memory
  BY DEF TypeOK, Memory, Ahead
<1> HIDE DEF f
<1>5. ASSUME NEW q \in Requests
      PROVE  /\ k(q) \in Memory /\ k(q).pc = req[q].pc /\ k(q).op = req[q].op
             /\ k(q).act = req[q].act /\ k(q).kind = req[q].kind /\ k(q).key = req[q].key
             /\ k(q).account = req[q].account /\ k(q).draft = req[q].draft
             /\ k(q).approval = req[q].approval /\ k(q).held = req[q].held /\ k(q).fit = f(q)
             /\ k(q).known = req[q].known /\ k(q).changed = req[q].changed
             /\ k(q).events = req[q].events /\ k(q).cut = req[q].cut
  BY <1>4 DEF Memory
<1> HIDE DEF k
<1>6. req' \in [Requests -> Memory] /\ \A q \in Requests : req'[q] = k(q)
  BY <1>3, <1>5
<1>7. \A q \in Requests : Alike(q) /\ req'[q].held = req[q].held /\ req'[q].fit = f(q)
  BY <1>5, <1>6 DEF Alike, Ids, Views, Log
<1> QED
  BY <1>1, <1>2, <1>6, <1>7 DEF f

\* A lease is checked in, or has run out, or the account may not act any more.
LEMMA AccountStep ==
  ASSUME TypeOK, CheckIn \/ Revoke \/ Tick
  PROVE  /\ account' \in Accounts /\ now' \in Nat /\ now <= now' /\ req' = req
         /\ account'.eligible => account.eligible
         /\ account'.holder # Nobody => account'.holder = account.holder
                                        /\ account'.until = account.until
         /\ UNCHANGED <<draft, actions, approvals, audit, mix, performed, granted, reviewed>>
<1>0. account \in Accounts /\ now \in Nat
  BY DEF TypeOK
<1>1. CASE CheckIn
  <2>1. /\ account' = [account EXCEPT !.holder = Nobody, !.until = 0]
        /\ UNCHANGED req /\ UNCHANGED Around
    BY <1>1 DEF CheckIn
  <2>2. account' \in Accounts /\ account'.eligible = account.eligible /\ account'.holder = Nobody
    BY <1>0, <2>1 DEF Accounts
  <2> QED
    BY <1>0, <2>1, <2>2 DEF Around
<1>2. CASE Revoke
  <2>1. /\ account' = [account EXCEPT !.eligible = FALSE]
        /\ UNCHANGED req /\ UNCHANGED Around
    BY <1>2 DEF Revoke
  <2>2. /\ account' \in Accounts /\ ~account'.eligible /\ account'.holder = account.holder
        /\ account'.until = account.until
    BY <1>0, <2>1 DEF Accounts
  <2> QED
    BY <1>0, <2>1, <2>2 DEF Around
<1>3. CASE Tick
  <2>1. /\ now' = now + 1
        /\ \/ account' = [account EXCEPT !.holder = Nobody, !.until = 0]
           \/ account' = account
        /\ UNCHANGED <<draft, actions, approvals, audit, mix, req, performed, granted, reviewed>>
    BY <1>3 DEF Tick
  <2>2. ASSUME account' = [account EXCEPT !.holder = Nobody, !.until = 0]
        PROVE  /\ account' \in Accounts /\ account'.eligible = account.eligible
               /\ account'.holder = Nobody
    BY <1>0, <2>2 DEF Accounts
  <2> QED
    BY <1>0, <2>1, <2>2
<1> QED
  BY <1>1, <1>2, <1>3

\* A process dies with all its requests.
LEMMA CrashStep ==
  ASSUME TypeOK, NEW p, Crash(p)
  PROVE  /\ req' \in [Requests -> Memory] /\ UNCHANGED stored
         /\ \A q \in Requests :
              \/ req'[q] = req[q]
              \/ Running(q) /\ Ended(q, "crash") /\ req'[q].events = req[q].events
<1> DEFINE k(q) == IF ProcessOf[q] = p /\ Running(q) THEN Rest(q, req[q], "crash") ELSE req[q]
<1>1. req' = [q \in Requests |-> k(q)] /\ UNCHANGED stored
  BY DEF Crash
<1>2. ASSUME NEW q \in Requests
      PROVE  /\ k(q) \in Memory
             /\ \/ k(q) = req[q]
                \/ /\ Running(q) /\ k(q).pc = "ended" /\ k(q).op = req[q].op
                   /\ k(q).act = req[q].act /\ k(q).changed = req[q].changed
                   /\ k(q).events = req[q].events /\ k(q).cut = "crash"
                   /\ k(q).account = NoAccount /\ k(q).draft = NoDraft
                   /\ ~k(q).held /\ ~k(q).fit /\ ~k(q).known
  <2>1. req[q] \in Memory
    BY DEF TypeOK
  <2> DEFINE x == Rest(q, req[q], "crash")
  <2>2. /\ x \in Memory /\ x.pc = "ended" /\ x.op = req[q].op /\ x.act = req[q].act
        /\ x.changed = req[q].changed /\ x.events = req[q].events /\ x.cut = "crash"
        /\ x.account = NoAccount /\ x.draft = NoDraft /\ ~x.held /\ ~x.fit /\ ~x.known
    BY <2>1, RestFields
  <2> HIDE DEF x
  <2>3. k(q) = req[q] \/ (Running(q) /\ k(q) = x)
    BY DEF x
  <2> QED
    BY <2>1, <2>2, <2>3
<1> HIDE DEF k
<1>3. req' \in [Requests -> Memory] /\ \A q \in Requests : req'[q] = k(q)
  BY <1>1, <1>2
<1> QED
  BY <1>1, <1>2, <1>3 DEF Ended, Passed

-----------------------------------------------------------------------------
(* Types and paths.                                                        *)

\* Every action keeps the variables in their types.
LEMMA TypeStep == TypeOK /\ [Next]_vars => TypeOK'
<1> SUFFICES ASSUME TypeOK, [Next]_vars PROVE TypeOK'
  OBVIOUS
<1>1. ASSUME NEW r \in Requests, Begin(r) PROVE TypeOK'
  BY <1>1, BeginStep DEF TypeOK, Starts, Only, stored
<1>2. ASSUME NEW r \in Requests, ReadAccount(r) PROVE TypeOK'
  BY <1>2, ReadAccountStep DEF TypeOK, Only, stored
<1>3. ASSUME NEW r \in Requests, ReadDraft(r) PROVE TypeOK'
  BY <1>3, ReadDraftStep DEF TypeOK, Ends, Only, stored
<1>4. ASSUME NEW r \in Requests, Resolve(r) PROVE TypeOK'
  BY <1>4, ResolveStep DEF TypeOK, Moves, Ends, Only, stored
<1>5. ASSUME NEW r \in Requests, Lookup(r) PROVE TypeOK'
  BY <1>5, LookupStep DEF TypeOK, Moves, Ends, Only, stored
<1>6. ASSUME NEW r \in Requests, ReadApproval(r) PROVE TypeOK'
  BY <1>6, ReadApprovalStep DEF TypeOK, Only, stored
<1>7. ASSUME NEW r \in Requests, ReadAction(r) PROVE TypeOK'
  BY <1>7, ReadActionStep DEF TypeOK, Ends, Only, stored
<1>8. ASSUME NEW r \in Requests, Refuse(r) PROVE TypeOK'
  BY <1>8, RefuseStep DEF TypeOK, Stores, Only
<1>9. ASSUME NEW r \in Requests, Route(r) PROVE TypeOK'
  BY <1>9, RouteStep DEF TypeOK, Binds, Passes, Only
<1>10. ASSUME NEW r \in Requests, StoreRouted(r) PROVE TypeOK'
  BY <1>10, StoreRoutedStep DEF TypeOK, Stores, Only
<1>11. ASSUME NEW r \in Requests, StartRead(r) PROVE TypeOK'
  BY <1>11, StartReadStep DEF TypeOK, Moves, Only, stored
<1>12. ASSUME NEW r \in Requests, StartExecution(r) PROVE TypeOK'
  BY <1>12, StartExecutionStep DEF TypeOK, Stores, Only
<1>13. ASSUME NEW r \in Requests, DispatchOk(r) PROVE TypeOK'
  BY <1>13, DispatchOkStep DEF TypeOK, Passes, Counts, Only
<1>14. ASSUME NEW r \in Requests, DispatchFails(r) PROVE TypeOK'
  BY <1>14, DispatchFailsStep DEF TypeOK, Passes, Only, stored
<1>15. ASSUME NEW r \in Requests, DispatchRaises(r) PROVE TypeOK'
  BY <1>15, DispatchRaisesStep DEF TypeOK, Ends, Counts, Only
<1>16. ASSUME NEW r \in Requests, StoreDone(r) PROVE TypeOK'
  BY <1>16, StoreDoneStep DEF TypeOK, Stores, Only
<1>17. ASSUME NEW r \in Requests, StoreFailed(r) PROVE TypeOK'
  BY <1>17, StoreFailedStep DEF TypeOK, Stores, Only
<1>18. ASSUME NEW r \in Requests, Record(r) PROVE TypeOK'
  BY <1>18, RecordStep DEF TypeOK, Only
<1>19. ASSUME NEW r \in Requests, RequestChanges(r) PROVE TypeOK'
  BY <1>19, RequestChangesStep DEF TypeOK, Reviewed, Ends, Only
<1>20. ASSUME NEW r \in Requests, Reject(r) PROVE TypeOK'
  BY <1>20, RejectStep DEF TypeOK, Reviewed, Passes, Only
<1>21. ASSUME NEW r \in Requests, Approve(r) PROVE TypeOK'
  BY <1>21, ApproveStep DEF TypeOK, Moves, Only, stored
<1>22. ASSUME NEW r \in Requests, RefuseApproved(r) PROVE TypeOK'
  BY <1>22, RefuseApprovedStep DEF TypeOK, Reviewed, Passes, Only
<1>23. ASSUME NEW r \in Requests, Grant(r) PROVE TypeOK'
  BY <1>23, GrantStep DEF TypeOK, Reviewed, Moves, Counts, Only
<1>24. ASSUME NEW r \in Requests, StoreRefused(r) PROVE TypeOK'
  BY <1>24, StoreRefusedStep DEF TypeOK, Stores, Only
<1>25. ASSUME NEW r \in Requests, Reopen(r) PROVE TypeOK'
  BY <1>25, ReopenStep DEF TypeOK, Binds, Passes, Only
<1>26. ASSUME NEW r \in Requests, StoreReopened(r) PROVE TypeOK'
  BY <1>26, StoreReopenedStep DEF TypeOK, Stores, Only
<1>27. ASSUME NEW r \in Requests, CreateDraft(r) PROVE TypeOK'
  BY <1>27, CreateDraftStep DEF TypeOK, Ends, Only
<1>28. ASSUME NEW r \in Requests, WriteDraft(r) PROVE TypeOK'
  BY <1>28, WriteDraftStep DEF TypeOK, Ends, Only
<1>29. ASSUME NEW p, Crash(p) PROVE TypeOK'
  BY <1>29, CrashStep DEF TypeOK, stored
<1>30. CASE Tick \/ CheckIn \/ Revoke
  BY <1>30, AccountStep DEF TypeOK
<1>31. CASE Reactivate
  BY <1>31, ReactivateStep DEF TypeOK, Around
<1>32. ASSUME NEW a \in Agents, CheckOut(a) PROVE TypeOK'
  BY <1>32, CheckOutStep DEF TypeOK, Around
<1>33. CASE UNCHANGED vars
  BY <1>33 DEF TypeOK, vars
<1> QED
    BY <1>1, <1>2, <1>3, <1>4, <1>5, <1>6, <1>7, <1>8, <1>9, <1>10, <1>11, <1>12, <1>13, <1>14,
     <1>15, <1>16, <1>17, <1>18, <1>19, <1>20, <1>21, <1>22, <1>23, <1>24, <1>25, <1>26, <1>27,
     <1>28, <1>29, <1>30, <1>31, <1>32, <1>33 DEF Next, Serve

\* No request has begun.
LEMMA InitReq ==
  ASSUME Init, NEW r \in Requests
  PROVE  /\ req[r] \in Memory /\ req[r].pc \in {"new", "ended"} /\ req[r].op = "edit"
         /\ req[r].act = r /\ ~req[r].changed /\ req[r].events = 0 /\ ~req[r].known
         /\ req[r].draft = NoDraft /\ req[r].approval = NoApproval
         /\ req[r].pc = "ended" \/ req[r].cut = "no"
<1> DEFINE b == Blank(r)
           pc == IF OpsOf[mix][r] = {} THEN "ended" ELSE "new"
<1>1. /\ b \in Memory /\ b.op = "edit" /\ b.act = r /\ ~b.changed /\ b.events = 0 /\ ~b.known
      /\ b.draft = NoDraft /\ b.approval = NoApproval /\ b.cut = "no"
  BY BlankTypes DEF Blank
<1>2. req[r] = [b EXCEPT !.pc = pc]
  BY DEF Init
<1>3. pc \in {"new", "ended"} /\ pc \in PCs
  BY DEF PCs
<1> HIDE DEF b, pc
<1> QED
  BY <1>1, <1>2, <1>3 DEF Memory

\* Every variable stays in its type.
THEOREM TypeCorrect == Spec => []TypeOK
<1>1. Init => TypeOK
  <2> SUFFICES ASSUME Init PROVE TypeOK
    OBVIOUS
  <2>1. \A r \in Requests : req[r] \in Memory
    BY InitReq
  <2>2. req \in [Requests -> Memory]
    BY <2>1 DEF Init
  <2>3. NoAction \in Actions
    BY DEF NoAction, Actions, Kinds, Writes
  <2>4. account \in Accounts /\ draft \in Drafts
    BY BlankTypes DEF Init, Accounts, Drafts
  <2>5. approvals \in [Requests -> Approvals] /\ actions \in [Requests -> Actions]
    BY <2>3, BlankTypes DEF Init
  <2> QED
    BY <2>2, <2>4, <2>5 DEF Init, TypeOK, Events
<1> QED
  BY <1>1, TypeStep, PTL DEF Spec

\* The calls that come to a step, and how far each request has got with its
\* action and its audit event.
Path(r) ==
  LET m == req[r] IN
  /\ m.op \notin Reviews => m.act = r
  /\ m.pc = "new" => m.op = "edit"
  /\ m.pc = "account" => m.op \in Kinds \cup Reviews \cup {"create"}
  /\ m.pc = "draft" => m.op \in {"publish", "comment", "approve", "resubmit", "edit"}
  /\ m.pc \in {"resolve", "evaluate"} => m.op \in Kinds
  /\ m.pc \in {"lookup", "store_routed"} => m.op \in Writes
  /\ m.pc \in {"approval", "action"} => m.op \in Reviews
  /\ m.pc = "decide" => m.op \in {"approve", "reject", "changes"}
  /\ m.pc \in {"check", "execute"} => m.op = "approve"
  /\ m.pc = "store_refused" => m.op \in {"approve", "reject"}
  /\ m.pc \in {"reopen", "store_reopened"} => m.op = "resubmit"
  /\ m.pc \in {"dispatch", "store_done", "store_failed"} => Acts(m.op)
  /\ m.pc = "write_draft" => m.op \in {"create", "edit"}
  /\ m.op \in Kinds /\ Running(r) => m.kind = m.op /\ m.key = OwnKey(r, m.op)
  /\ m.changed => m.pc \in {"dispatch", "store_done", "store_failed", "allow", "deny", "route",
                            "ended"}
  /\ m.pc \in {"allow", "deny", "route"} => m.changed
  /\ m.pc # "ended" => m.events = 0 /\ m.cut = "no"
  /\ m.pc = "ended" /\ m.changed /\ m.cut = "no" => m.events = 1
Paths == \A r \in Requests : Path(r)

\* Every request stays on the path of its call.
LEMMA PathStep == TypeOK /\ Paths /\ [Next]_vars => Paths'
<1> SUFFICES ASSUME TypeOK, Paths, [Next]_vars PROVE Paths'
  OBVIOUS
<1> USE DEF Ops, Kinds, Writes, Reads, Reviews, Acts, Running
<1>0. ASSUME NEW r \in Requests, Only(r), Path(r)' PROVE Paths'
  BY <1>0 DEF Only, Paths, Path, OwnKey
<1>1. ASSUME NEW r \in Requests, Begin(r) PROVE Paths'
  <2>1. Only(r) /\ Path(r)
    BY <1>1, BeginStep DEF Paths, Starts, Only
  <2>2. Path(r)'
    BY <1>1, <2>1, BeginStep DEF Path, Starts, Only, Ids, Log, Ended, FirstStep, OwnKey
  <2> QED
    BY <1>0, <2>1, <2>2
<1>2. ASSUME NEW r \in Requests, ReadAccount(r) PROVE Paths'
  <2>1. Only(r) /\ Path(r)
    BY <1>2, ReadAccountStep DEF Paths, Only
  <2>2. Path(r)'
    BY <1>2, <2>1, ReadAccountStep DEF Path, Only, Ids, Log, Ended, HasDraft, HasTarget
  <2> QED
    BY <1>0, <2>1, <2>2
<1>3. ASSUME NEW r \in Requests, ReadDraft(r) PROVE Paths'
  <2>1. Only(r) /\ Path(r)
    BY <1>3, ReadDraftStep DEF Paths, Ends, Only
  <2>2. Path(r)'
    BY <1>3, <2>1, ReadDraftStep DEF Path, Ends, Only, Ids, Log, Ended
  <2> QED
    BY <1>0, <2>1, <2>2
<1>4. ASSUME NEW r \in Requests, Resolve(r) PROVE Paths'
  <2>1. Only(r) /\ Path(r)
    BY <1>4, ResolveStep DEF Paths, Moves, Ends, Only
  <2>2. Path(r)'
    BY <1>4, <2>1, ResolveStep DEF Path, Moves, Ends, Only, Ids, Log, Ended
  <2> QED
    BY <1>0, <2>1, <2>2
<1>5. ASSUME NEW r \in Requests, Lookup(r) PROVE Paths'
  <2>1. Only(r) /\ Path(r)
    BY <1>5, LookupStep DEF Paths, Moves, Ends, Only
  <2>2. Path(r)'
    BY <1>5, <2>1, LookupStep DEF Path, Moves, Ends, Only, Ids, Log, Ended
  <2> QED
    BY <1>0, <2>1, <2>2
<1>6. ASSUME NEW r \in Requests, ReadApproval(r) PROVE Paths'
  <2>1. Only(r) /\ Path(r)
    BY <1>6, ReadApprovalStep DEF Paths, Only
  <2>2. Path(r)'
    BY <1>6, <2>1, ReadApprovalStep DEF Path, Only, Ids, Log, Ended
  <2> QED
    BY <1>0, <2>1, <2>2
<1>7. ASSUME NEW r \in Requests, ReadAction(r) PROVE Paths'
  <2>1. Only(r) /\ Path(r)
    BY <1>7, ReadActionStep DEF Paths, Ends, Only
  <2>2. Path(r)'
    BY <1>7, <2>1, ReadActionStep DEF Path, Ends, Only, Ids, Log, Ended
  <2> QED
    BY <1>0, <2>1, <2>2
<1>8. ASSUME NEW r \in Requests, Refuse(r) PROVE Paths'
  <2>1. Only(r) /\ Path(r)
    BY <1>8, RefuseStep DEF Paths, Stores, Only
  <2>2. Path(r)'
    BY <1>8, <2>1, RefuseStep DEF Path, Stores, Only, Ids, Log, Ended
  <2> QED
    BY <1>0, <2>1, <2>2
<1>9. ASSUME NEW r \in Requests, Route(r) PROVE Paths'
  <2>1. Only(r) /\ Path(r)
    BY <1>9, RouteStep DEF Paths, Binds, Passes, Only
  <2>2. Path(r)'
    BY <1>9, <2>1, RouteStep DEF Path, Binds, Passes, Only, Ids, Log, Ended
  <2> QED
    BY <1>0, <2>1, <2>2
<1>10. ASSUME NEW r \in Requests, StoreRouted(r) PROVE Paths'
  <2>1. Only(r) /\ Path(r)
    BY <1>10, StoreRoutedStep DEF Paths, Stores, Only
  <2>2. Path(r)'
    BY <1>10, <2>1, StoreRoutedStep DEF Path, Stores, Only, Ids, Log, Ended
  <2> QED
    BY <1>0, <2>1, <2>2
<1>11. ASSUME NEW r \in Requests, StartRead(r) PROVE Paths'
  <2>1. Only(r) /\ Path(r)
    BY <1>11, StartReadStep DEF Paths, Moves, Only
  <2>2. Path(r)'
    BY <1>11, <2>1, StartReadStep DEF Path, Moves, Only, Ids, Log, Ended
  <2> QED
    BY <1>0, <2>1, <2>2
<1>12. ASSUME NEW r \in Requests, StartExecution(r) PROVE Paths'
  <2>1. Only(r) /\ Path(r)
    BY <1>12, StartExecutionStep DEF Paths, Stores, Only
  <2>2. Path(r)'
    BY <1>12, <2>1, StartExecutionStep DEF Path, Stores, Only, Ids, Log, Ended
  <2> QED
    BY <1>0, <2>1, <2>2
<1>13. ASSUME NEW r \in Requests, DispatchOk(r) PROVE Paths'
  <2>1. Only(r) /\ Path(r)
    BY <1>13, DispatchOkStep DEF Paths, Passes, Only
  <2>2. Path(r)'
    BY <1>13, <2>1, DispatchOkStep DEF Path, Passes, Only, Ids, Log, Ended
  <2> QED
    BY <1>0, <2>1, <2>2
<1>14. ASSUME NEW r \in Requests, DispatchFails(r) PROVE Paths'
  <2>1. Only(r) /\ Path(r)
    BY <1>14, DispatchFailsStep DEF Paths, Passes, Only
  <2>2. Path(r)'
    BY <1>14, <2>1, DispatchFailsStep DEF Path, Passes, Only, Ids, Log, Ended
  <2> QED
    BY <1>0, <2>1, <2>2
<1>15. ASSUME NEW r \in Requests, DispatchRaises(r) PROVE Paths'
  <2>1. Only(r) /\ Path(r)
    BY <1>15, DispatchRaisesStep DEF Paths, Ends, Only
  <2>2. Path(r)'
    BY <1>15, <2>1, DispatchRaisesStep DEF Path, Ends, Only, Ids, Log, Ended
  <2> QED
    BY <1>0, <2>1, <2>2
<1>16. ASSUME NEW r \in Requests, StoreDone(r) PROVE Paths'
  <2>1. Only(r) /\ Path(r)
    BY <1>16, StoreDoneStep DEF Paths, Stores, Only
  <2>2. Path(r)'
    BY <1>16, <2>1, StoreDoneStep DEF Path, Stores, Only, Ids, Log, Ended
  <2> QED
    BY <1>0, <2>1, <2>2
<1>17. ASSUME NEW r \in Requests, StoreFailed(r) PROVE Paths'
  <2>1. Only(r) /\ Path(r)
    BY <1>17, StoreFailedStep DEF Paths, Stores, Only
  <2>2. Path(r)'
    BY <1>17, <2>1, StoreFailedStep DEF Path, Stores, Only, Ids, Log, Ended
  <2> QED
    BY <1>0, <2>1, <2>2
<1>18. ASSUME NEW r \in Requests, Record(r) PROVE Paths'
  <2>1. Only(r) /\ Path(r)
    BY <1>18, RecordStep DEF Paths, Only
  <2>2. Path(r)'
    BY <1>18, <2>1, RecordStep DEF Path, Only, Ids, Log, Ended
  <2> QED
    BY <1>0, <2>1, <2>2
<1>19. ASSUME NEW r \in Requests, RequestChanges(r) PROVE Paths'
  <2>1. Only(r) /\ Path(r)
    BY <1>19, RequestChangesStep DEF Paths, Ends, Only
  <2>2. Path(r)'
    BY <1>19, <2>1, RequestChangesStep DEF Path, Ends, Only, Ids, Log, Ended
  <2> QED
    BY <1>0, <2>1, <2>2
<1>20. ASSUME NEW r \in Requests, Reject(r) PROVE Paths'
  <2>1. Only(r) /\ Path(r)
    BY <1>20, RejectStep DEF Paths, Passes, Only
  <2>2. Path(r)'
    BY <1>20, <2>1, RejectStep DEF Path, Passes, Only, Ids, Log, Ended
  <2> QED
    BY <1>0, <2>1, <2>2
<1>21. ASSUME NEW r \in Requests, Approve(r) PROVE Paths'
  <2>1. Only(r) /\ Path(r)
    BY <1>21, ApproveStep DEF Paths, Moves, Only
  <2>2. Path(r)'
    BY <1>21, <2>1, ApproveStep DEF Path, Moves, Only, Ids, Log, Ended
  <2> QED
    BY <1>0, <2>1, <2>2
<1>22. ASSUME NEW r \in Requests, RefuseApproved(r) PROVE Paths'
  <2>1. Only(r) /\ Path(r)
    BY <1>22, RefuseApprovedStep DEF Paths, Passes, Only
  <2>2. Path(r)'
    BY <1>22, <2>1, RefuseApprovedStep DEF Path, Passes, Only, Ids, Log, Ended
  <2> QED
    BY <1>0, <2>1, <2>2
<1>23. ASSUME NEW r \in Requests, Grant(r) PROVE Paths'
  <2>1. Only(r) /\ Path(r)
    BY <1>23, GrantStep DEF Paths, Moves, Only
  <2>2. Path(r)'
    BY <1>23, <2>1, GrantStep DEF Path, Moves, Only, Ids, Log, Ended
  <2> QED
    BY <1>0, <2>1, <2>2
<1>24. ASSUME NEW r \in Requests, StoreRefused(r) PROVE Paths'
  <2>1. Only(r) /\ Path(r)
    BY <1>24, StoreRefusedStep DEF Paths, Stores, Only
  <2>2. Path(r)'
    BY <1>24, <2>1, StoreRefusedStep DEF Path, Stores, Only, Ids, Log, Ended
  <2> QED
    BY <1>0, <2>1, <2>2
<1>25. ASSUME NEW r \in Requests, Reopen(r) PROVE Paths'
  <2>1. Only(r) /\ Path(r)
    BY <1>25, ReopenStep DEF Paths, Binds, Passes, Only
  <2>2. Path(r)'
    BY <1>25, <2>1, ReopenStep DEF Path, Binds, Passes, Only, Ids, Log, Ended
  <2> QED
    BY <1>0, <2>1, <2>2
<1>26. ASSUME NEW r \in Requests, StoreReopened(r) PROVE Paths'
  <2>1. Only(r) /\ Path(r)
    BY <1>26, StoreReopenedStep DEF Paths, Stores, Only
  <2>2. Path(r)'
    BY <1>26, <2>1, StoreReopenedStep DEF Path, Stores, Only, Ids, Log, Ended
  <2> QED
    BY <1>0, <2>1, <2>2
<1>27. ASSUME NEW r \in Requests, CreateDraft(r) PROVE Paths'
  <2>1. Only(r) /\ Path(r)
    BY <1>27, CreateDraftStep DEF Paths, Ends, Only
  <2>2. Path(r)'
    BY <1>27, <2>1, CreateDraftStep DEF Path, Ends, Only, Ids, Log, Ended
  <2> QED
    BY <1>0, <2>1, <2>2
<1>28. ASSUME NEW r \in Requests, WriteDraft(r) PROVE Paths'
  <2>1. Only(r) /\ Path(r)
    BY <1>28, WriteDraftStep DEF Paths, Ends, Only
  <2>2. Path(r)'
    BY <1>28, <2>1, WriteDraftStep DEF Path, Ends, Only, Ids, Log, Ended
  <2> QED
    BY <1>0, <2>1, <2>2
<1>29. ASSUME NEW p, Crash(p) PROVE Paths'
  BY <1>29, CrashStep DEF Paths, Path, Ended
<1>30. CASE Tick \/ CheckIn \/ Revoke
  BY <1>30, AccountStep DEF Paths, Path
<1>31. CASE Reactivate
  BY <1>31, ReactivateStep DEF Paths, Path, Alike, Ids, Log
<1>32. ASSUME NEW a \in Agents, CheckOut(a) PROVE Paths'
  BY <1>32, CheckOutStep DEF Paths, Path, Alike, Ids, Log
<1>33. CASE UNCHANGED vars
  BY <1>33 DEF Paths, Path, vars
<1> QED
    BY <1>1, <1>2, <1>3, <1>4, <1>5, <1>6, <1>7, <1>8, <1>9, <1>10, <1>11, <1>12, <1>13, <1>14,
     <1>15, <1>16, <1>17, <1>18, <1>19, <1>20, <1>21, <1>22, <1>23, <1>24, <1>25, <1>26, <1>27,
     <1>28, <1>29, <1>30, <1>31, <1>32, <1>33 DEF Next, Serve

\* Every request is on the path of its call throughout.
THEOREM OnPath == Spec => [](TypeOK /\ Paths)
<1>1. Init => Paths
  <2> SUFFICES ASSUME Init, NEW r \in Requests PROVE Path(r)
    BY DEF Paths
  <2>1. /\ req[r].pc \in {"new", "ended"} /\ req[r].op = "edit" /\ req[r].act = r
        /\ ~req[r].changed /\ req[r].events = 0 /\ (req[r].pc = "ended" \/ req[r].cut = "no")
    BY InitReq
  <2> QED
    BY <2>1 DEF Path, Running, Kinds, Writes, Reads
<1> QED
  BY <1>1, TypeCorrect, PathStep, PTL DEF Spec
=============================================================================
