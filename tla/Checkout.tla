------------------------------ MODULE Checkout ------------------------------
(***************************************************************************)
(* The checkout lock of one account: LockService (actions/locking.py) over *)
(* the compare-and-set of AccountRepository.update (db/repositories.py),   *)
(* together with the other writers of the same row, patch under the lock   *)
(* and the read-modify-write services that take no lock.                   *)
(*                                                                         *)
(* Calls run in several server processes that share the database, so each  *)
(* database session is one step and steps of different calls interleave    *)
(* freely.  A call copies the whole row, reads the clock, edits its copy   *)
(* and writes the whole copy back if the version has not moved.            *)
(***************************************************************************)
EXTENDS Naturals, FiniteSets

CONSTANTS Calls,        \* calls that may be running at the same time
          Holders,      \* agent names callers pass as holder
          NoLock,       \* account.lock is None
          MaxTTL,       \* longest lease, in clock ticks
          MaxRetries,   \* _MAX_CAS_RETRIES
          MaxTime,      \* bound: the clock stops here
          MaxVersion,   \* bound: no call begins once the row is this new
          MaxTokens     \* bound: no call begins once this many are minted

Leases == [holder : Holders, token : Nat, expiresAt : Nat]

ASSUME NoLockAssumption == NoLock \notin Leases
ASSUME BoundsAssumption ==
  /\ MaxTTL \in Nat \ {0}
  /\ MaxRetries \in Nat \ {0}
  /\ MaxTime \in Nat
  /\ MaxVersion \in Nat
  /\ MaxTokens \in Nat

VARIABLES row,      \* the stored account: version, lock, edits to other fields
          now,      \* clock.now()
          minted,   \* lock tokens generated so far
          call,     \* what each running call has in memory
          issued,   \* history: tokens that ever reached the row in a new lease
          acked     \* history: edits whose caller was told they succeeded

vars == <<row, now, minted, call, issued, acked>>

Ops == {"checkout", "refresh", "checkin", "patch", "edit"}

Locks == Leases \cup {NoLock}
Rows == [version : Nat, lock : Locks, edits : Nat]

\* pc is the next database session or clock reading of the call; holder,
\* token and seen are its parameters, copy its copy of the account; tries
\* counts lost compare-and-sets and began is the version when it began.
CallStates == [pc : {"read", "check", "build", "cas"},
               op : Ops, holder : Holders, token : Nat, seen : Nat,
               copy : Rows, tries : Nat, began : Nat]
NoCall == [pc |-> "idle"]

-----------------------------------------------------------------------------
IsActive(lock) == lock # NoLock /\ now < lock.expiresAt

HeldBy(lock, h, t) == IsActive(lock) /\ lock.holder = h /\ lock.token = t

\* LockService.checkout refuses only an active lock of somebody else.
HeldByOther(lock, h) == IsActive(lock) /\ lock.holder # h

\* Broken variants: arguments swapped; a lease one tick too long.
NewLeaseSwapped(h, t, ttl) == [holder |-> t, token |-> h, expiresAt |-> now + ttl]
NewLeaseTooLong(h, t, ttl) == [holder |-> h, token |-> t, expiresAt |-> now + ttl + 1]
NewLease(h, t, ttl) == [holder |-> h, token |-> t, expiresAt |-> now + ttl]

Running(c) == call[c] # NoCall

Init ==
  /\ row = [version |-> 1, lock |-> NoLock, edits |-> 0]
  /\ now = 0
  /\ minted = 0
  /\ call = [c \in Calls |-> NoCall]
  /\ issued = {}
  /\ acked = 0

-----------------------------------------------------------------------------
(* A caller enters the service.  The token it presents is one it or its    *)
(* peers were given; the version a patch expects is one it may have read.  *)

Enter(c, op, h, t, s) ==
  /\ ~Running(c)
  /\ row.version < MaxVersion /\ minted < MaxTokens
  /\ call' = [call EXCEPT ![c] =
                [pc |-> "read", op |-> op, holder |-> h, token |-> t, seen |-> s,
                 copy |-> row, tries |-> 0, began |-> row.version]]
  /\ UNCHANGED <<row, now, minted, issued, acked>>

CallCheckout(c) == \E h \in Holders : Enter(c, "checkout", h, 0, 0)
CallRefresh(c)  == \E h \in Holders, t \in issued : Enter(c, "refresh", h, t, 0)
CallCheckin(c)  == \E h \in Holders, t \in issued : Enter(c, "checkin", h, t, 0)
CallPatch(c)    == \E h \in Holders, t \in issued, s \in 1 .. row.version :
                     Enter(c, "patch", h, t, s)
CallEdit(c)     == \E h \in Holders : Enter(c, "edit", h, 0, 0)

\* The call returns or raises; nothing of it stays in memory.
Return(c) == call' = [call EXCEPT ![c] = NoCall]

Goto(c, pc, copy) == call' = [call EXCEPT ![c] = [@ EXCEPT !.pc = pc, !.copy = copy]]

\* accounts.get(account_id): one session, the whole row.
Read(c) ==
  /\ call[c].pc = "read"
  /\ Goto(c, "check", row)
  /\ UNCHANGED <<row, now, minted, issued, acked>>

-----------------------------------------------------------------------------
(* Deciding on the copy.  Each of these reads the clock once.              *)

CheckoutRefused(c) ==
  /\ call[c].pc = "check" /\ call[c].op = "checkout"
  /\ HeldByOther(call[c].copy.lock, call[c].holder)
  /\ Return(c)
  /\ UNCHANGED <<row, now, minted, issued, acked>>

CheckoutBuild(c) ==
  LET k == call[c] IN
  /\ k.pc = "check" /\ k.op = "checkout"
  /\ ~HeldByOther(k.copy.lock, k.holder)
  /\ minted' = minted + 1
  /\ \E ttl \in 1 .. MaxTTL :
       Goto(c, "cas", [k.copy EXCEPT !.lock =
                               NewLease(k.holder, minted + 1, ttl)])
  /\ UNCHANGED <<row, now, issued, acked>>

\* refresh reads the clock twice: for the check, and for the new expiry.
RefreshCheck(c) ==
  LET k == call[c] IN
  /\ k.pc = "check" /\ k.op = "refresh"
  /\ IF HeldBy(k.copy.lock, k.holder, k.token)
       THEN Goto(c, "build", k.copy)
       ELSE Return(c)
  /\ UNCHANGED <<row, now, minted, issued, acked>>

RefreshBuild(c) ==
  /\ call[c].pc = "build"
  /\ \E ttl \in 1 .. MaxTTL :
       Goto(c, "cas", [call[c].copy EXCEPT !.lock.expiresAt = now + ttl])
  /\ UNCHANGED <<row, now, minted, issued, acked>>

\* Broken variant: the name is asked for, and the token is not.
CheckinCheckByName(c) ==
  LET k == call[c] IN
  /\ k.pc = "check" /\ k.op = "checkin"
  /\ IF k.copy.lock # NoLock /\ k.copy.lock.holder = k.holder
       THEN Goto(c, "cas", [k.copy EXCEPT !.lock = NoLock])
       ELSE Return(c)
  /\ UNCHANGED <<row, now, minted, issued, acked>>

\* checkin asks for holder and token, not for a lease that is still active.
CheckinCheck(c) ==
  LET k == call[c] IN
  /\ k.pc = "check" /\ k.op = "checkin"
  /\ IF k.copy.lock # NoLock /\ k.copy.lock.holder = k.holder
                             /\ k.copy.lock.token = k.token
       THEN Goto(c, "cas", [k.copy EXCEPT !.lock = NoLock])
       ELSE Return(c)
  /\ UNCHANGED <<row, now, minted, issued, acked>>

\* Broken variant: with no lock in the row there is nothing to hold.
PatchCheckIfLocked(c) ==
  LET k == call[c] IN
  /\ k.pc = "check" /\ k.op = "patch"
  /\ IF /\ k.copy.lock = NoLock \/ HeldBy(k.copy.lock, k.holder, k.token)
        /\ k.copy.version = k.seen
       THEN Goto(c, "cas", [k.copy EXCEPT !.edits = @ + 1])
       ELSE Return(c)
  /\ UNCHANGED <<row, now, minted, issued, acked>>

\* patch needs the active lock and the version the caller expects.
PatchCheck(c) ==
  LET k == call[c] IN
  /\ k.pc = "check" /\ k.op = "patch"
  /\ IF HeldBy(k.copy.lock, k.holder, k.token) /\ k.copy.version = k.seen
       THEN Goto(c, "cas", [k.copy EXCEPT !.edits = @ + 1])
       ELSE Return(c)
  /\ UNCHANGED <<row, now, minted, issued, acked>>

\* authorize, revoke, connect, health_check, retire, disconnect: no lock.
EditBuild(c) ==
  /\ call[c].pc = "check" /\ call[c].op = "edit"
  /\ Goto(c, "cas", [call[c].copy EXCEPT !.edits = @ + 1])
  /\ UNCHANGED <<row, now, minted, issued, acked>>

Check(c) == \/ CheckoutRefused(c) \/ CheckoutBuild(c)
            \/ RefreshCheck(c) \/ RefreshBuild(c)
            \/ CheckinCheck(c) \/ PatchCheck(c) \/ EditBuild(c)

-----------------------------------------------------------------------------
(* AccountRepository.update: UPDATE ... WHERE record_version = expected.   *)

\* Broken variant: the WHERE clause forgets the version.
VersionIgnored(c) == TRUE
VersionMatches(c) == row.version = call[c].copy.version

CasWins(c) ==
  LET k == call[c] IN
  /\ k.pc = "cas"
  /\ VersionMatches(c)
  /\ row' = [k.copy EXCEPT !.version = @ + 1]
  /\ issued' = IF k.op = "checkout" THEN issued \cup {k.copy.lock.token} ELSE issued
  /\ acked' = IF k.op \in {"patch", "edit"} THEN acked + 1 ELSE acked
  /\ Return(c)
  /\ UNCHANGED <<now, minted>>

\* Broken variants: the read hoisted out of the loop; and the try not counted.
CasRetriesStale(c) ==
  /\ call[c].pc = "cas" /\ ~VersionMatches(c)
  /\ call[c].op = "checkout" /\ call[c].tries + 1 < MaxRetries
  /\ call' = [call EXCEPT ![c] = [@ EXCEPT !.pc = "check", !.tries = call[c].tries + 1]]
  /\ UNCHANGED <<row, now, minted, issued, acked>>
CasRetriesForever(c) ==
  /\ call[c].pc = "cas" /\ ~VersionMatches(c)
  /\ call[c].op = "checkout"
  /\ call' = [call EXCEPT ![c].pc = "cas"]
  /\ UNCHANGED <<row, now, minted, issued, acked>>

\* checkout goes round its loop and reads the row again.
CasRetries(c) ==
  /\ call[c].pc = "cas" /\ ~VersionMatches(c)
  /\ call[c].op = "checkout" /\ call[c].tries + 1 < MaxRetries
  /\ call' = [call EXCEPT ![c] = [@ EXCEPT !.pc = "read", !.tries = call[c].tries + 1]]
  /\ UNCHANGED <<row, now, minted, issued, acked>>

\* Everybody else, and checkout after its last try, raises Conflict.
CasFails(c) ==
  /\ call[c].pc = "cas" /\ ~VersionMatches(c)
  /\ call[c].op = "checkout" => call[c].tries + 1 >= MaxRetries
  /\ Return(c)
  /\ UNCHANGED <<row, now, minted, issued, acked>>

Cas(c) == CasWins(c) \/ CasRetries(c) \/ CasFails(c)

-----------------------------------------------------------------------------
\* The server process of a call dies: what it had in memory is gone.
Crash(c) ==
  /\ Running(c)
  /\ Return(c)
  /\ UNCHANGED <<row, now, minted, issued, acked>>

Tick ==
  /\ now < MaxTime
  /\ now' = now + 1
  /\ UNCHANGED <<row, minted, call, issued, acked>>

\* The bounds are used up and nothing runs; the real service would go on.
Quiescent ==
  /\ row.version >= MaxVersion \/ minted >= MaxTokens
  /\ \A c \in Calls : ~Running(c)
  /\ UNCHANGED vars

Begin(c) == CallCheckout(c) \/ CallRefresh(c) \/ CallCheckin(c)
              \/ CallPatch(c) \/ CallEdit(c)

\* What the server does on behalf of a call once it has been made.
Step(c) == Read(c) \/ Check(c) \/ Cas(c)

Next == \/ \E c \in Calls : Begin(c) \/ Step(c) \/ Crash(c)
        \/ Tick
        \/ Quiescent

Spec == Init /\ [][Next]_vars

\* A request that is being served is served to its end.
FairSpec == Spec /\ \A c \in Calls : WF_vars(Step(c))

-----------------------------------------------------------------------------
\* The values every variable ranges over; a call about to extend a lease,
\* or to store a new one, has a lease in its copy.
TypeOK ==
  /\ row \in Rows
  /\ now \in Nat
  /\ minted \in Nat
  /\ call \in [Calls -> CallStates \cup {NoCall}]
  /\ issued \subseteq Nat
  /\ acked \in Nat
  /\ \A c \in Calls :
       \/ call[c].pc = "build"
       \/ call[c].pc = "cas" /\ call[c].op = "checkout"
       => call[c].copy.lock \in Leases

\* The call that writes the row in this step, if the row is written.
Writes(c) == Running(c) /\ call[c].pc = "cas" /\ call'[c] = NoCall

\* Nobody but its holder touches an active lease.  Whatever copies the writers
\* of the row were working on, an active lease changes only by a checkout of
\* the same holder, and is given up or extended only by a call that shows its
\* holder and its token ("only the lock holder may check the account in").
LeaseKept ==
  IsActive(row.lock) /\ row'.lock # row.lock =>
    \E c \in Calls :
      /\ Writes(c) /\ call[c].holder = row.lock.holder
      /\ \/ call[c].op = "checkout" /\ row'.lock # NoLock
         \/ /\ call[c].token = row.lock.token
            /\ call[c].op = IF row'.lock = NoLock THEN "checkin" ELSE "refresh"
NoStolenLease == [][LeaseKept]_vars

\* A lock token that was given up or replaced never opens the account
\* again, although every writer stores back a whole row that held it.
TokensDie ==
  \A t \in issued : row'.lock # NoLock /\ row'.lock.token = t
                      => row.lock # NoLock /\ row.lock.token = t
NoTokenReturns == [][TokensDie]_vars

\* Every edit that was acknowledged is in the row, and no other is: two
\* read-modify-write calls never overwrite one another.
NoLostEdit == row.edits = acked

\* A patch lands only while its caller's token is the one in the row, even
\* if the lease was checked two sessions earlier.
PatchNeedsLease ==
  \A c \in Calls :
    /\ call[c] # NoCall /\ call[c].pc = "cas" /\ call[c].op = "patch"
    /\ row' # row /\ call'[c] = NoCall
    => row.lock # NoLock /\ row.lock.token = call[c].token
PatchUnderLease == [][PatchNeedsLease]_vars

\* A checkout gives up for contention only after MaxRetries writes of
\* others: every lost try of a running call is a write that did land.
ContentionIsReal ==
  \A c \in Calls : Running(c) =>
     row.version >= call[c].began + call[c].tries
                    + (IF call[c].pc = "cas" /\ ~VersionMatches(c) THEN 1 ELSE 0)

\* A call that is not cut off by a crash returns: checkout's loop ends.
CallsReturn == \A c \in Calls : Running(c) ~> ~Running(c)

\* Checkout implements the lease the agents were promised.
L == INSTANCE Lease WITH lease <- row.lock, clock <- now, spent <- issued
Promise == L!Spec
=============================================================================
