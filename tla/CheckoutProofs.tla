--------------------------- MODULE CheckoutProofs ---------------------------
(***************************************************************************)
(* Proofs about Checkout for any number of calls and agents and any bound. *)
(* Everything rests on Inv: what a call holds in memory agrees with the    *)
(* row as long as the version has not moved.                               *)
(***************************************************************************)
EXTENDS Checkout, TLAPS

TypedCalls == [Calls -> CallStates \cup {NoCall}]

\* A call has a lease in its copy where TypeOK says so.
HasLease(k) == k.pc = "build" \/ (k.pc = "cas" /\ k.op = "checkout") => k.copy.lock \in Leases

\* A call at one of its steps is a running call, with all its fields.
LEMMA RunningCall ==
  ASSUME TypeOK, NEW c \in Calls, call[c].pc # "idle"
  PROVE  call[c] # NoCall /\ call[c] \in CallStates /\ call[c].copy \in Rows /\ HasLease(call[c])
BY DEF TypeOK, NoCall, CallStates, HasLease

\* Replacing the state of one call keeps the calls in their type.
LEMMA SetCall ==
  ASSUME TypeOK, NEW c \in Calls, NEW k, k \in CallStates \cup {NoCall},
         k # NoCall => HasLease(k), call' = [call EXCEPT ![c] = k]
  PROVE  /\ call'[c] = k
         /\ \A d \in Calls \ {c} : call'[d] = call[d]
         /\ call' \in TypedCalls
         /\ \A d \in Calls : HasLease(call'[d])
BY DEF TypeOK, TypedCalls, HasLease, NoCall

\* Goto moves one call to another step with another copy, and nothing else.
LEMMA GotoCall ==
  ASSUME TypeOK, NEW c \in Calls, call[c] \in CallStates,
         NEW pc \in {"read", "check", "build", "cas"}, NEW copy \in Rows,
         pc = "build" \/ (pc = "cas" /\ call[c].op = "checkout") => copy.lock \in Leases,
         Goto(c, pc, copy)
  PROVE  /\ call'[c] = [call[c] EXCEPT !.pc = pc, !.copy = copy]
         /\ \A d \in Calls \ {c} : call'[d] = call[d]
         /\ call' \in TypedCalls
         /\ \A d \in Calls : HasLease(call'[d])
<1> DEFINE k == [call[c] EXCEPT !.pc = pc, !.copy = copy]
<1>1. k \in CallStates /\ HasLease(k)
  BY DEF CallStates, HasLease
<1>2. call' = [call EXCEPT ![c] = k]
  BY DEF Goto
<1> HIDE DEF k
<1>3. QED
  BY <1>1, <1>2, SetCall DEF k

\* Return clears one call, and nothing else.
LEMMA ReturnCall ==
  ASSUME TypeOK, NEW c \in Calls, Return(c)
  PROVE  /\ call'[c] = NoCall
         /\ \A d \in Calls \ {c} : call'[d] = call[d]
         /\ call' \in TypedCalls
         /\ \A d \in Calls : HasLease(call'[d])
BY SetCall DEF Return

\* Every action keeps the variables in their types.
LEMMA TypeStep == TypeOK /\ [Next]_vars => TypeOK'
<1> SUFFICES ASSUME TypeOK, [Next]_vars PROVE TypeOK'
  OBVIOUS
<1> DEFINE Rest == /\ row \in Rows /\ now \in Nat /\ minted \in Nat
                   /\ issued \subseteq Nat /\ acked \in Nat
           Done == call' \in TypedCalls /\ \A d \in Calls : HasLease(call'[d])
<1>a. Rest
  BY DEF TypeOK
<1>b. ASSUME Rest', Done PROVE TypeOK'
  BY <1>b DEF TypeOK, TypedCalls, HasLease
<1> USE <1>a
<1>1. ASSUME NEW c \in Calls, Begin(c) PROVE TypeOK'
  <2>1. PICK op \in Ops, h \in Holders, t \in Nat, s \in Nat : Enter(c, op, h, t, s)
    BY <1>1 DEF Begin, CallCheckout, CallRefresh, CallCheckin, CallPatch, CallEdit, Ops, Rows
  <2> DEFINE k == [pc |-> "read", op |-> op, holder |-> h, token |-> t, seen |-> s,
                   copy |-> row, tries |-> 0, began |-> row.version]
  <2>2. k \in CallStates /\ HasLease(k)
    BY DEF CallStates, Rows, HasLease
  <2>3. call' = [call EXCEPT ![c] = k] /\ UNCHANGED <<row, now, minted, issued, acked>>
    BY <2>1 DEF Enter
  <2> HIDE DEF k
  <2> QED
    BY <2>2, <2>3, SetCall, <1>b
<1>2. ASSUME NEW c \in Calls, Read(c) PROVE TypeOK'
  BY <1>2, <1>b, RunningCall, GotoCall DEF Read
<1>3. ASSUME NEW c \in Calls, Check(c) PROVE TypeOK'
  <2>0. call[c] \in CallStates /\ call[c].copy \in Rows /\ HasLease(call[c])
    BY <1>3, RunningCall DEF Check, CheckoutRefused, CheckoutBuild, RefreshCheck,
       RefreshBuild, CheckinCheck, PatchCheck, EditBuild
  <2>1. CASE CheckoutRefused(c)
    BY <2>1, <1>b, ReturnCall DEF CheckoutRefused
  <2>2. CASE CheckoutBuild(c)
    <3>1. PICK ttl \in 1 .. MaxTTL :
            Goto(c, "cas", [call[c].copy EXCEPT !.lock =
                   NewLease(call[c].holder, minted + 1, ttl)])
      BY <2>2 DEF CheckoutBuild
    <3> DEFINE copy == [call[c].copy EXCEPT !.lock =
                          NewLease(call[c].holder, minted + 1, ttl)]
    <3>2. NewLease(call[c].holder, minted + 1, ttl) \in Leases
      BY <2>0, BoundsAssumption DEF NewLease, Leases, CallStates
    <3>3. copy \in Rows /\ copy.lock \in Leases
      BY <2>0, <3>2 DEF Rows, Locks
    <3> HIDE DEF copy
    <3>4. Done
      BY <2>0, <3>1, <3>3, GotoCall DEF copy
    <3>5. Rest'
      BY <2>2 DEF CheckoutBuild
    <3> QED
      BY <3>4, <3>5, <1>b
  <2>3. CASE RefreshCheck(c)
    <3>1. HeldBy(call[c].copy.lock, call[c].holder, call[c].token)
            => call[c].copy.lock \in Leases
      BY <2>0 DEF HeldBy, IsActive, Rows, Locks
    <3>2. Done
      BY <2>0, <2>3, <3>1, GotoCall, ReturnCall DEF RefreshCheck
    <3> QED
      BY <2>3, <3>2, <1>b DEF RefreshCheck
  <2>4. CASE RefreshBuild(c)
    <3>1. PICK ttl \in 1 .. MaxTTL :
            Goto(c, "cas", [call[c].copy EXCEPT !.lock.expiresAt = now + ttl])
      BY <2>4 DEF RefreshBuild
    <3> DEFINE copy == [call[c].copy EXCEPT !.lock.expiresAt = now + ttl]
    <3>2. [call[c].copy.lock EXCEPT !.expiresAt = now + ttl] \in Leases
      BY <2>0, <2>4, BoundsAssumption DEF RefreshBuild, HasLease, Leases
    <3>3. copy \in Rows /\ copy.lock \in Leases
      BY <2>0, <3>2 DEF Rows, Locks
    <3> HIDE DEF copy
    <3>4. Done
      BY <2>0, <3>1, <3>3, GotoCall DEF copy
    <3> QED
      BY <2>4, <3>4, <1>b DEF RefreshBuild
  <2>5. CASE CheckinCheck(c)
    <3> DEFINE copy == [call[c].copy EXCEPT !.lock = NoLock]
    <3>1. copy \in Rows
      BY <2>0 DEF Rows, Locks
    <3>2. Return(c) \/ (Goto(c, "cas", copy) /\ call[c].op = "checkin")
      BY <2>5 DEF CheckinCheck
    <3> HIDE DEF copy
    <3>3. Done
      BY <2>0, <3>1, <3>2, GotoCall, ReturnCall
    <3> QED
      BY <2>5, <3>3, <1>b DEF CheckinCheck
  <2>6. CASE PatchCheck(c) \/ EditBuild(c)
    <3> DEFINE copy == [call[c].copy EXCEPT !.edits = @ + 1]
    <3>1. copy \in Rows
      BY <2>0 DEF Rows
    <3>2. Return(c) \/ (Goto(c, "cas", copy) /\ call[c].op # "checkout")
      BY <2>6 DEF PatchCheck, EditBuild
    <3> HIDE DEF copy
    <3>3. Done
      BY <2>0, <3>1, <3>2, GotoCall, ReturnCall
    <3> QED
      BY <2>6, <3>3, <1>b DEF PatchCheck, EditBuild
  <2> QED
    BY <1>3, <2>1, <2>2, <2>3, <2>4, <2>5, <2>6 DEF Check
<1>4. ASSUME NEW c \in Calls, Cas(c) PROVE TypeOK'
  <2>0. call[c] \in CallStates /\ call[c].copy \in Rows /\ HasLease(call[c])
    BY <1>4, RunningCall DEF Cas, CasWins, CasRetries, CasFails
  <2>1. CASE CasWins(c)
    <3>1. row' \in Rows /\ acked' \in Nat
      BY <2>0, <2>1 DEF CasWins, Rows
    <3>2. issued' \subseteq Nat
      BY <2>0, <2>1 DEF CasWins, HasLease, Leases
    <3> QED
      BY <2>1, <3>1, <3>2, <1>b, ReturnCall DEF CasWins
  <2>2. CASE CasRetries(c)
    <3> DEFINE k == [call[c] EXCEPT !.pc = "read", !.tries = call[c].tries + 1]
    <3>1. call[c].tries + 1 \in Nat
      BY <2>0 DEF CallStates
    <3>2. k \in CallStates /\ k.pc = "read"
      BY <2>0, <3>1 DEF CallStates
    <3>3. call' = [call EXCEPT ![c] = k] /\ UNCHANGED <<row, now, minted, issued, acked>>
      BY <2>2 DEF CasRetries
    <3> HIDE DEF k
    <3> QED
      BY <3>2, <3>3, SetCall, <1>b DEF HasLease
  <2>3. CASE CasFails(c)
    BY <2>3, <1>b, ReturnCall DEF CasFails
  <2> QED
    BY <1>4, <2>1, <2>2, <2>3 DEF Cas
<1>5. ASSUME NEW c \in Calls, Crash(c) PROVE TypeOK'
  BY <1>5, <1>b, ReturnCall DEF Crash
<1>6. CASE Tick
  BY <1>6 DEF Tick, TypeOK
<1>7. CASE UNCHANGED vars
  BY <1>7 DEF vars, TypeOK
<1> QED
  BY <1>1, <1>2, <1>3, <1>4, <1>5, <1>6, <1>7 DEF Next, Step, Quiescent

\* Type correctness, for every behaviour.
THEOREM TypeCorrect == Spec => []TypeOK
<1>1. Init => TypeOK
  BY DEF Init, TypeOK, Rows, Locks, NoCall
<1> QED
  BY <1>1, TypeStep, PTL DEF Spec

-----------------------------------------------------------------------------
(* The inductive invariant.  CallInv says of one running call k, of a row  *)
(* r, at time t, with m tokens minted and the tokens i issued, what the    *)
(* compare-and-set of that call relies on.                                 *)

\* LockService.checkout may replace this lock for h at time t.
Takeable(lock, h, t) == lock = NoLock \/ lock.expiresAt <= t \/ lock.holder = h

\* The caller showed the holder and the token of this lease.
Shown(k, lock) == lock.holder = k.holder /\ lock.token = k.token

\* While the version has not moved, the copy is the row, up to the edit the
\* call is about to store.
Agrees(k, r, t) ==
  k.copy.version = r.version =>
    /\ k.pc \in {"check", "build"} => k.copy = r
    /\ k.pc = "cas" =>
         /\ k.op = "checkout" => k.copy.edits = r.edits /\ Takeable(r.lock, k.holder, t)
         /\ k.op = "refresh" =>
              /\ k.copy.edits = r.edits /\ r.lock # NoLock
              /\ k.copy.lock.holder = r.lock.holder /\ k.copy.lock.token = r.lock.token
              /\ Shown(k, r.lock)
         /\ k.op = "checkin" => /\ k.copy.edits = r.edits /\ k.copy.lock = NoLock
                                /\ r.lock # NoLock /\ Shown(k, r.lock)
         /\ k.op = "patch" => /\ k.copy.edits = r.edits + 1 /\ k.copy.lock = r.lock
                              /\ r.lock # NoLock /\ r.lock.token = k.token
         /\ k.op = "edit" => k.copy.edits = r.edits + 1 /\ k.copy.lock = r.lock

\* The token of a lease not yet stored is minted and not issued.
Fresh(k, m, i) ==
  k.pc = "cas" /\ k.op = "checkout" =>
    k.copy.lock.holder = k.holder /\ k.copy.lock.token \in (1 .. m) \ i

\* A lease about to be stored ends within MaxTTL of now.
InTime(k, t) ==
  k.pc = "cas" /\ k.op \in {"checkout", "refresh"} =>
    k.copy.lock \in Leases /\ k.copy.lock.expiresAt <= t + MaxTTL

\* Every lost try is a version that went by.
Counted(k, r) ==
  /\ k.copy.version <= r.version
  /\ k.began + k.tries <= r.version
  /\ k.pc # "read" => k.began + k.tries <= k.copy.version

CallInv(k, r, t, m, i) ==
  /\ k.pc = "build" => k.op = "refresh" /\ k.copy.lock # NoLock /\ Shown(k, k.copy.lock)
  /\ Agrees(k, r, t)
  /\ Fresh(k, m, i)
  /\ InTime(k, t)
  /\ Counted(k, r)

\* Two calls never hold the same new token.
Storing(k) == k # NoCall /\ k.pc = "cas" /\ k.op = "checkout"
TokensDiffer ==
  \A c, d \in Calls : c # d /\ Storing(call[c]) /\ Storing(call[d])
                        => call[c].copy.lock.token # call[d].copy.lock.token

Inv == /\ TypeOK
       /\ \A c \in Calls : Running(c) => CallInv(call[c], row, now, minted, issued)
       /\ TokensDiffer
       /\ issued \subseteq 1 .. minted
       /\ NoLostEdit

\* What a call knows stays true while the row is not written.
LEMMA CallInvKept ==
  ASSUME NEW k \in CallStates, NEW r \in Rows, NEW t \in Nat, NEW t2 \in Nat,
         NEW m \in Nat, NEW m2 \in Nat, NEW i, t <= t2, m <= m2, CallInv(k, r, t, m, i)
  PROVE  CallInv(k, r, t2, m2, i)
<1>1. Agrees(k, r, t2)
  <2>1. Takeable(r.lock, k.holder, t) => Takeable(r.lock, k.holder, t2)
    BY DEF Takeable, Rows, Locks, Leases
  <2> QED
    BY <2>1 DEF CallInv, Agrees
<1>2. Fresh(k, m2, i)
  BY DEF CallInv, Fresh
<1>3. InTime(k, t2)
  BY BoundsAssumption DEF CallInv, InTime, Leases
<1> QED
  BY <1>1, <1>2, <1>3 DEF CallInv

\* A step of call c that does not write the row preserves the invariant if
\* what c now has in memory satisfies it.
LEMMA LocalStep ==
  ASSUME Inv, TypeOK', NEW c \in Calls,
         UNCHANGED <<row, now, issued, acked>>, minted <= minted',
         \A d \in Calls \ {c} : call'[d] = call[d],
         call'[c] # NoCall => CallInv(call'[c], row, now, minted', issued),
         Storing(call'[c]) => \A d \in Calls \ {c} : Storing(call[d]) =>
                                 call'[c].copy.lock.token # call[d].copy.lock.token
  PROVE  Inv'
<1>1. ASSUME NEW d \in Calls, call'[d] # NoCall
      PROVE  CallInv(call'[d], row', now', minted', issued')
  <2>1. CASE d = c
    BY <1>1, <2>1
  <2>2. CASE d # c
    <3>1. call'[d] = call[d] /\ call[d] \in CallStates
      BY <1>1, <2>2 DEF Inv, TypeOK
    <3>2. CallInv(call[d], row, now, minted, issued)
      BY <1>1, <3>1 DEF Inv, Running
    <3>3. row \in Rows /\ now \in Nat /\ minted \in Nat /\ minted' \in Nat
      BY DEF Inv, TypeOK
    <3>4. CallInv(call[d], row, now, minted', issued)
      BY <3>1, <3>2, <3>3, CallInvKept
    <3> QED
      BY <3>1, <3>4
  <2> QED
    BY <2>1, <2>2
<1>2. TokensDiffer'
  BY DEF Inv, TokensDiffer, Storing
<1>3. (issued \subseteq 1 .. minted)' /\ NoLostEdit'
  BY DEF Inv, TypeOK, NoLostEdit
<1> QED
  BY <1>1, <1>2, <1>3 DEF Inv, Running

\* Inv is preserved by every action.
LEMMA InvStep == Inv /\ [Next]_vars => Inv'
<1> SUFFICES ASSUME Inv, [Next]_vars PROVE Inv'
  OBVIOUS
<1>a. TypeOK /\ TypeOK'
  BY TypeStep DEF Inv
<1>b. row \in Rows /\ now \in Nat /\ minted \in Nat
  BY <1>a DEF TypeOK
<1>c. ASSUME NEW c \in Calls, call[c].pc # "idle"
      PROVE  /\ call[c] \in CallStates /\ call[c].copy \in Rows
             /\ CallInv(call[c], row, now, minted, issued)
  BY <1>a, <1>c, RunningCall DEF Inv, Running
<1>1. ASSUME NEW c \in Calls, Begin(c) PROVE Inv'
  <2>1. PICK op \in Ops, h \in Holders, t \in Nat, s \in Nat : Enter(c, op, h, t, s)
    BY <1>1, <1>a DEF Begin, CallCheckout, CallRefresh, CallCheckin, CallPatch, CallEdit,
       Ops, TypeOK, Rows
  <2> DEFINE k == [pc |-> "read", op |-> op, holder |-> h, token |-> t, seen |-> s,
                   copy |-> row, tries |-> 0, began |-> row.version]
  <2>2. call' = [call EXCEPT ![c] = k] /\ UNCHANGED <<row, now, minted, issued, acked>>
    BY <2>1 DEF Enter
  <2>3. CallInv(k, row, now, minted, issued)
    BY <1>b DEF CallInv, Agrees, Fresh, InTime, Counted, Rows
  <2>4. k.pc = "read"
    OBVIOUS
  <2> HIDE DEF k
  <2>5. call'[c] = k /\ \A d \in Calls \ {c} : call'[d] = call[d]
    BY <2>2, <1>a DEF TypeOK
  <2> QED
    BY <1>a, <1>b, <2>2, <2>3, <2>4, <2>5, LocalStep DEF Storing
<1>2. ASSUME NEW c \in Calls, Read(c) PROVE Inv'
  <2>0. call[c] \in CallStates /\ CallInv(call[c], row, now, minted, issued)
    BY <1>2, <1>c DEF Read
  <2>1. /\ call'[c] = [call[c] EXCEPT !.pc = "check", !.copy = row]
        /\ \A d \in Calls \ {c} : call'[d] = call[d]
    BY <1>2, <1>a, <1>b, <2>0, GotoCall DEF Read
  <2>2. CallInv(call'[c], row, now, minted, issued) /\ ~Storing(call'[c])
    BY <2>0, <2>1, <1>b DEF CallInv, Agrees, Fresh, InTime, Counted, Storing, CallStates, Rows
  <2> QED
    BY <1>2, <1>a, <1>b, <2>1, <2>2, LocalStep DEF Read
<1>3. ASSUME NEW c \in Calls, Check(c) PROVE Inv'
  <2>0. /\ call[c] \in CallStates /\ call[c].copy \in Rows /\ HasLease(call[c])
        /\ CallInv(call[c], row, now, minted, issued)
    BY <1>3, <1>a, <1>c, RunningCall DEF Check, CheckoutRefused, CheckoutBuild, RefreshCheck,
       RefreshBuild, CheckinCheck, PatchCheck, EditBuild
  <2>r. ASSUME Return(c), UNCHANGED <<row, now, minted, issued, acked>> PROVE Inv'
    BY <2>r, <1>a, <1>b, ReturnCall, LocalStep DEF Storing
  <2>g. ASSUME NEW pc \in {"build", "cas"}, NEW copy \in Rows, Goto(c, pc, copy),
               call[c].op # "checkout", pc = "build" => copy.lock \in Leases,
               UNCHANGED <<row, now, minted, issued, acked>>,
               CallInv([call[c] EXCEPT !.pc = pc, !.copy = copy], row, now, minted, issued)
        PROVE  Inv'
    <3>1. /\ call'[c] = [call[c] EXCEPT !.pc = pc, !.copy = copy]
          /\ \A d \in Calls \ {c} : call'[d] = call[d]
      BY <2>g, <1>a DEF Goto, TypeOK
    <3>2. call[c].op # "checkout"
      BY <2>g
    <3>3. ~Storing(call'[c])
      BY <2>0, <3>1, <3>2 DEF CallStates, Storing
    <3>4. CallInv(call'[c], row, now, minted', issued) /\ minted <= minted'
      BY <2>g, <3>1, <1>b
    <3>5. UNCHANGED <<row, now, issued, acked>>
      BY <2>g
    <3> QED
      BY <3>1, <3>3, <3>4, <3>5, <1>a, LocalStep
  <2>1. CASE CheckoutRefused(c)
    BY <2>1, <2>r DEF CheckoutRefused
  <2>2. CASE CheckoutBuild(c)
    <3>1. PICK ttl \in 1 .. MaxTTL :
            Goto(c, "cas", [call[c].copy EXCEPT !.lock =
                   NewLease(call[c].holder, minted + 1, ttl)])
      BY <2>2 DEF CheckoutBuild
    <3> DEFINE lease == NewLease(call[c].holder, minted + 1, ttl)
               copy == [call[c].copy EXCEPT !.lock = lease]
    <3>2. /\ lease \in Leases /\ lease.holder = call[c].holder
          /\ lease.token = minted + 1 /\ lease.expiresAt <= now + MaxTTL
      BY <2>0, <1>b, BoundsAssumption DEF NewLease, Leases, CallStates
    <3> HIDE DEF lease
    <3>3. /\ copy \in Rows /\ copy.lock = lease
          /\ copy.version = call[c].copy.version /\ copy.edits = call[c].copy.edits
      BY <2>0, <3>2 DEF Rows, Locks
    <3>4. Goto(c, "cas", copy)
      BY <3>1 DEF lease
    <3> HIDE DEF copy
    <3>5. /\ call'[c] = [call[c] EXCEPT !.pc = "cas", !.copy = copy]
          /\ \A d \in Calls \ {c} : call'[d] = call[d]
      BY <2>0, <1>a, <3>2, <3>3, <3>4, GotoCall
    <3>6. /\ call'[c].pc = "cas" /\ call'[c].copy = copy /\ call'[c].op = "checkout"
          /\ call'[c].holder = call[c].holder
          /\ call'[c].began = call[c].began /\ call'[c].tries = call[c].tries
      BY <2>0, <2>2, <3>5 DEF CallStates, CheckoutBuild
    <3>7. UNCHANGED <<row, now, issued, acked>> /\ minted' = minted + 1
      BY <2>2 DEF CheckoutBuild
    <3>8. Agrees(call'[c], row, now)
      <4>1. copy.version = row.version => call[c].copy = row
        BY <2>0, <2>2, <3>3 DEF CallInv, Agrees, CheckoutBuild
      <4>2. Takeable(call[c].copy.lock, call[c].holder, now)
        BY <2>0, <2>2, <1>b DEF CheckoutBuild, HeldByOther, IsActive, Takeable, Rows, Locks, Leases
      <4> QED
        BY <3>3, <3>6, <4>1, <4>2 DEF Agrees
    <3>9. CallInv(call'[c], row, now, minted', issued)
      <4>1. Fresh(call'[c], minted', issued)
        BY <3>2, <3>3, <3>6, <3>7, <1>b DEF Fresh, Inv
      <4>2. InTime(call'[c], now) /\ Counted(call'[c], row)
        BY <2>0, <2>2, <3>2, <3>3, <3>6 DEF InTime, Counted, CallInv, CheckoutBuild
      <4> QED
        BY <3>6, <3>8, <4>1, <4>2 DEF CallInv
    <3>10. ASSUME NEW d \in Calls \ {c}, Storing(call[d])
           PROVE  call'[c].copy.lock.token # call[d].copy.lock.token
      <4>1. Fresh(call[d], minted, issued)
        BY <3>10 DEF Inv, Running, Storing, CallInv
      <4> QED
        BY <3>10, <4>1, <3>2, <3>3, <3>6, <1>b DEF Fresh, Storing
    <3>11. minted <= minted'
      BY <3>7, <1>b
    <3>12. \A d \in Calls \ {c} : call'[d] = call[d]
      BY <3>5
    <3> QED
      BY <1>a, <3>7, <3>9, <3>10, <3>11, <3>12, LocalStep
  <2>3. CASE RefreshCheck(c)
    <3>1. CASE HeldBy(call[c].copy.lock, call[c].holder, call[c].token)
      <4>1. /\ call[c].copy.lock \in Leases /\ call[c].copy.lock # NoLock
            /\ Shown(call[c], call[c].copy.lock)
        BY <2>0, <3>1 DEF HeldBy, IsActive, Rows, Locks, Shown
      <4>2. Goto(c, "build", call[c].copy)
        BY <2>3, <3>1 DEF RefreshCheck
      <4>3. CallInv([call[c] EXCEPT !.pc = "build", !.copy = call[c].copy],
                    row, now, minted, issued)
        BY <2>0, <2>3, <4>1 DEF RefreshCheck, CallInv, Agrees, Fresh, InTime, Counted,
           CallStates, Shown
      <4> QED
        BY <2>0, <2>3, <2>g, <4>1, <4>2, <4>3 DEF RefreshCheck
    <3> QED
      BY <2>3, <2>r, <3>1 DEF RefreshCheck
  <2>4. CASE RefreshBuild(c)
    <3>1. PICK ttl \in 1 .. MaxTTL :
            Goto(c, "cas", [call[c].copy EXCEPT !.lock.expiresAt = now + ttl])
      BY <2>4 DEF RefreshBuild
    <3> DEFINE lease == [call[c].copy.lock EXCEPT !.expiresAt = now + ttl]
               copy == [call[c].copy EXCEPT !.lock = lease]
    <3>2. /\ lease \in Leases /\ lease.holder = call[c].copy.lock.holder
          /\ lease.token = call[c].copy.lock.token /\ lease.expiresAt <= now + MaxTTL
      BY <2>0, <2>4, <1>b, BoundsAssumption DEF RefreshBuild, HasLease, Leases
    <3>3. Goto(c, "cas", copy)
      BY <3>1
    <3> HIDE DEF lease
    <3>4. /\ copy \in Rows /\ copy.lock = lease
          /\ copy.version = call[c].copy.version /\ copy.edits = call[c].copy.edits
      BY <2>0, <3>2 DEF Rows, Locks
    <3> HIDE DEF copy
    <3> DEFINE k == [call[c] EXCEPT !.pc = "cas", !.copy = copy]
    <3>5. /\ k.pc = "cas" /\ k.copy = copy /\ k.op = "refresh"
          /\ k.began = call[c].began /\ k.tries = call[c].tries
          /\ k.holder = call[c].holder /\ k.token = call[c].token
      BY <2>0, <2>4 DEF CallStates, RefreshBuild, CallInv
    <3> HIDE DEF k
    <3>6. Agrees(k, row, now)
      BY <2>0, <2>4, <3>2, <3>4, <3>5 DEF CallInv, Agrees, RefreshBuild, Shown
    <3>7. Fresh(k, minted, issued) /\ InTime(k, now) /\ Counted(k, row)
      BY <2>0, <2>4, <3>2, <3>4, <3>5 DEF Fresh, InTime, Counted, CallInv, RefreshBuild
    <3>8. CallInv(k, row, now, minted, issued)
      BY <3>5, <3>6, <3>7 DEF CallInv
    <3>9. call[c].op # "checkout"
      BY <2>0, <2>4 DEF CallInv, RefreshBuild
    <3> QED
      BY <2>4, <2>g, <3>3, <3>4, <3>8, <3>9 DEF RefreshBuild, k
  <2>5. CASE CheckinCheck(c)
    <3> DEFINE copy == [call[c].copy EXCEPT !.lock = NoLock]
               k == [call[c] EXCEPT !.pc = "cas", !.copy = copy]
    <3>1. /\ copy \in Rows /\ copy.lock = NoLock
          /\ copy.version = call[c].copy.version /\ copy.edits = call[c].copy.edits
      BY <2>0 DEF Rows, Locks
    <3>2. CASE ~Return(c)
      <4>1. /\ Goto(c, "cas", copy) /\ call[c].op = "checkin"
            /\ call[c].copy.lock # NoLock /\ Shown(call[c], call[c].copy.lock)
        BY <2>5, <3>2 DEF CheckinCheck, Shown
      <4> HIDE DEF copy
      <4>2. /\ k.pc = "cas" /\ k.copy = copy /\ k.op = "checkin"
            /\ k.began = call[c].began /\ k.tries = call[c].tries
            /\ k.holder = call[c].holder /\ k.token = call[c].token
        BY <2>0, <4>1 DEF CallStates
      <4> HIDE DEF k
      <4>3. CallInv(k, row, now, minted, issued)
        BY <2>0, <2>5, <3>1, <4>1, <4>2 DEF CheckinCheck, CallInv, Agrees, Fresh, InTime, Counted,
           Shown
      <4> QED
        BY <2>5, <2>g, <3>1, <4>1, <4>3 DEF CheckinCheck, k
    <3> QED
      BY <2>5, <2>r, <3>2 DEF CheckinCheck
  <2>6. CASE PatchCheck(c) \/ EditBuild(c)
    <3> DEFINE copy == [call[c].copy EXCEPT !.edits = @ + 1]
               k == [call[c] EXCEPT !.pc = "cas", !.copy = copy]
    <3>1. /\ copy \in Rows /\ copy.lock = call[c].copy.lock
          /\ copy.version = call[c].copy.version /\ copy.edits = call[c].copy.edits + 1
      BY <2>0 DEF Rows
    <3>2. CASE ~Return(c)
      <4>1. /\ Goto(c, "cas", copy) /\ call[c].op \in {"patch", "edit"}
            /\ call[c].op = "patch" =>
                 call[c].copy.lock # NoLock /\ call[c].copy.lock.token = call[c].token
            /\ UNCHANGED <<row, now, minted, issued, acked>>
        BY <2>6, <3>2 DEF PatchCheck, EditBuild, HeldBy, IsActive
      <4> HIDE DEF copy
      <4>2. /\ k.pc = "cas" /\ k.copy = copy /\ k.op = call[c].op /\ k.token = call[c].token
            /\ k.began = call[c].began /\ k.tries = call[c].tries
        BY <2>0 DEF CallStates
      <4>3. call[c].pc = "check"
        BY <2>6 DEF PatchCheck, EditBuild
      <4> HIDE DEF k
      <4>4. CallInv(k, row, now, minted, issued)
        BY <2>0, <3>1, <4>1, <4>2, <4>3 DEF CallInv, Agrees, Fresh, InTime, Counted
      <4> QED
        BY <2>g, <3>1, <4>1, <4>4 DEF k
    <3> QED
      BY <2>6, <2>r, <3>2 DEF PatchCheck, EditBuild
  <2> QED
    BY <1>3, <2>1, <2>2, <2>3, <2>4, <2>5, <2>6 DEF Check
<1>4. ASSUME NEW c \in Calls, CasWins(c) PROVE Inv'
  <2>0. /\ call[c] \in CallStates /\ call[c].copy \in Rows
        /\ CallInv(call[c], row, now, minted, issued)
    BY <1>4, <1>c DEF CasWins
  <2>1. /\ row' = [call[c].copy EXCEPT !.version = @ + 1]
        /\ now' = now /\ minted' = minted /\ call[c].pc = "cas"
        /\ call[c].copy.version = row.version
    BY <1>4 DEF CasWins, VersionMatches
  <2>2. row'.version = row.version + 1 /\ row'.edits = call[c].copy.edits
    BY <2>0, <2>1 DEF Rows
  <2>3. call'[c] = NoCall /\ \A d \in Calls \ {c} : call'[d] = call[d]
    BY <1>4, <1>a, ReturnCall DEF CasWins
  <2>4. ASSUME NEW d \in Calls, call'[d] # NoCall
        PROVE  CallInv(call'[d], row', now', minted', issued')
    <3>1. d # c /\ call'[d] = call[d] /\ call[d] \in CallStates
      BY <2>3, <2>4, <1>a DEF TypeOK
    <3>2. CallInv(call[d], row, now, minted, issued)
      BY <2>4, <3>1 DEF Inv, Running
    <3>3. call[d].copy.version < row'.version /\ call[d].copy.version \in Nat
      BY <2>2, <3>1, <3>2, <1>b DEF CallInv, Counted, CallStates, Rows
    <3>4. Agrees(call[d], row', now)
      BY <3>3, <2>2, <1>b DEF Agrees, Rows
    <3>5. Fresh(call[d], minted, issued')
      <4>1. CASE Storing(call[d]) /\ call[c].op = "checkout"
        <5>1. call[c].copy.lock.token # call[d].copy.lock.token
          BY <4>1, <2>1, <2>4, <3>1, <1>4 DEF Inv, TokensDiffer, Storing, CasWins, NoCall
        <5> QED
          BY <5>1, <3>2, <1>4 DEF CallInv, Fresh, CasWins
      <4> QED
        BY <4>1, <2>4, <3>1, <3>2, <1>4 DEF CallInv, Fresh, CasWins, Storing
    <3>6. Counted(call[d], row')
      BY <2>2, <3>1, <3>2, <1>b DEF CallInv, Counted, CallStates, Rows
    <3> QED
      BY <2>1, <3>1, <3>2, <3>4, <3>5, <3>6 DEF CallInv
  <2>5. TokensDiffer'
    BY <2>3 DEF Inv, TokensDiffer, Storing
  <2>6. (issued \subseteq 1 .. minted)'
    BY <1>4, <2>0, <2>1 DEF Inv, CasWins, CallInv, Fresh
  <2>7. NoLostEdit'
    <3>1. call[c].op \in Ops
      BY <2>0 DEF CallStates
    <3>2. row.edits = acked
      BY DEF Inv, NoLostEdit
    <3> QED
      BY <1>4, <2>0, <2>1, <2>2, <3>1, <3>2 DEF NoLostEdit, CallInv, Agrees, CasWins, Ops
  <2> QED
    BY <1>a, <2>4, <2>5, <2>6, <2>7 DEF Inv, Running
<1>5. ASSUME NEW c \in Calls, CasRetries(c) PROVE Inv'
  <2>0. /\ call[c] \in CallStates /\ call[c].copy \in Rows
        /\ CallInv(call[c], row, now, minted, issued)
    BY <1>5, <1>c DEF CasRetries
  <2> DEFINE k == [call[c] EXCEPT !.pc = "read", !.tries = call[c].tries + 1]
  <2>1. /\ k.pc = "read" /\ k.copy = call[c].copy /\ k.began = call[c].began
        /\ k.tries = call[c].tries + 1
    BY <2>0 DEF CallStates
  <2>2. call' = [call EXCEPT ![c] = k] /\ UNCHANGED <<row, now, minted, issued, acked>>
    BY <1>5 DEF CasRetries
  <2> HIDE DEF k
  <2>3. call'[c] = k /\ \A d \in Calls \ {c} : call'[d] = call[d]
    BY <2>2, <1>a DEF TypeOK
  <2>4. call[c].copy.version < row.version
    BY <1>5, <2>0, <1>b DEF CasRetries, VersionMatches, CallInv, Counted, Rows
  <2>5. Counted(k, row)
    BY <1>5, <2>0, <2>1, <2>4, <1>b DEF CasRetries, CallInv, Counted, Rows, CallStates
  <2>6. CallInv(k, row, now, minted, issued)
    BY <2>1, <2>5 DEF CallInv, Agrees, Fresh, InTime
  <2> QED
    BY <1>a, <1>b, <2>1, <2>2, <2>3, <2>6, LocalStep DEF Storing
<1>6. ASSUME NEW c \in Calls, CasFails(c) \/ Crash(c) PROVE Inv'
  BY <1>6, <1>a, <1>b, ReturnCall, LocalStep DEF CasFails, Crash, Storing
<1>7. CASE Tick
  <2>1. ASSUME NEW d \in Calls, call[d] # NoCall
        PROVE  CallInv(call[d], row, now', minted, issued)
    <3>1. call[d] \in CallStates /\ CallInv(call[d], row, now, minted, issued)
      BY <2>1, <1>a DEF Inv, Running, TypeOK
    <3>2. now' \in Nat /\ now <= now'
      BY <1>7, <1>b DEF Tick
    <3> QED
      BY <3>1, <3>2, <1>b, CallInvKept
  <2> QED
    BY <1>7, <1>a, <2>1 DEF Tick, Inv, Running, TokensDiffer, Storing, NoLostEdit
<1>8. CASE UNCHANGED vars
  BY <1>8, <1>a DEF vars, Inv, Running, TokensDiffer, Storing, NoLostEdit
<1> QED
  BY <1>1, <1>2, <1>3, <1>4, <1>5, <1>6, <1>7, <1>8 DEF Next, Step, Cas, Quiescent

\* The invariant holds in every behaviour.
THEOREM Invariance == Spec => []Inv
<1>1. Init => Inv
  BY DEF Init, Inv, TypeOK, Rows, Locks, NoCall, Running, TokensDiffer, Storing, NoLostEdit
<1> QED
  BY <1>1, InvStep, PTL DEF Spec

-----------------------------------------------------------------------------
\* No acknowledged edit of the row is ever overwritten, whatever the number of
\* concurrent read-modify-write calls.
THEOREM EditsSurvive == Spec => []NoLostEdit
<1>1. Inv => NoLostEdit
  BY DEF Inv
<1> QED
  BY <1>1, Invariance, PTL

\* A checkout that gives up for contention lost to that many writes that did land.
THEOREM GivesUpOnlyUnderLoad == Spec => []ContentionIsReal
<1>1. Inv => ContentionIsReal
  <2> SUFFICES ASSUME Inv, NEW c \in Calls, Running(c)
               PROVE  row.version >= call[c].began + call[c].tries
                        + (IF call[c].pc = "cas" /\ ~VersionMatches(c) THEN 1 ELSE 0)
    BY DEF ContentionIsReal
  <2>1. call[c] \in CallStates /\ Counted(call[c], row) /\ row \in Rows
    BY DEF Inv, TypeOK, Running, CallInv
  <2>2. /\ call[c].began \in Nat /\ call[c].tries \in Nat /\ call[c].copy.version \in Nat
        /\ row.version \in Nat
    BY <2>1 DEF CallStates, Rows
  <2> QED
    BY <2>1, <2>2 DEF Counted, VersionMatches
<1> QED
  BY <1>1, Invariance, PTL

-----------------------------------------------------------------------------
(* What a step may do to the stored lock.                                  *)

\* A step that leaves the row alone, or a compare-and-set that won.
LEMMA OnlyCasWrites ==
  ASSUME [Next]_vars
  PROVE  \/ UNCHANGED <<row, issued>> /\ now' \in {now, now + 1}
         \/ \E c \in Calls : CasWins(c)
BY DEF Next, Begin, CallCheckout, CallRefresh, CallCheckin, CallPatch, CallEdit, Enter, Step,
   Read, Check, CheckoutRefused, CheckoutBuild, RefreshCheck, RefreshBuild, CheckinCheck,
   PatchCheck, EditBuild, Cas, CasRetries, CasFails, Crash, Tick, Quiescent, vars

\* What the winning write does, by operation.
LEMMA WinningWrite ==
  ASSUME Inv, NEW c \in Calls, CasWins(c)
  PROVE  /\ now' = now /\ row'.lock = call[c].copy.lock
         /\ row'.lock \in Locks /\ row.lock \in Locks
         /\ \/ /\ call[c].op = "checkout" /\ Takeable(row.lock, call[c].holder, now)
               /\ row'.lock \in Leases /\ row'.lock.holder = call[c].holder
               /\ row'.lock.token \notin issued
               /\ row'.lock.expiresAt <= now + MaxTTL
               /\ issued' = issued \cup {row'.lock.token}
            \/ /\ call[c].op = "refresh" /\ row.lock # NoLock /\ row'.lock \in Leases
               /\ row'.lock.holder = row.lock.holder /\ row'.lock.token = row.lock.token
               /\ row'.lock.expiresAt <= now + MaxTTL
               /\ Shown(call[c], row.lock) /\ issued' = issued
            \/ /\ call[c].op = "checkin" /\ row.lock # NoLock /\ row'.lock = NoLock
               /\ Shown(call[c], row.lock) /\ issued' = issued
            \/ /\ call[c].op \in {"patch", "edit"} /\ row'.lock = row.lock
               /\ call[c].op = "patch" => row.lock # NoLock /\ row.lock.token = call[c].token
               /\ issued' = issued
<1> DEFINE k == call[c]
<1>1. TypeOK /\ k.pc = "cas" /\ k.copy.version = row.version
  BY DEF Inv, CasWins, VersionMatches
<1>2. /\ k \in CallStates /\ k.copy \in Rows /\ HasLease(k) /\ k # NoCall
  BY <1>1, RunningCall
<1>3. CallInv(k, row, now, minted, issued)
  BY <1>2 DEF Inv, Running
<1>4. row'.lock = k.copy.lock /\ row'.lock \in Locks /\ row.lock \in Locks /\ now' = now
  BY <1>1, <1>2 DEF CasWins, Rows, TypeOK
<1>5. k.op \in Ops
  BY <1>2 DEF CallStates
<1>6. CASE k.op = "checkout"
  <2>1. row'.lock \in Leases /\ issued' = issued \cup {row'.lock.token}
    BY <1>1, <1>2, <1>4, <1>6 DEF HasLease, CasWins
  <2> QED
    BY <2>1, <1>1, <1>3, <1>4, <1>6 DEF CallInv, Agrees, Fresh, InTime
<1>7. CASE k.op # "checkout"
  <2>1. issued' = issued
    BY <1>7 DEF CasWins
  <2> QED
    BY <2>1, <1>1, <1>3, <1>4, <1>5, <1>7 DEF CallInv, Agrees, InTime, Ops
<1> QED
  BY <1>6, <1>7

\* An active lease changes only by a call of its holder, and is given up or
\* extended only by one that shows its token.
THEOREM LeasesAreKept == Spec => NoStolenLease
<1>1. Inv /\ [Next]_vars => [LeaseKept]_vars
  <2> SUFFICES ASSUME Inv, [Next]_vars, IsActive(row.lock), row'.lock # row.lock
               PROVE  LeaseKept
    BY DEF LeaseKept
  <2>1. PICK c \in Calls : CasWins(c)
    BY OnlyCasWrites
  <2>2. Writes(c)
    BY <2>1, ReturnCall, RunningCall DEF Inv, CasWins, Writes, Running
  <2>3. row.lock \in Leases /\ now < row.lock.expiresAt /\ now \in Nat
    BY DEF Inv, TypeOK, IsActive, Rows, Locks
  <2>4. ~(row.lock.expiresAt <= now) /\ row.lock # NoLock
    BY <2>3, NoLockAssumption DEF Leases
  <2>5. CASE call[c].op = "checkout"
    BY <2>1, <2>2, <2>4, <2>5, WinningWrite, NoLockAssumption DEF Takeable, LeaseKept
  <2>6. CASE call[c].op = "refresh"
    BY <2>1, <2>2, <2>6, WinningWrite, NoLockAssumption DEF Shown, LeaseKept
  <2>7. CASE call[c].op = "checkin"
    BY <2>1, <2>2, <2>7, WinningWrite DEF Shown, LeaseKept
  <2> QED
    BY <2>1, <2>5, <2>6, <2>7, WinningWrite
<1> QED
  BY <1>1, Invariance, PTL DEF NoStolenLease, Spec

\* A token that was given up or replaced is never in the row again.
THEOREM TokensStayDead == Spec => NoTokenReturns
<1>1. Inv /\ [Next]_vars => [TokensDie]_vars
  <2> SUFFICES ASSUME Inv, [Next]_vars, NEW t \in issued, row'.lock # NoLock,
                      row'.lock.token = t
               PROVE  row.lock # NoLock /\ row.lock.token = t
    BY DEF TokensDie
  <2>1. CASE UNCHANGED <<row, issued>>
    BY <2>1
  <2>2. ASSUME NEW c \in Calls, CasWins(c)
        PROVE  row.lock # NoLock /\ row.lock.token = t
    BY <2>2, WinningWrite
  <2> QED
    BY <2>1, <2>2, OnlyCasWrites
<1> QED
  BY <1>1, Invariance, PTL DEF NoTokenReturns, Spec

\* A patch that lands was made under the token that is in the row.
THEOREM PatchesNeedTheLease == Spec => PatchUnderLease
<1>1. Inv /\ [Next]_vars => [PatchNeedsLease]_vars
  <2> SUFFICES ASSUME Inv, [Next]_vars, NEW c \in Calls,
                      call[c] # NoCall, call[c].op = "patch", row' # row, call'[c] = NoCall
               PROVE  row.lock # NoLock /\ row.lock.token = call[c].token
    BY DEF PatchNeedsLease
  <2>1. PICK d \in Calls : CasWins(d)
    BY OnlyCasWrites
  <2>2. d = c
    <3>1. TypeOK
      BY DEF Inv
    <3>2. \A e \in Calls \ {d} : call'[e] = call[e]
      BY <2>1, <3>1, ReturnCall DEF CasWins
    <3> QED
      BY <3>2
  <2> QED
    BY <2>1, <2>2, WinningWrite
<1> QED
  BY <1>1, Invariance, PTL DEF PatchUnderLease, Spec

-----------------------------------------------------------------------------
\* The lock service implements the lease: every step on the row, seen through
\* its lock, is a grant, an extension, a release, a tick or nothing.
THEOREM ImplementsLease == Spec => Promise
<1>1. Init => L!Init
  BY DEF Init, L!Init
<1>2. Inv /\ [Next]_vars => [L!Next]_(L!vars)
  <2> SUFFICES ASSUME Inv, [Next]_vars PROVE [L!Next]_(L!vars)
    OBVIOUS
  <2> USE DEF L!vars
  <2>1. CASE UNCHANGED <<row, issued>> /\ now' \in {now, now + 1}
    BY <2>1 DEF L!Next, L!Tick
  <2>2. ASSUME NEW c \in Calls, CasWins(c) PROVE [L!Next]_(L!vars)
    <3>0. /\ now \in Nat /\ call[c].holder \in Holders /\ issued' \subseteq Nat
          /\ row.lock \in Locks
      BY <2>2, RunningCall, TypeStep DEF Inv, TypeOK, CasWins, CallStates, Rows
    <3>1. CASE call[c].op = "checkout"
      <4>1. /\ Takeable(row.lock, call[c].holder, now) /\ now' = now
            /\ row'.lock \in Leases /\ row'.lock.holder = call[c].holder
            /\ row'.lock.token \notin issued /\ row'.lock.expiresAt <= now + MaxTTL
            /\ issued' = issued \cup {row'.lock.token}
        BY <2>2, <3>1, WinningWrite
      <4>2. row'.lock \in [holder : {call[c].holder}, token : Nat \ issued,
                           expiresAt : 0 .. (now + MaxTTL)]
        BY <3>0, <4>1, BoundsAssumption DEF Leases
      <4>3. L!Expired \/ row.lock.holder = call[c].holder
        BY <3>0, <4>1, NoLockAssumption DEF L!Expired, Takeable, Locks, Leases
      <4>4. L!Grant(call[c].holder)
        BY <4>1, <4>2, <4>3 DEF L!Grant
      <4> QED
        BY <3>0, <4>4 DEF L!Next
    <3>2. CASE call[c].op = "refresh"
      <4>1. /\ row.lock # NoLock /\ row'.lock \in Leases /\ now' = now /\ issued' = issued
            /\ row'.lock.holder = row.lock.holder /\ row'.lock.token = row.lock.token
            /\ row'.lock.expiresAt <= now + MaxTTL
        BY <2>2, <3>2, WinningWrite
      <4>2. row'.lock \in [holder : {row.lock.holder}, token : {row.lock.token},
                           expiresAt : 0 .. (now + MaxTTL)]
        BY <3>0, <4>1, BoundsAssumption DEF Leases
      <4> QED
        BY <4>1, <4>2 DEF L!Next, L!Extend
    <3>3. CASE call[c].op = "checkin"
      <4>1. row.lock # NoLock /\ row'.lock = NoLock /\ now' = now /\ issued' = issued
        BY <2>2, <3>3, WinningWrite
      <4> QED
        BY <4>1 DEF L!Next, L!Release
    <3>4. CASE call[c].op \in {"patch", "edit"}
      <4>1. row'.lock = row.lock /\ now' = now /\ issued' = issued
        BY <2>2, <3>4, WinningWrite
      <4> QED
        BY <4>1
    <3> QED
      BY <2>2, <3>1, <3>2, <3>3, <3>4, WinningWrite
  <2> QED
    BY <2>1, <2>2, OnlyCasWrites
<1> QED
  BY <1>1, <1>2, Invariance, PTL DEF Spec, Promise, L!Spec
=============================================================================
