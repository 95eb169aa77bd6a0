------------------------------- MODULE Lease -------------------------------
(***************************************************************************)
(* What a checkout lease on one account promises to the agents that share  *)
(* the account (domain/models.py, LockLease: "so only one agent acts on an *)
(* account at a time").  The lease is a single register.  It may be        *)
(* granted only while nobody else holds it, every grant hands out a token  *)
(* never handed out before, and apart from a grant the register can only   *)
(* be extended under the same token or given up.                           *)
(*                                                                         *)
(* Checkout.tla is shown to implement this specification.                  *)
(***************************************************************************)
EXTENDS Naturals

CONSTANTS Holders,    \* agents that may hold the lease
          NoLock,     \* the register while nobody holds it
          MaxTTL      \* longest lease

VARIABLES lease,      \* NoLock, or the holder, the token and the expiry
          clock,
          spent       \* tokens handed out so far

vars == <<lease, clock, spent>>

Expired == lease = NoLock \/ clock >= lease.expiresAt

Init == lease = NoLock /\ clock = 0 /\ spent = {}

\* h takes a lease that is free, has run out, or is already its own.
Grant(h) ==
  /\ Expired \/ lease.holder = h
  /\ lease' \in [holder : {h}, token : Nat \ spent, expiresAt : 0 .. (clock + MaxTTL)]
  /\ spent' = spent \cup {lease'.token}
  /\ UNCHANGED clock

\* Same holder, same token, a new expiry.
Extend ==
  /\ lease # NoLock
  /\ lease' \in [holder : {lease.holder}, token : {lease.token},
                  expiresAt : 0 .. (clock + MaxTTL)]
  /\ UNCHANGED <<clock, spent>>

Release ==
  /\ lease # NoLock
  /\ lease' = NoLock
  /\ UNCHANGED <<clock, spent>>

Tick ==
  /\ clock' = clock + 1
  /\ UNCHANGED <<lease, spent>>

Next == (\E h \in Holders : Grant(h)) \/ Extend \/ Release \/ Tick

Spec == Init /\ [][Next]_vars
=============================================================================
