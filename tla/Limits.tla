------------------------------- MODULE Limits -------------------------------
(***************************************************************************)
(* The trackers behind the policy engine: the rate limiter, the            *)
(* self-promotion ledger and the coordination tracker                      *)
(* (policy/ratelimit.py, policy/trackers.py), read by the guards when an   *)
(* act is judged and written when the adapter has carried it out.          *)
(*                                                                         *)
(* Every server process has trackers of its own, in memory.  Its requests  *)
(* share an event loop: judging is one step, the adapter's answer and the  *)
(* tracker updates that follow are another, and other requests run in      *)
(* between.  An approved act is not judged again, and the process that     *)
(* decides the approval is the one that carries it out.                    *)
(***************************************************************************)
EXTENDS Integers, Sequences, FiniteSets, SequencesExt

CONSTANTS Requests,     \* bound: the acts of a behaviour
          Processes, Accounts, Targets,
          NoTarget,     \* a publication on the account's own channel, a search
          Asks,         \* what a request may ask for, see AskSet
          Base,         \* rate_per_minute of the platform, by verb
          Override,     \* ... and of each account's policy_overrides
          NoLimit,      \* a verb without an entry
          Ratio,        \* self_promo_ratio, 0 disables
          MaxDistinct,  \* max_distinct_accounts per target
          RateWindow, TargetWindow,   \* the rolling windows, in clock ticks
          MaxTime       \* bound: the clock stops here

Verbs == {"publish", "comment", "react", "read", "search"}

\* refused: a guard that looks at no tracker refuses; review: the autonomy
\* guard wants a human; promotional: the text links to the owner's domain.
AskSet == [verb : Verbs, account : Accounts, target : Targets \cup {NoTarget},
           owned : BOOLEAN, promotional : BOOLEAN, refused : BOOLEAN, review : BOOLEAN]

ASSUME LimitsAssumption ==
  /\ Asks \subseteq AskSet /\ Asks # {}
  /\ Base \in [Verbs -> Nat \cup {NoLimit}]
  /\ Override \in [Accounts -> [Verbs -> Int \cup {NoLimit}]]
  /\ Ratio \in Nat /\ MaxDistinct \in Nat
  /\ RateWindow \in Nat /\ TargetWindow \in Nat /\ MaxTime \in Nat
  /\ NoTarget \notin Targets

VARIABLES events,     \* per process, account and verb: when acts were counted
          promo,      \* per process and account: promotional acts counted
          nonPromo,   \* ... and the others
          hits,       \* per process and target: which account acted, and when
          now,
          req         \* the acts under way and, as history, the ones carried out

vars == <<events, promo, nonPromo, hits, now, req>>
trackers == <<events, promo, nonPromo, hits>>

NoAsk == CHOOSE ask \in Asks : TRUE

\* solo: the engine judged the act while no other act was with an adapter;
\* at: when it was counted; kept: the process has not restarted since.
ReqSet == [pc : {"new", "review", "dispatch", "done", "ended"}, ask : Asks,
           process : Processes, solo : BOOLEAN, at : Nat, kept : BOOLEAN]

Init ==
  /\ events = [p \in Processes |-> [k \in Accounts \X Verbs |-> <<>>]]
  /\ promo = [p \in Processes |-> [a \in Accounts |-> 0]]
  /\ nonPromo = [p \in Processes |-> [a \in Accounts |-> 0]]
  /\ hits = [p \in Processes |-> [t \in Targets |-> <<>>]]
  /\ now = 0
  /\ req \in [Requests -> [pc : {"new"}, ask : {NoAsk}, process : Processes,
                           solo : {FALSE}, at : {0}, kept : {FALSE}]]

-----------------------------------------------------------------------------
(* The trackers.  What a check prunes is never live again, so that only    *)
(* the writers keep the pruned list.                                       *)

\* Mutant: the oldest tick of the window is pruned.
LiveStrict(times) ==
  LET stale == {i \in DOMAIN times : times[i] <= now - RateWindow}
  IN  SubSeq(times, Cardinality(stale) + 1, Len(times))

\* The times in the window.  They were appended as they passed, so that those
\* before it come first.
Live(times) ==
  LET stale == {i \in DOMAIN times : times[i] < now - RateWindow}
  IN  SubSeq(times, Cardinality(stale) + 1, Len(times))

\* resolve_policy: an override may lower the platform's limit, or set one
\* where the platform has none.  The guard takes no entry at all for zero.
Limit(a, verb) ==
  LET entries == {Base[verb], Override[a][verb]} \ {NoLimit}
  IN  IF entries = {} THEN 0 ELSE Min(entries)

\* RateLimiter.check; a limit of zero or less means that there is none.
RateAllows(p, a, verb) ==
  Limit(a, verb) <= 0 \/ Len(Live(events[p][<<a, verb>>])) < Limit(a, verb)

\* Mutant: the ratio is exceeded one write too late.
WouldExceedLate(p, a) == Ratio > 0 /\ promo[p][a] > nonPromo[p][a] \div Ratio

\* SelfPromoLedger.would_exceed
WouldExceed(p, a) == Ratio > 0 /\ promo[p][a] >= nonPromo[p][a] \div Ratio

LiveHits(p, t) == {h \in ToSet(hits[p][t]) : h.time >= now - TargetWindow}

\* Mutant: the account that is about to act is not counted.
WouldCoordinateBefore(p, t, a) ==
  Cardinality({h.account : h \in LiveHits(p, t)}) > MaxDistinct

\* CoordinationTracker.would_coordinate
WouldCoordinate(p, t, a) ==
  Cardinality({h.account : h \in LiveHits(p, t)} \cup {a}) > MaxDistinct

IsWrite(ask) == ask.verb \in {"publish", "comment", "react"}
HasDraft(ask) == ask.verb \in {"publish", "comment"}
OnTarget(ask) == ask.verb \in {"comment", "react"} /\ ask.target # NoTarget
IsOwned(ask) == ask.verb = "publish" \/ ask.owned

\* PolicyEngine.evaluate: the first guard that does not allow decides; the
\* autonomy guard is the last.
Verdict(p, ask) ==
  IF \/ ask.refused
     \/ ~RateAllows(p, ask.account, ask.verb)
     \/ HasDraft(ask) /\ ask.promotional /\ WouldExceed(p, ask.account)
     \/ OnTarget(ask) /\ ~IsOwned(ask) /\ WouldCoordinate(p, ask.target, ask.account)
    THEN "deny"
    ELSE IF IsWrite(ask) /\ ask.review THEN "route" ELSE "allow"

-----------------------------------------------------------------------------
Dispatching(p) == \E r \in Requests : req[r].process = p /\ req[r].pc = "dispatch"

\* A request is judged and, if it may go ahead, handed to the adapter.
Judge(r) ==
  /\ req[r].pc = "new"
  /\ \E ask \in Asks :
       LET p == req[r].process
           verdict == Verdict(p, ask)
       IN  req' = [req EXCEPT ![r] =
                    [@ EXCEPT !.ask = ask, !.solo = ~Dispatching(p),
                              !.pc = CASE verdict = "deny" -> "ended" [] verdict = "route" -> "review"
                                       [] OTHER -> "dispatch"]]
  /\ UNCHANGED <<trackers, now>>

\* decide_approval in process p: refused, or executed without the engine.
Decide(r, p) ==
  /\ req[r].pc = "review"
  /\ \E pc \in {"dispatch", "ended"} :
       req' = [req EXCEPT ![r] = [@ EXCEPT !.pc = pc, !.process = p, !.solo = FALSE]]
  /\ UNCHANGED <<trackers, now>>

\* Mutant: the cutoff is stored for the time.
ConsumeCutoff(p, a, verb) ==
  events' = [events EXCEPT ![p][<<a, verb>>] = Append(Live(@), now - RateWindow)]

\* RateLimiter.consume
Consume(p, a, verb) ==
  events' = [events EXCEPT ![p][<<a, verb>>] = Append(Live(@), now)]

\* The adapter succeeded: the trackers count the act.
Succeed(r) ==
  LET ask == req[r].ask
      p == req[r].process
      a == ask.account
  IN
  /\ req[r].pc = "dispatch"
  /\ Consume(p, a, ask.verb)
  /\ IF OnTarget(ask)
       THEN hits' = [hits EXCEPT ![p][ask.target] = Append(@, [account |-> a, time |-> now])]
       ELSE UNCHANGED hits
  /\ IF HasDraft(ask)
       THEN IF ask.promotional
              THEN promo' = [promo EXCEPT ![p][a] = @ + 1] /\ UNCHANGED nonPromo
              ELSE nonPromo' = [nonPromo EXCEPT ![p][a] = @ + 1] /\ UNCHANGED promo
       ELSE UNCHANGED <<promo, nonPromo>>
  /\ req' = [req EXCEPT ![r] = [@ EXCEPT !.pc = "done", !.at = now, !.kept = TRUE]]
  /\ UNCHANGED now

\* Mutant: a failed act is counted.
FailCounted(r) ==
  /\ req[r].pc = "dispatch"
  /\ Consume(req[r].process, req[r].ask.account, req[r].ask.verb)
  /\ req' = [req EXCEPT ![r] = [@ EXCEPT !.pc = "ended"]]
  /\ UNCHANGED <<promo, nonPromo, hits, now>>

\* The adapter reports a failure or raises: no tracker is touched, although
\* an adapter that raises may have carried out the act.
Fail(r) ==
  /\ req[r].pc = "dispatch"
  /\ req' = [req EXCEPT ![r] = [@ EXCEPT !.pc = "ended"]]
  /\ UNCHANGED <<trackers, now>>

\* A process restarts: what it had under way is gone, and so are its trackers.
Restart(p) ==
  /\ \E r \in Requests : req[r].process = p /\ (req[r].pc = "dispatch" \/ req[r].kept)
  /\ events' = [events EXCEPT ![p] = [k \in Accounts \X Verbs |-> <<>>]]
  /\ promo' = [promo EXCEPT ![p] = [a \in Accounts |-> 0]]
  /\ nonPromo' = [nonPromo EXCEPT ![p] = [a \in Accounts |-> 0]]
  /\ hits' = [hits EXCEPT ![p] = [t \in Targets |-> <<>>]]
  /\ req' = [r \in Requests |->
               IF req[r].process # p THEN req[r]
               ELSE [req[r] EXCEPT !.kept = FALSE,
                                   !.pc = IF @ = "dispatch" THEN "ended" ELSE @]]
  /\ UNCHANGED now

Tick ==
  /\ now < MaxTime
  /\ now' = now + 1
  /\ UNCHANGED <<trackers, req>>

Next ==
  \/ \E r \in Requests : Judge(r) \/ Succeed(r) \/ Fail(r)
  \/ \E r \in Requests, p \in Processes : Decide(r, p)
  \/ \E p \in Processes : Restart(p)
  \/ Tick

Spec == Init /\ [][Next]_vars

-----------------------------------------------------------------------------
\* The values every variable ranges over.
TypeOK ==
  /\ events \in [Processes -> [Accounts \X Verbs -> Seq(Nat)]]
  /\ promo \in [Processes -> [Accounts -> Nat]] /\ nonPromo \in [Processes -> [Accounts -> Nat]]
  /\ hits \in [Processes -> [Targets -> Seq([account : Accounts, time : Nat])]]
  /\ now \in Nat
  /\ req \in [Requests -> ReqSet]

\* The acts process p carried out since it started.
Done(p) == {r \in Requests : req[r].process = p /\ req[r].pc = "done" /\ req[r].kept}

\* ... among them those of account a with the verb, within a window that ends at t.
Within(p, a, verb, t) ==
  {r \in Done(p) : /\ req[r].ask.account = a /\ req[r].ask.verb = verb
                   /\ req[r].at \in (t - RateWindow)..t}

\* In no rolling window does a process carry out more acts than the limit,
\* as long as the engine judges each one while no other is under way.
RateHoldsAlone ==
  \A p \in Processes, a \in Accounts, verb \in Verbs, t \in 0..now :
    Limit(a, verb) > 0
      => Cardinality({r \in Within(p, a, verb, t) : req[r].solo}) <= Limit(a, verb)

\* Nor are there ever more promotional writes than the ratio grants.
RatioHoldsAlone ==
  \A p \in Processes, a \in Accounts :
    LET texts == {r \in Done(p) : req[r].ask.account = a /\ HasDraft(req[r].ask)}
        promos == {r \in texts : req[r].ask.promotional}
    IN  Ratio > 0 => Cardinality({r \in promos : req[r].solo})
                       <= Cardinality(texts \ promos) \div Ratio

\* Nor do more accounts of the pool turn up on a target than are let through.
CoordinationHoldsAlone ==
  \A p \in Processes, target \in Targets, t \in 0..now :
    LET there == {r \in Done(p) : /\ OnTarget(req[r].ask) /\ req[r].ask.target = target
                                  /\ ~IsOwned(req[r].ask) /\ req[r].solo
                                  /\ req[r].at \in (t - TargetWindow)..t}
    IN  there # {} => Cardinality({req[r].ask.account : r \in there}) <= MaxDistinct

\* The acts on a target that process p carried out, and the hit of an act.
ActsOn(p, target) == {r \in Done(p) : OnTarget(req[r].ask) /\ req[r].ask.target = target}
Hit(r) == [account |-> req[r].ask.account, time |-> req[r].at]

\* The trackers count what an adapter reported as done, and nothing that was
\* refused, routed, or failed: the limiter once per act of the window, the
\* ledger each text on its side, the hits on a target just those of its acts.
CountsWhatWasDone ==
  \A p \in Processes :
    /\ \A a \in Accounts, verb \in Verbs :
         Len(Live(events[p][<<a, verb>>])) = Cardinality(Within(p, a, verb, now))
    /\ \A a \in Accounts :
         LET texts == {r \in Done(p) : req[r].ask.account = a /\ HasDraft(req[r].ask)}
             promos == {r \in texts : req[r].ask.promotional}
         IN  promo[p][a] = Cardinality(promos) /\ nonPromo[p][a] = Cardinality(texts \ promos)
    /\ \A target \in Targets : ToSet(hits[p][target]) = {Hit(r) : r \in ActsOn(p, target)}

\* "max writes per rolling window", whatever else is under way.
RateHolds ==
  \A p \in Processes, a \in Accounts, verb \in Verbs, t \in 0..now :
    Limit(a, verb) > 0 => Cardinality(Within(p, a, verb, t)) <= Limit(a, verb)
=============================================================================
