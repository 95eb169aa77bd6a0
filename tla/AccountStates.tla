---------------------------- MODULE AccountStates ----------------------------
(***************************************************************************)
(* What the account service promises its callers: every operation acts on  *)
(* the account at one instant, on what the account is at that instant.     *)
(* Lifecycle.tla shows that operations which read, wait for the platform   *)
(* and only then write keep this promise.                                  *)
(***************************************************************************)
VARIABLES status,      \* "absent" before registration
          consent,     \* the owner's: "none", "given" or "revoked"
          connected    \* whether the account names a connection

States == {"draft", "connected", "active", "suspended", "retired"}

Init == status = "absent" /\ consent = "none" /\ connected = FALSE

\* A withheld account stays withheld; any other stands where its connection
\* and the owner's consent put it.
Settle ==
  \/ status \in {"suspended", "retired"} /\ status' = status
  \/ /\ status \notin {"suspended", "retired"}
     /\ \/ ~connected' /\ status' = "draft"
        \/ connected' /\ consent' # "given" /\ status' = "connected"
        \/ connected' /\ consent' = "given" /\ status' = "active"

Register   == status = "absent" /\ status' = "draft" /\ UNCHANGED <<consent, connected>>
Authorize  == consent' = "given" /\ UNCHANGED connected /\ Settle
Revoke     == consent' = "revoked" /\ status' = "suspended" /\ UNCHANGED connected
Connect    == connected' = TRUE /\ UNCHANGED consent /\ Settle
Disconnect == connected' = FALSE /\ UNCHANGED consent /\ Settle
Retire     == status' = "retired" /\ UNCHANGED <<consent, connected>>
Patch      == status' \in States /\ UNCHANGED <<consent, connected>>

Next ==
  \/ Register
  \/ /\ status # "absent"
     /\ Authorize \/ Revoke \/ Connect \/ Disconnect \/ Retire \/ Patch

Spec == Init /\ [][Next]_<<status, consent, connected>>
=============================================================================
