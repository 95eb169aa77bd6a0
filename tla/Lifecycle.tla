------------------------------ MODULE Lifecycle ------------------------------
(***************************************************************************)
(* AccountService (accounts/service.py) on one account, with the table of  *)
(* connections and the vault of credentials, each a store of its own.      *)
(*                                                                         *)
(* A call reads the account, works on its copy, stores or deletes          *)
(* credentials on the way, may await the platform, and writes the copy     *)
(* back if no one else has written since.  Calls come from several server  *)
(* processes and from the admin server's threads: each database or vault   *)
(* session is one step, and other calls run between any two.               *)
(*                                                                         *)
(* A connection, and the secret it refers to, is named by the connect call *)
(* that made it.  Health, compliance, capabilities and profile are left    *)
(* out: no status depends on them.  So are the rotated credentials that a  *)
(* refresh would store: no adapter returns any.                            *)
(***************************************************************************)
EXTENDS Naturals

CONSTANTS Calls,        \* bound: the calls of a behaviour, each made once
          OpsOf,        \* which operations a call may be
          None,         \* no connection
          MaxTouches    \* bound: writes of the account by the lock service

Ops    == {"register", "authorize", "revoke", "connect", "refresh", "health",
           "patch", "retire", "disconnect"}
States == {"draft", "connected", "active", "suspended", "retired"}

ASSUME LifecycleAssumption ==
  /\ OpsOf \in [Calls -> SUBSET Ops]
  /\ None \notin Calls
  /\ MaxTouches \in Nat

VARIABLES row,          \* the stored account
          connections,  \* the stored connections
          vault,        \* the connections whose secret the vault holds
          call,         \* what each call has in memory
          fate,         \* history: what became of the connection of each connect
          touches

vars == <<row, connections, vault, call, fate, touches>>

Rows == [version : Nat, status : States \cup {"absent"},
         consent : {"none", "given", "revoked"}, conn : Calls \cup {None}]

NoRow == [version |-> 0, status |-> "absent", consent |-> "none", conn |-> None]

PCs == {"new", "add", "store", "add_connection", "await", "find",
        "delete_secret", "delete_connection", "commit", "record", "ended"}

Memory == [pc : PCs, op : Ops, row : Rows,
           dropped : Calls \cup {None},   \* history: whose secret it set out to delete
           stayed : BOOLEAN,              \* ... and whether the vault raised instead
           end : {"open", "ok", "conflict", "raised", "crash"}]

\* The account has not named it yet, names it, or no longer does: another
\* connect put its own in the place, or a disconnect took it away.
Fates == {"unnamed", "named", "replaced", "dropped"}

Init ==
  /\ row = NoRow /\ connections = {} /\ vault = {} /\ touches = 0
  /\ fate = [c \in Calls |-> "unnamed"]
  /\ call = [c \in Calls |-> [pc |-> "new", op |-> "health", row |-> NoRow,
                              dropped |-> None, stayed |-> FALSE, end |-> "open"]]

-----------------------------------------------------------------------------
At(c, pc) == call[c].pc = pc

Goto(c, pc) == call' = [call EXCEPT ![c] = [@ EXCEPT !.pc = pc]]

\* The call ends; only its operation, its history and its outcome are kept.
End(c, how) ==
  call' = [call EXCEPT ![c] = [@ EXCEPT !.pc = "ended", !.row = NoRow, !.end = how]]

\* The copy of the account a call works on.  For patch it is what the caller
\* saw: the version is the one it expects.  An unknown account is NotFound.
Read(c) ==
  /\ At(c, "new")
  /\ \E op \in OpsOf[c] :
       /\ op # "register" => row.status # "absent"
       /\ call' = [call EXCEPT ![c] =
                    [@ EXCEPT !.op = op, !.row = row,
                              !.pc = CASE op = "register"                -> "add"
                                       [] op = "connect"                 -> "store"
                                       [] op \in {"refresh", "health"}   -> "await"
                                       [] op = "disconnect"              -> "find"
                                       [] OTHER                          -> "commit"]]
  /\ UNCHANGED <<row, connections, vault, fate, touches>>

\* Every registration mints an id of its own: a second one for the same handle
\* makes an account apart, and leaves this one as it is.
Register(c) ==
  /\ At(c, "add")
  /\ row' = IF row.status = "absent" THEN [NoRow EXCEPT !.version = 1, !.status = "draft"] ELSE row
  /\ Goto(c, "record")
  /\ UNCHANGED <<connections, vault, fate, touches>>

-----------------------------------------------------------------------------
(* connect, refresh_credentials and health_check.                          *)

StoreSecret(c) ==
  /\ At(c, "store")
  /\ vault' = vault \cup {c}
  /\ Goto(c, "add_connection")
  /\ UNCHANGED <<row, connections, fate, touches>>

\* Mutant: the connection of the copy is added before the copy names the new one.
AddOldConnection(c) ==
  /\ At(c, "add_connection")
  /\ connections' = connections \cup {call[c].row.conn}
  /\ call' = [call EXCEPT ![c] = [@ EXCEPT !.pc = "await",
                                               !.row = [call[c].row EXCEPT !.conn = c]]]
  /\ UNCHANGED <<row, vault, fate, touches>>

AddConnection(c) ==
  /\ At(c, "add_connection")
  /\ connections' = connections \cup {c}
  /\ call' = [call EXCEPT ![c] = [@ EXCEPT !.pc = "await",
                                               !.row = [call[c].row EXCEPT !.conn = c]]]
  /\ UNCHANGED <<row, vault, fate, touches>>

\* The platform answers, or the adapter raises.
Answer(c) ==
  /\ At(c, "await")
  /\ \/ Goto(c, "commit")
     \/ End(c, "raised")
  /\ UNCHANGED <<row, connections, vault, fate, touches>>

-----------------------------------------------------------------------------
(* disconnect: the credentials go before the account is written.           *)

\* ConnectionRepository.get: without a record there is nothing to delete.
Find(c) ==
  /\ At(c, "find")
  /\ Goto(c, IF call[c].row.conn \in connections THEN "delete_secret" ELSE "commit")
  /\ UNCHANGED <<row, connections, vault, fate, touches>>

\* Mutant: an error of the vault keeps the connection too.
DeleteSecretOrNothing(c) ==
  /\ At(c, "delete_secret")
  /\ \E raises \in BOOLEAN :
       /\ vault' = IF raises THEN vault ELSE vault \ {call[c].row.conn}
       /\ call' = [call EXCEPT ![c] =
                    [@ EXCEPT !.pc = IF raises THEN "commit" ELSE "delete_connection",
                              !.dropped = call[c].row.conn, !.stayed = raises]]
  /\ UNCHANGED <<row, connections, fate, touches>>

\* An error of the vault is swallowed.
DeleteSecret(c) ==
  /\ At(c, "delete_secret")
  /\ \E raises \in BOOLEAN :
       /\ vault' = IF raises THEN vault ELSE vault \ {call[c].row.conn}
       /\ call' = [call EXCEPT ![c] = [@ EXCEPT !.pc = "delete_connection",
                                                 !.dropped = call[c].row.conn, !.stayed = raises]]
  /\ UNCHANGED <<row, connections, fate, touches>>

DeleteConnection(c) ==
  /\ At(c, "delete_connection")
  /\ connections' = connections \ {call[c].row.conn}
  /\ Goto(c, "commit")
  /\ UNCHANGED <<row, vault, fate, touches>>

-----------------------------------------------------------------------------
(* The write of the account, and the audit event after it.                 *)

\* Mutants: a withheld account is settled too; the connection is not looked at.
SettledAlways(r) ==
  [r EXCEPT !.status = IF r.conn = None THEN "draft"
                       ELSE IF r.consent = "given" THEN "active" ELSE "connected"]
SettledByConsent(r) ==
  IF r.status \in {"suspended", "retired"} THEN r
  ELSE [r EXCEPT !.status = IF r.consent = "given" THEN "active"
                            ELSE IF r.conn = None THEN "draft" ELSE "connected"]

\* _recompute_status
Settled(r) ==
  IF r.status \in {"suspended", "retired"} THEN r
  ELSE [r EXCEPT !.status = IF r.conn = None THEN "draft"
                            ELSE IF r.consent = "given" THEN "active" ELSE "connected"]

\* The copy r as operation op leaves it.
Outcomes(op, r) ==
  CASE op = "authorize"  -> {Settled([r EXCEPT !.consent = "given"])}
    [] op = "revoke"     -> {[r EXCEPT !.consent = "revoked", !.status = "suspended"]}
    [] op = "connect"    -> {Settled(r)}
    [] op = "disconnect" -> {Settled([r EXCEPT !.conn = None])}
    [] op = "retire"     -> {[r EXCEPT !.status = "retired"]}
    [] op = "patch"      -> {[r EXCEPT !.status = s] : s \in States}
    [] OTHER             -> {r}

\* Mutant: the last writer wins.
VersionIgnored(c) == TRUE

\* AccountRepository.update
VersionMatches(c) == row.version = call[c].row.version

\* What a write by call c, after which the account names new, makes of x.
FateAfter(c, new, x) ==
  CASE new = x                   -> "named"
    [] new # x /\ row.conn = x   -> IF call[c].op = "connect" THEN "replaced" ELSE "dropped"
    [] new # x /\ row.conn # x   -> fate[x]

Commit(c) ==
  /\ At(c, "commit") /\ VersionMatches(c)
  /\ \E r \in Outcomes(call[c].op, call[c].row) :
       /\ row' = [r EXCEPT !.version = row.version + 1]
       /\ fate' = [x \in Calls |-> FateAfter(c, r.conn, x)]
  /\ Goto(c, "record")
  /\ UNCHANGED <<connections, vault, touches>>

\* VersionConflict; for patch also a lease that the caller does not hold.
CommitFails(c) ==
  /\ At(c, "commit") /\ (~VersionMatches(c) \/ call[c].op = "patch")
  /\ End(c, "conflict")
  /\ UNCHANGED <<row, connections, vault, fate, touches>>

Record(c) ==
  /\ At(c, "record")
  /\ End(c, "ok")
  /\ UNCHANGED <<row, connections, vault, fate, touches>>

-----------------------------------------------------------------------------
\* The lock service writes the account too (Checkout.tla).
Touch ==
  /\ touches < MaxTouches /\ row.status # "absent"
  /\ touches' = touches + 1
  /\ row' = [row EXCEPT !.version = @ + 1]
  /\ UNCHANGED <<connections, vault, call, fate>>

\* The server process dies.
Crash(c) ==
  /\ call[c].pc \notin {"new", "ended"}
  /\ End(c, "crash")
  /\ UNCHANGED <<row, connections, vault, fate, touches>>

Serve(c) ==
  \/ Read(c) \/ Register(c)
  \/ StoreSecret(c) \/ AddConnection(c) \/ Answer(c)
  \/ Find(c) \/ DeleteSecret(c) \/ DeleteConnection(c)
  \/ Commit(c) \/ CommitFails(c) \/ Record(c)

Next == (\E c \in Calls : Serve(c) \/ Crash(c)) \/ Touch

Spec == Init /\ [][Next]_vars

-----------------------------------------------------------------------------
\* The values every variable ranges over.
TypeOK ==
  /\ row \in Rows /\ touches \in Nat
  /\ connections \subseteq Calls /\ vault \subseteq Calls
  /\ call \in [Calls -> Memory] /\ fate \in [Calls -> Fates]

\* The operations take effect at one instant each, although they read early,
\* wait, and write late.
Account == INSTANCE AccountStates
             WITH status <- row.status, consent <- row.consent, connected <- row.conn # None
Promise == Account!Spec

\* The call that writes the account in a step.
Writes(c) == call[c].pc \in {"add", "commit"} /\ call'[c].pc = "record"

\* Consent that was revoked is back only when an owner gives it again: no
\* call that started before the revocation carries the old consent over it.
RevocationIsKept ==
  [][row.consent = "revoked" /\ row'.consent # "revoked"
       => \E c \in Calls : Writes(c) /\ call[c].op = "authorize"]_vars

\* A suspended or retired account changes its status only by an operation on
\* the status itself, patch, retire or revoke, of a caller that saw it as it
\* stands.  Connecting, authorizing or disconnecting leaves it withheld, and
\* so does any call that read it before it was withheld.
WithheldUntilPatched ==
  [][\/ row.status \notin {"suspended", "retired"}
     \/ row'.status = row.status
     \/ \E c \in Calls :
          /\ Writes(c) /\ call[c].row.status = row.status
          /\ \/ call[c].op = "patch"
             \/ call[c].op = "revoke" /\ row'.status = "suspended"
             \/ call[c].op = "retire" /\ row'.status = "retired"]_vars

\* "retire is terminal": once retired, an account stays retired.
RetireIsTerminal == [][row.status = "retired" => row'.status = "retired"]_vars

\* Unless someone patched the status, an active account has the owner's
\* consent and a connection, through every race of connect, authorize,
\* revoke and disconnect.
ActiveIsEarned ==
  row.status = "active" /\ (\A c \in Calls : call[c].op = "patch" => call[c].pc = "new")
    => row.consent = "given" /\ row.conn # None

\* The account names a connection whose record or secret is gone only while
\* a disconnect is under way, or after one that failed.
DanglesOnlyByFailedDisconnect ==
  row.conn # None /\ ~(row.conn \in connections /\ row.conn \in vault)
    => \E c \in Calls : call[c].dropped = row.conn /\ call[c].end # "ok"

\* The record or the secret of a connection that the account does not name
\* is there for one of three reasons.  The account never named it: its connect
\* is under way or did not return ok.  Another connect took its place.  Or a
\* disconnect took it from the account: then its record is gone, and a
\* disconnect that set out to delete this very secret met an error of the vault.
LeftoversAreExplained ==
  \A c \in (connections \cup vault) \ {row.conn} :
    \/ fate[c] = "unnamed" /\ call[c].end # "ok"
    \/ fate[c] = "replaced"
    \/ /\ fate[c] = "dropped" /\ c \notin connections
       /\ \E d \in Calls : call[d].dropped = c /\ call[d].stayed

\* "credentials present, not yet authorized/active" and "authorized +
\* connected; may act": a status that says so once every call has returned.
StatusMeansCredentials ==
  /\ row.status \in {"connected", "active"}
  /\ \A c \in Calls : call[c].pc \in {"new", "ended"} /\ call[c].end # "crash"
  => row.conn \in vault
=============================================================================
