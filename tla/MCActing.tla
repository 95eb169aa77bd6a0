------------------------------ MODULE MCActing ------------------------------
(* Instances of Acting for TLC. *)
EXTENDS Acting

CONSTANTS r1, r2, r3, r4, agents, admin, alice, key,
          beside, alone, again   \* the mixes of calls

\* r1, r2 and r4 are made by agents through one MCP server, r3 by a reviewer
\* through the admin server.
Three == {r1, r2, r3}
Four == {r1, r2, r3, r4}
Processes(R) == [r \in R |-> IF r = r3 THEN admin ELSE agents]
ThreeProcesses == Processes(Three)
FourProcesses == Processes(Four)
ThreeAgents == [r \in Three |-> alice]
FourAgents == [r \in Four |-> alice]
ThreeKeys == [r \in Three |-> key]
FourKeys == [r \in Four |-> key]

\* Two agents' requests beside a review; or one act of an agent beside a call
\* of any kind; or a post that is routed while its draft is edited, its
\* approval submitted again, and a reviewer decides on it.
FourOps ==
  [mx \in {beside, alone, again} |-> [r \in Four |->
     CASE mx = beside ->
            (CASE r = r1 -> {"comment"}
               [] r = r2 -> {"publish", "edit", "resubmit", "approve"}
               [] r = r3 -> {"approve", "reject", "changes"}
               [] r = r4 -> {})
       [] mx = alone ->
            (CASE r = r1 -> Kinds
               [] r = r3 -> Reviews \cup {"create", "edit", "publish"}
               [] OTHER -> {})
       [] mx = again ->
            (CASE r = r1 -> {"publish"} [] r = r2 -> {"edit"}
               [] r = r3 -> {"approve", "changes"} [] r = r4 -> {"resubmit"})]]

\* A write or a read of an agent beside any other call.
AuditOps == [mx \in {alone} |-> [r \in Three |->
               CASE r = r1 -> Kinds [] r = r2 -> {} [] r = r3 -> Ops]]
NoKeys == [r \in Three |-> NoKey]

\* An approval is granted and then resubmitted.
ReopenOps == [mx \in {beside} |-> [r \in Three |->
                CASE r = r1 -> {"publish"} [] r = r2 -> {"resubmit"} [] r = r3 -> {"approve"}]]

\* A draft is edited twice while a reviewer decides on it, every request in
\* a server process of its own, as with the stdio transport.
EditsOps == [mx \in {beside} |-> [r \in Four |->
               CASE r = r1 -> {"publish"} [] r = r4 -> {"approve"} [] OTHER -> {"edit"}]]
FourApart == [r \in Four |-> r]
FourNoKeys == [r \in Four |-> NoKey]
=============================================================================
