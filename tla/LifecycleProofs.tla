--------------------------- MODULE LifecycleProofs ---------------------------
(***************************************************************************)
(* Proofs about Lifecycle for any set of calls.  Everything rests on Inv:  *)
(* a copy agrees with the account as long as the version has not moved,    *)
(* and the credentials of a connection are where the calls that made and   *)
(* dropped it have left them.                                              *)
(***************************************************************************)
EXTENDS Lifecycle, TLAPS

-----------------------------------------------------------------------------
(* The inductive invariant, in parts.                                      *)

\* A call with a copy of the account that it has not written back.
Working(c) == call[c].pc \notin {"new", "add", "record", "ended"}

\* A connect that has given the new connection to its copy.
Named(c) == call[c].op = "connect" /\ call[c].pc \in {"await", "commit"}

\* The operations that come to a step, and how a call ends.
StageOf(k) ==
  /\ k.pc = "new" => k.op = "health" /\ k.row.conn = None
  /\ k.pc = "add" => k.op = "register"
  /\ k.pc \in {"store", "add_connection"} => k.op = "connect"
  /\ k.pc = "await" => k.op \in {"connect", "refresh", "health"}
  /\ k.pc \in {"find", "delete_secret", "delete_connection"} => k.op = "disconnect"
  /\ k.pc \in {"delete_secret", "delete_connection"} => k.row.conn # None
  /\ k.pc = "delete_connection" => k.dropped = k.row.conn
  /\ k.pc = "commit" => k.op # "register"
  /\ k.dropped # None => k.pc \in {"delete_connection", "commit", "record", "ended"}
  /\ k.dropped # None => k.op = "disconnect"
  /\ k.stayed => k.dropped # None
  /\ k.pc = "ended" <=> k.end # "open"
Stages == \A c \in Calls : StageOf(call[c])

\* The copy of a call is the account, or an earlier version of it.
Copies ==
  \A c \in Calls :
    Working(c) =>
      /\ row.status # "absent" /\ call[c].row.version <= row.version
      /\ VersionMatches(c) =>
           call[c].row = IF Named(c) THEN [row EXCEPT !.conn = c] ELSE row

\* Whatever names a connection names a connect.
Connects == {c \in Calls : call[c].op = "connect"}
Names ==
  /\ connections \subseteq Connects /\ vault \subseteq Connects
  /\ row.conn \in Connects \cup {None}
  /\ row.status = "absent" => row.conn = None /\ row.consent = "none"
  /\ \A c \in Calls : /\ call[c].row.conn \in Connects \cup {None}
                      /\ call[c].dropped \in Connects \cup {None}

\* A connection that was not written to the account is known to its call only.
Fresh ==
  \A x \in Calls : call[x].pc \notin {"record", "ended"} =>
    /\ row.conn # x
    /\ \A c \in Calls : /\ call[c].dropped # x
                        /\ call[c].row.conn = x => c = x /\ Named(x)

Dropped(x) == \E c \in Calls : call[c].dropped = x

\* The connection a connect is about to write, and the one of the account,
\* have a record and a secret, until a disconnect sets out to drop them.
Backed ==
  /\ \A x \in Calls : call[x].op = "connect" =>
       /\ call[x].pc = "add_connection" => x \in vault
       /\ call[x].pc \in {"await", "commit"} => x \in vault \cap connections
  /\ row.conn # None => row.conn \in vault \cap connections \/ Dropped(row.conn)

\* A disconnect that wrote the account took the connection it dropped from it,
\* and one that is about to write it takes none that has a record.
Taken ==
  \A c \in Calls :
    /\ call[c].dropped # None /\ (call[c].pc = "record" \/ call[c].end = "ok")
         => row.conn # call[c].dropped
    /\ call[c].op = "disconnect" /\ call[c].pc = "commit"
         => call[c].row.conn \notin connections

\* The fate of a connection: it is settled once its connect has written the
\* account, and one that a disconnect took away was dropped with its record.
Fated ==
  \A x \in Calls :
    /\ row.conn = x <=> fate[x] = "named"
    /\ call[x].pc \notin {"record", "ended"} => fate[x] = "unnamed"
    /\ call[x].op = "connect" /\ (call[x].pc = "record" \/ call[x].end = "ok")
         => fate[x] # "unnamed"
    /\ fate[x] = "dropped" => x \notin connections /\ Dropped(x)

\* A secret that was to be deleted is in the vault because the vault refused.
Retained ==
  \A x \in vault : Dropped(x) => \E c \in Calls : call[c].dropped = x /\ call[c].stayed

Inv ==
  /\ TypeOK /\ Stages /\ Copies /\ Names /\ Fresh
  /\ Backed /\ Taken /\ Fated /\ Retained /\ ActiveIsEarned

-----------------------------------------------------------------------------
(* How a step changes the memory of the call that takes it.                *)

\* The call c is left with these fields, every other call as it was.
Becomes(c, pc, op, copy, dropped, stayed, end) ==
  /\ call'[c] = [pc |-> pc, op |-> op, row |-> copy, dropped |-> dropped,
                 stayed |-> stayed, end |-> end]
  /\ \A d \in Calls \ {c} : call'[d] = call[d]

\* A call in memory is the record of its fields.
LEMMA Fields ==
  ASSUME NEW k \in Memory
  PROVE  /\ k = [pc |-> k.pc, op |-> k.op, row |-> k.row, dropped |-> k.dropped,
                 stayed |-> k.stayed, end |-> k.end]
         /\ k.pc \in PCs /\ k.op \in Ops /\ k.row \in Rows
         /\ k.dropped \in Calls \cup {None} /\ k.stayed \in BOOLEAN
         /\ k.end \in {"open", "ok", "conflict", "raised", "crash"}
BY DEF Memory

\* A step replaces the record of one call.
LEMMA SetCall ==
  ASSUME TypeOK, NEW c \in Calls, NEW k \in Memory, call' = [call EXCEPT ![c] = k]
  PROVE  /\ Becomes(c, k.pc, k.op, k.row, k.dropped, k.stayed, k.end)
         /\ call' \in [Calls -> Memory]
BY Fields DEF TypeOK, Becomes

\* Goto moves one call to another step and leaves the rest of it.
LEMMA GotoCall ==
  ASSUME TypeOK, NEW c \in Calls, NEW pc \in PCs, Goto(c, pc)
  PROVE  /\ Becomes(c, pc, call[c].op, call[c].row, call[c].dropped, call[c].stayed, call[c].end)
         /\ call' \in [Calls -> Memory]
<1> DEFINE k == [call[c] EXCEPT !.pc = pc]
<1>1. k \in Memory /\ k.pc = pc /\ k.op = call[c].op /\ k.row = call[c].row
      /\ k.dropped = call[c].dropped /\ k.stayed = call[c].stayed /\ k.end = call[c].end
  BY DEF TypeOK, Memory
<1>2. call' = [call EXCEPT ![c] = k]
  BY DEF Goto
<1> HIDE DEF k
<1> QED
  BY <1>1, <1>2, SetCall

\* End closes one call, and forgets its copy of the account.
LEMMA EndCall ==
  ASSUME TypeOK, NEW c \in Calls, NEW how \in {"ok", "conflict", "raised", "crash"}, End(c, how)
  PROVE  /\ Becomes(c, "ended", call[c].op, NoRow, call[c].dropped, call[c].stayed, how)
         /\ call' \in [Calls -> Memory]
<1> DEFINE k == [call[c] EXCEPT !.pc = "ended", !.row = NoRow, !.end = how]
<1>1. NoRow \in Rows /\ "ended" \in PCs
  BY DEF NoRow, Rows, PCs
<1>2. k \in Memory /\ k.pc = "ended" /\ k.op = call[c].op /\ k.row = NoRow
      /\ k.dropped = call[c].dropped /\ k.stayed = call[c].stayed /\ k.end = how
  BY <1>1 DEF TypeOK, Memory
<1>3. call' = [call EXCEPT ![c] = k]
  BY DEF End
<1> HIDE DEF k
<1> QED
  BY <1>2, <1>3, SetCall

\* Where an operation goes once it has read the account.
FirstStep(op) ==
  CASE op = "register"              -> "add"
    [] op = "connect"               -> "store"
    [] op \in {"refresh", "health"} -> "await"
    [] op = "disconnect"            -> "find"
    [] OTHER                        -> "commit"

-----------------------------------------------------------------------------
(* Every step keeps the invariant.                                         *)

\* A read takes a copy that agrees with the account.
LEMMA ReadKeeps == ASSUME Inv, NEW c \in Calls, Read(c) PROVE Inv'
<1> USE DEF Inv
<1>1. PICK op \in OpsOf[c] :
        /\ op # "register" => row.status # "absent"
        /\ call' = [call EXCEPT ![c] =
                     [@ EXCEPT !.op = op, !.row = row, !.pc = FirstStep(op)]]
  BY DEF Read, FirstStep
<1>2. /\ Becomes(c, FirstStep(op), op, row, call[c].dropped, call[c].stayed, call[c].end)
      /\ call' \in [Calls -> Memory]
  <2> DEFINE k == [call[c] EXCEPT !.op = op, !.row = row, !.pc = FirstStep(op)]
  <2>1. op \in Ops /\ row \in Rows /\ FirstStep(op) \in PCs
    BY LifecycleAssumption DEF TypeOK, FirstStep, PCs
  <2>2. k \in Memory /\ k.pc = FirstStep(op) /\ k.op = op /\ k.row = row
        /\ k.dropped = call[c].dropped /\ k.stayed = call[c].stayed /\ k.end = call[c].end
    BY <2>1 DEF TypeOK, Memory
  <2> HIDE DEF k
  <2> QED
    BY <1>1, <2>2, SetCall DEF k
<1>3. call[c].pc = "new" /\ UNCHANGED <<row, connections, vault, fate, touches>> /\ op \in Ops
  BY LifecycleAssumption DEF Read, At
<1>4. TypeOK'
  BY <1>1, <1>2, <1>3 DEF TypeOK
<1>5. Stages'
  BY <1>1, <1>2, <1>3, LifecycleAssumption DEF Stages, StageOf, Becomes, TypeOK, FirstStep, Ops
<1>6. Copies'
  BY <1>1, <1>2, <1>3 DEF Copies, Becomes, Working, Named, VersionMatches, Stages, StageOf,
     FirstStep, TypeOK, Rows
<1>7. Names'
  BY <1>1, <1>2, <1>3 DEF Names, Connects, Becomes, Stages, StageOf
<1>8. Fresh'
  BY <1>1, <1>2, <1>3, LifecycleAssumption DEF Fresh, Becomes, Named, Stages, StageOf, FirstStep
<1>9. Backed'
  BY <1>1, <1>2, <1>3 DEF Backed, Becomes, Dropped, Stages, StageOf, FirstStep
<1>10. Taken'
  BY <1>1, <1>2, <1>3 DEF Taken, Becomes, Stages, StageOf, FirstStep
<1>11. Fated'
  BY <1>1, <1>2, <1>3 DEF Fated, Becomes, Dropped, FirstStep, Stages, StageOf
<1>12. Retained'
  BY <1>1, <1>2, <1>3 DEF Retained, Becomes, Dropped, Stages, StageOf
<1>13. ActiveIsEarned'
  BY <1>1, <1>2, <1>3 DEF ActiveIsEarned, Becomes, FirstStep, Stages, StageOf
<1> QED
  BY <1>4, <1>5, <1>6, <1>7, <1>8, <1>9, <1>10, <1>11, <1>12, <1>13

\* A registration writes only an account that nobody has read yet.
LEMMA RegisterKeeps == ASSUME Inv, NEW c \in Calls, Register(c) PROVE Inv'
<1> USE DEF Inv
<1>1. /\ Becomes(c, "record", call[c].op, call[c].row, call[c].dropped, call[c].stayed, call[c].end)
      /\ call' \in [Calls -> Memory]
  BY GotoCall DEF Register, PCs
<1>2. call[c].pc = "add" /\ UNCHANGED <<connections, vault, fate, touches>>
  BY DEF Register, At
<1>3. \/ row' = row
      \/ row.status = "absent" /\ row'.status = "draft" /\ row'.conn = row.conn /\ row' \in Rows
  BY DEF Register, Names, NoRow, Rows, States
<1>4. TypeOK'
  BY <1>1, <1>2, <1>3 DEF TypeOK
<1>5. Stages'
  BY <1>1, <1>2, <1>3, LifecycleAssumption DEF Stages, StageOf, Becomes, TypeOK
<1>6. Copies'
  <2>1. ~Working(c)' /\ \A d \in Calls \ {c} : call'[d] = call[d]
    BY <1>1 DEF Working, Becomes
  <2>2. CASE row' = row
    BY <2>1, <2>2 DEF Copies, Working, Named, VersionMatches
  <2>3. CASE row.status = "absent"
    <3>1. \A d \in Calls : ~Working(d)
      BY <2>3 DEF Copies
    <3>2. \A d \in Calls : ~Working(d)'
      BY <2>1, <3>1 DEF Working
    <3> QED
      BY <3>2 DEF Copies
  <2> QED
    BY <1>3, <2>2, <2>3
<1>7. Names'
  BY <1>1, <1>2, <1>3 DEF Names, Connects, Becomes
<1>8. Fresh'
  BY <1>1, <1>2, <1>3, LifecycleAssumption DEF Fresh, Becomes, Named, Stages, StageOf
<1>9. Backed'
  BY <1>1, <1>2, <1>3 DEF Backed, Becomes, Dropped, Stages, StageOf
<1>10. Taken'
  BY <1>1, <1>2, <1>3 DEF Taken, Becomes, Stages, StageOf
<1>11. Fated'
  BY <1>1, <1>2, <1>3 DEF Fated, Becomes, Dropped, Stages, StageOf
<1>12. Retained'
  BY <1>1, <1>2, <1>3 DEF Retained, Becomes, Dropped
<1>13. ActiveIsEarned'
  BY <1>1, <1>2, <1>3 DEF ActiveIsEarned, Becomes, Stages, StageOf
<1> QED
  BY <1>4, <1>5, <1>6, <1>7, <1>8, <1>9, <1>10, <1>11, <1>12, <1>13

\* A connect stores a secret that no one but itself can name.
LEMMA StoreSecretKeeps == ASSUME Inv, NEW c \in Calls, StoreSecret(c) PROVE Inv'
<1> USE DEF Inv
<1>1. /\ Becomes(c, "add_connection", call[c].op, call[c].row, call[c].dropped,
                 call[c].stayed, call[c].end)
      /\ call' \in [Calls -> Memory]
  BY GotoCall DEF StoreSecret, PCs
<1>2. call[c].pc = "store" /\ vault' = vault \cup {c} /\ UNCHANGED <<row, connections, fate, touches>>
  BY DEF StoreSecret, At
<1>3. TypeOK'
  BY <1>1, <1>2 DEF TypeOK
<1>4. Stages'
  BY <1>1, <1>2, LifecycleAssumption DEF Stages, StageOf, Becomes, TypeOK
<1>5. Copies'
  BY <1>1, <1>2 DEF Copies, Becomes, Working, Named, VersionMatches, Stages, StageOf
<1>6. Names'
  BY <1>1, <1>2 DEF Names, Connects, Becomes, Stages, StageOf
<1>7. Fresh'
  BY <1>1, <1>2, LifecycleAssumption DEF Fresh, Becomes, Named, Stages, StageOf
<1>8. Backed'
  BY <1>1, <1>2 DEF Backed, Becomes, Dropped, Stages, StageOf
<1>9. Taken'
  BY <1>1, <1>2 DEF Taken, Becomes, Stages, StageOf
<1>10. Fated'
  BY <1>1, <1>2 DEF Fated, Becomes, Dropped
<1>11. Retained'
  BY <1>1, <1>2 DEF Retained, Becomes, Dropped, Fresh
<1>12. ActiveIsEarned'
  BY <1>1, <1>2 DEF ActiveIsEarned, Becomes
<1> QED
  BY <1>3, <1>4, <1>5, <1>6, <1>7, <1>8, <1>9, <1>10, <1>11, <1>12

\* The new connection is in the copy of its connect alone, with its record
\* and its secret stored.
LEMMA AddConnectionKeeps == ASSUME Inv, NEW c \in Calls, AddConnection(c) PROVE Inv'
<1> USE DEF Inv
<1>1. /\ Becomes(c, "await", call[c].op, [call[c].row EXCEPT !.conn = c], call[c].dropped,
                 call[c].stayed, call[c].end)
      /\ call' \in [Calls -> Memory]
  <2> DEFINE copy == [call[c].row EXCEPT !.conn = c]
             k == [call[c] EXCEPT !.pc = "await", !.row = copy]
  <2>1. copy \in Rows
    BY DEF TypeOK, Memory, Rows
  <2> HIDE DEF copy
  <2>2. k \in Memory /\ k.pc = "await" /\ k.op = call[c].op /\ k.row = copy
        /\ k.dropped = call[c].dropped /\ k.stayed = call[c].stayed /\ k.end = call[c].end
    BY <2>1 DEF TypeOK, Memory, PCs
  <2>3. call' = [call EXCEPT ![c] = k]
    BY DEF AddConnection, copy
  <2> HIDE DEF k
  <2> QED
    BY <2>2, <2>3, SetCall DEF copy
<1>2. /\ call[c].pc = "add_connection" /\ connections' = connections \cup {c}
      /\ UNCHANGED <<row, vault, fate, touches>>
  BY DEF AddConnection, At
<1>3. call[c].row \in Rows
  BY DEF TypeOK, Memory
<1>4. TypeOK'
  BY <1>1, <1>2, <1>3 DEF TypeOK
<1>5. Stages'
  BY <1>1, <1>2, <1>3, LifecycleAssumption DEF Stages, StageOf, Becomes, TypeOK
<1>6. Copies'
  BY <1>1, <1>2, <1>3 DEF Copies, Becomes, Working, Named, VersionMatches, Stages, StageOf, Rows
<1>7. Names'
  BY <1>1, <1>2, <1>3 DEF Names, Connects, Becomes, Stages, StageOf, Rows
<1>8. Fresh'
  BY <1>1, <1>2, <1>3, LifecycleAssumption DEF Fresh, Becomes, Named, Stages, StageOf, Rows
<1>9. Backed'
  BY <1>1, <1>2, <1>3 DEF Backed, Becomes, Dropped, Stages, StageOf
<1>10. Taken'
  BY <1>1, <1>2, <1>3 DEF Taken, Becomes, Stages, StageOf, Fresh, Rows
<1>11. Fated'
  BY <1>1, <1>2, <1>3 DEF Fated, Becomes, Dropped, Fresh, Stages, StageOf
<1>12. Retained'
  BY <1>1, <1>2, <1>3 DEF Retained, Becomes, Dropped
<1>13. ActiveIsEarned'
  BY <1>1, <1>2, <1>3 DEF ActiveIsEarned, Becomes
<1> QED
  BY <1>4, <1>5, <1>6, <1>7, <1>8, <1>9, <1>10, <1>11, <1>12, <1>13

\* Whatever the platform answers, only the call moves.
LEMMA AnswerKeeps == ASSUME Inv, NEW c \in Calls, Answer(c) PROVE Inv'
<1> USE DEF Inv
<1>1. /\ \/ Becomes(c, "commit", call[c].op, call[c].row, call[c].dropped,
                    call[c].stayed, call[c].end)
         \/ Becomes(c, "ended", call[c].op, NoRow, call[c].dropped, call[c].stayed, "raised")
      /\ call' \in [Calls -> Memory]
  BY GotoCall, EndCall DEF Answer, PCs
<1>2. call[c].pc = "await" /\ UNCHANGED <<row, connections, vault, fate, touches>>
  BY DEF Answer, At
<1>3. NoRow.conn = None
  BY DEF NoRow
<1>4. TypeOK'
  BY <1>1, <1>2, <1>3 DEF TypeOK
<1>5. Stages'
  BY <1>1, <1>2, <1>3, LifecycleAssumption DEF Stages, StageOf, Becomes, TypeOK
<1>6. Copies'
  BY <1>1, <1>2, <1>3 DEF Copies, Becomes, Working, Named, VersionMatches, Stages, StageOf
<1>7. Names'
  BY <1>1, <1>2, <1>3 DEF Names, Connects, Becomes
<1>8. Fresh'
  BY <1>1, <1>2, <1>3, LifecycleAssumption DEF Fresh, Becomes, Named, Stages, StageOf
<1>9. Backed'
  BY <1>1, <1>2, <1>3 DEF Backed, Becomes, Dropped, Stages, StageOf
<1>10. Taken'
  BY <1>1, <1>2, <1>3 DEF Taken, Becomes, Stages, StageOf
<1>11. Fated'
  BY <1>1, <1>2, <1>3 DEF Fated, Becomes, Dropped
<1>12. Retained'
  BY <1>1, <1>2, <1>3 DEF Retained, Becomes, Dropped
<1>13. ActiveIsEarned'
  BY <1>1, <1>2, <1>3 DEF ActiveIsEarned, Becomes
<1> QED
  BY <1>4, <1>5, <1>6, <1>7, <1>8, <1>9, <1>10, <1>11, <1>12, <1>13

\* A disconnect goes on to delete only a connection that has a record; without
\* one there is none to take when it commits.
LEMMA FindKeeps == ASSUME Inv, NEW c \in Calls, Find(c) PROVE Inv'
<1> USE DEF Inv
<1>1. \E pc \in {"delete_secret", "commit"} :
        /\ Becomes(c, pc, call[c].op, call[c].row, call[c].dropped, call[c].stayed, call[c].end)
        /\ pc = "delete_secret" => call[c].row.conn \in connections
        /\ pc = "commit" => call[c].row.conn \notin connections
        /\ call' \in [Calls -> Memory]
  BY GotoCall DEF Find, PCs
<1>2. call[c].pc = "find" /\ UNCHANGED <<row, connections, vault, fate, touches>>
  BY DEF Find, At
<1>3. TypeOK'
  BY <1>1, <1>2 DEF TypeOK
<1>4. Stages'
  BY <1>1, <1>2, LifecycleAssumption DEF Stages, StageOf, Becomes, TypeOK
<1>5. Copies'
  BY <1>1, <1>2 DEF Copies, Becomes, Working, Named, VersionMatches, Stages, StageOf
<1>6. Names'
  BY <1>1, <1>2 DEF Names, Connects, Becomes
<1>7. Fresh'
  BY <1>1, <1>2, LifecycleAssumption DEF Fresh, Becomes, Named, Stages, StageOf
<1>8. Backed'
  BY <1>1, <1>2 DEF Backed, Becomes, Dropped, Stages, StageOf
<1>9. Taken'
  BY <1>1, <1>2 DEF Taken, Becomes, Stages, StageOf
<1>10. Fated'
  BY <1>1, <1>2 DEF Fated, Becomes, Dropped
<1>11. Retained'
  BY <1>1, <1>2 DEF Retained, Becomes, Dropped
<1>12. ActiveIsEarned'
  BY <1>1, <1>2 DEF ActiveIsEarned, Becomes
<1> QED
  BY <1>3, <1>4, <1>5, <1>6, <1>7, <1>8, <1>9, <1>10, <1>11, <1>12

\* From here on the connection counts as dropped, and a secret that stays is
\* one the vault refused to delete.
LEMMA DeleteSecretKeeps == ASSUME Inv, NEW c \in Calls, DeleteSecret(c) PROVE Inv'
<1> USE DEF Inv
<1>1. PICK raises \in BOOLEAN :
        /\ vault' = IF raises THEN vault ELSE vault \ {call[c].row.conn}
        /\ Becomes(c, "delete_connection", call[c].op, call[c].row, call[c].row.conn, raises,
                   call[c].end)
        /\ call' \in [Calls -> Memory]
  <2>1. PICK raises \in BOOLEAN :
          /\ vault' = IF raises THEN vault ELSE vault \ {call[c].row.conn}
          /\ call' = [call EXCEPT ![c] = [@ EXCEPT !.pc = "delete_connection",
                                     !.dropped = call[c].row.conn, !.stayed = raises]]
    BY DEF DeleteSecret
  <2> DEFINE k == [call[c] EXCEPT !.pc = "delete_connection", !.dropped = call[c].row.conn,
                                  !.stayed = raises]
  <2>2. call[c].row.conn \in Calls \cup {None} /\ "delete_connection" \in PCs
    BY DEF TypeOK, Memory, Rows, PCs
  <2>3. k \in Memory /\ k.pc = "delete_connection" /\ k.op = call[c].op /\ k.row = call[c].row
        /\ k.dropped = call[c].row.conn /\ k.stayed = raises /\ k.end = call[c].end
    BY <2>2 DEF TypeOK, Memory
  <2>4. call' = [call EXCEPT ![c] = k]
    BY <2>1
  <2> HIDE DEF k
  <2> QED
    BY <2>1, <2>3, <2>4, SetCall
<1>2. call[c].pc = "delete_secret" /\ UNCHANGED <<row, connections, fate, touches>>
  BY DEF DeleteSecret, At
<1>3. TypeOK'
  BY <1>1, <1>2 DEF TypeOK
<1>4. Stages'
  BY <1>1, <1>2, LifecycleAssumption DEF Stages, StageOf, Becomes, TypeOK
<1>5. Copies'
  BY <1>1, <1>2 DEF Copies, Becomes, Working, Named, VersionMatches, Stages, StageOf
<1>6. Names'
  BY <1>1, <1>2 DEF Names, Connects, Becomes
<1>7. Fresh'
  BY <1>1, <1>2, LifecycleAssumption DEF Fresh, Becomes, Named, Stages, StageOf
<1>8. Backed'
  BY <1>1, <1>2, LifecycleAssumption DEF Backed, Becomes, Dropped, Stages, StageOf, Fresh,
     Names, Connects, Named
<1>9. Taken'
  BY <1>1, <1>2 DEF Taken, Becomes, Stages, StageOf
<1>a. \A x \in Calls : Dropped(x) => Dropped(x)'
  <2>1. call[c].dropped = None
    BY <1>2 DEF Stages, StageOf
  <2> QED
    BY <1>1, <2>1, LifecycleAssumption DEF Dropped, Becomes
<1>b. \A x \in Calls : Dropped(x)' => Dropped(x) \/ x = call[c].row.conn
  BY <1>1 DEF Dropped, Becomes
<1>10. Fated'
  <2>1. \A x \in Calls : /\ call'[x].op = call[x].op /\ call'[x].end = call[x].end
                         /\ call'[x].pc = "record" <=> call[x].pc = "record"
                         /\ call'[x].pc = "ended" <=> call[x].pc = "ended"
    BY <1>1, <1>2 DEF Becomes
  <2> QED
    BY <1>2, <1>a, <2>1 DEF Fated
<1>11. Retained'
  <2>1. call[c].dropped = None
    BY <1>2 DEF Stages, StageOf
  <2>2. ASSUME NEW x \in Calls, \E d \in Calls : call[d].dropped = x /\ call[d].stayed
        PROVE  \E d \in Calls : call'[d].dropped = x /\ call'[d].stayed
    <3>1. PICK d \in Calls : call[d].dropped = x /\ call[d].stayed
      BY <2>2
    <3>2. d # c
      BY <2>1, <3>1, LifecycleAssumption
    <3> QED
      BY <1>1, <3>1, <3>2 DEF Becomes
  <2>3. call'[c].dropped = call[c].row.conn /\ call'[c].stayed = raises
    BY <1>1 DEF Becomes
  <2> SUFFICES ASSUME NEW x \in vault', Dropped(x)'
               PROVE  \E d \in Calls : call'[d].dropped = x /\ call'[d].stayed
    BY DEF Retained
  <2>4. x \in vault /\ x \in Calls /\ (~raises => x # call[c].row.conn)
    BY <1>1 DEF TypeOK
  <2>5. CASE x = call[c].row.conn
    BY <2>3, <2>4, <2>5
  <2>6. CASE x # call[c].row.conn
    <3>1. Dropped(x)
      BY <1>b, <2>4, <2>6
    <3> QED
      BY <2>2, <2>4, <3>1 DEF Retained
  <2> QED
    BY <2>5, <2>6
<1>12. ActiveIsEarned'
  BY <1>1, <1>2 DEF ActiveIsEarned, Becomes
<1> QED
  BY <1>3, <1>4, <1>5, <1>6, <1>7, <1>8, <1>9, <1>10, <1>11, <1>12

\* The record that a disconnect deletes is of a connection it has dropped.
LEMMA DeleteConnectionKeeps == ASSUME Inv, NEW c \in Calls, DeleteConnection(c) PROVE Inv'
<1> USE DEF Inv
<1>1. /\ Becomes(c, "commit", call[c].op, call[c].row, call[c].dropped, call[c].stayed, call[c].end)
      /\ call' \in [Calls -> Memory]
  BY GotoCall DEF DeleteConnection, PCs
<1>2. /\ call[c].pc = "delete_connection" /\ connections' = connections \ {call[c].row.conn}
      /\ UNCHANGED <<row, vault, fate, touches>>
  BY DEF DeleteConnection, At
<1>3. TypeOK'
  BY <1>1, <1>2 DEF TypeOK
<1>4. Stages'
  BY <1>1, <1>2, LifecycleAssumption DEF Stages, StageOf, Becomes, TypeOK
<1>5. Copies'
  BY <1>1, <1>2 DEF Copies, Becomes, Working, Named, VersionMatches, Stages, StageOf
<1>6. Names'
  BY <1>1, <1>2 DEF Names, Connects, Becomes
<1>7. Fresh'
  BY <1>1, <1>2, LifecycleAssumption DEF Fresh, Becomes, Named, Stages, StageOf
<1>8. Backed'
  BY <1>1, <1>2 DEF Backed, Becomes, Dropped, Stages, StageOf, Fresh, Names, Connects
<1>9. Taken'
  BY <1>1, <1>2 DEF Taken, Becomes, Stages, StageOf
<1>10. Fated'
  BY <1>1, <1>2 DEF Fated, Becomes, Dropped
<1>11. Retained'
  BY <1>1, <1>2 DEF Retained, Becomes, Dropped
<1>12. ActiveIsEarned'
  BY <1>1, <1>2 DEF ActiveIsEarned, Becomes
<1> QED
  BY <1>3, <1>4, <1>5, <1>6, <1>7, <1>8, <1>9, <1>10, <1>11, <1>12

\* A call that meets a later version leaves no trace but what it had deleted.
LEMMA CommitFailsKeeps == ASSUME Inv, NEW c \in Calls, CommitFails(c) PROVE Inv'
<1> USE DEF Inv
<1>1. /\ Becomes(c, "ended", call[c].op, NoRow, call[c].dropped, call[c].stayed, "conflict")
      /\ call' \in [Calls -> Memory]
  BY EndCall DEF CommitFails
<1>2. call[c].pc = "commit" /\ UNCHANGED <<row, connections, vault, fate, touches>> /\ NoRow.conn = None
  BY DEF CommitFails, At, NoRow
<1>3. TypeOK'
  BY <1>1, <1>2 DEF TypeOK
<1>4. Stages'
  BY <1>1, <1>2, LifecycleAssumption DEF Stages, StageOf, Becomes, TypeOK
<1>5. Copies'
  BY <1>1, <1>2 DEF Copies, Becomes, Working, Named, VersionMatches, Stages, StageOf
<1>6. Names'
  BY <1>1, <1>2 DEF Names, Connects, Becomes
<1>7. Fresh'
  BY <1>1, <1>2, LifecycleAssumption DEF Fresh, Becomes, Named, Stages, StageOf
<1>8. Backed'
  BY <1>1, <1>2 DEF Backed, Becomes, Dropped, Stages, StageOf
<1>9. Taken'
  BY <1>1, <1>2 DEF Taken, Becomes, Stages, StageOf
<1>10. Fated'
  BY <1>1, <1>2 DEF Fated, Becomes, Dropped
<1>11. Retained'
  BY <1>1, <1>2 DEF Retained, Becomes, Dropped
<1>12. ActiveIsEarned'
  BY <1>1, <1>2 DEF ActiveIsEarned, Becomes
<1> QED
  BY <1>3, <1>4, <1>5, <1>6, <1>7, <1>8, <1>9, <1>10, <1>11, <1>12

\* A call whose write landed ends ok.
LEMMA RecordKeeps == ASSUME Inv, NEW c \in Calls, Record(c) PROVE Inv'
<1> USE DEF Inv
<1>1. /\ Becomes(c, "ended", call[c].op, NoRow, call[c].dropped, call[c].stayed, "ok")
      /\ call' \in [Calls -> Memory]
  BY EndCall DEF Record
<1>2. call[c].pc = "record" /\ UNCHANGED <<row, connections, vault, fate, touches>> /\ NoRow.conn = None
  BY DEF Record, At, NoRow
<1>3. TypeOK'
  BY <1>1, <1>2 DEF TypeOK
<1>4. Stages'
  BY <1>1, <1>2, LifecycleAssumption DEF Stages, StageOf, Becomes, TypeOK
<1>5. Copies'
  BY <1>1, <1>2 DEF Copies, Becomes, Working, Named, VersionMatches, Stages, StageOf
<1>6. Names'
  BY <1>1, <1>2 DEF Names, Connects, Becomes
<1>7. Fresh'
  BY <1>1, <1>2, LifecycleAssumption DEF Fresh, Becomes, Named, Stages, StageOf
<1>8. Backed'
  BY <1>1, <1>2 DEF Backed, Becomes, Dropped, Stages, StageOf
<1>9. Taken'
  BY <1>1, <1>2 DEF Taken, Becomes, Stages, StageOf
<1>10. Fated'
  BY <1>1, <1>2 DEF Fated, Becomes, Dropped, Stages, StageOf
<1>11. Retained'
  BY <1>1, <1>2 DEF Retained, Becomes, Dropped
<1>12. ActiveIsEarned'
  BY <1>1, <1>2 DEF ActiveIsEarned, Becomes
<1> QED
  BY <1>3, <1>4, <1>5, <1>6, <1>7, <1>8, <1>9, <1>10, <1>11, <1>12

\* A call that dies leaves the stores as they are.
LEMMA CrashKeeps == ASSUME Inv, NEW c \in Calls, Crash(c) PROVE Inv'
<1> USE DEF Inv
<1>1. /\ Becomes(c, "ended", call[c].op, NoRow, call[c].dropped, call[c].stayed, "crash")
      /\ call' \in [Calls -> Memory]
  BY EndCall DEF Crash
<1>2. /\ call[c].pc \notin {"new", "ended"} /\ NoRow.conn = None
      /\ UNCHANGED <<row, connections, vault, fate, touches>>
  BY DEF Crash, NoRow
<1>3. TypeOK'
  BY <1>1, <1>2 DEF TypeOK
<1>4. Stages'
  BY <1>1, <1>2, LifecycleAssumption DEF Stages, StageOf, Becomes, TypeOK
<1>5. Copies'
  BY <1>1, <1>2 DEF Copies, Becomes, Working, Named, VersionMatches, Stages, StageOf
<1>6. Names'
  BY <1>1, <1>2 DEF Names, Connects, Becomes
<1>7. Fresh'
  BY <1>1, <1>2, LifecycleAssumption DEF Fresh, Becomes, Named, Stages, StageOf
<1>8. Backed'
  BY <1>1, <1>2 DEF Backed, Becomes, Dropped, Stages, StageOf
<1>9. Taken'
  BY <1>1, <1>2 DEF Taken, Becomes, Stages, StageOf
<1>10. Fated'
  BY <1>1, <1>2 DEF Fated, Becomes, Dropped
<1>11. Retained'
  BY <1>1, <1>2 DEF Retained, Becomes, Dropped
<1>12. ActiveIsEarned'
  BY <1>1, <1>2 DEF ActiveIsEarned, Becomes
<1> QED
  BY <1>3, <1>4, <1>5, <1>6, <1>7, <1>8, <1>9, <1>10, <1>11, <1>12

-----------------------------------------------------------------------------
(* The write of the account.                                               *)

\* An account that is not withheld stands where its connection and the
\* owner's consent put it.
Settles ==
  row'.status = IF row.status \in {"suspended", "retired"} THEN row.status
                ELSE IF row'.conn = None THEN "draft"
                ELSE IF row'.consent = "given" THEN "active" ELSE "connected"

\* What each operation does to the account, as it is when it is written.
Effect(c, op) ==
  \/ op = "authorize" /\ row'.consent = "given" /\ row'.conn = row.conn /\ Settles
  \/ /\ op = "revoke" /\ row'.consent = "revoked" /\ row'.conn = row.conn
     /\ row'.status = "suspended"
  \/ op = "connect" /\ row'.conn = c /\ row'.consent = row.consent /\ Settles
  \/ op = "disconnect" /\ row'.conn = None /\ row'.consent = row.consent /\ Settles
  \/ /\ op \in {"retire", "patch", "refresh", "health"}
     /\ row'.conn = row.conn /\ row'.consent = row.consent
     /\ op = "retire" => row'.status = "retired"
     /\ op \in {"refresh", "health"} => row'.status = row.status

\* Settling an account sets its status, and nothing else.
LEMMA SettledFields ==
  ASSUME NEW r \in Rows
  PROVE  /\ Settled(r) \in Rows /\ Settled(r).consent = r.consent /\ Settled(r).conn = r.conn
         /\ Settled(r).status = IF r.status \in {"suspended", "retired"} THEN r.status
                                ELSE IF r.conn = None THEN "draft"
                                ELSE IF r.consent = "given" THEN "active" ELSE "connected"
<1> DEFINE st == IF r.conn = None THEN "draft"
                 ELSE IF r.consent = "given" THEN "active" ELSE "connected"
<1>1. st \in States
  BY DEF States
<1>2. Settled(r) = IF r.status \in {"suspended", "retired"} THEN r ELSE [r EXCEPT !.status = st]
  BY DEF Settled
<1> HIDE DEF st
<1>3. /\ Settled(r) \in Rows /\ Settled(r).consent = r.consent /\ Settled(r).conn = r.conn
      /\ Settled(r).status = IF r.status \in {"suspended", "retired"} THEN r.status ELSE st
  BY <1>1, <1>2 DEF Rows
<1> QED
  BY <1>3 DEF st

\* The copy that a call writes back is the account, so that its operation
\* acts on what the account is at that instant.
LEMMA CommitWrites ==
  ASSUME Inv, NEW c \in Calls, Commit(c)
  PROVE  /\ row.status # "absent" /\ row'.status # "absent"
         /\ row' \in Rows /\ row'.version = row.version + 1
         /\ Effect(c, call[c].op) /\ call[c].row.status = row.status
         /\ fate' = [x \in Calls |-> FateAfter(c, row'.conn, x)]
<1> DEFINE op == call[c].op
           copy == IF op = "connect" THEN [row EXCEPT !.conn = c] ELSE row
<1>1. /\ call[c].pc = "commit" /\ op \in Ops \ {"register"} /\ row \in Rows
      /\ row.status # "absent" /\ call[c].row = copy
  BY DEF Inv, TypeOK, Memory, Commit, At, Copies, Working, Named, Stages, StageOf
<1>2. PICK r \in Outcomes(op, copy) :
        /\ row' = [r EXCEPT !.version = row.version + 1]
        /\ fate' = [x \in Calls |-> FateAfter(c, r.conn, x)]
  BY <1>1 DEF Commit
<1>3. /\ copy \in Rows /\ copy.consent = row.consent /\ copy.status = row.status
      /\ copy.conn = IF op = "connect" THEN c ELSE row.conn
  BY <1>1 DEF Rows
<1> HIDE DEF copy
<1>4. /\ r \in Rows /\ r.status # "absent"
      /\ op \notin {"authorize", "revoke"} => r.consent = copy.consent
      /\ op # "disconnect" => r.conn = copy.conn
      /\ op \in {"refresh", "health"} => r = copy
      /\ op = "authorize" => r.consent = "given"
      /\ op = "revoke" => r.consent = "revoked" /\ r.status = "suspended"
      /\ op = "disconnect" => r.conn = None
      /\ op = "retire" => r.status = "retired"
      /\ op \in {"authorize", "connect", "disconnect"} =>
           r.status = IF row.status \in {"suspended", "retired"} THEN row.status
                      ELSE IF r.conn = None THEN "draft"
                      ELSE IF r.consent = "given" THEN "active" ELSE "connected"
  <2>1. CASE op = "authorize"
    <3> DEFINE q == [copy EXCEPT !.consent = "given"]
    <3>1. r = Settled(q)
      BY <1>2, <2>1 DEF Outcomes
    <3>2. q \in Rows /\ q.consent = "given" /\ q.conn = copy.conn /\ q.status = copy.status
      BY <1>3 DEF Rows
    <3> HIDE DEF q
    <3> QED
      BY <1>1, <1>3, <2>1, <3>1, <3>2, SettledFields
  <2>2. CASE op = "revoke"
    <3>1. r = [copy EXCEPT !.consent = "revoked", !.status = "suspended"]
      BY <1>2, <2>2 DEF Outcomes
    <3> QED
      BY <1>3, <2>2, <3>1 DEF Rows, States
  <2>3. CASE op = "connect"
    <3>1. r = Settled(copy)
      BY <1>2, <2>3 DEF Outcomes
    <3> QED
      BY <1>1, <1>3, <2>3, <3>1, SettledFields
  <2>4. CASE op = "disconnect"
    <3> DEFINE q == [copy EXCEPT !.conn = None]
    <3>1. r = Settled(q)
      BY <1>2, <2>4 DEF Outcomes
    <3>2. q \in Rows /\ q.consent = copy.consent /\ q.conn = None /\ q.status = copy.status
      BY <1>3 DEF Rows
    <3> HIDE DEF q
    <3> QED
      BY <1>1, <1>3, <2>4, <3>1, <3>2, SettledFields
  <2>5. CASE op = "retire"
    <3>1. r = [copy EXCEPT !.status = "retired"]
      BY <1>2, <2>5 DEF Outcomes
    <3> QED
      BY <1>3, <2>5, <3>1 DEF Rows, States
  <2>6. CASE op = "patch"
    <3>1. PICK st \in States : r = [copy EXCEPT !.status = st]
      BY <1>2, <2>6 DEF Outcomes
    <3> QED
      BY <1>3, <2>6, <3>1 DEF Rows, States
  <2>7. CASE op \in {"refresh", "health"}
    <3>1. r = copy
      BY <1>2, <2>7 DEF Outcomes
    <3> QED
      BY <1>1, <1>3, <2>7, <3>1
  <2> QED
    BY <1>1, <2>1, <2>2, <2>3, <2>4, <2>5, <2>6, <2>7 DEF Ops
<1>5. /\ row' \in Rows /\ row'.version = row.version + 1 /\ row'.status = r.status
      /\ row'.consent = r.consent /\ row'.conn = r.conn
  BY <1>1, <1>2, <1>4 DEF Rows
<1>6. fate' = [x \in Calls |-> FateAfter(c, row'.conn, x)] /\ call[c].row.status = row.status
  BY <1>1, <1>2, <1>3, <1>5
<1>7. Effect(c, op)
  BY <1>1, <1>3, <1>4, <1>5 DEF Effect, Settles, Ops
<1> QED
  BY <1>1, <1>4, <1>5, <1>6, <1>7

\* A commit keeps the invariant: the other calls' copies are older from now on.
LEMMA CommitKeeps == ASSUME Inv, NEW c \in Calls, Commit(c) PROVE Inv'
<1> USE DEF Inv
<1>1. /\ Becomes(c, "record", call[c].op, call[c].row, call[c].dropped, call[c].stayed, call[c].end)
      /\ call' \in [Calls -> Memory]
  BY GotoCall DEF Commit, PCs
<1>2. call[c].pc = "commit" /\ UNCHANGED <<connections, vault, touches>>
  BY DEF Commit, At
<1>f. fate' = [x \in Calls |-> FateAfter(c, row'.conn, x)]
  BY CommitWrites
<1>3. /\ row' \in Rows /\ row.version \in Nat /\ row'.version = row.version + 1
      /\ row.status # "absent" /\ row'.status # "absent"
  BY CommitWrites DEF TypeOK, Rows
<1>4. /\ row'.conn \in {row.conn, c, None}
      /\ row'.conn = c /\ row'.conn # row.conn => call[c].op = "connect"
      /\ call[c].op = "connect" => row'.conn = c
      /\ call[c].op = "disconnect" => row'.conn = None
      /\ row'.conn # row.conn /\ call[c].op # "connect" => call[c].op = "disconnect"
  BY CommitWrites, LifecycleAssumption DEF Effect
<1>5. \A x \in Calls : Dropped(x)' <=> Dropped(x)
  BY <1>1 DEF Dropped, Becomes
<1>6. TypeOK'
  <2>1. \A x \in Calls : FateAfter(c, row'.conn, x) \in Fates
    BY DEF FateAfter, Fates, TypeOK
  <2> QED
    BY <1>1, <1>2, <1>3, <1>f, <2>1 DEF TypeOK
<1>7. Stages'
  BY <1>1, <1>2, LifecycleAssumption DEF Stages, StageOf, Becomes, TypeOK
<1>8. Copies'
  <2>1. ~Working(c)' /\ \A d \in Calls \ {c} : call'[d] = call[d]
    BY <1>1 DEF Working, Becomes
  <2>2. ASSUME NEW d \in Calls, Working(d)'
        PROVE  call'[d].row.version <= row'.version /\ ~VersionMatches(d)'
    <3>1. d # c /\ call'[d] = call[d] /\ Working(d)
      BY <2>1, <2>2 DEF Working
    <3>2. call[d].row.version <= row.version /\ call[d].row.version \in Nat
      BY <3>1 DEF Copies, TypeOK, Memory, Rows
    <3> QED
      BY <1>3, <3>1, <3>2 DEF VersionMatches
  <2> QED
    BY <1>3, <2>2 DEF Copies
<1>9. Names'
  BY <1>1, <1>2, <1>3, <1>4 DEF Names, Connects, Becomes
<1>10. Fresh'
  BY <1>1, <1>2, <1>4, LifecycleAssumption DEF Fresh, Becomes, Named, Stages, StageOf
<1>11. Backed'
  <2>1. \A x \in Calls : call'[x].op = "connect" =>
          /\ call'[x].pc = "add_connection" => x \in vault'
          /\ call'[x].pc \in {"await", "commit"} => x \in vault' \cap connections'
    BY <1>1, <1>2 DEF Backed, Becomes
  <2>2. row'.conn # None => row'.conn \in vault \cap connections \/ Dropped(row'.conn)
    BY <1>2, <1>4 DEF Backed
  <2>3. row'.conn \in Calls \cup {None}
    BY <1>3 DEF Rows
  <2> QED
    BY <1>2, <1>5, <2>1, <2>2, <2>3 DEF Backed
<1>12. Taken'
  <2>1. ASSUME NEW d \in Calls, call'[d].dropped # None,
               call'[d].pc = "record" \/ call'[d].end = "ok"
        PROVE  row'.conn # call'[d].dropped
    <3>1. CASE d = c
      BY <1>1, <1>4, <2>1, <3>1 DEF Becomes, Stages, StageOf
    <3>2. CASE d # c
      <4>1. call'[d] = call[d] /\ row.conn # call[d].dropped /\ call[d].dropped # None
        BY <1>1, <2>1, <3>2 DEF Becomes, Taken
      <4>2. call[d].dropped # c
        BY <1>2 DEF Fresh
      <4> QED
        BY <1>4, <4>1, <4>2
    <3> QED
      BY <3>1, <3>2
  <2>2. \A d \in Calls : call'[d].op = "disconnect" /\ call'[d].pc = "commit"
                           => call'[d].row.conn \notin connections'
    BY <1>1, <1>2 DEF Becomes, Taken
  <2> QED
    BY <2>1, <2>2 DEF Taken
<1>13. Fated'
  <2> SUFFICES ASSUME NEW x \in Calls
               PROVE  /\ row'.conn = x <=> fate'[x] = "named"
                      /\ call'[x].pc \notin {"record", "ended"} => fate'[x] = "unnamed"
                      /\ call'[x].op = "connect" /\ (call'[x].pc = "record" \/ call'[x].end = "ok")
                           => fate'[x] # "unnamed"
                      /\ fate'[x] = "dropped" => x \notin connections /\ Dropped(x)
    BY <1>2, <1>5 DEF Fated
  <2>0. fate'[x] = FateAfter(c, row'.conn, x)
    BY <1>f
  <2>1. CASE row'.conn = x
    <3>1. fate'[x] = "named"
      BY <2>0, <2>1 DEF FateAfter
    <3>2. call'[x].pc \in {"record", "ended"}
      <4>1. CASE x = c
        BY <1>1, <4>1 DEF Becomes
      <4>2. CASE x # c
        BY <1>1, <1>4, <2>1, <4>2, LifecycleAssumption DEF Becomes, Fresh
      <4> QED
        BY <4>1, <4>2
    <3> QED
      BY <2>1, <3>1, <3>2
  <2>2. CASE row'.conn # x /\ row.conn = x
    <3>1. x # c /\ call'[x] = call[x] /\ call[x].pc \in {"record", "ended"}
      BY <1>1, <1>2, <2>2 DEF Becomes, Fresh
    <3>2. fate'[x] = IF call[c].op = "connect" THEN "replaced" ELSE "dropped"
      BY <2>0, <2>2 DEF FateAfter
    <3>3. ASSUME call[c].op # "connect" PROVE x \notin connections /\ Dropped(x)
      <4>1. call[c].op = "disconnect" /\ VersionMatches(c)
        BY <1>4, <2>2, <3>3 DEF Commit
      <4>2. call[c].row.conn = x
        BY <1>2, <2>2, <4>1 DEF Copies, Working, Named
      <4>3. x \notin connections
        BY <1>2, <4>1, <4>2 DEF Taken
      <4> QED
        BY <2>2, <4>3, LifecycleAssumption DEF Backed
    <3> QED
      BY <2>2, <3>1, <3>2, <3>3
  <2>3. CASE row'.conn # x /\ row.conn # x
    <3>1. fate'[x] = fate[x]
      BY <2>0, <2>3 DEF FateAfter
    <3>2. CASE x = c
      BY <1>1, <1>2, <1>4, <2>3, <3>1, <3>2 DEF Becomes, Fated
    <3>3. CASE x # c
      BY <1>1, <2>3, <3>1, <3>3 DEF Becomes, Fated
    <3> QED
      BY <3>2, <3>3
  <2> QED
    BY <2>1, <2>2, <2>3
<1>14. Retained'
  <2>1. \A d \in Calls : call'[d].stayed = call[d].stayed /\ call'[d].dropped = call[d].dropped
    BY <1>1 DEF Becomes
  <2> QED
    BY <1>2, <2>1 DEF Retained, Dropped
<1>15. ActiveIsEarned'
  <2> SUFFICES ASSUME row'.status = "active",
                      \A d \in Calls : call'[d].op = "patch" => call'[d].pc = "new"
               PROVE  row'.consent = "given" /\ row'.conn # None
    BY DEF ActiveIsEarned
  <2>1. \A d \in Calls : call[d].op = "patch" => call[d].pc = "new"
    BY <1>1 DEF Becomes
  <2>2. call[c].op # "patch"
    BY <1>2, <2>1
  <2>3. row.status = "active" => row.consent = "given" /\ row.conn # None
    BY <2>1 DEF ActiveIsEarned
  <2> QED
    BY CommitWrites, <2>2, <2>3, LifecycleAssumption DEF Effect, Settles
<1> QED
  BY <1>6, <1>7, <1>8, <1>9, <1>10, <1>11, <1>12, <1>13, <1>14, <1>15

\* The lock service moves the version of the account and nothing else.
LEMMA TouchKeeps == ASSUME Inv, Touch PROVE Inv'
<1> USE DEF Inv
<1>1. /\ row \in Rows /\ row' \in Rows /\ row' = [row EXCEPT !.version = row.version + 1]
      /\ row.status # "absent" /\ touches' \in Nat
      /\ call' = call /\ connections' = connections /\ vault' = vault /\ fate' = fate
  BY DEF Touch, TypeOK, Rows
<1>2. /\ row'.conn = row.conn /\ row'.status = row.status /\ row'.consent = row.consent
      /\ row'.version = row.version + 1 /\ row.version \in Nat
  BY <1>1 DEF Rows
<1> HIDE DEF Touch
<1>3. TypeOK'
  BY <1>1 DEF TypeOK
<1>4. Stages' /\ Names' /\ Fresh'
  BY <1>1, <1>2 DEF Stages, Names, Connects, Fresh, Named
<1>5. Copies'
  <2>1. ASSUME NEW d \in Calls, Working(d)
        PROVE  call[d].row.version <= row'.version /\ row'.version # call[d].row.version
    <3>1. call[d].row.version <= row.version /\ call[d].row.version \in Nat
      BY <2>1 DEF Copies, TypeOK, Memory, Rows
    <3> QED
      BY <1>2, <3>1
  <2> QED
    BY <1>1, <1>2, <2>1 DEF Copies, Working, VersionMatches
<1>6. Backed'
  BY <1>1, <1>2 DEF Backed, Dropped
<1>7. Taken'
  BY <1>1, <1>2 DEF Taken
<1>8. Fated' /\ Retained'
  BY <1>1, <1>2 DEF Fated, Retained, Dropped
<1>9. ActiveIsEarned'
  BY <1>1, <1>2 DEF ActiveIsEarned
<1> QED
  BY <1>3, <1>4, <1>5, <1>6, <1>7, <1>8, <1>9

\* Every step keeps the invariant, whoever takes it.
LEMMA InvStep == Inv /\ [Next]_vars => Inv'
<1> SUFFICES ASSUME Inv, [Next]_vars PROVE Inv'
  OBVIOUS
<1>1. ASSUME NEW c \in Calls, Serve(c) PROVE Inv'
  BY <1>1, ReadKeeps, RegisterKeeps, StoreSecretKeeps, AddConnectionKeeps, AnswerKeeps,
     FindKeeps, DeleteSecretKeeps, DeleteConnectionKeeps, CommitKeeps,
     CommitFailsKeeps, RecordKeeps DEF Serve
<1>2. ASSUME NEW c \in Calls, Crash(c) PROVE Inv'
  BY <1>2, CrashKeeps
<1>3. CASE Touch
  BY <1>3, TouchKeeps
<1>4. CASE UNCHANGED vars
  BY <1>4 DEF vars, Inv, TypeOK, Stages, Copies, Working, Named, VersionMatches, Names,
     Connects, Fresh, Backed, Dropped, Taken, Fated, Retained, ActiveIsEarned
<1> QED
  BY <1>1, <1>2, <1>3, <1>4 DEF Next

\* The invariant holds throughout, for any calls and operations.
THEOREM Invariance == Spec => []Inv
<1>1. Init => Inv
  <2> SUFFICES ASSUME Init PROVE Inv
    OBVIOUS
  <2>1. NoRow \in Rows /\ NoRow.conn = None /\ NoRow.status = "absent" /\ NoRow.consent = "none"
    BY DEF NoRow, Rows
  <2>2. call \in [Calls -> Memory] /\ TypeOK
    BY <2>1 DEF Init, TypeOK, Memory, PCs, Ops, Fates
  <2>3. \A c \in Calls : /\ call[c].pc = "new" /\ call[c].op = "health" /\ call[c].row = NoRow
                         /\ call[c].dropped = None /\ ~call[c].stayed /\ call[c].end = "open"
    BY DEF Init
  <2>4. /\ row = NoRow /\ connections = {} /\ vault = {}
        /\ \A x \in Calls : fate[x] = "unnamed"
    BY DEF Init
  <2>5. Stages /\ Copies
    BY <2>1, <2>3 DEF Stages, StageOf, Copies, Working
  <2>6. Names /\ Fresh
    BY <2>1, <2>3, <2>4, LifecycleAssumption DEF Names, Fresh
  <2>7. Backed /\ Taken /\ Fated /\ Retained /\ ActiveIsEarned
    BY <2>1, <2>3, <2>4, LifecycleAssumption
       DEF Backed, Taken, Fated, Retained, ActiveIsEarned, Dropped
  <2> QED
    BY <2>2, <2>5, <2>6, <2>7 DEF Inv
<1> QED
  BY <1>1, InvStep, PTL DEF Spec

-----------------------------------------------------------------------------
(* What follows for the account.                                           *)

\* Every variable stays in its type.
THEOREM TypeCorrect == Spec => []TypeOK
<1>1. Inv => TypeOK
  BY DEF Inv
<1> QED
  BY <1>1, Invariance, PTL

\* An account that no patch released is active only with the owner's consent
\* and a connection, through every race of connect, authorize, revoke and
\* disconnect.
THEOREM ActiveEarned == Spec => []ActiveIsEarned
<1>1. Inv => ActiveIsEarned
  BY DEF Inv
<1> QED
  BY <1>1, Invariance, PTL

\* The account names a connection without its record or secret only while a
\* disconnect is under way or after one that failed.
THEOREM DanglingExplained == Spec => []DanglesOnlyByFailedDisconnect
<1>1. Inv => DanglesOnlyByFailedDisconnect
  BY DEF Inv, Backed, Dropped, Taken, DanglesOnlyByFailedDisconnect
<1> QED
  BY <1>1, Invariance, PTL

\* The record or the secret of a connection that the account does not name is
\* of a connect under way or one that did not return ok, was replaced by
\* another connect, or is a secret that the vault refused to delete.
THEOREM LeftoversExplained == Spec => []LeftoversAreExplained
<1>1. Inv => LeftoversAreExplained
  <2> SUFFICES ASSUME Inv, NEW x \in (connections \cup vault) \ {row.conn}
               PROVE  \/ fate[x] = "unnamed" /\ call[x].end # "ok"
                      \/ fate[x] = "replaced"
                      \/ /\ fate[x] = "dropped" /\ x \notin connections
                         /\ \E d \in Calls : call[d].dropped = x /\ call[d].stayed
    BY DEF LeftoversAreExplained
  <2>1. x \in Calls /\ call[x].op = "connect"
    BY DEF Inv, Names, Connects
  <2>2. fate[x] \in {"unnamed", "replaced", "dropped"}
    BY <2>1 DEF Inv, TypeOK, Fates, Fated
  <2>3. CASE fate[x] = "unnamed"
    BY <2>1, <2>3 DEF Inv, Fated
  <2>4. CASE fate[x] = "dropped"
    BY <2>1, <2>4 DEF Inv, Fated, Retained
  <2> QED
    BY <2>2, <2>3, <2>4
<1> QED
  BY <1>1, Invariance, PTL

-----------------------------------------------------------------------------
(* Only Commit, Register and Touch write the account.                      *)

\* A step that changes the account is the first registration, a commit with
\* the effect of its operation, or a write of the lock service.
LEMMA OnlyCommitWrites ==
  ASSUME Inv, [Next]_vars
  PROVE  \/ row' = row
         \/ /\ row.status = "absent" /\ row.consent = "none" /\ row.conn = None
            /\ row'.status = "draft" /\ row'.consent = "none" /\ row'.conn = None
         \/ \E c \in Calls : /\ Writes(c) /\ row.status # "absent" /\ row'.status # "absent"
                             /\ row' \in Rows /\ Effect(c, call[c].op)
                             /\ call[c].row.status = row.status
         \/ row'.status = row.status /\ row'.consent = row.consent /\ row'.conn = row.conn
<1>1. ASSUME NEW c \in Calls, Commit(c) PROVE Writes(c)
  <2>0. TypeOK /\ Goto(c, "record") /\ "record" \in PCs
    BY <1>1 DEF Commit, Inv, PCs
  <2>1. Becomes(c, "record", call[c].op, call[c].row, call[c].dropped, call[c].stayed, call[c].end)
    BY <2>0, GotoCall
  <2> QED
    BY <1>1, <2>1 DEF Writes, Commit, At, Becomes
<1>2. ASSUME NEW c \in Calls, Serve(c), ~Commit(c), ~Register(c) PROVE row' = row
  BY <1>2 DEF Serve, Read, StoreSecret, AddConnection, Answer, Find, DeleteSecret,
     DeleteConnection, CommitFails, Record
<1>3. ASSUME NEW c \in Calls, Register(c), row' # row
      PROVE  row.status = "absent" /\ row'.status = "draft" /\ row'.consent = "none"
             /\ row'.conn = None
  BY <1>3 DEF Register, NoRow
<1>4. ASSUME NEW c \in Calls, Crash(c) PROVE row' = row
  BY <1>4 DEF Crash
<1>5. ASSUME Touch
      PROVE  row'.status = row.status /\ row'.consent = row.consent /\ row'.conn = row.conn
  BY <1>5 DEF Touch, Inv, TypeOK, Rows
<1>6. row.status = "absent" => row.consent = "none" /\ row.conn = None
  BY DEF Inv, Names
<1> QED
  BY <1>1, <1>2, <1>3, <1>4, <1>5, <1>6, CommitWrites DEF Next, vars

\* Revoked consent comes back only by an owner's authorize: the property of
\* one step.
RevocationKept ==
  row.consent = "revoked" /\ row'.consent # "revoked"
    => \E c \in Calls : Writes(c) /\ call[c].op = "authorize"

\* No call that started before a revocation carries the old consent over it.
THEOREM RevocationsHold == Spec => RevocationIsKept
<1>1. Inv /\ [Next]_vars => [RevocationKept]_vars
  BY OnlyCommitWrites DEF RevocationKept, Effect
<1> QED
  BY <1>1, Invariance, PTL DEF RevocationIsKept, RevocationKept, Spec

\* Withheld accounts are released by a patch of the status only: the property
\* of one step.
WithheldKept ==
  \/ row.status \notin {"suspended", "retired"}
  \/ row'.status = row.status
  \/ \E c \in Calls :
       /\ Writes(c) /\ call[c].row.status = row.status
       /\ \/ call[c].op = "patch"
          \/ call[c].op = "revoke" /\ row'.status = "suspended"
          \/ call[c].op = "retire" /\ row'.status = "retired"

\* A suspended or retired account is released by a patch and by nothing else.
THEOREM WithheldStays == Spec => WithheldUntilPatched
<1>1. Inv /\ [Next]_vars => [WithheldKept]_vars
  BY OnlyCommitWrites DEF WithheldKept, Effect, Settles
<1> QED
  BY <1>1, Invariance, PTL DEF WithheldUntilPatched, WithheldKept, Spec

-----------------------------------------------------------------------------
\* The operations take effect at one instant each: the account service
\* implements AccountStates.
THEOREM ImplementsAccount == Spec => Promise
<1>1. Init => Account!Init
  BY DEF Init, NoRow, Account!Init
<1>2. Inv /\ [Next]_vars => [Account!Next]_<<row.status, row.consent, row.conn # None>>
  <2> SUFFICES ASSUME Inv, [Next]_vars
               PROVE  [Account!Next]_<<row.status, row.consent, row.conn # None>>
    OBVIOUS
  <2>1. CASE row.status = "absent" /\ row.consent = "none" /\ row.conn = None
             /\ row'.status = "draft" /\ row'.consent = "none" /\ row'.conn = None
    BY <2>1 DEF Account!Next, Account!Register
  <2>2. ASSUME NEW c \in Calls, row.status # "absent", row'.status # "absent",
               row' \in Rows, Effect(c, call[c].op)
        PROVE  [Account!Next]_<<row.status, row.consent, row.conn # None>>
    <3>1. row'.status \in Account!States
      BY <2>2 DEF Rows, States, Account!States
    <3>2. Settles => Account!Settle
      BY DEF Settles, Account!Settle
    <3>3. CASE call[c].op = "authorize"
      BY <2>2, <3>2, <3>3 DEF Effect, Account!Next, Account!Authorize
    <3>4. CASE call[c].op = "revoke"
      BY <2>2, <3>4 DEF Effect, Account!Next, Account!Revoke
    <3>5. CASE call[c].op = "connect"
      BY <2>2, <3>2, <3>5, LifecycleAssumption DEF Effect, Account!Next, Account!Connect
    <3>6. CASE call[c].op = "disconnect"
      BY <2>2, <3>2, <3>6 DEF Effect, Account!Next, Account!Disconnect
    <3>7. CASE call[c].op \in {"refresh", "health"}
      BY <2>2, <3>7 DEF Effect
    <3>8. CASE call[c].op = "retire"
      BY <2>2, <3>8 DEF Effect, Account!Next, Account!Retire
    <3>9. CASE call[c].op = "patch"
      BY <2>2, <3>1, <3>9 DEF Effect, Account!Next, Account!Patch
    <3> QED
      BY <2>2, <3>3, <3>4, <3>5, <3>6, <3>7, <3>8, <3>9 DEF Effect
  <2> QED
    BY <2>1, <2>2, OnlyCommitWrites
<1> QED
  BY <1>1, <1>2, Invariance, PTL DEF Promise, Account!Spec, Spec
=============================================================================
