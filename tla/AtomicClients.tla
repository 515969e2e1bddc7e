---------------------------- MODULE AtomicClients ----------------------------
(***************************************************************************)
(* What the client endpoints promise: every operation on a client takes    *)
(* effect at one moment, on the row as it is at that moment.  No request   *)
(* ever undoes a field that another request changed.                       *)
(***************************************************************************)
EXTENDS ClientRow

CONSTANT Units  \* the operations requests are made of

VARIABLE db     \* the client table: id -> row, or NoRow

Init == \A i \in ClientId : db[i] = NoRow \/ IsRow(db[i])

\* A client is created: its id was free and now holds a row.
Create(i) ==
  /\ db[i] = NoRow
  /\ IsRow(db'[i])
  /\ db' = [db EXCEPT ![i] = db'[i]]

\* u may edit client i: it names i, or edits a client it created itself.
MayEdit(u, i) == u.op \in {"patch", "list"} => u.id = i

\* One edit, applied to the current row.
Edit(i) ==
  /\ db[i] # NoRow
  /\ \E u \in Units : /\ u.op \in {"patch", "list", "provision", "restore"}
                      /\ MayEdit(u, i)
                      /\ db' = [db EXCEPT ![i] = Edited(u, @)]

\* The key of client i stops working; the row and its id stay.
Revoke(i) ==
  /\ db[i] # NoRow
  /\ db' = [db EXCEPT ![i] = RevokedRow(@)]

Next == \E i \in ClientId : Create(i) \/ Edit(i) \/ Revoke(i)

Spec == Init /\ [][Next]_db
=============================================================================
