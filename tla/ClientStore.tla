----------------------------- MODULE ClientStore -----------------------------
(***************************************************************************)
(* The client endpoints of hivemind_admin_panel/api.py, run by the threads *)
(* of the ASGI thread pool against one client database.                    *)
(*                                                                         *)
(* Most handlers run inside client_db_write(), which holds the process-    *)
(* wide RLock from before the row is loaded until after it is stored.      *)
(* add_client, delete_client, and import_backup open the database without  *)
(* that lock.  A request is a sequence of units: one unit for a plain      *)
(* endpoint, one per client id for bulk_clients, one per bundle row for    *)
(* import_backup.  Statements of the database are atomic; between two      *)
(* statements any other thread may run.                                    *)
(***************************************************************************)
EXTENDS ClientRow

CONSTANTS
  Thread,          \* threads of the pool
  Requests,        \* the requests the environment sends: sequences of units
  InitialClients,  \* ids that have a row at the start
  Nobody           \* "the lock is free"

Units == UNION {{s[k] : k \in DOMAIN s} : s \in Requests}

LockedOps == {"patch", "list", "provision"}
Creators == {"add", "provision", "restore"}

\* add_client was sent no key of the operator's own.
GeneratedKey == "generated"

\* The form of a unit, by operation.
IsUnit(u) ==
  \/ u.op = "patch" /\ u.id \in ClientId /\ IsPatch(u.patch)
  \/ u.op = "list" /\ u.id \in ClientId /\ IsItem(u.field, u.item)
                   /\ u.present \in BOOLEAN
  \/ u.op = "provision" /\ u.name \in Name /\ IsPatch(u.patch)
  \/ u.op = "add" /\ u.name \in Name /\ u.admin \in BOOLEAN
                  /\ u.key \in OtherKey \cup {GeneratedKey}
  \/ u.op = "delete" /\ u.id \in ClientId
  \/ u.op = "restore" /\ u.name \in Name /\ u.admin \in BOOLEAN
                      /\ u.key \in OtherKey /\ u.revoked \in BOOLEAN
                      /\ IsPatch(u.given) /\ IsPatch(u.patch)
                      /\ "api_key" \notin DOMAIN u.given

ASSUME RequestsAreSequences ==
  \A s \in Requests : s \in Seq(Units) /\ s # << >>
ASSUME UnitsAreWellFormed == \A u \in Units : IsUnit(u)
ASSUME InitialClientsExist == InitialClients \subseteq ClientId /\ Name # {}
ASSUME NobodyIsNoThread == Nobody \notin Thread

\* "This thread holds no row."
NoCopy == << >>

VARIABLES
  db,     \* db[i]: the row of client i, or NoRow
  lock,   \* the thread that holds _client_write_lock, or Nobody
  pc,     \* where thread t is in its current unit
  work,   \* the units of thread t's request that are not finished
  copy    \* the row thread t holds in its hands, with its id, or NoCopy

vars == <<db, lock, pc, work, copy>>

Unit(t) == work[t][1]
Free == {i \in ClientId : db[i] = NoRow}
Holders(k) == {i \in ClientId : db[i] # NoRow /\ db[i]["api_key"] = k}

TypeOK ==
  /\ \A i \in ClientId : db[i] = NoRow \/ IsRow(db[i])
  /\ DOMAIN db = ClientId
  /\ lock \in Thread \cup {Nobody}
  /\ pc \in [Thread -> {"idle", "start", "locked", "checked", "created", "loaded"}]
  /\ work \in [Thread -> Seq(Units)]
  /\ DOMAIN copy = Thread
  /\ \A t \in Thread : \/ copy[t] = NoCopy
                       \/ copy[t].id \in ClientId /\ IsRow(copy[t].row)

Init ==
  /\ \E n \in Name :
       db = [i \in ClientId |-> IF i \in InitialClients
                                THEN NewRow(n, i, FALSE) ELSE NoRow]
  /\ lock = Nobody
  /\ pc = [t \in Thread |-> "idle"]
  /\ work = [t \in Thread |-> << >>]
  /\ copy = [t \in Thread |-> NoCopy]

-----------------------------------------------------------------------------
\* Mutant: any handler that ends frees the lock, its holder's or not.
FinishFreesLock(t) ==
  /\ work' = [work EXCEPT ![t] = Tail(@)]
  /\ pc' = [pc EXCEPT ![t] = IF Len(work[t]) = 1 THEN "idle" ELSE "start"]
  /\ lock' = Nobody
  /\ copy' = [copy EXCEPT ![t] = NoCopy]

\* The current unit is answered: the with block, if any, is left.
Finish(t) ==
  /\ work' = [work EXCEPT ![t] = Tail(@)]
  /\ pc' = [pc EXCEPT ![t] = IF Len(work[t]) = 1 THEN "idle" ELSE "start"]
  /\ lock' = IF lock = t THEN Nobody ELSE lock
  /\ copy' = [copy EXCEPT ![t] = NoCopy]

\* Mutant: the with block ends once the row is read.
HoldUnlocked(t, label, i, r) ==
  /\ pc' = [pc EXCEPT ![t] = label]
  /\ copy' = [copy EXCEPT ![t] = [id |-> i, row |-> r]]
  /\ lock' = IF lock = t THEN Nobody ELSE lock
  /\ UNCHANGED work

\* The thread goes on to the next statement, with row r of client i in hand.
Hold(t, label, i, r) ==
  /\ pc' = [pc EXCEPT ![t] = label]
  /\ copy' = [copy EXCEPT ![t] = [id |-> i, row |-> r]]
  /\ UNCHANGED <<lock, work>>

\* Rows that the requests already accepted may still create (a bound of the
\* model: a database has no last id).
Pending == UNION {{t} \X {k \in DOMAIN work[t] : work[t][k].op \in Creators} :
                    t \in Thread}
Room(s) == Cardinality(Pending) + Cardinality({k \in DOMAIN s : s[k].op \in Creators})
             <= Cardinality(Free)

\* The pool hands a request to an idle thread.
Accept(t) ==
  /\ pc[t] = "idle"
  /\ \E s \in Requests : Room(s) /\ work' = [work EXCEPT ![t] = s]
  /\ pc' = [pc EXCEPT ![t] = "start"]
  /\ UNCHANGED <<db, lock, copy>>

\* Mutant: the database is opened without the lock being free.
AcquireAnyway(t) ==
  /\ pc[t] = "start"
  /\ Unit(t).op \in LockedOps
  /\ lock' = t
  /\ pc' = [pc EXCEPT ![t] = "locked"]
  /\ UNCHANGED <<db, work, copy>>

\* client_db_write(): the lock first, then the database.
Acquire(t) ==
  /\ pc[t] = "start"
  /\ Unit(t).op \in LockedOps
  /\ lock = Nobody
  /\ lock' = t
  /\ pc' = [pc EXCEPT ![t] = "locked"]
  /\ UNCHANGED <<db, work, copy>>

\* Where a handler that names a client looks for its row.
Looking(t) ==
  \/ pc[t] = "locked" /\ Unit(t).op \in {"patch", "list"}
  \/ pc[t] = "start" /\ Unit(t).op = "delete"

\* for client in db: if client.client_id == client_id
Load(t) ==
  /\ Looking(t)
  /\ db[Unit(t).id] # NoRow
  /\ Hold(t, "loaded", Unit(t).id, db[Unit(t).id])
  /\ UNCHANGED db

\* The loop ends without a match: 404, after the with block.
NotFound(t) ==
  /\ Looking(t)
  /\ db[Unit(t).id] = NoRow
  /\ Finish(t)
  /\ UNCHANGED db

\* db.update_item(client): the whole row in hand, edited, replaces the row.
Store(t) ==
  /\ pc[t] = "loaded"
  /\ Unit(t).op # "delete"
  /\ db' = [db EXCEPT ![copy[t].id] = Edited(Unit(t), copy[t].row)]
  /\ Finish(t)

\* db.delete_client(client.api_key): a row with the key that was read, if
\* there still is one, is revoked.
Delete(t) ==
  /\ pc[t] = "loaded"
  /\ Unit(t).op = "delete"
  /\ LET found == Holders(copy[t].row["api_key"]) IN
       \/ \E i \in found : db' = [db EXCEPT ![i] = RevokedRow(@)]
       \/ found = {} /\ UNCHANGED db
  /\ Finish(t)

\* db.add_client(...) with the operator's key or a generated one.
Add(t) ==
  /\ pc[t] = "start"
  /\ Unit(t).op = "add"
  /\ \E i \in Free :
       LET access_key == IF Unit(t).key = GeneratedKey THEN i ELSE Unit(t).key IN
       db' = [db EXCEPT ![i] = NewRow(Unit(t).name, access_key, Unit(t).admin)]
  /\ Finish(t)

\* provision_bridge: add_client inside the lock, to be edited next.
Provision(t) ==
  /\ pc[t] = "locked"
  /\ Unit(t).op = "provision"
  /\ \E i \in Free : LET r == NewRow(Unit(t).name, i, FALSE) IN
       db' = [db EXCEPT ![i] = r] /\ Hold(t, "created", i, r)

\* import_backup, one bundle row: a key that exists is skipped, a revoked row
\* is refused, anything else will be added.
Restore(t) ==
  /\ pc[t] = "start"
  /\ Unit(t).op = "restore"
  /\ IF Unit(t).revoked \/ Holders(Unit(t).key) # {}
     THEN Finish(t)
     ELSE pc' = [pc EXCEPT ![t] = "checked"] /\ UNCHANGED <<lock, work, copy>>
  /\ UNCHANGED db

\* db.add_client(...) with the key of the bundle, which another restore may
\* have added since it was looked up: the table does not compare keys.
AddRow(t) ==
  /\ pc[t] = "checked"
  /\ \E i \in Free :
       LET r == Patched(NewRow(Unit(t).name, Unit(t).key, Unit(t).admin),
                        Unit(t).given) IN
         db' = [db EXCEPT ![i] = r] /\ Hold(t, "created", i, r)

\* db.get_client_by_api_key(key) for the row just added.  Gone already
\* (revoked meanwhile): there is nothing left to edit.
Reload(t) ==
  /\ pc[t] = "created"
  /\ LET found == Holders(copy[t].row["api_key"]) IN
       \/ \E i \in found : Hold(t, "loaded", i, db[i])
       \/ found = {} /\ Finish(t)
  /\ UNCHANGED db

\* Mutant: an exception leaves without releasing the lock.
FailKeepsLock(t) ==
  /\ \/ pc[t] \in {"locked", "checked", "created", "loaded"}
     \/ pc[t] = "start" /\ Unit(t).op \notin LockedOps
  /\ LET aborts == Unit(t).op = "restore" \/ Len(work[t]) = 1 IN
       /\ work' = [work EXCEPT ![t] = IF aborts THEN << >> ELSE Tail(@)]
       /\ pc' = [pc EXCEPT ![t] = IF aborts THEN "idle" ELSE "start"]
  /\ copy' = [copy EXCEPT ![t] = NoCopy]
  /\ UNCHANGED <<db, lock>>

\* A database call raises.  bulk_clients records the error and goes on with
\* the next client; import_backup lets it end the request.
Fail(t) ==
  /\ \/ pc[t] \in {"locked", "checked", "created", "loaded"}
     \/ pc[t] = "start" /\ Unit(t).op \notin LockedOps
  /\ LET aborts == Unit(t).op = "restore" \/ Len(work[t]) = 1 IN
       /\ work' = [work EXCEPT ![t] = IF aborts THEN << >> ELSE Tail(@)]
       /\ pc' = [pc EXCEPT ![t] = IF aborts THEN "idle" ELSE "start"]
  /\ lock' = IF lock = t THEN Nobody ELSE lock
  /\ copy' = [copy EXCEPT ![t] = NoCopy]
  /\ UNCHANGED db

\* What a thread does without waiting for another.
Proceed(t) ==
  \/ Load(t) \/ NotFound(t) \/ Store(t) \/ Delete(t)
  \/ Add(t) \/ Provision(t) \/ Restore(t) \/ AddRow(t) \/ Reload(t)

Next == \E t \in Thread : Accept(t) \/ Acquire(t) \/ Proceed(t) \/ Fail(t)

Spec == Init /\ [][Next]_vars

\* Threads that can run are run; nothing is assumed of who gets the lock.
FairSpec == Spec /\ \A t \in Thread : WF_vars(Proceed(t))

-----------------------------------------------------------------------------
\* The units that read, edit and store inside client_db_write().
Writing(t) == /\ pc[t] \in {"locked", "created", "loaded"}
              /\ Unit(t).op \in LockedOps

\* At most one thread is between acquiring _client_write_lock and releasing
\* it: the mechanism that client_db_write and its test rely on.
MutualExclusion == \A t \in Thread : Writing(t) <=> lock = t

\* The row a locked handler is about to store differs from the table's in one
\* case only: the client was revoked in between, by a delete, which takes no
\* lock.  No field another locked handler stored is ever written over.
StaleOnlyByRevocation ==
  \A t \in Thread :
    pc[t] = "loaded" /\ Writing(t) =>
      \/ copy[t].row = db[copy[t].id]
      \/ IsRevoked(db[copy[t].id])

\* Operations under the lock are atomic: the table goes only through the steps
\* of AtomicClients (update, rename, flag, list, tag, template, bridge).
Atomic == INSTANCE AtomicClients WITH db <- db, Units <- Units
ImplementsAtomicClients == Atomic!Spec

\* Whoever takes the lock gives it back, whatever way the handler ends (found,
\* 404, bulk error): else every later client mutation would wait forever.
LockIsReleased == \A t \in Thread : lock = t ~> lock # t

\* Deleting a client revokes it: no handler that leaves the key alone makes a
\* revoked client valid again.
RevocationSticks ==
  [][\A i \in ClientId : /\ db[i] # NoRow /\ IsRevoked(db[i])
                         => IsRevoked(db'[i])]_vars
=============================================================================
