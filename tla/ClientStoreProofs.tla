-------------------------- MODULE ClientStoreProofs --------------------------
(***************************************************************************)
(* Proofs about ClientStore, for any pool of threads, any set of client    *)
(* ids and any set of requests.                                            *)
(***************************************************************************)
EXTENDS ClientStore, TLAPS, WellFoundedInduction, SequenceTheorems

-----------------------------------------------------------------------------
\* A nonempty set of positions has a first one, which is what Min picks.
LEMMA MinIsMember ==
  ASSUME NEW K \in SUBSET Nat, K # {}
  PROVE  Min(K) \in K
<1> DEFINE R == {ss \in Nat \X Nat : ss[1] < ss[2]}
<1>1. R = OpToRel(<, Nat)
  BY Zenon DEF OpToRel
<1>2. IsWellFoundedOn(R, Nat)
  BY <1>1, NatLessThanWellFounded, Zenon
<1>3. PICK x \in K : \A y \in K : ~ (<<y, x>> \in R)
  <2> HIDE DEF R
  <2> QED BY <1>2, WFMin
<1>4. ASSUME NEW y \in K, y < x
      PROVE  <<y, x>> \in R
  BY <1>4
<1>5. ASSUME NEW y \in K
      PROVE  x =< y
  <2>1. ~ (y < x)
    BY <1>3, <1>4, Zenon
  <2>2. x \in Nat /\ y \in Nat
    OBVIOUS
  <2> QED BY <2>1, <2>2
<1> QED BY <1>5 DEF Min

\* Removing the first occurrence of an item from a list gives a list over the
\* same items.
LEMMA RemoveItemType ==
  ASSUME NEW S, NEW s \in Seq(S), NEW x
  PROVE  RemoveItem(s, x) \in Seq(S)
<1> DEFINE K == {k \in 1..Len(s) : s[k] = x}
<1>1. CASE K = {}
  BY <1>1 DEF RemoveItem
<1>2. CASE K # {}
  <2> DEFINE k == Min(K)
  <2>1. k \in 1..Len(s)
    <3>1. K \in SUBSET Nat OBVIOUS
    <3> QED BY <1>2, <3>1, MinIsMember
  <2> HIDE DEF k
  <2>2. SubSeq(s, 1, k-1) \in Seq(S) /\ SubSeq(s, k+1, Len(s)) \in Seq(S)
    BY <2>1
  <2>3. RemoveItem(s, x) = SubSeq(s, 1, k-1) \o SubSeq(s, k+1, Len(s))
    BY <1>2 DEF RemoveItem, RemoveAt, k
  <2> QED BY <2>2, <2>3
<1> QED BY <1>1, <1>2

-----------------------------------------------------------------------------
\* What the operations on rows return is a row.
LEMMA NewRowType ==
  ASSUME NEW n \in Name, NEW k \in Key, NEW admin \in BOOLEAN
  PROVE  IsRow(NewRow(n, k, admin))
<1> DEFINE r == NewRow(n, k, admin)
<1>1. DOMAIN r = Field
  BY DEF NewRow, Field, Flag, MayFlag, ListField
<1>2. r["name"] = n /\ r["api_key"] = k /\ r["tags"] = {}
  BY DEF NewRow
<1>3. \A f \in ListField : r[f] = << >>
  BY DEF NewRow, ListField
<1>4. \A f \in MayFlag : r[f] = TRUE
  BY DEF NewRow, MayFlag
<1>5. r["is_admin"] = admin
  BY DEF NewRow
<1> HIDE DEF r
<1>6. \A f \in Flag : IsValue(f, r[f])
  BY <1>4, <1>5, Zenon DEF Flag, IsValue
<1>7. \A f \in ListField : IsValue(f, r[f])
  <2>1. << >> \in Seq(MsgType) /\ << >> \in Seq(Skill) /\ << >> \in Seq(Intent)
    OBVIOUS
  <2> QED BY <1>3, <2>1, Zenon DEF ListField, IsValue
<1>8. IsValue("name", r["name"]) /\ IsValue("api_key", r["api_key"])
                                 /\ IsValue("tags", r["tags"])
  BY <1>2 DEF IsValue
<1>9. \A f \in Field : IsValue(f, r[f])
  BY <1>6, <1>7, <1>8, Zenon DEF Field
<1> QED BY <1>1, <1>9 DEF IsRow, r

LEMMA PatchedType ==
  ASSUME NEW r, IsRow(r), NEW p, IsPatch(p)
  PROVE  IsRow(Patched(r, p))
<1>1. DOMAIN Patched(r, p) = Field
  BY DEF Patched
<1>2. ASSUME NEW f \in Field
      PROVE  IsValue(f, Patched(r, p)[f])
  <2>1. CASE f \in DOMAIN p
    <3>1. Patched(r, p)[f] = p[f]
      BY <2>1 DEF Patched
    <3> QED BY <2>1, <3>1 DEF IsPatch
  <2>2. CASE f \notin DOMAIN p
    <3>1. Patched(r, p)[f] = r[f]
      BY <2>2 DEF Patched
    <3> QED BY <3>1 DEF IsRow
  <2> QED BY <2>1, <2>2
<1> QED BY <1>1, <1>2 DEF IsRow

LEMMA FieldReplacedType ==
  ASSUME NEW r, IsRow(r), NEW f \in Field, NEW v, IsValue(f, v)
  PROVE  IsRow([r EXCEPT ![f] = v])
BY DEF IsRow

LEMMA RevokedRowType ==
  ASSUME NEW r, IsRow(r)
  PROVE  IsRow(RevokedRow(r)) /\ IsRevoked(RevokedRow(r))
<1>1. "api_key" \in Field
  BY DEF Field
<1>2. IsValue("api_key", REVOKED)
  BY DEF IsValue
<1>3. IsRow(RevokedRow(r))
  BY <1>1, <1>2, FieldReplacedType DEF RevokedRow
<1>4. IsRevoked(RevokedRow(r))
  BY <1>1 DEF IsRevoked, RevokedRow, IsRow
<1> QED BY <1>3, <1>4

\* A list field holds a sequence over the items of that field.
LEMMA ListFieldType ==
  ASSUME NEW f, NEW x, IsItem(f, x), NEW r, IsRow(r)
  PROVE  /\ f \in ListField /\ f \in Field
         /\ \E S : /\ r[f] \in Seq(S) /\ x \in S
                   /\ \A l \in Seq(S) : IsValue(f, l)
<1>1. f \in ListField /\ f \in Field
  BY DEF IsItem, ListField, Field
<1>2. IsValue(f, r[f])
  BY <1>1 DEF IsRow
<1>3. CASE f = "allowed_types"
  <2>1. r[f] \in Seq(MsgType) /\ x \in MsgType
    BY <1>2, <1>3 DEF IsValue, IsItem, Flag, MayFlag
  <2> QED BY <1>1, <1>3, <2>1 DEF IsValue
<1>4. CASE f = "skill_blacklist"
  <2>1. r[f] \in Seq(Skill) /\ x \in Skill
    BY <1>2, <1>4 DEF IsValue, IsItem, Flag, MayFlag
  <2> QED BY <1>1, <1>4, <2>1 DEF IsValue
<1>5. CASE f = "intent_blacklist"
  <2>1. r[f] \in Seq(Intent) /\ x \in Intent
    BY <1>2, <1>5 DEF IsValue, IsItem, Flag, MayFlag
  <2> QED BY <1>1, <1>5, <2>1 DEF IsValue
<1> QED BY <1>1, <1>3, <1>4, <1>5 DEF ListField

LEMMA ListedType ==
  ASSUME NEW r, IsRow(r), NEW f, NEW x, IsItem(f, x), NEW present \in BOOLEAN
  PROVE  IsRow(Listed(r, f, x, present))
<1>1. PICK S : /\ r[f] \in Seq(S) /\ x \in S
               /\ \A l \in Seq(S) : IsValue(f, l)
  BY ListFieldType
<1>2. f \in Field
  BY ListFieldType
<1>3. IsValue(f, Append(r[f], x)) /\ IsValue(f, RemoveItem(r[f], x))
  <2>1. Append(r[f], x) \in Seq(S)
    BY <1>1
  <2>2. RemoveItem(r[f], x) \in Seq(S)
    BY <1>1, RemoveItemType
  <2> QED BY <1>1, <2>1, <2>2, Zenon
<1>4. /\ IsRow([r EXCEPT ![f] = Append(r[f], x)])
      /\ IsRow([r EXCEPT ![f] = RemoveItem(r[f], x)])
  BY <1>2, <1>3, FieldReplacedType
<1> QED BY <1>4 DEF Listed

\* The units that edit a row they hold.
Editors == {"patch", "list", "provision", "restore"}

LEMMA EditedType ==
  ASSUME NEW u, IsUnit(u), u.op \in Editors, NEW r, IsRow(r)
  PROVE  IsRow(Edited(u, r))
<1>1. CASE u.op = "list"
  <2>1. IsItem(u.field, u.item) /\ u.present \in BOOLEAN
    BY <1>1 DEF IsUnit
  <2>2. Edited(u, r) = Listed(r, u.field, u.item, u.present)
    BY <1>1 DEF Edited
  <2> QED BY <2>1, <2>2, ListedType
<1>2. CASE u.op # "list"
  <2>1. IsPatch(u.patch)
    BY <1>2 DEF IsUnit, Editors
  <2>2. Edited(u, r) = Patched(r, u.patch)
    BY <1>2 DEF Edited
  <2> QED BY <2>1, <2>2, PatchedType
<1> QED BY <1>1, <1>2

LEMMA RowIsNotNoRow ==
  ASSUME NEW r, IsRow(r)
  PROVE  r # NoRow
<1>1. "name" \in DOMAIN r
  BY DEF IsRow, Field
<1> QED BY <1>1 DEF NoRow

-----------------------------------------------------------------------------
\* What the program counter of a thread says of the rest of its state.
ControlOK ==
  \A t \in Thread :
    /\ pc[t] = "idle" <=> work[t] = << >>
    /\ pc[t] = "locked" => Unit(t).op \in LockedOps
    /\ pc[t] = "checked" => Unit(t).op = "restore"
    /\ pc[t] = "created" => Unit(t).op \in {"provision", "restore"}
    /\ pc[t] = "loaded" => Unit(t).op # "add"
    /\ pc[t] \in {"created", "loaded"} =>
         copy[t] # NoCopy /\ db[copy[t].id] # NoRow

\* The inductive invariant: types alone are not inductive, since a row is
\* stored from a copy and an operation that the program counter promises.
IInv == TypeOK /\ MutualExclusion /\ ControlOK

LEMMA UnitType ==
  ASSUME TypeOK, ControlOK, NEW t \in Thread, pc[t] # "idle"
  PROVE  /\ work[t] \in Seq(Units) /\ Len(work[t]) > 0
         /\ Unit(t) \in Units /\ IsUnit(Unit(t))
<1>1. work[t] \in Seq(Units) /\ work[t] # << >>
  BY DEF TypeOK, ControlOK
<1>2. Unit(t) \in Units /\ Len(work[t]) > 0
  BY <1>1 DEF Unit
<1> QED BY <1>1, <1>2, UnitsAreWellFormed

LEMMA InitInv == Init => IInv
<1> SUFFICES ASSUME Init PROVE IInv
  OBVIOUS
<1>1. PICK n \in Name : db = [i \in ClientId |-> IF i \in InitialClients
                                THEN NewRow(n, i, FALSE) ELSE NoRow]
  BY DEF Init
<1>2. \A i \in ClientId : IsRow(NewRow(n, i, FALSE))
  BY NewRowType DEF Key
<1>3. \A i \in ClientId : db[i] = NoRow \/ IsRow(db[i])
  BY <1>1, <1>2
<1>4. TypeOK
  <2>1. << >> \in Seq(Units)
    OBVIOUS
  <2>2. work \in [Thread -> Seq(Units)]
    BY <2>1 DEF Init
  <2>3. DOMAIN db = ClientId
    BY <1>1
  <2> QED BY <1>3, <2>2, <2>3 DEF TypeOK, Init
<1>5. MutualExclusion
  BY NobodyIsNoThread DEF MutualExclusion, Init, Writing
<1>6. ControlOK
  BY DEF ControlOK, Init
<1> QED BY <1>4, <1>5, <1>6 DEF IInv

\* Finishing a unit leaves a thread that is idle or ready for its next unit.
LEMMA FinishInv ==
  ASSUME IInv, NEW t \in Thread, pc[t] # "idle", Finish(t),
         DOMAIN db' = ClientId,
         \A i \in ClientId : db'[i] = NoRow \/ IsRow(db'[i]),
         \A i \in ClientId : db[i] # NoRow => db'[i] # NoRow
  PROVE  IInv'
<1> USE DEF IInv
<1>1. work[t] \in Seq(Units) /\ Len(work[t]) > 0
  BY UnitType
<1>2. Tail(work[t]) \in Seq(Units) /\ (Tail(work[t]) = << >> <=> Len(work[t]) = 1)
  <2>1. Tail(work[t]) \in Seq(Units) /\ Len(Tail(work[t])) = Len(work[t]) - 1
    BY <1>1
  <2>2. Tail(work[t]) = << >> <=> Len(Tail(work[t])) = 0
    BY <2>1, EmptySeq
  <2> QED BY <1>1, <2>1, <2>2
<1>3. TypeOK'
  BY <1>2 DEF TypeOK, Finish
<1>4. ASSUME NEW u \in Thread
      PROVE  Writing(u)' <=> lock' = u
  <2>1. Writing(u) <=> lock = u
    BY DEF MutualExclusion
  <2>2. CASE u = t
    <3>1. ~ Writing(u)'
      BY <2>2 DEF Writing, Finish, TypeOK
    <3> QED BY <2>2, <3>1, NobodyIsNoThread DEF Finish
  <2>3. CASE u # t
    <3>1. Writing(u)' <=> Writing(u)
      BY <2>3 DEF Writing, Finish, TypeOK, Unit
    <3>2. lock' = u <=> lock = u
      BY <2>3, NobodyIsNoThread DEF Finish
    <3> QED BY <2>1, <3>1, <3>2
  <2> QED BY <2>2, <2>3
<1>5. ControlOK'
  BY <1>2 DEF TypeOK, ControlOK, Finish, Unit
<1> QED BY <1>3, <1>4, <1>5 DEF MutualExclusion

LEMMA HoldInv ==
  ASSUME IInv, NEW t \in Thread, pc[t] # "idle",
         NEW label \in {"created", "loaded"}, NEW i \in ClientId, NEW r, IsRow(r),
         Hold(t, label, i, r),
         label = "created" => Unit(t).op \in {"provision", "restore"},
         label = "loaded" => Unit(t).op # "add",
         Unit(t).op \in LockedOps <=> pc[t] # "start" /\ Writing(t),
         DOMAIN db' = ClientId, db'[i] # NoRow,
         \A j \in ClientId : db'[j] = NoRow \/ IsRow(db'[j]),
         \A j \in ClientId : db[j] # NoRow => db'[j] # NoRow
  PROVE  IInv'
<1> USE DEF IInv
<1>1. TypeOK'
  BY DEF TypeOK, Hold
<1>2. MutualExclusion'
  BY DEF TypeOK, MutualExclusion, Writing, Hold, Unit
<1>3. ControlOK'
  BY DEF TypeOK, ControlOK, Hold, Unit, NoCopy
<1> QED BY <1>1, <1>2, <1>3

\* A thread that is outside the lock has a unit that does not take it.
LEMMA OpsAndLock ==
  ASSUME IInv, NEW t \in Thread, pc[t] \in {"created", "loaded"}
  PROVE  /\ Unit(t).op \in LockedOps <=> Writing(t)
         /\ copy[t].id \in ClientId /\ IsRow(copy[t].row)
         /\ db[copy[t].id] # NoRow /\ IsRow(db[copy[t].id])
         /\ DOMAIN db = ClientId
BY DEF IInv, Writing, TypeOK, ControlOK

\* Replacing one row by a row keeps the table a table of rows.
LEMMA TableUpdate ==
  ASSUME TypeOK, NEW i \in ClientId, NEW r, IsRow(r), db' = [db EXCEPT ![i] = r]
  PROVE  /\ DOMAIN db' = ClientId /\ db'[i] = r /\ db'[i] # NoRow
         /\ \A j \in ClientId : db'[j] = NoRow \/ IsRow(db'[j])
         /\ \A j \in ClientId : db[j] # NoRow => db'[j] # NoRow
<1>1. r # NoRow
  BY RowIsNotNoRow
<1> QED BY <1>1 DEF TypeOK

LEMMA TableUnchanged ==
  ASSUME TypeOK, UNCHANGED db
  PROVE  /\ DOMAIN db' = ClientId
         /\ \A j \in ClientId : db'[j] = NoRow \/ IsRow(db'[j])
         /\ \A j \in ClientId : db[j] # NoRow => db'[j] # NoRow
BY DEF TypeOK

LEMMA AcceptInv == ASSUME IInv, NEW t \in Thread, Accept(t) PROVE IInv'
<1> USE DEF IInv
<1>1. PICK s \in Requests : work' = [work EXCEPT ![t] = s]
  BY DEF Accept
<1>2. s \in Seq(Units) /\ s # << >>
  BY RequestsAreSequences
<1>3. TypeOK'
  BY <1>1, <1>2 DEF TypeOK, Accept
<1>4. MutualExclusion'
  BY <1>1, <1>2 DEF TypeOK, MutualExclusion, Writing, Accept, Unit
<1>5. ControlOK'
  BY <1>1, <1>2 DEF TypeOK, ControlOK, Accept, Unit
<1> QED BY <1>3, <1>4, <1>5

LEMMA AcquireInv == ASSUME IInv, NEW t \in Thread, Acquire(t) PROVE IInv'
<1> USE DEF IInv
<1>1. TypeOK'
  BY DEF TypeOK, Acquire
<1>2. MutualExclusion'
  BY NobodyIsNoThread DEF TypeOK, MutualExclusion, Writing, Acquire, Unit
<1>3. ControlOK'
  BY DEF TypeOK, ControlOK, Acquire, Unit
<1> QED BY <1>1, <1>2, <1>3

LEMMA LoadInv == ASSUME IInv, NEW t \in Thread, Load(t) PROVE IInv'
<1> DEFINE i == Unit(t).id
<1>1. pc[t] # "idle" /\ db[i] # NoRow /\ UNCHANGED db /\ Hold(t, "loaded", i, db[i])
  BY DEF Load, Looking
<1>2. Unit(t).op \in {"patch", "list", "delete"}
  BY DEF Load, Looking
<1>3. IsUnit(Unit(t))
  BY <1>1, UnitType DEF IInv
<1>4. i \in ClientId
  BY <1>2, <1>3 DEF IsUnit
<1>5. Unit(t).op \in LockedOps <=> pc[t] # "start" /\ Writing(t)
  BY DEF Load, Looking, Writing, LockedOps
<1>6. IsRow(db[i]) /\ db'[i] # NoRow
  BY <1>1, <1>4 DEF IInv, TypeOK
<1> HIDE DEF i
<1> QED BY <1>1, <1>2, <1>4, <1>5, <1>6, HoldInv, TableUnchanged DEF IInv

LEMMA NotFoundInv == ASSUME IInv, NEW t \in Thread, NotFound(t) PROVE IInv'
BY FinishInv, TableUnchanged DEF NotFound, Looking, IInv

LEMMA StoreInv == ASSUME IInv, NEW t \in Thread, Store(t) PROVE IInv'
<1> DEFINE r == Edited(Unit(t), copy[t].row)
<1>1. pc[t] = "loaded" /\ Unit(t).op # "delete" /\ Unit(t).op # "add"
  BY DEF Store, IInv, ControlOK
<1>2. IsUnit(Unit(t)) /\ Unit(t).op \in Editors
  BY <1>1, UnitType DEF IInv, IsUnit, Editors
<1>3. copy[t].id \in ClientId /\ IsRow(r)
  BY <1>1, <1>2, OpsAndLock, EditedType
<1> HIDE DEF r
<1>4. db' = [db EXCEPT ![copy[t].id] = r] /\ Finish(t)
  BY DEF Store, r
<1> QED BY <1>1, <1>3, <1>4, FinishInv, TableUpdate DEF IInv

LEMMA DeleteInv == ASSUME IInv, NEW t \in Thread, Delete(t) PROVE IInv'
<1>1. pc[t] # "idle" /\ Finish(t)
  BY DEF Delete
<1>2. CASE UNCHANGED db
  BY <1>1, <1>2, FinishInv, TableUnchanged DEF IInv
<1>3. ASSUME NEW i \in ClientId, db[i] # NoRow,
             db' = [db EXCEPT ![i] = RevokedRow(db[i])]
      PROVE  IInv'
  <2>1. IsRow(RevokedRow(db[i]))
    BY <1>3, RevokedRowType DEF IInv, TypeOK
  <2> QED BY <1>1, <1>3, <2>1, FinishInv, TableUpdate DEF IInv
<1> QED BY <1>2, <1>3 DEF Delete, Holders

LEMMA AddInv == ASSUME IInv, NEW t \in Thread, Add(t) PROVE IInv'
<1>1. pc[t] # "idle" /\ Finish(t) /\ Unit(t).op = "add"
  BY DEF Add
<1>2. /\ Unit(t).name \in Name /\ Unit(t).admin \in BOOLEAN
      /\ Unit(t).key \in OtherKey \cup {GeneratedKey}
  BY <1>1, UnitType DEF IInv, IsUnit
<1>3. PICK i \in ClientId :
        \E k \in OtherKey \cup {i} :
          db' = [db EXCEPT ![i] = NewRow(Unit(t).name, k, Unit(t).admin)]
  BY <1>2 DEF Add, Free
<1>4. PICK k \in OtherKey \cup {i} :
        db' = [db EXCEPT ![i] = NewRow(Unit(t).name, k, Unit(t).admin)]
  BY <1>3
<1>5. IsRow(NewRow(Unit(t).name, k, Unit(t).admin))
  BY <1>2, NewRowType DEF Key
<1> QED BY <1>1, <1>4, <1>5, FinishInv, TableUpdate DEF IInv

LEMMA ProvisionInv == ASSUME IInv, NEW t \in Thread, Provision(t) PROVE IInv'
<1>1. pc[t] = "locked" /\ Unit(t).op = "provision"
  BY DEF Provision
<1>2. PICK i \in ClientId :
        /\ db' = [db EXCEPT ![i] = NewRow(Unit(t).name, i, FALSE)]
        /\ Hold(t, "created", i, NewRow(Unit(t).name, i, FALSE))
  BY DEF Provision, Free
<1>3. Unit(t).name \in Name
  BY <1>1, UnitType DEF IInv, IsUnit
<1>4. IsRow(NewRow(Unit(t).name, i, FALSE))
  BY <1>3, NewRowType DEF Key
<1>5. Unit(t).op \in LockedOps /\ Writing(t)
  BY <1>1 DEF LockedOps, Writing
<1> QED BY <1>1, <1>2, <1>4, <1>5, HoldInv, TableUpdate DEF IInv

LEMMA RestoreInv == ASSUME IInv, NEW t \in Thread, Restore(t) PROVE IInv'
<1>1. pc[t] = "start" /\ Unit(t).op = "restore" /\ UNCHANGED db
  BY DEF Restore
<1>2. CASE Finish(t)
  BY <1>1, <1>2, FinishInv, TableUnchanged DEF IInv
<1>3. CASE pc' = [pc EXCEPT ![t] = "checked"] /\ UNCHANGED <<lock, work, copy>>
  <2>1. TypeOK'
    BY <1>1, <1>3 DEF IInv, TypeOK
  <2>2. MutualExclusion'
    BY <1>1, <1>3 DEF IInv, TypeOK, MutualExclusion, Writing, Unit, LockedOps
  <2>3. ControlOK'
    BY <1>1, <1>3 DEF IInv, TypeOK, ControlOK, Unit
  <2> QED BY <2>1, <2>2, <2>3 DEF IInv
<1> QED BY <1>2, <1>3 DEF Restore

LEMMA AddRowInv == ASSUME IInv, NEW t \in Thread, AddRow(t) PROVE IInv'
<1>1. pc[t] = "checked" /\ Unit(t).op = "restore"
  BY DEF AddRow, IInv, ControlOK
<1>2. PICK i \in Free :
        LET r == Patched(NewRow(Unit(t).name, Unit(t).key, Unit(t).admin),
                         Unit(t).given)
        IN db' = [db EXCEPT ![i] = r] /\ Hold(t, "created", i, r)
  BY DEF AddRow
<1> DEFINE r == Patched(NewRow(Unit(t).name, Unit(t).key, Unit(t).admin),
                        Unit(t).given)
<1>3. /\ Unit(t).name \in Name /\ Unit(t).admin \in BOOLEAN
      /\ Unit(t).key \in Key /\ IsPatch(Unit(t).given)
  BY <1>1, UnitType DEF IInv, IsUnit, Key
<1>4. IsRow(r)
  BY <1>3, NewRowType, PatchedType
<1>5. Unit(t).op \notin LockedOps /\ ~ Writing(t)
  BY <1>1 DEF LockedOps, Writing
<1>6. i \in ClientId
  BY DEF Free
<1>7. db' = [db EXCEPT ![i] = r] /\ Hold(t, "created", i, r)
  BY <1>2
<1> HIDE DEF r
<1> QED BY <1>1, <1>4, <1>5, <1>6, <1>7, HoldInv, TableUpdate DEF IInv

LEMMA ReloadInv == ASSUME IInv, NEW t \in Thread, Reload(t) PROVE IInv'
<1>1. pc[t] = "created" /\ UNCHANGED db /\ Unit(t).op \in {"provision", "restore"}
  BY DEF Reload, IInv, ControlOK
<1>2. CASE Finish(t)
  BY <1>1, <1>2, FinishInv, TableUnchanged DEF IInv
<1>3. ASSUME NEW i \in ClientId, db[i] # NoRow, Hold(t, "loaded", i, db[i])
      PROVE  IInv'
  <2>1. IsRow(db[i]) /\ db'[i] # NoRow
    BY <1>1, <1>3 DEF IInv, TypeOK
  <2>2. Unit(t).op \in LockedOps <=> pc[t] # "start" /\ Writing(t)
    BY <1>1, OpsAndLock
  <2> QED BY <1>1, <1>3, <2>1, <2>2, HoldInv, TableUnchanged DEF IInv
<1> QED BY <1>2, <1>3 DEF Reload, Holders

LEMMA FailInv == ASSUME IInv, NEW t \in Thread, Fail(t) PROVE IInv'
<1> USE DEF IInv
<1> DEFINE aborts == Unit(t).op = "restore" \/ Len(work[t]) = 1
           rest == IF aborts THEN << >> ELSE Tail(work[t])
<1>1. work[t] \in Seq(Units) /\ Len(work[t]) > 0 /\ UNCHANGED db
  BY UnitType DEF Fail
<1>2. rest \in Seq(Units) /\ (rest = << >> <=> aborts)
  <2>1. Tail(work[t]) \in Seq(Units) /\ Len(Tail(work[t])) = Len(work[t]) - 1
    BY <1>1
  <2>2. Tail(work[t]) = << >> <=> Len(Tail(work[t])) = 0
    BY <2>1, EmptySeq
  <2> QED BY <1>1, <2>1, <2>2
<1>3. /\ work' = [work EXCEPT ![t] = rest]
      /\ pc' = [pc EXCEPT ![t] = IF aborts THEN "idle" ELSE "start"]
      /\ lock' = IF lock = t THEN Nobody ELSE lock
      /\ copy' = [copy EXCEPT ![t] = NoCopy]
  BY DEF Fail
<1> HIDE DEF aborts, rest
<1>4. TypeOK'
  BY <1>1, <1>2, <1>3 DEF TypeOK
<1>5. ASSUME NEW u \in Thread
      PROVE  Writing(u)' <=> lock' = u
  <2>1. Writing(u) <=> lock = u
    BY DEF MutualExclusion
  <2>2. CASE u = t
    <3>1. ~ Writing(u)'
      BY <1>3, <2>2 DEF Writing, TypeOK
    <3> QED BY <1>3, <2>2, <3>1, NobodyIsNoThread
  <2>3. CASE u # t
    <3>1. Writing(u)' <=> Writing(u)
      BY <1>3, <2>3 DEF Writing, TypeOK, Unit
    <3>2. lock' = u <=> lock = u
      BY <1>3, <2>3, NobodyIsNoThread
    <3> QED BY <2>1, <3>1, <3>2
  <2> QED BY <2>2, <2>3
<1>6. ControlOK'
  BY <1>1, <1>2, <1>3 DEF TypeOK, ControlOK, Unit
<1> QED BY <1>4, <1>5, <1>6 DEF MutualExclusion

LEMMA StepInv == IInv /\ [Next]_vars => IInv'
<1> SUFFICES ASSUME IInv, [Next]_vars PROVE IInv'
  OBVIOUS
<1>1. ASSUME NEW t \in Thread, Proceed(t) PROVE IInv'
  BY <1>1, LoadInv, NotFoundInv, StoreInv, DeleteInv, AddInv, ProvisionInv,
     RestoreInv, AddRowInv, ReloadInv DEF Proceed
<1>2. CASE UNCHANGED vars
  BY <1>2 DEF vars, IInv, TypeOK, MutualExclusion, ControlOK, Writing, Unit
<1> QED BY <1>1, <1>2, AcceptInv, AcquireInv, FailInv DEF Next

\* The inductive invariant holds of every behaviour.
THEOREM Invariance == Spec => []IInv
BY InitInv, StepInv, PTL DEF Spec

\* The table holds rows, threads hold rows, the lock has an owner or none.
THEOREM TypeCorrect == Spec => []TypeOK
<1>1. IInv => TypeOK
  BY DEF IInv
<1> QED BY <1>1, Invariance, PTL

\* client_db_write() keeps all other locked handlers out, whatever requests
\* are sent and however they end.
THEOREM LockExcludes == Spec => []MutualExclusion
<1>1. IInv => MutualExclusion
  BY DEF IInv
<1> QED BY <1>1, Invariance, PTL

-----------------------------------------------------------------------------
\* What a locked handler holds is what the table has.  The exception is a
\* client that a delete revoked; and only import_backup, the one handler that
\* stores a row without the lock, could make another.
NoRestores == \A u \in Units : u.op # "restore"
HasDeletes == \E u \in Units : u.op = "delete"

CopyOK(t) ==
  pc[t] = "loaded" /\ Writing(t) =>
    /\ Unit(t).op \in {"patch", "list"} => copy[t].id = Unit(t).id
    /\ \/ copy[t].row = db[copy[t].id]
       \/ HasDeletes /\ IsRevoked(db[copy[t].id])

\* A step of another thread that leaves the row of t's copy alone, or revokes
\* it, keeps t's copy good.
LEMMA OthersKeepCopy ==
  ASSUME IInv, NEW t \in Thread, CopyOK(t),
         pc'[t] = pc[t], work'[t] = work[t], copy'[t] = copy[t],
         pc[t] = "loaded" /\ Writing(t) =>
            \/ db'[copy[t].id] = db[copy[t].id]
            \/ HasDeletes /\ IsRevoked(db'[copy[t].id])
  PROVE  CopyOK(t)'
BY DEF CopyOK, Writing, Unit

LEMMA CopyStep ==
  ASSUME NoRestores, IInv, NEW t \in Thread, CopyOK(t), [Next]_vars
  PROVE  CopyOK(t)'
<1> DEFINE Steady == pc'[t] = pc[t] /\ work'[t] = work[t] /\ copy'[t] = copy[t]
           Safe == pc[t] = "loaded" /\ Writing(t) =>
                     \/ db'[copy[t].id] = db[copy[t].id]
                     \/ HasDeletes /\ IsRevoked(db'[copy[t].id])
<1>1. ASSUME Steady, UNCHANGED db PROVE CopyOK(t)'
  BY <1>1, OthersKeepCopy
<1>2. ASSUME NEW u \in Thread, u # t,
             Finish(u) \/ (\E l, i, r : Hold(u, l, i, r)) \/ Accept(u)
                       \/ Acquire(u) \/ Fail(u)
      PROVE  Steady
  BY <1>2 DEF Finish, Hold, Accept, Acquire, Fail, IInv, TypeOK
<1>3. pc[t] = "loaded" => copy[t].id \in ClientId /\ db[copy[t].id] # NoRow
  BY OpsAndLock
<1>4. ASSUME pc'[t] # "loaded" PROVE CopyOK(t)'
  BY <1>4 DEF CopyOK
<1>5. ASSUME NEW u \in Thread, Accept(u) \/ Acquire(u) \/ Fail(u) PROVE CopyOK(t)'
  <2>1. CASE u = t
    BY <1>4, <1>5, <2>1 DEF Accept, Acquire, Fail, IInv, TypeOK
  <2>2. CASE u # t
    BY <1>1, <1>2, <1>5, <2>2 DEF Accept, Acquire, Fail
  <2> QED BY <2>1, <2>2
<1>6. ASSUME NEW u \in Thread, Load(u) PROVE CopyOK(t)'
  <2>1. CASE u = t
    <3>1. copy'[t] = [id |-> Unit(t).id, row |-> db[Unit(t).id]] /\ UNCHANGED <<db, work>>
      BY <1>6, <2>1 DEF Load, Hold, IInv, TypeOK
    <3> QED BY <3>1 DEF CopyOK, Unit
  <2>2. CASE u # t
    BY <1>1, <1>2, <1>6, <2>2 DEF Load
  <2> QED BY <2>1, <2>2
<1>7. ASSUME NEW u \in Thread, NotFound(u) PROVE CopyOK(t)'
  <2>1. CASE u = t
    BY <1>4, <1>7, <2>1 DEF NotFound, Finish, IInv, TypeOK
  <2>2. CASE u # t
    BY <1>1, <1>2, <1>7, <2>2 DEF NotFound
  <2> QED BY <2>1, <2>2
<1>8. ASSUME NEW u \in Thread, Store(u) PROVE CopyOK(t)'
  <2>1. CASE u = t
    BY <1>4, <1>8, <2>1 DEF Store, Finish, IInv, TypeOK
  <2>2. CASE u # t
    <3>1. Unit(u) \in Units /\ IsUnit(Unit(u)) /\ Unit(u).op \notin {"delete", "add", "restore"}
      BY <1>8, UnitType DEF Store, IInv, ControlOK, NoRestores
    <3>2. Unit(u).op \in LockedOps
      BY <3>1 DEF IsUnit, LockedOps
    <3>3. lock = u
      BY <1>8, <3>2 DEF Store, Writing, IInv, MutualExclusion
    <3>4. ~ Writing(t)
      BY <2>2, <3>3 DEF IInv, MutualExclusion
    <3> QED BY <1>2, <1>8, <2>2, <3>4, OthersKeepCopy DEF Store
  <2> QED BY <2>1, <2>2
<1>9. ASSUME NEW u \in Thread, Delete(u) PROVE CopyOK(t)'
  <2>1. CASE u = t
    BY <1>4, <1>9, <2>1 DEF Delete, Finish, IInv, TypeOK
  <2>2. CASE u # t
    <3>1. HasDeletes
      BY <1>9, UnitType DEF Delete, IInv, HasDeletes
    <3>2. CASE UNCHANGED db
      BY <1>1, <1>2, <1>9, <2>2, <3>2 DEF Delete
    <3>3. ASSUME NEW i \in ClientId, db[i] # NoRow,
                 db' = [db EXCEPT ![i] = RevokedRow(db[i])]
          PROVE  CopyOK(t)'
      <4>1. IsRevoked(RevokedRow(db[i])) /\ DOMAIN db = ClientId
        BY <3>3, RevokedRowType DEF IInv, TypeOK
      <4>2. db'[i] = RevokedRow(db[i]) /\ \A j \in ClientId : j # i => db'[j] = db[j]
        BY <3>3, <4>1
      <4>3. Safe
        BY <1>3, <3>1, <4>1, <4>2, Zenon
      <4> QED BY <1>2, <1>9, <2>2, <4>3, OthersKeepCopy DEF Delete
    <3> QED BY <1>9, <3>2, <3>3 DEF Delete, Holders
  <2> QED BY <2>1, <2>2
<1>10. ASSUME NEW u \in Thread, Add(u) PROVE CopyOK(t)'
  <2>1. CASE u = t
    BY <1>4, <1>10, <2>1 DEF Add, Finish, IInv, TypeOK
  <2>2. CASE u # t
    <3>1. Safe
      BY <1>3, <1>10 DEF Add, Free, IInv, TypeOK
    <3> QED BY <1>2, <1>10, <2>2, <3>1, OthersKeepCopy DEF Add
  <2> QED BY <2>1, <2>2
<1>11. ASSUME NEW u \in Thread, Provision(u) PROVE CopyOK(t)'
  <2>1. CASE u = t
    BY <1>4, <1>11, <2>1 DEF Provision, Hold, IInv, TypeOK
  <2>2. CASE u # t
    <3>1. Safe
      BY <1>3, <1>11 DEF Provision, Free, IInv, TypeOK
    <3> QED BY <1>2, <1>11, <2>2, <3>1, OthersKeepCopy DEF Provision
  <2> QED BY <2>1, <2>2
<1>12. ASSUME NEW u \in Thread, Restore(u) \/ AddRow(u) PROVE CopyOK(t)'
  BY <1>12, UnitType DEF Restore, AddRow, NoRestores, IInv, ControlOK
<1>13. ASSUME NEW u \in Thread, Reload(u) PROVE CopyOK(t)'
  <2>1. CASE u = t
    <3>1. Unit(t).op \in {"provision", "restore"}
      BY <1>13, <2>1 DEF Reload, IInv, ControlOK
    <3>2. CASE Finish(t)
      BY <1>4, <3>2 DEF Finish, IInv, TypeOK
    <3>3. ASSUME NEW i \in ClientId, Hold(t, "loaded", i, db[i]), UNCHANGED db
          PROVE  CopyOK(t)'
      <4>1. copy'[t] = [id |-> i, row |-> db[i]] /\ UNCHANGED <<db, work>>
        BY <3>3 DEF Hold, IInv, TypeOK
      <4> QED BY <3>1, <4>1 DEF CopyOK, Unit
    <3> QED BY <1>13, <2>1, <3>2, <3>3 DEF Reload, Holders
  <2>2. CASE u # t
    BY <1>1, <1>2, <1>13, <2>2 DEF Reload
  <2> QED BY <2>1, <2>2
<1>14. CASE UNCHANGED vars
  BY <1>1, <1>14 DEF vars
<1> QED BY <1>5, <1>6, <1>7, <1>8, <1>9, <1>10, <1>11, <1>12, <1>13, <1>14
        DEF Next, Proceed

CopiesOK == \A t \in Thread : CopyOK(t)

LEMMA CopyInit == Init => CopiesOK
BY DEF Init, CopiesOK, CopyOK

THEOREM CopiesInvariance ==
  ASSUME NoRestores
  PROVE  Spec => []CopiesOK
<1>1. IInv /\ CopiesOK /\ [Next]_vars => CopiesOK'
  BY CopyStep DEF CopiesOK
<1> QED BY <1>1, CopyInit, Invariance, PTL DEF Spec

\* The lock makes read-modify-write safe among its users: what a locked
\* handler is about to write over is what it read, or a revocation.
THEOREM LockedCopiesAreCurrent ==
  ASSUME NoRestores
  PROVE  Spec => []StaleOnlyByRevocation
<1>1. CopiesOK => StaleOnlyByRevocation
  BY DEF CopiesOK, CopyOK, StaleOnlyByRevocation
<1> QED BY <1>1, CopiesInvariance, PTL

-----------------------------------------------------------------------------
\* Refinement: without deletes and restores, every step is one atomic step of
\* AtomicClients or leaves the table alone.
\* Both modules take rows and edits from ClientRow.
LEMMA SameRows ==
  /\ Atomic!NoRow = NoRow
  /\ \A r : Atomic!IsRow(r) <=> IsRow(r)
  /\ \A u, r : Atomic!Edited(u, r) = Edited(u, r)
<1>1. Atomic!Field = Field /\ Atomic!Flag = Flag
  BY DEF Field, Flag, MayFlag, ListField,
         Atomic!Field, Atomic!Flag, Atomic!MayFlag, Atomic!ListField
<1>2. \A f, v : Atomic!IsValue(f, v) <=> IsValue(f, v)
  BY <1>1 DEF IsValue, Key, Atomic!IsValue, Atomic!Key
<1>3. \A s, x : Atomic!RemoveItem(s, x) = RemoveItem(s, x)
  BY DEF RemoveItem, RemoveAt, Min, Atomic!RemoveItem, Atomic!RemoveAt, Atomic!Min
<1>4. \A r, f, x, b : Atomic!Listed(r, f, x, b) = Listed(r, f, x, b)
  BY <1>3 DEF Listed, Contains, Atomic!Listed, Atomic!Contains
<1>5. \A r, p : Atomic!Patched(r, p) = Patched(r, p)
  BY <1>1 DEF Patched, Atomic!Patched
<1>6. Atomic!NoRow = NoRow
  BY DEF NoRow, Atomic!NoRow
<1>7. \A r : Atomic!IsRow(r) <=> IsRow(r)
  BY <1>1, <1>2 DEF IsRow, Atomic!IsRow
<1>8. \A u, r : Atomic!Edited(u, r) = Edited(u, r)
  BY <1>4, <1>5 DEF Edited, Atomic!Edited
<1> QED BY <1>6, <1>7, <1>8

LEMMA InitRefines == IInv => Atomic!Init
BY SameRows DEF IInv, TypeOK, Atomic!Init

LEMMA CreateRefines ==
  ASSUME TypeOK, NEW i \in Free, NEW r, IsRow(r), db' = [db EXCEPT ![i] = r]
  PROVE  Atomic!Next
<1>1. db[i] = NoRow /\ i \in ClientId /\ db'[i] = r
  BY DEF Free, TypeOK
<1>2. Atomic!Create(i)
  BY <1>1, SameRows DEF Atomic!Create
<1> QED BY <1>1, <1>2 DEF Atomic!Next

LEMMA StepRefines ==
  ASSUME NoRestores, ~ HasDeletes, IInv, CopiesOK, [Next]_vars
  PROVE  [Atomic!Next]_db
<1>1. ASSUME NEW t \in Thread, Store(t) PROVE [Atomic!Next]_db
  <2>1. /\ pc[t] = "loaded" /\ Unit(t) \in Units /\ IsUnit(Unit(t))
        /\ Unit(t).op \notin {"delete", "add", "restore"}
    BY <1>1, UnitType DEF Store, IInv, ControlOK, NoRestores
  <2>2. Unit(t).op \in {"patch", "list", "provision"}
    BY <2>1 DEF IsUnit
  <2>3. Writing(t)
    BY <2>1, <2>2 DEF Writing, LockedOps
  <2>4. /\ copy[t].row = db[copy[t].id]
        /\ Unit(t).op \in {"patch", "list"} => copy[t].id = Unit(t).id
    BY <2>1, <2>3 DEF CopiesOK, CopyOK
  <2>5. copy[t].id \in ClientId /\ db[copy[t].id] # NoRow
    BY <2>1, OpsAndLock
  <2>6. db' = [db EXCEPT ![copy[t].id] = Edited(Unit(t), db[copy[t].id])]
    BY <1>1, <2>4 DEF Store
  <2>7. Atomic!Edit(copy[t].id)
    BY <2>1, <2>2, <2>4, <2>5, <2>6, SameRows
    DEF Atomic!Edit, Atomic!MayEdit
  <2> QED BY <2>5, <2>7 DEF Atomic!Next
<1>2. ASSUME NEW t \in Thread, Delete(t) PROVE [Atomic!Next]_db
  BY <1>2, UnitType DEF Delete, IInv, HasDeletes
<1>3. ASSUME NEW t \in Thread, Add(t) PROVE [Atomic!Next]_db
  <2>1. pc[t] # "idle" /\ Unit(t).op = "add"
    BY <1>3 DEF Add
  <2>2. /\ Unit(t).name \in Name /\ Unit(t).admin \in BOOLEAN
        /\ Unit(t).key \in OtherKey \cup {GeneratedKey}
    BY <2>1, UnitType DEF IInv, IsUnit
  <2>3. PICK i \in Free :
          \E k \in OtherKey \cup {i} :
            db' = [db EXCEPT ![i] = NewRow(Unit(t).name, k, Unit(t).admin)]
    BY <1>3, <2>2 DEF Add
  <2>4. PICK k \in OtherKey \cup {i} :
          db' = [db EXCEPT ![i] = NewRow(Unit(t).name, k, Unit(t).admin)]
    BY <2>3
  <2>5. IsRow(NewRow(Unit(t).name, k, Unit(t).admin))
    BY <2>2, NewRowType DEF Key, Free
  <2> QED BY <2>4, <2>5, CreateRefines DEF IInv
<1>4. ASSUME NEW t \in Thread, Provision(t) PROVE [Atomic!Next]_db
  <2>1. pc[t] # "idle" /\ Unit(t).op = "provision"
    BY <1>4 DEF Provision
  <2>2. Unit(t).name \in Name
    BY <2>1, UnitType DEF IInv, IsUnit
  <2>3. PICK i \in Free : db' = [db EXCEPT ![i] = NewRow(Unit(t).name, i, FALSE)]
    BY <1>4 DEF Provision
  <2>4. IsRow(NewRow(Unit(t).name, i, FALSE))
    BY <2>2, NewRowType DEF Key, Free
  <2> QED BY <2>3, <2>4, CreateRefines DEF IInv
<1>5. ASSUME NEW t \in Thread, AddRow(t) PROVE [Atomic!Next]_db
  BY <1>5, UnitType DEF AddRow, NoRestores, IInv, ControlOK
<1>6. ASSUME NEW t \in Thread,
             Accept(t) \/ Acquire(t) \/ Load(t) \/ NotFound(t) \/ Restore(t) \/ Reload(t) \/ Fail(t)
      PROVE  UNCHANGED db
  BY <1>6 DEF Accept, Acquire, Load, NotFound, Restore, Reload, Fail
<1>7. CASE UNCHANGED vars
  BY <1>7 DEF vars
<1> QED BY <1>1, <1>2, <1>3, <1>4, <1>5, <1>6, <1>7 DEF Next, Proceed

\* Locked handlers and add_client implement atomic operations on the table.
THEOREM LockedHandlersAreAtomic ==
  ASSUME NoRestores, ~ HasDeletes
  PROVE  Spec => ImplementsAtomicClients
<1>1. IInv /\ CopiesOK /\ [Next]_vars => [Atomic!Next]_db
  BY StepRefines
<1> QED BY <1>1, InitRefines, Invariance, CopiesInvariance, PTL
        DEF Spec, Atomic!Spec, ImplementsAtomicClients
=============================================================================
