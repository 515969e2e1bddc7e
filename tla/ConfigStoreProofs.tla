-------------------------- MODULE ConfigStoreProofs --------------------------
(***************************************************************************)
(* What TLAPS proves of ConfigStore, for every set of threads, requests,   *)
(* values and keys.                                                        *)
(***************************************************************************)
EXTENDS ConfigStore, TLAPS

\* A thread that is about to use the configuration in its hands has one.
HandOK ==
  \A t \in Thread :
    /\ pc[t] # "idle" => req[t] \in Requests
    /\ pc[t] \in {"sign", "store", "rotate"} => hand[t] \in Config
    /\ pc[t] = "snapshot" /\ req[t].kind = "restore_config_backup"
         => hand[t] \in Config

IInv == TypeOK /\ HandOK

-----------------------------------------------------------------------------
\* The defaults are a configuration.
LEMMA DefaultsType == Defaults \in Config
BY DefaultIsAPassword, SMT
   DEF Defaults, Config, Path, AnyValue, IsSetting, Setting

\* A configuration has keys, a broken file has none.
LEMMA ConfigIsNotBroken == Broken \notin Config
<1> SUFFICES ASSUME Broken \in Config PROVE FALSE  OBVIOUS
<1>1. DOMAIN Broken = Path  BY DEF Config
<1>2. DOMAIN Broken = {}  BY DEF Broken
<1>3. "admin_pass" \in Path  BY DEF Path
<1> QED  BY <1>1, <1>2, <1>3

\* Replacing paths by values of theirs gives a configuration.
LEMMA PatchedType ==
  ASSUME NEW c \in Config, NEW p, IsPatch(p)
  PROVE  Patched(c, p) \in Config
<1>1. \A x \in Path : IsSetting(x, Patched(c, p)[x])
  BY DEF Patched, Config, IsPatch
<1>2. \A x \in Path : Patched(c, p)[x] \in AnyValue
  BY <1>1 DEF IsSetting, AnyValue
<1> QED  BY <1>1, <1>2 DEF Patched, Config

LEMMA RestoreRedactedType ==
  ASSUME NEW c \in Config, NEW p, IsPatch(p)
  PROVE  IsPatch(RestoreRedacted(p, c))
BY DEF RestoreRedacted, IsPatch, Config

\* What a handler stores is a configuration.
LEMMA EditedType ==
  ASSUME NEW c \in Config, NEW u \in Requests
  PROVE  Edited(u, c) \in Config
<1>1. IsPatch(u.patch)
  BY RequestsAreWellFormed DEF IsRequest
<1> QED  BY <1>1, PatchedType, RestoreRedactedType DEF Edited

LEMMA RekeyedType ==
  ASSUME NEW c \in Config, NEW s \in Secret
  PROVE  Rekeyed(c, s) \in Config
<1>1. \A x \in Path : IsSetting(x, Rekeyed(c, s)[x])
  BY NamesAreNoSecrets DEF Rekeyed, Config, IsSetting, Path, Setting
<1>2. Rekeyed(c, s) \in [Path -> AnyValue]
  BY DEF Rekeyed, Config, AnyValue, Path
<1> QED  BY <1>1, <1>2 DEF Config

LEMMA ReadingType == ASSUME FilesOK PROVE Reading \in Config
BY DefaultsType DEF FilesOK, Reading

LEMMA SigningKeyType ==
  ASSUME NEW c \in Config PROVE SigningKey(c) \in Key \cup {Unset}
BY NamesAreNoSecrets DEF SigningKey, Config, IsSetting, Path, Setting, Key

-----------------------------------------------------------------------------
\* A thread whose request is answered is idle and holds nothing.
LEMMA AnswerKeeps ==
  ASSUME IInv, NEW t \in Thread, Answer(t)
  PROVE  ThreadsOK' /\ HandOK'
<1>1. ThreadsOK'  BY DEF IInv, TypeOK, ThreadsOK, Answer, Label
<1>2. \A x \in Thread \ {t} :
        /\ pc'[x] = pc[x] /\ req'[x] = req[x] /\ hand'[x] = hand[x]
  BY DEF IInv, TypeOK, ThreadsOK, Answer
<1>3. pc'[t] = "idle"  BY DEF IInv, TypeOK, ThreadsOK, Answer
<1> QED  BY <1>1, <1>2, <1>3 DEF IInv, HandOK

\* A thread moves on, with or without a new configuration in its hands.
LEMMA GoToKeeps ==
  ASSUME IInv, NEW t \in Thread, NEW label, GoTo(t, label),
         pc[t] # "idle",
         label \in Label \ {"idle"},
         \/ \E c \in Config : hand' = [hand EXCEPT ![t] = c]
         \/ /\ UNCHANGED hand
            /\ label \in {"sign", "store", "rotate"} => hand[t] \in Config
            /\ label = "snapshot" =>
                 req[t].kind # "restore_config_backup"
  PROVE  ThreadsOK' /\ HandOK'
<1>1. ThreadsOK'  BY DEF IInv, TypeOK, ThreadsOK, GoTo
<1>2. \A x \in Thread \ {t} :
        /\ pc'[x] = pc[x] /\ req'[x] = req[x] /\ hand'[x] = hand[x]
  BY DEF IInv, TypeOK, ThreadsOK, GoTo
<1>3. pc'[t] = label /\ req'[t] = req[t] /\ req[t] \in Requests
  BY DEF IInv, TypeOK, ThreadsOK, HandOK, GoTo
<1>4. \/ hand'[t] \in Config
      \/ /\ label \in {"sign", "store", "rotate"} => hand'[t] \in Config
         /\ label = "snapshot" => req'[t].kind # "restore_config_backup"
  BY <1>3 DEF IInv, TypeOK, ThreadsOK
<1> QED  BY <1>1, <1>2, <1>3, <1>4 DEF IInv, HandOK

USE DEF Label

-----------------------------------------------------------------------------
LEMMA InitInv == Init => IInv
<1> SUFFICES ASSUME Init PROVE IInv  OBVIOUS
<1>1. FilesOK
  BY InitialIsAConfig, KeepAssumption DEF Init, FilesOK, Key
<1>2. ThreadsOK  BY DEF Init, ThreadsOK
<1>3. HandOK  BY DEF Init, HandOK
<1> QED  BY <1>1, <1>2, <1>3 DEF IInv, TypeOK

LEMMA AcceptInv == ASSUME IInv, NEW t \in Thread, Accept(t) PROVE IInv'
<1>1. FilesOK'  BY DEF IInv, TypeOK, FilesOK, Accept
<1>2. ThreadsOK'
  BY DEF IInv, TypeOK, FilesOK, ThreadsOK, Accept
<1>3. HandOK'
  <2>1. \A x \in Thread \ {t} :
          /\ pc'[x] = pc[x] /\ req'[x] = req[x] /\ hand'[x] = hand[x]
    BY DEF IInv, TypeOK, ThreadsOK, Accept
  <2>2. pc'[t] = "admit" /\ req'[t] \in Requests
    BY DEF IInv, TypeOK, ThreadsOK, Accept
  <2> QED  BY <2>1, <2>2 DEF IInv, HandOK
<1> QED  BY <1>1, <1>2, <1>3 DEF IInv, TypeOK

LEMMA AdmitInv == ASSUME IInv, NEW t \in Thread, Admit(t) PROVE IInv'
<1>1. FilesOK'  BY DEF IInv, TypeOK, FilesOK, Admit
<1>2. CASE Answer(t)  BY <1>1, <1>2, AnswerKeeps DEF IInv, TypeOK
<1>3. CASE GoTo(t, "login") /\ UNCHANGED hand
  BY <1>1, <1>3, GoToKeeps DEF IInv, TypeOK, Admit
<1>4. CASE GoTo(t, "identify") /\ UNCHANGED hand
  BY <1>1, <1>4, GoToKeeps DEF IInv, TypeOK, Admit
<1> QED  BY <1>2, <1>3, <1>4 DEF Admit

LEMMA IdentifyInv == ASSUME IInv, NEW t \in Thread, Identify(t) PROVE IInv'
<1>1. FilesOK'  BY DEF IInv, TypeOK, FilesOK, Identify
<1>2. Reading \in Config  BY ReadingType DEF IInv, TypeOK
<1>3. CASE hand' = [hand EXCEPT ![t] = Reading] /\ GoTo(t, "sign")
  BY <1>1, <1>2, <1>3, GoToKeeps DEF IInv, TypeOK, Identify
<1>4. CASE GoTo(t, "handle") /\ UNCHANGED hand
  BY <1>1, <1>4, GoToKeeps DEF IInv, TypeOK, Identify
<1>5. CASE Answer(t)  BY <1>1, <1>5, AnswerKeeps DEF IInv, TypeOK
<1> QED  BY <1>3, <1>4, <1>5 DEF Identify

LEMMA LoginInv == ASSUME IInv, NEW t \in Thread, Login(t) PROVE IInv'
<1>1. FilesOK'  BY DEF IInv, TypeOK, FilesOK, Login
<1>2. Reading \in Config  BY ReadingType DEF IInv, TypeOK
<1>3. CASE hand' = [hand EXCEPT ![t] = Reading] /\ GoTo(t, "sign")
  BY <1>1, <1>2, <1>3, GoToKeeps DEF IInv, TypeOK, Login
<1>4. CASE Answer(t)  BY <1>1, <1>4, AnswerKeeps DEF IInv, TypeOK
<1> QED  BY <1>3, <1>4 DEF Login

LEMMA SignInv == ASSUME IInv, NEW t \in Thread, Sign(t) PROVE IInv'
<1>1. hand[t] \in Config  BY DEF IInv, HandOK, Sign
<1>2. FilesOK'
  <2>1. CASE SigningKey(hand[t]) # Unset
    BY <1>1, <2>1, SigningKeyType DEF IInv, TypeOK, FilesOK, Sign
  <2>2. CASE SigningKey(hand[t]) = Unset
    BY <1>1, <2>2, RekeyedType
       DEF IInv, TypeOK, FilesOK, Sign, Write, Key
  <2> QED  BY <2>1, <2>2
<1> QED  BY <1>2, AnswerKeeps DEF IInv, TypeOK, Sign

LEMMA HandleInv == ASSUME IInv, NEW t \in Thread, Handle(t) PROVE IInv'
<1>1. FilesOK'  BY DEF IInv, TypeOK, FilesOK, Handle
<1>2. CASE Answer(t)  BY <1>1, <1>2, AnswerKeeps DEF IInv, TypeOK
<1>3. CASE GoTo(t, "snapshot") /\ UNCHANGED hand
  BY <1>1, <1>3, GoToKeeps DEF IInv, TypeOK, Handle
<1>4. CASE GoTo(t, "load") /\ UNCHANGED hand
  BY <1>1, <1>4, GoToKeeps DEF IInv, TypeOK, Handle
<1> QED  BY <1>2, <1>3, <1>4 DEF Handle

LEMMA RestoreInv == ASSUME IInv, NEW t \in Thread, Restore(t) PROVE IInv'
<1>1. FilesOK'  BY DEF IInv, TypeOK, FilesOK, Restore
<1>2. CASE Answer(t)  BY <1>1, <1>2, AnswerKeeps DEF IInv, TypeOK
<1>3. ASSUME NEW k \in DOMAIN snaps, snaps[k] # Broken,
             hand' = [hand EXCEPT ![t] = snaps[k]], GoTo(t, "snapshot")
      PROVE  IInv'
  <2>1. snaps[k] \in Config  BY <1>3 DEF IInv, TypeOK, FilesOK
  <2> QED  BY <1>1, <1>3, <2>1, GoToKeeps DEF IInv, TypeOK, Restore
<1> QED  BY <1>2, <1>3 DEF Restore

LEMMA SnapshotInv == ASSUME IInv, NEW t \in Thread, Snapshot(t) PROVE IInv'
<1>1. FilesOK'
  <2>1. CASE snaps' = Kept(Append(snaps, file))
    BY <2>1, KeepAssumption DEF IInv, TypeOK, FilesOK, Snapshot, Kept
  <2>2. CASE UNCHANGED snaps
    BY <2>2 DEF IInv, TypeOK, FilesOK, Snapshot
  <2> QED  BY <2>1, <2>2 DEF Snapshot
<1>2. CASE Answer(t)  BY <1>1, <1>2, AnswerKeeps DEF IInv, TypeOK
<1>3. CASE GoTo(t, AfterSnapshot(req[t])) /\ UNCHANGED hand
  <2>1. CASE req[t].kind = "create_config_backup"
    <3>1. GoTo(t, "audit")  BY <1>3, <2>1 DEF AfterSnapshot
    <3> QED  BY <1>1, <1>3, <3>1, GoToKeeps DEF IInv, TypeOK, Snapshot
  <2>2. CASE req[t].kind = "restore_config_backup"
    <3>1. hand[t] \in Config  BY <2>2 DEF IInv, HandOK, Snapshot
    <3>2. GoTo(t, "store")  BY <1>3, <2>2 DEF AfterSnapshot
    <3> QED
      BY <1>1, <1>3, <3>1, <3>2, GoToKeeps DEF IInv, TypeOK, Snapshot
  <2>3. CASE req[t].kind \notin Reverting
    <3>1. GoTo(t, "load")  BY <1>3, <2>3 DEF AfterSnapshot, Reverting
    <3> QED  BY <1>1, <1>3, <3>1, GoToKeeps DEF IInv, TypeOK, Snapshot
  <2> QED  BY <2>1, <2>2, <2>3 DEF Reverting
<1> QED  BY <1>2, <1>3 DEF Snapshot

LEMMA LoadInv == ASSUME IInv, NEW t \in Thread, Load(t) PROVE IInv'
<1>1. FilesOK'  BY DEF IInv, TypeOK, FilesOK, Load
<1>2. Reading \in Config  BY ReadingType DEF IInv, TypeOK
<1>3. CASE Answer(t)  BY <1>1, <1>3, AnswerKeeps DEF IInv, TypeOK
<1>4. CASE GoTo(t, "audit") /\ UNCHANGED hand
  BY <1>1, <1>4, GoToKeeps DEF IInv, TypeOK, Load
<1>5. CASE hand' = [hand EXCEPT ![t] = Reading] /\ GoTo(t, "store")
  BY <1>1, <1>2, <1>5, GoToKeeps DEF IInv, TypeOK, Load
<1> QED  BY <1>3, <1>4, <1>5 DEF Load

LEMMA StoreInv == ASSUME IInv, NEW t \in Thread, Store(t) PROVE IInv'
<1>1. hand[t] \in Config /\ req[t] \in Requests
  BY DEF IInv, HandOK, Store
<1>2. Edited(req[t], hand[t]) \in Config  BY <1>1, EditedType
<1>3. FilesOK'  BY <1>2 DEF IInv, TypeOK, FilesOK, Store
<1>4. CASE Answer(t)  BY <1>3, <1>4, AnswerKeeps DEF IInv, TypeOK
<1>5. CASE GoTo(t, "audit") /\ UNCHANGED hand
  BY <1>3, <1>5, GoToKeeps DEF IInv, TypeOK, Store
<1>6. CASE /\ file' = Edited(req[t], hand[t])
           /\ hand' = [hand EXCEPT ![t] = file']
           /\ GoTo(t, IF req[t].kind = "change_password" THEN "rotate"
                                                         ELSE "audit")
  <2>1. \E c \in Config : hand' = [hand EXCEPT ![t] = c]  BY <1>2, <1>6
  <2>2. CASE req[t].kind = "change_password"
    BY <1>3, <1>6, <2>1, <2>2, GoToKeeps DEF IInv, TypeOK, Store
  <2>3. CASE req[t].kind # "change_password"
    BY <1>3, <1>6, <2>1, <2>3, GoToKeeps DEF IInv, TypeOK, Store
  <2> QED  BY <2>2, <2>3
<1> QED  BY <1>4, <1>5, <1>6 DEF Store

LEMMA RotateInv == ASSUME IInv, NEW t \in Thread, Rotate(t) PROVE IInv'
<1>1. hand[t] \in Config  BY DEF IInv, HandOK, Rotate
<1>2. FilesOK'
  BY <1>1, RekeyedType DEF IInv, TypeOK, FilesOK, Rotate, Write
<1> QED  BY <1>2, GoToKeeps DEF IInv, TypeOK, Rotate

LEMMA BreakInv == ASSUME IInv, Break PROVE IInv'
BY DEF IInv, TypeOK, FilesOK, ThreadsOK, HandOK, Break

LEMMA StepInv == IInv /\ [Next]_vars => IInv'
<1> SUFFICES ASSUME IInv, [Next]_vars PROVE IInv'  OBVIOUS
<1>1. CASE UNCHANGED vars
  BY <1>1 DEF IInv, TypeOK, FilesOK, ThreadsOK, HandOK, vars
<1>2. CASE Break  BY <1>2, BreakInv
<1>3. ASSUME NEW t \in Thread, Accept(t) \/ Proceed(t) PROVE IInv'
  BY <1>3, AcceptInv, AdmitInv, IdentifyInv, LoginInv, SignInv, HandleInv,
     RestoreInv, SnapshotInv, LoadInv, StoreInv, RotateInv
     DEF Proceed
<1> QED  BY <1>1, <1>2, <1>3 DEF Next

THEOREM Invariance == Spec => []IInv
BY InitInv, StepInv, PTL DEF Spec

\* server.json, the snapshots, the keys and the copies in the threads' hands
\* keep their form, whatever overlaps, breaks or fails.
THEOREM TypeCorrect == Spec => []TypeOK
<1>1. IInv => TypeOK  BY DEF IInv
<1> QED  BY <1>1, Invariance, PTL

-----------------------------------------------------------------------------
(* Where a request is in its handler, and what it has found out by then.     *)

KindOK ==
  \A t \in Thread :
    /\ pc[t] = "snapshot" => req[t].kind \in Snapshotting \cup Reverting
    /\ pc[t] = "load" => req[t].kind \in Snapshotting \cup Quiet
    /\ pc[t] = "store" =>
         \/ req[t].kind = "restore_config_backup"
         \/ /\ req[t].kind \in Snapshotting \cup Quiet
            /\ ~Refuses(req[t], hand[t]) /\ ~NothingToStore(req[t], hand[t])

\* The others stay where they are, and t goes to a place that KindOK allows.
LEMMA KindMoves ==
  ASSUME KindOK, NEW t \in Thread,
         \A x \in Thread \ {t} :
           pc'[x] = pc[x] /\ req'[x] = req[x] /\ hand'[x] = hand[x],
         /\ pc'[t] = "snapshot" => req'[t].kind \in Snapshotting \cup Reverting
         /\ pc'[t] = "load" => req'[t].kind \in Snapshotting \cup Quiet
         /\ pc'[t] = "store" =>
              \/ req'[t].kind = "restore_config_backup"
              \/ /\ req'[t].kind \in Snapshotting \cup Quiet
                 /\ ~Refuses(req'[t], hand'[t])
                 /\ ~NothingToStore(req'[t], hand'[t])
  PROVE  KindOK'
BY DEF KindOK, Refuses, NothingToStore, Patched

LEMMA KindStep ==
  ASSUME IInv, KindOK, [Next]_vars
  PROVE  KindOK'
<1>1. CASE UNCHANGED vars
  BY <1>1 DEF KindOK, vars, Refuses, NothingToStore, Patched
<1>2. CASE Break
  BY <1>2 DEF KindOK, Break, Refuses, NothingToStore, Patched
<1> SUFFICES ASSUME NEW t \in Thread, Accept(t) \/ Proceed(t)
             PROVE  KindOK'
  BY <1>1, <1>2 DEF Next
<1>3. DOMAIN pc = Thread /\ DOMAIN req = Thread /\ DOMAIN hand = Thread
  BY DEF IInv, TypeOK, ThreadsOK
<1>4. CASE Accept(t)  BY <1>3, <1>4, KindMoves DEF Accept
<1>5. CASE Admit(t)  BY <1>3, <1>5, KindMoves DEF Admit, Answer, GoTo
<1>6. CASE Identify(t) \/ Login(t)
  BY <1>3, <1>6, KindMoves DEF Identify, Login, Answer, GoTo
<1>7. CASE Sign(t)  BY <1>3, <1>7, KindMoves DEF Sign, Answer
<1>8. CASE Handle(t)
  BY <1>3, <1>8, KindMoves DEF Handle, Answer, GoTo, Reverting
<1>9. CASE Restore(t)
  BY <1>3, <1>9, KindMoves DEF Restore, Answer, GoTo, Reverting
<1>10. CASE Snapshot(t)
  <2>1. req[t].kind \in Snapshotting \cup Reverting
    BY <1>10 DEF Snapshot, KindOK
  <2> QED
    BY <1>3, <1>10, <2>1, KindMoves
       DEF Snapshot, Answer, GoTo, AfterSnapshot, Reverting
<1>11. CASE Load(t)
  <2>1. req[t].kind \in Snapshotting \cup Quiet  BY <1>11 DEF Load, KindOK
  <2>2. CASE Answer(t)  BY <1>3, <2>2, KindMoves DEF Answer
  <2>3. CASE GoTo(t, "audit") /\ UNCHANGED hand
    BY <1>3, <2>3, KindMoves DEF GoTo
  <2>4. CASE /\ ~Refuses(req[t], Reading) /\ ~NothingToStore(req[t], Reading)
             /\ hand' = [hand EXCEPT ![t] = Reading] /\ GoTo(t, "store")
    <3>1. /\ req'[t] = req[t] /\ hand'[t] = Reading /\ pc'[t] = "store"
      BY <1>3, <2>4 DEF GoTo
    <3>2. \A x \in Thread \ {t} :
            pc'[x] = pc[x] /\ req'[x] = req[x] /\ hand'[x] = hand[x]
      BY <1>3, <2>4 DEF GoTo
    <3> QED  BY <2>1, <2>4, <3>1, <3>2, KindMoves
  <2> QED  BY <1>11, <2>2, <2>3, <2>4 DEF Load
<1>12. CASE Store(t) \/ Rotate(t)
  BY <1>3, <1>12, KindMoves DEF Store, Rotate, Answer, GoTo
<1> QED
  BY <1>4, <1>5, <1>6, <1>7, <1>8, <1>9, <1>10, <1>11, <1>12 DEF Proceed

-----------------------------------------------------------------------------
(* The file may be broken by hand while no request is under way.             *)

BrokenQuietly == BreakWhen # "any"

\* While the file is broken, the requests past the guard are allowed ones.  The
\* only ones on their way to a write are the restore of a snapshot, and logins
\* and bearer tokens, with the defaults in their hands.
BrokenInv ==
  file = Broken =>
    \A t \in Thread :
      /\ pc[t] \notin {"load", "rotate"}
      /\ pc[t] \in {"identify", "handle"} => req[t].kind \in BrokenAllowed
      /\ pc[t] = "snapshot" => req[t].kind \in Reverting
      /\ pc[t] = "store" => req[t].kind = "restore_config_backup"
      /\ pc[t] = "sign" => hand[t] = Defaults

\* A thread moves while the file stays as it is.
LEMMA BrokenMoves ==
  ASSUME IInv, BrokenInv, NEW t \in Thread,
         UNCHANGED file,
         \A x \in Thread \ {t} :
           pc'[x] = pc[x] /\ req'[x] = req[x] /\ hand'[x] = hand[x],
         file = Broken =>
           /\ pc'[t] \notin {"load", "rotate"}
           /\ pc'[t] \in {"identify", "handle"} => req'[t].kind \in BrokenAllowed
           /\ pc'[t] = "snapshot" => req'[t].kind \in Reverting
           /\ pc'[t] = "store" => req'[t].kind = "restore_config_backup"
           /\ pc'[t] = "sign" => hand'[t] = Defaults
  PROVE  BrokenInv'
BY DEF BrokenInv

LEMMA BrokenStep ==
  ASSUME BrokenQuietly, IInv, BrokenInv, [Next]_vars
  PROVE  BrokenInv'
<1>1. CASE UNCHANGED vars  BY <1>1 DEF BrokenInv, vars
<1>2. CASE Break
  BY <1>2, FaultAssumption DEF BrokenQuietly, BrokenInv, Break
<1> SUFFICES ASSUME NEW t \in Thread, Accept(t) \/ Proceed(t)
             PROVE  BrokenInv'
  BY <1>1, <1>2 DEF Next
<1>3. DOMAIN pc = Thread /\ DOMAIN req = Thread /\ DOMAIN hand = Thread
  BY DEF IInv, TypeOK, ThreadsOK
<1>4. file = Broken => Reading = Defaults  BY DEF Reading
<1>5. CASE Accept(t)  BY <1>3, <1>5, BrokenMoves DEF Accept
<1>6. CASE Admit(t)
  BY <1>3, <1>6, BrokenMoves DEF Admit, Answer, GoTo, Refused
<1>7. CASE Identify(t)
  BY <1>3, <1>4, <1>7, BrokenMoves DEF Identify, Answer, GoTo, BrokenInv
<1>8. CASE Login(t)
  BY <1>3, <1>4, <1>8, BrokenMoves DEF Login, Answer, GoTo, BrokenInv
<1>9. CASE Handle(t)
  BY <1>3, <1>9, BrokenMoves
     DEF Handle, Answer, GoTo, BrokenInv, BrokenAllowed, Snapshotting, Quiet,
         Reverting, Checked
<1>10. CASE Restore(t)
  BY <1>3, <1>10, BrokenMoves DEF Restore, Answer, GoTo, Reverting
<1>11. CASE Snapshot(t)
  BY <1>3, <1>11, BrokenMoves
     DEF Snapshot, Answer, GoTo, AfterSnapshot, BrokenInv, Reverting
<1>12. CASE Load(t)
  BY <1>3, <1>12, BrokenMoves DEF Load, Answer, GoTo, BrokenInv
<1>13. CASE Sign(t) \/ Store(t) \/ Rotate(t)
  <2>1. CASE UNCHANGED file
    BY <1>3, <1>13, <2>1, BrokenMoves
       DEF Sign, Store, Rotate, Answer, GoTo, BrokenInv
  <2>2. CASE file' # file
    <3>1. file' \in Config
      BY <1>13, <2>2, EditedType, RekeyedType
         DEF IInv, HandOK, Sign, Store, Rotate, Write
    <3> QED  BY <3>1, ConfigIsNotBroken DEF BrokenInv, Broken
  <2> QED  BY <2>1, <2>2
<1> QED
  BY <1>5, <1>6, <1>7, <1>8, <1>9, <1>10, <1>11, <1>12, <1>13 DEF Proceed

LEMMA BrokenInit == Init => BrokenInv
BY InitialIsAConfig, ConfigIsNotBroken DEF Init, BrokenInv, Broken

THEOREM BrokenInvariance ==
  ASSUME BrokenQuietly PROVE Spec => [](IInv /\ KindOK /\ BrokenInv)
<1>1. Init => IInv /\ KindOK /\ BrokenInv
  BY InitInv, BrokenInit DEF Init, KindOK
<1>2. IInv /\ KindOK /\ BrokenInv /\ [Next]_vars
        => (IInv /\ KindOK /\ BrokenInv)'
  BY StepInv, KindStep, BrokenStep
<1> QED  BY <1>1, <1>2, PTL DEF Spec

\* A restored snapshot is stored as it is.
LEMMA RestoreStores ==
  ASSUME NEW u \in Requests, u.kind = "restore_config_backup",
         NEW c \in Config
  PROVE  Edited(u, c) = c
<1>1. DOMAIN u.patch = {}
  BY RequestsAreWellFormed DEF IsRequest, Reverting
<1> QED  BY <1>1 DEF Edited, Patched, Config

\* A step that makes a broken file readable again restores or signs.
LEMMA OnlyRestoresAndKeysRepair ==
  ASSUME IInv, BrokenInv, [Next]_vars, file = Broken, file' # Broken
  PROVE  \/ \E t \in Thread : /\ pc[t] = "store" /\ file' = hand[t]
                              /\ req[t].kind = "restore_config_backup"
         \/ \E s \in Secret \ used : file' = Rekeyed(Defaults, s)
<1>1. PICK t \in Thread : Sign(t) \/ Store(t) \/ Rotate(t)
  BY DEF Next, vars, Proceed, Break, Accept, Admit, Identify, Login, Handle,
         Restore, Snapshot, Load
<1>2. CASE Sign(t)
  <2>1. hand[t] = Defaults  BY <1>2 DEF Sign, BrokenInv
  <2> QED  BY <1>2, <2>1 DEF Sign, Write
<1>3. CASE Store(t)
  <2>1. req[t].kind = "restore_config_backup"  BY <1>3 DEF Store, BrokenInv
  <2>2. req[t] \in Requests /\ hand[t] \in Config
    BY <1>3 DEF Store, IInv, HandOK
  <2>3. file' = Edited(req[t], hand[t])  BY <1>3 DEF Store
  <2> QED  BY <1>3, <2>1, <2>2, <2>3, RestoreStores DEF Store
<1>4. CASE Rotate(t)  BY <1>4 DEF Rotate, BrokenInv
<1> QED  BY <1>1, <1>2, <1>3, <1>4

\* A server.json that was broken by hand between two requests is never edited,
\* however its callers authenticate and whatever overlaps or fails: what
\* replaces it is a snapshot that was restored, or the defaults that a login or
\* a bearer token completed with a new signing key.
THEOREM BrokenFilesAreNotEdited ==
  ASSUME BrokenQuietly
  PROVE  Spec => BrokenFileIsNotEdited
<1>1. IInv /\ BrokenInv /\ [Next]_vars =>
        [file = Broken /\ file' # Broken =>
           \/ \E t \in Thread : /\ pc[t] = "store" /\ file' = hand[t]
                                /\ req[t].kind = "restore_config_backup"
           \/ \E s \in Secret \ used : file' = Rekeyed(Defaults, s)]_vars
  BY OnlyRestoresAndKeysRepair
<1> QED
  BY <1>1, BrokenInvariance, PTL DEF Spec, BrokenFileIsNotEdited

-----------------------------------------------------------------------------
(* The refinement of ConfigCopies.                                           *)

WorkMap == [t \in Thread |-> WorkOf(t)]
SavedMap == [t \in Thread |-> SavedOf(t)]

\* The definitions the two modules share say the same of both.
LEMMA SameContents ==
  /\ Copies!Config = Config /\ Copies!Broken = Broken
  /\ Copies!Defaults = Defaults /\ Copies!NoWork = NoHand
  /\ Copies!Snapshotting = Snapshotting /\ Copies!Quiet = Quiet
BY DEF Copies!Config, Config, Copies!Path, Path, Copies!AnyValue, AnyValue,
   Copies!IsSetting, IsSetting, Copies!Setting, Setting, Copies!Name, Name,
   Copies!Broken, Broken, Copies!Defaults, Defaults, Copies!NoWork, NoHand,
   Copies!Snapshotting, Snapshotting, Copies!Quiet, Quiet

LEMMA SameEdits ==
  ASSUME NEW u, NEW c, NEW s
  PROVE  /\ Copies!Edited(u, c) = Edited(u, c)
         /\ Copies!Refuses(u, c) <=> Refuses(u, c)
         /\ Copies!NothingToStore(u, c) <=> NothingToStore(u, c)
         /\ Copies!Rekeyed(c, s) = Rekeyed(c, s)
BY Zenon DEF Edited, Copies!Edited, Patched, Copies!Patched,
   RestoreRedacted, Copies!RestoreRedacted, Path, Copies!Path,
   Setting, Copies!Setting, Name, Copies!Name, Refuses, Copies!Refuses,
   NothingToStore, Copies!NothingToStore, Rekeyed, Copies!Rekeyed

\* Appending to the snapshots is what ConfigCopies says of it.
LEMMA SnapshotsAreKept ==
  ASSUME IInv, snaps' = Kept(Append(snaps, file))
  PROVE  Copies!Snapped
<1>1. snaps \in Seq(Config \cup {Broken}) /\ Len(snaps) <= Keep
  BY DEF IInv, TypeOK, FilesOK
<1>2. CASE Len(Append(snaps, file)) > Keep
  <2>1. snaps' = Tail(Append(snaps, file))  BY <1>2 DEF Kept
  <2>2. Len(snaps') = Len(snaps)  BY <1>1, <2>1
  <2>3. Len(snaps) = Keep /\ Keep \in Nat \ {0}
    BY <1>1, <1>2, KeepAssumption
  <2>4. snaps'[Len(snaps)] = Append(snaps, file)[Len(snaps) + 1]
    BY <1>1, <2>1, <2>3
  <2>5. \A k \in 1..(Len(snaps') - 1) : snaps'[k] = snaps[k + 1]
    BY <1>1, <2>1, <2>2, <2>3
  <2> QED  BY <1>1, <2>2, <2>3, <2>4, <2>5 DEF Copies!Snapped
<1>3. CASE ~(Len(Append(snaps, file)) > Keep)
  <2>1. snaps' = Append(snaps, file)  BY <1>3 DEF Kept
  <2> QED  BY <1>1, <1>3, <2>1, KeepAssumption DEF Copies!Snapped
<1> QED  BY <1>2, <1>3

\* Only what t is doing changes when t takes a step.
LEMMA MapMoves ==
  ASSUME NEW t \in Thread,
         \A x \in Thread \ {t} :
           pc'[x] = pc[x] /\ req'[x] = req[x] /\ hand'[x] = hand[x]
  PROVE  /\ WorkMap' = [WorkMap EXCEPT ![t] = WorkOf(t)']
         /\ SavedMap' = [SavedMap EXCEPT ![t] = SavedOf(t)']
<1>1. \A x \in Thread \ {t} : WorkOf(x)' = WorkOf(x) /\ SavedOf(x)' = SavedOf(x)
  BY DEF WorkOf, Working, Purpose, SavedOf
<1> QED  BY <1>1 DEF WorkMap, SavedMap

\* t neither has a copy nor a snapshot, before and after.
LEMMA IdleStutters ==
  ASSUME NEW t \in Thread,
         \A x \in Thread \ {t} :
           pc'[x] = pc[x] /\ req'[x] = req[x] /\ hand'[x] = hand[x],
         ~Working(t), ~Working(t)', ~SavedOf(t), ~SavedOf(t)',
         UNCHANGED <<file, snaps, used>>
  PROVE  UNCHANGED <<file, snaps, used, WorkMap, SavedMap>>
<1>1. WorkOf(t) = NoHand /\ WorkOf(t)' = NoHand  BY DEF WorkOf, NoHand
<1>2. SavedOf(t) = FALSE /\ SavedOf(t)' = FALSE  BY DEF SavedOf
<1>3. WorkMap[t] = NoHand /\ SavedMap[t] = FALSE
  BY <1>1, <1>2 DEF WorkMap, SavedMap
<1> QED  BY <1>1, <1>2, <1>3, MapMoves DEF WorkMap, SavedMap

\* A thread that has nothing in hand any more is through.
LEMMA StopsWorking ==
  ASSUME NEW t \in Thread,
         \A x \in Thread \ {t} :
           pc'[x] = pc[x] /\ req'[x] = req[x] /\ hand'[x] = hand[x],
         ~Working(t)', ~SavedOf(t)'
  PROVE  /\ WorkMap' = [WorkMap EXCEPT ![t] = NoHand]
         /\ SavedMap' = [SavedMap EXCEPT ![t] = FALSE]
<1>1. WorkOf(t)' = NoHand  BY DEF WorkOf, NoHand
<1>2. SavedOf(t)' = FALSE  BY DEF SavedOf
<1> QED  BY <1>1, <1>2, MapMoves

\* What each step of t is a step of, in terms of the mapped variables.
LEMMA SignRefines ==
  ASSUME IInv, NEW t \in Thread, Sign(t)
  PROVE  Copies!GiveUp(t) \/ Copies!NewKey(t)
<1>1. DOMAIN pc = Thread /\ DOMAIN req = Thread /\ DOMAIN hand = Thread
  BY DEF IInv, TypeOK, ThreadsOK
<1>2. \A x \in Thread \ {t} :
        pc'[x] = pc[x] /\ req'[x] = req[x] /\ hand'[x] = hand[x]
  BY <1>1 DEF Sign, Answer
<1>3. pc'[t] = "idle"  BY <1>1 DEF Sign, Answer
<1>4. Copies!Done(t)
  BY <1>2, <1>3, StopsWorking, SameContents
     DEF Copies!Done, WorkMap, SavedMap, Working, SavedOf
<1>5. CASE SigningKey(hand[t]) # Unset
  BY <1>4, <1>5 DEF Sign, Copies!GiveUp
<1>6. CASE SigningKey(hand[t]) = Unset
  <2>1. WorkMap[t] = [purpose |-> "sign", copy |-> hand[t]]
    BY DEF Sign, WorkMap, WorkOf, Working, Purpose
  <2>2. Copies!Has(t, "sign") /\ WorkMap[t].copy = hand[t]
    BY <2>1, SameContents DEF Copies!Has, WorkMap, NoHand
  <2>3. PICK s \in Secret \ used :
          /\ used' = used \cup {s}
          /\ file' = Rekeyed(hand[t], s) \/ (MayFail /\ UNCHANGED file)
    BY <1>6 DEF Sign, Write
  <2>4. Copies!Rekeyed(hand[t], s) = Rekeyed(hand[t], s)  BY SameEdits
  <2>5. UNCHANGED snaps  BY DEF Sign
  <2> QED
    BY <1>4, <1>6, <2>2, <2>3, <2>4, <2>5
       DEF Copies!NewKey, WorkMap, SigningKey
<1> QED  BY <1>5, <1>6

LEMMA RotateRefines ==
  ASSUME IInv, NEW t \in Thread, Rotate(t)
  PROVE  Copies!NewKey(t)
<1>1. DOMAIN pc = Thread  BY DEF IInv, TypeOK, ThreadsOK
<1>2. \A x \in Thread \ {t} :
        pc'[x] = pc[x] /\ req'[x] = req[x] /\ hand'[x] = hand[x]
  BY <1>1 DEF Rotate, GoTo
<1>3. pc'[t] = "audit"  BY <1>1 DEF Rotate, GoTo
<1>4. Copies!Done(t)
  BY <1>2, <1>3, StopsWorking, SameContents
     DEF Copies!Done, WorkMap, SavedMap, Working, SavedOf
<1>5. WorkMap[t] = [purpose |-> "rekey", copy |-> hand[t]]
  BY DEF Rotate, WorkMap, WorkOf, Working, Purpose
<1>6. Copies!Has(t, "rekey") /\ WorkMap[t].copy = hand[t]
  BY <1>5, SameContents DEF Copies!Has, WorkMap, NoHand
<1>7. PICK s \in Secret \ used :
        /\ used' = used \cup {s}
        /\ file' = Rekeyed(hand[t], s) \/ (MayFail /\ UNCHANGED file)
  BY DEF Rotate, Write
<1>8. Copies!Rekeyed(hand[t], s) = Rekeyed(hand[t], s)  BY SameEdits
<1> QED
  BY <1>4, <1>6, <1>7, <1>8 DEF Rotate, Copies!NewKey, WorkMap

LEMMA IdentifyRefines ==
  ASSUME IInv, NEW t \in Thread, Identify(t) \/ Login(t)
  PROVE  \/ Copies!TakeToSign(t)
         \/ UNCHANGED <<file, snaps, used, WorkMap, SavedMap>>
<1>1. DOMAIN pc = Thread /\ DOMAIN req = Thread /\ DOMAIN hand = Thread
  BY DEF IInv, TypeOK, ThreadsOK
<1>2. \A x \in Thread \ {t} :
        pc'[x] = pc[x] /\ req'[x] = req[x] /\ hand'[x] = hand[x]
  BY <1>1 DEF Identify, Login, Answer, GoTo
<1>3. ~Working(t) /\ ~SavedOf(t) /\ UNCHANGED <<file, snaps, used>>
  BY DEF Identify, Login, Working, SavedOf
<1>4. CASE pc'[t] \in {"idle", "handle"}
  BY <1>2, <1>3, <1>4, IdleStutters DEF Working, SavedOf
<1>5. CASE hand' = [hand EXCEPT ![t] = Reading] /\ GoTo(t, "sign")
  <2>1. pc'[t] = "sign" /\ hand'[t] = Reading  BY <1>1, <1>5 DEF GoTo
  <2>2. WorkOf(t)' = [purpose |-> "sign", copy |-> Reading]
    BY <2>1 DEF WorkOf, Working, Purpose
  <2>3. SavedOf(t) = FALSE /\ SavedOf(t)' = FALSE
    BY <1>3, <2>1 DEF SavedOf
  <2>4. WorkMap[t] = NoHand /\ SavedMap[t] = FALSE
    BY <1>3, <2>3 DEF WorkMap, SavedMap, WorkOf
  <2>5. WorkMap' = [WorkMap EXCEPT ![t] = [purpose |-> "sign", copy |-> Reading]]
    BY <1>2, <2>2, MapMoves
  <2>6. UNCHANGED SavedMap  BY <1>2, <2>3, <2>4, MapMoves DEF SavedMap
  <2> QED
    BY <1>3, <2>4, <2>5, <2>6, SameContents
       DEF Copies!TakeToSign, Copies!Copy, WorkMap, SavedMap, Reading
<1> QED
  BY <1>1, <1>4, <1>5 DEF Identify, Login, Answer, GoTo

LEMMA RestoreRefines ==
  ASSUME IInv, NEW t \in Thread, Restore(t)
  PROVE  \/ Copies!Pick(t)
         \/ UNCHANGED <<file, snaps, used, WorkMap, SavedMap>>
<1>1. DOMAIN pc = Thread /\ DOMAIN req = Thread /\ DOMAIN hand = Thread
  BY DEF IInv, TypeOK, ThreadsOK
<1>2. \A x \in Thread \ {t} :
        pc'[x] = pc[x] /\ req'[x] = req[x] /\ hand'[x] = hand[x]
  BY <1>1 DEF Restore, Answer, GoTo
<1>3. ~Working(t) /\ ~SavedOf(t) /\ UNCHANGED <<file, snaps, used>>
  BY DEF Restore, Working, SavedOf
<1>4. CASE Answer(t)
  <2>1. pc'[t] = "idle"  BY <1>1, <1>4 DEF Answer
  <2> QED  BY <1>2, <1>3, <2>1, IdleStutters DEF Working, SavedOf
<1>5. ASSUME NEW k \in DOMAIN snaps, snaps[k] # Broken,
             hand' = [hand EXCEPT ![t] = snaps[k]], GoTo(t, "snapshot")
      PROVE  Copies!Pick(t)
  <2>1. pc'[t] = "snapshot" /\ hand'[t] = snaps[k] /\ req'[t] = req[t]
    BY <1>1, <1>5 DEF GoTo
  <2>2. WorkOf(t)' = [purpose |-> "revert", copy |-> snaps[k]]
    BY <2>1 DEF Restore, WorkOf, Working, Purpose
  <2>3. SavedOf(t) = FALSE /\ SavedOf(t)' = FALSE
    BY <1>3, <2>1 DEF SavedOf
  <2>4. WorkMap[t] = NoHand /\ SavedMap[t] = FALSE
    BY <1>3, <2>3 DEF WorkMap, SavedMap, WorkOf
  <2>5. WorkMap' = [WorkMap EXCEPT ![t] = [purpose |-> "revert", copy |-> snaps[k]]]
    BY <1>2, <2>2, MapMoves
  <2>6. UNCHANGED SavedMap  BY <1>2, <2>3, <2>4, MapMoves DEF SavedMap
  <2> QED
    BY <1>3, <1>5, <2>4, <2>5, <2>6, SameContents
       DEF Copies!Pick, Copies!Copy, WorkMap, SavedMap
<1> QED  BY <1>4, <1>5 DEF Restore

LEMMA SnapshotRefines ==
  ASSUME IInv, KindOK, NEW t \in Thread, Snapshot(t)
  PROVE  \/ Copies!Save(t) \/ Copies!Backup
         \/ UNCHANGED <<file, snaps, used, WorkMap, SavedMap>>
<1>1. DOMAIN pc = Thread /\ DOMAIN req = Thread /\ DOMAIN hand = Thread
  BY DEF IInv, TypeOK, ThreadsOK
<1>2. \A x \in Thread \ {t} :
        pc'[x] = pc[x] /\ req'[x] = req[x] /\ hand'[x] = hand[x]
  BY <1>1 DEF Snapshot, Answer, GoTo
<1>3. pc[t] = "snapshot" /\ UNCHANGED <<file, used>>  BY DEF Snapshot
<1>4. Copies!Snapped \/ (MayFail /\ UNCHANGED snaps)
  BY SnapshotsAreKept DEF Snapshot
<1>5. CASE req[t].kind = "create_config_backup"
  <2>1. pc'[t] \in {"audit", "idle"}
    BY <1>1, <1>5 DEF Snapshot, AfterSnapshot, Answer, GoTo
  <2>2. ~Working(t) /\ ~SavedOf(t) /\ ~Working(t)' /\ ~SavedOf(t)'
    BY <1>3, <1>5, <2>1 DEF Working, SavedOf
  <2>3. WorkMap[t] = NoHand /\ SavedMap[t] = FALSE
    BY <2>2 DEF WorkMap, SavedMap, WorkOf, SavedOf
  <2>4. UNCHANGED <<WorkMap, SavedMap>>
    BY <1>2, <2>2, <2>3, StopsWorking DEF WorkMap, SavedMap
  <2> QED
    BY <1>3, <1>4, <2>4 DEF Copies!Backup, WorkMap, SavedMap
<1>6. CASE req[t].kind # "create_config_backup"
  <2>1. /\ pc'[t] \in {"load", "store"} /\ req'[t] = req[t]
        /\ hand'[t] = hand[t]
        /\ pc'[t] = "store" <=> req[t].kind = "restore_config_backup"
    BY <1>1, <1>6 DEF Snapshot, AfterSnapshot, GoTo
  <2>2. req[t].kind \notin Quiet
    BY <1>3 DEF KindOK, Snapshotting, Quiet, Reverting
  <2>3. SavedOf(t)' = TRUE  BY <2>1, <2>2 DEF SavedOf
  <2>4. WorkOf(t)' = WorkOf(t)
    BY <1>3, <2>1 DEF WorkOf, Working, Purpose
  <2>5. UNCHANGED WorkMap  BY <1>2, <2>4, MapMoves DEF WorkMap
  <2>6. SavedMap' = [SavedMap EXCEPT ![t] = TRUE]  BY <1>2, <2>3, MapMoves
  <2> QED
    BY <1>3, <1>4, <2>5, <2>6 DEF Copies!Save, WorkMap, SavedMap
<1> QED  BY <1>5, <1>6

LEMMA LoadRefines ==
  ASSUME IInv, KindOK, BrokenInv, NEW t \in Thread, Load(t)
  PROVE  Copies!GiveUp(t) \/ Copies!Take(t)
<1>1. DOMAIN pc = Thread /\ DOMAIN req = Thread /\ DOMAIN hand = Thread
  BY DEF IInv, TypeOK, ThreadsOK
<1>2. \A x \in Thread \ {t} :
        pc'[x] = pc[x] /\ req'[x] = req[x] /\ hand'[x] = hand[x]
  BY <1>1 DEF Load, Answer, GoTo
<1>3. pc[t] = "load" /\ UNCHANGED <<file, snaps, used>>  BY DEF Load
<1>4. CASE pc'[t] \in {"idle", "audit"}
  <2>1. ~Working(t)' /\ ~SavedOf(t)'  BY <1>4 DEF Working, SavedOf
  <2>2. Copies!Done(t)
    BY <1>2, <2>1, StopsWorking, SameContents
       DEF Copies!Done, WorkMap, SavedMap
  <2> QED  BY <1>3, <2>2 DEF Copies!GiveUp
<1>5. CASE hand' = [hand EXCEPT ![t] = Reading] /\ GoTo(t, "store")
  <2>1. file # Broken /\ Reading = file
    BY <1>3 DEF BrokenInv, Reading
  <2>2. /\ pc'[t] = "store" /\ hand'[t] = file /\ req'[t] = req[t]
    BY <1>1, <1>5, <2>1 DEF GoTo
  <2>3. req[t].kind # "restore_config_backup"
    BY <1>3 DEF KindOK, Snapshotting, Quiet
  <2>4. WorkOf(t)' = [purpose |-> "edit", copy |-> file]
    BY <2>2, <2>3 DEF WorkOf, Working, Purpose
  <2>5. SavedOf(t)' = SavedOf(t)  BY <1>3, <2>2 DEF SavedOf
  <2>6. WorkMap[t] = NoHand
    BY <1>3 DEF WorkMap, WorkOf, Working
  <2>7. WorkMap' = [WorkMap EXCEPT ![t] = [purpose |-> "edit", copy |-> file]]
    BY <1>2, <2>4, MapMoves
  <2>8. UNCHANGED SavedMap  BY <1>2, <2>5, MapMoves DEF SavedMap
  <2> QED
    BY <1>3, <2>1, <2>6, <2>7, <2>8, SameContents
       DEF Copies!Take, Copies!Copy, WorkMap, SavedMap
<1> QED  BY <1>1, <1>4, <1>5 DEF Load, Answer, GoTo

LEMMA StoreRefines ==
  ASSUME IInv, KindOK, NEW t \in Thread, Store(t)
  PROVE  Copies!GiveUp(t) \/ Copies!Edit(t) \/ Copies!Revert(t)
<1>1. DOMAIN pc = Thread /\ DOMAIN req = Thread /\ DOMAIN hand = Thread
  BY DEF IInv, TypeOK, ThreadsOK
<1>2. \A x \in Thread \ {t} :
        pc'[x] = pc[x] /\ req'[x] = req[x] /\ hand'[x] = hand[x]
  BY <1>1 DEF Store, Answer, GoTo
<1>3. /\ pc[t] = "store" /\ UNCHANGED <<snaps, used>>
      /\ req[t] \in Requests /\ hand[t] \in Config
  BY DEF Store, IInv, HandOK
<1>4. ASSUME pc'[t] \in {"idle", "audit"} PROVE Copies!Done(t)
  <2>1. ~Working(t)' /\ ~SavedOf(t)'  BY <1>4 DEF Working, SavedOf
  <2> QED
    BY <1>2, <2>1, StopsWorking, SameContents
       DEF Copies!Done, WorkMap, SavedMap
<1>5. CASE UNCHANGED file /\ pc'[t] \in {"idle", "audit"}
  BY <1>3, <1>4, <1>5 DEF Copies!GiveUp
<1>6. CASE /\ file' = Edited(req[t], hand[t])
           /\ hand' = [hand EXCEPT ![t] = file']
           /\ GoTo(t, IF req[t].kind = "change_password" THEN "rotate"
                                                         ELSE "audit")
  <2>1. WorkMap[t] = [purpose |-> Purpose(t), copy |-> hand[t]]
    BY <1>3 DEF WorkMap, WorkOf, Working
  <2>2. CASE req[t].kind = "restore_config_backup"
    <3>1. Purpose(t) = "revert"  BY <1>3, <2>2 DEF Purpose
    <3>2. Copies!Has(t, "revert") /\ WorkMap[t].copy = hand[t]
      BY <2>1, <3>1, SameContents DEF Copies!Has, WorkMap, NoHand
    <3>3. SavedMap[t]  BY <1>3, <2>2 DEF SavedMap, SavedOf, Quiet
    <3>4. file' = hand[t]  BY <1>3, <1>6, <2>2, RestoreStores
    <3>5. pc'[t] = "audit"  BY <1>1, <1>6, <2>2 DEF GoTo
    <3>6. Copies!Done(t)  BY <1>4, <3>5
    <3> QED
      BY <1>3, <3>2, <3>3, <3>4, <3>6 DEF Copies!Revert, WorkMap, SavedMap
  <2>3. CASE req[t].kind # "restore_config_backup"
    <3>1. Purpose(t) = "edit"  BY <1>3, <2>3 DEF Purpose
    <3>2. Copies!Has(t, "edit") /\ WorkMap[t].copy = hand[t]
      BY <2>1, <3>1, SameContents DEF Copies!Has, WorkMap, NoHand
    <3>3. /\ req[t].kind \in Snapshotting \cup Quiet
          /\ ~Refuses(req[t], hand[t]) /\ ~NothingToStore(req[t], hand[t])
      BY <1>3, <2>3 DEF KindOK
    <3>4. req[t].kind \in Quiet \/ SavedMap[t]
      BY <1>3, <3>3 DEF SavedMap, SavedOf
    <3>5. /\ ~Copies!Refuses(req[t], hand[t])
          /\ ~Copies!NothingToStore(req[t], hand[t])
          /\ file' = Copies!Edited(req[t], hand[t])
      BY <1>6, <3>3, SameEdits
    <3>6. req[t].kind \in
            Copies!Quiet \cup (IF SavedMap[t] THEN Copies!Snapshotting ELSE {})
      BY <3>3, <3>4, SameContents
    <3>7. CASE req[t].kind = "change_password"
      <4>1. pc'[t] = "rotate" /\ hand'[t] = file'
        BY <1>1, <1>6, <3>7 DEF GoTo
      <4>2. WorkOf(t)' = [purpose |-> "rekey", copy |-> file']
        BY <4>1 DEF WorkOf, Working, Purpose
      <4>3. SavedOf(t)' = FALSE /\ SavedOf(t) = FALSE
        BY <1>3, <3>7, <4>1 DEF SavedOf, Quiet
      <4>4. WorkMap' = [WorkMap EXCEPT ![t] = [purpose |-> "rekey", copy |-> file']]
        BY <1>2, <4>2, MapMoves
      <4>5. UNCHANGED SavedMap  BY <1>2, <4>3, MapMoves DEF SavedMap
      <4> QED
        BY <1>3, <3>2, <3>5, <3>6, <3>7, <4>4, <4>5
           DEF Copies!Edit, Copies!Copy, WorkMap, SavedMap
    <3>8. CASE req[t].kind # "change_password"
      <4>1. pc'[t] = "audit"  BY <1>1, <1>6, <3>8 DEF GoTo
      <4>2. Copies!Done(t)  BY <1>4, <4>1
      <4> QED
        BY <1>3, <3>2, <3>5, <3>6, <3>8, <4>2
           DEF Copies!Edit, WorkMap, SavedMap
    <3> QED  BY <3>7, <3>8
  <2> QED  BY <2>2, <2>3
<1> QED  BY <1>1, <1>5, <1>6 DEF Store, Answer, GoTo

\* The steps before and after a handler's work.
LEMMA OthersStutter ==
  ASSUME IInv, NEW t \in Thread, Accept(t) \/ Admit(t) \/ Handle(t)
  PROVE  UNCHANGED <<file, snaps, used, WorkMap, SavedMap>>
<1>1. DOMAIN pc = Thread /\ DOMAIN req = Thread /\ DOMAIN hand = Thread
  BY DEF IInv, TypeOK, ThreadsOK
<1>2. \A x \in Thread \ {t} :
        pc'[x] = pc[x] /\ req'[x] = req[x] /\ hand'[x] = hand[x]
  BY <1>1 DEF Accept, Admit, Handle, Answer, GoTo
<1>3. ~Working(t) /\ ~SavedOf(t) /\ UNCHANGED <<file, snaps, used>>
  BY DEF Accept, Admit, Handle, Working, SavedOf
<1>4. CASE Accept(t) \/ Admit(t)
  <2>1. pc'[t] \in {"admit", "login", "identify", "idle"}
    BY <1>1, <1>4 DEF Accept, Admit, Answer, GoTo
  <2> QED  BY <1>2, <1>3, <2>1, IdleStutters DEF Working, SavedOf
<1>5. CASE Handle(t)
  <2>1. \/ pc'[t] = "idle"
        \/ /\ pc'[t] = "snapshot" /\ req'[t] = req[t]
           /\ req[t].kind # "restore_config_backup"
        \/ pc'[t] = "load" /\ req'[t] = req[t] /\ req[t].kind \in Quiet
    BY <1>1, <1>5 DEF Handle, Answer, GoTo
  <2> QED  BY <1>2, <1>3, <2>1, IdleStutters DEF Working, SavedOf
<1> QED  BY <1>4, <1>5

LEMMA StepRefines ==
  ASSUME BrokenQuietly, IInv, KindOK, BrokenInv, [Next]_vars
  PROVE  Copies!Next \/ UNCHANGED <<file, snaps, used, WorkMap, SavedMap>>
<1>1. CASE UNCHANGED vars
  BY <1>1 DEF vars, WorkMap, SavedMap, WorkOf, Working, Purpose, SavedOf
<1>2. CASE Break
  <2>1. \A t \in Thread : pc[t] = "idle"
    BY <1>2, FaultAssumption DEF Break, BrokenQuietly
  <2>2. WorkMap = [t \in Thread |-> NoHand]
    BY <2>1 DEF WorkMap, WorkOf, Working
  <2>3. UNCHANGED <<snaps, used, WorkMap, SavedMap>>
    BY <1>2 DEF Break, WorkMap, SavedMap, WorkOf, Working, Purpose, SavedOf
  <2> QED
    BY <1>2, <2>2, <2>3, SameContents
       DEF Break, Copies!Next, Copies!Break, WorkMap, SavedMap
<1>3. ASSUME NEW t \in Thread, Accept(t) \/ Proceed(t)
      PROVE  Copies!Next \/ UNCHANGED <<file, snaps, used, WorkMap, SavedMap>>
  BY <1>3, OthersStutter, IdentifyRefines, SignRefines, RestoreRefines,
     SnapshotRefines, LoadRefines, StoreRefines, RotateRefines
     DEF Proceed, Copies!Next
<1> QED  BY <1>1, <1>2, <1>3 DEF Next

\* Any number of threads, writes that fail, and a file that is broken by hand
\* between two requests: what the endpoints do to server.json and its snapshots
\* is what ConfigCopies says.
THEOREM RequestsWorkOnCopies ==
  ASSUME BrokenQuietly
  PROVE  Spec => ImplementsConfigCopies
<1>1. Init => Copies!Init
  <2> SUFFICES ASSUME Init PROVE Copies!Init  OBVIOUS
  <2>1. /\ WorkMap = [t \in Thread |-> NoHand]
        /\ SavedMap = [t \in Thread |-> FALSE]
    BY DEF Init, WorkMap, SavedMap, WorkOf, Working, SavedOf
  <2> QED
    BY <2>1, SameContents, InitialIsAConfig
       DEF Init, Copies!Init, WorkMap, SavedMap
<1>2. IInv /\ KindOK /\ BrokenInv /\ [Next]_vars => [Copies!Next]_(Copies!vars)
  BY StepRefines DEF Copies!vars, WorkMap, SavedMap
<1> QED
  BY <1>1, <1>2, BrokenInvariance, PTL
     DEF Spec, ImplementsConfigCopies, Copies!Spec

-----------------------------------------------------------------------------
(* The first signing key, until a second one is generated.  No request names *)
(* a key: the page posts a placeholder for it, the others leave it alone.    *)

KeysAreNotRequested ==
  /\ SigningKey(Initial) \in Secret
  /\ \A u \in Requests :
       "admin_token_secret" \in DOMAIN u.patch =>
         u.kind = "set_config" /\ u.patch["admin_token_secret"] = REDACTED

FirstKey(c) == SigningKey(c) = SigningKey(Initial)

\* While no other key was generated, the file, every snapshot, every copy about
\* to be written or signed with, and every token have the first one, however
\* old the copy is.  A copy to sign with may also be that of a broken file.
SteadyKeyInv ==
  /\ SigningKey(Initial) \in used
  /\ used = {SigningKey(Initial)} =>
       /\ file # Broken => FirstKey(file)
       /\ tokens \subseteq {SigningKey(Initial)}
       /\ \A k \in DOMAIN snaps : snaps[k] # Broken => FirstKey(snaps[k])
       /\ \A t \in Thread :
            /\ pc[t] \in {"store", "rotate"} => FirstKey(hand[t])
            /\ pc[t] = "snapshot" /\ req[t].kind = "restore_config_backup"
                 => FirstKey(hand[t])
            /\ pc[t] = "sign" => FirstKey(hand[t]) \/ hand[t] = Defaults

\* An edit keeps the key there is.
LEMMA EditedKey ==
  ASSUME KeysAreNotRequested, NEW u \in Requests, NEW c \in Config,
         SigningKey(c) # Unset
  PROVE  SigningKey(Edited(u, c)) = SigningKey(c)
<1> DEFINE k == "admin_token_secret"
<1>1. k \in Path  BY DEF Path
<1>2. k \in DOMAIN u.patch => u.kind = "set_config" /\ u.patch[k] = REDACTED
  BY DEF KeysAreNotRequested
<1> QED
  BY <1>1, <1>2 DEF Edited, Patched, RestoreRedacted, SigningKey

\* The defaults have no key.
LEMMA DefaultsKey == SigningKey(Defaults) = Unset
BY DEF SigningKey, Defaults, Path

LEMMA SteadyKeyInit ==
  ASSUME KeysAreNotRequested, Init PROVE SteadyKeyInv
BY DEF KeysAreNotRequested, Init, SteadyKeyInv, FirstKey

\* A step that generates a key leaves more than one.
LEMMA SecondKey ==
  ASSUME SigningKey(Initial) \in used, NEW s \in Secret \ used,
         used' = used \cup {s}
  PROVE  SigningKey(Initial) \in used' /\ used' # {SigningKey(Initial)}
OBVIOUS

\* A step that writes and signs nothing, of a thread that moves to a place
\* where it needs no key, or has the file or the first key in its hands.
LEMMA SteadyKeyMoves ==
  ASSUME IInv, SteadyKeyInv, NEW t \in Thread,
         UNCHANGED <<file, tokens, used, snaps>>,
         \A x \in Thread \ {t} :
           pc'[x] = pc[x] /\ req'[x] = req[x] /\ hand'[x] = hand[x],
         used = {SigningKey(Initial)} =>
           /\ pc'[t] \in {"store", "rotate"} => FirstKey(hand'[t])
           /\ pc'[t] = "snapshot" /\ req'[t].kind = "restore_config_backup"
                => FirstKey(hand'[t])
           /\ pc'[t] = "sign" => FirstKey(hand'[t]) \/ hand'[t] = Defaults
  PROVE  SteadyKeyInv'
BY DEF SteadyKeyInv, FirstKey, SigningKey

LEMMA SteadySign ==
  ASSUME KeysAreNotRequested, IInv, SteadyKeyInv, NEW t \in Thread, Sign(t)
  PROVE  SteadyKeyInv'
<1>1. DOMAIN pc = Thread /\ DOMAIN req = Thread /\ DOMAIN hand = Thread
  BY DEF IInv, TypeOK, ThreadsOK
<1>2. CASE SigningKey(hand[t]) = Unset
  <2>1. PICK s \in Secret \ used : used' = used \cup {s}  BY <1>2 DEF Sign
  <2> QED  BY <2>1, SecondKey DEF SteadyKeyInv
<1>3. CASE SigningKey(hand[t]) # Unset
  <2>1. /\ UNCHANGED <<file, used, snaps>>
        /\ tokens' = tokens \cup {SigningKey(hand[t])}
    BY <1>3 DEF Sign
  <2>2. used = {SigningKey(Initial)} => FirstKey(hand[t])
    BY <1>3, DefaultsKey DEF Sign, SteadyKeyInv
  <2>3. /\ pc'[t] = "idle"
        /\ \A x \in Thread \ {t} :
             pc'[x] = pc[x] /\ req'[x] = req[x] /\ hand'[x] = hand[x]
    BY <1>1 DEF Sign, Answer
  <2> QED  BY <2>1, <2>2, <2>3 DEF SteadyKeyInv, FirstKey, SigningKey
<1> QED  BY <1>2, <1>3

LEMMA SteadySnapshot ==
  ASSUME IInv, KindOK, SteadyKeyInv, NEW t \in Thread, Snapshot(t)
  PROVE  SteadyKeyInv'
<1>1. DOMAIN pc = Thread /\ DOMAIN req = Thread /\ DOMAIN hand = Thread
  BY DEF IInv, TypeOK, ThreadsOK
<1>2. /\ \A x \in Thread \ {t} :
           pc'[x] = pc[x] /\ req'[x] = req[x] /\ hand'[x] = hand[x]
      /\ UNCHANGED <<file, used, tokens>>
  BY <1>1 DEF Snapshot, Answer, GoTo
<1>3. /\ pc'[t] \in {"idle", "audit", "load", "store"}
      /\ pc'[t] = "store" =>
           req[t].kind = "restore_config_backup" /\ hand'[t] = hand[t]
  BY <1>1 DEF Snapshot, AfterSnapshot, Answer, GoTo
<1>4. snaps \in Seq(Config \cup {Broken})  BY DEF IInv, TypeOK, FilesOK
<1>5. \A k \in DOMAIN snaps' : snaps'[k] = file \/ \E j \in DOMAIN snaps : snaps'[k] = snaps[j]
  <2>1. CASE UNCHANGED snaps  BY <2>1
  <2>2. CASE snaps' = Append(snaps, file)  BY <1>4, <2>2
  <2>3. CASE snaps' = Tail(Append(snaps, file))
    <3>1. Len(snaps') = Len(snaps)
          /\ \A k \in 1..Len(snaps) : snaps'[k] = Append(snaps, file)[k + 1]
      BY <1>4, <2>3
    <3> QED  BY <1>4, <2>3, <3>1
  <2> QED  BY <2>1, <2>2, <2>3 DEF Snapshot, Kept
<1>6. used = {SigningKey(Initial)} =>
        \A k \in DOMAIN snaps' : snaps'[k] # Broken => FirstKey(snaps'[k])
  BY <1>5 DEF SteadyKeyInv
<1>7. used = {SigningKey(Initial)} /\ pc'[t] = "store" => FirstKey(hand'[t])
  BY <1>3 DEF Snapshot, SteadyKeyInv
<1> QED
  BY <1>2, <1>3, <1>6, <1>7 DEF SteadyKeyInv, FirstKey, SigningKey, Broken

LEMMA SteadyStore ==
  ASSUME KeysAreNotRequested, IInv, SteadyKeyInv, NEW t \in Thread, Store(t)
  PROVE  SteadyKeyInv'
<1>1. DOMAIN pc = Thread /\ DOMAIN req = Thread /\ DOMAIN hand = Thread
  BY DEF IInv, TypeOK, ThreadsOK
<1>2. /\ \A x \in Thread \ {t} :
           pc'[x] = pc[x] /\ req'[x] = req[x] /\ hand'[x] = hand[x]
      /\ UNCHANGED <<snaps, used, tokens>>
      /\ pc'[t] \in {"idle", "audit", "rotate"}
  BY <1>1 DEF Store, Answer, GoTo
<1>3. /\ pc[t] = "store" /\ req[t] \in Requests /\ hand[t] \in Config
  BY DEF Store, IInv, HandOK
<1>4. CASE file' = Edited(req[t], hand[t]) /\ hand' = [hand EXCEPT ![t] = file']
  <2>1. file' \in Config /\ hand'[t] = file'
    BY <1>1, <1>3, <1>4, EditedType
  <2>2. used = {SigningKey(Initial)} => FirstKey(hand[t])
    BY <1>3 DEF SteadyKeyInv
  <2>3. SigningKey(Initial) # Unset
    BY MarkersAreNoSecrets DEF KeysAreNotRequested
  <2>4. used = {SigningKey(Initial)} => SigningKey(file') = SigningKey(Initial)
    BY <1>3, <1>4, <2>2, <2>3, EditedKey DEF FirstKey
  <2> QED
    BY <1>2, <2>1, <2>4 DEF SteadyKeyInv, FirstKey, SigningKey, Broken
<1>5. CASE UNCHANGED file /\ pc'[t] \in {"idle", "audit"}
  BY <1>2, <1>5, SteadyKeyMoves
<1> QED  BY <1>1, <1>4, <1>5 DEF Store, Answer, GoTo

LEMMA SteadyKeyStep ==
  ASSUME KeysAreNotRequested, IInv, KindOK, BrokenInv, SteadyKeyInv, [Next]_vars
  PROVE  SteadyKeyInv'
<1>1. CASE UNCHANGED vars
  BY <1>1 DEF SteadyKeyInv, FirstKey, SigningKey, vars
<1>2. CASE Break
  BY <1>2 DEF SteadyKeyInv, FirstKey, SigningKey, Break, Broken
<1> SUFFICES ASSUME NEW t \in Thread, Accept(t) \/ Proceed(t)
             PROVE  SteadyKeyInv'
  BY <1>1, <1>2 DEF Next
<1>3. DOMAIN pc = Thread /\ DOMAIN req = Thread /\ DOMAIN hand = Thread
  BY DEF IInv, TypeOK, ThreadsOK
<1>4. used = {SigningKey(Initial)} => FirstKey(Reading) \/ Reading = Defaults
  BY DEF SteadyKeyInv, Reading
<1>5. CASE Accept(t)  BY <1>3, <1>5, SteadyKeyMoves DEF Accept
<1>6. CASE Admit(t)
  BY <1>3, <1>6, SteadyKeyMoves DEF Admit, Answer, GoTo
<1>7. CASE Identify(t) \/ Login(t)
  BY <1>3, <1>4, <1>7, SteadyKeyMoves DEF Identify, Login, Answer, GoTo
<1>8. CASE Sign(t)  BY <1>8, SteadySign
<1>9. CASE Handle(t)
  BY <1>3, <1>9, SteadyKeyMoves DEF Handle, Answer, GoTo
<1>10. CASE Restore(t)
  <2>1. CASE Answer(t)
    BY <1>3, <1>10, <2>1, SteadyKeyMoves DEF Restore, Answer
  <2>2. ASSUME NEW k \in DOMAIN snaps, snaps[k] # Broken,
               hand' = [hand EXCEPT ![t] = snaps[k]], GoTo(t, "snapshot")
        PROVE  SteadyKeyInv'
    <3>1. used = {SigningKey(Initial)} => FirstKey(snaps[k])
      BY <2>2 DEF SteadyKeyInv
    <3> QED
      BY <1>3, <1>10, <2>2, <3>1, SteadyKeyMoves DEF Restore, GoTo
  <2> QED  BY <1>10, <2>1, <2>2 DEF Restore
<1>11. CASE Snapshot(t)  BY <1>11, SteadySnapshot
<1>12. CASE Load(t)
  <2>1. Reading = file /\ file # Broken  BY <1>12 DEF Load, BrokenInv, Reading
  <2>2. used = {SigningKey(Initial)} => FirstKey(Reading)
    BY <2>1 DEF SteadyKeyInv
  <2> QED
    BY <1>3, <1>12, <2>2, SteadyKeyMoves DEF Load, Answer, GoTo
<1>13. CASE Store(t)  BY <1>13, SteadyStore
<1>14. CASE Rotate(t)
  <2>1. PICK s \in Secret \ used : used' = used \cup {s}  BY <1>14 DEF Rotate
  <2> QED  BY <2>1, SecondKey DEF SteadyKeyInv
<1> QED
  BY <1>5, <1>6, <1>7, <1>8, <1>9, <1>10, <1>11, <1>12, <1>13, <1>14
     DEF Proceed

\* Until a second signing key is generated, no overlap of logins, edits,
\* reverts and password changes, by any number of threads and with writes that
\* fail, stores a placeholder or another key, or forgets the key there is:
\* every token given out keeps verifying.
THEOREM EditsLogNobodyOut ==
  ASSUME BrokenQuietly, KeysAreNotRequested
  PROVE  Spec => []TokensKeepWorking
<1>1. Init => SteadyKeyInv  BY SteadyKeyInit
<1>2. IInv /\ KindOK /\ BrokenInv /\ SteadyKeyInv /\ [Next]_vars
        => SteadyKeyInv'
  BY SteadyKeyStep
<1>3. SteadyKeyInv => TokensKeepWorking
  BY DEF SteadyKeyInv, FirstKey, TokensKeepWorking
<1> QED  BY <1>1, <1>2, <1>3, BrokenInvariance, PTL DEF Spec
=============================================================================
