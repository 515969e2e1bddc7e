---------------------------- MODULE ConfigCopies -----------------------------
(***************************************************************************)
(* What the configuration endpoints promise while their requests overlap.  *)
(* A thread takes the whole file at one moment and writes one edit of that *)
(* very copy, so whatever the file holds is the work of one request upon a *)
(* version that was read whole; only a readable file is ever edited; a     *)
(* revert writes the snapshot that was chosen, nothing else; and a change  *)
(* that can be undone has tried to take its snapshot before it takes its   *)
(* copy.  The defaults a broken file reads as are written back by nothing  *)
(* but the generation of a signing key.                                    *)
(***************************************************************************)
EXTENDS ServerConfig

CONSTANTS Thread, Requests, Keep, MayFail

VARIABLES
  file,   \* server.json
  snaps,  \* the snapshots kept
  keys,   \* signing keys generated so far
  work,   \* the copy thread t has taken, and what for
  saved   \* whether t's snapshot is behind it

vars == <<file, snaps, keys, work, saved>>

NoWork == << >>
Copy(purpose, c) == [purpose |-> purpose, copy |-> c]
Has(t, purpose) == work[t] # NoWork /\ work[t].purpose = purpose

Init ==
  /\ file \in Config /\ snaps = << >> /\ keys \subseteq Secret
  /\ work = [t \in Thread |-> NoWork] /\ saved = [t \in Thread |-> FALSE]

\* The file becomes the newest of at most Keep snapshots.
Snapped ==
  /\ Len(snaps') \in 1..Keep
  /\ snaps'[Len(snaps')] = file
  /\ \A k \in 1..(Len(snaps') - 1) :
       snaps'[k] = snaps[k + Len(snaps) + 1 - Len(snaps')]

\* A snapshot asked for by hand.
Backup == Snapped /\ UNCHANGED <<file, keys, work, saved>>

\* The snapshot of a change or a revert; best effort.
Save(t) ==
  /\ Snapped \/ (MayFail /\ UNCHANGED snaps)
  /\ saved' = [saved EXCEPT ![t] = TRUE]
  /\ UNCHANGED <<file, keys, work>>

\* The copy an edit starts from is a readable file as it is now.
Take(t) ==
  /\ work[t] = NoWork /\ file # Broken
  /\ work' = [work EXCEPT ![t] = Copy("edit", file)]
  /\ UNCHANGED <<file, snaps, keys, saved>>

\* The copy a login or a bearer token reads the signing key from.
TakeToSign(t) ==
  /\ work[t] = NoWork
  /\ work' = [work EXCEPT ![t] =
                Copy("sign", IF file = Broken THEN Defaults ELSE file)]
  /\ UNCHANGED <<file, snaps, keys, saved>>

\* The snapshot a revert goes back to.
Pick(t) ==
  /\ work[t] = NoWork
  /\ \E k \in DOMAIN snaps :
       snaps[k] # Broken /\ work' = [work EXCEPT ![t] = Copy("revert", snaps[k])]
  /\ UNCHANGED <<file, snaps, keys, saved>>

\* t is through with its copy and its snapshot.
Done(t) ==
  /\ work' = [work EXCEPT ![t] = NoWork]
  /\ saved' = [saved EXCEPT ![t] = FALSE]

\* Nothing was written: a refusal, nothing to change, a failed write.
GiveUp(t) == Done(t) /\ UNCHANGED <<file, snaps, keys>>

\* One request's edit of the copy replaces the file.
Edit(t) ==
  /\ Has(t, "edit")
  /\ \E u \in Requests :
       /\ u.kind \in Quiet \cup (IF saved[t] THEN Snapshotting ELSE {})
       /\ ~Refuses(u, work[t].copy) /\ ~NothingToStore(u, work[t].copy)
       /\ file' = Edited(u, work[t].copy)
       /\ IF u.kind = "change_password"
          THEN /\ work' = [work EXCEPT ![t] = Copy("rekey", file')]
               /\ UNCHANGED saved
          ELSE Done(t)
  /\ UNCHANGED <<snaps, keys>>

Revert(t) ==
  /\ Has(t, "revert") /\ saved[t]
  /\ file' = work[t].copy
  /\ Done(t)
  /\ UNCHANGED <<snaps, keys>>

\* A key nobody has seen: the first one, or the one after a password change.
NewKey(t) ==
  /\ \/ Has(t, "sign") /\ work[t].copy["admin_token_secret"] = Unset
     \/ Has(t, "rekey")
  /\ \E s \in Secret \ keys :
       /\ keys' = keys \cup {s}
       /\ file' = Rekeyed(work[t].copy, s) \/ (MayFail /\ UNCHANGED file)
  /\ Done(t)
  /\ UNCHANGED snaps

\* Somebody breaks the file by hand.
Break ==
  /\ \A t \in Thread : work[t] = NoWork
  /\ file' = Broken
  /\ UNCHANGED <<snaps, keys, work, saved>>

Next ==
  \/ Backup \/ Break
  \/ \E t \in Thread : Save(t) \/ Take(t) \/ TakeToSign(t) \/ Pick(t)
                         \/ GiveUp(t) \/ Edit(t) \/ Revert(t) \/ NewKey(t)

Spec == Init /\ [][Next]_vars
=============================================================================
