----------------------------- MODULE ConfigStore -----------------------------
(***************************************************************************)
(* The handlers that read and write server.json, run by the threads of the *)
(* pool (hivemind_admin_panel/api.py, _auth.py).                           *)
(*                                                                         *)
(* get_server_config() gives every caller a fresh copy of the file; its    *)
(* lock covers the construction of that copy only.  A handler edits its    *)
(* copy and store_config() writes the whole copy back, so the file may     *)
(* change between the two.  Authentication reads the file too, and writes  *)
(* it when there is no signing key yet.                                    *)
(***************************************************************************)
EXTENDS ServerConfig, FiniteSets

CONSTANTS
  Thread,
  Requests,   \* the requests the environment sends
  Initial,    \* server.json at the start
  Keep,       \* snapshots kept (20 in the code)
  MayFail,    \* whether writing a file can fail
  BreakWhen   \* when an edit by hand breaks the file: never, quiet, any

ASSUME KeepAssumption == Keep \in Nat \ {0}
ASSUME FaultAssumption ==
  MayFail \in BOOLEAN /\ BreakWhen \in {"never", "quiet", "any"}
ASSUME InitialIsAConfig == Initial \in Config

Reverting == {"create_config_backup", "restore_config_backup"}
Kind == Snapshotting \cup Quiet \cup Reverting \cup {"login", "whoami"}

\* _CONFIG_BROKEN_ALLOWED and _SETUP_GATE_ALLOWED
BrokenAllowed == {"login", "whoami", "set_config", "create_config_backup",
                  "restore_config_backup"}
GateAllowed == {"login", "whoami", "change_password"}

IsRequest(u) ==
  /\ u.kind \in Kind
  /\ u.auth \in {"none", "basic", "bearer"}
  /\ u.auth = "none" <=> u.kind = "login"
  /\ u.pass \in Password
  /\ IsPatch(u.patch)
  /\ u.kind \in Reverting \cup {"login", "whoami"} => DOMAIN u.patch = {}
  /\ u.kind = "change_password" => DOMAIN u.patch = {"admin_pass"}
  /\ u.kind = "migrate_database" => "database.module" \in DOMAIN u.patch

ASSUME RequestsAreWellFormed == \A u \in Requests : IsRequest(u)

VARIABLES
  file,    \* server.json: a configuration, or Broken
  snaps,   \* config_backups/, oldest first
  used,    \* signing keys generated so far
  tokens,  \* the keys the tokens given out so far are signed with
  retired, \* of those, the ones a password change has promised to revoke;
           \* a revert, which brings back password and key, ends the promise
  pc, req, \* where thread t is, in which request
  token,   \* the key that signs the bearer token of t's request
  hand     \* the configuration thread t holds

vars == <<file, snaps, used, tokens, retired, pc, req, token, hand>>

NoHand == << >>
NoRequest == << >>
SigningKey(c) == c["admin_token_secret"]
Key == Secret \cup {REDACTED}

FilesOK ==
  /\ file \in Config \cup {Broken}
  /\ snaps \in Seq(Config \cup {Broken}) /\ Len(snaps) <= Keep
  /\ used \subseteq Secret
  /\ tokens \subseteq Key /\ retired \subseteq tokens

\* Where a thread can be: the steps of a request, in their order.
Label == {"idle", "admit", "login", "identify", "sign", "handle", "snapshot",
          "load", "store", "rotate", "audit"}

ThreadsOK ==
  /\ pc \in [Thread -> Label]
  /\ req \in [Thread -> Requests \cup {NoRequest}]
  /\ token \in [Thread -> Key \cup {Unset}]
  /\ hand \in [Thread -> Config \cup {NoHand}]

TypeOK == FilesOK /\ ThreadsOK

Init ==
  /\ file = Initial
  /\ snaps = << >>
  /\ used = {SigningKey(Initial)} \cap Secret
  /\ tokens = used
  /\ retired = {}
  /\ pc = [t \in Thread |-> "idle"]
  /\ req = [t \in Thread |-> NoRequest]
  /\ token = [t \in Thread |-> Unset]
  /\ hand = [t \in Thread |-> NoHand]

-----------------------------------------------------------------------------
\* Mutant: one copy is kept from the start and handed out again.
ReadingCached == IF file = Broken THEN Defaults ELSE Initial

\* get_server_config(): a broken file reads as the defaults.
Reading == IF file = Broken THEN Defaults ELSE file

GoTo(t, label) == pc' = [pc EXCEPT ![t] = label] /\ UNCHANGED <<req, token>>

\* The request is answered.
Answer(t) ==
  /\ pc' = [pc EXCEPT ![t] = "idle"]
  /\ req' = [req EXCEPT ![t] = NoRequest]
  /\ token' = [token EXCEPT ![t] = Unset]
  /\ hand' = [hand EXCEPT ![t] = NoHand]

\* The keys a request may generate: where its token or its login meets none,
\* and after a password change.
Claims(u) == (IF u.auth = "basic" THEN {} ELSE {"sign"}) \cup
             (IF u.kind = "change_password" THEN {"rotate"} ELSE {})

\* A request that may generate keys is accepted while there are keys left for
\* it and for the requests under way (a bound of the model).
Room(u) ==
  LET pending == UNION {{t} \X Claims(req[t]) : t \in {x \in Thread : pc[x] # "idle"}}
  IN Claims(u) = {} \/ Cardinality(used) + Cardinality(pending)
                         + Cardinality(Claims(u)) <= Cardinality(Secret)

\* A browser or a script sends a request; a bearer token is one given out.
Accept(t) ==
  /\ pc[t] = "idle"
  /\ \E u \in Requests :
       /\ Room(u)
       /\ req' = [req EXCEPT ![t] = u]
       /\ \E s \in IF u.auth = "bearer" THEN tokens ELSE {Unset} :
            token' = [token EXCEPT ![t] = s]
  /\ pc' = [pc EXCEPT ![t] = "admit"]
  /\ UNCHANGED <<file, snaps, used, tokens, retired, hand>>

\* The two guards every request passes first: a broken file, and credentials
\* that are still the shipped ones.
Refused(u) ==
  \/ file = Broken /\ u.kind \notin BrokenAllowed
  \/ file # Broken /\ file["admin_pass"] = DefaultPass
                   /\ u.kind \notin GateAllowed

Admit(t) ==
  /\ pc[t] = "admit"
  /\ \/ Refused(req[t]) /\ Answer(t)
     \/ ~Refused(req[t]) /\ req[t].kind = "login" /\ GoTo(t, "login")
                         /\ UNCHANGED hand
     \/ ~Refused(req[t]) /\ req[t].kind # "login" /\ GoTo(t, "identify")
                         /\ UNCHANGED hand
  /\ UNCHANGED <<file, snaps, used, tokens, retired>>

\* _identify: Basic credentials against the configuration, a bearer token
\* against its signing key, which is generated when there is none.  It is
\* called before the handler runs, and for the audit log after it is done.
Identify(t) ==
  /\ pc[t] \in {"identify", "audit"}
  /\ LET ok == IF req[t].auth = "basic"
               THEN Reading["admin_pass"] = req[t].pass
               ELSE SigningKey(Reading) = token[t]
     IN \/ /\ req[t].auth = "bearer" /\ SigningKey(Reading) = Unset
           /\ hand' = [hand EXCEPT ![t] = Reading] /\ GoTo(t, "sign")
        \/ /\ pc[t] = "identify" /\ ok
           /\ GoTo(t, "handle") /\ UNCHANGED hand
        \/ /\ pc[t] = "audit" \/ ~ok
           /\ req[t].auth = "basic" \/ SigningKey(Reading) # Unset
           /\ Answer(t)
  /\ UNCHANGED <<file, snaps, used, tokens, retired>>

\* login: the password is checked, then a token is signed.
Login(t) ==
  /\ pc[t] = "login"
  /\ \/ /\ Reading["admin_pass"] = req[t].pass
        /\ hand' = [hand EXCEPT ![t] = Reading] /\ GoTo(t, "sign")
     \/ Reading["admin_pass"] # req[t].pass /\ Answer(t)
  /\ UNCHANGED <<file, snaps, used, tokens, retired>>

\* store_config(c): the whole file is replaced, unless writing it fails.
Write(c) ==
  \/ file' = c
  \/ MayFail /\ UNCHANGED file

\* _secret(cfg): the key of the copy in hand, or a new one that is stored with
\* the rest of the copy.  login answers with a token; a bearer token that met
\* no key cannot match the new one and is refused.
Sign(t) ==
  /\ pc[t] = "sign"
  /\ \/ /\ SigningKey(hand[t]) # Unset
        /\ tokens' = tokens \cup {SigningKey(hand[t])}
        /\ UNCHANGED <<file, used>>
     \/ /\ SigningKey(hand[t]) = Unset
        /\ \E s \in Secret \ used :
             /\ used' = used \cup {s}
             /\ Write(Rekeyed(hand[t], s))
             /\ tokens' = IF req[t].kind = "login" THEN tokens \cup {s}
                                                   ELSE tokens
  /\ Answer(t)
  /\ UNCHANGED <<snaps, retired>>

\* Mutant: POST /config trusts the guard.
Unchecked(u) == TRUE

\* POST /config looks at the file again before it does anything.
Checked(u) == u.kind = "set_config" => file # Broken

\* The handler starts.
Handle(t) ==
  /\ pc[t] = "handle"
  /\ req[t].kind # "restore_config_backup"
  /\ \/ /\ req[t].kind = "whoami" \/ ~Checked(req[t])
        /\ Answer(t)
     \/ /\ req[t].kind \in Snapshotting \cup {"create_config_backup"}
        /\ Checked(req[t])
        /\ GoTo(t, "snapshot") /\ UNCHANGED hand
     \/ /\ req[t].kind \in Quiet
        /\ GoTo(t, "load") /\ UNCHANGED hand
  /\ UNCHANGED <<file, snaps, used, tokens, retired>>

\* restore_config_backup reads the snapshot it was asked for; 404 when there
\* is none, 400 when it does not parse.
Restore(t) ==
  /\ pc[t] = "handle"
  /\ req[t].kind = "restore_config_backup"
  /\ \/ /\ snaps = << >> \/ \E k \in DOMAIN snaps : snaps[k] = Broken
        /\ Answer(t)
     \/ /\ \E k \in DOMAIN snaps :
             snaps[k] # Broken /\ hand' = [hand EXCEPT ![t] = snaps[k]]
        /\ GoTo(t, "snapshot")
  /\ UNCHANGED <<file, snaps, used, tokens, retired>>

\* Mutant: nothing is pruned.
KeptAll(s) == s

\* The newest Keep snapshots stay.
Kept(s) == IF Len(s) > Keep THEN Tail(s) ELSE s

\* What a handler does once it has its snapshot.
AfterSnapshot(u) ==
  IF u.kind = "create_config_backup" THEN "audit"
  ELSE IF u.kind = "restore_config_backup" THEN "store" ELSE "load"

\* _snapshot_config(): the bytes of the file, broken or not.  It is best effort,
\* except for a snapshot asked for by hand: 500 when it fails.
Snapshot(t) ==
  /\ pc[t] = "snapshot"
  /\ \/ /\ snaps' = Kept(Append(snaps, file))
        /\ GoTo(t, AfterSnapshot(req[t])) /\ UNCHANGED hand
     \/ /\ MayFail /\ UNCHANGED snaps
        /\ IF req[t].kind = "create_config_backup" THEN Answer(t)
           ELSE GoTo(t, AfterSnapshot(req[t])) /\ UNCHANGED hand
  /\ UNCHANGED <<file, used, tokens, retired>>

\* cfg = get_server_config(), and what the handler decides from it.
Load(t) ==
  /\ pc[t] = "load"
  /\ \/ Refuses(req[t], Reading) /\ Answer(t)
     \/ /\ ~Refuses(req[t], Reading) /\ NothingToStore(req[t], Reading)
        /\ GoTo(t, "audit") /\ UNCHANGED hand
     \/ /\ ~Refuses(req[t], Reading) /\ ~NothingToStore(req[t], Reading)
        /\ hand' = [hand EXCEPT ![t] = Reading] /\ GoTo(t, "store")
  /\ UNCHANGED <<file, snaps, used, tokens, retired>>

\* The edited copy is stored.  change_password goes on with the same copy; a
\* store that raises ends the request, except that migrate_database reports
\* the failure in a regular answer.
Store(t) ==
  /\ pc[t] = "store"
  /\ \/ /\ file' = Edited(req[t], hand[t])
        /\ hand' = [hand EXCEPT ![t] = file']
        /\ retired' = IF req[t].kind = "restore_config_backup" THEN {} ELSE retired
        /\ GoTo(t, IF req[t].kind = "change_password" THEN "rotate" ELSE "audit")
     \/ /\ MayFail /\ UNCHANGED <<file, retired>>
        /\ IF req[t].kind = "migrate_database"
           THEN GoTo(t, "audit") /\ UNCHANGED hand ELSE Answer(t)
  /\ UNCHANGED <<snaps, used, tokens>>

\* rotate_token_secret(cfg): the same copy again, with a new key.  A failure
\* is logged and swallowed; the answer is "tokens_revoked" either way.
Rotate(t) ==
  /\ pc[t] = "rotate"
  /\ \E s \in Secret \ used :
       /\ used' = used \cup {s}
       /\ Write(Rekeyed(hand[t], s))
  /\ retired' = tokens
  /\ GoTo(t, "audit")
  /\ UNCHANGED <<snaps, tokens, hand>>

\* Somebody edits server.json by hand and gets it wrong.
Break ==
  /\ file # Broken
  /\ \/ BreakWhen = "any"
     \/ BreakWhen = "quiet" /\ \A t \in Thread : pc[t] = "idle"
  /\ file' = Broken
  /\ UNCHANGED <<snaps, used, tokens, retired, pc, req, token, hand>>

Proceed(t) ==
  \/ Admit(t) \/ Identify(t) \/ Login(t) \/ Sign(t) \/ Handle(t) \/ Restore(t)
  \/ Snapshot(t) \/ Load(t) \/ Store(t) \/ Rotate(t)

Next == Break \/ \E t \in Thread : Accept(t) \/ Proceed(t)

Spec == Init /\ [][Next]_vars

-----------------------------------------------------------------------------
\* Until a second signing key is generated, no overlap of edits, reverts and
\* password changes logs anyone out or stores a placeholder for the key: every
\* token given out keeps verifying.
TokensKeepWorking ==
  used = {SigningKey(Initial)} /\ file # Broken
    => \A s \in tokens : s = SigningKey(file)

\* What a thread has in its hands, seen as the work of ConfigCopies.
Working(t) ==
  \/ pc[t] \in {"sign", "store", "rotate"}
  \/ pc[t] = "snapshot" /\ req[t].kind = "restore_config_backup"
Purpose(t) ==
  CASE pc[t] = "sign" -> "sign"
    [] pc[t] = "rotate" -> "rekey"
    [] OTHER -> IF req[t].kind = "restore_config_backup" THEN "revert" ELSE "edit"
WorkOf(t) ==
  IF Working(t) THEN [purpose |-> Purpose(t), copy |-> hand[t]] ELSE NoHand
SavedOf(t) == pc[t] \in {"load", "store"} /\ req[t].kind \notin Quiet

\* Whatever overlaps, fails or is broken by hand between requests, the file
\* and its snapshots only change as ConfigCopies promises.
Copies == INSTANCE ConfigCopies
            WITH file <- file, snaps <- snaps, keys <- used,
                 work <- [t \in Thread |-> WorkOf(t)],
                 saved <- [t \in Thread |-> SavedOf(t)]
ImplementsConfigCopies == Copies!Spec

\* A file that does not parse is never edited.  What makes it readable again is
\* a snapshot that is restored, or the defaults that a login or a bearer token
\* completes with a signing key; no handler that loads, edits and stores does.
BrokenFileIsNotEdited ==
  [][file = Broken /\ file' # Broken =>
       \/ \E t \in Thread : /\ pc[t] = "store" /\ file' = hand[t]
                            /\ req[t].kind = "restore_config_backup"
       \/ \E s \in Secret \ used : file' = Rekeyed(Defaults, s)]_vars

\* docs/security.md: changing the password revokes every token issued before
\* it.  As long as no older file is restored, such a token never verifies again.
PasswordRevokesTokens ==
  file # Broken => SigningKey(file) \notin retired

\* What the guard's docstring is there to rule out: the defaults of a file that
\* does not parse are never written back over it.  Only a restore replaces it.
BrokenFileIsKept ==
  [][file = Broken /\ file' # Broken =>
       \E t \in Thread : /\ pc[t] = "store"
                         /\ req[t].kind = "restore_config_backup"]_vars
=============================================================================
