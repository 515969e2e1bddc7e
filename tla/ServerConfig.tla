---------------------------- MODULE ServerConfig -----------------------------
(***************************************************************************)
(* The contents of hivemind-core's server.json, as far as the panel writes *)
(* it, and the edits its handlers make (hivemind_admin_panel/api.py).      *)
(*                                                                         *)
(* A configuration is flattened: every leaf a handler replaces is one path *)
(* with one value, so each edit is a patch.  A path the file does not have *)
(* is Unset.                                                               *)
(***************************************************************************)
EXTENDS Naturals, Sequences

CONSTANTS
  Value,          \* values of settings
  DatabasePlugin, \* modules with a section of their own under "database"
  AgentPlugin,    \* the same under "agent_protocol"
  Check,          \* ids of the checks an operator can acknowledge
  Password,       \* admin passwords
  DefaultPass,    \* the shipped one
  Secret,         \* token signing keys; bounds how many are ever generated
  Unset,          \* "no such key"
  REDACTED        \* the placeholder GET /config shows instead of a secret

\* Paths that are named after what they configure: a module's section holds
\* its connection or persona, a check's says whether it is acknowledged.
Name == DatabasePlugin \cup AgentPlugin \cup Check

Setting == Name \cup
  {"database.module", "agent_protocol.module", "binary_protocol.module",
   "binary_protocol.speech", "network_protocol", "policy"}
Path == Setting \cup {"admin_pass", "admin_token_secret"}

ASSUME DefaultIsAPassword == DefaultPass \in Password
ASSUME MarkersAreNoSecrets == Unset \notin Secret /\ REDACTED \notin Secret
ASSUME NamesAreNoSecrets ==
  "admin_pass" \notin Name /\ "admin_token_secret" \notin Name

IsSetting(p, v) ==
  \/ p \in Setting /\ v \in Value \cup Name \cup {Unset, REDACTED}
  \/ p = "admin_pass" /\ v \in Password \cup {REDACTED}
  \/ p = "admin_token_secret" /\ v \in Secret \cup {Unset, REDACTED}

AnyValue == Value \cup Name \cup Password \cup Secret \cup {Unset, REDACTED}

Config == {c \in [Path -> AnyValue] : \A p \in Path : IsSetting(p, c[p])}

IsPatch(p) == DOMAIN p \subseteq Path /\ \A x \in DOMAIN p : IsSetting(x, p[x])

\* server.json does not parse.
Broken == << >>

\* What the library falls back to.
Defaults == [p \in Path |-> IF p = "admin_pass" THEN DefaultPass ELSE Unset]

\* Handlers that take a snapshot before they load, and those that do not.
Snapshotting == {"set_config", "enable_plugin", "activate_persona",
                 "apply_preset", "apply_speech_preset", "set_policy",
                 "import_backup"}
Quiet == {"activate_database_profile", "migrate_database", "setup_ack",
          "setup_unack", "change_password"}

-----------------------------------------------------------------------------
\* for k, v in patch: cfg[k] = v
Patched(c, p) == [x \in Path |-> IF x \in DOMAIN p THEN p[x] ELSE c[x]]

\* Every placeholder the page posts back stands for the value in the file.  A
\* placeholder for a key the file does not have is taken at face value.
RestoreRedacted(p, c) ==
  [x \in DOMAIN p |->
     IF p[x] = REDACTED /\ c[x] # Unset THEN c[x] ELSE p[x]]

\* Mutant: the placeholders are written as they are.
EditedUnredacted(u, c) == Patched(c, u.patch)

\* The configuration a handler stores, given the one it loaded.
Edited(u, c) ==
  Patched(c, IF u.kind = "set_config" THEN RestoreRedacted(u.patch, c)
                                      ELSE u.patch)

Rekeyed(c, s) == [c EXCEPT !["admin_token_secret"] = s]

\* Handlers that load and then find nothing to write.
NothingToStore(u, c) ==
  \/ u.kind = "setup_ack" /\ Patched(c, u.patch) = c
  \/ u.kind = "enable_plugin" /\ DOMAIN u.patch = {}
  \/ u.kind = "migrate_database"
       /\ c["database.module"] = u.patch["database.module"]

\* Handlers that load and then refuse: the old password is wrong; a speech
\* preset has no binary protocol to go to.
Refuses(u, c) ==
  \/ u.kind = "change_password" /\ c["admin_pass"] # u.pass
  \/ u.kind = "apply_speech_preset" /\ c["binary_protocol.module"] = Unset
=============================================================================
