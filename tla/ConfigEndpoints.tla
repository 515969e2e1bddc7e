--------------------------- MODULE ConfigEndpoints ---------------------------
(***************************************************************************)
(* What each endpoint that touches server.json asks for: the requests of   *)
(* ConfigStore.  a says how the caller authenticates ("basic", "bearer")   *)
(* and w is the password a Basic header carries.                           *)
(***************************************************************************)
EXTENDS ServerConfig

LOCAL Ask(kind, a, w, p) == [kind |-> kind, auth |-> a, pass |-> w, patch |-> p]
LOCAL Nothing == << >>

LoginRequest(w) == Ask("login", "none", w, Nothing)
WhoAmI(a, w) == Ask("whoami", a, w, Nothing)

\* The page posts back the object it was shown: p with the secrets redacted.
SetConfig(a, w, p) ==
  Ask("set_config", a, w,
      [x \in DOMAIN p \cup {"admin_pass", "admin_token_secret"} |->
         IF x \in Setting THEN p[x] ELSE REDACTED])

CreateConfigBackup(a, w) == Ask("create_config_backup", a, w, Nothing)
RestoreConfigBackup(a, w) == Ask("restore_config_backup", a, w, Nothing)

\* A database or agent module, and its own section where the form sent one.
LOCAL EnableModule(a, w, slot, m, sent) ==
  Ask("enable_plugin", a, w,
      [x \in {slot} \cup DOMAIN sent |-> IF x = slot THEN m ELSE sent[x]])
WithoutConfig == << >>
WithConfig(m, c) == [x \in {m} |-> c]

EnableDatabase(a, w, m, sent) == EnableModule(a, w, "database.module", m, sent)
EnableAgent(a, w, m, sent) == EnableModule(a, w, "agent_protocol.module", m, sent)

\* A binary protocol; Unset disables it.
EnableBinaryProtocol(a, w, m) ==
  Ask("enable_plugin", a, w, [x \in {"binary_protocol.module"} |-> m])
EnableNetworkProtocol(a, w, c) ==
  Ask("enable_plugin", a, w, [x \in {"network_protocol"} |-> c])

\* An unknown plugin type changes nothing.
EnableUnknown(a, w) == Ask("enable_plugin", a, w, Nothing)

\* The database section becomes the module and the sections given, no others.
LOCAL Database(m, sections) ==
  [x \in {"database.module"} \cup DatabasePlugin |->
     IF x = "database.module" THEN m
     ELSE IF x \in DOMAIN sections THEN sections[x] ELSE Unset]

\* The profile's module and connection.
ActivateDatabaseProfile(a, w, m, c) ==
  Ask("activate_database_profile", a, w, Database(m, WithConfig(m, c)))

\* The legacy migration keeps no connection settings.
MigrateDatabase(a, w, m) ==
  Ask("migrate_database", a, w, Database(m, WithoutConfig))

\* The persona's path goes into the persona plugin's section.
ActivatePersona(a, w, plugin, persona) ==
  [EnableAgent(a, w, plugin, WithConfig(plugin, persona))
     EXCEPT !.kind = "activate_persona"]

ApplyAgentPreset(a, w, m, c) ==
  [EnableAgent(a, w, m, WithConfig(m, c)) EXCEPT !.kind = "apply_preset"]
ApplyNetworkPreset(a, w, c) ==
  Ask("apply_preset", a, w, [x \in {"network_protocol"} |-> c])
ApplySpeechPreset(a, w, m) ==
  Ask("apply_speech_preset", a, w, [x \in {"binary_protocol.speech"} |-> m])

SetPolicy(a, w, chain) == Ask("set_policy", a, w, [x \in {"policy"} |-> chain])

\* The configuration part of a restore: every key the bundle carries.
ImportBackupConfig(a, w, p) == Ask("import_backup", a, w, p)

\* The list of acknowledged checks gains or loses one.
SetupAck(a, w, check) == Ask("setup_ack", a, w, [x \in {check} |-> check])
SetupUnack(a, w, check) == Ask("setup_unack", a, w, [x \in {check} |-> Unset])

\* w is also the old password the form asks for.
ChangePassword(a, w, new) ==
  Ask("change_password", a, w, [x \in {"admin_pass"} |-> new])
=============================================================================
