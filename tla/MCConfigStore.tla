---------------------------- MODULE MCConfigStore ----------------------------
(***************************************************************************)
(* Instances of ConfigStore for TLC.                                       *)
(***************************************************************************)
EXTENDS ConfigStore, ConfigEndpoints, TLC

CONSTANTS t1, t2, k0, k1, k2, v, sqlite, redis, persona, http, admin, old, new

Symmetry == Permutations(Thread) \cup Permutations(Secret \ {k0})

\* A deployment in use: a password of its own and a signing key.
InUse == [Defaults EXCEPT !["admin_pass"] = old, !["admin_token_secret"] = k0]

\* Two operators: each kind of handler that stores, that finds nothing to
\* store, that refuses, with logins, bearer tokens and a password change; and
\* what a broken file still answers, to its defaults' password too.
OverlappingRequests ==
  { LoginRequest(old), LoginRequest(admin), WhoAmI("bearer", old),
    SetConfig("bearer", old, [x \in {redis} |-> v]),
    SetConfig("basic", admin, [x \in {redis} |-> v]),
    ApplySpeechPreset("basic", old, v),
    MigrateDatabase("basic", old, redis),
    CreateConfigBackup("basic", admin), RestoreConfigBackup("basic", admin),
    RestoreConfigBackup("basic", old),
    ChangePassword("basic", old, new) }

\* A password change, and an edit that takes its copy before it.
RevokingRequests ==
  { LoginRequest(old), ChangePassword("basic", old, new),
    SetPolicy("bearer", old, v), EnableAgent("basic", old, http, WithoutConfig),
    SetupAck("basic", old, sqlite) }

\* What somebody does who finds the panel with a broken file.
BrokenRequests ==
  { LoginRequest(admin), WhoAmI("bearer", old), CreateConfigBackup("basic", admin),
    RestoreConfigBackup("basic", admin) }
=============================================================================
