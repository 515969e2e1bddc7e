--------------------------- MODULE ClientEndpoints ---------------------------
(***************************************************************************)
(* What each client endpoint of hivemind_admin_panel/api.py asks for: the  *)
(* units of work a thread of ClientStore executes for one request.  An     *)
(* endpoint that is refused before it opens the database (400, 404 of a    *)
(* template or of a bridge type) asks for nothing and is not listed.       *)
(***************************************************************************)
EXTENDS ClientRow

LOCAL Patch(i, p) == [op |-> "patch", id |-> i, patch |-> p]
LOCAL List(i, f, x, present) ==
  [op |-> "list", id |-> i, field |-> f, item |-> x, present |-> present]

\* key is the operator's, or GeneratedKey.
AddClient(n, admin, key) ==
  <<[op |-> "add", name |-> n, admin |-> admin, key |-> key]>>
DeleteClient(i) == <<[op |-> "delete", id |-> i]>>

\* The fields the request carries, any of them.
UpdateClient(i, p) == <<Patch(i, p)>>
RenameClient(i, n) == <<Patch(i, [name |-> n])>>
SetClientTags(i, T) == <<Patch(i, [tags |-> T])>>

\* _modify_flag
AllowEscalate(i) == <<Patch(i, [can_escalate |-> TRUE])>>
BlacklistEscalate(i) == <<Patch(i, [can_escalate |-> FALSE])>>
AllowPropagate(i) == <<Patch(i, [can_propagate |-> TRUE])>>
BlacklistPropagate(i) == <<Patch(i, [can_propagate |-> FALSE])>>
MakeAdmin(i) == <<Patch(i, [is_admin |-> TRUE])>>
RevokeAdmin(i) == <<Patch(i, [is_admin |-> FALSE])>>

\* _modify_msg_type writes a whitelist; the other two write blacklists.
AllowMsg(i, m) == <<List(i, "allowed_types", m, TRUE)>>
DenyMsg(i, m) == <<List(i, "allowed_types", m, FALSE)>>
BlacklistMsg(i, m) == DenyMsg(i, m)
AllowSkill(i, s) == <<List(i, "skill_blacklist", s, FALSE)>>
BlacklistSkill(i, s) == <<List(i, "skill_blacklist", s, TRUE)>>
AllowIntent(i, x) == <<List(i, "intent_blacklist", x, FALSE)>>
BlacklistIntent(i, x) == <<List(i, "intent_blacklist", x, TRUE)>>

\* The ACL editor sends fields other than the identity of the client.
UpdateClientAcl(i, p) ==
  <<Patch(i, [f \in DOMAIN p \ {"name", "api_key", "tags"} |-> p[f]])>>

\* A template replaces the three lists; one it does not carry becomes empty.
Template(t) ==
  [f \in ListField |-> IF f \in DOMAIN t THEN t[f] ELSE << >>]
ApplyAclTemplate(i, t) == <<Patch(i, Template(t))>>

\* One action for many clients, one after the other; not a transaction.
BulkClients(action, ids, t) ==
  FlattenSeq([k \in DOMAIN ids |->
     CASE action = "delete" -> DeleteClient(ids[k])
       [] action = "make_admin" -> MakeAdmin(ids[k])
       [] action = "revoke_admin" -> RevokeAdmin(ids[k])
       [] action = "apply_template" -> ApplyAclTemplate(ids[k], t)])

\* A client for a chat bridge: the utterance whitelist and a tag.
ProvisionBridge(n, allow, tag) ==
  <<[op |-> "provision", name |-> n,
     patch |-> [allowed_types |-> allow, tags |-> {tag}]]>>

\* A row of a bundle: the fields add_client takes are given, the permission
\* flags are patched in afterwards, denied unless the bundle carries them.
BundleRow(key, n, admin, revoked, given, flags) ==
  [op |-> "restore", name |-> n, admin |-> admin, key |-> key,
   revoked |-> revoked, given |-> given,
   patch |-> [f \in MayFlag |-> f \in DOMAIN flags /\ flags[f]]]
ImportBackup(rows) == rows
=============================================================================
