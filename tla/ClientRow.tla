------------------------------ MODULE ClientRow ------------------------------
(***************************************************************************)
(* A row of the client database and the edits the panel's handlers make to *)
(* it (hivemind_admin_panel/api.py, "Clients" and "ACL" endpoints).        *)
(*                                                                         *)
(* A handler loads a whole row, changes some fields of the loaded object   *)
(* and hands the whole row back.  What a handler changes is an "edit": a   *)
(* patch that replaces fields, or the insertion or removal of one item of  *)
(* a list.  The three lists keep their order and their duplicates, as the  *)
(* Python lists they are; tags are sorted(set(...)), hence a set.          *)
(***************************************************************************)
EXTENDS Naturals, SequencesExt

CONSTANTS
  ClientId,    \* ids a row can have; the key generated for row i is named i
  OtherKey,    \* keys an operator types in, and keys found in backup bundles
  REVOKED,     \* the sentinel a revoked row carries instead of its key
  Name, MsgType, Skill, Intent, Tag

Key == ClientId \cup OtherKey

ASSUME RevokedIsNoKey == REVOKED \notin Key

MayFlag == {"can_escalate", "can_propagate", "can_broadcast"}
Flag == {"is_admin"} \cup MayFlag
ListField == {"allowed_types", "skill_blacklist", "intent_blacklist"}
Field == {"name", "api_key", "tags"} \cup Flag \cup ListField

\* The values field f of a row can have.
IsValue(f, v) ==
  \/ f = "name" /\ v \in Name
  \/ f = "api_key" /\ v \in Key \cup {REVOKED}
  \/ f = "tags" /\ v \in SUBSET Tag
  \/ f \in Flag /\ v \in BOOLEAN
  \/ f = "allowed_types" /\ v \in Seq(MsgType)
  \/ f = "skill_blacklist" /\ v \in Seq(Skill)
  \/ f = "intent_blacklist" /\ v \in Seq(Intent)

IsRow(r) == DOMAIN r = Field /\ \A f \in Field : IsValue(f, r[f])

\* "No client has this id."
NoRow == << >>

IsPatch(p) == DOMAIN p \subseteq Field /\ \A f \in DOMAIN p : IsValue(f, p[f])

\* The items a list field holds.
IsItem(f, x) ==
  \/ f = "allowed_types" /\ x \in MsgType
  \/ f = "skill_blacklist" /\ x \in Skill
  \/ f = "intent_blacklist" /\ x \in Intent

-----------------------------------------------------------------------------
\* The row add_client creates: the library's defaults are permissive.
NewRow(n, k, admin) ==
  [name |-> n, api_key |-> k, tags |-> {}, is_admin |-> admin,
   can_escalate |-> TRUE, can_propagate |-> TRUE, can_broadcast |-> TRUE,
   allowed_types |-> << >>, skill_blacklist |-> << >>,
   intent_blacklist |-> << >>]

\* delete_client keeps the row and its id, and replaces the key.
RevokedRow(r) == [r EXCEPT !["api_key"] = REVOKED]

IsRevoked(r) == r["api_key"] = REVOKED

\* The fields a request carries replace the row's, the others stay.
Patched(r, p) == [f \in Field |-> IF f \in DOMAIN p THEN p[f] ELSE r[f]]

\* Python's l.remove(x): the first occurrence of x goes, later ones stay.
RemoveItem(s, x) ==
  LET K == {k \in 1..Len(s) : s[k] = x} IN
    IF K = {} THEN s ELSE RemoveAt(s, Min(K))

\* Mutant: every list editor writes the whitelist.
ListedInWhitelist(r, f, x, present) ==
  IF present /\ ~ Contains(r[f], x)
  THEN [r EXCEPT !["allowed_types"] = Append(@, x)] ELSE r

\* "if x not in l: l.append(x)" and "if x in l: l.remove(x)".
Listed(r, f, x, present) ==
  IF present
  THEN IF Contains(r[f], x) THEN r ELSE [r EXCEPT ![f] = Append(@, x)]
  ELSE [r EXCEPT ![f] = RemoveItem(@, x)]

\* A unit of work u is one client operation; these are the ones that edit.
Edited(u, r) ==
  IF u.op = "list" THEN Listed(r, u.field, u.item, u.present)
                   ELSE Patched(r, u.patch)
=============================================================================
