---------------------------- MODULE MCClientStore ----------------------------
(***************************************************************************)
(* Instances of ClientStore for TLC.  Each set of requests is what one run *)
(* lets the pool's threads execute.                                        *)
(***************************************************************************)
EXTENDS ClientStore, ClientEndpoints, TLC

CONSTANTS t1, t2, t3, c1, c2, c3, k1, n1, n2, m1, m2, s1, x1, g1

ThreadSymmetry == Permutations(Thread)

ARow(revoked) == BundleRow(k1, n1, FALSE, revoked, [allowed_types |-> <<m1>>],
                           [can_propagate |-> TRUE, can_broadcast |-> FALSE])

\* Every endpoint that edits one client, and the others that hold the lock.
LockedRequests ==
  { AllowEscalate(c1), BlacklistEscalate(c1), AllowPropagate(c1),
    BlacklistPropagate(c1), MakeAdmin(c1), RevokeAdmin(c1),
    AllowMsg(c1, m1), DenyMsg(c1, m1), BlacklistMsg(c1, m1),
    AllowSkill(c1, s1), BlacklistSkill(c1, s1),
    AllowIntent(c1, x1), BlacklistIntent(c1, x1),
    UpdateClient(c1, [name |-> n2, is_admin |-> FALSE]),
    RenameClient(c1, n1), SetClientTags(c1, {g1}),
    UpdateClientAcl(c1, [can_escalate |-> FALSE, name |-> n2]),
    ApplyAclTemplate(c1, [allowed_types |-> <<m1>>]),
    BulkClients("make_admin", <<c1, c2>>, NoRow),
    ProvisionBridge(n1, <<m1>>, g1), AddClient(n1, FALSE, k1) }

\* Locked handlers of c1 beside what takes no lock: deletes, one of them in
\* bulk, additions and restores of one row and of two.
MixedRequests ==
  { BlacklistEscalate(c1), AllowMsg(c1, m1), DeleteClient(c1),
    BulkClients("delete", <<c1, c2>>, NoRow),
    BulkClients("apply_template", <<c1>>, [allowed_types |-> <<m1>>]),
    ProvisionBridge(n1, <<m1>>, g1), AddClient(n1, FALSE, GeneratedKey),
    ImportBackup(<<ARow(FALSE)>>), ImportBackup(<<ARow(TRUE), ARow(FALSE)>>) }

\* A delete beside an edit of the same client.
RevokingRequests == { BlacklistEscalate(c1), DeleteClient(c1) }
=============================================================================
