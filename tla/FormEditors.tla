----------------------------- MODULE FormEditors -----------------------------
(***************************************************************************)
(* Forms of the web page (static/js/app.js) that are filled by requests:   *)
(* the client editor, the ACL editor, the policy editor, the pairing       *)
(* dialog, the preview of a configuration snapshot and the test of a       *)
(* persona.  They share nothing, so a behaviour is about one of them.      *)
(*                                                                         *)
(* What a form shows is told apart by whose it is: that of a client, of a  *)
(* snapshot or of the policy, nothing, or what the user has typed into it. *)
(***************************************************************************)
CONSTANTS
  Item,    \* client ids; names of snapshots; names of personas
  None,    \* no item, no request
  Slot,    \* requests that can be under way at one time (a bound)
  Opening, \* openings of the pairing dialog that are told apart (a bound)
  Hasty    \* the forms whose user goes on before the page has its answers

Kind == {"client", "acl", "policy", "pairing", "snapshot", "test"}

\* Nothing is typed into the others, or saved from them.
Editor == {"client", "acl", "policy"}

Subject == Item \cup {None, "policy"}
Ask == {"client", "password", "page", "acl", "template", "policy", "save",
        "bundle", "code", "image", "diff", "revert", "persona", "test"}
Request == [ask : Ask, for : Subject, opening : Opening]

Assumption ==
  /\ None \notin Item \cup {"policy"} \cup Request
  /\ Opening # {} /\ Hasty \subseteq Kind

VARIABLES
  kind,      \* the form this behaviour is about
  subject,   \* what a save is for: editClientId, currentACLClientId,
             \* _pairRequest.id, currentTestPersonaName; always "policy"
             \* for the policy; the snapshot whose preview was asked for last
  choice,    \* aclClientSelect; the persona whose test can be confirmed
  opening,   \* _pairRequest is an object of its own each time it opens
  content,   \* content[p]: whose data part p of the form shows
  usable,    \* whether the form is shown and, for the policy, not locked
  requests   \* requests[r]: a request under way, or None

vars == <<kind, subject, choice, opening, content, usable, requests>>

Parts == [client |-> {"identity", "password"}, acl |-> {"rights"},
          policy |-> {"chain"}, pairing |-> {"bundle", "code"},
          snapshot |-> {"preview"}, test |-> {"results"}]
Part == UNION {Parts[k] : k \in Kind}

TypeOK ==
  /\ kind \in Kind
  /\ subject \in (IF kind = "policy" THEN {"policy"} ELSE Item \cup {None})
  /\ choice \in Item \cup {None}
  /\ opening \in Opening
  /\ content \in [Part -> Subject \cup {"typed"}]
  /\ usable \in BOOLEAN
  /\ requests \in [Slot -> Request \cup {None}]
  /\ usable => subject # None
  /\ kind = "acl" /\ choice # None => choice = subject

Init ==
  /\ kind \in Kind
  /\ subject = IF kind = "policy" THEN "policy" ELSE None
  /\ choice = None /\ opening = CHOOSE o \in Opening : TRUE
  /\ content = [p \in Part |-> None]
  /\ usable = FALSE
  /\ requests = [r \in Slot |-> None]

-----------------------------------------------------------------------------
Waiting == \E r \in Slot : requests[r] # None

\* The user acts: at once, or when what was asked for is there.
Acts(k) == kind = k /\ (k \in Hasty \/ ~Waiting)

Sending(r, ask, for) ==
  requests' = [requests EXCEPT ![r] = [ask |-> ask, for |-> for, opening |-> opening]]
Send(r, ask, for) == requests[r] = None /\ Sending(r, ask, for)
Asked(r, ask) == requests[r] # None /\ requests[r].ask = ask
Then(r, ask) == requests' = [requests EXCEPT ![r].ask = ask]
Over(r) == requests' = [requests EXCEPT ![r] = None]
Show(p, whose) == content' = [content EXCEPT ![p] = whose]

\* The user changes what an open form shows.
Type(p) ==
  /\ kind \in Editor /\ Acts(kind) /\ usable /\ p \in Parts[kind]
  /\ Show(p, "typed")
  /\ UNCHANGED <<kind, subject, choice, opening, usable, requests>>

-----------------------------------------------------------------------------
(* The client editor.                                                        *)

\* showEditClientModal; while the dialog is open it covers the table.
EditClient(r, c) ==
  /\ Acts("client") /\ ~usable
  /\ Send(r, "client", c)
  /\ UNCHANGED <<kind, subject, choice, opening, content, usable>>

ClientCame(r) ==
  /\ Asked(r, "client")
  /\ subject' = requests[r].for /\ Show("identity", requests[r].for)
  /\ Then(r, "password")
  /\ UNCHANGED <<kind, choice, opening, usable>>

PasswordCame(r) ==
  /\ Asked(r, "password")
  /\ Show("password", requests[r].for) /\ usable' = TRUE
  /\ Over(r)
  /\ UNCHANGED <<kind, subject, choice, opening>>

\* closeEditClientModal
CloseClient ==
  /\ Acts("client") /\ usable
  /\ usable' = FALSE
  /\ UNCHANGED <<kind, subject, choice, opening, content, requests>>

-----------------------------------------------------------------------------
(* The ACL editor.                                                           *)

\* loadACLPage, when the user comes to the page
LoadACLPage(r) ==
  /\ Acts("acl")
  /\ Send(r, "page", None)
  /\ UNCHANGED <<kind, subject, choice, opening, content, usable>>

\* The list of clients is written anew, with none chosen; the editor stays.
PageCame(r) ==
  /\ Asked(r, "page")
  /\ choice' = None
  /\ Over(r)
  /\ UNCHANGED <<kind, subject, opening, content, usable>>

\* loadClientACL, when a client or none is chosen, and for the Reset button:
\* the editor stays as it is until the answer is there.
LoadClientACL(r, c) ==
  /\ Acts("acl")
  /\ choice' = c
  /\ IF c = None
     THEN usable' = FALSE /\ UNCHANGED <<subject, requests>>
     ELSE subject' = c /\ Send(r, "acl", c) /\ UNCHANGED usable
  /\ UNCHANGED <<kind, opening, content>>

AclCame(r) ==
  /\ Asked(r, "acl")
  /\ Show("rights", requests[r].for) /\ usable' = TRUE
  /\ Over(r)
  /\ UNCHANGED <<kind, subject, choice, opening>>

\* applyACLTemplate, confirmed
ApplyTemplate(r) ==
  /\ Acts("acl") /\ usable
  /\ Send(r, "template", subject)
  /\ UNCHANGED <<kind, subject, choice, opening, content, usable>>

\* The template is applied: the editor loads the client that is chosen by now.
TemplateApplied(r) ==
  /\ Asked(r, "template")
  /\ IF choice = None
     THEN usable' = FALSE /\ Over(r) /\ UNCHANGED subject
     ELSE subject' = choice /\ Sending(r, "acl", choice) /\ UNCHANGED usable
  /\ UNCHANGED <<kind, choice, opening, content>>

-----------------------------------------------------------------------------
(* The policy editor: it is locked while it may not show the chain.          *)

\* loadPolicy
LoadPolicy(r) ==
  /\ Acts("policy")
  /\ Send(r, "policy", "policy") /\ usable' = FALSE
  /\ UNCHANGED <<kind, subject, choice, opening, content>>

PolicyCame(r) ==
  /\ Asked(r, "policy")
  /\ Show("chain", "policy") /\ usable' = TRUE
  /\ Over(r)
  /\ UNCHANGED <<kind, subject, choice, opening>>

-----------------------------------------------------------------------------
(* The pairing dialog.                                                       *)

\* pairClient, at another client or the same one again
PairClient(c) ==
  /\ Acts("pairing") /\ subject = None
  /\ subject' = c
  /\ \E o \in Opening :
       /\ \A r \in Slot : requests[r] # None => requests[r].opening # o
       /\ opening' = o
  /\ content' = [p \in Part |-> None] /\ usable' = FALSE
  /\ UNCHANGED <<kind, choice, requests>>

\* closePairModal
ClosePair ==
  /\ Acts("pairing") /\ subject # None
  /\ subject' = None /\ usable' = FALSE
  /\ UNCHANGED <<kind, choice, opening, content, requests>>

\* generatePairing
GeneratePairing(r) ==
  /\ Acts("pairing") /\ subject # None /\ ~usable
  /\ Send(r, "bundle", subject)
  /\ UNCHANGED <<kind, subject, choice, opening, content, usable>>

\* Mutant: an answer is used whatever became of the dialog.
CurrentAlways(r) == requests[r] # None

\* _pairRequest === req
Current(r) == subject # None /\ opening = requests[r].opening

\* The bundle, then the code, then its image.  The dialog is looked at after
\* each, and filled at the end.
PairingCame(r) ==
  /\ Asked(r, "bundle") \/ Asked(r, "code") \/ Asked(r, "image")
  /\ IF ~Current(r)
     THEN Over(r) /\ UNCHANGED <<content, usable>>
     ELSE IF requests[r].ask # "image"
     THEN /\ Then(r, IF requests[r].ask = "bundle" THEN "code" ELSE "image")
          /\ UNCHANGED <<content, usable>>
     ELSE /\ content' = [content EXCEPT !["bundle"] = requests[r].for,
                                        !["code"] = requests[r].for]
          /\ usable' = TRUE /\ Over(r)
  /\ UNCHANGED <<kind, subject, choice, opening>>

-----------------------------------------------------------------------------
(* The preview of what going back to a snapshot changes.                     *)

\* diffConfigBackup
DiffSnapshot(r, f) ==
  /\ Acts("snapshot")
  /\ subject' = f /\ Send(r, "diff", f)
  /\ UNCHANGED <<kind, choice, opening, content, usable>>

DiffCame(r) ==
  /\ Asked(r, "diff")
  /\ Show("preview", requests[r].for) /\ usable' = TRUE
  /\ Over(r)
  /\ UNCHANGED <<kind, subject, choice, opening>>

\* revertConfigBackup, of this snapshot or another
RevertSnapshot(r, f) ==
  /\ Acts("snapshot")
  /\ Send(r, "revert", f)
  /\ UNCHANGED <<kind, subject, choice, opening, content, usable>>

\* No preview describes the configuration any more.
Reverted(r) ==
  /\ Asked(r, "revert")
  /\ subject' = None /\ usable' = FALSE
  /\ Over(r)
  /\ UNCHANGED <<kind, choice, opening, content>>

-----------------------------------------------------------------------------
(* The test of a persona.                                                    *)

\* testPersona; the dialog covers the list of personas.
TestPersona(r, p) ==
  /\ Acts("test") /\ subject = None
  /\ subject' = p /\ Send(r, "persona", p)
  /\ Show("results", None)
  /\ UNCHANGED <<kind, choice, opening, usable>>

\* What the persona consists of, and the button to test it.
PersonaCame(r) ==
  /\ Asked(r, "persona")
  /\ Show("results", requests[r].for)
  /\ choice' = subject /\ usable' = (subject # None)
  /\ Over(r)
  /\ UNCHANGED <<kind, subject, opening>>

\* confirmTestPersona
ConfirmTest(r) ==
  /\ Acts("test") /\ choice # None
  /\ Send(r, "test", subject)
  /\ Show("results", None) /\ choice' = None /\ usable' = FALSE
  /\ UNCHANGED <<kind, subject, opening>>

VerdictCame(r) ==
  /\ Asked(r, "test")
  /\ Show("results", requests[r].for) /\ usable' = (subject # None)
  /\ Over(r)
  /\ UNCHANGED <<kind, subject, choice, opening>>

\* closeTestPersonaModal
CloseTest ==
  /\ Acts("test") /\ subject # None
  /\ subject' = None /\ choice' = None /\ usable' = FALSE
  /\ UNCHANGED <<kind, opening, content, requests>>

-----------------------------------------------------------------------------
\* saveClientEdit, saveClientACL, savePolicy
Save(r) ==
  /\ kind \in Editor /\ Acts(kind) /\ usable
  /\ Send(r, "save", subject)
  /\ UNCHANGED <<kind, subject, choice, opening, content, usable>>

\* Only the dialog of the client editor closes.
Saved(r) ==
  /\ Asked(r, "save")
  /\ usable' = (usable /\ kind # "client")
  /\ Over(r)
  /\ UNCHANGED <<kind, subject, choice, opening, content>>

\* Mutant: a toast is all that happens.
FailedToast(r) ==
  /\ requests[r] # None
  /\ UNCHANGED usable
  /\ Over(r)
  /\ UNCHANGED <<kind, subject, choice, opening, content>>

\* A request fails: a toast, and the editor or preview whose load it was is
\* hidden or locked.
Failed(r) ==
  /\ requests[r] # None
  /\ usable' = (usable /\ requests[r].ask \notin {"acl", "policy", "diff"})
  /\ Over(r)
  /\ UNCHANGED <<kind, subject, choice, opening, content>>

Came(r) ==
  \/ ClientCame(r) \/ PasswordCame(r) \/ AclCame(r) \/ TemplateApplied(r)
  \/ PageCame(r) \/ PolicyCame(r) \/ PairingCame(r) \/ DiffCame(r) \/ Reverted(r)
  \/ PersonaCame(r) \/ VerdictCame(r) \/ Saved(r)

Next ==
  \/ \E r \in Slot : Came(r) \/ Failed(r)
  \/ \E r \in Slot, c \in Item :
       EditClient(r, c) \/ DiffSnapshot(r, c) \/ RevertSnapshot(r, c)
         \/ TestPersona(r, c)
  \/ \E r \in Slot, c \in Item \cup {None} : LoadClientACL(r, c)
  \/ \E r \in Slot : LoadACLPage(r) \/ ApplyTemplate(r) \/ LoadPolicy(r)
                       \/ GeneratePairing(r) \/ ConfirmTest(r) \/ Save(r)
  \/ \E c \in Item : PairClient(c)
  \/ \E p \in Part : Type(p)
  \/ CloseClient \/ ClosePair \/ CloseTest

Spec == Init /\ [][Next]_vars

-----------------------------------------------------------------------------
\* A form that can be read or saved, with nothing it waits for, shows what is
\* stored for its subject and what the user typed: nothing of an earlier
\* subject, of a request that came late, or of a load that failed.  Hasty forms
\* keep this also while they wait.
UsableFormBelongs ==
  usable /\ (kind \in Hasty \/ ~Waiting) =>
    \A p \in Parts[kind] : content[p] \in {subject, "typed"}
=============================================================================
