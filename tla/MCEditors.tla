------------------------------ MODULE MCEditors ------------------------------
(***************************************************************************)
(* The persona editor, the database profiles, the clients page and the     *)
(* other forms of the page for TLC.  They share no state: a behaviour      *)
(* exercises one of them and the others stay as they start.  So what is    *)
(* said of one of them is looked at where it is exercised.                 *)
(***************************************************************************)
EXTENDS MCPersonaEditor

CONSTANTS
  c1, c2, r1, r2, r3, Item, Slot, Opening, Hasty,
  p1, p2, t, kept, Profile, First, Text, Typed, Default, Redacted, Kept, Changes, Tests,
  Most, PerPage, Searches, NoOne

VARIABLES
  kind, subject, choice, opening, content, usable, requests,
  stored, database, jobs, changes, listed, active, window, named, module,
  password, status, tests, awaited, entered, tested, mixed,
  clients, revoked, allClients, filteredClients, currentPage, marked,
  modal, form, button, revealed, calls, owed,
  exercised

forms == <<kind, subject, choice, opening, content, usable, requests>>
profiles == <<stored, database, jobs, changes, listed, active, window, named,
              module, password, status, tests, awaited, entered, tested, mixed>>
page == <<clients, revoked, allClients, filteredClients, currentPage, marked,
          modal, form, button, revealed, calls, owed>>

\* A redis profile with a password, which is in use, and a file profile.
KeptProfiles ==
  (p1 :> [module |-> "redis", password |-> kept]) @@
  (p2 :> [module |-> "file", password |-> Default])

\* A search that finds all, and one that finds the odd ones.
TwoSearches == {1..Most, {c \in 1..Most : c % 2 = 1}}

Forms == INSTANCE FormEditors
Profiles == INSTANCE ProfileEditor
Clients == INSTANCE ClientsPage

ASSUME EditorsAssumption ==
  Forms!Assumption /\ Profiles!Assumption /\ Clients!PageAssumption

EditorsInit ==
  /\ Init /\ Forms!Init /\ Profiles!Init /\ Clients!Init
  /\ exercised \in {"persona", "form", "profile", "clients"}
  /\ exercised # "form" => kind = "client"
  /\ exercised # "clients" => clients = 0

EditorsNext ==
  /\ UNCHANGED exercised
  /\ \/ exercised = "persona" /\ Next /\ UNCHANGED <<forms, profiles, page>>
     \/ exercised = "form" /\ Forms!Next /\ UNCHANGED <<vars, profiles, page>>
     \/ exercised = "profile" /\ Profiles!Next /\ UNCHANGED <<vars, forms, page>>
     \/ exercised = "clients" /\ Clients!Next /\ UNCHANGED <<vars, forms, profiles>>

EditorsSpec == EditorsInit /\ [][EditorsNext]_<<vars, forms, profiles, page, exercised>>

\* The forms, the profiles with their dialogs and the clients page keep their
\* form.
EditorsTypeOK ==
  /\ exercised = "persona" => TypeOK
  /\ exercised = "form" => Forms!TypeOK
  /\ exercised = "profile" => Profiles!TypeOK
  /\ exercised = "clients" => Clients!TypeOK

\* What a form shows belongs to its subject (FormEditors).
UsableFormBelongs == exercised = "form" => Forms!UsableFormBelongs

\* The secrets of a new client are seen (ClientsPage).
SecretsAreShown == exercised = "clients" => Clients!SecretsAreShown

\* The table is not past its last page (ClientsPage).
PageHasRows == exercised = "clients" => Clients!PageHasRows

\* Nothing untested is saved (ProfileEditor).
TestedBeforeSaved == Profiles!TestedBeforeSaved

\* A save holds the profile's own password (ProfileEditor).
SavesItsOwn == Profiles!SavesItsOwn

\* A password that is left alone stays (ProfileEditor).
UntouchedPasswordStays == Profiles!UntouchedPasswordStays
=============================================================================
