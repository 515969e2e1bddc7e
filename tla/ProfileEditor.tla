---------------------------- MODULE ProfileEditor ----------------------------
(***************************************************************************)
(* Database profiles: the files the panel keeps and the database that      *)
(* server.json uses, and the page that lists, edits, tests, activates and  *)
(* deletes profiles (static/js/app.js), while another administrator does   *)
(* the same elsewhere.                                                     *)
(*                                                                         *)
(* A profile is its module and, with redis, its password; what else it has *)
(* is left out.  The page is sent a mark in place of a password.  A        *)
(* handler reads and checks in one step and writes in another; an answer   *)
(* may be lost after the panel has done what was asked.  The user types,   *)
(* tests and closes dialogs while requests are under way, and waits with   *)
(* what he does at the page.                                               *)
(***************************************************************************)
EXTENDS Naturals

CONSTANTS
  Profile,   \* names of profiles
  First,     \* "default", which the panel writes when it has no profile
  Text,      \* passwords
  Typed,     \* those that users type (a bound)
  Default,   \* no password
  Redacted,  \* the mark in place of a password
  None,      \* no profile, no module, nothing awaited
  Kept,      \* the profiles kept at first
  Changes,   \* changes asked for, on this page or elsewhere (a bound)
  Tests      \* tests under way at a time (a bound)

Module == {"redis", "file"}
Password == Text \cup {Default, Redacted}
Content == [module : {"redis"}, password : Password] \cup
           [module : {"file"}, password : {Default}]
Kind == {"load", "create", "update", "delete", "activate", "timer"}
Awaited == [do : Kind, name : Profile \cup {None}, content : Content \cup {None}]

\* What a handler has read, and what it is going to write: a profile's file,
\* which it may also take away, or the database in use.
Job == [do : {"file", "use"}, name : Profile,
        old : Content \cup {None}, new : Content \cup {None}]

Assumption ==
  /\ First \in Profile /\ None \notin Profile \cup Module \cup Content \cup Awaited \cup Job
  /\ {Default, Redacted} \cap Text = {} /\ Default # Redacted /\ Typed \subseteq Text
  /\ Kept \in [Profile -> Content \cup {None}] /\ Kept[First] # None
  /\ Changes \in Nat /\ Tests \in Nat

VARIABLES
  stored,    \* the panel's profile files
  database,  \* server.json["database"]
  jobs,      \* the handlers at work for this page and for another one
  changes,   \* changes asked for so far
  listed, active,  \* _dbProfiles, _dbActiveName
  window,    \* the dialog that is up
  named,     \* profileEditName, activateProfileTarget; None for a new profile
  module, password,  \* the form; the password keeps what it shows when hidden
  status,    \* the classes of profileTestStatus that matter
  tests,     \* the tests under way: of the dialog that is up, of earlier ones
  awaited,   \* the request or timer under way, or None
  entered,   \* whether the password was typed into the dialog that is up
  tested,    \* whether a test of this dialog succeeded
  mixed      \* whether one of an earlier dialog was under way when it opened

panel == <<stored, database, jobs, changes>>
page == <<listed, active>>
form == <<window, named, module, password, status, tests, entered, tested, mixed>>
vars == <<panel, page, form, awaited>>

In(do) == awaited # None /\ awaited.do = do

TypeOK ==
  /\ stored \in [Profile -> Content \cup {None}] /\ database \in Content
  /\ listed \in [Profile -> Content \cup {None}] /\ active \in Profile \cup {None}
  /\ window \in {"none", "edit", "activate"}
  /\ named \in Profile \cup {None}
  /\ module \in Module \cup {None} /\ password \in Password
  /\ status \subseteq {"hidden", "success"}
  /\ tests \in [own : 0..Tests, earlier : 0..Tests] /\ tests.own + tests.earlier <= Tests
  /\ jobs \in [{"here", "elsewhere"} -> Job \cup {None}]
  /\ awaited \in Awaited \cup {None}
  /\ {entered, tested, mixed} \subseteq BOOLEAN /\ changes \in 0..Changes

Init ==
  /\ stored = Kept /\ database = Kept[First] /\ changes = 0
  /\ listed = [n \in Profile |-> None] /\ active = None
  /\ window = "none" /\ named = None /\ module = None
  /\ password = Default /\ status = {"hidden"} /\ tests = [own |-> 0, earlier |-> 0]
  /\ awaited = None /\ jobs = [a \in {"here", "elsewhere"} |-> None]
  /\ entered = FALSE /\ tested = FALSE /\ mixed = FALSE

-----------------------------------------------------------------------------
(* The panel.                                                                *)

\* _ensure_profiles_initialized, which every handler calls.
Ensured ==
  IF \E n \in Profile : stored[n] # None THEN stored
  ELSE [stored EXCEPT ![First] = database]

\* _get_active_profile_name: the first profile that is what server.json uses.
Active(files) ==
  IF \E n \in Profile : files[n] = database
  THEN CHOOSE n \in Profile : files[n] = database
  ELSE None

\* _redact_profile_config
Redact(c) ==
  IF c # None /\ c.module = "redis" /\ c.password # Default
  THEN [c EXCEPT !.password = Redacted] ELSE c

\* Mutant: the mark is stored as it came.
RestoredAsIs(c, old) == c

\* _restore_redacted: the mark stands for the password the profile has; one
\* that has none gets the mark for a password.
Restored(c, old) ==
  IF c.password = Redacted /\ old.module = "redis" /\ old.password # Default
  THEN [c EXCEPT !.password = old.password] ELSE c

Begins(a, do, n, new) ==
  /\ jobs[a] = None
  /\ jobs' = [jobs EXCEPT ![a] = [do |-> do, name |-> n, old |-> Ensured[n], new |-> new]]
  /\ stored' = Ensured /\ UNCHANGED database

\* create_database_profile
Create(a, n, c) ==
  /\ Ensured[n] = None
  /\ Begins(a, "file", n, c)

\* update_database_profile: the module of the active profile stays.
Update(a, n, c) ==
  /\ Ensured[n] # None
  /\ c.module = Ensured[n].module \/ n # Active(Ensured)
  /\ Begins(a, "file", n, Restored(c, Ensured[n]))

\* delete_database_profile
Remove(a, n) ==
  /\ Ensured[n] # None /\ n # Active(Ensured)
  /\ Begins(a, "file", n, None)

\* activate_database_profile; the clients it migrates are left out.
Activate(a, n) ==
  /\ Ensured[n] # None
  /\ Begins(a, "use", n, Ensured[n])

\* _save_profile, unlink or store_config: what the handler made of what it read
\* is written, over what others wrote in the meantime.
Ends(a) ==
  /\ jobs[a] # None
  /\ IF jobs[a].do = "use"
     THEN database' = jobs[a].new /\ UNCHANGED stored
     ELSE stored' = [stored EXCEPT ![jobs[a].name] = jobs[a].new] /\ UNCHANGED database
  /\ jobs' = [jobs EXCEPT ![a] = None]

\* The plugin of the profile does not load, or the migration fails.
GiveUp(a) ==
  /\ jobs[a] # None /\ jobs[a].do = "use"
  /\ jobs' = [jobs EXCEPT ![a] = None]
  /\ awaited' = IF a = "here" THEN None ELSE awaited
  /\ UNCHANGED <<stored, database, changes, page, form>>

Counted == changes < Changes /\ changes' = changes + 1

\* Another administrator.
AskElsewhere(n) ==
  /\ Counted
  /\ \/ \E c \in [module : {"redis"}, password : Typed \cup {Default}] \cup
                   [module : {"file"}, password : {Default}] :
          Create("elsewhere", n, c) \/ Update("elsewhere", n, c)
     \/ Remove("elsewhere", n) \/ Activate("elsewhere", n)
  /\ UNCHANGED <<page, form, awaited>>

EndsElsewhere ==
  /\ Ends("elsewhere")
  /\ UNCHANGED <<changes, page, form, awaited>>

-----------------------------------------------------------------------------
(* The page.                                                                 *)

AtPage == window = "none" /\ awaited = None
Editing == window = "edit"
Awaiting(do, n, c) == [do |-> do, name |-> n, content |-> c]

\* loadDatabasePage
LoadPage ==
  /\ AtPage
  /\ awaited' = Awaiting("load", None, None)
  /\ UNCHANGED <<panel, page, form>>

\* list_database_profiles answers.
PageCame ==
  /\ In("load")
  /\ stored' = Ensured
  /\ listed' = [n \in Profile |-> Redact(Ensured[n])] /\ active' = Active(Ensured)
  /\ awaited' = None
  /\ UNCHANGED <<database, jobs, changes, form>>

Opened ==
  /\ window' = "edit" /\ status' = status \cup {"hidden"} /\ mixed' = (tests.earlier > 0)
  /\ UNCHANGED <<tests, entered, tested>>

\* Mutant: the fields keep what they showed.
ShowCreateOver ==
  /\ AtPage
  /\ Opened
  /\ named' = None /\ module' = None /\ UNCHANGED password
  /\ UNCHANGED <<panel, page, awaited>>

\* showCreateProfileModal
ShowCreate ==
  /\ AtPage
  /\ Opened
  /\ named' = None /\ module' = None
  /\ password' = Default
  /\ UNCHANGED <<panel, page, awaited>>

\* Mutant: the verdict of an earlier test stays.
ShowEditTested(n) ==
  /\ AtPage /\ listed[n] # None
  /\ window' = "edit"
  /\ named' = n /\ module' = listed[n].module
  /\ password' = IF listed[n].module = "redis" THEN listed[n].password ELSE password
  /\ mixed' = (tests.earlier > 0)
  /\ UNCHANGED <<panel, page, status, tests, entered, tested, awaited>>

\* showEditProfileModal: a file profile leaves the hidden password as it was.
ShowEdit(n) ==
  /\ AtPage /\ listed[n] # None
  /\ Opened
  /\ named' = n /\ module' = listed[n].module
  /\ password' = IF listed[n].module = "redis" THEN listed[n].password ELSE password
  /\ UNCHANGED <<panel, page, awaited>>

\* onProfileModuleChange
ChooseModule(m) ==
  /\ Editing
  /\ module' = m
  /\ UNCHANGED <<panel, page, window, named, password, status, tests, entered, tested,
                 mixed, awaited>>

\* The user fills in the password; the verdict of the test stays.
Type(text) ==
  /\ Editing /\ module = "redis"
  /\ password' = text /\ entered' = TRUE
  /\ UNCHANGED <<panel, page, window, named, module, status, tests, tested, mixed, awaited>>

\* _collectProfileConfig
Collected ==
  [module |-> module, password |-> IF module = "redis" THEN password ELSE Default]

\* testProfileInModal
Test ==
  /\ Editing /\ module # None
  /\ tests.own + tests.earlier < Tests
  /\ tests' = [tests EXCEPT !.own = @ + 1] /\ status' = {}
  /\ UNCHANGED <<panel, page, window, named, module, password, entered, tested, mixed, awaited>>

\* The backend can be reached or not, or there is no answer.  The verdict is
\* shown whatever dialog is up, or none; a failure does not take away the
\* success of another test, and hidden stays hidden.
TestCame(which, ok) ==
  /\ tests[which] > 0
  /\ tests' = [tests EXCEPT ![which] = @ - 1]
  /\ status' = IF ok THEN status \cup {"success"} ELSE status
  /\ tested' = (tested \/ (which = "own" /\ ok))
  /\ UNCHANGED <<panel, page, window, named, module, password, entered, mixed, awaited>>

\* saveProfile
Save(n) ==
  /\ Editing /\ awaited = None /\ module # None
  /\ status = {"success"}
  /\ named # None => n = named
  /\ awaited' = Awaiting(IF named = None THEN "create" ELSE "update", n, Collected)
  /\ Counted /\ UNCHANGED <<stored, database, jobs, page, form>>

\* A dialog closes; its tests go on.  What every opening sets is forgotten; the
\* password and the verdict stay.
Closed ==
  /\ window' = "none" /\ named' = None /\ module' = None
  /\ tests' = [own |-> 0, earlier |-> tests.own + tests.earlier]
  /\ entered' = FALSE /\ tested' = FALSE /\ mixed' = FALSE

\* closeProfileModal
CloseEditor ==
  /\ Editing
  /\ Closed
  /\ UNCHANGED <<panel, page, password, status, awaited>>

\* The page's request reaches its handler.
Reached ==
  /\ \/ In("create") /\ Create("here", awaited.name, awaited.content)
     \/ In("update") /\ Update("here", awaited.name, awaited.content)
     \/ In("delete") /\ Remove("here", awaited.name)
     \/ In("activate") /\ Activate("here", awaited.name)
  /\ UNCHANGED <<changes, page, form, awaited>>

\* An operation is done and answered: the page is loaded again.
Reloads == Closed /\ awaited' = Awaiting("load", None, None)

\* The panel has done it, and its answer is lost.
Lost == awaited' = None /\ UNCHANGED <<window, named, module, tests, entered, tested, mixed>>

Saved(answered) ==
  /\ In("create") \/ In("update")
  /\ Ends("here")
  /\ IF answered THEN Reloads ELSE Lost
  /\ UNCHANGED <<changes, page, password, status>>

\* deleteProfile, confirmed; the active profile shows no such button.
Delete(n) ==
  /\ AtPage /\ listed[n] # None /\ n # active
  /\ awaited' = Awaiting("delete", n, None)
  /\ Counted /\ UNCHANGED <<stored, database, jobs, page, form>>

Deleted(answered) ==
  /\ In("delete")
  /\ Ends("here")
  /\ IF answered THEN Reloads ELSE Lost
  /\ UNCHANGED <<changes, page, password, status>>

\* activateProfile
ShowActivate(n) ==
  /\ AtPage /\ listed[n] # None /\ n # active
  /\ window' = "activate" /\ named' = n
  /\ UNCHANGED <<panel, page, module, password, status, tests, entered, tested, mixed, awaited>>

\* closeActivateProfileModal
CloseActivate ==
  /\ window = "activate"
  /\ Closed
  /\ UNCHANGED <<panel, page, password, status, awaited>>

\* confirmActivateProfile
ConfirmActivate ==
  /\ window = "activate" /\ awaited = None
  /\ awaited' = Awaiting("activate", named, None)
  /\ Counted /\ UNCHANGED <<stored, database, jobs, page, form>>

\* The page takes the profile for the active one, and after a moment closes the
\* dialog and asks for a restart (PluginDialogs).
Activated(answered) ==
  /\ In("activate")
  /\ Ends("here")
  /\ IF answered
     THEN active' = awaited.name /\ awaited' = Awaiting("timer", None, None)
     ELSE awaited' = None /\ UNCHANGED active
  /\ UNCHANGED <<changes, listed, form>>

TimeToClose ==
  /\ In("timer")
  /\ Closed /\ awaited' = None
  /\ UNCHANGED <<panel, page, password, status>>

\* The panel refuses, or the request does not reach it: a toast, or an error in
\* the dialog.
Failed ==
  /\ awaited # None /\ ~In("timer") /\ jobs["here"] = None
  /\ awaited' = None
  /\ UNCHANGED <<panel, page, form>>

Next ==
  \/ LoadPage \/ PageCame \/ ShowCreate \/ Test \/ CloseEditor \/ Reached
  \/ CloseActivate \/ ConfirmActivate \/ TimeToClose \/ Failed \/ EndsElsewhere
  \/ \E n \in Profile : \/ ShowEdit(n) \/ Save(n) \/ Delete(n) \/ ShowActivate(n)
                        \/ AskElsewhere(n)
  \/ \E m \in Module \cup {None} : ChooseModule(m)
  \/ \E t \in Typed \cup {Default} : Type(t)
  \/ \E ok \in BOOLEAN, which \in {"own", "earlier"} : TestCame(which, ok)
  \/ \E b \in BOOLEAN : Saved(b) \/ Deleted(b) \/ Activated(b)
  \/ \E a \in {"here", "elsewhere"} : GiveUp(a)

Spec == Init /\ [][Next]_vars

-----------------------------------------------------------------------------
Saving == awaited = None /\ awaited' # None /\ awaited'.do \in {"create", "update"}

\* Nothing is saved from a dialog in which no test has succeeded since it was
\* opened: "Test the connection first before saving" (saveProfile).  If a test
\* of an earlier dialog was still under way when this one opened, its success
\* counts, too: testProfileInModal does not tell the dialogs apart.
TestedBeforeSaved == [][Saving => tested \/ mixed]_awaited

\* The password that is saved for a redis profile is what the user typed or what
\* the list showed for it, and for a new profile what the user typed or none: not
\* that of a profile edited before.  A file profile that is moved to redis is
\* left out: the field may show such a password.
SavesItsOwn ==
  [][Saving /\ module = "redis" =>
       \/ entered
       \/ named = None /\ awaited'.content.password = Default
       \/ named # None /\ listed[named].module = "redis"
          /\ awaited'.content.password = listed[named].password
       \/ named # None /\ listed[named].module = "file"]_awaited

\* A password the user did not touch is still the profile's after the edit,
\* also one that was changed elsewhere after the page was loaded
\* (update_database_profile: "restore the real secret from the existing profile
\* before saving").  A change that falls between the handler's reading of the
\* profile and its writing is left out: the edit undoes it.
UntouchedPasswordStays ==
  [][\A n \in Profile :
       /\ In("update") /\ awaited.name = n /\ awaited.content.password = Redacted
       /\ jobs["here"] # None /\ jobs'["here"] = None /\ jobs["here"].old = stored[n]
       /\ stored[n] # None /\ stored[n].module = "redis" /\ stored[n].password # Default
       => stored'[n].password = stored[n].password]_<<stored, jobs>>
=============================================================================
