# hivemind-admin-panel in TLA+

A model of the panel's core logic, checked by TLC on small instances and proved
by TLAPS where a statement matters for every size.  The reference is the code
(`src/hivemind_admin_panel/`); a definition's source lines are in `PROJECT.json`
under `map`.

## 1. The system

A FastAPI application that runs inside the hivemind-core process (or alone,
`--no-core`), and a single web page that calls it.  Nearly all handlers are plain
`def` functions: the ASGI server runs them on a pool of threads, so any two may
overlap between any two statements.  State is shared in three ways: a database
of clients, JSON files that are read and rewritten whole, and objects in the
process.

| component | state | operations | interacts with |
|---|---|---|---|
| client database access (`api.py` 61-82, 1318-1800, 3180-3330) | rows of clients; one process-wide `RLock` | create, update, rename, revoke, flags, message/skill/intent lists, ACL editor, template, tags | hivemind-core, which reads the same table |
| bulk, bridge, restore (`api.py` 4560-4610, 5210-5260, 4880-4945) | the same rows | several of the above in one request | client table, server.json, servers.json |
| server.json and snapshots (`api.py` 840-1150, `_auth.py` 120-170) | the file, up to 20 snapshots | load, edit, store, snapshot, prune, revert, first-use signing key | every handler that configures anything; an operator's editor |
| authentication (`api.py` 200-330, `_auth.py`) | signing key, failure counts, stream tickets | login, bearer and Basic checks, password change, throttle, tickets | server.json |
| test chat (`_chat.py`, `api.py` 5265-5345) | registry of sessions, their connections and transcripts | start, say, poll, end, idle reaping, eviction | the hub, over a websocket |
| persona chat (`_persona_chat.py`) | the same registry, for personas | the same | persona plugins |
| test chat page (`app.js` 1414-1507) | current session, count of seen messages, timer | start, send, poll, end | the endpoints above |
| event feed, metrics (`_metrics.py`, `api.py` 4220-4270) | ring buffer, counters | record, snapshot, stream | every mutation |
| database profiles, migration (`api.py` 2188-2980) | one JSON file per profile; databases | create, edit, delete, activate, migrate, copy, clear | server.json, client table |
| personas, presets, servers, ACL templates | one JSON file each or a directory of them | create, edit, delete, activate, apply | server.json |
| plugins (`api.py` 1937-2180) | installed packages | install, enable, remove | pip, server.json |
| launcher (`__init__.py`, `__main__.py`, `api.py` 120-190, 1157-1201) | core objects, startup error, listening socket | start core, bind with retry, restart | hivemind-core |
| page: session (`app.js` 90-130, 205-420) | token in memory and in `sessionStorage`, kept password, screen, first-run dialog, health timer | resume, login, first-run password, logout, navigate, reload, a 401 of any call | authentication; every page |
| page: plugin dialogs (`app.js` 130-205, 3840-4480) | stack of dialogs, callback of the confirm dialog, progress, restart banner | install, reinstall, upgrade, enable, restart, Escape | plugin endpoints, restart endpoint |
| page: forms filled by requests (`app.js` 600-660, 940-1330, 1713-1960, 3265-3330) | what each is open for, what it holds | client, ACL and policy editors, pairing dialog, snapshot preview, persona test | their endpoints |
| page: persona editor (`app.js` 2690-3265) | solvers, settings beside their boxes, memory | create, edit, toggle, move, type, save | persona files |
| page: database profiles (`app.js` 1963-2330) | list, form, verdict of the test | create, edit, test, save, activate, delete | profile files, server.json |
| page: clients (`app.js` 1195-1410) | list, search, page number, dialogs with secrets | load, search, turn, create, bridge, delete | client endpoints |
| page: live view, monitor, servers, presets, topology (`app.js`) | what they show | load, one form each | their endpoints |

The page is one thread, but each function that awaits an answer goes on later, over
whatever the user and the other functions have made of the page meanwhile.

**What is hard.** Read-modify-write of rows and of a file by overlapping
handlers; handlers that take the client lock beside ones that do not; a file that
an operator may break by hand; a password change, which must invalidate what was
handed out, beside handlers that hold an older copy; several writes in one request
of which one may fail; a registry that gives up its lock for up to 15 seconds in
the middle of an operation; polls of a page that overlap and get lost.  In the page, one set of globals
and one dialog serve every client, persona or profile in turn: an answer that comes
late or fails must not mix them.
`PROJECT.json` lists these under `hazards`, each at its line.

**What makes each part correct.**

* Clients: an edit never undoes another one; a revoked client stays revoked; a
  restore grants no more than its bundle; the lock is always given back.
* server.json: each request works on one whole copy of a readable file; a change
  can be reverted; no edit logs anyone out; a broken file is never edited.  A
  password change should revoke tokens, and a broken file should be kept: neither is
  so (section 4).
* Chat registry: a connection is neither forgotten nor closed twice; the registry is
  bounded; failed sessions leave; every start is answered.
* Chat page: no message of the session is skipped, all are shown.
* Page session: a reload resumes what the page holds; the plaintext password goes with the
  session; the first-run dialog stays until the default password is gone; an
  app that is entered shows something.
* Plugin dialogs: a change waits for its restart behind a prompt or banner; a
  success is one the panel reported; an install ends in a report.
* Forms: what a usable form shows, and what it saves, belongs to what it is open for.
* Profiles: nothing untested is saved; a save writes what its own dialog shows; a
  password left alone stays.
* Clients page: the secrets of a new client, sent once, are seen; the table is
  never past its last page.
* Not modelled: a ticket opens one stream; migration can be repeated; a failed bind
  is reported (section 6 says why).

## 2. Modules

| module | models |
|---|---|
| `ClientRow` | a row of the client table and the edits of it |
| `AtomicClients` | abstract: operations on clients that take effect at one moment |
| `ClientStore` | the handlers, statement by statement, on a pool of threads, with the lock |
| `ClientEndpoints` | what each client endpoint asks of `ClientStore` |
| `ServerConfig` | server.json as a function from paths to values, and its edits |
| `ConfigCopies` | abstract: a request takes one whole copy of the file and writes one edit of it |
| `ConfigStore` | guards, authentication, load, edit, store, snapshot, revert, key rotation |
| `ConfigEndpoints` | what each configuration endpoint asks of `ConfigStore` |
| `SessionRegistry` | `ChatSessions` (and its twin for personas) on a pool of threads |
| `ChatPage` | the Test Chat page against its endpoints |
| `WebSession` | the session of a browser tab against the server's password and key |
| `PluginDialogs` | the stacked dialogs and the plugin operations, with the restart prompt |
| `FormEditors` | six forms filled by requests; a behaviour is about one of them |
| `PersonaEditor` | the persona editor and the files it replaces |
| `ProfileEditor` | database profiles, the page's dialogs, and another administrator |
| `ClientsPage` | the client table and the two dialogs that show secrets once |
| `MC*` | instances for TLC; `MCEditors` takes the last four, one per behaviour |
| `*Proofs` | the theorems, one module per component; `PersonaEditorProofs` is about `PersonaEditor`, `EditorsProofs` about `MCEditors`: the forms, the profiles and the clients page |

Definitions called "Mutant" in a comment are deliberately wrong versions of the
definition that follows.  Nothing uses them: `PROJECT.json` names, for each
property, one that the property's run refutes.

### Clients

`ClientStore` has a table `db`, the `lock`, and per thread a program counter, the
units of work of its request and the row it holds in its hands.  A unit is one
client operation; `bulk_clients` has one per id and goes on after an error,
`import_backup` one per bundle row and stops.  `Acquire` is entry to
`client_db_write()`; `Load`, `Store`, `Delete`, `Add`, `Restore`, `AddRow` and
`Reload` are single database statements and may interleave with anything; `Finish`
leaves the `with` block.  `Fail` is a database call that raises.  `add_client`,
`delete_client` and `import_backup` take no lock, as in the code.

Abstractions: description, password and last_seen are left out (no property
tells them apart); the key generated for row *i* is called *i*; endpoints refused
before they reach the database ask for nothing.  `add_client` of a key that is
there already makes a second row, which is what the comments on duplicates in
`_migrate_clients` take for granted.

### server.json

A configuration is a function from paths to values; each endpoint writes a
patch.  A request goes through the two middleware guards (`Admit`), authentication
(`Identify`, `Login`, `Sign`), the handler (`Handle`, then `Snapshot`, `Load`,
`Store`, `Rotate`, or `Restore` for a revert), and `Audit`, which identifies the
caller again after the answer and may store a new signing key.  Each of those is a
separate step, so what one read may be stale when it writes.  `Break` is an edit by
hand that leaves a file nobody can parse; `BreakWhen` says whether that happens never,
only between requests ("quiet"), or at any moment.  With `MayFail` any write may fail.

`ConfigCopies` forgets the guards, the callers and the endpoints and keeps what they
may do to the file: take a copy of it while it is readable, or of a snapshot that was
chosen, or of the key a token is checked with, and write one request's edit of that
very copy.  A changing request that snapshots has tried to before it takes its copy.

Abstractions: the two guards read the file in one step; nested values are flattened to
the paths handlers replace; a snapshot and the pruning after it are one step and
snapshots have no names, so a revert may ask for any of them; the password policy
and a missing file are left out; a handler's own second look at who called is
folded into `Audit`.  `retired`, the history variable of tokens a password change
has promised to revoke, is emptied by a revert, which brings back the old password and
key on purpose.

### Chat

`SessionRegistry` splits `create()` where the code leaves its lock: `Start` makes
room (idle sessions, the client's own, the least recently used), `Handshake` waits,
`Register` takes the lock again.  `Check` is what the endpoint does with the
error.  `Take` and `CloseBus` are the two halves of `close()`.  `rank` orders
sessions by `last_used`; "idle" is any prefix of that order.  An id is used
again once nothing refers to it, so ids bound only what exists at one time.
Errors while closing a connection are swallowed by the code and left out.

`ChatPage` is the state of the page (`_chatSession`, `_chatSeen`, the bubbles, the
timer) and the requests it has under way; a message is its position in its
transcript.  Answers may be lost, late or out of order; the registry may drop the
session.  With `Patient` the user starts a session only with nothing under way.
Without it TLC finds the hazard recorded at `app.js:1500`: a poll of the old
session, answered after the new one began, sets `_chatSeen` from the old
transcript, and the first messages of the new session are never asked for.

### Page

In these modules a call is under way in a slot until the function that awaits it
goes on.  What the user does and what answers do are separate actions, so an answer
meets the page as it is then.  `Slot` bounds the calls under way at one time.

`WebSession`: the server's password and key, the two copies of the token, the kept
password, the screen, and calls of which answer (`Answer...`, `Fail`) and arrival
(`Logged...`, `Got...`, `Answered`, ...) are separate, because the server may change
in between.  A bearer token is the generation of its key, so "expired" and "revoked"
are one thing; `Rekey` is a change by somebody else.  `LastKey` bounds the
generations.  The two stages of the setup and the text of messages are left out.

`PluginDialogs`: `stack` is `_modalStack`; `callback` what the confirm dialog does.
An answer is used at once by what awaits it, except for installs, whose later
requests and timers are steps of their own.  All installs share one progress dialog:
its heading names the package that was begun last (`named`), its outcome is the one that
came last (`about`), and `overlapped` says that the heading may not be the outcome's.
`reported` is what was reported as done, installs apart from other changes.  What
pip does is only its verdict.  The lists of plugins and the fields of forms are left out.

`FormEditors`: content is abstracted to whose it is (`Item`, `None`, `"typed"`).  The
user waits for answers, except in the `Hasty` forms: the policy editor, which locks
itself while it loads, and the pairing dialog, which tells its openings apart.  For
the others the code has no such guard and `UsableFormBelongs` fails for a hasty user
(section 4), so the statement is about what is shown once nothing is under way.

`PersonaEditor`: `boxes` are the fields drawn, `settings` the object kept beside them;
every redraw reads the one into the other first, as `renderSolverConfigSections` does.
The dialog is up before its solvers are: until they come, the user may toggle, move, type
and close over those of the persona before.  Only the next opening and the next save wait
for what is under way.  `opened` is the stored persona the dialog was opened on, and
`sent` a save that is under way; with `Busy` the user works on meanwhile (in
`page_persona`, not in `page_editors`, where it would be the larger half of the states).
The text of a memory's own settings is left out.  `Saves` bounds the saves that reach the
panel, never what one may hold.

`ProfileEditor`: a profile is a module and, for redis, a password, which the page is
sent as a mark.  A handler reads and checks in one step (`Begins`) and writes in another
(`Ends`), so two of them cross: create, update, delete and activate, from this page and
from another administrator's.  A test goes on when its dialog is closed, and its success
counts for whatever dialog is up when it comes (`tests.own`, `tests.earlier`; `mixed`
says that the dialog was opened with an earlier test still under way).  The user types,
tests and closes while other requests are under way.  A lost answer leaves the panel
changed and the page ignorant.  `Changes` bounds how many changes are asked for in all,
`Tests` how many tests are under way at a time; the files kept at first give each change
something to meet.

`ClientsPage`: clients are numbered as they are created, and never leave the table
(deletion revokes).  The user may press any button the page leaves enabled, but does
not close a dialog that has not answered.  `PerPage` is 2 instead of 10, `Most` is 3:
the last page appears and disappears.  A search is a set of the clients it finds.

`MCEditors` holds these four without shared state; `exercised` chooses one per
behaviour, and the others stay as they start.


## 3. What the runs check

| run | question | bounds | states |
|---|---|---|---|
| `clients_locked` | is every locked edit atomic (refinement of `AtomicClients`), whatever fails? | 2 threads, 2 ids, one of them free, every editing endpoint | 1 603 584 |
| `clients_mixed` | with deletes, additions and restores beside: mutual exclusion, stale copies only after a revocation, the lock given back | 2 threads, 3 ids, two of them free | 257 492 |
| `clients_revoked` | (violated) does a revocation stick? | an edit and a delete | |
| `config_overlap` | what requests do to the file (refinement of `ConfigCopies`); do tokens keep working; is a broken file never edited? | 2 threads, 3 keys, writes that may fail, a file broken between requests | 926 327 |
| `config_revoked` | (violated) does a password change revoke tokens? | 2 threads, edits beside the change | |
| `config_broken` | (violated) is a broken file kept? | 2 threads, a login with the default password | |
| `chat_registry` | connections, bounds, failures, answers | 2 threads, 3 clients, room for 2 | 328 889 |
| `chat_page` | nothing skipped, everything shown | 2 sessions, 2 polls under way, 2 messages | 28 360 |
| `page_session` | token, password and first-run dialog through overlapping calls; entry arrives | 2 calls under way, 2 passwords, 3 keys | 761 517 |
| `page_plugins` | restart prompt, true successes, installs that end | 2 operations, 2 packages | 441 684 |
| `page_editors` | what forms show and save, profiles, secrets shown once, the table's pages | 2 personas and solvers, 1 save; 2 profiles, 2 changes and 2 tests of them; 3 requests of a form; 3 clients on pages of 2 | 2 169 124 |
| `page_persona` | (violated) does a save without a change keep a persona's settings? | 2 personas, 2 solvers | |

Why the bounds are enough: every property is about two parties (two handlers of
one row or file, two starts, two polls, two calls of a page), and two threads meet in
every order of their statements.  A third thread repeats what the second does; the
theorems hold for any number.  One free id lets a creation meet everything else, two
let creations meet each other.  The number of keys bounds how many requests that
generate one are accepted, never what an accepted one may do (`Room`).  `Keep` is 1
instead of 20: pruning happens at once.  A registry of two is full with one more
start than it has room for, and two threads bring two such starts.  Three keys in
`page_session` give a session a change of its own and one by somebody else.  Three
requests in `FormEditors` are an earlier opening's, and the two of the pairing dialog.
Two items are one a form is open for and one it was open for.

In `clients_mixed` no request edits a client that a restore writes: the restore takes no
lock, and `StaleOnlyByRevocation` is false of two that meet in one row (section 4).

The page's properties name what they leave out, and section 4 says what happens there.
`TypedIsKept` and `SaveMixesNothing` are about what the user did in a dialog whose
solvers have come; `EditKeepsSettings` is about what the user left alone, and fails.
`TestedBeforeSaved` leaves out a dialog opened while an earlier one's test was under
way; `UntouchedPasswordStays` an update that another change crosses between its read and
its write; `ChangesPromptARestart` installs; `SuccessIsThePanels` says of installs that
overlap only that the success is the panel's, not that the heading names it.

Deadlock is checked everywhere except in `chat_page`, where the user may
rightly stop.

**Fairness.** `ClientStore!FairSpec`: a thread that can run, runs (weak fairness of
`Proceed`); nothing is assumed of who gets the lock or of requests arriving.
`SessionRegistry!FairSpec`: the same; the handshake is waited for 15 seconds at
most, so `Handshake` is always enabled.  The hub owes nothing.  `ChatPage!FairSpec`:
the timer ticks; a poll that is made again and again is answered in the end and an
answer that is sent again and again arrives (strong fairness).  Without it the
network may lose every poll, and nothing can be shown.  `WebSession!FairSpec` and
`PluginDialogs!FairSpec`: a request under way is answered or fails (`fetch` settles,
the browser gives up in the end), timers fire, and the function that awaits goes
on.  Which of the two it is, is never assumed; the user owes nothing.

## 4. Where the code and what is said of it differ

Four runs look for, and find, a violation of something the code's documents or
comments say.

* `clients_revoked`: `delete_client` takes no lock.  A handler that has loaded the row
  stores it again, with its key, after the deletion.
* `config_revoked`: a handler that loaded server.json before a password change and
  stores it afterwards brings the old signing key back, and the old password
  (api.py:5546; docs/security.md:18 says that a change revokes every token).
* `config_broken`: with a file that does not parse, a login (with the default password)
  or a bearer check finds no key in the defaults, generates one and stores the defaults
  over the file (`_secret`, `_auth.py:138`; the docstring at api.py:4475 promises that
  they are not written back).
* `page_persona`: opening a persona and saving it drops the settings of its
  solvers.  `editPersona` restores them into `_solverConfigs`, but the redraw that
  follows first reads the boxes, which it has just emptied.

The following were met while modelling and have no run of their own.

*Clients.*  A restored client is added with the library's permissive flags and
narrowed by a second write; when that fails the wide row stays and a second attempt
skips it.  A restore edits rows without the lock and may overwrite an edit.
`delete_client` deletes by the key it read in an earlier statement; an update of the
key in between makes it miss.  `list.remove` drops one of a repeated entry.  Clients
created between a migration and the restart it asks for stay in the old database.

*server.json.*  Two edits that overlap lose the first: each stores the whole copy it
took, and `ConfigCopies` allows that, as it says only that every write is one edit of
one whole copy.  A file that is broken by hand after the guard has looked at it is read
as the defaults, and the edit of those is stored.  The second write of a password change
may fail and the answer still says `tokens_revoked`.  Two first logins generate two
keys, of which the later one stays.  Two snapshots of one second may choose one name.
docs/operations.md:101 speaks of a snapshot before every change; five handlers (`Quiet`)
store without one.

*Chat.*  Two starts for one client that overlap leave two sessions, where
docs/test-chat.md:59 promises one live session per client: both make room, then
both register.  In the page, a poll of the previous session that is
answered after a start sets `_chatSeen` from the old transcript, and two polls that
overlap show their messages twice.

*Session of the page.*  After the first-run password has been set, nothing starts the
health poll, although the comment at app.js:271 says that `submitFirstRunPassword`
calls `enterApp` again.  The poll goes on after a logout.  A late 401 of an old token
ends a new session.  When the login after the change of the password fails, the
first-run dialog is left standing over the login screen.  The minimum of 8 characters
is looked at by the page only.

*Plugins.*  An install answers `requiresRestart`, and the page never looks at it
(app.js:4034), so installs do not prompt a restart, though docs/operations.md:91 says
that all of the lifecycle does; the list it fetches afterwards is not looked at either.
There is one progress dialog, and each install writes its package into the heading
(app.js:3871): when a second begins before the first is done, the success of the first is
shown under the name of the second.  An agent that is enabled but fails to
activate leaves a change without a prompt.  `executeConfirm` closes the dialog that its
own callback opened (app.js:3844), and the timer of a finished install closes whatever
dialog is open by then.  The banner is lost on reload.  The first request of
`updateActiveBinaryConfig` is not caught; it enables the module again and sets its voice
settings to `{}`.  `showEnableBinaryPluginModal` and its submit (app.js:4222-4350) are
never called.

*Forms, for a user faster than the network.*  Two overlapping `showEditClientModal`
mix two clients; an ACL save while another client's ACL loads goes to the wrong one;
a snapshot's difference shown after its revert is an old one.  A verdict of a persona
test stays when what was tested has changed.  `generatePairing` twice, or the live view
switched on twice, leaves an object URL or an event source behind.

*Persona and preset editors.*  `editPersona` shows its dialog (app.js:3160) before it
awaits the solvers, and replaces those of the persona before only when they have come
(3168-3177); `savePersona` (3075) does not wait for it, so an early save stores the
earlier persona's solvers and settings under this one's name.  (Closing the dialog
before they come and opening another is left out of the model.)  Broken JSON in a box is
wiped by the next redraw, unless it is saved first, which is refused.  A persona without
memory gets one on edit.  The preset editor keeps an earlier preset's text when the new
one has no configuration, shows an empty preset when its request fails, and drops keys
it has no field for.

*Profiles.*  Switching the module back shows the earlier password or mark, and stores
it; so may a file profile that is moved to redis, with the password of the profile edited
before.  The verdict of a test stays after the fields change (`TestedBeforeSaved` says
that a test passed in the dialog, not that it tested what is saved), and the success of a
test that an earlier dialog began counts for the next one (app.js:2042-2044 cannot tell
them apart), which may then be saved untested.  The test of a stored redis profile posts
the mark as the password.  An update reads the profile at api.py:2589 and writes all of it
at 2609, so a password stored in between is overwritten with the one before.  A deletion
looks for the active profile (2634) and unlinks later (2642); an activation in between
(2717-2719) leaves the active database without its profile, where api.py:2618 says "The
currently active profile cannot be deleted."  After an edit of the active profile none
matches server.json, so none is active and each may be deleted.

*Clients page.*  `loadClients` lists all and leaves the text of the search.  A filter on
fields that a list may lack (`api_key` for readers, a null name) throws.  A lost answer of
`addClient` followed by a retry makes two clients.  For a user who closes a dialog
before it answers, the secrets of the next client may replace those of the last.

## 5. What is proved

All proofs are for any threads, requests, calls and sizes, under the named assumptions
of the modules (what a request looks like, markers that are no values), which TLC
evaluates on every run.

**ClientStoreProofs.**  The inductive invariant is `IInv == TypeOK /\
MutualExclusion /\ ControlOK`: types are not inductive alone, because a row is
stored from a copy and for an operation that only the program counter promises.
Each action has a lemma; `FinishInv` and `HoldInv` are what they share.
`ControlOK`, which holds a row in hand wherever the next statement uses one, is stated with
the proofs only.  `TypeCorrect` and `LockExcludes` follow.  `LockedCopiesAreCurrent` needs
`CopyOK` on top (a locked thread's copy is the row, or the row was revoked) and
`NoRestores`: a restore edits its row without the lock, so with restores the statement is
false.  `LockedHandlersAreAtomic` is the refinement of `AtomicClients`
(`Atomic == INSTANCE AtomicClients WITH ...`), and excludes deletes too, for the
reason `clients_revoked` shows.

**ConfigStoreProofs.**  `IInv == TypeOK /\ HandOK` (a thread about to write holds a
configuration); `TypeCorrect` follows.  The rest is for any number of threads, with
writes that fail and a file that breaks between two requests (`BrokenQuietly`: the
statements are false of one that breaks between a guard and a load, section 4).  Two
invariants carry it.  `KindOK` says where a request of which kind can be, and what it
has found out by then.  `BrokenInv` says that, while the file is broken, whatever is on
its way to a write restores a snapshot or signs with a new key.

* `RequestsWorkOnCopies` is the refinement of `ConfigCopies`: what a thread has in hand
  is the abstract `work`, and a snapshot behind it the abstract `saved` (`WorkMap`,
  `SavedMap`); there is one lemma per step.
* `BrokenFilesAreNotEdited` is an action property: what replaces a broken file is a
  snapshot that was chosen, or the defaults with a fresh key.  `config_broken` shows that
  the second happens.
* `EditsLogNobodyOut` also assumes that no request names a key of its own and that there is
  one to begin with (`KeysAreNotRequested`).  Until a second key is generated, the file,
  the snapshots, every token, and every copy about to be written have the first
  (`SteadyKeyInv`), however old the copy is.  After that old copies do bring back old
  keys, which is `config_revoked`.

**SessionRegistryProofs.**  `IInv` adds to the checked invariants that a start's id
is in nobody else's hands (`StartsAreApart`) and that an error belongs to a
thread that will see it (`ErrorsAreSeen`).  `TypeCorrect`, `NoConnectionIsLost`,
`OneKeeper` and `FailuresLeave` follow.  `RegistryIsBounded` counts: an eviction
leaves at most `Max - 1` registered, and each thread adds at most one.

**ChatPageProofs.**  `TypeCorrect` is inductive by itself.  `NoMessageIsSkipped` is for
a patient user, whose starts meet a page at rest (`StartsAtRest`); the strengthening is
that a poll is of the session shown and has everything before what it asks for in the
box (`PollsAreOfTheSession`).  Polls may overlap, be late or get lost.

**WebSessionProofs.**  `IInv == ServerOK /\ SessionOK /\ ViewOK /\ CallsOK /\
PasswordGoesWithSession`: the type invariant in parts, the agreement of the two
tokens, and what a call may carry.  `CallsOK` is the strengthening: an accepted login
holds a token, the password that replaces another is never the default, and an
accepted login after it means the default is gone; without it `GateIsKept` is no
consequence.  `QuietStep` covers the steps that leave the session alone, `PlaceOK`
those that place a call.  `TypeCorrect`, `ReloadsResume`, `PasswordsGo` and `GateHolds`
hold for any number of calls, passwords and keys.

**PluginDialogsProofs.**  `IInv == DialogsOK /\ ProgressOK /\ OpsOK /\ RestartOK`.  The
confirm dialog is up exactly while it has something to confirm, and no dialog is stacked
twice (`DialogsOK`; `Push` and `Without` have lemmas for it); an install that goes on
was accepted (`OpsOK`), which is why the success shown later is the panel's; the prompt
for a restart may still be on its way in the timer of an enable (`RestartOK`).
`HeadingOK` is needed for the name: while no installs have overlapped, at most one is
under way, and it is the one in the heading.  `TypeCorrect`, `RestartsArePrompted` and
`SuccessesAreTrue` follow, for any plugins and any number of operations under way.

**PersonaEditorProofs.**  `IInv == PersonasOK /\ EditorOK /\ UserOK /\ FlowOK /\ FillingOK
/\ OpenOK`.  `FillingOK` is about a dialog whose solvers are on their way: a box holds
settings only as the user typed them there.  `OpenOK` takes over when they have come: the
boxes are those of the selected solvers, and for each solver `Belongs` says that what a
save would send is the user's, when the user touched it, and the persona's that was
opened otherwise.  That every redraw reads the boxes
first is what the proof turns on.  The lemmas before it are about removing, moving and
appending in a list without repetition.  `TypeCorrect`, the action property
`SavesDoNotMix`, and `RedrawingKeepsText` follow, for any personas and solvers.

**EditorsProofs.**  Three invariants that do not share state, and the one above.

* `FormsInv`: each request under way is of the form, and its subject is the form's
  unless the form can tell (`RequestOK`).  A form with no load under way shows its
  subject (`ShowsItsOwn`).  The policy and the pairing dialog are proved for a hasty
  user, the other forms for one who waits (`Patient == Hasty \subseteq {"policy",
  "pairing"}`, `OneRequest`), because they have no guard and the statement is false for
  a hasty one.  `FormsShowTheirOwn` follows, and `EditorsTypeCorrect` needs it.
* `ProfilesInv`: what is awaited fits the dialog (`AwaitedOK`); a handler that has read and
  not yet written will write what the page sent, with the password it read where the mark
  came (`JobsOK`); the dialog shows the password typed, or what the list showed for the
  profile it was opened for, and a verdict of its own unless it is `mixed` (`DialogOK`).
  `TestsComeFirst`, `SavesHoldTheirOwn` and `PasswordsAreKept` are action properties that
  follow, whatever another administrator changes.
* `ClientsInv`: one call is under way, and it fits the dialog that is up (`CallOK`);
  what is owed to the user is in it or on the screen (`OwedOK`); the page starts before
  the end of what was found (`PageOK`).  `SecretsAreSeen` and `PagesHaveRows` follow for
  any numbers of clients and rows per page.  `RankFacts` is the lemma on counting: the
  ranks of the clients found are exactly 1 up to their number, so that a page which
  starts before the end has a row.

Only model-checked: the liveness properties (`LockIsReleased`, `StartsAreAnswered`,
`EveryMessageIsShown`, `EntryArrives`, `InstallsAreReported`; liveness and `ENABLED` are
out of the prover's reach).  Each invariant and each action property of a passing run
has a theorem, under the assumptions named here.

## 6. Plan

Done: clients, server.json, chat, the page's session, plugin dialogs, forms and editors;
their safety properties are proved.  Left: to say which handlers of server.json lose no
edit of each other's; a run each for the differences of section 4 that have none
(the prompt after an install, the early save of a persona, an activation that crosses a
deletion, two live sessions); locked copies beside restores of other rows; shorter
proofs in `EditorsProofs`.

### Not modelled

* *Event feed, stream tickets, live view*: counters and a ring of the last events that
  nothing else reads; the page fetches them again.
* *Login throttle*: a count by time and address that no other state depends on; that
  overlapping attempts share a count is noted at api.py:220.
* *Clear, copy and migrate*: a loop over a second database whose statements fail as a
  whole; the copy of server.json it keeps meanwhile is in `ConfigStore`.
* *Servers, presets, templates*: one file each, read and written whole in one handler;
  overlapping writers lose one (api.py:4782), as they do in server.json, and
  nothing relates two of the files.
* *Redaction over nested values*: recursion over data; its effect is in `ServerConfig`
  on flattened paths and in `ProfileEditor`.
* *Launcher*: a start-up of one thread, whose failures are text in /health.
* *pip*: outside the code; only its verdict matters to the page.
* *Turns of a persona chat*: the history a plugin is given; the registry is modelled.
* *Monitor, topology, health, certificates, connections*: read-only views.
* *Command line, markup, translations, colours, packaging*: no state that steps of two
  actors share.
