------------------------------ MODULE WebSession ------------------------------
(***************************************************************************)
(* The session of one browser tab (static/js/app.js): signing in and out,  *)
(* resuming from sessionStorage after a reload, the dialog that makes a    *)
(* new user replace the default password, and what the panel opens with.   *)
(*                                                                         *)
(* A function that awaits an answer leaves a call under way and goes on in *)
(* the action that receives the answer, whatever happened meanwhile.  The  *)
(* server answers, the answer arrives or the network fails: three steps.   *)
(*                                                                         *)
(* A bearer token is the generation of the key that signed it; the server  *)
(* accepts those of the current key.  0 is the empty token.                *)
(***************************************************************************)
EXTENDS Naturals

CONSTANTS
  Password,  \* passwords
  Default,   \* the shipped one, which starts the first-run dialog
  None,      \* no password, no call
  Slot,      \* calls that can be under way at one time (a bound)
  LastKey    \* generations of the signing key (a bound)

ASSUME PasswordAssumption == Default \in Password /\ None \notin Password
ASSUME LastKeyAssumption == LastKey \in Nat \ {0}

VARIABLES
  password, key,  \* the server's
  token, named,   \* auth.token; whether auth.username and hm_username are set
  stored,         \* sessionStorage.hm_token
  kept,           \* _sessionPassword
  screen,         \* which of the login screen and the app shows
  notice,         \* whether the login screen shows an error
  gate,           \* whether firstRunModal is up
  page,           \* the page of the app; the dashboard is blank until loaded
  polling,        \* whether healthCheckInterval ticks
  calls           \* calls[c]: a call under way, or None

server == <<password, key>>
session == <<token, named, stored, kept>>
view == <<screen, notice, gate, page, polling>>
vars == <<server, session, view, calls>>

Token == 0..LastKey
Known == Password \cup {None}

\* health and setup are the two answers enterApp awaits, config and validate
\* those of handleStartupError, password, relogin and status those of
\* submitFirstRunPassword; load is any page's data.
Op == {"me", "login", "health", "setup", "config", "validate",
       "password", "relogin", "status", "load"}

Call == [op : Op, token : Token, old : Known, new : Known, named : BOOLEAN,
         degraded : BOOLEAN, answer : {"none", "ok", "refused", "default", "failed"}]

ASSUME NoneAssumption == None \notin Call

TypeOK ==
  /\ password \in Password /\ key \in 1..LastKey
  /\ token \in Token /\ stored \in Token /\ named \in BOOLEAN /\ kept \in Known
  /\ screen \in {"login", "app"}
  /\ page \in {"blank", "dashboard", "error", "other"}
  /\ {notice, gate, polling} \subseteq BOOLEAN
  /\ calls \in [Slot -> Call \cup {None}]
  /\ \A c \in Slot :
       calls[c] # None => (calls[c].op = "password" /\ calls[c].answer = "none"
                            => None \notin {calls[c].old, calls[c].new})

Init ==
  /\ password = Default /\ key = 1
  /\ token = 0 /\ stored = 0 /\ named = FALSE /\ kept = None
  /\ screen = "login" /\ page = "blank"
  /\ notice = FALSE /\ gate = FALSE /\ polling = FALSE
  /\ calls = [c \in Slot |-> None]

-----------------------------------------------------------------------------
(* Calls.                                                                    *)

Request(op) ==
  [op |-> op, token |-> token, old |-> None, new |-> None, named |-> FALSE,
   degraded |-> FALSE, answer |-> "none"]

Place(c, call) == calls' = [calls EXCEPT ![c] = call]
Done(c) == Place(c, None)
Arrived(c, op, answers) ==
  /\ calls[c] # None
  /\ calls[c].op = op /\ calls[c].answer \in answers

\* A call that has its answer; what it was asked with no longer matters.
With(c, answer) ==
  [calls[c] EXCEPT !.answer = answer, !.token = 0, !.old = None, !.named = FALSE,
                   !.new = IF answer = "ok" THEN @ ELSE None]

\* While the default password is in use the API serves nothing else (403).
Gated(op) == password = Default /\ op \in {"config", "validate", "load"}

Verdict(call) ==
  IF Gated(call.op) THEN "failed"
  ELSE IF call.token # key THEN "refused"
  ELSE IF call.op \in {"setup", "status"} /\ password = Default THEN "default"
  ELSE "ok"

\* The server answers a call that carries a token, or one to /health.
Answer(c) ==
  /\ calls[c] # None
  /\ calls[c].answer = "none" /\ calls[c].op \notin {"login", "relogin", "password"}
  /\ IF calls[c].op = "health"
     THEN \E d \in BOOLEAN :
            Place(c, [With(c, "ok") EXCEPT !.degraded = d])
     ELSE Place(c, With(c, Verdict(calls[c])))
  /\ UNCHANGED <<server, session, view>>

\* login: a token signed with the key of the moment.
AnswerLogin(c) ==
  /\ calls[c] # None
  /\ calls[c].answer = "none" /\ calls[c].op \in {"login", "relogin"}
  /\ IF calls[c].new = password /\ calls[c].named
     THEN Place(c, [With(c, "ok") EXCEPT !.token = key])
     ELSE Place(c, With(c, "refused"))
  /\ UNCHANGED <<server, session, view>>

\* change_password: also ends every session, by a new key.
AnswerPassword(c) ==
  /\ calls[c] # None
  /\ calls[c].answer = "none" /\ calls[c].op = "password"
  /\ IF calls[c].token = key /\ calls[c].old = password
     THEN /\ key < LastKey
          /\ password' = calls[c].new /\ key' = key + 1
          /\ Place(c, With(c, "ok"))
     ELSE Place(c, With(c, "refused")) /\ UNCHANGED server
  /\ UNCHANGED <<session, view>>

\* The call or its answer is lost, or it is answered with another error.
Fail(c) ==
  /\ calls[c] # None
  /\ calls[c].answer # "failed"
  /\ Place(c, With(c, "failed"))
  /\ UNCHANGED <<server, session, view>>

\* Tokens expire; another administrator changes the password.
Rekey ==
  /\ key < LastKey /\ key' = key + 1
  /\ password' \in {password} \cup (Password \ {Default})
  /\ UNCHANGED <<session, view, calls>>
-----------------------------------------------------------------------------
(* The page.                                                                 *)

\* Mutant: the password outlives the session.
LeaveKeepingPassword(out) ==
  IF out
  THEN /\ token' = 0 /\ named' = FALSE /\ stored' = 0
       /\ screen' = "login" /\ UNCHANGED kept
  ELSE UNCHANGED <<session, screen>>

\* logout, when apiCall meets a 401 or a function calls it: what it does to
\* the session.  It also stops the health poll.
Leave(out) ==
  IF out
  THEN /\ token' = 0 /\ named' = FALSE /\ stored' = 0 /\ kept' = None
       /\ screen' = "login"
  ELSE UNCHANGED <<session, screen>>

Out(c) == calls[c].answer = "refused"
Free(c) == calls[c] = None

\* A call made by the step that may have signed the user out.
Next401(c, op) == [Request(op) EXCEPT !.token = IF Out(c) THEN 0 ELSE token]

\* login
Login(c, p) ==
  /\ Free(c) /\ screen = "login"
  /\ Place(c, [Request("login") EXCEPT !.new = p, !.named = TRUE])
  /\ UNCHANGED <<server, session, view>>

\* The token is kept in memory and in sessionStorage, the password in memory.
LoggedIn(c) ==
  /\ Arrived(c, "login", {"ok"})
  /\ token' = calls[c].token /\ stored' = calls[c].token
  /\ named' = TRUE /\ kept' = calls[c].new
  /\ screen' = "app"
  /\ Place(c, Request("health"))
  /\ UNCHANGED <<server, notice, gate, page, polling>>

NotLoggedIn(c) ==
  /\ Arrived(c, "login", {"refused", "failed"})
  /\ notice' = TRUE /\ Done(c)
  /\ UNCHANGED <<server, session, screen, gate, page, polling>>

\* Mutant: an answer that does not come leaves the user where they were.
ResumedOnAnswer(c) ==
  /\ Arrived(c, "me", {"ok", "refused", "failed"})
  /\ IF calls[c].answer = "refused"
     THEN Leave(TRUE) /\ polling' = FALSE /\ Done(c)
     ELSE /\ screen' = "app" /\ UNCHANGED <<session, polling>>
          /\ IF calls[c].answer = "ok" THEN Place(c, Request("health")) ELSE Done(c)
  /\ UNCHANGED <<server, notice, gate, page>>

\* checkStoredAuth, when /auth/me answers or fails.
Resumed(c) ==
  /\ Arrived(c, "me", {"ok", "refused", "failed"})
  /\ IF calls[c].answer = "ok"
     THEN /\ screen' = "app" /\ Place(c, Request("health"))
          /\ UNCHANGED <<session, polling>>
     ELSE Leave(TRUE) /\ polling' = FALSE /\ Done(c)
  /\ UNCHANGED <<server, notice, gate, page>>

\* enterApp has /health: it asks for the setup status; without it, the error
\* goes to the login screen, which is hidden.
GotHealth(c) ==
  /\ Arrived(c, "health", {"ok", "failed"})
  /\ IF calls[c].answer = "ok"
     THEN /\ Place(c, [Request("setup") EXCEPT !.degraded = calls[c].degraded])
          /\ UNCHANGED notice
     ELSE notice' = TRUE /\ Done(c)
  /\ UNCHANGED <<server, session, screen, gate, page, polling>>

\* enforceSetupGate puts the dialog up, and enterApp stops there.
GateUp(c) ==
  /\ Arrived(c, "setup", {"default"})
  /\ gate' = TRUE /\ Done(c)
  /\ UNCHANGED <<server, session, screen, notice, page, polling>>

\* Without the dialog enterApp goes on.  fetchSetupStatus turns a failure into
\* "no status", also the 401 after which apiCall has signed the user out.
NoGate(c) ==
  /\ Arrived(c, "setup", {"ok", "refused", "failed"})
  /\ Leave(Out(c))
  /\ IF calls[c].degraded
     THEN /\ Place(c, Next401(c, "config"))
          /\ polling' = (polling /\ ~Out(c)) /\ UNCHANGED page
     ELSE /\ Place(c, Next401(c, "load"))
          /\ polling' = TRUE /\ page' = "dashboard"
  /\ UNCHANGED <<server, notice, gate>>

\* handleStartupError validates the configuration it read; without one it
\* shows the error page.
ConfigAnswered(c) ==
  /\ Arrived(c, "config", {"ok", "refused", "failed"})
  /\ Leave(Out(c)) /\ polling' = (polling /\ ~Out(c))
  /\ IF calls[c].answer = "ok"
     THEN Place(c, Request("validate")) /\ UNCHANGED page
     ELSE Done(c) /\ page' = "error"
  /\ UNCHANGED <<server, notice, gate>>

\* The verdict chooses between showErrorPage and showConfigErrorPage, which
\* loads the configuration to edit.
Validated(c) ==
  /\ Arrived(c, "validate", {"ok", "refused", "failed"})
  /\ Leave(Out(c)) /\ polling' = (polling /\ ~Out(c))
  /\ page' = "error"
  /\ \/ Done(c)
     \/ calls[c].answer = "ok" /\ Place(c, Request("load"))
  /\ UNCHANGED <<server, notice, gate>>

\* Mutant: the password of the login is not looked at.
SubmitUnasked(c, p) ==
  /\ Free(c) /\ gate
  /\ p \notin {kept, Default}
  /\ Place(c, [Request("password") EXCEPT !.old = kept, !.new = p])
  /\ UNCHANGED <<server, session, view>>

\* submitFirstRunPassword needs the password of the login, and another one;
\* the default one is too short, here and for the server.
\* The button is not disabled meanwhile.
SubmitPassword(c, p) ==
  /\ Free(c) /\ gate
  /\ kept # None /\ p \notin {kept, Default}
  /\ Place(c, [Request("password") EXCEPT !.old = kept, !.new = p])
  /\ UNCHANGED <<server, session, view>>

\* Mutant: the dialog goes as soon as the answer is there, whatever it says.
PasswordAnsweredGateDown(c) ==
  /\ Arrived(c, "password", {"ok", "refused", "failed"})
  /\ gate' = FALSE
  /\ IF calls[c].answer = "ok"
     THEN /\ kept' = calls[c].new
          /\ Place(c, [Request("relogin") EXCEPT !.new = calls[c].new, !.named = named])
     ELSE Done(c) /\ UNCHANGED kept
  /\ UNCHANGED <<server, token, named, stored, screen, notice, page, polling>>

\* The sessions of the old password are dead: sign in with the new one.
PasswordAnswered(c) ==
  /\ Arrived(c, "password", {"ok", "refused", "failed"})
  /\ IF calls[c].answer = "ok"
     THEN /\ kept' = calls[c].new
          /\ Place(c, [Request("relogin") EXCEPT !.new = calls[c].new, !.named = named])
     ELSE Done(c) /\ UNCHANGED kept
  /\ UNCHANGED <<server, token, named, stored, view>>

\* Mutant: the new token is kept in memory only.
ReloggedInMemory(c) ==
  /\ Arrived(c, "relogin", {"ok"})
  /\ token' = calls[c].token /\ gate' = FALSE
  /\ Place(c, [Request("status") EXCEPT !.token = calls[c].token])
  /\ UNCHANGED <<server, stored, named, kept, screen, notice, page, polling>>

\* The new token replaces the old one and the dialog goes.
ReloggedIn(c) ==
  /\ Arrived(c, "relogin", {"ok"})
  /\ token' = calls[c].token /\ stored' = calls[c].token
  /\ gate' = FALSE
  /\ Place(c, [Request("status") EXCEPT !.token = calls[c].token])
  /\ UNCHANGED <<server, named, kept, screen, notice, page, polling>>

\* The dialog stays.
NotReloggedIn(c) ==
  /\ Arrived(c, "relogin", {"refused", "failed"})
  /\ Leave(TRUE) /\ polling' = FALSE /\ Done(c)
  /\ UNCHANGED <<server, notice, gate, page>>

\* On the dashboard, which is the page the app starts with, only its data is
\* loaded; from another page the user is brought to it.
Secured(c) ==
  /\ Arrived(c, "status", {"ok", "default", "refused", "failed"})
  /\ Leave(Out(c))
  /\ polling' = ((polling /\ ~Out(c)) \/ page \notin {"blank", "dashboard"})
  /\ page' = "dashboard" /\ Place(c, Next401(c, "load"))
  /\ UNCHANGED <<server, notice, gate>>

\* navigate, from the menu, and the loader of the page.
Navigate(c, p) ==
  /\ Free(c) /\ screen = "app" /\ ~gate
  /\ page' = p /\ Place(c, Request("load"))
  /\ UNCHANGED <<server, session, screen, notice, gate, polling>>

\* apiCall in a loader: a 401 signs the user out, whatever token it was for;
\* any other failure is shown on the page.
Loaded(c) ==
  /\ Arrived(c, "load", {"ok", "refused", "failed"})
  /\ Leave(Out(c)) /\ polling' = (polling /\ ~Out(c)) /\ Done(c)
  /\ UNCHANGED <<server, notice, gate, page>>

\* The sign-out button.
Logout ==
  /\ screen = "app" /\ ~gate
  /\ Leave(TRUE) /\ polling' = FALSE
  /\ UNCHANGED <<server, notice, gate, page, calls>>

\* The tab is loaded again, by the user or by restartService and
\* retryConnection: memory and calls are gone, sessionStorage is not.
\* checkStoredAuth confirms a stored token.
Reload ==
  /\ kept' = None /\ screen' = "login" /\ page' = "blank"
  /\ notice' = FALSE /\ gate' = FALSE /\ polling' = FALSE
  /\ IF named
     THEN /\ token' = stored
          /\ \E c \in Slot :
               calls' = [d \in Slot |-> IF d # c THEN None ELSE
                           [Request("me") EXCEPT !.token = stored]]
     ELSE token' = 0 /\ calls' = [c \in Slot |-> None]
  /\ UNCHANGED <<server, named, stored>>

Receive(c) ==
  \/ LoggedIn(c) \/ NotLoggedIn(c) \/ Resumed(c) \/ GotHealth(c)
  \/ GateUp(c) \/ NoGate(c) \/ ConfigAnswered(c) \/ Validated(c)
  \/ PasswordAnswered(c) \/ ReloggedIn(c) \/ NotReloggedIn(c)
  \/ Secured(c) \/ Loaded(c)

Respond(c) == Answer(c) \/ AnswerLogin(c) \/ AnswerPassword(c) \/ Fail(c)

Next ==
  \/ \E c \in Slot : Respond(c) \/ Receive(c)
  \/ \E c \in Slot, p \in Password : Login(c, p) \/ SubmitPassword(c, p)
  \/ \E c \in Slot, p \in {"dashboard", "other"} : Navigate(c, p)
  \/ Rekey \/ Logout \/ Reload

Spec == Init /\ [][Next]_vars

\* A call is answered or fails, and its function then goes on.
FairSpec ==
  Spec /\ \A c \in Slot : WF_vars(Respond(c)) /\ WF_vars(Receive(c))

-----------------------------------------------------------------------------
\* What a reload would resume is the session the page holds: the token in
\* memory and the one in sessionStorage never differ (login, the change of the
\* password, logout, checkStoredAuth).
ResumeIsTheSession ==
  /\ named => token = stored /\ token # 0
  /\ token # 0 => stored = token

\* The plaintext password is in memory only as long as its session, also when
\* the session ends while the password is being changed: "lives in this
\* variable for the lifetime of the tab only".
PasswordGoesWithSession ==
  kept # None =>
    \/ token # 0
    \/ \E c \in Slot : calls[c] # None /\ calls[c].op = "relogin"

\* The first-run dialog leaves an app on screen only when the default password
\* is no longer in use (enforceSetupGate, submitFirstRunPassword).
GateIsKept ==
  [][gate /\ ~gate' /\ screen' = "app" => password # Default]_vars

\* An app that is entered gets to a page, the dialog or the login screen; the
\* exception is the error that enterApp writes to the hidden login screen.
EntryArrives ==
  screen = "app" /\ page = "blank"
    ~> page # "blank" \/ screen = "login" \/ gate \/ notice
=============================================================================
