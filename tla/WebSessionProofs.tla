--------------------------- MODULE WebSessionProofs ---------------------------
(***************************************************************************)
(* What TLAPS proves of WebSession, for any passwords, any number of calls *)
(* under way and any number of signing keys.                               *)
(***************************************************************************)
EXTENDS WebSession, TLAPS

\* What is known of a call: a login that was answered holds a token, and the
\* password that replaces the default one is another; it is in use once the
\* panel has accepted a login with it.
CallOK(call, pw) ==
  /\ call \in Call \cup {None}
  /\ call # None =>
       /\ call.op = "password" /\ call.answer = "none"
            => None \notin {call.old, call.new}
       /\ call.op \in {"login", "relogin"} /\ call.answer = "ok" => call.token # 0
       /\ call.op \in {"password", "relogin"} => call.new # Default
       /\ call.op = "relogin" /\ call.answer = "ok" => pw # Default

CallsOK ==
  /\ calls \in [Slot -> Call \cup {None}]
  /\ \A c \in Slot : CallOK(calls[c], password)

\* A password waits for its session in a call that signs in again.
Relogin(call) == call # None /\ call.op = "relogin"
Resigning == \E c \in Slot : Relogin(calls[c])

ServerOK == password \in Password /\ key \in 1..LastKey
ViewOK ==
  /\ screen \in {"login", "app"}
  /\ page \in {"blank", "dashboard", "error", "other"}
  /\ {notice, gate, polling} \subseteq BOOLEAN
SessionOK ==
  /\ token \in Token /\ stored \in Token /\ named \in BOOLEAN /\ kept \in Known
  /\ ResumeIsTheSession

IInv == ServerOK /\ SessionOK /\ ViewOK /\ CallsOK /\ PasswordGoesWithSession

-----------------------------------------------------------------------------
(* Calls.                                                                    *)

LEMMA TokenFacts == 0 \in Token /\ (1..LastKey) \subseteq Token
BY LastKeyAssumption DEF Token

\* One call changes; the default password does not come back.
LEMMA PlaceOK ==
  ASSUME CallsOK, NEW c \in Slot, NEW call, Place(c, call),
         CallOK(call, password'),
         password' = password \/ password' # Default
  PROVE  CallsOK'
<1>1. calls' \in [Slot -> Call \cup {None}]
  BY DEF CallsOK, CallOK, Place
<1>2. CallOK(calls'[c], password')
  BY DEF CallsOK, Place
<1>3. ASSUME NEW d \in Slot \ {c} PROVE CallOK(calls'[d], password')
  <2>1. calls'[d] = calls[d] /\ CallOK(calls[d], password)  BY DEF CallsOK, Place
  <2> QED  BY <2>1 DEF CallOK
<1> QED  BY <1>1, <1>2, <1>3 DEF CallsOK

\* No call changes.
LEMMA KeepOK ==
  ASSUME CallsOK, calls' = calls, password' = password \/ password' # Default
  PROVE  CallsOK'
<1>1. ASSUME NEW d \in Slot PROVE CallOK(calls'[d], password')
  BY DEF CallsOK, CallOK
<1> QED  BY <1>1 DEF CallsOK

\* A call that is none to sign in again makes place for another, or is over.
LEMMA ResigningStays ==
  ASSUME NEW c \in Slot, NEW call, Place(c, call), calls \in [Slot -> Call \cup {None}],
         ~Relogin(calls[c]) \/ Relogin(call)
  PROVE  Resigning => Resigning'
<1> SUFFICES ASSUME Resigning PROVE Resigning'  OBVIOUS
<1>1. PICK d \in Slot : Relogin(calls[d])  BY DEF Resigning
<1>2. CASE d = c
  <2>1. calls'[c] = call /\ Relogin(call)  BY <1>1, <1>2 DEF Place
  <2> QED  BY <2>1 DEF Resigning, Relogin
<1>3. CASE d # c
  <2>1. calls'[d] = calls[d]  BY <1>3 DEF Place
  <2> QED  BY <1>1, <2>1 DEF Resigning, Relogin
<1> QED  BY <1>2, <1>3

LEMMA RequestOK ==
  ASSUME token \in Token, NEW op \in Op \ {"password", "relogin"}, NEW pw
  PROVE  /\ Request(op) \in Call /\ CallOK(Request(op), pw)
         /\ Request(op).op = op
BY NoneAssumption DEF Request, Call, CallOK, Known

\* An answer keeps the kind of its call.
LEMMA WithFacts ==
  ASSUME NEW c \in Slot, calls[c] \in Call,
         NEW answer \in {"none", "ok", "refused", "default", "failed"}
  PROVE  /\ With(c, answer) \in Call
         /\ With(c, answer).op = calls[c].op
         /\ With(c, answer).answer = answer
         /\ With(c, answer).new = IF answer = "ok" THEN calls[c].new ELSE None
BY TokenFacts DEF With, Call, Known

\* An answer that signs nobody in is known as well as its call.
LEMMA WithOK ==
  ASSUME CallsOK, NEW c \in Slot, calls[c] # None, NEW pw,
         NEW answer \in {"ok", "refused", "default", "failed"},
         answer = "ok" => calls[c].op \notin {"login", "relogin"}
  PROVE  CallOK(With(c, answer), pw)
<1>1. calls[c] \in Call /\ CallOK(calls[c], password)  BY DEF CallsOK
<1>2. calls[c].op \in {"password", "relogin"} => calls[c].new # Default /\ None # Default
  BY <1>1, PasswordAssumption DEF CallOK
<1>3. /\ With(c, answer) \in Call /\ With(c, answer).op = calls[c].op
      /\ With(c, answer).answer = answer
      /\ With(c, answer).new = IF answer = "ok" THEN calls[c].new ELSE None
  BY <1>1, WithFacts
<1> QED  BY <1>2, <1>3 DEF CallOK

-----------------------------------------------------------------------------
(* Steps of the panel and of the network.  They leave the page alone.        *)

LEMMA PageStays ==
  ASSUME IInv, UNCHANGED <<session, view>>,
         Resigning => Resigning'
  PROVE  SessionOK' /\ ViewOK' /\ PasswordGoesWithSession'
<1>1. SessionOK' /\ ViewOK'
  BY DEF IInv, SessionOK, ViewOK, ResumeIsTheSession, session, view
<1>2. PasswordGoesWithSession <=> (kept # None => token # 0 \/ Resigning)
  BY DEF PasswordGoesWithSession, Resigning, Relogin
<1>3. PasswordGoesWithSession' <=> (kept' # None => token' # 0 \/ Resigning')
  BY DEF PasswordGoesWithSession, Resigning, Relogin
<1> QED  BY <1>1, <1>2, <1>3 DEF IInv, session

LEMMA AnswerInv ==
  ASSUME IInv, NEW c \in Slot, Answer(c) PROVE IInv'
<1>1. /\ calls[c] \in Call /\ calls[c] # None /\ CallsOK /\ ServerOK
      /\ calls[c].op \notin {"login", "relogin", "password"}
  BY DEF IInv, CallsOK, Answer
<1>2. PICK call : /\ Place(c, call) /\ call.op = calls[c].op
                  /\ CallOK(call, password)
  <2>1. CASE calls[c].op = "health"
    <3>1. PICK d \in BOOLEAN : Place(c, [With(c, "ok") EXCEPT !.degraded = d])
      BY <2>1 DEF Answer
    <3>2. With(c, "ok") \in Call /\ With(c, "ok").op = "health"
      BY <1>1, <2>1, WithFacts
    <3>3. /\ [With(c, "ok") EXCEPT !.degraded = d] \in Call
          /\ [With(c, "ok") EXCEPT !.degraded = d].op = "health"
      BY <3>2 DEF Call
    <3> QED  BY <2>1, <3>1, <3>3 DEF CallOK
  <2>2. CASE calls[c].op # "health"
    <3>1. /\ Verdict(calls[c]) \in {"ok", "refused", "default", "failed"}
          /\ Place(c, With(c, Verdict(calls[c])))
      BY <2>2 DEF Answer, Verdict
    <3> QED  BY <1>1, <3>1, WithFacts, WithOK
  <2> QED  BY <2>1, <2>2
<1>3. UNCHANGED <<server, session, view>>  BY DEF Answer
<1>4. CallsOK' /\ ServerOK'
  BY <1>1, <1>2, <1>3, PlaceOK DEF server, ServerOK
<1>5. Resigning => Resigning'
  BY <1>1, <1>2, ResigningStays DEF Relogin, CallsOK
<1> QED  BY <1>3, <1>4, <1>5, PageStays DEF IInv

LEMMA AnswerLoginInv ==
  ASSUME IInv, NEW c \in Slot, AnswerLogin(c) PROVE IInv'
<1>1. /\ calls[c] \in Call /\ calls[c] # None /\ CallsOK /\ ServerOK
      /\ calls[c].op \in {"login", "relogin"} /\ CallOK(calls[c], password)
  BY DEF IInv, CallsOK, AnswerLogin
<1>2. PICK call \in Call : /\ Place(c, call) /\ call.op = calls[c].op
                           /\ CallOK(call, password)
  <2>1. CASE calls[c].new = password /\ calls[c].named
    <3> DEFINE call == [With(c, "ok") EXCEPT !.token = key]
    <3>1. /\ With(c, "ok") \in Call /\ With(c, "ok").op = calls[c].op
          /\ With(c, "ok").answer = "ok" /\ With(c, "ok").new = password
      BY <1>1, <2>1, WithFacts
    <3>2. key \in Token /\ key # 0
      BY <1>1, TokenFacts, LastKeyAssumption DEF ServerOK
    <3>3. /\ call \in Call /\ call.op = calls[c].op /\ call.token = key
          /\ call.answer = "ok" /\ call.new = password
      BY <3>1, <3>2 DEF Call
    <3>4. Place(c, call)  BY <2>1 DEF AnswerLogin
    <3>5. CallOK(call, password)
      BY <1>1, <2>1, <3>2, <3>3 DEF CallOK
    <3> QED  BY <3>3, <3>4, <3>5
  <2>2. CASE ~(calls[c].new = password /\ calls[c].named)
    <3>1. Place(c, With(c, "refused"))  BY <2>2 DEF AnswerLogin
    <3> QED  BY <1>1, <3>1, WithFacts, WithOK
  <2> QED  BY <2>1, <2>2
<1>3. UNCHANGED <<server, session, view>>  BY DEF AnswerLogin
<1>4. CallsOK' /\ ServerOK'
  BY <1>1, <1>2, <1>3, PlaceOK DEF server, ServerOK
<1>5. Resigning => Resigning'
  BY <1>2, ResigningStays, <1>1, NoneAssumption DEF Relogin, CallsOK
<1> QED  BY <1>3, <1>4, <1>5, PageStays DEF IInv

LEMMA AnswerPasswordInv ==
  ASSUME IInv, NEW c \in Slot, AnswerPassword(c) PROVE IInv'
<1>1. /\ calls[c] \in Call /\ calls[c] # None /\ CallsOK /\ ServerOK
      /\ calls[c].op = "password" /\ CallOK(calls[c], password)
      /\ calls[c].answer = "none"
  BY DEF IInv, CallsOK, AnswerPassword
<1>2. CASE calls[c].token = key /\ calls[c].old = password
  <2>1. /\ key < LastKey /\ password' = calls[c].new /\ key' = key + 1
        /\ Place(c, With(c, "ok"))
    BY <1>2 DEF AnswerPassword
  <2>2. password' \in Password /\ password' # Default
    BY <1>1, <2>1 DEF CallOK, Call, Known
  <2>3. ServerOK'  BY <1>1, <2>1, <2>2, LastKeyAssumption DEF ServerOK
  <2>4. With(c, "ok").op = "password" /\ CallOK(With(c, "ok"), password')
    BY <1>1, WithFacts, WithOK
  <2> QED  BY <1>1, <2>1, <2>2, <2>3, <2>4, PlaceOK, ResigningStays, PageStays
           DEF AnswerPassword, IInv, Relogin, CallsOK
<1>3. CASE ~(calls[c].token = key /\ calls[c].old = password)
  <2>1. Place(c, With(c, "refused")) /\ UNCHANGED server
    BY <1>3 DEF AnswerPassword
  <2>2. CallOK(With(c, "refused"), password')
    BY <1>1, <2>1, WithOK DEF server
  <2>3. CallsOK' /\ ServerOK'
    BY <1>1, <2>1, <2>2, PlaceOK DEF server, ServerOK
  <2>4. Resigning => Resigning'
    BY <1>1, <2>1, ResigningStays DEF Relogin, CallsOK
  <2> QED  BY <2>3, <2>4, PageStays DEF AnswerPassword, IInv
<1> QED  BY <1>2, <1>3

LEMMA FailInv ==
  ASSUME IInv, NEW c \in Slot, Fail(c) PROVE IInv'
<1>1. calls[c] \in Call /\ calls[c] # None /\ CallsOK /\ ServerOK
  BY DEF IInv, CallsOK, Fail
<1>2. /\ Place(c, With(c, "failed")) /\ With(c, "failed") \in Call
      /\ With(c, "failed").op = calls[c].op
      /\ CallOK(With(c, "failed"), password)
  BY <1>1, WithFacts, WithOK DEF Fail
<1>3. UNCHANGED <<server, session, view>>  BY DEF Fail
<1>4. CallsOK' /\ ServerOK'
  BY <1>1, <1>2, <1>3, PlaceOK DEF server, ServerOK
<1>5. Resigning => Resigning'
  BY <1>1, <1>2, ResigningStays, NoneAssumption DEF Relogin, CallsOK
<1> QED  BY <1>3, <1>4, <1>5, PageStays DEF IInv

LEMMA RekeyInv ==
  ASSUME IInv, Rekey PROVE IInv'
<1>1. /\ ServerOK /\ CallsOK /\ UNCHANGED <<session, view, calls>>
      /\ key < LastKey /\ key' = key + 1
      /\ password' \in {password} \cup (Password \ {Default})
  BY DEF IInv, Rekey
<1>2. ServerOK'  BY <1>1, LastKeyAssumption DEF ServerOK
<1>3. CallsOK'  BY <1>1, KeepOK
<1>4. Resigning => Resigning'  BY <1>1 DEF Resigning
<1> QED  BY <1>1, <1>2, <1>3, <1>4, PageStays DEF IInv

-----------------------------------------------------------------------------
(* Steps of the page.                                                        *)

\* The session ends.
Ended == token' = 0 /\ named' = FALSE /\ stored' = 0 /\ kept' = None

LEMMA LeaveFacts ==
  ASSUME NEW out \in BOOLEAN, Leave(out), screen \in {"login", "app"}
  PROVE  /\ Ended \/ UNCHANGED session
         /\ screen' \in {"login", "app"}
BY DEF Leave, Ended, session

LEMMA OverOK == ASSUME NEW pw PROVE CallOK(None, pw)
BY DEF CallOK

LEMMA Next401OK ==
  ASSUME token \in Token, NEW op \in Op \ {"password", "relogin", "login"}, NEW c, NEW pw
  PROVE  CallOK(Next401(c, op), pw) /\ ~Relogin(Next401(c, op))
<1>1. Request(op) \in Call /\ Request(op).op = op  BY RequestOK
<1>2. Next401(c, op) \in Call /\ Next401(c, op).op = op
  BY <1>1, TokenFacts DEF Next401, Call
<1> QED  BY <1>2 DEF CallOK, Relogin

\* A step of one function that leaves the session or ends it.
LEMMA QuietStep ==
  ASSUME IInv, NEW c \in Slot, NEW call, Place(c, call), CallOK(call, password),
         ~Relogin(calls[c]), UNCHANGED server,
         Ended \/ UNCHANGED session, ViewOK'
  PROVE  IInv'
<1>1. CallsOK' /\ ServerOK'
  BY PlaceOK DEF IInv, server, ServerOK
<1>2. Resigning => Resigning'  BY ResigningStays DEF IInv, CallsOK
<1>3. PasswordGoesWithSession <=> (kept # None => token # 0 \/ Resigning)
  BY DEF PasswordGoesWithSession, Resigning, Relogin
<1>4. PasswordGoesWithSession' <=> (kept' # None => token' # 0 \/ Resigning')
  BY DEF PasswordGoesWithSession, Resigning, Relogin
<1>5. CASE Ended
  <2>1. SessionOK'
    BY <1>5, TokenFacts DEF Ended, SessionOK, ResumeIsTheSession, Known
  <2> QED  BY <1>1, <1>4, <1>5, <2>1 DEF IInv, Ended
<1>6. CASE UNCHANGED session
  <2>1. SessionOK'
    BY <1>6 DEF IInv, session, SessionOK, ResumeIsTheSession
  <2> QED  BY <1>1, <1>2, <1>3, <1>4, <1>6, <2>1 DEF IInv, session
<1> QED  BY <1>5, <1>6

LEMMA ViewFacts == ASSUME IInv PROVE /\ ViewOK /\ token \in Token
                                     /\ calls \in [Slot -> Call \cup {None}]
BY DEF IInv, SessionOK, CallsOK

LEMMA LoginInv ==
  ASSUME IInv, NEW c \in Slot, NEW p \in Password, Login(c, p) PROVE IInv'
<1> DEFINE call == [Request("login") EXCEPT !.new = p, !.named = TRUE]
<1>1. Request("login") \in Call /\ Request("login").op = "login"
      /\ Request("login").answer = "none"
  BY ViewFacts, RequestOK DEF Op, Request
<1>2. call \in Call /\ call.op = "login" /\ call.answer = "none"
  BY <1>1 DEF Call, Known
<1>3. CallOK(call, password)  BY <1>2 DEF CallOK
<1>4. Place(c, call) /\ UNCHANGED <<server, session, view>> /\ ~Relogin(calls[c])
  BY DEF Login, Free, Relogin
<1> QED  BY <1>3, <1>4, QuietStep, ViewFacts DEF ViewOK, view

LEMMA LoggedInInv ==
  ASSUME IInv, NEW c \in Slot, LoggedIn(c) PROVE IInv'
<1>1. /\ calls[c] \in Call /\ CallOK(calls[c], password) /\ CallsOK /\ ServerOK
      /\ calls[c].op = "login" /\ calls[c].answer = "ok" /\ calls[c] # None
  BY DEF IInv, CallsOK, LoggedIn, Arrived
<1>2. calls[c].token \in Token \ {0} /\ calls[c].new \in Known
  BY <1>1 DEF CallOK, Call
<1>3. SessionOK' /\ kept' \in Known /\ token' # 0
  BY <1>2 DEF LoggedIn, SessionOK, ResumeIsTheSession
<1>4. CallOK(Request("health"), password) /\ Place(c, Request("health"))
  BY ViewFacts, RequestOK DEF Op, LoggedIn
<1>5. CallsOK' /\ ServerOK'
  BY <1>1, <1>4, PlaceOK DEF server, ServerOK, LoggedIn
<1>6. ViewOK'  BY ViewFacts DEF ViewOK, LoggedIn
<1> QED  BY <1>3, <1>5, <1>6 DEF IInv, PasswordGoesWithSession

LEMMA ResumedInv ==
  ASSUME IInv, NEW c \in Slot, Resumed(c) PROVE IInv'
<1>1. ~Relogin(calls[c]) /\ UNCHANGED server
  BY DEF Resumed, Arrived, Relogin
<1>2. CASE calls[c].answer = "ok"
  <2>1. CallOK(Request("health"), password) /\ Place(c, Request("health"))
    BY <1>2, ViewFacts, RequestOK DEF Op, Resumed
  <2>2. ViewOK' /\ UNCHANGED session  BY <1>2, ViewFacts DEF ViewOK, Resumed
  <2> QED  BY <1>1, <2>1, <2>2, QuietStep
<1>3. CASE calls[c].answer # "ok"
  <2>1. Leave(TRUE) /\ polling' = FALSE /\ Place(c, None)
    BY <1>3 DEF Resumed, Done
  <2>2. Ended /\ ViewOK'
    BY <2>1, ViewFacts DEF ViewOK, Resumed, Leave, Ended
  <2> QED  BY <1>1, <2>1, <2>2, OverOK, QuietStep
<1> QED  BY <1>2, <1>3

\* NotLoggedIn, GateUp: the function is over and the session as it was.
LEMMA OverInv ==
  ASSUME IInv, NEW c \in Slot, NotLoggedIn(c) \/ GateUp(c) PROVE IInv'
<1>1. /\ ~Relogin(calls[c]) /\ UNCHANGED <<server, session>>
      /\ Place(c, None)
  BY DEF NotLoggedIn, GateUp, Arrived, Relogin, Done
<1>2. ViewOK'  BY ViewFacts DEF ViewOK, NotLoggedIn, GateUp
<1> QED  BY <1>1, <1>2, OverOK, QuietStep

LEMMA GotHealthInv ==
  ASSUME IInv, NEW c \in Slot, GotHealth(c) PROVE IInv'
<1>1. /\ ~Relogin(calls[c]) /\ UNCHANGED <<server, session>>
      /\ calls[c] \in Call
  BY ViewFacts DEF GotHealth, Arrived, Relogin
<1>2. ViewOK'  BY ViewFacts DEF ViewOK, GotHealth
<1>3. CASE calls[c].answer = "ok"
  <2> DEFINE call == [Request("setup") EXCEPT !.degraded = calls[c].degraded]
  <2>1. Request("setup") \in Call /\ Request("setup").op = "setup"
    BY ViewFacts, RequestOK DEF Op
  <2>2. call \in Call /\ call.op = "setup"  BY <1>1, <2>1 DEF Call
  <2>3. CallOK(call, password) /\ Place(c, call)
    BY <1>3, <2>2 DEF CallOK, GotHealth
  <2> QED  BY <1>1, <1>2, <2>3, QuietStep
<1>4. CASE calls[c].answer # "ok"
  <2>1. Place(c, None)  BY <1>4 DEF GotHealth, Done
  <2> QED  BY <1>1, <1>2, <2>1, OverOK, QuietStep
<1> QED  BY <1>3, <1>4

\* The other answers to enterApp, and the data of a page: a call that is no
\* attempt to sign in ends or is followed by one of its kind, and its failure
\* may end the session.
LEMMA AnsweredInv ==
  ASSUME IInv, NEW c \in Slot,
         NoGate(c) \/ ConfigAnswered(c) \/ Validated(c) \/ Secured(c) \/ Loaded(c)
  PROVE  IInv'
<1>1. /\ ~Relogin(calls[c]) /\ UNCHANGED server /\ Leave(Out(c)) /\ Out(c) \in BOOLEAN
  BY DEF NoGate, ConfigAnswered, Validated, Secured, Loaded, Arrived, Relogin, Out
<1>2. (Ended \/ UNCHANGED session) /\ screen' \in {"login", "app"}
  BY <1>1, LeaveFacts, ViewFacts DEF ViewOK
<1>3. /\ page' \in {"blank", "dashboard", "error", "other"}
      /\ {notice', gate', polling'} \subseteq BOOLEAN
  BY ViewFacts
     DEF ViewOK, NoGate, ConfigAnswered, Validated, Secured, Loaded
<1>4. ViewOK'  BY <1>2, <1>3 DEF ViewOK
<1>5. \E call : Place(c, call) /\ CallOK(call, password)
  <2>1. /\ CallOK(Next401(c, "config"), password) /\ CallOK(Next401(c, "load"), password)
        /\ CallOK(Request("validate"), password) /\ CallOK(Request("load"), password)
        /\ CallOK(None, password)
    BY ViewFacts, Next401OK, RequestOK, OverOK DEF Op
  <2> QED  BY <2>1 DEF NoGate, ConfigAnswered, Validated, Secured, Loaded, Done
<1> QED  BY <1>1, <1>2, <1>4, <1>5, QuietStep

LEMMA SubmitPasswordInv ==
  ASSUME IInv, NEW c \in Slot, NEW p \in Password, SubmitPassword(c, p) PROVE IInv'
<1> DEFINE call == [Request("password") EXCEPT !.old = kept, !.new = p]
<1>1. kept \in Known \ {None} /\ p # Default /\ p # None
  BY PasswordAssumption DEF IInv, SessionOK, SubmitPassword
<1>2. call \in Call /\ call.op = "password" /\ call.old = kept /\ call.new = p
  BY <1>1, ViewFacts DEF Request, Call, Op, Known
<1>3. CallOK(call, password)  BY <1>1, <1>2 DEF CallOK
<1>4. /\ Place(c, call) /\ UNCHANGED <<server, session, view>>
      /\ ~Relogin(calls[c])
  BY DEF SubmitPassword, Free, Relogin
<1> QED  BY <1>3, <1>4, QuietStep, ViewFacts DEF ViewOK, view

LEMMA PasswordAnsweredInv ==
  ASSUME IInv, NEW c \in Slot, PasswordAnswered(c) PROVE IInv'
<1>1. /\ ~Relogin(calls[c]) /\ UNCHANGED <<server, token, named, stored, view>>
      /\ calls[c] \in Call /\ calls[c] # None /\ calls[c].op = "password"
      /\ CallOK(calls[c], password) /\ CallsOK
  BY ViewFacts DEF PasswordAnswered, Arrived, Relogin, IInv, CallsOK
<1>2. ViewOK'  BY <1>1, ViewFacts DEF ViewOK, view
<1>3. CASE calls[c].answer = "ok"
  <2> DEFINE call == [Request("relogin") EXCEPT !.new = calls[c].new, !.named = named]
  <2>1. /\ call \in Call /\ call.op = "relogin" /\ call.answer = "none"
        /\ call.new = calls[c].new
    BY <1>1, ViewFacts DEF Request, Call, Op, Known, IInv, SessionOK
  <2>2. CallOK(call, password) /\ Relogin(call)
    BY <1>1, <2>1, NoneAssumption DEF CallOK, Relogin
  <2>3. Place(c, call) /\ kept' = calls[c].new  BY <1>3 DEF PasswordAnswered
  <2>4. CallsOK' /\ ServerOK'
    BY <1>1, <2>2, <2>3, PlaceOK DEF IInv, server, ServerOK
  <2>5. SessionOK'
    BY <1>1, <2>3 DEF IInv, SessionOK, ResumeIsTheSession, Call
  <2>6. Resigning'
    BY <2>2, <2>3, ViewFacts DEF Resigning, Relogin, Place
  <2> QED  BY <1>2, <2>4, <2>5, <2>6 DEF IInv, PasswordGoesWithSession, Resigning, Relogin
<1>4. CASE calls[c].answer # "ok"
  <2>1. Place(c, None) /\ UNCHANGED session
    BY <1>1, <1>4 DEF PasswordAnswered, Done, session
  <2> QED  BY <1>1, <1>2, <2>1, OverOK, QuietStep
<1> QED  BY <1>3, <1>4

LEMMA ReloggedInInv ==
  ASSUME IInv, NEW c \in Slot, ReloggedIn(c) PROVE IInv'
<1>1. /\ calls[c] \in Call /\ CallOK(calls[c], password) /\ CallsOK /\ ServerOK
      /\ calls[c].op = "relogin" /\ calls[c].answer = "ok" /\ calls[c] # None
  BY DEF IInv, CallsOK, ReloggedIn, Arrived
<1>2. calls[c].token \in Token \ {0}  BY <1>1 DEF CallOK, Call
<1> DEFINE call == [Request("status") EXCEPT !.token = calls[c].token]
<1>3. call \in Call /\ call.op = "status"
  BY <1>2, ViewFacts DEF Request, Call, Op, Known
<1>4. CallOK(call, password) /\ Place(c, call)
  BY <1>3 DEF CallOK, ReloggedIn
<1>5. CallsOK' /\ ServerOK'
  BY <1>1, <1>4, PlaceOK DEF server, ServerOK, ReloggedIn
<1>6. SessionOK' /\ token' # 0
  BY <1>2 DEF IInv, SessionOK, ResumeIsTheSession, ReloggedIn
<1>7. ViewOK'  BY ViewFacts DEF ViewOK, ReloggedIn
<1> QED  BY <1>5, <1>6, <1>7 DEF IInv, PasswordGoesWithSession

LEMMA EndedStep ==
  ASSUME IInv, Ended, UNCHANGED server, ViewOK', CallsOK'
  PROVE  IInv'
<1>1. SessionOK'
  BY TokenFacts DEF Ended, SessionOK, ResumeIsTheSession, Known
<1> QED  BY <1>1 DEF IInv, Ended, PasswordGoesWithSession, server, ServerOK

LEMMA NotReloggedInInv ==
  ASSUME IInv, NEW c \in Slot, NotReloggedIn(c) PROVE IInv'
<1>1. Ended /\ ViewOK'
  BY ViewFacts DEF NotReloggedIn, Leave, Ended, ViewOK
<1>2. CallsOK'
  BY OverOK, PlaceOK DEF IInv, NotReloggedIn, Done, server
<1> QED  BY <1>1, <1>2, EndedStep DEF NotReloggedIn

LEMMA LogoutInv == ASSUME IInv, Logout PROVE IInv'
<1>1. Ended /\ ViewOK'  BY ViewFacts DEF Logout, Leave, Ended, ViewOK
<1>2. CallsOK'  BY KeepOK DEF IInv, Logout, server
<1> QED  BY <1>1, <1>2, EndedStep DEF Logout

LEMMA NavigateInv ==
  ASSUME IInv, NEW c \in Slot, NEW p \in {"dashboard", "other"}, Navigate(c, p)
  PROVE  IInv'
<1>1. /\ CallOK(Request("load"), password) /\ Place(c, Request("load"))
      /\ ~Relogin(calls[c]) /\ UNCHANGED <<server, session>>
  BY ViewFacts, RequestOK DEF Navigate, Op, Free, Relogin
<1>2. ViewOK'  BY ViewFacts DEF ViewOK, Navigate
<1> QED  BY <1>1, <1>2, QuietStep

LEMMA ReloadInv == ASSUME IInv, Reload PROVE IInv'
<1>1. ServerOK' /\ ViewOK' /\ kept' = None
  BY DEF IInv, Reload, server, ServerOK, ViewOK
<1>2. SessionOK'
  <2>1. CASE named
    BY <1>1, <2>1 DEF Reload, IInv, SessionOK, ResumeIsTheSession, Known
  <2>2. CASE ~named
    BY <1>1, <2>2, TokenFacts DEF Reload, IInv, SessionOK, ResumeIsTheSession, Known
  <2> QED  BY <2>1, <2>2
<1>3. CallsOK'
  <2> DEFINE me == [Request("me") EXCEPT !.token = stored]
  <2>1. me \in Call /\ me.op = "me"
    BY ViewFacts DEF Request, Call, Op, Known, IInv, SessionOK
  <2>2. CallOK(me, password') /\ CallOK(None, password')
    BY <2>1, OverOK DEF CallOK
  <2>3. \A d \in Slot : calls'[d] = me \/ calls'[d] = None
    BY DEF Reload
  <2>4. calls' \in [Slot -> Call \cup {None}]
    BY <2>1 DEF Reload
  <2> QED  BY <2>2, <2>3, <2>4 DEF CallsOK
<1> QED  BY <1>1, <1>2, <1>3 DEF IInv, PasswordGoesWithSession

-----------------------------------------------------------------------------
(* The theorems.                                                             *)

LEMMA InitInv == Init => IInv
<1> SUFFICES ASSUME Init PROVE IInv  OBVIOUS
<1>1. ServerOK  BY PasswordAssumption, LastKeyAssumption DEF Init, ServerOK
<1>2. SessionOK  BY TokenFacts DEF Init, SessionOK, ResumeIsTheSession, Known
<1>3. ViewOK  BY DEF Init, ViewOK
<1>4. CallsOK  BY OverOK DEF Init, CallsOK
<1>5. PasswordGoesWithSession  BY DEF Init, PasswordGoesWithSession
<1> QED  BY <1>1, <1>2, <1>3, <1>4, <1>5 DEF IInv

LEMMA NextInv == IInv /\ [Next]_vars => IInv'
<1> SUFFICES ASSUME IInv, [Next]_vars PROVE IInv'  OBVIOUS
<1>1. ASSUME NEW c \in Slot, Respond(c) PROVE IInv'
  BY <1>1, AnswerInv, AnswerLoginInv, AnswerPasswordInv, FailInv DEF Respond
<1>2. ASSUME NEW c \in Slot, Receive(c) PROVE IInv'
  BY <1>2, LoggedInInv, OverInv, ResumedInv, GotHealthInv, AnsweredInv,
     PasswordAnsweredInv, ReloggedInInv, NotReloggedInInv DEF Receive
<1>3. ASSUME NEW c \in Slot, NEW p \in Password, Login(c, p) \/ SubmitPassword(c, p)
      PROVE  IInv'
  BY <1>3, LoginInv, SubmitPasswordInv
<1>4. ASSUME NEW c \in Slot, NEW p \in {"dashboard", "other"}, Navigate(c, p)
      PROVE  IInv'
  BY <1>4, NavigateInv
<1>5. CASE Rekey \/ Logout \/ Reload  BY <1>5, RekeyInv, LogoutInv, ReloadInv
<1>6. CASE UNCHANGED vars
  <2>1. UNCHANGED <<server, session, view>> /\ calls' = calls  BY <1>6 DEF vars
  <2>2. CallsOK' /\ ServerOK'  BY <2>1, KeepOK DEF IInv, server, ServerOK
  <2>3. Resigning => Resigning'  BY <2>1 DEF Resigning
  <2> QED  BY <2>1, <2>2, <2>3, PageStays DEF IInv
<1> QED  BY <1>1, <1>2, <1>3, <1>4, <1>5, <1>6 DEF Next

LEMMA Invariant == Spec => []IInv
<1> QED  BY InitInv, NextInv, PTL DEF Spec

\* The session, the page and the calls keep their form; a change of the
\* password is only asked for with both passwords.
THEOREM TypeCorrect == Spec => []TypeOK
<1>1. IInv => TypeOK
  BY DEF IInv, ServerOK, SessionOK, ViewOK, CallsOK, CallOK, TypeOK
<1> QED  BY <1>1, Invariant, PTL

\* A reload resumes the session the page holds, whatever answers of earlier
\* sessions arrive.
THEOREM ReloadsResume == Spec => []ResumeIsTheSession
<1>1. IInv => ResumeIsTheSession  BY DEF IInv, SessionOK
<1> QED  BY <1>1, Invariant, PTL

\* No interleaving leaves the password in memory after its session.
THEOREM PasswordsGo == Spec => []PasswordGoesWithSession
<1>1. IInv => PasswordGoesWithSession  BY DEF IInv
<1> QED  BY <1>1, Invariant, PTL

\* The first-run dialog does not uncover the app while the default password is
\* in use.
THEOREM GateHolds == Spec => GateIsKept
<1>1. ASSUME IInv, [Next]_vars, gate, ~gate', screen' = "app"
      PROVE  password # Default
  <2>1. ASSUME NEW c \in Slot, ReloggedIn(c) PROVE password # Default
    BY <1>1, <2>1 DEF ReloggedIn, Arrived, IInv, CallsOK, CallOK
  <2>2. ASSUME NEW c \in Slot, Receive(c), ~ReloggedIn(c) PROVE FALSE
    BY <1>1, <2>2
       DEF Receive, LoggedIn, NotLoggedIn, Resumed, GotHealth, GateUp, NoGate,
           ConfigAnswered, Validated, PasswordAnswered, NotReloggedIn, Secured, Loaded, view
  <2>3. ASSUME NEW c \in Slot, Respond(c) PROVE FALSE
    BY <1>1, <2>3 DEF Respond, Answer, AnswerLogin, AnswerPassword, Fail, view
  <2>4. ASSUME NEW c \in Slot, NEW p \in Password, Login(c, p) \/ SubmitPassword(c, p)
        PROVE  FALSE
    BY <1>1, <2>4 DEF Login, SubmitPassword, view
  <2>5. ASSUME NEW c \in Slot, NEW p \in {"dashboard", "other"}, Navigate(c, p)
        PROVE  FALSE
    BY <1>1, <2>5 DEF Navigate
  <2>6. CASE Rekey \/ Logout \/ Reload  BY <1>1, <2>6 DEF Rekey, Logout, Reload, view
  <2>7. CASE UNCHANGED vars  BY <1>1, <2>7 DEF vars, view
  <2> QED  BY <1>1, <2>1, <2>2, <2>3, <2>4, <2>5, <2>6, <2>7 DEF Next
<1> QED  BY <1>1, Invariant, PTL DEF Spec, GateIsKept
=============================================================================
