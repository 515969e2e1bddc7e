------------------------------- MODULE ChatPage -------------------------------
(***************************************************************************)
(* The Test Chat page (static/js/app.js) against the endpoints of one      *)
(* panel.  The page polls the transcript of its session on a timer and     *)
(* after every utterance, and asks for what it has not seen.  Polls may    *)
(* overlap, and their answers arrive in any order or not at all.           *)
(*                                                                         *)
(* A message is its position in the transcript of its session.             *)
(***************************************************************************)
EXTENDS Naturals, FiniteSets

CONSTANTS
  Sid,     \* sessions the user starts, one after the other (a bound)
  Slot,    \* requests for messages that can be under way at one time (a bound)
  Length,  \* messages in one transcript (a bound)
  None,    \* "no session", "no request"
  Patient  \* whether the user starts a session only when the page is at rest

ASSUME NoneAssumption == None \notin Sid
ASSUME LengthAssumption == Length \in Nat \ {0} /\ Patient \in BOOLEAN

VARIABLES
  alive,       \* sessions the panel has
  transcript,  \* transcript[s]: how many messages session s has
  current,     \* _chatSession
  seen,        \* _chatSeen
  shown,       \* the bubbles in the box: messages as <<session, position>>
  timer,       \* whether _chatPoll ticks
  starting, ending, saying,  \* sessions that startImpersonation,
                             \* endImpersonation and
                             \* sendImpersonationMessage await, or None
  polls        \* polls[p]: a request of _pollChatOnce under way, or None

vars == <<alive, transcript, current, seen, shown, timer,
          starting, ending, saying, polls>>

Position == 1..Length

\* A request for the messages after since; total is None until the panel has
\* answered, then the length of the transcript it was answered with.
Poll == [sid : Sid, since : 0..Length, total : (0..Length) \cup {None}]

TypeOK ==
  /\ alive \subseteq Sid
  /\ transcript \in [Sid -> 0..Length]
  /\ current \in Sid \cup {None}
  /\ seen \in 0..Length
  /\ shown \subseteq Sid \X Position
  /\ timer \in BOOLEAN
  /\ {starting, ending, saying} \subseteq Sid \cup {None}
  /\ polls \in [Slot -> Poll \cup {None}]

Init ==
  /\ alive = {} /\ transcript = [s \in Sid |-> 0]
  /\ current = None /\ seen = 0 /\ shown = {} /\ timer = FALSE
  /\ starting = None /\ ending = None /\ saying = None
  /\ polls = [p \in Slot |-> None]

-----------------------------------------------------------------------------
(* The panel.                                                                *)

\* A reply of the hub, or a denial, is appended to a transcript.
Reply(s) ==
  /\ s \in alive /\ transcript[s] < Length
  /\ transcript' = [transcript EXCEPT ![s] = @ + 1]
  /\ UNCHANGED <<alive, current, seen, shown, timer, starting, ending, saying, polls>>

\* chat_messages: the session's messages after since, and how many there are;
\* a session that is gone is a 404, which the page ignores.
AnswerPoll(p) ==
  /\ polls[p] # None
  /\ polls[p].total = None
  /\ polls' = [polls EXCEPT ![p] = IF polls[p].sid \in alive
                 THEN [@ EXCEPT !.total = transcript[polls[p].sid]] ELSE None]
  /\ UNCHANGED <<alive, transcript, current, seen, shown, timer, starting, ending, saying>>

\* The registry drops a session that was idle, or that had to make room.
Drop(s) ==
  /\ s \in alive
  /\ alive' = alive \ {s}
  /\ UNCHANGED <<transcript, current, seen, shown, timer, starting, ending, saying, polls>>

-----------------------------------------------------------------------------
(* The page.                                                                 *)

\* Nothing the page asked for is under way.
AtRest ==
  /\ ending = None /\ saying = None
  /\ \A p \in Slot : polls[p] = None

\* startImpersonation: the button is off until the answer is there, whether or
\* not a session is active.
Start ==
  /\ starting = None
  /\ Patient => AtRest /\ current = None
  /\ \E s \in Sid \ alive : transcript[s] = 0 /\ starting' = s
  /\ UNCHANGED <<alive, transcript, current, seen, shown, timer, ending, saying, polls>>

\* Mutant: what was seen of the last session counts for the next.
StartedKeepsSeen ==
  /\ starting # None
  /\ \E replaced \in {{}, alive} : alive' = (alive \ replaced) \cup {starting}
  /\ current' = starting /\ shown' = {} /\ timer' = TRUE
  /\ starting' = None
  /\ UNCHANGED <<transcript, seen, ending, saying, polls>>

\* The panel has a session for the page.  A session of the same client that
\* it had before is closed.
Started ==
  /\ starting # None
  /\ \E replaced \in {{}, alive} : alive' = (alive \ replaced) \cup {starting}
  /\ current' = starting /\ seen' = 0 /\ shown' = {} /\ timer' = TRUE
  /\ starting' = None
  /\ UNCHANGED <<transcript, ending, saying, polls>>

\* 400, 404, 502: the page keeps what it had.
NotStarted ==
  /\ starting # None
  /\ starting' = None
  /\ UNCHANGED <<alive, transcript, current, seen, shown, timer, ending, saying, polls>>

\* endImpersonation stops the timer, then awaits the DELETE.
End ==
  /\ current # None /\ ending = None
  /\ ending' = current /\ timer' = FALSE
  /\ UNCHANGED <<alive, transcript, current, seen, shown, starting, saying, polls>>

\* Answered, or failed, which the page ignores.
Ended ==
  /\ ending # None
  /\ \/ alive' = alive \ {ending}
     \/ UNCHANGED alive
  /\ current' = None /\ ending' = None
  /\ UNCHANGED <<transcript, seen, shown, timer, starting, saying, polls>>

\* sendImpersonationMessage awaits the POST.
Say ==
  /\ current # None /\ saying = None
  /\ saying' = current
  /\ UNCHANGED <<alive, transcript, current, seen, shown, timer, starting, ending, polls>>

\* Mutant: the request is made whether or not there is a session.
AskAnyway(p) ==
  polls' = [polls EXCEPT ![p] = [sid |-> current, since |-> seen, total |-> None]]

\* _pollChatOnce: GET messages?since=_chatSeen, of the current session if any.
Ask(p) ==
  IF current = None THEN UNCHANGED polls
  ELSE polls' = [polls EXCEPT
                   ![p] = [sid |-> current, since |-> seen, total |-> None]]

\* The utterance is in the transcript, and the page polls without waiting for
\* the timer; a session that is gone is a toast.
Said ==
  /\ saying # None
  /\ \/ /\ saying \in alive /\ transcript[saying] < Length
        /\ transcript' = [transcript EXCEPT ![saying] = @ + 1]
        /\ \E p \in Slot : polls[p] = None /\ Ask(p)
     \/ /\ saying \notin alive \/ transcript[saying] = Length
        /\ UNCHANGED <<transcript, polls>>
  /\ saying' = None
  /\ UNCHANGED <<alive, current, seen, shown, timer, starting, ending>>

\* setInterval(_pollChatOnce, 1200), whatever is still under way.
Tick ==
  /\ timer
  /\ \E p \in Slot : polls[p] = None /\ Ask(p)
  /\ UNCHANGED <<alive, transcript, current, seen, shown, timer, starting, ending, saying>>

\* _chatSeen = r.total
AfterDelivery(q) == q.total

\* An answer arrives: its messages are put at the end of the box, if there
\* are any, whatever the page did meanwhile.
Deliver(p) ==
  /\ polls[p] # None
  /\ polls[p].total # None
  /\ LET q == polls[p] IN
       IF q.total > q.since
       THEN /\ shown' = shown \cup {<<q.sid, k>> : k \in (q.since + 1)..q.total}
            /\ seen' = AfterDelivery(q)
       ELSE UNCHANGED <<shown, seen>>
  /\ polls' = [polls EXCEPT ![p] = None]
  /\ UNCHANGED <<alive, transcript, current, timer, starting, ending, saying>>

\* Mutant: the first failure stops the timer.
LoseStops(p) ==
  /\ polls[p] # None
  /\ polls' = [polls EXCEPT ![p] = None] /\ timer' = FALSE
  /\ UNCHANGED <<alive, transcript, current, seen, shown, starting, ending, saying>>

\* The request fails on the way; the next tick asks again.
Lose(p) ==
  /\ polls[p] # None
  /\ polls' = [polls EXCEPT ![p] = None]
  /\ UNCHANGED <<alive, transcript, current, seen, shown, timer, starting, ending, saying>>

Next ==
  \/ \E s \in Sid : Reply(s) \/ Drop(s)
  \/ Start \/ Started \/ NotStarted \/ End \/ Ended \/ Say \/ Said \/ Tick
  \/ \E p \in Slot : AnswerPoll(p) \/ Deliver(p) \/ Lose(p)

Spec == Init /\ [][Next]_vars

\* The timer ticks.  The network may lose requests and answers, but not all of
\* them: a request that is made again and again is answered in the end, and an
\* answer that is sent again and again arrives.
FairSpec ==
  /\ Spec
  /\ WF_vars(Tick)
  /\ \A p \in Slot : SF_vars(AnswerPoll(p)) /\ SF_vars(Deliver(p))

-----------------------------------------------------------------------------
\* The box shows the messages of the session from the first one on without a
\* gap, and everything up to what the page counts as seen, however its polls
\* overlapped: no message is skipped.
ShownIsAPrefix ==
  current # None =>
    \A k \in Position :
      k <= seen \/ <<current, k>> \in shown =>
        \A j \in 1..k : <<current, j>> \in shown

\* Every message of the session is shown in the end, while the page keeps the
\* session and so does the panel.
EveryMessageIsShown ==
  \A s \in Sid, k \in Position :
    current = s /\ ending = None /\ transcript[s] >= k
      ~> <<s, k>> \in shown \/ current # s \/ ending # None \/ s \notin alive
=============================================================================
