--------------------------- MODULE SessionRegistry ---------------------------
(***************************************************************************)
(* The registry of test-chat sessions: ChatSessions (_chat.py), and its    *)
(* twin PersonaChatSessions (_persona_chat.py), which has the same code    *)
(* for personas instead of clients.  Threads of the pool start, use and    *)
(* end sessions.  create() makes room under the registry's lock, connects  *)
(* without it, for up to 15 seconds, and takes it again to register.       *)
(***************************************************************************)
EXTENDS Integers, FiniteSets

CONSTANTS
  Thread,  \* threads of the pool
  Owner,   \* clients to impersonate (personas to talk to)
  Sid,     \* session ids; the id of a session that is gone is used again
  Max,     \* the registry makes room when it has this many (12 in the code)
  Nobody   \* "no session", and "no owner"

ASSUME MaxAssumption == Max \in Nat \ {0}
ASSUME FiniteAssumption == IsFiniteSet(Thread) /\ IsFiniteSet(Sid)
ASSUME NobodyAssumption == Nobody \notin Sid /\ Nobody \notin Owner

VARIABLES
  sessions,  \* ids in the registry
  owner,     \* whose session an id is
  open,      \* sessions with a connection to the hub, or on their way to one
  failed,    \* sessions with an error, until their start is answered
  rank,      \* sessions by last_used: a higher rank was used later, 0 is gone
  hub,       \* whether the hub answers
  pc, held   \* where thread t is, and the session it has in its hands

vars == <<sessions, owner, open, failed, rank, hub, pc, held>>

Label == {"idle", "connect", "register", "check", "use", "close"}

\* Sessions that are registered or will be.
Connecting == {t \in Thread : pc[t] \in {"connect", "register"}}
Live == sessions \cup {held[t] : t \in Connecting}

TypeOK ==
  /\ sessions \subseteq Sid /\ open \subseteq Sid /\ failed \subseteq Sid
  /\ owner \in [Sid -> Owner \cup {Nobody}]
  /\ rank \in [Sid -> Nat]
  /\ hub \in BOOLEAN
  /\ pc \in [Thread -> Label]
  /\ held \in [Thread -> Sid \cup {Nobody}]
  /\ \A t \in Thread : held[t] = Nobody <=> pc[t] = "idle"
  /\ \A s \in Live : owner[s] \in Owner

Init ==
  /\ sessions = {} /\ open = {} /\ failed = {}
  /\ owner = [s \in Sid |-> Nobody]
  /\ rank = [s \in Sid |-> 0]
  /\ hub \in BOOLEAN
  /\ pc = [t \in Thread |-> "idle"]
  /\ held = [t \in Thread |-> Nobody]

-----------------------------------------------------------------------------
GoTo(t, label, s) ==
  /\ pc' = [pc EXCEPT ![t] = label]
  /\ held' = [held EXCEPT ![t] = s]

\* The request is answered.
Answer(t) == GoTo(t, "idle", Nobody)

\* Mutant: only what is in the registry keeps its owner.
OwnerOfRegistered(S) ==
  [s \in Sid |-> IF s \in S \cap sessions THEN owner[s] ELSE Nobody]

\* What is kept of the sessions S, once any others are gone.
OwnerOf(S) == [s \in Sid |-> IF s \in S THEN owner[s] ELSE Nobody]
RankOf(S) ==
  [s \in Sid |-> IF s \in S THEN Cardinality({x \in S : rank[x] <= rank[s]})
                            ELSE 0]

\* last_used = time.time(), of session s next to the sessions S.
Touched(S, s) == [RankOf(S \ {s}) EXCEPT ![s] = Cardinality(S \cup {s})]

\* min(sessions, key=last_used)
Oldest(S) == {s \in S : \A r \in S : rank[s] <= rank[r]}

\* Ids that no session has: the bound on how many there are at one time.
FreeSid == Sid \ (sessions \cup open \cup {held[t] : t \in Thread})
NewSid == CHOOSE s \in FreeSid : TRUE

\* Mutant: room is made only when the registry is over its size.
EvictedOver(o, n) ==
  LET gone == {s \in sessions : rank[s] <= n \/ owner[s] = o}
      kept == sessions \ gone
  IN gone \cup IF Cardinality(kept) > Max THEN Oldest(kept) ELSE {}

\* The sessions create() closes before it connects: those idle for too long
\* (last used at rank n or before), any other of this owner, and the least
\* recently used one if the registry is still full.
Evicted(o, n) ==
  LET gone == {s \in sessions : rank[s] <= n \/ owner[s] = o}
      kept == sessions \ gone
  IN gone \cup IF Cardinality(kept) >= Max THEN Oldest(kept) ELSE {}

\* Mutant: sessions are dropped from the registry and not closed.
StartUnclosed(t) ==
  /\ pc[t] = "idle"
  /\ FreeSid # {}
  /\ \E o \in Owner, n \in 0..Cardinality(Live) :
       LET s == NewSid
           kept == Live \ Evicted(o, n)
       IN
       /\ sessions' = sessions \ Evicted(o, n)
       /\ open' = open \cup {s}
       /\ owner' = [OwnerOf(kept) EXCEPT ![s] = o]
       /\ rank' = Touched(kept, s)
       /\ GoTo(t, "connect", s)
  /\ UNCHANGED <<failed, hub>>

\* chat_start: the client exists and is not revoked; create() makes room, and
\* the new session, not yet registered, begins to connect.
Start(t) ==
  /\ pc[t] = "idle"
  /\ FreeSid # {}
  /\ \E o \in Owner, n \in 0..Cardinality(Live) :
       LET s == NewSid
           kept == Live \ Evicted(o, n)
       IN
       /\ sessions' = sessions \ Evicted(o, n)
       /\ open' = (open \ Evicted(o, n)) \cup {s}
       /\ owner' = [OwnerOf(kept) EXCEPT ![s] = o]
       /\ rank' = Touched(kept, s)
       /\ GoTo(t, "connect", s)
  /\ UNCHANGED <<failed, hub>>

\* Mutant: the handshake is waited for without a limit.
HandshakeForever(t) ==
  /\ pc[t] = "connect" /\ hub
  /\ UNCHANGED failed
  /\ GoTo(t, "register", held[t])
  /\ UNCHANGED <<sessions, owner, open, rank, hub>>

\* The handshake completes, or connecting raises, or 15 seconds pass.
Handshake(t) ==
  /\ pc[t] = "connect"
  /\ \/ hub /\ UNCHANGED failed
     \/ failed' = failed \cup {held[t]}
  /\ GoTo(t, "register", held[t])
  /\ UNCHANGED <<sessions, owner, open, rank, hub>>

\* self._sessions[sess.id] = sess, whether or not it has an error.
Register(t) ==
  /\ pc[t] = "register"
  /\ sessions' = sessions \cup {held[t]}
  /\ GoTo(t, "check", held[t])
  /\ UNCHANGED <<owner, open, failed, rank, hub>>

\* Mutant: the session is looked up and left in the registry.
TakeUnpopped(t, s) ==
  /\ UNCHANGED <<sessions, owner, rank>>
  /\ IF s \in sessions THEN GoTo(t, "close", s) ELSE Answer(t)

\* The registry's close(), in two steps: the session is taken out under the
\* lock, its connection is closed after that.  An id that is not there any
\* more has been closed by whoever took it out.
Take(t, s) ==
  /\ sessions' = sessions \ {s}
  /\ IF s \in sessions THEN GoTo(t, "close", s) ELSE Answer(t)
  /\ owner' = OwnerOf(Live \ {s})
  /\ rank' = RankOf(Live \ {s})

\* Mutant: a failed start is answered and its session left where it is.
CheckForgets(t) ==
  /\ pc[t] = "check"
  /\ Answer(t) /\ UNCHANGED sessions
  /\ UNCHANGED <<owner, open, failed, rank, hub>>

\* if sess.error: CHAT.close(sess.id), and 502; else the id is the answer.
Check(t) ==
  /\ pc[t] = "check"
  /\ \/ held[t] \in failed /\ Take(t, held[t])
     \/ held[t] \notin failed /\ Answer(t) /\ UNCHANGED <<sessions, owner, rank>>
  /\ failed' = failed \ {held[t]}
  /\ UNCHANGED <<open, hub>>

\* DELETE /chat/sessions/{sid}
End(t) ==
  /\ pc[t] = "idle"
  /\ \E s \in sessions : Take(t, s)
  /\ UNCHANGED <<open, failed, hub>>

\* s.close(), outside the lock.
CloseBus(t) ==
  /\ pc[t] = "close"
  /\ open' = open \ {held[t]}
  /\ Answer(t)
  /\ UNCHANGED <<sessions, owner, failed, rank, hub>>

\* say() and messages(): the session is looked up without the lock ...
Get(t) ==
  /\ pc[t] = "idle"
  /\ \E s \in sessions : GoTo(t, "use", s)
  /\ UNCHANGED <<sessions, owner, open, failed, rank, hub>>

\* ... and used, even if it was closed in between.
Use(t) ==
  /\ pc[t] = "use"
  /\ IF held[t] \in sessions THEN rank' = Touched(Live, held[t])
                             ELSE UNCHANGED rank
  /\ Answer(t)
  /\ UNCHANGED <<sessions, owner, open, failed, hub>>

\* The core starts, stops or hangs.
HubChanges ==
  /\ hub' = ~hub
  /\ UNCHANGED <<sessions, owner, open, failed, rank, pc, held>>

\* What a thread does with a request it has accepted.
Proceed(t) ==
  Handshake(t) \/ Register(t) \/ Check(t) \/ CloseBus(t) \/ Use(t)

Next ==
  \/ HubChanges
  \/ \E t \in Thread : Start(t) \/ End(t) \/ Get(t) \/ Proceed(t)

Spec == Init /\ [][Next]_vars

\* Threads run; wait(15) returns whether or not the hub ever answers.
FairSpec == Spec /\ \A t \in Thread : WF_vars(Proceed(t))

-----------------------------------------------------------------------------
\* Threads that have taken a session out of the registry to close it.
Closing == {t \in Thread : pc[t] = "close"}

\* No connection to the hub is forgotten and none is closed under a session
\* that is still served: what is open is what the registry has, and what some
\* thread is connecting or about to close.
ConnectionsAreAccounted ==
  open = sessions \cup {held[t] : t \in Connecting \cup Closing}

\* No two threads have the same session to register or to close, and neither
\* does the registry: a connection is closed once.
EachConnectionHasOneKeeper ==
  /\ \A t \in Connecting \cup Closing : held[t] \notin sessions
  /\ \A t, x \in Connecting \cup Closing : held[t] = held[x] => t = x

\* The registry and the starts under way stay within the registry's size and
\* the pool's: room is made before a start connects, not when it registers,
\* so starts that overlap may go over Max, but not by more than the pool.
SessionsAreBounded ==
  Cardinality(sessions) + Cardinality(Connecting)
    <= Max - 1 + Cardinality(Thread)

\* A session that failed to connect is only ever in the registry while its
\* own start is about to take it out again.
FailedSessionsGo ==
  \A s \in sessions \cap failed :
    \E t \in Thread : pc[t] = "check" /\ held[t] = s

\* Every start is answered, also when the hub never does.
StartsAreAnswered ==
  \A t \in Thread : pc[t] = "connect" ~> pc[t] = "idle"
=============================================================================
