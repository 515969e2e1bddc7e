--------------------------- MODULE ChatPageProofs ---------------------------
(***************************************************************************)
(* What TLAPS proves of ChatPage, for any number of sessions, of polls     *)
(* under way and of messages.                                              *)
(***************************************************************************)
EXTENDS ChatPage, TLAPS

\* A patient user has nothing under way while a session starts.
StartsAtRest == starting # None => current = None /\ AtRest

\* What a poll did not ask for is in the box.
AsksForTheRest(q) ==
  q # None => q.sid = current /\ \A j \in 1..q.since : <<current, j>> \in shown

PollsAreOfTheSession == current # None => \A p \in Slot : AsksForTheRest(polls[p])

-----------------------------------------------------------------------------
(* Types, whether or not the user is patient.                                *)

PollsTypeOK == polls \in [Slot -> Poll \cup {None}]

\* A transcript that has room gets longer.
LEMMA LongerOK ==
  ASSUME transcript \in [Sid -> 0..Length], NEW s \in Sid, transcript[s] < Length
  PROVE  [transcript EXCEPT ![s] = @ + 1] \in [Sid -> 0..Length]
BY LengthAssumption

LEMMA AskOK ==
  ASSUME TypeOK, NEW p \in Slot, Ask(p) PROVE PollsTypeOK'
<1>1. CASE current = None
  BY <1>1 DEF Ask, TypeOK, PollsTypeOK
<1>2. CASE current # None
  <2>1. [sid |-> current, since |-> seen, total |-> None] \in Poll
    BY <1>2 DEF TypeOK, Poll
  <2> QED  BY <1>2, <2>1 DEF Ask, TypeOK, PollsTypeOK
<1> QED  BY <1>1, <1>2

LEMMA DeliverOK ==
  ASSUME TypeOK, NEW p \in Slot, Deliver(p) PROVE TypeOK'
<1>1. /\ polls[p] \in Poll /\ polls[p].sid \in Sid
      /\ polls[p].since \in 0..Length /\ polls[p].total \in 0..Length
  BY DEF Deliver, TypeOK, Poll
<1>2. shown' \subseteq Sid \X Position /\ seen' \in 0..Length
  BY <1>1, LengthAssumption DEF Deliver, AfterDelivery, TypeOK, Position
<1>3. PollsTypeOK'  BY DEF Deliver, TypeOK, PollsTypeOK
<1> QED  BY <1>2, <1>3 DEF Deliver, TypeOK, PollsTypeOK

LEMMA NextTypeOK == TypeOK /\ [Next]_vars => TypeOK'
<1> SUFFICES ASSUME TypeOK, [Next]_vars PROVE TypeOK'  OBVIOUS
<1> USE DEF TypeOK, PollsTypeOK
<1>1. ASSUME NEW s \in Sid, Reply(s) PROVE TypeOK'
  BY <1>1, LongerOK DEF Reply
<1>2. ASSUME NEW s \in Sid, Drop(s) PROVE TypeOK'
  BY <1>2 DEF Drop
<1>3. CASE Start  BY <1>3 DEF Start
<1>4. CASE Started
  BY <1>4, LengthAssumption DEF Started
<1>5. CASE NotStarted  BY <1>5 DEF NotStarted
<1>6. CASE End  BY <1>6 DEF End
<1>7. CASE Ended  BY <1>7 DEF Ended
<1>8. CASE Say  BY <1>8 DEF Say
<1>9. CASE Said
  <2>1. PollsTypeOK'  BY <1>9, AskOK DEF Said
  <2>2. transcript' \in [Sid -> 0..Length]  BY <1>9, LongerOK DEF Said
  <2> QED  BY <1>9, <2>1, <2>2 DEF Said
<1>10. CASE Tick  BY <1>10, AskOK DEF Tick
<1>11. ASSUME NEW p \in Slot, AnswerPoll(p) PROVE TypeOK'
  <2>1. polls[p] \in Poll /\ transcript[polls[p].sid] \in 0..Length
    BY <1>11 DEF AnswerPoll, Poll
  <2>2. PollsTypeOK'  BY <1>11, <2>1 DEF AnswerPoll, Poll
  <2> QED  BY <1>11, <2>2 DEF AnswerPoll
<1>12. ASSUME NEW p \in Slot, Deliver(p) PROVE TypeOK'  BY <1>12, DeliverOK
<1>13. ASSUME NEW p \in Slot, Lose(p) PROVE TypeOK'
  BY <1>13 DEF Lose
<1>14. CASE UNCHANGED vars  BY <1>14 DEF vars
<1> QED
  BY <1>1, <1>2, <1>3, <1>4, <1>5, <1>6, <1>7, <1>8, <1>9, <1>10, <1>11, <1>12,
     <1>13, <1>14 DEF Next

LEMMA InitTypeOK == Init => TypeOK
<1> SUFFICES ASSUME Init PROVE TypeOK  OBVIOUS
<1>1. transcript \in [Sid -> 0..Length] /\ seen \in 0..Length
  BY LengthAssumption DEF Init
<1>2. polls \in [Slot -> Poll \cup {None}] /\ timer \in BOOLEAN
  BY DEF Init
<1>3. alive \subseteq Sid /\ shown \subseteq Sid \X Position
  BY DEF Init
<1>4. {starting, ending, saying} \subseteq Sid \cup {None} /\ current \in Sid \cup {None}
  BY DEF Init
<1> QED  BY <1>1, <1>2, <1>3, <1>4 DEF TypeOK

\* The session, its transcripts, the box and the requests keep their form.
THEOREM TypeCorrect == Spec => []TypeOK
<1>1. Init => TypeOK  BY InitTypeOK
<1>2. TypeOK /\ [Next]_vars => TypeOK'  BY NextTypeOK
<1> QED  BY <1>1, <1>2, PTL DEF Spec

-----------------------------------------------------------------------------
(* What the box shows to a patient user.                                     *)

PatientInv == StartsAtRest /\ PollsAreOfTheSession /\ ShownIsAPrefix

\* Neither the page nor its polls change.
LEMMA PageStays ==
  ASSUME PatientInv, UNCHANGED <<current, seen, shown, polls>>,
         starting' = None
           \/ /\ starting' = starting /\ ending' = ending /\ saying' = saying
  PROVE  PatientInv'
<1>1. StartsAtRest'
  BY DEF PatientInv, StartsAtRest, AtRest
<1>2. PollsAreOfTheSession' /\ ShownIsAPrefix'
  BY DEF PatientInv, PollsAreOfTheSession, AsksForTheRest, ShownIsAPrefix
<1> QED  BY <1>1, <1>2 DEF PatientInv

\* One poll ends or is answered, or there is a new one for what follows the
\* messages that were seen.
LEMMA PollStep ==
  ASSUME TypeOK, PatientInv, NEW p \in Slot, NEW q,
         polls' = [polls EXCEPT ![p] = q],
         UNCHANGED <<current, seen, shown, starting, ending>>,
         saying' \in {saying, None},
         q # None => starting = None,
         current # None => AsksForTheRest(q)
  PROVE  PatientInv'
<1>1. polls \in [Slot -> Poll \cup {None}]  BY DEF TypeOK
<1>2. ASSUME NEW r \in Slot PROVE polls'[r] = IF r = p THEN q ELSE polls[r]
  BY <1>1
<1>3. StartsAtRest'
  BY <1>2 DEF PatientInv, StartsAtRest, AtRest
<1>4. PollsAreOfTheSession'
  <2>1. ASSUME current # None, NEW r \in Slot PROVE AsksForTheRest(polls[r])'
    <3>1. AsksForTheRest(polls[r])  BY <2>1 DEF PatientInv, PollsAreOfTheSession
    <3> QED  BY <1>2, <2>1, <3>1 DEF AsksForTheRest
  <2> QED  BY <2>1 DEF PollsAreOfTheSession
<1>5. ShownIsAPrefix'  BY DEF PatientInv, ShownIsAPrefix
<1> QED  BY <1>3, <1>4, <1>5 DEF PatientInv

LEMMA AskInv ==
  ASSUME TypeOK, PatientInv, NEW p \in Slot, Ask(p),
         UNCHANGED <<current, seen, shown, starting, ending>>,
         saying' \in {saying, None}
  PROVE  PatientInv'
<1>1. CASE current = None
  <2>1. UNCHANGED polls  BY <1>1 DEF Ask
  <2>2. StartsAtRest'  BY <2>1 DEF PatientInv, StartsAtRest, AtRest
  <2>3. PollsAreOfTheSession' /\ ShownIsAPrefix'
    BY <1>1 DEF PollsAreOfTheSession, ShownIsAPrefix
  <2> QED  BY <2>2, <2>3 DEF PatientInv
<1>2. CASE current # None
  <2> DEFINE q == [sid |-> current, since |-> seen, total |-> None]
  <2>1. \A j \in 1..seen : <<current, j>> \in shown
    BY <1>2, LengthAssumption DEF PatientInv, ShownIsAPrefix, TypeOK, Position
  <2>2. AsksForTheRest(q)  BY <2>1 DEF AsksForTheRest
  <2>3. starting = None  BY <1>2 DEF PatientInv, StartsAtRest
  <2>4. polls' = [polls EXCEPT ![p] = q]  BY <1>2 DEF Ask
  <2> QED  BY <2>2, <2>3, <2>4, PollStep
<1> QED  BY <1>1, <1>2

LEMMA StartedInv ==
  ASSUME TypeOK, PatientInv, Started PROVE PatientInv'
<1>1. /\ starting' = None /\ shown' = {} /\ seen' = 0 /\ polls' = polls
      /\ starting # None
  BY DEF Started
<1>2. \A p \in Slot : polls'[p] = None
  BY <1>1 DEF PatientInv, StartsAtRest, AtRest
<1>3. StartsAtRest' /\ PollsAreOfTheSession'
  BY <1>1, <1>2 DEF StartsAtRest, PollsAreOfTheSession, AsksForTheRest
<1>4. ShownIsAPrefix'
  BY <1>1, LengthAssumption DEF ShownIsAPrefix, Position
<1> QED  BY <1>3, <1>4 DEF PatientInv

LEMMA DeliverInv ==
  ASSUME TypeOK, PatientInv, NEW p \in Slot, Deliver(p) PROVE PatientInv'
<1> DEFINE q == polls[p]
<1>1. /\ q \in Poll /\ q # None /\ q.since \in 0..Length /\ q.total \in 0..Length
      /\ polls' = [polls EXCEPT ![p] = None]
      /\ UNCHANGED <<current, starting, ending, saying>>
  BY DEF Deliver, TypeOK, Poll
<1>2. starting = None
  BY <1>1 DEF PatientInv, StartsAtRest, AtRest
<1>3. CASE q.total <= q.since
  <2>1. UNCHANGED <<shown, seen>>  BY <1>1, <1>3, LengthAssumption DEF Deliver
  <2>2. AsksForTheRest(None)  BY DEF AsksForTheRest
  <2> QED  BY <1>1, <1>2, <2>1, <2>2, PollStep
<1>4. CASE q.total > q.since
  <2>1. /\ shown' = shown \cup {<<q.sid, k>> : k \in (q.since + 1)..q.total}
        /\ seen' = q.total
    BY <1>4 DEF Deliver, AfterDelivery
  <2>2. StartsAtRest'  BY <1>1, <1>2 DEF StartsAtRest
  <2>3. ASSUME current # None
        PROVE  /\ q.sid = current
               /\ \A j \in 1..q.since : <<current, j>> \in shown
               /\ \A j \in 1..q.total : <<current, j>> \in shown'
    <3>1. q.sid = current /\ \A j \in 1..q.since : <<current, j>> \in shown
      BY <1>1, <2>3 DEF PatientInv, PollsAreOfTheSession, AsksForTheRest
    <3>2. ASSUME NEW j \in 1..q.total PROVE <<current, j>> \in shown'
      <4>1. j \in 1..q.since \/ j \in (q.since + 1)..q.total
        BY <1>1, LengthAssumption
      <4> QED  BY <2>1, <3>1, <4>1
    <3> QED  BY <3>1, <3>2
  <2>4. PollsAreOfTheSession'
    <3>1. ASSUME current' # None, NEW r \in Slot PROVE AsksForTheRest(polls[r])'
      <4>1. polls'[r] \in {polls[r], None}  BY <1>1 DEF TypeOK
      <4>2. AsksForTheRest(polls[r])
        BY <1>1, <3>1 DEF PatientInv, PollsAreOfTheSession
      <4> QED  BY <1>1, <2>1, <4>1, <4>2 DEF AsksForTheRest
    <3> QED  BY <3>1 DEF PollsAreOfTheSession
  <2>5. ShownIsAPrefix'
    <3> SUFFICES ASSUME current # None, NEW k \in Position,
                        k <= q.total \/ <<current, k>> \in shown',
                        NEW j \in 1..k
                 PROVE  <<current, j>> \in shown'
      BY <1>1, <2>1 DEF ShownIsAPrefix
    <3>1. CASE k <= q.total
      <4>1. j \in 1..q.total  BY <1>1, <3>1, LengthAssumption DEF Position
      <4> QED  BY <2>3, <4>1
    <3>2. CASE ~(k <= q.total)
      <4>1. k \notin (q.since + 1)..q.total
        BY <1>1, <3>2, LengthAssumption DEF Position
      <4>2. <<current, k>> \in shown  BY <2>1, <2>3, <3>2, <4>1
      <4>3. <<current, j>> \in shown  BY <4>2 DEF PatientInv, ShownIsAPrefix
      <4> QED  BY <2>1, <4>3
    <3> QED  BY <3>1, <3>2
  <2> QED  BY <2>2, <2>4, <2>5 DEF PatientInv
<1> QED  BY <1>1, <1>3, <1>4, LengthAssumption

LEMMA NextPatientInv ==
  ASSUME Patient PROVE TypeOK /\ PatientInv /\ [Next]_vars => PatientInv'
<1> SUFFICES ASSUME TypeOK, PatientInv, [Next]_vars PROVE PatientInv'  OBVIOUS
<1>1. ASSUME NEW s \in Sid, Reply(s) PROVE PatientInv'
  BY <1>1, PageStays DEF Reply
<1>2. ASSUME NEW s \in Sid, Drop(s) PROVE PatientInv'
  BY <1>2, PageStays DEF Drop
<1>3. CASE Start
  <2>1. current = None /\ AtRest  BY <1>3 DEF Start
  <2>2. StartsAtRest'  BY <1>3, <2>1 DEF Start, StartsAtRest, AtRest
  <2> QED  BY <1>3, <2>1, <2>2
           DEF Start, PatientInv, PollsAreOfTheSession, ShownIsAPrefix
<1>4. CASE Started  BY <1>4, StartedInv
<1>5. CASE NotStarted  BY <1>5, PageStays DEF NotStarted
<1>6. CASE End
  <2>1. starting = None  BY <1>6 DEF End, PatientInv, StartsAtRest
  <2> QED  BY <1>6, <2>1, PageStays DEF End
<1>7. CASE Ended
  <2>1. starting = None  BY <1>7 DEF Ended, PatientInv, StartsAtRest, AtRest
  <2> QED  BY <1>7, <2>1
           DEF Ended, PatientInv, StartsAtRest, PollsAreOfTheSession, ShownIsAPrefix
<1>8. CASE Say
  <2>1. starting = None  BY <1>8 DEF Say, PatientInv, StartsAtRest
  <2> QED  BY <1>8, <2>1, PageStays DEF Say
<1>9. CASE Said
  <2>1. starting = None  BY <1>9 DEF Said, PatientInv, StartsAtRest, AtRest
  <2>2. CASE UNCHANGED polls  BY <1>9, <2>1, <2>2, PageStays DEF Said
  <2>3. CASE \E p \in Slot : Ask(p)  BY <1>9, <2>3, AskInv DEF Said
  <2> QED  BY <1>9, <2>2, <2>3 DEF Said
<1>10. CASE Tick  BY <1>10, AskInv DEF Tick
<1>11. ASSUME NEW p \in Slot, AnswerPoll(p) PROVE PatientInv'
  <2>1. polls[p] \in Poll /\ polls[p] # None /\ starting = None
    BY <1>11 DEF AnswerPoll, TypeOK, PatientInv, StartsAtRest, AtRest
  <2>2. current # None => AsksForTheRest(polls[p])
    BY DEF PatientInv, PollsAreOfTheSession
  <2>3. PICK q : /\ polls' = [polls EXCEPT ![p] = q]
                 /\ \/ q = None
                    \/ q.sid = polls[p].sid /\ q.since = polls[p].since
    <3>1. CASE polls[p].sid \in alive
      <4> DEFINE q == [polls[p] EXCEPT !.total = transcript[polls[p].sid]]
      <4>1. polls' = [polls EXCEPT ![p] = q]  BY <1>11, <3>1 DEF AnswerPoll
      <4>2. q.sid = polls[p].sid /\ q.since = polls[p].since
        BY <2>1 DEF Poll
      <4> QED  BY <4>1, <4>2
    <3>2. CASE polls[p].sid \notin alive
      BY <1>11, <3>2 DEF AnswerPoll
    <3> QED  BY <3>1, <3>2
  <2>4. current # None => AsksForTheRest(q)
    BY <2>1, <2>2, <2>3 DEF AsksForTheRest
  <2> QED  BY <1>11, <2>1, <2>3, <2>4, PollStep DEF AnswerPoll
<1>12. ASSUME NEW p \in Slot, Deliver(p) PROVE PatientInv'  BY <1>12, DeliverInv
<1>13. ASSUME NEW p \in Slot, Lose(p) PROVE PatientInv'
  <2>1. AsksForTheRest(None)  BY DEF AsksForTheRest
  <2> QED  BY <1>13, <2>1, PollStep DEF Lose
<1>14. CASE UNCHANGED vars
  BY <1>14, PageStays DEF vars
<1> QED
  BY <1>1, <1>2, <1>3, <1>4, <1>5, <1>6, <1>7, <1>8, <1>9, <1>10, <1>11, <1>12,
     <1>13, <1>14 DEF Next

\* A user who starts a session when the page is at rest misses no message:
\* overlapping, late and lost polls leave no gap in the box (_pollChatOnce).
THEOREM NoMessageIsSkipped ==
  ASSUME Patient PROVE Spec => []ShownIsAPrefix
<1>1. Init => PatientInv
  BY DEF Init, PatientInv, StartsAtRest, PollsAreOfTheSession, ShownIsAPrefix
<1>2. PatientInv => ShownIsAPrefix  BY DEF PatientInv
<1>3. TypeOK /\ PatientInv /\ [Next]_vars => PatientInv'  BY NextPatientInv
<1>4. Spec => []TypeOK  BY TypeCorrect
<1> QED  BY <1>1, <1>2, <1>3, <1>4, PTL DEF Spec
=============================================================================
