------------------------ MODULE SessionRegistryProofs ------------------------
(***************************************************************************)
(* What TLAPS proves of SessionRegistry, for every finite pool, every set  *)
(* of session ids and every size of the registry.                          *)
(***************************************************************************)
EXTENDS SessionRegistry, FiniteSetTheorems, WellFoundedInduction, TLAPS

\* A start has its session to itself until it is answered.
StartsAreApart ==
  \A t, x \in Thread :
    /\ pc[t] \in {"connect", "register", "check"}
    /\ pc[x] \in {"connect", "register", "check"}
    /\ held[t] = held[x]
    => t = x

\* An error belongs to a start that will look at it.
ErrorsAreSeen ==
  \A s \in failed :
    \E t \in Thread : pc[t] \in {"register", "check"} /\ held[t] = s

IInv ==
  /\ TypeOK
  /\ ConnectionsAreAccounted
  /\ EachConnectionHasOneKeeper
  /\ StartsAreApart
  /\ ErrorsAreSeen

-----------------------------------------------------------------------------
LEMMA GoToFacts ==
  ASSUME TypeOK, NEW t \in Thread, NEW label \in Label,
         NEW s \in Sid \cup {Nobody}, GoTo(t, label, s),
         s = Nobody <=> label = "idle"
  PROVE  /\ pc'[t] = label /\ held'[t] = s
         /\ \A x \in Thread \ {t} : pc'[x] = pc[x] /\ held'[x] = held[x]
         /\ pc' \in [Thread -> Label]
         /\ held' \in [Thread -> Sid \cup {Nobody}]
         /\ \A x \in Thread : held'[x] = Nobody <=> pc'[x] = "idle"
BY DEF TypeOK, GoTo

LEMMA LiveType == ASSUME TypeOK PROVE Live \subseteq Sid
BY NobodyAssumption DEF TypeOK, Live, Connecting

LEMMA RankType ==
  ASSUME TypeOK, NEW S \in SUBSET Sid PROVE RankOf(S) \in [Sid -> Nat]
<1>1. ASSUME NEW s \in Sid
      PROVE  Cardinality({x \in S : rank[x] <= rank[s]}) \in Nat
  BY FS_Subset, FS_CardinalityType, FiniteAssumption
<1> QED  BY <1>1 DEF RankOf

LEMMA TouchedType ==
  ASSUME TypeOK, NEW S \in SUBSET Sid, NEW s \in Sid
  PROVE  Touched(S, s) \in [Sid -> Nat]
<1>1. RankOf(S \ {s}) \in [Sid -> Nat]  BY RankType
<1>2. Cardinality(S \cup {s}) \in Nat
  BY FS_Subset, FS_CardinalityType, FiniteAssumption
<1> QED  BY <1>1, <1>2 DEF Touched

LEMMA NewSidFacts ==
  ASSUME FreeSid # {}
  PROVE  /\ NewSid \in Sid /\ NewSid \notin sessions /\ NewSid \notin open
         /\ \A t \in Thread : held[t] # NewSid
<1>1. NewSid \in FreeSid  BY DEF NewSid
<1> QED  BY <1>1 DEF FreeSid

LEMMA EvictedFacts ==
  ASSUME NEW o, NEW n PROVE Evicted(o, n) \subseteq sessions
BY DEF Evicted, Oldest

-----------------------------------------------------------------------------
LEMMA InitInv == Init => IInv
BY NobodyAssumption
   DEF Init, IInv, TypeOK, Live, Connecting, Closing, ConnectionsAreAccounted,
       EachConnectionHasOneKeeper, StartsAreApart, ErrorsAreSeen, Label

LEMMA StartInv == ASSUME IInv, NEW t \in Thread, Start(t) PROVE IInv'
<1>1. PICK o \in Owner, n \in 0..Cardinality(Live) :
        /\ sessions' = sessions \ Evicted(o, n)
        /\ open' = (open \ Evicted(o, n)) \cup {NewSid}
        /\ owner' = [OwnerOf(Live \ Evicted(o, n)) EXCEPT ![NewSid] = o]
        /\ rank' = Touched(Live \ Evicted(o, n), NewSid)
        /\ GoTo(t, "connect", NewSid)
  BY DEF Start
<1> DEFINE s == NewSid
           E == Evicted(o, n)
<1>2. /\ s \in Sid /\ s \notin sessions /\ s \notin open
      /\ \A x \in Thread : held[x] # s
  BY NewSidFacts DEF Start
<1>3. E \subseteq sessions  BY EvictedFacts
<1>4. TypeOK  BY DEF IInv
<1>5. /\ pc'[t] = "connect" /\ held'[t] = s
      /\ \A x \in Thread \ {t} : pc'[x] = pc[x] /\ held'[x] = held[x]
      /\ pc' \in [Thread -> Label]
      /\ held' \in [Thread -> Sid \cup {Nobody}]
      /\ \A x \in Thread : held'[x] = Nobody <=> pc'[x] = "idle"
  BY <1>1, <1>2, <1>4, GoToFacts, NobodyAssumption DEF Label
<1>6. pc[t] = "idle" /\ UNCHANGED <<failed, hub>>  BY DEF Start
<1> HIDE DEF s, E
<1>7. Connecting' = Connecting \cup {t} /\ t \notin Connecting
      /\ Closing' = Closing /\ t \notin Closing
  BY <1>5, <1>6 DEF Connecting, Closing
<1>8. TypeOK'
  <2>1. sessions' \subseteq Sid /\ open' \subseteq Sid /\ failed' \subseteq Sid
    BY <1>1, <1>2, <1>4, <1>6 DEF TypeOK, s
  <2>2. rank' \in [Sid -> Nat]
    BY <1>1, <1>2, <1>4, LiveType, TouchedType DEF s
  <2>3. owner' \in [Sid -> Owner \cup {Nobody}]
    BY <1>1, <1>2, <1>4 DEF TypeOK, OwnerOf, s
  <2>4. Live' \subseteq (Live \ E) \cup {s}
    <3>1. \A x \in Connecting : held[x] \notin E
      BY <1>3 DEF IInv, EachConnectionHasOneKeeper
    <3>2. \A x \in Connecting : held'[x] = held[x]
      BY <1>5, <1>7 DEF Connecting
    <3> QED  BY <1>1, <1>5, <1>7, <3>1, <3>2 DEF Live, E
  <2>5. \A r \in (Live \ E) \cup {s} : owner'[r] \in Owner
    BY <1>1, <1>2, <1>4, LiveType DEF TypeOK, OwnerOf, s, E
  <2> QED
    BY <1>4, <1>5, <1>6, <2>1, <2>2, <2>3, <2>4, <2>5 DEF TypeOK
<1>9. ConnectionsAreAccounted'
  <2>1. \A x \in Connecting \cup Closing : held'[x] = held[x] /\ held[x] \notin E
    BY <1>3, <1>5, <1>7
       DEF Connecting, Closing, IInv, EachConnectionHasOneKeeper
  <2>2. {held'[x] : x \in Connecting' \cup Closing'} =
          {held[x] : x \in Connecting \cup Closing} \cup {s}
    BY <1>5, <1>7, <2>1
  <2> QED
    BY <1>1, <1>3, <2>1, <2>2 DEF IInv, ConnectionsAreAccounted, s, E
<1>10. EachConnectionHasOneKeeper'
  BY <1>1, <1>2, <1>5, <1>7
     DEF IInv, EachConnectionHasOneKeeper, Connecting, Closing, s
<1>11. StartsAreApart'
  BY <1>2, <1>5 DEF IInv, StartsAreApart
<1>12. ErrorsAreSeen'
  BY <1>5, <1>6 DEF IInv, ErrorsAreSeen
<1> QED  BY <1>8, <1>9, <1>10, <1>11, <1>12 DEF IInv

LEMMA HandshakeInv == ASSUME IInv, NEW t \in Thread, Handshake(t) PROVE IInv'
<1>1. TypeOK /\ pc[t] = "connect" /\ GoTo(t, "register", held[t])
      /\ UNCHANGED <<sessions, owner, open, rank, hub>>
  BY DEF IInv, Handshake
<1>2. held[t] \in Sid  BY <1>1 DEF TypeOK
<1>3. /\ pc'[t] = "register" /\ held' = held
      /\ \A x \in Thread \ {t} : pc'[x] = pc[x]
      /\ pc' \in [Thread -> Label]
      /\ \A x \in Thread : held'[x] = Nobody <=> pc'[x] = "idle"
  BY <1>1, <1>2, NobodyAssumption DEF TypeOK, GoTo, Label
<1>4. Connecting' = Connecting /\ Closing' = Closing
  BY <1>1, <1>3 DEF Connecting, Closing
<1>5. TypeOK'
  BY <1>1, <1>2, <1>3, <1>4 DEF TypeOK, Live, Handshake
<1>6. ConnectionsAreAccounted' /\ EachConnectionHasOneKeeper'
  BY <1>1, <1>3, <1>4
     DEF IInv, ConnectionsAreAccounted, EachConnectionHasOneKeeper
<1>7. StartsAreApart'
  BY <1>1, <1>3 DEF IInv, StartsAreApart
<1>8. ErrorsAreSeen'
  BY <1>1, <1>3 DEF IInv, ErrorsAreSeen, Handshake
<1> QED  BY <1>5, <1>6, <1>7, <1>8 DEF IInv

LEMMA RegisterInv == ASSUME IInv, NEW t \in Thread, Register(t) PROVE IInv'
<1>1. TypeOK /\ pc[t] = "register" /\ GoTo(t, "check", held[t])
      /\ sessions' = sessions \cup {held[t]}
      /\ UNCHANGED <<owner, open, failed, rank, hub>>
  BY DEF IInv, Register
<1>2. held[t] \in Sid  BY <1>1 DEF TypeOK
<1>3. /\ pc'[t] = "check" /\ held' = held
      /\ \A x \in Thread \ {t} : pc'[x] = pc[x]
      /\ pc' \in [Thread -> Label]
      /\ \A x \in Thread : held'[x] = Nobody <=> pc'[x] = "idle"
  BY <1>1, <1>2, NobodyAssumption DEF TypeOK, GoTo, Label
<1>4. /\ Connecting' = Connecting \ {t} /\ t \in Connecting
      /\ Closing' = Closing /\ t \notin Closing
  BY <1>1, <1>3 DEF Connecting, Closing
<1>5. Live' = Live  BY <1>1, <1>3, <1>4 DEF Live
<1>6. TypeOK'  BY <1>1, <1>2, <1>3, <1>5 DEF TypeOK
<1>7. ConnectionsAreAccounted'
  BY <1>1, <1>3, <1>4 DEF IInv, ConnectionsAreAccounted
<1>8. EachConnectionHasOneKeeper'
  BY <1>1, <1>3, <1>4 DEF IInv, EachConnectionHasOneKeeper
<1>9. StartsAreApart'  BY <1>1, <1>3 DEF IInv, StartsAreApart
<1>10. ErrorsAreSeen'  BY <1>1, <1>3 DEF IInv, ErrorsAreSeen
<1> QED  BY <1>6, <1>7, <1>8, <1>9, <1>10 DEF IInv

\* close(sid), from a DELETE or from a start that failed.
LEMMA TakeInv ==
  ASSUME IInv, NEW t \in Thread, NEW s \in Sid, Take(t, s),
         UNCHANGED <<open, hub>>,
         \/ pc[t] = "idle" /\ s \in sessions /\ failed' = failed
         \/ pc[t] = "check" /\ s = held[t] /\ failed' = failed \ {s}
  PROVE  IInv'
<1>1. TypeOK /\ sessions' = sessions \ {s}
      /\ owner' = OwnerOf(Live \ {s}) /\ rank' = RankOf(Live \ {s})
  BY DEF IInv, Take
<1>2. PICK label \in {"close", "idle"}, h \in {s, Nobody} :
        /\ GoTo(t, label, h)
        /\ s \in sessions => label = "close" /\ h = s
        /\ s \notin sessions => label = "idle" /\ h = Nobody
  BY DEF Take, Answer
<1>3. /\ pc'[t] = label /\ held'[t] = h
      /\ \A x \in Thread \ {t} : pc'[x] = pc[x] /\ held'[x] = held[x]
      /\ pc' \in [Thread -> Label]
      /\ held' \in [Thread -> Sid \cup {Nobody}]
      /\ \A x \in Thread : held'[x] = Nobody <=> pc'[x] = "idle"
  BY <1>1, <1>2, GoToFacts, NobodyAssumption DEF Label
<1>4. /\ Connecting' = Connecting /\ t \notin Connecting /\ t \notin Closing
      /\ Closing' = IF s \in sessions THEN Closing \cup {t} ELSE Closing
  BY <1>2, <1>3 DEF Connecting, Closing
<1>5. \A x \in Connecting \cup Closing : held'[x] = held[x]
  BY <1>3, <1>4 DEF Connecting, Closing
<1>6. \A x \in Connecting : held[x] # s
  BY <1>4 DEF IInv, EachConnectionHasOneKeeper, StartsAreApart, Connecting
<1>7. TypeOK'
  <2>1. sessions' \subseteq Sid /\ failed' \subseteq Sid
    BY <1>1 DEF TypeOK
  <2>2. rank' \in [Sid -> Nat]  BY <1>1, LiveType, RankType
  <2>3. owner' \in [Sid -> Owner \cup {Nobody}]
    BY <1>1 DEF TypeOK, OwnerOf
  <2>4. Live' \subseteq Live \ {s}
    BY <1>1, <1>4, <1>5, <1>6 DEF Live
  <2>5. \A r \in Live \ {s} : owner'[r] \in Owner
    BY <1>1, LiveType DEF TypeOK, OwnerOf
  <2> QED  BY <1>1, <1>3, <2>1, <2>2, <2>3, <2>4, <2>5 DEF TypeOK
<1>8. ConnectionsAreAccounted'
  <2>1. CASE s \in sessions
    <3>1. {held'[x] : x \in Connecting' \cup Closing'} =
            {held[x] : x \in Connecting \cup Closing} \cup {s}
      BY <1>2, <1>3, <1>4, <1>5, <2>1
    <3> QED  BY <1>1, <2>1, <3>1 DEF IInv, ConnectionsAreAccounted
  <2>2. CASE s \notin sessions
    <3>1. {held'[x] : x \in Connecting' \cup Closing'} =
            {held[x] : x \in Connecting \cup Closing}
      BY <1>4, <1>5, <2>2
    <3> QED  BY <1>1, <2>2, <3>1 DEF IInv, ConnectionsAreAccounted
  <2> QED  BY <2>1, <2>2
<1>9. EachConnectionHasOneKeeper'
  BY <1>1, <1>2, <1>3, <1>4, <1>5 DEF IInv, EachConnectionHasOneKeeper
<1>10. StartsAreApart'
  BY <1>2, <1>3 DEF IInv, StartsAreApart
<1>11. ErrorsAreSeen'
  <2> SUFFICES ASSUME NEW r \in failed'
               PROVE  \E x \in Thread : /\ pc'[x] \in {"register", "check"}
                                        /\ held'[x] = r
    BY DEF ErrorsAreSeen
  <2>1. PICK x \in Thread : pc[x] \in {"register", "check"} /\ held[x] = r
    BY DEF IInv, ErrorsAreSeen
  <2>2. x # t  BY <2>1
  <2> QED  BY <1>3, <2>1, <2>2
<1> QED  BY <1>7, <1>8, <1>9, <1>10, <1>11 DEF IInv

\* A thread that is no keeper and no start goes its way.
LEMMA AsideInv ==
  ASSUME IInv, NEW t \in Thread, NEW label \in {"idle", "use"},
         NEW s \in Sid \cup {Nobody}, GoTo(t, label, s),
         s = Nobody <=> label = "idle",
         \/ pc[t] \in {"idle", "use"}
         \/ pc[t] = "check" /\ held[t] \notin failed,
         UNCHANGED <<sessions, owner, open, failed, hub>>,
         rank' \in [Sid -> Nat]
  PROVE  IInv'
<1>1. /\ pc'[t] = label /\ held'[t] = s
      /\ \A x \in Thread \ {t} : pc'[x] = pc[x] /\ held'[x] = held[x]
      /\ pc' \in [Thread -> Label]
      /\ held' \in [Thread -> Sid \cup {Nobody}]
      /\ \A x \in Thread : held'[x] = Nobody <=> pc'[x] = "idle"
  BY GoToFacts DEF IInv, Label
<1>2. /\ Connecting' = Connecting /\ Closing' = Closing
      /\ \A x \in Connecting \cup Closing : held'[x] = held[x]
  BY <1>1 DEF Connecting, Closing
<1>3. Live' = Live  BY <1>2 DEF Live
<1>4. TypeOK'  BY <1>1, <1>3 DEF IInv, TypeOK
<1>5. ConnectionsAreAccounted'
  <2>1. {held'[x] : x \in Connecting' \cup Closing'} =
          {held[x] : x \in Connecting \cup Closing}
    BY <1>2
  <2> QED  BY <2>1 DEF IInv, ConnectionsAreAccounted
<1>6. EachConnectionHasOneKeeper'
  BY <1>2 DEF IInv, EachConnectionHasOneKeeper
<1>7. StartsAreApart'  BY <1>1 DEF IInv, StartsAreApart
<1>8. ErrorsAreSeen'
  <2> SUFFICES ASSUME NEW r \in failed
               PROVE  \E x \in Thread : /\ pc'[x] \in {"register", "check"}
                                        /\ held'[x] = r
    BY DEF ErrorsAreSeen
  <2>1. PICK x \in Thread : pc[x] \in {"register", "check"} /\ held[x] = r
    BY DEF IInv, ErrorsAreSeen
  <2>2. x # t  BY <2>1
  <2> QED  BY <1>1, <2>1, <2>2
<1> QED  BY <1>4, <1>5, <1>6, <1>7, <1>8 DEF IInv

LEMMA CheckInv == ASSUME IInv, NEW t \in Thread, Check(t) PROVE IInv'
<1>1. pc[t] = "check" /\ held[t] \in Sid /\ rank \in [Sid -> Nat]
  BY DEF Check, IInv, TypeOK
<1>2. CASE held[t] \in failed
  BY <1>1, <1>2, TakeInv DEF Check
<1>3. CASE held[t] \notin failed
  <2>1. GoTo(t, "idle", Nobody) /\ failed' = failed
        /\ UNCHANGED <<sessions, owner, open, hub, rank>>
    BY <1>3 DEF Check, Answer
  <2> QED  BY <1>1, <1>3, <2>1, AsideInv
<1> QED  BY <1>2, <1>3

LEMMA CloseBusInv == ASSUME IInv, NEW t \in Thread, CloseBus(t) PROVE IInv'
<1>1. TypeOK /\ pc[t] = "close" /\ GoTo(t, "idle", Nobody)
      /\ open' = open \ {held[t]}
      /\ UNCHANGED <<sessions, owner, failed, rank, hub>>
  BY DEF IInv, CloseBus, Answer
<1>2. /\ pc'[t] = "idle" /\ held'[t] = Nobody
      /\ \A x \in Thread \ {t} : pc'[x] = pc[x] /\ held'[x] = held[x]
      /\ pc' \in [Thread -> Label]
      /\ held' \in [Thread -> Sid \cup {Nobody}]
      /\ \A x \in Thread : held'[x] = Nobody <=> pc'[x] = "idle"
  BY <1>1, GoToFacts DEF Label
<1>3. /\ Connecting' = Connecting /\ t \notin Connecting
      /\ Closing' = Closing \ {t} /\ t \in Closing
      /\ \A x \in Connecting \cup Closing' : held'[x] = held[x]
  BY <1>1, <1>2 DEF Connecting, Closing
<1>4. Live' = Live  BY <1>1, <1>3 DEF Live
<1>5. TypeOK'  BY <1>1, <1>2, <1>4 DEF TypeOK
<1>6. ConnectionsAreAccounted'
  <2>1. {held'[x] : x \in Connecting' \cup Closing'} =
          {held[x] : x \in (Connecting \cup Closing) \ {t}}
    BY <1>3
  <2>2. \A x \in (Connecting \cup Closing) \ {t} : held[x] # held[t]
    BY <1>3 DEF IInv, EachConnectionHasOneKeeper
  <2>3. held[t] \notin sessions
    BY <1>3 DEF IInv, EachConnectionHasOneKeeper
  <2> QED  BY <1>1, <2>1, <2>2, <2>3 DEF IInv, ConnectionsAreAccounted
<1>7. EachConnectionHasOneKeeper'
  BY <1>1, <1>3 DEF IInv, EachConnectionHasOneKeeper
<1>8. StartsAreApart'  BY <1>2 DEF IInv, StartsAreApart
<1>9. ErrorsAreSeen'  BY <1>1, <1>2 DEF IInv, ErrorsAreSeen
<1> QED  BY <1>5, <1>6, <1>7, <1>8, <1>9 DEF IInv

LEMMA StepInv == IInv /\ [Next]_vars => IInv'
<1> SUFFICES ASSUME IInv, [Next]_vars PROVE IInv'  OBVIOUS
<1> USE DEF IInv
<1>1. CASE UNCHANGED vars
  BY <1>1 DEF vars, TypeOK, Live, Connecting, Closing,
     ConnectionsAreAccounted, EachConnectionHasOneKeeper, StartsAreApart,
     ErrorsAreSeen
<1>2. CASE HubChanges
  BY <1>2 DEF HubChanges, TypeOK, Live, Connecting, Closing,
     ConnectionsAreAccounted, EachConnectionHasOneKeeper, StartsAreApart,
     ErrorsAreSeen
<1> SUFFICES ASSUME NEW t \in Thread,
                    Start(t) \/ End(t) \/ Get(t) \/ Proceed(t)
             PROVE  IInv'
  BY <1>1, <1>2 DEF Next
<1> USE DEF IInv
<1>3. TypeOK /\ sessions \subseteq Sid /\ rank \in [Sid -> Nat]
      /\ Nobody \notin Sid
  BY NobodyAssumption DEF TypeOK
<1>4. CASE End(t)
  <2>1. PICK s \in sessions : Take(t, s)  BY <1>4 DEF End
  <2> QED  BY <1>3, <1>4, <2>1, TakeInv DEF End
<1>5. CASE Get(t)
  <2>1. PICK s \in sessions : GoTo(t, "use", s)  BY <1>5 DEF Get
  <2> QED  BY <1>3, <1>5, <2>1, AsideInv DEF Get
<1>6. CASE Use(t)
  <2>1. rank' \in [Sid -> Nat]
    BY <1>3, <1>6, LiveType, TouchedType DEF Use
  <2> QED  BY <1>6, <2>1, AsideInv DEF Use, Answer
<1> QED
  BY <1>4, <1>5, <1>6, StartInv, HandshakeInv, RegisterInv, CheckInv,
     CloseBusInv DEF Proceed

THEOREM Invariance == Spec => []IInv
<1> QED  BY InitInv, StepInv, PTL DEF Spec

\* Sets, ids, threads and ranks keep their form.
THEOREM TypeCorrect == Spec => []TypeOK
<1>1. IInv => TypeOK  BY DEF IInv
<1> QED  BY <1>1, Invariance, PTL

\* Every open connection is registered, connecting or about to be closed.
THEOREM NoConnectionIsLost == Spec => []ConnectionsAreAccounted
<1>1. IInv => ConnectionsAreAccounted  BY DEF IInv
<1> QED  BY <1>1, Invariance, PTL

\* No connection is registered twice, or closed by two threads.
THEOREM OneKeeper == Spec => []EachConnectionHasOneKeeper
<1>1. IInv => EachConnectionHasOneKeeper  BY DEF IInv
<1> QED  BY <1>1, Invariance, PTL

\* A session that failed to connect leaves the registry with its start.
THEOREM FailuresLeave == Spec => []FailedSessionsGo
<1>1. IInv => FailedSessionsGo
  <2> SUFFICES ASSUME IInv, NEW s \in sessions \cap failed
               PROVE  \E t \in Thread : pc[t] = "check" /\ held[t] = s
    BY DEF FailedSessionsGo
  <2>1. PICK t \in Thread : pc[t] \in {"register", "check"} /\ held[t] = s
    BY DEF IInv, ErrorsAreSeen
  <2>2. pc[t] # "register"
    BY <2>1 DEF IInv, EachConnectionHasOneKeeper, Connecting
  <2> QED  BY <2>1, <2>2
<1> QED  BY <1>1, Invariance, PTL

-----------------------------------------------------------------------------
(* The size of the registry.                                                 *)

\* Some session of a non-empty registry was used least recently.
LEMMA OldestExists ==
  ASSUME TypeOK, NEW S \in SUBSET Sid, S # {} PROVE Oldest(S) # {}
<1> DEFINE R == OpToRel(<, Nat)
           T == {rank[s] : s \in S}
<1>1. T \subseteq Nat /\ T # {}  BY DEF TypeOK
<1>2. PICK n \in T : \A m \in T : <<m, n>> \notin R
  BY <1>1, NatLessThanWellFounded, WFMin
<1>3. PICK s \in S : rank[s] = n  BY <1>2
<1>4. \A r \in S : rank[s] <= rank[r]
  <2> SUFFICES ASSUME NEW r \in S PROVE rank[s] <= rank[r]  OBVIOUS
  <2>1. rank[s] \in Nat /\ rank[r] \in Nat  BY DEF TypeOK
  <2>2. ~(rank[r] < rank[s])  BY <1>2, <1>3, <2>1 DEF OpToRel
  <2> QED  BY <2>1, <2>2
<1> QED  BY <1>3, <1>4 DEF Oldest

LEMMA Sizes ==
  ASSUME TypeOK
  PROVE  /\ \A S \in SUBSET Sid : IsFiniteSet(S) /\ Cardinality(S) \in Nat
         /\ \A T \in SUBSET Thread : /\ IsFiniteSet(T) /\ Cardinality(T) \in Nat
                                     /\ Cardinality(T) <= Cardinality(Thread)
         /\ Cardinality(Thread) \in Nat
<1>1. Cardinality(Thread) \in Nat  BY FiniteAssumption, FS_CardinalityType
<1>2. ASSUME NEW S \in SUBSET Sid
      PROVE  IsFiniteSet(S) /\ Cardinality(S) \in Nat
  BY FiniteAssumption, FS_Subset, FS_CardinalityType
<1>3. ASSUME NEW T \in SUBSET Thread
      PROVE  /\ IsFiniteSet(T) /\ Cardinality(T) \in Nat
             /\ Cardinality(T) <= Cardinality(Thread)
  BY FiniteAssumption, FS_Subset, FS_CardinalityType
<1> QED  BY <1>1, <1>2, <1>3

\* Making room leaves fewer than Max sessions, or one fewer than there were.
LEMMA EvictedMakesRoom ==
  ASSUME TypeOK, NEW o, NEW n
  PROVE  LET left == Cardinality(sessions \ Evicted(o, n)) IN
           left <= Max - 1 \/ left <= Cardinality(sessions) - 1
<1> DEFINE gone == {s \in sessions : rank[s] <= n \/ owner[s] = o}
           kept == sessions \ gone
<1>1. kept \in SUBSET Sid /\ sessions \in SUBSET Sid  BY DEF TypeOK
<1>2. /\ IsFiniteSet(kept) /\ Cardinality(kept) \in Nat
      /\ IsFiniteSet(sessions) /\ Cardinality(sessions) \in Nat
  BY <1>1, Sizes
<1>3. Cardinality(kept) <= Cardinality(sessions)
  BY <1>1, <1>2, FS_Subset
<1>4. CASE Cardinality(kept) >= Max
  <2>1. kept # {}
    BY <1>2, <1>4, MaxAssumption, FS_EmptySet
  <2>2. PICK x \in Oldest(kept) : TRUE  BY <1>1, <2>1, OldestExists
  <2>3. x \in kept  BY DEF Oldest
  <2>4. sessions \ Evicted(o, n) \subseteq kept \ {x}
    BY <1>4 DEF Evicted
  <2>5. IsFiniteSet(kept \ {x}) /\ Cardinality(kept \ {x}) = Cardinality(kept) - 1
    BY <1>2, <2>3, FS_RemoveElement
  <2>6. sessions \ Evicted(o, n) \in SUBSET Sid  BY <1>1
  <2>7. Cardinality(sessions \ Evicted(o, n)) \in Nat  BY <2>6, Sizes
  <2>8. Cardinality(sessions \ Evicted(o, n)) <= Cardinality(kept \ {x})
    BY <2>4, <2>5, FS_Subset
  <2> QED  BY <1>2, <1>3, <2>5, <2>7, <2>8
<1>5. CASE ~(Cardinality(kept) >= Max)
  <2>1. sessions \ Evicted(o, n) = kept  BY <1>5 DEF Evicted
  <2> QED  BY <1>2, <1>5, <2>1, MaxAssumption
<1> QED  BY <1>4, <1>5

LEMMA BoundStep ==
  ASSUME IInv, SessionsAreBounded, [Next]_vars PROVE SessionsAreBounded'
<1>1. TypeOK /\ TypeOK'  BY StepInv DEF IInv
<1> DEFINE n == Cardinality(sessions)
           c == Cardinality(Connecting)
           p == Cardinality(Thread)
<1>2. /\ sessions \in SUBSET Sid /\ sessions' \in SUBSET Sid
      /\ Connecting \in SUBSET Thread /\ Connecting' \in SUBSET Thread
  BY <1>1 DEF TypeOK, Connecting
<1>3. /\ n \in Nat /\ c \in Nat /\ p \in Nat /\ n' \in Nat /\ c' \in Nat
      /\ IsFiniteSet(sessions) /\ IsFiniteSet(Connecting) /\ c' <= p
  BY <1>1, <1>2, Sizes
<1>4. n + c <= Max - 1 + p /\ Max \in Nat \ {0}
  BY MaxAssumption DEF SessionsAreBounded
<1> SUFFICES n' + c' <= Max - 1 + p
  BY DEF SessionsAreBounded
<1>5. ASSUME sessions' \subseteq sessions, Connecting' = Connecting
      PROVE  n' + c' <= Max - 1 + p
  <2>1. n' <= n  BY <1>3, <1>5, FS_Subset
  <2> QED  BY <1>3, <1>4, <1>5, <2>1
<1>6. CASE UNCHANGED vars \/ HubChanges
  BY <1>5, <1>6 DEF vars, HubChanges, Connecting
<1> SUFFICES ASSUME NEW t \in Thread,
                    Start(t) \/ End(t) \/ Get(t) \/ Proceed(t)
             PROVE  n' + c' <= Max - 1 + p
  BY <1>6 DEF Next
<1>7. CASE Start(t)
  <2>1. PICK o \in Owner, k \in 0..Cardinality(Live) :
          /\ sessions' = sessions \ Evicted(o, k)
          /\ GoTo(t, "connect", NewSid)
    BY <1>7 DEF Start
  <2>2. n' <= Max - 1 \/ n' <= n - 1
    BY <1>1, <2>1, EvictedMakesRoom
  <2>3. Connecting' = Connecting \cup {t} /\ t \notin Connecting
    BY <1>1, <1>7, <2>1 DEF TypeOK, Start, GoTo, Connecting
  <2>4. c' = c + 1  BY <1>3, <2>3, FS_AddElement
  <2> QED  BY <1>3, <1>4, <2>2, <2>4
<1>8. CASE Register(t)
  <2>1. sessions' = sessions \cup {held[t]}  BY <1>8 DEF Register
  <2>2. n' <= n + 1
    <3>1. Cardinality(sessions \cup {held[t]}) =
            IF held[t] \in sessions THEN n ELSE n + 1
      BY <1>3, FS_AddElement, Zenon
    <3>2. n' = Cardinality(sessions \cup {held[t]})  BY <2>1, Zenon
    <3> QED  BY <1>3, <3>1, <3>2
  <2>3. Connecting' = Connecting \ {t} /\ t \in Connecting
    BY <1>1, <1>8 DEF TypeOK, Register, GoTo, Connecting
  <2>4. c' = c - 1  BY <1>3, <2>3, FS_RemoveElement
  <2> QED  BY <1>3, <1>4, <2>2, <2>4
<1>9. CASE Handshake(t)
  BY <1>1, <1>5, <1>9 DEF TypeOK, Handshake, GoTo, Connecting
<1>10. CASE End(t) \/ Check(t)
  <2>1. sessions' \subseteq sessions  BY <1>10 DEF End, Check, Take
  <2>2. pc[t] \notin {"connect", "register"}  BY <1>10 DEF End, Check
  <2>3. PICK label \in {"close", "idle"} : pc' = [pc EXCEPT ![t] = label]
    BY <1>10 DEF End, Check, Take, Answer, GoTo
  <2>4. Connecting' = Connecting
    BY <1>1, <2>2, <2>3 DEF TypeOK, Connecting
  <2> QED  BY <1>5, <2>1, <2>4
<1>11. CASE Get(t) \/ Use(t) \/ CloseBus(t)
  <2>1. sessions' = sessions  BY <1>11 DEF Get, Use, CloseBus
  <2>2. pc[t] \notin {"connect", "register"}
    BY <1>11 DEF Get, Use, CloseBus
  <2>3. PICK label \in {"use", "idle"} : pc' = [pc EXCEPT ![t] = label]
    BY <1>11 DEF Get, Use, CloseBus, Answer, GoTo
  <2>4. Connecting' = Connecting
    BY <1>1, <2>2, <2>3 DEF TypeOK, Connecting
  <2> QED  BY <1>5, <2>1, <2>4
<1> QED  BY <1>7, <1>8, <1>9, <1>10, <1>11 DEF Proceed

\* However many starts overlap, sessions and starts together stay below the
\* registry's size plus the pool's.
THEOREM RegistryIsBounded == Spec => []SessionsAreBounded
<1>1. Init => SessionsAreBounded
  <2> SUFFICES ASSUME Init PROVE SessionsAreBounded  OBVIOUS
  <2>1. sessions = {} /\ Connecting = {}  BY DEF Init, Connecting
  <2>2. Cardinality({}) = 0  BY FS_EmptySet
  <2>3. Cardinality(Thread) \in Nat  BY FiniteAssumption, FS_CardinalityType
  <2> QED  BY <2>1, <2>2, <2>3, MaxAssumption DEF SessionsAreBounded
<1>2. IInv /\ SessionsAreBounded /\ [Next]_vars => SessionsAreBounded'
  BY BoundStep
<1> QED  BY <1>1, <1>2, Invariance, PTL DEF Spec
=============================================================================
