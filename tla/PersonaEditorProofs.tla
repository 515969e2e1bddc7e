------------------------- MODULE PersonaEditorProofs -------------------------
(***************************************************************************)
(* What TLAPS proves of PersonaEditor, for every set of personas, solvers  *)
(* and settings, and any number of saves.                                  *)
(***************************************************************************)
EXTENDS PersonaEditor, SequenceTheorems, TLAPS

\* What is stored.
PersonasOK ==
  /\ personas \in [Persona -> File \cup {None}]
  /\ \A n \in Persona : personas[n] # None => IsInjective(personas[n].solvers)
  /\ saves \in 0..Saves

\* What the editor holds.
EditorOK ==
  /\ target \in Persona \cup {None} /\ dialog \in BOOLEAN
  /\ selected \in Seq(Solver) /\ IsInjective(selected)
  /\ settings \in Config /\ memory \in {"none", "short"}
  /\ boxes \in [Solver -> Setting \cup {Broken, Empty, None}]
  /\ \A s \in Solver : boxes[s] = Broken => s \in Json

UserOK ==
  /\ typed \in [Solver -> Setting \cup {Broken, Empty, None}]
  /\ touched \subseteq Solver /\ edited \in BOOLEAN

Clean == typed = NoBoxes /\ touched = {}

\* What the openings rely on, and the save on its way.
FlowOK ==
  /\ flow \in Flow \cup {None}
  /\ flow # None => IsInjective(flow.file.solvers)
  /\ In("edit") => ~dialog /\ flow.name \in Persona /\ personas[flow.name] # None
  /\ In("memory") => ~dialog /\ Clean
  /\ sent \in Sent \cup {None}
  /\ sent # None => IsInjective(sent.file.solvers)
  /\ opened \in File

\* The dialog is up with the solvers of the persona before; or with its own.
Filling == dialog /\ In("solvers")
Open == dialog /\ ~In("solvers")

\* While the solvers are on their way, a box holds settings only as the user
\* typed them.
Own(s) ==
  /\ boxes[s] \in Setting \/ typed[s] \in Setting => boxes[s] = typed[s]
  /\ typed[s] # None => s \in touched

FillingOK ==
  Filling => \A s \in Solver :
               Own(s) /\ (boxes[s] # None => s \in Range(selected))

\* What the editor would save for solver s is the user's, if the user touched
\* it, and the persona's that was opened otherwise.
Belongs(s) ==
  IF s \in touched
  THEN IF s \in Range(selected)
       THEN /\ boxes[s] \in {typed[s], Empty}
            /\ typed[s] \in Setting => boxes[s] = typed[s]
       ELSE settings[s] = Empty /\ typed[s] = None
  ELSE /\ typed[s] = None
       /\ s \in Range(selected) <=> s \in Range(opened.solvers)
       /\ s \in Range(selected) => boxes[s] \in {opened.config[s], Empty}
       /\ s \notin Range(selected) => settings[s] \in {opened.config[s], Empty}

OpenOK ==
  Open => /\ {s \in Solver : boxes[s] # None} = Range(selected)
          /\ \A s \in Solver : Belongs(s)

IInv == PersonasOK /\ EditorOK /\ UserOK /\ FlowOK /\ FillingOK /\ OpenOK

-----------------------------------------------------------------------------
(* Lists of solvers.                                                         *)

LEMMA RemoveAtFacts ==
  ASSUME NEW S, NEW q \in Seq(S), NEW i \in DOMAIN q
  PROVE  /\ RemoveAt(q, i) \in Seq(S)
         /\ Len(RemoveAt(q, i)) = Len(q) - 1
         /\ \A k \in 1..(Len(q) - 1) :
              RemoveAt(q, i)[k] = IF k < i THEN q[k] ELSE q[k + 1]
<1> DEFINE u == SubSeq(q, 1, i - 1)
           v == SubSeq(q, i + 1, Len(q))
<1>1. i \in 1..Len(q) /\ Len(q) \in Nat  OBVIOUS
<1>2. u \in Seq(S) /\ Len(u) = i - 1 /\ \A k \in 1..(i - 1) : u[k] = q[k]
  BY <1>1, SubSeqProperties
<1>3. /\ v \in Seq(S) /\ Len(v) = Len(q) - i
      /\ \A k \in 1..(Len(q) - i) : v[k] = q[i + k]
  BY <1>1, SubSeqProperties
<1>4. RemoveAt(q, i) = u \o v  BY DEF RemoveAt
<1> HIDE DEF u, v
<1>5. /\ u \o v \in Seq(S) /\ Len(u \o v) = Len(u) + Len(v)
      /\ \A k \in 1..Len(u) + Len(v) :
           (u \o v)[k] = IF k <= Len(u) THEN u[k] ELSE v[k - Len(u)]
  BY <1>2, <1>3, ConcatProperties
<1>6. Len(u) + Len(v) = Len(q) - 1  BY <1>1, <1>2, <1>3
<1>7. ASSUME NEW k \in 1..(Len(q) - 1)
      PROVE  (u \o v)[k] = IF k < i THEN q[k] ELSE q[k + 1]
  <2>1. CASE k < i
    <3>1. k \in 1..Len(u) + Len(v) /\ k <= Len(u) /\ k \in 1..(i - 1)
      BY <1>1, <1>2, <1>6, <2>1
    <3> QED  BY <1>2, <1>5, <2>1, <3>1
  <2>2. CASE ~(k < i)
    <3>1. k \in 1..Len(u) + Len(v) /\ ~(k <= Len(u))
      BY <1>1, <1>2, <1>6, <2>2
    <3>2. /\ k - Len(u) \in 1..(Len(q) - i)
          /\ i + (k - Len(u)) = k + 1
      BY <1>1, <1>2, <2>2
    <3>3. (u \o v)[k] = v[k - Len(u)]  BY <1>5, <3>1
    <3> QED  BY <1>3, <2>2, <3>2, <3>3
  <2> QED  BY <2>1, <2>2
<1> QED  BY <1>4, <1>5, <1>6, <1>7

LEMMA InsertAtFacts ==
  ASSUME NEW S, NEW q \in Seq(S), NEW e \in S, NEW j \in 1..(Len(q) + 1)
  PROVE  /\ InsertAt(q, j, e) \in Seq(S)
         /\ Len(InsertAt(q, j, e)) = Len(q) + 1
         /\ \A k \in 1..(Len(q) + 1) :
              InsertAt(q, j, e)[k] =
                IF k < j THEN q[k] ELSE IF k = j THEN e ELSE q[k - 1]
<1> DEFINE u == SubSeq(q, 1, j - 1)
           v == SubSeq(q, j, Len(q))
           w == u \o <<e>>
<1>1. j \in Nat /\ 1 <= j /\ j <= Len(q) + 1 /\ Len(q) \in Nat  OBVIOUS
<1>2. u \in Seq(S) /\ Len(u) = j - 1 /\ \A k \in 1..(j - 1) : u[k] = q[k]
  BY <1>1, SubSeqProperties
<1>3. /\ v \in Seq(S) /\ Len(v) = Len(q) - j + 1
      /\ \A k \in 1..(Len(q) - j + 1) : v[k] = q[j + k - 1]
  BY <1>1, SubSeqProperties
<1>4. InsertAt(q, j, e) = w \o v  BY DEF InsertAt
<1>5. /\ w \in Seq(S) /\ Len(w) = j
      /\ \A k \in 1..j : w[k] = IF k < j THEN q[k] ELSE e
  <2> HIDE DEF u, v
  <2>1. <<e>> \in Seq(S) /\ Len(<<e>>) = 1 /\ <<e>>[1] = e  OBVIOUS
  <2>2. /\ w \in Seq(S) /\ Len(w) = Len(u) + 1
        /\ \A k \in 1..Len(u) + 1 :
             w[k] = IF k <= Len(u) THEN u[k] ELSE <<e>>[k - Len(u)]
    BY <1>2, <2>1, ConcatProperties
  <2> HIDE DEF w
  <2> QED  BY <1>1, <1>2, <2>1, <2>2
<1> HIDE DEF u, v, w
<1>6. /\ w \o v \in Seq(S) /\ Len(w \o v) = Len(w) + Len(v)
      /\ \A k \in 1..Len(w) + Len(v) :
           (w \o v)[k] = IF k <= Len(w) THEN w[k] ELSE v[k - Len(w)]
  BY <1>3, <1>5, ConcatProperties
<1>7. Len(w) + Len(v) = Len(q) + 1  BY <1>1, <1>3, <1>5
<1>8. ASSUME NEW k \in 1..(Len(q) + 1)
      PROVE  (w \o v)[k] =
               IF k < j THEN q[k] ELSE IF k = j THEN e ELSE q[k - 1]
  <2>1. CASE k <= j
    <3>1. k \in 1..Len(w) + Len(v) /\ k <= Len(w) /\ k \in 1..j
      BY <1>1, <1>5, <1>7, <2>1
    <3>2. k < j \/ k = j  BY <1>1, <2>1
    <3> QED  BY <1>1, <1>5, <1>6, <3>1, <3>2
  <2>2. CASE ~(k <= j)
    <3>1. k \in 1..Len(w) + Len(v) /\ ~(k <= Len(w)) /\ ~(k < j) /\ k # j
      BY <1>1, <1>5, <1>7, <2>2
    <3>2. /\ k - Len(w) \in 1..(Len(q) - j + 1)
          /\ j + (k - Len(w)) - 1 = k - 1
      BY <1>1, <1>5, <2>2
    <3>3. (w \o v)[k] = v[k - Len(w)]  BY <1>6, <3>1
    <3>4. v[k - Len(w)] = q[k - 1]  BY <1>3, <3>2
    <3> QED  BY <3>1, <3>3, <3>4
  <2> QED  BY <2>1, <2>2
<1> QED  BY <1>4, <1>6, <1>7, <1>8

\* Without its i-th element a list without duplicates has all the others.
LEMMA Removed ==
  ASSUME NEW S, NEW q \in Seq(S), IsInjective(q), NEW i \in DOMAIN q
  PROVE  /\ RemoveAt(q, i) \in Seq(S)
         /\ IsInjective(RemoveAt(q, i))
         /\ Range(RemoveAt(q, i)) = Range(q) \ {q[i]}
<1> DEFINE r == RemoveAt(q, i)
<1>1. /\ r \in Seq(S) /\ Len(r) = Len(q) - 1
      /\ \A k \in 1..(Len(q) - 1) : r[k] = IF k < i THEN q[k] ELSE q[k + 1]
  BY RemoveAtFacts
<1>2. i \in 1..Len(q) /\ Len(q) \in Nat /\ DOMAIN q = 1..Len(q)  OBVIOUS
<1> HIDE DEF r
<1>3. DOMAIN r = 1..(Len(q) - 1)  BY <1>1
<1>4. IsInjective(r)
  <2>1. ASSUME NEW k \in DOMAIN r
        PROVE  \/ k < i /\ k \in DOMAIN q /\ r[k] = q[k]
               \/ ~(k < i) /\ k + 1 \in DOMAIN q /\ r[k] = q[k + 1]
    BY <1>1, <1>2, <1>3
  <2> SUFFICES ASSUME NEW a \in DOMAIN r, NEW b \in DOMAIN r, r[a] = r[b]
               PROVE  a = b
    BY DEF IsInjective
  <2>2. a \in Nat /\ b \in Nat /\ i \in Nat  BY <1>2, <1>3
  <2>3. CASE a < i /\ b < i  BY <2>1, <2>3 DEF IsInjective
  <2>4. CASE a < i /\ ~(b < i)
    <3>1. a = b + 1  BY <2>1, <2>4 DEF IsInjective
    <3> QED  BY <2>2, <2>4, <3>1
  <2>5. CASE ~(a < i) /\ b < i
    <3>1. a + 1 = b  BY <2>1, <2>5 DEF IsInjective
    <3> QED  BY <2>2, <2>5, <3>1
  <2>6. CASE ~(a < i) /\ ~(b < i)
    <3>1. a + 1 = b + 1  BY <2>1, <2>6 DEF IsInjective
    <3> QED  BY <2>2, <3>1
  <2> QED  BY <2>3, <2>4, <2>5, <2>6
<1>5. Range(r) \subseteq Range(q) \ {q[i]}
  <2> SUFFICES ASSUME NEW k \in DOMAIN r PROVE r[k] \in Range(q) \ {q[i]}
    BY DEF Range
  <2>1. CASE k < i
    <3>1. k \in DOMAIN q /\ r[k] = q[k] /\ k # i  BY <1>1, <1>2, <1>3, <2>1
    <3> QED  BY <3>1 DEF Range, IsInjective
  <2>2. CASE ~(k < i)
    <3>1. k + 1 \in DOMAIN q /\ r[k] = q[k + 1] /\ k + 1 # i
      BY <1>1, <1>2, <1>3, <2>2
    <3> QED  BY <3>1 DEF Range, IsInjective
  <2> QED  BY <2>1, <2>2
<1>6. Range(q) \ {q[i]} \subseteq Range(r)
  <2> SUFFICES ASSUME NEW m \in DOMAIN q, m # i PROVE q[m] \in Range(r)
    BY DEF Range
  <2>1. CASE m < i
    <3>1. m \in DOMAIN r /\ r[m] = q[m]  BY <1>1, <1>2, <1>3, <2>1
    <3> QED  BY <3>1 DEF Range
  <2>2. CASE m > i
    <3>1. m - 1 \in DOMAIN r /\ r[m - 1] = q[m]
      BY <1>1, <1>2, <1>3, <2>2
    <3> QED  BY <3>1 DEF Range
  <2> QED  BY <1>2, <2>1, <2>2
<1> QED  BY <1>1, <1>4, <1>5, <1>6 DEF r

\* An element that is inserted anywhere keeps the list free of duplicates.
LEMMA Inserted ==
  ASSUME NEW S, NEW q \in Seq(S), IsInjective(q), NEW e \in S,
         e \notin Range(q), NEW j \in 1..(Len(q) + 1)
  PROVE  /\ InsertAt(q, j, e) \in Seq(S)
         /\ IsInjective(InsertAt(q, j, e))
         /\ Range(InsertAt(q, j, e)) = Range(q) \cup {e}
<1> DEFINE r == InsertAt(q, j, e)
<1> HIDE DEF r
<1>1. /\ r \in Seq(S) /\ Len(r) = Len(q) + 1
      /\ \A k \in 1..(Len(q) + 1) :
           r[k] = IF k < j THEN q[k] ELSE IF k = j THEN e ELSE q[k - 1]
  <2>1. r \in Seq(S)  BY InsertAtFacts DEF r
  <2>2. Len(r) = Len(q) + 1  BY InsertAtFacts DEF r
  <2>3. ASSUME NEW k \in 1..(Len(q) + 1)
        PROVE  r[k] = IF k < j THEN q[k] ELSE IF k = j THEN e ELSE q[k - 1]
    BY InsertAtFacts DEF r
  <2> QED  BY <2>1, <2>2, <2>3
<1>2. Len(q) \in Nat /\ DOMAIN q = 1..Len(q)  OBVIOUS
<1>3. DOMAIN r = 1..(Len(q) + 1)  BY <1>1
<1>4. \A m \in DOMAIN q : q[m] # e  BY DEF Range
<1>5. IsInjective(r)
  <2>1. \A k \in DOMAIN r :
          \/ k = j /\ r[k] = e
          \/ k < j /\ k \in DOMAIN q /\ r[k] = q[k]
          \/ k > j /\ k - 1 \in DOMAIN q /\ r[k] = q[k - 1]
    BY <1>1, <1>2, <1>3
  <2> SUFFICES ASSUME NEW a \in DOMAIN r, NEW b \in DOMAIN r, r[a] = r[b]
               PROVE  a = b
    BY DEF IsInjective
  <2>2. a \in Nat /\ b \in Nat /\ j \in Nat  BY <1>2, <1>3
  <2>3. CASE a = j \/ b = j  BY <1>4, <2>1, <2>2, <2>3
  <2>4. CASE a < j /\ b < j  BY <2>1, <2>2, <2>4 DEF IsInjective
  <2>5. CASE a > j /\ b > j
    <3>1. a - 1 = b - 1  BY <2>1, <2>2, <2>5 DEF IsInjective
    <3> QED  BY <2>2, <3>1
  <2>6. CASE a < j /\ b > j
    <3>1. a = b - 1  BY <2>1, <2>2, <2>6 DEF IsInjective
    <3> QED  BY <2>2, <2>6, <3>1
  <2>7. CASE a > j /\ b < j
    <3>1. a - 1 = b  BY <2>1, <2>2, <2>7 DEF IsInjective
    <3> QED  BY <2>2, <2>7, <3>1
  <2> QED  BY <2>2, <2>3, <2>4, <2>5, <2>6, <2>7
<1>6. Range(r) \subseteq Range(q) \cup {e}
  <2> SUFFICES ASSUME NEW k \in DOMAIN r PROVE r[k] \in Range(q) \cup {e}
    BY DEF Range
  <2>1. r[k] = e \/ \E m \in DOMAIN q : r[k] = q[m]
    BY <1>1, <1>2, <1>3
  <2> QED  BY <2>1 DEF Range
<1>7. Range(q) \subseteq Range(r)
  <2> SUFFICES ASSUME NEW m \in DOMAIN q PROVE q[m] \in Range(r)
    BY DEF Range
  <2>1. CASE m < j
    <3>1. m \in DOMAIN r /\ r[m] = q[m]  BY <1>1, <1>2, <1>3, <2>1
    <3> QED  BY <3>1 DEF Range
  <2>2. CASE ~(m < j)
    <3>1. m + 1 \in DOMAIN r /\ r[m + 1] = q[m]
      BY <1>1, <1>2, <1>3, <2>2
    <3> QED  BY <3>1 DEF Range
  <2> QED  BY <2>1, <2>2
<1>8. e \in Range(r)
  <2>1. j \in DOMAIN r /\ r[j] = e  BY <1>1, <1>3
  <2> QED  BY <2>1 DEF Range
<1> QED  BY <1>1, <1>5, <1>6, <1>7, <1>8 DEF r

LEMMA Appended ==
  ASSUME NEW S, NEW q \in Seq(S), IsInjective(q), NEW e \in S, e \notin Range(q)
  PROVE  /\ Append(q, e) \in Seq(S)
         /\ IsInjective(Append(q, e))
         /\ Range(Append(q, e)) = Range(q) \cup {e}
<1> DEFINE r == Append(q, e)
<1>1. /\ r \in Seq(S) /\ DOMAIN r = 1..(Len(q) + 1)
      /\ \A k \in 1..(Len(q) + 1) : r[k] = IF k <= Len(q) THEN q[k] ELSE e
  OBVIOUS
<1>2. Len(q) \in Nat /\ DOMAIN q = 1..Len(q)  OBVIOUS
<1> HIDE DEF r
<1>3. \A m \in DOMAIN q : q[m] # e  BY DEF Range
<1>4. IsInjective(r)
  <2> SUFFICES ASSUME NEW a \in DOMAIN r, NEW b \in DOMAIN r, r[a] = r[b]
               PROVE  a = b
    BY DEF IsInjective
  <2> QED  BY <1>1, <1>2, <1>3 DEF IsInjective
<1>5. \A k \in DOMAIN r : r[k] = e \/ \E m \in DOMAIN q : r[k] = q[m]
  BY <1>1, <1>2
<1>6. \A m \in DOMAIN q : m \in DOMAIN r /\ r[m] = q[m]  BY <1>1, <1>2
<1>7. Len(q) + 1 \in DOMAIN r /\ r[Len(q) + 1] = e  BY <1>1, <1>2
<1>8. Range(r) = Range(q) \cup {e}  BY <1>5, <1>6, <1>7 DEF Range
<1> QED  BY <1>1, <1>4, <1>8 DEF r

\* Moving a solver keeps the selection.
LEMMA Moved ==
  ASSUME NEW S, NEW q \in Seq(S), IsInjective(q),
         NEW i \in DOMAIN q, NEW j \in DOMAIN q
  PROVE  LET r == InsertAt(RemoveAt(q, i), j, q[i])
         IN  r \in Seq(S) /\ IsInjective(r) /\ Range(r) = Range(q)
<1> DEFINE r == RemoveAt(q, i)
<1>1. r \in Seq(S) /\ IsInjective(r) /\ Range(r) = Range(q) \ {q[i]}
  BY Removed
<1>2. Len(r) = Len(q) - 1  BY RemoveAtFacts
<1>3. q[i] \in S /\ q[i] \in Range(q) /\ j \in 1..Len(q) /\ Len(q) \in Nat
  BY DEF Range
<1> HIDE DEF r
<1>4. j \in 1..(Len(r) + 1)  BY <1>2, <1>3
<1>5. q[i] \notin Range(r)  BY <1>1
<1>6. /\ InsertAt(r, j, q[i]) \in Seq(S) /\ IsInjective(InsertAt(r, j, q[i]))
      /\ Range(InsertAt(r, j, q[i])) = Range(r) \cup {q[i]}
  BY <1>1, <1>3, <1>4, <1>5, Inserted
<1>7. Range(r) \cup {q[i]} = Range(q)  BY <1>1, <1>3
<1> QED  BY <1>6, <1>7 DEF r

-----------------------------------------------------------------------------
(* Types.                                                                    *)

LEMMA NewIsAFile == New \in File /\ IsInjective(New.solvers)
BY DEF New, File, Config, Unset, IsInjective

\* None is no record, no persona and no settings.
LEMMA NoneFacts ==
  /\ None \notin Persona /\ None \notin File /\ None \notin Flow /\ None \notin Sent
  /\ None \notin Setting /\ Broken \notin Setting /\ Empty \notin Setting
  /\ Empty # None /\ Broken # None /\ Broken # Empty
BY NoneAssumption, SettingAssumption

LEMMA AwaitsType ==
  ASSUME NEW do \in {"create", "edit", "memory", "solvers"},
         NEW n \in Persona \cup {None}, NEW f \in File, Awaits(do, n, f)
  PROVE  /\ flow' \in Flow /\ flow' # None
         /\ flow'.do = do /\ flow'.name = n /\ flow'.file = f
BY NoneFacts DEF Awaits, Flow

LEMMA FlowFacts ==
  ASSUME IInv, flow # None
  PROVE  /\ flow \in Flow
         /\ flow.do \in {"create", "edit", "memory", "solvers"}
         /\ flow.name \in Persona \cup {None} /\ flow.file \in File
         /\ IsInjective(flow.file.solvers)
BY DEF IInv, FlowOK, Flow

\* Redrawing for a list without duplicates: what parses stays, the boxes are
\* those of the list.
LEMMA RedrawFacts ==
  ASSUME EditorOK, NEW sel \in Seq(Solver), IsInjective(sel),
         NEW set \in Config, Redraw(sel, set)
  PROVE  /\ selected' \in Seq(Solver) /\ IsInjective(selected')
         /\ Range(selected') = Range(sel) /\ selected' = sel
         /\ settings' \in Config
         /\ boxes' \in [Solver -> Setting \cup {Broken, Empty, None}]
         /\ \A s \in Solver : boxes'[s] # Broken
         /\ {s \in Solver : boxes'[s] # None} = Range(selected')
         /\ \A s \in Solver :
              IF s \in Range(sel)
              THEN boxes'[s] = IF boxes[s] \in Setting THEN boxes[s] ELSE Empty
              ELSE boxes'[s] = None /\ settings'[s] = set[s]
<1>1. selected' = sel  BY DEF Redraw
<1>2. Range(sel) \subseteq Solver  BY DEF Range
<1>3. \A s \in Solver :
        Collected(sel, set)[s] =
          IF s \notin Range(sel) THEN set[s]
          ELSE IF boxes[s] \in Setting THEN boxes[s] ELSE Empty
  BY DEF Collected
<1>4. Collected(sel, set) \in Config
  BY DEF Collected, Config
<1>5. settings' = Collected(sel, set)
  BY DEF Redraw
<1>6. boxes' = [s \in Solver |-> IF s \in Range(sel)
                                 THEN Collected(sel, set)[s] ELSE None]
  BY DEF Redraw
<1>7. \A s \in Solver :
        boxes'[s] = IF s \in Range(sel)
                    THEN IF boxes[s] \in Setting THEN boxes[s] ELSE Empty
                    ELSE None
  BY <1>3, <1>6
<1>8. boxes' \in [Solver -> Setting \cup {Broken, Empty, None}]
  BY <1>6, <1>7
<1>9. \A s \in Solver : boxes'[s] # Broken /\ (boxes'[s] # None <=> s \in Range(sel))
  BY <1>7, NoneFacts
<1> QED  BY <1>1, <1>2, <1>3, <1>4, <1>5, <1>7, <1>8, <1>9

-----------------------------------------------------------------------------
(* The initial state and the steps.                                          *)

\* An empty editor belongs to nobody.
LEMMA CleanBoxes ==
  /\ NoBoxes \in [Solver -> Setting \cup {Broken, Empty, None}]
  /\ \A s \in Solver : NoBoxes[s] = None /\ NoBoxes[s] # Broken
BY NoneFacts DEF NoBoxes

LEMMA InitInv == Init => IInv
<1> SUFFICES ASSUME Init PROVE IInv  OBVIOUS
<1>1. PersonasOK
  BY InitialAssumption, BoundsAssumption DEF Init, PersonasOK
<1>2. EditorOK
  <2>1. Unset \in Config  BY DEF Unset, Config
  <2>2. <<>> \in Seq(Solver) /\ IsInjective(<<>>)  BY DEF IsInjective
  <2> QED  BY <2>1, <2>2, CleanBoxes, Zenon DEF Init, EditorOK
<1>3. UserOK  BY DEF Init, UserOK, NoBoxes
<1>4. FlowOK  BY NewIsAFile DEF Init, FlowOK, In
<1>5. FillingOK /\ OpenOK  BY DEF Init, FillingOK, Filling, OpenOK, Open
<1> QED  BY <1>1, <1>2, <1>3, <1>4, <1>5 DEF IInv

\* A dialog that is up is no opening's that is yet to come.
LEMMA DialogFacts ==
  ASSUME IInv, dialog
  PROVE  ~In("edit") /\ ~In("memory") /\ (Filling \/ Open)
BY DEF IInv, FlowOK, Filling, Open

\* A dialog for a new persona is open at once.
LEMMA ShowCreateInv == ASSUME IInv, ShowCreate PROVE IInv'
<1>1. /\ Awaits("create", None, New) /\ opened' = New
      /\ target' = None /\ selected' = <<>> /\ settings' = Unset
      /\ boxes' = NoBoxes /\ Untouched /\ dialog' = TRUE
      /\ UNCHANGED <<personas, memory, sent, saves>>
  BY DEF ShowCreate
<1>2. /\ flow' \in Flow /\ flow' # None /\ flow'.do = "create"
      /\ flow'.file = New
  BY <1>1, AwaitsType, NewIsAFile
<1>3. PersonasOK'  BY <1>1 DEF IInv, PersonasOK
<1>4. EditorOK'
  <2>1. Unset \in Config  BY DEF Unset, Config
  <2> QED  BY <1>1, <2>1, CleanBoxes DEF IInv, EditorOK, IsInjective
<1>5. UserOK'  BY <1>1, CleanBoxes DEF UserOK, Untouched
<1>6. FlowOK'
  BY <1>1, <1>2, NewIsAFile DEF IInv, FlowOK, In
<1>7. FillingOK'  BY <1>2 DEF FillingOK, Filling, In
<1>8. OpenOK'
  <2>1. {s \in Solver : NoBoxes[s] # None} = {} /\ Range(<<>>) = {}
    BY CleanBoxes DEF Range
  <2>2. /\ New.solvers = <<>>
        /\ \A s \in Solver : New.config[s] = Empty /\ Unset[s] = Empty
    BY DEF New, Unset
  <2>3. \A s \in Solver : typed'[s] = None /\ s \notin touched'
    BY <1>1, CleanBoxes DEF Untouched
  <2> QED  BY <1>1, <2>1, <2>2, <2>3 DEF OpenOK, Belongs
<1> QED  BY <1>3, <1>4, <1>5, <1>6, <1>7, <1>8 DEF IInv

LEMMA EditInv == ASSUME IInv, NEW n \in Persona, Edit(n) PROVE IInv'
<1>1. /\ flow' \in Flow /\ flow' # None /\ flow'.do = "edit"
      /\ flow'.name = n /\ flow'.file = New
  BY AwaitsType, NewIsAFile DEF Edit
<1>2. /\ UNCHANGED <<personas, editor, sent, opened, user, saves>>
      /\ ~dialog /\ personas[n] # None
  BY DEF Edit, AtPage
<1>3. PersonasOK'  BY <1>2 DEF IInv, PersonasOK
<1>4. EditorOK'  BY <1>2 DEF IInv, EditorOK, editor
<1>5. UserOK'  BY <1>2 DEF IInv, UserOK, user
<1>6. FlowOK'
  BY <1>1, <1>2, NewIsAFile DEF IInv, FlowOK, In, editor
<1>7. FillingOK' /\ OpenOK'
  BY <1>2 DEF FillingOK, Filling, OpenOK, Open, editor
<1> QED  BY <1>3, <1>4, <1>5, <1>6, <1>7 DEF IInv

LEMMA PersonaCameInv == ASSUME IInv, PersonaCame PROVE IInv'
<1>1. flow # None /\ flow.do = "edit" /\ flow.name \in Persona
      /\ personas[flow.name] # None /\ ~dialog
  BY DEF PersonaCame, IInv, FlowOK, In
<1>2. personas[flow.name] \in File /\ IsInjective(personas[flow.name].solvers)
  BY <1>1 DEF IInv, PersonasOK
<1>3. /\ flow' \in Flow /\ flow' # None /\ flow'.do = "memory"
      /\ flow'.name = flow.name /\ flow'.file = personas[flow.name]
  BY <1>1, <1>2, AwaitsType DEF PersonaCame
<1>4. /\ UNCHANGED <<personas, dialog, selected, settings, boxes, memory,
                     sent, opened, saves>>
      /\ target' = flow.name /\ Untouched
  BY DEF PersonaCame
<1>5. PersonasOK'  BY <1>4 DEF IInv, PersonasOK
<1>6. EditorOK'  BY <1>1, <1>4 DEF IInv, EditorOK
<1>7. UserOK'  BY <1>4, CleanBoxes DEF UserOK, Untouched
<1>8. FlowOK'
  BY <1>1, <1>2, <1>3, <1>4 DEF IInv, FlowOK, In, Clean, Untouched
<1>9. FillingOK' /\ OpenOK'
  BY <1>1, <1>4 DEF FillingOK, Filling, OpenOK, Open
<1> QED  BY <1>5, <1>6, <1>7, <1>8, <1>9 DEF IInv

\* A step that only ends the opening that failed, or the save.
LEMMA EndInv ==
  ASSUME IInv, UNCHANGED <<personas, editor, opened, user, saves>>,
         \/ ~dialog /\ flow' = None /\ sent' = sent
         \/ flow' = flow /\ sent' = None
  PROVE  IInv'
<1>1. PersonasOK'  BY DEF IInv, PersonasOK
<1>2. EditorOK'  BY DEF IInv, EditorOK, editor
<1>3. UserOK'  BY DEF IInv, UserOK, user
<1>4. FlowOK'  BY DEF IInv, FlowOK, In, Clean, editor, user
<1>5. FillingOK'
  BY DEF IInv, FillingOK, Filling, In, Own, editor, user
<1>6. OpenOK'
  BY DEF IInv, OpenOK, Open, In, Belongs, editor, user
<1> QED  BY <1>1, <1>2, <1>3, <1>4, <1>5, <1>6 DEF IInv

LEMMA MemoryCameInv == ASSUME IInv, MemoryCame PROVE IInv'
<1>1. /\ flow # None /\ flow.do \in {"create", "memory"}
      /\ flow.file \in File /\ IsInjective(flow.file.solvers)
      /\ flow.name \in Persona \cup {None}
  BY FlowFacts DEF MemoryCame, In
<1>2. /\ memory' \in {"none", "short"}
      /\ UNCHANGED <<personas, target, selected, settings, sent, opened, user, saves>>
  BY <1>1 DEF MemoryCame, File
<1>3. PersonasOK'  BY <1>2 DEF IInv, PersonasOK
<1>4. UserOK'  BY <1>2 DEF IInv, UserOK, user
<1>5. CASE flow.do = "create"
  <2>1. flow' = None /\ UNCHANGED <<dialog, boxes>>
    BY <1>5 DEF MemoryCame
  <2>2. EditorOK'  BY <1>2, <2>1 DEF IInv, EditorOK
  <2>3. FlowOK'  BY <1>2, <2>1 DEF IInv, FlowOK, In
  <2>4. FillingOK'  BY <2>1 DEF FillingOK, Filling, In
  <2>5. OpenOK'
    BY <1>2, <1>5, <2>1 DEF IInv, OpenOK, Open, In, Belongs, user
  <2> QED  BY <1>3, <1>4, <2>2, <2>3, <2>4, <2>5 DEF IInv
<1>6. CASE flow.do = "memory"
  <2>1. /\ Awaits("solvers", flow.name, flow.file)
        /\ dialog' = TRUE /\ boxes' = NoBoxes
    BY <1>6 DEF MemoryCame
  <2>2. /\ flow' \in Flow /\ flow' # None /\ flow'.do = "solvers"
        /\ flow'.name = flow.name /\ flow'.file = flow.file
    BY <1>1, <2>1, AwaitsType
  <2>3. EditorOK'  BY <1>2, <2>1, CleanBoxes DEF IInv, EditorOK
  <2>4. FlowOK'  BY <1>1, <1>2, <2>1, <2>2 DEF IInv, FlowOK, In
  <2>5. FillingOK'
    <3>1. Clean  BY <1>1, <1>6 DEF IInv, FlowOK, In
    <3> QED
      BY <1>2, <2>1, <3>1, CleanBoxes, NoneFacts
         DEF FillingOK, Own, Clean, user
  <2>6. OpenOK'  BY <2>2 DEF OpenOK, Open, In
  <2> QED  BY <1>3, <1>4, <2>3, <2>4, <2>5, <2>6 DEF IInv
<1> QED  BY <1>1, <1>5, <1>6

\* The persona is in the editor, without its settings where there are boxes.
LEMMA SolversCameInv == ASSUME IInv, SolversCame PROVE IInv'
<1>1. /\ flow # None /\ flow.do = "solvers"
      /\ flow.file \in File /\ IsInjective(flow.file.solvers)
  BY FlowFacts DEF SolversCame, In
<1>2. flow.file.solvers \in Seq(Solver) /\ flow.file.config \in Config
  BY <1>1 DEF File
<1>3. Redraw(flow.file.solvers, flow.file.config)  BY DEF SolversCame
<1>4. /\ selected' \in Seq(Solver) /\ IsInjective(selected')
      /\ settings' \in Config /\ selected' = flow.file.solvers
      /\ boxes' \in [Solver -> Setting \cup {Broken, Empty, None}]
      /\ \A s \in Solver : boxes'[s] # Broken
      /\ {s \in Solver : boxes'[s] # None} = Range(selected')
      /\ \A s \in Solver :
           IF s \in Range(selected')
           THEN boxes'[s] = IF boxes[s] \in Setting THEN boxes[s] ELSE Empty
           ELSE boxes'[s] = None /\ settings'[s] = flow.file.config[s]
  BY <1>1, <1>2, <1>3, RedrawFacts DEF IInv
<1>5. /\ UNCHANGED <<personas, target, dialog, memory, edited, sent, saves>>
      /\ flow' = None /\ opened' = flow.file
      /\ typed' = [s \in Solver |-> IF s \in Range(selected') THEN typed[s] ELSE None]
      /\ touched' = touched \cap Range(selected')
  BY DEF SolversCame
<1>6. PersonasOK'  BY <1>5 DEF IInv, PersonasOK
<1>7. EditorOK'  BY <1>4, <1>5 DEF IInv, EditorOK
<1>8. UserOK'  BY <1>5 DEF IInv, UserOK
<1>9. FlowOK'  BY <1>1, <1>5 DEF IInv, FlowOK, In
<1>10. FillingOK'  BY <1>5 DEF FillingOK, Filling, In
<1>11. OpenOK'
  <2> SUFFICES ASSUME dialog' PROVE OpenOK'  BY DEF OpenOK, Open
  <2>1. \A s \in Solver : Own(s)
    BY <1>1, <1>5 DEF IInv, FillingOK, Filling, In
  <2>2. ASSUME NEW s \in Solver PROVE Belongs(s)'
    <3>1. CASE s \in Range(selected')
      <4>1. typed'[s] = typed[s] /\ (s \in touched' <=> s \in touched)
        BY <1>5, <3>1
      <4>2. boxes'[s] = IF boxes[s] \in Setting THEN boxes[s] ELSE Empty
        BY <1>4, <3>1
      <4>3. Own(s)  BY <2>1
      <4> QED
        BY <1>4, <1>5, <3>1, <4>1, <4>2, <4>3, NoneFacts DEF Belongs, Own
    <3>2. CASE s \notin Range(selected')
      <4>1. typed'[s] = None /\ s \notin touched'  BY <1>5, <3>2
      <4> QED  BY <1>4, <1>5, <3>2, <4>1 DEF Belongs
    <3> QED  BY <3>1, <3>2
  <2> QED  BY <1>4, <2>2 DEF OpenOK
<1> QED  BY <1>6, <1>7, <1>8, <1>9, <1>10, <1>11 DEF IInv

-----------------------------------------------------------------------------
(* What the user does in the dialog.                                         *)

\* A redrawing for sel, after which the user's marks are those of the list.
\* Solvers that are not s keep theirs; s has just been added or removed.
LEMMA RedrawInv ==
  ASSUME IInv, dialog,
         NEW sel \in Seq(Solver), IsInjective(sel), NEW set \in Config,
         Redraw(sel, set),
         UNCHANGED <<personas, target, dialog, memory, flow, sent, opened, saves>>,
         UserOK',
         NEW S \in SUBSET Solver,
         S \subseteq touched',
         \A s \in S : s \in Range(sel) => boxes[s] \notin Setting,
         \A s \in S : typed'[s] = None /\ (s \notin Range(sel) => set[s] = Empty),
         \A s \in Solver \ S :
           /\ typed'[s] = typed[s] /\ set[s] = settings[s]
           /\ s \in touched' <=> s \in touched
           /\ s \in Range(sel) <=> s \in Range(selected)
  PROVE  IInv'
<1>1. /\ selected' \in Seq(Solver) /\ IsInjective(selected')
      /\ settings' \in Config /\ selected' = sel
      /\ boxes' \in [Solver -> Setting \cup {Broken, Empty, None}]
      /\ \A s \in Solver : boxes'[s] # Broken
      /\ {s \in Solver : boxes'[s] # None} = Range(selected')
      /\ \A s \in Solver :
           IF s \in Range(sel)
           THEN boxes'[s] = IF boxes[s] \in Setting THEN boxes[s] ELSE Empty
           ELSE boxes'[s] = None /\ settings'[s] = set[s]
  BY RedrawFacts DEF IInv
<1>2. PersonasOK'  BY DEF IInv, PersonasOK
<1>3. EditorOK'  BY <1>1 DEF IInv, EditorOK
<1>4. ~In("edit") /\ ~In("memory") /\ (Filling \/ Open)  BY DialogFacts
<1>5. FlowOK'  BY <1>4 DEF IInv, FlowOK, In
<1>6. FillingOK'
  <2> SUFFICES ASSUME Filling, NEW s \in Solver
               PROVE  Own(s)' /\ (boxes'[s] # None => s \in Range(selected'))
    BY DEF FillingOK, Filling, In
  <2>1. Own(s) /\ (boxes[s] # None => s \in Range(selected))
    BY DEF IInv, FillingOK
  <2>2. Own(s)'
    <3>1. CASE s \in S
      <4>1. typed'[s] = None /\ boxes'[s] \notin Setting
        BY <1>1, <3>1, NoneFacts
      <4> QED  BY <4>1, NoneFacts DEF Own
    <3>2. CASE s \notin S
      <4>1. /\ typed'[s] = typed[s] /\ (s \in touched' <=> s \in touched)
            /\ s \in Range(sel) <=> s \in Range(selected)
        BY <3>2
      <4>2. CASE s \in Range(sel)
        <5>1. boxes'[s] = IF boxes[s] \in Setting THEN boxes[s] ELSE Empty
          BY <1>1, <4>2
        <5> QED  BY <2>1, <4>1, <5>1, NoneFacts DEF Own
      <4>3. CASE s \notin Range(sel)
        <5>1. boxes'[s] = None /\ boxes[s] = None  BY <1>1, <2>1, <4>1, <4>3
        <5> QED  BY <2>1, <4>1, <5>1, NoneFacts DEF Own
      <4> QED  BY <4>2, <4>3
    <3> QED  BY <3>1, <3>2
  <2> QED  BY <1>1, <2>2
<1>7. ASSUME NEW s \in S PROVE Belongs(s)'
  <2>1. s \in Solver /\ s \in touched' /\ typed'[s] = None  OBVIOUS
  <2>2. CASE s \in Range(sel)
    <3>1. boxes'[s] = Empty  BY <1>1, <2>1, <2>2
    <3> QED  BY <1>1, <2>1, <2>2, <3>1, NoneFacts DEF Belongs
  <2>3. CASE s \notin Range(sel)
    BY <1>1, <2>1, <2>3 DEF Belongs
  <2> QED  BY <2>2, <2>3
<1>8. ASSUME Open, NEW s \in Solver \ S PROVE Belongs(s)'
  <2>1. Belongs(s)  BY <1>8 DEF IInv, OpenOK
  <2>2. /\ typed'[s] = typed[s] /\ set[s] = settings[s]
        /\ s \in touched' <=> s \in touched
        /\ s \in Range(selected') <=> s \in Range(selected)
    BY <1>1
  <2>3. CASE s \in Range(selected)
    <3>1. boxes'[s] = IF boxes[s] \in Setting THEN boxes[s] ELSE Empty
      BY <1>1, <2>2, <2>3
    <3> QED  BY <2>1, <2>2, <2>3, <3>1, NoneFacts DEF Belongs
  <2>4. CASE s \notin Range(selected)
    <3>1. settings'[s] = settings[s]  BY <1>1, <2>2, <2>4
    <3> QED  BY <2>1, <2>2, <2>4, <3>1 DEF Belongs
  <2> QED  BY <2>3, <2>4
<1>9. OpenOK'
  <2>1. Open' => Open  BY DEF Open, In
  <2> QED  BY <1>1, <1>7, <1>8, <2>1 DEF OpenOK
<1> QED  BY <1>2, <1>3, <1>5, <1>6, <1>9 DEF IInv

LEMMA DropInv == ASSUME IInv, NEW i, NEW j, Drop(i, j) PROVE IInv'
<1> DEFINE sel == InsertAt(RemoveAt(selected, i), j, selected[i])
<1>1. /\ dialog /\ i \in DOMAIN selected /\ j \in DOMAIN selected
      /\ Redraw(sel, settings) /\ edited' = TRUE
      /\ UNCHANGED <<personas, target, dialog, memory, flow, sent, opened,
                     typed, touched, saves>>
  BY DEF Drop, AtDialog
<1>2. selected \in Seq(Solver) /\ IsInjective(selected) /\ settings \in Config
  BY DEF IInv, EditorOK
<1>3. sel \in Seq(Solver) /\ IsInjective(sel) /\ Range(sel) = Range(selected)
  BY <1>1, <1>2, Moved
<1>4. UserOK'  BY <1>1 DEF IInv, UserOK
<1> DEFINE none == {}
<1>5. /\ none \in SUBSET Solver /\ none \subseteq touched'
      /\ \A s \in none : s \in Range(sel) => boxes[s] \notin Setting
      /\ \A s \in none :
           typed'[s] = None /\ (s \notin Range(sel) => settings[s] = Empty)
      /\ \A s \in Solver \ none :
           /\ typed'[s] = typed[s] /\ settings[s] = settings[s]
           /\ s \in touched' <=> s \in touched
           /\ s \in Range(sel) <=> s \in Range(selected)
  BY <1>1, <1>3
<1> HIDE DEF sel, none
<1> QED  BY <1>1, <1>2, <1>3, <1>4, <1>5, RedrawInv

LEMMA ToggleInv == ASSUME IInv, NEW x \in Solver, Toggle(x) PROVE IInv'
<1>1. /\ dialog /\ touched' = touched \cup {x} /\ edited' = edited
      /\ typed' = [typed EXCEPT ![x] = None]
      /\ UNCHANGED <<personas, target, dialog, memory, flow, sent, opened, saves>>
  BY DEF Toggle, Touches, AtDialog
<1>2. selected \in Seq(Solver) /\ IsInjective(selected) /\ settings \in Config
  BY DEF IInv, EditorOK
<1>3. UserOK'  BY <1>1 DEF IInv, UserOK
<1>4. /\ typed'[x] = None
      /\ \A s \in Solver \ {x} : typed'[s] = typed[s]
                                 /\ (s \in touched' <=> s \in touched)
  BY <1>1 DEF IInv, UserOK
<1>5. \A s \in Solver : boxes[s] # None => s \in Range(selected)
  BY <1>1, DialogFacts DEF IInv, OpenOK, FillingOK
<1>6. CASE x \in Range(selected)
  <2> DEFINE set == [settings EXCEPT ![x] = Empty]
             k == CHOOSE i \in DOMAIN selected : selected[i] = x
             sel == Without(x)
  <2>1. k \in DOMAIN selected /\ selected[k] = x
    BY <1>6 DEF Range
  <2>2. sel \in Seq(Solver) /\ IsInjective(sel) /\ Range(sel) = Range(selected) \ {x}
    <3> HIDE DEF k
    <3>1. RemoveAt(selected, k) \in Seq(Solver)
          /\ IsInjective(RemoveAt(selected, k))
          /\ Range(RemoveAt(selected, k)) = Range(selected) \ {x}
      BY <1>2, <2>1, Removed
    <3> QED  BY <3>1 DEF k, Without
  <2>3. /\ set \in Config /\ set[x] = Empty
        /\ \A s \in Solver \ {x} : set[s] = settings[s]
    BY <1>2 DEF Config
  <2>4. Redraw(sel, set)  BY <1>6 DEF Toggle
  <2> HIDE DEF set, sel
  <2>5. \A s \in {x} : s \in Range(sel) => boxes[s] \notin Setting
    BY <2>2
  <2>6. \A s \in {x} : typed'[s] = None /\ (s \notin Range(sel) => set[s] = Empty)
    BY <1>4, <2>3
  <2>7. \A s \in Solver \ {x} :
          /\ typed'[s] = typed[s] /\ set[s] = settings[s]
          /\ s \in touched' <=> s \in touched
          /\ s \in Range(sel) <=> s \in Range(selected)
    BY <1>4, <2>2, <2>3
  <2>8. {x} \in SUBSET Solver /\ {x} \subseteq touched'  BY <1>1
  <2> QED
    BY <1>1, <1>3, <2>2, <2>3, <2>4, <2>5, <2>6, <2>7, <2>8, RedrawInv
<1>7. CASE x \notin Range(selected)
  <2> DEFINE sel == Append(selected, x)
  <2>1. sel \in Seq(Solver) /\ IsInjective(sel) /\ Range(sel) = Range(selected) \cup {x}
    BY <1>2, <1>7, Appended
  <2>2. Redraw(sel, settings)  BY <1>7 DEF Toggle
  <2> HIDE DEF sel
  <2>3. boxes[x] \notin Setting  BY <1>5, <1>7, NoneFacts
  <2>4. \A s \in {x} : s \in Range(sel) => boxes[s] \notin Setting
    BY <1>4, <2>3
  <2>5. \A s \in {x} : typed'[s] = None /\ (s \notin Range(sel) => settings[s] = Empty)
    BY <1>4, <2>1
  <2>6. \A s \in Solver \ {x} :
          /\ typed'[s] = typed[s] /\ settings[s] = settings[s]
          /\ s \in touched' <=> s \in touched
          /\ s \in Range(sel) <=> s \in Range(selected)
    BY <1>4, <2>1
  <2>7. {x} \in SUBSET Solver /\ {x} \subseteq touched'  BY <1>1
  <2> QED
    BY <1>1, <1>2, <1>3, <2>1, <2>2, <2>4, <2>5, <2>6, <2>7, RedrawInv
<1> QED  BY <1>6, <1>7

LEMMA TypeInv ==
  ASSUME IInv, NEW x \in Solver, NEW text \in Setting \cup {Broken, Empty},
         Type(x, text)
  PROVE  IInv'
<1>1. /\ dialog /\ boxes[x] # None /\ (text = Broken => x \in Json)
      /\ boxes' = [boxes EXCEPT ![x] = text]
      /\ typed' = [typed EXCEPT ![x] = text]
      /\ touched' = touched \cup {x} /\ edited' = edited
      /\ UNCHANGED <<personas, target, dialog, selected, settings, memory,
                     flow, sent, opened, saves>>
  BY DEF Type, Touches, AtDialog
<1>2. PersonasOK'  BY <1>1 DEF IInv, PersonasOK
<1>3. EditorOK'  BY <1>1 DEF IInv, EditorOK
<1>4. UserOK'  BY <1>1 DEF IInv, UserOK
<1>5. FlowOK'
  <2>1. ~In("edit") /\ ~In("memory")  BY <1>1, DialogFacts
  <2> QED  BY <1>1, <2>1 DEF IInv, FlowOK, In
<1>6. /\ boxes'[x] = text /\ typed'[x] = text
      /\ \A s \in Solver \ {x} : boxes'[s] = boxes[s] /\ typed'[s] = typed[s]
  BY <1>1 DEF IInv, EditorOK, UserOK
<1>7. text # None  BY NoneFacts
<1>8. \A s \in Solver \ {x} : s \in touched' <=> s \in touched  BY <1>1
<1>9. FillingOK'
  <2> SUFFICES ASSUME Filling, NEW s \in Solver
               PROVE  Own(s)' /\ (boxes'[s] # None => s \in Range(selected'))
    BY <1>1 DEF FillingOK, Filling, In
  <2>1. Own(s) /\ (boxes[s] # None => s \in Range(selected))
    BY DEF IInv, FillingOK
  <2>2. CASE s = x  BY <1>1, <1>6, <2>1, <2>2 DEF Own
  <2>3. CASE s # x  BY <1>1, <1>6, <1>8, <2>1, <2>3 DEF Own
  <2> QED  BY <2>2, <2>3
<1>10. OpenOK'
  <2> SUFFICES ASSUME Open PROVE OpenOK'  BY <1>1 DEF OpenOK, Open, In
  <2>1. /\ {s \in Solver : boxes[s] # None} = Range(selected)
        /\ \A s \in Solver : Belongs(s)
    BY DEF IInv, OpenOK
  <2>2. {s \in Solver : boxes'[s] # None} = Range(selected')
    BY <1>1, <1>6, <1>7, <2>1
  <2>3. Belongs(x)'
    BY <1>1, <1>6, <2>1 DEF Belongs
  <2>4. ASSUME NEW s \in Solver \ {x} PROVE Belongs(s)'
    <3>1. Belongs(s)  BY <2>1
    <3> QED  BY <1>1, <1>6, <1>8, <3>1 DEF Belongs
  <2> QED  BY <2>2, <2>3, <2>4 DEF OpenOK
<1> QED  BY <1>2, <1>3, <1>4, <1>5, <1>9, <1>10 DEF IInv

LEMMA ChooseMemoryInv ==
  ASSUME IInv, NEW m \in {"none", "short"}, ChooseMemory(m) PROVE IInv'
<1>1. /\ memory' = m /\ edited' = TRUE
      /\ UNCHANGED <<personas, target, dialog, selected, settings, boxes,
                     flow, sent, opened, typed, touched, saves>>
  BY DEF ChooseMemory
<1>2. PersonasOK'  BY <1>1 DEF IInv, PersonasOK
<1>3. EditorOK'  BY <1>1 DEF IInv, EditorOK
<1>4. UserOK'  BY <1>1 DEF IInv, UserOK
<1>5. FlowOK'  BY <1>1 DEF IInv, FlowOK, In, Clean
<1>6. FillingOK'  BY <1>1 DEF IInv, FillingOK, Filling, In, Own
<1>7. OpenOK'  BY <1>1 DEF IInv, OpenOK, Open, In, Belongs
<1> QED  BY <1>2, <1>3, <1>4, <1>5, <1>6, <1>7 DEF IInv

LEMMA CloseInv == ASSUME IInv, Close PROVE IInv'
<1>1. /\ dialog' = FALSE /\ Untouched /\ dialog
      /\ UNCHANGED <<personas, target, selected, settings, boxes, memory,
                     flow, sent, opened, saves>>
  BY DEF Close
<1>2. PersonasOK'  BY <1>1 DEF IInv, PersonasOK
<1>3. EditorOK'  BY <1>1 DEF IInv, EditorOK
<1>4. UserOK'  BY <1>1, CleanBoxes DEF UserOK, Untouched
<1>5. FlowOK'
  <2>1. ~In("edit") /\ ~In("memory")  BY <1>1, DialogFacts
  <2> QED  BY <1>1, <2>1 DEF IInv, FlowOK, In
<1>6. FillingOK' /\ OpenOK'
  BY <1>1 DEF FillingOK, Filling, OpenOK, Open
<1> QED  BY <1>2, <1>3, <1>4, <1>5, <1>6 DEF IInv

-----------------------------------------------------------------------------
(* Saving and deleting.                                                      *)

\* What a save sends: the settings of the boxes, and those of solvers that are
\* not selected.
LEMMA SaveFacts ==
  ASSUME IInv, NEW n \in Persona, Save(n)
  PROVE  /\ settings' \in Config
         /\ \A s \in Solver :
              settings'[s] = IF s \notin Range(selected) THEN settings[s]
                             ELSE IF boxes[s] \in Setting THEN boxes[s] ELSE Empty
         /\ \/ sent' = None
            \/ /\ sent' \in Sent /\ sent' # None
               /\ sent'.file.solvers = selected /\ sent'.file.config = settings'
<1> DEFINE file == [solvers |-> selected, config |-> settings', memory |-> memory]
<1>1. /\ settings' = Collected(selected, settings)
      /\ sent' = IF Parses THEN [name |-> n, new |-> target = None, file |-> file]
                 ELSE None
  BY DEF Save
<1>2. /\ selected \in Seq(Solver)
      /\ settings \in Config /\ memory \in {"none", "short"}
      /\ boxes \in [Solver -> Setting \cup {Broken, Empty, None}]
  BY DEF IInv, EditorOK
<1>3. /\ settings' \in Config
      /\ \A s \in Solver :
           settings'[s] = IF s \notin Range(selected) THEN settings[s]
                          ELSE IF boxes[s] \in Setting THEN boxes[s] ELSE Empty
  BY <1>1, <1>2 DEF Collected, Config
<1>4. /\ file \in File
      /\ file.solvers = selected /\ file.config = settings'
  BY <1>2, <1>3 DEF File
<1> HIDE DEF file
<1>5. CASE Parses
  <2>1. sent' = [name |-> n, new |-> target = None, file |-> file]
    BY <1>1, <1>5
  <2>2. sent' \in Sent /\ sent'.file = file  BY <1>4, <2>1 DEF Sent
  <2> QED  BY <1>3, <1>4, <2>2, NoneFacts
<1>6. CASE ~Parses  BY <1>1, <1>3, <1>6
<1> QED  BY <1>5, <1>6

LEMMA SaveInv == ASSUME IInv, NEW n \in Persona, Save(n) PROVE IInv'
<1>1. /\ dialog
      /\ UNCHANGED <<personas, target, dialog, selected, boxes, memory,
                     flow, opened, user, saves>>
  BY DEF Save, AtDialog
<1>2. /\ settings' \in Config
      /\ \A s \in Solver : s \notin Range(selected) => settings'[s] = settings[s]
      /\ \/ sent' = None
         \/ sent' \in Sent /\ sent' # None /\ sent'.file.solvers = selected
  BY SaveFacts
<1>3. PersonasOK'  BY <1>1 DEF IInv, PersonasOK
<1>4. EditorOK'  BY <1>1, <1>2 DEF IInv, EditorOK
<1>5. UserOK'  BY <1>1 DEF IInv, UserOK, user
<1>6. FlowOK'
  BY <1>1, <1>2 DEF IInv, FlowOK, EditorOK, In, Clean, user
<1>7. FillingOK'  BY <1>1 DEF IInv, FillingOK, Filling, In, Own, user
<1>8. OpenOK'
  <2> SUFFICES ASSUME Open PROVE OpenOK'  BY <1>1 DEF OpenOK, Open, In
  <2>1. /\ {s \in Solver : boxes[s] # None} = Range(selected)
        /\ \A s \in Solver : Belongs(s)
    BY DEF IInv, OpenOK
  <2>2. \A s \in Solver : Belongs(s)'
    BY <1>1, <1>2, <2>1 DEF Belongs, user
  <2> QED  BY <1>1, <2>1, <2>2 DEF OpenOK
<1> QED  BY <1>3, <1>4, <1>5, <1>6, <1>7, <1>8 DEF IInv

\* The panel has stored the persona.  If the answer is lost, the dialog stays.
LEMMA StoredInv ==
  ASSUME IInv, NEW answered \in BOOLEAN, Stored(answered) PROVE IInv'
<1>1. /\ sent # None /\ saves < Saves
      /\ personas' = [personas EXCEPT ![sent.name] = sent.file]
      /\ saves' = saves + 1 /\ sent' = None
      /\ UNCHANGED <<target, selected, settings, boxes, memory, flow, opened>>
  BY DEF Stored
<1>2. \/ dialog' = FALSE /\ Untouched
      \/ UNCHANGED <<dialog, user>>
  BY DEF Stored
<1>3. /\ sent \in Sent /\ sent.name \in Persona
      /\ sent.file \in File /\ IsInjective(sent.file.solvers)
  BY <1>1 DEF IInv, FlowOK, Sent
<1>4. /\ personas' \in [Persona -> File \cup {None}]
      /\ \A n \in Persona :
           personas'[n] = IF n = sent.name THEN sent.file ELSE personas[n]
  BY <1>1, <1>3 DEF IInv, PersonasOK
<1>5. PersonasOK'
  <2>1. saves' \in 0..Saves
    BY <1>1, BoundsAssumption DEF IInv, PersonasOK
  <2> QED  BY <1>3, <1>4, <2>1 DEF IInv, PersonasOK
<1>6. EditorOK'  BY <1>1, <1>2 DEF IInv, EditorOK
<1>7. UserOK'  BY <1>1, <1>2, CleanBoxes DEF IInv, UserOK, Untouched, user
<1>8. FlowOK'
  <2>1. In("edit") => ~dialog' /\ personas'[flow.name] # None
    BY <1>2, <1>3, <1>4, NoneFacts DEF IInv, FlowOK
  <2>2. In("memory") => ~dialog' /\ Clean'
    BY <1>2 DEF IInv, FlowOK, Clean, Untouched, user
  <2> QED  BY <1>1, <2>1, <2>2 DEF IInv, FlowOK, In
<1>9. CASE dialog' = FALSE
  <2>1. FillingOK' /\ OpenOK'
    BY <1>9 DEF FillingOK, Filling, OpenOK, Open
  <2> QED  BY <1>5, <1>6, <1>7, <1>8, <2>1 DEF IInv
<1>10. CASE UNCHANGED <<dialog, user>>
  <2>1. FillingOK'
    BY <1>1, <1>10 DEF IInv, FillingOK, Filling, In, Own, user
  <2>2. OpenOK'
    BY <1>1, <1>10 DEF IInv, OpenOK, Open, In, Belongs, user
  <2> QED  BY <1>5, <1>6, <1>7, <1>8, <2>1, <2>2 DEF IInv
<1> QED  BY <1>2, <1>9, <1>10

LEMMA DeleteInv == ASSUME IInv, NEW n \in Persona, Delete(n) PROVE IInv'
<1>1. /\ flow = None /\ ~dialog
      /\ personas' = [personas EXCEPT ![n] = None]
      /\ UNCHANGED <<editor, flow, sent, opened, user, saves>>
  BY DEF Delete, AtPage
<1>2. PersonasOK'
  <2>1. personas' \in [Persona -> File \cup {None}]
    BY <1>1 DEF IInv, PersonasOK
  <2>2. \A m \in Persona : personas'[m] = IF m = n THEN None ELSE personas[m]
    BY <1>1 DEF IInv, PersonasOK
  <2> QED  BY <1>1, <2>1, <2>2 DEF IInv, PersonasOK
<1>3. EditorOK'  BY <1>1 DEF IInv, EditorOK, editor
<1>4. UserOK'  BY <1>1 DEF IInv, UserOK, user
<1>5. FlowOK'  BY <1>1 DEF IInv, FlowOK, In
<1>6. FillingOK' /\ OpenOK'
  BY <1>1 DEF FillingOK, Filling, OpenOK, Open, editor
<1> QED  BY <1>2, <1>3, <1>4, <1>5, <1>6 DEF IInv

LEMMA StepInv == IInv /\ [Next]_vars => IInv'
<1> SUFFICES ASSUME IInv, [Next]_vars PROVE IInv'  OBVIOUS
<1>1. CASE UNCHANGED vars
  BY <1>1 DEF IInv, PersonasOK, EditorOK, UserOK, FlowOK, FillingOK, OpenOK, In,
     Clean, Filling, Open, Own, Belongs, vars, editor, user
<1>2. CASE PersonaFailed
  <2>1. flow # None /\ ~dialog  BY <1>2 DEF PersonaFailed, IInv, FlowOK, In
  <2> QED  BY <1>2, <2>1, EndInv DEF PersonaFailed
<1>3. CASE SaveFailed
  BY <1>3, EndInv DEF SaveFailed
<1>4. CASE Come
  BY <1>2, <1>3, <1>4, PersonaCameInv, MemoryCameInv, SolversCameInv, StoredInv
     DEF Come
<1> QED
  BY <1>1, <1>4, ShowCreateInv, CloseInv, EditInv, SaveInv, DeleteInv,
     ToggleInv, TypeInv, DropInv, ChooseMemoryInv
     DEF Next

THEOREM Invariance == Spec => []IInv
BY InitInv, StepInv, PTL DEF Spec

\* What is stored, the editor's lists, settings and boxes and the flow keep
\* their form, and the boxes of an editor that is up are those of its solvers.
THEOREM TypeCorrect == Spec => []TypeOK
<1>1. IInv => TypeOK
  BY DEF IInv, PersonasOK, EditorOK, UserOK, FlowOK, OpenOK, Open, In, TypeOK
<1> QED  BY <1>1, Invariance, PTL

\* What is saved for a persona is that persona's and the user's, for any
\* number of personas and solvers, whatever was edited before, whatever the
\* user did while the persona's solvers were on their way and whichever
\* requests failed.  A save that goes out before they have come is left out:
\* it takes the solvers of the persona before.
THEOREM SavesDoNotMix == Spec => SaveMixesNothing
<1>1. ASSUME IInv, [Next]_vars, Saving, NEW s \in Solver
      PROVE  IF s \in touched
             THEN sent'.file.config[s] \in {typed[s], Empty}
             ELSE /\ s \in Range(sent'.file.solvers) <=> s \in Range(opened.solvers)
                  /\ sent'.file.config[s] \in {opened.config[s], Empty}
  <2>1. sent = None /\ sent' # None /\ ~In("solvers")
    BY <1>1 DEF Saving
  <2>2. PICK n \in Persona : Save(n)
    BY <1>1, <2>1
       DEF Next, Come, PersonaCame, PersonaFailed, MemoryCame, SolversCame, Stored,
           SaveFailed, ShowCreate, Close, Edit, Delete, Toggle, Type, Drop,
           ChooseMemory, vars
  <2>3. /\ sent'.file.solvers = selected /\ sent'.file.config = settings'
        /\ settings'[s] = IF s \notin Range(selected) THEN settings[s]
                          ELSE IF boxes[s] \in Setting THEN boxes[s] ELSE Empty
    BY <1>1, <2>1, <2>2, SaveFacts
  <2>4. Belongs(s)
    BY <1>1, <2>1, <2>2 DEF IInv, OpenOK, Open, Save, AtDialog
  <2> QED  BY <2>3, <2>4, NoneFacts DEF Belongs
<1>2. IInv /\ [Next]_vars =>
        [Saving =>
           \A s \in Solver :
             IF s \in touched THEN sent'.file.config[s] \in {typed[s], Empty}
             ELSE /\ s \in Range(sent'.file.solvers) <=> s \in Range(opened.solvers)
                  /\ sent'.file.config[s] \in {opened.config[s], Empty}]_sent
  BY <1>1
<1> QED  BY <1>2, Invariance, PTL DEF Spec, SaveMixesNothing

\* What the user typed stays in its box while solvers are added, removed and
\* moved and while the persona's own come.
THEOREM RedrawingKeepsText == Spec => []TypedIsKept
<1>1. IInv => TypedIsKept
  <2> SUFFICES ASSUME IInv, dialog, NEW s \in Solver, typed[s] \in Setting
               PROVE  boxes[s] = typed[s]
    BY DEF TypedIsKept
  <2>1. CASE Filling  BY <2>1 DEF IInv, FillingOK, Own
  <2>2. CASE Open
    <3>1. Belongs(s)  BY <2>2 DEF IInv, OpenOK
    <3> QED  BY <3>1, NoneFacts DEF Belongs
  <2> QED  BY <2>1, <2>2, DialogFacts
<1> QED  BY <1>1, Invariance, PTL
=============================================================================
