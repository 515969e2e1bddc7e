---------------------------- MODULE EditorsProofs ----------------------------
(***************************************************************************)
(* What TLAPS proves of the forms, the database profiles and the clients   *)
(* page, for every set of clients, profiles and requests.                  *)
(***************************************************************************)
EXTENDS MCEditors, PersonaEditorProofs, FiniteSetTheorems

(* Forms filled by requests (FormEditors).  The user of a form that is not   *)
(* locked while it loads waits for the answers.                              *)

Patient == Hasty \subseteq {"policy", "pairing"}

\* The requests each form sends.
AsksOf(k, ask) ==
  \/ k = "client" /\ ask \in {"client", "password", "save"}
  \/ k = "acl" /\ ask \in {"acl", "page", "template", "save"}
  \/ k = "policy" /\ ask \in {"policy", "save"}
  \/ k = "pairing" /\ ask \in {"bundle", "code", "image"}
  \/ k = "snapshot" /\ ask \in {"diff", "revert"}
  \/ k = "test" /\ ask \in {"persona", "test"}

\* What the request under way in r says of the form.
RequestOK(r) ==
  requests[r] # None =>
    /\ AsksOf(kind, requests[r].ask)
    /\ requests[r].ask = "client" => requests[r].for \in Item /\ ~usable
    /\ requests[r].ask = "password" =>
         requests[r].for = subject /\ subject # None /\ ~usable
           /\ content["identity"] = subject
    /\ requests[r].ask \in {"acl", "diff"} =>
         requests[r].for = subject /\ subject # None
    /\ requests[r].ask = "policy" => requests[r].for = "policy"
    /\ requests[r].ask \in {"persona", "test"} =>
         requests[r].for = subject /\ ~usable
    /\ kind = "pairing" /\ subject # None /\ opening = requests[r].opening =>
         requests[r].for = subject

\* A patient user has one request under way.
OneRequest ==
  kind \notin {"policy", "pairing"} =>
    \A q, r \in Slot : requests[q] # None /\ requests[r] # None => q = r

\* A form that can be used shows its subject, unless its load is under way.
ShowsItsOwn ==
  usable /\ (\A r \in Slot :
               requests[r] # None => requests[r].ask \notin {"acl", "diff"}) =>
    \A p \in Forms!Parts[kind] : content[p] \in {subject, "typed"}

FormsInv ==
  /\ Forms!TypeOK
  /\ \A r \in Slot : RequestOK(r)
  /\ OneRequest
  /\ ShowsItsOwn

-----------------------------------------------------------------------------
LEMMA PartsFacts ==
  /\ Forms!Parts["client"] = {"identity", "password"}
  /\ Forms!Parts["acl"] = {"rights"}
  /\ Forms!Parts["policy"] = {"chain"}
  /\ Forms!Parts["pairing"] = {"bundle", "code"}
  /\ Forms!Parts["snapshot"] = {"preview"}
  /\ Forms!Parts["test"] = {"results"}
BY DEF Forms!Parts

LEMMA PartFacts ==
  Forms!Part = {"identity", "password", "rights", "chain", "bundle", "code",
                "preview", "results"}
<1>1. \A p : p \in Forms!Part <=> \E k \in Forms!Kind : p \in Forms!Parts[k]
  BY DEF Forms!Part
<1>2. \A p : p \in Forms!Part <=>
        \/ p \in Forms!Parts["client"] \/ p \in Forms!Parts["acl"]
        \/ p \in Forms!Parts["policy"] \/ p \in Forms!Parts["pairing"]
        \/ p \in Forms!Parts["snapshot"] \/ p \in Forms!Parts["test"]
  BY <1>1 DEF Forms!Kind
<1> QED  BY <1>2, PartsFacts

LEMMA FormsNone ==
  None \notin Item /\ None # "policy" /\ None \notin Forms!Request
BY EditorsAssumption DEF Forms!Assumption

\* The request that is sent, and for a patient user the only one.
LEMMA FormsSent ==
  ASSUME FormsInv, Patient, NEW r \in Slot, NEW ask \in Forms!Ask,
         NEW for \in Forms!Subject,
         kind \in {"policy", "pairing"} \/ ~Forms!Waiting,
         Forms!Sending(r, ask, for), kind' = kind, requests[r] = None
  PROVE  /\ requests' \in [Slot -> Forms!Request \cup {None}]
         /\ requests'[r] = [ask |-> ask, for |-> for, opening |-> opening]
         /\ requests'[r] # None
         /\ \A q \in Slot \ {r} :
              /\ requests'[q] = requests[q]
              /\ kind \notin {"policy", "pairing"} => requests'[q] = None
         /\ OneRequest'
<1> DEFINE new == [ask |-> ask, for |-> for, opening |-> opening]
<1>1. /\ requests \in [Slot -> Forms!Request \cup {None}] /\ opening \in Opening
      /\ requests' = [requests EXCEPT ![r] = new]
  BY DEF FormsInv, Forms!TypeOK, Forms!Sending
<1>2. new \in Forms!Request
  BY <1>1 DEF Forms!Request
<1>3. new # None
  BY <1>2, FormsNone
<1>4. \A q \in Slot : kind \notin {"policy", "pairing"} => requests[q] = None
  BY DEF Forms!Waiting
<1> HIDE DEF new
<1>5. /\ requests' \in [Slot -> Forms!Request \cup {None}]
      /\ requests'[r] = new
      /\ \A q \in Slot \ {r} : requests'[q] = requests[q]
  BY <1>1, <1>2
<1>6. OneRequest'
  BY <1>4, <1>5 DEF OneRequest
<1> QED  BY <1>3, <1>4, <1>5, <1>6 DEF new

\* The request goes on as another one.
LEMMA FormsWent ==
  ASSUME FormsInv, NEW r \in Slot, NEW ask \in Forms!Ask, requests[r] # None,
         Forms!Then(r, ask), kind' = kind
  PROVE  /\ requests' \in [Slot -> Forms!Request \cup {None}]
         /\ requests[r] \in Forms!Request
         /\ requests'[r] = [requests[r] EXCEPT !.ask = ask]
         /\ requests'[r] # None
         /\ \A q \in Slot \ {r} :
              /\ requests'[q] = requests[q]
              /\ kind \notin {"policy", "pairing"} => requests'[q] = None
         /\ OneRequest'
<1>1. /\ requests \in [Slot -> Forms!Request \cup {None}]
      /\ requests' = [requests EXCEPT ![r] = [requests[r] EXCEPT !.ask = ask]]
  BY DEF FormsInv, Forms!TypeOK, Forms!Then
<1>2. requests[r] \in Forms!Request
  BY <1>1
<1>3. [requests[r] EXCEPT !.ask = ask] \in Forms!Request
  BY <1>2 DEF Forms!Request
<1> DEFINE new == [requests[r] EXCEPT !.ask = ask]
<1> HIDE DEF new
<1>4. /\ requests' \in [Slot -> Forms!Request \cup {None}]
      /\ requests'[r] = new
      /\ \A q \in Slot \ {r} : requests'[q] = requests[q]
  BY <1>1, <1>3 DEF new
<1>5. \A q \in Slot \ {r} : kind \notin {"policy", "pairing"} => requests[q] = None
  BY DEF FormsInv, OneRequest
<1>6. OneRequest'
  BY <1>4, <1>5 DEF OneRequest
<1>7. requests'[r] # None
  BY <1>3, <1>4, FormsNone DEF new
<1> QED  BY <1>2, <1>4, <1>5, <1>6, <1>7 DEF new

\* The request is over, and for a patient user there is none.
LEMMA FormsOver ==
  ASSUME FormsInv, NEW r \in Slot, requests[r] # None, Forms!Over(r), kind' = kind
  PROVE  /\ requests' \in [Slot -> Forms!Request \cup {None}]
         /\ requests[r] \in Forms!Request
         /\ requests'[r] = None
         /\ \A q \in Slot \ {r} :
              /\ requests'[q] = requests[q]
              /\ kind \notin {"policy", "pairing"} => requests'[q] = None
         /\ OneRequest'
<1>1. /\ requests \in [Slot -> Forms!Request \cup {None}]
      /\ requests' = [requests EXCEPT ![r] = None]
  BY DEF FormsInv, Forms!TypeOK, Forms!Over
<1>2. /\ requests' \in [Slot -> Forms!Request \cup {None}]
      /\ requests'[r] = None
      /\ \A q \in Slot \ {r} : requests'[q] = requests[q]
  BY <1>1
<1>3. \A q \in Slot \ {r} : kind \notin {"policy", "pairing"} => requests[q] = None
  BY DEF FormsInv, OneRequest
<1>4. OneRequest'
  BY <1>2, <1>3 DEF OneRequest
<1> QED  BY <1>1, <1>2, <1>3, <1>4

LEMMA FormsInit == ASSUME Forms!Init PROVE FormsInv
<1> USE EditorsAssumption, PartsFacts DEF Forms!Init
<1>1. Forms!TypeOK
  <2>1. opening \in Opening
    BY DEF Forms!Assumption
  <2> QED  BY <2>1 DEF Forms!TypeOK, Forms!Subject
<1>2. (\A r \in Slot : RequestOK(r)) /\ OneRequest
  BY DEF RequestOK, OneRequest
<1>3. ShowsItsOwn
  BY DEF ShowsItsOwn
<1> QED  BY <1>1, <1>2, <1>3 DEF FormsInv

LEMMA FormsEditClient ==
  ASSUME FormsInv, Patient, NEW r \in Slot, NEW c \in Item, Forms!EditClient(r, c)
  PROVE  FormsInv'
<1> USE DEF FormsInv, Forms!TypeOK, Forms!EditClient
<1>1. /\ requests' \in [Slot -> Forms!Request \cup {None}]
      /\ requests'[r] = [ask |-> "client", for |-> c, opening |-> opening]
      /\ requests'[r] # None
      /\ \A q \in Slot \ {r} :
           /\ requests'[q] = requests[q]
           /\ kind \notin {"policy", "pairing"} => requests'[q] = None
      /\ OneRequest'
  <2>1. "client" \in Forms!Ask /\ c \in Forms!Subject
    BY DEF Forms!Ask, Forms!Subject
  <2>2. kind \in {"policy", "pairing"} \/ ~Forms!Waiting
    BY DEF Patient, Forms!Acts
  <2>3. Forms!Sending(r, "client", c) /\ requests[r] = None /\ kind' = kind
    BY DEF Forms!Send
  <2> QED  BY <2>1, <2>2, <2>3, FormsSent
<1>2. Forms!TypeOK'
  BY <1>1, FormsNone DEF Forms!Acts, Forms!Subject, Forms!Show
<1>3. \A q \in Slot : RequestOK(q)'
  <2>1. RequestOK(r)'
    BY <1>1, FormsNone DEF RequestOK, AsksOf, Forms!Acts, Forms!Subject
  <2>2. ASSUME NEW q \in Slot \ {r} PROVE RequestOK(q)'
    BY <1>1, <2>2, FormsNone DEF RequestOK, Forms!Acts, AsksOf
  <2> QED  BY <2>1, <2>2
<1>4. ShowsItsOwn'
  BY <1>1, FormsNone, PartsFacts DEF ShowsItsOwn, Forms!Acts, Forms!Show, Forms!Send, Forms!Waiting
<1> QED  BY <1>1, <1>2, <1>3, <1>4

LEMMA FormsLoadACLPage ==
  ASSUME FormsInv, Patient, NEW r \in Slot, Forms!LoadACLPage(r)
  PROVE  FormsInv'
<1> USE DEF FormsInv, Forms!TypeOK, Forms!LoadACLPage
<1>1. /\ requests' \in [Slot -> Forms!Request \cup {None}]
      /\ requests'[r] = [ask |-> "page", for |-> None, opening |-> opening]
      /\ requests'[r] # None
      /\ \A q \in Slot \ {r} :
           /\ requests'[q] = requests[q]
           /\ kind \notin {"policy", "pairing"} => requests'[q] = None
      /\ OneRequest'
  <2>1. "page" \in Forms!Ask /\ None \in Forms!Subject
    BY DEF Forms!Ask, Forms!Subject
  <2>2. kind \in {"policy", "pairing"} \/ ~Forms!Waiting
    BY DEF Patient, Forms!Acts
  <2>3. Forms!Sending(r, "page", None) /\ requests[r] = None /\ kind' = kind
    BY DEF Forms!Send
  <2> QED  BY <2>1, <2>2, <2>3, FormsSent
<1>2. Forms!TypeOK'
  BY <1>1, FormsNone DEF Forms!Acts, Forms!Subject, Forms!Show
<1>3. \A q \in Slot : RequestOK(q)'
  <2>1. RequestOK(r)'
    BY <1>1, FormsNone DEF RequestOK, AsksOf, Forms!Acts, Forms!Subject
  <2>2. ASSUME NEW q \in Slot \ {r} PROVE RequestOK(q)'
    BY <1>1, <2>2, FormsNone DEF RequestOK, Forms!Acts, AsksOf
  <2> QED  BY <2>1, <2>2
<1>4. ShowsItsOwn'
  BY <1>1, FormsNone, PartsFacts DEF ShowsItsOwn, Forms!Acts, Forms!Show, Forms!Send, Forms!Waiting
<1> QED  BY <1>1, <1>2, <1>3, <1>4

LEMMA FormsApplyTemplate ==
  ASSUME FormsInv, Patient, NEW r \in Slot, Forms!ApplyTemplate(r)
  PROVE  FormsInv'
<1> USE DEF FormsInv, Forms!TypeOK, Forms!ApplyTemplate
<1>1. /\ requests' \in [Slot -> Forms!Request \cup {None}]
      /\ requests'[r] = [ask |-> "template", for |-> subject, opening |-> opening]
      /\ requests'[r] # None
      /\ \A q \in Slot \ {r} :
           /\ requests'[q] = requests[q]
           /\ kind \notin {"policy", "pairing"} => requests'[q] = None
      /\ OneRequest'
  <2>1. "template" \in Forms!Ask /\ subject \in Forms!Subject
    BY DEF Forms!Ask, Forms!Subject
  <2>2. kind \in {"policy", "pairing"} \/ ~Forms!Waiting
    BY DEF Patient, Forms!Acts
  <2>3. Forms!Sending(r, "template", subject) /\ requests[r] = None /\ kind' = kind
    BY DEF Forms!Send
  <2> QED  BY <2>1, <2>2, <2>3, FormsSent
<1>2. Forms!TypeOK'
  BY <1>1, FormsNone DEF Forms!Acts, Forms!Subject, Forms!Show
<1>3. \A q \in Slot : RequestOK(q)'
  <2>1. RequestOK(r)'
    BY <1>1, FormsNone DEF RequestOK, AsksOf, Forms!Acts, Forms!Subject
  <2>2. ASSUME NEW q \in Slot \ {r} PROVE RequestOK(q)'
    BY <1>1, <2>2, FormsNone DEF RequestOK, Forms!Acts, AsksOf
  <2> QED  BY <2>1, <2>2
<1>4. ShowsItsOwn'
  BY <1>1, FormsNone, PartsFacts DEF ShowsItsOwn, Forms!Acts, Forms!Show, Forms!Send, Forms!Waiting
<1> QED  BY <1>1, <1>2, <1>3, <1>4

LEMMA FormsLoadPolicy ==
  ASSUME FormsInv, Patient, NEW r \in Slot, Forms!LoadPolicy(r)
  PROVE  FormsInv'
<1> USE DEF FormsInv, Forms!TypeOK, Forms!LoadPolicy
<1>1. /\ requests' \in [Slot -> Forms!Request \cup {None}]
      /\ requests'[r] = [ask |-> "policy", for |-> "policy", opening |-> opening]
      /\ requests'[r] # None
      /\ \A q \in Slot \ {r} :
           /\ requests'[q] = requests[q]
           /\ kind \notin {"policy", "pairing"} => requests'[q] = None
      /\ OneRequest'
  <2>1. "policy" \in Forms!Ask /\ "policy" \in Forms!Subject
    BY DEF Forms!Ask, Forms!Subject
  <2>2. kind \in {"policy", "pairing"} \/ ~Forms!Waiting
    BY DEF Patient, Forms!Acts
  <2>3. Forms!Sending(r, "policy", "policy") /\ requests[r] = None /\ kind' = kind
    BY DEF Forms!Send
  <2> QED  BY <2>1, <2>2, <2>3, FormsSent
<1>2. Forms!TypeOK'
  BY <1>1, FormsNone DEF Forms!Acts, Forms!Subject, Forms!Show
<1>3. \A q \in Slot : RequestOK(q)'
  <2>1. RequestOK(r)'
    BY <1>1, FormsNone DEF RequestOK, AsksOf, Forms!Acts, Forms!Subject
  <2>2. ASSUME NEW q \in Slot \ {r} PROVE RequestOK(q)'
    BY <1>1, <2>2, FormsNone DEF RequestOK, Forms!Acts, AsksOf
  <2> QED  BY <2>1, <2>2
<1>4. ShowsItsOwn'
  BY <1>1, FormsNone, PartsFacts DEF ShowsItsOwn, Forms!Acts, Forms!Show, Forms!Send, Forms!Waiting
<1> QED  BY <1>1, <1>2, <1>3, <1>4

LEMMA FormsGeneratePairing ==
  ASSUME FormsInv, Patient, NEW r \in Slot, Forms!GeneratePairing(r)
  PROVE  FormsInv'
<1> USE DEF FormsInv, Forms!TypeOK, Forms!GeneratePairing
<1>1. /\ requests' \in [Slot -> Forms!Request \cup {None}]
      /\ requests'[r] = [ask |-> "bundle", for |-> subject, opening |-> opening]
      /\ requests'[r] # None
      /\ \A q \in Slot \ {r} :
           /\ requests'[q] = requests[q]
           /\ kind \notin {"policy", "pairing"} => requests'[q] = None
      /\ OneRequest'
  <2>1. "bundle" \in Forms!Ask /\ subject \in Forms!Subject
    BY DEF Forms!Ask, Forms!Subject
  <2>2. kind \in {"policy", "pairing"} \/ ~Forms!Waiting
    BY DEF Patient, Forms!Acts
  <2>3. Forms!Sending(r, "bundle", subject) /\ requests[r] = None /\ kind' = kind
    BY DEF Forms!Send
  <2> QED  BY <2>1, <2>2, <2>3, FormsSent
<1>2. Forms!TypeOK'
  BY <1>1, FormsNone DEF Forms!Acts, Forms!Subject, Forms!Show
<1>3. \A q \in Slot : RequestOK(q)'
  <2>1. RequestOK(r)'
    BY <1>1, FormsNone DEF RequestOK, AsksOf, Forms!Acts, Forms!Subject
  <2>2. ASSUME NEW q \in Slot \ {r} PROVE RequestOK(q)'
    BY <1>1, <2>2, FormsNone DEF RequestOK, Forms!Acts, AsksOf
  <2> QED  BY <2>1, <2>2
<1>4. ShowsItsOwn'
  BY <1>1, FormsNone, PartsFacts DEF ShowsItsOwn, Forms!Acts, Forms!Show, Forms!Send, Forms!Waiting
<1> QED  BY <1>1, <1>2, <1>3, <1>4

LEMMA FormsDiffSnapshot ==
  ASSUME FormsInv, Patient, NEW r \in Slot, NEW c \in Item, Forms!DiffSnapshot(r, c)
  PROVE  FormsInv'
<1> USE DEF FormsInv, Forms!TypeOK, Forms!DiffSnapshot
<1>1. /\ requests' \in [Slot -> Forms!Request \cup {None}]
      /\ requests'[r] = [ask |-> "diff", for |-> c, opening |-> opening]
      /\ requests'[r] # None
      /\ \A q \in Slot \ {r} :
           /\ requests'[q] = requests[q]
           /\ kind \notin {"policy", "pairing"} => requests'[q] = None
      /\ OneRequest'
  <2>1. "diff" \in Forms!Ask /\ c \in Forms!Subject
    BY DEF Forms!Ask, Forms!Subject
  <2>2. kind \in {"policy", "pairing"} \/ ~Forms!Waiting
    BY DEF Patient, Forms!Acts
  <2>3. Forms!Sending(r, "diff", c) /\ requests[r] = None /\ kind' = kind
    BY DEF Forms!Send
  <2> QED  BY <2>1, <2>2, <2>3, FormsSent
<1>2. Forms!TypeOK'
  BY <1>1, FormsNone DEF Forms!Acts, Forms!Subject, Forms!Show
<1>3. \A q \in Slot : RequestOK(q)'
  <2>1. RequestOK(r)'
    BY <1>1, FormsNone DEF RequestOK, AsksOf, Forms!Acts, Forms!Subject
  <2>2. ASSUME NEW q \in Slot \ {r} PROVE RequestOK(q)'
    BY <1>1, <2>2, FormsNone DEF RequestOK, Forms!Acts, AsksOf
  <2> QED  BY <2>1, <2>2
<1>4. ShowsItsOwn'
  BY <1>1, FormsNone, PartsFacts DEF ShowsItsOwn, Forms!Acts, Forms!Show, Forms!Send, Forms!Waiting
<1> QED  BY <1>1, <1>2, <1>3, <1>4

LEMMA FormsRevertSnapshot ==
  ASSUME FormsInv, Patient, NEW r \in Slot, NEW c \in Item, Forms!RevertSnapshot(r, c)
  PROVE  FormsInv'
<1> USE DEF FormsInv, Forms!TypeOK, Forms!RevertSnapshot
<1>1. /\ requests' \in [Slot -> Forms!Request \cup {None}]
      /\ requests'[r] = [ask |-> "revert", for |-> c, opening |-> opening]
      /\ requests'[r] # None
      /\ \A q \in Slot \ {r} :
           /\ requests'[q] = requests[q]
           /\ kind \notin {"policy", "pairing"} => requests'[q] = None
      /\ OneRequest'
  <2>1. "revert" \in Forms!Ask /\ c \in Forms!Subject
    BY DEF Forms!Ask, Forms!Subject
  <2>2. kind \in {"policy", "pairing"} \/ ~Forms!Waiting
    BY DEF Patient, Forms!Acts
  <2>3. Forms!Sending(r, "revert", c) /\ requests[r] = None /\ kind' = kind
    BY DEF Forms!Send
  <2> QED  BY <2>1, <2>2, <2>3, FormsSent
<1>2. Forms!TypeOK'
  BY <1>1, FormsNone DEF Forms!Acts, Forms!Subject, Forms!Show
<1>3. \A q \in Slot : RequestOK(q)'
  <2>1. RequestOK(r)'
    BY <1>1, FormsNone DEF RequestOK, AsksOf, Forms!Acts, Forms!Subject
  <2>2. ASSUME NEW q \in Slot \ {r} PROVE RequestOK(q)'
    BY <1>1, <2>2, FormsNone DEF RequestOK, Forms!Acts, AsksOf
  <2> QED  BY <2>1, <2>2
<1>4. ShowsItsOwn'
  BY <1>1, FormsNone, PartsFacts DEF ShowsItsOwn, Forms!Acts, Forms!Show, Forms!Send, Forms!Waiting
<1> QED  BY <1>1, <1>2, <1>3, <1>4

LEMMA FormsTestPersona ==
  ASSUME FormsInv, Patient, NEW r \in Slot, NEW c \in Item, Forms!TestPersona(r, c)
  PROVE  FormsInv'
<1> USE DEF FormsInv, Forms!TypeOK, Forms!TestPersona
<1>1. /\ requests' \in [Slot -> Forms!Request \cup {None}]
      /\ requests'[r] = [ask |-> "persona", for |-> c, opening |-> opening]
      /\ requests'[r] # None
      /\ \A q \in Slot \ {r} :
           /\ requests'[q] = requests[q]
           /\ kind \notin {"policy", "pairing"} => requests'[q] = None
      /\ OneRequest'
  <2>1. "persona" \in Forms!Ask /\ c \in Forms!Subject
    BY DEF Forms!Ask, Forms!Subject
  <2>2. kind \in {"policy", "pairing"} \/ ~Forms!Waiting
    BY DEF Patient, Forms!Acts
  <2>3. Forms!Sending(r, "persona", c) /\ requests[r] = None /\ kind' = kind
    BY DEF Forms!Send
  <2> QED  BY <2>1, <2>2, <2>3, FormsSent
<1>2. Forms!TypeOK'
  BY <1>1, FormsNone DEF Forms!Acts, Forms!Subject, Forms!Show
<1>3. \A q \in Slot : RequestOK(q)'
  <2>1. RequestOK(r)'
    BY <1>1, FormsNone DEF RequestOK, AsksOf, Forms!Acts, Forms!Subject
  <2>2. ASSUME NEW q \in Slot \ {r} PROVE RequestOK(q)'
    BY <1>1, <2>2, FormsNone DEF RequestOK, Forms!Acts, AsksOf
  <2> QED  BY <2>1, <2>2
<1>4. ShowsItsOwn'
  BY <1>1, FormsNone, PartsFacts DEF ShowsItsOwn, Forms!Acts, Forms!Show, Forms!Send, Forms!Waiting
<1> QED  BY <1>1, <1>2, <1>3, <1>4

LEMMA FormsConfirmTest ==
  ASSUME FormsInv, Patient, NEW r \in Slot, Forms!ConfirmTest(r)
  PROVE  FormsInv'
<1> USE DEF FormsInv, Forms!TypeOK, Forms!ConfirmTest
<1>1. /\ requests' \in [Slot -> Forms!Request \cup {None}]
      /\ requests'[r] = [ask |-> "test", for |-> subject, opening |-> opening]
      /\ requests'[r] # None
      /\ \A q \in Slot \ {r} :
           /\ requests'[q] = requests[q]
           /\ kind \notin {"policy", "pairing"} => requests'[q] = None
      /\ OneRequest'
  <2>1. "test" \in Forms!Ask /\ subject \in Forms!Subject
    BY DEF Forms!Ask, Forms!Subject
  <2>2. kind \in {"policy", "pairing"} \/ ~Forms!Waiting
    BY DEF Patient, Forms!Acts
  <2>3. Forms!Sending(r, "test", subject) /\ requests[r] = None /\ kind' = kind
    BY DEF Forms!Send
  <2> QED  BY <2>1, <2>2, <2>3, FormsSent
<1>2. Forms!TypeOK'
  BY <1>1, FormsNone DEF Forms!Acts, Forms!Subject, Forms!Show
<1>3. \A q \in Slot : RequestOK(q)'
  <2>1. RequestOK(r)'
    BY <1>1, FormsNone DEF RequestOK, AsksOf, Forms!Acts, Forms!Subject
  <2>2. ASSUME NEW q \in Slot \ {r} PROVE RequestOK(q)'
    BY <1>1, <2>2, FormsNone DEF RequestOK, Forms!Acts, AsksOf
  <2> QED  BY <2>1, <2>2
<1>4. ShowsItsOwn'
  BY <1>1, FormsNone, PartsFacts DEF ShowsItsOwn, Forms!Acts, Forms!Show, Forms!Send, Forms!Waiting
<1> QED  BY <1>1, <1>2, <1>3, <1>4

LEMMA FormsSave ==
  ASSUME FormsInv, Patient, NEW r \in Slot, Forms!Save(r)
  PROVE  FormsInv'
<1> USE DEF FormsInv, Forms!TypeOK, Forms!Save
<1>1. /\ requests' \in [Slot -> Forms!Request \cup {None}]
      /\ requests'[r] = [ask |-> "save", for |-> subject, opening |-> opening]
      /\ requests'[r] # None
      /\ \A q \in Slot \ {r} :
           /\ requests'[q] = requests[q]
           /\ kind \notin {"policy", "pairing"} => requests'[q] = None
      /\ OneRequest'
  <2>1. "save" \in Forms!Ask /\ subject \in Forms!Subject
    BY DEF Forms!Ask, Forms!Subject
  <2>2. kind \in {"policy", "pairing"} \/ ~Forms!Waiting
    BY DEF Patient, Forms!Acts
  <2>3. Forms!Sending(r, "save", subject) /\ requests[r] = None /\ kind' = kind
    BY DEF Forms!Send
  <2> QED  BY <2>1, <2>2, <2>3, FormsSent
<1>2. Forms!TypeOK'
  BY <1>1, FormsNone DEF Forms!Acts, Forms!Subject, Forms!Show
<1>3. \A q \in Slot : RequestOK(q)'
  <2>1. RequestOK(r)'
    BY <1>1, FormsNone DEF RequestOK, AsksOf, Forms!Acts, Forms!Subject, Forms!Editor
  <2>2. ASSUME NEW q \in Slot \ {r} PROVE RequestOK(q)'
    BY <1>1, <2>2, FormsNone DEF RequestOK, Forms!Acts, AsksOf
  <2> QED  BY <2>1, <2>2
<1>4. ShowsItsOwn'
  BY <1>1, FormsNone, PartsFacts DEF ShowsItsOwn, Forms!Acts, Forms!Show, Forms!Send, Forms!Waiting
<1> QED  BY <1>1, <1>2, <1>3, <1>4

LEMMA FormsClientCame ==
  ASSUME FormsInv, NEW r \in Slot, Forms!ClientCame(r)
  PROVE  FormsInv'
<1> USE DEF FormsInv, Forms!TypeOK, Forms!ClientCame
<1>1. /\ requests' \in [Slot -> Forms!Request \cup {None}]
      /\ requests[r] \in Forms!Request
      /\ requests'[r] = [requests[r] EXCEPT !.ask = "password"] /\ requests'[r] # None
      /\ \A q \in Slot \ {r} :
           /\ requests'[q] = requests[q]
           /\ kind \notin {"policy", "pairing"} => requests'[q] = None
      /\ OneRequest'
  <2>1. requests[r] # None /\ kind' = kind /\ Forms!Then(r, "password")
    BY DEF Forms!Asked
  <2> QED  BY <2>1, FormsWent, FormsNone DEF Forms!Ask
<1>2. RequestOK(r) /\ requests[r] # None
  BY DEF Forms!Asked
<1>3. Forms!TypeOK'
  BY <1>1, <1>2, FormsNone DEF Forms!Asked, Forms!Subject, Forms!Show, Forms!Request, RequestOK, AsksOf, Forms!Kind
<1>4. \A q \in Slot : RequestOK(q)'
  <2>1. RequestOK(r)'
    BY <1>1, <1>2, FormsNone, PartFacts DEF RequestOK, AsksOf, Forms!Asked, Forms!Request, Forms!Show
  <2>2. ASSUME NEW q \in Slot \ {r} PROVE RequestOK(q)'
    BY <1>1, <1>2, <2>2, FormsNone DEF RequestOK, Forms!Asked, AsksOf
  <2> QED  BY <2>1, <2>2
<1>5. ShowsItsOwn'
  BY <1>1, <1>2, FormsNone, PartsFacts, PartFacts DEF ShowsItsOwn, Forms!Show, Forms!Asked, RequestOK, AsksOf, Forms!Kind
<1> QED  BY <1>1, <1>3, <1>4, <1>5

LEMMA FormsPasswordCame ==
  ASSUME FormsInv, NEW r \in Slot, Forms!PasswordCame(r)
  PROVE  FormsInv'
<1> USE DEF FormsInv, Forms!TypeOK, Forms!PasswordCame
<1>1. /\ requests' \in [Slot -> Forms!Request \cup {None}]
      /\ requests[r] \in Forms!Request
      /\ requests'[r] = None
      /\ \A q \in Slot \ {r} :
           /\ requests'[q] = requests[q]
           /\ kind \notin {"policy", "pairing"} => requests'[q] = None
      /\ OneRequest'
  <2>1. requests[r] # None /\ kind' = kind /\ Forms!Over(r)
    BY DEF Forms!Asked
  <2> QED  BY <2>1, FormsOver DEF Forms!Ask
<1>2. RequestOK(r) /\ requests[r] # None
  BY DEF Forms!Asked
<1>3. Forms!TypeOK'
  BY <1>1, <1>2, FormsNone DEF Forms!Asked, Forms!Subject, Forms!Show, Forms!Request, RequestOK, AsksOf, Forms!Kind
<1>4. \A q \in Slot : RequestOK(q)'
  <2>1. RequestOK(r)'
    BY <1>1, <1>2, FormsNone DEF RequestOK, AsksOf, Forms!Asked, Forms!Request, Forms!Show
  <2>2. ASSUME NEW q \in Slot \ {r} PROVE RequestOK(q)'
    BY <1>1, <1>2, <2>2, FormsNone DEF RequestOK, Forms!Asked, AsksOf
  <2> QED  BY <2>1, <2>2
<1>5. ShowsItsOwn'
  BY <1>1, <1>2, FormsNone, PartsFacts, PartFacts DEF ShowsItsOwn, Forms!Show, Forms!Asked, RequestOK, AsksOf, Forms!Kind
<1> QED  BY <1>1, <1>3, <1>4, <1>5

LEMMA FormsPageCame ==
  ASSUME FormsInv, NEW r \in Slot, Forms!PageCame(r)
  PROVE  FormsInv'
<1> USE DEF FormsInv, Forms!TypeOK, Forms!PageCame
<1>1. /\ requests' \in [Slot -> Forms!Request \cup {None}]
      /\ requests[r] \in Forms!Request
      /\ requests'[r] = None
      /\ \A q \in Slot \ {r} :
           /\ requests'[q] = requests[q]
           /\ kind \notin {"policy", "pairing"} => requests'[q] = None
      /\ OneRequest'
  <2>1. requests[r] # None /\ kind' = kind /\ Forms!Over(r)
    BY DEF Forms!Asked
  <2> QED  BY <2>1, FormsOver DEF Forms!Ask
<1>2. RequestOK(r) /\ requests[r] # None
  BY DEF Forms!Asked
<1>3. Forms!TypeOK'
  BY <1>1, <1>2, FormsNone DEF Forms!Asked, Forms!Subject, Forms!Show, Forms!Request, RequestOK, AsksOf, Forms!Kind
<1>4. \A q \in Slot : RequestOK(q)'
  <2>1. RequestOK(r)'
    BY <1>1, <1>2, FormsNone DEF RequestOK, AsksOf, Forms!Asked, Forms!Request, Forms!Show
  <2>2. ASSUME NEW q \in Slot \ {r} PROVE RequestOK(q)'
    BY <1>1, <1>2, <2>2, FormsNone DEF RequestOK, Forms!Asked, AsksOf
  <2> QED  BY <2>1, <2>2
<1>5. ShowsItsOwn'
  BY <1>1, <1>2, FormsNone, PartsFacts, PartFacts DEF ShowsItsOwn, Forms!Show, Forms!Asked, RequestOK, AsksOf, Forms!Kind
<1> QED  BY <1>1, <1>3, <1>4, <1>5

LEMMA FormsAclCame ==
  ASSUME FormsInv, NEW r \in Slot, Forms!AclCame(r)
  PROVE  FormsInv'
<1> USE DEF FormsInv, Forms!TypeOK, Forms!AclCame
<1>1. /\ requests' \in [Slot -> Forms!Request \cup {None}]
      /\ requests[r] \in Forms!Request
      /\ requests'[r] = None
      /\ \A q \in Slot \ {r} :
           /\ requests'[q] = requests[q]
           /\ kind \notin {"policy", "pairing"} => requests'[q] = None
      /\ OneRequest'
  <2>1. requests[r] # None /\ kind' = kind /\ Forms!Over(r)
    BY DEF Forms!Asked
  <2> QED  BY <2>1, FormsOver DEF Forms!Ask
<1>2. RequestOK(r) /\ requests[r] # None
  BY DEF Forms!Asked
<1>3. Forms!TypeOK'
  BY <1>1, <1>2, FormsNone DEF Forms!Asked, Forms!Subject, Forms!Show, Forms!Request, RequestOK, AsksOf, Forms!Kind
<1>4. \A q \in Slot : RequestOK(q)'
  <2>1. RequestOK(r)'
    BY <1>1, <1>2, FormsNone DEF RequestOK, AsksOf, Forms!Asked, Forms!Request, Forms!Show
  <2>2. ASSUME NEW q \in Slot \ {r} PROVE RequestOK(q)'
    BY <1>1, <1>2, <2>2, FormsNone DEF RequestOK, Forms!Asked, AsksOf
  <2> QED  BY <2>1, <2>2
<1>5. ShowsItsOwn'
  BY <1>1, <1>2, FormsNone, PartsFacts, PartFacts DEF ShowsItsOwn, Forms!Show, Forms!Asked, RequestOK, AsksOf, Forms!Kind
<1> QED  BY <1>1, <1>3, <1>4, <1>5

LEMMA FormsPolicyCame ==
  ASSUME FormsInv, NEW r \in Slot, Forms!PolicyCame(r)
  PROVE  FormsInv'
<1> USE DEF FormsInv, Forms!TypeOK, Forms!PolicyCame
<1>1. /\ requests' \in [Slot -> Forms!Request \cup {None}]
      /\ requests[r] \in Forms!Request
      /\ requests'[r] = None
      /\ \A q \in Slot \ {r} :
           /\ requests'[q] = requests[q]
           /\ kind \notin {"policy", "pairing"} => requests'[q] = None
      /\ OneRequest'
  <2>1. requests[r] # None /\ kind' = kind /\ Forms!Over(r)
    BY DEF Forms!Asked
  <2> QED  BY <2>1, FormsOver DEF Forms!Ask
<1>2. RequestOK(r) /\ requests[r] # None
  BY DEF Forms!Asked
<1>3. Forms!TypeOK'
  BY <1>1, <1>2, FormsNone DEF Forms!Asked, Forms!Subject, Forms!Show, Forms!Request, RequestOK, AsksOf, Forms!Kind
<1>4. \A q \in Slot : RequestOK(q)'
  <2>1. RequestOK(r)'
    BY <1>1, <1>2, FormsNone DEF RequestOK, AsksOf, Forms!Asked, Forms!Request, Forms!Show
  <2>2. ASSUME NEW q \in Slot \ {r} PROVE RequestOK(q)'
    BY <1>1, <1>2, <2>2, FormsNone DEF RequestOK, Forms!Asked, AsksOf
  <2> QED  BY <2>1, <2>2
<1>5. ShowsItsOwn'
  BY <1>1, <1>2, FormsNone, PartsFacts, PartFacts DEF ShowsItsOwn, Forms!Show, Forms!Asked, RequestOK, AsksOf, Forms!Kind
<1> QED  BY <1>1, <1>3, <1>4, <1>5

LEMMA FormsDiffCame ==
  ASSUME FormsInv, NEW r \in Slot, Forms!DiffCame(r)
  PROVE  FormsInv'
<1> USE DEF FormsInv, Forms!TypeOK, Forms!DiffCame
<1>1. /\ requests' \in [Slot -> Forms!Request \cup {None}]
      /\ requests[r] \in Forms!Request
      /\ requests'[r] = None
      /\ \A q \in Slot \ {r} :
           /\ requests'[q] = requests[q]
           /\ kind \notin {"policy", "pairing"} => requests'[q] = None
      /\ OneRequest'
  <2>1. requests[r] # None /\ kind' = kind /\ Forms!Over(r)
    BY DEF Forms!Asked
  <2> QED  BY <2>1, FormsOver DEF Forms!Ask
<1>2. RequestOK(r) /\ requests[r] # None
  BY DEF Forms!Asked
<1>3. Forms!TypeOK'
  BY <1>1, <1>2, FormsNone DEF Forms!Asked, Forms!Subject, Forms!Show, Forms!Request, RequestOK, AsksOf, Forms!Kind
<1>4. \A q \in Slot : RequestOK(q)'
  <2>1. RequestOK(r)'
    BY <1>1, <1>2, FormsNone DEF RequestOK, AsksOf, Forms!Asked, Forms!Request, Forms!Show
  <2>2. ASSUME NEW q \in Slot \ {r} PROVE RequestOK(q)'
    BY <1>1, <1>2, <2>2, FormsNone DEF RequestOK, Forms!Asked, AsksOf
  <2> QED  BY <2>1, <2>2
<1>5. ShowsItsOwn'
  BY <1>1, <1>2, FormsNone, PartsFacts, PartFacts DEF ShowsItsOwn, Forms!Show, Forms!Asked, RequestOK, AsksOf, Forms!Kind
<1> QED  BY <1>1, <1>3, <1>4, <1>5

LEMMA FormsReverted ==
  ASSUME FormsInv, NEW r \in Slot, Forms!Reverted(r)
  PROVE  FormsInv'
<1> USE DEF FormsInv, Forms!TypeOK, Forms!Reverted
<1>1. /\ requests' \in [Slot -> Forms!Request \cup {None}]
      /\ requests[r] \in Forms!Request
      /\ requests'[r] = None
      /\ \A q \in Slot \ {r} :
           /\ requests'[q] = requests[q]
           /\ kind \notin {"policy", "pairing"} => requests'[q] = None
      /\ OneRequest'
  <2>1. requests[r] # None /\ kind' = kind /\ Forms!Over(r)
    BY DEF Forms!Asked
  <2> QED  BY <2>1, FormsOver DEF Forms!Ask
<1>2. RequestOK(r) /\ requests[r] # None
  BY DEF Forms!Asked
<1>3. Forms!TypeOK'
  BY <1>1, <1>2, FormsNone DEF Forms!Asked, Forms!Subject, Forms!Show, Forms!Request, RequestOK, AsksOf, Forms!Kind
<1>4. \A q \in Slot : RequestOK(q)'
  <2>1. RequestOK(r)'
    BY <1>1, <1>2, FormsNone DEF RequestOK, AsksOf, Forms!Asked, Forms!Request, Forms!Show
  <2>2. ASSUME NEW q \in Slot \ {r} PROVE RequestOK(q)'
    BY <1>1, <1>2, <2>2, FormsNone DEF RequestOK, Forms!Asked, AsksOf
  <2> QED  BY <2>1, <2>2
<1>5. ShowsItsOwn'
  BY <1>1, <1>2, FormsNone, PartsFacts, PartFacts DEF ShowsItsOwn, Forms!Show, Forms!Asked, RequestOK, AsksOf, Forms!Kind
<1> QED  BY <1>1, <1>3, <1>4, <1>5

LEMMA FormsPersonaCame ==
  ASSUME FormsInv, NEW r \in Slot, Forms!PersonaCame(r)
  PROVE  FormsInv'
<1> USE DEF FormsInv, Forms!TypeOK, Forms!PersonaCame
<1>1. /\ requests' \in [Slot -> Forms!Request \cup {None}]
      /\ requests[r] \in Forms!Request
      /\ requests'[r] = None
      /\ \A q \in Slot \ {r} :
           /\ requests'[q] = requests[q]
           /\ kind \notin {"policy", "pairing"} => requests'[q] = None
      /\ OneRequest'
  <2>1. requests[r] # None /\ kind' = kind /\ Forms!Over(r)
    BY DEF Forms!Asked
  <2> QED  BY <2>1, FormsOver DEF Forms!Ask
<1>2. RequestOK(r) /\ requests[r] # None
  BY DEF Forms!Asked
<1>3. Forms!TypeOK'
  BY <1>1, <1>2, FormsNone DEF Forms!Asked, Forms!Subject, Forms!Show, Forms!Request, RequestOK, AsksOf, Forms!Kind
<1>4. \A q \in Slot : RequestOK(q)'
  <2>1. RequestOK(r)'
    BY <1>1, <1>2, FormsNone DEF RequestOK, AsksOf, Forms!Asked, Forms!Request, Forms!Show
  <2>2. ASSUME NEW q \in Slot \ {r} PROVE RequestOK(q)'
    BY <1>1, <1>2, <2>2, FormsNone DEF RequestOK, Forms!Asked, AsksOf
  <2> QED  BY <2>1, <2>2
<1>5. ShowsItsOwn'
  BY <1>1, <1>2, FormsNone, PartsFacts, PartFacts DEF ShowsItsOwn, Forms!Show, Forms!Asked, RequestOK, AsksOf, Forms!Kind
<1> QED  BY <1>1, <1>3, <1>4, <1>5

LEMMA FormsVerdictCame ==
  ASSUME FormsInv, NEW r \in Slot, Forms!VerdictCame(r)
  PROVE  FormsInv'
<1> USE DEF FormsInv, Forms!TypeOK, Forms!VerdictCame
<1>1. /\ requests' \in [Slot -> Forms!Request \cup {None}]
      /\ requests[r] \in Forms!Request
      /\ requests'[r] = None
      /\ \A q \in Slot \ {r} :
           /\ requests'[q] = requests[q]
           /\ kind \notin {"policy", "pairing"} => requests'[q] = None
      /\ OneRequest'
  <2>1. requests[r] # None /\ kind' = kind /\ Forms!Over(r)
    BY DEF Forms!Asked
  <2> QED  BY <2>1, FormsOver DEF Forms!Ask
<1>2. RequestOK(r) /\ requests[r] # None
  BY DEF Forms!Asked
<1>3. Forms!TypeOK'
  BY <1>1, <1>2, FormsNone DEF Forms!Asked, Forms!Subject, Forms!Show, Forms!Request, RequestOK, AsksOf, Forms!Kind
<1>4. \A q \in Slot : RequestOK(q)'
  <2>1. RequestOK(r)'
    BY <1>1, <1>2, FormsNone DEF RequestOK, AsksOf, Forms!Asked, Forms!Request, Forms!Show
  <2>2. ASSUME NEW q \in Slot \ {r} PROVE RequestOK(q)'
    BY <1>1, <1>2, <2>2, FormsNone DEF RequestOK, Forms!Asked, AsksOf
  <2> QED  BY <2>1, <2>2
<1>5. ShowsItsOwn'
  BY <1>1, <1>2, FormsNone, PartsFacts, PartFacts DEF ShowsItsOwn, Forms!Show, Forms!Asked, RequestOK, AsksOf, Forms!Kind
<1> QED  BY <1>1, <1>3, <1>4, <1>5

LEMMA FormsSaved ==
  ASSUME FormsInv, NEW r \in Slot, Forms!Saved(r)
  PROVE  FormsInv'
<1> USE DEF FormsInv, Forms!TypeOK, Forms!Saved
<1>1. /\ requests' \in [Slot -> Forms!Request \cup {None}]
      /\ requests[r] \in Forms!Request
      /\ requests'[r] = None
      /\ \A q \in Slot \ {r} :
           /\ requests'[q] = requests[q]
           /\ kind \notin {"policy", "pairing"} => requests'[q] = None
      /\ OneRequest'
  <2>1. requests[r] # None /\ kind' = kind /\ Forms!Over(r)
    BY DEF Forms!Asked
  <2> QED  BY <2>1, FormsOver DEF Forms!Ask
<1>2. RequestOK(r) /\ requests[r] # None
  BY DEF Forms!Asked
<1>3. Forms!TypeOK'
  BY <1>1, <1>2, FormsNone DEF Forms!Asked, Forms!Subject, Forms!Show, Forms!Request, RequestOK, AsksOf, Forms!Kind
<1>4. \A q \in Slot : RequestOK(q)'
  <2>1. RequestOK(r)'
    BY <1>1, <1>2, FormsNone DEF RequestOK, AsksOf, Forms!Asked, Forms!Request, Forms!Show
  <2>2. ASSUME NEW q \in Slot \ {r} PROVE RequestOK(q)'
    BY <1>1, <1>2, <2>2, FormsNone DEF RequestOK, Forms!Asked, AsksOf
  <2> QED  BY <2>1, <2>2
<1>5. ShowsItsOwn'
  BY <1>1, <1>2, FormsNone, PartsFacts, PartFacts DEF ShowsItsOwn, Forms!Show, Forms!Asked, RequestOK, AsksOf, Forms!Kind
<1> QED  BY <1>1, <1>3, <1>4, <1>5

LEMMA FormsFailed ==
  ASSUME FormsInv, NEW r \in Slot, Forms!Failed(r)
  PROVE  FormsInv'
<1> USE DEF FormsInv, Forms!TypeOK, Forms!Failed
<1>1. /\ requests' \in [Slot -> Forms!Request \cup {None}]
      /\ requests[r] \in Forms!Request
      /\ requests'[r] = None
      /\ \A q \in Slot \ {r} :
           /\ requests'[q] = requests[q]
           /\ kind \notin {"policy", "pairing"} => requests'[q] = None
      /\ OneRequest'
  <2>1. requests[r] # None /\ kind' = kind /\ Forms!Over(r)
    BY DEF Forms!Asked
  <2> QED  BY <2>1, FormsOver DEF Forms!Ask
<1>2. RequestOK(r) /\ requests[r] # None
  BY DEF Forms!Asked
<1>3. Forms!TypeOK'
  BY <1>1, <1>2, FormsNone DEF Forms!Asked, Forms!Subject, Forms!Show, Forms!Request, RequestOK, AsksOf, Forms!Kind
<1>4. \A q \in Slot : RequestOK(q)'
  <2>1. RequestOK(r)'
    BY <1>1, <1>2, FormsNone DEF RequestOK, AsksOf, Forms!Asked, Forms!Request, Forms!Show
  <2>2. ASSUME NEW q \in Slot \ {r} PROVE RequestOK(q)'
    BY <1>1, <1>2, <2>2, FormsNone DEF RequestOK, Forms!Asked, AsksOf
  <2> QED  BY <2>1, <2>2
<1>5. ShowsItsOwn'
  BY <1>1, <1>2, FormsNone, PartsFacts, PartFacts DEF ShowsItsOwn, Forms!Show, Forms!Asked, RequestOK, AsksOf, Forms!Kind
<1> QED  BY <1>1, <1>3, <1>4, <1>5

LEMMA FormsType ==
  ASSUME FormsInv, Patient, NEW p \in Forms!Part, Forms!Type(p)
  PROVE  FormsInv'
<1> USE DEF FormsInv, Forms!TypeOK, Forms!Type
<1>1. Forms!TypeOK'
  BY FormsNone, PartFacts DEF Forms!Show, Forms!Subject, Forms!Acts
<1>2. \A q \in Slot : RequestOK(q)'
  BY FormsNone DEF RequestOK, AsksOf, Forms!Acts, Forms!Waiting, Patient, Forms!Show, Forms!Editor
<1>3. OneRequest'
  BY DEF OneRequest
<1>4. ShowsItsOwn'
  BY FormsNone, PartsFacts, PartFacts DEF ShowsItsOwn, Forms!Show, Forms!Editor
<1> QED  BY <1>1, <1>2, <1>3, <1>4

LEMMA FormsCloseClient ==
  ASSUME FormsInv, Patient, Forms!CloseClient
  PROVE  FormsInv'
<1> USE DEF FormsInv, Forms!TypeOK, Forms!CloseClient
<1>1. Forms!TypeOK'
  BY FormsNone, PartFacts DEF Forms!Show, Forms!Subject, Forms!Acts
<1>2. \A q \in Slot : RequestOK(q)'
  BY FormsNone DEF RequestOK, AsksOf, Forms!Acts, Forms!Waiting, Patient, Forms!Show
<1>3. OneRequest'
  BY DEF OneRequest
<1>4. ShowsItsOwn'
  BY FormsNone, PartsFacts, PartFacts DEF ShowsItsOwn, Forms!Show
<1> QED  BY <1>1, <1>2, <1>3, <1>4

LEMMA FormsPairClient ==
  ASSUME FormsInv, Patient, NEW c \in Item, Forms!PairClient(c)
  PROVE  FormsInv'
<1> USE DEF FormsInv, Forms!TypeOK, Forms!PairClient
<1>1. Forms!TypeOK'
  BY FormsNone, PartFacts DEF Forms!Show, Forms!Subject, Forms!Acts
<1>2. \A q \in Slot : RequestOK(q)'
  BY FormsNone DEF RequestOK, AsksOf, Forms!Acts, Forms!Waiting, Patient, Forms!Show
<1>3. OneRequest'
  BY DEF OneRequest
<1>4. ShowsItsOwn'
  BY FormsNone, PartsFacts, PartFacts DEF ShowsItsOwn, Forms!Show
<1> QED  BY <1>1, <1>2, <1>3, <1>4

LEMMA FormsClosePair ==
  ASSUME FormsInv, Patient, Forms!ClosePair
  PROVE  FormsInv'
<1> USE DEF FormsInv, Forms!TypeOK, Forms!ClosePair
<1>1. Forms!TypeOK'
  BY FormsNone, PartFacts DEF Forms!Show, Forms!Subject, Forms!Acts
<1>2. \A q \in Slot : RequestOK(q)'
  <2>1. kind = "pairing" /\ subject' = None
    BY DEF Forms!Acts, Forms!Waiting, Patient
  <2>2. ASSUME NEW q \in Slot PROVE RequestOK(q)'
    BY <2>1, FormsNone DEF RequestOK, AsksOf
  <2> QED  BY <2>2
<1>3. OneRequest'
  BY DEF OneRequest
<1>4. ShowsItsOwn'
  BY FormsNone, PartsFacts, PartFacts DEF ShowsItsOwn, Forms!Show
<1> QED  BY <1>1, <1>2, <1>3, <1>4

LEMMA FormsCloseTest ==
  ASSUME FormsInv, Patient, Forms!CloseTest
  PROVE  FormsInv'
<1> USE DEF FormsInv, Forms!TypeOK, Forms!CloseTest
<1>1. Forms!TypeOK'
  BY FormsNone, PartFacts DEF Forms!Show, Forms!Subject, Forms!Acts
<1>2. \A q \in Slot : RequestOK(q)'
  <2>1. kind = "test" /\ \A q \in Slot : requests[q] = None
    BY DEF Forms!Acts, Forms!Waiting, Patient
  <2>2. ASSUME NEW q \in Slot PROVE RequestOK(q)'
    BY <2>1, FormsNone DEF RequestOK, AsksOf
  <2> QED  BY <2>2
<1>3. OneRequest'
  BY DEF OneRequest
<1>4. ShowsItsOwn'
  BY FormsNone, PartsFacts, PartFacts DEF ShowsItsOwn, Forms!Show
<1> QED  BY <1>1, <1>2, <1>3, <1>4

LEMMA FormsLoadClientACL ==
  ASSUME FormsInv, Patient, NEW r \in Slot, NEW c \in Item \cup {None},
         Forms!LoadClientACL(r, c)
  PROVE  FormsInv'
<1> USE DEF FormsInv, Forms!TypeOK, Forms!LoadClientACL
<1>1. kind = "acl" /\ \A q \in Slot : requests[q] = None
  BY DEF Forms!Acts, Forms!Waiting, Patient
<1>2. CASE c = None
  <2>1. Forms!TypeOK' /\ (\A q \in Slot : RequestOK(q)') /\ OneRequest' /\ ShowsItsOwn'
    BY <1>1, <1>2, FormsNone DEF RequestOK, OneRequest, ShowsItsOwn
  <2> QED  BY <2>1
<1>3. CASE c # None
  <2>1. /\ requests' \in [Slot -> Forms!Request \cup {None}]
        /\ requests'[r] = [ask |-> "acl", for |-> c, opening |-> opening]
        /\ requests'[r] # None
        /\ \A q \in Slot \ {r} : requests'[q] = None
        /\ OneRequest'
    <3>1. "acl" \in Forms!Ask /\ c \in Forms!Subject
      BY <1>3 DEF Forms!Ask, Forms!Subject
    <3>2. ~Forms!Waiting
      BY <1>1 DEF Forms!Waiting
    <3>3. Forms!Sending(r, "acl", c) /\ requests[r] = None /\ kind' = kind
      BY <1>3 DEF Forms!Send
    <3> QED  BY <1>1, <3>1, <3>2, <3>3, FormsSent
  <2>2. Forms!TypeOK'
    BY <1>1, <1>3, <2>1, FormsNone DEF Forms!Send
  <2>3. \A q \in Slot : RequestOK(q)'
    BY <1>1, <1>3, <2>1, FormsNone DEF RequestOK, AsksOf, Forms!Send
  <2>4. ShowsItsOwn'
    BY <2>1 DEF ShowsItsOwn
  <2> QED  BY <2>1, <2>2, <2>3, <2>4
<1> QED  BY <1>2, <1>3

LEMMA FormsTemplateApplied ==
  ASSUME FormsInv, NEW r \in Slot, Forms!TemplateApplied(r)
  PROVE  FormsInv'
<1> USE DEF FormsInv, Forms!TypeOK, Forms!TemplateApplied
<1>1. kind = "acl" /\ requests[r] # None
  BY DEF Forms!Asked, RequestOK, AsksOf
<1>2. CASE choice = None
  <2>1. /\ requests' \in [Slot -> Forms!Request \cup {None}]
        /\ \A q \in Slot : requests'[q] = None
        /\ OneRequest'
    BY <1>1, <1>2, FormsOver
  <2> QED  BY <1>1, <1>2, <2>1, FormsNone DEF RequestOK, ShowsItsOwn
<1>3. CASE choice # None
  <2> DEFINE new == [ask |-> "acl", for |-> choice, opening |-> opening]
  <2>1. requests' = [requests EXCEPT ![r] = new]
    BY <1>3 DEF Forms!Sending
  <2>2. new \in Forms!Request
    BY DEF Forms!Request, Forms!Ask, Forms!Subject
  <2>3. \A q \in Slot \ {r} : requests[q] = None
    BY <1>1 DEF OneRequest
  <2>4. new # None
    BY <2>2, FormsNone
  <2> HIDE DEF new
  <2>5. /\ requests' \in [Slot -> Forms!Request \cup {None}]
        /\ requests'[r] = new
        /\ \A q \in Slot \ {r} : requests'[q] = None
    BY <2>1, <2>2, <2>3
  <2>6. Forms!TypeOK'
    BY <1>1, <1>3, <2>5, FormsNone
  <2>7. \A q \in Slot : RequestOK(q)'
    BY <1>1, <1>3, <2>5, FormsNone DEF RequestOK, AsksOf, new
  <2>8. OneRequest'
    BY <2>5 DEF OneRequest
  <2>9. ShowsItsOwn'
    BY <2>4, <2>5 DEF ShowsItsOwn, new
  <2> QED  BY <2>6, <2>7, <2>8, <2>9
<1> QED  BY <1>2, <1>3

LEMMA FormsPairingCame ==
  ASSUME FormsInv, NEW r \in Slot, Forms!PairingCame(r)
  PROVE  FormsInv'
<1> USE DEF FormsInv, Forms!TypeOK, Forms!PairingCame
<1>1. /\ kind = "pairing" /\ requests[r] # None /\ requests[r] \in Forms!Request
      /\ Forms!Current(r) => requests[r].for = subject /\ subject # None
  BY DEF Forms!Asked, RequestOK, AsksOf, Forms!Current
<1>2. CASE ~Forms!Current(r)
  <2>1. /\ requests' \in [Slot -> Forms!Request \cup {None}]
        /\ requests'[r] = None
        /\ \A q \in Slot \ {r} : requests'[q] = requests[q]
        /\ OneRequest'
    BY <1>1, <1>2, FormsOver
  <2>2. Forms!TypeOK' /\ \A q \in Slot : RequestOK(q)'
    BY <1>1, <1>2, <2>1 DEF RequestOK, AsksOf
  <2>3. ShowsItsOwn'
    BY <1>1, <1>2, <2>1 DEF ShowsItsOwn, RequestOK, AsksOf
  <2> QED  BY <2>1, <2>2, <2>3
<1>3. CASE Forms!Current(r) /\ requests[r].ask # "image"
  <2> DEFINE next == IF requests[r].ask = "bundle" THEN "code" ELSE "image"
  <2>1. next \in {"code", "image"} /\ next \in Forms!Ask /\ Forms!Then(r, next)
    BY <1>3 DEF Forms!Ask
  <2> HIDE DEF next
  <2>2. /\ requests' \in [Slot -> Forms!Request \cup {None}]
        /\ requests'[r] = [requests[r] EXCEPT !.ask = next]
        /\ requests'[r] # None
        /\ \A q \in Slot \ {r} : requests'[q] = requests[q]
        /\ OneRequest'
    BY <1>1, <2>1, FormsWent
  <2>3. Forms!TypeOK'
    BY <1>1, <1>3, <2>2
  <2>4. \A q \in Slot : RequestOK(q)'
    <3>1. RequestOK(r)'
      BY <1>1, <1>3, <2>1, <2>2 DEF RequestOK, AsksOf, Forms!Request, Forms!Current
    <3>2. ASSUME NEW q \in Slot \ {r} PROVE RequestOK(q)'
      BY <1>1, <1>3, <2>2, <3>2 DEF RequestOK, AsksOf
    <3> QED  BY <3>1, <3>2
  <2>5. ShowsItsOwn'
    BY <1>1, <1>3, <2>1, <2>2 DEF ShowsItsOwn, RequestOK, AsksOf, Forms!Request
  <2> QED  BY <2>2, <2>3, <2>4, <2>5
<1>4. CASE Forms!Current(r) /\ requests[r].ask = "image"
  <2>1. /\ requests' \in [Slot -> Forms!Request \cup {None}]
        /\ requests'[r] = None
        /\ \A q \in Slot \ {r} : requests'[q] = requests[q]
        /\ OneRequest'
    BY <1>1, <1>4, FormsOver
  <2>2. /\ content' = [content EXCEPT !["bundle"] = subject, !["code"] = subject]
        /\ usable'
    BY <1>1, <1>4
  <2>3. Forms!TypeOK'
    BY <1>1, <1>4, <2>1, <2>2, PartFacts DEF Forms!Subject
  <2>4. \A q \in Slot : RequestOK(q)'
    BY <1>1, <1>4, <2>1 DEF RequestOK, AsksOf
  <2>5. ShowsItsOwn'
    BY <1>1, <1>4, <2>1, <2>2, PartsFacts, PartFacts DEF ShowsItsOwn
  <2> QED  BY <2>1, <2>3, <2>4, <2>5
<1> QED  BY <1>2, <1>3, <1>4

\* Every step of the forms keeps their invariant.
LEMMA FormsStep ==
  ASSUME FormsInv, Patient, Forms!Next
  PROVE  FormsInv'
<1>1. ASSUME NEW r \in Slot, Forms!Came(r) PROVE FormsInv'
  BY <1>1, FormsClientCame, FormsPasswordCame, FormsPageCame, FormsAclCame,
     FormsPolicyCame, FormsDiffCame, FormsReverted, FormsPersonaCame,
     FormsVerdictCame, FormsSaved, FormsTemplateApplied, FormsPairingCame
     DEF Forms!Came
<1>2. ASSUME NEW r \in Slot, Forms!Failed(r) PROVE FormsInv'
  BY <1>2, FormsFailed
<1>3. ASSUME NEW r \in Slot, NEW c \in Item,
             \/ Forms!EditClient(r, c) \/ Forms!DiffSnapshot(r, c)
             \/ Forms!RevertSnapshot(r, c) \/ Forms!TestPersona(r, c)
      PROVE  FormsInv'
  BY <1>3, FormsEditClient, FormsDiffSnapshot, FormsRevertSnapshot, FormsTestPersona
<1>4. ASSUME NEW r \in Slot, NEW c \in Item \cup {None}, Forms!LoadClientACL(r, c)
      PROVE  FormsInv'
  BY <1>4, FormsLoadClientACL
<1>5. ASSUME NEW r \in Slot,
             \/ Forms!LoadACLPage(r) \/ Forms!ApplyTemplate(r) \/ Forms!LoadPolicy(r)
             \/ Forms!GeneratePairing(r) \/ Forms!ConfirmTest(r) \/ Forms!Save(r)
      PROVE  FormsInv'
  BY <1>5, FormsLoadACLPage, FormsApplyTemplate, FormsLoadPolicy,
     FormsGeneratePairing, FormsConfirmTest, FormsSave
<1>6. ASSUME NEW c \in Item, Forms!PairClient(c) PROVE FormsInv'
  BY <1>6, FormsPairClient
<1>7. ASSUME NEW p \in Forms!Part, Forms!Type(p) PROVE FormsInv'
  BY <1>7, FormsType
<1>8. ASSUME Forms!CloseClient \/ Forms!ClosePair \/ Forms!CloseTest PROVE FormsInv'
  BY <1>8, FormsCloseClient, FormsClosePair, FormsCloseTest
<1> QED  BY <1>1, <1>2, <1>3, <1>4, <1>5, <1>6, <1>7, <1>8 DEF Forms!Next

LEMMA FormsBelong == ASSUME FormsInv, Patient PROVE Forms!UsableFormBelongs
<1> SUFFICES ASSUME usable, kind \in Hasty \/ ~Forms!Waiting
             PROVE  \A p \in Forms!Parts[kind] : content[p] \in {subject, "typed"}
  BY DEF Forms!UsableFormBelongs
<1>1. \A r \in Slot : requests[r] # None => requests[r].ask \notin {"acl", "diff"}
  BY DEF Patient, Forms!Waiting, FormsInv, RequestOK, AsksOf
<1> QED  BY <1>1 DEF FormsInv, ShowsItsOwn

-----------------------------------------------------------------------------
(* Database profiles (ProfileEditor).                                        *)

\* What is awaited fits the dialog that is up, and names what it changes.
AwaitedOK ==
  /\ Profiles!In("load") => window = "none"
  /\ Profiles!In("create") \/ Profiles!In("update") =>
       awaited.name \in Profile /\ awaited.content \in Profiles!Content
  /\ Profiles!In("delete") \/ Profiles!In("activate") => awaited.name \in Profile

\* A handler at work for the page does what the page awaits: an update will
\* write what the page sent, with the password that it read.
JobsOK ==
  /\ jobs["here"] # None =>
       awaited # None /\ awaited.do \in {"create", "update", "delete", "activate"}
  /\ \A w \in {"here", "elsewhere"} :
       jobs[w] # None /\ jobs[w].do = "use" => jobs[w].new # None
  /\ jobs["here"] # None /\ Profiles!In("update") =>
       /\ jobs["here"].do = "file" /\ jobs["here"].name = awaited.name
       /\ jobs["here"].old # None
       /\ jobs["here"].new = Profiles!Restored(awaited.content, jobs["here"].old)

\* The dialog of a profile shows that profile, and a verdict that is its own
\* unless a test of an earlier dialog was under way when it opened.
DialogOK ==
  /\ window # "edit" => tests.own = 0
  /\ window = "edit" =>
       /\ tests.earlier > 0 => mixed
       /\ status = {"success"} => tested \/ mixed
       /\ named # None => listed[named] # None
       /\ ~entered /\ named = None => password = Default
       /\ ~entered /\ named # None /\ listed[named].module = "redis" =>
            password = listed[named].password
  /\ window = "activate" => named # None

ProfilesInv == Profiles!TypeOK /\ AwaitedOK /\ JobsOK /\ DialogOK

LEMMA ProfilesNone ==
  /\ First \in Profile /\ None \notin Profile /\ None \notin Profiles!Module
  /\ None \notin Profiles!Content /\ None \notin Profiles!Awaited /\ None \notin Profiles!Job
  /\ Redacted # Default /\ Redacted \in Profiles!Password
  /\ Default \in Profiles!Password /\ Typed \subseteq Text
  /\ Kept \in [Profile -> Profiles!Content \cup {None}] /\ Kept[First] # None
  /\ Changes \in Nat /\ Tests \in Nat
BY EditorsAssumption DEF Profiles!Assumption, Profiles!Password

LEMMA ContentFacts ==
  /\ \A pw \in Profiles!Password : [module |-> "redis", password |-> pw] \in Profiles!Content
  /\ [module |-> "file", password |-> Default] \in Profiles!Content
  /\ \A c \in Profiles!Content :
       /\ c.module \in Profiles!Module /\ c.password \in Profiles!Password
       /\ c = [module |-> c.module, password |-> c.password]
       /\ c.module # "redis" => c.password = Default
BY ProfilesNone DEF Profiles!Content, Profiles!Module

LEMMA AwaitingFacts ==
  ASSUME NEW do \in Profiles!Kind,
         NEW n \in Profile \cup {None}, NEW c \in Profiles!Content \cup {None}
  PROVE  /\ Profiles!Awaiting(do, n, c) \in Profiles!Awaited
         /\ Profiles!Awaiting(do, n, c) # None
         /\ Profiles!Awaiting(do, n, c).do = do
         /\ Profiles!Awaiting(do, n, c).name = n
         /\ Profiles!Awaiting(do, n, c).content = c
<1>1. Profiles!Awaiting(do, n, c) \in Profiles!Awaited
  BY DEF Profiles!Awaiting, Profiles!Awaited
<1> QED  BY <1>1, ProfilesNone DEF Profiles!Awaiting

\* The profiles after they are ensured, and what the page is sent of them.
LEMMA EnsuredFacts ==
  ASSUME Profiles!TypeOK
  PROVE  /\ Profiles!Ensured \in [Profile -> Profiles!Content \cup {None}]
         /\ (\E n \in Profile : stored[n] # None) => Profiles!Ensured = stored
BY DEF Profiles!Ensured, Profiles!TypeOK

LEMMA ActiveFacts ==
  ASSUME NEW files
  PROVE  /\ Profiles!Active(files) \in Profile \cup {None}
         /\ (\E n \in Profile : files[n] = database) =>
              /\ Profiles!Active(files) \in Profile
              /\ files[Profiles!Active(files)] = database
BY DEF Profiles!Active

LEMMA RedactFacts ==
  ASSUME NEW c \in Profiles!Content \cup {None}
  PROVE  /\ Profiles!Redact(c) \in Profiles!Content \cup {None}
         /\ Profiles!Redact(c) = None <=> c = None
BY ContentFacts, ProfilesNone DEF Profiles!Redact

LEMMA RestoredFacts ==
  ASSUME NEW c \in Profiles!Content, NEW old \in Profiles!Content
  PROVE  /\ Profiles!Restored(c, old) \in Profiles!Content
         /\ c.password = Redacted /\ old.module = "redis" /\ old.password # Default =>
              Profiles!Restored(c, old).password = old.password
BY ContentFacts, ProfilesNone DEF Profiles!Restored

LEMMA CollectedFacts ==
  ASSUME Profiles!TypeOK, module # None
  PROVE  /\ Profiles!Collected \in Profiles!Content
         /\ module = "redis" => Profiles!Collected.password = password
BY ContentFacts, ProfilesNone DEF Profiles!Collected, Profiles!TypeOK, Profiles!Module

\* What a handler has read and checked when it begins.
LEMMA BeginFacts ==
  ASSUME Profiles!TypeOK, NEW w \in {"here", "elsewhere"}, NEW n \in Profile,
         NEW c \in Profiles!Content,
         \/ Profiles!Create(w, n, c) \/ Profiles!Update(w, n, c)
         \/ Profiles!Remove(w, n) \/ Profiles!Activate(w, n)
  PROVE  /\ stored' \in [Profile -> Profiles!Content \cup {None}]
         /\ database' = database /\ jobs[w] = None
         /\ jobs' = [jobs EXCEPT ![w] = jobs'[w]]
         /\ jobs'[w] \in Profiles!Job /\ jobs'[w].name = n
         /\ jobs'[w].do = "use" => jobs'[w].new # None
         /\ Profiles!Update(w, n, c) =>
              /\ jobs'[w].do = "file" /\ jobs'[w].old # None
              /\ jobs'[w].new = Profiles!Restored(c, jobs'[w].old)
<1>1. /\ Profiles!Ensured \in [Profile -> Profiles!Content \cup {None}]
      /\ jobs \in [{"here", "elsewhere"} -> Profiles!Job \cup {None}]
  BY EnsuredFacts DEF Profiles!TypeOK
<1>2. ASSUME NEW do \in {"file", "use"}, NEW new \in Profiles!Content \cup {None},
             Profiles!Begins(w, do, n, new)
      PROVE  /\ stored' \in [Profile -> Profiles!Content \cup {None}]
             /\ database' = database /\ jobs[w] = None
             /\ jobs' = [jobs EXCEPT ![w] = jobs'[w]]
             /\ jobs'[w] \in Profiles!Job
             /\ jobs'[w].do = do /\ jobs'[w].name = n
             /\ jobs'[w].old = Profiles!Ensured[n] /\ jobs'[w].new = new
  <2>1. jobs'[w] = [do |-> do, name |-> n, old |-> Profiles!Ensured[n], new |-> new]
    BY <1>1, <1>2 DEF Profiles!Begins
  <2>2. jobs'[w] \in Profiles!Job
    BY <1>1, <2>1 DEF Profiles!Job
  <2>3. jobs' = [jobs EXCEPT ![w] = jobs'[w]]
    BY <1>1, <1>2 DEF Profiles!Begins
  <2>4. /\ stored' = Profiles!Ensured /\ database' = database /\ jobs[w] = None
    BY <1>2 DEF Profiles!Begins
  <2> QED  BY <1>1, <2>1, <2>2, <2>3, <2>4
<1>3. CASE Profiles!Update(w, n, c)
  <2>1. Profiles!Ensured[n] \in Profiles!Content /\ Profiles!Ensured[n] # None
    BY <1>1, <1>3, ProfilesNone DEF Profiles!Update
  <2>2. Profiles!Restored(c, Profiles!Ensured[n]) \in Profiles!Content
    BY <2>1, RestoredFacts
  <2>3. Profiles!Begins(w, "file", n, Profiles!Restored(c, Profiles!Ensured[n]))
    BY <1>3 DEF Profiles!Update
  <2> QED  BY <1>2, <2>1, <2>2, <2>3
<1>4. CASE ~Profiles!Update(w, n, c)
  <2>1. PICK do \in {"file", "use"}, new \in Profiles!Content \cup {None} :
          Profiles!Begins(w, do, n, new) /\ (do = "use" => new # None)
    BY <1>1, <1>4 DEF Profiles!Create, Profiles!Remove, Profiles!Activate
  <2> QED  BY <1>2, <1>4, <2>1
<1> QED  BY <1>3, <1>4

\* What a handler leaves when it ends.
LEMMA EndFacts ==
  ASSUME ProfilesInv, NEW w \in {"here", "elsewhere"}, Profiles!Ends(w)
  PROVE  /\ stored' \in [Profile -> Profiles!Content \cup {None}]
         /\ database' \in Profiles!Content
         /\ jobs' \in [{"here", "elsewhere"} -> Profiles!Job \cup {None}]
         /\ jobs' = [jobs EXCEPT ![w] = None]
<1>1. /\ jobs[w] \in Profiles!Job
      /\ jobs[w].do = "use" => jobs[w].new \in Profiles!Content
  BY DEF ProfilesInv, Profiles!TypeOK, JobsOK, Profiles!Ends, Profiles!Job
<1> QED  BY <1>1 DEF ProfilesInv, Profiles!TypeOK, Profiles!Ends, Profiles!Job

\* Tests that begin, end and are left behind by their dialog.
LEMMA TestFacts ==
  ASSUME Profiles!TypeOK
  PROVE  /\ tests.own \in Nat /\ tests.earlier \in Nat
         /\ Profiles!Test =>
              /\ tests' \in [own : 0..Tests, earlier : 0..Tests]
              /\ tests'.own + tests'.earlier <= Tests
              /\ tests'.earlier = tests.earlier
         /\ Profiles!Closed =>
              /\ tests' \in [own : 0..Tests, earlier : 0..Tests]
              /\ tests'.own + tests'.earlier <= Tests
              /\ tests'.own = 0
         /\ \A ok \in BOOLEAN, which \in {"own", "earlier"} :
              Profiles!TestCame(which, ok) =>
                /\ tests' \in [own : 0..Tests, earlier : 0..Tests]
                /\ tests'.own + tests'.earlier <= Tests
                /\ tests'.own <= tests.own /\ tests'.earlier <= tests.earlier
<1>1. /\ tests \in [own : 0..Tests, earlier : 0..Tests] /\ Tests \in Nat
      /\ tests.own \in Nat /\ tests.earlier \in Nat
      /\ tests.own + tests.earlier <= Tests
  BY ProfilesNone DEF Profiles!TypeOK
<1>2. ASSUME Profiles!Test
      PROVE  /\ tests' = [own |-> tests.own + 1, earlier |-> tests.earlier]
             /\ tests.own + tests.earlier < Tests
  BY <1>1, <1>2 DEF Profiles!Test
<1>3. ASSUME Profiles!Closed
      PROVE  tests' = [own |-> 0, earlier |-> tests.own + tests.earlier]
  BY <1>3 DEF Profiles!Closed
<1>4. ASSUME NEW ok \in BOOLEAN, NEW which \in {"own", "earlier"},
             Profiles!TestCame(which, ok)
      PROVE  /\ tests' \in [own : 0..Tests, earlier : 0..Tests]
             /\ tests'.own + tests'.earlier <= Tests
             /\ tests'.own <= tests.own /\ tests'.earlier <= tests.earlier
  <2>1. CASE which = "own"
    <3>1. tests' = [own |-> tests.own - 1, earlier |-> tests.earlier] /\ tests.own > 0
      BY <1>1, <1>4, <2>1 DEF Profiles!TestCame
    <3> QED  BY <1>1, <3>1
  <2>2. CASE which = "earlier"
    <3>1. tests' = [own |-> tests.own, earlier |-> tests.earlier - 1] /\ tests.earlier > 0
      BY <1>1, <1>4, <2>2 DEF Profiles!TestCame
    <3> QED  BY <1>1, <3>1
  <2> QED  BY <2>1, <2>2
<1> QED  BY <1>1, <1>2, <1>3, <1>4

LEMMA ProfilesInit == ASSUME Profiles!Init PROVE ProfilesInv
<1>1. Profiles!TypeOK
  <2>1. Kept[First] \in Profiles!Content
    BY ProfilesNone
  <2>2. /\ stored \in [Profile -> Profiles!Content \cup {None}]
        /\ database \in Profiles!Content /\ changes \in 0..Changes
        /\ listed \in [Profile -> Profiles!Content \cup {None}]
    BY <2>1, ProfilesNone DEF Profiles!Init
  <2>3. /\ awaited = None /\ status = {"hidden"} /\ password \in Profiles!Password
        /\ tests \in [own : 0..Tests, earlier : 0..Tests] /\ tests.own + tests.earlier <= Tests
        /\ jobs \in [{"here", "elsewhere"} -> Profiles!Job \cup {None}]
    BY ProfilesNone DEF Profiles!Init
  <2> QED  BY <2>2, <2>3 DEF Profiles!Init, Profiles!TypeOK
<1>2. AwaitedOK /\ JobsOK /\ DialogOK
  BY DEF Profiles!Init, AwaitedOK, JobsOK, DialogOK, Profiles!In
<1> QED  BY <1>1, <1>2 DEF ProfilesInv

LEMMA ProfilesLoadPage ==
  ASSUME ProfilesInv, Profiles!LoadPage
  PROVE  ProfilesInv'
<1>1. tests.own \in Nat /\ tests.earlier \in Nat
  BY TestFacts DEF ProfilesInv
<1> USE <1>1, ProfilesNone, AwaitingFacts
    DEF ProfilesInv, Profiles!LoadPage, Profiles!page, Profiles!panel, Profiles!form,
        Profiles!Kind, Profiles!AtPage
<1>2. Profiles!TypeOK'
  BY DEF Profiles!TypeOK, Profiles!In, Profiles!Closed
<1>3. AwaitedOK' /\ JobsOK'
  BY DEF Profiles!TypeOK, AwaitedOK, JobsOK, DialogOK, Profiles!In, Profiles!Closed,
         Profiles!Restored
<1>4. DialogOK'
  BY DEF Profiles!TypeOK, AwaitedOK, DialogOK, Profiles!In, Profiles!Closed
<1> QED  BY <1>2, <1>3, <1>4

LEMMA ProfilesShowCreate ==
  ASSUME ProfilesInv, Profiles!ShowCreate
  PROVE  ProfilesInv'
<1>1. tests.own \in Nat /\ tests.earlier \in Nat
  BY TestFacts DEF ProfilesInv
<1> USE <1>1, ProfilesNone, AwaitingFacts
    DEF ProfilesInv, Profiles!ShowCreate, Profiles!page, Profiles!panel, Profiles!form,
        Profiles!Kind, Profiles!AtPage, Profiles!Opened
<1>2. Profiles!TypeOK'
  BY DEF Profiles!TypeOK, Profiles!In, Profiles!Closed
<1>3. AwaitedOK' /\ JobsOK'
  BY DEF Profiles!TypeOK, AwaitedOK, JobsOK, DialogOK, Profiles!In, Profiles!Closed,
         Profiles!Restored
<1>4. DialogOK'
  <2>1. "hidden" \in status'
    OBVIOUS
  <2>2. status' # {"success"}
    BY <2>1
  <2>3. tests'.earlier > 0 => mixed'
    OBVIOUS
  <2> QED  BY <2>2, <2>3 DEF DialogOK
<1> QED  BY <1>2, <1>3, <1>4

LEMMA ProfilesShowEdit ==
  ASSUME ProfilesInv, NEW n \in Profile, Profiles!ShowEdit(n)
  PROVE  ProfilesInv'
<1>1. tests.own \in Nat /\ tests.earlier \in Nat
  BY TestFacts DEF ProfilesInv
<1> USE <1>1, ContentFacts, ProfilesNone, AwaitingFacts
    DEF ProfilesInv, Profiles!ShowEdit, Profiles!page, Profiles!panel, Profiles!form,
        Profiles!Kind, Profiles!AtPage, Profiles!Opened
<1>2. Profiles!TypeOK'
  BY DEF Profiles!TypeOK, Profiles!In, Profiles!Closed
<1>3. AwaitedOK' /\ JobsOK'
  BY DEF Profiles!TypeOK, AwaitedOK, JobsOK, DialogOK, Profiles!In, Profiles!Closed,
         Profiles!Restored
<1>4. DialogOK'
  <2>1. "hidden" \in status'
    OBVIOUS
  <2>2. status' # {"success"}
    BY <2>1
  <2>3. tests'.earlier > 0 => mixed'
    OBVIOUS
  <2> QED  BY <2>2, <2>3 DEF DialogOK
<1> QED  BY <1>2, <1>3, <1>4

LEMMA ProfilesChooseModule ==
  ASSUME ProfilesInv, NEW m \in Profiles!Module \cup {None}, Profiles!ChooseModule(m)
  PROVE  ProfilesInv'
<1>1. tests.own \in Nat /\ tests.earlier \in Nat
  BY TestFacts DEF ProfilesInv
<1> USE <1>1, ProfilesNone, AwaitingFacts
    DEF ProfilesInv, Profiles!ChooseModule, Profiles!page, Profiles!panel, Profiles!form,
        Profiles!Kind, Profiles!Editing
<1>2. Profiles!TypeOK'
  BY DEF Profiles!TypeOK, Profiles!In, Profiles!Closed
<1>3. AwaitedOK' /\ JobsOK'
  BY DEF Profiles!TypeOK, AwaitedOK, JobsOK, DialogOK, Profiles!In, Profiles!Closed,
         Profiles!Restored
<1>4. DialogOK'
  BY DEF Profiles!TypeOK, AwaitedOK, DialogOK, Profiles!In, Profiles!Closed
<1> QED  BY <1>2, <1>3, <1>4

LEMMA ProfilesType ==
  ASSUME ProfilesInv, NEW text \in Typed \cup {Default}, Profiles!Type(text)
  PROVE  ProfilesInv'
<1>1. tests.own \in Nat /\ tests.earlier \in Nat
  BY TestFacts DEF ProfilesInv
<1> USE <1>1, ProfilesNone, AwaitingFacts
    DEF ProfilesInv, Profiles!Type, Profiles!page, Profiles!panel, Profiles!form,
        Profiles!Kind, Profiles!Editing, Profiles!Password
<1>2. Profiles!TypeOK'
  BY DEF Profiles!TypeOK, Profiles!In, Profiles!Closed
<1>3. AwaitedOK' /\ JobsOK'
  BY DEF Profiles!TypeOK, AwaitedOK, JobsOK, DialogOK, Profiles!In, Profiles!Closed,
         Profiles!Restored
<1>4. DialogOK'
  BY DEF Profiles!TypeOK, AwaitedOK, DialogOK, Profiles!In, Profiles!Closed
<1> QED  BY <1>2, <1>3, <1>4

LEMMA ProfilesTest ==
  ASSUME ProfilesInv, Profiles!Test
  PROVE  ProfilesInv'
<1>1. /\ tests' \in [own : 0..Tests, earlier : 0..Tests]
      /\ tests'.own + tests'.earlier <= Tests
      /\ tests.own \in Nat /\ tests.earlier \in Nat
      /\ tests'.earlier = tests.earlier
  BY TestFacts DEF ProfilesInv, Profiles!Test
<1> USE <1>1, ProfilesNone, AwaitingFacts
    DEF ProfilesInv, Profiles!Test, Profiles!page, Profiles!panel, Profiles!form,
        Profiles!Kind, Profiles!Editing
<1>2. Profiles!TypeOK'
  BY DEF Profiles!TypeOK, Profiles!In, Profiles!Closed
<1>3. AwaitedOK' /\ JobsOK'
  BY DEF Profiles!TypeOK, AwaitedOK, JobsOK, DialogOK, Profiles!In, Profiles!Closed,
         Profiles!Restored
<1>4. DialogOK'
  BY DEF Profiles!TypeOK, AwaitedOK, DialogOK, Profiles!In, Profiles!Closed
<1> QED  BY <1>2, <1>3, <1>4

LEMMA ProfilesTestCame ==
  ASSUME ProfilesInv, NEW which \in {"own", "earlier"}, NEW ok \in BOOLEAN, Profiles!TestCame(which, ok)
  PROVE  ProfilesInv'
<1>1. /\ tests' \in [own : 0..Tests, earlier : 0..Tests]
      /\ tests'.own + tests'.earlier <= Tests
      /\ tests.own \in Nat /\ tests.earlier \in Nat
      /\ tests'.own <= tests.own /\ tests'.earlier <= tests.earlier
  BY TestFacts DEF ProfilesInv, Profiles!TestCame
<1> USE <1>1, ProfilesNone, AwaitingFacts
    DEF ProfilesInv, Profiles!TestCame, Profiles!page, Profiles!panel, Profiles!form,
        Profiles!Kind
<1>2. Profiles!TypeOK'
  BY DEF Profiles!TypeOK, Profiles!In, Profiles!Closed
<1>3. AwaitedOK' /\ JobsOK'
  BY DEF Profiles!TypeOK, AwaitedOK, JobsOK, DialogOK, Profiles!In, Profiles!Closed,
         Profiles!Restored
<1>4. DialogOK'
  BY DEF Profiles!TypeOK, AwaitedOK, DialogOK, Profiles!In, Profiles!Closed
<1> QED  BY <1>2, <1>3, <1>4

LEMMA ProfilesSave ==
  ASSUME ProfilesInv, NEW n \in Profile, Profiles!Save(n)
  PROVE  ProfilesInv'
<1>1. tests.own \in Nat /\ tests.earlier \in Nat
  BY TestFacts DEF ProfilesInv
<1> USE <1>1, CollectedFacts, ProfilesNone, AwaitingFacts
    DEF ProfilesInv, Profiles!Save, Profiles!page, Profiles!panel, Profiles!form,
        Profiles!Kind, Profiles!Editing, Profiles!Counted
<1>2. Profiles!TypeOK'
  BY DEF Profiles!TypeOK, Profiles!In, Profiles!Closed
<1>3. AwaitedOK' /\ JobsOK'
  BY DEF Profiles!TypeOK, AwaitedOK, JobsOK, DialogOK, Profiles!In, Profiles!Closed,
         Profiles!Restored
<1>4. DialogOK'
  BY DEF Profiles!TypeOK, AwaitedOK, DialogOK, Profiles!In, Profiles!Closed
<1> QED  BY <1>2, <1>3, <1>4

LEMMA ProfilesCloseEditor ==
  ASSUME ProfilesInv, Profiles!CloseEditor
  PROVE  ProfilesInv'
<1>1. /\ tests' \in [own : 0..Tests, earlier : 0..Tests]
      /\ tests'.own + tests'.earlier <= Tests
      /\ tests.own \in Nat /\ tests.earlier \in Nat
      /\ tests'.own = 0
  BY TestFacts DEF ProfilesInv, Profiles!CloseEditor
<1> USE <1>1, ProfilesNone, AwaitingFacts
    DEF ProfilesInv, Profiles!CloseEditor, Profiles!page, Profiles!panel, Profiles!form,
        Profiles!Kind, Profiles!Editing
<1>2. Profiles!TypeOK'
  BY DEF Profiles!TypeOK, Profiles!In, Profiles!Closed
<1>3. AwaitedOK' /\ JobsOK'
  BY DEF Profiles!TypeOK, AwaitedOK, JobsOK, DialogOK, Profiles!In, Profiles!Closed,
         Profiles!Restored
<1>4. DialogOK'
  BY DEF Profiles!TypeOK, AwaitedOK, DialogOK, Profiles!In, Profiles!Closed
<1> QED  BY <1>2, <1>3, <1>4

LEMMA ProfilesDelete ==
  ASSUME ProfilesInv, NEW n \in Profile, Profiles!Delete(n)
  PROVE  ProfilesInv'
<1>1. tests.own \in Nat /\ tests.earlier \in Nat
  BY TestFacts DEF ProfilesInv
<1> USE <1>1, ProfilesNone, AwaitingFacts
    DEF ProfilesInv, Profiles!Delete, Profiles!page, Profiles!panel, Profiles!form,
        Profiles!Kind, Profiles!AtPage, Profiles!Counted
<1>2. Profiles!TypeOK'
  BY DEF Profiles!TypeOK, Profiles!In, Profiles!Closed
<1>3. AwaitedOK' /\ JobsOK'
  BY DEF Profiles!TypeOK, AwaitedOK, JobsOK, DialogOK, Profiles!In, Profiles!Closed,
         Profiles!Restored
<1>4. DialogOK'
  BY DEF Profiles!TypeOK, AwaitedOK, DialogOK, Profiles!In, Profiles!Closed
<1> QED  BY <1>2, <1>3, <1>4

LEMMA ProfilesShowActivate ==
  ASSUME ProfilesInv, NEW n \in Profile, Profiles!ShowActivate(n)
  PROVE  ProfilesInv'
<1>1. tests.own \in Nat /\ tests.earlier \in Nat
  BY TestFacts DEF ProfilesInv
<1> USE <1>1, ProfilesNone, AwaitingFacts
    DEF ProfilesInv, Profiles!ShowActivate, Profiles!page, Profiles!panel, Profiles!form,
        Profiles!Kind, Profiles!AtPage
<1>2. Profiles!TypeOK'
  BY DEF Profiles!TypeOK, Profiles!In, Profiles!Closed
<1>3. AwaitedOK' /\ JobsOK'
  BY DEF Profiles!TypeOK, AwaitedOK, JobsOK, DialogOK, Profiles!In, Profiles!Closed,
         Profiles!Restored
<1>4. DialogOK'
  BY DEF Profiles!TypeOK, AwaitedOK, DialogOK, Profiles!In, Profiles!Closed
<1> QED  BY <1>2, <1>3, <1>4

LEMMA ProfilesCloseActivate ==
  ASSUME ProfilesInv, Profiles!CloseActivate
  PROVE  ProfilesInv'
<1>1. /\ tests' \in [own : 0..Tests, earlier : 0..Tests]
      /\ tests'.own + tests'.earlier <= Tests
      /\ tests.own \in Nat /\ tests.earlier \in Nat
      /\ tests'.own = 0
  BY TestFacts DEF ProfilesInv, Profiles!CloseActivate
<1> USE <1>1, ProfilesNone, AwaitingFacts
    DEF ProfilesInv, Profiles!CloseActivate, Profiles!page, Profiles!panel, Profiles!form,
        Profiles!Kind
<1>2. Profiles!TypeOK'
  BY DEF Profiles!TypeOK, Profiles!In, Profiles!Closed
<1>3. AwaitedOK' /\ JobsOK'
  BY DEF Profiles!TypeOK, AwaitedOK, JobsOK, DialogOK, Profiles!In, Profiles!Closed,
         Profiles!Restored
<1>4. DialogOK'
  BY DEF Profiles!TypeOK, AwaitedOK, DialogOK, Profiles!In, Profiles!Closed
<1> QED  BY <1>2, <1>3, <1>4

LEMMA ProfilesConfirmActivate ==
  ASSUME ProfilesInv, Profiles!ConfirmActivate
  PROVE  ProfilesInv'
<1>1. tests.own \in Nat /\ tests.earlier \in Nat
  BY TestFacts DEF ProfilesInv
<1> USE <1>1, ProfilesNone, AwaitingFacts
    DEF ProfilesInv, Profiles!ConfirmActivate, Profiles!page, Profiles!panel, Profiles!form,
        Profiles!Kind, Profiles!Counted
<1>2. Profiles!TypeOK'
  BY DEF Profiles!TypeOK, Profiles!In, Profiles!Closed
<1>3. AwaitedOK' /\ JobsOK'
  BY DEF Profiles!TypeOK, AwaitedOK, JobsOK, DialogOK, Profiles!In, Profiles!Closed,
         Profiles!Restored
<1>4. DialogOK'
  BY DEF Profiles!TypeOK, AwaitedOK, DialogOK, Profiles!In, Profiles!Closed
<1> QED  BY <1>2, <1>3, <1>4

LEMMA ProfilesTimeToClose ==
  ASSUME ProfilesInv, Profiles!TimeToClose
  PROVE  ProfilesInv'
<1>1. /\ tests' \in [own : 0..Tests, earlier : 0..Tests]
      /\ tests'.own + tests'.earlier <= Tests
      /\ tests.own \in Nat /\ tests.earlier \in Nat
      /\ tests'.own = 0
  BY TestFacts DEF ProfilesInv, Profiles!TimeToClose
<1> USE <1>1, ProfilesNone, AwaitingFacts
    DEF ProfilesInv, Profiles!TimeToClose, Profiles!page, Profiles!panel, Profiles!form,
        Profiles!Kind
<1>2. Profiles!TypeOK'
  BY DEF Profiles!TypeOK, Profiles!In, Profiles!Closed
<1>3. AwaitedOK' /\ JobsOK'
  BY DEF Profiles!TypeOK, AwaitedOK, JobsOK, DialogOK, Profiles!In, Profiles!Closed,
         Profiles!Restored
<1>4. DialogOK'
  BY DEF Profiles!TypeOK, AwaitedOK, DialogOK, Profiles!In, Profiles!Closed
<1> QED  BY <1>2, <1>3, <1>4

LEMMA ProfilesFailed ==
  ASSUME ProfilesInv, Profiles!Failed
  PROVE  ProfilesInv'
<1>1. tests.own \in Nat /\ tests.earlier \in Nat
  BY TestFacts DEF ProfilesInv
<1> USE <1>1, ProfilesNone, AwaitingFacts
    DEF ProfilesInv, Profiles!Failed, Profiles!page, Profiles!panel, Profiles!form,
        Profiles!Kind
<1>2. Profiles!TypeOK'
  BY DEF Profiles!TypeOK, Profiles!In, Profiles!Closed
<1>3. AwaitedOK' /\ JobsOK'
  BY DEF Profiles!TypeOK, AwaitedOK, JobsOK, DialogOK, Profiles!In, Profiles!Closed,
         Profiles!Restored
<1>4. DialogOK'
  BY DEF Profiles!TypeOK, AwaitedOK, DialogOK, Profiles!In, Profiles!Closed
<1> QED  BY <1>2, <1>3, <1>4

LEMMA ProfilesGiveUp ==
  ASSUME ProfilesInv, NEW w \in {"here", "elsewhere"}, Profiles!GiveUp(w)
  PROVE  ProfilesInv'
<1>1. tests.own \in Nat /\ tests.earlier \in Nat
  BY TestFacts DEF ProfilesInv
<1> USE <1>1, ProfilesNone, AwaitingFacts
    DEF ProfilesInv, Profiles!GiveUp, Profiles!page, Profiles!panel, Profiles!form,
        Profiles!Kind
<1>2. Profiles!TypeOK'
  BY DEF Profiles!TypeOK, Profiles!In, Profiles!Closed
<1>3. AwaitedOK' /\ JobsOK'
  BY DEF Profiles!TypeOK, AwaitedOK, JobsOK, DialogOK, Profiles!In, Profiles!Closed,
         Profiles!Restored
<1>4. DialogOK'
  BY DEF Profiles!TypeOK, AwaitedOK, DialogOK, Profiles!In, Profiles!Closed
<1> QED  BY <1>2, <1>3, <1>4

LEMMA ProfilesPageCame ==
  ASSUME ProfilesInv, Profiles!PageCame
  PROVE  ProfilesInv'
<1> USE ProfilesNone DEF ProfilesInv, Profiles!PageCame, Profiles!form
<1>1. Profiles!TypeOK'
  <2>1. /\ Profiles!Ensured \in [Profile -> Profiles!Content \cup {None}]
        /\ Profiles!Active(Profiles!Ensured) \in Profile \cup {None}
    BY EnsuredFacts, ActiveFacts
  <2>2. listed' \in [Profile -> Profiles!Content \cup {None}]
    BY <2>1, RedactFacts
  <2> QED  BY <2>1, <2>2 DEF Profiles!TypeOK
<1>2. AwaitedOK' /\ JobsOK' /\ DialogOK'
  BY DEF AwaitedOK, JobsOK, DialogOK, Profiles!In
<1> QED  BY <1>1, <1>2

LEMMA ProfilesAskElsewhere ==
  ASSUME ProfilesInv, NEW n \in Profile, Profiles!AskElsewhere(n)
  PROVE  ProfilesInv'
<1> USE DEF ProfilesInv, Profiles!page, Profiles!form
<1>1. /\ changes' \in 0..Changes
      /\ UNCHANGED <<Profiles!page, Profiles!form, awaited>>
  BY ProfilesNone DEF Profiles!AskElsewhere, Profiles!Counted, Profiles!TypeOK
<1>2. /\ stored' \in [Profile -> Profiles!Content \cup {None}] /\ database' = database
      /\ jobs' = [jobs EXCEPT !["elsewhere"] = jobs'["elsewhere"]]
      /\ jobs'["elsewhere"] \in Profiles!Job
      /\ jobs'["elsewhere"].do = "use" => jobs'["elsewhere"].new # None
  <2>1. PICK c \in Profiles!Content :
          \/ Profiles!Create("elsewhere", n, c) \/ Profiles!Update("elsewhere", n, c)
          \/ Profiles!Remove("elsewhere", n) \/ Profiles!Activate("elsewhere", n)
    BY ContentFacts, ProfilesNone
       DEF Profiles!AskElsewhere, Profiles!Content, Profiles!Password
  <2> QED  BY <2>1, BeginFacts
<1>3. Profiles!TypeOK'
  BY <1>1, <1>2 DEF Profiles!TypeOK
<1>4. AwaitedOK' /\ DialogOK'
  BY <1>1 DEF AwaitedOK, DialogOK, Profiles!In
<1>5. JobsOK'
  BY <1>1, <1>2 DEF Profiles!TypeOK, JobsOK, Profiles!In, Profiles!Restored
<1> QED  BY <1>3, <1>4, <1>5

LEMMA ProfilesEndsElsewhere ==
  ASSUME ProfilesInv, Profiles!EndsElsewhere
  PROVE  ProfilesInv'
<1> USE DEF ProfilesInv, Profiles!page, Profiles!form, Profiles!EndsElsewhere
<1>1. Profiles!TypeOK'
  BY EndFacts DEF Profiles!TypeOK
<1>2. AwaitedOK' /\ DialogOK'
  BY DEF AwaitedOK, DialogOK, Profiles!In
<1>3. JobsOK'
  BY EndFacts DEF Profiles!TypeOK, JobsOK, Profiles!In, Profiles!Restored
<1> QED  BY <1>1, <1>2, <1>3

LEMMA ProfilesReached ==
  ASSUME ProfilesInv, Profiles!Reached
  PROVE  ProfilesInv'
<1> USE ProfilesNone DEF ProfilesInv, Profiles!page, Profiles!form
<1>1. UNCHANGED <<changes, Profiles!page, Profiles!form, awaited>>
  BY DEF Profiles!Reached
<1>2. PICK c \in Profiles!Content :
        /\ awaited.name \in Profile
        /\ awaited # None /\ awaited.do \in {"create", "update", "delete", "activate"}
        /\ \/ Profiles!Create("here", awaited.name, c)
           \/ Profiles!Update("here", awaited.name, c)
           \/ Profiles!Remove("here", awaited.name)
           \/ Profiles!Activate("here", awaited.name)
        /\ Profiles!In("update") =>
             c = awaited.content /\ Profiles!Update("here", awaited.name, c)
  BY ContentFacts DEF Profiles!Reached, AwaitedOK, Profiles!In
<1>3. /\ stored' \in [Profile -> Profiles!Content \cup {None}] /\ database' = database
      /\ jobs' = [jobs EXCEPT !["here"] = jobs'["here"]]
      /\ jobs'["here"] \in Profiles!Job /\ jobs'["here"].name = awaited.name
      /\ jobs'["here"].do = "use" => jobs'["here"].new # None
      /\ Profiles!In("update") =>
           /\ jobs'["here"].do = "file" /\ jobs'["here"].old # None
           /\ jobs'["here"].new = Profiles!Restored(awaited.content, jobs'["here"].old)
  BY <1>2, BeginFacts
<1>4. Profiles!TypeOK'
  BY <1>1, <1>3 DEF Profiles!TypeOK
<1>5. AwaitedOK' /\ DialogOK'
  BY <1>1 DEF AwaitedOK, DialogOK, Profiles!In
<1>6. JobsOK'
  BY <1>1, <1>2, <1>3 DEF Profiles!TypeOK, JobsOK, Profiles!In, Profiles!Restored
<1> QED  BY <1>4, <1>5, <1>6

\* What an answer, or the loss of it, leaves of the dialog.
LEMMA DialogAfter ==
  ASSUME ProfilesInv, NEW ok \in BOOLEAN, Profiles!Ends("here"),
         IF ok THEN Profiles!Reloads ELSE Profiles!Lost,
         UNCHANGED <<changes, Profiles!page, password, status>>
  PROVE  ProfilesInv'
<1> USE ProfilesNone DEF ProfilesInv, Profiles!page
<1>1. \/ Profiles!Closed /\ awaited' = Profiles!Awaiting("load", None, None)
      \/ UNCHANGED <<window, named, module, tests, entered, tested, mixed>> /\ awaited' = None
  BY DEF Profiles!Reloads, Profiles!Lost
<1>2. /\ awaited' \in Profiles!Awaited \cup {None}
      /\ \A do \in {"create", "update", "delete", "activate"} :
           ~(awaited' # None /\ awaited'.do = do)
      /\ awaited' # None => Profiles!Closed
  BY <1>1, AwaitingFacts DEF Profiles!Kind
<1>3. Profiles!TypeOK'
  <2>1. /\ tests' \in [own : 0..Tests, earlier : 0..Tests]
        /\ tests'.own + tests'.earlier <= Tests
    BY <1>1, TestFacts DEF Profiles!TypeOK
  <2>2. /\ window' \in {"none", "edit", "activate"} /\ named' \in Profile \cup {None}
        /\ module' \in Profiles!Module \cup {None}
        /\ {entered', tested', mixed'} \subseteq BOOLEAN
    BY <1>1 DEF Profiles!TypeOK, Profiles!Closed
  <2> QED  BY <1>2, <2>1, <2>2, EndFacts DEF Profiles!TypeOK
<1>4. AwaitedOK' /\ DialogOK'
  BY <1>1, <1>2 DEF AwaitedOK, DialogOK, Profiles!Closed, Profiles!In, Profiles!TypeOK
<1>5. JobsOK'
  BY <1>2, EndFacts DEF JobsOK, Profiles!In, Profiles!TypeOK
<1> QED  BY <1>3, <1>4, <1>5

LEMMA ProfilesSaved ==
  ASSUME ProfilesInv, NEW ok \in BOOLEAN, Profiles!Saved(ok)
  PROVE  ProfilesInv'
BY DialogAfter DEF Profiles!Saved

LEMMA ProfilesDeleted ==
  ASSUME ProfilesInv, NEW ok \in BOOLEAN, Profiles!Deleted(ok)
  PROVE  ProfilesInv'
BY DialogAfter DEF Profiles!Deleted

LEMMA ProfilesActivated ==
  ASSUME ProfilesInv, NEW ok \in BOOLEAN, Profiles!Activated(ok)
  PROVE  ProfilesInv'
<1> USE ProfilesNone, AwaitingFacts DEF ProfilesInv, Profiles!form, Profiles!Activated
<1>1. Profiles!TypeOK'
  BY EndFacts DEF Profiles!TypeOK, Profiles!In, AwaitedOK, Profiles!Kind
<1>2. AwaitedOK' /\ DialogOK'
  BY DEF Profiles!TypeOK, AwaitedOK, DialogOK, Profiles!In, Profiles!Kind
<1>3. JobsOK'
  <2>1. jobs' = [jobs EXCEPT !["here"] = None] /\ jobs'["here"] = None
    BY EndFacts DEF Profiles!TypeOK
  <2>2. \A w \in {"here", "elsewhere"} :
          jobs'[w] # None => jobs'[w] = jobs[w]
    BY <2>1 DEF Profiles!TypeOK
  <2> QED  BY <2>1, <2>2 DEF JobsOK
<1> QED  BY <1>1, <1>2, <1>3

\* Every step of the profiles keeps their invariant.
LEMMA ProfilesStep ==
  ASSUME ProfilesInv, Profiles!Next
  PROVE  ProfilesInv'
<1>1. ASSUME \/ Profiles!LoadPage \/ Profiles!PageCame \/ Profiles!ShowCreate
             \/ Profiles!Test \/ Profiles!CloseEditor \/ Profiles!Reached
             \/ Profiles!CloseActivate \/ Profiles!ConfirmActivate
             \/ Profiles!TimeToClose \/ Profiles!Failed \/ Profiles!EndsElsewhere
      PROVE  ProfilesInv'
  BY <1>1, ProfilesLoadPage, ProfilesPageCame, ProfilesShowCreate, ProfilesTest,
     ProfilesCloseEditor, ProfilesReached, ProfilesCloseActivate,
     ProfilesConfirmActivate, ProfilesTimeToClose, ProfilesFailed,
     ProfilesEndsElsewhere
<1>2. ASSUME NEW n \in Profile,
             \/ Profiles!ShowEdit(n) \/ Profiles!Save(n) \/ Profiles!Delete(n)
             \/ Profiles!ShowActivate(n) \/ Profiles!AskElsewhere(n)
      PROVE  ProfilesInv'
  BY <1>2, ProfilesShowEdit, ProfilesSave, ProfilesDelete, ProfilesShowActivate,
     ProfilesAskElsewhere
<1>3. ASSUME NEW m \in Profiles!Module \cup {None}, Profiles!ChooseModule(m)
      PROVE  ProfilesInv'
  BY <1>3, ProfilesChooseModule
<1>4. ASSUME NEW text \in Typed \cup {Default}, Profiles!Type(text) PROVE ProfilesInv'
  BY <1>4, ProfilesType
<1>5. ASSUME NEW ok \in BOOLEAN, NEW which \in {"own", "earlier"},
             Profiles!TestCame(which, ok)
      PROVE  ProfilesInv'
  BY <1>5, ProfilesTestCame
<1>6. ASSUME NEW ok \in BOOLEAN,
             Profiles!Saved(ok) \/ Profiles!Deleted(ok) \/ Profiles!Activated(ok)
      PROVE  ProfilesInv'
  BY <1>6, ProfilesSaved, ProfilesDeleted, ProfilesActivated
<1>7. ASSUME NEW w \in {"here", "elsewhere"}, Profiles!GiveUp(w) PROVE ProfilesInv'
  BY <1>7, ProfilesGiveUp
<1> QED  BY <1>1, <1>2, <1>3, <1>4, <1>5, <1>6, <1>7 DEF Profiles!Next

\* Only the button saves.
LEMMA SavingFacts ==
  ASSUME ProfilesInv, Profiles!Next, Profiles!Saving
  PROVE  \E n \in Profile : Profiles!Save(n)
<1>1. /\ awaited = None /\ awaited' # None
      /\ awaited'.do # "load" /\ awaited'.do # "delete" /\ awaited'.do # "activate"
  BY DEF Profiles!Saving
<1>2. ~Profiles!LoadPage /\ ~Profiles!ConfirmActivate
      /\ \A n \in Profile : ~Profiles!Delete(n)
  <2>1. ~Profiles!LoadPage
    BY <1>1, AwaitingFacts DEF Profiles!LoadPage, Profiles!Kind
  <2>2. ~Profiles!ConfirmActivate
    BY <1>1, AwaitingFacts DEF Profiles!ConfirmActivate, Profiles!Kind, ProfilesInv,
       Profiles!TypeOK
  <2>3. \A n \in Profile : ~Profiles!Delete(n)
    BY <1>1, AwaitingFacts DEF Profiles!Delete, Profiles!Kind
  <2> QED  BY <2>1, <2>2, <2>3
<1>3. /\ ~Profiles!PageCame /\ ~Profiles!TimeToClose /\ ~Profiles!Failed
      /\ ~Profiles!Reached
      /\ \A ok \in BOOLEAN :
           ~Profiles!Saved(ok) /\ ~Profiles!Deleted(ok) /\ ~Profiles!Activated(ok)
      /\ \A w \in {"here", "elsewhere"} : ~Profiles!GiveUp(w)
  BY <1>1 DEF Profiles!PageCame, Profiles!TimeToClose, Profiles!Failed, Profiles!Reached,
     Profiles!Saved, Profiles!Deleted, Profiles!Activated, Profiles!GiveUp, Profiles!In
<1> QED
  BY <1>1, <1>2, <1>3
     DEF Profiles!Next, Profiles!ShowCreate, Profiles!Test, Profiles!CloseEditor,
         Profiles!CloseActivate, Profiles!EndsElsewhere, Profiles!ShowEdit,
         Profiles!ShowActivate, Profiles!AskElsewhere, Profiles!ChooseModule,
         Profiles!Type, Profiles!TestCame

\* What a save holds, in the words of the properties.
LEMMA SaveStep ==
  ASSUME ProfilesInv, Profiles!Next, Profiles!Saving
  PROVE  /\ tested \/ mixed
         /\ module = "redis" =>
              \/ entered
              \/ named = None /\ awaited'.content.password = Default
              \/ named # None /\ listed[named].module = "redis"
                 /\ awaited'.content.password = listed[named].password
              \/ named # None /\ listed[named].module = "file"
<1>1. PICK n \in Profile : Profiles!Save(n)
  BY SavingFacts
<1>2. /\ tested \/ mixed
      /\ named # None => listed[named] \in Profiles!Content
      /\ ~entered /\ named = None => password = Default
      /\ ~entered /\ named # None /\ listed[named].module = "redis" =>
           password = listed[named].password
  BY <1>1 DEF ProfilesInv, DialogOK, Profiles!TypeOK, Profiles!Save, Profiles!Editing
<1>3. module = "redis" => awaited'.content.password = password
  BY <1>1, CollectedFacts, AwaitingFacts, ProfilesNone
     DEF ProfilesInv, Profiles!Save, Profiles!Kind
<1>4. \A c \in Profiles!Content : c.module \in {"redis", "file"}
  BY ContentFacts DEF Profiles!Module
<1> QED  BY <1>2, <1>3, <1>4

\* The password stays when the handler of an update writes.
LEMMA PasswordStep ==
  ASSUME ProfilesInv, Profiles!Next, NEW n \in Profile,
         Profiles!In("update"), awaited.name = n, awaited.content.password = Redacted,
         jobs["here"] # None, jobs'["here"] = None, jobs["here"].old = stored[n],
         stored[n] # None, stored[n].module = "redis", stored[n].password # Default
  PROVE  stored'[n].password = stored[n].password
<1>1. /\ jobs["here"].do = "file" /\ jobs["here"].name = n
      /\ jobs["here"].new = Profiles!Restored(awaited.content, stored[n])
      /\ awaited.content \in Profiles!Content /\ stored[n] \in Profiles!Content
      /\ jobs \in [{"here", "elsewhere"} -> Profiles!Job \cup {None}]
  BY DEF ProfilesInv, JobsOK, AwaitedOK, Profiles!TypeOK
<1>2. Profiles!Ends("here")
  <2>1. jobs' # jobs
    OBVIOUS
  <2>2. \A w \in {"here", "elsewhere"} : Profiles!GiveUp(w) => w = "elsewhere"
    BY <1>1 DEF Profiles!GiveUp
  <2>3. ~Profiles!GiveUp("elsewhere") /\ ~Profiles!EndsElsewhere
    BY <1>1 DEF Profiles!GiveUp, Profiles!EndsElsewhere, Profiles!Ends
  <2>4. ~\E k \in Profile : Profiles!AskElsewhere(k)
    BY <1>1 DEF Profiles!AskElsewhere, Profiles!Create, Profiles!Update, Profiles!Remove,
         Profiles!Activate, Profiles!Begins
  <2>5. ~Profiles!Reached
    BY DEF Profiles!Reached, Profiles!Create, Profiles!Update, Profiles!Remove,
           Profiles!Activate, Profiles!Begins
  <2> QED
    BY <2>1, <2>2, <2>3, <2>4, <2>5
       DEF Profiles!Next, Profiles!LoadPage, Profiles!PageCame,
           Profiles!ShowCreate, Profiles!Test, Profiles!CloseEditor,
           Profiles!CloseActivate, Profiles!ConfirmActivate, Profiles!TimeToClose,
           Profiles!Failed, Profiles!ShowEdit, Profiles!Save, Profiles!Delete,
           Profiles!ShowActivate, Profiles!ChooseModule, Profiles!Type,
           Profiles!TestCame, Profiles!Saved, Profiles!Deleted, Profiles!Activated,
           Profiles!panel
<1>3. stored'[n] = Profiles!Restored(awaited.content, stored[n])
  BY <1>1, <1>2 DEF Profiles!Ends, ProfilesInv, Profiles!TypeOK
<1> QED  BY <1>1, <1>3, RestoredFacts

-----------------------------------------------------------------------------
(* The clients page (ClientsPage).                                           *)

\* What the call under way in r says of the page.
CallOK(r) ==
  calls[r] # NoOne =>
    /\ modal # "none" => ~(form[modal] /\ button[modal])
    /\ calls[r].op = "catalog" => modal = "none"
    /\ calls[r].op \in Clients!Dialog =>
         /\ modal = calls[r].op
         /\ calls[r].answer = "ok" => owed \subseteq {calls[r].client}
         /\ calls[r].answer # "ok" => owed = {}
    /\ calls[r].op \in Clients!Dialog /\ calls[r].answer = "ok" =>
         calls[r].client \in 1..clients
    /\ calls[r].op = "delete" => calls[r].client \in 1..clients
    /\ calls[r].op = "list" /\ calls[r].answer = "ok" =>
         calls[r].rows \in allClients..clients /\ calls[r].gone \subseteq 1..calls[r].rows

\* One call is under way.
OneCall == \A q, r \in Slot : calls[q] # NoOne /\ calls[r] # NoOne => q = r

\* What is owed is in the answer to a creation, or on the screen.
OwedOK ==
  (\A r \in Slot : calls[r] # NoOne => calls[r].op \notin Clients!Dialog) =>
    /\ modal = "none" => owed = {}
    /\ modal # "none" => owed \subseteq {revealed[modal]}
    /\ modal # "none" /\ form[modal] /\ button[modal] => owed = {}

\* The page is the first one, or one with clients on it.
PageOK == Clients!Start = 0 \/ Clients!Start < Cardinality(filteredClients)

ClientsInv ==
  /\ Clients!TypeOK /\ form["bridge"]
  /\ \A r \in Slot : CallOK(r)
  /\ OneCall /\ OwedOK /\ PageOK

LEMMA ClientsNone ==
  /\ Most \in Nat /\ PerPage \in Nat /\ PerPage # 0
  /\ Searches \subseteq SUBSET Clients!Client
  /\ NoOne \notin Clients!Client /\ NoOne \notin Clients!Call
BY EditorsAssumption DEF Clients!PageAssumption

LEMMA AskingFacts ==
  ASSUME NEW op \in Clients!Dialog \cup {"list", "catalog", "delete"}
  PROVE  /\ Clients!Asking(op) \in Clients!Call /\ Clients!Asking(op) # NoOne
         /\ Clients!Asking(op).op = op /\ Clients!Asking(op).answer = "none"
         /\ Clients!Asking(op).client = NoOne
         /\ Clients!Asking(op) =
              [op |-> op, client |-> NoOne, rows |-> 0, gone |-> {}, answer |-> "none"]
<1>1. 0 \in 0..Most /\ {} \in SUBSET Clients!Client
  BY ClientsNone
<1>2. Clients!Asking(op) \in Clients!Call
  BY <1>1 DEF Clients!Asking, Clients!Call
<1> QED  BY <1>2, ClientsNone DEF Clients!Asking

\* The call in r is replaced, and it is the only one.
LEMMA CallsPlaced ==
  ASSUME ClientsInv, NEW r \in Slot, NEW call \in Clients!Call \cup {NoOne},
         \A q \in Slot \ {r} : calls[q] = NoOne, Clients!Place(r, call)
  PROVE  /\ calls' \in [Slot -> Clients!Call \cup {NoOne}]
         /\ calls'[r] = call
         /\ \A q \in Slot \ {r} : calls[q] = NoOne /\ calls'[q] = NoOne
         /\ OneCall'
<1>1. /\ calls' \in [Slot -> Clients!Call \cup {NoOne}]
      /\ calls'[r] = call
      /\ \A q \in Slot \ {r} : calls'[q] = NoOne
  BY DEF ClientsInv, Clients!TypeOK, Clients!Place
<1> QED  BY <1>1 DEF OneCall

\* The instance counts as this module does.
LEMMA CardinalityFacts == \A S : Clients!Cardinality(S) = Cardinality(S)
BY DEF Clients!Cardinality, Cardinality

LEMMA PageKept == ASSUME PageOK, UNCHANGED Clients!table PROVE PageOK'
BY DEF PageOK, Clients!Start, Clients!table

\* Each member of F has a rank of its own in 1..Cardinality(F), so none is left out.
LEMMA RankFacts ==
  ASSUME NEW n \in Nat, NEW F \in SUBSET (1..n), NEW k \in 1..Cardinality(F)
  PROVE  \E c \in F : Cardinality({d \in F : d <= c}) = k
<1> DEFINE Upto(c) == {d \in F : d <= c}
           Ranks == 1..Cardinality(F)
           rank == [c \in F |-> Cardinality(Upto(c))]
<1>1. IsFiniteSet(F) /\ \A c \in F : c \in Nat
  <2>1. IsFiniteSet(1..n)
    BY FS_Interval
  <2>2. IsFiniteSet(F)
    BY <2>1, FS_Subset
  <2>3. \A c \in F : c \in Nat
    OBVIOUS
  <2> QED  BY <2>2, <2>3
<1>2. Cardinality(F) \in Nat
  BY <1>1, FS_CardinalityType
<1>3. ASSUME NEW c \in F
      PROVE  /\ IsFiniteSet(Upto(c)) /\ c \in Upto(c)
             /\ Cardinality(Upto(c)) \in Ranks
  <2>1. Upto(c) \in SUBSET F /\ c \in Upto(c)
    BY <1>1
  <2> HIDE DEF Upto
  <2>2. IsFiniteSet(Upto(c)) /\ Cardinality(Upto(c)) <= Cardinality(F)
    BY <1>1, <2>1, FS_Subset
  <2>3. Cardinality(Upto(c)) \in Nat /\ Cardinality(Upto(c)) # 0
    BY <2>1, <2>2, FS_CardinalityType, FS_EmptySet
  <2> QED  BY <1>2, <2>1, <2>2, <2>3
<1>4. ASSUME NEW c \in F, NEW e \in F, c < e
      PROVE  Cardinality(Upto(c)) # Cardinality(Upto(e))
  <2>1. Upto(c) \in SUBSET Upto(e) /\ e \notin Upto(c)
    <3>1. \A d \in F : d <= c => d <= e
      BY <1>1, <1>4
    <3>2. ~(e <= c)
      BY <1>1, <1>4
    <3> QED  BY <3>1, <3>2
  <2>2. e \in Upto(e) /\ IsFiniteSet(Upto(e))
    BY <1>3
  <2> HIDE DEF Upto
  <2> QED  BY <2>1, <2>2, FS_Subset
<1> HIDE DEF Upto
<1>5. rank \in [F -> Ranks]
  BY <1>3
<1>6. \A c, e \in F : rank[c] = rank[e] => c = e
  <2>1. \A c, e \in F : c < e \/ e < c \/ c = e
    BY <1>1
  <2> QED  BY <1>4, <2>1
<1>7. IsFiniteSet(Ranks) /\ Cardinality(Ranks) = Cardinality(F)
  <2>1. 1 \in Int /\ Cardinality(F) \in Int
    BY <1>2
  <2>2. IsFiniteSet(Ranks) /\ Cardinality(Ranks) =
          IF 1 > Cardinality(F) THEN 0 ELSE Cardinality(F) - 1 + 1
    BY <2>1, FS_Interval
  <2> QED  BY <1>2, <2>2
<1>8. k \in Ranks
  OBVIOUS
<1>9. \A c \in F : rank[c] = Cardinality(Upto(c))
  OBVIOUS
<1> HIDE DEF rank, Ranks
<1>10. rank \in Injection(F, Ranks)
  BY <1>5, <1>6 DEF Injection, IsInjective
<1>11. rank \in Surjection(F, Ranks)
  BY <1>7, <1>10, FS_Injection
<1>12. PICK c \in F : rank[c] = k
  BY <1>8, <1>11 DEF Surjection
<1> QED  BY <1>9, <1>12 DEF Upto

LEMMA ClientsLoadClients ==
  ASSUME ClientsInv, NEW r \in Slot, Clients!LoadClients(r)
  PROVE  ClientsInv'
<1> USE DEF ClientsInv, Clients!LoadClients, Clients!dialogs
<1>1. CallOK(r) /\ OneCall /\ OwedOK /\ PageOK
  OBVIOUS
<1>2. /\ calls' \in [Slot -> Clients!Call \cup {NoOne}]
      /\ calls'[r] = Clients!Asking("list")
      /\ \A q \in Slot \ {r} : calls[q] = NoOne /\ calls'[q] = NoOne
      /\ OneCall'
  <2>1. Clients!Asking("list") \in Clients!Call \cup {NoOne}
    BY AskingFacts, ClientsNone DEF Clients!TypeOK, Clients!Call, Clients!Dialog, Clients!Client, Clients!Free
  <2>2. Clients!Place(r, Clients!Asking("list"))
    BY DEF Clients!Done
  <2>3. \A q \in Slot \ {r} : calls[q] = NoOne
    BY DEF Clients!AtTable, Clients!Free
  <2> QED  BY <2>1, <2>2, <2>3, CallsPlaced
<1>3. Clients!TypeOK'
  BY <1>1, <1>2, ClientsNone
     DEF Clients!TypeOK, Clients!table, Clients!Came, Clients!Free, CallOK
<1>4. \A q \in Slot : CallOK(q)'
  <2>1. CallOK(r)'
    BY <1>1, <1>2, ClientsNone, AskingFacts
       DEF CallOK, OwedOK, Clients!TypeOK, Clients!table, Clients!AtTable, Clients!Came, Clients!Free, Clients!Dialog, Clients!Client
  <2> QED  BY <1>2, <2>1 DEF CallOK
<1>5. OwedOK'
  BY <1>1, <1>2, ClientsNone, AskingFacts
     DEF OwedOK, CallOK, Clients!TypeOK, Clients!AtTable, Clients!Came, Clients!Free, Clients!Dialog
<1>6. PageOK'
  <2>1. Clients!Start' = 0
    BY ClientsNone DEF Clients!Start
  <2> QED  BY <2>1 DEF PageOK
<1>7. form["bridge"]'
  BY <1>1, <1>2 DEF Clients!TypeOK, Clients!Dialog
<1> QED  BY <1>2, <1>3, <1>4, <1>5, <1>6, <1>7

LEMMA ClientsNotListed ==
  ASSUME ClientsInv, NEW r \in Slot, Clients!NotListed(r)
  PROVE  ClientsInv'
<1> USE DEF ClientsInv, Clients!NotListed, Clients!dialogs
<1>1. CallOK(r) /\ OneCall /\ OwedOK /\ PageOK
  OBVIOUS
<1>2. /\ calls' \in [Slot -> Clients!Call \cup {NoOne}]
      /\ calls'[r] = NoOne
      /\ \A q \in Slot \ {r} : calls[q] = NoOne /\ calls'[q] = NoOne
      /\ OneCall'
  <2>1. NoOne \in Clients!Call \cup {NoOne}
    BY AskingFacts, ClientsNone DEF Clients!TypeOK, Clients!Call, Clients!Dialog, Clients!Client, Clients!Free
  <2>2. Clients!Place(r, NoOne)
    BY DEF Clients!Done
  <2>3. \A q \in Slot \ {r} : calls[q] = NoOne
    BY ClientsNone DEF Clients!Came, Clients!Free, OneCall
  <2> QED  BY <2>1, <2>2, <2>3, CallsPlaced
<1>3. Clients!TypeOK'
  BY <1>1, <1>2, ClientsNone
     DEF Clients!TypeOK, Clients!table, Clients!Came, Clients!Free, CallOK
<1>4. \A q \in Slot : CallOK(q)'
  <2>1. CallOK(r)'
    BY <1>1, <1>2, ClientsNone, AskingFacts
       DEF CallOK, OwedOK, Clients!TypeOK, Clients!table, Clients!AtTable, Clients!Came, Clients!Free, Clients!Dialog, Clients!Client
  <2> QED  BY <1>2, <2>1 DEF CallOK
<1>5. OwedOK'
  BY <1>1, <1>2, ClientsNone, AskingFacts
     DEF OwedOK, CallOK, Clients!TypeOK, Clients!AtTable, Clients!Came, Clients!Free, Clients!Dialog
<1>6. PageOK'
  BY PageKept
<1>7. form["bridge"]'
  BY <1>1, <1>2 DEF Clients!TypeOK, Clients!Dialog
<1> QED  BY <1>2, <1>3, <1>4, <1>5, <1>6, <1>7

LEMMA ClientsDeleted ==
  ASSUME ClientsInv, NEW r \in Slot, Clients!Deleted(r)
  PROVE  ClientsInv'
<1> USE DEF ClientsInv, Clients!Deleted, Clients!dialogs
<1>1. CallOK(r) /\ OneCall /\ OwedOK /\ PageOK
  OBVIOUS
<1>2. /\ calls' \in [Slot -> Clients!Call \cup {NoOne}]
      /\ calls'[r] = Clients!Asking("list")
      /\ \A q \in Slot \ {r} : calls[q] = NoOne /\ calls'[q] = NoOne
      /\ OneCall'
  <2>1. Clients!Asking("list") \in Clients!Call \cup {NoOne}
    BY AskingFacts, ClientsNone DEF Clients!TypeOK, Clients!Call, Clients!Dialog, Clients!Client, Clients!Free
  <2>2. Clients!Place(r, Clients!Asking("list"))
    BY DEF Clients!Done
  <2>3. \A q \in Slot \ {r} : calls[q] = NoOne
    BY ClientsNone DEF Clients!Came, Clients!Free, OneCall
  <2> QED  BY <2>1, <2>2, <2>3, CallsPlaced
<1>3. Clients!TypeOK'
  BY <1>1, <1>2, ClientsNone
     DEF Clients!TypeOK, Clients!table, Clients!Came, Clients!Free, CallOK
<1>4. \A q \in Slot : CallOK(q)'
  <2>1. CallOK(r)'
    BY <1>1, <1>2, ClientsNone, AskingFacts
       DEF CallOK, OwedOK, Clients!TypeOK, Clients!table, Clients!AtTable, Clients!Came, Clients!Free, Clients!Dialog, Clients!Client
  <2> QED  BY <1>2, <2>1 DEF CallOK
<1>5. OwedOK'
  BY <1>1, <1>2, ClientsNone, AskingFacts
     DEF OwedOK, CallOK, Clients!TypeOK, Clients!AtTable, Clients!Came, Clients!Free, Clients!Dialog
<1>6. PageOK'
  BY PageKept
<1>7. form["bridge"]'
  BY <1>1, <1>2 DEF Clients!TypeOK, Clients!Dialog
<1> QED  BY <1>2, <1>3, <1>4, <1>5, <1>6, <1>7

LEMMA ClientsShowBridge ==
  ASSUME ClientsInv, NEW r \in Slot, Clients!ShowBridge(r)
  PROVE  ClientsInv'
<1> USE DEF ClientsInv, Clients!ShowBridge, Clients!dialogs
<1>1. CallOK(r) /\ OneCall /\ OwedOK /\ PageOK
  OBVIOUS
<1>2. /\ calls' \in [Slot -> Clients!Call \cup {NoOne}]
      /\ calls'[r] = Clients!Asking("catalog")
      /\ \A q \in Slot \ {r} : calls[q] = NoOne /\ calls'[q] = NoOne
      /\ OneCall'
  <2>1. Clients!Asking("catalog") \in Clients!Call \cup {NoOne}
    BY AskingFacts, ClientsNone DEF Clients!TypeOK, Clients!Call, Clients!Dialog, Clients!Client, Clients!Free
  <2>2. Clients!Place(r, Clients!Asking("catalog"))
    BY DEF Clients!Done
  <2>3. \A q \in Slot \ {r} : calls[q] = NoOne
    BY DEF Clients!AtTable, Clients!Free
  <2> QED  BY <2>1, <2>2, <2>3, CallsPlaced
<1>3. Clients!TypeOK'
  BY <1>1, <1>2, ClientsNone
     DEF Clients!TypeOK, Clients!table, Clients!Came, Clients!Free, CallOK, Clients!Opened
<1>4. \A q \in Slot : CallOK(q)'
  <2>1. CallOK(r)'
    BY <1>1, <1>2, ClientsNone, AskingFacts
       DEF CallOK, OwedOK, Clients!TypeOK, Clients!table, Clients!AtTable, Clients!Came, Clients!Free, Clients!Dialog, Clients!Client, Clients!Opened
  <2> QED  BY <1>2, <2>1 DEF CallOK
<1>5. OwedOK'
  BY <1>1, <1>2, ClientsNone, AskingFacts
     DEF OwedOK, CallOK, Clients!TypeOK, Clients!AtTable, Clients!Came, Clients!Free, Clients!Dialog, Clients!Opened
<1>6. PageOK'
  BY PageKept
<1>7. form["bridge"]'
  BY <1>1, <1>2 DEF Clients!TypeOK, Clients!Dialog, Clients!Opened
<1> QED  BY <1>2, <1>3, <1>4, <1>5, <1>6, <1>7

LEMMA ClientsCatalogCame ==
  ASSUME ClientsInv, NEW r \in Slot, Clients!CatalogCame(r)
  PROVE  ClientsInv'
<1> USE DEF ClientsInv, Clients!CatalogCame, Clients!dialogs
<1>1. CallOK(r) /\ OneCall /\ OwedOK /\ PageOK
  OBVIOUS
<1>2. /\ calls' \in [Slot -> Clients!Call \cup {NoOne}]
      /\ calls'[r] = NoOne
      /\ \A q \in Slot \ {r} : calls[q] = NoOne /\ calls'[q] = NoOne
      /\ OneCall'
  <2>1. NoOne \in Clients!Call \cup {NoOne}
    BY AskingFacts, ClientsNone DEF Clients!TypeOK, Clients!Call, Clients!Dialog, Clients!Client, Clients!Free
  <2>2. Clients!Place(r, NoOne)
    BY DEF Clients!Done
  <2>3. \A q \in Slot \ {r} : calls[q] = NoOne
    BY ClientsNone DEF Clients!Came, Clients!Free, OneCall
  <2> QED  BY <2>1, <2>2, <2>3, CallsPlaced
<1>3. Clients!TypeOK'
  BY <1>1, <1>2, ClientsNone
     DEF Clients!TypeOK, Clients!table, Clients!Came, Clients!Free, CallOK, Clients!Dialog
<1>4. \A q \in Slot : CallOK(q)'
  <2>1. CallOK(r)'
    BY <1>1, <1>2, ClientsNone, AskingFacts
       DEF CallOK, OwedOK, Clients!TypeOK, Clients!table, Clients!AtTable, Clients!Came, Clients!Free, Clients!Dialog, Clients!Client
  <2> QED  BY <1>2, <2>1 DEF CallOK
<1>5. OwedOK'
  BY <1>1, <1>2, ClientsNone, AskingFacts
     DEF OwedOK, CallOK, Clients!TypeOK, Clients!AtTable, Clients!Came, Clients!Free, Clients!Dialog
<1>6. PageOK'
  BY PageKept
<1>7. form["bridge"]'
  BY <1>1, <1>2 DEF Clients!TypeOK, Clients!Dialog
<1> QED  BY <1>2, <1>3, <1>4, <1>5, <1>6, <1>7

LEMMA ClientsDeleteClient ==
  ASSUME ClientsInv, NEW r \in Slot, NEW c \in Clients!Client, Clients!DeleteClient(r, c)
  PROVE  ClientsInv'
<1> USE DEF ClientsInv, Clients!DeleteClient, Clients!dialogs
<1>1. CallOK(r) /\ OneCall /\ OwedOK /\ PageOK
  OBVIOUS
<1>2. /\ calls' \in [Slot -> Clients!Call \cup {NoOne}]
      /\ calls'[r] = [Clients!Asking("delete") EXCEPT !.client = c]
      /\ \A q \in Slot \ {r} : calls[q] = NoOne /\ calls'[q] = NoOne
      /\ OneCall'
  <2>1. [Clients!Asking("delete") EXCEPT !.client = c] \in Clients!Call \cup {NoOne}
    BY AskingFacts, ClientsNone DEF Clients!TypeOK, Clients!Call, Clients!Dialog, Clients!Client, Clients!Free
  <2>2. Clients!Place(r, [Clients!Asking("delete") EXCEPT !.client = c])
    BY DEF Clients!Done
  <2>3. \A q \in Slot \ {r} : calls[q] = NoOne
    BY DEF Clients!AtTable, Clients!Free
  <2> QED  BY <2>1, <2>2, <2>3, CallsPlaced
<1>3. Clients!TypeOK'
  BY <1>1, <1>2, ClientsNone
     DEF Clients!TypeOK, Clients!table, Clients!Came, Clients!Free, CallOK, Clients!PageClients
<1>4. \A q \in Slot : CallOK(q)'
  <2>1. CallOK(r)'
    BY <1>1, <1>2, ClientsNone, AskingFacts
       DEF CallOK, OwedOK, Clients!TypeOK, Clients!table, Clients!AtTable, Clients!Came, Clients!Free, Clients!Dialog, Clients!Client, Clients!PageClients
  <2> QED  BY <1>2, <2>1 DEF CallOK
<1>5. OwedOK'
  BY <1>1, <1>2, ClientsNone, AskingFacts
     DEF OwedOK, CallOK, Clients!TypeOK, Clients!AtTable, Clients!Came, Clients!Free, Clients!Dialog, Clients!PageClients
<1>6. PageOK'
  BY PageKept
<1>7. form["bridge"]'
  BY <1>1, <1>2 DEF Clients!TypeOK, Clients!Dialog, Clients!PageClients
<1> QED  BY <1>2, <1>3, <1>4, <1>5, <1>6, <1>7

LEMMA ClientsCreated ==
  ASSUME ClientsInv, NEW r \in Slot, NEW d \in Clients!Dialog, Clients!Created(r, d)
  PROVE  ClientsInv'
<1> USE DEF ClientsInv, Clients!Created, Clients!dialogs
<1>1. CallOK(r) /\ OneCall /\ OwedOK /\ PageOK
  OBVIOUS
<1>2. /\ calls' \in [Slot -> Clients!Call \cup {NoOne}]
      /\ calls'[r] = Clients!Asking("list")
      /\ \A q \in Slot \ {r} : calls[q] = NoOne /\ calls'[q] = NoOne
      /\ OneCall'
  <2>1. Clients!Asking("list") \in Clients!Call \cup {NoOne}
    BY AskingFacts, ClientsNone DEF Clients!TypeOK, Clients!Call, Clients!Dialog, Clients!Client, Clients!Free
  <2>2. Clients!Place(r, Clients!Asking("list"))
    BY DEF Clients!Done
  <2>3. \A q \in Slot \ {r} : calls[q] = NoOne
    BY ClientsNone DEF Clients!Came, Clients!Free, OneCall
  <2> QED  BY <2>1, <2>2, <2>3, CallsPlaced
<1>3. Clients!TypeOK'
  BY <1>1, <1>2, ClientsNone
     DEF Clients!TypeOK, Clients!table, Clients!Came, Clients!Free, CallOK, Clients!Call
<1>4. \A q \in Slot : CallOK(q)'
  <2>1. CallOK(r)'
    BY <1>1, <1>2, ClientsNone, AskingFacts
       DEF CallOK, OwedOK, Clients!TypeOK, Clients!table, Clients!AtTable, Clients!Came, Clients!Free, Clients!Dialog, Clients!Client
  <2> QED  BY <1>2, <2>1 DEF CallOK
<1>5. OwedOK'
  BY <1>1, <1>2, ClientsNone, AskingFacts
     DEF OwedOK, CallOK, Clients!TypeOK, Clients!AtTable, Clients!Came, Clients!Free, Clients!Dialog
<1>6. PageOK'
  BY PageKept
<1>7. form["bridge"]'
  BY <1>1, <1>2 DEF Clients!TypeOK, Clients!Dialog
<1> QED  BY <1>2, <1>3, <1>4, <1>5, <1>6, <1>7

LEMMA ClientsNotCreated ==
  ASSUME ClientsInv, NEW r \in Slot, NEW d \in Clients!Dialog, Clients!NotCreated(r, d)
  PROVE  ClientsInv'
<1> USE DEF ClientsInv, Clients!NotCreated, Clients!dialogs
<1>1. CallOK(r) /\ OneCall /\ OwedOK /\ PageOK
  OBVIOUS
<1>2. /\ calls' \in [Slot -> Clients!Call \cup {NoOne}]
      /\ calls'[r] = NoOne
      /\ \A q \in Slot \ {r} : calls[q] = NoOne /\ calls'[q] = NoOne
      /\ OneCall'
  <2>1. NoOne \in Clients!Call \cup {NoOne}
    BY AskingFacts, ClientsNone DEF Clients!TypeOK, Clients!Call, Clients!Dialog, Clients!Client, Clients!Free
  <2>2. Clients!Place(r, NoOne)
    BY DEF Clients!Done
  <2>3. \A q \in Slot \ {r} : calls[q] = NoOne
    BY ClientsNone DEF Clients!Came, Clients!Free, OneCall
  <2> QED  BY <2>1, <2>2, <2>3, CallsPlaced
<1>3. Clients!TypeOK'
  BY <1>1, <1>2, ClientsNone
     DEF Clients!TypeOK, Clients!table, Clients!Came, Clients!Free, CallOK
<1>4. \A q \in Slot : CallOK(q)'
  <2>1. CallOK(r)'
    BY <1>1, <1>2, ClientsNone, AskingFacts
       DEF CallOK, OwedOK, Clients!TypeOK, Clients!table, Clients!AtTable, Clients!Came, Clients!Free, Clients!Dialog, Clients!Client
  <2> QED  BY <1>2, <2>1 DEF CallOK
<1>5. OwedOK'
  BY <1>1, <1>2, ClientsNone, AskingFacts
     DEF OwedOK, CallOK, Clients!TypeOK, Clients!AtTable, Clients!Came, Clients!Free, Clients!Dialog
<1>6. PageOK'
  BY PageKept
<1>7. form["bridge"]'
  BY <1>1, <1>2 DEF Clients!TypeOK, Clients!Dialog
<1> QED  BY <1>2, <1>3, <1>4, <1>5, <1>6, <1>7

LEMMA ClientsCreate ==
  ASSUME ClientsInv, NEW r \in Slot, NEW d \in Clients!Dialog, Clients!Create(r, d)
  PROVE  ClientsInv'
<1> USE DEF ClientsInv, Clients!Create, Clients!dialogs
<1>1. CallOK(r) /\ OneCall /\ OwedOK /\ PageOK
  OBVIOUS
<1>2. /\ calls' \in [Slot -> Clients!Call \cup {NoOne}]
      /\ calls'[r] = Clients!Asking(d)
      /\ \A q \in Slot \ {r} : calls[q] = NoOne /\ calls'[q] = NoOne
      /\ OneCall'
  <2>1. Clients!Asking(d) \in Clients!Call \cup {NoOne}
    BY AskingFacts, ClientsNone DEF Clients!TypeOK, Clients!Call, Clients!Dialog, Clients!Client, Clients!Free
  <2>2. Clients!Place(r, Clients!Asking(d))
    BY DEF Clients!Done
  <2>3. \A q \in Slot \ {r} : calls[q] = NoOne
    BY DEF CallOK, Clients!Dialog
  <2> QED  BY <2>1, <2>2, <2>3, CallsPlaced
<1>3. Clients!TypeOK'
  BY <1>1, <1>2, ClientsNone
     DEF Clients!TypeOK, Clients!table, Clients!Came, Clients!Free, CallOK
<1>4. \A q \in Slot : CallOK(q)'
  <2>1. CallOK(r)'
    BY <1>1, <1>2, ClientsNone, AskingFacts
       DEF CallOK, OwedOK, Clients!TypeOK, Clients!table, Clients!AtTable, Clients!Came, Clients!Free, Clients!Dialog, Clients!Client
  <2> QED  BY <1>2, <2>1 DEF CallOK
<1>5. OwedOK'
  BY <1>1, <1>2, ClientsNone, AskingFacts
     DEF OwedOK, CallOK, Clients!TypeOK, Clients!AtTable, Clients!Came, Clients!Free, Clients!Dialog
<1>6. PageOK'
  BY PageKept
<1>7. form["bridge"]'
  BY <1>1, <1>2 DEF Clients!TypeOK, Clients!Dialog
<1> QED  BY <1>2, <1>3, <1>4, <1>5, <1>6, <1>7

LEMMA ClientsFail ==
  ASSUME ClientsInv, NEW r \in Slot, Clients!Fail(r)
  PROVE  ClientsInv'
<1> USE DEF ClientsInv, Clients!Fail, Clients!dialogs
<1>1. CallOK(r) /\ OneCall /\ OwedOK /\ PageOK
  OBVIOUS
<1>2. /\ calls' \in [Slot -> Clients!Call \cup {NoOne}]
      /\ calls'[r] = [calls[r] EXCEPT !.answer = "failed"]
      /\ \A q \in Slot \ {r} : calls[q] = NoOne /\ calls'[q] = NoOne
      /\ OneCall'
  <2>1. [calls[r] EXCEPT !.answer = "failed"] \in Clients!Call \cup {NoOne}
    BY AskingFacts, ClientsNone DEF Clients!TypeOK, Clients!Call, Clients!Dialog, Clients!Client, Clients!Free
  <2>2. Clients!Place(r, [calls[r] EXCEPT !.answer = "failed"])
    BY DEF Clients!Done
  <2>3. \A q \in Slot \ {r} : calls[q] = NoOne
    BY ClientsNone DEF Clients!Came, Clients!Free, OneCall
  <2> QED  BY <2>1, <2>2, <2>3, CallsPlaced
<1>3. Clients!TypeOK'
  BY <1>1, <1>2, ClientsNone
     DEF Clients!TypeOK, Clients!table, Clients!Came, Clients!Free, CallOK
<1>4. \A q \in Slot : CallOK(q)'
  <2>1. CallOK(r)'
    BY <1>1, <1>2, ClientsNone, AskingFacts
       DEF CallOK, OwedOK, Clients!TypeOK, Clients!table, Clients!AtTable, Clients!Came, Clients!Free, Clients!Dialog, Clients!Client
  <2> QED  BY <1>2, <2>1 DEF CallOK
<1>5. OwedOK'
  BY <1>1, <1>2, ClientsNone, AskingFacts
     DEF OwedOK, CallOK, Clients!TypeOK, Clients!AtTable, Clients!Came, Clients!Free, Clients!Dialog
<1>6. PageOK'
  BY PageKept
<1>7. form["bridge"]'
  BY <1>1, <1>2 DEF Clients!TypeOK, Clients!Dialog
<1> QED  BY <1>2, <1>3, <1>4, <1>5, <1>6, <1>7

LEMMA ClientsListed ==
  ASSUME ClientsInv, NEW r \in Slot, Clients!Listed(r)
  PROVE  ClientsInv'
<1> USE DEF ClientsInv, Clients!Listed, Clients!dialogs
<1>1. CallOK(r) /\ OneCall /\ OwedOK /\ PageOK
  OBVIOUS
<1>2. /\ calls' \in [Slot -> Clients!Call \cup {NoOne}]
      /\ calls'[r] = NoOne
      /\ \A q \in Slot \ {r} : calls[q] = NoOne /\ calls'[q] = NoOne
      /\ OneCall'
  <2>1. Clients!Place(r, NoOne)
    BY DEF Clients!Done
  <2>2. \A q \in Slot \ {r} : calls[q] = NoOne
    BY DEF Clients!Came, Clients!Free, OneCall
  <2> QED  BY <2>1, <2>2, CallsPlaced
<1>3. /\ calls[r] \in Clients!Call /\ calls[r].op = "list"
      /\ calls[r].rows \in allClients..clients /\ calls[r].rows \in Nat
      /\ calls[r].gone \subseteq 1..calls[r].rows
      /\ allClients \in Nat /\ clients \in Nat
  BY <1>1, ClientsNone DEF CallOK, Clients!Came, Clients!Free, Clients!TypeOK
<1>4. /\ allClients' = calls[r].rows /\ marked' = calls[r].gone
      /\ filteredClients' = 1..calls[r].rows
      /\ UNCHANGED <<clients, revoked, currentPage, modal, form, button, revealed, owed>>
  OBVIOUS
<1>5. Clients!TypeOK'
  BY <1>2, <1>3, <1>4 DEF Clients!TypeOK
<1>6. \A q \in Slot : CallOK(q)'
  BY <1>2 DEF CallOK
<1>7. OwedOK'
  BY <1>1, <1>2, <1>3, <1>4 DEF OwedOK, Clients!Dialog
<1>8. PageOK'
  <2>1. Cardinality(filteredClients) \in Nat /\ Cardinality(filteredClients) <= allClients
    <3>1. IsFiniteSet(1..allClients) /\ Cardinality(1..allClients) = allClients
      BY <1>3, FS_Interval
    <3>2. filteredClients \in SUBSET (1..allClients)
      BY DEF Clients!TypeOK
    <3> QED  BY <3>1, <3>2, FS_Subset, FS_CardinalityType
  <2>2. Cardinality(filteredClients') = calls[r].rows
    <3>1. /\ 1 \in Int /\ calls[r].rows \in Int
          /\ calls[r].rows = IF 1 > calls[r].rows THEN 0 ELSE calls[r].rows - 1 + 1
      BY <1>3
    <3>2. Cardinality(1..calls[r].rows) = calls[r].rows
      BY <3>1, FS_Interval
    <3> QED  BY <1>4, <3>2
  <2>3. Clients!Start' = Clients!Start /\ Clients!Start \in Nat
    BY <1>4, ClientsNone DEF Clients!Start, Clients!TypeOK
  <2> HIDE DEF Clients!Listed
  <2> QED  BY <1>1, <1>3, <2>1, <2>2, <2>3 DEF PageOK
<1>9. form["bridge"]'
  BY <1>4
<1> QED  BY <1>2, <1>5, <1>6, <1>7, <1>8, <1>9

LEMMA ClientsAnswer ==
  ASSUME ClientsInv, NEW r \in Slot, Clients!Answer(r)
  PROVE  ClientsInv'
<1> USE DEF ClientsInv
<1>1. /\ CallOK(r) /\ OneCall /\ OwedOK /\ PageOK
      /\ calls[r] \in Clients!Call /\ calls[r] # NoOne /\ calls[r].answer = "none"
      /\ \A q \in Slot \ {r} : calls[q] = NoOne
      /\ UNCHANGED <<allClients, filteredClients, currentPage, marked,
                     modal, form, button, revealed>>
  BY DEF Clients!Answer, Clients!table, Clients!dialogs, Clients!Free, Clients!TypeOK,
         OneCall
<1>2. PageOK' /\ form["bridge"]'
  BY <1>1, PageKept DEF Clients!table
<1>3. CASE /\ calls[r].op \in Clients!Dialog /\ clients < Most
           /\ clients' = clients + 1 /\ owed' = owed \cup {clients'}
           /\ Clients!Place(r, [calls[r] EXCEPT !.answer = "ok", !.client = clients'])
           /\ UNCHANGED revoked
  <2> DEFINE new == [calls[r] EXCEPT !.answer = "ok", !.client = clients']
  <2>1. clients \in Nat /\ clients' \in 1..Most /\ clients' \in 0..Most
    BY <1>3, ClientsNone DEF Clients!TypeOK
  <2>2. new \in Clients!Call
    BY <1>1, <2>1 DEF Clients!Call, Clients!Client
  <2>3. new # NoOne /\ new.op = calls[r].op /\ new.answer = "ok" /\ new.client = clients'
    BY <1>1, <2>2, ClientsNone DEF Clients!Call
  <2> HIDE DEF new
  <2>4. /\ calls' \in [Slot -> Clients!Call \cup {NoOne}] /\ calls'[r] = new
        /\ \A q \in Slot \ {r} : calls[q] = NoOne /\ calls'[q] = NoOne
        /\ OneCall'
    BY <1>1, <1>3, <2>2, CallsPlaced DEF new
  <2>5. owed = {} /\ owed' = {clients'}
    BY <1>1, <1>3 DEF CallOK
  <2>6. Clients!TypeOK'
    BY <1>1, <1>3, <2>1, <2>4, <2>5 DEF Clients!TypeOK
  <2>7. CallOK(r)'
    BY <1>1, <1>3, <2>1, <2>3, <2>4, <2>5 DEF CallOK, Clients!Dialog
  <2>8. (\A q \in Slot : CallOK(q)') /\ OwedOK'
    BY <1>3, <2>3, <2>4, <2>7 DEF CallOK, OwedOK
  <2> QED  BY <1>2, <2>4, <2>6, <2>8
<1>4. CASE /\ calls[r].op = "delete"
           /\ revoked' = revoked \cup {calls[r].client}
           /\ Clients!Place(r, [calls[r] EXCEPT !.answer = "ok"])
           /\ UNCHANGED <<clients, owed>>
  <2> DEFINE new == [calls[r] EXCEPT !.answer = "ok"]
  <2>1. new \in Clients!Call
    BY <1>1 DEF Clients!Call
  <2>2. new # NoOne /\ new.op = "delete" /\ new.client = calls[r].client
    BY <1>1, <1>4, <2>1, ClientsNone DEF Clients!Call
  <2> HIDE DEF new
  <2>3. /\ calls' \in [Slot -> Clients!Call \cup {NoOne}] /\ calls'[r] = new
        /\ \A q \in Slot \ {r} : calls[q] = NoOne /\ calls'[q] = NoOne
        /\ OneCall'
    BY <1>1, <1>4, <2>1, CallsPlaced DEF new
  <2>4. calls[r].client \in 1..clients
    BY <1>1, <1>4 DEF CallOK
  <2>5. Clients!TypeOK'
    BY <1>1, <1>4, <2>3, <2>4 DEF Clients!TypeOK
  <2>6. CallOK(r)'
    BY <1>1, <1>4, <2>2, <2>3, <2>4 DEF CallOK, Clients!Dialog
  <2>7. (\A q \in Slot : CallOK(q)') /\ OwedOK'
    BY <1>1, <1>4, <2>2, <2>3, <2>6 DEF CallOK, OwedOK, Clients!Dialog
  <2> QED  BY <1>2, <2>3, <2>5, <2>7
<1>5. CASE /\ calls[r].op \in {"list", "catalog"}
           /\ Clients!Place(r, [calls[r] EXCEPT !.answer = "ok", !.rows = clients,
                                                !.gone = revoked])
           /\ UNCHANGED <<clients, revoked, owed>>
  <2> DEFINE new == [calls[r] EXCEPT !.answer = "ok", !.rows = clients, !.gone = revoked]
  <2>1. /\ clients \in 0..Most /\ revoked \subseteq 1..clients
        /\ revoked \in SUBSET Clients!Client
    BY ClientsNone DEF Clients!TypeOK, Clients!Client
  <2>2. new \in Clients!Call
    BY <1>1, <2>1 DEF Clients!Call
  <2>3. new # NoOne /\ new.op = calls[r].op /\ new.rows = clients /\ new.gone = revoked
    BY <1>1, <2>2, ClientsNone DEF Clients!Call
  <2> HIDE DEF new
  <2>4. /\ calls' \in [Slot -> Clients!Call \cup {NoOne}] /\ calls'[r] = new
        /\ \A q \in Slot \ {r} : calls[q] = NoOne /\ calls'[q] = NoOne
        /\ OneCall'
    BY <1>1, <1>5, <2>2, CallsPlaced DEF new
  <2>5. Clients!TypeOK'
    BY <1>1, <1>5, <2>4 DEF Clients!TypeOK
  <2>6. CallOK(r)'
    <3>1. clients \in allClients..clients
      BY ClientsNone DEF Clients!TypeOK
    <3> QED  BY <1>1, <1>5, <2>1, <2>3, <2>4, <3>1 DEF CallOK, Clients!Dialog
  <2>7. (\A q \in Slot : CallOK(q)') /\ OwedOK'
    BY <1>1, <1>5, <2>3, <2>4, <2>6 DEF CallOK, OwedOK, Clients!Dialog
  <2> QED  BY <1>2, <2>4, <2>5, <2>7
<1> QED  BY <1>3, <1>4, <1>5 DEF Clients!Answer

\* Steps that leave the calls alone.
LEMMA ClientsElsewhere ==
  ASSUME ClientsInv, Clients!Elsewhere
  PROVE  ClientsInv'
<1> USE DEF ClientsInv, Clients!Elsewhere, Clients!dialogs
<1>1. clients \in Nat /\ clients' = clients + 1 /\ clients' \in 0..Most
  BY ClientsNone DEF Clients!TypeOK
<1>2. Clients!TypeOK'
  BY <1>1 DEF Clients!TypeOK, Clients!table
<1>3. \A q \in Slot : CallOK(q)'
  BY <1>1 DEF CallOK, Clients!TypeOK, Clients!table
<1>4. OneCall' /\ OwedOK'
  BY DEF OneCall, OwedOK
<1>5. PageOK' /\ form["bridge"]'
  BY PageKept
<1> QED  BY <1>2, <1>3, <1>4, <1>5

LEMMA ClientsShowAdd ==
  ASSUME ClientsInv, Clients!ShowAdd
  PROVE  ClientsInv'
<1> USE DEF ClientsInv, Clients!ShowAdd, Clients!Opened
<1>1. modal = "none" /\ (\A r \in Slot : calls[r] = NoOne) /\ owed = {}
  BY DEF Clients!AtTable, Clients!Free, OwedOK
<1>2. Clients!TypeOK'
  BY DEF Clients!TypeOK, Clients!table, Clients!Dialog
<1>3. (\A q \in Slot : CallOK(q)') /\ OneCall' /\ OwedOK'
  BY <1>1 DEF CallOK, OneCall, OwedOK
<1>4. PageOK' /\ form["bridge"]'
  BY PageKept DEF Clients!TypeOK, Clients!Dialog
<1> QED  BY <1>2, <1>3, <1>4

LEMMA ClientsCloseDialog ==
  ASSUME ClientsInv, Clients!CloseDialog
  PROVE  ClientsInv'
<1> USE DEF ClientsInv, Clients!CloseDialog
<1>1. \A r \in Slot : calls[r] # NoOne => calls[r].op \notin Clients!Dialog
  BY DEF Clients!UnderWay, Clients!Free
<1>2. modal' = "none" /\ owed' = {}
  BY <1>1 DEF OwedOK
<1>3. Clients!TypeOK'
  BY <1>2 DEF Clients!TypeOK, Clients!table
<1>4. \A q \in Slot : CallOK(q)'
  BY <1>1, <1>2 DEF CallOK, Clients!table
<1>5. OneCall' /\ OwedOK'
  BY <1>2 DEF OneCall, OwedOK
<1>6. PageOK' /\ form["bridge"]'
  BY PageKept
<1> QED  BY <1>3, <1>4, <1>5, <1>6

\* Steps that only change what is found, or the page.
LEMMA TableStep ==
  ASSUME ClientsInv, Clients!AtTable,
         UNCHANGED <<clients, revoked, allClients, marked, Clients!dialogs, calls, owed>>,
         filteredClients' \subseteq 1..allClients, currentPage' \in Nat \ {0}, PageOK'
  PROVE  ClientsInv'
<1> USE DEF ClientsInv, Clients!dialogs
<1>1. Clients!TypeOK'
  BY DEF Clients!TypeOK
<1>2. (\A q \in Slot : CallOK(q)') /\ OneCall' /\ OwedOK'
  BY DEF CallOK, OneCall, OwedOK, Clients!AtTable, Clients!Free
<1> QED  BY <1>1, <1>2

LEMMA ClientsFilter ==
  ASSUME ClientsInv, NEW found \in Searches, Clients!FilterClients(found)
  PROVE  ClientsInv'
<1>1. Clients!Start' = 0
  BY ClientsNone DEF Clients!FilterClients, Clients!Start
<1>2. PageOK'
  BY <1>1 DEF PageOK
<1> QED  BY <1>2, TableStep DEF Clients!FilterClients

LEMMA ClientsPages ==
  ASSUME ClientsInv, Clients!PrevPage \/ Clients!NextPage
  PROVE  ClientsInv'
<1>1. /\ currentPage \in Nat /\ currentPage # 0 /\ PerPage \in Nat /\ PerPage # 0
      /\ filteredClients \subseteq 1..allClients
      /\ Cardinality(filteredClients) \in Nat
  <2>1. allClients \in Nat /\ filteredClients \in SUBSET (1..allClients)
    BY ClientsNone DEF ClientsInv, Clients!TypeOK
  <2>2. IsFiniteSet(1..allClients)
    BY <2>1, FS_Interval
  <2>3. Cardinality(filteredClients) \in Nat
    BY <2>1, <2>2, FS_Subset, FS_CardinalityType
  <2> QED  BY <2>1, <2>3, ClientsNone DEF ClientsInv, Clients!TypeOK
<1>2. CASE Clients!PrevPage
  <2>1. currentPage > 1 /\ currentPage' = currentPage - 1 /\ filteredClients' = filteredClients
    BY <1>2 DEF Clients!PrevPage
  <2>2. \A i, j \in Nat : (i + 1) * j = i * j + j /\ i * j \in Nat
    OBVIOUS
  <2>3. PICK i \in Nat : currentPage = i + 2
    <3>1. currentPage - 2 \in Nat /\ currentPage = (currentPage - 2) + 2
      BY <1>1, <2>1
    <3> QED  BY <3>1
  <2>4. Clients!Start' = i * PerPage /\ Clients!Start = (i + 1) * PerPage
    BY <2>1, <2>3 DEF Clients!Start
  <2>5. i * PerPage \in Nat /\ Clients!Start = i * PerPage + PerPage
    BY <1>1, <2>2, <2>3, <2>4
  <2>6. Clients!Start' < Clients!Start /\ Clients!Start # 0
    <3> DEFINE before == i * PerPage
    <3>1. before \in Nat /\ Clients!Start' = before /\ Clients!Start = before + PerPage
      BY <2>4, <2>5
    <3> HIDE DEF before
    <3> QED  BY <1>1, <3>1
  <2>7. PageOK'
    <3>1. Clients!Start' \in Nat /\ Clients!Start \in Nat
      BY <1>1, <2>4, <2>5
    <3>2. Clients!Start < Cardinality(filteredClients)
      BY <2>6 DEF ClientsInv, PageOK
    <3>3. Clients!Start' < Cardinality(filteredClients)'
      BY <1>1, <2>1, <2>6, <3>1, <3>2
    <3> QED  BY <3>3 DEF PageOK
  <2> QED  BY <1>1, <1>2, <2>1, <2>7, TableStep DEF Clients!PrevPage
<1>3. CASE Clients!NextPage
  <2>1. /\ Clients!End < Cardinality(filteredClients) /\ currentPage' = currentPage + 1
        /\ filteredClients' = filteredClients
    BY <1>3, CardinalityFacts DEF Clients!NextPage
  <2>2. \A i, j \in Nat : (i + 1) * j = i * j + j
    OBVIOUS
  <2>3. PICK i \in Nat : currentPage = i + 1
    <3>1. currentPage - 1 \in Nat /\ currentPage = (currentPage - 1) + 1
      BY <1>1
    <3> QED  BY <3>1
  <2>4. Clients!Start' = (i + 1) * PerPage /\ Clients!End = i * PerPage + PerPage
    BY <2>1, <2>3 DEF Clients!Start, Clients!End
  <2>5. Clients!Start' = Clients!End
    BY <1>1, <2>2, <2>3, <2>4
  <2>6. PageOK'
    BY <2>1, <2>5 DEF PageOK
  <2> QED  BY <1>1, <1>3, <2>1, <2>6, TableStep DEF Clients!NextPage
<1> QED  BY <1>2, <1>3

LEMMA ClientsInit == ASSUME Clients!Init PROVE ClientsInv
<1> USE DEF Clients!Init
<1>1. Clients!TypeOK
  BY ClientsNone DEF Clients!TypeOK
<1>2. (\A r \in Slot : CallOK(r)) /\ OneCall /\ OwedOK
  BY DEF CallOK, OneCall, OwedOK
<1>3. Clients!Start = 0
  BY ClientsNone DEF Clients!Start
<1>4. PageOK /\ form["bridge"]
  BY <1>3 DEF PageOK, Clients!Dialog
<1> QED  BY <1>1, <1>2, <1>4 DEF ClientsInv

\* Every step of the clients page keeps its invariant.
LEMMA ClientsStep ==
  ASSUME ClientsInv, Clients!Next
  PROVE  ClientsInv'
<1>1. ASSUME NEW r \in Slot, Clients!Answer(r) \/ Clients!Fail(r) PROVE ClientsInv'
  BY <1>1, ClientsAnswer, ClientsFail
<1>2. ASSUME NEW r \in Slot,
             \/ Clients!LoadClients(r) \/ Clients!Listed(r) \/ Clients!NotListed(r)
             \/ Clients!Deleted(r) \/ Clients!ShowBridge(r) \/ Clients!CatalogCame(r)
      PROVE  ClientsInv'
  BY <1>2, ClientsLoadClients, ClientsListed, ClientsNotListed, ClientsDeleted,
     ClientsShowBridge, ClientsCatalogCame
<1>3. ASSUME NEW r \in Slot, NEW c \in Clients!Client, Clients!DeleteClient(r, c)
      PROVE  ClientsInv'
  BY <1>3, ClientsDeleteClient
<1>4. ASSUME NEW r \in Slot, NEW d \in Clients!Dialog,
             Clients!Create(r, d) \/ Clients!Created(r, d) \/ Clients!NotCreated(r, d)
      PROVE  ClientsInv'
  BY <1>4, ClientsCreate, ClientsCreated, ClientsNotCreated
<1>5. ASSUME NEW found \in Searches, Clients!FilterClients(found) PROVE ClientsInv'
  BY <1>5, ClientsFilter
<1>6. ASSUME \/ Clients!PrevPage \/ Clients!NextPage \/ Clients!ShowAdd
             \/ Clients!CloseDialog \/ Clients!Elsewhere
      PROVE  ClientsInv'
  BY <1>6, ClientsPages, ClientsShowAdd, ClientsCloseDialog, ClientsElsewhere
<1> QED  BY <1>1, <1>2, <1>3, <1>4, <1>5, <1>6 DEF Clients!Next

\* What the invariant says in the words of the properties.
LEMMA SecretsSeen == ASSUME ClientsInv PROVE Clients!SecretsAreShown
<1> SUFFICES ASSUME NEW c \in owed
             PROVE  \/ \E r \in Slot : /\ calls[r] # NoOne /\ calls[r].op \in Clients!Dialog
                                       /\ calls[r].client = c
                    \/ modal # "none" /\ revealed[modal] = c
  BY DEF Clients!SecretsAreShown, Clients!Free
<1>1. CASE \E r \in Slot : calls[r] # NoOne /\ calls[r].op \in Clients!Dialog
  BY <1>1 DEF ClientsInv, CallOK
<1>2. CASE ~\E r \in Slot : calls[r] # NoOne /\ calls[r].op \in Clients!Dialog
  BY <1>2 DEF ClientsInv, OwedOK
<1> QED  BY <1>1, <1>2

LEMMA RowsShown == ASSUME ClientsInv PROVE Clients!PageHasRows
<1> SUFFICES ASSUME filteredClients # {} PROVE Clients!PageClients # {}
  BY DEF Clients!PageHasRows
<1>1. allClients \in Nat /\ filteredClients \in SUBSET (1..allClients)
  BY ClientsNone DEF ClientsInv, Clients!TypeOK
<1>2. Cardinality(filteredClients) \in Nat /\ Cardinality(filteredClients) # 0
  <2>1. IsFiniteSet(1..allClients)
    BY <1>1, FS_Interval
  <2>2. IsFiniteSet(filteredClients)
    BY <1>1, <2>1, FS_Subset
  <2> QED  BY <2>2, FS_CardinalityType, FS_EmptySet
<1>3. Clients!Start \in Nat
  <2>1. currentPage - 1 \in Nat /\ PerPage \in Nat
    BY ClientsNone DEF ClientsInv, Clients!TypeOK
  <2>2. \A i, j \in Nat : i * j \in Nat
    OBVIOUS
  <2> QED  BY <2>1, <2>2 DEF Clients!Start
<1>4. Clients!Start + 1 \in 1..Cardinality(filteredClients)
  BY <1>2, <1>3 DEF ClientsInv, PageOK
<1>5. PICK c \in filteredClients :
        Cardinality({d \in filteredClients : d <= c}) = Clients!Start + 1
  BY <1>1, <1>4, RankFacts
<1>6. Clients!Start + 1 \in (Clients!Start + 1)..Clients!End
  BY <1>3, ClientsNone DEF Clients!End
<1>7. c \in Clients!PageClients
  <2>1. Clients!Cardinality({d \in filteredClients : d <= c})
          \in (Clients!Start + 1)..Clients!End
    BY <1>5, <1>6, CardinalityFacts, Zenon
  <2> QED  BY <2>1, Zenon DEF Clients!PageClients
<1> QED  BY <1>7

-----------------------------------------------------------------------------
(* A behaviour exercises one of them, and the invariant of that one holds.   *)

\* Of the profiles and the clients page, whatever the users of the forms do.
OthersInv ==
  /\ exercised = "profile" => ProfilesInv
  /\ exercised = "clients" => ClientsInv

EditorsInv ==
  /\ exercised = "persona" => IInv
  /\ exercised = "form" => FormsInv
  /\ OthersInv

LEMMA FormsSame == ASSUME FormsInv, UNCHANGED forms PROVE FormsInv'
BY DEF forms, FormsInv, Forms!TypeOK, RequestOK, OneRequest, ShowsItsOwn

LEMMA ProfilesSame == ASSUME ProfilesInv, UNCHANGED profiles PROVE ProfilesInv'
BY DEF profiles, ProfilesInv, Profiles!TypeOK, AwaitedOK, JobsOK, DialogOK,
       Profiles!In, Profiles!Restored

LEMMA ClientsSame == ASSUME ClientsInv, UNCHANGED page PROVE ClientsInv'
BY DEF page, ClientsInv, Clients!TypeOK, CallOK, OneCall, OwedOK, PageOK, Clients!Start

LEMMA EditorsInitially == ASSUME EditorsInit PROVE EditorsInv
BY InitInv, FormsInit, ProfilesInit, ClientsInit DEF EditorsInit, EditorsInv, OthersInv

LEMMA OthersStep ==
  ASSUME OthersInv, [EditorsNext]_<<vars, forms, profiles, page, exercised>>
  PROVE  OthersInv'
<1>1. exercised' = exercised
  BY DEF EditorsNext
<1>2. ASSUME exercised = "profile" PROVE ProfilesInv'
  <2>1. ProfilesInv /\ (Profiles!Next \/ UNCHANGED profiles)
    BY <1>2 DEF OthersInv, EditorsNext
  <2> QED  BY <2>1, ProfilesStep, ProfilesSame
<1>3. ASSUME exercised = "clients" PROVE ClientsInv'
  <2>1. ClientsInv /\ (Clients!Next \/ UNCHANGED page)
    BY <1>3 DEF OthersInv, EditorsNext
  <2> QED  BY <2>1, ClientsStep, ClientsSame
<1> QED  BY <1>1, <1>2, <1>3 DEF OthersInv

LEMMA EditorsStep ==
  ASSUME EditorsInv, Patient, [EditorsNext]_<<vars, forms, profiles, page, exercised>>
  PROVE  EditorsInv'
<1>1. exercised' = exercised
  BY DEF EditorsNext
<1>2. ASSUME exercised = "persona" PROVE IInv'
  <2>1. IInv /\ [Next]_vars
    BY <1>2 DEF EditorsInv, EditorsNext
  <2> QED  BY <2>1, StepInv
<1>3. ASSUME exercised = "form" PROVE FormsInv'
  <2>1. FormsInv /\ (Forms!Next \/ UNCHANGED forms)
    BY <1>3 DEF EditorsInv, EditorsNext
  <2> QED  BY <2>1, FormsStep, FormsSame
<1>4. OthersInv'
  BY OthersStep DEF EditorsInv
<1> QED  BY <1>1, <1>2, <1>3, <1>4 DEF EditorsInv

\* What changes the profiles is a step of theirs, from their invariant.
LEMMA ProfileSteps ==
  ASSUME OthersInv, [EditorsNext]_<<vars, forms, profiles, page, exercised>>,
         <<stored, jobs, awaited>>' # <<stored, jobs, awaited>>
  PROVE  ProfilesInv /\ Profiles!Next
BY DEF OthersInv, EditorsNext, profiles

LEMMA OthersInvariant == EditorsSpec => []OthersInv
<1>1. EditorsInit => OthersInv
  BY EditorsInitially DEF EditorsInv
<1>2. OthersInv /\ [EditorsNext]_<<vars, forms, profiles, page, exercised>> => OthersInv'
  BY OthersStep
<1> QED  BY <1>1, <1>2, PTL DEF EditorsSpec

LEMMA EditorsInvariant == ASSUME Patient PROVE EditorsSpec => []EditorsInv
<1>1. EditorsInit => EditorsInv
  BY EditorsInitially
<1>2. EditorsInv /\ [EditorsNext]_<<vars, forms, profiles, page, exercised>> => EditorsInv'
  BY EditorsStep
<1> QED  BY <1>1, <1>2, PTL DEF EditorsSpec

\* The persona editor, the forms, the profiles with their dialogs and the
\* clients page keep their form, whoever does what, when the user of a form that
\* is not locked while it loads waits (MCEditors).
THEOREM EditorsTypeCorrect == ASSUME Patient PROVE EditorsSpec => []EditorsTypeOK
<1>1. EditorsInv => EditorsTypeOK
  <2>1. IInv => TypeOK
    BY DEF IInv, PersonasOK, EditorOK, UserOK, FlowOK, FillingOK, OpenOK, Open, TypeOK, In
  <2> QED  BY <2>1 DEF EditorsInv, OthersInv, EditorsTypeOK, FormsInv, ProfilesInv, ClientsInv
<1> QED  BY <1>1, EditorsInvariant, PTL

\* A form that can be read or saved shows its subject, or what the user typed,
\* for any clients, snapshots and personas and any number of requests: for a
\* hasty user of the policy and the pairing dialog, and a patient user of the
\* other forms (loadPolicy, generatePairing, loadClientACL, diffConfigBackup).
THEOREM FormsShowTheirOwn == ASSUME Patient PROVE EditorsSpec => []UsableFormBelongs
<1>1. EditorsInv => UsableFormBelongs
  BY FormsBelong DEF EditorsInv, UsableFormBelongs
<1> QED  BY <1>1, EditorsInvariant, PTL

\* Nothing is saved from a dialog in which no test succeeded, for any profiles
\* and any number of dialogs, tests under way and changes elsewhere, unless a test
\* of an earlier dialog was under way when this one opened (saveProfile,
\* testProfileInModal).
THEOREM TestsComeFirst == EditorsSpec => TestedBeforeSaved
<1>1. OthersInv /\ [EditorsNext]_<<vars, forms, profiles, page, exercised>> =>
        [Profiles!Saving => tested \/ mixed]_awaited
  <2> SUFFICES ASSUME OthersInv, [EditorsNext]_<<vars, forms, profiles, page, exercised>>,
                      awaited' # awaited, Profiles!Saving
               PROVE  tested \/ mixed
    OBVIOUS
  <2> QED  BY ProfileSteps, SaveStep
<1> QED  BY <1>1, OthersInvariant, PTL DEF EditorsSpec, TestedBeforeSaved,
            Profiles!TestedBeforeSaved

\* A redis profile is saved with the password the user typed or the list showed
\* for it, not with that of a profile edited before, whatever was opened, closed
\* and tested before and is still under way (showEditProfileModal, saveProfile).
THEOREM SavesHoldTheirOwn == EditorsSpec => SavesItsOwn
<1>1. OthersInv /\ [EditorsNext]_<<vars, forms, profiles, page, exercised>> =>
        [Profiles!Saving /\ module = "redis" =>
           \/ entered
           \/ named = None /\ awaited'.content.password = Default
           \/ named # None /\ listed[named].module = "redis"
              /\ awaited'.content.password = listed[named].password
           \/ named # None /\ listed[named].module = "file"]_awaited
  <2> SUFFICES ASSUME OthersInv, [EditorsNext]_<<vars, forms, profiles, page, exercised>>,
                      awaited' # awaited, Profiles!Saving, module = "redis"
               PROVE  \/ entered
                      \/ named = None /\ awaited'.content.password = Default
                      \/ named # None /\ listed[named].module = "redis"
                         /\ awaited'.content.password = listed[named].password
                      \/ named # None /\ listed[named].module = "file"
    OBVIOUS
  <2> QED  BY ProfileSteps, SaveStep
<1> QED  BY <1>1, OthersInvariant, PTL DEF EditorsSpec, SavesItsOwn,
            Profiles!SavesItsOwn

\* A password the user left alone is still the profile's after the save, also
\* when it was changed elsewhere after the page was loaded, or the answer is
\* lost; unless it changes between the handler's reading and its writing
\* (update_database_profile).
THEOREM PasswordsAreKept == EditorsSpec => UntouchedPasswordStays
<1>1. OthersInv /\ [EditorsNext]_<<vars, forms, profiles, page, exercised>> =>
        [\A n \in Profile :
           /\ Profiles!In("update") /\ awaited.name = n /\ awaited.content.password = Redacted
           /\ jobs["here"] # None /\ jobs'["here"] = None /\ jobs["here"].old = stored[n]
           /\ stored[n] # None /\ stored[n].module = "redis" /\ stored[n].password # Default
           => stored'[n].password = stored[n].password]_<<stored, jobs>>
  <2> SUFFICES ASSUME OthersInv, [EditorsNext]_<<vars, forms, profiles, page, exercised>>,
                      <<stored, jobs>>' # <<stored, jobs>>, NEW n \in Profile,
                      Profiles!In("update"), awaited.name = n,
                      awaited.content.password = Redacted,
                      jobs["here"] # None, jobs'["here"] = None,
                      jobs["here"].old = stored[n], stored[n] # None,
                      stored[n].module = "redis", stored[n].password # Default
               PROVE  stored'[n].password = stored[n].password
    OBVIOUS
  <2> QED  BY ProfileSteps, PasswordStep
<1> QED  BY <1>1, OthersInvariant, PTL DEF EditorsSpec, UntouchedPasswordStays,
            Profiles!UntouchedPasswordStays

\* The secrets of a client that was created from the page are on their way or on
\* the screen until the user closes them, for any number of clients and calls
\* (addClient, provisionBridge).
THEOREM SecretsAreSeen == EditorsSpec => []SecretsAreShown
<1>1. OthersInv => SecretsAreShown
  BY SecretsSeen DEF OthersInv, SecretsAreShown
<1> QED  BY <1>1, OthersInvariant, PTL

\* The table shows a row whenever the search finds a client, for any length of
\* the list and of a page (filterClients, renderClientsTable).
THEOREM PagesHaveRows == EditorsSpec => []PageHasRows
<1>1. OthersInv => PageHasRows
  BY RowsShown DEF OthersInv, PageHasRows
<1> QED  BY <1>1, OthersInvariant, PTL
=============================================================================
