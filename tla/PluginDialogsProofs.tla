------------------------- MODULE PluginDialogsProofs -------------------------
(***************************************************************************)
(* What TLAPS proves of PluginDialogs, for any packages and any number of  *)
(* operations under way.                                                   *)
(***************************************************************************)
EXTENDS PluginDialogs, SequenceTheorems, TLAPS

\* A stack of dialogs, each open once.
IsStack(s) == s \in Seq(Dialog) /\ IsInjective(s)

LEMMA StackFacts ==
  ASSUME NEW s, IsStack(s)
  PROVE  /\ s \in Seq(Dialog) /\ Len(s) \in Nat /\ DOMAIN s = 1..Len(s)
         /\ \A i \in 1..Len(s) : s[i] \in Dialog
         /\ \A i, j \in 1..Len(s) : s[i] = s[j] => i = j
         /\ Range(s) = {s[i] : i \in 1..Len(s)}
BY DEF IsStack, IsInjective, Range

\* A dialog that opens is added, and is open once.
LEMMA PushOK ==
  ASSUME NEW s, IsStack(s), NEW d \in Dialog
  PROVE  IsStack(Push(s, d)) /\ Range(Push(s, d)) = Range(s) \cup {d}
<1>1. CASE d \in Range(s)  BY <1>1 DEF Push
<1>2. CASE d \notin Range(s)
  <2> DEFINE t == Append(s, d)
  <2>1. /\ t \in Seq(Dialog) /\ Len(t) = Len(s) + 1 /\ DOMAIN t = 1..(Len(s) + 1)
        /\ \A i \in 1..Len(s) : t[i] = s[i]
        /\ t[Len(s) + 1] = d
    BY StackFacts
  <2>2. IsInjective(t)
    <3> SUFFICES ASSUME NEW i \in 1..(Len(s) + 1), NEW j \in 1..(Len(s) + 1), t[i] = t[j]
                 PROVE  i = j
      BY <2>1 DEF IsInjective
    <3>1. ASSUME NEW k \in 1..Len(s) PROVE s[k] # d
      BY <1>2, StackFacts
    <3> QED  BY <2>1, <3>1, StackFacts
  <2>3. Range(t) = Range(s) \cup {d}
    <3>1. Range(t) = {t[i] : i \in 1..(Len(s) + 1)}  BY <2>1 DEF Range
    <3>2. Range(s) = {s[i] : i \in 1..Len(s)} /\ Len(s) \in Nat  BY StackFacts
    <3>3. ASSUME NEW e \in Range(t) PROVE e \in Range(s) \cup {d}
      <4>1. PICK i \in 1..(Len(s) + 1) : e = t[i]  BY <3>1
      <4>2. i \in 1..Len(s) \/ i = Len(s) + 1  BY <3>2
      <4> QED  BY <2>1, <3>2, <4>1, <4>2
    <3>4. ASSUME NEW e \in Range(s) PROVE e \in Range(t)
      <4>1. PICK i \in 1..Len(s) : e = s[i]  BY <3>2
      <4>2. i \in 1..(Len(s) + 1)  BY <3>2
      <4> QED  BY <2>1, <3>1, <4>1, <4>2
    <3>5. d \in Range(t)  BY <2>1, <3>1, <3>2
    <3> QED  BY <3>3, <3>4, <3>5
  <2> QED  BY <1>2, <2>1, <2>2, <2>3 DEF Push, IsStack
<1> QED  BY <1>1, <1>2

\* A dialog that closes is gone, and no other.
LEMMA WithoutOK ==
  ASSUME NEW s, IsStack(s), NEW d
  PROVE  IsStack(Without(s, d)) /\ Range(Without(s, d)) = Range(s) \ {d}
<1>1. CASE d \notin Range(s)  BY <1>1 DEF Without
<1>2. CASE d \in Range(s)
  <2> DEFINE n == Len(s)
             i == CHOOSE k \in 1..n : s[k] = d
             t == RemoveAt(s, i)
  <2>1. n \in Nat /\ i \in 1..n /\ s[i] = d
    BY <1>2, StackFacts
  <2>2. \A k \in 1..n : s[k] \in Dialog
    BY StackFacts
  <2> HIDE DEF n, i
  <2>3. /\ SubSeq(s, 1, i - 1) \in Seq(Dialog)
        /\ Len(SubSeq(s, 1, i - 1)) = i - 1
        /\ \A k \in 1..(i - 1) : SubSeq(s, 1, i - 1)[k] = s[k]
    <3>1. /\ SubSeq(s, 1, i - 1) \in Seq(Dialog)
          /\ Len(SubSeq(s, 1, i - 1)) = IF 1 <= i - 1 THEN i - 1 - 1 + 1 ELSE 0
          /\ \A k \in 1..(i - 1 - 1 + 1) : SubSeq(s, 1, i - 1)[k] = s[1 + k - 1]
      BY <2>1, <2>2, SubSeqProperties
    <3> QED  BY <2>1, <3>1
  <2>4. /\ SubSeq(s, i + 1, n) \in Seq(Dialog)
        /\ Len(SubSeq(s, i + 1, n)) = n - i
        /\ \A k \in 1..(n - i) : SubSeq(s, i + 1, n)[k] = s[k + i]
    <3>1. /\ SubSeq(s, i + 1, n) \in Seq(Dialog)
          /\ Len(SubSeq(s, i + 1, n)) = IF i + 1 <= n THEN n - (i + 1) + 1 ELSE 0
          /\ \A k \in 1..(n - (i + 1) + 1) : SubSeq(s, i + 1, n)[k] = s[i + 1 + k - 1]
      BY <2>1, <2>2, SubSeqProperties
    <3> QED  BY <2>1, <3>1
  <2>5. /\ t \in Seq(Dialog) /\ Len(t) = n - 1
        /\ \A k \in 1..(n - 1) : t[k] = IF k < i THEN s[k] ELSE s[k + 1]
    <3> DEFINE a == SubSeq(s, 1, i - 1)
               b == SubSeq(s, i + 1, n)
    <3>1. t = a \o b  BY DEF RemoveAt, n
    <3> HIDE DEF a, b, t
    <3>2. /\ a \o b \in Seq(Dialog) /\ Len(a \o b) = Len(a) + Len(b)
          /\ \A k \in 1..(Len(a) + Len(b)) :
               (a \o b)[k] = IF k <= Len(a) THEN a[k] ELSE b[k - Len(a)]
      BY <2>3, <2>4, ConcatProperties DEF a, b
    <3>3. /\ Len(a) = i - 1 /\ \A k \in 1..(i - 1) : a[k] = s[k]
          /\ Len(b) = n - i /\ \A k \in 1..(n - i) : b[k] = s[k + i]
      BY <2>3, <2>4 DEF a, b
    <3>4. t \in Seq(Dialog) /\ Len(t) = n - 1  BY <2>1, <3>1, <3>2, <3>3
    <3>5. ASSUME NEW k \in 1..(n - 1), k < i PROVE t[k] = s[k]
      <4>1. k \in 1..(i - 1) /\ k \in 1..(Len(a) + Len(b)) /\ k <= Len(a)
        BY <2>1, <3>3, <3>5
      <4> QED  BY <3>1, <3>2, <3>3, <4>1
    <3>6. ASSUME NEW k \in 1..(n - 1), ~(k < i) PROVE t[k] = s[k + 1]
      <4>1. k - (i - 1) \in 1..(n - i) /\ k - (i - 1) + i = k + 1
        BY <2>1, <3>6
      <4>2. t[k] = b[k - (i - 1)]
        <5>1. /\ k \in 1..(Len(a) + Len(b)) /\ ~(k <= Len(a))
              /\ k - Len(a) = k - (i - 1)
          BY <2>1, <3>3, <3>6
        <5> QED  BY <3>1, <3>2, <5>1
      <4> QED  BY <3>3, <4>1, <4>2
    <3> QED  BY <3>4, <3>5, <3>6
  <2>6. DOMAIN t = 1..(n - 1)  BY <2>1, <2>5
  <2> HIDE DEF t
  <2>7. IsInjective(t)
    <3> SUFFICES ASSUME NEW j \in 1..(n - 1), NEW k \in 1..(n - 1), t[j] = t[k]
                 PROVE  j = k
      BY <2>6 DEF IsInjective
    <3>1. \A a, b \in 1..n : s[a] = s[b] => a = b  BY StackFacts DEF n
    <3> QED  BY <2>1, <2>5, <3>1
  <2>8. Range(t) = Range(s) \ {d}
    <3>1. Range(t) = {t[k] : k \in 1..(n - 1)}  BY <2>6 DEF Range
    <3>2. Range(s) = {s[k] : k \in 1..n} /\ \A a, b \in 1..n : s[a] = s[b] => a = b
      BY StackFacts DEF n
    <3>3. ASSUME NEW e \in Range(t) PROVE e \in Range(s) \ {d}
      <4>1. PICK k \in 1..(n - 1) : e = t[k]  BY <3>1
      <4>2. PICK m \in 1..n : e = s[m] /\ m # i  BY <2>1, <2>5, <4>1
      <4> QED  BY <2>1, <3>2, <4>2
    <3>4. ASSUME NEW e \in Range(s), e # d PROVE e \in Range(t)
      <4>1. PICK m \in 1..n : e = s[m]  BY <3>2
      <4>2. m # i  BY <2>1, <3>4, <4>1
      <4>3. PICK k \in 1..(n - 1) : t[k] = e  
        <5>1. CASE m < i  BY <2>1, <2>5, <4>1, <5>1
        <5>2. CASE m > i
          <6>1. m - 1 \in 1..(n - 1) /\ t[m - 1] = s[m]
            BY <2>1, <2>5, <5>2
          <6> QED  BY <4>1, <6>1
        <5> QED  BY <2>1, <4>2, <5>1, <5>2
      <4> QED  BY <3>1, <4>3
    <3> QED  BY <3>3, <3>4
  <2>9. Without(s, d) = t  BY <1>2 DEF Without, t, i, n
  <2> QED  BY <2>5, <2>7, <2>8, <2>9 DEF IsStack
<1> QED  BY <1>1, <1>2

-----------------------------------------------------------------------------
(* The invariant.                                                            *)

\* The confirm dialog is up as long as there is something to confirm.
DialogsOK ==
  /\ IsStack(stack)
  /\ callback \in Callback \cup {None}
  /\ "confirm" \in Open <=> callback # None
  /\ callback # None /\ callback.do = "install" => callback.package \in Package

MessageIsThePanels == progress.about # None => progress.about \in accepted

ProgressOK ==
  /\ accepted \subseteq Package /\ progress \in Progress
  /\ MessageIsThePanels

\* An install that goes on is one the panel has accepted.
OpOK(op, installed) ==
  /\ op \in Op \cup {None}
  /\ op # None /\ op.kind = "install" =>
       /\ op.package \in Package
       /\ op.step \in {"ok", "timer", "again"} => op.package \in installed

OpsOK ==
  /\ ops \in [Slot -> Op \cup {None}]
  /\ \A s \in Slot : OpOK(ops[s], accepted)

EnableWaits == \E s \in Slot : Is(s, "enable", "timer")

RestartOK ==
  /\ banner \in BOOLEAN /\ reported \subseteq {"install", "change"}
  /\ "change" \in reported => "restart" \in Open \/ banner \/ EnableWaits

IInv == DialogsOK /\ ProgressOK /\ OpsOK /\ RestartOK

Installing(s) == ops[s] # None /\ ops[s].kind = "install"

\* An install that began alone is the only one under way until the next
\* begins, and the dialog is about it.
HeadingOK ==
  /\ overlapped \in BOOLEAN
  /\ ~overlapped =>
       /\ \A s, t \in Slot : Installing(s) /\ Installing(t) => s = t
       /\ \A s \in Slot : Installing(s) =>
            progress.state = "running" /\ progress.named = ops[s].package
       /\ progress.state = "success" => progress.about = progress.named

LEMMA InvImpliesParts ==
  IInv /\ HeadingOK => TypeOK /\ ChangesPromptARestart /\ SuccessIsThePanels
BY DEF IInv, DialogsOK, ProgressOK, OpsOK, RestartOK, HeadingOK, TypeOK,
       ChangesPromptARestart, SuccessIsThePanels, MessageIsThePanels, Told,
       EnableWaits, IsStack, Open

-----------------------------------------------------------------------------
(* What steps have in common.                                                *)

\* A step that does not take the last trace of a reported change.
LEMMA TraceStays ==
  ASSUME RestartOK, banner' \in BOOLEAN, reported' \subseteq {"install", "change"},
         "change" \in reported' =>
           "change" \in reported \/ "restart" \in Open' \/ EnableWaits',
         banner => banner',
         "restart" \in Open => "restart" \in Open' \/ banner',
         EnableWaits => EnableWaits' \/ "restart" \in Open'
  PROVE  RestartOK'
BY DEF RestartOK

LEMMA DialogsStay ==
  ASSUME DialogsOK, UNCHANGED <<stack, callback>>
  PROVE  DialogsOK' /\ Open' = Open
BY DEF DialogsOK, Open

LEMMA OpsStay ==
  ASSUME OpsOK, UNCHANGED <<ops, accepted>>
  PROVE  OpsOK' /\ (EnableWaits => EnableWaits')
BY DEF OpsOK, EnableWaits, Is

LEMMA ProgressStays ==
  ASSUME ProgressOK, UNCHANGED <<progress, accepted>> PROVE ProgressOK'
BY DEF ProgressOK, MessageIsThePanels

LEMMA MessageGoes ==
  ASSUME ProgressOK, accepted' = accepted, Progressing \/ Failing
  PROVE  ProgressOK'
BY DEF ProgressOK, MessageIsThePanels, Progressing, Failing, Progress

\* A dialog that is not the confirm dialog opens.
LEMMA Opens ==
  ASSUME DialogsOK, NEW d \in Dialog \ {"confirm"}, stack' = Pushed(d), callback' = callback
  PROVE  DialogsOK' /\ Open' = Open \cup {d}
BY PushOK DEF DialogsOK, Open, Pushed

\* The confirm dialog opens, for this.
LEMMA Confirms ==
  ASSUME DialogsOK, NEW do, NEW p, [do |-> do, package |-> p] \in Callback,
         do = "install" => p \in Package, Confirming(do, p)
  PROVE  DialogsOK' /\ Open' = Open \cup {"confirm"}
<1>1. IsStack(stack') /\ Open' = Open \cup {"confirm"}
  BY PushOK DEF DialogsOK, Open, Pushed, Confirming, Dialog
<1>2. callback' = [do |-> do, package |-> p] /\ callback' # None
  BY NoneAssumption DEF Confirming
<1> QED  BY <1>1, <1>2 DEF DialogsOK, Open

\* A dialog closes by its own function.
LEMMA Closes ==
  ASSUME DialogsOK, RestartOK, NEW d \in Dialog, Closing(d)
  PROVE  /\ DialogsOK' /\ Open' = Open \ {d}
         /\ banner' \in BOOLEAN /\ (banner => banner')
         /\ "restart" \in Open => "restart" \in Open' \/ banner'
<1>1. IsStack(stack') /\ Open' = Open \ {d}
  BY WithoutOK DEF DialogsOK, Open, Closing
<1> QED  BY <1>1 DEF Closing, DialogsOK, RestartOK, Open

\* One operation begins, goes on or ends.
LEMMA OpStep ==
  ASSUME OpsOK, NEW s \in Slot, NEW op, ops' = [ops EXCEPT ![s] = op],
         OpOK(op, accepted'), accepted \subseteq accepted',
         ~Is(s, "enable", "timer")
  PROVE  OpsOK' /\ (EnableWaits => EnableWaits')
<1>1. ops' \in [Slot -> Op \cup {None}]  BY DEF OpsOK, OpOK
<1>2. ASSUME NEW t \in Slot PROVE ops'[t] = IF t = s THEN op ELSE ops[t]
  BY DEF OpsOK
<1>3. ASSUME NEW t \in Slot PROVE OpOK(ops'[t], accepted')
  BY <1>2 DEF OpsOK, OpOK
<1>4. EnableWaits => EnableWaits'
  BY <1>2 DEF EnableWaits, Is
<1> QED  BY <1>1, <1>3, <1>4 DEF OpsOK

LEMMA Begins ==
  ASSUME OpsOK, NEW s \in Slot, NEW kind \in Kind, NEW p \in Package \cup {None},
         Free(s), Begin(s, kind, p), kind = "install" => p \in Package,
         accepted' = accepted
  PROVE  OpsOK' /\ (EnableWaits => EnableWaits')
<1> DEFINE op == [kind |-> kind, package |-> p, step |-> "ask"]
<1>1. op \in Op  BY DEF Op, Step
<1>2. OpOK(op, accepted')  BY <1>1 DEF OpOK
<1>3. ~Is(s, "enable", "timer")  BY DEF Free, Is
<1> QED  BY <1>2, <1>3, OpStep DEF Begin

LEMMA Ends ==
  ASSUME OpsOK, NEW s \in Slot, End(s), accepted' = accepted, ~Is(s, "enable", "timer")
  PROVE  OpsOK' /\ (EnableWaits => EnableWaits')
<1>1. OpOK(None, accepted')  BY DEF OpOK
<1> QED  BY <1>1, OpStep DEF End

LEMMA GoesOn ==
  ASSUME OpsOK, NEW s \in Slot, NEW step \in Step, Goes(s, step), ops[s] # None,
         ~Is(s, "enable", "timer"), accepted \subseteq accepted',
         ops[s].kind = "install" /\ step \in {"ok", "timer", "again"}
           => ops[s].package \in accepted'
  PROVE  /\ OpsOK' /\ (EnableWaits => EnableWaits')
         /\ ops'[s] # None /\ ops'[s].kind = ops[s].kind /\ ops'[s].step = step
<1> DEFINE op == [ops[s] EXCEPT !.step = step]
<1>1. ops[s] \in Op /\ OpOK(ops[s], accepted) /\ ops \in [Slot -> Op \cup {None}]
  BY DEF OpsOK
<1>2. /\ op \in Op /\ op.kind = ops[s].kind /\ op.package = ops[s].package
      /\ op.step = step
  BY <1>1 DEF Op
<1>3. OpOK(op, accepted')  BY <1>1, <1>2 DEF OpOK
<1>4. ops' = [ops EXCEPT ![s] = op]  BY <1>1 DEF Goes
<1>5. OpsOK' /\ (EnableWaits => EnableWaits')  BY <1>3, <1>4, OpStep
<1>6. ops'[s] = op /\ op # None  BY <1>1, <1>2, <1>4, NoneAssumption
<1> QED  BY <1>2, <1>5, <1>6

\* A change is reported and the prompt for its restart opens.
LEMMA Prompts ==
  ASSUME NEW base, IsStack(base), Prompt(base)
  PROVE  IsStack(stack') /\ Open' = Range(base) \cup {"restart"}
         /\ reported' = reported \cup {"change"}
BY PushOK DEF Prompt, Open, Dialog

-----------------------------------------------------------------------------
(* Every step.                                                               *)

\* A step of an operation that leaves the dialogs alone.
LEMMA QuietStep ==
  ASSUME IInv, UNCHANGED <<stack, callback, banner>>,
         OpsOK', ProgressOK', EnableWaits => EnableWaits',
         reported' \subseteq {"install", "change"},
         "change" \in reported' => "change" \in reported \/ EnableWaits'
  PROVE  IInv'
<1>1. DialogsOK' /\ Open' = Open  BY DialogsStay DEF IInv
<1>2. RestartOK'  BY <1>1, TraceStays DEF IInv, RestartOK
<1> QED  BY <1>1, <1>2 DEF IInv

\* A step of the dialogs that leaves the operations and the restart alone.
LEMMA DialogStep ==
  ASSUME IInv, UNCHANGED <<accepted, progress, reported, ops>>,
         DialogsOK', banner' \in BOOLEAN, banner => banner',
         "restart" \in Open => "restart" \in Open' \/ banner'
  PROVE  IInv'
<1>1. OpsOK' /\ (EnableWaits => EnableWaits')  BY OpsStay DEF IInv
<1>2. ProgressOK'  BY ProgressStays DEF IInv
<1>3. RestartOK'  BY <1>1, TraceStays DEF IInv, RestartOK
<1> QED  BY <1>1, <1>2, <1>3 DEF IInv

LEMMA AnswerInv == ASSUME IInv, NEW s \in Slot, Answer(s) PROVE IInv'
<1>1. /\ ops[s] # None /\ ops[s].kind = "install" /\ ~Is(s, "enable", "timer")
      /\ OpOK(ops[s], accepted) /\ ops[s].package \in Package
      /\ UNCHANGED <<stack, callback, progress, banner, reported>>
  BY DEF Answer, Is, IInv, OpsOK, OpOK
<1>2. accepted \subseteq accepted' /\ accepted' \subseteq Package
  BY <1>1 DEF Answer, IInv, ProgressOK
<1>3. OpsOK' /\ (EnableWaits => EnableWaits')
  <2>1. CASE Goes(s, "ok") /\ accepted' = accepted \cup {ops[s].package}
    BY <1>1, <1>2, <2>1, GoesOn DEF IInv, Step
  <2>2. CASE Goes(s, "error")
    BY <1>1, <1>2, <2>2, GoesOn DEF IInv, Step
  <2> QED  BY <2>1, <2>2 DEF Answer
<1>4. ProgressOK'
  BY <1>1, <1>2 DEF IInv, ProgressOK, MessageIsThePanels
<1> QED  BY <1>1, <1>3, <1>4, QuietStep DEF IInv, RestartOK

LEMMA CloseInv == ASSUME IInv, NEW d \in Dialog, Close(d) PROVE IInv'
BY Closes, DialogStep DEF IInv, Close

LEMMA EscapeInv == ASSUME IInv, Escape PROVE IInv'
<1>1. stack \in Seq(Dialog) /\ stack # <<>>
  BY DEF Escape, AtPage, IInv, DialogsOK, IsStack
<1>2. Last(stack) \in Dialog  BY <1>1, ElementOfSeq, EmptySeq DEF Last
<1> QED  BY <1>2, Closes, DialogStep DEF IInv, Escape

LEMMA AskFirstInv ==
  ASSUME IInv, NEW p \in Package \cup {None}, NEW do \in {"install", "reinstall", "restart"},
         AskFirst(do, p)
  PROVE  IInv'
<1>1. [do |-> do, package |-> p] \in Callback  BY DEF Callback
<1>2. do = "install" => p \in Package  BY DEF AskFirst
<1>3. DialogsOK' /\ Open' = Open \cup {"confirm"}
  BY <1>1, <1>2, Confirms DEF IInv, AskFirst
<1> QED  BY <1>3, DialogStep DEF IInv, RestartOK, AskFirst

\* An install begins from a dialog, which closes.
LEMMA StartInstallInv ==
  ASSUME IInv, NEW s \in Slot, Free(s), NEW p \in Package, StartInstall(s, p),
         NEW d \in Dialog \ {"restart"}, stack' = Without(Pushed("install"), d),
         DialogsOK', UNCHANGED <<accepted, banner, reported>>
  PROVE  IInv'
<1>1. OpsOK' /\ (EnableWaits => EnableWaits')
  BY Begins DEF IInv, StartInstall, Kind
<1>2. ProgressOK'
  BY DEF IInv, ProgressOK, MessageIsThePanels, StartInstall, Progress
<1>3. "restart" \in Open => "restart" \in Open'
  <2>1. IsStack(Pushed("install")) /\ Range(Pushed("install")) = Open \cup {"install"}
    BY PushOK DEF Pushed, Open, IInv, DialogsOK, Dialog
  <2> QED  BY <2>1, WithoutOK DEF Open
<1>4. RestartOK'  BY <1>1, <1>3, TraceStays DEF IInv, RestartOK
<1> QED  BY <1>1, <1>2, <1>4 DEF IInv

LEMMA InstallStack ==
  ASSUME DialogsOK, NEW d, stack' = Without(Pushed("install"), d)
  PROVE  IsStack(stack') /\ Open' = (Open \cup {"install"}) \ {d}
<1>1. IsStack(Pushed("install")) /\ Range(Pushed("install")) = Open \cup {"install"}
  BY PushOK DEF Pushed, Open, DialogsOK, Dialog
<1> QED  BY <1>1, WithoutOK DEF Open

LEMMA ConfirmInstallInv ==
  ASSUME IInv, NEW s \in Slot, ConfirmInstall(s) PROVE IInv'
<1>1. IsStack(stack') /\ Open' = (Open \cup {"install"}) \ {"confirm"}
  BY InstallStack DEF IInv, ConfirmInstall
<1>2. DialogsOK'  BY <1>1 DEF ConfirmInstall, DialogsOK, Open
<1>3. callback.package \in Package  BY DEF IInv, DialogsOK, ConfirmInstall
<1> QED  BY <1>2, <1>3, StartInstallInv DEF ConfirmInstall, Dialog

LEMMA InstallCustomInv ==
  ASSUME IInv, NEW s \in Slot, NEW p \in Package, InstallCustom(s, p) PROVE IInv'
<1>1. IsStack(stack') /\ Open' = (Open \cup {"install"}) \ {"custom"}
  BY InstallStack DEF IInv, InstallCustom
<1>2. DialogsOK'  BY <1>1 DEF IInv, InstallCustom, DialogsOK, Open
<1> QED  BY <1>2, StartInstallInv DEF InstallCustom, Dialog

\* An operation that needs no package begins, and its dialog may close.
LEMMA ClosesAndBegins ==
  ASSUME IInv, NEW s \in Slot, Free(s), NEW d \in Dialog, Closing(d),
         Begin(s, "restart", None), UNCHANGED <<accepted, progress, reported>>
  PROVE  IInv'
<1>1. OpsOK' /\ (EnableWaits => EnableWaits')  BY Begins DEF IInv, Kind
<1>2. ProgressOK'  BY ProgressStays DEF IInv
<1>3. /\ DialogsOK' /\ banner' \in BOOLEAN /\ (banner => banner')
      /\ "restart" \in Open => "restart" \in Open' \/ banner'
  BY Closes DEF IInv
<1>4. RestartOK'  BY <1>1, <1>3, TraceStays DEF IInv, RestartOK
<1> QED  BY <1>1, <1>2, <1>3, <1>4 DEF IInv

LEMMA BeginsInv ==
  ASSUME IInv, NEW s \in Slot, NEW kind \in Kind \ {"install"}, Free(s),
         Begin(s, kind, None),
         UNCHANGED <<accepted, stack, callback, progress, banner, reported>>
  PROVE  IInv'
<1>1. OpsOK' /\ (EnableWaits => EnableWaits')  BY Begins DEF IInv
<1>2. ProgressOK'  BY ProgressStays DEF IInv
<1> QED  BY <1>1, <1>2, QuietStep DEF IInv, RestartOK

\* An operation goes on or ends, and nothing else happens but to the message.
LEMMA GoesInv ==
  ASSUME IInv, NEW s \in Slot, ops[s] # None, ~Is(s, "enable", "timer"),
         NEW step \in Step, Goes(s, step),
         ops[s].kind = "install" => ops[s].step \in {"ok", "timer"},
         UNCHANGED progress \/ Progressing,
         UNCHANGED <<accepted, stack, callback, banner, reported>>
  PROVE  IInv'
<1>1. ops[s].kind = "install" => ops[s].package \in accepted
  BY DEF IInv, OpsOK, OpOK
<1>2. OpsOK' /\ (EnableWaits => EnableWaits')  BY <1>1, GoesOn DEF IInv
<1>3. ProgressOK'  BY MessageGoes, ProgressStays DEF IInv
<1> QED  BY <1>2, <1>3, QuietStep DEF IInv, RestartOK

LEMMA EndsInv ==
  ASSUME IInv, NEW s \in Slot, ~Is(s, "enable", "timer"), End(s),
         UNCHANGED <<accepted, stack, callback, progress, banner, reported>>
  PROVE  IInv'
<1>1. OpsOK' /\ (EnableWaits => EnableWaits')  BY Ends DEF IInv
<1>2. ProgressOK'  BY ProgressStays DEF IInv
<1> QED  BY <1>1, <1>2, QuietStep DEF IInv, RestartOK

LEMMA InstallAnsweredInv ==
  ASSUME IInv, NEW s \in Slot, InstallAnswered(s) PROVE IInv'
<1>1. /\ ops[s] # None /\ ops[s].kind = "install" /\ ~Is(s, "enable", "timer")
      /\ UNCHANGED <<accepted, stack, callback, banner, reported>>
  BY DEF InstallAnswered, Is
<1>2. CASE ops[s].step = "ok"
  BY <1>1, <1>2, GoesInv DEF InstallAnswered, Step
<1>3. CASE ops[s].step # "ok"
  <2>1. End(s) /\ Failing  BY <1>3 DEF InstallAnswered
  <2>2. OpsOK' /\ (EnableWaits => EnableWaits')  BY <1>1, <2>1, Ends DEF IInv
  <2>3. ProgressOK'  BY <1>1, <2>1, MessageGoes DEF IInv
  <2> QED  BY <1>1, <2>2, <2>3, QuietStep DEF IInv, RestartOK
<1> QED  BY <1>2, <1>3

LEMMA InstallDoneInv ==
  ASSUME IInv, NEW s \in Slot, InstallDone(s) PROVE IInv'
<1>1. /\ ~Is(s, "enable", "timer") /\ End(s)
      /\ UNCHANGED <<accepted, stack, callback, banner>>
      /\ reported' \in {reported, reported \cup {"install"}}
  BY DEF InstallDone, Is
<1>2. ops[s].package \in accepted
  BY DEF InstallDone, Is, IInv, OpsOK, OpOK
<1>3. OpsOK' /\ (EnableWaits => EnableWaits')  BY <1>1, Ends DEF IInv
<1>4. ProgressOK'
  <2>1. CASE progress' = [progress EXCEPT !.state = "success", !.about = ops[s].package]
    BY <1>1, <1>2, <2>1 DEF IInv, ProgressOK, MessageIsThePanels, Progress
  <2>2. CASE Failing  BY <1>1, <2>2, MessageGoes DEF IInv
  <2> QED  BY <2>1, <2>2 DEF InstallDone
<1> QED  BY <1>1, <1>3, <1>4, QuietStep DEF IInv, RestartOK

LEMMA ChangedInv ==
  ASSUME IInv, NEW s \in Slot, Changed(s) PROVE IInv'
<1>1. /\ ~Is(s, "enable", "timer") /\ End(s)
      /\ UNCHANGED <<accepted, callback, progress, banner>>
  BY DEF Changed, Is
<1>2. OpsOK' /\ (EnableWaits => EnableWaits')  BY <1>1, Ends DEF IInv
<1>3. ProgressOK'  BY <1>1, ProgressStays DEF IInv
<1>4. CASE UNCHANGED <<stack, reported>>
  BY <1>1, <1>2, <1>3, <1>4, QuietStep DEF IInv, RestartOK
<1>5. CASE Prompt(stack)
  <2>1. IsStack(stack') /\ Open' = Open \cup {"restart"}
        /\ reported' = reported \cup {"change"}
    BY <1>5, Prompts DEF IInv, DialogsOK, Open
  <2>2. DialogsOK'  BY <1>1, <2>1 DEF IInv, DialogsOK, Open
  <2>3. RestartOK'  BY <1>1, <2>1 DEF IInv, RestartOK
  <2> QED  BY <1>2, <1>3, <2>2, <2>3 DEF IInv
<1> QED  BY <1>4, <1>5 DEF Changed

LEMMA ShowAgentInv == ASSUME IInv, NEW s \in Slot, ShowAgent(s) PROVE IInv'
<1>1. CASE stack' = Pushed("agent") /\ UNCHANGED ops
  BY <1>1, Opens, DialogStep DEF ShowAgent, IInv, RestartOK, Dialog, Form
<1>2. CASE Free(s) /\ Begin(s, "change", None) /\ UNCHANGED stack
  BY <1>2, BeginsInv DEF ShowAgent, Kind
<1> QED  BY <1>1, <1>2 DEF ShowAgent

LEMMA LookedUpInv == ASSUME IInv, NEW s \in Slot, LookedUp(s) PROVE IInv'
<1>1. /\ ~Is(s, "enable", "timer") /\ End(s)
      /\ UNCHANGED <<accepted, progress, banner, reported>>
  BY DEF LookedUp, Is
<1>2. OpsOK' /\ (EnableWaits => EnableWaits')  BY <1>1, Ends DEF IInv
<1>3. ProgressOK'  BY <1>1, ProgressStays DEF IInv
<1>4. DialogsOK' /\ Open \subseteq Open'
  <2>1. CASE stack' = Pushed("binary") /\ UNCHANGED callback
    BY <2>1, Opens DEF IInv, Dialog, Form
  <2>2. CASE Confirming("navigate", None)
    BY <2>2, Confirms DEF IInv, Callback
  <2> QED  BY <2>1, <2>2 DEF LookedUp
<1>5. RestartOK'  BY <1>1, <1>2, <1>4, TraceStays DEF IInv, RestartOK
<1> QED  BY <1>2, <1>3, <1>4, <1>5 DEF IInv

LEMMA FirstOfTwoInv == ASSUME IInv, NEW s \in Slot, FirstOfTwo(s) PROVE IInv'
<1>1. /\ ops[s] # None /\ ~Is(s, "enable", "timer") /\ ops[s].kind \in {"enable", "agent"}
      /\ UNCHANGED <<accepted, stack, callback, progress, banner>>
      /\ reported' = IF ops[s].kind = "enable" THEN reported \cup {"change"} ELSE reported
  BY DEF FirstOfTwo, Is
<1>2. /\ OpsOK' /\ (EnableWaits => EnableWaits')
      /\ ops[s].kind = "enable" => EnableWaits'
  <2>1. CASE Is(s, "enable", "ask") /\ Goes(s, "timer")
    <3>1. /\ OpsOK' /\ (EnableWaits => EnableWaits')
          /\ ops'[s] # None /\ ops'[s].kind = ops[s].kind /\ ops'[s].step = "timer"
      BY <1>1, <2>1, GoesOn DEF IInv, Step
    <3> QED  BY <3>1 DEF EnableWaits, Is
  <2>2. CASE Is(s, "agent", "ask") /\ Goes(s, "again")
    <3>1. OpsOK' /\ (EnableWaits => EnableWaits')
      BY <1>1, <2>2, GoesOn DEF IInv, Step
    <3> QED  BY <2>2, <3>1 DEF Is
  <2> QED  BY <2>1, <2>2 DEF FirstOfTwo
<1>3. ProgressOK'  BY <1>1, ProgressStays DEF IInv
<1> QED  BY <1>1, <1>2, <1>3, QuietStep DEF IInv, RestartOK

LEMMA FormDoneInv == ASSUME IInv, NEW s \in Slot, FormDone(s) PROVE IInv'
<1>1. /\ ops[s] # None /\ ops[s].kind \in Form /\ Prompt(Without(stack, ops[s].kind))
      /\ ops' = [ops EXCEPT ![s] = None]
      /\ UNCHANGED <<accepted, callback, progress, banner>>
  BY DEF FormDone, Is, Form, End
<1>2. OpsOK'  BY <1>1 DEF IInv, OpsOK, OpOK
<1>3. ProgressOK'  BY <1>1, ProgressStays DEF IInv
<1>4. IsStack(Without(stack, ops[s].kind)) /\ Range(Without(stack, ops[s].kind)) = Open \ {ops[s].kind}
  BY WithoutOK DEF IInv, DialogsOK, Open
<1>5. /\ IsStack(stack') /\ Open' = (Open \ {ops[s].kind}) \cup {"restart"}
      /\ reported' = reported \cup {"change"}
  BY <1>1, <1>4, Prompts
<1>6. DialogsOK'  BY <1>1, <1>5 DEF IInv, DialogsOK, Open, Form
<1>7. RestartOK'  BY <1>1, <1>5 DEF IInv, RestartOK
<1> QED  BY <1>2, <1>3, <1>6, <1>7 DEF IInv

LEMMA EmptyStack == IsStack(<<>>) /\ Range(<<>>) = {}
<1>1. <<>> \in Seq(Dialog) /\ DOMAIN <<>> = {}  BY EmptySeq
<1> QED  BY <1>1 DEF IsStack, IsInjective, Range

LEMMA ReloadInv == ASSUME IInv, NEW s \in Slot, Reload(s) PROVE IInv'
<1>1. /\ stack' = <<>> /\ callback' = None /\ progress' = AtRest
      /\ banner' = FALSE /\ reported' = {} /\ accepted' = accepted
      /\ ops' = [t \in Slot |-> None]
  BY DEF Reload
<1>2. DialogsOK'  BY <1>1, EmptyStack DEF DialogsOK, Open
<1>3. ProgressOK'
  BY <1>1 DEF IInv, ProgressOK, MessageIsThePanels, AtRest, Progress
<1>4. OpsOK'  BY <1>1 DEF OpsOK, OpOK
<1>5. RestartOK'  BY <1>1 DEF RestartOK
<1> QED  BY <1>2, <1>3, <1>4, <1>5 DEF IInv

LEMMA ProceedInv == ASSUME IInv, NEW s \in Slot, Proceed(s) PROVE IInv'
<1>1. CASE InstallAnswered(s)  BY <1>1, InstallAnsweredInv
<1>2. CASE InstallLooks(s)
  BY <1>2, GoesInv DEF InstallLooks, Is, Step
<1>3. CASE InstallDone(s)  BY <1>3, InstallDoneInv
<1>4. CASE Changed(s)  BY <1>4, ChangedInv
<1>5. CASE VoiceLooked(s)
  <2>1. ops[s] # None /\ ops[s].kind = "voice" /\ ~Is(s, "enable", "timer")
    BY <1>5 DEF VoiceLooked, Is
  <2> QED  BY <1>5, <2>1, GoesInv, EndsInv DEF VoiceLooked, Step
<1>6. CASE LookedUp(s)  BY <1>6, LookedUpInv
<1>7. CASE Refused(s)
  BY <1>7, EndsInv DEF Refused, Is
<1>8. CASE FirstOfTwo(s)  BY <1>8, FirstOfTwoInv
<1>9. CASE FormDone(s)  BY <1>9, FormDoneInv
<1>10. CASE Restarting(s)
  BY <1>10, GoesInv DEF Restarting, Is, Step
<1>11. CASE NotRestarted(s)
  BY <1>11, EndsInv DEF NotRestarted, Is
<1>12. CASE Reload(s)  BY <1>12, ReloadInv
<1> QED
  BY <1>1, <1>2, <1>3, <1>4, <1>5, <1>6, <1>7, <1>8, <1>9, <1>10, <1>11, <1>12
  DEF Proceed

LEMMA NextInv == IInv /\ [Next]_vars => IInv'
<1> SUFFICES ASSUME IInv, [Next]_vars PROVE IInv'  OBVIOUS
<1>1. ASSUME NEW s \in Slot, Answer(s) \/ Proceed(s) PROVE IInv'
  BY <1>1, AnswerInv, ProceedInv
<1>2. ASSUME NEW d \in Dialog, Close(d) PROVE IInv'  BY <1>2, CloseInv
<1>3. ASSUME NEW p \in Package \cup {None}, NEW do \in {"install", "reinstall", "restart"},
             AskFirst(do, p)
      PROVE  IInv'
  BY <1>3, AskFirstInv
<1>4. ASSUME NEW s \in Slot, NEW p \in Package, InstallCustom(s, p) PROVE IInv'
  BY <1>4, InstallCustomInv
<1>5. ASSUME NEW s \in Slot,
             ConfirmInstall(s) \/ ConfirmRestart(s) \/ RestartNow(s) \/ Change(s)
               \/ UpdateVoice(s) \/ ShowAgent(s) \/ LookUp(s)
      PROVE  IInv'
  <2>1. CASE ConfirmInstall(s)  BY <2>1, ConfirmInstallInv
  <2>2. CASE ConfirmRestart(s)
    BY <2>2, ClosesAndBegins DEF ConfirmRestart, Dialog
  <2>3. CASE RestartNow(s)  BY <2>3, ClosesAndBegins DEF RestartNow, Dialog
  <2>4. CASE Change(s)  BY <2>4, BeginsInv DEF Change, Kind
  <2>5. CASE UpdateVoice(s)  BY <2>5, BeginsInv DEF UpdateVoice, Kind
  <2>6. CASE ShowAgent(s)  BY <2>6, ShowAgentInv
  <2>7. CASE LookUp(s)  BY <2>7, BeginsInv DEF LookUp, Kind
  <2> QED  BY <1>5, <2>1, <2>2, <2>3, <2>4, <2>5, <2>6, <2>7
<1>6. ASSUME NEW s \in Slot, NEW d \in Form, Submit(s, d) PROVE IInv'
  BY <1>6, BeginsInv DEF Submit, Form, Kind
<1>7. CASE Escape  BY <1>7, EscapeInv
<1>8. CASE ShowCustom
  BY <1>8, Opens, DialogStep DEF ShowCustom, IInv, RestartOK, Dialog
<1>9. CASE ShowEnable
  BY <1>9, Opens, DialogStep DEF ShowEnable, IInv, RestartOK, Dialog, Form
<1>10. CASE ConfirmOther
  BY <1>10, Closes, DialogStep DEF ConfirmOther, IInv, Dialog
<1>11. CASE UNCHANGED vars
  BY <1>11, DialogsStay, DialogStep DEF vars, IInv, RestartOK
<1> QED
  BY <1>1, <1>2, <1>3, <1>4, <1>5, <1>6, <1>7, <1>8, <1>9, <1>10, <1>11 DEF Next

LEMMA InitInv == Init => IInv
<1> SUFFICES ASSUME Init PROVE IInv  OBVIOUS
<1>1. DialogsOK  BY EmptyStack DEF Init, DialogsOK, Open
<1>2. ProgressOK  BY DEF Init, ProgressOK, MessageIsThePanels, AtRest, Progress
<1>3. OpsOK  BY DEF Init, OpsOK, OpOK
<1>4. RestartOK  BY DEF Init, RestartOK
<1> QED  BY <1>1, <1>2, <1>3, <1>4 DEF IInv

-----------------------------------------------------------------------------
(* The heading of the install dialog.                                        *)

\* Installs under way stay or end, and the dialog stays.
LEMMA HeadingStays ==
  ASSUME HeadingOK, UNCHANGED <<progress, overlapped>>,
         \A s \in Slot : Installing(s)' => Installing(s) /\ ops'[s].package = ops[s].package
  PROVE  HeadingOK'
BY DEF HeadingOK

\* One operation changes, and is no install that begins.
LEMMA SlotStep ==
  ASSUME IInv, NEW s \in Slot, NEW op, ops' = [ops EXCEPT ![s] = op],
         op # None /\ op.kind = "install" => Installing(s) /\ op.package = ops[s].package
  PROVE  \A t \in Slot : Installing(t)' => Installing(t) /\ ops'[t].package = ops[t].package
BY DEF IInv, OpsOK, Installing

LEMMA Quiet ==
  ASSUME IInv, HeadingOK, NEW s \in Slot, UNCHANGED <<progress, overlapped>>,
         \/ End(s)
         \/ \E step \in Step : ops[s] # None /\ Goes(s, step)
         \/ \E kind \in Kind \ {"install"} : Begin(s, kind, None)
  PROVE  HeadingOK'
<1>1. CASE End(s)
  BY <1>1, SlotStep, HeadingStays DEF End
<1>2. ASSUME NEW step \in Step, ops[s] # None, Goes(s, step) PROVE HeadingOK'
  <2> DEFINE op == [ops[s] EXCEPT !.step = step]
  <2>1. ops[s] \in Op  BY <1>2 DEF IInv, OpsOK
  <2>2. op.kind = ops[s].kind /\ op.package = ops[s].package  BY <2>1 DEF Op
  <2>3. ops' = [ops EXCEPT ![s] = op]  BY <1>2, <2>1 DEF Goes, IInv, OpsOK
  <2> HIDE DEF op
  <2> QED  BY <1>2, <2>2, <2>3, SlotStep, HeadingStays DEF Installing
<1>3. ASSUME NEW kind \in Kind \ {"install"}, Begin(s, kind, None) PROVE HeadingOK'
  <2> DEFINE op == [kind |-> kind, package |-> None, step |-> "ask"]
  <2>1. op.kind # "install" /\ ops' = [ops EXCEPT ![s] = op]  BY <1>3 DEF Begin
  <2> HIDE DEF op
  <2> QED  BY <2>1, SlotStep, HeadingStays
<1> QED  BY <1>1, <1>2, <1>3

LEMMA StartHeading ==
  ASSUME IInv, HeadingOK, NEW s \in Slot, Free(s), NEW p \in Package, StartInstall(s, p)
  PROVE  HeadingOK'
<1> DEFINE op == [kind |-> "install", package |-> p, step |-> "ask"]
<1>1. /\ progress' = [state |-> "running", named |-> p, about |-> None]
      /\ overlapped' = (\E t \in Slot : Installing(t))
      /\ ops' = [ops EXCEPT ![s] = op] /\ ops \in [Slot -> Op \cup {None}]
  BY DEF StartInstall, Begin, Installing, IInv, OpsOK
<1>2. op.package = p  OBVIOUS
<1> HIDE DEF op
<1>3. ASSUME ~overlapped', NEW t \in Slot, Installing(t)'
      PROVE  t = s /\ ops'[t].package = p
  BY <1>1, <1>2, <1>3 DEF Installing
<1> QED  BY <1>1, <1>3 DEF HeadingOK

\* An install goes on, or ends with its outcome.
LEMMA InstallGoesHeading ==
  ASSUME IInv, HeadingOK, NEW s \in Slot, Installing(s), NEW step \in Step, Goes(s, step),
         UNCHANGED progress \/ Progressing, UNCHANGED overlapped
  PROVE  HeadingOK'
<1>1. CASE UNCHANGED progress  BY <1>1, Quiet DEF Installing
<1>2. CASE Progressing
  <2> DEFINE op == [ops[s] EXCEPT !.step = step]
  <2>1. ops[s] \in Op  BY DEF IInv, OpsOK, Installing
  <2>2. op.package = ops[s].package /\ op.kind = ops[s].kind  BY <2>1 DEF Op
  <2>3. ops' = [ops EXCEPT ![s] = op]  BY <2>1 DEF Goes, IInv, OpsOK
  <2> HIDE DEF op
  <2>4. \A t \in Slot : Installing(t)' => Installing(t) /\ ops'[t].package = ops[t].package
    BY <2>2, <2>3, SlotStep
  <2>5. progress'.state = progress.state /\ progress'.named = progress.named
    BY <1>2 DEF Progressing, IInv, ProgressOK, Progress
  <2> QED  BY <2>4, <2>5 DEF HeadingOK
<1> QED  BY <1>1, <1>2

LEMMA InstallEndsHeading ==
  ASSUME IInv, HeadingOK, NEW s \in Slot, Installing(s), End(s), UNCHANGED overlapped,
         Failing \/ progress' = [progress EXCEPT !.state = "success", !.about = ops[s].package]
  PROVE  HeadingOK'
<1>1. \A t \in Slot : Installing(t)' =>
        t # s /\ Installing(t) /\ ops'[t].package = ops[t].package
  BY DEF End, IInv, OpsOK, Installing
<1>2. /\ progress'.named = progress.named
      /\ progress'.state = "success" => progress'.about = ops[s].package
  BY DEF Failing, IInv, ProgressOK, Progress
<1> QED  BY <1>1, <1>2 DEF HeadingOK

LEMMA ProceedHeading ==
  ASSUME IInv, HeadingOK, NEW s \in Slot, Proceed(s) PROVE HeadingOK'
<1>1. CASE InstallAnswered(s)
  <2>1. Installing(s) /\ UNCHANGED overlapped  BY <1>1 DEF InstallAnswered, Is, Installing
  <2>2. \/ Goes(s, "timer") /\ Progressing
        \/ End(s) /\ Failing
    BY <1>1 DEF InstallAnswered
  <2> QED  BY <2>1, <2>2, InstallGoesHeading, InstallEndsHeading DEF Step
<1>2. CASE InstallLooks(s)
  BY <1>2, InstallGoesHeading DEF InstallLooks, Is, Installing, Step
<1>3. CASE InstallDone(s)
  BY <1>3, InstallEndsHeading DEF InstallDone, Is, Installing
<1>4. CASE Changed(s)  BY <1>4, Quiet DEF Changed
<1>5. CASE VoiceLooked(s)  BY <1>5, Quiet DEF VoiceLooked, Is, Step
<1>6. CASE LookedUp(s)  BY <1>6, Quiet DEF LookedUp
<1>7. CASE Refused(s)  BY <1>7, Quiet DEF Refused
<1>8. CASE FirstOfTwo(s)  BY <1>8, Quiet DEF FirstOfTwo, Is, Step
<1>9. CASE FormDone(s)  BY <1>9, Quiet DEF FormDone
<1>10. CASE Restarting(s)  BY <1>10, Quiet DEF Restarting, Is, Step
<1>11. CASE NotRestarted(s)  BY <1>11, Quiet DEF NotRestarted
<1>12. CASE Reload(s)
  <2>1. progress' = AtRest /\ overlapped' = FALSE /\ \A t \in Slot : ops'[t] = None
    BY <1>12 DEF Reload
  <2> QED  BY <2>1 DEF HeadingOK, Installing, AtRest
<1> QED
  BY <1>1, <1>2, <1>3, <1>4, <1>5, <1>6, <1>7, <1>8, <1>9, <1>10, <1>11, <1>12
  DEF Proceed

LEMMA NextHeading == IInv /\ HeadingOK /\ [Next]_vars => HeadingOK'
<1> SUFFICES ASSUME IInv, HeadingOK, [Next]_vars PROVE HeadingOK'  OBVIOUS
<1>1. ASSUME NEW s \in Slot, Answer(s) PROVE HeadingOK'
  BY <1>1, Quiet DEF Answer, Is, Step
<1>2. ASSUME NEW s \in Slot, Proceed(s) PROVE HeadingOK'
  BY <1>2, ProceedHeading
<1>3. ASSUME NEW s \in Slot, NEW p \in Package, InstallCustom(s, p) PROVE HeadingOK'
  BY <1>3, StartHeading DEF InstallCustom
<1>4. ASSUME NEW s \in Slot,
             ConfirmInstall(s) \/ ConfirmRestart(s) \/ RestartNow(s) \/ Change(s)
               \/ UpdateVoice(s) \/ ShowAgent(s) \/ LookUp(s)
      PROVE  HeadingOK'
  <2>1. CASE ConfirmInstall(s)
    <3>1. callback.package \in Package  BY <2>1 DEF IInv, DialogsOK, ConfirmInstall
    <3> QED  BY <2>1, <3>1, StartHeading DEF ConfirmInstall
  <2>2. CASE ConfirmRestart(s)  BY <2>2, Quiet DEF ConfirmRestart, Kind
  <2>3. CASE RestartNow(s)  BY <2>3, Quiet DEF RestartNow, Kind
  <2>4. CASE Change(s)  BY <2>4, Quiet DEF Change, Kind
  <2>5. CASE UpdateVoice(s)  BY <2>5, Quiet DEF UpdateVoice, Kind
  <2>6. CASE ShowAgent(s)
    <3>1. CASE UNCHANGED ops  BY <2>6, <3>1, HeadingStays DEF ShowAgent, Installing
    <3>2. CASE Begin(s, "change", None)  BY <2>6, <3>2, Quiet DEF ShowAgent, Kind
    <3> QED  BY <2>6, <3>1, <3>2 DEF ShowAgent
  <2>7. CASE LookUp(s)  BY <2>7, Quiet DEF LookUp, Kind
  <2> QED  BY <1>4, <2>1, <2>2, <2>3, <2>4, <2>5, <2>6, <2>7
<1>5. ASSUME NEW s \in Slot, NEW d \in Form, Submit(s, d) PROVE HeadingOK'
  BY <1>5, Quiet DEF Submit, Form, Kind
<1>6. ASSUME UNCHANGED <<progress, overlapped, ops>> PROVE HeadingOK'
  BY <1>6, HeadingStays DEF Installing
<1>7. ASSUME \/ \E d \in Dialog : Close(d)
             \/ \E p \in Package \cup {None}, do \in {"install", "reinstall", "restart"} :
                  AskFirst(do, p)
             \/ Escape \/ ShowCustom \/ ShowEnable \/ ConfirmOther \/ UNCHANGED vars
      PROVE  HeadingOK'
  BY <1>6, <1>7 DEF Close, AskFirst, Escape, ShowCustom, ShowEnable, ConfirmOther, vars
<1> QED
  BY <1>1, <1>2, <1>3, <1>4, <1>5, <1>7 DEF Next

LEMMA InitHeading == Init => HeadingOK
<1> SUFFICES ASSUME Init PROVE HeadingOK  OBVIOUS
<1>1. /\ progress.state = "idle" /\ overlapped = FALSE
      /\ \A s \in Slot : ~Installing(s)
  BY DEF Init, Installing, AtRest
<1> QED  BY <1>1 DEF HeadingOK

LEMMA Invariant == Spec => [](IInv /\ HeadingOK)
BY InitInv, NextInv, InitHeading, NextHeading, PTL DEF Spec

\* The dialogs, their stack and the operations keep their form: no dialog is
\* stacked twice, and the confirm dialog is up exactly as long as it has
\* something to confirm (showConfirmModal, closeConfirmModal, executeConfirm).
THEOREM TypeCorrect == Spec => []TypeOK
BY Invariant, InvImpliesParts, PTL

\* A change other than an install that was reported as made waits for its
\* restart behind the prompt or the banner, whatever was closed and whatever
\* overlapped.
THEOREM RestartsArePrompted == Spec => []ChangesPromptARestart
BY Invariant, InvImpliesParts, PTL

\* What the install dialog calls installed the panel has installed, and its
\* heading is about the same package if no install was under way when the
\* latest began.
THEOREM SuccessesAreTrue == Spec => []SuccessIsThePanels
BY Invariant, InvImpliesParts, PTL
=============================================================================
