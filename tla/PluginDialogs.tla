---------------------------- MODULE PluginDialogs ----------------------------
(***************************************************************************)
(* Plugins in the web page (static/js/app.js): the dialogs, stacked in the *)
(* order they open, the operations that install, enable and configure      *)
(* plugins, and the restart that makes their changes take effect.          *)
(*                                                                         *)
(* An operation awaits its answers and goes on when they are there,        *)
(* whatever dialogs have been closed or opened meanwhile; its button stays *)
(* enabled, so operations overlap.                                         *)
(***************************************************************************)
EXTENDS Naturals, SequencesExt

CONSTANTS
  Package,  \* plugin packages
  Slot,     \* operations that can be under way at one time (a bound)
  None      \* no package, no operation, no callback

VARIABLES
  accepted,  \* packages the panel says it has installed
  stack,     \* _modalStack: the open dialogs, the newest last
  callback,  \* confirmCallback: what it does and to what, or None
  progress,  \* the one install dialog: how it stands by its title, the
             \* package in its heading, and the one its message calls installed
  overlapped, \* whether another install was under way when the latest began
  banner,    \* whether restartWarningBanner shows
  reported,  \* what was reported as made since the page was loaded: installs,
             \* other changes
  ops        \* ops[s]: an operation under way, or None

vars == <<accepted, stack, callback, progress, overlapped, banner, reported, ops>>

Form == {"enable", "agent", "binary"}     \* enablePluginModal, ...
Dialog == Form \cup {"confirm", "custom", "install", "restart"}

\* install is installPluginWithProgress; change stands for the operations that
\* ask once and are done; a form's operation is the one its dialog confirms;
\* lookup is what showEnableBinaryProtocolModal asks; voice changes the voice
\* plugins of the binary protocol in use; restart asks the panel.
Kind == Form \cup {"install", "change", "lookup", "voice", "restart"}
Step == {"ask", "ok", "error", "again", "timer"}
Op == [kind : Kind, package : Package \cup {None}, step : Step]
Callback == [do : {"install", "reinstall", "restart", "navigate"},
             package : Package \cup {None}]

ASSUME NoneAssumption == None \notin Package \cup Op \cup Callback

Progress == [state : {"idle", "running", "success", "failure"},
             named : Package \cup {None}, about : Package \cup {None}]

TypeOK ==
  /\ accepted \subseteq Package
  /\ stack \in Seq(Dialog) /\ IsInjective(stack)
  /\ callback \in Callback \cup {None}
  /\ "confirm" \in Range(stack) <=> callback # None
  /\ progress \in Progress /\ overlapped \in BOOLEAN
  /\ banner \in BOOLEAN /\ reported \subseteq {"install", "change"}
  /\ ops \in [Slot -> Op \cup {None}]

AtRest == [state |-> "idle", named |-> None, about |-> None]

Init ==
  /\ accepted = {} /\ stack = <<>> /\ callback = None
  /\ progress = AtRest /\ overlapped = FALSE
  /\ banner = FALSE /\ reported = {}
  /\ ops = [s \in Slot |-> None]

-----------------------------------------------------------------------------
(* Dialogs.                                                                  *)

Open == Range(stack)

\* _syncModal: a dialog that opens goes on top, one that is open stays where
\* it is; one that closes leaves the stack.
Push(s, d) == IF d \in Range(s) THEN s ELSE Append(s, d)
Pushed(d) == Push(stack, d)
Without(s, d) ==
  IF d \in Range(s) THEN RemoveAt(s, CHOOSE i \in 1..Len(s) : s[i] = d) ELSE s

\* Nothing covers the page.
AtPage == stack = <<>>

\* showConfirmModal
Confirming(do, p) ==
  /\ stack' = Pushed("confirm")
  /\ callback' = [do |-> do, package |-> p]

\* The close function of a dialog: closeConfirmModal forgets the callback,
\* closeRestartRequiredModal leaves the banner.
Closing(d) ==
  /\ stack' = Without(stack, d)
  /\ callback' = IF d = "confirm" THEN None ELSE callback
  /\ banner' = (banner \/ d = "restart")

\* A button of the dialog, or a click beside it.
Close(d) ==
  /\ d \in Open
  /\ Closing(d)
  /\ UNCHANGED <<accepted, progress, overlapped, reported, ops>>

\* Mutant: Escape hides the top dialog without its close function.
EscapeHides ==
  /\ ~AtPage
  /\ stack' = Without(stack, Last(stack))
  /\ UNCHANGED <<accepted, callback, progress, overlapped, banner, reported, ops>>

\* closeTopModal, through the dialog's own close function.
Escape ==
  /\ ~AtPage
  /\ Closing(Last(stack))
  /\ UNCHANGED <<accepted, progress, overlapped, reported, ops>>

-----------------------------------------------------------------------------
(* Operations.                                                               *)

Begin(s, kind, p) ==
  ops' = [ops EXCEPT ![s] = [kind |-> kind, package |-> p, step |-> "ask"]]
Free(s) == ops[s] = None
End(s) == ops' = [ops EXCEPT ![s] = None]
Goes(s, step) == ops' = [ops EXCEPT ![s].step = step]
Is(s, kind, step) == ops[s] # None /\ ops[s].kind = kind /\ ops[s].step = step

\* The panel installs the package and says so, or refuses, or its answer is lost
\* although it has installed it.
Answer(s) ==
  /\ Is(s, "install", "ask")
  /\ \/ Goes(s, "ok") /\ accepted' = accepted \cup {ops[s].package}
     \/ Goes(s, "error") /\ accepted' \in {accepted, accepted \cup {ops[s].package}}
  /\ UNCHANGED <<stack, callback, progress, overlapped, banner, reported>>

\* installPluginDirect; showPluginError offers the same for a broken plugin;
\* showRestartConfirm.
AskFirst(do, p) ==
  /\ AtPage
  /\ p = None <=> do # "install"
  /\ Confirming(do, p)
  /\ UNCHANGED <<accepted, progress, overlapped, banner, reported, ops>>

\* showInstallProgress puts the package into the heading of the one dialog,
\* also when it shows another install; and the request for the package.
StartInstall(s, p) ==
  /\ progress' = [state |-> "running", named |-> p, about |-> None]
  /\ overlapped' = \E t \in Slot : ops[t] # None /\ ops[t].kind = "install"
  /\ Begin(s, "install", p)

\* updateInstallProgress replaces the message, completeInstallFailure the title
\* too; the heading stays.
Progressing == progress' = [progress EXCEPT !.about = None]
Failing == progress' = [progress EXCEPT !.state = "failure", !.about = None]

\* executeConfirm runs the callback, then closes the dialog.
ConfirmInstall(s) ==
  /\ Free(s) /\ callback # None
  /\ callback.do = "install"
  /\ StartInstall(s, callback.package)
  /\ stack' = Without(Pushed("install"), "confirm")
  /\ callback' = None
  /\ UNCHANGED <<accepted, banner, reported>>

ConfirmRestart(s) ==
  /\ Free(s) /\ callback # None
  /\ callback.do = "restart"
  /\ Begin(s, "restart", None) /\ Closing("confirm")
  /\ UNCHANGED <<accepted, progress, overlapped, reported>>

\* The callback of showPluginError opens the dialog of installPluginDirect,
\* which is this same dialog: it is closed with it.  That of a missing plugin
\* goes to another page.
ConfirmOther ==
  /\ callback # None
  /\ callback.do \in {"reinstall", "navigate"}
  /\ Closing("confirm")
  /\ UNCHANGED <<accepted, progress, overlapped, reported, ops>>

\* showInstallCustomPluginModal
ShowCustom ==
  /\ AtPage
  /\ stack' = Pushed("custom")
  /\ UNCHANGED <<accepted, callback, progress, overlapped, banner, reported, ops>>

\* installCustomPlugin: a package and the disclaimer accepted.
InstallCustom(s, p) ==
  /\ Free(s) /\ "custom" \in Open
  /\ StartInstall(s, p)
  /\ stack' = Without(Pushed("install"), "custom")
  /\ UNCHANGED <<accepted, callback, banner, reported>>

\* Mutant: an answer that reports failure goes on like any other.
InstallGoesOn(s) ==
  /\ Is(s, "install", "ok") \/ Is(s, "install", "error")
  /\ Goes(s, "timer") /\ Progressing
  /\ UNCHANGED <<accepted, stack, callback, overlapped, banner, reported>>

\* Mutant: a request that fails is not caught.
InstallUncaught(s) ==
  /\ Is(s, "install", "ok") \/ Is(s, "install", "error")
  /\ IF ops[s].step = "ok" THEN Goes(s, "timer") ELSE End(s)
  /\ UNCHANGED <<accepted, stack, callback, progress, overlapped, banner, reported>>

\* installPluginWithProgress has its answer: it shows progress for a while
\* (simulateProgress), or completeInstallFailure.
InstallAnswered(s) ==
  /\ Is(s, "install", "ok") \/ Is(s, "install", "error")
  /\ IF ops[s].step = "ok"
     THEN Goes(s, "timer") /\ Progressing
     ELSE End(s) /\ Failing
  /\ UNCHANGED <<accepted, stack, callback, overlapped, banner, reported>>

\* Then it asks what is installed.
InstallLooks(s) ==
  /\ Is(s, "install", "timer")
  /\ Goes(s, "again") /\ Progressing
  /\ UNCHANGED <<accepted, stack, callback, overlapped, banner, reported>>

\* getAllInstalledPlugins answers with a list, also when requests fail.  The
\* package is looked for in it, which throws if the list holds anything but
\* names, and is a success whether it is found or not: completeInstallSuccess.
\* requiresRestart is not looked at.
InstallDone(s) ==
  /\ Is(s, "install", "again")
  /\ End(s)
  /\ \/ /\ progress' = [progress EXCEPT !.state = "success", !.about = ops[s].package]
        /\ reported' = reported \cup {"install"}
     \/ Failing /\ UNCHANGED reported
  /\ UNCHANGED <<accepted, stack, callback, overlapped, banner>>

\* upgradePlugin, uninstallPlugin, enableBinaryProtocol, toggleNetworkProtocol,
\* applyBinaryPreset
Change(s) ==
  /\ Free(s) /\ AtPage
  /\ Begin(s, "change", None)
  /\ UNCHANGED <<accepted, stack, callback, progress, overlapped, banner, reported>>

\* showRestartRequiredModal, after a change the panel reports as made.
Prompt(base) ==
  /\ stack' = Push(base, "restart")
  /\ reported' = reported \cup {"change"}

\* It is made, or an error is all the page hears: a toast.
Changed(s) ==
  /\ Is(s, "change", "ask") \/ Is(s, "voice", "again")
  /\ End(s)
  /\ Prompt(stack) \/ UNCHANGED <<stack, reported>>
  /\ UNCHANGED <<accepted, callback, progress, overlapped, banner>>

\* updateActiveBinaryConfig asks which binary protocol is in use, and then for
\* that one to be enabled with the chosen voice plugins.
UpdateVoice(s) ==
  /\ Free(s) /\ AtPage
  /\ Begin(s, "voice", None)
  /\ UNCHANGED <<accepted, stack, callback, progress, overlapped, banner, reported>>

\* It ends if none is in use, not all are chosen, or the request fails.
VoiceLooked(s) ==
  /\ Is(s, "voice", "ask")
  /\ Goes(s, "again") \/ End(s)
  /\ UNCHANGED <<accepted, stack, callback, progress, overlapped, banner, reported>>

\* showEnablePluginModal
ShowEnable ==
  /\ AtPage
  /\ stack' = Pushed("enable")
  /\ UNCHANGED <<accepted, callback, progress, overlapped, banner, reported, ops>>

\* showEnableAgentModal, for the persona agent; another one is enabled as it is.
ShowAgent(s) ==
  /\ AtPage
  /\ \/ stack' = Pushed("agent") /\ UNCHANGED ops
     \/ Free(s) /\ Begin(s, "change", None) /\ UNCHANGED stack
  /\ UNCHANGED <<accepted, callback, progress, overlapped, banner, reported>>

\* showEnableBinaryProtocolModal first asks which voice plugins there are.
LookUp(s) ==
  /\ Free(s) /\ AtPage
  /\ Begin(s, "lookup", None)
  /\ UNCHANGED <<accepted, stack, callback, progress, overlapped, banner, reported>>

\* With one of each kind it shows the form, otherwise it sends the user to the
\* plugins; a request that fails reads as no plugins.
LookedUp(s) ==
  /\ Is(s, "lookup", "ask")
  /\ End(s)
  /\ \/ stack' = Pushed("binary") /\ UNCHANGED callback
     \/ Confirming("navigate", None)
  /\ UNCHANGED <<accepted, progress, overlapped, banner, reported>>

\* confirmEnablePlugin, confirmEnableAgent, confirmEnableBinaryProtocol.
Submit(s, d) ==
  /\ Free(s) /\ d \in Open \cap Form
  /\ Begin(s, d, None)
  /\ UNCHANGED <<accepted, stack, callback, progress, overlapped, banner, reported>>

\* An error is shown in the form, which stays.
Refused(s) ==
  /\ \E d \in Form : Is(s, d, "ask") \/ Is(s, d, "again")
  /\ End(s)
  /\ UNCHANGED <<accepted, stack, callback, progress, overlapped, banner, reported>>

\* confirmEnablePlugin shows its success for a moment, confirmEnableAgent then
\* activates the persona.
FirstOfTwo(s) ==
  /\ \/ Is(s, "enable", "ask") /\ Goes(s, "timer")
     \/ Is(s, "agent", "ask") /\ Goes(s, "again")
  /\ reported' = IF ops[s].kind = "enable" THEN reported \cup {"change"} ELSE reported
  /\ UNCHANGED <<accepted, stack, callback, progress, overlapped, banner>>

\* The form is closed, whichever plugin it is for by now, and the user told
\* that a restart is needed.
FormDone(s) ==
  /\ \/ Is(s, "enable", "timer")
     \/ Is(s, "agent", "again")
     \/ Is(s, "binary", "ask")
  /\ Prompt(Without(stack, ops[s].kind)) /\ End(s)
  /\ UNCHANGED <<accepted, callback, progress, overlapped, banner>>

\* restartNow
RestartNow(s) ==
  /\ Free(s) /\ "restart" \in Open
  /\ Closing("restart") /\ Begin(s, "restart", None)
  /\ UNCHANGED <<accepted, progress, overlapped, reported>>

\* Restarted: the page is loaded again after a while.
Restarting(s) ==
  /\ Is(s, "restart", "ask")
  /\ Goes(s, "timer")
  /\ UNCHANGED <<accepted, stack, callback, progress, overlapped, banner, reported>>

\* No core to restart, or no answer: a toast.
NotRestarted(s) ==
  /\ Is(s, "restart", "ask")
  /\ End(s)
  /\ UNCHANGED <<accepted, stack, callback, progress, overlapped, banner, reported>>

\* location.reload()
Reload(s) ==
  /\ Is(s, "restart", "timer")
  /\ stack' = <<>> /\ callback' = None /\ progress' = AtRest
  /\ overlapped' = FALSE /\ banner' = FALSE /\ reported' = {}
  /\ ops' = [t \in Slot |-> None]
  /\ UNCHANGED accepted

\* An operation goes on.
Proceed(s) ==
  \/ InstallAnswered(s) \/ InstallLooks(s) \/ InstallDone(s)
  \/ Changed(s) \/ VoiceLooked(s) \/ LookedUp(s) \/ Refused(s) \/ FirstOfTwo(s) \/ FormDone(s)
  \/ Restarting(s) \/ NotRestarted(s) \/ Reload(s)

Next ==
  \/ \E s \in Slot : Answer(s) \/ Proceed(s)
  \/ \E d \in Dialog : Close(d)
  \/ \E p \in Package \cup {None}, do \in {"install", "reinstall", "restart"} : AskFirst(do, p)
  \/ \E s \in Slot, p \in Package : InstallCustom(s, p)
  \/ \E s \in Slot : ConfirmInstall(s) \/ ConfirmRestart(s) \/ RestartNow(s)
                       \/ Change(s) \/ UpdateVoice(s) \/ ShowAgent(s) \/ LookUp(s)
  \/ \E s \in Slot, d \in Form : Submit(s, d)
  \/ Escape \/ ShowCustom \/ ShowEnable \/ ConfirmOther

Spec == Init /\ [][Next]_vars

\* Every request is answered or fails, and what awaits it goes on.
FairSpec ==
  Spec /\ \A s \in Slot : WF_vars(Answer(s)) /\ WF_vars(Proceed(s))

-----------------------------------------------------------------------------
Told ==
  \/ "restart" \in Open \/ banner
  \/ \E s \in Slot : Is(s, "enable", "timer")

\* As long as the page is not loaded again, a change reported as made comes with
\* the prompt for the restart it needs, or its banner, however the prompt was
\* closed (closeRestartRequiredModal, closeTopModal, restartNow) and whatever
\* overlapped.  Installs are left out: they need a restart, too, and nothing
\* prompts for it (InstallDone).
ChangesPromptARestart == "change" \in reported => Told

\* What the install dialog calls installed is what the panel has installed,
\* also when installs overlap; and a success is of the package in the heading
\* if the latest install began with no other under way.
SuccessIsThePanels ==
  /\ progress.about # None => progress.about \in accepted
  /\ progress.state = "success" /\ ~overlapped => progress.about = progress.named

\* An install that is shown to run ends in an outcome, whatever fails.
InstallsAreReported == progress.state = "running" ~> progress.state # "running"
=============================================================================
