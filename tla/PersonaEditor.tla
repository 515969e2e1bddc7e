---------------------------- MODULE PersonaEditor ----------------------------
(***************************************************************************)
(* The persona editor of the web page (static/js/app.js): a dialog for a   *)
(* new or a stored persona, with the solvers in their order, a box of      *)
(* settings for each, and the memory.                                      *)
(*                                                                         *)
(* The selected solvers and their settings are kept beside the boxes, and  *)
(* each redrawing of the boxes first reads what they hold.                 *)
(*                                                                         *)
(* A request may fail.  The user may do anything in the dialog as soon as  *)
(* it is up, with the persona's solvers still on their way and the last    *)
(* one's in their place.  He waits with the next opening until the last    *)
(* one has loaded, and with the next save until the last one is answered.  *)
(***************************************************************************)
EXTENDS Naturals, SequencesExt

CONSTANTS
  Persona,  \* names of personas
  Solver,   \* solver plugins
  Json,     \* those whose box holds JSON, which may not parse
  Setting,  \* settings of a solver
  Broken,   \* a text that does not parse
  Empty,    \* no settings; an empty box
  None,     \* no persona, no box, no flow, not typed
  Initial,  \* the personas that are stored at first
  Saves,    \* saves that reach the panel (a bound)
  Busy      \* whether the user works on in the dialog while a save is under
            \* way, or only closes it (a bound)

ASSUME SolverAssumption == Json \subseteq Solver
ASSUME SettingAssumption ==
  /\ Setting \cap {Broken, Empty, None} = {}
  /\ Broken # Empty /\ Empty # None /\ None # Broken

VARIABLES
  personas,  \* the panel's: a record, or None
  target,    \* editPersonaName; None for a new persona
  dialog,    \* whether createPersonaModal is up
  selected,  \* selectedSolvers
  settings,  \* _solverConfigs
  boxes,     \* personaSolverConfigContainer: a text for each solver with a box
  memory,    \* personaMemoryModule
  flow,      \* the opening that awaits an answer, or None
  sent,      \* the save that is under way, or None
  opened,    \* what the last opening put into the dialog
  typed,     \* what the user typed for a solver since the dialog opened
  touched,   \* the solvers the user typed for or toggled since then
  edited,    \* whether the user changed anything else since then
  saves      \* saves that have reached the panel

editor == <<target, dialog, selected, settings, boxes, memory>>
user == <<typed, touched, edited>>
vars == <<personas, editor, flow, sent, opened, user, saves>>

Config == [Solver -> Setting \cup {Empty}]
File == [solvers : Seq(Solver), config : Config, memory : {"none", "short"}]

Flow == [do : {"create", "edit", "memory", "solvers"},
         name : Persona \cup {None}, file : File]
Sent == [name : Persona, file : File, new : BOOLEAN]

\* The personas as this page stores them: no solver is listed twice.
ASSUME InitialAssumption ==
  /\ Initial \in [Persona -> File \cup {None}]
  /\ \A n \in Persona : Initial[n] # None => IsInjective(Initial[n].solvers)
ASSUME NoneAssumption == None \notin Persona \cup File \cup Flow \cup Sent
ASSUME BoundsAssumption == Saves \in Nat /\ Busy \in BOOLEAN

Unset == [s \in Solver |-> Empty]
NoBoxes == [s \in Solver |-> None]
New == [solvers |-> <<>>, config |-> Unset, memory |-> "short"]

TypeOK ==
  /\ personas \in [Persona -> File \cup {None}]
  /\ target \in Persona \cup {None} /\ {dialog, edited} \subseteq BOOLEAN
  /\ selected \in Seq(Solver) /\ IsInjective(selected)
  /\ settings \in Config /\ memory \in {"none", "short"}
  /\ boxes \in [Solver -> Setting \cup {Broken, Empty, None}]
  /\ flow \in Flow \cup {None} /\ sent \in Sent \cup {None} /\ opened \in File
  /\ \A s \in Solver : boxes[s] = Broken => s \in Json
  /\ dialog /\ flow = None => {s \in Solver : boxes[s] # None} = Range(selected)
  /\ touched \subseteq Solver /\ saves \in 0..Saves

Init ==
  /\ personas = Initial
  /\ target = None /\ dialog = FALSE
  /\ selected = <<>> /\ settings = Unset /\ boxes = NoBoxes /\ memory = "none"
  /\ flow = None /\ sent = None /\ opened = New /\ saves = 0
  /\ typed = NoBoxes /\ touched = {} /\ edited = FALSE

-----------------------------------------------------------------------------
\* _collectAllSolverConfigs: the settings of the selected solvers are what
\* their boxes hold; a text that does not parse, or no box, means none.
Collected(sel, set) ==
  [s \in Solver |-> IF s \notin Range(sel) THEN set[s]
                    ELSE IF boxes[s] \in Setting THEN boxes[s] ELSE Empty]
Parses == \A s \in Range(selected) : boxes[s] # Broken

\* Mutant: the boxes are drawn without reading them first.
RedrawUnread(sel, set) ==
  /\ selected' = sel
  /\ settings' = set
  /\ boxes' = [s \in Solver |-> IF s \in Range(sel) THEN set[s] ELSE None]

\* renderSelectedSolvers, renderSolverConfigSections
Redraw(sel, set) ==
  /\ selected' = sel
  /\ settings' = Collected(sel, set)
  /\ boxes' = [s \in Solver |-> IF s \in Range(sel) THEN Collected(sel, set)[s] ELSE None]

\* At the page the user waits until what was asked for is there.
AtPage == flow = None /\ ~dialog
AtDialog == dialog /\ (sent = None \/ Busy)

Awaits(do, name, file) == flow' = [do |-> do, name |-> name, file |-> file]
In(do) == flow # None /\ flow.do = do

Untouched == typed' = NoBoxes /\ touched' = {} /\ edited' = FALSE

\* Mutant: what the last persona left is not cleared.
ShowCreateOver ==
  /\ AtPage
  /\ target' = None /\ dialog' = TRUE
  /\ selected' = <<>> /\ boxes' = NoBoxes
  /\ Awaits("create", None, New) /\ opened' = New
  /\ Untouched
  /\ UNCHANGED <<personas, settings, memory, sent, saves>>

\* showCreatePersonaModal; loadMemoryModules goes on in the background.
ShowCreate ==
  /\ AtPage
  /\ target' = None /\ dialog' = TRUE
  /\ selected' = <<>> /\ settings' = Unset /\ boxes' = NoBoxes
  /\ Awaits("create", None, New) /\ opened' = New
  /\ Untouched
  /\ UNCHANGED <<personas, memory, sent, saves>>

\* editPersona
Edit(n) ==
  /\ AtPage /\ personas[n] # None
  /\ Awaits("edit", n, New)
  /\ UNCHANGED <<personas, editor, sent, opened, user, saves>>

\* The persona is there: its memory plugin is selected, the default one if it
\* has none.
PersonaCame ==
  /\ In("edit")
  /\ target' = flow.name
  /\ Awaits("memory", flow.name, personas[flow.name])
  /\ Untouched
  /\ UNCHANGED <<personas, dialog, selected, settings, boxes, memory, sent, opened, saves>>

PersonaFailed ==
  /\ In("edit")
  /\ flow' = None
  /\ UNCHANGED <<personas, editor, sent, opened, user, saves>>

\* loadMemoryModules has its answer, or none, which it takes for an empty list.
\* The dialog of a stored persona opens, without boxes and with the solvers
\* and settings of the persona before.
MemoryCame ==
  /\ In("create") \/ In("memory")
  /\ memory' = IF flow.file.memory = "none" THEN "short" ELSE flow.file.memory
  /\ IF flow.do = "create"
     THEN flow' = None /\ UNCHANGED <<dialog, boxes>>
     ELSE /\ Awaits("solvers", flow.name, flow.file)
          /\ dialog' = TRUE /\ boxes' = NoBoxes
  /\ UNCHANGED <<personas, target, selected, settings, sent, opened, user, saves>>

\* loadSolverPluginsForPersona has its answer, or none: the solvers and their
\* settings come from the persona.  What the user has typed for one of them in
\* the meantime is read from its box; what was done with others is gone.
SolversCame ==
  /\ In("solvers")
  /\ Redraw(flow.file.solvers, flow.file.config)
  /\ flow' = None /\ opened' = flow.file
  /\ typed' = [s \in Solver |-> IF s \in Range(selected') THEN typed[s] ELSE None]
  /\ touched' = touched \cap Range(selected')
  /\ UNCHANGED <<personas, target, dialog, memory, edited, sent, saves>>

-----------------------------------------------------------------------------
Touches(s) == touched' = touched \cup {s} /\ UNCHANGED edited

\* Mutant: a solver that is selected is selected again.
ToggleAppends(s) ==
  /\ AtDialog
  /\ Redraw(Append(selected, s), settings)
  /\ typed' = [typed EXCEPT ![s] = None] /\ Touches(s)
  /\ UNCHANGED <<personas, target, dialog, memory, flow, sent, opened, saves>>

\* selectedSolvers.splice(index, 1)
Without(s) == RemoveAt(selected, CHOOSE i \in DOMAIN selected : selected[i] = s)

\* toggleSolver: a solver that is removed loses its settings.
Toggle(s) ==
  /\ AtDialog
  /\ IF s \in Range(selected)
     THEN Redraw(Without(s), [settings EXCEPT ![s] = Empty])
     ELSE Redraw(Append(selected, s), settings)
  /\ typed' = [typed EXCEPT ![s] = None] /\ Touches(s)
  /\ UNCHANGED <<personas, target, dialog, memory, flow, sent, opened, saves>>

\* drop: the dragged solver is moved to another place.
Drop(i, j) ==
  /\ AtDialog /\ {i, j} \subseteq DOMAIN selected /\ i # j
  /\ Redraw(InsertAt(RemoveAt(selected, i), j, selected[i]), settings)
  /\ edited' = TRUE
  /\ UNCHANGED <<personas, target, dialog, memory, flow, sent, opened, typed, touched, saves>>

\* The user fills a box.
Type(s, text) ==
  /\ AtDialog /\ boxes[s] # None
  /\ text = Broken => s \in Json
  /\ boxes' = [boxes EXCEPT ![s] = text]
  /\ typed' = [typed EXCEPT ![s] = text] /\ Touches(s)
  /\ UNCHANGED <<personas, target, dialog, selected, settings, memory, flow, sent, opened, saves>>

ChooseMemory(m) ==
  /\ AtDialog
  /\ memory' = m /\ edited' = TRUE
  /\ UNCHANGED <<personas, target, dialog, selected, settings, boxes, flow, sent,
                 opened, typed, touched, saves>>

\* closeCreatePersonaModal
Close ==
  /\ dialog
  /\ dialog' = FALSE /\ Untouched
  /\ UNCHANGED <<personas, target, selected, settings, boxes, memory, flow, sent, opened, saves>>

\* savePersona: the settings kept for solvers that are not selected go along.
\* Without a solver, or with a text that does not parse, nothing is sent.
Save(n) ==
  /\ AtDialog /\ sent = None /\ selected # <<>>
  /\ target # None => n = target
  /\ settings' = Collected(selected, settings)
  /\ sent' = IF Parses
             THEN [name |-> n, new |-> target = None,
                   file |-> [solvers |-> selected, config |-> settings', memory |-> memory]]
             ELSE None
  /\ UNCHANGED <<personas, target, dialog, selected, boxes, memory, flow, opened, user, saves>>

\* The panel stores the persona: a new name is not taken, a stored one is
\* replaced.  The answer closes the dialog, whatever it is for by now, or it
\* is lost.
Stored(answered) ==
  /\ sent # None /\ saves < Saves
  /\ sent.new <=> personas[sent.name] = None
  /\ personas' = [personas EXCEPT ![sent.name] = sent.file] /\ saves' = saves + 1
  /\ sent' = None
  /\ IF answered THEN dialog' = FALSE /\ Untouched ELSE UNCHANGED <<dialog, user>>
  /\ UNCHANGED <<target, selected, settings, boxes, memory, flow, opened>>

\* It does not: the dialog stays.
SaveFailed ==
  /\ sent # None
  /\ sent' = None
  /\ UNCHANGED <<personas, editor, flow, opened, user, saves>>

\* deletePersona, confirmed
Delete(n) ==
  /\ AtPage /\ personas[n] # None
  /\ personas' = [personas EXCEPT ![n] = None]
  /\ UNCHANGED <<editor, flow, sent, opened, user, saves>>

Come ==
  \/ PersonaCame \/ PersonaFailed \/ MemoryCame \/ SolversCame
  \/ \E answered \in BOOLEAN : Stored(answered)
  \/ SaveFailed

Next ==
  \/ Come
  \/ ShowCreate \/ Close
  \/ \E n \in Persona : Edit(n) \/ Save(n) \/ Delete(n)
  \/ \E s \in Solver : Toggle(s)
  \/ \E s \in Solver, text \in Setting \cup {Broken, Empty} : Type(s, text)
  \/ \E i, j \in 1..Cardinality(Solver) : Drop(i, j)
  \/ \E m \in {"none", "short"} : ChooseMemory(m)

Spec == Init /\ [][Next]_vars

-----------------------------------------------------------------------------
\* A save is sent from a dialog whose persona has loaded.
Saving == sent = None /\ sent' # None /\ ~In("solvers")

\* What is saved once the persona has loaded is that persona's and the user's:
\* a solver the user did not touch is selected or not as it was, with its
\* settings or none; one the user did touch has what was typed last or none.
\* Nothing of a persona edited before gets in, whatever the user did while the
\* solvers were on their way (editPersona, savePersona).
SaveMixesNothing ==
  [][Saving =>
       \A s \in Solver :
         IF s \in touched THEN sent'.file.config[s] \in {typed[s], Empty}
         ELSE /\ s \in Range(sent'.file.solvers) <=> s \in Range(opened.solvers)
              /\ sent'.file.config[s] \in {opened.config[s], Empty}]_sent

\* What the user typed, if it parses, is still there after other solvers have
\* been added, removed or moved, and after the persona's own have come, if it
\* is one of them: "Preserve existing field values before re-rendering".
TypedIsKept ==
  dialog =>
    \A s \in Solver : typed[s] \in Setting => boxes[s] = typed[s]

\* A persona that is opened and saved without a change keeps the settings of
\* its solvers: "Restore per-solver configs from the saved persona" (editPersona).
EditKeepsSettings ==
  [][Saving /\ target # None /\ touched = {} /\ ~edited =>
       sent'.file.config = opened.config]_sent
=============================================================================
