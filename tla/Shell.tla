------------------------------- MODULE Shell -------------------------------
(***************************************************************************)
(* The interactive session: the event loop (runner.rs), the translation of *)
(* keys (input.rs), the reducer and the effects (app.rs), the worker       *)
(* threads that answer between two frames, and what of a frame the reducer *)
(* is told (tui.rs).  An action is one turn of the loop's body: a drain, a *)
(* frame, or a key with the effects it has.                                *)
(*                                                                         *)
(* Lists, selections and typed text are data: an action that needs a       *)
(* selected row may find one or not.  A dialog is a number of rows, some   *)
(* of which ask the question that Enter answers.                           *)
(***************************************************************************)
EXTENDS Naturals, Sequences

CONSTANTS
  Lengths,      \* rows a dialog may take
  Heights       \* rows a frame may have for it; 0: too small, nothing is drawn

ASSUME LengthsAssumption == Lengths \subseteq Nat \ {0}
ASSUME HeightsAssumption == Heights \subseteq Nat

SetupSteps == <<"Welcome", "DetectAgents", "ChooseScanRoots", "DiscoverSources",
                "ConfirmCatalogs", "ScanInstallations", "Summary">>
Setup == {SetupSteps[i] : i \in DOMAIN SetupSteps}
Workspaces == {"Inventory", "Sources", "Updates", "Doctor"}
Kinds == {"operation", "repair", "update", "vendored", "adoption"}

VARIABLES
  ready,        \* the metadata store answers; once it does not, the session is degraded
  view, pane,   \* the screen, and the region of it that has the focus
  help, filter, path, source,   \* the help screen, the filter bar, the path entry and the
                                \* catalogs of a source to confirm: whether each is open
  dialog,       \* pending_operation, pending_repair, ...
  window,       \* the offset, the extent of the last frame, whether it had one, the latch
  check, apply, updating,       \* the workers: none, running, answered or lost
  pc,           \* the turn of the loop
  seen, blind,  \* rows of the open dialog drawn so far; scrolled while it was not drawn
  owed          \* kinds of which a write began whose report has not been dismissed

screen == <<ready, view, pane>>
input == <<help, filter, path, source>>
workers == <<check, apply, updating>>
reading == <<window, seen, blind>>
vars == <<screen, input, dialog, reading, workers, pc, owed>>

-----------------------------------------------------------------------------
(* Dialogs *)

Closed == [phase |-> "none", rows |-> 0, ask |-> 0, may |-> FALSE]
Answer(phase) == [phase |-> phase, rows |-> 1, ask |-> 0, may |-> FALSE]

\* What a plan may turn out to be; an update lists its changed files below the question.
Previews(kind) ==
  {p \in [phase : {"Preview"}, rows : Lengths, ask : Lengths, may : BOOLEAN] :
     p.ask <= p.rows /\ (kind # "update" => p.ask = p.rows)}

Open == {k \in Kinds : dialog[k].phase # "none"}
          \cup {o \in {"help"} : help} \cup {o \in {"filter"} : filter}
          \cup {o \in {"path"} : path} \cup {o \in {"source"} : source}

First(order, open) ==
  IF \E i \in DOMAIN order : order[i] \in open
  THEN order[CHOOSE i \in DOMAIN order :
               order[i] \in open /\ \A j \in 1..(i - 1) : order[j] \notin open]
  ELSE "screen"

KeyOrder == <<"help", "path", "filter", "vendored", "adoption", "operation", "repair",
              "update", "source">>
ReducerOrder == <<"help", "vendored", "adoption", "operation", "repair", "update", "filter">>
DrawOrder == <<"help", "operation", "repair", "update", "vendored", "adoption", "path", "source">>

Keyboard == First(KeyOrder, Open)
Reducer == First(ReducerOrder, Open)
Drawn == First(DrawOrder, IF view = "Sources" THEN Open ELSE Open \ {"source"})

\* A key reaches what the reducer, too, takes for the owner of the keyboard.
Key(owner) ==
  /\ pc = "key" /\ Keyboard = owner
  /\ Reducer = IF owner \in {"path", "source"} THEN "screen" ELSE owner
  /\ pc' = "drain"

ResetScroll == window' = [offset |-> 0, most |-> 0, measured |-> FALSE, read |-> FALSE]
Shows(dialogs) == dialog' = dialogs /\ seen' = {} /\ blind' = FALSE /\ ResetScroll
Opens(kind, prompt) == Shows([dialog EXCEPT ![kind] = prompt])

NoDialogs == [k \in Kinds |-> Closed]

\* Fault: degrading leaves the source flow open.
SetDegradedKeepingTheSourceFlow ==
  /\ ready' = FALSE /\ view' = "Inventory" /\ pane' \in {"list", "details"}
  /\ UNCHANGED input

\* Inventory comes back in whichever region it was left.
SetDegraded ==
  /\ ready' = FALSE /\ view' = "Inventory" /\ pane' \in {"list", "details"}
  /\ path' = FALSE /\ source' = FALSE
  /\ UNCHANGED <<help, filter>>

Degrade == SetDegraded /\ Shows(NoDialogs)

\* An attempt answers in its dialog, and takes the metadata down when the store failed it.
Settles(kind, prompt) ==
  \/ Opens(kind, prompt) /\ UNCHANGED <<screen, input>>
  \/ SetDegraded /\ Shows([NoDialogs EXCEPT ![kind] = prompt])

EnterInventory == view' = "Inventory" /\ pane' = "list"

-----------------------------------------------------------------------------
(* Workers *)

Ended == {"answered", "lost"}

CheckAnswers == check = "running" /\ check' \in Ended /\ UNCHANGED <<apply, updating>>
ApplyAnswers == apply = "running" /\ apply' \in Ended /\ UNCHANGED <<check, updating>>
UpdatesAnswer == updating = "running" /\ updating' \in Ended /\ UNCHANGED <<check, apply>>

Worker ==
  /\ CheckAnswers \/ ApplyAnswers \/ UpdatesAnswer
  /\ UNCHANGED <<screen, input, dialog, reading, pc, owed>>

-----------------------------------------------------------------------------
(* One turn of the loop: drain, draw, and wait for a key *)

DrainVendoredCheck ==
  /\ check \in Ended
  /\ check' = "none"
  /\ \/ /\ check = "answered"
        /\ \E p \in Previews("vendored") \cup {Closed} : Opens("vendored", p)
        /\ UNCHANGED <<screen, input>>
     \/ Settles("vendored", Answer("Failed"))
  /\ UNCHANGED <<apply, owed>>

\* Fault: the report is put up before the metadata is found to be gone.
DrainVendoredApplyThenDegrading ==
  /\ apply \in Ended
  /\ apply' = "none"
  /\ \/ Opens("vendored", Answer("Report")) /\ UNCHANGED <<screen, input>>
     \/ Degrade
  /\ UNCHANGED <<check, owed>>

\* Fault: a worker that is gone without an answer is waited for.
DrainVendoredApplyOnlyAnswers ==
  /\ apply = "answered"
  /\ apply' = "none"
  /\ Settles("vendored", Answer("Report"))
  /\ UNCHANGED <<check, owed>>

\* The sources and the installations are read again whatever the outcome, then it is reported.
DrainVendoredApply ==
  /\ apply \in Ended
  /\ apply' = "none"
  /\ Settles("vendored", Answer("Report"))
  /\ UNCHANGED <<check, owed>>

NothingToDrain ==
  /\ check \notin Ended /\ apply \notin Ended
  /\ UNCHANGED <<screen, input, dialog, reading, check, apply, owed>>

Drain ==
  /\ pc = "drain"
  /\ DrainVendoredCheck \/ DrainVendoredApply \/ NothingToDrain
  /\ updating' = IF updating \in Ended THEN "none" ELSE updating
  /\ pc' = "draw"

Beyond(rows, height) == IF rows > height THEN rows - height ELSE 0
Least(a, b) == IF a < b THEN a ELSE b

DialogDrawn == Drawn \in Kinds
DetailRegion == view \in Workspaces \ {"Sources"} /\ pane = "details"

\* How far a detail region's own text lets it be scrolled is data.
DetailExtents == {0, 1}

\* detail_scroll_extent: a compact terminal draws the details alone, and only when focused.
Extents(height) ==
  IF Open \cap Kinds # {} THEN {Beyond(dialog[Drawn].rows, height)}
  ELSE IF view \in Workspaces \ {"Sources"} THEN DetailExtents ELSE {}

NoteMaxScroll(most) ==
  [window EXCEPT !.measured = TRUE, !.most = most, !.offset = Least(window.offset, most)]

NoteNotDrawn == [window EXCEPT !.measured = FALSE]

\* update_preview_fully_seen
StatementRead(height) ==
  /\ dialog["update"].phase = "Preview"
  /\ window.offset >= Beyond(dialog["update"].ask, height)

Draw ==
  /\ pc = "draw" /\ pc' = "key"
  /\ \E height \in Heights :
       IF height = 0
       THEN window' = NoteNotDrawn /\ UNCHANGED seen
       ELSE /\ \/ \E most \in Extents(height) :
                    window' = [NoteMaxScroll(most) EXCEPT
                                 !.read = window.read \/ StatementRead(height)]
               \/ Open \cap Kinds = {} /\ ~DetailRegion /\ window' = NoteNotDrawn
            /\ seen' = IF DialogDrawn
                       THEN seen \cup {r \in 1..dialog[Drawn].rows :
                              window.offset < r /\ r <= window.offset + height}
                       ELSE seen
  /\ UNCHANGED <<screen, input, dialog, workers, blind, owed>>

Idle == pc = "key" /\ pc' = "drain" /\ UNCHANGED <<screen, input, dialog, reading, workers, owed>>

\* Control-C and an interrupt end every state; workers are told to stop, and joined in Drop.
Quit ==
  /\ pc \in {"drain", "key"} /\ pc' = "leaving"
  /\ dialog' = IF check = "none" THEN dialog ELSE [dialog EXCEPT !["vendored"] = Closed]
  /\ check' = "none"
  /\ UNCHANGED <<screen, input, reading, apply, updating, owed>>

Leave ==
  /\ pc = "leaving" /\ apply # "running" /\ updating # "running"
  /\ pc' = "done" /\ apply' = "none" /\ updating' = "none"
  /\ UNCHANGED <<screen, input, dialog, reading, check, owed>>

-----------------------------------------------------------------------------
(* Reading a dialog, and the confirmation it accepts *)

ScrollDetail ==
  \E moved \in {Beyond(window.offset, 1), window.offset + 1} :
    window' = [window EXCEPT !.offset = Least(moved, window.most)]

\* Fault: an extent counts although the last frame did not draw the dialog.
FullySeenOfAnyFrame == window.offset >= window.most

FullySeen == window.measured /\ window.offset >= window.most

ScrollDialog(kind) ==
  /\ Key(kind) /\ ScrollDetail
  /\ blind' = (blind \/ ~window.measured)
  /\ UNCHANGED <<screen, input, dialog, workers, seen, owed>>

CanConfirm(kind) ==
  /\ dialog[kind].phase = "Preview" /\ dialog[kind].may
  /\ IF kind = "update" THEN window.read ELSE FullySeen

\* Fault: a cancelled check closes its dialog and keeps its run.
DismissKeepingTheRun(kind) ==
  /\ Key(kind)
  /\ dialog[kind].phase # "Applying"
  /\ Opens(kind, Closed)
  /\ owed' = IF dialog[kind].phase = "Report" THEN owed \ {kind} ELSE owed
  /\ UNCHANGED <<screen, input, workers>>

Dismiss(kind) ==
  /\ Key(kind)
  /\ dialog[kind].phase # "Applying"
  /\ Opens(kind, Closed)
  /\ check' = IF dialog[kind].phase = "Checking" THEN "none" ELSE check
  /\ owed' = IF dialog[kind].phase = "Report" THEN owed \ {kind} ELSE owed
  /\ UNCHANGED <<screen, input, apply, updating>>

\* Install, uninstall, forget: the write, the scan and the report; an install's receipt may
\* have failed the store.
ApplyOperation ==
  /\ Key("operation") /\ ready /\ CanConfirm("operation")
  /\ owed' = owed \cup {"operation"}
  /\ Settles("operation", Answer("Report"))
  /\ UNCHANGED workers

ApplyRepair ==
  /\ Key("repair") /\ CanConfirm("repair")
  /\ IF ready
     THEN /\ Opens("repair", Answer("Report")) /\ owed' = owed \cup {"repair"}
          /\ UNCHANGED <<screen, input>>
     ELSE Degrade /\ UNCHANGED owed
  /\ UNCHANGED workers

\* The merge comes first; the store is asked for the sources after it, and to keep the check.
\* A guard may refuse the merge, which is reported too.
ApplyRepositoryUpdate ==
  /\ Key("update") /\ CanConfirm("update")
  /\ owed' \in {owed, owed \cup {"update"}}
  /\ Opens("update", Answer("Report"))
  /\ UNCHANGED <<screen, input, workers>>

ApplyAdoption ==
  /\ Key("adoption") /\ CanConfirm("adoption")
  /\ \/ ready /\ owed' = owed \cup {"adoption"} /\ Settles("adoption", Answer("Report"))
     \/ Settles("adoption", Answer("Failed")) /\ UNCHANGED owed
  /\ UNCHANGED workers

StartVendoredApply ==
  /\ Key("vendored") /\ CanConfirm("vendored") /\ apply = "none"
  /\ apply' = "running"
  /\ owed' = owed \cup {"vendored"}
  /\ Opens("vendored", Answer("Applying"))
  /\ UNCHANGED <<screen, input, check, updating>>

-----------------------------------------------------------------------------
(* What opens a dialog *)

OnVariant == ready /\ view = "Sources" /\ pane \in {"variants", "details"}

\* Planning may find the store gone.
PlanInstall ==
  /\ Key("screen") /\ OnVariant
  /\ \/ \E p \in Previews("operation") \cup {Answer("Failed")} :
          Opens("operation", p) /\ UNCHANGED <<screen, input>>
     \/ Degrade
  /\ UNCHANGED <<workers, owed>>

\* Uninstall from the selected row, forget from the selected source.
PlanRemoval ==
  /\ Key("screen") /\ ready
  /\ view = "Inventory" \/ (view = "Sources" /\ pane = "list")
  /\ \E p \in Previews("operation") \cup {Answer("Failed")} : Opens("operation", p)
  /\ UNCHANGED <<screen, input, workers, owed>>

PlanRepair ==
  /\ Key("screen") /\ ready /\ view = "Doctor"
  /\ \E p \in Previews("repair") \cup {Answer("Failed")} : Opens("repair", p)
  /\ UNCHANGED <<screen, input, workers, owed>>

\* AdvanceUpdatesPane on a source whose cached check is available.
PlanRepositoryUpdate ==
  /\ Key("screen") /\ view = "Updates" /\ pane = "details" /\ updating = "none"
  /\ \E p \in Previews("update") \cup {Answer("Failed")} : Opens("update", p)
  /\ UNCHANGED <<screen, input, workers, owed>>

BeginAdoption ==
  /\ Key("screen") /\ OnVariant
  /\ \/ Opens("adoption", Answer("Editing")) /\ UNCHANGED <<screen, input>>
     \/ Settles("adoption", Answer("Failed"))
  /\ UNCHANGED <<workers, owed>>

\* A refused declaration stays open for editing.
PreviewAdoption ==
  /\ Key("adoption") /\ dialog["adoption"].phase = "Editing"
  /\ \/ \E p \in Previews("adoption") \cup {Answer("Editing")} :
          (p.phase = "Preview" => p.may) /\ Opens("adoption", p) /\ UNCHANGED <<screen, input>>
     \/ SetDegraded /\ Shows([NoDialogs EXCEPT !["adoption"] = Answer("Failed")])
  /\ UNCHANGED <<workers, owed>>

BeginVendoredCheck ==
  /\ Key("screen") /\ OnVariant
  /\ check = "none" /\ apply = "none" /\ updating = "none"
  /\ \/ /\ Opens("vendored", Answer("Checking")) /\ check' = "running"
        /\ UNCHANGED <<screen, input>>
     \/ Settles("vendored", Answer("Failed")) /\ UNCHANGED check
  /\ UNCHANGED <<apply, updating, owed>>

\* The generations are reserved in the store before the worker starts.
BeginUpdateCheck ==
  /\ Key("screen") /\ view = "Updates" /\ updating = "none"
  /\ updating' \in IF ready THEN {"running", "none"} ELSE {"none"}
  /\ UNCHANGED <<screen, input, dialog, reading, check, apply, owed>>

\* A finished check is kept; one still running is kept until its thread ends.
CancelUpdateCheck ==
  /\ Key("screen") /\ view = "Updates" /\ updating # "none"
  /\ updating' = IF updating = "running" THEN "running" ELSE "none"
  /\ UNCHANGED <<screen, input, dialog, reading, check, apply, owed>>

-----------------------------------------------------------------------------
(* Screens *)

Moves == Key("screen") /\ UNCHANGED <<ready, input, workers, owed>>
SameWindow == UNCHANGED <<dialog, reading>>
NewWindow == ResetScroll /\ UNCHANGED <<dialog, seen, blind>>

OpenHelp ==
  /\ Key("screen") /\ help' = TRUE
  /\ UNCHANGED <<screen, filter, path, source, dialog, reading, workers, owed>>

CloseHelp ==
  /\ Key("help") /\ help' = FALSE
  /\ UNCHANGED <<screen, filter, path, source, dialog, reading, workers, owed>>

OpenWorkspace ==
  /\ Moves
  /\ \E to \in Workspaces \ {view} :
       /\ view \in Workspaces
       /\ view' = to /\ pane' = "list"
       /\ IF to = "Sources" THEN SameWindow ELSE NewWindow

OpenSettings == Moves /\ view = "Inventory" /\ view' = "Settings" /\ UNCHANGED pane /\ SameWindow

Panes(screenView) == IF screenView = "Sources" THEN {"list", "variants", "details"}
                     ELSE {"list", "details"}

MovePane ==
  /\ Moves /\ view \in Workspaces
  /\ pane' \in Panes(view) \ {pane}
  /\ UNCHANGED view /\ SameWindow

MoveSelection ==
  /\ Moves /\ view \in Workspaces \ {"Sources"} /\ pane = "list"
  /\ UNCHANGED <<view, pane>> /\ NewWindow

ScrollRegion ==
  /\ Moves /\ DetailRegion /\ ScrollDetail
  /\ UNCHANGED <<view, pane, dialog, seen, blind>>

\* Back unwinds an applied filter, the region, then the screen.
Back ==
  /\ Moves
  /\ \/ view = "Inventory" /\ UNCHANGED <<view, pane>> /\ NewWindow
     \/ view = "Inventory" /\ pane = "details" /\ pane' = "list" /\ UNCHANGED view /\ SameWindow
     \/ view = "Sources" /\ pane # "list" /\ UNCHANGED view /\ SameWindow
        /\ pane' = IF pane = "details" THEN "variants" ELSE "list"
     \/ view \in {"Updates", "Doctor"} /\ pane = "details" /\ pane' = "list"
        /\ UNCHANGED view /\ SameWindow
        /\ (view = "Updates" => updating = "none")
     \/ view \in {"Sources", "Updates", "Doctor"} /\ pane = "list" /\ EnterInventory /\ NewWindow
        /\ (view = "Updates" => updating = "none")
     \/ view = "Settings" /\ EnterInventory /\ NewWindow
     \/ \E i \in DOMAIN SetupSteps \ {1} :
          view = SetupSteps[i] /\ view' = SetupSteps[i - 1] /\ UNCHANGED pane /\ SameWindow

BeginFilter ==
  /\ Key("screen") /\ view = "Inventory" /\ pane = "list" /\ filter' = TRUE
  /\ UNCHANGED <<screen, help, path, source, dialog, reading, workers, owed>>

\* Every edit filters the rows again; Enter and Esc close the bar as well.
FilterInput ==
  /\ Key("filter") /\ filter' \in BOOLEAN /\ NewWindow
  /\ UNCHANGED <<screen, help, path, source, workers, owed>>

\* advance_setup: arriving at the scan and leaving the summary read the machine.
AdvanceSetup ==
  /\ Key("screen") /\ ready /\ view \in Setup
  /\ \/ \E i \in DOMAIN SetupSteps \ {Len(SetupSteps)} :
          /\ view = SetupSteps[i] /\ view' = SetupSteps[i + 1] /\ UNCHANGED <<ready, pane, input>>
          /\ IF view' = "ScanInstallations" THEN NewWindow ELSE SameWindow
     \/ view = "Summary" /\ EnterInventory /\ UNCHANGED <<ready, input>> /\ NewWindow
     \/ view = "Summary" /\ Degrade       \* the choices could not be stored
  /\ UNCHANGED <<workers, owed>>

RerunSetup ==
  /\ Key("screen") /\ view = "Settings" /\ ready
  /\ \/ view' = "Welcome" /\ UNCHANGED <<ready, pane, input>> /\ SameWindow
     \/ Degrade
  /\ UNCHANGED <<workers, owed>>

BeginAddSource ==
  /\ Key("screen") /\ ready /\ view \in {"Sources", "DiscoverSources"}
  /\ path' = TRUE /\ source' = FALSE
  /\ UNCHANGED <<screen, help, filter, dialog, reading, workers, owed>>

\* InspectSource; a path that cannot be added leaves the entry open.
SubmitSourcePath ==
  /\ Key("path") /\ path' = FALSE /\ source' = TRUE
  /\ view' = IF view = "DiscoverSources" THEN "ConfirmCatalogs" ELSE view
  /\ UNCHANGED <<ready, pane, help, filter, dialog, reading, workers, owed>>

CancelSourceFlow ==
  /\ Key("path") \/ Key("source")
  /\ path' = FALSE /\ source' = FALSE
  /\ view' = IF view = "ConfirmCatalogs" THEN "DiscoverSources" ELSE view
  /\ UNCHANGED <<ready, pane, help, filter, dialog, reading, workers, owed>>

\* RegisterSource; a refused checkout leaves the catalogs open.
ConfirmPendingSource ==
  /\ Key("source") /\ ready
  /\ \/ /\ path' = FALSE /\ source' = FALSE
        /\ view' = IF view = "ConfirmCatalogs" THEN "ScanInstallations" ELSE view
        /\ UNCHANGED <<ready, pane, help, filter>> /\ NewWindow
     \/ Degrade
  /\ UNCHANGED <<workers, owed>>

-----------------------------------------------------------------------------

Init ==
  /\ \/ ready = TRUE /\ view \in {"Inventory", "Welcome"}
     \/ ready = FALSE /\ view = "Inventory"
  /\ pane = "list"
  /\ help = FALSE /\ filter = FALSE /\ path = FALSE /\ source = FALSE
  /\ dialog = NoDialogs
  /\ window = [offset |-> 0, most |-> 0, measured |-> FALSE, read |-> FALSE]
  /\ check = "none" /\ apply = "none" /\ updating = "none"
  /\ pc = "drain" /\ seen = {} /\ blind = FALSE /\ owed = {}

Apply == ApplyOperation \/ ApplyRepair \/ ApplyRepositoryUpdate \/ ApplyAdoption
           \/ StartVendoredApply

Begin == PlanInstall \/ PlanRemoval \/ PlanRepair \/ PlanRepositoryUpdate \/ BeginAdoption
           \/ PreviewAdoption \/ BeginVendoredCheck \/ BeginUpdateCheck \/ CancelUpdateCheck

Navigate == OpenHelp \/ CloseHelp \/ OpenWorkspace \/ OpenSettings \/ MovePane \/ MoveSelection
              \/ ScrollRegion \/ Back \/ BeginFilter \/ FilterInput \/ AdvanceSetup \/ RerunSetup

AddSource == BeginAddSource \/ SubmitSourcePath \/ CancelSourceFlow \/ ConfirmPendingSource

Loop == Drain \/ Draw \/ Idle \/ Quit \/ Leave
User == Apply \/ Begin \/ Navigate \/ AddSource \/ \E kind \in Kinds : ScrollDialog(kind) \/ Dismiss(kind)

Next == Loop \/ User \/ Worker

\* The loop polls with a timeout, so it goes on without keys; a worker ends.
Fairness == WF_vars(Drain) /\ WF_vars(Draw) /\ WF_vars(pc = "key" /\ (Idle \/ User))
              /\ WF_vars(Worker) /\ WF_vars(Leave)

ShellSpec == Init /\ [][Next]_vars
FairShell == ShellSpec /\ Fairness

-----------------------------------------------------------------------------
(* Properties *)

TypeOK ==
  /\ ready \in BOOLEAN /\ view \in Setup \cup Workspaces \cup {"Settings"}
  /\ pane \in {"list", "variants", "details"}
  /\ {help, filter, path, source, blind} \subseteq BOOLEAN
  /\ check \in {"none", "running"} \cup Ended /\ apply \in {"none", "running"} \cup Ended
  /\ updating \in {"none", "running"} \cup Ended
  /\ window.offset \in Nat /\ window.most \in Nat
  /\ owed \subseteq Kinds

\* What owns the keyboard is on top of the screen, and is what the reducer listens to
\* (input.rs, app.rs and tui.rs each have their own order of dialogs, and degrading leaves a
\* screen from under an open one).
KeyboardIsOnScreen ==
  pc = "key" =>
    /\ Keyboard \in {"help", "path"} \cup Kinds => Drawn = Keyboard
    /\ Keyboard \in {"source", "filter", "screen"} => Drawn \in {"screen", Keyboard}
    /\ Keyboard = "source" => view \in {"Sources", "ConfirmCatalogs"}
    /\ Keyboard = "filter" => view = "Inventory" /\ pane = "list"
    /\ Reducer = IF Keyboard \in {"path", "source"} THEN "screen" ELSE Keyboard

Starts(kind) == kind \in owed' \ owed

\* A write starts only after every row of the question it answers was drawn, whatever sizes
\* the terminal had in the meantime, for a reader who did not scroll while there was nothing
\* to see (operation_preview_fully_seen and its siblings).
ConfirmedWasShown ==
  [][\A kind \in Kinds : Starts(kind) /\ ~blind => 1..dialog[kind].ask \subseteq seen]_vars

\* The same, as operation_preview_fully_seen's comment has it: of every reader.
ConfirmedWasRead ==
  [][\A kind \in Kinds : Starts(kind) => 1..dialog[kind].ask \subseteq seen]_vars

\* A worker's answer replaces the dialog that waits for it and nothing else: not another
\* dialog, and not a screen whose user has cancelled (drain_vendored_check and _apply).
AnswersMeetTheirQuestion ==
  [][Drain /\ dialog' # dialog =>
       /\ dialog["vendored"].phase \in {"Checking", "Applying"}
       /\ \A kind \in Kinds \ {"vendored"} : dialog[kind] = Closed /\ dialog'[kind] = Closed]_vars

\* A write that began is still running under its dialog or has its report on display until
\* the user dismisses that, also when the same attempt took the metadata down.
WritesAreReported ==
  pc \in {"draw", "key"} =>
    \A kind \in owed : dialog[kind].phase \in {"Applying", "Report"}

\* "Mutation actions are unavailable in this session."
DegradedIsReadOnly == [][\A kind \in Kinds : Starts(kind) => ready]_vars

\* A confirmed replacement ends in its report, also when its worker is lost, unless the user
\* leaves first (drain_vendored_apply).
AppliesEnd == dialog["vendored"].phase = "Applying"
                ~> (dialog["vendored"].phase = "Report" \/ pc \in {"leaving", "done"})
=============================================================================
