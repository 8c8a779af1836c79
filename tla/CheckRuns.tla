------------------------------ MODULE CheckRuns ------------------------------
(***************************************************************************)
(* The background checks of one application (src/app.rs, src/runner.rs,    *)
(* src/git/cancellable.rs).  A check runs on a worker thread that starts   *)
(* one Git child after another and sends one last message; the event loop  *)
(* drains it, cancels it, quits, or is left by an error or a panic.  The   *)
(* two threads share a cancellation flag, a terminal state settled by      *)
(* compare-and-exchange (update checks only), and a slot behind a lock in  *)
(* which the worker keeps its child so that a cancellation can signal it.  *)
(* Only the worker reaps, and a process group must not be signalled after  *)
(* its leader was reaped, because its number may belong to somebody else.  *)
(*                                                                         *)
(* Progress messages are left out: they neither settle nor end anything.   *)
(***************************************************************************)
EXTENDS FiniteSets

CONSTANTS Workers,   \* the worker threads ever started
          None       \* no check in flight

ASSUME NoneIsNoWorker == None \notin Workers
ASSUME NoneIsNoDialog == Workers \cap {"none", "checking", "refused"} = {}

VARIABLES
  step, goal,          \* the event loop: its place; what it does next
  run, origin,         \* update_check_run and vendored_check_run
  retired,             \* retired_update_workers, not joined yet
  dialog,              \* pending_vendored: a preview is the worker it came from
  error, saved,        \* update_check_error; the runs whose checks are stored
  screen,              \* whether Skilled owns the terminal
  kind, pc, outcome,   \* each worker: what it checks, its place, its result
  cancelled, terminal, \* the flag and the terminal state it shares
  channel,             \* the last message it sent
  child, slot, reaped  \* its Git process (gone: none, or reaped); whether the
                       \* slot holds it; whether the slot says it was reaped

app    == <<step, goal, run, origin, retired, dialog, error, saved, screen>>
shared == <<cancelled, terminal>>
git    == <<child, slot, reaped>>
worker == <<kind, pc, outcome, channel>>
vars   == <<step, goal, run, origin, retired, dialog, error, saved, screen,
            kind, pc, outcome, cancelled, terminal, channel, child, slot, reaped>>

Init ==
  /\ step = "origin" /\ goal = "loop"
  /\ run = None /\ origin = None /\ retired = {}
  /\ dialog = "none" /\ error = "none" /\ saved = {}
  /\ screen = TRUE
  /\ kind = [w \in Workers |-> "update"]
  /\ pc = [w \in Workers |-> "idle"]
  /\ outcome = [w \in Workers |-> "none"]
  /\ cancelled = [w \in Workers |-> FALSE]
  /\ terminal = [w \in Workers |-> "running"]
  /\ channel = [w \in Workers |-> "none"]
  /\ child = [w \in Workers |-> "gone"]
  /\ slot = [w \in Workers |-> FALSE]
  /\ reaped = [w \in Workers |-> FALSE]

-----------------------------------------------------------------------------
(* The worker.                                                                *)
At(w, label) == pc[w] = label
Become(w, label, result) ==
  /\ pc' = [pc EXCEPT ![w] = label]
  /\ outcome' = [outcome EXCEPT ![w] = result]
  /\ UNCHANGED <<kind, channel, app>>
Goto(w, label) == Become(w, label, outcome[w])

(* The answer of a worker that was cancelled.                                 *)
Withdrawn(w) == IF kind[w] = "update" THEN "Cancelled" ELSE "Nothing"

(* Before the first and between two sources the flag is read.                 *)
CheckSource(w) ==
  /\ At(w, "ready")
  /\ IF cancelled[w] THEN Become(w, "sending", Withdrawn(w)) ELSE Goto(w, "probe")
  /\ UNCHANGED <<shared, git>>

(* A Git command, in a process group of its own.                              *)
Spawn(w) ==
  /\ At(w, "probe")
  /\ child' = [child EXCEPT ![w] = "running"]
  /\ Goto(w, "spawned")
  /\ UNCHANGED <<shared, slot, reaped>>

SpawnFails(w) == At(w, "probe") /\ Goto(w, "judge") /\ UNCHANGED <<shared, git>>

(* The slot's lock is held only while a child taken out of it is reaped.      *)
SlotFree(w) == pc[w] # "reaping"

Publish(w) ==
  /\ At(w, "spawned")
  /\ slot' = [slot EXCEPT ![w] = TRUE]
  /\ Goto(w, "polling")
  /\ UNCHANGED <<shared, child, reaped>>

(* CancellableChild::cancel, on a child that is not known to be reaped.       *)
Signalled(w) == IF child[w] = "running" /\ ~reaped[w] THEN "killed" ELSE child[w]

(* A child whose pipes could not be set up is dropped before it is published. *)
Abandon(w, result) ==
  /\ At(w, "spawned")
  /\ child' = [child EXCEPT ![w] = Signalled(w)]
  /\ Become(w, "abandoned", result)
  /\ UNCHANGED <<shared, slot, reaped>>

(* What follows the collection of a child's output.                           *)
Then(w) ==
  \/ outcome[w] = "withdrawn" /\ Become(w, "sending", Withdrawn(w))
  \/ outcome[w] = "output" /\ Become(w, "probe", "none")
  \/ outcome[w] = "failed" /\ Become(w, "judge", "none")
  \/ outcome[w] = "panic" /\ Become(w, "panicked", "none")

(* Fault: a child dropped without being waited for.                           *)
ReleaseDetached(w) ==
  /\ At(w, "release")
  /\ slot' = [slot EXCEPT ![w] = FALSE]
  /\ Then(w)
  /\ UNCHANGED <<shared, child, reaped>>

(* SlotOwner::drop: the child leaves the slot, and unless it was reaped in    *)
(* there it is signalled, waited for and reaped, still under the lock.        *)
Release(w) ==
  /\ At(w, "release")
  /\ slot' = [slot EXCEPT ![w] = FALSE]
  /\ child' = [child EXCEPT ![w] = Signalled(w)]
  /\ Goto(w, "reaping")
  /\ UNCHANGED <<shared, reaped>>

Reap(w) ==
  /\ pc[w] \in {"reaping", "abandoned"}
  /\ ~reaped[w] => child[w] = "zombie"
  /\ child' = [child EXCEPT ![w] = "gone"]
  /\ reaped' = [reaped EXCEPT ![w] = FALSE]
  /\ Then(w)
  /\ UNCHANGED <<shared, slot>>

(* Fault: collection that goes on reading until the child has ended.          *)
PollPatiently(w) ==
  /\ At(w, "polling")
  /\ \/ Goto(w, "examine")
     \/ Become(w, "release", "failed")
  /\ UNCHANGED <<shared, git>>

(* One turn of the collection loop: the flag, then the pipes, then the child. *)
Poll(w) ==
  /\ At(w, "polling")
  /\ \/ cancelled[w] /\ Become(w, "release", "withdrawn")
     \/ ~cancelled[w] /\ (Goto(w, "examine") \/ Become(w, "release", "failed"))
  /\ UNCHANGED <<shared, git>>

(* Fault: an exit observed by a wait that reaps, recorded too late.           *)
ExamineByWaiting(w) ==
  /\ At(w, "examine")
  /\ IF child[w] = "zombie"
     THEN child' = [child EXCEPT ![w] = "gone"] /\ Goto(w, "draining")
     ELSE child' = child /\ Goto(w, "polling")
  /\ UNCHANGED <<shared, slot, reaped>>

(* Under the lock, an exit is observed without reaping; then the group is     *)
(* signalled, the leader reaped and the slot told so, all before the unlock.  *)
Examine(w) ==
  /\ At(w, "examine")
  /\ \/ /\ child[w] = "zombie"
        /\ child' = [child EXCEPT ![w] = "gone"]
        /\ reaped' = [reaped EXCEPT ![w] = TRUE]
        /\ Goto(w, "draining")
     \/ child[w] # "zombie" /\ Goto(w, "polling") /\ UNCHANGED <<child, reaped>>
     \/ Become(w, "release", "failed") /\ UNCHANGED <<child, reaped>>
  /\ UNCHANGED <<shared, slot>>

(* The leader is gone; its pipes are read to their end, for a bounded time.   *)
Drain(w) ==
  /\ At(w, "draining")
  /\ \/ cancelled[w] /\ Become(w, "release", "withdrawn")
     \/ ~cancelled[w] /\ \E result \in {"output", "failed"} : Become(w, "release", result)
  /\ UNCHANGED <<shared, git>>

(* The findings of a source, from what its commands said: no child is running *)
(* any more.  An update check reads the flag after it and goes on to the next *)
(* source or to the end; an origin check has a preview, or why there is none. *)
Judge(w) ==
  /\ pc[w] \in {"probe", "judge"}
  /\ \/ /\ kind[w] = "update"
        /\ \/ cancelled[w] /\ Become(w, "sending", "Cancelled")
           \/ ~cancelled[w] /\ \E next \in {"ready", "settle"} : Goto(w, next)
     \/ kind[w] = "origin" /\ At(w, "probe") /\ Become(w, "sending", "Preview")
     \/ kind[w] = "origin" /\ Become(w, "sending", "Refused")
  /\ UNCHANGED <<shared, git>>

(* Fault: the last flag read decides, without the exchange.                   *)
SettleByFlag(w) ==
  /\ At(w, "settle")
  /\ Become(w, "sending", "Finished")
  /\ UNCHANGED <<shared, git>>

(* Either the worker or the event loop settles a run, never both.             *)
Settle(w) ==
  /\ At(w, "settle")
  /\ IF terminal[w] = "running"
     THEN terminal' = [terminal EXCEPT ![w] = "finished"] /\ Become(w, "sending", "Finished")
     ELSE UNCHANGED terminal /\ Become(w, "sending", "Cancelled")
  /\ UNCHANGED <<cancelled, git>>

(* A panic unwinds through SlotOwner, or drops the child it has not published *)
Panic(w) ==
  /\ \/ pc[w] \in {"ready", "probe", "judge", "settle"} /\ Goto(w, "panicked")
     \/ pc[w] \in {"polling", "draining"} /\ Become(w, "release", "panic")
  /\ UNCHANGED <<shared, git>>

(* catch_update_worker_panic and publish_update_worker_failure.               *)
PublishFailure(w) ==
  /\ At(w, "panicked")
  /\ \/ /\ kind[w] = "update" /\ terminal[w] = "running"
        /\ terminal' = [terminal EXCEPT ![w] = "finished"]
        /\ Become(w, "sending", "Failed")
     \/ /\ kind[w] = "update" /\ terminal[w] = "cancelled"
        /\ Become(w, "sending", "Cancelled") /\ UNCHANGED terminal
     \/ /\ kind[w] = "update" /\ terminal[w] = "finished"
        /\ Goto(w, "sent") /\ UNCHANGED terminal
     \/ kind[w] = "origin" /\ Become(w, "sending", "Refused") /\ UNCHANGED terminal
  /\ UNCHANGED <<cancelled, git>>

Send(w) ==
  /\ At(w, "sending")
  /\ channel' = [channel EXCEPT ![w] = outcome[w]]
  /\ pc' = [pc EXCEPT ![w] = "sent"]
  /\ outcome' = [outcome EXCEPT ![w] = "none"]
  /\ UNCHANGED <<kind, app, shared, git>>

(* The thread ends, and its senders with it.                                  *)
Exit(w) == At(w, "sent") /\ Goto(w, "done") /\ UNCHANGED <<shared, git>>

-----------------------------------------------------------------------------
(* The kernel: a child may end by itself, a killed one ends.                  *)
ChildExits(w) ==
  /\ child[w] = "running"
  /\ child' = [child EXCEPT ![w] = "zombie"]
  /\ UNCHANGED <<app, worker, shared, slot, reaped>>

KilledChildEnds(w) ==
  /\ child[w] = "killed"
  /\ child' = [child EXCEPT ![w] = "zombie"]
  /\ UNCHANGED <<app, worker, shared, slot, reaped>>

-----------------------------------------------------------------------------
(* The event loop.  retire_update_worker joins what has ended and keeps the   *)
(* rest; reap_retired_update_workers joins what has ended since.              *)
Retire(threads, w) == IF pc[w] = "done" THEN threads ELSE threads \cup {w}
Unfinished == {w \in retired : pc[w] # "done"}

(* try_recv, on a channel whose senders live as long as the thread.           *)
Received(w) == IF channel[w] = "none" /\ pc[w] = "done" THEN "Disconnected" ELSE channel[w]

(* drain_vendored_check.                                                      *)
DrainVendoredCheck ==
  /\ step = "origin" /\ goal = "loop"
  /\ step' = "update"
  /\ IF origin = None \/ Received(origin) = "none"
     THEN UNCHANGED <<origin, retired, dialog>>
     ELSE /\ origin' = None
          /\ retired' = Retire(retired, origin)
          /\ \/ Received(origin) = "Preview" /\ dialog' = origin
             \/ Received(origin) = "Nothing" /\ dialog' = "none"
             \/ Received(origin) \notin {"Preview", "Nothing"} /\ dialog' = "refused"
  /\ UNCHANGED <<goal, run, error, saved, screen, worker, shared, git>>

(* What a received message of the update check does: its checks are stored,   *)
(* which may fail, or its error is kept; either way the run is let go.        *)
Conclude(message, threads) ==
  /\ run' = None
  /\ retired' = Retire(threads, run)
  /\ \/ /\ message = "Finished"
        /\ \/ saved' = saved \cup {run} /\ error' = "none"
           \/ saved' = saved /\ error' = "unsaved"
     \/ message = "Failed" /\ error' = "panicked" /\ UNCHANGED saved
     \/ message = "Cancelled" /\ UNCHANGED <<error, saved>>
     \/ /\ message = "Disconnected" /\ UNCHANGED saved
        /\ error' = IF cancelled[run] THEN error ELSE "ended"

(* drain_update_check with the effects the loop performs on its answer.       *)
DrainUpdateCheck ==
  /\ step = "update"
  /\ step' = "key"
  /\ IF run = None \/ Received(run) = "none"
     THEN retired' = Unfinished /\ UNCHANGED <<run, error, saved>>
     ELSE Conclude(Received(run), Unfinished)
  /\ UNCHANGED <<goal, origin, dialog, screen, worker, shared, git>>

(* No key, or one that starts and stops nothing; a dialog that is not waiting *)
(* for its check may be dismissed.                                            *)
OtherKey ==
  /\ step = "key" /\ step' = "origin"
  /\ \/ UNCHANGED dialog
     \/ dialog \notin {"none", "checking"} /\ dialog' = "none"
  /\ UNCHANGED <<goal, run, origin, retired, error, saved, screen, worker, shared, git>>

Start(w, what) ==
  /\ pc[w] = "idle"
  /\ kind' = [kind EXCEPT ![w] = what]
  /\ pc' = [pc EXCEPT ![w] = "ready"]
  /\ UNCHANGED <<outcome, channel, shared, git>>

(* start_update_check, or its refusal when no generations can be reserved.  A *)
(* dialog owns the keyboard.                                                  *)
StartUpdateCheck(w) ==
  /\ step = "key" /\ dialog = "none" /\ run = None
  /\ step' = "origin"
  /\ \/ run' = w /\ error' = "none" /\ Start(w, "update")
     \/ error' = "unreserved" /\ UNCHANGED <<run, worker, shared, git>>
  /\ UNCHANGED <<goal, origin, retired, dialog, saved, screen>>

(* start_vendored_check, or its refusal before anything is started.           *)
StartVendoredCheck(w) ==
  /\ step = "key" /\ dialog = "none" /\ run = None /\ origin = None
  /\ step' = "origin"
  /\ \/ origin' = w /\ dialog' = "checking" /\ Start(w, "origin")
     \/ dialog' = "refused" /\ UNCHANGED <<origin, worker, shared, git>>
  /\ UNCHANGED <<goal, run, retired, error, saved, screen>>

-----------------------------------------------------------------------------
(* Cancellation: by the user, by quitting, or by the application's drop.      *)
Pursue(next) == step' = next /\ UNCHANGED <<goal, saved, screen>>
AfterUpdate == IF goal = "loop" THEN "origin"
               ELSE IF goal = "close" THEN "cancel_origin" ELSE "join"
AfterOrigin == IF goal = "loop" THEN "origin" ELSE "leave"

RequestCancel ==
  /\ step = "key" /\ dialog = "none" /\ run # None
  /\ Pursue("cancel_receive")
  /\ UNCHANGED <<run, origin, retired, dialog, error, worker, shared, git>>

RequestCancelVendored ==
  /\ step = "key" /\ dialog = "checking"
  /\ Pursue("cancel_origin")
  /\ UNCHANGED <<run, origin, retired, dialog, error, worker, shared, git>>

(* Ctrl-C as a key, or the interrupt flag read at the top of the loop.        *)
Quit ==
  /\ step \in {"key", "origin"} /\ goal = "loop"
  /\ step' = IF run # None THEN "cancel_receive" ELSE "cancel_origin"
  /\ goal' = "close"
  /\ UNCHANGED <<run, origin, retired, dialog, error, saved, screen, worker, shared, git>>

(* Fault: a cancellation throws away whatever was sent.                       *)
CancelReceiveDiscards ==
  /\ step = "cancel_receive"
  /\ IF Received(run) = "none"
     THEN step' = "cancel_settle" /\ UNCHANGED <<run, retired>>
     ELSE step' = AfterUpdate /\ run' = None /\ retired' = Retire(retired, run)
  /\ UNCHANGED <<goal, origin, dialog, error, saved, screen, worker, shared, git>>

(* A result that has already been sent is not thrown away.                    *)
CancelReceive ==
  /\ step = "cancel_receive"
  /\ IF Received(run) = "none"
     THEN step' = "cancel_settle" /\ UNCHANGED <<run, retired, error, saved>>
     ELSE step' = AfterUpdate /\ Conclude(Received(run), retired)
  /\ UNCHANGED <<goal, origin, dialog, screen, worker, shared, git>>

CancelSettle ==
  /\ step = "cancel_settle"
  /\ \/ /\ terminal[run] = "running"
        /\ terminal' = [terminal EXCEPT ![run] = "cancelled"]
        /\ Pursue("cancel_flag")
     \/ /\ terminal[run] # "running" /\ UNCHANGED terminal
        /\ Pursue(IF goal = "drop" THEN "cancel_signal" ELSE AfterUpdate)
  /\ UNCHANGED <<run, origin, retired, dialog, error, worker, cancelled, git>>

(* Fault: the child is signalled, the worker is not told.                     *)
CancelFlagUnraised ==
  /\ step = "cancel_flag"
  /\ Pursue("cancel_signal")
  /\ UNCHANGED <<run, origin, retired, dialog, error, worker, shared, git>>

CancelFlag ==
  /\ step = "cancel_flag"
  /\ cancelled' = [cancelled EXCEPT ![run] = TRUE]
  /\ Pursue("cancel_signal")
  /\ UNCHANGED <<run, origin, retired, dialog, error, worker, terminal, git>>

(* The child in the slot is signalled under the slot's lock.                  *)
SignalSlot(w) ==
  /\ SlotFree(w)
  /\ child' = [child EXCEPT ![w] = IF slot[w] THEN Signalled(w) ELSE child[w]]
  /\ UNCHANGED <<slot, reaped>>

(* Fault: a cancelled run is let go of at once.                               *)
CancelSignalLetsGo ==
  /\ step = "cancel_signal"
  /\ SignalSlot(run)
  /\ IF goal = "loop" THEN run' = None /\ retired' = Retire(retired, run)
                      ELSE UNCHANGED <<run, retired>>
  /\ Pursue(AfterUpdate)
  /\ UNCHANGED <<origin, dialog, error, worker, shared>>

(* The run is kept, so that no other check overlaps its worker.               *)
CancelSignal ==
  /\ step = "cancel_signal"
  /\ SignalSlot(run)
  /\ Pursue(AfterUpdate)
  /\ UNCHANGED <<run, origin, retired, dialog, error, worker, shared>>

(* cancel_vendored_check: flag, signal, retire.                               *)
CancelVendoredFlag ==
  /\ step = "cancel_origin"
  /\ IF origin = None
     THEN Pursue(AfterOrigin) /\ dialog' = "none" /\ UNCHANGED cancelled
     ELSE /\ cancelled' = [cancelled EXCEPT ![origin] = TRUE]
          /\ Pursue("signal_origin") /\ UNCHANGED dialog
  /\ UNCHANGED <<run, origin, retired, error, worker, terminal, git>>

CancelVendoredSignal ==
  /\ step = "signal_origin"
  /\ SignalSlot(origin)
  /\ origin' = None /\ dialog' = "none"
  /\ retired' = Retire(retired, origin)
  /\ Pursue(AfterOrigin)
  /\ UNCHANGED <<run, error, worker, shared>>

-----------------------------------------------------------------------------
(* The end of the application.  An error or a panic in the loop unwinds into  *)
(* the same drop that quitting reaches, inside the terminal session.          *)
LoopFails ==
  /\ step \in {"origin", "update", "key"} /\ goal = "loop"
  /\ step' = "cancel_origin" /\ goal' = "close"
  /\ UNCHANGED <<run, origin, retired, dialog, error, saved, screen, worker, shared, git>>

(* Fault: a drop that takes it for granted that there is a run to end.        *)
JoinRetiredUnchecked ==
  /\ step = "leave" /\ Unfinished = {}
  /\ retired' = {}
  /\ step' = "cancel_settle" /\ goal' = "drop"
  /\ UNCHANGED <<run, origin, dialog, error, saved, screen, worker, shared, git>>

(* SkilledApp::drop joins the retired workers, then ends the run it still has *)
JoinRetired ==
  /\ step = "leave" /\ Unfinished = {}
  /\ retired' = {}
  /\ step' = IF run = None THEN "restore" ELSE "cancel_settle"
  /\ goal' = "drop"
  /\ UNCHANGED <<run, origin, dialog, error, saved, screen, worker, shared, git>>

(* Fault: the run's worker is left to itself.                                 *)
LeaveRun ==
  /\ step = "join"
  /\ run' = None
  /\ Pursue("restore")
  /\ UNCHANGED <<origin, retired, dialog, error, worker, shared, git>>

JoinRun ==
  /\ step = "join" /\ At(run, "done")
  /\ run' = None
  /\ Pursue("restore")
  /\ UNCHANGED <<origin, retired, dialog, error, worker, shared, git>>

(* TerminalSession::run hands the terminal back after its closure has ended.  *)
RestoreTerminal ==
  /\ step = "restore"
  /\ step' = "closed" /\ screen' = FALSE
  /\ UNCHANGED <<goal, run, origin, retired, dialog, error, saved, worker, shared, git>>

-----------------------------------------------------------------------------
Worker(w) ==
  \/ CheckSource(w) \/ Spawn(w) \/ SpawnFails(w) \/ Publish(w) \/ Release(w) \/ Reap(w)
  \/ Poll(w) \/ Examine(w) \/ Drain(w) \/ Judge(w) \/ Settle(w) \/ PublishFailure(w)
  \/ Send(w) \/ Exit(w)

WorkerFault(w) == Panic(w) \/ \E result \in {"failed", "panic"} : Abandon(w, result)

Application ==
  \/ DrainVendoredCheck \/ DrainUpdateCheck \/ OtherKey
  \/ \E w \in Workers : StartUpdateCheck(w) \/ StartVendoredCheck(w)
  \/ RequestCancel \/ RequestCancelVendored \/ Quit
  \/ CancelReceive \/ CancelSettle \/ CancelFlag \/ CancelSignal
  \/ CancelVendoredFlag \/ CancelVendoredSignal
  \/ LoopFails \/ JoinRetired \/ JoinRun \/ RestoreTerminal

Next == \/ Application
        \/ \E w \in Workers : \/ Worker(w) \/ WorkerFault(w)
                              \/ ChildExits(w) \/ KilledChildEnds(w)

Spec == Init /\ [][Next]_vars

(* Threads are scheduled and a killed process ends.  Nothing says that a Git  *)
(* process ends by itself, or that a user presses a key.                      *)
LiveSpec == /\ Spec /\ WF_vars(Application)
            /\ \A w \in Workers : WF_vars(Worker(w)) /\ WF_vars(KilledChildEnds(w))

-----------------------------------------------------------------------------
Places == {"idle", "ready", "probe", "spawned", "polling", "examine", "draining", "release",
           "reaping", "abandoned", "judge", "settle", "panicked", "sending", "sent", "done"}
Messages == {"none", "Finished", "Failed", "Cancelled", "Preview", "Nothing", "Refused"}
Steps == {"origin", "update", "key", "cancel_receive", "cancel_settle", "cancel_flag",
          "cancel_signal", "cancel_origin", "signal_origin", "leave", "join", "restore",
          "closed"}

(* The types of the event loop, the workers and what they share; in           *)
(* particular a run that is being cancelled or joined is there.               *)
TypeOK ==
  /\ step \in Steps /\ goal \in {"loop", "close", "drop"}
  /\ run \in Workers \cup {None} /\ origin \in Workers \cup {None}
  /\ step \in {"cancel_receive", "cancel_settle", "cancel_flag", "cancel_signal", "join"}
       => run # None
  /\ step = "signal_origin" => origin # None
  /\ retired \subseteq Workers /\ saved \subseteq Workers
  /\ dialog \in Workers \cup {"none", "checking", "refused"}
  /\ error \in {"none", "unreserved", "panicked", "unsaved", "ended"}
  /\ screen \in BOOLEAN
  /\ kind \in [Workers -> {"update", "origin"}]
  /\ pc \in [Workers -> Places]
  /\ outcome \in [Workers -> Messages \cup {"withdrawn", "output", "failed", "panic"}]
  /\ cancelled \in [Workers -> BOOLEAN]
  /\ terminal \in [Workers -> {"running", "cancelled", "finished"}]
  /\ channel \in [Workers -> Messages]
  /\ child \in [Workers -> {"gone", "running", "killed", "zombie"}]
  /\ slot \in [Workers -> BOOLEAN] /\ reaped \in [Workers -> BOOLEAN]

Living == {"running", "killed", "zombie"}

(* Whoever takes the slot's lock finds a child that still holds its process   *)
(* number, or one the slot says was reaped: no signal goes astray.            *)
SignalsReachOwnChild ==
  \A w \in Workers : slot[w] /\ ~reaped[w] /\ SlotFree(w) => child[w] \in Living

(* The terminal is handed back only when no worker and no Git child of theirs *)
(* is left, whether the application was quit, failed or panicked.             *)
ScreenReturnedLast ==
  ~screen => \A w \in Workers : pc[w] \in {"idle", "done"} /\ child[w] \notin Living

(* A worker reaps every Git child it started, whichever way it ends, and no    *)
(* worker is left when the terminal is handed back.                           *)
NoChildOutlivesItsWorker ==
  /\ \A w \in Workers : pc[w] \in {"sending", "sent", "done"} => child[w] \notin Living /\ ~slot[w]
  /\ ScreenReturnedLast

(* A run whose cancellation was settled publishes no checks.                  *)
CancellationWins ==
  \A w \in Workers : terminal[w] = "cancelled" => channel[w] # "Finished" /\ w \notin saved

(* Every run says how it ended: the loop never has to guess from a closed     *)
(* channel.                                                                   *)
EveryRunReports ==
  /\ error # "ended"
  /\ \A w \in Workers : pc[w] = "done" => channel[w] # "none"

Working(w) == pc[w] \notin {"idle", "sent", "done"}

(* A check overlaps another only when that one is an origin check already     *)
(* cancelled: two update checks never fetch at once.                          *)
ChecksDoNotOverlap ==
  \A v, w \in Workers : v # w /\ Working(v) /\ Working(w)
    => \E u \in {v, w} : kind[u] = "origin" /\ cancelled[u]

(* A preview on screen came from a check that was not cancelled, and while    *)
(* one is on screen no check is in flight.                                    *)
PreviewIsCurrent ==
  dialog \in Workers => ~cancelled[dialog] /\ channel[dialog] = "Preview" /\ origin = None

(* A cancelled run ends, however long its Git child would have gone on, and   *)
(* the application lets go of it.                                             *)
CancelledRunsEnd == \A w \in Workers : cancelled[w] ~> pc[w] = "done" /\ run # w

(* A run that finished before it was cancelled has its checks stored, or the  *)
(* reason is shown; only leaving the application drops them.                  *)
FinishedRunsAreSaved ==
  \A w \in Workers :
    run = w /\ channel[w] = "Finished" ~> w \in saved \/ error = "unsaved" \/ goal # "loop"

(* Leaving ends, whatever the workers and their children are doing.           *)
ApplicationCloses == goal # "loop" ~> step = "closed"
=============================================================================
