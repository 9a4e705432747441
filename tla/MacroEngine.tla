----------------------------- MODULE MacroEngine -----------------------------
(***************************************************************************)
(* The macro engine (openavc/core/macro_engine.py) on its asyncio loop,    *)
(* with the two doors of the engine (core/engine.py) that reach it from    *)
(* outside a run: the project reload and the cancel requests.              *)
(*                                                                         *)
(* A task runs one call of execute().  A "Run Macro" step calls execute()  *)
(* again in the same task, so a task is a chain of runs, at most one per   *)
(* macro (the circular-call guard).  An action is the code between two     *)
(* awaits; `phase' says at which await of execute() a run is suspended:    *)
(*                                                                         *)
(*   queue      sleep of the overlap=queue poll                            *)
(*   skipped    emit of macro.skipped                                      *)
(*   drain      _drain_cancelled, waiting for the preempted tasks          *)
(*   started    emit of macro.started (before the try)                     *)
(*   progress   emit of macro.progress before a step                       *)
(*   step       inside a step: a command, a delay, or a nested execute()   *)
(*   waitEmit   wait_until: subscribed, emitting "waiting" (before its try)*)
(*   waiting    wait_until: waiting for the condition                      *)
(*   raised     emit of macro.step_error after a step raised               *)
(*   reported   emit of macro.step_error after a step that did not raise   *)
(*   completed, cancelled, error   emit of the run's end event             *)
(***************************************************************************)
EXTENDS Naturals, Sequences, FiniteSets

CONSTANTS
    Task,           \* asyncio tasks, each running one call of execute()
    Macro,          \* macro ids
    NoMacro,        \* "no macro": the caller of an outermost run
    NoGroup,        \* "no cancel_group"
    Steps,          \* macro -> its steps, a sequence of Step
    StopOnError,    \* macros with stop_on_error
    Group,          \* macro -> its cancel_group or NoGroup
    Overlap,        \* macro -> "allow", "skip" or "queue"
    Cooldown,       \* macros with cooldown_seconds > 0
    MaxDepth,       \* _max_depth
    MaxPolls,       \* _QUEUE_MAX_WAIT_SECONDS / _QUEUE_POLL_SECONDS
    Projects,       \* sets of macros a reload may install ({}: no reload)
    PromptCancel    \* TRUE: a cancelled task reaches its handler within the
                    \* 2 s and 5 s grace periods of those waiting for it

Step == [do : {"work", "call", "wait"}, calls : Macro \cup {NoMacro},
         guarded : BOOLEAN, timeout : {"never", "fail", "continue"}]

ASSUME MacroAssumption ==
    /\ NoMacro \notin Macro
    /\ Steps \in [Macro -> Seq(Step)]
    /\ \A m \in Macro : \A i \in 1..Len(Steps[m]) :
           Steps[m][i].do = "call" => Steps[m][i].calls \in Macro
    /\ StopOnError \subseteq Macro
    /\ Overlap \in [Macro -> {"allow", "skip", "queue"}]
    /\ Cooldown \subseteq Macro
    /\ MaxDepth \in Nat /\ MaxPolls \in Nat \ {0}
    /\ Projects \subseteq SUBSET Macro
    /\ PromptCancel \in BOOLEAN

VARIABLES
    outcome,     \* task -> "idle", "live", or how its outermost run ended
    cur,         \* task -> the innermost run's macro
    caller,      \* task -> macro -> the macro whose step called this run
    phase,       \* task -> macro -> the await its run is suspended at
    pc,          \* task -> macro -> the step its run is at
    failed,      \* runs with a non-empty _failures tally
    waited,      \* task -> polls its overlap=queue start has slept
    drain,       \* task -> the preempted tasks it waits for
    running,     \* macro -> _running[macro], a set of tasks
    cooling,     \* macros whose last start is younger than their cooldown
    loaded,      \* ids in _macros
    mustCancel,  \* tasks with a cancellation requested and not yet raised
    ready,       \* the state-store condition the wait_until steps name
    subs,        \* tasks holding a wait_until subscription
    satisfied,   \* tasks whose wait_until event is set
    reload,      \* where a project reload is: "idle", "cancelling", "syncing"
    cancelWait   \* tasks the reload's cancel_all waits for

(* History, read by properties only. *)
VARIABLES
    told,        \* runs a cancel request reached after they began
    hit,         \* tasks in which CancelledError was raised outside a drain
    erred,       \* runs beneath which a step failed
    gaveUp,      \* runs that stopped waiting in the queue after MaxPolls
    stale        \* runs still in the queue when the definitions were swapped

chain    == <<outcome, cur, caller, phase, pc>>
waits    == <<waited, drain, subs, satisfied>>
registry == <<running, cooling>>
project  == <<loaded, reload, cancelWait>>
history  == <<told, hit, erred, gaveUp, stale>>
vars     == <<chain, failed, waits, registry, mustCancel, ready, project, history>>

-----------------------------------------------------------------------------
(* State formulas *)

Phase == {"none", "queue", "skipped", "drain", "started", "progress", "step",
          "waitEmit", "waiting", "raised", "reported", "completed",
          "cancelled", "error"}

\* Between the registration of a run and its release.
Active == {"drain", "started", "progress", "step", "waitEmit", "waiting",
           "raised", "reported"}

\* Between macro.started and the run's end: its steps may reach equipment.
Working == Active \ {"drain", "started"}

Outcome == {"idle", "live", "completed", "failed", "skipped", "cancelled",
            "error"}

Done(t) == outcome[t] \notin {"idle", "live"}

\* The runs of a task's call chain.
Chain(t) == {<<t, m>> : m \in {k \in Macro : phase[t][k] # "none"}}

IsRunning(m) == running[m] # {}                       \* is_macro_running

At(t, ph) == cur[t] # NoMacro /\ phase[t][cur[t]] = ph

\* The event loop resumes t normally at the await `ph'.
Resumes(t, ph) == At(t, ph) /\ t \notin mustCancel

CurStep(t) == Steps[cur[t]][pc[t][cur[t]]]

\* _refuse_start: unknown macro, circular call, nesting limit.
RefuseStart(t, m) ==
    \/ m \notin loaded
    \/ phase[t][m] # "none"
    \/ Cardinality(Chain(t)) >= MaxDepth

\* Mutant: the overlap guard is not consulted.
CooldownOnly(m) == m \in Cooldown /\ m \in cooling

\* _throttle_reason is not None.
Throttled(m) ==
    \/ m \in Cooldown /\ m \in cooling
    \/ Overlap[m] = "skip" /\ IsRunning(m)

\* Mutant: the group's other macros are not looked up.
OwnTargets(t, m) == IF Group[m] = NoGroup THEN {} ELSE running[m] \ {t}

\* _collect_group_targets: the config is looked up in the CURRENT _macros.
GroupTargets(t, m) ==
    IF Group[m] = NoGroup THEN {}
    ELSE UNION {running[k] \ {t} : k \in {k \in loaded : Group[k] = Group[m]}}

\* Mutant: the release drops the key of the macro.
ReleasedKey(t, m) == [k \in Macro \ {m} |-> running[k]]

Released(t, m) == [running EXCEPT ![m] = @ \ {t}]     \* _release

-----------------------------------------------------------------------------
(* Parts of actions *)

\* task.cancel() on each task of T; on a finished task it does nothing.
RequestCancel(T) ==
    /\ mustCancel' = mustCancel \cup {t \in T : outcome[t] = "live"}
    /\ told' = told \cup UNION {Chain(t) : t \in T}

\* execute() from the start lock to its next await.  The lock's body does not
\* await, so choosing the tasks to preempt and registering is one step.  ph is
\* the phases with the calling run's "step" already in them.
Claim(t, m, ph) ==
    LET targets == GroupTargets(t, m)
    IN  IF Throttled(m)
        THEN /\ phase' = [ph EXCEPT ![t][m] = "skipped"]
             /\ UNCHANGED <<registry, drain, mustCancel, told>>
        ELSE /\ running' = [running EXCEPT ![m] = @ \cup {t}]
             /\ cooling' = IF m \in Cooldown THEN cooling \cup {m} ELSE cooling
             /\ RequestCancel(targets)
             /\ drain' = [drain EXCEPT ![t] = targets]
             /\ phase' = [ph EXCEPT ![t][m] =
                             IF targets = {} THEN "started" ELSE "drain"]

\* execute() from its first line to its first await, called from a step of c.
Enter(t, m, c, ph) ==
    /\ cur' = [cur EXCEPT ![t] = m]
    /\ caller' = [caller EXCEPT ![t][m] = c]
    /\ waited' = [waited EXCEPT ![t] = 0]
    /\ IF Overlap[m] = "queue" /\ IsRunning(m)
       THEN /\ phase' = [ph EXCEPT ![t][m] = "queue"]
            /\ UNCHANGED <<registry, drain, mustCancel, told>>
       ELSE Claim(t, m, ph)

\* A step of m's run is over: on to the next one, or to macro.completed.
\* ph and pcs are the phases and counters once a finished callee is popped.
Advance(t, m, ph, pcs) ==
    IF pcs[t][m] < Len(Steps[m])
    THEN /\ phase' = [ph EXCEPT ![t][m] = "progress"]
         /\ pc' = [pcs EXCEPT ![t][m] = @ + 1]
         /\ UNCHANGED running
    ELSE /\ phase' = [ph EXCEPT ![t][m] = "completed"]
         /\ pc' = pcs
         /\ running' = Released(t, m)

\* Mutant: a step that announces its failure without raising is not tallied.
StepFailsUntold(t, how) ==
    /\ phase' = [phase EXCEPT ![t][cur[t]] = how]
    /\ failed' = IF how = "raised" THEN failed \cup {<<t, cur[t]>>} ELSE failed
    /\ erred' = erred \cup Chain(t)

\* A step of t's innermost run went wrong: tallied, then announced.
StepFails(t, how) ==
    /\ phase' = [phase EXCEPT ![t][cur[t]] = how]
    /\ failed' = failed \cup {<<t, cur[t]>>}
    /\ erred' = erred \cup Chain(t)

\* t's innermost run returns `how' from execute(), or raises ("error",
\* "cancelled").  The step of the calling run takes it up at once.
EndRun(t, how) ==
    LET m   == cur[t]
        c   == caller[t][m]
        me  == {<<t, m>>}
        ph  == [phase EXCEPT ![t][m] = "none"]
        pcs == [pc EXCEPT ![t][m] = 0]
    IN  /\ cur' = [cur EXCEPT ![t] = c]
        /\ caller' = [caller EXCEPT ![t][m] = NoMacro]
        /\ told' = told \ me
        /\ erred' = erred \ me
        /\ gaveUp' = gaveUp \ me
        /\ stale' = stale \ me
        /\ \/ /\ c = NoMacro
              /\ outcome' = [outcome EXCEPT ![t] = how]
              /\ phase' = ph /\ pc' = pcs /\ failed' = failed \ me
              /\ hit' = hit \ {t}
              /\ UNCHANGED running
           \/ /\ c # NoMacro /\ how \in {"completed", "skipped", "failed"}
              /\ failed' = IF how = "failed" THEN (failed \ me) \cup {<<t, c>>}
                                             ELSE failed \ me
              /\ Advance(t, c, ph, pcs)
              /\ UNCHANGED <<outcome, hit>>
           \/ /\ c # NoMacro /\ how = "error"
              /\ phase' = [ph EXCEPT ![t][c] = "raised"]
              /\ failed' = (failed \ me) \cup {<<t, c>>}
              /\ pc' = pcs
              /\ UNCHANGED <<outcome, running, hit>>
           \/ /\ c # NoMacro /\ how = "cancelled"
              /\ phase' = [ph EXCEPT ![t][c] = "cancelled"]
              /\ failed' = failed \ me
              /\ running' = Released(t, c)
              /\ pc' = pcs
              /\ hit' = hit \cup {t}
              /\ UNCHANGED outcome

-----------------------------------------------------------------------------
(* Starting a run *)

\* A door (REST, panel, trigger, script, start()) runs execute() in a task.
Start(t, m) ==
    /\ outcome[t] = "idle"
    /\ ~RefuseStart(t, m)
    /\ outcome' = [outcome EXCEPT ![t] = "live"]
    /\ Enter(t, m, NoMacro, phase)
    /\ UNCHANGED <<pc, failed, subs, satisfied, ready, project, hit, erred, gaveUp, stale>>

\* The polls slept once the current one is over.
Slept(t) == waited[t] + 1

\* Mutant: a start sleeps one poll and does not look whether another one that
\* was in the queue has started meanwhile.
QueuePollOnce(t) ==
    /\ Resumes(t, "queue")
    /\ waited' = [waited EXCEPT ![t] = 0]
    /\ Claim(t, cur[t], phase)
    /\ UNCHANGED <<outcome, cur, caller, pc, failed, subs, satisfied, ready,
                   project, hit, erred, gaveUp, stale>>

\* The overlap=queue poll wakes: start, give up waiting, or sleep again.
QueuePoll(t) ==
    LET m == cur[t]
    IN  /\ Resumes(t, "queue")
        /\ IF IsRunning(m) /\ Slept(t) < MaxPolls
           THEN /\ waited' = [waited EXCEPT ![t] = Slept(t)]
                /\ UNCHANGED <<phase, registry, drain, mustCancel, told, gaveUp>>
           ELSE /\ waited' = [waited EXCEPT ![t] = 0]
                /\ gaveUp' = IF IsRunning(m) THEN gaveUp \cup {<<t, m>>} ELSE gaveUp
                /\ Claim(t, m, phase)
        /\ UNCHANGED <<outcome, cur, caller, pc, failed, subs, satisfied, ready,
                       project, hit, erred, stale>>

\* The end of _drain_cancelled: on to macro.started.
LeaveDrain(t) ==
    /\ phase' = [phase EXCEPT ![t][cur[t]] = "started"]
    /\ drain' = [drain EXCEPT ![t] = {}]
    /\ UNCHANGED <<outcome, cur, caller, pc, failed, waited, subs, satisfied,
                   registry, ready, project, history>>

Drained(t) ==
    /\ Resumes(t, "drain")
    /\ \A u \in drain[t] : Done(u)
    /\ LeaveDrain(t) /\ UNCHANGED mustCancel

\* The preempted tasks have not all ended after 2 s.
DrainTimeout(t) ==
    /\ Resumes(t, "drain")
    /\ PromptCancel => drain[t] \cap mustCancel = {}
    /\ LeaveDrain(t) /\ UNCHANGED mustCancel

StartedReported(t) ==
    /\ Resumes(t, "started")
    /\ Advance(t, cur[t], phase, pc)
    /\ UNCHANGED <<outcome, cur, caller, failed, waits, cooling, mustCancel,
                   ready, project, history>>

-----------------------------------------------------------------------------
(* Steps *)

\* A step that reaches an await: a command, a delay, an event, a plugin action.
BeginWork(t) ==
    /\ Resumes(t, "progress") /\ CurStep(t).do = "work"
    /\ phase' = [phase EXCEPT ![t][cur[t]] = "step"]
    /\ UNCHANGED <<outcome, cur, caller, pc, failed, waits, registry,
                   mustCancel, ready, project, history>>

\* skip_if holds, or the step sits in the conditional branch not taken.
SkipStep(t) ==
    /\ Resumes(t, "progress") /\ CurStep(t).guarded
    /\ Advance(t, cur[t], phase, pc)
    /\ UNCHANGED <<outcome, cur, caller, failed, waits, cooling, mustCancel,
                   ready, project, history>>

\* A "Run Macro" step awaits a nested execute() ...
CallMacro(t) ==
    LET k == CurStep(t).calls
    IN  /\ Resumes(t, "progress") /\ CurStep(t).do = "call"
        /\ ~RefuseStart(t, k)
        /\ Enter(t, k, cur[t], [phase EXCEPT ![t][cur[t]] = "step"])
        /\ UNCHANGED <<outcome, pc, failed, subs, satisfied, ready, project,
                       hit, erred, gaveUp, stale>>

\* ... or its ValueError is the step's failure.
CallRefused(t) ==
    /\ Resumes(t, "progress") /\ CurStep(t).do = "call"
    /\ RefuseStart(t, CurStep(t).calls)
    /\ StepFails(t, "raised")
    /\ UNCHANGED <<outcome, cur, caller, pc, waits, registry, mustCancel, ready,
                   project, told, hit, gaveUp, stale>>

WorkDone(t) ==
    /\ Resumes(t, "step") /\ CurStep(t).do = "work"
    /\ Advance(t, cur[t], phase, pc)
    /\ UNCHANGED <<outcome, cur, caller, failed, waits, cooling, mustCancel,
                   ready, project, history>>

\* The step raises, or (group.command) reports that it reached no device.
WorkFails(t) ==
    /\ Resumes(t, "step") /\ CurStep(t).do = "work"
    /\ \E how \in {"raised", "reported"} : StepFails(t, how)
    /\ UNCHANGED <<outcome, cur, caller, pc, waits, registry, mustCancel, ready,
                   project, told, hit, gaveUp, stale>>

\* After macro.step_error: a raised failure under stop_on_error ends the run.
StepErrorReported(t) ==
    /\ \/ Resumes(t, "raised") /\ cur[t] \notin StopOnError
       \/ Resumes(t, "reported")
    /\ Advance(t, cur[t], phase, pc)
    /\ UNCHANGED <<outcome, cur, caller, failed, waits, cooling, mustCancel,
                   ready, project, history>>

StopOnStepError(t) ==
    /\ Resumes(t, "raised") /\ cur[t] \in StopOnError
    /\ phase' = [phase EXCEPT ![t][cur[t]] = "error"]
    /\ running' = Released(t, cur[t])
    /\ UNCHANGED <<outcome, cur, caller, pc, failed, waits, cooling, mustCancel,
                   ready, project, history>>

-----------------------------------------------------------------------------
(* wait_until.  Its events after the wait are awaits like any other inside   *)
(* a step; the step is over here when the wait is.                           *)

\* The finally of the wait; its asyncio.Event goes with it.
Unsubscribe(t) ==
    /\ subs' = subs \ {t}
    /\ satisfied' = satisfied \ {t}

\* Already true: the step is over without a subscription.
WaitFastPath(t) ==
    /\ Resumes(t, "progress") /\ CurStep(t).do = "wait" /\ ready
    /\ Advance(t, cur[t], phase, pc)
    /\ UNCHANGED <<outcome, cur, caller, failed, waits, cooling, mustCancel,
                   ready, project, history>>

WaitSubscribe(t) ==
    /\ Resumes(t, "progress") /\ CurStep(t).do = "wait" /\ ~ready
    /\ phase' = [phase EXCEPT ![t][cur[t]] = "waitEmit"]
    /\ subs' = subs \cup {t}
    /\ satisfied' = satisfied \ {t}
    /\ UNCHANGED <<outcome, cur, caller, pc, failed, waited, drain, registry,
                   mustCancel, ready, project, history>>

\* Mutant: the event is cleared, and not looked at again, before the wait.
WaitReportedAfresh(t) ==
    /\ Resumes(t, "waitEmit")
    /\ phase' = [phase EXCEPT ![t][cur[t]] = "waiting"]
    /\ satisfied' = satisfied \ {t}
    /\ UNCHANGED <<outcome, cur, caller, pc, failed, waited, drain, subs,
                   registry, mustCancel, ready, project, history>>

\* "waiting" is announced; the condition is checked once more before waiting.
WaitReported(t) ==
    /\ Resumes(t, "waitEmit")
    /\ phase' = [phase EXCEPT ![t][cur[t]] = "waiting"]
    /\ satisfied' = IF ready THEN satisfied \cup {t} ELSE satisfied
    /\ UNCHANGED <<outcome, cur, caller, pc, failed, waited, drain, subs,
                   registry, mustCancel, ready, project, history>>

WaitSatisfied(t) ==
    /\ Resumes(t, "waiting") /\ t \in satisfied
    /\ Unsubscribe(t)
    /\ Advance(t, cur[t], phase, pc)
    /\ UNCHANGED <<outcome, cur, caller, failed, waited, drain, cooling,
                   mustCancel, ready, project, history>>

\* wait_for may time out although the event has just been set.
WaitTimesOut(t) ==
    /\ Resumes(t, "waiting") /\ CurStep(t).timeout # "never"
    /\ Unsubscribe(t)
    /\ \/ /\ CurStep(t).timeout = "continue"
          /\ Advance(t, cur[t], phase, pc)
          /\ UNCHANGED <<failed, erred>>
       \/ /\ CurStep(t).timeout = "fail"
          /\ StepFails(t, "raised")
          /\ UNCHANGED <<pc, running>>
    /\ UNCHANGED <<outcome, cur, caller, waited, drain, cooling, mustCancel,
                   ready, project, told, hit, gaveUp, stale>>

-----------------------------------------------------------------------------
(* The end of a run *)

SkippedReported(t) ==
    /\ Resumes(t, "skipped")
    /\ EndRun(t, "skipped")
    /\ UNCHANGED <<waits, cooling, mustCancel, ready, project>>

CompletedReported(t) ==
    /\ Resumes(t, "completed")
    /\ EndRun(t, IF <<t, cur[t]>> \in failed THEN "failed" ELSE "completed")
    /\ UNCHANGED <<waits, cooling, mustCancel, ready, project>>

\* A nested call re-raises; the outermost run reports.
ErrorReported(t) ==
    /\ Resumes(t, "error")
    /\ EndRun(t, IF caller[t][cur[t]] = NoMacro THEN "failed" ELSE "error")
    /\ UNCHANGED <<waits, cooling, mustCancel, ready, project>>

\* Mutant: a nested run does not re-raise its cancellation.
CancelledSwallowed(t) ==
    /\ Resumes(t, "cancelled")
    /\ EndRun(t, IF caller[t][cur[t]] = NoMacro THEN "cancelled" ELSE "failed")
    /\ UNCHANGED <<waits, cooling, mustCancel, ready, project>>

CancelledReported(t) ==
    /\ Resumes(t, "cancelled")
    /\ EndRun(t, "cancelled")
    /\ UNCHANGED <<waits, cooling, mustCancel, ready, project>>

\* CancelledError is raised at the await t is suspended at.
CancelInDrain(t) ==             \* swallowed by _drain_cancelled
    /\ At(t, "drain") /\ t \in mustCancel
    /\ mustCancel' = mustCancel \ {t}
    /\ LeaveDrain(t)

\* Mutant: a step swallows the cancellation and its run goes on.
CancelIgnored(t) ==
    /\ At(t, "waiting") /\ t \in mustCancel
    /\ mustCancel' = mustCancel \ {t}
    /\ UNCHANGED <<chain, failed, waits, registry, ready, project, history>>

CancelInTry(t) ==               \* except asyncio.CancelledError
    /\ \E ph \in {"progress", "step", "waitEmit", "waiting", "raised",
                  "reported", "completed"} : At(t, ph)
    /\ t \in mustCancel
    /\ mustCancel' = mustCancel \ {t}
    /\ phase' = [phase EXCEPT ![t][cur[t]] = "cancelled"]
    /\ running' = Released(t, cur[t])
    /\ IF At(t, "waiting") THEN Unsubscribe(t) ELSE UNCHANGED <<subs, satisfied>>
    /\ hit' = hit \cup {t}
    /\ UNCHANGED <<outcome, cur, caller, pc, failed, waited, drain, cooling, ready,
                   project, told, erred, gaveUp, stale>>

CancelOutsideTry(t) ==          \* execute() is left with the CancelledError:
    /\ \E ph \in {"queue", "skipped", "started",      \* before its try,
                  "cancelled", "error"} : At(t, ph)    \* or in its handlers
    /\ t \in mustCancel
    /\ mustCancel' = mustCancel \ {t}
    /\ EndRun(t, "cancelled")
    /\ UNCHANGED <<waits, cooling, ready, project>>

-----------------------------------------------------------------------------
(* Requests from outside a run *)

\* cancel(): every task registered for the macro.
Cancel(m) ==
    /\ IsRunning(m)
    /\ RequestCancel(running[m])
    /\ UNCHANGED <<chain, failed, waits, registry, ready, project, hit, erred, gaveUp, stale>>

\* Whatever holds the task (a trigger, a script's time limit) cancels it.
OwnerCancel(t) ==
    /\ outcome[t] = "live"
    /\ RequestCancel({t})
    /\ UNCHANGED <<chain, failed, waits, registry, ready, project, hit, erred, gaveUp, stale>>

\* A write to the key the wait_until conditions name; listeners run at once.
SetReady(v) ==
    /\ ready # v
    /\ ready' = v
    /\ satisfied' = IF v THEN satisfied \cup subs ELSE satisfied
    /\ UNCHANGED <<chain, failed, waited, drain, subs, registry, mustCancel,
                   project, history>>

CooldownElapses(m) ==
    /\ m \in cooling
    /\ cooling' = cooling \ {m}
    /\ UNCHANGED <<chain, failed, waits, running, mustCancel, ready, project, history>>

\* _reconcile of a project whose macros changed: cancel_all ...
ReloadBegins ==
    LET tasks == UNION {running[m] : m \in Macro}
    IN  /\ reload = "idle" /\ Projects # {}
        /\ reload' = "cancelling"
        /\ RequestCancel(tasks)
        /\ cancelWait' = tasks
        /\ UNCHANGED <<chain, failed, waits, registry, ready, loaded, hit, erred, gaveUp, stale>>

\* ... its wait, for the tasks to end or for 5 s ...
ReloadCancelled ==
    /\ reload = "cancelling"
    /\ \/ \A t \in cancelWait : Done(t)
       \/ PromptCancel => cancelWait \cap mustCancel = {}
    /\ reload' = "syncing"
    /\ cancelWait' = {}
    /\ UNCHANGED <<chain, failed, waits, registry, mustCancel, ready, loaded, history>>

\* ... the device and plugin syncs, and load_macros.
LoadMacros ==
    /\ reload = "syncing"
    /\ loaded' \in Projects
    /\ cooling' = cooling \cap loaded'
    /\ reload' = "idle"
    /\ stale' = stale \cup {r \in Task \X Macro : phase[r[1]][r[2]] = "queue"}
    /\ UNCHANGED <<chain, failed, waits, running, mustCancel, ready, cancelWait,
                   told, hit, erred, gaveUp>>

-----------------------------------------------------------------------------
Init ==
    /\ outcome = [t \in Task |-> "idle"]
    /\ cur = [t \in Task |-> NoMacro]
    /\ caller = [t \in Task |-> [m \in Macro |-> NoMacro]]
    /\ phase = [t \in Task |-> [m \in Macro |-> "none"]]
    /\ pc = [t \in Task |-> [m \in Macro |-> 0]]
    /\ waited = [t \in Task |-> 0]
    /\ drain = [t \in Task |-> {}]
    /\ running = [m \in Macro |-> {}]
    /\ loaded = Macro
    /\ ready \in BOOLEAN
    /\ reload = "idle"
    /\ failed = {} /\ cooling = {} /\ mustCancel = {} /\ subs = {}
    /\ satisfied = {} /\ cancelWait = {}
    /\ told = {} /\ hit = {} /\ erred = {} /\ gaveUp = {} /\ stale = {}

\* What the event loop runs for a task that is not blocked on its environment.
RunTask(t) ==
    \/ QueuePoll(t) \/ Drained(t) \/ DrainTimeout(t) \/ StartedReported(t)
    \/ BeginWork(t) \/ SkipStep(t) \/ CallMacro(t) \/ CallRefused(t)
    \/ WorkDone(t) \/ WorkFails(t) \/ StepErrorReported(t) \/ StopOnStepError(t)
    \/ WaitFastPath(t) \/ WaitSubscribe(t) \/ WaitReported(t) \/ WaitSatisfied(t)
    \/ SkippedReported(t) \/ CompletedReported(t) \/ ErrorReported(t)
    \/ CancelledReported(t)
    \/ CancelInDrain(t) \/ CancelInTry(t) \/ CancelOutsideTry(t)

Reload == ReloadBegins \/ ReloadCancelled \/ LoadMacros

Next ==
    \/ \E t \in Task : RunTask(t) \/ WaitTimesOut(t) \/ OwnerCancel(t)
    \/ \E t \in Task, m \in Macro : Start(t, m)
    \/ \E m \in Macro : Cancel(m) \/ CooldownElapses(m)
    \/ \E v \in BOOLEAN : SetReady(v)
    \/ Reload

Spec == Init /\ [][Next]_vars

\* The loop keeps running what is ready.  Conditions, timeouts of waits,
\* doors and reloads are the environment's: no fairness is assumed of them.
FairSpec == Spec /\ \A t \in Task : WF_vars(RunTask(t))

-----------------------------------------------------------------------------
(* Properties *)

\* Type correctness.
TypeOK ==
    /\ outcome \in [Task -> Outcome]
    /\ cur \in [Task -> Macro \cup {NoMacro}]
    /\ caller \in [Task -> [Macro -> Macro \cup {NoMacro}]]
    /\ phase \in [Task -> [Macro -> Phase]]
    /\ pc \in [Task -> [Macro -> Nat]]
    /\ waited \in [Task -> Nat]
    /\ drain \in [Task -> SUBSET Task]
    /\ running \in [Macro -> SUBSET Task]
    /\ failed \subseteq Task \X Macro
    /\ cooling \subseteq Macro /\ loaded \subseteq Macro
    /\ mustCancel \subseteq Task /\ cancelWait \subseteq Task
    /\ subs \subseteq Task /\ satisfied \subseteq Task
    /\ ready \in BOOLEAN
    /\ reload \in {"idle", "cancelling", "syncing"}
    /\ told \subseteq Task \X Macro /\ erred \subseteq Task \X Macro
    /\ gaveUp \subseteq Task \X Macro /\ stale \subseteq Task \X Macro
    /\ hit \subseteq Task

\* Every run that may still send commands can be found by cancel(),
\* cancel_all() and a cancel_group, whatever its callees and its other
\* instances have released.
ActiveRegistered ==
    \A t \in Task, m \in Macro : phase[t][m] \in Active => t \in running[m]

\* overlap=skip: one instance at a time, from every door and every caller.
SkipExclusive ==
    \A m \in Macro : Overlap[m] = "skip" =>
        \A t, u \in Task :
            phase[t][m] \in Active /\ phase[u][m] \in Active => t = u

\* overlap=queue: instances overlap only when one of them gave up waiting,
\* although the poll of one waiter says nothing to the next one, and two that
\* wait behind one run may wake in the same turn.
QueueExclusive ==
    \A m \in Macro : Overlap[m] = "queue" =>
        \A t, u \in Task :
            /\ phase[t][m] \in Active /\ phase[u][m] \in Active
            /\ {<<t, m>>, <<u, m>>} \cap gaveUp = {}
            => t = u

\* cancel_group: of two active runs of one group at least one was asked to
\* stop, also when a reload removed or brought back one of the macros -- all
\* but a run that sat in the queue while the definitions were swapped: its
\* macro may have been unknown to _collect_group_targets when it started.
GroupPreempts ==
    \A t, u \in Task, m, k \in loaded :
        /\ t # u /\ Group[m] = Group[k] /\ Group[m] # NoGroup
        /\ phase[t][m] \in Active /\ phase[u][k] \in Active
        => {<<t, m>>, <<u, k>>} \cap (told \cup stale) # {}

\* A cancellation stops the whole calling chain: once it is raised in a task
\* no run of the chain goes on to another step.
CancelStopsChain == \A t \in hit : At(t, "cancelled")

\* A run reported completed had no failing step, in itself or in any macro
\* it called, at any depth and under either stop_on_error.
OutcomeTruthful ==
    \A r \in erred : phase[r[1]][r[2]] = "completed" => r \in failed

\* A wait_until never sleeps through the change it waits for.
NoLostWakeup ==
    \A t \in Task : At(t, "waiting") /\ ready => t \in satisfied

\* A cancellation outside a drain ends the task, whatever its steps wait for.
CancelEnds ==
    \A t \in Task : (t \in mustCancel /\ ~At(t, "drain")) ~> Done(t)
=============================================================================
