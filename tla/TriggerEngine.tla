---------------------------- MODULE TriggerEngine ----------------------------
(***************************************************************************)
(* The trigger engine (openavc/core/trigger_engine.py): the pipeline each  *)
(* occurrence of a trigger goes through -- cooldown, debounce, delay and   *)
(* re-check, guards, overlap, queue -- until its macro runs, and the       *)
(* stop / load_triggers / start by which a project edit                    *)
(* (openavc/core/engine.py, _reconcile) rebuilds all triggers under it.    *)
(*                                                                         *)
(* A fire is one occurrence on its way.  It runs in one asyncio task after *)
(* another; `task' says what keeps the present one.  An action is the code *)
(* between two awaits; `phase' is the await a fire is suspended at:        *)
(*                                                                         *)
(*   debounce   sleep of _debounced_fire                                   *)
(*   delay      sleep of _delayed_fire or _fire_startup                    *)
(*   ready      the task of _execute_trigger is made and has not run       *)
(*   queued     sleep of _queued_fire                                      *)
(*   fired      emit of trigger.fired, the fire counted as active          *)
(*   entering   in execute(), the run not registered yet                   *)
(*   macro      in execute(), the run registered: its macro is running     *)
(*   completed  in execute(), the run released, emit of macro.completed    *)
(*   ending     in execute(), the emit of any other end, or of a refusal   *)
(*   last       the last emit: trigger.skipped or trigger.completed        *)
(***************************************************************************)
EXTENDS Naturals, FiniteSets

CONSTANTS
    Trigger,        \* trigger ids
    Fire,           \* identities of fires under way
    Macro,          \* macro ids
    NoFire,         \* "no task" in a task slot
    NoTrigger,      \* "no trigger": what an idle fire is of
    Target,         \* trigger -> the macro it fires
    Overlap,        \* trigger -> "allow", "skip" or "queue"
    Startup,        \* startup triggers; the others fire on changes and events
    Debounced,      \* triggers with debounce_seconds > 0
    Delayed,        \* triggers with delay_seconds > 0
    Cooldown,       \* triggers with cooldown_seconds > 0
    MaxAllow,       \* _MAX_OVERLAP_ALLOW_DEPTH
    MaxPolls,       \* _QUEUE_MAX_WAIT_SECONDS / _QUEUE_POLL_INTERVAL
    Projects,       \* the sets of triggers a project may have
    PromptCancel    \* TRUE: a cancelled task ends within the two seconds
                    \* stop() waits for it

ASSUME TriggerAssumption ==
    /\ IsFiniteSet(Fire) /\ NoFire \notin Fire /\ NoTrigger \notin Trigger
    /\ Target \in [Trigger -> Macro]
    /\ Overlap \in [Trigger -> {"allow", "skip", "queue"}]
    /\ Startup \subseteq Trigger /\ Delayed \subseteq Trigger
    /\ Debounced \subseteq Trigger /\ Cooldown \subseteq Trigger
    /\ MaxAllow \in Nat \ {0} /\ MaxPolls \in Nat \ {0}
    /\ Projects \subseteq SUBSET Trigger
    /\ PromptCancel \in BOOLEAN

VARIABLES
    phase,          \* fire -> where it is, or "idle": no such fire
    of,             \* fire -> its trigger, or NoTrigger when idle
    task,           \* fire -> what keeps its task: "none", "debounce",
                    \* "delay", "queue", "startup" or "bg" (_bg_tasks)
    polls,          \* fire -> polls of its queue wait that are over
    mustCancel,     \* fires whose task has a cancellation not yet raised
    debounceTask,   \* trigger -> debounce_task of its _TriggerState, or
                    \* NoFire when there is none or it is done
    delayTask,      \* trigger -> delay_task of its _TriggerState, or NoFire
    depth,          \* _active_trigger_depth
    cooling,        \* triggers whose last fire is younger than their cooldown
    loaded,         \* ids in _triggers
    running,        \* _running
    stage,          \* the rebuild: "up", "stopping", "draining", "down"
    drain,          \* the cancelled tasks stop() waits for
    old,            \* fires whose _TriggerState a rebuild has replaced
    others          \* macros running for another door than a trigger

(* History, read by properties only. *)
VARIABLES
    leaked,         \* triggers with a fire cancelled in "fired" since their
                    \* depth was cleared last
    miscounted      \* triggers whose depth was cleared under an active fire,
                    \* until none of their fires is active

fires    == <<phase, of, task, polls>>
slots    == <<debounceTask, delayTask>>
counts   == <<depth, cooling, leaked, miscounted>>
rebuild  == <<loaded, running, stage, drain, old>>
vars     == <<fires, mustCancel, slots, counts, rebuild, others>>

-----------------------------------------------------------------------------
(* State formulas *)

Phase == {"idle", "debounce", "delay", "ready", "queued", "fired", "entering",
          "macro", "completed", "ending", "last"}

\* Counted in _active_trigger_depth.
Counted == {"fired", "entering", "macro", "completed", "ending"}

Fires(t, P) == {f \in Fire : phase[f] \in P /\ of[f] = t}

\* _macro_exec_tasks: the fires inside execute().
MacroExecTasks == {f \in Fire : phase[f] \in Counted \ {"fired"}}

IsMacroRunning(m) ==
    m \in others \/ \E f \in Fire : phase[f] = "macro" /\ Target[of[f]] = m

\* The event loop resumes f normally at the await `ph'.
Resumes(f, ph) == phase[f] = ph /\ f \notin mustCancel

\* The task in a slot, if it is not done ...
Pending(slot) == {slot} \ {NoFire}

\* ... and a slot once the task f had is done.
Left(slot, f) == [t \in Trigger |-> IF slot[t] = f THEN NoFire ELSE slot[t]]

\* The triggers still miscounted once f is no longer active.
Miscounted(f) ==
    IF Fires(of[f], Counted) \subseteq {f} THEN miscounted \ {of[f]} ELSE miscounted

\* Mutants: the decrement is lost, or goes on below zero.
UncountedNone(t) == depth
UncountedAnyway(t) == [depth EXCEPT ![t] = @ - 1]

\* The finally of _fire_macro.
Uncounted(t) == [depth EXCEPT ![t] = IF @ > 1 THEN @ - 1 ELSE 0]

-----------------------------------------------------------------------------
(* Parts of actions *)

\* f's task is over and nothing goes on for it.
Ends(f) ==
    /\ phase' = [phase EXCEPT ![f] = "idle"]
    /\ of' = [of EXCEPT ![f] = NoTrigger]
    /\ task' = [task EXCEPT ![f] = "none"]
    /\ polls' = [polls EXCEPT ![f] = 0]
    /\ debounceTask' = Left(debounceTask, f)
    /\ delayTask' = Left(delayTask, f)

Moves(f, ph) ==
    /\ phase' = [phase EXCEPT ![f] = ph]
    /\ UNCHANGED <<of, task, polls, slots>>

\* _schedule_fire: behind a delay that replaces the pending one, or at once.
ScheduleFire(f, t) ==
    /\ of' = [of EXCEPT ![f] = t]
    /\ debounceTask' = Left(debounceTask, f)
    /\ UNCHANGED polls
    /\ IF t \in Delayed
       THEN /\ mustCancel' = mustCancel \cup Pending(delayTask[t])
            /\ delayTask' = [delayTask EXCEPT ![t] = f]
            /\ phase' = [phase EXCEPT ![f] = "delay"]
            /\ task' = [task EXCEPT ![f] = "delay"]
       ELSE /\ phase' = [phase EXCEPT ![f] = "ready"]
            /\ task' = [task EXCEPT ![f] = "bg"]
            /\ UNCHANGED <<mustCancel, delayTask>>

\* _fire_macro up to its emit of trigger.fired.
FireMacro(f) ==
    /\ Moves(f, "fired")
    /\ depth' = [depth EXCEPT ![of[f]] = @ + 1]
    /\ cooling' = cooling \cup ({of[f]} \cap Cooldown)

\* Mutant: the re-entrancy guard is for overlap=allow only.
BlockedIfAllowed(t) == Overlap[t] = "allow" /\ depth[t] >= MaxAllow

\* The re-entrancy guard of _execute_trigger.
Blocked(t) ==
    IF Overlap[t] = "allow" THEN depth[t] >= MaxAllow ELSE depth[t] > 0

\* _execute_trigger from its first line to its first await.  Guards that do
\* not hold, a running macro under overlap=skip and the re-entrancy guard all
\* end in trigger.skipped.
ExecuteTrigger(f) ==
    LET t == of[f]
        busy == IsMacroRunning(Target[t])
    IN  \/ /\ Moves(f, "last")                        \* guards not met
           /\ UNCHANGED <<depth, cooling>>
        \/ /\ busy /\ Overlap[t] = "queue"
           /\ phase' = [phase EXCEPT ![f] = "queued"]
           /\ task' = [task EXCEPT ![f] = "queue"]
           /\ delayTask' = Left(delayTask, f)
           /\ UNCHANGED <<of, polls, debounceTask, depth, cooling>>
        \/ /\ busy => Overlap[t] = "allow"
           /\ ~Blocked(t)
           /\ FireMacro(f)

-----------------------------------------------------------------------------
(* The pipeline *)

\* A watched state key changes, a subscribed event arrives or a schedule is
\* due: _initiate_fire.  In its cooldown a trigger ignores it.
Occur(f, t) ==
    /\ running /\ t \in loaded \ (Startup \cup cooling)
    /\ phase[f] = "idle"
    /\ IF t \in Debounced
       THEN /\ mustCancel' = mustCancel \cup Pending(debounceTask[t])
            /\ debounceTask' = [debounceTask EXCEPT ![t] = f]
            /\ of' = [of EXCEPT ![f] = t]
            /\ phase' = [phase EXCEPT ![f] = "debounce"]
            /\ task' = [task EXCEPT ![f] = "debounce"]
            /\ UNCHANGED <<polls, delayTask>>
       ELSE ScheduleFire(f, t)
    /\ old' = old \ {f}
    /\ UNCHANGED <<counts, loaded, running, stage, drain, others>>

\* _debounced_fire wakes; the delay or the fire is another task.
DebounceEnds(f) ==
    /\ Resumes(f, "debounce")
    /\ IF running
       THEN ScheduleFire(f, of[f])
       ELSE Ends(f) /\ UNCHANGED mustCancel
    /\ UNCHANGED <<counts, rebuild, others>>

\* _delayed_fire and _fire_startup wake.  That the trigger's own condition
\* holds no longer ends a delayed fire as its guards do.
DelayEnds(f) ==
    /\ Resumes(f, "delay")
    /\ IF running
       THEN ExecuteTrigger(f)
       ELSE Ends(f) /\ UNCHANGED <<depth, cooling>>
    /\ UNCHANGED <<mustCancel, leaked, miscounted, rebuild, others>>

\* The task _schedule_fire spawned runs.
ReadyRuns(f) ==
    /\ Resumes(f, "ready")
    /\ ExecuteTrigger(f)
    /\ UNCHANGED <<mustCancel, leaked, miscounted, rebuild, others>>

\* Mutant: the queue wait has no bound.
PollsSleptForever(f) == 0

PollsSlept(f) == polls[f] + 1

\* _queued_fire wakes: it fires, gives up or sleeps again.
QueuePoll(f) ==
    /\ Resumes(f, "queued")
    /\ \/ /\ ~running \/ (IsMacroRunning(Target[of[f]]) /\ PollsSlept(f) >= MaxPolls)
          /\ Ends(f) /\ UNCHANGED <<depth, cooling>>
       \/ /\ running /\ IsMacroRunning(Target[of[f]]) /\ PollsSlept(f) < MaxPolls
          /\ polls' = [polls EXCEPT ![f] = PollsSlept(f)]
          /\ UNCHANGED <<phase, of, task, slots, depth, cooling>>
       \/ /\ running /\ ~IsMacroRunning(Target[of[f]])
          /\ \/ FireMacro(f)
             \/ Ends(f) /\ UNCHANGED <<depth, cooling>>     \* guards not met
    /\ UNCHANGED <<mustCancel, leaked, miscounted, rebuild, others>>

\* trigger.fired is announced: execute() registers its run at once, waits its
\* own turn, or refuses (its own throttle, a macro that is gone).
EnterMacro(f) ==
    /\ Resumes(f, "fired")
    /\ \E ph \in {"entering", "macro", "ending"} : Moves(f, ph)
    /\ UNCHANGED <<mustCancel, counts, rebuild, others>>

MacroStarts(f) ==
    /\ Resumes(f, "entering")
    /\ \E ph \in {"macro", "ending"} : Moves(f, ph)
    /\ UNCHANGED <<mustCancel, counts, rebuild, others>>

MacroEnds(f) ==
    /\ Resumes(f, "macro")
    /\ \E ph \in {"completed", "ending"} : Moves(f, ph)
    /\ UNCHANGED <<mustCancel, counts, rebuild, others>>

\* execute() returns.
MacroReturns(f) ==
    /\ Resumes(f, "completed") \/ Resumes(f, "ending")
    /\ Moves(f, "last")
    /\ depth' = Uncounted(of[f])
    /\ miscounted' = Miscounted(f)
    /\ UNCHANGED <<mustCancel, cooling, leaked, rebuild, others>>

LastEmitEnds(f) ==
    /\ Resumes(f, "last")
    /\ Ends(f)
    /\ UNCHANGED <<mustCancel, counts, rebuild, others>>

-----------------------------------------------------------------------------
(* Cancellation, raised at the await f is suspended at *)

\* Before trigger.fired and after the macro, the task just ends.
CancelPending(f) ==
    /\ f \in mustCancel
    /\ phase[f] \in {"debounce", "delay", "ready", "queued", "last"}
    /\ mustCancel' = mustCancel \ {f}
    /\ Ends(f)
    /\ UNCHANGED <<counts, rebuild, others>>

\* In trigger.fired the fire is counted, and not in the try that uncounts it.
CancelFired(f) ==
    /\ f \in mustCancel /\ phase[f] = "fired"
    /\ mustCancel' = mustCancel \ {f}
    /\ Ends(f)
    /\ leaked' = leaked \cup {of[f]}
    /\ miscounted' = Miscounted(f)
    /\ UNCHANGED <<depth, cooling, rebuild, others>>

\* execute() swallows it while it waits for the runs it preempts, and from then
\* on announces a cancelled run and returns ...
CancelMacro(f) ==
    /\ f \in mustCancel
    /\ mustCancel' = mustCancel \ {f}
    /\ \/ phase[f] = "macro" /\ Moves(f, "macro")
       \/ phase[f] \in {"macro", "completed"} /\ Moves(f, "ending")
    /\ UNCHANGED <<counts, rebuild, others>>

\* ... but is left with the CancelledError before the first step, and in the
\* emit of an end that is not macro.completed.
CancelAround(f) ==
    /\ f \in mustCancel /\ phase[f] \in {"entering", "macro", "ending"}
    /\ mustCancel' = mustCancel \ {f}
    /\ Ends(f)
    /\ depth' = Uncounted(of[f])
    /\ miscounted' = Miscounted(f)
    /\ UNCHANGED <<cooling, leaked, rebuild, others>>

-----------------------------------------------------------------------------
(* The rebuild: _reconcile of an edit that touches triggers *)

\* stop(): no occurrence counts any more; the cron loop is awaited.  A reconcile
\* that fails after it stops the triggers once more (_rollback_reconcile).
StopBegins ==
    /\ stage \in {"up", "down"}
    /\ running' = FALSE /\ stage' = "stopping"
    /\ UNCHANGED <<fires, mustCancel, slots, counts, loaded, drain, old, others>>

\* The tasks in the slots of the present _TriggerStates and in their queues.
InSlots == UNION {Pending(debounceTask[t]) \cup Pending(delayTask[t]) : t \in loaded}
InQueues == {f \in Fire : task[f] = "queue" /\ f \notin old /\ of[f] \in loaded}

\* Mutant: stop() does not look into the pending queues.
ReachedButQueued == InSlots \cup {f \in Fire : task[f] \in {"startup", "bg"}}

\* What stop() reaches: those, the startup tasks and _bg_tasks.
Reached == InSlots \cup InQueues \cup {f \in Fire : task[f] \in {"startup", "bg"}}

\* stop() cancels what has not reached execute() ...
StopCancels ==
    /\ stage = "stopping"
    /\ mustCancel' = mustCancel \cup (Reached \ MacroExecTasks)
    /\ drain' = Reached \ MacroExecTasks
    /\ stage' = "draining"
    /\ UNCHANGED <<fires, slots, counts, loaded, running, old, others>>

\* ... waits for it, for two seconds, and forgets the counts.
StopEnds ==
    /\ stage = "draining"
    /\ PromptCancel => drain \cap mustCancel = {}
    /\ depth' = [t \in Trigger |-> 0]
    /\ leaked' = {}
    /\ miscounted' = miscounted \cup {t \in Trigger : Fires(t, Counted) # {}}
    /\ drain' = {}
    /\ stage' = "down"
    /\ UNCHANGED <<fires, mustCancel, slots, cooling, loaded, running, old, others>>

\* load_triggers and start(): new _TriggerStates; startup triggers fire at boot
\* and when a whole new project arrives.
StartTriggers ==
    LET free == {f \in Fire : phase[f] = "idle"}
    IN  /\ stage = "down"
        /\ loaded' \in Projects
        /\ \E S \in {{}, loaded' \cap Startup} : \E s \in [S -> free] :
               LET new == {s[t] : t \in S}
                   trigger(f) == CHOOSE t \in S : s[t] = f
               IN  /\ \A t, u \in S : s[t] = s[u] => t = u
                   /\ phase' = [f \in Fire |-> IF f \in new THEN "delay" ELSE phase[f]]
                   /\ task' = [f \in Fire |-> IF f \in new THEN "startup" ELSE task[f]]
                   /\ of' = [f \in Fire |-> IF f \in new THEN trigger(f) ELSE of[f]]
        /\ debounceTask' = [t \in Trigger |-> NoFire]
        /\ delayTask' = [t \in Trigger |-> NoFire]
        /\ old' = Fire \ free
        /\ running' = TRUE /\ stage' = "up"
        /\ UNCHANGED <<polls, mustCancel, counts, drain, others>>

-----------------------------------------------------------------------------
(* The environment *)

\* cancel(), cancel_all() or a cancel_group reaches the macro a fire runs.
MacroCancelled(f) ==
    /\ phase[f] = "macro" /\ f \notin mustCancel
    /\ mustCancel' = mustCancel \cup {f}
    /\ UNCHANGED <<fires, slots, counts, rebuild, others>>

\* Another door (a panel, Fire Now, another macro) runs a macro, or it ends.
OtherRun(m) ==
    /\ others' = IF m \in others THEN others \ {m} ELSE others \cup {m}
    /\ UNCHANGED <<fires, mustCancel, slots, counts, rebuild>>

CooldownElapses(t) ==
    /\ t \in cooling
    /\ cooling' = cooling \ {t}
    /\ UNCHANGED <<fires, mustCancel, slots, depth, leaked, miscounted, rebuild, others>>

-----------------------------------------------------------------------------
Init ==
    /\ phase = [f \in Fire |-> "idle"] /\ of = [f \in Fire |-> NoTrigger]
    /\ task = [f \in Fire |-> "none"] /\ polls = [f \in Fire |-> 0]
    /\ debounceTask = [t \in Trigger |-> NoFire]
    /\ delayTask = [t \in Trigger |-> NoFire]
    /\ depth = [t \in Trigger |-> 0]
    /\ loaded = {} /\ running = FALSE /\ stage = "down"
    /\ mustCancel = {} /\ cooling = {} /\ drain = {} /\ old = {} /\ others = {}
    /\ leaked = {} /\ miscounted = {}

\* What the event loop runs of a fire: all but the macro itself.
RunFire(f) ==
    \/ DebounceEnds(f) \/ DelayEnds(f) \/ ReadyRuns(f) \/ QueuePoll(f)
    \/ EnterMacro(f) \/ MacroStarts(f) \/ MacroReturns(f) \/ LastEmitEnds(f)
    \/ CancelPending(f) \/ CancelFired(f) \/ CancelMacro(f) \/ CancelAround(f)

Rebuild == StopBegins \/ StopCancels \/ StopEnds \/ StartTriggers

Next ==
    \/ \E f \in Fire : RunFire(f) \/ MacroEnds(f) \/ MacroCancelled(f)
    \/ \E f \in Fire, t \in Trigger : Occur(f, t)
    \/ \E m \in Macro : OtherRun(m)
    \/ \E t \in Trigger : CooldownElapses(t)
    \/ Rebuild

Spec == Init /\ [][Next]_vars

\* The event loop resumes every task in the end; macros, occurrences and edits
\* are nobody's promise.
FairSpec == Spec /\ \A f \in Fire : WF_vars(RunFire(f))

-----------------------------------------------------------------------------
(* Properties *)

\* Type correctness.
TypeOK ==
    /\ phase \in [Fire -> Phase] /\ of \in [Fire -> Trigger \cup {NoTrigger}]
    /\ task \in [Fire -> {"none", "debounce", "delay", "queue", "startup", "bg"}]
    /\ polls \in [Fire -> Nat]
    /\ debounceTask \in [Trigger -> Fire \cup {NoFire}]
    /\ delayTask \in [Trigger -> Fire \cup {NoFire}]
    /\ depth \in [Trigger -> Nat]
    /\ mustCancel \subseteq Fire /\ drain \subseteq Fire /\ old \subseteq Fire
    /\ cooling \subseteq Trigger /\ loaded \subseteq Trigger
    /\ leaked \subseteq Trigger /\ miscounted \subseteq Trigger
    /\ others \subseteq Macro /\ running \in BOOLEAN
    /\ stage \in {"up", "stopping", "draining", "down"}

\* A trigger with overlap=skip has one active fire at a time, whatever delays,
\* cancellations and rebuilds its fires go through -- unless a rebuild forgot
\* the count of a fire that goes on.
OneFireAtATime ==
    \A t \in Trigger \ miscounted : Overlap[t] = "skip" =>
        \A f, g \in Fires(t, Counted) : f = g

\* overlap=allow: self-triggering stops at the cap, under the same proviso.
AllowIsCapped ==
    \A t \in Trigger \ miscounted : Overlap[t] = "allow" =>
        Cardinality(Fires(t, Counted)) <= MaxAllow

\* A trigger without an active fire is not blocked by its own count -- unless
\* one of its fires was cancelled while trigger.fired was announced: such a
\* fire stays counted until the next rebuild.
DepthReturns ==
    \A t \in Trigger \ leaked : depth[t] > 0 => Fires(t, Counted) # {}

\* After a rebuild no fire of the replaced definitions can start a macro any
\* more: each one has been handed to the macro engine, is over, or cancelled.
StopLeavesNothing ==
    \A f \in old \ mustCancel :
        phase[f] \in {"idle", "entering", "macro", "completed", "ending", "last"}

\* A fire does not stay in the pipeline: it ends or runs its macro, even behind
\* a macro that never ends, and whatever is cancelled or rebuilt meanwhile.
FireEnds ==
    \A f \in Fire : phase[f] # "idle" ~> phase[f] \in {"idle", "macro"}

\* overlap=skip ignores a new occurrence while the macro runs: the run goes on.
SkipLeavesRun ==
    [][\A f, g \in Fire, t \in Trigger :
          (Occur(g, t) \/ DebounceEnds(g)) /\ phase[f] = "macro" /\ Overlap[of[f]] = "skip"
          => (f \in mustCancel' => f \in mustCancel)]_vars
=============================================================================
