-------------------------- MODULE MacroEngine_proofs --------------------------
(***************************************************************************)
(* Proofs about MacroEngine, for any number of tasks and any project.      *)
(***************************************************************************)
EXTENDS MacroEngine, TLAPS

\* The runs of a task form one chain from its outermost run to cur[t]: every
\* caller is suspended in its "Run Macro" step, and calls one macro at a time.
IdleEmpty ==
    \A t \in Task : outcome[t] = "idle" =>
        cur[t] = NoMacro /\ \A m \in Macro : phase[t][m] = "none"
CurThere ==
    \A t \in Task : cur[t] # NoMacro => phase[t][cur[t]] # "none"
CallerInStep ==
    \A t \in Task, m \in Macro :
        phase[t][m] # "none" /\ caller[t][m] # NoMacro
        => phase[t][caller[t][m]] = "step"
CurCallsNone ==
    \A t \in Task, m \in Macro :
        cur[t] # NoMacro /\ phase[t][m] # "none" => caller[t][m] # cur[t]
OneCallee ==
    \A t \in Task, m, k \in Macro :
        /\ phase[t][m] # "none" /\ phase[t][k] # "none"
        /\ caller[t][m] = caller[t][k] /\ caller[t][m] # NoMacro
        => m = k
ChainOK == IdleEmpty /\ CurThere /\ CallerInStep /\ CurCallsNone /\ OneCallee

\* Runs of a macro that is no longer loaded were told to stop by the reload
\* under way, or were queued when their macro went.
StrayRuns ==
    /\ \A t \in Task, m \in Macro :
           phase[t][m] = "queue" /\ m \notin loaded => <<t, m>> \in stale
    /\ reload # "idle" =>
           \A t \in Task, m \in Macro :
               phase[t][m] \in Active /\ m \notin loaded
               => <<t, m>> \in told \cup stale

-----------------------------------------------------------------------------
(* Types of the operators the actions are built from.                      *)

Phases == [Task -> [Macro -> Phase]]
Runs   == Task \X Macro

\* The awaits of execute(), by name.
LEMMA PhaseNames ==
  /\ {"none", "queue", "skipped", "drain", "started", "progress", "step"} \subseteq Phase
  /\ {"waitEmit", "waiting", "raised", "reported"} \subseteq Phase
  /\ {"completed", "cancelled", "error"} \subseteq Phase
BY DEF Phase

\* Moving one run keeps the phases well typed.
LEMMA SetPhaseType ==
  ASSUME NEW ph \in Phases, NEW t \in Task, NEW m \in Macro, NEW p \in Phase
  PROVE  [ph EXCEPT ![t][m] = p] \in Phases
BY DEF Phases

\* _claim_run and _release keep _running a map of task sets.
LEMMA SetRunningType ==
  ASSUME TypeOK, NEW t \in Task, NEW m \in Macro
  PROVE  /\ [running EXCEPT ![m] = @ \cup {t}] \in [Macro -> SUBSET Task]
         /\ Released(t, m) \in [Macro -> SUBSET Task]
BY DEF TypeOK, Released

Counters == [Task -> [Macro -> Nat]]

\* Counting one run's step keeps the counters well typed.
LEMMA SetPcType ==
  ASSUME NEW pcs \in Counters, NEW t \in Task, NEW m \in Macro
  PROVE  /\ [pcs EXCEPT ![t][m] = 0] \in Counters
         /\ [pcs EXCEPT ![t][m] = @ + 1] \in Counters
<1>1. pcs[t] \in [Macro -> Nat] /\ pcs[t][m] \in Nat
  BY DEF Counters
<1>2. pcs[t][m] + 1 \in Nat
  BY <1>1
<1>3. \A n \in Nat : [pcs EXCEPT ![t][m] = n] \in Counters
  BY DEF Counters
<1>4. [pcs EXCEPT ![t][m] = @ + 1] = [pcs EXCEPT ![t][m] = pcs[t][m] + 1]
  BY DEF Counters
<1>5. QED
  BY <1>2, <1>3, <1>4

\* The phases' type, under its name.
LEMMA PhaseType == TypeOK => phase \in Phases
BY DEF TypeOK, Phases

\* A call chain is a set of runs.
LEMMA ChainType == \A t \in Task : Chain(t) \subseteq Runs
BY DEF Chain, Runs

\* _collect_group_targets never returns the starting task itself.
LEMMA TargetsType ==
  ASSUME TypeOK, NEW t \in Task, NEW m \in Macro
  PROVE  GroupTargets(t, m) \subseteq Task \ {t}
BY DEF GroupTargets, TypeOK

\* cancel() on a set of tasks keeps the requests and their history well typed.
LEMMA RequestCancelType ==
  ASSUME TypeOK, NEW T \in SUBSET Task, RequestCancel(T)
  PROVE  mustCancel' \subseteq Task /\ told' \subseteq Runs
BY ChainType DEF RequestCancel, TypeOK, Runs

ClaimTypes ==
  /\ phase' \in Phases /\ running' \in [Macro -> SUBSET Task]
  /\ cooling' \subseteq Macro /\ mustCancel' \subseteq Task
  /\ told' \subseteq Runs /\ drain' \in [Task -> SUBSET Task]

\* The claim of a start, from the lock to the next await, keeps the types.
LEMMA ClaimType ==
  ASSUME TypeOK, NEW t \in Task, NEW m \in Macro, NEW ph \in Phases, Claim(t, m, ph)
  PROVE  ClaimTypes
<1>1. CASE Throttled(m)
  BY <1>1, SetPhaseType, PhaseNames DEF Claim, TypeOK, ClaimTypes, registry, Runs
<1>2. CASE ~Throttled(m)
  <2>1. GroupTargets(t, m) \in SUBSET Task
    BY TargetsType
  <2>2. RequestCancel(GroupTargets(t, m))
    BY <1>2 DEF Claim
  <2>3. mustCancel' \subseteq Task /\ told' \subseteq Runs
    BY <2>1, <2>2, RequestCancelType
  <2>4. phase' \in Phases
    BY <1>2, SetPhaseType, PhaseNames DEF Claim
  <2>5. running' \in [Macro -> SUBSET Task] /\ cooling' \subseteq Macro
    <3>1. cooling \subseteq Macro
      BY DEF TypeOK
    <3>2. QED
      BY <1>2, <3>1, SetRunningType DEF Claim
  <2>6. drain' \in [Task -> SUBSET Task]
    BY <1>2, <2>1 DEF Claim, TypeOK
  <2>7. QED
    BY <2>3, <2>4, <2>5, <2>6 DEF ClaimTypes
<1>3. QED
  BY <1>1, <1>2

Callers == [Task -> [Macro -> Macro \cup {NoMacro}]]

\* execute() up to its first await keeps the types.
LEMMA EnterType ==
  ASSUME TypeOK, NEW t \in Task, NEW m \in Macro, NEW c \in Macro \cup {NoMacro},
         NEW ph \in Phases, Enter(t, m, c, ph)
  PROVE  /\ ClaimTypes
         /\ cur' \in [Task -> Macro \cup {NoMacro}]
         /\ caller' \in Callers
         /\ waited' \in [Task -> Nat]
<1>1. ClaimTypes
  <2>1. CASE Overlap[m] = "queue" /\ IsRunning(m)
    BY <2>1, SetPhaseType, PhaseNames DEF Enter, TypeOK, ClaimTypes, registry, Runs
  <2>2. CASE ~(Overlap[m] = "queue" /\ IsRunning(m))
    BY <2>2, ClaimType DEF Enter
  <2>3. QED
    BY <2>1, <2>2
<1>2. cur' \in [Task -> Macro \cup {NoMacro}] /\ waited' \in [Task -> Nat]
  BY DEF Enter, TypeOK
<1>3. caller' \in Callers
  BY DEF Enter, TypeOK, Callers
<1>4. QED
  BY <1>1, <1>2, <1>3

\* Going on to the next step, or to the end, keeps the types.
LEMMA AdvanceType ==
  ASSUME TypeOK, NEW t \in Task, NEW m \in Macro, NEW ph \in Phases,
         NEW pcs \in Counters, Advance(t, m, ph, pcs)
  PROVE  /\ phase' \in Phases
         /\ pc' \in Counters
         /\ running' \in [Macro -> SUBSET Task]
<1>1. CASE pcs[t][m] < Len(Steps[m])
  <2>1. phase' \in Phases
    BY <1>1, SetPhaseType, PhaseNames DEF Advance
  <2>2. pc' \in Counters /\ running' = running
    <3>1. pc' = [pcs EXCEPT ![t][m] = @ + 1] /\ running' = running
      BY <1>1 DEF Advance
    <3>2. QED
      BY <3>1, SetPcType
  <2>3. QED
    BY <2>1, <2>2 DEF TypeOK
<1>2. CASE ~(pcs[t][m] < Len(Steps[m]))
  BY <1>2, SetPhaseType, PhaseNames, SetRunningType DEF Advance
<1>3. QED
  BY <1>1, <1>2

\* Tallying a failed step keeps the types.
LEMMA StepFailsType ==
  ASSUME TypeOK, NEW t \in Task, cur[t] \in Macro, NEW how \in Phase,
         StepFails(t, how)
  PROVE  phase' \in Phases /\ failed' \subseteq Runs /\ erred' \subseteq Runs
BY SetPhaseType, ChainType DEF StepFails, TypeOK, Phases, Runs

\* Returning from execute(), into a calling run or not, keeps the types.
LEMMA EndRunType ==
  ASSUME TypeOK, NEW t \in Task, cur[t] \in Macro, NEW how \in Outcome,
         EndRun(t, how)
  PROVE  /\ outcome' \in [Task -> Outcome]
         /\ cur' \in [Task -> Macro \cup {NoMacro}]
         /\ caller' \in Callers
         /\ phase' \in Phases
         /\ pc' \in Counters
         /\ running' \in [Macro -> SUBSET Task]
         /\ failed' \subseteq Runs /\ told' \subseteq Runs
         /\ erred' \subseteq Runs /\ gaveUp' \subseteq Runs
         /\ stale' \subseteq Runs /\ hit' \subseteq Task
<1> DEFINE m == cur[t]
           c == caller[t][m]
           ph == [phase EXCEPT ![t][m] = "none"]
           pcs == [pc EXCEPT ![t][m] = 0]
<1>1. c \in Macro \cup {NoMacro} /\ m \in Macro
  BY DEF TypeOK
<1>2. ph \in Phases
  BY <1>1, SetPhaseType DEF TypeOK, Phases, Phase
<1>3. pcs \in Counters
  BY <1>1, SetPcType DEF TypeOK, Counters
<1>4. /\ cur' \in [Task -> Macro \cup {NoMacro}]
      /\ told' \subseteq Runs /\ erred' \subseteq Runs
      /\ gaveUp' \subseteq Runs /\ stale' \subseteq Runs
  BY <1>1 DEF EndRun, TypeOK, Runs
<1>5. caller' \in Callers
  BY <1>1 DEF EndRun, TypeOK, Callers
<1>6. CASE c = NoMacro
  <2>1. phase' = ph /\ pc' = pcs /\ running' = running
    BY <1>6 DEF EndRun
  <2>2. outcome' \in [Task -> Outcome] /\ failed' \subseteq Runs /\ hit' \subseteq Task
    <3>1. /\ outcome' = [outcome EXCEPT ![t] = how]
          /\ failed' = failed \ {<<t, m>>} /\ hit' = hit \ {t}
      BY <1>6 DEF EndRun
    <3>2. QED
      BY <3>1 DEF TypeOK, Runs
  <2>3. QED
    BY <1>2, <1>3, <1>4, <1>5, <2>1, <2>2 DEF TypeOK
<1>7. CASE c # NoMacro /\ how \in {"completed", "skipped", "failed"}
  <2>1. Advance(t, c, ph, pcs)
    BY <1>7 DEF EndRun
  <2>2. /\ phase' \in Phases /\ pc' \in Counters
        /\ running' \in [Macro -> SUBSET Task]
    BY <1>1, <1>2, <1>3, <1>7, <2>1, AdvanceType
  <2>3. outcome' = outcome /\ hit' = hit /\ failed' \subseteq Runs
    BY <1>1, <1>7 DEF EndRun, TypeOK, Runs
  <2>4. QED
    BY <1>4, <1>5, <2>2, <2>3 DEF TypeOK
<1>8. CASE c # NoMacro /\ how \in {"error", "cancelled"}
  <2>1. phase' \in Phases
    BY <1>1, <1>2, <1>8, SetPhaseType, PhaseNames DEF EndRun
  <2>2. pc' \in Counters /\ outcome' = outcome
    BY <1>3, <1>8 DEF EndRun
  <2>3. running' \in [Macro -> SUBSET Task] /\ hit' \subseteq Task
    BY <1>1, <1>8, SetRunningType DEF EndRun, TypeOK
  <2>4. failed' \subseteq Runs
    BY <1>1, <1>8 DEF EndRun, TypeOK, Runs
  <2>5. QED
    BY <1>4, <1>5, <2>1, <2>2, <2>3, <2>4 DEF TypeOK
<1>9. QED
  BY <1>6, <1>7, <1>8 DEF EndRun

-----------------------------------------------------------------------------
(* Type correctness *)

\* Before any start every variable has its type.
LEMMA TypeInit == Init => TypeOK
BY MacroAssumption DEF Init, TypeOK, Outcome, Phase

\* TypeOK with the sets of functions named, as the lemmas above give them.
LEMMA TypeOKFolded ==
  ASSUME /\ outcome' \in [Task -> Outcome]
         /\ cur' \in [Task -> Macro \cup {NoMacro}]
         /\ caller' \in Callers /\ phase' \in Phases /\ pc' \in Counters
         /\ waited' \in [Task -> Nat] /\ drain' \in [Task -> SUBSET Task]
         /\ running' \in [Macro -> SUBSET Task]
         /\ failed' \subseteq Runs /\ cooling' \subseteq Macro
         /\ loaded' \subseteq Macro /\ mustCancel' \subseteq Task
         /\ cancelWait' \subseteq Task /\ subs' \subseteq Task
         /\ satisfied' \subseteq Task /\ ready' \in BOOLEAN
         /\ reload' \in {"idle", "cancelling", "syncing"}
         /\ told' \subseteq Runs /\ erred' \subseteq Runs
         /\ gaveUp' \subseteq Runs /\ stale' \subseteq Runs /\ hit' \subseteq Task
  PROVE  TypeOK'
BY DEF TypeOK, Callers, Phases, Counters, Runs

\* The same, the other way round.
LEMMA TypeFolded ==
  TypeOK => caller \in Callers /\ phase \in Phases /\ pc \in Counters
BY DEF TypeOK, Callers, Phases, Counters

\* The innermost run of a task, if there is one, is a macro's.
LEMMA CurType == ASSUME TypeOK, NEW t \in Task PROVE cur[t] # NoMacro => cur[t] \in Macro
BY DEF TypeOK

\* Every step of the engine, of its callers and of a reload keeps the types.
LEMMA TypeStep == TypeOK /\ [Next]_vars => TypeOK'
<1> SUFFICES ASSUME TypeOK, [Next]_vars PROVE TypeOK'
  OBVIOUS
<1> USE DEF Runs
<1>a. caller \in Callers /\ phase \in Phases /\ pc \in Counters
  BY TypeFolded
<1>1. ASSUME NEW t \in Task, NEW m \in Macro, Start(t, m)
      PROVE  TypeOK'
  <2>1. Enter(t, m, NoMacro, phase)
    BY <1>1 DEF Start
  <2>2. /\ ClaimTypes
        /\ cur' \in [Task -> Macro \cup {NoMacro}] /\ caller' \in Callers
        /\ waited' \in [Task -> Nat]
    BY <1>a, <2>1, EnterType
  <2>3. outcome' \in [Task -> Outcome]
    BY <1>1 DEF Start, TypeOK, Outcome
  <2>4. QED
    BY <1>1, <1>a, <2>2, <2>3, TypeOKFolded DEF Start, ClaimTypes, TypeOK, project
<1>2. ASSUME NEW t \in Task, QueuePoll(t)
      PROVE  TypeOK'
  <2>1. cur[t] \in Macro
    BY <1>2, CurType DEF QueuePoll, Slept, Resumes, At
  <2>2. waited' \in [Task -> Nat]
    <3>1. waited[t] \in Nat /\ waited[t] + 1 \in Nat
      BY DEF TypeOK
    <3>2. \E n \in Nat : waited' = [waited EXCEPT ![t] = n]
      BY <1>2, <3>1 DEF QueuePoll, Slept
    <3>3. QED
      BY <3>2 DEF TypeOK
  <2>3. ClaimTypes /\ gaveUp' \subseteq Runs
    <3>1. CASE IsRunning(cur[t]) /\ waited[t] + 1 < MaxPolls
      BY <1>2, <1>a, <3>1 DEF QueuePoll, Slept, ClaimTypes, TypeOK, registry
    <3>2. CASE ~(IsRunning(cur[t]) /\ waited[t] + 1 < MaxPolls)
      <4>1. Claim(t, cur[t], phase)
        BY <1>2, <3>2 DEF QueuePoll, Slept
      <4>2. gaveUp' \subseteq gaveUp \cup {<<t, cur[t]>>}
        BY <1>2, <3>2 DEF QueuePoll, Slept
      <4>3. QED
        BY <1>a, <2>1, <4>1, <4>2, ClaimType DEF TypeOK
    <3>3. QED
      BY <3>1, <3>2
  <2>4. QED
    BY <1>2, <1>a, <2>2, <2>3, TypeOKFolded DEF QueuePoll, Slept, ClaimTypes, TypeOK, project
<1>3. ASSUME NEW t \in Task, CallMacro(t)
      PROVE  TypeOK'
  <2> DEFINE k == CurStep(t).calls
             ph == [phase EXCEPT ![t][cur[t]] = "step"]
  <2>1. cur[t] \in Macro /\ k \in Macro
    BY <1>3, CurType DEF CallMacro, Resumes, At, RefuseStart, TypeOK
  <2>2. ph \in Phases
    BY <1>a, <2>1, SetPhaseType, PhaseNames
  <2>3. Enter(t, k, cur[t], ph)
    BY <1>3 DEF CallMacro
  <2>4. /\ ClaimTypes
        /\ cur' \in [Task -> Macro \cup {NoMacro}] /\ caller' \in Callers
        /\ waited' \in [Task -> Nat]
    BY <2>1, <2>2, <2>3, EnterType
  <2>5. QED
    BY <1>3, <1>a, <2>4, TypeOKFolded DEF CallMacro, ClaimTypes, TypeOK, project
<1>4. ASSUME NEW t \in Task, NEW how \in Outcome, cur[t] # NoMacro, EndRun(t, how),
             mustCancel' \subseteq mustCancel,
             UNCHANGED <<waits, cooling, ready, project>>
      PROVE  TypeOK'
  BY <1>4, <1>a, CurType, EndRunType, TypeOKFolded DEF TypeOK, waits, project
<1>5. ASSUME NEW t \in Task, cur[t] # NoMacro, Advance(t, cur[t], phase, pc),
             subs' \subseteq subs, satisfied' \subseteq satisfied,
             UNCHANGED <<outcome, cur, caller, failed, waited, drain, cooling,
                         mustCancel, ready, project, history>>
      PROVE  TypeOK'
  BY <1>5, <1>a, CurType, AdvanceType, TypeOKFolded DEF TypeOK, project, history
<1>6. ASSUME NEW t \in Task, cur[t] # NoMacro, NEW how \in Phase, StepFails(t, how),
             subs' \subseteq subs, satisfied' \subseteq satisfied,
             UNCHANGED <<outcome, cur, caller, pc, waited, drain, registry,
                         mustCancel, ready, project, told, hit, gaveUp, stale>>
      PROVE  TypeOK'
  BY <1>6, <1>a, CurType, StepFailsType, TypeOKFolded DEF TypeOK, project, registry
\* The innermost run moves to another await; nothing else of the chain moves.
<1>7. ASSUME NEW t \in Task, cur[t] # NoMacro, NEW p \in Phase,
             phase' = [phase EXCEPT ![t][cur[t]] = p],
             UNCHANGED <<outcome, cur, caller, pc, failed, waited, cooling, ready,
                         project, told, erred, gaveUp, stale>>,
             \/ UNCHANGED running
             \/ running' = Released(t, cur[t]),
             drain' \in [Task -> SUBSET Task],
             subs' \subseteq Task, satisfied' \subseteq Task,
             mustCancel' \subseteq mustCancel, hit' \subseteq Task
      PROVE  TypeOK'
  <2>1. cur[t] \in Macro
    BY <1>7, CurType
  <2>2. phase' \in Phases
    BY <1>7, <1>a, <2>1, SetPhaseType
  <2>3. running' \in [Macro -> SUBSET Task]
    BY <1>7, <2>1, SetRunningType DEF TypeOK
  <2>4. QED
    BY <1>7, <1>a, <2>2, <2>3, TypeOKFolded DEF TypeOK, project
\* No run moves: cancel requests, the environment and the reload.
<1>8. ASSUME UNCHANGED <<chain, failed, waited, drain, subs, running>>,
             satisfied' \subseteq Task, cooling' \subseteq Macro,
             mustCancel' \subseteq Task, ready' \in BOOLEAN,
             loaded' \subseteq Macro, cancelWait' \subseteq Task,
             reload' \in {"idle", "cancelling", "syncing"},
             told' \subseteq Runs, stale' \subseteq Runs,
             UNCHANGED <<hit, erred, gaveUp>>
      PROVE  TypeOK'
  BY <1>8, <1>a, TypeOKFolded DEF TypeOK, chain
<1>9. ASSUME NEW t \in Task, RunTask(t)
      PROVE  TypeOK'
  <2> USE DEF At, Resumes, waits, registry
  <2>1. CASE Drained(t)
    BY <2>1, <1>7, PhaseNames DEF Drained, LeaveDrain, TypeOK, history
  <2>2. CASE DrainTimeout(t)
    BY <2>2, <1>7, PhaseNames DEF DrainTimeout, LeaveDrain, TypeOK, history
  <2>3. CASE CancelInDrain(t)
    BY <2>3, <1>7, PhaseNames DEF CancelInDrain, LeaveDrain, TypeOK, history
  <2>4. CASE StartedReported(t)
    BY <2>4, <1>5 DEF StartedReported
  <2>5. CASE BeginWork(t)
    BY <2>5, <1>7, PhaseNames DEF BeginWork, TypeOK, history
  <2>6. CASE SkipStep(t)
    BY <2>6, <1>5 DEF SkipStep
  <2>7. CASE CallRefused(t)
    BY <2>7, <1>6, PhaseNames DEF CallRefused
  <2>8. CASE WorkDone(t)
    BY <2>8, <1>5 DEF WorkDone
  <2>9. CASE WorkFails(t)
    BY <2>9, <1>6, PhaseNames DEF WorkFails
  <2>10. CASE StepErrorReported(t)
    BY <2>10, <1>5 DEF StepErrorReported
  <2>11. CASE StopOnStepError(t)
    BY <2>11, <1>7, PhaseNames DEF StopOnStepError, TypeOK, history
  <2>12. CASE WaitFastPath(t)
    BY <2>12, <1>5 DEF WaitFastPath
  <2>13. CASE WaitSubscribe(t)
    BY <2>13, <1>7, PhaseNames DEF WaitSubscribe, TypeOK, history
  <2>14. CASE WaitReported(t)
    BY <2>14, <1>7, PhaseNames DEF WaitReported, TypeOK, history
  <2>15. CASE WaitSatisfied(t)
    BY <2>15, <1>5 DEF WaitSatisfied, Unsubscribe
  <2>16. CASE SkippedReported(t)
    BY <2>16, <1>4 DEF SkippedReported, Outcome
  <2>17. CASE CompletedReported(t)
    BY <2>17, <1>4 DEF CompletedReported, Outcome
  <2>18. CASE ErrorReported(t)
    BY <2>18, <1>4 DEF ErrorReported, Outcome
  <2>19. CASE CancelledReported(t)
    BY <2>19, <1>4 DEF CancelledReported, Outcome
  <2>20. CASE CancelOutsideTry(t)
    BY <2>20, <1>4 DEF CancelOutsideTry, Outcome
  <2>21. CASE CancelInTry(t)
    BY <2>21, <1>7, PhaseNames DEF CancelInTry, Unsubscribe, TypeOK
  <2>22. QED
    BY <1>9, <1>2, <1>3, <2>1, <2>2, <2>3, <2>4, <2>5, <2>6, <2>7, <2>8, <2>9,
       <2>10, <2>11, <2>12, <2>13, <2>14, <2>15, <2>16, <2>17, <2>18, <2>19,
       <2>20, <2>21 DEF RunTask
<1>10. ASSUME NEW t \in Task, WaitTimesOut(t)
       PROVE  TypeOK'
  <2>1. CASE CurStep(t).timeout = "continue"
    BY <1>10, <2>1, <1>5 DEF WaitTimesOut, Unsubscribe, Resumes, At, history
  <2>2. CASE CurStep(t).timeout = "fail"
    BY <1>10, <2>2, <1>6, PhaseNames DEF WaitTimesOut, Unsubscribe, Resumes, At, registry
  <2>3. QED
    BY <1>10, <2>1, <2>2 DEF WaitTimesOut
<1>11. ASSUME NEW t \in Task, OwnerCancel(t)
       PROVE  TypeOK'
  BY <1>11, <1>8, RequestCancelType DEF OwnerCancel, TypeOK, waits, registry, project
<1>12. ASSUME NEW m \in Macro, Cancel(m)
       PROVE  TypeOK'
  <2>1. running[m] \in SUBSET Task
    BY DEF TypeOK
  <2>2. QED
    BY <1>12, <2>1, <1>8, RequestCancelType DEF Cancel, TypeOK, waits, registry, project
<1>13. ASSUME NEW m \in Macro, CooldownElapses(m)
       PROVE  TypeOK'
  BY <1>13, <1>8 DEF CooldownElapses, TypeOK, waits, project, history
<1>14. ASSUME NEW v \in BOOLEAN, SetReady(v)
       PROVE  TypeOK'
  BY <1>14, <1>8 DEF SetReady, TypeOK, registry, project, history
<1>15. CASE ReloadBegins
  <2>1. UNION {running[m] : m \in Macro} \in SUBSET Task
    BY DEF TypeOK
  <2>2. QED
    BY <1>15, <2>1, <1>8, RequestCancelType DEF ReloadBegins, TypeOK, waits, registry
<1>16. CASE ReloadCancelled
  BY <1>16, <1>8 DEF ReloadCancelled, TypeOK, waits, registry, history
<1>17. CASE LoadMacros
  BY <1>17, <1>8, MacroAssumption DEF LoadMacros, TypeOK, waits
<1>18. CASE UNCHANGED vars
  BY <1>18, <1>8 DEF vars, TypeOK, waits, registry, project, history
<1>19. QED
  BY <1>1, <1>9, <1>10, <1>11, <1>12, <1>13, <1>14, <1>15, <1>16, <1>17, <1>18
     DEF Next, Reload

\* Every variable keeps its type in every reachable state.
THEOREM TypeCorrect == Spec => []TypeOK
BY TypeInit, TypeStep, PTL DEF Spec

-----------------------------------------------------------------------------
(* The shapes of a step: the innermost run moves, a run is pushed on the     *)
(* chain, the innermost run is popped, or no chain changes.                  *)

Kept(gone) ==
  told \ gone \subseteq told' /\ gaveUp \ gone \subseteq gaveUp' /\ stale \ gone \subseteq stale'

Registers(t, m) ==
  /\ running' = [running EXCEPT ![m] = @ \cup {t}]
  /\ Overlap[m] = "skip" => running[m] = {}
  /\ Overlap[m] = "queue" => running[m] = {} \/ <<t, m>> \in gaveUp'
  /\ \A u \in GroupTargets(t, m) : Chain(u) \subseteq told'

Move(t) ==
  LET m == cur[t]
  IN  /\ m # NoMacro /\ phase[t][m] # "cancelled"
      /\ \E p \in Phase \ {"none"} :
           /\ phase' = [phase EXCEPT ![t][m] = p]
           /\ \/ running' = running /\ (p \in Active => phase[t][m] \in Active)
                                    /\ (p = "queue" => phase[t][m] = "queue")
              \/ running' = Released(t, m) /\ p \notin Active /\ p # "queue"
              \/ Registers(t, m) /\ p \in {"drain", "started"} /\ phase[t][m] = "queue"
           /\ hit' = hit \/ (p = "cancelled" /\ hit' = hit \cup {t})
      /\ Kept({})
      /\ UNCHANGED <<outcome, cur, caller, project>>

Push(t, m, c) ==
  /\ phase[t][m] = "none" /\ m \in loaded
  /\ cur' = [cur EXCEPT ![t] = m]
  /\ caller' = [caller EXCEPT ![t][m] = c]
  /\ \E p \in {"queue", "skipped", "drain", "started"} :
       /\ \/ /\ c = NoMacro /\ outcome[t] = "idle"
             /\ outcome' = [outcome EXCEPT ![t] = "live"]
             /\ phase' = [phase EXCEPT ![t][m] = p]
          \/ /\ c # NoMacro /\ c = cur[t] /\ phase[t][c] = "progress"
             /\ outcome' = outcome
             /\ phase' = [[phase EXCEPT ![t][c] = "step"] EXCEPT ![t][m] = p]
       /\ \/ running' = running /\ p \in {"queue", "skipped"}
          \/ Registers(t, m) /\ p \in {"drain", "started"}
  /\ hit' = hit /\ Kept({})
  /\ UNCHANGED project

Pop(t) ==
  LET m == cur[t]
      c == caller[t][m]
  IN  /\ m # NoMacro
      /\ cur' = [cur EXCEPT ![t] = c]
      /\ caller' = [caller EXCEPT ![t][m] = NoMacro]
      /\ \/ /\ c = NoMacro
            /\ \E how \in Outcome \ {"idle"} : outcome' = [outcome EXCEPT ![t] = how]
            /\ phase' = [phase EXCEPT ![t][m] = "none"]
            /\ running' = running /\ hit' = hit \ {t}
         \/ /\ c # NoMacro /\ outcome' = outcome
            /\ \E p \in {"progress", "raised", "completed", "cancelled"} :
                 /\ phase' = [[phase EXCEPT ![t][m] = "none"] EXCEPT ![t][c] = p]
                 /\ \/ running' = running /\ p \in Active
                    \/ running' = Released(t, c) /\ p \notin Active
                 /\ \/ p = "cancelled" /\ hit' = hit \cup {t}
                    \/ phase[t][m] # "cancelled" /\ hit' = hit
      /\ Kept({<<t, m>>})
      /\ UNCHANGED project

\* Among the steps without a run: what a reload does to the runs there are.
Still ==
  /\ UNCHANGED <<chain, running, hit>> /\ Kept({})
  /\ \/ UNCHANGED project
     \/ /\ reload' = "cancelling" /\ loaded' = loaded
        /\ \A m \in Macro : \A t \in running[m] : Chain(t) \subseteq told'
     \/ reload = "cancelling" /\ loaded' = loaded
     \/ /\ reload = "syncing" /\ reload' = "idle"
        /\ \A t \in Task, m \in Macro : phase[t][m] = "queue" => <<t, m>> \in stale'

\* The claim moves its run to macro.skipped or registers it.
LEMMA ClaimShape ==
  ASSUME TypeOK, NEW t \in Task, NEW m \in Macro, NEW ph \in Phases,
         Claim(t, m, ph),
         Overlap[m] = "queue" => running[m] = {} \/ <<t, m>> \in gaveUp'
  PROVE  /\ told \subseteq told'
         /\ \/ /\ phase' = [ph EXCEPT ![t][m] = "skipped"] /\ running' = running
            \/ /\ \E p \in {"drain", "started"} : phase' = [ph EXCEPT ![t][m] = p]
               /\ Registers(t, m)
<1>1. CASE Throttled(m)
  BY <1>1 DEF Claim, registry
<1>2. CASE ~Throttled(m)
  <2>1. /\ running' = [running EXCEPT ![m] = @ \cup {t}]
        /\ RequestCancel(GroupTargets(t, m))
    BY <1>2 DEF Claim
  <2>2. \E p \in {"drain", "started"} : phase' = [ph EXCEPT ![t][m] = p]
    BY <1>2 DEF Claim
  <2>3. told \subseteq told' /\ \A u \in GroupTargets(t, m) : Chain(u) \subseteq told'
    BY <2>1 DEF RequestCancel
  <2>4. Overlap[m] = "skip" => running[m] = {}
    BY <1>2 DEF Throttled, IsRunning
  <2>5. QED
    BY <2>1, <2>2, <2>3, <2>4 DEF Registers
<1>3. QED
  BY <1>1, <1>2

\* execute() up to its first await queues, skips or registers the new run.
LEMMA EnterShape ==
  ASSUME TypeOK, NEW t \in Task, NEW m \in Macro, NEW c, NEW ph \in Phases,
         Enter(t, m, c, ph)
  PROVE  /\ told \subseteq told'
         /\ cur' = [cur EXCEPT ![t] = m]
         /\ caller' = [caller EXCEPT ![t][m] = c]
         /\ \E p \in {"queue", "skipped", "drain", "started"} :
              /\ phase' = [ph EXCEPT ![t][m] = p]
              /\ \/ running' = running /\ p \in {"queue", "skipped"}
                 \/ Registers(t, m) /\ p \in {"drain", "started"}
<1>1. CASE Overlap[m] = "queue" /\ IsRunning(m)
  BY <1>1 DEF Enter, registry
<1>2. CASE ~(Overlap[m] = "queue" /\ IsRunning(m))
  <2>1. Claim(t, m, ph)
    BY <1>2 DEF Enter
  <2>2. Overlap[m] = "queue" => running[m] = {} \/ <<t, m>> \in gaveUp'
    BY <1>2 DEF IsRunning
  <2>3. QED
    BY <2>1, <2>2, ClaimShape DEF Enter
<1>3. QED
  BY <1>1, <1>2

\* A return from execute() pops the innermost run.
LEMMA PopShape ==
  ASSUME TypeOK, NEW t \in Task, cur[t] # NoMacro, NEW how \in Outcome \ {"idle", "live"},
         EndRun(t, how), phase[t][cur[t]] = "cancelled" => how = "cancelled",
         UNCHANGED project
  PROVE  Pop(t)
<1> DEFINE m == cur[t]
           c == caller[t][m]
           ph == [phase EXCEPT ![t][m] = "none"]
<1>1. /\ cur' = [cur EXCEPT ![t] = c] /\ caller' = [caller EXCEPT ![t][m] = NoMacro]
      /\ Kept({<<t, m>>})
  BY DEF EndRun, Kept
<1>2. CASE c = NoMacro
  <2>1. /\ outcome' = [outcome EXCEPT ![t] = how] /\ phase' = ph
        /\ hit' = hit \ {t} /\ running' = running
    BY <1>2 DEF EndRun
  <2>2. QED
    BY <1>1, <1>2, <2>1 DEF Pop
<1>3. CASE c # NoMacro /\ how \in {"completed", "skipped", "failed"}
  <2>1. outcome' = outcome /\ hit' = hit /\ phase[t][m] # "cancelled"
    BY <1>3 DEF EndRun
  <2>2. Advance(t, c, ph, [pc EXCEPT ![t][m] = 0])
    BY <1>3 DEF EndRun
  <2>3. \/ phase' = [ph EXCEPT ![t][c] = "progress"] /\ running' = running
        \/ phase' = [ph EXCEPT ![t][c] = "completed"] /\ running' = Released(t, c)
    BY <2>2 DEF Advance
  <2>4. QED
    BY <1>1, <1>3, <2>1, <2>3 DEF Pop, Active
<1>4. CASE c # NoMacro /\ how \in {"error", "cancelled"}
  <2>1. outcome' = outcome
    BY <1>4 DEF EndRun
  <2>2. \/ /\ phase' = [ph EXCEPT ![t][c] = "raised"] /\ running' = running
           /\ hit' = hit /\ phase[t][m] # "cancelled"
        \/ /\ phase' = [ph EXCEPT ![t][c] = "cancelled"] /\ running' = Released(t, c)
           /\ hit' = hit \cup {t}
    BY <1>4 DEF EndRun
  <2>3. QED
    BY <1>1, <1>4, <2>1, <2>2 DEF Pop, Active
<1>5. QED
  BY <1>2, <1>3, <1>4 DEF Outcome, EndRun

\* A step of t's innermost run that advances, or that fails, is a move.
LEMMA AdvanceShape ==
  ASSUME TypeOK, NEW t \in Task, cur[t] # NoMacro, Advance(t, cur[t], phase, pc),
         phase[t][cur[t]] \in Active,
         UNCHANGED <<outcome, cur, caller, project, history>>
  PROVE  Move(t)
<1>1. \/ phase' = [phase EXCEPT ![t][cur[t]] = "progress"] /\ running' = running
      \/ phase' = [phase EXCEPT ![t][cur[t]] = "completed"] /\ running' = Released(t, cur[t])
  BY DEF Advance
<1>2. QED
  BY <1>1, PhaseNames DEF Move, Active, Kept, history

\* A failing step is a move of its run.
LEMMA FailsShape ==
  ASSUME TypeOK, NEW t \in Task, cur[t] # NoMacro, NEW how \in {"raised", "reported"},
         StepFails(t, how), phase[t][cur[t]] \in Active,
         UNCHANGED <<outcome, cur, caller, running, project, told, hit, gaveUp, stale>>
  PROVE  Move(t)
<1>1. phase' = [phase EXCEPT ![t][cur[t]] = how]
  BY DEF StepFails
<1>2. QED
  BY <1>1, PhaseNames DEF Move, Active, Kept

\* A "Run Macro" step that starts its macro pushes a run on the chain.
LEMMA CallShape ==
  ASSUME TypeOK, NEW t \in Task, CallMacro(t)
  PROVE  \E m \in Macro : Push(t, m, cur[t])
<1>a. phase \in Phases /\ (cur[t] # NoMacro => cur[t] \in Macro)
  BY TypeFolded, CurType
<1> DEFINE k == CurStep(t).calls
           ph == [phase EXCEPT ![t][cur[t]] = "step"]
<1>1. /\ cur[t] \in Macro /\ phase[t][cur[t]] = "progress"
      /\ k \in loaded /\ k \in Macro /\ phase[t][k] = "none"
  BY <1>a DEF CallMacro, Resumes, At, RefuseStart, TypeOK
<1>2. ph \in Phases
  BY <1>a, <1>1, SetPhaseType, PhaseNames
<1>3. Enter(t, k, cur[t], [phase EXCEPT ![t][cur[t]] = "step"])
  BY DEF CallMacro
<1>4. UNCHANGED <<outcome, project, hit, gaveUp, stale>>
  BY DEF CallMacro
<1>5. Push(t, k, cur[t])
  <2>1. cur[t] # NoMacro
    BY <1>1, MacroAssumption
  <2>2. /\ told \subseteq told'
        /\ cur' = [cur EXCEPT ![t] = k] /\ caller' = [caller EXCEPT ![t][k] = cur[t]]
        /\ \E p \in {"queue", "skipped", "drain", "started"} :
             /\ phase' = [ph EXCEPT ![t][k] = p]
             /\ \/ running' = running /\ p \in {"queue", "skipped"}
                \/ Registers(t, k) /\ p \in {"drain", "started"}
    <3> HIDE DEF k, ph
    <3>1. Enter(t, k, cur[t], ph)
      BY <1>3 DEF ph, k
    <3>2. QED
      BY <1>1, <1>2, <3>1, EnterShape
  <2>3. QED
    BY <1>1, <1>4, <2>1, <2>2 DEF Push, Kept
<1>6. QED
  BY <1>1, <1>5

\* What the event loop runs for a task moves, pushes or pops one run.
LEMMA RunTaskShape ==
  ASSUME TypeOK, NEW t \in Task, RunTask(t) \/ WaitTimesOut(t)
  PROVE  Move(t) \/ Pop(t) \/ \E m \in Macro : Push(t, m, cur[t])
<1>a. phase \in Phases /\ (cur[t] # NoMacro => cur[t] \in Macro)
  BY TypeFolded, CurType
<1>1. CASE QueuePoll(t)
  <2>1. cur[t] \in Macro /\ phase[t][cur[t]] = "queue"
    BY <1>1, <1>a DEF QueuePoll, Slept, Resumes, At
  <2>2. UNCHANGED <<outcome, cur, caller, project, hit, stale>> /\ gaveUp \subseteq gaveUp'
    BY <1>1 DEF QueuePoll, Slept
  <2>3. CASE IsRunning(cur[t]) /\ waited[t] + 1 < MaxPolls
    <3>1. phase' = phase /\ running' = running /\ told' = told
      BY <1>1, <2>3 DEF QueuePoll, Slept, registry
    <3>2. phase' = [phase EXCEPT ![t][cur[t]] = "queue"]
      BY <1>a, <2>1, <3>1 DEF Phases
    <3>3. QED
      BY <2>1, <2>2, <3>1, <3>2, PhaseNames, MacroAssumption DEF Move, Kept, Active
  <2>4. CASE ~(IsRunning(cur[t]) /\ waited[t] + 1 < MaxPolls)
    <3>1. /\ Claim(t, cur[t], phase)
          /\ running[cur[t]] = {} \/ <<t, cur[t]>> \in gaveUp'
      BY <1>1, <2>4 DEF QueuePoll, Slept, IsRunning
    <3>2. /\ told \subseteq told'
          /\ \/ /\ phase' = [phase EXCEPT ![t][cur[t]] = "skipped"] /\ running' = running
             \/ /\ \E p \in {"drain", "started"} : phase' = [phase EXCEPT ![t][cur[t]] = p]
                /\ Registers(t, cur[t])
      BY <1>a, <2>1, <3>1, ClaimShape
    <3>3. QED
      BY <2>1, <2>2, <3>2, PhaseNames, MacroAssumption DEF Move, Kept, Active
  <2>5. QED
    BY <2>3, <2>4
<1>2. CASE CallMacro(t)
  BY <1>2, CallShape
<1>3. CASE Drained(t) \/ DrainTimeout(t) \/ CancelInDrain(t)
  <2>1. /\ cur[t] # NoMacro /\ phase[t][cur[t]] = "drain"
        /\ phase' = [phase EXCEPT ![t][cur[t]] = "started"]
        /\ UNCHANGED <<outcome, cur, caller, running, project, history>>
    BY <1>3 DEF Drained, DrainTimeout, CancelInDrain, LeaveDrain, Resumes, At, registry
  <2>2. "started" \in Phase \ {"none"} /\ "drain" \in Active /\ "started" # "queue"
    BY PhaseNames DEF Active
  <2>3. QED
    BY <2>1, <2>2 DEF Move, Kept, history
<1>4. CASE \/ StartedReported(t) \/ SkipStep(t) \/ WorkDone(t) \/ StepErrorReported(t)
           \/ WaitFastPath(t) \/ WaitSatisfied(t)
  BY <1>4, AdvanceShape DEF StartedReported, SkipStep, WorkDone, StepErrorReported,
     WaitFastPath, WaitSatisfied, Resumes, At, Active
<1>5. CASE CallRefused(t) \/ WorkFails(t)
  BY <1>5, FailsShape DEF CallRefused, WorkFails, Resumes, At, Active, registry
<1>6. CASE WaitTimesOut(t)
  BY <1>6, FailsShape, AdvanceShape DEF WaitTimesOut, Resumes, At, Active, history
<1>7. CASE BeginWork(t) \/ WaitSubscribe(t) \/ WaitReported(t)
  <2>1. /\ cur[t] # NoMacro /\ phase[t][cur[t]] \in {"progress", "waitEmit"}
        /\ \E p \in {"step", "waitEmit", "waiting"} :
               phase' = [phase EXCEPT ![t][cur[t]] = p]
        /\ UNCHANGED <<outcome, cur, caller, running, project, history>>
    BY <1>7 DEF BeginWork, WaitSubscribe, WaitReported, Resumes, At, registry
  <2>2. PICK p \in {"step", "waitEmit", "waiting"} : phase' = [phase EXCEPT ![t][cur[t]] = p]
    BY <2>1
  <2>3. p \in Phase \ {"none"} /\ phase[t][cur[t]] \in Active
    BY <2>1, PhaseNames DEF Active
  <2>4. QED
    BY <2>1, <2>2, <2>3 DEF Move, Kept, history
<1>8. CASE StopOnStepError(t) \/ CancelInTry(t)
  <2>1. /\ cur[t] # NoMacro /\ phase[t][cur[t]] # "cancelled"
        /\ running' = Released(t, cur[t])
        /\ \/ phase' = [phase EXCEPT ![t][cur[t]] = "error"] /\ hit' = hit
           \/ phase' = [phase EXCEPT ![t][cur[t]] = "cancelled"] /\ hit' = hit \cup {t}
        /\ UNCHANGED <<outcome, cur, caller, project, told, gaveUp, stale>>
    BY <1>8 DEF StopOnStepError, CancelInTry, Resumes, At, history
  <2>2. QED
    BY <2>1, PhaseNames DEF Move, Kept, Active
<1>9. CASE \/ SkippedReported(t) \/ CompletedReported(t) \/ ErrorReported(t)
           \/ CancelledReported(t) \/ CancelOutsideTry(t)
  <2>1. /\ cur[t] # NoMacro
        /\ UNCHANGED project
        /\ \E how \in Outcome \ {"idle", "live"} :
              EndRun(t, how) /\ (phase[t][cur[t]] = "cancelled" => how = "cancelled")
    BY <1>9 DEF SkippedReported, CompletedReported, ErrorReported, CancelledReported,
       CancelOutsideTry, Resumes, At, Outcome
  <2>2. QED
    BY <2>1, PopShape
<1>10. QED
  BY <1>1, <1>2, <1>3, <1>4, <1>5, <1>6, <1>7, <1>8, <1>9 DEF RunTask

\* Every step moves, pushes or pops one run, or leaves the chains alone.
LEMMA NextShape ==
  ASSUME TypeOK, [Next]_vars
  PROVE  \/ \E t \in Task : Move(t) \/ Pop(t)
         \/ \E t \in Task, m \in Macro : Push(t, m, NoMacro) \/ Push(t, m, cur[t])
         \/ Still
<1>1. ASSUME NEW t \in Task, NEW m \in Macro, Start(t, m)
      PROVE  Push(t, m, NoMacro)
  <2>1. /\ phase[t][m] = "none" /\ m \in loaded /\ outcome[t] = "idle"
        /\ outcome' = [outcome EXCEPT ![t] = "live"]
        /\ Enter(t, m, NoMacro, phase)
        /\ UNCHANGED <<project, hit, gaveUp, stale>>
    BY <1>1 DEF Start, RefuseStart
  <2>2. QED
    BY <2>1, EnterShape, TypeFolded DEF Push, Kept
<1>2. ASSUME NEW T, RequestCancel(T)
      PROVE  told \subseteq told' /\ \A t \in T : Chain(t) \subseteq told'
  BY <1>2 DEF RequestCancel
<1>3. ASSUME NEW t \in Task, OwnerCancel(t)
      PROVE  Still
  BY <1>2, <1>3 DEF OwnerCancel, Still, Kept, registry
<1>4. ASSUME NEW m \in Macro, Cancel(m)
      PROVE  Still
  BY <1>2, <1>4 DEF Cancel, Still, Kept, registry
<1>5. ASSUME NEW m \in Macro, CooldownElapses(m)
      PROVE  Still
  BY <1>5 DEF CooldownElapses, Still, Kept, history
<1>6. ASSUME NEW v \in BOOLEAN, SetReady(v)
      PROVE  Still
  BY <1>6 DEF SetReady, Still, Kept, history, registry
<1>7. CASE ReloadBegins
  BY <1>2, <1>7 DEF ReloadBegins, Still, Kept, registry
<1>8. CASE ReloadCancelled
  BY <1>8 DEF ReloadCancelled, Still, Kept, registry, history
<1>9. CASE LoadMacros
  BY <1>9 DEF LoadMacros, Still, Kept
<1>10. CASE UNCHANGED vars
  BY <1>10 DEF vars, Still, Kept, registry, history
<1>11. QED
  BY <1>1, <1>3, <1>4, <1>5, <1>6, <1>7, <1>8, <1>9, <1>10, RunTaskShape
     DEF Next, Reload

-----------------------------------------------------------------------------
(* The invariant *)

SafeInv ==
  /\ TypeOK /\ ChainOK /\ ActiveRegistered /\ CancelStopsChain
  /\ SkipExclusive /\ QueueExclusive /\ StrayRuns /\ GroupPreempts

\* The phases after a step that sets one of them.
LEMMA SetPhaseValue ==
  ASSUME NEW ph \in Phases, NEW t \in Task, NEW m \in Macro, NEW p \in Phase,
         NEW u \in Task, NEW k \in Macro
  PROVE  [ph EXCEPT ![t][m] = p][u][k] = IF u = t /\ k = m THEN p ELSE ph[u][k]
BY DEF Phases

\* Before any start no run is active, so the invariant holds.
LEMMA SafeInit == Init => SafeInv
<1> SUFFICES ASSUME Init PROVE SafeInv
  OBVIOUS
<1>1. TypeOK
  BY TypeInit
<1>2. ChainOK
  BY DEF Init, ChainOK, IdleEmpty, CurThere, CallerInStep, CurCallsNone, OneCallee
<1>3. ActiveRegistered /\ SkipExclusive /\ QueueExclusive /\ StrayRuns /\ GroupPreempts
  BY DEF Init, ActiveRegistered, SkipExclusive, QueueExclusive, StrayRuns,
     GroupPreempts, Active
<1>4. CancelStopsChain
  BY DEF Init, CancelStopsChain
<1>5. QED
  BY <1>1, <1>2, <1>3, <1>4 DEF SafeInv

\* A move: one run's phase changes, and to a phase of a run still there.
LEMMA MoveChain ==
  ASSUME TypeOK, ChainOK, NEW t \in Task, Move(t)
  PROVE  ChainOK'
<1>a. /\ phase \in Phases /\ caller \in Callers /\ NoMacro \notin Macro
  BY TypeFolded, MacroAssumption
<1>1. cur[t] \in Macro
  BY CurType DEF Move
<1>2. PICK p \in Phase \ {"none"} : phase' = [phase EXCEPT ![t][cur[t]] = p]
  BY DEF Move
<1>3. \A u \in Task, k \in Macro :
         phase'[u][k] = IF u = t /\ k = cur[t] THEN p ELSE phase[u][k]
  BY <1>a, <1>1, <1>2, SetPhaseValue
<1>4. cur' = cur /\ caller' = caller /\ outcome' = outcome
  BY DEF Move
<1>5. phase[t][cur[t]] # "none" /\ p # "none" /\ \A u \in Task : cur[u] \in Macro \cup {NoMacro}
  BY <1>1, <1>2, <1>a DEF ChainOK, CurThere, TypeOK
<1>6. \A u \in Task, k \in Macro : phase'[u][k] # "none" <=> phase[u][k] # "none"
  BY <1>3, <1>5
<1>7. IdleEmpty' /\ CurThere' /\ CurCallsNone' /\ OneCallee'
  BY <1>a, <1>4, <1>5, <1>6 DEF ChainOK, IdleEmpty, CurThere, CurCallsNone, OneCallee
<1>8. CallerInStep'
  <2> SUFFICES ASSUME NEW u \in Task, NEW k \in Macro, phase'[u][k] # "none",
                      caller[u][k] # NoMacro
               PROVE  phase'[u][caller[u][k]] = "step"
    BY <1>4 DEF CallerInStep
  <2>1. caller[u][k] \in Macro /\ phase[u][caller[u][k]] = "step"
    BY <1>a, <1>6 DEF Callers, ChainOK, CallerInStep
  <2>2. ~(u = t /\ caller[u][k] = cur[t])
    BY <1>a, <1>1, <1>6 DEF ChainOK, CurCallsNone
  <2>3. QED
    BY <1>3, <2>1, <2>2
<1>9. QED
  BY <1>7, <1>8 DEF ChainOK

\* A push: the new run is called by the innermost one, now in its call step.
LEMMA PushChain ==
  ASSUME TypeOK, ChainOK, NEW t \in Task, NEW m \in Macro,
         NEW c \in Macro \cup {NoMacro}, Push(t, m, c)
  PROVE  ChainOK'
<1>a. /\ phase \in Phases /\ caller \in Callers /\ NoMacro \notin Macro
      /\ cur \in [Task -> Macro \cup {NoMacro}] /\ outcome \in [Task -> Outcome]
  BY TypeFolded, MacroAssumption DEF TypeOK
<1>1. /\ cur' = [cur EXCEPT ![t] = m] /\ caller' = [caller EXCEPT ![t][m] = c]
      /\ phase[t][m] = "none"
  BY DEF Push
<1>2. \A u \in Task : cur'[u] = IF u = t THEN m ELSE cur[u]
  BY <1>a, <1>1
<1>3. \A u \in Task, k \in Macro :
         caller'[u][k] = IF u = t /\ k = m THEN c ELSE caller[u][k]
  BY <1>a, <1>1 DEF Callers
\* The caller, if any, is the innermost run until now and stays in its step.
<1>4. /\ \A u \in Task, k \in Macro :
            ~(u = t /\ k = m) => (phase'[u][k] # "none" <=> phase[u][k] # "none")
      /\ \A u \in Task, k \in Macro : phase[u][k] = "step" => phase'[u][k] = "step"
      /\ phase'[t][m] # "none"
      /\ c # NoMacro => c = cur[t] /\ phase'[t][c] = "step" /\ phase[t][c] # "none"
      /\ c = NoMacro => \A k \in Macro : phase[t][k] = "none"
      /\ \A u \in Task : outcome'[u] = "idle" => u # t /\ outcome[u] = "idle"
  <2>1. CASE c = NoMacro
    <3>1. PICK p \in {"queue", "skipped", "drain", "started"} :
             phase' = [phase EXCEPT ![t][m] = p]
      BY <2>1 DEF Push
    <3>2. outcome[t] = "idle" /\ outcome' = [outcome EXCEPT ![t] = "live"]
      BY <2>1 DEF Push
    <3>3. \A u \in Task, k \in Macro :
             phase'[u][k] = IF u = t /\ k = m THEN p ELSE phase[u][k]
      BY <1>a, <3>1, SetPhaseValue, PhaseNames
    <3>4. \A k \in Macro : phase[t][k] = "none"
      BY <3>2 DEF ChainOK, IdleEmpty
    <3>5. \A u \in Task : outcome'[u] = "idle" => u # t /\ outcome[u] = "idle"
      BY <1>a, <3>2
    <3>6. QED
      BY <2>1, <3>3, <3>4, <3>5
  <2>2. CASE c # NoMacro
    <3>1. PICK p \in {"queue", "skipped", "drain", "started"} :
             phase' = [[phase EXCEPT ![t][c] = "step"] EXCEPT ![t][m] = p]
      BY <2>2 DEF Push
    <3>2. outcome' = outcome /\ c = cur[t] /\ phase[t][c] = "progress" /\ c # m /\ c \in Macro
      BY <1>1, <2>2 DEF Push
    <3>3. \A u \in Task, k \in Macro :
             phase'[u][k] = IF u # t THEN phase[u][k]
                            ELSE IF k = m THEN p ELSE IF k = c THEN "step" ELSE phase[u][k]
      <4>1. p \in Phase /\ "step" \in Phase /\ c \in Macro /\ phase \in Phases
        BY <1>a, <3>2, PhaseNames
      <4>2. \A u \in Task, k \in Macro :
               [[phase EXCEPT ![t][c] = "step"] EXCEPT ![t][m] = p][u][k] =
                  IF u # t THEN phase[u][k]
                  ELSE IF k = m THEN p ELSE IF k = c THEN "step" ELSE phase[u][k]
        BY <4>1 DEF Phases
      <4>3. QED
        BY <3>1, <4>2
    <3>4. outcome[t] # "idle"
      BY <3>2 DEF ChainOK, IdleEmpty
    <3>5. QED
      BY <1>1, <2>2, <3>2, <3>3, <3>4
  <2>3. QED
    BY <2>1, <2>2
<1>5. IdleEmpty'
  BY <1>2, <1>4 DEF ChainOK, IdleEmpty
<1>6. CurThere'
  BY <1>a, <1>2, <1>4 DEF ChainOK, CurThere
<1>7. CallerInStep'
  BY <1>a, <1>3, <1>4 DEF ChainOK, CallerInStep, Callers
<1>8. CurCallsNone'
  <2> SUFFICES ASSUME NEW u \in Task, NEW k \in Macro, cur'[u] # NoMacro,
                      phase'[u][k] # "none", caller'[u][k] = cur'[u]
               PROVE  FALSE
    BY DEF CurCallsNone
  <2>1. CASE u # t
    BY <1>2, <1>3, <1>4, <2>1 DEF ChainOK, CurCallsNone
  <2>2. CASE u = t /\ k = m
    BY <1>1, <1>2, <1>3, <1>4, <2>2
  <2>3. CASE u = t /\ k # m
    <3>1. caller[t][k] = m /\ phase[t][k] # "none"
      BY <1>2, <1>3, <1>4, <2>3
    <3>2. QED
      BY <1>a, <1>1, <3>1 DEF ChainOK, CallerInStep
  <2>4. QED
    BY <2>1, <2>2, <2>3
<1>9. OneCallee'
  <2> SUFFICES ASSUME NEW u \in Task, NEW k \in Macro, NEW l \in Macro,
                      phase'[u][k] # "none", phase'[u][l] # "none",
                      caller'[u][k] = caller'[u][l], caller'[u][k] # NoMacro, k # l
               PROVE  FALSE
    BY DEF OneCallee
  <2>1. CASE u # t \/ (k # m /\ l # m)
    BY <1>3, <1>4, <2>1 DEF ChainOK, OneCallee
  <2>2. CASE u = t /\ (k = m \/ l = m)
    <3>1. \E n \in Macro : n # m /\ phase[t][n] # "none" /\ caller[t][n] = c /\ c # NoMacro
      BY <1>3, <1>4, <2>2
    <3>2. QED
      BY <1>4, <3>1 DEF ChainOK, CurCallsNone
  <2>3. QED
    BY <2>1, <2>2
<1>10. QED
  BY <1>5, <1>6, <1>7, <1>8, <1>9 DEF ChainOK

\* A pop: the innermost run goes, and its caller, if any, becomes innermost.
LEMMA PopChain ==
  ASSUME TypeOK, ChainOK, NEW t \in Task, Pop(t)
  PROVE  ChainOK'
<1> DEFINE m == cur[t]
           c == caller[t][m]
<1>a. /\ phase \in Phases /\ caller \in Callers /\ NoMacro \notin Macro
      /\ cur \in [Task -> Macro \cup {NoMacro}] /\ outcome \in [Task -> Outcome]
  BY TypeFolded, MacroAssumption DEF TypeOK
<1>1. /\ cur' = [cur EXCEPT ![t] = c] /\ caller' = [caller EXCEPT ![t][m] = NoMacro]
      /\ m \in Macro /\ c \in Macro \cup {NoMacro} /\ phase[t][m] # "none"
  BY <1>a DEF Pop, Callers, ChainOK, CurThere
<1>2. \A u \in Task : cur'[u] = IF u = t THEN c ELSE cur[u]
  BY <1>a, <1>1
<1>3. \A u \in Task, k \in Macro :
         caller'[u][k] = IF u = t /\ k = m THEN NoMacro ELSE caller[u][k]
  BY <1>a, <1>1 DEF Callers
<1>b. c # NoMacro => c \in Macro /\ c # m /\ phase[t][c] = "step"
  BY <1>1 DEF ChainOK, CallerInStep, CurCallsNone
<1>4. /\ \A u \in Task, k \in Macro :
            ~(u = t /\ k \in {m, c}) => phase'[u][k] = phase[u][k]
      /\ phase'[t][m] = "none"
      /\ c # NoMacro => phase'[t][c] # "none"
      /\ \A u \in Task : outcome'[u] = "idle" => u # t /\ outcome[u] = "idle"
  <2>1. CASE c = NoMacro
    <3>1. /\ phase' = [phase EXCEPT ![t][m] = "none"]
          /\ \E how \in Outcome \ {"idle"} : outcome' = [outcome EXCEPT ![t] = how]
      BY <2>1 DEF Pop
    <3>2. \A u \in Task, k \in Macro :
             phase'[u][k] = IF u = t /\ k = m THEN "none" ELSE phase[u][k]
      BY <1>a, <1>1, <3>1, SetPhaseValue, PhaseNames
    <3>3. \A u \in Task : outcome'[u] = "idle" => u # t /\ outcome[u] = "idle"
      BY <1>a, <3>1
    <3>4. QED
      BY <1>1, <2>1, <3>2, <3>3
  <2>2. CASE c # NoMacro
    <3>1. PICK p \in {"progress", "raised", "completed", "cancelled"} :
             phase' = [[phase EXCEPT ![t][m] = "none"] EXCEPT ![t][c] = p]
      BY <2>2 DEF Pop
    <3>2. p \in Phase /\ "none" \in Phase /\ c \in Macro /\ phase \in Phases /\ m \in Macro
      BY <1>a, <1>1, <1>b, <2>2, PhaseNames
    <3>3. \A u \in Task, k \in Macro :
             [[phase EXCEPT ![t][m] = "none"] EXCEPT ![t][c] = p][u][k] =
                IF u # t THEN phase[u][k]
                ELSE IF k = c THEN p ELSE IF k = m THEN "none" ELSE phase[u][k]
      BY <3>2 DEF Phases
    <3>4. outcome' = outcome /\ outcome[t] # "idle"
      BY <1>1, <2>2 DEF Pop, ChainOK, IdleEmpty
    <3>5. QED
      BY <1>1, <1>b, <2>2, <3>1, <3>3, <3>4
  <2>3. QED
    BY <2>1, <2>2
<1>5. \A u \in Task, k \in Macro :
         phase'[u][k] # "none" => phase[u][k] # "none" /\ ~(u = t /\ k = m)
  BY <1>a, <1>1, <1>b, <1>4
<1>6. IdleEmpty'
  BY <1>2, <1>4, <1>5 DEF ChainOK, IdleEmpty
<1>7. CurThere'
  <2> SUFFICES ASSUME NEW u \in Task, cur'[u] # NoMacro
               PROVE  phase'[u][cur'[u]] # "none"
    BY DEF CurThere
  <2>1. CASE u = t
    BY <1>2, <1>4, <2>1
  <2>2. CASE u # t
    BY <1>a, <1>2, <1>4, <2>2 DEF ChainOK, CurThere
  <2>3. QED
    BY <2>1, <2>2
\* Only the popped run was called by c.
<1>8. \A k \in Macro : phase'[t][k] # "none" /\ c # NoMacro => caller[t][k] # c
  BY <1>1, <1>5 DEF ChainOK, OneCallee
<1>9. CallerInStep'
  <2> SUFFICES ASSUME NEW u \in Task, NEW k \in Macro, phase'[u][k] # "none",
                      caller'[u][k] # NoMacro
               PROVE  phase'[u][caller'[u][k]] = "step"
    BY DEF CallerInStep
  <2>1. /\ phase[u][k] # "none" /\ caller'[u][k] = caller[u][k]
        /\ caller[u][k] \in Macro /\ phase[u][caller[u][k]] = "step"
    BY <1>a, <1>3, <1>5 DEF ChainOK, CallerInStep, Callers
  <2>2. u = t => caller[u][k] # m
    BY <1>1, <2>1 DEF ChainOK, CurCallsNone
  <2>3. u = t => caller[u][k] # c
    BY <1>8, <2>1
  <2>4. QED
    BY <1>4, <2>1, <2>2, <2>3
<1>10. CurCallsNone'
  <2> SUFFICES ASSUME NEW u \in Task, NEW k \in Macro, cur'[u] # NoMacro,
                      phase'[u][k] # "none", caller'[u][k] = cur'[u]
               PROVE  FALSE
    BY DEF CurCallsNone
  <2>1. phase[u][k] # "none" /\ caller'[u][k] = caller[u][k]
    BY <1>3, <1>5
  <2>2. CASE u = t
    BY <1>2, <1>8, <2>1, <2>2
  <2>3. CASE u # t
    BY <1>2, <2>1, <2>3 DEF ChainOK, CurCallsNone
  <2>4. QED
    BY <2>2, <2>3
<1>11. OneCallee'
  BY <1>3, <1>5 DEF ChainOK, OneCallee
<1>12. QED
  BY <1>6, <1>7, <1>9, <1>10, <1>11 DEF ChainOK

\* Every step keeps each task's runs one chain of calls.
LEMMA ChainStep == TypeOK /\ ChainOK /\ [Next]_vars => ChainOK'
<1> SUFFICES ASSUME TypeOK, ChainOK, [Next]_vars PROVE ChainOK'
  OBVIOUS
<1>1. CASE Still
  BY <1>1 DEF Still, chain, ChainOK, IdleEmpty, CurThere, CallerInStep, CurCallsNone,
     OneCallee
<1>2. \A t \in Task : cur[t] \in Macro \cup {NoMacro}
  BY DEF TypeOK
<1>3. QED
  BY <1>1, <1>2, NextShape, MoveChain, PushChain, PopChain

-----------------------------------------------------------------------------
(* What a step does to the registry, whichever shape it has: at most one run *)
(* becomes active, by registering; a run that stays active stays registered. *)

Stays(u, k) == phase[u][k] \in Active /\ (u \in running[k] => u \in running'[k])

StartsOnly(t, m) ==
  /\ Registers(t, m) /\ UNCHANGED project
  /\ phase[t][m] = "queue" \/ m \in loaded
  /\ \A u \in Task, k \in Macro :
        phase'[u][k] \in Active /\ ~(u = t /\ k = m) => Stays(u, k)

StartsNone == \A u \in Task, k \in Macro : phase'[u][k] \in Active => Stays(u, k)

Remembers ==
  \A u \in Task, k \in Macro : phase'[u][k] # "none" =>
     /\ <<u, k>> \in told => <<u, k>> \in told'
     /\ <<u, k>> \in gaveUp => <<u, k>> \in gaveUp'
     /\ <<u, k>> \in stale => <<u, k>> \in stale'

QueuesLoaded ==
  \A u \in Task, k \in Macro :
     phase'[u][k] = "queue" => phase[u][k] = "queue" \/ (k \in loaded /\ UNCHANGED project)

RegistryStep ==
  /\ StartsNone \/ \E t \in Task, m \in Macro : StartsOnly(t, m)
  /\ Remembers /\ QueuesLoaded
  /\ Still \/ UNCHANGED project

\* A move of one run, seen from the registry.
LEMMA MoveRegistry ==
  ASSUME TypeOK, NEW t \in Task, Move(t)
  PROVE  RegistryStep
<1> DEFINE m == cur[t]
<1>a. phase \in Phases /\ running \in [Macro -> SUBSET Task] /\ m \in Macro
  BY TypeFolded, CurType DEF TypeOK, Move
<1>1. PICK p \in Phase \ {"none"} :
         /\ phase' = [phase EXCEPT ![t][m] = p]
         /\ \/ running' = running /\ (p \in Active => phase[t][m] \in Active)
                                  /\ (p = "queue" => phase[t][m] = "queue")
            \/ running' = Released(t, m) /\ p \notin Active /\ p # "queue"
            \/ Registers(t, m) /\ p \in {"drain", "started"} /\ phase[t][m] = "queue"
  BY DEF Move
<1>2. \A u \in Task, k \in Macro :
         phase'[u][k] = IF u = t /\ k = m THEN p ELSE phase[u][k]
  BY <1>a, <1>1, SetPhaseValue
<1>3. Remembers /\ UNCHANGED project
  BY DEF Move, Kept, Remembers
<1>4. CASE running' = running /\ (p \in Active => phase[t][m] \in Active)
                              /\ (p = "queue" => phase[t][m] = "queue")
  <2>1. StartsNone
    BY <1>2, <1>4 DEF StartsNone, Stays
  <2>2. QueuesLoaded
    BY <1>2, <1>4 DEF QueuesLoaded
  <2>3. QED
    BY <1>3, <2>1, <2>2 DEF RegistryStep
<1>5. CASE running' = Released(t, m) /\ p \notin Active /\ p # "queue"
  <2>1. \A u \in Task, k \in Macro : ~(u = t /\ k = m) /\ u \in running[k] => u \in running'[k]
    BY <1>a, <1>5 DEF Released
  <2>2. StartsNone
    BY <1>2, <1>5, <2>1 DEF StartsNone, Stays
  <2>3. QueuesLoaded
    BY <1>2, <1>5 DEF QueuesLoaded
  <2>4. QED
    BY <1>3, <2>2, <2>3 DEF RegistryStep
<1>6. CASE Registers(t, m) /\ p \in {"drain", "started"} /\ phase[t][m] = "queue"
  <2>1. \A u \in Task, k \in Macro : u \in running[k] => u \in running'[k]
    BY <1>a, <1>6 DEF Registers
  <2>2. StartsOnly(t, m)
    BY <1>2, <1>3, <1>6, <2>1 DEF StartsOnly, Stays
  <2>3. QueuesLoaded
    BY <1>2, <1>6 DEF QueuesLoaded
  <2>4. QED
    BY <1>3, <1>a, <2>2, <2>3 DEF RegistryStep
<1>7. QED
  BY <1>1, <1>4, <1>5, <1>6

\* A nested or outermost execute(), seen from the registry.
LEMMA PushRegistry ==
  ASSUME TypeOK, NEW t \in Task, NEW m \in Macro, NEW c \in Macro \cup {NoMacro},
         Push(t, m, c)
  PROVE  RegistryStep
<1>a. phase \in Phases /\ running \in [Macro -> SUBSET Task] /\ NoMacro \notin Macro
  BY TypeFolded, MacroAssumption DEF TypeOK
<1>1. PICK p \in {"queue", "skipped", "drain", "started"} :
         /\ \/ c = NoMacro /\ phase' = [phase EXCEPT ![t][m] = p]
            \/ /\ c # NoMacro /\ phase[t][c] = "progress"
               /\ phase' = [[phase EXCEPT ![t][c] = "step"] EXCEPT ![t][m] = p]
         /\ \/ running' = running /\ p \in {"queue", "skipped"}
            \/ Registers(t, m) /\ p \in {"drain", "started"}
  BY DEF Push
<1>2. Remembers /\ UNCHANGED project /\ m \in loaded /\ phase[t][m] = "none"
  BY DEF Push, Kept, Remembers
<1>b. p \in Phase /\ "step" \in Phase /\ "step" \in Active /\ "progress" \in Active
  BY PhaseNames DEF Active
<1>3. \A u \in Task, k \in Macro :
         \/ u = t /\ k = m /\ phase'[u][k] = p
         \/ ~(u = t /\ k = m) /\ phase'[u][k] = phase[u][k]
         \/ ~(u = t /\ k = m) /\ phase'[u][k] = "step" /\ phase[u][k] = "progress"
  <2>1. CASE c = NoMacro
    BY <1>a, <1>b, <1>1, <2>1, SetPhaseValue
  <2>2. CASE c # NoMacro
    <3>1. c \in Macro /\ phase[t][c] = "progress" /\ c # m
          /\ phase' = [[phase EXCEPT ![t][c] = "step"] EXCEPT ![t][m] = p]
      BY <1>1, <1>2, <2>2
    <3>2. \A u \in Task, k \in Macro :
             [[phase EXCEPT ![t][c] = "step"] EXCEPT ![t][m] = p][u][k] =
                IF u # t THEN phase[u][k]
                ELSE IF k = m THEN p ELSE IF k = c THEN "step" ELSE phase[u][k]
      <4>1. p \in Phase /\ "step" \in Phase /\ c \in Macro /\ phase \in Phases
        BY <1>a, <1>b, <3>1
      <4>2. QED
        BY <4>1 DEF Phases
    <3>3. QED
      BY <3>1, <3>2, ZenonT(60)
  <2>3. QED
    BY <2>1, <2>2
<1>4. QueuesLoaded
  BY <1>2, <1>3 DEF QueuesLoaded
<1>5. CASE running' = running /\ p \in {"queue", "skipped"}
  <2>1. p \notin Active
    BY <1>5 DEF Active
  <2>2. StartsNone
    BY <1>3, <1>5, <1>b, <2>1 DEF StartsNone, Stays
  <2>3. QED
    BY <1>2, <1>4, <2>2 DEF RegistryStep
<1>6. CASE Registers(t, m)
  <2>1. \A u \in Task, k \in Macro : u \in running[k] => u \in running'[k]
    BY <1>a, <1>6 DEF Registers
  <2>2. StartsOnly(t, m)
    BY <1>2, <1>3, <1>6, <1>b, <2>1 DEF StartsOnly, Stays
  <2>3. QED
    BY <1>2, <1>4, <2>2 DEF RegistryStep
<1>7. QED
  BY <1>1, <1>5, <1>6

\* A return from execute(), seen from the registry.
LEMMA PopRegistry ==
  ASSUME TypeOK, ChainOK, NEW t \in Task, Pop(t)
  PROVE  RegistryStep
<1> DEFINE m == cur[t]
           c == caller[t][m]
<1>m. m \in Macro /\ phase[t][m] # "none"
  BY CurType DEF Pop, ChainOK, CurThere
<1>n. c \in Macro \cup {NoMacro}
  BY <1>m, TypeFolded DEF Callers
<1>o. phase \in Phases /\ running \in [Macro -> SUBSET Task]
  BY TypeFolded DEF TypeOK
<1>a. /\ phase \in Phases /\ running \in [Macro -> SUBSET Task] /\ m \in Macro
      /\ NoMacro \notin Macro /\ c \in Macro \cup {NoMacro} /\ phase[t][m] # "none"
  BY <1>m, <1>n, <1>o, MacroAssumption
<1>b. "none" \notin Active /\ "step" \in Active /\ "none" \in Phase
  BY PhaseNames DEF Active
<1>c. c # NoMacro => c \in Macro /\ c # m /\ phase[t][c] = "step"
  BY <1>a DEF ChainOK, CallerInStep, CurCallsNone
<1>1. CASE c = NoMacro
  <2>1. /\ phase' = [phase EXCEPT ![t][m] = "none"] /\ running' = running
        /\ Kept({<<t, m>>}) /\ UNCHANGED project
    BY <1>1 DEF Pop
  <2>2. \A u \in Task, k \in Macro :
           phase'[u][k] = IF u = t /\ k = m THEN "none" ELSE phase[u][k]
    BY <1>a, <1>b, <2>1, SetPhaseValue
  <2>3. Remembers
    BY <2>1, <2>2 DEF Remembers, Kept
  <2>4. QueuesLoaded
    BY <2>2 DEF QueuesLoaded
  <2>5. StartsNone
    BY <1>b, <2>1, <2>2 DEF StartsNone, Stays
  <2>6. QED
    BY <2>1, <2>3, <2>4, <2>5 DEF RegistryStep
<1>2. CASE c # NoMacro
  <2>1. PICK p \in {"progress", "raised", "completed", "cancelled"} :
           /\ phase' = [[phase EXCEPT ![t][m] = "none"] EXCEPT ![t][c] = p]
           /\ \/ running' = running
              \/ running' = Released(t, c) /\ p \notin Active
    BY <1>2 DEF Pop
  <2>2. Kept({<<t, m>>}) /\ UNCHANGED project
    BY DEF Pop
  <2>a. p \in Phase
    BY PhaseNames
  <2>3. \A u \in Task, k \in Macro :
           [[phase EXCEPT ![t][m] = "none"] EXCEPT ![t][c] = p][u][k] =
              IF u # t THEN phase[u][k]
              ELSE IF k = c THEN p ELSE IF k = m THEN "none" ELSE phase[u][k]
    BY <1>a, <1>b, <1>c, <1>2, <2>a DEF Phases
  <2>4. \A u \in Task, k \in Macro :
           phase'[u][k] = IF u # t THEN phase[u][k]
              ELSE IF k = c THEN p ELSE IF k = m THEN "none" ELSE phase[u][k]
    BY <2>1, <2>3
  <2>5. Remembers
    BY <1>c, <1>2, <2>2, <2>4 DEF Remembers, Kept
  <2>6. QueuesLoaded
    BY <2>4 DEF QueuesLoaded
  <2>7. \A u \in Task, k \in Macro :
           phase'[u][k] \in Active /\ u \in running[k] => u \in running'[k]
    BY <1>a, <1>c, <1>2, <2>1, <2>4 DEF Released
  <2>8. StartsNone
    BY <1>b, <1>c, <1>2, <2>4, <2>7 DEF StartsNone, Stays
  <2>9. QED
    BY <2>2, <2>5, <2>6, <2>8 DEF RegistryStep
<1>3. QED
  BY <1>1, <1>2

\* Every step starts at most one run, and takes no active run out of _running.
LEMMA RegistryShape == TypeOK /\ ChainOK /\ [Next]_vars => RegistryStep
<1> SUFFICES ASSUME TypeOK, ChainOK, [Next]_vars PROVE RegistryStep
  OBVIOUS
<1>1. CASE Still
  BY <1>1 DEF Still, chain, Kept, RegistryStep, StartsNone, Stays, Remembers, QueuesLoaded
<1>2. \A t \in Task : cur[t] \in Macro \cup {NoMacro}
  BY DEF TypeOK
<1>3. QED
  BY <1>1, <1>2, NextShape, MoveRegistry, PushRegistry, PopRegistry

-----------------------------------------------------------------------------
(* The invariant is preserved, part by part.                               *)

\* An active run is there, and past its queue.
LEMMA ActiveThere == \A ph \in Active : ph # "none" /\ ph # "queue"
BY DEF Active

\* No step leaves an active run out of _running.
LEMMA RegisteredStep ==
  ASSUME TypeOK, ActiveRegistered, RegistryStep
  PROVE  ActiveRegistered'
<1>1. CASE StartsNone
  BY <1>1 DEF ActiveRegistered, StartsNone, Stays
<1>2. ASSUME NEW t \in Task, NEW m \in Macro, StartsOnly(t, m)
      PROVE  ActiveRegistered'
  <2>1. t \in running'[m]
    BY <1>2 DEF StartsOnly, Registers, TypeOK
  <2>2. QED
    BY <1>2, <2>1 DEF ActiveRegistered, StartsOnly, Stays
<1>3. QED
  BY <1>1, <1>2 DEF RegistryStep

\* No step starts a second instance of an overlap=skip macro.
LEMMA SkipStepInv ==
  ASSUME ActiveRegistered, SkipExclusive, RegistryStep
  PROVE  SkipExclusive'
<1>1. CASE StartsNone
  BY <1>1 DEF SkipExclusive, StartsNone, Stays
<1>2. ASSUME NEW t \in Task, NEW m \in Macro, StartsOnly(t, m)
      PROVE  SkipExclusive'
  <2>1. Overlap[m] = "skip" => \A u \in Task : phase[u][m] \notin Active
    BY <1>2 DEF StartsOnly, Registers, ActiveRegistered
  <2>2. QED
    BY <1>2, <2>1 DEF SkipExclusive, StartsOnly, Stays
<1>3. QED
  BY <1>1, <1>2 DEF RegistryStep

\* No step overlaps overlap=queue instances that were both patient.
LEMMA QueueStepInv ==
  ASSUME ActiveRegistered, QueueExclusive, RegistryStep
  PROVE  QueueExclusive'
<1> SUFFICES ASSUME NEW m \in Macro, Overlap[m] = "queue", NEW t \in Task, NEW u \in Task,
                    phase'[t][m] \in Active, phase'[u][m] \in Active,
                    {<<t, m>>, <<u, m>>} \cap gaveUp' = {}
             PROVE  t = u
  BY DEF QueueExclusive
<1>1. <<t, m>> \notin gaveUp /\ <<u, m>> \notin gaveUp
  BY ActiveThere DEF RegistryStep, Remembers
<1>2. CASE Stays(t, m) /\ Stays(u, m)
  BY <1>1, <1>2 DEF QueueExclusive, Stays
<1>3. ASSUME NEW v \in Task, NEW k \in Macro, StartsOnly(v, k) PROVE t = u
  <2>1. CASE k = m /\ v \in {t, u}
    <3>1. \A w \in Task : phase[w][m] \notin Active
      BY <1>3, <2>1 DEF StartsOnly, Registers, ActiveRegistered
    <3>2. QED
      BY <1>3, <2>1, <3>1 DEF StartsOnly, Stays
  <2>2. CASE ~(k = m /\ v \in {t, u})
    BY <1>2, <1>3, <2>2 DEF StartsOnly
  <2>3. QED
    BY <2>1, <2>2
<1>4. QED
  BY <1>2, <1>3 DEF RegistryStep, StartsNone

\* A reload marks or stops every run whose macro it removes.
LEMMA StrayStep ==
  ASSUME TypeOK, ActiveRegistered, StrayRuns, RegistryStep
  PROVE  StrayRuns'
<1> DEFINE Marked(t, m) == <<t, m>> \in told' \cup stale'
<1>1. \A t \in Task, m \in Macro : phase'[t][m] \in Active =>
         /\ phase'[t][m] # "none"
         /\ <<t, m>> \in told \cup stale => Marked(t, m)
  BY ActiveThere DEF RegistryStep, Remembers
<1>2. ASSUME NEW t \in Task, NEW m \in Macro, phase'[t][m] = "queue", m \notin loaded'
      PROVE  <<t, m>> \in stale'
  <2>1. CASE phase[t][m] = "queue" /\ m \notin loaded
    BY <1>2, <2>1 DEF StrayRuns, RegistryStep, Remembers
  <2>2. CASE UNCHANGED project
    <3>1. phase[t][m] = "queue" /\ m \notin loaded
      BY <1>2, <2>2 DEF RegistryStep, QueuesLoaded, project
    <3>2. QED
      BY <2>1, <3>1
  <2>3. CASE Still
    BY <1>2, <2>1, <2>2, <2>3 DEF Still, chain
  <2>4. QED
    BY <2>2, <2>3 DEF RegistryStep
<1>3. ASSUME reload' # "idle", NEW t \in Task, NEW m \in Macro,
             phase'[t][m] \in Active, m \notin loaded'
      PROVE  Marked(t, m)
  <2>1. CASE UNCHANGED project
    <3>1. reload # "idle" /\ m \notin loaded
      BY <1>3, <2>1 DEF project
    <3>2. CASE Stays(t, m)
      BY <1>1, <1>3, <3>1, <3>2 DEF Stays, StrayRuns
    <3>3. CASE phase[t][m] = "queue"
      BY <1>1, <1>3, <3>1, <3>3 DEF StrayRuns
    <3>4. QED
      BY <1>3, <3>1, <3>2, <3>3 DEF RegistryStep, StartsNone, StartsOnly
  <2>2. CASE Still /\ ~UNCHANGED project
    <3>1. phase' = phase
      BY <2>2 DEF Still, chain
    <3>2. CASE reload = "cancelling" /\ loaded' = loaded
      BY <1>1, <1>3, <3>1, <3>2 DEF StrayRuns
    <3>3. CASE \A k \in Macro : \A u \in running[k] : Chain(u) \subseteq told'
      <4>1. <<t, m>> \in Chain(t) /\ t \in running[m]
        BY <1>1, <1>3, <3>1 DEF Chain, ActiveRegistered
      <4>2. QED
        BY <3>3, <4>1
    <3>4. QED
      BY <1>3, <2>2, <3>2, <3>3 DEF Still
  <2>3. QED
    BY <2>1, <2>2 DEF RegistryStep
<1>4. QED
  BY <1>2, <1>3 DEF StrayRuns

\* A start leaves no other active run of its group without a request to stop.
LEMMA GroupStep ==
  ASSUME TypeOK, TypeOK', ActiveRegistered, StrayRuns, GroupPreempts, RegistryStep
  PROVE  GroupPreempts'
<1> SUFFICES ASSUME NEW t \in Task, NEW u \in Task, NEW m \in loaded', NEW k \in loaded',
                    t # u, Group[m] = Group[k], Group[m] # NoGroup,
                    phase'[t][m] \in Active, phase'[u][k] \in Active
             PROVE  {<<t, m>>, <<u, k>>} \cap (told' \cup stale') # {}
  BY DEF GroupPreempts
<1>a. m \in Macro /\ k \in Macro
  BY DEF TypeOK
<1>1. \A v \in Task, l \in Macro :
         phase'[v][l] \in Active /\ <<v, l>> \in told \cup stale
             => <<v, l>> \in told' \cup stale'
  BY ActiveThere DEF RegistryStep, Remembers
\* A start preempts every other registered run of its group.
<1>2. ASSUME NEW v \in Task, NEW l \in Macro, StartsOnly(v, l),
             NEW w \in Task, NEW n \in Macro, n \in loaded', v # w,
             Group[l] = Group[n], Group[n] # NoGroup, phase'[w][n] \in Active
      PROVE  <<w, n>> \in told'
  <2>1. n \in loaded /\ phase[w][n] \in Active
    BY <1>2 DEF StartsOnly, Stays, project
  <2>2. w \in running[n] /\ <<w, n>> \in Chain(w)
    BY <2>1, ActiveThere DEF ActiveRegistered, Chain
  <2>3. w \in GroupTargets(v, l)
    BY <1>2, <2>1, <2>2 DEF GroupTargets
  <2>4. QED
    BY <1>2, <2>2, <2>3 DEF StartsOnly, Registers
<1>3. CASE Stays(t, m) /\ Stays(u, k)
  <2>1. phase[t][m] \in Active /\ phase[u][k] \in Active
    BY <1>3 DEF Stays
  <2>2. CASE m \in loaded /\ k \in loaded
    BY <1>1, <1>a, <2>1, <2>2 DEF GroupPreempts
  <2>3. CASE ~(m \in loaded /\ k \in loaded)
    <3>1. reload # "idle"
      BY <2>3 DEF RegistryStep, Still, project
    <3>2. QED
      BY <1>1, <1>a, <2>1, <2>3, <3>1 DEF StrayRuns
  <2>4. QED
    BY <2>2, <2>3
<1>4. ASSUME NEW v \in Task, NEW l \in Macro, StartsOnly(v, l)
      PROVE  {<<t, m>>, <<u, k>>} \cap (told' \cup stale') # {}
  <2>1. CASE v = t /\ l = m
    BY <1>2, <1>4, <1>a, <2>1
  <2>2. CASE v = u /\ l = k
    BY <1>2, <1>4, <1>a, <2>2
  <2>3. CASE ~(v = t /\ l = m) /\ ~(v = u /\ l = k)
    BY <1>3, <1>4, <1>a, <2>3 DEF StartsOnly
  <2>4. QED
    BY <2>1, <2>2, <2>3
<1>5. QED
  BY <1>3, <1>4, <1>a DEF RegistryStep, StartsNone

\* After a cancellation the only steps of its task unwind the chain.
LEMMA CancelStep ==
  ASSUME TypeOK, ChainOK, CancelStopsChain, [Next]_vars
  PROVE  CancelStopsChain'
<1>a. /\ phase \in Phases /\ cur \in [Task -> Macro \cup {NoMacro}]
      /\ caller \in Callers /\ hit \subseteq Task /\ NoMacro \notin Macro
  BY TypeFolded, MacroAssumption DEF TypeOK
<1>1. ASSUME NEW t \in Task, Move(t) PROVE CancelStopsChain'
  <2>1. cur[t] \in Macro /\ t \notin hit /\ cur' = cur
    BY <1>1, CurType DEF Move, CancelStopsChain, At
  <2>2. PICK p \in Phase \ {"none"} :
           /\ phase' = [phase EXCEPT ![t][cur[t]] = p]
           /\ hit' = hit \/ (p = "cancelled" /\ hit' = hit \cup {t})
    BY <1>1 DEF Move
  <2>3. \A u \in Task, k \in Macro :
           phase'[u][k] = IF u = t /\ k = cur[t] THEN p ELSE phase[u][k]
    BY <1>a, <2>1, <2>2, SetPhaseValue
  <2>4. QED
    BY <1>a, <2>1, <2>2, <2>3 DEF CancelStopsChain, At
<1>2. ASSUME NEW t \in Task, NEW m \in Macro, NEW c \in Macro \cup {NoMacro},
             Push(t, m, c)
      PROVE  CancelStopsChain'
  <2>1. /\ cur' = [cur EXCEPT ![t] = m] /\ hit' = hit
        /\ \A u \in Task : u # t => phase'[u] = phase[u]
    BY <1>2, <1>a DEF Push, Phases
  <2>2. cur[t] = NoMacro \/ phase[t][cur[t]] = "progress"
    BY <1>2 DEF Push, ChainOK, IdleEmpty
  <2>3. t \notin hit
    BY <2>2 DEF CancelStopsChain, At
  <2>4. QED
    BY <1>a, <2>1, <2>3 DEF CancelStopsChain, At
<1>3. ASSUME NEW t \in Task, Pop(t) PROVE CancelStopsChain'
  <2> DEFINE m == cur[t]
             c == caller[t][m]
  <2>1. m \in Macro
    BY <1>3, CurType DEF Pop
  <2>2. c \in Macro \cup {NoMacro}
    BY <1>a, <2>1 DEF Callers
  <2>3. cur' = [cur EXCEPT ![t] = c]
    BY <1>3 DEF Pop
  <2>4. \A u \in Task : u # t => phase'[u] = phase[u]
    BY <1>3, <1>a DEF Pop, Phases
  <2>5. \A u \in Task : u # t => (u \in hit' => u \in hit)
    BY <1>3 DEF Pop
  <2>6. t \in hit' => c # NoMacro /\ phase'[t][c] = "cancelled"
    <3>1. CASE c = NoMacro
      BY <1>3, <3>1 DEF Pop
    <3>2. CASE c # NoMacro
      <4>1. PICK p \in {"progress", "raised", "completed", "cancelled"} :
               /\ phase' = [[phase EXCEPT ![t][m] = "none"] EXCEPT ![t][c] = p]
               /\ \/ p = "cancelled" /\ hit' = hit \cup {t}
                  \/ phase[t][m] # "cancelled" /\ hit' = hit
        BY <1>3, <3>2 DEF Pop
      <4>2. c \in Macro
        BY <2>2, <3>2
      <4>3. phase'[t][c] = p
        BY <1>a, <2>1, <4>1, <4>2 DEF Phases
      <4>4. phase[t][m] # "cancelled" => t \notin hit
        BY DEF CancelStopsChain, At
      <4>5. QED
        BY <3>2, <4>1, <4>3, <4>4
    <3>3. QED
      BY <3>1, <3>2
  <2>7. hit' \subseteq Task
    BY TypeStep DEF TypeOK
  <2>8. ASSUME NEW u \in hit', u # t PROVE cur'[u] # NoMacro /\ phase'[u][cur'[u]] = "cancelled"
    BY <1>a, <2>3, <2>4, <2>5, <2>7, <2>8 DEF CancelStopsChain, At
  <2>9. t \in hit' => cur'[t] # NoMacro /\ phase'[t][cur'[t]] = "cancelled"
    BY <1>a, <2>3, <2>6
  <2>10. QED
    BY <2>8, <2>9 DEF CancelStopsChain, At
<1>4. CASE Still
  BY <1>4 DEF Still, chain, CancelStopsChain, At
<1>5. QED
  BY <1>a, <1>1, <1>2, <1>3, <1>4, NextShape

\* The invariant is inductive.
LEMMA SafeStep == SafeInv /\ [Next]_vars => SafeInv'
<1> SUFFICES ASSUME SafeInv, [Next]_vars PROVE SafeInv'
  OBVIOUS
<1>1. TypeOK' /\ ChainOK' /\ RegistryStep
  BY TypeStep, ChainStep, RegistryShape DEF SafeInv
<1>2. ActiveRegistered' /\ SkipExclusive' /\ QueueExclusive'
  BY <1>1, RegisteredStep, SkipStepInv, QueueStepInv DEF SafeInv
<1>3. StrayRuns' /\ GroupPreempts'
  BY <1>1, StrayStep, GroupStep DEF SafeInv
<1>4. CancelStopsChain'
  BY CancelStep DEF SafeInv
<1>5. QED
  BY <1>1, <1>2, <1>3, <1>4 DEF SafeInv

\* Every reachable state satisfies the inductive invariant.
LEMMA Safe == Spec => []SafeInv
BY SafeInit, SafeStep, PTL DEF Spec

-----------------------------------------------------------------------------
(* No failure goes untold.  A run beneath which a step failed has the        *)
(* failure in its own tally, or is being cancelled, or is still waiting for  *)
(* the callee that has it.                                                   *)

\* Every run but the innermost one is waiting for a callee.
HasCallee ==
    \A t \in Task, m \in Macro :
        phase[t][m] # "none" /\ m # cur[t]
        => \E k \in Macro : phase[t][k] # "none" /\ caller[t][k] = m

\* Before its first step a run has no failure beneath it.
Early == {"none", "queue", "skipped", "drain", "started"}
ErredWorks ==
    \A t \in Task, m \in Macro : <<t, m>> \in erred => phase[t][m] \notin Early

Tallied ==
    \A t \in Task, m \in Macro : <<t, m>> \in erred =>
        \/ <<t, m>> \in failed
        \/ phase[t][m] = "cancelled"
        \/ \E k \in Macro : /\ phase[t][k] # "none" /\ caller[t][k] = m
                            /\ <<t, k>> \in erred

TallyInv == HasCallee /\ ErredWorks /\ Tallied

\* What a move of the innermost run does to the tallies.
MoveTally(t) ==
  LET m == cur[t]
  IN  \E p \in Phase \ {"none"} :
        /\ m # NoMacro /\ phase[t][m] # "cancelled"
        /\ phase' = [phase EXCEPT ![t][m] = p]
        /\ p \in Early => phase[t][m] \in Early
        /\ UNCHANGED <<cur, caller>>
        /\ \/ UNCHANGED <<failed, erred>>
           \/ /\ p \notin Early
              /\ failed' = failed \cup {<<t, m>>} /\ erred' = erred \cup Chain(t)

\* The innermost run goes; a failure beneath it becomes its caller's.
PopTally(t) ==
  LET m == cur[t]
      c == caller[t][m]
  IN  /\ m # NoMacro
      /\ cur' = [cur EXCEPT ![t] = c]
      /\ caller' = [caller EXCEPT ![t][m] = NoMacro]
      /\ erred' = erred \ {<<t, m>>}
      /\ \/ /\ c = NoMacro
            /\ phase' = [phase EXCEPT ![t][m] = "none"]
            /\ failed' = failed \ {<<t, m>>}
         \/ /\ c # NoMacro
            /\ failed \ {<<t, m>>} \subseteq failed'
            /\ \E p \in Phase \ Early :
                 /\ phase' = [[phase EXCEPT ![t][m] = "none"] EXCEPT ![t][c] = p]
                 /\ \/ p = "cancelled"
                    \/ <<t, c>> \in failed'
                    \/ phase[t][m] = "skipped"
                    \/ phase[t][m] = "completed" /\ <<t, m>> \notin failed

\* A push or a step without a run leaves the tallies alone.
TallyStep ==
  \/ \E t \in Task : MoveTally(t) \/ PopTally(t)
  \/ /\ UNCHANGED <<failed, erred>>
     /\ \/ \E t \in Task, m \in Macro : Push(t, m, NoMacro) \/ Push(t, m, cur[t])
        \/ UNCHANGED chain

\* Going on to the next step, or to the end, is a move without a failure.
LEMMA AdvanceTally ==
  ASSUME TypeOK, NEW t \in Task, cur[t] # NoMacro, Advance(t, cur[t], phase, pc),
         phase[t][cur[t]] # "cancelled", UNCHANGED <<cur, caller, failed, erred>>
  PROVE  MoveTally(t)
<1>1. \E p \in {"progress", "completed"} : phase' = [phase EXCEPT ![t][cur[t]] = p]
  BY DEF Advance
<1>2. QED
  BY <1>1, PhaseNames DEF MoveTally, Early

\* A failing step is tallied in the run it is of.
LEMMA FailsTally ==
  ASSUME TypeOK, NEW t \in Task, cur[t] # NoMacro, NEW how \in {"raised", "reported"},
         StepFails(t, how), phase[t][cur[t]] # "cancelled", UNCHANGED <<cur, caller>>
  PROVE  MoveTally(t)
BY PhaseNames DEF MoveTally, Early, StepFails

\* A return from execute() takes the failure to the calling run.
LEMMA EndRunTally ==
  ASSUME TypeOK, NEW t \in Task, cur[t] # NoMacro,
         NEW how \in {"completed", "failed", "skipped", "cancelled", "error"},
         EndRun(t, how),
         how = "completed" => phase[t][cur[t]] = "completed" /\ <<t, cur[t]>> \notin failed,
         how = "skipped" => phase[t][cur[t]] = "skipped"
  PROVE  PopTally(t)
<1> DEFINE m == cur[t]
           c == caller[t][m]
           ph == [phase EXCEPT ![t][m] = "none"]
<1>1. /\ cur' = [cur EXCEPT ![t] = c] /\ caller' = [caller EXCEPT ![t][m] = NoMacro]
      /\ erred' = erred \ {<<t, m>>}
  BY DEF EndRun
<1>2. CASE c = NoMacro
  BY <1>1, <1>2 DEF EndRun, PopTally
<1>3. CASE c # NoMacro /\ how \in {"completed", "skipped", "failed"}
  <2>1. /\ failed \ {<<t, m>>} \subseteq failed' /\ (how = "failed" => <<t, c>> \in failed')
        /\ Advance(t, c, ph, [pc EXCEPT ![t][m] = 0])
    BY <1>3 DEF EndRun
  <2>2. \E p \in {"progress", "completed"} : phase' = [ph EXCEPT ![t][c] = p]
    BY <2>1 DEF Advance
  <2>3. QED
    BY <1>1, <1>3, <2>1, <2>2, PhaseNames DEF PopTally, Early
<1>4. CASE c # NoMacro /\ how = "error"
  <2>1. /\ failed' = (failed \ {<<t, m>>}) \cup {<<t, c>>}
        /\ phase' = [ph EXCEPT ![t][c] = "raised"]
    BY <1>4 DEF EndRun
  <2>2. failed \ {<<t, m>>} \subseteq failed' /\ <<t, c>> \in failed'
    BY <2>1
  <2>3. "raised" \in Phase \ Early
    BY PhaseNames DEF Early
  <2>4. QED
    BY <1>1, <1>4, <2>1, <2>2, <2>3 DEF PopTally
<1>5. CASE c # NoMacro /\ how = "cancelled"
  <2>1. failed' = failed \ {<<t, m>>} /\ phase' = [ph EXCEPT ![t][c] = "cancelled"]
    BY <1>5 DEF EndRun
  <2>2. QED
    BY <1>1, <1>5, <2>1, PhaseNames DEF PopTally, Early
<1>6. QED
  BY <1>2, <1>3, <1>4, <1>5

\* What the event loop runs for a task, seen from the tallies.
LEMMA RunTaskTally ==
  ASSUME TypeOK, NEW t \in Task, RunTask(t) \/ WaitTimesOut(t)
  PROVE  \/ MoveTally(t) \/ PopTally(t)
         \/ UNCHANGED <<failed, erred>> /\ \E m \in Macro : Push(t, m, cur[t])
<1>a. phase \in Phases /\ (cur[t] # NoMacro => cur[t] \in Macro)
  BY TypeFolded, CurType
<1>1. CASE QueuePoll(t)
  <2>1. /\ cur[t] # NoMacro /\ phase[t][cur[t]] = "queue"
        /\ UNCHANGED <<cur, caller, failed, erred>>
    BY <1>1 DEF QueuePoll, Resumes, At
  <2>2. \E p \in {"queue", "skipped", "drain", "started"} :
           phase' = [phase EXCEPT ![t][cur[t]] = p]
    <3>1. CASE phase' = phase
      BY <1>a, <2>1, <3>1 DEF Phases
    <3>2. CASE Claim(t, cur[t], phase)
      BY <3>2 DEF Claim
    <3>3. QED
      BY <1>1, <3>1, <3>2 DEF QueuePoll
  <2>3. QED
    BY <2>1, <2>2, PhaseNames DEF MoveTally, Early
<1>2. CASE CallMacro(t)
  <2>1. UNCHANGED <<failed, erred>> /\ phase[t][cur[t]] = "progress" /\ cur[t] # NoMacro
    BY <1>2 DEF CallMacro, Resumes, At
  <2>2. QED
    BY <1>2, <2>1, CallShape
<1>3. CASE Drained(t) \/ DrainTimeout(t) \/ CancelInDrain(t)
  <2>1. /\ cur[t] # NoMacro /\ phase[t][cur[t]] = "drain"
        /\ phase' = [phase EXCEPT ![t][cur[t]] = "started"]
        /\ UNCHANGED <<cur, caller, failed, erred>>
    BY <1>3 DEF Drained, DrainTimeout, CancelInDrain, LeaveDrain, Resumes, At, history
  <2>2. "started" \in Phase \ {"none"} /\ "drain" \in Early /\ "drain" # "cancelled"
    BY PhaseNames DEF Early
  <2>3. QED
    BY <2>1, <2>2 DEF MoveTally
<1>4. CASE \/ StartedReported(t) \/ SkipStep(t) \/ WorkDone(t) \/ StepErrorReported(t)
           \/ WaitFastPath(t) \/ WaitSatisfied(t)
  BY <1>4, AdvanceTally DEF StartedReported, SkipStep, WorkDone, StepErrorReported,
     WaitFastPath, WaitSatisfied, Resumes, At, history
<1>5. CASE CallRefused(t) \/ WorkFails(t)
  BY <1>5, FailsTally DEF CallRefused, WorkFails, Resumes, At
<1>6. CASE WaitTimesOut(t)
  BY <1>6, FailsTally, AdvanceTally DEF WaitTimesOut, Resumes, At
<1>7. CASE \/ BeginWork(t) \/ WaitSubscribe(t) \/ WaitReported(t)
           \/ StopOnStepError(t) \/ CancelInTry(t)
  <2>1. /\ cur[t] # NoMacro /\ phase[t][cur[t]] # "cancelled"
        /\ \E p \in {"step", "waitEmit", "waiting", "error", "cancelled"} :
               phase' = [phase EXCEPT ![t][cur[t]] = p]
        /\ UNCHANGED <<cur, caller, failed, erred>>
    BY <1>7 DEF BeginWork, WaitSubscribe, WaitReported, StopOnStepError, CancelInTry,
       Resumes, At, history
  <2>2. QED
    BY <2>1, PhaseNames DEF MoveTally, Early
<1>8. CASE \/ SkippedReported(t) \/ CompletedReported(t) \/ ErrorReported(t)
           \/ CancelledReported(t) \/ CancelOutsideTry(t)
  <2>1. /\ cur[t] # NoMacro
        /\ \E how \in {"completed", "failed", "skipped", "cancelled", "error"} :
              /\ EndRun(t, how)
              /\ how = "completed" =>
                    phase[t][cur[t]] = "completed" /\ <<t, cur[t]>> \notin failed
              /\ how = "skipped" => phase[t][cur[t]] = "skipped"
    BY <1>8 DEF SkippedReported, CompletedReported, ErrorReported, CancelledReported,
       CancelOutsideTry, Resumes, At
  <2>2. QED
    BY <2>1, EndRunTally
<1>9. QED
  BY <1>1, <1>2, <1>3, <1>4, <1>5, <1>6, <1>7, <1>8 DEF RunTask

\* Every step tallies a failure where it happens, passes one on, or none.
LEMMA TallyShape ==
  ASSUME TypeOK, [Next]_vars
  PROVE  TallyStep
<1>1. ASSUME NEW t \in Task, NEW m \in Macro, Start(t, m)
      PROVE  TallyStep
  <2>1. UNCHANGED <<failed, erred>> /\ Enter(t, m, NoMacro, phase)
        /\ phase[t][m] = "none" /\ m \in loaded /\ outcome[t] = "idle"
        /\ outcome' = [outcome EXCEPT ![t] = "live"]
        /\ UNCHANGED <<project, hit, gaveUp, stale>>
    BY <1>1 DEF Start, RefuseStart
  <2>2. Push(t, m, NoMacro)
    BY <2>1, EnterShape, TypeFolded DEF Push, Kept
  <2>3. QED
    BY <2>1, <2>2 DEF TallyStep
<1>2. ASSUME NEW t \in Task, RunTask(t) \/ WaitTimesOut(t)
      PROVE  TallyStep
  BY <1>2, RunTaskTally DEF TallyStep
<1>3. ASSUME \/ \E t \in Task : OwnerCancel(t)
             \/ \E m \in Macro : Cancel(m) \/ CooldownElapses(m)
             \/ \E v \in BOOLEAN : SetReady(v)
             \/ Reload \/ UNCHANGED vars
      PROVE  TallyStep
  <2>1. UNCHANGED <<chain, failed, erred>>
    BY <1>3 DEF OwnerCancel, Cancel, CooldownElapses, SetReady, Reload, ReloadBegins,
       ReloadCancelled, LoadMacros, vars, history
  <2>2. QED
    BY <2>1 DEF TallyStep
<1>4. QED
  BY <1>1, <1>2, <1>3 DEF Next

\* What a push does to the phases and the callers.
LEMMA PushValues ==
  ASSUME TypeOK, NEW t \in Task, NEW m \in Macro, NEW c \in Macro \cup {NoMacro},
         Push(t, m, c), ChainOK
  PROVE  /\ \A u \in Task : cur'[u] = IF u = t THEN m ELSE cur[u]
         /\ \A u \in Task, k \in Macro :
               caller'[u][k] = IF u = t /\ k = m THEN c ELSE caller[u][k]
         /\ phase[t][m] = "none" /\ phase'[t][m] \in Early \ {"none"}
         /\ \A u \in Task, k \in Macro :
               \/ u = t /\ k = m
               \/ phase'[u][k] = phase[u][k]
               \/ u = t /\ k = c /\ phase[u][k] = "progress" /\ phase'[u][k] = "step"
         /\ c # NoMacro => c = cur[t]
         /\ c = NoMacro => \A k \in Macro : phase[t][k] = "none"
<1>a. /\ phase \in Phases /\ caller \in Callers /\ NoMacro \notin Macro
      /\ cur \in [Task -> Macro \cup {NoMacro}]
  BY TypeFolded, MacroAssumption DEF TypeOK
<1>1. /\ cur' = [cur EXCEPT ![t] = m] /\ caller' = [caller EXCEPT ![t][m] = c]
      /\ phase[t][m] = "none"
  BY DEF Push
<1>2. PICK p \in {"queue", "skipped", "drain", "started"} :
         \/ /\ c = NoMacro /\ outcome[t] = "idle"
            /\ phase' = [phase EXCEPT ![t][m] = p]
         \/ /\ c # NoMacro /\ c = cur[t] /\ phase[t][c] = "progress"
            /\ phase' = [[phase EXCEPT ![t][c] = "step"] EXCEPT ![t][m] = p]
  BY DEF Push
<1>3. p \in Phase /\ "step" \in Phase /\ p \in Early \ {"none"}
  BY PhaseNames DEF Early
<1>4. \A u \in Task : cur'[u] = IF u = t THEN m ELSE cur[u]
  BY <1>a, <1>1
<1>5. \A u \in Task, k \in Macro :
         caller'[u][k] = IF u = t /\ k = m THEN c ELSE caller[u][k]
  BY <1>a, <1>1 DEF Callers
<1>6. CASE c = NoMacro
  <2>1. \A u \in Task, k \in Macro :
           phase'[u][k] = IF u = t /\ k = m THEN p ELSE phase[u][k]
    BY <1>a, <1>2, <1>3, <1>6, SetPhaseValue
  <2>2. \A k \in Macro : phase[t][k] = "none"
    BY <1>2, <1>6 DEF ChainOK, IdleEmpty
  <2>3. QED
    BY <1>1, <1>3, <1>4, <1>5, <1>6, <2>1, <2>2
<1>7. CASE c # NoMacro
  <2>1. c \in Macro /\ c # m /\ c = cur[t] /\ phase[t][c] = "progress"
    BY <1>1, <1>2, <1>7
  <2>2. \A u \in Task, k \in Macro :
           [[phase EXCEPT ![t][c] = "step"] EXCEPT ![t][m] = p][u][k] =
              IF u # t THEN phase[u][k]
              ELSE IF k = m THEN p ELSE IF k = c THEN "step" ELSE phase[u][k]
    BY <1>a, <1>3, <2>1 DEF Phases
  <2>3. phase' = [[phase EXCEPT ![t][c] = "step"] EXCEPT ![t][m] = p]
    BY <1>2, <1>7
  <2>4. \A u \in Task, k \in Macro :
           phase'[u][k] = IF u # t THEN phase[u][k]
              ELSE IF k = m THEN p ELSE IF k = c THEN "step" ELSE phase[u][k]
    BY <2>2, <2>3
  <2>5. QED
    BY <1>1, <1>3, <1>4, <1>5, <1>7, <2>1, <2>4
<1>8. QED
  BY <1>6, <1>7

\* A move keeps every failure with a run that will report it.
LEMMA MoveTallied ==
  ASSUME TypeOK, ChainOK, TallyInv, NEW t \in Task, MoveTally(t)
  PROVE  TallyInv'
<1> DEFINE m == cur[t]
<1>a. phase \in Phases /\ m \in Macro
  BY TypeFolded, CurType DEF MoveTally
<1>1. PICK p \in Phase \ {"none"} :
        /\ phase[t][m] # "cancelled"
        /\ phase' = [phase EXCEPT ![t][m] = p]
        /\ p \in Early => phase[t][m] \in Early
        /\ UNCHANGED <<cur, caller>>
        /\ \/ UNCHANGED <<failed, erred>>
           \/ /\ p \notin Early
              /\ failed' = failed \cup {<<t, m>>} /\ erred' = erred \cup Chain(t)
  BY DEF MoveTally
<1>2. \A u \in Task, k \in Macro :
         phase'[u][k] = IF u = t /\ k = m THEN p ELSE phase[u][k]
  BY <1>a, <1>1, SetPhaseValue
<1>3. phase[t][m] # "none" /\ p # "none"
  BY <1>1, <1>a, MacroAssumption DEF ChainOK, CurThere
<1>4. \A u \in Task, k \in Macro : phase'[u][k] # "none" <=> phase[u][k] # "none"
  BY <1>2, <1>3
<1>5. HasCallee'
  BY <1>1, <1>4 DEF TallyInv, HasCallee
<1>6. CASE UNCHANGED <<failed, erred>>
  <2>1. ErredWorks'
    BY <1>1, <1>2, <1>6 DEF TallyInv, ErredWorks
  <2>2. Tallied'
    <3> SUFFICES ASSUME NEW u \in Task, NEW k \in Macro, <<u, k>> \in erred
                 PROVE  \/ <<u, k>> \in failed
                        \/ phase'[u][k] = "cancelled"
                        \/ \E l \in Macro : /\ phase'[u][l] # "none" /\ caller[u][l] = k
                                            /\ <<u, l>> \in erred
      BY <1>1, <1>6 DEF Tallied
    <3>1. phase[u][k] = "cancelled" => phase'[u][k] = "cancelled"
      BY <1>1, <1>2
    <3>2. QED
      BY <1>4, <3>1 DEF TallyInv, Tallied
  <2>3. QED
    BY <1>5, <2>1, <2>2 DEF TallyInv
<1>7. CASE /\ p \notin Early
           /\ failed' = failed \cup {<<t, m>>} /\ erred' = erred \cup Chain(t)
  <2>1. \A u \in Task, k \in Macro :
           <<u, k>> \in erred' <=> <<u, k>> \in erred \/ (u = t /\ phase[t][k] # "none")
    BY <1>7 DEF Chain
  <2>2. \A k \in Macro : phase[t][k] # "none" /\ k # m => phase[t][k] = "step"
    <3> SUFFICES ASSUME NEW k \in Macro, phase[t][k] # "none", k # m
                 PROVE  phase[t][k] = "step"
      OBVIOUS
    <3>1. PICK l \in Macro : phase[t][l] # "none" /\ caller[t][l] = k
      BY DEF TallyInv, HasCallee
    <3>2. QED
      BY <3>1, MacroAssumption DEF ChainOK, CallerInStep
  <2>3. ErredWorks'
    <3> SUFFICES ASSUME NEW u \in Task, NEW k \in Macro, <<u, k>> \in erred'
                 PROVE  phase'[u][k] \notin Early
      BY DEF ErredWorks
    <3>1. CASE u = t /\ k = m
      BY <1>2, <1>7, <3>1
    <3>2. CASE u = t /\ k # m /\ phase[t][k] # "none"
      BY <1>2, <2>2, <3>2 DEF Early
    <3>3. CASE ~(u = t /\ k = m) /\ <<u, k>> \in erred
      BY <1>2, <3>3 DEF TallyInv, ErredWorks
    <3>4. QED
      BY <2>1, <3>1, <3>2, <3>3
  <2>4. Tallied'
    <3> SUFFICES ASSUME NEW u \in Task, NEW k \in Macro, <<u, k>> \in erred'
                 PROVE  \/ <<u, k>> \in failed'
                        \/ phase'[u][k] = "cancelled"
                        \/ \E l \in Macro : /\ phase'[u][l] # "none" /\ caller'[u][l] = k
                                            /\ <<u, l>> \in erred'
      BY DEF Tallied
    <3>1. CASE u = t /\ k = m
      BY <1>7, <3>1
    <3>2. CASE u = t /\ k # m /\ phase[t][k] # "none"
      <4>1. PICK l \in Macro : phase[t][l] # "none" /\ caller[t][l] = k
        BY <3>2 DEF TallyInv, HasCallee
      <4>2. QED
        BY <1>1, <1>4, <2>1, <3>2, <4>1
    <3>3. CASE ~(u = t /\ k = m) /\ <<u, k>> \in erred
      BY <1>1, <1>2, <1>4, <1>7, <2>1, <3>3 DEF TallyInv, Tallied
    <3>4. QED
      BY <2>1, <3>1, <3>2, <3>3
  <2>5. QED
    BY <1>5, <2>3, <2>4 DEF TallyInv
<1>8. QED
  BY <1>1, <1>6, <1>7

\* A new run has no failure beneath it, and makes its caller wait for it.
LEMMA PushTallied ==
  ASSUME TypeOK, ChainOK, TallyInv, NEW t \in Task, NEW m \in Macro,
         NEW c \in Macro \cup {NoMacro}, Push(t, m, c), UNCHANGED <<failed, erred>>
  PROVE  TallyInv'
<1>1. /\ \A u \in Task : cur'[u] = IF u = t THEN m ELSE cur[u]
      /\ \A u \in Task, k \in Macro :
            caller'[u][k] = IF u = t /\ k = m THEN c ELSE caller[u][k]
      /\ phase[t][m] = "none" /\ phase'[t][m] \in Early \ {"none"}
      /\ \A u \in Task, k \in Macro :
            \/ u = t /\ k = m
            \/ phase'[u][k] = phase[u][k]
            \/ u = t /\ k = c /\ phase[u][k] = "progress" /\ phase'[u][k] = "step"
      /\ c # NoMacro => c = cur[t]
      /\ c = NoMacro => \A k \in Macro : phase[t][k] = "none"
  BY PushValues
<1>2. <<t, m>> \notin erred
  BY <1>1 DEF TallyInv, ErredWorks, Early
<1>3. \A u \in Task, k \in Macro :
         ~(u = t /\ k = m) => (phase'[u][k] # "none" <=> phase[u][k] # "none")
  BY <1>1
<1>4. HasCallee'
  <2> SUFFICES ASSUME NEW u \in Task, NEW k \in Macro, phase'[u][k] # "none", k # cur'[u]
               PROVE  \E l \in Macro : phase'[u][l] # "none" /\ caller'[u][l] = k
    BY DEF HasCallee
  <2>1. ~(u = t /\ k = m) /\ phase[u][k] # "none"
    BY <1>1, <1>3
  <2>2. CASE u = t /\ k = c
    BY <1>1, <2>2
  <2>3. CASE ~(u = t /\ k = c)
    <3>1. k # cur[u]
      BY <1>1, <2>1, <2>3
    <3>2. PICK l \in Macro : phase[u][l] # "none" /\ caller[u][l] = k
      BY <2>1, <3>1 DEF TallyInv, HasCallee
    <3>3. QED
      BY <1>1, <1>3, <3>2
  <2>4. QED
    BY <2>2, <2>3
<1>5. ErredWorks'
  BY <1>1, <1>2 DEF TallyInv, ErredWorks, Early
<1>6. Tallied'
  <2> SUFFICES ASSUME NEW u \in Task, NEW k \in Macro, <<u, k>> \in erred
               PROVE  \/ <<u, k>> \in failed
                      \/ phase'[u][k] = "cancelled"
                      \/ \E l \in Macro : /\ phase'[u][l] # "none" /\ caller'[u][l] = k
                                          /\ <<u, l>> \in erred
    BY DEF Tallied
  <2>1. phase[u][k] = "cancelled" => phase'[u][k] = "cancelled"
    BY <1>1, <1>2
  <2>2. ASSUME NEW l \in Macro, phase[u][l] # "none", caller[u][l] = k, <<u, l>> \in erred
        PROVE  phase'[u][l] # "none" /\ caller'[u][l] = k
    BY <1>1, <1>2, <1>3, <2>2
  <2>3. QED
    BY <2>1, <2>2 DEF TallyInv, Tallied
<1>7. QED
  BY <1>4, <1>5, <1>6 DEF TallyInv

\* A run that returns hands its failure to its caller, or its cancellation.
LEMMA PopTallied ==
  ASSUME TypeOK, ChainOK, TallyInv, NEW t \in Task, PopTally(t)
  PROVE  TallyInv'
<1> DEFINE m == cur[t]
           c == caller[t][m]
<1>a. /\ phase \in Phases /\ caller \in Callers /\ NoMacro \notin Macro
      /\ cur \in [Task -> Macro \cup {NoMacro}] /\ m \in Macro
  BY TypeFolded, MacroAssumption, CurType DEF TypeOK, PopTally
<1>b. c \in Macro \cup {NoMacro} /\ phase[t][m] # "none"
  BY <1>a DEF Callers, ChainOK, CurThere
<1>c. c # NoMacro => c \in Macro /\ c # m /\ phase[t][c] = "step"
  BY <1>a, <1>b DEF ChainOK, CallerInStep, CurCallsNone
<1>1. \A u \in Task : cur'[u] = IF u = t THEN c ELSE cur[u]
  BY <1>a DEF PopTally
<1>2. \A u \in Task, k \in Macro :
         caller'[u][k] = IF u = t /\ k = m THEN NoMacro ELSE caller[u][k]
  BY <1>a DEF PopTally, Callers
<1>3. erred' = erred \ {<<t, m>>} /\ failed \ {<<t, m>>} \subseteq failed'
  BY DEF PopTally
<1>4. /\ \A u \in Task, k \in Macro :
            ~(u = t /\ k \in {m, c}) => phase'[u][k] = phase[u][k]
      /\ phase'[t][m] = "none"
      /\ c # NoMacro =>
            /\ phase'[t][c] \notin Early
            /\ \/ phase'[t][c] = "cancelled"
               \/ <<t, c>> \in failed'
               \/ phase[t][m] = "skipped"
               \/ phase[t][m] = "completed" /\ <<t, m>> \notin failed
  <2>1. CASE c = NoMacro
    <3>1. phase' = [phase EXCEPT ![t][m] = "none"]
      BY <2>1 DEF PopTally
    <3>2. \A u \in Task, k \in Macro :
             phase'[u][k] = IF u = t /\ k = m THEN "none" ELSE phase[u][k]
      BY <1>a, <3>1, SetPhaseValue, PhaseNames
    <3>3. QED
      BY <1>a, <2>1, <3>2
  <2>2. CASE c # NoMacro
    <3>1. PICK p \in Phase \ Early :
             /\ phase' = [[phase EXCEPT ![t][m] = "none"] EXCEPT ![t][c] = p]
             /\ \/ p = "cancelled"
                \/ <<t, c>> \in failed'
                \/ phase[t][m] = "skipped"
                \/ phase[t][m] = "completed" /\ <<t, m>> \notin failed
      BY <2>2 DEF PopTally
    <3>2. p \in Phase /\ "none" \in Phase /\ c \in Macro
      BY <1>c, <2>2, PhaseNames
    <3>3. \A u \in Task, k \in Macro :
             [[phase EXCEPT ![t][m] = "none"] EXCEPT ![t][c] = p][u][k] =
                IF u # t THEN phase[u][k]
                ELSE IF k = c THEN p ELSE IF k = m THEN "none" ELSE phase[u][k]
      BY <1>a, <3>2 DEF Phases
    <3>4. \A u \in Task, k \in Macro :
             phase'[u][k] = IF u # t THEN phase[u][k]
                ELSE IF k = c THEN p ELSE IF k = m THEN "none" ELSE phase[u][k]
      BY <3>1, <3>3
    <3>5. phase'[t][m] = "none" /\ phase'[t][c] = p
      BY <1>a, <1>c, <2>2, <3>2, <3>4
    <3>6. \A u \in Task, k \in Macro :
             ~(u = t /\ k \in {m, c}) => phase'[u][k] = phase[u][k]
      BY <3>4
    <3>7. QED
      BY <3>1, <3>5, <3>6
  <2>3. QED
    BY <2>1, <2>2
<1>5. \A u \in Task, k \in Macro :
         ~(u = t /\ k = m) => (phase'[u][k] # "none" <=> phase[u][k] # "none")
  BY <1>a, <1>c, <1>4 DEF Early
<1>6. HasCallee'
  <2> SUFFICES ASSUME NEW u \in Task, NEW k \in Macro, phase'[u][k] # "none", k # cur'[u]
               PROVE  \E l \in Macro : phase'[u][l] # "none" /\ caller'[u][l] = k
    BY DEF HasCallee
  <2>1. phase[u][k] # "none" /\ k # cur[u]
    BY <1>1, <1>4, <1>5
  <2>2. PICK l \in Macro : phase[u][l] # "none" /\ caller[u][l] = k
    BY <2>1 DEF TallyInv, HasCallee
  <2>3. ~(u = t /\ l = m)
    BY <1>1, <2>2
  <2>4. QED
    BY <1>2, <1>5, <2>2, <2>3
<1>7. ErredWorks'
  <2> SUFFICES ASSUME NEW u \in Task, NEW k \in Macro, <<u, k>> \in erred, ~(u = t /\ k = m)
               PROVE  phase'[u][k] \notin Early
    BY <1>3 DEF ErredWorks
  <2>1. CASE u = t /\ k = c
    BY <1>a, <1>4, <2>1
  <2>2. CASE ~(u = t /\ k = c)
    BY <1>4, <2>2 DEF TallyInv, ErredWorks
  <2>3. QED
    BY <2>1, <2>2
<1>8. Tallied'
  <2> SUFFICES ASSUME NEW u \in Task, NEW k \in Macro, <<u, k>> \in erred, ~(u = t /\ k = m)
               PROVE  \/ <<u, k>> \in failed'
                      \/ phase'[u][k] = "cancelled"
                      \/ \E l \in Macro : /\ phase'[u][l] # "none" /\ caller'[u][l] = k
                                          /\ <<u, l>> \in erred'
    BY <1>3 DEF Tallied
  <2>1. CASE <<u, k>> \in failed
    BY <1>3, <2>1
  <2>2. CASE phase[u][k] = "cancelled"
    BY <1>a, <1>c, <1>4, <2>2
  <2>3. ASSUME NEW l \in Macro, phase[u][l] # "none", caller[u][l] = k, <<u, l>> \in erred
        PROVE  \/ <<u, k>> \in failed' \/ phase'[u][k] = "cancelled"
               \/ \E n \in Macro : /\ phase'[u][n] # "none" /\ caller'[u][n] = k
                                   /\ <<u, n>> \in erred'
    <3>1. CASE ~(u = t /\ l = m)
      BY <1>2, <1>3, <1>5, <2>3, <3>1
    <3>2. CASE u = t /\ l = m
      <4>1. k = c /\ c # NoMacro
        BY <1>a, <2>3, <3>2
      <4>2. phase[t][m] \notin Early /\ (<<t, m>> \in failed \/ phase[t][m] = "cancelled")
        <5>1. \A n \in Macro : phase[t][n] # "none" => caller[t][n] # m
          BY <1>a DEF ChainOK, CurCallsNone
        <5>2. QED
          BY <1>a, <2>3, <3>2, <5>1, ZenonT(60) DEF TallyInv, ErredWorks, Tallied
      <4>3. QED
        BY <1>4, <3>2, <4>1, <4>2 DEF Early
    <3>3. QED
      BY <3>1, <3>2
  <2>4. QED
    BY <2>1, <2>2, <2>3 DEF TallyInv, Tallied
<1>9. QED
  BY <1>6, <1>7, <1>8 DEF TallyInv

\* No step loses sight of a failure.
LEMMA TalliedStep == TypeOK /\ ChainOK /\ TallyInv /\ [Next]_vars => TallyInv'
<1> SUFFICES ASSUME TypeOK, ChainOK, TallyInv, [Next]_vars PROVE TallyInv'
  OBVIOUS
<1>1. TallyStep
  BY TallyShape
<1>2. CASE UNCHANGED <<failed, erred>> /\ UNCHANGED chain
  BY <1>2 DEF chain, TallyInv, HasCallee, ErredWorks, Tallied
<1>3. \A t \in Task : cur[t] \in Macro \cup {NoMacro}
  BY DEF TypeOK
<1>4. QED
  BY <1>1, <1>2, <1>3, MoveTallied, PopTallied, PushTallied DEF TallyStep

\* Every reachable state has each failure with a run that will report it.
LEMMA TalliesHold == Spec => []TallyInv
<1>1. Init => TallyInv
  BY DEF Init, TallyInv, HasCallee, ErredWorks, Tallied
<1>2. SafeInv /\ TallyInv /\ [Next]_vars => TallyInv'
  BY TalliedStep DEF SafeInv
<1>3. QED
  BY <1>1, <1>2, Safe, PTL DEF Spec

-----------------------------------------------------------------------------
(* No wake-up is lost.  A run is subscribed from the check that found the    *)
(* condition false until its wait is over, and looks at it again before it   *)
(* waits.                                                                    *)

WaitsSubscribed ==
    \A t \in Task : At(t, "waitEmit") \/ At(t, "waiting") => t \in subs

WakeInv == WaitsSubscribed /\ NoLostWakeup

\* A step in which t stops waiting, or did not wait, and nobody else moves.
LeavesWait(t) ==
  /\ \A u \in Task : u # t => cur'[u] = cur[u] /\ phase'[u] = phase[u]
  /\ ~At(t, "waitEmit")' /\ ~At(t, "waiting")'
  /\ subs \ {t} \subseteq subs' /\ satisfied \ {t} \subseteq satisfied'
  /\ ready' = ready

\* A run that leaves its wait takes nothing from the others.
LEMMA LeavesWake ==
  ASSUME WakeInv, NEW t \in Task, LeavesWait(t)
  PROVE  WakeInv'
BY DEF WakeInv, WaitsSubscribed, NoLostWakeup, LeavesWait, At

\* The innermost run moves to an await that is not a wait.
LEMMA MovesOn ==
  ASSUME TypeOK, NEW t \in Task, cur[t] # NoMacro, NEW p \in Phase,
         phase' = [phase EXCEPT ![t][cur[t]] = p], p \notin {"waitEmit", "waiting"},
         UNCHANGED <<cur, ready>>,
         subs \ {t} \subseteq subs', satisfied \ {t} \subseteq satisfied'
  PROVE  LeavesWait(t)
<1>1. phase \in Phases /\ cur[t] \in Macro
  BY TypeFolded, CurType
<1>2. \A u \in Task : u # t => phase'[u] = phase[u]
  BY <1>1 DEF Phases
<1>3. phase'[t][cur[t]] = p
  BY <1>1 DEF Phases
<1>4. QED
  BY <1>2, <1>3 DEF LeavesWait, At

\* So does a run that goes on to its next step.
LEMMA AdvancesOn ==
  ASSUME TypeOK, NEW t \in Task, cur[t] # NoMacro, Advance(t, cur[t], phase, pc),
         UNCHANGED <<cur, ready>>,
         subs \ {t} \subseteq subs', satisfied \ {t} \subseteq satisfied'
  PROVE  LeavesWait(t)
<1>1. \E p \in {"progress", "completed"} : phase' = [phase EXCEPT ![t][cur[t]] = p]
  BY DEF Advance
<1>2. QED
  BY <1>1, MovesOn, PhaseNames

\* A run that returns gives way to a caller whose step is over.
LEMMA PopsOn ==
  ASSUME TypeOK, NEW t \in Task, Pop(t), UNCHANGED <<ready, subs, satisfied>>
  PROVE  LeavesWait(t)
<1> DEFINE m == cur[t]
           c == caller[t][m]
<1>a. /\ phase \in Phases /\ cur \in [Task -> Macro \cup {NoMacro}] /\ m \in Macro
      /\ NoMacro \notin Macro
  BY TypeFolded, MacroAssumption, CurType DEF TypeOK, Pop
<1>b. c \in Macro \cup {NoMacro}
  BY <1>a, TypeFolded DEF Callers
<1>1. /\ \A u \in Task : u # t => cur'[u] = cur[u]
      /\ cur'[t] = c
  BY <1>a DEF Pop
<1>2. \A u \in Task : u # t => phase'[u] = phase[u]
  BY <1>a DEF Pop, Phases
<1>3. c # NoMacro => phase'[t][c] \in {"progress", "raised", "completed", "cancelled"}
  <2> SUFFICES ASSUME c # NoMacro
               PROVE  phase'[t][c] \in {"progress", "raised", "completed", "cancelled"}
    OBVIOUS
  <2>1. PICK p \in {"progress", "raised", "completed", "cancelled"} :
           phase' = [[phase EXCEPT ![t][m] = "none"] EXCEPT ![t][c] = p]
    BY DEF Pop
  <2>2. QED
    BY <1>a, <1>b, <2>1 DEF Phases
<1>4. QED
  BY <1>1, <1>2, <1>3 DEF LeavesWait, At

\* A new run does not begin with a wait.
LEMMA PushesOn ==
  ASSUME TypeOK, ChainOK, NEW t \in Task, NEW m \in Macro,
         NEW c \in Macro \cup {NoMacro}, Push(t, m, c),
         UNCHANGED <<ready, subs, satisfied>>
  PROVE  LeavesWait(t)
<1>1. phase \in Phases /\ cur' = [cur EXCEPT ![t] = m] /\ cur \in [Task -> Macro \cup {NoMacro}]
  BY TypeFolded DEF TypeOK, Push
<1>2. \A u \in Task : u # t => phase'[u] = phase[u]
  BY <1>1 DEF Push, Phases
<1>3. phase'[t][m] \in Early
  BY PushValues
<1>4. QED
  BY <1>1, <1>2, <1>3 DEF LeavesWait, At, Early

\* Every step of a task keeps its wait, and everybody else's, awake.
LEMMA WakeRunTask ==
  ASSUME TypeOK, ChainOK, WakeInv, NEW t \in Task, RunTask(t) \/ WaitTimesOut(t)
  PROVE  WakeInv'
<1>a. phase \in Phases /\ (cur[t] # NoMacro => cur[t] \in Macro)
  BY TypeFolded, CurType
<1>1. CASE QueuePoll(t)
  <2>1. /\ cur[t] # NoMacro /\ phase[t][cur[t]] = "queue"
        /\ UNCHANGED <<cur, ready, subs, satisfied>>
    BY <1>1 DEF QueuePoll, Resumes, At
  <2>2. \E p \in {"queue", "skipped", "drain", "started"} :
           phase' = [phase EXCEPT ![t][cur[t]] = p]
    <3>1. CASE phase' = phase
      BY <1>a, <2>1, <3>1 DEF Phases
    <3>2. CASE Claim(t, cur[t], phase)
      BY <3>2 DEF Claim
    <3>3. QED
      BY <1>1, <3>1, <3>2 DEF QueuePoll
  <2>3. QED
    BY <2>1, <2>2, MovesOn, LeavesWake, PhaseNames
<1>2. CASE CallMacro(t)
  <2>1. cur[t] \in Macro /\ UNCHANGED <<ready, subs, satisfied>>
    BY <1>2, <1>a DEF CallMacro, Resumes, At
  <2>2. QED
    BY <1>2, <2>1, CallShape, PushesOn, LeavesWake
<1>3. CASE Drained(t) \/ DrainTimeout(t) \/ CancelInDrain(t)
  <2>1. /\ cur[t] # NoMacro /\ phase' = [phase EXCEPT ![t][cur[t]] = "started"]
        /\ UNCHANGED <<cur, ready, subs, satisfied>>
    BY <1>3 DEF Drained, DrainTimeout, CancelInDrain, LeaveDrain, Resumes, At
  <2>2. QED
    BY <2>1, MovesOn, LeavesWake, PhaseNames
<1>4. CASE \/ StartedReported(t) \/ SkipStep(t) \/ WorkDone(t) \/ StepErrorReported(t)
           \/ WaitFastPath(t) \/ WaitSatisfied(t)
  <2>1. /\ cur[t] # NoMacro /\ Advance(t, cur[t], phase, pc) /\ UNCHANGED <<cur, ready>>
        /\ subs \ {t} \subseteq subs' /\ satisfied \ {t} \subseteq satisfied'
    BY <1>4 DEF StartedReported, SkipStep, WorkDone, StepErrorReported, WaitFastPath,
       WaitSatisfied, Unsubscribe, Resumes, At, waits
  <2>2. QED
    BY <2>1, AdvancesOn, LeavesWake
<1>5. CASE CallRefused(t) \/ WorkFails(t)
  <2>1. /\ cur[t] # NoMacro
        /\ \E p \in {"raised", "reported"} : phase' = [phase EXCEPT ![t][cur[t]] = p]
        /\ UNCHANGED <<cur, ready, subs, satisfied>>
    BY <1>5 DEF CallRefused, WorkFails, StepFails, Resumes, At, waits
  <2>2. QED
    BY <2>1, MovesOn, LeavesWake, PhaseNames
<1>6. CASE WaitTimesOut(t)
  <2>1. /\ cur[t] # NoMacro /\ UNCHANGED <<cur, ready>>
        /\ subs \ {t} \subseteq subs' /\ satisfied \ {t} \subseteq satisfied'
    BY <1>6 DEF WaitTimesOut, Unsubscribe, Resumes, At
  <2>2. \/ Advance(t, cur[t], phase, pc)
        \/ phase' = [phase EXCEPT ![t][cur[t]] = "raised"]
    BY <1>6 DEF WaitTimesOut, StepFails
  <2>3. QED
    BY <2>1, <2>2, AdvancesOn, MovesOn, LeavesWake, PhaseNames
<1>7. CASE BeginWork(t) \/ StopOnStepError(t) \/ CancelInTry(t)
  <2>1. /\ cur[t] # NoMacro
        /\ \E p \in {"step", "error", "cancelled"} : phase' = [phase EXCEPT ![t][cur[t]] = p]
        /\ UNCHANGED <<cur, ready>>
        /\ subs \ {t} \subseteq subs' /\ satisfied \ {t} \subseteq satisfied'
    BY <1>7 DEF BeginWork, StopOnStepError, CancelInTry, Unsubscribe, Resumes, At, waits
  <2>2. QED
    BY <2>1, MovesOn, LeavesWake, PhaseNames
<1>8. CASE \/ SkippedReported(t) \/ CompletedReported(t) \/ ErrorReported(t)
           \/ CancelledReported(t) \/ CancelOutsideTry(t)
  <2>1. /\ cur[t] # NoMacro /\ UNCHANGED <<ready, subs, satisfied, project>>
        /\ \E how \in Outcome \ {"idle", "live"} :
              EndRun(t, how) /\ (phase[t][cur[t]] = "cancelled" => how = "cancelled")
    BY <1>8 DEF SkippedReported, CompletedReported, ErrorReported, CancelledReported,
       CancelOutsideTry, Resumes, At, Outcome, waits
  <2>2. QED
    BY <2>1, PopShape, PopsOn, LeavesWake
\* The two steps that begin a wait.
<1>9. ASSUME NEW p \in {"waitEmit", "waiting"}, cur[t] # NoMacro,
             phase' = [phase EXCEPT ![t][cur[t]] = p], UNCHANGED <<cur, ready>>,
             t \in subs', subs \subseteq subs', satisfied \ {t} \subseteq satisfied',
             p = "waiting" /\ ready => t \in satisfied'
      PROVE  WakeInv'
  <2>1. p \in Phase /\ \A u \in Task : u # t => phase'[u] = phase[u]
    BY <1>9, <1>a, PhaseNames DEF Phases
  <2>2. phase'[t][cur[t]] = p
    BY <1>9, <1>a DEF Phases
  <2>3. QED
    BY <1>9, <2>1, <2>2 DEF WakeInv, WaitsSubscribed, NoLostWakeup, At
<1>10. CASE WaitSubscribe(t)
  BY <1>10, <1>9 DEF WaitSubscribe, Resumes, At
<1>11. CASE WaitReported(t)
  <2>1. t \in subs
    BY <1>11 DEF WakeInv, WaitsSubscribed, WaitReported, Resumes
  <2>2. QED
    BY <1>11, <1>9, <2>1 DEF WaitReported, Resumes, At
<1>12. QED
  BY <1>1, <1>2, <1>3, <1>4, <1>5, <1>6, <1>7, <1>8, <1>10, <1>11 DEF RunTask

\* No step loses a wake-up: a write sets the event of every subscribed run.
LEMMA WakeStep == TypeOK /\ ChainOK /\ WakeInv /\ [Next]_vars => WakeInv'
<1> SUFFICES ASSUME TypeOK, ChainOK, WakeInv, [Next]_vars PROVE WakeInv'
  OBVIOUS
<1>1. ASSUME NEW t \in Task, NEW m \in Macro, Start(t, m)
      PROVE  WakeInv'
  <2>1. /\ phase[t][m] = "none" /\ m \in loaded /\ outcome[t] = "idle"
        /\ outcome' = [outcome EXCEPT ![t] = "live"] /\ Enter(t, m, NoMacro, phase)
        /\ UNCHANGED <<project, hit, gaveUp, stale, ready, subs, satisfied>>
    BY <1>1 DEF Start, RefuseStart
  <2>2. Push(t, m, NoMacro)
    BY <2>1, EnterShape, TypeFolded DEF Push, Kept
  <2>3. QED
    BY <2>1, <2>2, PushesOn, LeavesWake
<1>2. ASSUME NEW t \in Task, RunTask(t) \/ WaitTimesOut(t)
      PROVE  WakeInv'
  BY <1>2, WakeRunTask
<1>3. ASSUME NEW v \in BOOLEAN, SetReady(v)
      PROVE  WakeInv'
  BY <1>3 DEF SetReady, chain, WakeInv, WaitsSubscribed, NoLostWakeup, At
<1>4. ASSUME \/ \E t \in Task : OwnerCancel(t)
             \/ \E m \in Macro : Cancel(m) \/ CooldownElapses(m)
             \/ Reload \/ UNCHANGED vars
      PROVE  WakeInv'
  <2>1. UNCHANGED <<cur, phase, ready, subs, satisfied>>
    BY <1>4 DEF OwnerCancel, Cancel, CooldownElapses, Reload, ReloadBegins,
       ReloadCancelled, LoadMacros, vars, chain, waits
  <2>2. QED
    BY <2>1 DEF WakeInv, WaitsSubscribed, NoLostWakeup, At
<1>5. QED
  BY <1>1, <1>2, <1>3, <1>4 DEF Next

\* Every reachable state has its waits subscribed and awake.
LEMMA WakesHold == Spec => []WakeInv
<1>1. Init => WakeInv
  BY DEF Init, WakeInv, WaitsSubscribed, NoLostWakeup, At
<1>2. SafeInv /\ WakeInv /\ [Next]_vars => WakeInv'
  BY WakeStep DEF SafeInv
<1>3. QED
  BY <1>1, <1>2, Safe, PTL DEF Spec

-----------------------------------------------------------------------------
(* The theorems                                                            *)

\* Every run between its registration and its release is in _running, where
\* cancel(), cancel_all() and a cancel_group look for it: execute() registers
\* under the start lock and releases only on the way out of its try.
THEOREM RunsAreRegistered == Spec => []ActiveRegistered
<1>1. SafeInv => ActiveRegistered
  BY DEF SafeInv
<1>2. QED
  BY <1>1, Safe, PTL

\* overlap=skip admits one active instance of a macro, whichever doors and
\* callers start it: _throttle_reason and _claim_run are one step.
THEOREM SkipIsExclusive == Spec => []SkipExclusive
<1>1. SafeInv => SkipExclusive
  BY DEF SafeInv
<1>2. QED
  BY <1>1, Safe, PTL

\* overlap=queue overlaps instances only after one gave up waiting: the poll
\* loop's last test and the registration are one step.
THEOREM QueueIsExclusive == Spec => []QueueExclusive
<1>1. SafeInv => QueueExclusive
  BY DEF SafeInv
<1>2. QED
  BY <1>1, Safe, PTL

\* A cancel_group start asks every other active run of its group to stop, and
\* project reloads between the starts leave no run out but the queued ones.
THEOREM GroupIsPreempted == Spec => []GroupPreempts
<1>1. SafeInv => GroupPreempts
  BY DEF SafeInv
<1>2. QED
  BY <1>1, Safe, PTL

\* A CancelledError raised in a run ends its whole calling chain: each
\* caller's handler re-raises it, and no caller executes another step.
THEOREM CancellationStopsChain == Spec => []CancelStopsChain
<1>1. SafeInv => CancelStopsChain
  BY DEF SafeInv
<1>2. QED
  BY <1>1, Safe, PTL

\* A run that reports macro.completed had no failing step beneath it, at any
\* depth and under either stop_on_error: _failures tallies what raised and what
\* was only reported, and a callee's result is tallied by its caller.
THEOREM OutcomesAreTruthful == Spec => []OutcomeTruthful
<1>1. SafeInv /\ TallyInv => OutcomeTruthful
  <2> SUFFICES ASSUME SafeInv, TallyInv, NEW r \in erred, phase[r[1]][r[2]] = "completed"
               PROVE  r \in failed
    BY DEF OutcomeTruthful
  <2>1. PICK t \in Task, m \in Macro : r = <<t, m>>
    BY DEF SafeInv, TypeOK
  <2>2. \A k \in Macro : phase[t][k] # "none" => caller[t][k] # m
    BY <2>1, MacroAssumption DEF SafeInv, ChainOK, CallerInStep
  <2>3. QED
    BY <2>1, <2>2 DEF TallyInv, Tallied
<1>2. QED
  BY <1>1, Safe, TalliesHold, PTL

\* A wait_until does not sleep through the change it waits for: it subscribes
\* before it emits, and looks at the condition once more after the emit.
THEOREM WakeupsAreKept == Spec => []NoLostWakeup
<1>1. WakeInv => NoLostWakeup
  BY DEF WakeInv
<1>2. QED
  BY <1>1, WakesHold, PTL
=============================================================================
