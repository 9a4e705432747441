------------------------- MODULE TriggerEngine_proofs -------------------------
(***************************************************************************)
(* Proofs about TriggerEngine, for every set of triggers and fires: types, *)
(* that overlap=skip and overlap=allow hold to their limits, that a count  *)
(* comes back to zero, and that stop() leaves nothing behind.              *)
(*                                                                         *)
(* What a step does to the count of a trigger is one of five shapes: the   *)
(* shapes keep what is counted equal to what is active, and every action   *)
(* has one of them at every trigger.                                       *)
(***************************************************************************)
EXTENDS TriggerEngine, FiniteSetTheorems, TLAPS

Active(t) == Fires(t, Counted)

\* Before execute(): what stop() has to cancel.
Early == {"debounce", "delay", "ready", "queued", "fired"}

\* A fire is of a trigger, and queues only if its trigger does.
Owned ==
    \A f \in Fire : /\ phase[f] # "idle" => of[f] \in Trigger
                    /\ phase[f] = "queued" => Overlap[of[f]] = "queue"

\* The count is the number of active fires, but for the two exceptions.
Tallied ==
    \A t \in Trigger :
        /\ t \notin miscounted => Cardinality(Active(t)) <= depth[t]
        /\ t \notin leaked => depth[t] <= Cardinality(Active(t))

\* stop() can find every fire that is early and not cancelled yet.
Findable(f) ==
    /\ stage \in {"up", "stopping"}
    /\ f \notin old /\ of[f] \in loaded
    /\ task[f] # "none"
    /\ task[f] = "debounce" => debounceTask[of[f]] = f
    /\ task[f] = "delay" => delayTask[of[f]] = f

Anchored ==
    /\ running <=> stage = "up"
    /\ \A f \in Fire : phase[f] \in Early => f \in mustCancel \/ Findable(f)

Inv == TypeOK /\ Owned /\ Tallied /\ OneFireAtATime /\ AllowIsCapped /\ Anchored

-----------------------------------------------------------------------------
(* The shapes *)

\* t is not concerned.
Kept(t) ==
    /\ Active(t)' = Active(t) /\ depth'[t] = depth[t]
    /\ t \in leaked' <=> t \in leaked
    /\ t \in miscounted' <=> t \in miscounted

\* f is counted; the re-entrancy guard has let it pass.
Added(t, f) ==
    /\ f \notin Active(t) /\ Active(t)' = Active(t) \cup {f}
    /\ depth'[t] = depth[t] + 1
    /\ t \in leaked' <=> t \in leaked
    /\ t \in miscounted' <=> t \in miscounted
    /\ Overlap[t] = "skip" => depth[t] = 0
    /\ Overlap[t] = "allow" => depth[t] < MaxAllow

\* f is no longer active, and uncounted ...
Removed(t, f) ==
    /\ f \in Active(t) /\ Active(t)' = Active(t) \ {f}
    /\ depth'[t] = IF depth[t] > 1 THEN depth[t] - 1 ELSE 0
    /\ t \in leaked' <=> t \in leaked
    /\ t \in miscounted' <=> t \in miscounted /\ ~(Active(t) \subseteq {f})

\* ... or not.
Lost(t, f) ==
    /\ f \in Active(t) /\ Active(t)' = Active(t) \ {f}
    /\ depth'[t] = depth[t]
    /\ t \in leaked'
    /\ t \in miscounted' <=> t \in miscounted /\ ~(Active(t) \subseteq {f})

\* The count is cleared.
Forgotten(t) ==
    /\ Active(t)' = Active(t) /\ depth'[t] = 0
    /\ t \notin leaked'
    /\ t \in miscounted' <=> t \in miscounted \/ Active(t) # {}

Shaped(t) ==
    \/ Kept(t) \/ Forgotten(t)
    \/ \E f \in Fire : Added(t, f) \/ Removed(t, f) \/ Lost(t, f)

\* What the count of one trigger is worth.
Sound(t) ==
    /\ t \notin miscounted => Cardinality(Active(t)) <= depth[t]
    /\ t \notin leaked => depth[t] <= Cardinality(Active(t))
    /\ t \notin miscounted /\ Overlap[t] = "skip" => \A f, g \in Active(t) : f = g
    /\ t \notin miscounted /\ Overlap[t] = "allow" => Cardinality(Active(t)) <= MaxAllow

LEMMA ActiveFinite ==
    ASSUME NEW t
    PROVE  IsFiniteSet(Active(t)) /\ Cardinality(Active(t)) \in Nat
<1>1. IsFiniteSet(Fire) /\ Active(t) \subseteq Fire
  BY TriggerAssumption DEF Active, Fires
<1> QED
  BY <1>1, FS_Subset, FS_CardinalityType

\* The shapes keep a count sound.
LEMMA ShapeSound ==
    ASSUME NEW t \in Trigger, TypeOK, Sound(t), Shaped(t), depth' \in [Trigger -> Nat]
    PROVE  Sound(t)'
<1> DEFINE A == Active(t)
           c == Cardinality(A)
<1>1. IsFiniteSet(A) /\ c \in Nat
  BY ActiveFinite
<1>2. depth[t] \in Nat /\ depth'[t] \in Nat /\ MaxAllow \in Nat \ {0}
  BY TriggerAssumption DEF TypeOK
<1>3. CASE Kept(t)
  BY <1>3 DEF Kept, Sound
<1>4. CASE Forgotten(t)
  <2>1. A = {} => c = 0
    BY FS_EmptySet
  <2> QED
    BY <1>1, <1>2, <1>4, <2>1 DEF Forgotten, Sound
<1>5. ASSUME NEW f \in Fire, Added(t, f)
      PROVE  Sound(t)'
  <2>1. Active(t)' = A \cup {f} /\ Cardinality(Active(t)') = c + 1
    BY <1>1, <1>5, FS_AddElement DEF Added
  <2>2. c = 0 => A = {}
    BY <1>1, FS_EmptySet
  <2> HIDE DEF A, c
  <2>3. t \notin miscounted => c <= depth[t]
    BY DEF Sound, A, c
  <2>4. t \notin leaked => depth[t] <= c
    BY DEF Sound, A, c
  <2>5. t \notin miscounted /\ Overlap[t] = "skip" => A = {}
    BY <1>1, <1>2, <1>5, <2>2, <2>3 DEF Added
  <2>6. t \notin miscounted /\ Overlap[t] = "allow" => c + 1 <= MaxAllow
    BY <1>1, <1>2, <1>5, <2>3 DEF Added
  <2>7. depth'[t] = depth[t] + 1 /\ (t \in leaked' <=> t \in leaked)
        /\ (t \in miscounted' <=> t \in miscounted)
    BY <1>5 DEF Added
  <2> QED
    BY <1>1, <1>2, <2>1, <2>3, <2>4, <2>5, <2>6, <2>7 DEF Sound
<1>6. ASSUME NEW f \in Fire, Removed(t, f) \/ Lost(t, f)
      PROVE  Sound(t)'
  <2>1. /\ f \in A /\ Active(t)' = A \ {f}
        /\ t \in miscounted' <=> t \in miscounted /\ ~(A \subseteq {f})
    BY <1>6 DEF Removed, Lost
  <2>2. Cardinality(Active(t)') = c - 1 /\ c - 1 \in Nat
    <3>1. Cardinality(A \ {f}) = c - 1
      BY <1>1, <2>1, FS_RemoveElement
    <3>2. Cardinality(A \ {f}) \in Nat
      BY <1>1, FS_RemoveElement, FS_CardinalityType
    <3> QED
      BY <2>1, <3>1, <3>2
  <2>3. A \subseteq {f} => c - 1 = 0
    <3>1. A \subseteq {f} => Active(t)' = {}
      BY <2>1
    <3> QED
      BY <2>2, <3>1, FS_EmptySet
  <2>4. /\ t \notin miscounted => c <= depth[t]
        /\ t \notin leaked => depth[t] <= c
        /\ t \notin miscounted /\ Overlap[t] = "skip" => \A g, h \in A : g = h
        /\ t \notin miscounted /\ Overlap[t] = "allow" => c <= MaxAllow
    BY DEF Sound
  <2> HIDE DEF A, c
  <2>5. t \notin miscounted' => c - 1 <= depth'[t]
    BY <1>1, <1>2, <1>6, <2>1, <2>3, <2>4 DEF Removed, Lost
  <2>6. t \notin leaked' => depth'[t] <= c - 1
    BY <1>1, <1>2, <1>6, <2>2, <2>4 DEF Removed, Lost
  <2>7. t \notin miscounted' /\ Overlap[t] = "skip" => \A g, h \in Active(t)' : g = h
    BY <2>1, <2>4
  <2>8. t \notin miscounted' /\ Overlap[t] = "allow" => c - 1 <= MaxAllow
    BY <1>1, <1>2, <2>1, <2>3, <2>4
  <2> QED
    BY <2>2, <2>5, <2>6, <2>7, <2>8 DEF Sound
<1> QED
  BY <1>3, <1>4, <1>5, <1>6 DEF Shaped

-----------------------------------------------------------------------------
(* Types *)

\* The actions of a fire, split at the cancellations.
LEMMA FireTyped ==
    ASSUME TypeOK, Owned, NEW f \in Fire,
           \/ DebounceEnds(f) \/ DelayEnds(f) \/ ReadyRuns(f) \/ QueuePoll(f)
           \/ EnterMacro(f) \/ MacroStarts(f) \/ MacroEnds(f) \/ MacroReturns(f)
           \/ LastEmitEnds(f)
    PROVE  TypeOK' /\ Owned'
<1> USE DEF TypeOK, Owned, Phase, Resumes, vars, fires, slots, counts, rebuild
<1> USE TriggerAssumption
<1>1. CASE DebounceEnds(f)
  BY <1>1 DEF DebounceEnds, ScheduleFire, Ends, Left, Pending
<1>2. ASSUME ExecuteTrigger(f), phase[f] # "idle",
             UNCHANGED <<mustCancel, leaked, miscounted, rebuild, others>>
      PROVE  TypeOK' /\ Owned'
  BY <1>2 DEF ExecuteTrigger, Moves, Left, FireMacro
<1>3. CASE DelayEnds(f)
  <2>1. CASE running
    BY <1>2, <1>3, <2>1 DEF DelayEnds
  <2>2. CASE ~running
    BY <1>3, <2>2 DEF DelayEnds, Ends, Left
  <2> QED
    BY <2>1, <2>2
<1>4. CASE ReadyRuns(f)
  BY <1>2, <1>4 DEF ReadyRuns
<1>5. CASE QueuePoll(f)
  BY <1>5 DEF QueuePoll, PollsSlept, Ends, Left, FireMacro, Moves
<1>6. CASE EnterMacro(f) \/ MacroStarts(f)
  BY <1>6 DEF EnterMacro, MacroStarts, Moves
<1>7. CASE MacroEnds(f) \/ MacroReturns(f)
  BY <1>7 DEF MacroEnds, MacroReturns, Moves, Uncounted, Miscounted
<1>8. CASE LastEmitEnds(f)
  BY <1>8 DEF LastEmitEnds, Ends, Left
<1> QED
  BY <1>1, <1>3, <1>4, <1>5, <1>6, <1>7, <1>8

LEMMA CancelTyped ==
    ASSUME TypeOK, Owned, NEW f \in Fire,
           CancelPending(f) \/ CancelFired(f) \/ CancelMacro(f) \/ CancelAround(f)
    PROVE  TypeOK' /\ Owned'
<1> USE DEF TypeOK, Owned, Phase, vars, fires, slots, counts, rebuild, Ends, Left
<1>1. CASE CancelPending(f)
  BY <1>1 DEF CancelPending
<1>2. CASE CancelFired(f)
  BY <1>2 DEF CancelFired, Miscounted
<1>3. CASE CancelMacro(f)
  BY <1>3 DEF CancelMacro, Moves
<1>4. CASE CancelAround(f)
  BY <1>4 DEF CancelAround, Uncounted, Miscounted
<1> QED
  BY <1>1, <1>2, <1>3, <1>4

\* The fires a rebuild starts.
LEMMA StartTyped ==
    ASSUME TypeOK, Owned, StartTriggers
    PROVE  /\ TypeOK' /\ Owned'
           /\ \A f \in Fire :
                 \/ phase'[f] = phase[f] /\ of'[f] = of[f]
                 \/ /\ phase[f] = "idle" /\ phase'[f] = "delay" /\ task'[f] = "startup"
                    /\ of'[f] \in loaded'
<1> DEFINE free == {f \in Fire : phase[f] = "idle"}
<1>1. PICK S \in {{}, loaded' \cap Startup} : \E s \in [S -> free] :
         LET new == {s[t] : t \in S}
             trigger(f) == CHOOSE t \in S : s[t] = f
         IN  /\ \A t, u \in S : s[t] = s[u] => t = u
             /\ phase' = [f \in Fire |-> IF f \in new THEN "delay" ELSE phase[f]]
             /\ task' = [f \in Fire |-> IF f \in new THEN "startup" ELSE task[f]]
             /\ of' = [f \in Fire |-> IF f \in new THEN trigger(f) ELSE of[f]]
  BY DEF StartTriggers
<1>2. PICK s \in [S -> free] :
         LET new == {s[t] : t \in S}
             trigger(f) == CHOOSE t \in S : s[t] = f
         IN  /\ phase' = [f \in Fire |-> IF f \in new THEN "delay" ELSE phase[f]]
             /\ task' = [f \in Fire |-> IF f \in new THEN "startup" ELSE task[f]]
             /\ of' = [f \in Fire |-> IF f \in new THEN trigger(f) ELSE of[f]]
  BY <1>1
<1>3. loaded' \subseteq Trigger /\ S \subseteq loaded'
  BY TriggerAssumption DEF StartTriggers
<1> DEFINE new == {s[t] : t \in S}
           trigger(f) == CHOOSE t \in S : s[t] = f
<1>4. \A f \in new : f \in free /\ trigger(f) \in S
  OBVIOUS
<1>5. /\ phase' = [f \in Fire |-> IF f \in new THEN "delay" ELSE phase[f]]
      /\ task' = [f \in Fire |-> IF f \in new THEN "startup" ELSE task[f]]
      /\ of' = [f \in Fire |-> IF f \in new THEN trigger(f) ELSE of[f]]
  BY <1>2
<1> HIDE DEF new, trigger
<1>6. /\ UNCHANGED <<polls, mustCancel, counts, drain, others>>
      /\ debounceTask' = [t \in Trigger |-> NoFire]
      /\ delayTask' = [t \in Trigger |-> NoFire]
      /\ old' = Fire \ free /\ running' = TRUE /\ stage' = "up"
  BY DEF StartTriggers
<1>7. TypeOK'
  BY <1>3, <1>4, <1>5, <1>6 DEF TypeOK, Phase, counts
<1>8. \A f \in Fire :
         \/ phase'[f] = phase[f] /\ of'[f] = of[f]
         \/ /\ phase[f] = "idle" /\ phase'[f] = "delay" /\ task'[f] = "startup"
            /\ of'[f] \in loaded'
  BY <1>3, <1>4, <1>5
<1>9. Owned'
  BY <1>3, <1>8, TriggerAssumption DEF Owned
<1> QED
  BY <1>7, <1>8, <1>9

LEMMA TypedStep ==
    ASSUME TypeOK, Owned, [Next]_vars
    PROVE  TypeOK' /\ Owned'
<1> USE DEF vars, fires, slots, counts, rebuild
<1>1. ASSUME NEW f \in Fire, NEW t \in Trigger, Occur(f, t)
      PROVE  TypeOK' /\ Owned'
  BY <1>1 DEF Occur, ScheduleFire, TypeOK, Owned, Phase, Left, Pending
<1>2. ASSUME NEW f \in Fire, RunFire(f) \/ MacroEnds(f)
      PROVE  TypeOK' /\ Owned'
  BY <1>2, FireTyped, CancelTyped DEF RunFire
<1>3. CASE StopBegins \/ StopCancels \/ StopEnds
  <2>1. Reached \subseteq Fire
    BY DEF Reached, InSlots, InQueues, Pending, TypeOK
  <2>2. CASE StopBegins
    BY <2>2 DEF StopBegins, TypeOK, Owned
  <2>3. CASE StopCancels
    BY <2>1, <2>3 DEF StopCancels, TypeOK, Owned
  <2>4. CASE StopEnds
    BY <2>4 DEF StopEnds, TypeOK, Owned
  <2> QED
    BY <1>3, <2>2, <2>3, <2>4
<1>4. ASSUME NEW f \in Fire, MacroCancelled(f)
      PROVE  TypeOK' /\ Owned'
  BY <1>4 DEF MacroCancelled, TypeOK, Owned
<1>5. ASSUME NEW m \in Macro, OtherRun(m)
      PROVE  TypeOK' /\ Owned'
  BY <1>5 DEF OtherRun, TypeOK, Owned
<1>6. ASSUME NEW t \in Trigger, CooldownElapses(t)
      PROVE  TypeOK' /\ Owned'
  BY <1>6 DEF CooldownElapses, TypeOK, Owned
<1>7. CASE UNCHANGED vars
  BY <1>7 DEF TypeOK, Owned
<1> QED
  BY <1>1, <1>2, <1>3, <1>4, <1>5, <1>6, <1>7, StartTyped DEF Next, Rebuild


-----------------------------------------------------------------------------
(* Every action has a shape at every trigger *)

\* What one fire's move does to what is active.
LEMMA MoveActive ==
    ASSUME TypeOK, NEW f \in Fire, NEW p, NEW u,
           phase' = [phase EXCEPT ![f] = p], of' = [of EXCEPT ![f] = u], NEW t
    PROVE  Active(t)' = IF p \in Counted /\ u = t THEN Active(t) \cup {f}
                                                   ELSE Active(t) \ {f}
BY DEF Active, Fires, Counted, TypeOK

\* A move that is no fire and no end of one leaves every count alone.
LEMMA MoveKept ==
    ASSUME TypeOK, NEW f \in Fire, NEW p, NEW u,
           phase' = [phase EXCEPT ![f] = p], of' = [of EXCEPT ![f] = u],
           p \in Counted <=> phase[f] \in Counted,
           p \in Counted => u = of[f],
           UNCHANGED <<depth, leaked, miscounted>>, NEW t
    PROVE  Kept(t)
<1>1. f \in Active(t) <=> p \in Counted /\ u = t
  BY DEF Active, Fires
<1>2. Active(t)' = IF p \in Counted /\ u = t THEN Active(t) \cup {f}
                                              ELSE Active(t) \ {f}
  BY MoveActive
<1> QED
  BY <1>1, <1>2 DEF Kept

\* _fire_macro, the guard having passed or the trigger being one that queues.
LEMMA FireShaped ==
    ASSUME TypeOK, Owned, NEW f \in Fire, FireMacro(f),
           phase[f] \notin Counted \cup {"idle"},
           Overlap[of[f]] = "queue" \/ ~Blocked(of[f]),
           UNCHANGED <<leaked, miscounted>>, NEW t \in Trigger
    PROVE  Shaped(t)
<1>1. of[f] \in Trigger /\ of' = [of EXCEPT ![f] = of[f]]
  BY DEF Owned, TypeOK, FireMacro, Moves
<1>2. phase' = [phase EXCEPT ![f] = "fired"]
      /\ depth' = [depth EXCEPT ![of[f]] = @ + 1]
  BY DEF FireMacro, Moves
<1>3. Active(t)' = IF of[f] = t THEN Active(t) \cup {f} ELSE Active(t) \ {f}
  BY <1>1, <1>2, MoveActive, ZenonT(60) DEF Counted
<1>4. f \notin Active(t)
  BY DEF Active, Fires
<1>5. CASE of[f] = t
  <2>1. depth[t] \in Nat /\ depth'[t] = depth[t] + 1 /\ MaxAllow \in Nat
    BY <1>2, <1>5, TriggerAssumption DEF TypeOK
  <2>2. /\ Overlap[t] = "skip" => depth[t] = 0
        /\ Overlap[t] = "allow" => depth[t] < MaxAllow
    BY <1>5, <2>1 DEF Blocked
  <2> QED
    BY <1>3, <1>4, <1>5, <2>1, <2>2 DEF Shaped, Added
<1>6. CASE of[f] # t
  BY <1>2, <1>3, <1>4, <1>6 DEF Shaped, Kept, TypeOK
<1> QED
  BY <1>5, <1>6

\* _execute_trigger.
LEMMA ExecuteShaped ==
    ASSUME TypeOK, Owned, NEW f \in Fire, ExecuteTrigger(f),
           phase[f] \notin Counted \cup {"idle"},
           UNCHANGED <<leaked, miscounted>>, NEW t \in Trigger
    PROVE  Shaped(t)
<1>1. CASE FireMacro(f) /\ ~Blocked(of[f])
  BY <1>1, FireShaped
<1>2. ASSUME NEW p \in {"last", "queued"}, phase' = [phase EXCEPT ![f] = p],
             UNCHANGED <<of, depth>>
      PROVE  Shaped(t)
  <2>1. of' = [of EXCEPT ![f] = of[f]]
    BY <1>2 DEF TypeOK
  <2> QED
    BY <1>2, <2>1, MoveKept DEF Counted, Shaped
<1> QED
  BY <1>1, <1>2 DEF ExecuteTrigger, Moves

\* The end of an active fire, uncounted or not.
LEMMA EndShaped ==
    ASSUME TypeOK, Owned, NEW f \in Fire, phase[f] \in Counted,
           NEW p, p \notin Counted, NEW u,
           phase' = [phase EXCEPT ![f] = p], of' = [of EXCEPT ![f] = u],
           \/ depth' = Uncounted(of[f]) /\ leaked' = leaked
           \/ depth' = depth /\ leaked' = leaked \cup {of[f]},
           miscounted' = Miscounted(f), NEW t \in Trigger
    PROVE  Shaped(t)
<1>1. of[f] \in Trigger
  BY DEF Owned, Counted
<1>2. Active(t)' = Active(t) \ {f}
  BY MoveActive
<1>3. f \in Active(t) <=> of[f] = t
  BY DEF Active, Fires
<1>4. t \in miscounted' <=> t \in miscounted /\ ~(of[f] = t /\ Active(t) \subseteq {f})
  BY DEF Miscounted, Active
<1>5. CASE of[f] = t
  <2>1. \/ depth'[t] = (IF depth[t] > 1 THEN depth[t] - 1 ELSE 0) /\ leaked' = leaked
        \/ depth'[t] = depth[t] /\ t \in leaked'
    BY <1>5 DEF Uncounted, TypeOK
  <2> QED
    BY <1>2, <1>3, <1>4, <1>5, <2>1 DEF Shaped, Removed, Lost
<1>6. CASE of[f] # t
  <2>1. depth'[t] = depth[t] /\ (t \in leaked' <=> t \in leaked)
    BY <1>1, <1>6 DEF Uncounted, TypeOK
  <2> QED
    BY <1>2, <1>3, <1>4, <1>6, <2>1 DEF Shaped, Kept
<1> QED
  BY <1>5, <1>6

LEMMA ShapeStep ==
    ASSUME TypeOK, Owned, [Next]_vars, NEW t \in Trigger
    PROVE  Shaped(t)
<1> USE DEF fires, slots, counts, rebuild
<1>1. ASSUME UNCHANGED <<phase, of, depth, leaked, miscounted>>
      PROVE  Shaped(t)
  BY <1>1 DEF Shaped, Kept, Active, Fires
<1>2. ASSUME NEW f \in Fire, NEW p, NEW u, phase[f] \notin Counted, p \notin Counted,
             phase' = [phase EXCEPT ![f] = p], of' = [of EXCEPT ![f] = u],
             UNCHANGED <<depth, leaked, miscounted>>
      PROVE  Shaped(t)
  BY <1>2, MoveKept DEF Shaped
<1>3. ASSUME NEW f \in Fire, Ends(f)
      PROVE  phase' = [phase EXCEPT ![f] = "idle"] /\ of' = [of EXCEPT ![f] = NoTrigger]
  BY <1>3 DEF Ends
<1>4. ASSUME NEW f \in Fire, NEW p, Moves(f, p)
      PROVE  phase' = [phase EXCEPT ![f] = p] /\ of' = [of EXCEPT ![f] = of[f]]
  BY <1>4 DEF Moves, TypeOK
<1>5. ASSUME NEW f \in Fire, NEW u \in Trigger, Occur(f, u)
      PROVE  Shaped(t)
  <2>1. PICK p \in {"debounce", "delay", "ready"} :
           phase' = [phase EXCEPT ![f] = p] /\ of' = [of EXCEPT ![f] = u]
    BY <1>5 DEF Occur, ScheduleFire
  <2> QED
    BY <1>2, <1>5, <2>1 DEF Occur, Counted
<1>6. ASSUME NEW f \in Fire, DebounceEnds(f)
      PROVE  Shaped(t)
  <2>1. PICK p \in {"idle", "delay", "ready"}, u \in Trigger \cup {NoTrigger} :
           phase' = [phase EXCEPT ![f] = p] /\ of' = [of EXCEPT ![f] = u]
    BY <1>3, <1>6 DEF DebounceEnds, ScheduleFire, TypeOK
  <2> QED
    BY <1>2, <1>6, <2>1 DEF DebounceEnds, Resumes, Counted
<1>7. ASSUME NEW f \in Fire, DelayEnds(f) \/ ReadyRuns(f)
      PROVE  Shaped(t)
  <2>1. phase[f] \in {"delay", "ready"} /\ UNCHANGED <<leaked, miscounted>>
    BY <1>7 DEF DelayEnds, ReadyRuns, Resumes
  <2>2. CASE ExecuteTrigger(f)
    BY <2>1, <2>2, ExecuteShaped DEF Counted
  <2>3. CASE Ends(f) /\ UNCHANGED <<depth, cooling>>
    BY <1>2, <1>3, <2>1, <2>3 DEF Counted
  <2> QED
    BY <1>7, <2>2, <2>3 DEF DelayEnds, ReadyRuns
<1>8. ASSUME NEW f \in Fire, QueuePoll(f)
      PROVE  Shaped(t)
  <2>1. phase[f] = "queued" /\ UNCHANGED <<leaked, miscounted>>
    BY <1>8 DEF QueuePoll, Resumes
  <2>2. CASE Ends(f) /\ UNCHANGED <<depth, cooling>>
    BY <1>2, <1>3, <2>1, <2>2 DEF Counted
  <2>3. CASE FireMacro(f)
    BY <2>1, <2>3, FireShaped DEF Owned, Counted
  <2>4. CASE UNCHANGED <<phase, of, task, slots, depth, cooling>>
    BY <1>1, <2>1, <2>4
  <2> QED
    BY <1>8, <2>2, <2>3, <2>4 DEF QueuePoll
<1>9. ASSUME NEW f \in Fire, EnterMacro(f) \/ MacroStarts(f) \/ MacroEnds(f) \/ CancelMacro(f)
      PROVE  Shaped(t)
  <2>1. PICK p \in {"entering", "macro", "completed", "ending"} : Moves(f, p)
    BY <1>9 DEF EnterMacro, MacroStarts, MacroEnds, CancelMacro
  <2>2. phase[f] \in Counted /\ p \in Counted /\ UNCHANGED <<depth, leaked, miscounted>>
    BY <1>9 DEF EnterMacro, MacroStarts, MacroEnds, CancelMacro, Resumes, Counted
  <2> QED
    BY <1>4, <2>1, <2>2, MoveKept DEF Shaped
<1>10. ASSUME NEW f \in Fire, MacroReturns(f)
       PROVE  Shaped(t)
  BY <1>4, <1>10, EndShaped DEF MacroReturns, Resumes, Counted
<1>11. ASSUME NEW f \in Fire, LastEmitEnds(f) \/ CancelPending(f)
       PROVE  Shaped(t)
  <2>1. phase[f] \notin Counted /\ Ends(f) /\ UNCHANGED <<depth, leaked, miscounted>>
    BY <1>11 DEF LastEmitEnds, CancelPending, Resumes, Counted
  <2> QED
    BY <1>2, <1>3, <2>1 DEF Counted
<1>12. ASSUME NEW f \in Fire, CancelFired(f) \/ CancelAround(f)
       PROVE  Shaped(t)
  <2>1. phase[f] \in Counted /\ Ends(f) /\ miscounted' = Miscounted(f)
    BY <1>12 DEF CancelFired, CancelAround, Counted
  <2>2. \/ depth' = Uncounted(of[f]) /\ leaked' = leaked
        \/ depth' = depth /\ leaked' = leaked \cup {of[f]}
    BY <1>12 DEF CancelFired, CancelAround
  <2> QED
    BY <1>3, <2>1, <2>2, EndShaped DEF Counted
<1>13. CASE StopEnds
  BY <1>13 DEF StopEnds, Shaped, Forgotten, Active, Fires
<1>14. CASE StartTriggers
  <2>1. \A f \in Fire : \/ phase'[f] = phase[f] /\ of'[f] = of[f]
                        \/ phase[f] = "idle" /\ phase'[f] = "delay"
    BY <1>14, StartTyped
  <2>2. Active(t)' = Active(t)
    BY <2>1 DEF Active, Fires, Counted
  <2> QED
    BY <1>14, <2>2 DEF StartTriggers, Shaped, Kept
<1>15. CASE StopBegins \/ StopCancels
  BY <1>1, <1>15 DEF StopBegins, StopCancels
<1>16. ASSUME \/ \E f \in Fire : MacroCancelled(f)
              \/ \E m \in Macro : OtherRun(m)
              \/ \E u \in Trigger : CooldownElapses(u)
              \/ UNCHANGED vars
       PROVE  Shaped(t)
  BY <1>1, <1>16 DEF MacroCancelled, OtherRun, CooldownElapses, vars
<1> QED
  BY <1>5, <1>6, <1>7, <1>8, <1>9, <1>10, <1>11, <1>12, <1>13, <1>14, <1>15, <1>16
     DEF Next, RunFire, Rebuild


-----------------------------------------------------------------------------
(* What stop() can find *)

LEMMA EndsAnchored ==
    ASSUME TypeOK, Owned, Anchored, NEW f \in Fire, Ends(f),
           mustCancel \ {f} \subseteq mustCancel', UNCHANGED rebuild
    PROVE  Anchored'
BY DEF Anchored, Findable, Owned, TypeOK, Ends, Left, Early, rebuild

\* A fire that moves on stays where stop() finds it, or is out of its reach.
LEMMA MovesAnchored ==
    ASSUME TypeOK, Owned, Anchored, NEW f \in Fire, NEW p, Moves(f, p),
           p \in Early => phase[f] \in Early /\ f \notin mustCancel,
           mustCancel \ {f} \subseteq mustCancel', UNCHANGED rebuild
    PROVE  Anchored'
<1>1. phase'[f] = p /\ \A g \in Fire \ {f} : phase'[g] = phase[g]
  BY DEF Moves, TypeOK
<1>2. UNCHANGED <<of, task, slots, rebuild>>
  BY DEF Moves
<1>3. \A g \in Fire : Findable(g) => Findable(g)'
  BY <1>2 DEF Findable, slots, rebuild
<1>4. phase'[f] \in Early => Findable(f)'
  BY <1>1, <1>3 DEF Anchored
<1>5. \A g \in Fire \ {f} : phase'[g] \in Early => g \in mustCancel' \/ Findable(g)'
  BY <1>1, <1>3 DEF Anchored
<1> QED
  BY <1>2, <1>4, <1>5 DEF Anchored, rebuild

\* A new task of a fire is in its slot, and what it replaces is cancelled.
LEMMA ScheduleAnchored ==
    ASSUME TypeOK, Owned, Anchored, NEW f \in Fire, NEW t \in Trigger, ScheduleFire(f, t),
           stage = "up", t \in loaded, old' = old \ {f},
           UNCHANGED <<loaded, running, stage>>
    PROVE  Anchored'
<1> USE TriggerAssumption
<1>1. Findable(f)'
  BY DEF ScheduleFire, Findable, TypeOK
<1>2. ASSUME NEW g \in Fire \ {f}, phase'[g] \in Early, g \notin mustCancel'
      PROVE  Findable(g)'
  <2>1. phase[g] \in Early /\ g \notin mustCancel /\ of[g] \in Trigger /\ Findable(g)
    BY <1>2 DEF ScheduleFire, Anchored, TypeOK, Owned, Early
  <2>2. of'[g] = of[g] /\ task'[g] = task[g]
    BY DEF ScheduleFire, TypeOK
  <2>3. debounceTask[of[g]] = g => debounceTask'[of[g]] = g
    BY <2>1 DEF ScheduleFire, Left, TypeOK
  <2>4. delayTask[of[g]] = g => delayTask'[of[g]] = g
    BY <1>2, <2>1 DEF ScheduleFire, Pending, TypeOK
  <2> QED
    BY <2>1, <2>2, <2>3, <2>4 DEF Findable
<1> QED
  BY <1>1, <1>2 DEF Anchored

LEMMA ExecuteAnchored ==
    ASSUME TypeOK, Owned, Anchored, NEW f \in Fire, ExecuteTrigger(f),
           phase[f] \in Early, f \notin mustCancel, UNCHANGED <<mustCancel, rebuild>>
    PROVE  Anchored'
<1>1. ASSUME NEW p, Moves(f, p)
      PROVE  Anchored'
  BY <1>1, MovesAnchored
<1>2. CASE /\ phase' = [phase EXCEPT ![f] = "queued"]
           /\ task' = [task EXCEPT ![f] = "queue"]
           /\ delayTask' = Left(delayTask, f)
           /\ UNCHANGED <<of, polls, debounceTask>>
  BY <1>2 DEF Anchored, Findable, Owned, TypeOK, Left, Early, rebuild
<1> QED
  BY <1>1, <1>2 DEF ExecuteTrigger, FireMacro

LEMMA OccurAnchored ==
    ASSUME TypeOK, Owned, Anchored, NEW f \in Fire, NEW t \in Trigger, Occur(f, t)
    PROVE  Anchored'
<1> USE TriggerAssumption
<1>1. stage = "up" /\ t \in loaded /\ UNCHANGED <<loaded, running, stage>>
      /\ old' = old \ {f} /\ phase[f] = "idle"
  BY DEF Occur, Anchored
<1>2. CASE t \notin Debounced
  <2>1. ScheduleFire(f, t)
    BY <1>2 DEF Occur
  <2> QED
    BY <1>1, <2>1, ScheduleAnchored
<1>3. CASE t \in Debounced
  <2>1. Findable(f)'
    BY <1>1, <1>3 DEF Occur, Findable, TypeOK
  <2>2. ASSUME NEW g \in Fire \ {f}, phase'[g] \in Early, g \notin mustCancel'
        PROVE  Findable(g)'
    <3>1. phase[g] \in Early /\ g \notin mustCancel /\ of[g] \in Trigger /\ Findable(g)
      BY <1>3, <2>2 DEF Occur, Anchored, TypeOK, Owned, Early
    <3>2. of'[g] = of[g] /\ task'[g] = task[g] /\ delayTask' = delayTask
      BY <1>3 DEF Occur, TypeOK
    <3>3. debounceTask[of[g]] = g => debounceTask'[of[g]] = g
      BY <1>3, <2>2, <3>1 DEF Occur, Pending, TypeOK
    <3> QED
      BY <1>1, <3>1, <3>2, <3>3 DEF Findable
  <2> QED
    BY <1>1, <2>1, <2>2 DEF Anchored
<1> QED
  BY <1>2, <1>3

\* stop() cancels every early fire it has not to leave to the macro engine.
LEMMA StopAnchored ==
    ASSUME TypeOK, Owned, Anchored, StopCancels
    PROVE  Anchored'
<1>1. ASSUME NEW f \in Fire, phase[f] \in Early, f \notin mustCancel
      PROVE  f \in Reached \ MacroExecTasks
  <2>1. Findable(f) /\ of[f] \in loaded /\ of[f] \in Trigger
    BY <1>1 DEF Anchored, Findable, Owned, Early
  <2>2. task[f] \in {"debounce", "delay", "queue", "startup", "bg"}
    BY <2>1 DEF Findable, TypeOK
  <2>3. f \in Reached
    BY <2>1, <2>2, TriggerAssumption
       DEF Findable, Reached, InSlots, InQueues, Pending
  <2> QED
    BY <1>1, <2>3 DEF MacroExecTasks, Counted, Early
<1> QED
  BY <1>1 DEF StopCancels, Anchored, fires, slots

LEMMA AnchoredStep ==
    ASSUME TypeOK, Owned, Anchored, [Next]_vars
    PROVE  Anchored'
<1>1. ASSUME UNCHANGED <<phase, of, task, slots, rebuild>>, mustCancel \subseteq mustCancel'
      PROVE  Anchored'
  BY <1>1 DEF Anchored, Findable, slots, rebuild
<1>2. ASSUME NEW f \in Fire, DebounceEnds(f)
      PROVE  Anchored'
  <2>1. phase[f] \in Early /\ f \notin mustCancel /\ UNCHANGED rebuild
    BY <1>2 DEF DebounceEnds, Resumes, Early
  <2>2. Findable(f) /\ of[f] \in Trigger /\ (running => stage = "up")
    BY <2>1 DEF Anchored, Owned, Early
  <2>3. CASE running
    <3>1. old' = old \ {f} /\ of[f] \in loaded /\ UNCHANGED <<loaded, running, stage>>
      BY <2>1, <2>2 DEF Findable, rebuild
    <3> QED
      BY <1>2, <2>2, <2>3, <3>1, ScheduleAnchored DEF DebounceEnds
  <2>4. CASE ~running
    BY <1>2, <2>1, <2>4, EndsAnchored DEF DebounceEnds
  <2> QED
    BY <2>3, <2>4
<1>3. ASSUME NEW f \in Fire, DelayEnds(f) \/ ReadyRuns(f)
      PROVE  Anchored'
  <2>1. phase[f] \in Early /\ f \notin mustCancel /\ UNCHANGED <<mustCancel, rebuild>>
    BY <1>3 DEF DelayEnds, ReadyRuns, Resumes, Early
  <2> QED
    BY <1>3, <2>1, ExecuteAnchored, EndsAnchored DEF DelayEnds, ReadyRuns
<1>4. ASSUME NEW f \in Fire, QueuePoll(f)
      PROVE  Anchored'
  <2>1. phase[f] \in Early /\ f \notin mustCancel /\ UNCHANGED <<mustCancel, rebuild>>
    BY <1>4 DEF QueuePoll, Resumes, Early
  <2> QED
    BY <1>1, <1>4, <2>1, EndsAnchored, MovesAnchored DEF QueuePoll, FireMacro
<1>5. ASSUME NEW f \in Fire,
             \/ EnterMacro(f) \/ MacroStarts(f) \/ MacroEnds(f) \/ MacroReturns(f)
             \/ CancelMacro(f)
      PROVE  Anchored'
  <2>1. PICK p \in {"entering", "macro", "completed", "ending", "last"} : Moves(f, p)
    BY <1>5 DEF EnterMacro, MacroStarts, MacroEnds, MacroReturns, CancelMacro
  <2>2. UNCHANGED rebuild /\ mustCancel \ {f} \subseteq mustCancel'
    BY <1>5 DEF EnterMacro, MacroStarts, MacroEnds, MacroReturns, CancelMacro
  <2> QED
    BY <2>1, <2>2, MovesAnchored DEF Early
<1>6. ASSUME NEW f \in Fire,
             LastEmitEnds(f) \/ CancelPending(f) \/ CancelFired(f) \/ CancelAround(f)
      PROVE  Anchored'
  <2>1. Ends(f) /\ UNCHANGED rebuild /\ mustCancel \ {f} \subseteq mustCancel'
    BY <1>6 DEF LastEmitEnds, CancelPending, CancelFired, CancelAround
  <2> QED
    BY <2>1, EndsAnchored
<1>7. CASE StopBegins
  BY <1>7 DEF StopBegins, Anchored, Findable, fires, slots
<1>8. CASE StopEnds
  BY <1>8 DEF StopEnds, Anchored, Findable, fires, slots
<1>9. CASE StartTriggers
  <2>1. stage' = "up" /\ running' /\ mustCancel' = mustCancel
        /\ old' = Fire \ {f \in Fire : phase[f] = "idle"}
    BY <1>9 DEF StartTriggers
  <2>2. \A f \in Fire : phase[f] \in Early => f \in mustCancel
    BY <1>9 DEF StartTriggers, Anchored, Findable
  <2>3. ASSUME NEW f \in Fire, phase'[f] \in Early, f \notin mustCancel'
        PROVE  Findable(f)'
    <3>1. /\ phase[f] = "idle" /\ phase'[f] = "delay" /\ task'[f] = "startup"
          /\ of'[f] \in loaded'
      BY <1>9, <2>1, <2>2, <2>3, StartTyped
    <3> QED
      BY <2>1, <3>1 DEF Findable
  <2> QED
    BY <2>1, <2>3 DEF Anchored
<1>10. ASSUME \/ \E f \in Fire : MacroCancelled(f)
              \/ \E m \in Macro : OtherRun(m)
              \/ \E u \in Trigger : CooldownElapses(u)
              \/ UNCHANGED vars
       PROVE  Anchored'
  BY <1>1, <1>10 DEF MacroCancelled, OtherRun, CooldownElapses, vars, fires
<1> QED
  BY <1>2, <1>3, <1>4, <1>5, <1>6, <1>7, <1>8, <1>9, <1>10, OccurAnchored, StopAnchored
     DEF Next, RunFire, Rebuild

-----------------------------------------------------------------------------
(* The theorems *)

LEMMA SoundEverywhere ==
    Tallied /\ OneFireAtATime /\ AllowIsCapped <=> \A t \in Trigger : Sound(t)
BY DEF Tallied, OneFireAtATime, AllowIsCapped, Sound, Active

LEMMA InvInit == Init => Inv
<1> SUFFICES ASSUME Init
             PROVE  Inv
  OBVIOUS
<1>1. \A t \in Trigger : Active(t) = {} /\ depth[t] = 0
  BY DEF Init, Active, Fires, Counted
<1>2. Cardinality({}) = 0 /\ MaxAllow \in Nat
  BY FS_EmptySet, TriggerAssumption
<1>3. \A t \in Trigger : Sound(t)
  BY <1>1, <1>2 DEF Sound
<1>4. TypeOK /\ Owned /\ Anchored
  BY DEF Init, TypeOK, Owned, Anchored, Phase, Early
<1> QED
  BY <1>3, <1>4, SoundEverywhere DEF Inv

LEMMA InvStep == Inv /\ [Next]_vars => Inv'
<1> SUFFICES ASSUME Inv, [Next]_vars
             PROVE  Inv'
  OBVIOUS
<1>1. TypeOK' /\ Owned'
  BY TypedStep DEF Inv
<1>2. Anchored'
  BY AnchoredStep DEF Inv
<1>3. \A t \in Trigger : Sound(t)
  BY SoundEverywhere DEF Inv
<1>4. depth' \in [Trigger -> Nat]
  BY <1>1 DEF TypeOK
<1>5. \A t \in Trigger : Sound(t)'
  BY <1>3, <1>4, ShapeStep, ShapeSound DEF Inv
<1>6. Tallied' /\ OneFireAtATime' /\ AllowIsCapped'
  BY <1>5 DEF Tallied, OneFireAtATime, AllowIsCapped, Sound, Active
<1> QED
  BY <1>1, <1>2, <1>6 DEF Inv

LEMMA Invariant == Spec => []Inv
BY InvInit, InvStep, PTL DEF Spec

\* Every variable has its type in every reachable state.
THEOREM TriggerTyped == Spec => []TypeOK
<1>1. Inv => TypeOK
  BY DEF Inv
<1> QED
  BY <1>1, Invariant, PTL

\* A trigger with overlap=skip has one active fire at a time: _execute_trigger
\* lets none pass while one is counted, and what is counted is what is active.
THEOREM SkipIsOneFire == Spec => []OneFireAtATime
<1>1. Inv => OneFireAtATime
  BY DEF Inv
<1> QED
  BY <1>1, Invariant, PTL

\* A trigger with overlap=allow has at most _MAX_OVERLAP_ALLOW_DEPTH of them.
THEOREM SelfTriggeringStops == Spec => []AllowIsCapped
<1>1. Inv => AllowIsCapped
  BY DEF Inv
<1> QED
  BY <1>1, Invariant, PTL

\* The finally of _fire_macro gives the count back: a trigger without an
\* active fire is not blocked, unless one was cancelled before that try.
THEOREM CountComesBack == Spec => []DepthReturns
<1>1. Inv => DepthReturns
  <2> SUFFICES ASSUME Inv, NEW t \in Trigger \ leaked, depth[t] > 0
               PROVE  Active(t) # {}
    BY DEF DepthReturns, Active
  <2>1. depth[t] \in Nat /\ depth[t] <= Cardinality(Active(t))
    BY DEF Inv, TypeOK, Tallied
  <2>2. Active(t) = {} => Cardinality(Active(t)) = 0
    BY FS_EmptySet
  <2> QED
    BY <2>1, <2>2
<1> QED
  BY <1>1, Invariant, PTL

\* stop() finds every fire that has not reached execute(): no later rebuild
\* leaves one behind that could still start a macro of the old project.
THEOREM RebuildIsClean == Spec => []StopLeavesNothing
<1>1. Inv => StopLeavesNothing
  BY DEF Inv, TypeOK, Phase, Anchored, Findable, Early, StopLeavesNothing
<1> QED
  BY <1>1, Invariant, PTL
=============================================================================
