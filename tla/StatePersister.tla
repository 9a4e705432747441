---------------------------- MODULE StatePersister ----------------------------
(***************************************************************************)
(* Persistent variables: the var.* keys of the state store, the            *)
(* StatePersister that saves some of them to state.json                    *)
(* (openavc/core/state_persister.py), and what the engine does to both     *)
(* (openavc/core/engine.py): boot, the variables part of a project apply   *)
(* or reload, a backup restore, and shutdown -- with crashes, failing      *)
(* writes and failing reads anywhere between them.                         *)
(*                                                                         *)
(* An action is the code between two awaits.  The code of one action is a  *)
(* sequence of calls; it is written as operators from one state of the     *)
(* persister's part of the world, a record (see Now), to the next.         *)
(***************************************************************************)
CONSTANTS
    Var,        \* variable ids
    Value,      \* values of variables, None among them if any may be cleared
    None,       \* the value None: a cleared variable
    Default,    \* variable -> its default
    Projects,   \* the projects that may be saved; see Project
    Outcomes,   \* whether a write succeeds: BOOLEAN, or {TRUE} for a sound disk
    Readings,   \* how reading state.json may end: it is "read" (or there is
                \* none), the read "failed", or what was read is "corrupt"
    Absent,     \* "no such key", in the store or in state.json
    NoFile      \* "no state.json"

Project == [vars : SUBSET Var, persist : SUBSET Var]

ASSUME PersisterAssumption ==
    /\ Default \in [Var -> Value]
    /\ Projects \subseteq {p \in Project : p.persist \subseteq p.vars}
    /\ Projects # {}
    /\ Outcomes \subseteq BOOLEAN
    /\ Readings \subseteq {"read", "failed", "corrupt"}
    /\ Absent \notin Value
    /\ NoFile \notin [Var -> Value \cup {Absent}]

VARIABLES
    store,      \* the var.* keys of the state store
    disk,       \* state.json: variable -> saved value or Absent; or NoFile
    keys,       \* _persistent_keys
    watched,    \* keys with a subscription in _sub_ids
    dirty,      \* _dirty
    stopped,    \* _stopped
    flush,      \* _flush_task: "none" (or done), "pending", or "cancelled"
                \* and not yet unwound
    file,       \* the project on disk
    project,    \* engine.project
    prev,       \* the project an apply under way rolls back to (project when
                \* none is)
    stage,      \* the apply under the reload lock: "idle", "swapped",
                \* "reconciled"
    loading,    \* whether that apply is the restore's reload
    restoring,  \* whether a restore is between its files and its end
    backup      \* the backup there is: a project and a state.json

(* History, read by properties only. *)
VARIABLES
    unsynced,   \* keys watched, but neither read nor written since: newly
                \* persistent ones, and all when state.json could not be read
    failed,     \* whether the last write failed
    raced       \* whether a change no write has saved yet found a cancelled
                \* flush not yet unwound

persister == <<store, disk, keys, watched, dirty, stopped, flush, unsynced,
               failed, raced>>
applying  == <<project, prev, stage, loading>>
vars      == <<persister, applying, file, restoring, backup>>

-----------------------------------------------------------------------------
(* The persister's operations, as operators on a record of its state *)

Now == [store |-> store, disk |-> disk, keys |-> keys, watched |-> watched,
        dirty |-> dirty, stopped |-> stopped, flush |-> flush,
        unsynced |-> unsynced, failed |-> failed, raced |-> raced]

Become(s) ==
    /\ store' = s.store /\ disk' = s.disk /\ keys' = s.keys
    /\ watched' = s.watched /\ dirty' = s.dirty /\ stopped' = s.stopped
    /\ flush' = s.flush /\ unsynced' = s.unsynced
    /\ failed' = s.failed /\ raced' = s.raced

\* _on_state_change: schedule a flush unless there is a task not yet done.
OnStateChange(s) ==
    [s EXCEPT !.dirty = TRUE,
              !.flush = IF @ = "none" THEN "pending" ELSE @,
              !.raced = @ \/ s.flush = "cancelled"]

\* state.set and state.delete: the store takes the values of f; listeners run
\* at once, for the keys whose value changed.
Put(s, f) ==
    LET t == [s EXCEPT !.store = f]
    IN  IF \E k \in s.watched : f[k] # s.store[k] THEN OnStateChange(t) ELSE t

Set(s, k, v) == Put(s, [s.store EXCEPT ![k] = v])

\* Mutant: a failed write counts as done.
WriteForgets(s, ok) ==
    IF ok
    THEN [s EXCEPT !.disk = [k \in Var |-> IF k \in s.keys THEN s.store[k] ELSE Absent],
                   !.dirty = FALSE, !.failed = FALSE, !.raced = FALSE, !.unsynced = {}]
    ELSE [s EXCEPT !.failed = TRUE, !.dirty = FALSE]

\* _write: all current keys that are in the store; atomic.
Write(s, ok) ==
    IF ok
    THEN [s EXCEPT !.disk = [k \in Var |-> IF k \in s.keys THEN s.store[k] ELSE Absent],
                   !.dirty = FALSE, !.failed = FALSE, !.raced = FALSE, !.unsynced = {}]
    ELSE [s EXCEPT !.failed = TRUE]

Flush(s, ok) == IF s.dirty THEN Write(s, ok) ELSE s

\* task.cancel() on the debounced flush, if it is still sleeping.
CancelFlush(s) ==
    [s EXCEPT !.flush = IF @ = "pending" THEN "cancelled" ELSE @]

Stop(s, ok) ==
    [CancelFlush(Flush([s EXCEPT !.stopped = TRUE], ok)) EXCEPT !.watched = {}]

Watch(s, K) == [s EXCEPT !.keys = K, !.watched = K, !.stopped = FALSE]

\* Mutant: update_keys subscribes to the new keys and keeps writing the old ones.
UpdateKeysUnswapped(s, K, ok, okPrune) ==
    LET t == CancelFlush(Flush(s, ok))
    IN  [t EXCEPT !.watched = K, !.unsynced = (@ \cup (K \ t.keys)) \cap K]

\* update_keys: commit under the old keys, swap, prune what was removed.
UpdateKeys(s, K, ok, okPrune) ==
    LET t == CancelFlush(Flush(s, ok))
        u == [t EXCEPT !.keys = K, !.watched = K,
                       !.unsynced = (@ \cup (K \ t.keys)) \cap K]
    IN  IF t.keys \ K # {} /\ u.disk # NoFile THEN Write(u, okPrune) ELSE u

\* load: the values it returns ...
Load(image, how) ==
    IF how = "read" /\ image # NoFile THEN image ELSE [k \in Var |-> Absent]

\* ... and the file it leaves: a corrupt one is moved aside.
Loaded(image, how) == IF how = "corrupt" THEN NoFile ELSE image

\* _init_variable_values: saved value, else default; no other var.* key.
Initial(p, saved) ==
    [k \in Var |->
        IF k \notin p.vars THEN Absent
        ELSE IF k \in p.persist /\ saved[k] # Absent THEN saved[k]
        ELSE Default[k]]

\* The store after a reconcile seeded what is None and deleted the orphans.
Seeded(p, f) ==
    [k \in Var |->
        IF k \notin p.vars THEN Absent
        ELSE IF f[k] \in {Absent, None} THEN Default[k]
        ELSE f[k]]

\* The store reload_persisted_state leaves: persistent keys from state.json,
\* or their defaults.
Reapplied(p, saved, f) ==
    [k \in Var |-> IF k \notin p.persist THEN f[k]
                   ELSE IF saved[k] # Absent THEN saved[k] ELSE Default[k]]

-----------------------------------------------------------------------------
(* Changes and flushes *)

\* Any macro, script, panel or binding sets a variable.
SetVariable(k, v) ==
    /\ Become(Set(Now, k, v))
    /\ UNCHANGED <<applying, file, restoring, backup>>

\* The debounced flush wakes, a second after it was scheduled ...
FlushRuns(ok) ==
    /\ flush = "pending"
    /\ LET s == [Now EXCEPT !.flush = "none"]
       IN  Become(IF dirty /\ ~stopped THEN Write(s, ok) ELSE s)
    /\ UNCHANGED <<applying, file, restoring, backup>>

\* ... or its cancellation is unwound.
FlushUnwinds ==
    /\ flush = "cancelled"
    /\ Become([Now EXCEPT !.flush = "none"])
    /\ UNCHANGED <<applying, file, restoring, backup>>

-----------------------------------------------------------------------------
(* Project applies.  The reload lock serialises them. *)

\* The bytes are saved and engine.project swapped.
ApplyBegins(p) ==
    /\ stage = "idle"
    /\ file' = p /\ project' = p /\ prev' = project
    /\ stage' = "swapped" /\ loading' = FALSE
    /\ UNCHANGED <<persister, restoring, backup>>

\* The variables part of _reconcile.  The binding of the variables' sources
\* may follow without an await and change one of them at once.
ApplyVariables(ok, okPrune) ==
    /\ stage = "swapped"
    /\ LET s == UpdateKeys(Put(Now, Seeded(project, store)), project.persist, ok, okPrune)
       IN  \/ Become(s)
           \/ \E k \in project.vars, v \in Value : Become(Set(s, k, v))
    /\ stage' = "reconciled"
    /\ UNCHANGED <<project, prev, loading, file, restoring, backup>>

\* An edit that leaves the variables alone skips their part.
ApplyEnds ==
    /\ ~loading
    /\ stage = "reconciled" \/ (stage = "swapped" /\ project = prev)
    /\ stage' = "idle" /\ prev' = project
    /\ UNCHANGED <<persister, project, loading, file, restoring, backup>>

\* The reconcile raises: the previous project is back, the persister's keys
\* are not.  A restore's reload takes the restore down with it.
ApplyFails ==
    /\ stage # "idle"
    /\ project' = prev
    /\ stage' = "idle"
    /\ restoring' = (restoring /\ ~loading)
    /\ loading' = FALSE
    /\ UNCHANGED <<persister, prev, file, backup>>

-----------------------------------------------------------------------------
(* Backups *)

CreateBackup ==
    /\ ~restoring
    /\ backup' = [project |-> file, image |-> disk]
    /\ UNCHANGED <<persister, applying, file, restoring>>

\* The persister is stopped and the files are replaced ...
RestoreFiles(ok) ==
    /\ ~restoring
    /\ Become([Stop(Now, ok) EXCEPT !.disk = backup.image])
    /\ file' = backup.project
    /\ restoring' = TRUE
    /\ UNCHANGED <<applying, backup>>

\* ... or replacing them fails, before state.json is reached.
RestoreFilesFails(ok) ==
    /\ ~restoring
    /\ Become(Stop(Now, ok))
    /\ file' \in {file, backup.project}
    /\ UNCHANGED <<applying, restoring, backup>>

\* reload_project: the project is read under the reload lock.
RestoreReloads ==
    /\ restoring /\ stage = "idle"
    /\ project' = file /\ prev' = project
    /\ stage' = "swapped" /\ loading' = TRUE
    /\ UNCHANGED <<persister, file, restoring, backup>>

\* The reload is over; reload_persisted_state follows without an await.
RestoreEnds(how, ok) ==
    /\ restoring /\ loading /\ stage = "reconciled"
    /\ LET read == [Now EXCEPT !.disk = Loaded(@, how),
                               !.unsynced = IF how = "failed" THEN keys ELSE {}]
           s == Put(read, Reapplied(project, Load(disk, how), store))
       IN  Become(Watch(Stop(s, ok), project.persist))
    /\ stage' = "idle" /\ prev' = project /\ loading' = FALSE /\ restoring' = FALSE
    /\ UNCHANGED <<project, file, backup>>

-----------------------------------------------------------------------------
(* Shutdown, crash and boot *)

\* _stop_inner, under the reload lock: the persister stops first.
Shutdown(ok) ==
    /\ stage = "idle"
    /\ Become(Stop(Now, ok))
    /\ UNCHANGED <<applying, file, restoring, backup>>

\* The process ends, in an orderly way or not, and boots again from the files.
Boot(how) ==
    /\ store' = Initial(file, Load(disk, how))
    /\ disk' = Loaded(disk, how)
    /\ keys' = file.persist /\ watched' = file.persist
    /\ dirty' = FALSE /\ stopped' = FALSE /\ flush' = "none"
    /\ failed' = FALSE /\ raced' = FALSE
    /\ unsynced' = IF how = "failed" THEN file.persist ELSE {}
    /\ project' = file /\ prev' = file
    /\ stage' = "idle" /\ loading' = FALSE
    /\ restoring' = FALSE
    /\ UNCHANGED <<file, backup>>

Init ==
    /\ file \in Projects /\ project = file /\ prev = file
    /\ disk = NoFile
    /\ store = Initial(file, Load(disk, "read"))
    /\ keys = file.persist /\ watched = file.persist
    /\ dirty = FALSE /\ stopped = FALSE /\ flush = "none"
    /\ stage = "idle" /\ loading = FALSE
    /\ restoring = FALSE
    /\ backup = [project |-> file, image |-> disk]
    /\ unsynced = {} /\ failed = FALSE /\ raced = FALSE

Next ==
    \/ \E k \in Var, v \in Value : SetVariable(k, v)
    \/ \E ok \in Outcomes : FlushRuns(ok)
    \/ FlushUnwinds
    \/ \E p \in Projects : ApplyBegins(p)
    \/ \E ok, okPrune \in Outcomes : ApplyVariables(ok, okPrune)
    \/ ApplyEnds \/ ApplyFails
    \/ CreateBackup
    \/ \E ok \in Outcomes : RestoreFiles(ok) \/ RestoreFilesFails(ok)
    \/ RestoreReloads
    \/ \E how \in Readings, ok \in Outcomes : RestoreEnds(how, ok)
    \/ \E ok \in Outcomes : Shutdown(ok)
    \/ \E how \in Readings : Boot(how)

Spec == Init /\ [][Next]_vars

-----------------------------------------------------------------------------
(* Properties *)

Image == [Var -> Value \cup {Absent}]

\* Type correctness.
TypeOK ==
    /\ store \in Image /\ disk \in Image \cup {NoFile}
    /\ keys \subseteq Var /\ watched \subseteq keys
    /\ dirty \in BOOLEAN /\ stopped \in BOOLEAN
    /\ flush \in {"none", "pending", "cancelled"}
    /\ file \in Projects /\ project \in Projects /\ prev \in Projects
    /\ stage \in {"idle", "swapped", "reconciled"}
    /\ loading \in BOOLEAN /\ restoring \in BOOLEAN
    /\ backup \in [project : Projects, image : Image \cup {NoFile}]
    /\ unsynced \subseteq Var /\ failed \in BOOLEAN /\ raced \in BOOLEAN

\* The value a restart gives a persistent variable.
AfterRestart(k) ==
    LET saved == Load(disk, "read")
    IN  IF saved[k] # Absent THEN saved[k] ELSE Default[k]

\* Once nothing is dirty a crash loses nothing: whatever applies, failed
\* applies, restores, failing writes and restarts came before, every watched
\* variable would come back with its current value -- but for those the
\* persister has neither read nor written since it began to watch them.
CrashLosesNothing ==
    ~stopped /\ ~dirty =>
        \A k \in watched \ unsynced : AfterRestart(k) = store[k]

\* A change that is not saved yet is about to be, unless the write just
\* failed or the change came between a cancelled flush and its unwinding.
FlushScheduled ==
    dirty /\ ~stopped => flush = "pending" \/ failed \/ raced

\* When a restore is over, the backup's project is the one running and no
\* write failed, each of its persistent variables has the value the backup
\* holds for it.
RestoreTakesEffect ==
    [][\A ok \in Outcomes : RestoreEnds("read", ok) /\ project = backup.project =>
          \A k \in project.persist :
              Load(backup.image, "read")[k] # Absent =>
                  store'[k] = Load(backup.image, "read")[k]]_vars
=============================================================================
