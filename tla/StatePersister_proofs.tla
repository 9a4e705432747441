------------------------ MODULE StatePersister_proofs ------------------------
(***************************************************************************)
(* Proofs about StatePersister, for every set of variables, values and     *)
(* projects: types, that a crash loses nothing once nothing is dirty, and  *)
(* that what is dirty is about to be written.                              *)
(*                                                                         *)
(* Every operation of the persister keeps Sound, a predicate of the        *)
(* record Now; the actions are sequences of operations.                    *)
(***************************************************************************)
EXTENDS StatePersister, TLAPS

World == [store : Image, disk : Image \cup {NoFile}, keys : SUBSET Var,
          watched : SUBSET Var, dirty : BOOLEAN, stopped : BOOLEAN,
          flush : {"none", "pending", "cancelled"}, unsynced : SUBSET Var,
          failed : BOOLEAN, raced : BOOLEAN]

\* The value a restart gives k when state.json is d.
Back(d, k) == IF d # NoFile /\ d[k] # Absent THEN d[k] ELSE Default[k]

\* The persister watches what it writes, unless it is stopped.
Wired(s) == s.watched \subseteq s.keys /\ (s.stopped \/ s.watched = s.keys)

\* Nothing dirty is lost by a crash; a key not in the store has no value.
Saved(s) ==
    s.stopped \/ s.dirty
    \/ \A k \in s.watched \ s.unsynced :
          s.store[k] # Absent => Back(s.disk, k) = s.store[k]

\* d holds the value of every persistent key in the store.
Saves(s, d) == \A k \in s.keys : s.store[k] # Absent => Back(d, k) = s.store[k]

\* What is dirty is about to be written.
Scheduled(s) == s.dirty => s.stopped \/ s.flush = "pending" \/ s.failed \/ s.raced

Sound(s) == s \in World /\ Wired(s) /\ Saved(s) /\ Scheduled(s)

\* Every watched key is in the store.
Present(s) == \A k \in s.watched : s.store[k] # Absent

-----------------------------------------------------------------------------
(* The operations keep Sound *)

\* A change of the store that leaves nothing watched stale unnoticed.
LEMMA PutSound ==
    ASSUME NEW s, Sound(s), NEW f \in Image
    PROVE  /\ Sound(Put(s, f))
           /\ Put(s, f).store = f /\ Put(s, f).watched = s.watched
           /\ Put(s, f).keys = s.keys /\ Put(s, f).stopped = s.stopped
           /\ Put(s, f).disk = s.disk /\ Put(s, f).unsynced = s.unsynced
<1> DEFINE t == [s EXCEPT !.store = f]
<1>1. t \in World /\ t.store = f /\ t.watched = s.watched /\ t.keys = s.keys
      /\ t.stopped = s.stopped /\ t.dirty = s.dirty /\ t.disk = s.disk
      /\ t.unsynced = s.unsynced /\ t.flush = s.flush /\ t.failed = s.failed
      /\ t.raced = s.raced
  BY DEF Sound, World
<1> HIDE DEF t
<1>2. CASE \E k \in s.watched : f[k] # s.store[k]
  <2>1. Put(s, f) = OnStateChange(t)
    BY <1>2 DEF Put, t
  <2> DEFINE u == OnStateChange(t)
  <2>2. u \in World /\ u.dirty /\ u.store = f /\ u.watched = s.watched
        /\ u.keys = s.keys /\ u.stopped = s.stopped /\ u.disk = s.disk
        /\ u.unsynced = s.unsynced /\ u.failed = t.failed
    BY <1>1 DEF OnStateChange, World
  <2>3. u.flush = "pending" \/ u.raced
    BY <1>1 DEF OnStateChange, World
  <2> HIDE DEF u
  <2>4. Wired(u) /\ Saved(u) /\ Scheduled(u)
    BY <2>2, <2>3 DEF Wired, Saved, Scheduled, Sound
  <2> QED
    BY <2>1, <2>2, <2>4 DEF Sound, u
<1>3. CASE \A k \in s.watched : f[k] = s.store[k]
  <2>1. Put(s, f) = t
    BY <1>3 DEF Put, t
  <2>2. Wired(t) /\ Saved(t) /\ Scheduled(t)
    BY <1>1, <1>3 DEF Wired, Saved, Scheduled, Sound
  <2> QED
    BY <1>1, <2>1, <2>2 DEF Sound
<1> QED
  BY <1>2, <1>3

\* A write leaves nothing dirty, or fails and says so.
LEMMA WriteSound ==
    ASSUME NEW s, s \in World, Wired(s), NEW ok \in BOOLEAN, ok \/ Saved(s)
    PROVE  /\ Sound(Write(s, ok))
           /\ Write(s, ok).dirty => s.dirty /\ Write(s, ok).failed
           /\ Write(s, ok).store = s.store /\ Write(s, ok).watched = s.watched
           /\ Write(s, ok).keys = s.keys /\ Write(s, ok).stopped = s.stopped
           /\ Write(s, ok).flush = s.flush
           /\ ok => Write(s, ok).unsynced = {} /\ Saves(s, Write(s, ok).disk)
           /\ ~ok => Write(s, ok).unsynced = s.unsynced /\ Write(s, ok).disk = s.disk
<1>1. CASE ok
  <2> DEFINE d == [k \in Var |-> IF k \in s.keys THEN s.store[k] ELSE Absent]
             t == [s EXCEPT !.disk = d, !.dirty = FALSE, !.failed = FALSE,
                            !.raced = FALSE, !.unsynced = {}]
  <2>1. Write(s, ok) = t
    BY <1>1 DEF Write
  <2>2. d \in Image
    BY DEF World, Image
  <2>3. \A k \in s.keys : s.store[k] # Absent => d # NoFile /\ d[k] = s.store[k]
    BY <2>2, PersisterAssumption DEF World, Image
  <2> HIDE DEF d
  <2>4. t \in World /\ t.disk = d /\ t.dirty = FALSE /\ t.unsynced = {}
        /\ t.store = s.store /\ t.watched = s.watched /\ t.keys = s.keys
        /\ t.stopped = s.stopped /\ t.flush = s.flush
    BY <2>2 DEF World
  <2> HIDE DEF t
  <2>5. Saved(t) /\ Saves(s, t.disk)
    BY <2>3, <2>4 DEF Saved, Saves, Back, Wired
  <2>6. Wired(t) /\ Scheduled(t)
    BY <2>4 DEF Wired, Scheduled
  <2> QED
    BY <1>1, <2>1, <2>4, <2>5, <2>6 DEF Sound
<1>2. CASE ~ok
  <2> DEFINE t == [s EXCEPT !.failed = TRUE]
  <2>1. Write(s, ok) = t
    BY <1>2 DEF Write
  <2>2. t \in World /\ t.failed /\ t.disk = s.disk /\ t.dirty = s.dirty
        /\ t.unsynced = s.unsynced /\ t.store = s.store /\ t.watched = s.watched
        /\ t.keys = s.keys /\ t.stopped = s.stopped /\ t.flush = s.flush
    BY DEF World
  <2> HIDE DEF t
  <2>3. Wired(t) /\ Saved(t) /\ Scheduled(t)
    BY <1>2, <2>2 DEF Wired, Saved, Scheduled
  <2> QED
    BY <1>2, <2>1, <2>2, <2>3 DEF Sound
<1> QED
  BY <1>1, <1>2


\* flush: what is still dirty failed to be written.
LEMMA FlushSound ==
    ASSUME NEW s, Sound(s), NEW ok \in BOOLEAN
    PROVE  /\ Sound(Flush(s, ok))
           /\ Flush(s, ok).dirty => Flush(s, ok).failed
           /\ Flush(s, ok).store = s.store /\ Flush(s, ok).watched = s.watched
           /\ Flush(s, ok).keys = s.keys /\ Flush(s, ok).stopped = s.stopped
           /\ \/ Flush(s, ok).dirty
              \/ Flush(s, ok).disk = s.disk /\ Flush(s, ok).unsynced = s.unsynced
              \/ Saves(s, Flush(s, ok).disk)
<1>1. CASE s.dirty
  <2>1. Flush(s, ok) = Write(s, ok)
    BY <1>1 DEF Flush
  <2>2. s \in World /\ Wired(s) /\ Saved(s)
    BY DEF Sound
  <2> QED
    BY <2>1, <2>2, WriteSound
<1>2. CASE ~s.dirty
  <2>1. Flush(s, ok) = s
    BY <1>2 DEF Flush
  <2> QED
    BY <1>2, <2>1
<1> QED
  BY <1>1, <1>2

\* Cancelling the debounced flush is sound when what is dirty does not wait
\* for it.
LEMMA CancelSound ==
    ASSUME NEW s, Sound(s), s.dirty => s.failed
    PROVE  /\ Sound(CancelFlush(s))
           /\ CancelFlush(s).dirty = s.dirty /\ CancelFlush(s).failed = s.failed
           /\ CancelFlush(s).store = s.store /\ CancelFlush(s).watched = s.watched
           /\ CancelFlush(s).keys = s.keys /\ CancelFlush(s).stopped = s.stopped
           /\ CancelFlush(s).disk = s.disk /\ CancelFlush(s).unsynced = s.unsynced
<1> DEFINE t == CancelFlush(s)
<1>1. t \in World /\ t.dirty = s.dirty /\ t.failed = s.failed /\ t.store = s.store
      /\ t.watched = s.watched /\ t.keys = s.keys /\ t.stopped = s.stopped
      /\ t.disk = s.disk /\ t.unsynced = s.unsynced
  BY DEF CancelFlush, Sound, World
<1> HIDE DEF t
<1>2. Wired(t) /\ Saved(t) /\ Scheduled(t)
  BY <1>1 DEF Sound, Wired, Saved, Scheduled
<1>3. Sound(t)
  BY <1>1, <1>2 DEF Sound
<1> QED
  BY <1>1, <1>3 DEF t

\* stop: nothing is watched, and what is dirty failed to be written.
LEMMA StopSound ==
    ASSUME NEW s, Sound(s), NEW ok \in BOOLEAN
    PROVE  /\ Sound(Stop(s, ok)) /\ Stop(s, ok).stopped /\ Stop(s, ok).watched = {}
           /\ Stop(s, ok).store = s.store /\ Stop(s, ok).keys = s.keys
           /\ Stop(s, ok).dirty => Stop(s, ok).failed
           /\ \/ Stop(s, ok).dirty
              \/ Stop(s, ok).disk = s.disk /\ Stop(s, ok).unsynced = s.unsynced
              \/ Saves(s, Stop(s, ok).disk)
<1> DEFINE a == [s EXCEPT !.stopped = TRUE]
           b == Flush(a, ok)
           c == CancelFlush(b)
           d == [c EXCEPT !.watched = {}]
<1>1. Stop(s, ok) = d
  BY DEF Stop
<1>2. a \in World /\ a.stopped /\ a.store = s.store /\ a.keys = s.keys
      /\ a.watched = s.watched /\ a.disk = s.disk /\ a.unsynced = s.unsynced
  BY DEF Sound, World
<1> HIDE DEF a
<1>3. Sound(a)
  BY <1>2 DEF Sound, Wired, Saved, Scheduled
<1>4. Sound(b) /\ (b.dirty => b.failed) /\ b.store = a.store /\ b.keys = a.keys
      /\ b.stopped = a.stopped
      /\ (b.dirty \/ (b.disk = a.disk /\ b.unsynced = a.unsynced) \/ Saves(a, b.disk))
  BY <1>3, FlushSound
<1> HIDE DEF b
<1>5. Sound(c) /\ c.dirty = b.dirty /\ c.failed = b.failed /\ c.store = b.store
      /\ c.keys = b.keys /\ c.stopped = b.stopped /\ c.disk = b.disk
      /\ c.unsynced = b.unsynced
  BY <1>4, CancelSound
<1> HIDE DEF c
<1>6. d \in World /\ d.stopped = c.stopped /\ d.watched = {} /\ d.store = c.store
      /\ d.keys = c.keys /\ d.dirty = c.dirty /\ d.failed = c.failed
      /\ d.disk = c.disk /\ d.unsynced = c.unsynced
  BY <1>5 DEF Sound, World
<1> HIDE DEF d
<1>7. Sound(d) /\ d.stopped
  BY <1>2, <1>4, <1>5, <1>6 DEF Sound, Wired, Saved, Scheduled
<1>8. Saves(a, b.disk) => Saves(s, d.disk)
  BY <1>2, <1>5, <1>6 DEF Saves
<1> QED
  BY <1>1, <1>2, <1>4, <1>5, <1>6, <1>7, <1>8


\* update_keys: the new keys are watched, and those without a saved value are
\* counted as unsynced.
LEMMA UpdateKeysSound ==
    ASSUME NEW s, Sound(s), NEW K \in SUBSET Var,
           NEW ok \in BOOLEAN, NEW okPrune \in BOOLEAN
    PROVE  LET r == UpdateKeys(s, K, ok, okPrune)
           IN  /\ Sound(r) /\ r.keys = K /\ r.watched = K
               /\ r.store = s.store /\ r.stopped = s.stopped
<1> DEFINE b == Flush(s, ok)
           t == CancelFlush(b)
           U == (t.unsynced \cup (K \ t.keys)) \cap K
           u == [t EXCEPT !.keys = K, !.watched = K, !.unsynced = U]
           r == UpdateKeys(s, K, ok, okPrune)
<1>1. r = IF t.keys \ K # {} /\ u.disk # NoFile THEN Write(u, okPrune) ELSE u
  BY DEF UpdateKeys
<1> HIDE DEF r
<1>2. Sound(b) /\ (b.dirty => b.failed) /\ b.store = s.store /\ b.stopped = s.stopped
  BY FlushSound
<1> HIDE DEF b
<1>3. Sound(t) /\ t.dirty = b.dirty /\ t.failed = b.failed /\ t.store = b.store
      /\ t.stopped = b.stopped
  BY <1>2, CancelSound
<1> HIDE DEF t
<1>4. U \in SUBSET Var /\ \A k \in K \ U : k \in t.keys /\ k \notin t.unsynced
  BY DEF U
<1> HIDE DEF U
<1>5. u \in World /\ u.keys = K /\ u.watched = K /\ u.unsynced = U
      /\ u.dirty = t.dirty /\ u.failed = t.failed /\ u.store = t.store
      /\ u.stopped = t.stopped /\ u.disk = t.disk
  BY <1>3, <1>4 DEF Sound, World
<1> HIDE DEF u
<1>6. Wired(u) /\ Scheduled(u)
  BY <1>2, <1>3, <1>5 DEF Wired, Scheduled
<1>7. Saved(u)
  <2>1. SUFFICES ASSUME ~t.stopped, ~t.dirty, NEW k \in K \ U, t.store[k] # Absent
                 PROVE  Back(t.disk, k) = t.store[k]
    BY <1>5 DEF Saved
  <2>2. k \in t.watched \ t.unsynced
    BY <1>3, <1>4, <2>1 DEF Sound, Wired
  <2> QED
    BY <1>3, <2>1, <2>2 DEF Sound, Saved
<1>8. Sound(u)
  BY <1>5, <1>6, <1>7 DEF Sound
<1>9. /\ Sound(Write(u, okPrune)) /\ Write(u, okPrune).keys = K
      /\ Write(u, okPrune).watched = K /\ Write(u, okPrune).store = u.store
      /\ Write(u, okPrune).stopped = u.stopped
  BY <1>5, <1>6, <1>7, WriteSound
<1>10. Sound(r) /\ r.keys = K /\ r.watched = K /\ r.store = s.store
       /\ r.stopped = s.stopped
  BY <1>1, <1>2, <1>3, <1>5, <1>8, <1>9
<1> QED
  BY <1>10 DEF r

-----------------------------------------------------------------------------
(* The invariant *)

\* What the applies, restores and boots say of the rest.
Orderly ==
    /\ file \in Projects /\ project \in Projects /\ prev \in Projects
    /\ stage \in {"idle", "swapped", "reconciled"}
    /\ loading \in BOOLEAN /\ restoring \in BOOLEAN
    /\ backup \in [project : Projects, image : Image \cup {NoFile}]
    /\ stage = "reconciled" => keys = project.persist
    /\ restoring => stopped

PersistInv == Orderly /\ Sound(Now) /\ Present(Now)

\* A project's persistent variables are among its variables.
LEMMA ProjectOK ==
    ASSUME NEW p \in Projects
    PROVE  p.vars \in SUBSET Var /\ p.persist \in SUBSET Var /\ p.persist \subseteq p.vars
BY PersisterAssumption DEF Project

\* Become(s) makes the next state s.
LEMMA Becomes ==
    ASSUME NEW s, s \in World, Become(s)
    PROVE  /\ Now' = s /\ keys' = s.keys /\ stopped' = s.stopped
BY DEF World, Become, Now

\* The fields of Now.
LEMMA NowIs ==
    /\ Now.store = store /\ Now.disk = disk /\ Now.keys = keys
    /\ Now.watched = watched /\ Now.dirty = dirty /\ Now.stopped = stopped
    /\ Now.flush = flush /\ Now.unsynced = unsynced /\ Now.failed = failed
    /\ Now.raced = raced
BY DEF Now


\* load returns saved values, those of the file it leaves unless it failed.
LEMMA LoadIs ==
    ASSUME NEW d \in Image \cup {NoFile}, NEW how \in Readings
    PROVE  /\ Load(d, how) \in Image /\ Loaded(d, how) \in Image \cup {NoFile}
           /\ how # "failed" =>
                 \A k \in Var : Back(Loaded(d, how), k) =
                     IF Load(d, how)[k] # Absent THEN Load(d, how)[k] ELSE Default[k]
<1>1. how \in {"read", "failed", "corrupt"}
  BY PersisterAssumption
<1>2. NoFile \notin Image
  BY PersisterAssumption DEF Image
<1>3. \A k \in Var : [j \in Var |-> Absent][k] = Absent
  OBVIOUS
<1>4. [j \in Var |-> Absent] \in Image
  BY DEF Image
<1>5. CASE how = "read" /\ d # NoFile
  BY <1>5, <1>2 DEF Load, Loaded, Back
<1>6. CASE ~(how = "read" /\ d # NoFile)
  <2>1. Load(d, how) = [j \in Var |-> Absent]
    BY <1>6 DEF Load
  <2>2. Loaded(d, how) \in Image \cup {NoFile} /\ (how # "failed" => Loaded(d, how) = NoFile)
    BY <1>1, <1>6 DEF Loaded
  <2> QED
    BY <2>1, <2>2, <1>3, <1>4 DEF Back
<1> QED
  BY <1>5, <1>6

\* Boot gives every persistent variable its saved value or its default.
LEMMA InitialIs ==
    ASSUME NEW p \in Projects, NEW d \in Image \cup {NoFile}, NEW how \in Readings
    PROVE  LET f == Initial(p, Load(d, how))
           IN  /\ f \in Image
               /\ \A k \in p.persist : f[k] # Absent
               /\ how # "failed" => \A k \in p.persist : Back(Loaded(d, how), k) = f[k]
<1> DEFINE l == Load(d, how)
           f == Initial(p, l)
<1>1. l \in Image /\ \A k \in Var : Default[k] \in Value /\ Default[k] # Absent
  <2>1. l \in Image
    BY LoadIs
  <2>2. \A k \in Var : Default[k] \in Value /\ Default[k] # Absent
    BY PersisterAssumption
  <2> QED  BY <2>1, <2>2
<1>2. how # "failed" => \A k \in Var : Back(Loaded(d, how), k) =
                            IF l[k] # Absent THEN l[k] ELSE Default[k]
  BY LoadIs
<1> HIDE DEF l
<1>3. f = [k \in Var |-> IF k \notin p.vars THEN Absent
                         ELSE IF k \in p.persist /\ l[k] # Absent THEN l[k]
                         ELSE Default[k]]
  BY DEF Initial
<1> HIDE DEF f
<1>4. f \in Image
  BY <1>1, <1>3 DEF Image
<1>5. \A k \in p.persist : f[k] = IF l[k] # Absent THEN l[k] ELSE Default[k]
  BY <1>3, ProjectOK
<1>6. \A k \in p.persist : f[k] # Absent
  BY <1>1, <1>5, ProjectOK
<1>7. how # "failed" => \A k \in p.persist : Back(Loaded(d, how), k) = f[k]
  BY <1>2, <1>5, ProjectOK
<1> QED
  BY <1>4, <1>6, <1>7 DEF f, l

\* The reconcile leaves every variable of the project in the store.
LEMMA SeededIs ==
    ASSUME NEW p \in Projects, NEW f \in Image
    PROVE  Seeded(p, f) \in Image /\ \A k \in p.persist : Seeded(p, f)[k] # Absent
<1>1. \A k \in Var : Default[k] \in Value /\ Default[k] # Absent
  BY PersisterAssumption
<1>2. Seeded(p, f) \in Image
  BY <1>1 DEF Seeded, Image
<1>3. ASSUME NEW k \in p.persist PROVE Seeded(p, f)[k] # Absent
  BY <1>1, <1>3, ProjectOK DEF Seeded
<1> QED
  BY <1>2, <1>3

\* reload_persisted_state gives every persistent variable its saved value or
\* its default.
LEMMA ReappliedIs ==
    ASSUME NEW p \in Projects, NEW d \in Image \cup {NoFile}, NEW how \in Readings,
           NEW g \in Image
    PROVE  LET f == Reapplied(p, Load(d, how), g)
           IN  /\ f \in Image
               /\ \A k \in p.persist : f[k] # Absent
               /\ how # "failed" => \A k \in p.persist : Back(Loaded(d, how), k) = f[k]
<1> DEFINE l == Load(d, how)
           f == Reapplied(p, l, g)
<1>1. l \in Image /\ \A k \in Var : Default[k] \in Value /\ Default[k] # Absent
  <2>1. l \in Image
    BY LoadIs
  <2>2. \A k \in Var : Default[k] \in Value /\ Default[k] # Absent
    BY PersisterAssumption
  <2> QED  BY <2>1, <2>2
<1>2. how # "failed" => \A k \in Var : Back(Loaded(d, how), k) =
                            IF l[k] # Absent THEN l[k] ELSE Default[k]
  BY LoadIs
<1> HIDE DEF l
<1>3. f = [k \in Var |-> IF k \notin p.persist THEN g[k]
                         ELSE IF l[k] # Absent THEN l[k] ELSE Default[k]]
  BY DEF Reapplied
<1> HIDE DEF f
<1>4. f \in Image
  BY <1>1, <1>3 DEF Image
<1>5. \A k \in p.persist : f[k] = IF l[k] # Absent THEN l[k] ELSE Default[k]
  BY <1>3, ProjectOK
<1>6. \A k \in p.persist : f[k] # Absent
  BY <1>1, <1>5, ProjectOK
<1>7. how # "failed" => \A k \in p.persist : Back(Loaded(d, how), k) = f[k]
  BY <1>2, <1>5, ProjectOK
<1> QED
  BY <1>4, <1>6, <1>7 DEF f, l


-----------------------------------------------------------------------------
(* The actions *)

\* A step of the persister alone keeps the invariant when it keeps the keys.
LEMMA PersisterStep ==
    ASSUME PersistInv, NEW s, Sound(s), Present(s), Become(s),
           s.keys = keys, s.stopped = stopped,
           UNCHANGED <<applying, file, restoring, backup>>
    PROVE  PersistInv'
<1>1. Now' = s /\ keys' = keys /\ stopped' = stopped
  BY Becomes DEF Sound
<1>2. Orderly'
  BY <1>1 DEF PersistInv, Orderly, applying
<1> QED
  BY <1>1, <1>2 DEF PersistInv

\* The initial states: nothing saved, every variable has its default.
LEMMA InitInv == Init => PersistInv
<1> SUFFICES ASSUME Init PROVE PersistInv
  OBVIOUS
<1> DEFINE f == [k \in Var |-> IF k \notin file.vars THEN Absent ELSE Default[k]]
<1>1. file \in Projects
  BY DEF Init
<1>2. NoFile \in Image \cup {NoFile} /\ NoFile \notin Image
  BY PersisterAssumption DEF Image
<1>3. \A k \in Var : Default[k] \in Value /\ Default[k] # Absent
  BY PersisterAssumption
<1>4. store = f
  BY DEF Init, Initial, Load
<1>5. f \in Image
  BY <1>3 DEF Image
<1>6. \A k \in file.persist : k \in Var /\ f[k] = Default[k]
  BY <1>1, ProjectOK
<1> HIDE DEF f
<1>7. file.persist \in SUBSET Var
  BY <1>1, ProjectOK
<1>8. Now \in World
  BY <1>2, <1>4, <1>5, <1>7 DEF Init, Now, World
<1>9. Wired(Now) /\ Scheduled(Now)
  BY NowIs DEF Init, Wired, Scheduled
<1>10. Saved(Now) /\ Present(Now)
  BY <1>3, <1>4, <1>6, NowIs DEF Init, Saved, Present, Back
<1>11. Orderly
  BY <1>1, <1>2 DEF Init, Orderly
<1> QED
  BY <1>8, <1>9, <1>10, <1>11 DEF PersistInv, Sound

\* Setting a variable.
LEMMA SetVariableKeeps ==
    ASSUME PersistInv, NEW k \in Var, NEW v \in Value, SetVariable(k, v)
    PROVE  PersistInv'
<1> DEFINE f == [store EXCEPT ![k] = v]
           s == Put(Now, f)
<1>1. Sound(Now) /\ Present(Now) /\ store \in Image
  BY NowIs DEF PersistInv, Sound, World
<1>2. f \in Image /\ \A j \in Var : f[j] = store[j] \/ f[j] # Absent
  BY <1>1, PersisterAssumption DEF Image
<1>3. Become(s) /\ UNCHANGED <<applying, file, restoring, backup>>
  BY NowIs DEF SetVariable, Set
<1> HIDE DEF f
<1>4. Sound(s) /\ s.store = f /\ s.watched = watched /\ s.keys = keys
      /\ s.stopped = stopped
  BY <1>1, <1>2, PutSound, NowIs
<1> HIDE DEF s
<1>5. Present(s)
  BY <1>1, <1>2, <1>4, NowIs DEF Present, Sound, World
<1> QED
  BY <1>3, <1>4, <1>5, PersisterStep

\* The debounced flush.
LEMMA FlushRunsKeeps ==
    ASSUME PersistInv, NEW ok \in BOOLEAN, FlushRuns(ok)
    PROVE  PersistInv'
<1> DEFINE s == [Now EXCEPT !.flush = "none"]
           r == IF dirty /\ ~stopped THEN Write(s, ok) ELSE s
<1>1. Sound(Now) /\ Present(Now)
  BY DEF PersistInv
<1>2. Become(r) /\ UNCHANGED <<applying, file, restoring, backup>>
  BY DEF FlushRuns
<1>3. s \in World /\ s.store = store /\ s.disk = disk /\ s.keys = keys
      /\ s.watched = watched /\ s.dirty = dirty /\ s.stopped = stopped
      /\ s.unsynced = unsynced
  BY <1>1, NowIs DEF Sound, World
<1> HIDE DEF s
<1>4. Wired(s) /\ Saved(s) /\ Present(s)
  BY <1>1, <1>3, NowIs DEF Sound, Wired, Saved, Present
<1>5. CASE dirty /\ ~stopped
  <2>1. r = Write(s, ok)
    BY <1>5
  <2>2. Sound(r) /\ r.store = s.store /\ r.watched = s.watched /\ r.keys = s.keys
        /\ r.stopped = s.stopped
    BY <1>3, <1>4, <2>1, WriteSound
  <2> HIDE DEF r
  <2>3. Present(r)
    BY <1>4, <2>2 DEF Present
  <2> QED
    BY <1>2, <1>3, <2>2, <2>3, PersisterStep
<1>6. CASE ~(dirty /\ ~stopped)
  <2>1. r = s
    BY <1>6
  <2>2. Sound(r)
    BY <1>3, <1>4, <1>6, <2>1 DEF Sound, Scheduled
  <2> QED
    BY <1>2, <1>3, <1>4, <2>1, <2>2, PersisterStep
<1> QED
  BY <1>5, <1>6

\* A cancelled flush unwinds.
LEMMA FlushUnwindsKeeps ==
    ASSUME PersistInv, FlushUnwinds
    PROVE  PersistInv'
<1> DEFINE s == [Now EXCEPT !.flush = "none"]
<1>1. Sound(Now) /\ Present(Now)
  BY DEF PersistInv
<1>2. s \in World /\ s.store = store /\ s.disk = disk /\ s.keys = keys
      /\ s.watched = watched /\ s.dirty = dirty /\ s.stopped = stopped
      /\ s.unsynced = unsynced /\ s.failed = failed /\ s.raced = raced
  BY <1>1, NowIs DEF Sound, World
<1>3. Become(s) /\ UNCHANGED <<applying, file, restoring, backup>>
      /\ flush = "cancelled"
  BY DEF FlushUnwinds
<1> HIDE DEF s
<1>4. Sound(s) /\ Present(s)
  BY <1>1, <1>2, <1>3, NowIs DEF Sound, Wired, Saved, Scheduled, Present
<1> QED
  BY <1>2, <1>3, <1>4, PersisterStep


\* The actions that leave the persister alone.
LEMMA OthersKeep ==
    ASSUME PersistInv,
           \/ \E p \in Projects : ApplyBegins(p)
           \/ ApplyEnds \/ ApplyFails \/ CreateBackup \/ RestoreReloads
    PROVE  PersistInv'
<1>1. UNCHANGED persister
  BY DEF ApplyBegins, ApplyEnds, ApplyFails, CreateBackup, RestoreReloads
<1>2. Now' = Now /\ keys' = keys /\ stopped' = stopped /\ disk' = disk
  BY <1>1 DEF persister, Now
<1>3. disk \in Image \cup {NoFile}
  BY NowIs DEF PersistInv, Sound, World
<1>4. CASE \E p \in Projects : ApplyBegins(p)
  <2>1. PICK p \in Projects : ApplyBegins(p)
    BY <1>4
  <2>2. Orderly'
    BY <1>2, <2>1 DEF ApplyBegins, PersistInv, Orderly
  <2> QED
    BY <1>2, <2>2 DEF PersistInv
<1>5. CASE ApplyEnds
  BY <1>2, <1>5 DEF ApplyEnds, PersistInv, Orderly
<1>6. CASE ApplyFails
  BY <1>2, <1>6 DEF ApplyFails, PersistInv, Orderly
<1>7. CASE CreateBackup
  BY <1>2, <1>3, <1>7 DEF CreateBackup, PersistInv, Orderly, applying
<1>8. CASE RestoreReloads
  BY <1>2, <1>8 DEF RestoreReloads, PersistInv, Orderly
<1> QED
  BY <1>4, <1>5, <1>6, <1>7, <1>8

\* The variables part of an apply.
LEMMA ApplyVariablesKeeps ==
    ASSUME PersistInv, NEW ok \in BOOLEAN, NEW okPrune \in BOOLEAN,
           ApplyVariables(ok, okPrune)
    PROVE  PersistInv'
<1> DEFINE f == Seeded(project, store)
           K == project.persist
           t == Put(Now, f)
           s == UpdateKeys(t, K, ok, okPrune)
<1>1. Sound(Now) /\ Orderly /\ store \in Image /\ project \in Projects
  BY NowIs DEF PersistInv, Orderly, Sound, World
<1>2. f \in Image /\ K \in SUBSET Var /\ \A k \in K : f[k] # Absent
  BY <1>1, SeededIs, ProjectOK
<1>3. \/ Become(s)
      \/ \E k \in project.vars, v \in Value : Become(Set(s, k, v))
  BY DEF ApplyVariables
<1>4. stage' = "reconciled" /\ UNCHANGED <<project, prev, loading, file, restoring, backup>>
  BY DEF ApplyVariables
<1> HIDE DEF f
<1>5. Sound(t) /\ t.store = f /\ t.stopped = stopped
  BY <1>1, <1>2, PutSound, NowIs
<1> HIDE DEF t
<1>6. Sound(s) /\ s.keys = K /\ s.watched = K /\ s.store = f /\ s.stopped = stopped
  BY <1>2, <1>5, UpdateKeysSound
<1> HIDE DEF s
<1>7. Present(s)
  BY <1>2, <1>6 DEF Present
<1>8. ASSUME NEW r, Sound(r), Present(r), r.keys = K, r.stopped = stopped, Become(r)
      PROVE  PersistInv'
  <2>1. Now' = r /\ keys' = K /\ stopped' = stopped
    BY <1>8, Becomes DEF Sound
  <2>2. Orderly'
    BY <1>1, <1>4, <2>1 DEF Orderly
  <2> QED
    BY <1>8, <2>1, <2>2 DEF PersistInv
<1>9. ASSUME NEW k \in project.vars, NEW v \in Value, Become(Set(s, k, v))
      PROVE  PersistInv'
  <2> DEFINE g == [f EXCEPT ![k] = v]
             r == Put(s, g)
  <2>1. g \in Image /\ \A j \in Var : g[j] = f[j] \/ g[j] # Absent
    BY <1>2, PersisterAssumption DEF Image
  <2>2. Become(r)
    BY <1>6, <1>9 DEF Set
  <2> HIDE DEF g
  <2>3. Sound(r) /\ r.store = g /\ r.watched = K /\ r.keys = K /\ r.stopped = stopped
    BY <1>6, <2>1, PutSound
  <2> HIDE DEF r
  <2>4. Present(r)
    BY <1>2, <2>1, <2>3 DEF Present
  <2> QED
    BY <1>8, <2>2, <2>3, <2>4
<1> QED
  BY <1>3, <1>6, <1>7, <1>8, <1>9

\* Stopping the persister, for a restore or a shutdown, and replacing
\* state.json.
LEMMA StopStep ==
    ASSUME PersistInv, NEW ok \in BOOLEAN, NEW d \in Image \cup {NoFile},
           LET s == Stop(Now, ok)
           IN  Become(s) \/ Become([s EXCEPT !.disk = d])
    PROVE  /\ Sound(Now)' /\ Present(Now)' /\ keys' = keys /\ stopped'
<1> DEFINE s == Stop(Now, ok)
           r == [s EXCEPT !.disk = d]
<1>1. Sound(s) /\ s.stopped /\ s.watched = {} /\ s.keys = keys
  BY StopSound, NowIs DEF PersistInv
<1>2. Become(s) \/ Become(r)
  OBVIOUS
<1> HIDE DEF s
<1>3. r \in World /\ r.stopped /\ r.watched = {} /\ r.keys = keys
  BY <1>1 DEF Sound, World
<1> HIDE DEF r
<1>4. Sound(r)
  BY <1>3 DEF Sound, Wired, Saved, Scheduled
<1>5. Now' \in {s, r} /\ keys' = keys /\ stopped'
  BY <1>1, <1>2, <1>3, Becomes DEF Sound
<1>6. Present(s) /\ Present(r)
  BY <1>1, <1>3 DEF Present
<1>7. Sound(Now') /\ Present(Now')
  BY <1>1, <1>4, <1>5, <1>6
<1> QED
  BY <1>5, <1>7

\* The first half of a restore, failing or not, and a shutdown.
LEMMA StopsKeep ==
    ASSUME PersistInv, NEW ok \in BOOLEAN,
           RestoreFiles(ok) \/ RestoreFilesFails(ok) \/ Shutdown(ok)
    PROVE  PersistInv'
<1>1. Orderly /\ backup.image \in Image \cup {NoFile} /\ backup.project \in Projects
  BY DEF PersistInv, Orderly
<1>2. LET s == Stop(Now, ok)
      IN  Become(s) \/ Become([s EXCEPT !.disk = backup.image])
  BY DEF RestoreFiles, RestoreFilesFails, Shutdown
<1>3. Sound(Now)' /\ Present(Now)' /\ keys' = keys /\ stopped'
  BY <1>1, <1>2, StopStep
<1>4. Orderly'
  BY <1>1, <1>3 DEF Orderly, RestoreFiles, RestoreFilesFails, Shutdown, applying
<1> QED
  BY <1>3, <1>4 DEF PersistInv


\* The end of a restore.
LEMMA RestoreEndsKeeps ==
    ASSUME PersistInv, NEW how \in Readings, NEW ok \in BOOLEAN, RestoreEnds(how, ok)
    PROVE  PersistInv'
<1> DEFINE K == project.persist
           f == Reapplied(project, Load(disk, how), store)
           U == IF how = "failed" THEN keys ELSE {}
           a == [Now EXCEPT !.disk = Loaded(@, how), !.unsynced = U]
           b == Put(a, f)
           c == Stop(b, ok)
           d == Watch(c, K)
<1>1. Sound(Now) /\ Present(Now) /\ Orderly
  BY DEF PersistInv
<1>2. project \in Projects /\ K = keys /\ stopped /\ K \in SUBSET Var
  BY <1>1, ProjectOK DEF Orderly, RestoreEnds
<1>3. Become(d) /\ UNCHANGED <<project, file, backup>>
      /\ stage' = "idle" /\ prev' = project /\ loading' = FALSE /\ restoring' = FALSE
  BY NowIs DEF RestoreEnds
<1>4. disk \in Image \cup {NoFile} /\ store \in Image
  BY <1>1, NowIs DEF Sound, World
<1>5. /\ f \in Image
      /\ \A k \in K : f[k] # Absent
      /\ how # "failed" => \A k \in K : Back(Loaded(disk, how), k) = f[k]
  BY <1>2, <1>4, ReappliedIs
<1>6. Loaded(disk, how) \in Image \cup {NoFile}
  BY <1>4, LoadIs
<1> HIDE DEF f
<1>7. a \in World /\ a.disk = Loaded(disk, how) /\ a.unsynced = U /\ a.keys = keys
      /\ a.watched = watched /\ a.stopped = stopped
  BY <1>1, <1>2, <1>6, NowIs DEF Sound, World
<1> HIDE DEF a
<1>8. Sound(a)
  BY <1>1, <1>2, <1>7, NowIs DEF Sound, Wired, Saved, Scheduled
<1>9. Sound(b) /\ b.store = f /\ b.keys = K /\ b.disk = Loaded(disk, how)
      /\ b.unsynced = U
  BY <1>2, <1>5, <1>7, <1>8, PutSound
<1> HIDE DEF b
<1>10. /\ Sound(c) /\ c.store = f /\ c.keys = K /\ (c.dirty => c.failed)
       /\ c.dirty \/ (c.disk = b.disk /\ c.unsynced = b.unsynced) \/ Saves(b, c.disk)
  BY <1>9, StopSound
<1> HIDE DEF c
<1>11. d \in World /\ d.keys = K /\ d.watched = K /\ d.stopped = FALSE
       /\ d.store = f /\ d.dirty = c.dirty /\ d.failed = c.failed
       /\ d.disk = c.disk /\ d.unsynced = c.unsynced
  BY <1>2, <1>10 DEF Watch, Sound, World
<1> HIDE DEF d
<1>12. Saved(d)
  <2>1. CASE c.dirty
    BY <1>11, <2>1 DEF Saved
  <2>2. CASE c.disk = b.disk /\ c.unsynced = b.unsynced
    BY <1>2, <1>5, <1>9, <1>11, <2>2 DEF Saved
  <2>3. CASE Saves(b, c.disk)
    BY <1>9, <1>11, <2>3 DEF Saved, Saves
  <2> QED
    BY <1>10, <2>1, <2>2, <2>3
<1>13. Sound(d) /\ Present(d)
  BY <1>5, <1>10, <1>11, <1>12 DEF Sound, Wired, Scheduled, Present
<1>14. Now' = d
  BY <1>3, <1>11, Becomes
<1>15. Orderly'
  BY <1>1, <1>2, <1>3 DEF Orderly
<1> QED
  BY <1>13, <1>14, <1>15 DEF PersistInv

\* A boot from whatever the files hold.
LEMMA BootKeeps ==
    ASSUME PersistInv, NEW how \in Readings, Boot(how)
    PROVE  PersistInv'
<1> DEFINE f == Initial(file, Load(disk, how))
           U == IF how = "failed" THEN file.persist ELSE {}
           s == [store |-> f, disk |-> Loaded(disk, how), keys |-> file.persist,
                 watched |-> file.persist, dirty |-> FALSE, stopped |-> FALSE,
                 flush |-> "none", unsynced |-> U, failed |-> FALSE, raced |-> FALSE]
<1>1. Orderly /\ disk \in Image \cup {NoFile}
  BY NowIs DEF PersistInv, Sound, World
<1>2. file \in Projects /\ file.persist \in SUBSET Var
  BY <1>1, ProjectOK DEF Orderly
<1>3. /\ f \in Image
      /\ \A k \in file.persist : f[k] # Absent
      /\ how # "failed" => \A k \in file.persist : Back(Loaded(disk, how), k) = f[k]
  BY <1>1, <1>2, InitialIs
<1>4. Loaded(disk, how) \in Image \cup {NoFile}
  BY <1>1, LoadIs
<1>5. Now' = s
  BY DEF Boot, Now
<1> HIDE DEF f
<1>6. s \in World
  BY <1>2, <1>3, <1>4 DEF World
<1>7. Sound(s) /\ Present(s)
  BY <1>3, <1>6 DEF Sound, Wired, Saved, Scheduled, Present
<1>8. Orderly'
  BY <1>1, <1>2 DEF Boot, Orderly
<1> HIDE DEF s
<1> QED
  BY <1>5, <1>7, <1>8 DEF PersistInv

-----------------------------------------------------------------------------
(* The theorems *)

\* PersistInv holds in every reachable state.
LEMMA Invariance == Spec => []PersistInv
<1>1. PersistInv /\ [Next]_vars => PersistInv'
  <2> SUFFICES ASSUME PersistInv, [Next]_vars PROVE PersistInv'
    OBVIOUS
  <2>1. Outcomes \subseteq BOOLEAN
    BY PersisterAssumption
  <2>2. CASE \E k \in Var, v \in Value : SetVariable(k, v)
    BY <2>2, SetVariableKeeps
  <2>3. CASE \E ok \in Outcomes : FlushRuns(ok)
    BY <2>1, <2>3, FlushRunsKeeps
  <2>4. CASE FlushUnwinds
    BY <2>4, FlushUnwindsKeeps
  <2>5. CASE \E p \in Projects : ApplyBegins(p)
    BY <2>5, OthersKeep
  <2>6. CASE \E ok, okPrune \in Outcomes : ApplyVariables(ok, okPrune)
    BY <2>1, <2>6, ApplyVariablesKeeps
  <2>7. CASE ApplyEnds \/ ApplyFails \/ CreateBackup \/ RestoreReloads
    BY <2>7, OthersKeep
  <2>8. CASE \E ok \in Outcomes : RestoreFiles(ok) \/ RestoreFilesFails(ok)
    BY <2>1, <2>8, StopsKeep
  <2>9. CASE \E how \in Readings, ok \in Outcomes : RestoreEnds(how, ok)
    BY <2>1, <2>9, RestoreEndsKeeps
  <2>10. CASE \E ok \in Outcomes : Shutdown(ok)
    BY <2>1, <2>10, StopsKeep
  <2>11. CASE \E how \in Readings : Boot(how)
    BY <2>11, BootKeeps
  <2>12. CASE UNCHANGED vars
    <3>1. Now' = Now
      BY <2>12 DEF vars, persister, Now
    <3>2. Orderly'
      BY <2>12 DEF PersistInv, Orderly, vars, persister, applying
    <3> QED
      BY <3>1, <3>2 DEF PersistInv
  <2> QED
    BY <2>2, <2>3, <2>4, <2>5, <2>6, <2>7, <2>8, <2>9, <2>10, <2>11, <2>12 DEF Next
<1> QED
  BY InitInv, <1>1, PTL DEF Spec

\* Type correctness of the persister and of what the engine does to it.
THEOREM PersisterTyped == Spec => []TypeOK
<1>1. PersistInv => TypeOK
  BY NowIs DEF PersistInv, Orderly, Sound, Wired, World, TypeOK
<1> QED
  BY Invariance, <1>1, PTL

\* Once nothing is dirty a crash loses nothing (CrashLosesNothing): the
\* writes, cancellations and rewiring of _write, update_keys, stop and start
\* never leave a watched variable with a stale saved value and no write due.
THEOREM NothingLost == Spec => []CrashLosesNothing
<1>1. PersistInv => CrashLosesNothing
  <2> SUFFICES ASSUME PersistInv, ~stopped, ~dirty, NEW k \in watched \ unsynced
               PROVE  AfterRestart(k) = store[k]
    BY DEF CrashLosesNothing
  <2>1. Back(disk, k) = store[k] /\ k \in Var
    BY NowIs DEF PersistInv, Sound, World, Saved, Present
  <2>2. [j \in Var |-> Absent][k] = Absent
    BY <2>1
  <2>3. AfterRestart(k) = Back(disk, k)
    BY <2>2 DEF AfterRestart, Load, Back
  <2> QED
    BY <2>1, <2>3
<1> QED
  BY Invariance, <1>1, PTL

\* What is dirty is about to be written (FlushScheduled): cancelling the
\* debounced flush in update_keys and stop strands no change but one that
\* failed to be written or came before the cancellation unwound.
THEOREM ChangesAreScheduled == Spec => []FlushScheduled
<1>1. PersistInv => FlushScheduled
  BY NowIs DEF PersistInv, Sound, Scheduled, FlushScheduled
<1> QED
  BY Invariance, <1>1, PTL

=============================================================================
