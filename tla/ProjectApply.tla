----------------------------- MODULE ProjectApply -----------------------------
(* How a project change enters the engine (core/engine.py): every change is *)
(* saved, swapped in and reconciled under one lock, and a plugin saves its   *)
(* own configuration in place, now or once the lock is free.                 *)
(*                                                                           *)
(* A section of the project is the version it holds: every change writes a   *)
(* version of its own.  "ui" stands for the sections that nothing running    *)
(* follows; macros carry the triggers.  One plugin, always enabled.          *)
EXTENDS Naturals, Sequences

CONSTANTS Client,       \* sessions of the Programmer, tools, wizards
          MaxVersions,  \* bound: changes asked for
          MaxFails,     \* bound: saves and reconciles that fail
          MaxRestarts   \* bound: restarts of the server

ASSUME Bounds == MaxVersions \in Nat /\ MaxFails \in Nat /\ MaxRestarts \in Nat
ASSUME Names == Client \cap {"plugin", "hook", "flusher"} = {}

Section == {"devices", "macros", "plugins", "ui"}
Running == Section \ {"ui"}
Version == 0..MaxVersions
Project == [Section -> Version]
Whole(v) == [s \in Section |-> v]

VARIABLES
  project,    \* Engine.project
  disk,       \* the project file
  rev,        \* _project_revision: <<boot id, count>>
  runs,       \* what the devices, the macros, the plugin and the triggers run
  client,     \* the project and the ETag each client read or was answered
  line,       \* callers waiting for _reload_lock, in order
  op,         \* the one that holds it
  queue,      \* _bookkeeping_queue: the config each deferred save replaced
  withdrawn,  \* history: tokens of failed applies
  past,       \* history: what went wrong and was not made good
  count       \* versions, fails and restarts so far

vars == <<project, disk, rev, runs, client, line, op, queue, withdrawn, past, count>>

NoToken == <<0, 0>>
Token   == (1 .. MaxRestarts + 1) \X (0..MaxVersions)

(* "edit" is apply_project_edit, "put" an apply_project with If-Match,       *)
(* "setup" one of a stale copy without, "load" a whole new project,          *)
(* "reload" the file again; "save" and "flush" are bookkeeping.              *)
Edits    == {"put", "edit", "setup"}
Changes  == Edits \cup {"load"}
Bookkeeping == {"save", "flush"}
Plugin   == {"plugin", "hook", "flusher"}
Steps    == {"stop", "devices", "plugins", "macros", "start"}
Rank     == [stop |-> 1, devices |-> 2, plugins |-> 3, macros |-> 4, start |-> 5]
Pasts    == {"kept", "broken", "unsaved", "crossed"}

Job(kind, by, only, new, token, was) ==
  [kind |-> kind, by |-> by, only |-> only, new |-> new, token |-> token, was |-> was]
Nothing == <<0, 0>>
Flush == Job("flush", "flusher", {"plugins"}, Whole(0), NoToken, Nothing)

Idle == [job |-> Flush, stage |-> "idle", new |-> Whole(0), prev |-> Whole(0),
         back |-> NoToken, dirty |-> {}, todo |-> {}, batch |-> <<>>]

Jobs == [kind: Changes \cup Bookkeeping \cup {"reload"}, by: Client \cup Plugin,
         only: SUBSET Section, new: Project, token: Token \cup {NoToken},
         was: Version \X Version]
Ops  == [job: Jobs, stage: {"idle", "saving", "reconcile", "rollback"}, new: Project,
         prev: Project, back: Token \cup {NoToken}, dirty: SUBSET Section,
         todo: SUBSET Steps, batch: Seq(Version)]

Follower == [devices: Version, macros: Version, plugins: Version, triggers: SUBSET Version]
Counts   == [versions: Version, fails: 0..MaxFails, restarts: 0..MaxRestarts]

Fresh == count.versions + 1
Made  == /\ count.versions < MaxVersions
         /\ count' = [count EXCEPT !.versions = @ + 1]
Failed == /\ count.fails < MaxFails
          /\ count' = [count EXCEPT !.fails = @ + 1]

Waits(b) == \E i \in DOMAIN line : line[i].by = b
Holds(b) == op.stage # "idle" /\ op.job.by = b
Busy(b)  == Waits(b) \/ Holds(b)

-----------------------------------------------------------------------------
(* What a client asks for.                                                   *)

Ask(j) == /\ Made
          /\ line' = Append(line, j)
          /\ UNCHANGED <<project, rev, client, op, queue, withdrawn, past>>

Get(c) == /\ ~Busy(c)
          /\ client' = [client EXCEPT ![c] = [copy |-> project, token |-> rev]]
          /\ UNCHANGED <<project, disk, rev, runs, line, op, queue, withdrawn, past, count>>

Put(c, s) ==
  /\ ~Busy(c)
  /\ client[c].token # NoToken
  /\ Ask(Job("put", c, {s}, [client[c].copy EXCEPT ![s] = Fresh], client[c].token, Nothing))
  /\ UNCHANGED <<disk, runs>>

Edit(c, s) ==
  /\ ~Busy(c)
  /\ Ask(Job("edit", c, {s}, Whole(Fresh), NoToken, Nothing))
  /\ UNCHANGED <<disk, runs>>

Setup(c) ==   \* the live device has the change before the project does
  /\ ~Busy(c)
  /\ Ask(Job("setup", c, {"devices"}, [project EXCEPT !["devices"] = Fresh], NoToken, Nothing))
  /\ runs' = [runs EXCEPT !.devices = Fresh]
  /\ UNCHANGED disk

Load(c) ==
  /\ ~Busy(c)
  /\ \E t \in {NoToken, client[c].token} : Ask(Job("load", c, Section, Whole(Fresh), t, Nothing))
  /\ UNCHANGED <<disk, runs>>

Reload(c) ==
  /\ ~Busy(c)
  /\ Ask(Job("reload", c, Section, Whole(0), NoToken, Nothing))
  /\ UNCHANGED <<disk, runs>>

Restore(c) ==   \* the backup is on disk before the lock is asked for
  /\ ~Busy(c)
  /\ Ask(Job("reload", c, Section, Whole(0), NoToken, Nothing))
  /\ disk' = Whole(Fresh)
  /\ UNCHANGED runs

-----------------------------------------------------------------------------
(* The plugin saves its configuration, possibly from a hook that the         *)
(* reconcile awaits.                                                         *)

\* mutant: the hook's save waits for the lock its caller holds
NeverLocked == FALSE
Locked == op.stage # "idle"

Due(x) == x \in op.todo /\ \A y \in op.todo : Rank[x] <= Rank[y]
Hooked == op.stage # "idle" /\ Due("plugins")

(* mutate(self.project) at once, the persist deferred.                       *)
SaveConfigLater ==
  /\ Locked
  /\ Made
  /\ runs' = [runs EXCEPT !.plugins = Fresh]
  /\ project' = [project EXCEPT !["plugins"] = Fresh]
  /\ queue' = Append(queue, project["plugins"])
  /\ UNCHANGED <<disk, rev, client, line, op, withdrawn, past>>

(* _flush_bookkeeping starts, or goes round its loop again.                  *)
JoinFlush ==
  /\ queue # <<>>
  /\ ~Busy("flusher")
  /\ line' = Append(line, Flush)
  /\ UNCHANGED <<project, disk, rev, runs, client, op, queue, withdrawn, past, count>>

SaveConfigNow ==
  /\ ~Locked
  /\ \E by \in {"plugin"} \cup (IF Hooked THEN {"hook"} ELSE {}) :
       Ask(Job("save", by, {"plugins"}, Whole(Fresh), NoToken,
               <<project["plugins"], runs.plugins>>))
  /\ runs' = [runs EXCEPT !.plugins = Fresh]
  /\ UNCHANGED disk

-----------------------------------------------------------------------------
(* Under the lock.                                                           *)

First == Head(line)
Turn(kinds) == /\ op.stage = "idle"
               /\ line # <<>>
               /\ First.kind \in kinds

\* mutant: the token without the run's id
CurrentCount(j) == j.token = NoToken \/ j.token[2] = rev[2]
Current(j) == j.token \in {NoToken, rev}

Refuse ==   \* 409
  /\ Turn(Changes)
  /\ ~Current(First)
  /\ line' = Tail(line)
  /\ UNCHANGED <<project, disk, rev, runs, client, op, queue, withdrawn, past, count>>

Save(job, new, batch) ==
  [Idle EXCEPT !.job = job, !.stage = "saving", !.new = new, !.batch = batch]

Overlay(j) == [s \in Section |-> IF s \in j.only THEN j.new[s] ELSE project[s]]

TakeChange ==
  /\ Turn(Changes)
  /\ Current(First)
  /\ op' = Save(First, IF First.kind = "edit" THEN Overlay(First) ELSE First.new, <<>>)
  /\ line' = Tail(line)
  /\ UNCHANGED <<project, disk, rev, runs, client, queue, withdrawn, past, count>>

Rebuild(dirty) == IF dirty \cap Running = {} THEN {} ELSE {"stop", "start"}
Todo(dirty) == (dirty \cap Running) \cup Rebuild(dirty)

Reconcile(job, new, dirty) ==
  [Idle EXCEPT !.job = job, !.stage = "reconcile", !.new = new, !.prev = project,
               !.back = rev, !.dirty = dirty, !.todo = Todo(dirty)]

(* The new project is in place, and its token, before anything runs it.      *)
Swap(job, new, dirty) ==
  /\ project' = new
  /\ rev' = <<rev[1], rev[2] + 1>>
  /\ op' = Reconcile(job, new, dirty)
  /\ past' = past \ {"kept"}

TakeReload ==
  /\ Turn({"reload"})
  /\ Swap(First, disk, Section)
  /\ line' = Tail(line)
  /\ UNCHANGED <<disk, runs, client, queue, withdrawn, count>>

Writing(cfg, batch) ==
  /\ project' = [project EXCEPT !["plugins"] = cfg]
  /\ op' = Save(First, project', batch)
  /\ line' = Tail(line)

TakeSave ==   \* the configuration as captured
  /\ Turn({"save"})
  /\ Writing(First.new["plugins"], <<>>)
  /\ past' = past \cup IF runs.plugins = First.new["plugins"] THEN {} ELSE {"crossed"}
  /\ UNCHANGED <<disk, rev, runs, client, queue, withdrawn, count>>

\* mutant: the queue is not cleared
TakeFlushAgain ==
  /\ Turn({"flush"})
  /\ Writing(runs.plugins, queue)
  /\ UNCHANGED <<disk, rev, runs, client, queue, withdrawn, past, count>>

TakeFlush ==   \* the configuration the plugin runs with by now
  /\ Turn({"flush"})
  /\ Writing(runs.plugins, queue)
  /\ queue' = <<>>
  /\ UNCHANGED <<disk, rev, runs, client, withdrawn, past, count>>

Dirty(new) == {s \in Section : new[s] # project[s]}

SavedChange ==
  /\ op.stage = "saving"
  /\ op.job.kind \in Changes
  /\ disk' = op.new
  /\ Swap(op.job, op.new, IF op.job.kind = "load" THEN Section ELSE Dirty(op.new))
  /\ UNCHANGED <<runs, client, line, queue, withdrawn, count>>

(* The worker thread reads the live project, which may have changed again.   *)
\* mutant: the queue is cleared after the save
SavedConfigClears ==
  /\ op.stage = "saving"
  /\ op.job.kind \in Bookkeeping
  /\ disk' \in {op.new, project}
  /\ rev' = <<rev[1], rev[2] + 1>>
  /\ past' = past \ {"kept"}
  /\ op' = Idle
  /\ queue' = <<>>
  /\ UNCHANGED <<project, runs, client, line, withdrawn, count>>

SavedConfig ==
  /\ op.stage = "saving"
  /\ op.job.kind \in Bookkeeping
  /\ disk' \in {op.new, project}
  /\ rev' = <<rev[1], rev[2] + 1>>
  /\ past' = past \ {"kept"}
  /\ op' = Idle
  /\ UNCHANGED <<project, runs, client, line, queue, withdrawn, count>>

ChangeFails ==
  /\ op.stage = "saving"
  /\ op.job.kind \in Changes
  /\ Failed
  /\ op' = Idle
  /\ past' = past \cup IF op.job.kind = "setup" THEN {"unsaved"} ELSE {}
  /\ UNCHANGED <<project, disk, rev, runs, client, line, queue, withdrawn>>

ConfigFails ==   \* on_error
  /\ op.stage = "saving"
  /\ op.job.kind \in Bookkeeping
  /\ Failed
  /\ IF op.job.kind = "save"
     THEN /\ project' = [project EXCEPT !["plugins"] = op.job.was[1]]
          /\ runs' = [runs EXCEPT !.plugins = op.job.was[2]]
     ELSE /\ project' = [project EXCEPT !["plugins"] = Head(op.batch)]
          /\ UNCHANGED runs
  /\ past' = past \cup {"unsaved"}
  /\ op' = Idle
  /\ UNCHANGED <<disk, rev, client, line, queue, withdrawn>>

-----------------------------------------------------------------------------
(* The reconcile, and the rollback after a step of it failed.                *)

Effect(x) == [runs EXCEPT
  !.devices = IF x = "devices" THEN project["devices"] ELSE @,
  !.plugins = IF x = "plugins" THEN project["plugins"] ELSE @,
  !.macros  = IF x = "macros"  THEN project["macros"]  ELSE @,
  !.triggers = IF x = "stop" THEN {} ELSE IF x = "start" THEN {project["macros"]} ELSE @]

Step(x) ==
  /\ op.stage \in {"reconcile", "rollback"}
  /\ Due(x)
  /\ x = "plugins" => ~Waits("hook")
  /\ runs' = Effect(x)
  /\ op' = [op EXCEPT !.todo = @ \ {x}]
  /\ UNCHANGED <<project, disk, rev, client, line, queue, withdrawn, past, count>>

(* The same sections again; the triggers are stopped, loaded and started at  *)
(* the end.                                                                  *)
\* mutant: the triggers stay stopped
UndoneQuietly(dirty) == dirty \cap Running
Undone(dirty) == Todo(dirty) \ {"stop"}

StepFails ==
  /\ op.stage = "reconcile"
  /\ op.todo # {}
  /\ Failed
  /\ project' = op.prev
  /\ rev' = op.back
  /\ withdrawn' = withdrawn \cup {rev}
  /\ past' = past \cup {"kept"}
  /\ op' = [op EXCEPT !.stage = "rollback", !.todo = Undone(op.dirty)]
  /\ UNCHANGED <<disk, runs, client, line, queue>>

RollbackFails ==
  /\ op.stage = "rollback"
  /\ op.todo # {}
  /\ Failed
  /\ op' = Idle
  /\ past' = past \cup {"broken"}
  /\ UNCHANGED <<project, disk, rev, runs, client, line, queue, withdrawn>>

Finish ==
  /\ op.stage \in {"reconcile", "rollback"}
  /\ op.todo = {}
  /\ op' = Idle
  /\ client' = IF op.stage = "reconcile" /\ op.job.kind = "put"
               THEN [client EXCEPT ![op.job.by] = [copy |-> op.new, token |-> rev]]
               ELSE client
  /\ past' = IF op.stage = "reconcile" /\ op.dirty = Section /\ op.job.kind \in {"load", "reload"}
             THEN past \ {"broken", "unsaved", "crossed"} ELSE past
  /\ UNCHANGED <<project, disk, rev, runs, line, queue, withdrawn, count>>

-----------------------------------------------------------------------------
RunsAll(p) == [devices |-> p["devices"], macros |-> p["macros"],
               plugins |-> p["plugins"], triggers |-> {p["macros"]}]

(* The server stops at any moment; clients keep what they read.              *)
Restart ==
  /\ count.restarts < MaxRestarts
  /\ count' = [count EXCEPT !.restarts = @ + 1]
  /\ project' = disk
  /\ rev' = <<rev[1] + 1, 0>>
  /\ runs' = RunsAll(disk)
  /\ line' = <<>>
  /\ op' = Idle
  /\ queue' = <<>>
  /\ past' = {}
  /\ UNCHANGED <<disk, client, withdrawn>>

Init ==
  /\ project = Whole(0)
  /\ disk = project
  /\ rev = <<1, 0>>
  /\ runs = RunsAll(project)
  /\ client = [c \in Client |-> [copy |-> project, token |-> NoToken]]
  /\ line = <<>>
  /\ op = Idle
  /\ queue = <<>>
  /\ withdrawn = {}
  /\ past = {}
  /\ count = [versions |-> 0, fails |-> 0, restarts |-> 0]

Asks(c) == \/ Get(c) \/ Setup(c) \/ Load(c) \/ Reload(c) \/ Restore(c)
           \/ \E s \in Section : Put(c, s) \/ Edit(c, s)

Work == \/ Refuse \/ TakeChange \/ TakeReload \/ TakeSave \/ TakeFlush
        \/ SavedChange \/ SavedConfig \/ ChangeFails \/ ConfigFails
        \/ \E x \in Steps : Step(x)
        \/ StepFails \/ RollbackFails \/ Finish

Next == \/ \E c \in Client : Asks(c)
        \/ SaveConfigLater \/ SaveConfigNow \/ JoinFlush
        \/ Work
        \/ Restart

Spec == Init /\ [][Next]_vars

(* Whoever holds the lock or is next to runs on, without a failure to help,  *)
(* and a task that was created starts.                                       *)
Unfailing == Work /\ UNCHANGED count.fails
FairSpec == Spec /\ WF_vars(Unfailing) /\ WF_vars(JoinFlush)

-----------------------------------------------------------------------------
(* Types; no change mints more than one token.                               *)
TypeOK ==
  /\ project \in Project
  /\ disk \in Project
  /\ rev \in Token
  /\ runs \in Follower
  /\ client \in [Client -> [copy: Project, token: Token \cup {NoToken}]]
  /\ line \in Seq(Jobs)
  /\ op \in Ops
  /\ queue \in Seq(Version)
  /\ withdrawn \subseteq Token
  /\ past \subseteq Pasts
  /\ count \in Counts

Quiet == op.stage = "idle" /\ line = <<>> /\ queue = <<>>

(* A client that changes one section never puts another back to what it was: *)
(* not after a reload, a restart, a failed apply or a save that overtook it. *)
(* Two ways the code has to do so are left out: the token of a failed apply, *)
(* which a GET may have answered and which is minted again, and a plugin     *)
(* configuration saved while the lock was held, or whose save failed.        *)
NoSilentRevert ==
  [][ (op.stage = "saving" /\ op'.stage = "reconcile" /\ op.job.kind \in {"put", "edit"})
      => \A s \in Section \ op.job.only :
           \/ project'[s] = project[s]
           \/ op.job.token \in withdrawn
           \/ s = "plugins" /\ (queue # <<>> \/ "unsaved" \in past) ]_vars

(* When nobody changes the project, the file is the project: a restart would *)
(* start what runs now.  A failed apply leaves its bytes until the next save,  *)
(* and the undo of a failed bookkeeping save goes by what was in memory.     *)
DiskKeeps == (Quiet /\ past \cap {"kept", "unsaved"} = {}) => disk = project

(* When nobody changes the project, it is what runs: the devices, the        *)
(* macros, the plugin and the triggers.                                      *)
RuntimeFollows ==
  (Quiet /\ past \cap {"broken", "unsaved", "crossed"} = {}) => runs = RunsAll(project)

(* Every change asked for ends, and every deferred save is tried: nobody     *)
(* waits for the lock under the lock.                                        *)
SavesEnd == /\ \A c \in Client : Busy(c) ~> ~Busy(c)
            /\ queue # <<>> ~> queue = <<>>

(* A change of another section leaves the plugin the configuration it runs   *)
(* with.                                                                     *)
LiveConfigStays ==
  [][ (/\ op.stage = "reconcile" /\ op.job.kind \in {"put", "edit"}
       /\ op'.todo # op.todo /\ "plugins" \notin op.job.only)
      => runs'.plugins = runs.plugins ]_vars
=============================================================================
