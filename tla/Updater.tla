------------------------------ MODULE Updater ------------------------------
(***************************************************************************)
(* The self-update of a Linux install: openavc/updater/manager.py and      *)
(* rollback.py in the server, the start of the server in openavc/main.py,  *)
(* and installer/update-helper.sh, which systemd runs as root before every *)
(* start of the service.                                                   *)
(*                                                                         *)
(* They share nothing but files: the install directory and its snapshot,   *)
(* and in the data directory the instruction to update, the update put off *)
(* after a failure, the instruction to roll back, the pending-update       *)
(* marker and the update history.  The power may go, or the service be     *)
(* killed, between any two steps, and then only the files remain.  The     *)
(* marker, the history row and the instruction of one apply are written    *)
(* without an await in between and are one step here, and a restore of the *)
(* backup, an rm and an mv are taken to succeed.                           *)
(*                                                                         *)
(*   down       systemd is about to start the service                      *)
(*   check      the helper has an instruction to update                    *)
(*   snapshot   cp -a of the install to .previous                          *)
(*   extract    tar into .new                                              *)
(*   migrate    the venv is to be moved into .new                          *)
(*   swap       rm -rf of the install                                      *)
(*   promote    mv of .new into its place                                  *)
(*   place      the helper is to be copied to where systemd looks for it   *)
(*   sync       pip installs what the release requires                     *)
(*   recover    rm -rf of the install and mv of .previous, after a failure *)
(*   defer      the failed update is to be put off                         *)
(*   aside      a rollback: the install is moved away                      *)
(*   back       ... and .previous is to take its place                     *)
(*   python     the server process starts                                  *)
(*   restoring  it is to be rolled back: the data of the backup            *)
(*   reverting  ... and then the instruction                               *)
(*   leaving    ... and then the marker, and the process ends              *)
(*   starting   engine.start(), the project not yet loaded                 *)
(*   loaded     engine.start(), the project loaded and migrated            *)
(*   recorded   engine.start(), the update manager has read its history    *)
(*   up         engine.start() returned and the start is confirmed         *)
(*   stuck      engine.start() raised, and the process goes on without     *)
(***************************************************************************)
EXTENDS Naturals

CONSTANTS
    MaxVersion,     \* versions are numbers; each has a data format of its own
    DiesEarly,      \* versions that end before they look at the marker
    DiesLate,       \* versions that end in engine.start()
    Fails,          \* versions whose engine.start() raises
    MaxAttempts,    \* MAX_UPDATE_ATTEMPTS
    MaxUpdates,     \* bound: updates begun
    MaxStops        \* bound: power cuts and kills

Version == 1..MaxVersion

ASSUME UpdaterAssumption ==
    /\ MaxVersion \in Nat \ {0}
    /\ DiesEarly \subseteq Version /\ DiesLate \subseteq Version
    /\ Fails \subseteq Version
    /\ 1 \notin DiesEarly \cup DiesLate \cup Fails
    /\ MaxAttempts \in Nat \ {0} /\ MaxUpdates \in Nat /\ MaxStops \in Nat

None == 0

VARIABLES
    app,            \* $APP_DIR: what is left of which version
    previous,       \* $APP_DIR.previous
    staging,        \* $APP_DIR.new
    instr,          \* apply-update.json: the version it asks for, or None
    retry,          \* apply-update.retry
    revert,         \* apply-rollback is there
    marker,         \* the pending-update marker
    row,            \* the newest row of update-history.json
    fmt,            \* the data format the projects are in
    phase,
    tries,          \* RETRY_ATTEMPTS of the helper that is running
    job,            \* an update is being backed up and downloaded: its
                    \* version, or None (_update_in_progress)
    reverting,      \* a rollback by hand is in its backup
    exiting         \* _restart_process is scheduled

(* Bounds, and history that only properties read. *)
VARIABLES
    updates, stops,
    crashed,        \* a start of this OS boot ended early, none has come up since
    notes           \* what happened that the code does not make up for

files  == <<instr, retry, revert, marker, row, fmt>>
trees  == <<app, previous, staging>>
server == <<job, reverting, exiting>>
bounds == <<updates, stops>>
past   == <<crashed, notes>>
vars   == <<trees, files, phase, tries, server, bounds, past>>

-----------------------------------------------------------------------------
(* Trees.  The code is pyproject.toml and the package's directory, the modules  *)
(* what is in that directory; the venv is an interpreter that runs, the        *)
(* packages what is installed in it.  `good': this tree has been up (history). *)

Part == {"code", "modules", "venv", "packages", "helper"}
Tree == [ver : Version \cup {None}, parts : SUBSET Part, good : BOOLEAN]
NoTree == [ver |-> None, parts |-> {}, good |-> FALSE]

\* Mutant: any directory can be promoted.
ValidIfThere(tree) == TRUE

\* is_app_dir_valid does not look into the directories ...
Valid(tree) == {"code", "venv"} \subseteq tree.parts

\* ... and this is what the unit's ExecStart needs.
Whole(tree) == Part \ {"helper"} \subseteq tree.parts

\* What an interrupted cp -a or rm -rf of a tree may leave: a directory that is
\* there and half empty is the code without the modules.
Torn(tree) == {[tree EXCEPT !.parts = P] : P \in SUBSET tree.parts}

NoRetry == [to |-> None, attempts |-> 0]
NoMarker == [from |-> None, to |-> None, attempts |-> 0, sameBoot |-> FALSE,
             fmt |-> None]
NoRow == [from |-> None, to |-> None, status |-> "none", rollback |-> FALSE]

Row(from, to, status, rollback) ==
    [from |-> from, to |-> to, status |-> status, rollback |-> rollback]

Goto(ph) == phase' = ph

Note(condition, what) ==
    /\ notes' = IF condition THEN notes \cup {what} ELSE notes
    /\ UNCHANGED crashed

\* engine.start() is under way.
Starting == {"starting", "loaded", "recorded"}

-----------------------------------------------------------------------------
(* update-helper.sh *)

\* Mutants: a put-off update comes back behind a newer one, and for ever.
PromotedFirst == IF retry.to # None /\ retry.attempts < MaxAttempts
                 THEN retry.to ELSE instr
PromotedForever == IF instr = None THEN retry.to ELSE instr

\* promote_deferred_update: an update put off comes back unless a newer one is
\* asked for or its attempts are spent.
Promoted ==
    IF instr = None /\ retry.attempts < MaxAttempts THEN retry.to ELSE instr

\* The service starts without a helper that is not where the unit looks for it.
StartUnhelped ==
    /\ phase = "down" /\ "helper" \notin app.parts
    /\ Goto("python")
    /\ UNCHANGED <<trees, files, tries, server, bounds, past>>

\* An instruction to roll back wins.  handle_rollback gives up when the
\* snapshot is not there or does not pass the check.
StartRollback ==
    /\ phase = "down" /\ "helper" \in app.parts /\ revert
    /\ instr' = None /\ retry' = NoRetry
    /\ IF previous # NoTree /\ Valid(previous)
       THEN Goto("aside") /\ UNCHANGED <<revert, past>>
       ELSE Goto("python") /\ revert' = FALSE /\ Note(row.rollback, "refused")
    /\ UNCHANGED <<trees, marker, row, fmt, tries, server, bounds>>

StartHelper ==
    /\ phase = "down" /\ "helper" \in app.parts /\ ~revert
    /\ instr' = Promoted
    /\ tries' = IF instr = None /\ Promoted # None THEN retry.attempts ELSE 0
    /\ retry' = IF Promoted # None THEN NoRetry ELSE retry
    /\ Note(instr = None /\ Promoted # None, "deferred")
    /\ Goto(IF Promoted # None THEN "check" ELSE "python")
    /\ UNCHANGED <<trees, revert, marker, row, fmt, server, bounds>>

\* No artifact, or a signature that does not verify.
Refuse ==
    /\ phase = "check"
    /\ instr' = None
    /\ Goto("python")
    /\ UNCHANGED <<trees, retry, revert, marker, row, fmt, tries, server,
                   bounds, past>>

BeginSnapshot ==
    /\ phase = "check"
    /\ previous' = NoTree
    /\ Goto("snapshot")
    /\ UNCHANGED <<app, staging, files, tries, server, bounds, past>>

Snapshot ==
    /\ phase = "snapshot"
    /\ previous' = app /\ staging' = NoTree
    /\ Goto("extract")
    /\ UNCHANGED <<app, files, tries, server, bounds, past>>

Extract ==
    /\ phase = "extract"
    /\ staging' = [ver |-> instr, parts |-> {"code", "modules"}, good |-> FALSE]
    /\ Goto("migrate")
    /\ UNCHANGED <<app, previous, files, tries, server, bounds, past>>

\* cp or tar fails (a full disk, a bad archive): the install is as it was.
GiveUp ==
    /\ phase \in {"snapshot", "extract"}
    /\ previous' = NoTree /\ staging' = NoTree
    /\ instr' = None
    /\ Goto("python")
    /\ UNCHANGED <<app, retry, revert, marker, row, fmt, tries, server, bounds,
                   past>>

\* The venv, with what is installed in it.
Environment == {"venv", "packages"}

Migrate ==
    /\ phase = "migrate"
    /\ staging' = [staging EXCEPT !.parts = @ \cup (Environment \cap app.parts)]
    /\ app' = [app EXCEPT !.parts = @ \ Environment]
    /\ Goto("swap")
    /\ UNCHANGED <<previous, files, tries, server, bounds, past>>

Swap ==
    /\ phase = "swap"
    /\ app' = NoTree
    /\ Goto("promote")
    /\ UNCHANGED <<previous, staging, files, tries, server, bounds, past>>

Promote ==
    /\ phase = "promote"
    /\ app' = staging /\ staging' = NoTree
    /\ Goto("place")
    /\ UNCHANGED <<previous, files, tries, server, bounds, past>>

Place ==
    /\ phase = "place"
    /\ app' = [app EXCEPT !.parts = @ \cup {"helper"}]
    /\ Goto("sync")
    /\ UNCHANGED <<previous, staging, files, tries, server, bounds, past>>

\* A venv that is there is mended if it has to be; one that is not there is not
\* missed.
Sync ==
    /\ phase = "sync"
    /\ instr' = None
    /\ app' \in {app, [app EXCEPT !.parts = @ \cup Environment]}
    /\ Goto("python")
    /\ UNCHANGED <<previous, staging, retry, revert, marker, row, fmt, tries,
                   server, bounds, past>>

\* The venv cannot be rebuilt, or pip cannot reach its index.
SyncFails ==
    /\ phase = "sync"
    /\ Goto("recover")
    /\ UNCHANGED <<trees, files, tries, server, bounds, past>>

\* recover_from_snapshot
Recover ==
    /\ phase = "recover"
    /\ app' = previous /\ previous' = NoTree
    /\ Goto("defer")
    /\ UNCHANGED <<staging, files, tries, server, bounds, past>>

\* defer_update
Defer ==
    /\ phase = "defer"
    /\ retry' = [to |-> instr, attempts |-> tries + 1]
    /\ instr' = None
    /\ Goto("python")
    /\ UNCHANGED <<trees, revert, marker, row, fmt, tries, server, bounds, past>>

SetAside ==
    /\ phase = "aside"
    /\ app' = NoTree
    /\ Goto("back")
    /\ UNCHANGED <<previous, staging, files, tries, server, bounds, past>>

BringBack ==
    /\ phase = "back"
    /\ app' = previous /\ previous' = NoTree
    /\ revert' = FALSE
    /\ Goto("python")
    /\ UNCHANGED <<staging, instr, retry, marker, row, fmt, tries, server,
                   bounds, past>>

-----------------------------------------------------------------------------
(* The start of the server *)

Runs(tree) == Whole(tree) /\ tree.ver \notin DiesEarly

PythonDies ==
    /\ phase = "python" /\ ~Runs(app)
    /\ Goto("down")
    /\ UNCHANGED <<trees, files, tries, server, bounds, past>>

\* Mutants: attempts add up across OS boots; each start counts as the first.
AttemptsEver == marker.attempts + 1
AttemptsNever == 1

\* record_startup_attempt: a new OS boot counts from the beginning.
Attempts == IF marker.sameBoot THEN marker.attempts + 1 ELSE 1

Counted == [marker EXCEPT !.attempts = Attempts, !.sameBoot = TRUE]

\* check_rollback_needed, and what is left of other starts is swept away.
Check ==
    /\ phase = "python" /\ Runs(app)
    /\ marker' = IF marker = NoMarker THEN NoMarker ELSE Counted
    /\ IF marker # NoMarker /\ Attempts >= 2
       THEN Goto("restoring") /\ UNCHANGED <<instr, revert>>
       ELSE Goto("starting") /\ instr' = None /\ revert' = FALSE
    /\ UNCHANGED <<trees, retry, row, fmt, tries, server, bounds, past>>

\* Mutant: code goes back and data stays.
DataKept == fmt

\* restore_pre_update_data
DataRestored == marker.fmt

Restore ==
    /\ phase = "restoring"
    /\ fmt' = DataRestored
    /\ Note(app.ver # marker.to \/ app.good, "stale")
    /\ Goto("reverting")
    /\ UNCHANGED <<trees, instr, retry, revert, marker, row, tries, server,
                   bounds>>

\* _rollback_linux ...
Revert ==
    /\ phase = "reverting"
    /\ revert' = TRUE
    /\ Goto("leaving")
    /\ UNCHANGED <<trees, instr, retry, marker, row, fmt, tries, server, bounds,
                   past>>

\* ... to its end, and os._exit.
Leave ==
    /\ phase = "leaving"
    /\ marker' = NoMarker
    /\ Goto("down")
    /\ UNCHANGED <<trees, instr, retry, revert, row, fmt, tries, server, bounds,
                   past>>

\* A project of an older format is migrated, one of a newer is left as it is.
Load ==
    /\ phase = "starting"
    /\ fmt' = IF fmt < app.ver THEN app.ver ELSE fmt
    /\ Goto("loaded")
    /\ UNCHANGED <<trees, instr, retry, revert, marker, row, tries, server,
                   bounds, past>>

\* The update applied if the version runs that it was to, or no longer runs
\* that it was from.
Applied == app.ver = row.to \/ app.ver # row.from

Judged == [row EXCEPT !.status = IF Applied THEN "success" ELSE "failed"]

\* Mutant: an update that was undone stays a success.
ReconciledOnce == IF row.status = "pending" THEN Judged ELSE row

\* _load_history and _reconcile_reverted_update
Reconciled ==
    CASE row.status = "pending" -> Judged
      [] /\ row.status = "success" /\ ~row.rollback
         /\ row.from # row.to /\ app.ver = row.from ->
           [row EXCEPT !.status = "rolled_back"]
      [] OTHER -> row

LoadHistory ==
    /\ phase = "loaded"
    /\ row' = Reconciled
    /\ Goto("recorded")
    /\ UNCHANGED <<trees, instr, retry, revert, marker, fmt, tries, server,
                   bounds, past>>

\* confirm_startup
Confirmed == NoMarker

EngineUp ==
    /\ phase = "recorded" /\ app.ver \notin DiesLate \cup Fails
    /\ marker' = Confirmed
    /\ app' = [app EXCEPT !.good = TRUE]
    /\ crashed' = FALSE
    /\ Goto("up")
    /\ UNCHANGED <<previous, staging, instr, retry, revert, row, fmt, tries,
                   server, bounds, notes>>

EngineDies ==
    /\ phase \in Starting /\ app.ver \in DiesLate
    /\ crashed' = TRUE
    /\ Goto("down")
    /\ UNCHANGED <<trees, files, tries, server, bounds, notes>>

\* The exception is logged and the process goes on.
EngineFails ==
    /\ phase \in Starting /\ app.ver \in Fails
    /\ Goto("stuck")
    /\ UNCHANGED <<trees, files, tries, server, bounds, past>>

-----------------------------------------------------------------------------
(* The server that is up *)

\* apply_update and apply_cloud_update, from their first line on.  A pushed or
\* staged update may be to the version that runs.
BeginUpdate(v) ==
    /\ phase = "up" /\ job = None
    /\ updates < MaxUpdates /\ updates' = updates + 1
    /\ job' = v
    /\ Note(v < app.ver, "downgrade")
    /\ UNCHANGED <<trees, files, phase, tries, reverting, exiting, stops>>

\* The backup and the artifact are there: write_pending_marker, _apply_linux.
WriteUpdate ==
    /\ phase = "up" /\ job # None
    /\ marker' = [from |-> app.ver, to |-> job, attempts |-> 0,
                  sameBoot |-> TRUE, fmt |-> fmt]
    /\ instr' = job
    /\ row' = Row(app.ver, job, "pending", FALSE)
    /\ job' = None /\ exiting' = TRUE
    /\ Note(revert, "raced")
    /\ UNCHANGED <<trees, retry, revert, fmt, phase, tries, reverting, bounds>>

\* _cleanup_failed_apply
UpdateFails ==
    /\ phase = "up" /\ job # None
    /\ marker' = NoMarker /\ instr' = None
    /\ row' = Row(app.ver, job, "failed", FALSE)
    /\ job' = None
    /\ Note(revert, "raced")
    /\ UNCHANGED <<trees, retry, revert, fmt, phase, tries, reverting, exiting,
                   bounds>>

\* rollback(), up to its backup.
BeginRollback ==
    /\ phase = "up" /\ job = None /\ ~reverting /\ previous # NoTree
    /\ reverting' = TRUE
    /\ UNCHANGED <<trees, files, phase, tries, job, exiting, bounds, past>>

\* perform_rollback, whatever began during the backup.  A snapshot without a
\* pyproject.toml has no version.
WriteRollback ==
    /\ phase = "up" /\ reverting
    /\ revert' = TRUE /\ marker' = NoMarker
    /\ row' = Row(app.ver, IF "code" \in previous.parts THEN previous.ver ELSE None,
                  "success", TRUE)
    /\ reverting' = FALSE /\ exiting' = TRUE
    /\ Note(TRUE, "byHand")
    /\ UNCHANGED <<trees, instr, retry, fmt, phase, tries, job, bounds>>

\* _restart_process, a second later.
Exit ==
    /\ phase = "up" /\ exiting
    /\ job' = None /\ reverting' = FALSE /\ exiting' = FALSE
    /\ Goto("down")
    /\ UNCHANGED <<trees, files, tries, bounds, past>>

-----------------------------------------------------------------------------
(* The environment *)

\* The power goes, or the service is killed in the same OS boot: by a restart,
\* for its memory, or, the helper, for a start that takes too long.
Stop(cut) ==
    /\ stops < MaxStops /\ stops' = stops + 1
    /\ phase # "down" \/ cut
    /\ app' \in IF phase \in {"swap", "recover"} THEN Torn(app) ELSE {app}
    /\ previous' \in CASE phase = "snapshot" -> Torn(app)
                       [] phase \in {"check", "extract"} -> Torn(previous)
                       [] OTHER -> {previous}
    /\ marker' = IF cut /\ marker # NoMarker
                 THEN [marker EXCEPT !.sameBoot = FALSE] ELSE marker
    /\ notes' = notes \cup
         (IF phase \in {"swap", "promote", "place", "sync", "recover", "back"}
          THEN {"torn"} ELSE {})
         \cup (IF {"code", "venv"} \subseteq previous'.parts /\ ~Whole(previous')
               THEN {"halved"} ELSE {})
    /\ crashed' = (~cut /\ (crashed \/ phase \in Starting \cup {"stuck"}))
    /\ job' = None /\ reverting' = FALSE /\ exiting' = FALSE
    /\ Goto("down")
    /\ UNCHANGED <<staging, instr, retry, revert, row, fmt, tries, updates>>

-----------------------------------------------------------------------------
Init ==
    /\ app = [ver |-> 1, parts |-> Part, good |-> TRUE]
    /\ previous = NoTree /\ staging = NoTree
    /\ instr = None /\ retry = NoRetry /\ revert = FALSE
    /\ marker = NoMarker /\ row = NoRow /\ fmt = 1
    /\ phase = "down" /\ tries = 0
    /\ job = None /\ reverting = FALSE /\ exiting = FALSE
    /\ updates = 0 /\ stops = 0 /\ crashed = FALSE /\ notes = {}

Helper ==
    \/ StartUnhelped \/ StartRollback \/ StartHelper
    \/ Refuse \/ BeginSnapshot \/ Snapshot \/ Extract \/ GiveUp \/ Migrate
    \/ Swap \/ Promote \/ Place \/ Sync \/ SyncFails \/ Recover \/ Defer
    \/ SetAside \/ BringBack

Boot ==
    \/ PythonDies \/ Check \/ Restore \/ Revert \/ Leave
    \/ Load \/ LoadHistory \/ EngineUp \/ EngineDies \/ EngineFails

Operate ==
    \/ \E v \in Version : BeginUpdate(v)
    \/ WriteUpdate \/ UpdateFails \/ BeginRollback \/ WriteRollback \/ Exit

Next == Helper \/ Boot \/ Operate \/ \E cut \in BOOLEAN : Stop(cut)

Spec == Init /\ [][Next]_vars

\* systemd starts the service again and again, and what it started goes on;
\* a scheduled exit comes.
FairSpec == Spec /\ WF_vars(Helper \/ Boot) /\ WF_vars(Exit)

-----------------------------------------------------------------------------
(* Properties *)

Phase == {"down", "check", "snapshot", "extract", "migrate", "swap", "promote",
          "place", "sync", "recover", "defer", "aside", "back", "python",
          "restoring", "reverting", "leaving", "up", "stuck"} \cup Starting

\* Type correctness; an update is retried fewer than MaxAttempts times.
TypeOK ==
    /\ phase \in Phase /\ app \in Tree /\ previous \in Tree /\ staging \in Tree
    /\ instr \in Version \cup {None} /\ revert \in BOOLEAN
    /\ retry \in [to : Version \cup {None}, attempts : 0..MaxAttempts]
    /\ marker \in [from : Version \cup {None}, to : Version \cup {None},
                   attempts : Nat, sameBoot : BOOLEAN, fmt : Version \cup {None}]
    /\ row \in [from : Version \cup {None}, to : Version \cup {None},
                status : {"none", "pending", "success", "failed", "rolled_back"},
                rollback : BOOLEAN]
    /\ fmt \in Version /\ tries \in 0..MaxAttempts - 1
    /\ job \in Version \cup {None}
    /\ reverting \in BOOLEAN /\ exiting \in BOOLEAN
    /\ updates \in 0..MaxUpdates /\ stops \in 0..MaxStops
    /\ crashed \in BOOLEAN
    /\ notes \subseteq {"torn", "halved", "refused", "deferred", "byHand",
                       "downgrade", "stale", "raced"}

\* Unless the power goes between the removal of the old tree and the end of the
\* dependency sync, or in the swap of a rollback, a start always finds an
\* install that can run: a full disk, a bad archive and a failed sync never
\* leave, nor a rollback promote, half a tree (handle_update,
\* recover_from_snapshot, handle_rollback).  Not so once a stop has left half a
\* snapshot that passes the check, which does not look into the directories: a
\* rollback promotes it if the instruction is refused at the next start.
Startable ==
    phase \in {"down", "python"} =>
        notes \cap {"torn", "halved"} # {} \/ Whole(app)

\* While a version that has never been up starts, the way back is there: the
\* marker names it and the version in .previous, which is whole and has been up.
\* Not so after a cut inside the swap, and not for an update that was put off:
\* the start in between, on the old version, has cleared its marker.
UpdateCanBeUndone ==
    phase \in Starting /\ ~app.good /\ notes \cap {"torn", "deferred"} = {}
    => /\ marker.to = app.ver /\ marker.from = previous.ver
       /\ Whole(previous) /\ previous.good

\* The start undoes an update only after another start has ended early in the
\* same OS boot with none come up since, and never a tree that has once been up,
\* if it is of the version the marker is about (check_rollback_needed,
\* record_startup_attempt, confirm_startup).  With a downgrade among the updates
\* a version may be both; an update to the version that runs, refused, leaves a
\* marker that is about the running tree.
RollbackHasCause ==
    phase = "restoring" =>
       /\ crashed
       /\ app.ver = marker.to /\ marker.from # marker.to
             /\ "downgrade" \notin notes => ~app.good

\* Code and data go back together: no version comes to run on projects a newer
\* one has migrated, whatever was cut or refused on the way.  Not so after a
\* rollback by hand, which is meant to keep the data, nor after a downgrade, nor
\* when a marker an update left behind undoes another version.
DataFits ==
    phase \in {"loaded", "recorded", "up"}
        /\ notes \cap {"byHand", "downgrade", "stale"} = {}
    => fmt <= app.ver

\* The newest row of the history agrees with the version that runs: a success
\* means the version it names, a failure another (_load_history,
\* _reconcile_reverted_update).  A failed update to the version that runs says
\* nothing of it.  Not so for an update put off, whose row stays a failure once
\* the helper has applied it after all, for a rollback by hand that the helper
\* refuses, whose row stays a success, for an update begun beside one, and for
\* what a marker left behind undoes.
HistoryTruthful ==
    phase \in {"recorded", "up"} /\ ~exiting =>
       /\ row.status = "success"
             /\ notes \cap {"torn", "refused", "raced", "stale"} = {}
          => app.ver = row.to
       /\ row.status = "failed" /\ row.from # row.to
             /\ notes \cap {"deferred", "raced", "stale"} = {}
          => app.ver # row.to

\* A version that cannot come up, with a marker and a snapshot that passes the
\* check, is left: the starts systemd repeats take the way back.
CrashLoopEnds ==
    \A v \in DiesLate :
        phase \in Starting /\ app.ver = v /\ marker # NoMarker /\ Valid(previous)
            ~> app.ver # v \/ "torn" \in notes
=============================================================================
