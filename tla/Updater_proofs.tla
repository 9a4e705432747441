--------------------------- MODULE Updater_proofs ---------------------------
(***************************************************************************)
(* Proofs about Updater: type correctness, that a start finds a whole      *)
(* install, that an update can be undone until its version has been up and *)
(* is undone for cause only, that data and code fit each other, and that   *)
(* the history tells the truth.                                            *)
(***************************************************************************)
EXTENDS Updater, TLAPS

(* Phases of the helper with an instruction; of a start that undoes an update; *)
(* of a process whose version was found to run.                              *)
Helping == {"check", "snapshot", "extract", "migrate", "swap", "promote",
            "place", "sync", "recover", "defer"}
Undoing == {"restoring", "reverting", "leaving"}
Running == Starting \cup Undoing \cup {"up", "stuck"}

(* Type correctness, and what an action needs of what it copies: whoever works *)
(* on an instruction has one, a marker is whole, a tree with anything in it has *)
(* a version, and only the server that is up has a job.                        *)
Typed ==
    /\ TypeOK
    /\ phase \in Helping => instr \in Version
    /\ marker # NoMarker =>
          marker.from \in Version /\ marker.to \in Version /\ marker.fmt \in Version
    /\ app.parts # {} => app.ver \in Version
    /\ previous.parts # {} => previous.ver \in Version
    /\ staging.parts # {} => staging.ver \in Version
    /\ phase \in {"migrate", "swap", "promote"} => staging.ver \in Version
    /\ phase \in Running \cup {"check", "snapshot", "place", "sync"} => app.ver \in Version
    /\ phase \in Undoing => marker # NoMarker
    /\ job # None => phase = "up"

(* Half a tree that passes the check was promoted, and no start gets past it   *)
(* any more.                                                                  *)
Halted ==
    /\ Valid(app) /\ "halved" \in notes /\ phase \in {"down", "python"}
    /\ instr = None /\ retry.to = None /\ ~revert

(* Which trees are whole in which phase: the install outside the swap, the    *)
(* snapshot from its end on, the staged tree once it has its venv.  Half a     *)
(* snapshot that passes the check is noted; promoted, it is never left.        *)
Intact ==
    "torn" \notin notes =>
    /\ phase \notin {"swap", "promote", "recover", "back"} => Whole(app) \/ Halted
    /\ phase \in {"extract", "migrate", "swap", "promote", "place", "sync", "recover"}
           => Whole(previous)
    /\ phase \in {"aside", "back"} => Valid(previous) /\ instr = None /\ retry.to = None
    /\ Valid(previous) => Whole(previous) \/ "halved" \in notes
    /\ phase \in {"swap", "promote"} => Whole(staging)
    /\ phase = "migrate" => {"code", "modules"} \subseteq staging.parts

(* An attempt counted in this OS boot is the start that is under way, or one  *)
(* that ended early.                                                          *)
Cause ==
    /\ marker # NoMarker /\ marker.sameBoot /\ marker.attempts >= 1
           => crashed \/ phase \in Starting \cup {"stuck"}
    /\ phase = "restoring" => crashed

(* Without a downgrade no instruction leads to an older version than the trees *)
(* have, so no tree that has been up is the target of a marker with another   *)
(* origin.                                                                    *)
Ahead ==
    "downgrade" \notin notes =>
    /\ marker # NoMarker /\ marker.from # marker.to =>
          /\ app.good => app.ver # marker.to
          /\ previous.good => previous.ver # marker.to
    /\ ~staging.good
    /\ job # None => app.ver <= job
    /\ instr # None => app.ver <= instr /\ previous.ver <= instr
    /\ retry.to # None => app.ver <= retry.to /\ previous.ver <= retry.to
    /\ phase \in Helping => retry.to = None
    /\ app.ver # None => previous.ver <= app.ver
    /\ phase \in {"migrate", "swap", "promote"} => staging.ver = instr

(* The marker is about the instruction; about the tree that runs, and the way  *)
(* back is there.                                                             *)
Aimed == marker.to = instr /\ marker.from = app.ver
Undoable == /\ marker.to = app.ver /\ marker.from = previous.ver
            /\ Whole(previous) /\ previous.good

(* A tree that has not been up came from the instruction its marker was        *)
(* written with, over a snapshot of one that has; and an instruction that is   *)
(* still there is the marker's, unless a rollback will drop it.                *)
Undo ==
    notes \cap {"torn", "deferred"} = {} =>
    /\ previous # NoTree => previous.good
    /\ phase \in {"up", "check", "snapshot", "extract", "migrate", "swap", "defer"}
           => app.good
    /\ phase \in {"down", "python"} \cup Undoing /\ instr # None => app.good
    /\ phase \in {"down", "up", "python", "restoring", "reverting"}
          /\ instr # None /\ ~revert
           => Aimed
    /\ phase \in {"check", "snapshot", "extract", "migrate", "swap", "defer"} => Aimed
    /\ phase \in {"extract", "migrate", "swap", "promote", "place", "sync", "recover"}
           => marker.to = instr /\ marker.from = previous.ver /\ previous.good
    /\ phase \in {"migrate", "swap", "promote"} => staging.ver = instr
    /\ phase \in {"place", "sync"} => app.ver = instr
    /\ phase \in Starting \cup {"stuck"} => instr = None
    /\ phase \in {"leaving", "aside", "back"} => revert
    /\ phase \in {"aside", "back"} => instr = None
    /\ phase \in {"down", "aside", "sync", "python"} \cup Running /\ ~app.good
           => "helper" \in app.parts
    /\ phase \in {"python", "stuck"} \cup Starting \cup Undoing /\ ~app.good => Undoable
    /\ phase = "down" /\ ~app.good =>
          IF revert THEN Valid(previous) ELSE Undoable

(* Projects fit the tree that runs and, where a rollback is under way or may  *)
(* come, the data that goes with the snapshot fits the snapshot.              *)
Fits ==
    notes \cap {"byHand", "downgrade", "stale"} = {} =>
    /\ app.ver # None => fmt <= app.ver
    /\ revert \/ phase = "reverting" => previous.ver = None \/ fmt <= previous.ver
    /\ marker # NoMarker => marker.fmt <= fmt
    /\ phase = "up" => app.good
    /\ marker # NoMarker /\ app.ver = marker.to /\ ~app.good
           => previous.ver = None \/ marker.fmt <= previous.ver
    /\ phase \in {"extract", "migrate", "swap", "promote", "place", "sync", "recover"}
           => fmt <= previous.ver
    /\ phase \in Helping \cup Starting \cup {"stuck", "up"} => ~revert
    /\ phase \in {"aside", "back"} => revert

(* What the row says, whatever was noted: the row and the marker name the same *)
(* two versions, and only what may be restarted holds an instruction.          *)
Rowed ==
    /\ phase \in Starting \cup {"stuck"} => instr = None
    /\ phase \in Starting \cup {"stuck"} \cup Helping => ~revert
    /\ phase \in {"aside", "back"} => instr = None
    /\ exiting => phase = "up"
    /\ phase = "up" => app.good
    /\ phase = "up" /\ ~exiting => ~revert /\ instr = None
    /\ reverting => phase = "up" /\ previous # NoTree
    /\ marker # NoMarker =>
          marker.from = row.from /\ marker.to = row.to /\ ~row.rollback
    /\ row.status = "none" => marker = NoMarker
    /\ row.status = "pending" => ~row.rollback

(* A failed update left another version, unless it was to the running one, and *)
(* nothing that could still bring its own but an update that was put off.      *)
FailedToo ==
    /\ row.status = "failed" /\ row.from # row.to
    /\ notes \cap {"deferred", "raced", "stale"} = {}
    => /\ app.ver # row.to /\ instr = None /\ ~revert
       /\ phase \notin Helping \cup {"aside", "back", "reverting", "leaving"}

(* Outside a torn swap: the helper is there while there is a way back, and an   *)
(* update put off has used its snapshot up.                                    *)
Traces ==
    notes \cap {"torn", "raced", "stale"} = {} =>
    /\ phase \notin {"promote", "place", "back"} =>
          "helper" \in app.parts \/ previous = NoTree
    /\ phase \in {"check", "snapshot", "extract", "migrate"} => "helper" \in app.parts
    /\ retry.to # None => previous = NoTree
    /\ phase = "defer" => previous = NoTree
    /\ phase \in Helping \cup {"aside", "back"} => retry.to = None
    /\ phase \in {"migrate", "swap", "promote"} => staging.ver = instr

(* While the row is pending the install is one of its two versions, the new one *)
(* with the way back to the old; and what is still to be done is to install    *)
(* the new one, or to leave it.                                                *)
PendingToo ==
    /\ notes \cap {"torn", "raced", "stale"} = {}
    /\ row.status = "pending" /\ row.from # row.to
    =>
    /\ instr \in {None, row.to}
    /\ phase \notin {"promote", "back"} => app.ver \in {row.from, row.to}
    /\ instr # None /\ phase \notin {"promote", "place", "sync", "recover"}
          => app.ver = row.from
    /\ phase \in {"place", "sync"} => app.ver = row.to
    /\ phase \in {"extract", "migrate", "swap", "promote", "place", "sync", "recover"}
          => previous.ver = row.from
    /\ app.ver = row.to /\ phase # "back" =>
          previous.ver = row.from /\ retry.to = None
    /\ (revert /\ phase # "back") \/ phase \in {"reverting", "leaving", "aside"}
          => app.ver = row.to
    /\ instr = None /\ retry.to # None /\ "helper" \in app.parts
          => retry.to = row.to
    /\ phase = "python" /\ instr # None => "helper" \notin app.parts
    /\ phase = "back" => previous.ver = row.from

(* An update to the version that runs, pending or a success: every tree that   *)
(* may come to run is of that version, and what is undone is not the tree it   *)
(* was begun on.                                                               *)
SameToo ==
    /\ notes \cap {"torn", "raced", "stale"} = {}
    /\ row.status \in {"pending", "success"} /\ row.from = row.to /\ ~row.rollback
    =>
    /\ instr \in {None, row.to}
    /\ phase \notin {"promote", "back"} => app.ver = row.to
    /\ phase \in {"extract", "migrate", "swap", "promote", "place", "sync",
                  "recover", "aside", "back"} => previous.ver = row.to
    /\ instr = None /\ retry.to # None /\ "helper" \in app.parts
          => retry.to = row.to
    /\ ~app.good /\ previous # NoTree => previous.ver = row.to
    /\ revert \/ phase \in {"reverting", "leaving", "aside"} => ~app.good
    /\ phase = "python" /\ instr # None => "helper" \notin app.parts

(* After a success the install is the version the row names, unless it is       *)
(* being undone, or was and the row does not know yet; a rollback by hand is a *)
(* success before it is carried out.                                           *)
SuccessToo ==
    /\ notes \cap {"torn", "refused", "raced", "stale"} = {}
    /\ row.status = "success" /\ (row.from # row.to \/ row.rollback)
    =>
    /\ retry.to = None
    /\ ~row.rollback =>
          /\ phase # "back" => app.ver \in {row.from, row.to}
          /\ phase \in {"recorded", "up"} => app.ver = row.to
          /\ phase \notin Helping /\ instr = None
          /\ (revert /\ phase # "back") \/ phase \in {"reverting", "leaving", "aside"}
                => app.ver = row.to
          /\ app.ver = row.to \/ phase = "back" => previous.ver = row.from
    /\ row.rollback =>
          /\ marker = NoMarker
          /\ IF revert
             THEN /\ previous # NoTree /\ (Valid(previous) => previous.ver = row.to)
                  /\ phase \in {"up", "down", "aside", "back"}
                  /\ phase # "back" => "helper" \in app.parts
             ELSE /\ app.ver = row.to /\ instr = None
                  /\ phase \notin Helping \cup Undoing \cup {"aside", "back"}

Told == Rowed /\ FailedToo /\ Traces /\ PendingToo /\ SameToo /\ SuccessToo

IInv == Typed /\ Intact /\ Cause /\ Ahead /\ Undo /\ Fits /\ Told

(* What a stop may leave of the two trees and of the marker, and what it notes. *)
Remains ==
    /\ app' \in Tree /\ app'.ver = app.ver /\ app'.good = app.good
    /\ phase \notin {"swap", "recover"} => app' = app
    /\ app'.parts \subseteq app.parts
    /\ previous' \in Tree
    /\ \/ previous' = previous
       \/ /\ phase = "snapshot"
          /\ previous'.ver = app.ver /\ previous'.good = app.good
          /\ previous'.parts \subseteq app.parts
       \/ /\ phase \in {"check", "extract"} /\ previous # NoTree
          /\ previous'.ver = previous.ver /\ previous'.good = previous.good
          /\ previous'.parts \subseteq previous.parts
    /\ marker = NoMarker <=> marker' = NoMarker
    /\ marker'.from = marker.from /\ marker'.to = marker.to
    /\ marker'.fmt = marker.fmt
    /\ notes \subseteq notes' /\ notes' \subseteq notes \cup {"torn", "halved"}
    /\ phase \in {"swap", "promote", "place", "sync", "recover", "back"}
          => "torn" \in notes'
    /\ Valid(previous') /\ ~Whole(previous') => "halved" \in notes'
    /\ phase' = "down" /\ job' = None /\ reverting' = FALSE /\ exiting' = FALSE
    /\ UNCHANGED <<staging, instr, retry, revert, row, fmt, tries, updates>>

LEMMA Stopped == ASSUME Typed, NEW cut \in BOOLEAN, Stop(cut) PROVE Remains
<1>1. app' \in Torn(app) /\ (phase \notin {"swap", "recover"} => app' = app)
  BY DEF Stop, Torn, Typed, TypeOK, Tree
<1>2. app' \in Tree /\ app'.ver = app.ver /\ app'.good = app.good
      /\ app'.parts \subseteq app.parts
  BY <1>1 DEF Torn, Typed, TypeOK, Tree
<1>3. \/ previous' = previous
      \/ phase = "snapshot" /\ previous' \in Torn(app)
      \/ phase \in {"check", "extract"} /\ previous' \in Torn(previous)
  BY DEF Stop
<1>4. previous' \in Torn(app) => /\ previous' \in Tree /\ previous'.ver = app.ver
                                 /\ previous'.good = app.good
                                 /\ previous'.parts \subseteq app.parts
  BY DEF Torn, Typed, TypeOK, Tree
<1>5. previous' \in Torn(previous) =>
         /\ previous' \in Tree /\ previous'.ver = previous.ver
         /\ previous'.good = previous.good
         /\ previous'.parts \subseteq previous.parts
  BY DEF Torn, Typed, TypeOK, Tree
<1>6. previous = NoTree /\ previous' \in Torn(previous) => previous' = previous
  BY <1>5 DEF Torn, NoTree, Typed, TypeOK, Tree
<1>7. previous \in Tree
  BY DEF Typed, TypeOK
<1>8. /\ marker = NoMarker <=> marker' = NoMarker
      /\ marker'.from = marker.from /\ marker'.to = marker.to
      /\ marker'.fmt = marker.fmt
  <2>1. marker' = IF cut /\ marker # NoMarker
                  THEN [marker EXCEPT !.sameBoot = FALSE] ELSE marker
    BY DEF Stop
  <2>2. marker'.from = marker.from /\ marker'.to = marker.to /\ marker'.fmt = marker.fmt
    BY <2>1 DEF Typed, TypeOK
  <2>3. marker # NoMarker => marker.from # None
    BY UpdaterAssumption DEF Typed, Version, None
  <2> QED  BY <2>1, <2>2, <2>3 DEF NoMarker
<1>9. /\ notes \subseteq notes' /\ notes' \subseteq notes \cup {"torn", "halved"}
      /\ phase \in {"swap", "promote", "place", "sync", "recover", "back"}
            => "torn" \in notes'
      /\ Valid(previous') /\ ~Whole(previous') => "halved" \in notes'
  BY DEF Stop, Valid
<1>10. /\ phase' = "down" /\ job' = None /\ reverting' = FALSE /\ exiting' = FALSE
       /\ UNCHANGED <<staging, instr, retry, revert, row, fmt, tries, updates>>
  BY DEF Stop, Goto
<1> QED
  BY <1>1, <1>2, <1>3, <1>4, <1>5, <1>6, <1>7, <1>8, <1>9, <1>10 DEF Remains

(* What the sync of the dependencies leaves of the install.                    *)
Synced ==
    /\ phase = "sync" /\ phase' = "python" /\ instr' = None
    /\ app' \in Tree /\ app'.ver = app.ver /\ app'.good = app.good
    /\ app.parts \subseteq app'.parts /\ app'.parts \subseteq app.parts \cup Environment
    /\ UNCHANGED <<previous, staging, retry, revert, marker, row, fmt, tries,
                   server, bounds, past>>

LEMMA SyncDone == ASSUME Typed, Sync PROVE Synced
<1>1. app' = app \/ app' = [app EXCEPT !.parts = @ \cup Environment]
  BY DEF Sync
<1>2. /\ app' \in Tree /\ app'.ver = app.ver /\ app'.good = app.good
      /\ app.parts \subseteq app'.parts /\ app'.parts \subseteq app.parts \cup Environment
  BY <1>1 DEF Typed, TypeOK, Tree, Part, Environment
<1> QED  BY <1>2 DEF Sync, Synced, Goto

(* A note keeps the type of what happened. *)
Happened == {"torn", "halved", "refused", "deferred", "byHand", "downgrade",
             "stale", "raced"}

LEMMA NoteTyped ==
    ASSUME notes \subseteq Happened, crashed \in BOOLEAN,
           NEW condition, NEW what \in Happened, Note(condition, what)
    PROVE  notes' \subseteq Happened /\ crashed' \in BOOLEAN
BY DEF Note

(* Every step keeps the types. *)
LEMMA TypedStep == Typed /\ [Next]_vars => Typed'
<1> SUFFICES ASSUME Typed, [Next]_vars PROVE Typed'
  OBVIOUS
<1> USE UpdaterAssumption DEF NoTree, None, NoMarker, NoRetry, Starting,
   Helping, Undoing, Running, Typed, TypeOK, Tree, Part, Phase, Version,
   vars, files, trees, server, bounds, past, Goto
<1>1. CASE StartUnhelped
  BY <1>1 DEF StartUnhelped
<1>2. CASE StartRollback
  <2>1. retry' \in [to : Version \cup {None}, attempts : 0..MaxAttempts]
    BY <1>2 DEF StartRollback, Valid, Note
  <2>2. phase' \in {"aside", "python"} /\ revert' \in BOOLEAN /\ instr' = None
    BY <1>2 DEF StartRollback, Valid, Note
  <2>3. /\ notes' \subseteq {"torn", "halved", "refused", "deferred", "byHand",
                             "downgrade", "stale", "raced"}
        /\ crashed' \in BOOLEAN
    <3>1. notes \subseteq Happened /\ crashed \in BOOLEAN
      BY DEF Happened
    <3>2. CASE Note(row.rollback, "refused")
      <4>1. "refused" \in Happened
        BY DEF Happened
      <4>2. notes' \subseteq Happened /\ crashed' \in BOOLEAN
        BY ONLY <3>1, <3>2, <4>1, NoteTyped
      <4> QED  BY <4>2 DEF Happened
    <3>3. CASE UNCHANGED past
      BY <3>1, <3>3 DEF Happened
    <3> QED  BY <1>2, <3>2, <3>3 DEF StartRollback
  <2>4. TypeOK'
    BY <1>2, <2>1, <2>2, <2>3 DEF StartRollback
  <2> QED  BY <1>2, <2>2, <2>4 DEF StartRollback
<1>3. CASE StartHelper
  BY <1>3 DEF StartHelper, Note, Promoted
<1>4. CASE Refuse
  BY <1>4 DEF Refuse
<1>5. CASE BeginSnapshot
  BY <1>5 DEF BeginSnapshot
<1>6. CASE Snapshot
  BY <1>6 DEF Snapshot
<1>7. CASE Extract
  BY <1>7 DEF Extract
<1>8. CASE GiveUp
  BY <1>8 DEF GiveUp
<1>9. CASE Migrate
  <2>1. app' \in Tree /\ app'.ver = app.ver /\ app'.parts \subseteq app.parts
    BY <1>9 DEF Migrate, Environment
  <2>2. staging' \in Tree /\ staging'.ver = staging.ver
    BY <1>9 DEF Migrate, Environment
  <2>3. TypeOK'
    BY <1>9, <2>1, <2>2 DEF Migrate, Environment
  <2> QED  BY <1>9, <2>1, <2>2, <2>3 DEF Migrate, Environment
<1>10. CASE Swap
  BY <1>10 DEF Swap
<1>11. CASE Promote
  BY <1>11 DEF Promote
<1>12. CASE Place
  <2>1. app' \in Tree /\ app'.ver = app.ver
    BY <1>12 DEF Place
  <2> QED  BY <1>12, <2>1 DEF Place
<1>13. CASE Sync
  <2>1. Synced
    BY <1>13, SyncDone
  <2>2. app' \in Tree /\ app'.ver = app.ver /\ app.parts \subseteq app'.parts
    BY <2>1 DEF Synced
  <2>3. app'.ver \in Version
    BY <1>13, <2>2 DEF Sync
  <2>4. TypeOK'
    BY <2>1, <2>2 DEF Synced
  <2> QED  BY <2>1, <2>3, <2>4 DEF Synced
<1>14. CASE SyncFails
  BY <1>14 DEF SyncFails
<1>15. CASE Recover
  BY <1>15 DEF Recover
<1>16. CASE Defer
  BY <1>16 DEF Defer
<1>17. CASE SetAside
  BY <1>17 DEF SetAside
<1>18. CASE BringBack
  <2>1. revert' \in BOOLEAN /\ app' \in Tree /\ previous' \in Tree /\ phase' = "python"
    BY <1>18 DEF BringBack
  <2> QED  BY <1>18, <2>1 DEF BringBack
<1>19. CASE PythonDies
  BY <1>19 DEF PythonDies, Runs, Whole
<1>20. CASE Check
  <2>1. Attempts \in Nat
    BY DEF Attempts
  <2>2. CASE marker = NoMarker
    <3>1. phase = "python" /\ phase' = "starting" /\ instr' = None
          /\ revert' = FALSE /\ marker' = NoMarker
      BY <1>20, <2>2 DEF Check, Attempts, Counted, Runs, Whole
    <3>2. UNCHANGED <<trees, retry, row, fmt, tries, server, bounds, past>>
      BY <1>20 DEF Check, Attempts, Counted, Runs, Whole
    <3>3. marker' = marker /\ instr' \in Version \cup {None} /\ revert' \in BOOLEAN
      BY <2>2, <3>1
    <3>4. TypeOK'
      BY <3>1, <3>2, <3>3
    <3>5. app.ver \in Version
      BY <1>20 DEF Check, Attempts, Counted, Runs, Whole
    <3> QED  BY <2>2, <3>1, <3>2, <3>4, <3>5
  <2>3. CASE marker # NoMarker
    <3>1. marker' = Counted
      BY <1>20, <2>3 DEF Check, Attempts, Counted, Runs, Whole
    <3>2. marker' \in [from : Version, to : Version, attempts : Nat,
                        sameBoot : BOOLEAN, fmt : Version]
      BY <2>1, <2>3, <3>1 DEF Counted
    <3>3. marker' # NoMarker
      BY <3>2
    <3>4. phase' \in {"restoring", "starting"} /\ instr' \in {instr, None}
          /\ revert' \in BOOLEAN
      BY <1>20, <2>3 DEF Check, Attempts, Counted, Runs, Whole
    <3>5. app.ver \in Version
      BY <1>20 DEF Check, Attempts, Counted, Runs, Whole
    <3>6. TypeOK'
      BY <1>20, <3>2, <3>4 DEF Check, Attempts, Counted, Runs, Whole
    <3> QED  BY <1>20, <3>2, <3>3, <3>4, <3>5, <3>6 DEF Check, Attempts,
       Counted, Runs, Whole
  <2> QED  BY <2>2, <2>3
<1>21. CASE Restore
  BY <1>21 DEF Restore, Note, DataRestored
<1>22. CASE Revert
  BY <1>22 DEF Revert
<1>23. CASE Leave
  BY <1>23 DEF Leave
<1>24. CASE Load
  BY <1>24 DEF Load
<1>25. CASE LoadHistory
  BY <1>25 DEF LoadHistory, Reconciled, Judged, Applied
<1>26. CASE EngineUp
  <2>1. app' \in Tree /\ app'.ver = app.ver /\ app'.parts = app.parts
    BY <1>26 DEF EngineUp, Confirmed
  <2>2. marker' = NoMarker /\ crashed' \in BOOLEAN
    BY <1>26 DEF EngineUp, Confirmed
  <2> QED  BY <1>26, <2>1, <2>2 DEF EngineUp, Confirmed
<1>27. CASE EngineDies
  BY <1>27 DEF EngineDies
<1>28. CASE EngineFails
  BY <1>28 DEF EngineFails
<1>29. CASE WriteUpdate
  BY <1>29 DEF WriteUpdate, Row, Note
<1>30. CASE UpdateFails
  BY <1>30 DEF UpdateFails, Row, Note
<1>31. CASE BeginRollback
  BY <1>31 DEF BeginRollback
<1>32. CASE WriteRollback
  <2>1. revert' \in BOOLEAN /\ reverting' \in BOOLEAN /\ exiting' \in BOOLEAN
    BY <1>32 DEF WriteRollback, Row, Note
  <2> QED  BY <1>32, <2>1 DEF WriteRollback, Row, Note
<1>33. CASE Exit
  <2>1. reverting' \in BOOLEAN /\ exiting' \in BOOLEAN
    BY <1>33 DEF Exit
  <2> QED  BY <1>33, <2>1 DEF Exit
<1>34. ASSUME NEW v \in Version, BeginUpdate(v) PROVE Typed'
  BY <1>34 DEF BeginUpdate, Note
<1>35. ASSUME NEW cut \in BOOLEAN, Stop(cut) PROVE Typed'
  <2>0. Remains
    BY <1>35, Stopped
  <2>1. marker' \in [from : Version \cup {None}, to : Version \cup {None},
                    attempts : Nat, sameBoot : BOOLEAN,
                       fmt : Version \cup {None}]
    BY <1>35 DEF Stop, Torn
  <2>2. crashed' \in BOOLEAN /\ stops' \in 0..MaxStops
    BY <1>35 DEF Stop
  <2>3. notes' \subseteq {"torn", "halved", "refused", "deferred", "byHand",
                          "downgrade", "stale", "raced"}
    BY <2>0 DEF Remains
  <2>4. reverting' \in BOOLEAN /\ exiting' \in BOOLEAN
    BY <2>0 DEF Remains
  <2>5. TypeOK'
    BY <2>1, <2>2, <2>3, <2>4, <2>0 DEF Remains
  <2> QED  BY <2>5, <2>0 DEF Remains
<1>36. CASE UNCHANGED vars
  BY <1>36
<1> QED
  BY <1>1, <1>2, <1>3, <1>4, <1>5, <1>6, <1>7, <1>8, <1>9, <1>10, <1>11,
     <1>12, <1>13, <1>14, <1>15, <1>16, <1>17, <1>18, <1>19, <1>20, <1>21,
     <1>22, <1>23, <1>24, <1>25, <1>26, <1>27, <1>28, <1>29, <1>30, <1>31,
     <1>32, <1>33, <1>34, <1>35, <1>36
     DEF Next, Helper, Boot, Operate

(* Every step leaves whole what the next one needs. *)
LEMMA IntactStep == Typed /\ Intact /\ [Next]_vars => Intact'
<1> SUFFICES ASSUME Typed /\ Intact, [Next]_vars PROVE Intact'
  OBVIOUS
<1> USE UpdaterAssumption DEF NoTree, None, Valid, Starting, Helping,
   Undoing, Running, Intact, Halted, Whole, Part, vars, files, trees, server, bounds, past,
   Goto
<1>1. CASE StartUnhelped
  BY <1>1 DEF StartUnhelped
<1>2. CASE StartRollback
  BY <1>2 DEF StartRollback, NoRetry, Note
<1>3. CASE StartHelper
  BY <1>3 DEF StartHelper, NoRetry, Note, Promoted
<1>4. CASE Refuse
  BY <1>4 DEF Refuse
<1>5. CASE BeginSnapshot
  BY <1>5 DEF BeginSnapshot
<1>6. CASE Snapshot
  BY <1>6 DEF Snapshot
<1>7. CASE Extract
  BY <1>7 DEF Extract
<1>8. CASE GiveUp
  BY <1>8 DEF GiveUp
<1>9. CASE Migrate
  BY <1>9 DEF Migrate, Environment
<1>10. CASE Swap
  BY <1>10 DEF Swap
<1>11. CASE Promote
  BY <1>11 DEF Promote
<1>12. CASE Place
  BY <1>12 DEF Place
<1>13. CASE Sync
  <2>1. Synced
    BY <1>13, SyncDone
  <2> QED  BY <2>1 DEF Synced, Environment
<1>14. CASE SyncFails
  BY <1>14 DEF SyncFails
<1>15. CASE Recover
  BY <1>15 DEF Recover
<1>16. CASE Defer
  BY <1>16 DEF Defer
<1>17. CASE SetAside
  BY <1>17 DEF SetAside
<1>18. CASE BringBack
  BY <1>18 DEF BringBack
<1>19. CASE PythonDies
  BY <1>19 DEF PythonDies, Runs, Whole
<1>20. CASE Check
  BY <1>20 DEF Check, NoMarker, Attempts, Counted, Runs, Whole
<1>21. CASE Restore
  BY <1>21 DEF Restore, Note, DataRestored
<1>22. CASE Revert
  BY <1>22 DEF Revert
<1>23. CASE Leave
  BY <1>23 DEF Leave, NoMarker
<1>24. CASE Load
  BY <1>24 DEF Load
<1>25. CASE LoadHistory
  BY <1>25 DEF LoadHistory, Reconciled, Judged, Applied
<1>26. CASE EngineUp
  BY <1>26 DEF EngineUp, Confirmed, NoMarker
<1>27. CASE EngineDies
  BY <1>27 DEF EngineDies
<1>28. CASE EngineFails
  BY <1>28 DEF EngineFails
<1>29. CASE WriteUpdate
  BY <1>29 DEF WriteUpdate, Row, Note
<1>30. CASE UpdateFails
  BY <1>30 DEF UpdateFails, NoMarker, Row, Note
<1>31. CASE BeginRollback
  BY <1>31 DEF BeginRollback
<1>32. CASE WriteRollback
  BY <1>32 DEF WriteRollback, NoMarker, Row, Note
<1>33. CASE Exit
  BY <1>33 DEF Exit
<1>34. ASSUME NEW v \in Version, BeginUpdate(v) PROVE Intact'
  BY <1>34 DEF BeginUpdate, Note
<1>35. ASSUME NEW cut \in BOOLEAN, Stop(cut) PROVE Intact'
  <2>0. Remains
    BY <1>35, Stopped
  <2> QED  BY <2>0 DEF Remains
<1>36. CASE UNCHANGED vars
  BY <1>36
<1> QED
  BY <1>1, <1>2, <1>3, <1>4, <1>5, <1>6, <1>7, <1>8, <1>9, <1>10, <1>11,
     <1>12, <1>13, <1>14, <1>15, <1>16, <1>17, <1>18, <1>19, <1>20, <1>21,
     <1>22, <1>23, <1>24, <1>25, <1>26, <1>27, <1>28, <1>29, <1>30, <1>31,
     <1>32, <1>33, <1>34, <1>35, <1>36
     DEF Next, Helper, Boot, Operate

(* A step that counts an attempt, or ends a start, keeps Cause. *)
LEMMA CauseStep == Typed /\ Cause /\ [Next]_vars => Cause'
<1> SUFFICES ASSUME Typed /\ Cause, [Next]_vars PROVE Cause'
  OBVIOUS
<1> USE UpdaterAssumption DEF NoMarker, None, Starting, Cause, vars, files,
   trees, server, bounds, past, Goto
<1>1. CASE StartUnhelped
  BY <1>1 DEF StartUnhelped
<1>2. CASE StartRollback
  BY <1>2 DEF StartRollback, NoTree, NoRetry, Valid, Note
<1>3. CASE StartHelper
  BY <1>3 DEF StartHelper, NoRetry, Note, Promoted
<1>4. CASE Refuse
  BY <1>4 DEF Refuse
<1>5. CASE BeginSnapshot
  BY <1>5 DEF BeginSnapshot, NoTree
<1>6. CASE Snapshot
  BY <1>6 DEF Snapshot, NoTree
<1>7. CASE Extract
  BY <1>7 DEF Extract
<1>8. CASE GiveUp
  BY <1>8 DEF GiveUp, NoTree
<1>9. CASE Migrate
  BY <1>9 DEF Migrate, Environment
<1>10. CASE Swap
  BY <1>10 DEF Swap, NoTree
<1>11. CASE Promote
  BY <1>11 DEF Promote, NoTree
<1>12. CASE Place
  BY <1>12 DEF Place
<1>13. CASE Sync
  <2>1. Synced
    BY <1>13, SyncDone
  <2> QED  BY <2>1 DEF Synced, Environment
<1>14. CASE SyncFails
  BY <1>14 DEF SyncFails
<1>15. CASE Recover
  BY <1>15 DEF Recover, NoTree
<1>16. CASE Defer
  BY <1>16 DEF Defer
<1>17. CASE SetAside
  BY <1>17 DEF SetAside, NoTree
<1>18. CASE BringBack
  BY <1>18 DEF BringBack, NoTree
<1>19. CASE PythonDies
  BY <1>19 DEF PythonDies, Runs, Whole
<1>20. CASE Check
  <2>1. CASE marker = NoMarker
    BY <1>20, <2>1 DEF Check, Attempts, Counted, Runs, Whole
  <2>2. CASE marker # NoMarker
    <3>1. marker' = Counted
      BY <1>20, <2>2 DEF Check, Attempts, Counted, Runs, Whole
    <3>2. marker'.sameBoot /\ marker'.attempts = Attempts
      BY <3>1 DEF Counted, Typed, TypeOK
    <3>3. CASE Attempts >= 2
      <4>1. marker.sameBoot /\ marker.attempts >= 1
        BY <3>3 DEF Attempts, Typed, TypeOK
      <4>2. crashed'
        BY <1>20, <2>2, <4>1 DEF Check, Attempts, Counted, Runs, Whole,
           Starting
      <4> QED  BY <4>2
    <3>4. CASE ~(Attempts >= 2)
      BY <1>20, <2>2, <3>4 DEF Check, Attempts, Counted, Runs, Whole
    <3> QED  BY <3>3, <3>4
  <2> QED  BY <2>1, <2>2
<1>21. CASE Restore
  BY <1>21 DEF Restore, Note, DataRestored
<1>22. CASE Revert
  BY <1>22 DEF Revert
<1>23. CASE Leave
  BY <1>23 DEF Leave
<1>24. CASE Load
  BY <1>24 DEF Load
<1>25. CASE LoadHistory
  BY <1>25 DEF LoadHistory, Reconciled, Judged, Applied
<1>26. CASE EngineUp
  BY <1>26 DEF EngineUp, Confirmed
<1>27. CASE EngineDies
  BY <1>27 DEF EngineDies
<1>28. CASE EngineFails
  BY <1>28 DEF EngineFails
<1>29. CASE WriteUpdate
  BY <1>29 DEF WriteUpdate, Row, Note
<1>30. CASE UpdateFails
  BY <1>30 DEF UpdateFails, Row, Note
<1>31. CASE BeginRollback
  BY <1>31 DEF BeginRollback, NoTree
<1>32. CASE WriteRollback
  BY <1>32 DEF WriteRollback, Row, Note
<1>33. CASE Exit
  BY <1>33 DEF Exit
<1>34. ASSUME NEW v \in Version, BeginUpdate(v) PROVE Cause'
  BY <1>34 DEF BeginUpdate, Note
<1>35. ASSUME NEW cut \in BOOLEAN, Stop(cut) PROVE Cause'
  <2>1. CASE cut
    BY <1>35, <2>1 DEF Stop, Torn
  <2>2. CASE ~cut
    BY <1>35, <2>2 DEF Stop, Torn
  <2> QED  BY <2>1, <2>2
<1>36. CASE UNCHANGED vars
  BY <1>36
<1> QED
  BY <1>1, <1>2, <1>3, <1>4, <1>5, <1>6, <1>7, <1>8, <1>9, <1>10, <1>11,
     <1>12, <1>13, <1>14, <1>15, <1>16, <1>17, <1>18, <1>19, <1>20, <1>21,
     <1>22, <1>23, <1>24, <1>25, <1>26, <1>27, <1>28, <1>29, <1>30, <1>31,
     <1>32, <1>33, <1>34, <1>35, <1>36
     DEF Next, Helper, Boot, Operate

(* Versions are numbers, NoTree is none, and what a phase tells of versions. *)
LEMMA Numbers ==
  Typed => /\ app.ver \in Nat /\ previous.ver \in Nat /\ staging.ver \in Nat
           /\ instr \in Nat /\ retry.to \in Nat /\ job \in Nat /\ marker.to \in Nat
           /\ fmt \in Nat /\ marker.fmt \in Nat
           /\ (marker # NoMarker => marker.to # None)
           /\ (phase \in Helping => instr # None)
           /\ (phase = "snapshot" => app.ver # None)
           /\ (job # None => phase = "up") /\ (phase = "up" => app.ver # None)
           /\ NoTree.ver = None /\ ~NoTree.good /\ NoTree.parts = {}
BY UpdaterAssumption DEF Typed, TypeOK, Tree, Version, None, NoTree, Running

(* Every step keeps versions in order. *)
LEMMA AheadStep == Typed /\ Ahead /\ [Next]_vars => Ahead'
<1> SUFFICES ASSUME Typed /\ Ahead, [Next]_vars PROVE Ahead'
  OBVIOUS
<1> USE UpdaterAssumption DEF None, Helping, Ahead, vars, files, trees,
   server, bounds, past, Goto
<1> USE Numbers
<1>1. CASE StartUnhelped
  BY <1>1 DEF StartUnhelped
<1>2. CASE StartRollback
  BY <1>2 DEF StartRollback, NoTree, NoRetry, Valid, Note
<1>3. CASE StartHelper
  BY <1>3 DEF StartHelper, NoRetry, Note, Promoted
<1>4. CASE Refuse
  BY <1>4 DEF Refuse
<1>5. CASE BeginSnapshot
  BY <1>5 DEF BeginSnapshot, NoTree
<1>6. CASE Snapshot
  BY <1>6 DEF Snapshot, NoTree
<1>7. CASE Extract
  BY <1>7 DEF Extract
<1>8. CASE GiveUp
  BY <1>8 DEF GiveUp, NoTree
<1>9. CASE Migrate
  BY <1>9 DEF Migrate, Environment
<1>10. CASE Swap
  BY <1>10 DEF Swap, NoTree
<1>11. CASE Promote
  BY <1>11 DEF Promote, NoTree
<1>12. CASE Place
  BY <1>12 DEF Place
<1>13. CASE Sync
  <2>1. Synced
    BY <1>13, SyncDone
  <2> QED  BY <2>1 DEF Synced, Environment
<1>14. CASE SyncFails
  BY <1>14 DEF SyncFails
<1>15. CASE Recover
  BY <1>15 DEF Recover, NoTree
<1>16. CASE Defer
  BY <1>16 DEF Defer
<1>17. CASE SetAside
  BY <1>17 DEF SetAside, NoTree
<1>18. CASE BringBack
  BY <1>18 DEF BringBack, NoTree
<1>19. CASE PythonDies
  BY <1>19 DEF PythonDies, Runs, Whole
<1>20. CASE Check
  BY <1>20 DEF Check, NoMarker, Attempts, Counted, Runs, Whole
<1>21. CASE Restore
  BY <1>21 DEF Restore, Note, DataRestored
<1>22. CASE Revert
  BY <1>22 DEF Revert
<1>23. CASE Leave
  BY <1>23 DEF Leave, NoMarker
<1>24. CASE Load
  BY <1>24 DEF Load
<1>25. CASE LoadHistory
  BY <1>25 DEF LoadHistory, Reconciled, Judged, Applied
<1>26. CASE EngineUp
  BY <1>26 DEF EngineUp, Confirmed, NoMarker
<1>27. CASE EngineDies
  BY <1>27 DEF EngineDies
<1>28. CASE EngineFails
  BY <1>28 DEF EngineFails
<1>29. CASE WriteUpdate
  BY <1>29 DEF WriteUpdate, Row, Note
<1>30. CASE UpdateFails
  BY <1>30 DEF UpdateFails, NoMarker, Row, Note
<1>31. CASE BeginRollback
  BY <1>31 DEF BeginRollback, NoTree
<1>32. CASE WriteRollback
  BY <1>32 DEF WriteRollback, NoMarker, Row, Note
<1>33. CASE Exit
  BY <1>33 DEF Exit
<1>34. ASSUME NEW v \in Version, BeginUpdate(v) PROVE Ahead'
  <2>1. v \in Nat
    BY DEF Version
  <2>2. "downgrade" \notin notes' => "downgrade" \notin notes /\ app.ver <= v
    BY <1>34, <2>1 DEF BeginUpdate, Note
  <2> QED  BY <1>34, <2>1, <2>2 DEF BeginUpdate, Note
<1>35. ASSUME NEW cut \in BOOLEAN, Stop(cut) PROVE Ahead'
  <2>0. Remains
    BY <1>35, Stopped
  <2> QED  BY <2>0 DEF Remains
<1>36. CASE UNCHANGED vars
  BY <1>36
<1> QED
  BY <1>1, <1>2, <1>3, <1>4, <1>5, <1>6, <1>7, <1>8, <1>9, <1>10, <1>11,
     <1>12, <1>13, <1>14, <1>15, <1>16, <1>17, <1>18, <1>19, <1>20, <1>21,
     <1>22, <1>23, <1>24, <1>25, <1>26, <1>27, <1>28, <1>29, <1>30, <1>31,
     <1>32, <1>33, <1>34, <1>35, <1>36
     DEF Next, Helper, Boot, Operate

(* Every step keeps the way back open. *)
LEMMA UndoStep == Typed /\ Intact /\ Undo /\ [Next]_vars => Undo'
<1> SUFFICES ASSUME Typed /\ Intact /\ Undo, [Next]_vars PROVE Undo'
  OBVIOUS
<1> USE UpdaterAssumption DEF None, Valid, Starting, Helping, Undoing,
   Running, Undo, Aimed, Undoable, vars, files, trees, server, bounds, past,
   Goto
<1> USE Numbers
<1>a. notes \cap {"torn", "deferred"} = {} => "torn" \notin notes
  OBVIOUS
<1>b. "torn" \notin notes =>
      /\ (phase \notin {"swap", "promote", "recover", "back"} => Valid(app))
      /\ (phase \in {"extract", "migrate", "swap", "promote", "place", "sync",
                  "recover", "aside", "back"} => Valid(previous) /\ previous # NoTree)
  BY DEF Intact, Halted, Valid, Whole, Part, NoTree
<1>c. "torn" \notin notes /\ phase = "sync" => Whole(previous)
  BY DEF Intact
<1>d. Whole(previous) => Valid(previous)
  BY DEF Whole, Valid, Part
<1>1. CASE StartUnhelped
  BY <1>1 DEF StartUnhelped
<1>2. CASE StartRollback
  BY <1>2, <1>a, <1>b DEF StartRollback, NoTree, NoRetry, Note
<1>3. CASE StartHelper
  BY <1>3 DEF StartHelper, NoRetry, Note, Promoted
<1>4. CASE Refuse
  BY <1>4 DEF Refuse
<1>5. CASE BeginSnapshot
  BY <1>5 DEF BeginSnapshot, NoTree
<1>6. CASE Snapshot
  BY <1>6 DEF Snapshot, NoTree
<1>7. CASE Extract
  BY <1>7 DEF Extract
<1>8. CASE GiveUp
  BY <1>8 DEF GiveUp, NoTree
<1>9. CASE Migrate
  BY <1>9 DEF Migrate, Environment
<1>10. CASE Swap
  BY <1>10 DEF Swap, NoTree
<1>11. CASE Promote
  BY <1>11 DEF Promote, NoTree
<1>12. CASE Place
  BY <1>12 DEF Place
<1>13. CASE Sync
  <2>1. Synced
    BY <1>13, SyncDone
  <2> QED  BY <2>1, <1>a, <1>b, <1>c DEF Synced, Environment
<1>14. CASE SyncFails
  BY <1>14 DEF SyncFails
<1>15. CASE Recover
  BY <1>15 DEF Recover, NoTree
<1>16. CASE Defer
  BY <1>16 DEF Defer
<1>17. CASE SetAside
  BY <1>17 DEF SetAside, NoTree
<1>18. CASE BringBack
  BY <1>18, <1>a, <1>b DEF BringBack, NoTree
<1>19. CASE PythonDies
  BY <1>19 DEF PythonDies, Runs, Whole, Part
<1>20. CASE Check
  BY <1>20 DEF Check, NoMarker, Attempts, Counted, Runs, Whole
<1>21. CASE Restore
  BY <1>21 DEF Restore, Note, DataRestored
<1>22. CASE Revert
  BY <1>22 DEF Revert
<1>23. CASE Leave
  BY <1>23 DEF Leave, NoMarker, Whole, Part
<1>24. CASE Load
  BY <1>24 DEF Load
<1>25. CASE LoadHistory
  BY <1>25 DEF LoadHistory, Reconciled, Judged, Applied
<1>26. CASE EngineUp
  BY <1>26 DEF EngineUp, Confirmed, NoMarker
<1>27. CASE EngineDies
  BY <1>27 DEF EngineDies, Whole, Part
<1>28. CASE EngineFails
  BY <1>28 DEF EngineFails
<1>29. CASE WriteUpdate
  BY <1>29 DEF WriteUpdate, Row, Note
<1>30. CASE UpdateFails
  BY <1>30 DEF UpdateFails, NoMarker, Row, Note
<1>31. CASE BeginRollback
  BY <1>31 DEF BeginRollback, NoTree
<1>32. CASE WriteRollback
  BY <1>32 DEF WriteRollback, NoMarker, Row, Note
<1>33. CASE Exit
  BY <1>33 DEF Exit
<1>34. ASSUME NEW v \in Version, BeginUpdate(v) PROVE Undo'
  BY <1>34 DEF BeginUpdate, Note
<1>35. ASSUME NEW cut \in BOOLEAN, Stop(cut) PROVE Undo'
  <2>0. Remains
    BY <1>35, Stopped
  <2>1. CASE phase \in {"swap", "promote", "place", "sync", "recover", "back"}
    BY <2>1, <2>0 DEF Remains
  <2>2. CASE phase \notin {"swap", "promote", "place", "sync", "recover", "back"}
    <3>1. phase \in Phase
      BY DEF Typed, TypeOK
    <3>2. notes \cap {"torn", "deferred"} = {} /\ previous' # NoTree => previous'.good
      BY <1>a, <1>b, <2>2, <2>0 DEF Remains
    <3> QED  BY <1>a, <1>b, <1>d, <2>2, <3>1, <3>2, <2>0 DEF Remains, Phase
  <2> QED  BY <2>1, <2>2
<1>36. CASE UNCHANGED vars
  BY <1>36
<1> QED
  BY <1>1, <1>2, <1>3, <1>4, <1>5, <1>6, <1>7, <1>8, <1>9, <1>10, <1>11,
     <1>12, <1>13, <1>14, <1>15, <1>16, <1>17, <1>18, <1>19, <1>20, <1>21,
     <1>22, <1>23, <1>24, <1>25, <1>26, <1>27, <1>28, <1>29, <1>30, <1>31,
     <1>32, <1>33, <1>34, <1>35, <1>36
     DEF Next, Helper, Boot, Operate

(* Every step keeps data and code together. *)
LEMMA FitsStep == Typed /\ Ahead /\ Fits /\ [Next]_vars => Fits'
<1> SUFFICES ASSUME Typed /\ Ahead /\ Fits, [Next]_vars PROVE Fits'
  OBVIOUS
<1> USE UpdaterAssumption DEF None, NoMarker, Starting, Helping, Fits, vars,
   files, trees, server, bounds, past, Goto
<1> USE Numbers
<1>1. CASE StartUnhelped
  BY <1>1 DEF StartUnhelped
<1>2. CASE StartRollback
  BY <1>2 DEF StartRollback, NoTree, NoRetry, Valid, Note
<1>3. CASE StartHelper
  BY <1>3 DEF StartHelper, NoRetry, Note, Promoted
<1>4. CASE Refuse
  BY <1>4 DEF Refuse
<1>5. CASE BeginSnapshot
  BY <1>5 DEF BeginSnapshot, NoTree
<1>6. CASE Snapshot
  BY <1>6 DEF Snapshot, NoTree
<1>7. CASE Extract
  BY <1>7 DEF Extract
<1>8. CASE GiveUp
  BY <1>8 DEF GiveUp, NoTree
<1>9. CASE Migrate
  BY <1>9 DEF Migrate, Environment
<1>10. CASE Swap
  BY <1>10 DEF Swap, NoTree
<1>11. CASE Promote
  <2>1. "downgrade" \notin notes =>
           app'.ver = instr /\ instr # None /\ previous.ver <= instr
    BY <1>11 DEF Promote, NoTree, Ahead
  <2>2. phase = "promote" /\ phase' = "place" /\ UNCHANGED <<previous, files,
     past>>
    BY <1>11 DEF Promote, NoTree
  <2> QED  BY <2>1, <2>2
<1>12. CASE Place
  BY <1>12 DEF Place
<1>13. CASE Sync
  <2>1. Synced
    BY <1>13, SyncDone
  <2> QED  BY <2>1 DEF Synced, Environment
<1>14. CASE SyncFails
  BY <1>14 DEF SyncFails
<1>15. CASE Recover
  BY <1>15 DEF Recover, NoTree
<1>16. CASE Defer
  BY <1>16 DEF Defer
<1>17. CASE SetAside
  BY <1>17 DEF SetAside, NoTree
<1>18. CASE BringBack
  BY <1>18 DEF BringBack, NoTree
<1>19. CASE PythonDies
  BY <1>19 DEF PythonDies, Runs, Whole
<1>20. CASE Check
  BY <1>20 DEF Check, Attempts, Counted, Runs, Whole
<1>21. CASE Restore
  BY <1>21 DEF Restore, Note, DataRestored
<1>22. CASE Revert
  BY <1>22 DEF Revert
<1>23. CASE Leave
  BY <1>23 DEF Leave
<1>24. CASE Load
  BY <1>24 DEF Load
<1>25. CASE LoadHistory
  BY <1>25 DEF LoadHistory, Reconciled, Judged, Applied
<1>26. CASE EngineUp
  BY <1>26 DEF EngineUp, Confirmed
<1>27. CASE EngineDies
  BY <1>27 DEF EngineDies
<1>28. CASE EngineFails
  BY <1>28 DEF EngineFails
<1>29. CASE WriteUpdate
  <2>1. marker'.to = job /\ marker'.fmt = fmt /\ app.ver # None
    BY <1>29 DEF WriteUpdate, Row, Note
  <2>2. UNCHANGED <<trees, revert, fmt, phase>> /\ phase = "up" /\ job # None
    BY <1>29 DEF WriteUpdate, Row, Note
  <2>3. notes \subseteq notes'
    BY <1>29 DEF WriteUpdate, Row, Note
  <2> QED  BY <2>1, <2>2, <2>3 DEF Ahead
<1>30. CASE UpdateFails
  BY <1>30 DEF UpdateFails, Row, Note
<1>31. CASE BeginRollback
  BY <1>31 DEF BeginRollback, NoTree
<1>32. CASE WriteRollback
  BY <1>32 DEF WriteRollback, Row, Note
<1>33. CASE Exit
  BY <1>33 DEF Exit
<1>34. ASSUME NEW v \in Version, BeginUpdate(v) PROVE Fits'
  BY <1>34 DEF BeginUpdate, Note
<1>35. ASSUME NEW cut \in BOOLEAN, Stop(cut) PROVE Fits'
  <2>0. Remains
    BY <1>35, Stopped
  <2> QED  BY <2>0 DEF Remains
<1>36. CASE UNCHANGED vars
  BY <1>36
<1> QED
  BY <1>1, <1>2, <1>3, <1>4, <1>5, <1>6, <1>7, <1>8, <1>9, <1>10, <1>11,
     <1>12, <1>13, <1>14, <1>15, <1>16, <1>17, <1>18, <1>19, <1>20, <1>21,
     <1>22, <1>23, <1>24, <1>25, <1>26, <1>27, <1>28, <1>29, <1>30, <1>31,
     <1>32, <1>33, <1>34, <1>35, <1>36
     DEF Next, Helper, Boot, Operate

(* Every step keeps the marker and the row together. *)
LEMMA RowedStep ==
  Typed /\ Rowed /\ [Next]_vars
  => Rowed'
<1> SUFFICES ASSUME Typed /\ Rowed, [Next]_vars PROVE Rowed'
  OBVIOUS
<1> USE UpdaterAssumption DEF None, Valid, Starting, Helping, Undoing,
   Running, Rowed, vars, files, trees, server, bounds, past,
   Goto
<1> USE Numbers
<1>1. CASE StartUnhelped
  BY <1>1 DEF StartUnhelped
<1>2. CASE StartRollback
  BY <1>2 DEF StartRollback, NoTree, NoRetry, Note
<1>3. CASE StartHelper
  BY <1>3 DEF StartHelper, NoRetry, Note, Promoted
<1>4. CASE Refuse
  BY <1>4 DEF Refuse
<1>5. CASE BeginSnapshot
  BY <1>5 DEF BeginSnapshot, NoTree
<1>6. CASE Snapshot
  BY <1>6 DEF Snapshot, NoTree
<1>7. CASE Extract
  BY <1>7 DEF Extract
<1>8. CASE GiveUp
  BY <1>8 DEF GiveUp, NoTree
<1>9. CASE Migrate
  BY <1>9 DEF Migrate, Environment
<1>10. CASE Swap
  BY <1>10 DEF Swap, NoTree
<1>11. CASE Promote
  BY <1>11 DEF Promote, NoTree
<1>12. CASE Place
  BY <1>12 DEF Place
<1>13. CASE Sync
  <2>1. Synced
    BY <1>13, SyncDone
  <2> QED  BY <2>1 DEF Synced, Environment
<1>14. CASE SyncFails
  BY <1>14 DEF SyncFails
<1>15. CASE Recover
  BY <1>15 DEF Recover, NoTree
<1>16. CASE Defer
  BY <1>16 DEF Defer
<1>17. CASE SetAside
  BY <1>17 DEF SetAside, NoTree
<1>18. CASE BringBack
  BY <1>18 DEF BringBack, NoTree
<1>19. CASE PythonDies
  BY <1>19 DEF PythonDies, Runs, Whole
<1>20. CASE Check
  BY <1>20 DEF Check, NoMarker, Attempts, Counted, Runs, Whole
<1>21. CASE Restore
  BY <1>21 DEF Restore, Note, DataRestored
<1>22. CASE Revert
  BY <1>22 DEF Revert
<1>23. CASE Leave
  BY <1>23 DEF Leave, NoMarker
<1>24. CASE Load
  BY <1>24 DEF Load
<1>25. CASE LoadHistory
  BY <1>25 DEF LoadHistory, Reconciled, Judged, Applied
<1>26. CASE EngineUp
  BY <1>26 DEF EngineUp, Confirmed, NoMarker
<1>27. CASE EngineDies
  BY <1>27 DEF EngineDies
<1>28. CASE EngineFails
  BY <1>28 DEF EngineFails
<1>29. CASE WriteUpdate
  BY <1>29 DEF WriteUpdate, Row, Note
<1>30. CASE UpdateFails
  BY <1>30 DEF UpdateFails, NoMarker, Row, Note
<1>31. CASE BeginRollback
  BY <1>31 DEF BeginRollback, NoTree
<1>32. CASE WriteRollback
  BY <1>32 DEF WriteRollback, NoMarker, Row, Note
<1>33. CASE Exit
  BY <1>33 DEF Exit
<1>34. ASSUME NEW v \in Version, BeginUpdate(v) PROVE Rowed'
  BY <1>34 DEF BeginUpdate, Note
<1>35. ASSUME NEW cut \in BOOLEAN, Stop(cut) PROVE Rowed'
  <2>0. Remains
    BY <1>35, Stopped
  <2>1. phase \in Phase
    BY DEF Typed, TypeOK
  <2> QED  BY <2>1, <2>0 DEF Remains, Phase
<1>36. CASE UNCHANGED vars
  BY <1>36
<1> QED
  BY <1>1, <1>2, <1>3, <1>4, <1>5, <1>6, <1>7, <1>8, <1>9, <1>10, <1>11,
     <1>12, <1>13, <1>14, <1>15, <1>16, <1>17, <1>18, <1>19, <1>20, <1>21,
     <1>22, <1>23, <1>24, <1>25, <1>26, <1>27, <1>28, <1>29, <1>30, <1>31,
     <1>32, <1>33, <1>34, <1>35, <1>36
     DEF Next, Helper, Boot, Operate

(* Every step leaves a failed update where it is. *)
LEMMA FailedTooStep ==
  Typed /\ Rowed /\ FailedToo /\ [Next]_vars
  => FailedToo'
<1> SUFFICES ASSUME Typed /\ Rowed /\ FailedToo, [Next]_vars PROVE FailedToo'
  OBVIOUS
<1> USE UpdaterAssumption DEF None, Valid, Starting, Helping, Undoing,
   Running, FailedToo, vars, files, trees, server, bounds, past,
   Goto
<1> USE Numbers
<1>1. CASE StartUnhelped
  BY <1>1 DEF StartUnhelped
<1>2. CASE StartRollback
  BY <1>2 DEF StartRollback, NoTree, NoRetry, Note
<1>3. CASE StartHelper
  BY <1>3 DEF StartHelper, NoRetry, Note, Promoted
<1>4. CASE Refuse
  BY <1>4 DEF Refuse
<1>5. CASE BeginSnapshot
  BY <1>5 DEF BeginSnapshot, NoTree
<1>6. CASE Snapshot
  BY <1>6 DEF Snapshot, NoTree
<1>7. CASE Extract
  BY <1>7 DEF Extract
<1>8. CASE GiveUp
  BY <1>8 DEF GiveUp, NoTree
<1>9. CASE Migrate
  BY <1>9 DEF Migrate, Environment
<1>10. CASE Swap
  BY <1>10 DEF Swap, NoTree
<1>11. CASE Promote
  BY <1>11 DEF Promote, NoTree
<1>12. CASE Place
  BY <1>12 DEF Place
<1>13. CASE Sync
  <2>1. Synced
    BY <1>13, SyncDone
  <2> QED  BY <2>1 DEF Synced, Environment
<1>14. CASE SyncFails
  BY <1>14 DEF SyncFails
<1>15. CASE Recover
  BY <1>15 DEF Recover, NoTree
<1>16. CASE Defer
  BY <1>16 DEF Defer
<1>17. CASE SetAside
  BY <1>17 DEF SetAside, NoTree
<1>18. CASE BringBack
  BY <1>18 DEF BringBack, NoTree
<1>19. CASE PythonDies
  BY <1>19 DEF PythonDies, Runs, Whole
<1>20. CASE Check
  BY <1>20 DEF Check, NoMarker, Attempts, Counted, Runs, Whole
<1>21. CASE Restore
  BY <1>21 DEF Restore, Note, DataRestored, Rowed, Typed
<1>22. CASE Revert
  BY <1>22 DEF Revert
<1>23. CASE Leave
  BY <1>23 DEF Leave, NoMarker
<1>24. CASE Load
  BY <1>24 DEF Load
<1>25. CASE LoadHistory
  BY <1>25 DEF LoadHistory, Reconciled, Judged, Applied, Rowed, Typed, TypeOK
<1>26. CASE EngineUp
  BY <1>26 DEF EngineUp, Confirmed, NoMarker
<1>27. CASE EngineDies
  BY <1>27 DEF EngineDies
<1>28. CASE EngineFails
  BY <1>28 DEF EngineFails
<1>29. CASE WriteUpdate
  BY <1>29 DEF WriteUpdate, Row, Note
<1>30. CASE UpdateFails
  BY <1>30 DEF UpdateFails, Row, Note, Rowed
<1>31. CASE BeginRollback
  BY <1>31 DEF BeginRollback, NoTree
<1>32. CASE WriteRollback
  BY <1>32 DEF WriteRollback, NoMarker, Row, Note
<1>33. CASE Exit
  BY <1>33 DEF Exit
<1>34. ASSUME NEW v \in Version, BeginUpdate(v) PROVE FailedToo'
  BY <1>34 DEF BeginUpdate, Note
<1>35. ASSUME NEW cut \in BOOLEAN, Stop(cut) PROVE FailedToo'
  <2>0. Remains
    BY <1>35, Stopped
  <2>1. phase \in Phase
    BY DEF Typed, TypeOK
  <2> QED  BY <2>1, <2>0 DEF Remains, Phase
<1>36. CASE UNCHANGED vars
  BY <1>36
<1> QED
  BY <1>1, <1>2, <1>3, <1>4, <1>5, <1>6, <1>7, <1>8, <1>9, <1>10, <1>11,
     <1>12, <1>13, <1>14, <1>15, <1>16, <1>17, <1>18, <1>19, <1>20, <1>21,
     <1>22, <1>23, <1>24, <1>25, <1>26, <1>27, <1>28, <1>29, <1>30, <1>31,
     <1>32, <1>33, <1>34, <1>35, <1>36
     DEF Next, Helper, Boot, Operate

(* Every step keeps what the helper leaves behind in order. *)
LEMMA TracesStep ==
  Typed /\ Intact /\ Rowed /\ Traces /\ [Next]_vars
  => Traces'
<1> SUFFICES ASSUME Typed /\ Intact /\ Rowed /\ Traces, [Next]_vars PROVE Traces'
  OBVIOUS
<1> USE UpdaterAssumption DEF None, Valid, Starting, Helping, Undoing,
   Running, Traces, vars, files, trees, server, bounds, past,
   Goto
<1> USE Numbers
<1>a. notes \cap {"torn", "raced", "stale"} = {} => "torn" \notin notes
  OBVIOUS
<1>b. "torn" \notin notes =>
      /\ (phase \notin {"swap", "promote", "recover", "back"} => Valid(app))
      /\ (phase \in {"extract", "migrate", "swap", "promote", "place", "sync",
                  "recover", "aside", "back"} => Valid(previous) /\ previous # NoTree)
  BY DEF Intact, Halted, Valid, Whole, Part, NoTree
<1>1. CASE StartUnhelped
  BY <1>1 DEF StartUnhelped
<1>2. CASE StartRollback
  BY <1>2, <1>a, <1>b DEF StartRollback, NoTree, NoRetry, Note
<1>3. CASE StartHelper
  BY <1>3 DEF StartHelper, NoRetry, Note, Promoted
<1>4. CASE Refuse
  BY <1>4 DEF Refuse
<1>5. CASE BeginSnapshot
  BY <1>5 DEF BeginSnapshot, NoTree
<1>6. CASE Snapshot
  BY <1>6 DEF Snapshot, NoTree
<1>7. CASE Extract
  BY <1>7 DEF Extract
<1>8. CASE GiveUp
  BY <1>8 DEF GiveUp, NoTree
<1>9. CASE Migrate
  BY <1>9 DEF Migrate, Environment
<1>10. CASE Swap
  BY <1>10 DEF Swap, NoTree
<1>11. CASE Promote
  BY <1>11, <1>a, <1>b DEF Promote, NoTree, Rowed
<1>12. CASE Place
  BY <1>12 DEF Place
<1>13. CASE Sync
  <2>1. Synced
    BY <1>13, SyncDone
  <2> QED  BY <2>1, <1>a, <1>b DEF Synced, Environment
<1>14. CASE SyncFails
  BY <1>14 DEF SyncFails
<1>15. CASE Recover
  BY <1>15 DEF Recover, NoTree
<1>16. CASE Defer
  BY <1>16 DEF Defer
<1>17. CASE SetAside
  BY <1>17 DEF SetAside, NoTree
<1>18. CASE BringBack
  BY <1>18, <1>a, <1>b DEF BringBack, NoTree
<1>19. CASE PythonDies
  BY <1>19 DEF PythonDies, Runs, Whole
<1>20. CASE Check
  BY <1>20 DEF Check, NoMarker, Attempts, Counted, Runs, Whole
<1>21. CASE Restore
  BY <1>21 DEF Restore, Note, DataRestored
<1>22. CASE Revert
  BY <1>22 DEF Revert
<1>23. CASE Leave
  BY <1>23 DEF Leave, NoMarker
<1>24. CASE Load
  BY <1>24 DEF Load
<1>25. CASE LoadHistory
  BY <1>25 DEF LoadHistory, Reconciled, Judged, Applied
<1>26. CASE EngineUp
  BY <1>26 DEF EngineUp, Confirmed, NoMarker
<1>27. CASE EngineDies
  BY <1>27 DEF EngineDies
<1>28. CASE EngineFails
  BY <1>28 DEF EngineFails
<1>29. CASE WriteUpdate
  BY <1>29 DEF WriteUpdate, Row, Note
<1>30. CASE UpdateFails
  BY <1>30 DEF UpdateFails, NoMarker, Row, Note
<1>31. CASE BeginRollback
  BY <1>31 DEF BeginRollback, NoTree
<1>32. CASE WriteRollback
  BY <1>32 DEF WriteRollback, NoMarker, Row, Note
<1>33. CASE Exit
  BY <1>33 DEF Exit
<1>34. ASSUME NEW v \in Version, BeginUpdate(v) PROVE Traces'
  BY <1>34 DEF BeginUpdate, Note
<1>35. ASSUME NEW cut \in BOOLEAN, Stop(cut) PROVE Traces'
  <2>0. Remains
    BY <1>35, Stopped
  <2>1. phase \in Phase
    BY DEF Typed, TypeOK
  <2> QED  BY <2>1, <2>0 DEF Remains, Phase
<1>36. CASE UNCHANGED vars
  BY <1>36
<1> QED
  BY <1>1, <1>2, <1>3, <1>4, <1>5, <1>6, <1>7, <1>8, <1>9, <1>10, <1>11,
     <1>12, <1>13, <1>14, <1>15, <1>16, <1>17, <1>18, <1>19, <1>20, <1>21,
     <1>22, <1>23, <1>24, <1>25, <1>26, <1>27, <1>28, <1>29, <1>30, <1>31,
     <1>32, <1>33, <1>34, <1>35, <1>36
     DEF Next, Helper, Boot, Operate

(* Every step keeps a pending update between its two versions. *)
LEMMA PendingTooStep ==
  Typed /\ Intact /\ Rowed /\ Traces /\ PendingToo /\ [Next]_vars
  => PendingToo'
<1> SUFFICES ASSUME Typed /\ Intact /\ Rowed /\ Traces /\ PendingToo,
                    [Next]_vars
             PROVE PendingToo'
  OBVIOUS
<1> USE UpdaterAssumption DEF None, Valid, Starting, Helping, Undoing,
   Running, PendingToo, vars, files, trees, server, bounds, past,
   Goto
<1> USE Numbers
<1>a. notes \cap {"torn", "raced", "stale"} = {} => "torn" \notin notes
  OBVIOUS
<1>b. "torn" \notin notes =>
      /\ (phase \notin {"swap", "promote", "recover", "back"} => Valid(app))
      /\ (phase \in {"extract", "migrate", "swap", "promote", "place", "sync",
                  "recover", "aside", "back"} => Valid(previous) /\ previous # NoTree)
  BY DEF Intact, Halted, Valid, Whole, Part, NoTree
<1>1. CASE StartUnhelped
  BY <1>1 DEF StartUnhelped
<1>2. CASE StartRollback
  BY <1>2, <1>a, <1>b DEF StartRollback, NoTree, NoRetry, Note
<1>3. CASE StartHelper
  BY <1>3 DEF StartHelper, NoRetry, Note, Promoted
<1>4. CASE Refuse
  BY <1>4 DEF Refuse, Traces
<1>5. CASE BeginSnapshot
  BY <1>5 DEF BeginSnapshot, NoTree, Rowed
<1>6. CASE Snapshot
  BY <1>6 DEF Snapshot, NoTree
<1>7. CASE Extract
  BY <1>7 DEF Extract
<1>8. CASE GiveUp
  BY <1>8 DEF GiveUp, NoTree, Traces, Rowed
<1>9. CASE Migrate
  BY <1>9 DEF Migrate, Environment
<1>10. CASE Swap
  BY <1>10 DEF Swap, NoTree, Rowed
<1>11. CASE Promote
  BY <1>11 DEF Promote, NoTree, Traces
<1>12. CASE Place
  BY <1>12 DEF Place
<1>13. CASE Sync
  <2>1. Synced
    BY <1>13, SyncDone
  <2> QED  BY <2>1, <1>a, <1>b DEF Synced, Environment
<1>14. CASE SyncFails
  BY <1>14 DEF SyncFails
<1>15. CASE Recover
  BY <1>15 DEF Recover, NoTree, Traces, Rowed
<1>16. CASE Defer
  BY <1>16 DEF Defer, Traces
<1>17. CASE SetAside
  BY <1>17 DEF SetAside, NoTree, Rowed
<1>18. CASE BringBack
  BY <1>18 DEF BringBack, NoTree, Rowed, Traces
<1>19. CASE PythonDies
  BY <1>19 DEF PythonDies, Runs, Whole
<1>20. CASE Check
  BY <1>20 DEF Check, Attempts, Counted, Runs, Traces, Rowed
<1>21. CASE Restore
  BY <1>21 DEF Restore, Note, DataRestored, Rowed, Typed, TypeOK
<1>22. CASE Revert
  BY <1>22 DEF Revert
<1>23. CASE Leave
  BY <1>23 DEF Leave, NoMarker
<1>24. CASE Load
  BY <1>24 DEF Load
<1>25. CASE LoadHistory
  BY <1>25 DEF LoadHistory, Reconciled, Judged, Applied
<1>26. CASE EngineUp
  BY <1>26 DEF EngineUp, Confirmed, NoMarker
<1>27. CASE EngineDies
  BY <1>27 DEF EngineDies
<1>28. CASE EngineFails
  BY <1>28 DEF EngineFails
<1>29. CASE WriteUpdate
  BY <1>29 DEF WriteUpdate, Row, Note, Rowed
<1>30. CASE UpdateFails
  BY <1>30 DEF UpdateFails, NoMarker, Row, Note
<1>31. CASE BeginRollback
  BY <1>31 DEF BeginRollback, NoTree
<1>32. CASE WriteRollback
  BY <1>32 DEF WriteRollback, NoMarker, Row, Note
<1>33. CASE Exit
  BY <1>33 DEF Exit
<1>34. ASSUME NEW v \in Version, BeginUpdate(v) PROVE PendingToo'
  BY <1>34 DEF BeginUpdate, Note
<1>35. ASSUME NEW cut \in BOOLEAN, Stop(cut) PROVE PendingToo'
  <2>0. Remains
    BY <1>35, Stopped
  <2>1. phase \in Phase
    BY DEF Typed, TypeOK
  <2> QED  BY <2>1, <2>0 DEF Remains, Phase
<1>36. CASE UNCHANGED vars
  BY <1>36
<1> QED
  BY <1>1, <1>2, <1>3, <1>4, <1>5, <1>6, <1>7, <1>8, <1>9, <1>10, <1>11,
     <1>12, <1>13, <1>14, <1>15, <1>16, <1>17, <1>18, <1>19, <1>20, <1>21,
     <1>22, <1>23, <1>24, <1>25, <1>26, <1>27, <1>28, <1>29, <1>30, <1>31,
     <1>32, <1>33, <1>34, <1>35, <1>36
     DEF Next, Helper, Boot, Operate

(* Every step of an update to the version that runs leaves that version. *)
LEMMA SameTooStep ==
  Typed /\ Intact /\ Rowed /\ Traces /\ SameToo /\ [Next]_vars
  => SameToo'
<1> SUFFICES ASSUME Typed /\ Intact /\ Rowed /\ Traces /\ SameToo, [Next]_vars
             PROVE SameToo'
  OBVIOUS
<1> USE UpdaterAssumption DEF None, Valid, Starting, Helping, Undoing,
   Running, SameToo, vars, files, trees, server, bounds, past,
   Goto
<1> USE Numbers
<1>a. notes \cap {"torn", "raced", "stale"} = {} => "torn" \notin notes
  OBVIOUS
<1>b. "torn" \notin notes =>
      /\ (phase \notin {"swap", "promote", "recover", "back"} => Valid(app))
      /\ (phase \in {"extract", "migrate", "swap", "promote", "place", "sync",
                  "recover", "aside", "back"} => Valid(previous) /\ previous # NoTree)
  BY DEF Intact, Halted, Valid, Whole, Part, NoTree
<1>1. CASE StartUnhelped
  BY <1>1 DEF StartUnhelped
<1>2. CASE StartRollback
  BY <1>2, <1>a, <1>b DEF StartRollback, NoTree, NoRetry, Traces, Note
<1>3. CASE StartHelper
  BY <1>3 DEF StartHelper, NoRetry, Note, Promoted
<1>4. CASE Refuse
  BY <1>4 DEF Refuse, Traces
<1>5. CASE BeginSnapshot
  BY <1>5 DEF BeginSnapshot, NoTree
<1>6. CASE Snapshot
  BY <1>6 DEF Snapshot, NoTree
<1>7. CASE Extract
  BY <1>7 DEF Extract
<1>8. CASE GiveUp
  BY <1>8 DEF GiveUp, NoTree, Traces
<1>9. CASE Migrate
  BY <1>9 DEF Migrate, Environment
<1>10. CASE Swap
  BY <1>10 DEF Swap, NoTree
<1>11. CASE Promote
  BY <1>11 DEF Promote, NoTree, Traces, Rowed
<1>12. CASE Place
  BY <1>12 DEF Place
<1>13. CASE Sync
  <2>1. Synced
    BY <1>13, SyncDone
  <2> QED  BY <2>1, <1>a, <1>b DEF Synced, Environment, Traces, Rowed
<1>14. CASE SyncFails
  BY <1>14 DEF SyncFails
<1>15. CASE Recover
  BY <1>15 DEF Recover, NoTree, Traces, Rowed
<1>16. CASE Defer
  BY <1>16 DEF Defer
<1>17. CASE SetAside
  BY <1>17 DEF SetAside, NoTree, Rowed
<1>18. CASE BringBack
  BY <1>18, <1>a, <1>b DEF BringBack, NoTree, Rowed, Traces
<1>19. CASE PythonDies
  BY <1>19 DEF PythonDies, Runs, Whole
<1>20. CASE Check
  BY <1>20 DEF Check, NoMarker, Attempts, Counted, Runs, Whole
<1>21. CASE Restore
  BY <1>21 DEF Restore, Note, DataRestored, Rowed, Typed, TypeOK
<1>22. CASE Revert
  BY <1>22 DEF Revert
<1>23. CASE Leave
  BY <1>23 DEF Leave, NoMarker
<1>24. CASE Load
  BY <1>24 DEF Load
<1>25. CASE LoadHistory
  BY <1>25 DEF LoadHistory, Reconciled, Judged, Applied, Rowed
<1>26. CASE EngineUp
  BY <1>26 DEF EngineUp, Confirmed, NoMarker, Rowed
<1>27. CASE EngineDies
  BY <1>27 DEF EngineDies
<1>28. CASE EngineFails
  BY <1>28 DEF EngineFails
<1>29. CASE WriteUpdate
  BY <1>29 DEF WriteUpdate, Row, Note, Rowed
<1>30. CASE UpdateFails
  BY <1>30 DEF UpdateFails, NoMarker, Row, Note
<1>31. CASE BeginRollback
  BY <1>31 DEF BeginRollback, NoTree
<1>32. CASE WriteRollback
  BY <1>32 DEF WriteRollback, NoMarker, Row, Note, Traces, Rowed
<1>33. CASE Exit
  BY <1>33 DEF Exit
<1>34. ASSUME NEW v \in Version, BeginUpdate(v) PROVE SameToo'
  BY <1>34 DEF BeginUpdate, Note
<1>35. ASSUME NEW cut \in BOOLEAN, Stop(cut) PROVE SameToo'
  <2>0. Remains
    BY <1>35, Stopped
  <2>1. phase \in Phase
    BY DEF Typed, TypeOK
  <2> QED  BY <2>1, <2>0 DEF Remains, Phase
<1>36. CASE UNCHANGED vars
  BY <1>36
<1> QED
  BY <1>1, <1>2, <1>3, <1>4, <1>5, <1>6, <1>7, <1>8, <1>9, <1>10, <1>11,
     <1>12, <1>13, <1>14, <1>15, <1>16, <1>17, <1>18, <1>19, <1>20, <1>21,
     <1>22, <1>23, <1>24, <1>25, <1>26, <1>27, <1>28, <1>29, <1>30, <1>31,
     <1>32, <1>33, <1>34, <1>35, <1>36
     DEF Next, Helper, Boot, Operate

(* Every step keeps a success true, or will say that it was undone. *)
LEMMA SuccessTooStep ==
  Typed /\ Intact /\ Rowed /\ Traces /\ PendingToo /\ SuccessToo /\ [Next]_vars
  => SuccessToo'
<1> SUFFICES ASSUME Typed /\ Intact /\ Rowed /\ Traces /\ PendingToo /\ SuccessToo,
                    [Next]_vars
             PROVE SuccessToo'
  OBVIOUS
<1> USE UpdaterAssumption DEF None, Valid, Starting, Helping, Undoing,
   Running, SuccessToo, vars, files, trees, server, bounds, past,
   Goto
<1> USE Numbers
<1>a. notes \cap {"torn", "raced", "stale"} = {} => "torn" \notin notes
  OBVIOUS
<1>b. "torn" \notin notes =>
      /\ (phase \notin {"swap", "promote", "recover", "back"} => Valid(app))
      /\ (phase \in {"extract", "migrate", "swap", "promote", "place", "sync",
                  "recover", "aside", "back"} => Valid(previous) /\ previous # NoTree)
  BY DEF Intact, Halted, Valid, Whole, Part, NoTree
<1>1. CASE StartUnhelped
  BY <1>1 DEF StartUnhelped
<1>2. CASE StartRollback
  BY <1>2, <1>a, <1>b DEF StartRollback, NoTree, NoRetry, Traces, Note
<1>3. CASE StartHelper
  BY <1>3 DEF StartHelper, NoRetry, Note, Promoted
<1>4. CASE Refuse
  BY <1>4 DEF Refuse
<1>5. CASE BeginSnapshot
  BY <1>5 DEF BeginSnapshot, NoTree
<1>6. CASE Snapshot
  BY <1>6 DEF Snapshot, NoTree
<1>7. CASE Extract
  BY <1>7 DEF Extract
<1>8. CASE GiveUp
  BY <1>8 DEF GiveUp, NoTree
<1>9. CASE Migrate
  BY <1>9 DEF Migrate, Environment
<1>10. CASE Swap
  BY <1>10 DEF Swap, NoTree
<1>11. CASE Promote
  BY <1>11 DEF Promote, NoTree
<1>12. CASE Place
  BY <1>12 DEF Place
<1>13. CASE Sync
  <2>1. Synced
    BY <1>13, SyncDone
  <2> QED  BY <2>1, <1>a, <1>b DEF Synced, Environment
<1>14. CASE SyncFails
  BY <1>14 DEF SyncFails
<1>15. CASE Recover
  BY <1>15 DEF Recover, NoTree
<1>16. CASE Defer
  BY <1>16 DEF Defer
<1>17. CASE SetAside
  BY <1>17 DEF SetAside, NoTree, Rowed
<1>18. CASE BringBack
  BY <1>18, <1>a, <1>b DEF BringBack, NoTree, Rowed, Traces
<1>19. CASE PythonDies
  BY <1>19 DEF PythonDies, Runs, Whole
<1>20. CASE Check
  BY <1>20 DEF Check, NoMarker, Attempts, Counted, Runs, Whole
<1>21. CASE Restore
  BY <1>21 DEF Restore, Note, DataRestored, Rowed, Typed, TypeOK
<1>22. CASE Revert
  BY <1>22 DEF Revert
<1>23. CASE Leave
  BY <1>23 DEF Leave, NoMarker
<1>24. CASE Load
  BY <1>24 DEF Load
<1>25. CASE LoadHistory
  BY <1>25 DEF LoadHistory, Reconciled, Judged, Applied, PendingToo, Rowed
<1>26. CASE EngineUp
  BY <1>26 DEF EngineUp, Confirmed, NoMarker
<1>27. CASE EngineDies
  BY <1>27 DEF EngineDies
<1>28. CASE EngineFails
  BY <1>28 DEF EngineFails
<1>29. CASE WriteUpdate
  BY <1>29 DEF WriteUpdate, Row, Note
<1>30. CASE UpdateFails
  BY <1>30 DEF UpdateFails, NoMarker, Row, Note
<1>31. CASE BeginRollback
  BY <1>31 DEF BeginRollback, NoTree
<1>32. CASE WriteRollback
  BY <1>32 DEF WriteRollback, NoMarker, Row, Note, Traces, Rowed
<1>33. CASE Exit
  BY <1>33 DEF Exit
<1>34. ASSUME NEW v \in Version, BeginUpdate(v) PROVE SuccessToo'
  BY <1>34 DEF BeginUpdate, Note
<1>35. ASSUME NEW cut \in BOOLEAN, Stop(cut) PROVE SuccessToo'
  <2>0. Remains
    BY <1>35, Stopped
  <2>1. phase \in Phase
    BY DEF Typed, TypeOK
  <2> QED  BY <2>1, <2>0 DEF Remains, Phase
<1>36. CASE UNCHANGED vars
  BY <1>36
<1> QED
  BY <1>1, <1>2, <1>3, <1>4, <1>5, <1>6, <1>7, <1>8, <1>9, <1>10, <1>11,
     <1>12, <1>13, <1>14, <1>15, <1>16, <1>17, <1>18, <1>19, <1>20, <1>21,
     <1>22, <1>23, <1>24, <1>25, <1>26, <1>27, <1>28, <1>29, <1>30, <1>31,
     <1>32, <1>33, <1>34, <1>35, <1>36
     DEF Next, Helper, Boot, Operate

LEMMA InitInv == Init => IInv
<1> SUFFICES ASSUME Init PROVE IInv
  OBVIOUS
<1>1. 1 \in Version
  BY UpdaterAssumption DEF Version
<1> USE UpdaterAssumption, <1>1
    DEF Init, NoTree, NoMarker, NoRetry, None, Starting, Helping, Undoing, Running
<1>2. Typed
  <2>1. app \in Tree /\ previous \in Tree /\ staging \in Tree
    BY DEF Tree, Part
  <2>2. retry \in [to : Version \cup {None}, attempts : 0..MaxAttempts]
    OBVIOUS
  <2>3. marker \in [from : Version \cup {None}, to : Version \cup {None},
                    attempts : Nat, sameBoot : BOOLEAN, fmt : Version \cup {None}]
    OBVIOUS
  <2>4. row \in [from : Version \cup {None}, to : Version \cup {None},
                 status : {"none", "pending", "success", "failed", "rolled_back"},
                 rollback : BOOLEAN]
    BY DEF NoRow
  <2>5. updates \in 0..MaxUpdates /\ stops \in 0..MaxStops /\ tries \in 0..MaxAttempts - 1
    OBVIOUS
  <2>6. TypeOK
    BY <2>1, <2>2, <2>3, <2>4, <2>5 DEF TypeOK, Phase
  <2> QED  BY <2>6 DEF Typed
<1>3. Intact /\ Cause
  BY DEF Intact, Cause, Valid, Whole, Part
<1>4. Ahead /\ Undo /\ Fits
  BY DEF Ahead, Undo, Fits, Part
<1>5. Told
  BY DEF Told, Rowed, FailedToo, Traces, PendingToo, SameToo, SuccessToo,
         Valid, Part, NoRow
<1> QED  BY <1>2, <1>3, <1>4, <1>5 DEF IInv

THEOREM Invariance == Spec => []IInv
<1>1. IInv /\ [Next]_vars => IInv'
  BY TypedStep, IntactStep, CauseStep, AheadStep, UndoStep, FitsStep, RowedStep,
     FailedTooStep, TracesStep, PendingTooStep, SameTooStep, SuccessTooStep
     DEF IInv, Told
<1> QED  BY InitInv, <1>1, PTL DEF Spec

(* Type correctness: in particular no update is retried MaxAttempts times     *)
(* (defer_update, promote_deferred_update).                                   *)
THEOREM UpdaterTyped == Spec => []TypeOK
<1>1. IInv => TypeOK
  BY DEF IInv, Typed
<1> QED  BY <1>1, Invariance, PTL

(* No failure, and no kill outside the swap, leaves a start without an install *)
(* that runs, unless one has left half a snapshot that passes the check        *)
(* (handle_update, recover_from_snapshot, handle_rollback, is_app_dir_valid).  *)
THEOREM AlwaysStartable == Spec => []Startable
<1>1. IInv => Startable
  BY DEF IInv, Intact, Halted, Startable
<1> QED  BY <1>1, Invariance, PTL

(* While a version starts that has never been up, the marker and .previous    *)
(* lead back to one that has (write_pending_marker, handle_update).           *)
THEOREM WayBack == Spec => []UpdateCanBeUndone
<1>1. IInv => UpdateCanBeUndone
  BY DEF IInv, Undo, Undoable, UpdateCanBeUndone
<1> QED  BY <1>1, Invariance, PTL

(* An update is undone only after a start that ended early in this OS boot,   *)
(* and no tree that has been up is undone by a marker to its version from     *)
(* another (check_rollback_needed).                                           *)
THEOREM UndoneForCause == Spec => []RollbackHasCause
<1>1. IInv => RollbackHasCause
  BY DEF IInv, Typed, Cause, Ahead, Undoing, RollbackHasCause
<1> QED  BY <1>1, Invariance, PTL

(* No version comes to run on projects of a newer format                      *)
(* (restore_pre_update_data).                                                 *)
THEOREM DataGoesWithCode == Spec => []DataFits
<1>1. IInv => DataFits
  BY DEF IInv, Typed, Running, Starting, Version, None, Fits, DataFits
<1> QED  BY <1>1, Invariance, PTL

(* The newest row of the history tells the truth about the version that runs,  *)
(* of a repeated update too: its success names that version, and its failure   *)
(* says nothing of it (_load_history, _reconcile_reverted_update).             *)
THEOREM HistoryTold == Spec => []HistoryTruthful
<1>1. IInv => HistoryTruthful
  BY DEF IInv, Told, FailedToo, SameToo, SuccessToo, Rowed, HistoryTruthful, Starting
<1> QED  BY <1>1, Invariance, PTL
=============================================================================
