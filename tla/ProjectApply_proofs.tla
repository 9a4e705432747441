------------------------- MODULE ProjectApply_proofs --------------------------
(* Proofs about ProjectApply, for every set of clients and every bound: the  *)
(* types, that a change puts nothing else back, that the file is the project *)
(* and that the project is what runs.                                        *)
EXTENDS ProjectApply, SequenceTheorems, TLAPS

Saving  == op.stage = "saving"
Booking == Saving /\ op.job.kind \in Bookkeeping
Rec     == op.stage = "reconcile"

(* Every change asked for may still mint one token, a deferred save as well; *)
(* at most one flusher waits, and only with something to save.               *)
Ledger ==
  /\ \A i \in DOMAIN line : line[i].by = "flusher" <=> line[i].kind = "flush"
  /\ op.stage # "idle" => (op.job.by = "flusher" <=> op.job.kind = "flush")
  /\ \A i, j \in DOMAIN line : line[i].by = "flusher" /\ line[j].by = "flusher" => i = j
  /\ Waits("flusher") => queue # <<>> /\ ~Holds("flusher")
  /\ (Saving /\ op.job.kind = "flush") => op.batch # <<>>
  /\ rev[2] + Len(line) + (IF Saving THEN 1 ELSE 0) + Len(queue)
       <= count.versions + (IF Waits("flusher") THEN 1 ELSE 0)
  /\ rev[1] = count.restarts + 1
  /\ Rec => /\ op.back \in Token
            /\ rev = <<op.back[1], op.back[2] + 1>>

(* Two projects are the same but for the sections `only`, and but for the    *)
(* plugin's while a save of it is pending.                                   *)
Same(p, q, only, loose) ==
  \A s \in Section \ only : p[s] = q[s] \/ (s = "plugins" /\ loose)

Old(t) == \/ t = NoToken
          \/ t \in withdrawn
          \/ t[1] < rev[1]
          \/ t[1] = rev[1] /\ t[2] <= rev[2]

Loose == queue # <<>> \/ Booking \/ ("unsaved" \in past /\ ~Rec)
Known(p, t, only) ==
  /\ Old(t)
  /\ (t = rev /\ t \notin withdrawn) => Same(p, project, only, Loose)
  /\ (Rec /\ t = op.back /\ t \notin withdrawn)
       => Same(p, op.prev, only, queue # <<>> \/ "unsaved" \in past)

Honest ==
  /\ \A c \in Client : Known(client[c].copy, client[c].token, {})
  /\ \A i \in DOMAIN line : line[i].kind = "put" =>
       line[i].token # NoToken /\ Known(line[i].new, line[i].token, line[i].only)
  /\ (Saving /\ op.job.kind \in {"put", "edit"})
       => \/ op.job.token \in withdrawn
          \/ Same(op.new, project, op.job.only, queue # <<>> \/ "unsaved" \in past)
  /\ Rec => Same(op.new, project, {}, queue # <<>>)

NoReload == \A i \in DOMAIN line : line[i].kind # "reload"
Filed ==
  /\ Booking => Same(op.new, project, {}, queue # <<>>)
  /\ Rec => "kept" \notin past
  /\ op.stage = "rollback" => "kept" \in past
  /\ (NoReload /\ Rec) => Same(disk, project, {}, queue # <<>>)
  /\ (NoReload /\ ~Rec /\ past \cap {"kept", "unsaved"} = {})
       => Same(disk, project, {}, queue # <<>> \/ Booking)

InHand == op.stage \in {"reconcile", "rollback"}
Pending(x) == InHand /\ x \in op.todo
Clean == past \cap {"broken", "unsaved", "crossed"} = {}
Sure(s) == Clean \/ (Rec /\ s \in op.dirty)
SaveWaits == \E i \in DOMAIN line : line[i].kind = "save"
LastSetup(i) == /\ line[i].kind = "setup"
                /\ \A j \in DOMAIN line : j > i => line[j].kind # "setup"
Unchecked == \A i \in DOMAIN line : line[i].kind = "setup" => line[i].token = NoToken
SetupWaits(v) == \E i \in DOMAIN line : LastSetup(i) /\ line[i].new["devices"] = v
Follows ==
  /\ Sure("macros") => Pending("macros") \/ runs.macros = project["macros"]
  /\ (Clean \/ (Rec /\ op.dirty \cap Running # {}))
       => Pending("start") \/ runs.triggers = {project["macros"]}
  /\ Sure("plugins") => \/ Pending("plugins")
                        \/ runs.plugins = project["plugins"]
                        \/ queue # <<>>
                        \/ SaveWaits
  /\ Sure("devices") => \/ Pending("devices")
                        \/ runs.devices = project["devices"]
                        \/ SetupWaits(runs.devices)
                        \/ Saving /\ op.job.kind = "setup" /\ runs.devices = op.new["devices"]
  /\ Rec => Same(op.prev, project, op.dirty, queue # <<>>)
  /\ InHand => /\ op.todo \subseteq Todo(op.dirty)
               /\ "stop" \in op.todo => "start" \in op.todo
  /\ Unchecked

-----------------------------------------------------------------------------
(* The line, and the records.                                                *)

LEMMA Appended ==
  ASSUME line \in Seq(Jobs), NEW j \in Jobs, line' = Append(line, j)
  PROVE  /\ line' \in Seq(Jobs)
         /\ Len(line) \in Nat
         /\ Len(line') = Len(line) + 1
         /\ DOMAIN line = 1..Len(line)
         /\ DOMAIN line' = 1..(Len(line) + 1)
         /\ \A i \in DOMAIN line : line'[i] = line[i]
         /\ line'[Len(line) + 1] = j
OBVIOUS

LEMMA Dropped ==
  ASSUME line \in Seq(Jobs), line # <<>>, line' = Tail(line)
  PROVE  /\ line' \in Seq(Jobs)
         /\ First \in Jobs
         /\ First = line[1]
         /\ Len(line) \in Nat
         /\ Len(line) >= 1
         /\ Len(line') = Len(line) - 1
         /\ DOMAIN line = 1..Len(line)
         /\ DOMAIN line' = 1..(Len(line) - 1)
         /\ \A i \in DOMAIN line' : line'[i] = line[i + 1]
BY DEF First

LEMMA WholeTyped == \A v \in Version : Whole(v) \in Project
BY DEF Whole, Project

LEMMA FlushTyped == Flush \in Jobs
<1>1. 0 \in Version
  BY Bounds DEF Version
<1> QED
  BY <1>1, WholeTyped DEF Flush, Job, Jobs, Nothing, Bookkeeping, Plugin, Section, NoToken

LEMMA IdleTyped == Idle \in Ops /\ Idle.stage = "idle" /\ Idle.job = Flush
<1>1. 0 \in Version
  BY Bounds DEF Version
<1> QED
  BY <1>1, WholeTyped, FlushTyped DEF Idle, Ops, NoToken

LEMMA MadeTyped ==
  ASSUME TypeOK, Made
  PROVE  /\ Fresh \in Version
         /\ count' \in Counts
         /\ count'.versions = count.versions + 1
         /\ count'.restarts = count.restarts
<1>1. count \in Counts
  BY DEF TypeOK
<1>2. count.versions \in Version /\ count.versions < MaxVersions
  BY <1>1 DEF Made, Counts
<1>3. count.versions + 1 \in Version
  BY <1>2, Bounds DEF Version
<1> QED
  BY <1>1, <1>3 DEF Made, Fresh, Counts

LEMMA FailedTyped ==
  ASSUME TypeOK, Failed
  PROVE  /\ count' \in Counts
         /\ count'.versions = count.versions
         /\ count'.restarts = count.restarts
<1>1. count \in Counts
  BY DEF TypeOK
<1>2. count.fails + 1 \in 0..MaxFails
  BY <1>1, Bounds DEF Failed, Counts
<1> QED
  BY <1>1, <1>2 DEF Failed, Counts

-----------------------------------------------------------------------------
(* Types and tokens.                                                         *)

LEMMA AskTyped ==
  ASSUME TypeOK, Ledger, NEW j \in Jobs, Ask(j), j.by # "flusher", j.kind # "flush",
         disk' \in Project, runs' \in Follower
  PROVE  TypeOK' /\ Ledger'
<1>1. /\ line \in Seq(Jobs) /\ line' = Append(line, j)
      /\ count \in Counts
  BY DEF TypeOK, Ask
<1>2. /\ count' \in Counts
      /\ count'.versions = count.versions + 1
      /\ count'.restarts = count.restarts
  BY MadeTyped DEF Ask
<1>3. /\ line' \in Seq(Jobs)
      /\ Len(line) \in Nat
      /\ Len(line') = Len(line) + 1
      /\ DOMAIN line = 1..Len(line)
      /\ DOMAIN line' = 1..(Len(line) + 1)
      /\ \A i \in DOMAIN line : line'[i] = line[i]
      /\ line'[Len(line) + 1] = j
  BY <1>1, Appended
<1>4. TypeOK'
  BY <1>2, <1>3 DEF TypeOK, Ask
<1>5. Waits("flusher")' <=> Waits("flusher")
  BY <1>3 DEF Waits
<1>6. count.versions \in Nat /\ rev[2] \in Nat /\ Len(queue) \in Nat
  BY Bounds DEF TypeOK, Counts, Version, Token
<1>7. Ledger'
  <2>1. UNCHANGED <<rev, op, queue>>
    BY DEF Ask
  <2>2. \A i \in DOMAIN line' : line'[i].by = "flusher" <=> line'[i].kind = "flush"
    BY <1>3 DEF Ledger
  <2>3. \A i, k \in DOMAIN line' : line'[i].by = "flusher" /\ line'[k].by = "flusher" => i = k
    BY <1>3 DEF Ledger
  <2>4. rev[2] + Len(line') + (IF Saving THEN 1 ELSE 0) + Len(queue)
          <= count'.versions + (IF Waits("flusher") THEN 1 ELSE 0)
    BY <1>2, <1>3, <1>6, SMTT(30) DEF Ledger
  <2> QED
    BY <1>2, <1>5, <2>1, <2>2, <2>3, <2>4 DEF Ledger, Saving, Rec, Holds
<1> QED
  BY <1>4, <1>7

LEMMA JobTyped ==
  ASSUME TypeOK, NEW c \in Client, NEW v \in Version
  PROVE  /\ \A s \in Section :
              /\ Job("put", c, {s}, [client[c].copy EXCEPT ![s] = v], client[c].token, Nothing) \in Jobs
              /\ Job("edit", c, {s}, Whole(v), NoToken, Nothing) \in Jobs
         /\ Job("setup", c, {"devices"}, [project EXCEPT !["devices"] = v], NoToken, Nothing) \in Jobs
         /\ \A t \in {NoToken, client[c].token} :
              Job("load", c, Section, Whole(v), t, Nothing) \in Jobs
         /\ Job("reload", c, Section, Whole(0), NoToken, Nothing) \in Jobs
<1>1. 0 \in Version /\ Nothing \in Version \X Version
  BY Bounds DEF Version, Nothing
<1>2. Whole(v) \in Project /\ Whole(0) \in Project
  BY <1>1, WholeTyped
<1>3. /\ \A s \in Section : [client[c].copy EXCEPT ![s] = v] \in Project
      /\ client[c].token \in Token \cup {NoToken}
      /\ [project EXCEPT !["devices"] = v] \in Project
  BY DEF TypeOK, Project
<1> HIDE DEF Nothing
<1>4. ASSUME NEW k \in Changes \cup {"reload"}, NEW o \in SUBSET Section, NEW n \in Project,
             NEW t \in Token \cup {NoToken}
      PROVE  Job(k, c, o, n, t, Nothing) \in Jobs
  BY <1>1 DEF Job, Jobs
<1>5. /\ {"put", "edit", "setup", "load", "reload"} \subseteq Changes \cup {"reload"}
      /\ \A s \in Section : {s} \subseteq Section
      /\ {"devices"} \subseteq Section
  BY DEF Changes, Edits, Section
<1> QED
  BY <1>2, <1>3, <1>4, <1>5

LEMMA AsksTyped ==
  ASSUME TypeOK, Ledger, NEW c \in Client, Asks(c)
  PROVE  TypeOK' /\ Ledger'
<1>1. disk \in Project /\ runs \in Follower
  BY DEF TypeOK
<1>2. c # "flusher"
  BY Names
<1>3. CASE Get(c)
  <2>1. client' \in [Client -> [copy: Project, token: Token \cup {NoToken}]]
    BY <1>3 DEF Get, TypeOK
  <2> QED
    BY <1>3, <2>1 DEF Get, TypeOK, Ledger, Waits, Holds, Saving, Rec
<1>4. ASSUME NEW s \in Section, Put(c, s)
      PROVE  TypeOK' /\ Ledger'
  <2> DEFINE j == Job("put", c, {s}, [client[c].copy EXCEPT ![s] = Fresh], client[c].token, Nothing)
  <2>1. Ask(j) /\ UNCHANGED <<disk, runs>>
    BY <1>4 DEF Put
  <2>2. j \in Jobs /\ j.by # "flusher" /\ j.kind # "flush"
    BY <1>2, <2>1, MadeTyped, JobTyped DEF Ask, Job
  <2> HIDE DEF j
  <2> QED
    BY <1>1, <2>1, <2>2, AskTyped
<1>5. ASSUME NEW s \in Section, Edit(c, s)
      PROVE  TypeOK' /\ Ledger'
  <2> DEFINE j == Job("edit", c, {s}, Whole(Fresh), NoToken, Nothing)
  <2>1. Ask(j) /\ UNCHANGED <<disk, runs>>
    BY <1>5 DEF Edit
  <2>2. j \in Jobs /\ j.by # "flusher" /\ j.kind # "flush"
    BY <1>2, <2>1, MadeTyped, JobTyped DEF Ask, Job
  <2> HIDE DEF j
  <2> QED
    BY <1>1, <2>1, <2>2, AskTyped
<1>6. CASE Setup(c)
  <2> DEFINE j == Job("setup", c, {"devices"}, [project EXCEPT !["devices"] = Fresh], NoToken, Nothing)
  <2>1. Ask(j) /\ UNCHANGED disk /\ runs' = [runs EXCEPT !.devices = Fresh]
    BY <1>6 DEF Setup
  <2>2. j \in Jobs /\ j.by # "flusher" /\ j.kind # "flush"
    BY <1>2, <2>1, MadeTyped, JobTyped DEF Ask, Job
  <2>3. runs' \in Follower
    BY <1>1, <2>1, MadeTyped DEF Ask, Follower
  <2> HIDE DEF j
  <2> QED
    BY <1>1, <2>1, <2>2, <2>3, AskTyped
<1>7. CASE Load(c)
  <2>1. PICK t \in {NoToken, client[c].token} : Ask(Job("load", c, Section, Whole(Fresh), t, Nothing))
    BY <1>7 DEF Load
  <2> DEFINE j == Job("load", c, Section, Whole(Fresh), t, Nothing)
  <2>2. j \in Jobs /\ j.by # "flusher" /\ j.kind # "flush"
    BY <1>2, <2>1, MadeTyped, JobTyped DEF Ask, Job
  <2>3. Ask(j) /\ UNCHANGED <<disk, runs>>
    BY <1>7, <2>1 DEF Load
  <2> HIDE DEF j
  <2> QED
    BY <1>1, <2>2, <2>3, AskTyped
<1>8. CASE Reload(c) \/ Restore(c)
  <2> DEFINE j == Job("reload", c, Section, Whole(0), NoToken, Nothing)
  <2>1. Ask(j) /\ (disk' = disk \/ disk' = Whole(Fresh)) /\ UNCHANGED runs
    BY <1>8 DEF Reload, Restore
  <2>2. j \in Jobs /\ j.by # "flusher" /\ j.kind # "flush"
    BY <1>2, <2>1, MadeTyped, JobTyped DEF Ask, Job
  <2>3. disk' \in Project
    BY <1>1, <2>1, MadeTyped, WholeTyped DEF Ask
  <2> HIDE DEF j
  <2> QED
    BY <1>1, <2>1, <2>2, <2>3, AskTyped
<1> QED
  BY <1>3, <1>4, <1>5, <1>6, <1>7, <1>8 DEF Asks

LEMMA ConfigTyped ==
  ASSUME TypeOK, Ledger, SaveConfigLater \/ SaveConfigNow \/ JoinFlush
  PROVE  TypeOK' /\ Ledger'
<1>1. /\ line \in Seq(Jobs) /\ project \in Project /\ runs \in Follower
      /\ queue \in Seq(Version) /\ disk \in Project /\ count \in Counts
      /\ count.versions \in Nat /\ rev[2] \in Nat
  BY Bounds DEF TypeOK, Counts, Version, Token
<1>2. CASE SaveConfigLater
  <2>1. /\ Fresh \in Version /\ count' \in Counts
        /\ count'.versions = count.versions + 1 /\ count'.restarts = count.restarts
    BY <1>2, MadeTyped DEF SaveConfigLater
  <2>2. runs' \in Follower /\ project' \in Project
    BY <1>1, <1>2, <2>1 DEF SaveConfigLater, Follower, Project
  <2>3. project["plugins"] \in Version
    BY <1>1 DEF Project, Section
  <2>4. queue' \in Seq(Version) /\ Len(queue') = Len(queue) + 1 /\ queue' # <<>> /\ Len(queue) \in Nat
    BY <1>1, <1>2, <2>3 DEF SaveConfigLater
  <2>5. TypeOK'
    BY <1>2, <2>1, <2>2, <2>4 DEF TypeOK, SaveConfigLater
  <2>6. UNCHANGED <<rev, op, line>> /\ Len(line) \in Nat
    BY <1>1, <1>2 DEF SaveConfigLater
  <2>7. /\ Waits("flusher")' <=> Waits("flusher")
        /\ Holds("flusher")' <=> Holds("flusher")
        /\ Saving' <=> Saving
        /\ Rec' <=> Rec
    BY <2>6 DEF Waits, Holds, Saving, Rec
  <2>8. rev[2] + Len(line) + (IF Saving THEN 1 ELSE 0) + Len(queue)
          <= count.versions + (IF Waits("flusher") THEN 1 ELSE 0)
    BY DEF Ledger
  <2>9. rev'[2] + Len(line') + (IF Saving' THEN 1 ELSE 0) + Len(queue')
          <= count'.versions + (IF Waits("flusher")' THEN 1 ELSE 0)
    BY <1>1, <2>1, <2>4, <2>6, <2>7, <2>8, SMTT(30)
  <2>10. Ledger'
    BY <2>1, <2>4, <2>6, <2>7, <2>9 DEF Ledger
  <2> QED
    BY <2>5, <2>10
<1>3. CASE SaveConfigNow
  <2>1. PICK by \in Plugin : /\ by # "flusher"
          /\ Ask(Job("save", by, {"plugins"}, Whole(Fresh), NoToken, <<project["plugins"], runs.plugins>>))
    BY <1>3 DEF SaveConfigNow, Plugin
  <2> DEFINE j == Job("save", by, {"plugins"}, Whole(Fresh), NoToken, <<project["plugins"], runs.plugins>>)
  <2>2. Fresh \in Version /\ Whole(Fresh) \in Project
    BY <2>1, MadeTyped, WholeTyped DEF Ask
  <2>3. project["plugins"] \in Version /\ runs.plugins \in Version
    BY <1>1 DEF Project, Section, Follower
  <2>4. j \in Jobs /\ j.by # "flusher" /\ j.kind # "flush"
    BY <2>1, <2>2, <2>3 DEF Job, Jobs, Bookkeeping, Section
  <2>5. runs' \in Follower /\ disk' \in Project
    BY <1>1, <1>3, <2>2 DEF SaveConfigNow, Follower
  <2>6. Ask(j)
    BY <2>1
  <2> HIDE DEF j
  <2> QED
    BY <2>4, <2>5, <2>6, AskTyped
<1>4. CASE JoinFlush
  <2>1. /\ line' \in Seq(Jobs)
        /\ Len(line) \in Nat
        /\ Len(line') = Len(line) + 1
        /\ DOMAIN line = 1..Len(line)
        /\ DOMAIN line' = 1..(Len(line) + 1)
        /\ \A i \in DOMAIN line : line'[i] = line[i]
        /\ line'[Len(line) + 1] = Flush
    BY <1>1, <1>4, Appended, FlushTyped DEF JoinFlush
  <2>2. Flush.by = "flusher" /\ Flush.kind = "flush"
    BY DEF Flush, Job
  <2>3. ~Waits("flusher") /\ ~Holds("flusher") /\ queue # <<>>
    BY <1>4 DEF JoinFlush, Busy
  <2>4. Waits("flusher")' /\ Len(queue) \in Nat
    BY <1>1, <2>1, <2>2 DEF Waits
  <2>5. UNCHANGED <<rev, op, queue, count>>
    BY <1>4 DEF JoinFlush
  <2>6. TypeOK'
    BY <1>4, <2>1 DEF JoinFlush, TypeOK
  <2>7. \A i \in DOMAIN line' : line'[i].by = "flusher" <=> line'[i].kind = "flush"
    BY <2>1, <2>2 DEF Ledger
  <2>8. \A i, k \in DOMAIN line' : line'[i].by = "flusher" /\ line'[k].by = "flusher" => i = k
    BY <2>1, <2>3 DEF Waits
  <2>9. (Saving' <=> Saving) /\ (Rec' <=> Rec) /\ ~Holds("flusher")'
    BY <2>3, <2>5 DEF Saving, Rec, Holds
  <2>10. rev[2] + Len(line) + (IF Saving THEN 1 ELSE 0) + Len(queue) <= count.versions
    BY <1>1, <2>3 DEF Ledger
  <2>11. rev'[2] + Len(line') + (IF Saving' THEN 1 ELSE 0) + Len(queue')
          <= count'.versions + (IF Waits("flusher")' THEN 1 ELSE 0)
    BY <1>1, <2>1, <2>4, <2>5, <2>9, <2>10, SMTT(30)
  <2>12. Ledger'
    BY <2>3, <2>4, <2>5, <2>7, <2>8, <2>9, <2>11 DEF Ledger
  <2> QED
    BY <2>6, <2>12
<1> QED
  BY <1>2, <1>3, <1>4

LEMMA TurnTyped ==
  ASSUME TypeOK, Ledger, line # <<>>, line' = Tail(line)
  PROVE  /\ line' \in Seq(Jobs) /\ First \in Jobs
         /\ Len(line') = Len(line) - 1 /\ Len(line) \in Nat
         /\ First.by = "flusher" <=> First.kind = "flush"
         /\ \A i \in DOMAIN line' : line'[i].by = "flusher" <=> line'[i].kind = "flush"
         /\ \A i, k \in DOMAIN line' : line'[i].by = "flusher" /\ line'[k].by = "flusher" => i = k
         /\ First.kind = "flush" => Waits("flusher") /\ ~Waits("flusher")'
         /\ First.kind # "flush" => (Waits("flusher")' <=> Waits("flusher"))
<1>1. line \in Seq(Jobs)
  BY DEF TypeOK
<1>2. /\ line' \in Seq(Jobs)
      /\ First \in Jobs
      /\ First = line[1]
      /\ Len(line) \in Nat
      /\ Len(line) >= 1
      /\ Len(line') = Len(line) - 1
      /\ DOMAIN line = 1..Len(line)
      /\ DOMAIN line' = 1..(Len(line) - 1)
      /\ \A i \in DOMAIN line' : line'[i] = line[i + 1]
  BY <1>1, Dropped
<1>3. \A i \in DOMAIN line' : i + 1 \in DOMAIN line /\ i + 1 # 1
  BY <1>2
<1>4. \A i \in DOMAIN line : i # 1 => i - 1 \in DOMAIN line' /\ line'[i - 1] = line[i]
  BY <1>2
<1>5. 1 \in DOMAIN line
  BY <1>2
<1>6. /\ \A i \in DOMAIN line : line[i].by = "flusher" <=> line[i].kind = "flush"
      /\ \A i, j \in DOMAIN line : line[i].by = "flusher" /\ line[j].by = "flusher" => i = j
  BY DEF Ledger
<1>7. \A i \in DOMAIN line' : line'[i].by = "flusher" <=> line'[i].kind = "flush"
  BY <1>2, <1>3, <1>6
<1>8. \A i, k \in DOMAIN line' : line'[i].by = "flusher" /\ line'[k].by = "flusher" => i = k
  <2> TAKE i, k \in DOMAIN line'
  <2> HAVE line'[i].by = "flusher" /\ line'[k].by = "flusher"
  <2>1. i + 1 = k + 1
    BY <1>2, <1>3, <1>6
  <2> QED
    BY <1>2, <2>1
<1>9. First.kind = "flush" => Waits("flusher") /\ ~Waits("flusher")'
  BY <1>2, <1>3, <1>5, <1>6 DEF Waits
<1>10. First.kind # "flush" => (Waits("flusher")' <=> Waits("flusher"))
  BY <1>2, <1>3, <1>4, <1>5, <1>6 DEF Waits
<1> QED
  BY <1>2, <1>5, <1>6, <1>7, <1>8, <1>9, <1>10

LEMMA SaveTyped ==
  /\ \A j \in Jobs, n \in Project, q \in Seq(Version) :
       LET o == Save(j, n, q) IN
       o \in Ops /\ o.stage = "saving" /\ o.job = j /\ o.new = n /\ o.batch = q
  /\ \A j \in Jobs, n \in Project :
       LET o == Save(j, n, <<>>) IN
       o \in Ops /\ o.stage = "saving" /\ o.job = j /\ o.new = n
<1>1. <<>> \in Seq(Version)
  OBVIOUS
<1> QED
  BY <1>1, IdleTyped, ZenonT(60) DEF Ops, Save

LEMMA TodoTyped ==
  \A d \in SUBSET Section : Todo(d) \in SUBSET Steps /\ Undone(d) \in SUBSET Steps
BY DEF Todo, Undone, Rebuild, Section, Running, Steps

LEMMA ReconcileTyped ==
  ASSUME project \in Project, rev \in Token
  PROVE  \A j \in Jobs, n \in Project, d \in SUBSET Section :
           LET o == Reconcile(j, n, d) IN
           /\ o \in Ops /\ o.stage = "reconcile" /\ o.job = j /\ o.new = n
           /\ o.prev = project /\ o.back = rev /\ o.dirty = d /\ o.todo = Todo(d)
<1> SUFFICES ASSUME NEW j \in Jobs, NEW n \in Project, NEW d \in SUBSET Section
             PROVE  LET o == Reconcile(j, n, d) IN
                    /\ o \in Ops /\ o.stage = "reconcile" /\ o.job = j /\ o.new = n
                    /\ o.prev = project /\ o.back = rev /\ o.dirty = d /\ o.todo = Todo(d)
  OBVIOUS
<1> DEFINE t == Todo(d)
<1>1. t \in SUBSET Steps
  BY TodoTyped
<1> HIDE DEF t
<1>2. Idle \in Ops
  BY IdleTyped
<1>3. Reconcile(j, n, d) = [Idle EXCEPT !.job = j, !.stage = "reconcile", !.new = n,
                              !.prev = project, !.back = rev, !.dirty = d, !.todo = t]
  BY DEF Reconcile, t
<1> DEFINE o == Reconcile(j, n, d)
<1>4. o \in Ops
  BY <1>1, <1>2, <1>3, ZenonT(60) DEF Ops
<1>5. o.stage = "reconcile" /\ o.job = j /\ o.new = n
  BY <1>2, <1>3 DEF Ops
<1>6. o.prev = project /\ o.back = rev /\ o.dirty = d /\ o.todo = t
  BY <1>2, <1>3 DEF Ops
<1> QED
  BY <1>4, <1>5, <1>6 DEF t

LEMMA TakesTyped ==
  ASSUME TypeOK, Ledger, Refuse \/ TakeChange \/ TakeSave \/ TakeFlush
  PROVE  TypeOK' /\ Ledger'
<1>1. /\ line # <<>> /\ op.stage = "idle" /\ line' = Tail(line) /\ ~Saving /\ ~Rec
      /\ UNCHANGED <<disk, rev, runs, client, withdrawn, count>>
  BY DEF Refuse, TakeChange, TakeSave, TakeFlush, Turn, Writing, Saving, Rec
<1>2. /\ line' \in Seq(Jobs) /\ First \in Jobs
      /\ Len(line') = Len(line) - 1 /\ Len(line) \in Nat
      /\ First.by = "flusher" <=> First.kind = "flush"
      /\ \A i \in DOMAIN line' : line'[i].by = "flusher" <=> line'[i].kind = "flush"
      /\ \A i, k \in DOMAIN line' : line'[i].by = "flusher" /\ line'[k].by = "flusher" => i = k
      /\ First.kind = "flush" => Waits("flusher") /\ ~Waits("flusher")'
      /\ First.kind # "flush" => (Waits("flusher")' <=> Waits("flusher"))
  BY <1>1, TurnTyped
<1>3. /\ count.versions \in Nat /\ rev[2] \in Nat /\ Len(queue) \in Nat
      /\ project \in Project /\ queue \in Seq(Version) /\ runs.plugins \in Version
  BY Bounds DEF TypeOK, Counts, Version, Token, Follower
<1>33. First.new \in Project /\ First.new["plugins"] \in Version
  BY <1>2 DEF Jobs, Project, Section
<1>4. /\ rev[2] + Len(line) + Len(queue) <= count.versions + (IF Waits("flusher") THEN 1 ELSE 0)
      /\ rev[1] = count.restarts + 1
      /\ Waits("flusher") => queue # <<>>
  BY <1>1, <1>3 DEF Ledger
<1>5. \A k \in Changes : k # "flush" /\ k # "save"
  BY DEF Changes, Edits
<1>6. CASE Refuse
  <2>1. TypeOK'
    BY <1>2, <1>6 DEF Refuse, TypeOK
  <2>2. First.kind # "flush" /\ UNCHANGED <<op, queue>>
    BY <1>5, <1>6 DEF Refuse, Turn
  <2>3. Len(line') + rev[2] + Len(queue) <= count.versions + (IF Waits("flusher") THEN 1 ELSE 0)
    BY <1>2, <1>3, <1>4
  <2>4. ~Saving' /\ ~Rec' /\ ~Holds("flusher")' /\ op'.stage = "idle"
    BY <1>1, <2>2 DEF Saving, Rec, Holds
  <2>5. Ledger'
    BY <1>1, <1>2, <1>3, <1>4, <2>2, <2>3, <2>4 DEF Ledger
  <2> QED
    BY <2>1, <2>5
<1>7. CASE TakeChange
  <2> DEFINE n == IF First.kind = "edit" THEN Overlay(First) ELSE First.new
  <2>1. n \in Project
    BY <1>3, <1>33 DEF Overlay, Project
  <2>2. op' = Save(First, n, <<>>)
    BY <1>7 DEF TakeChange
  <2> HIDE DEF n
  <2>3. op' \in Ops /\ op'.stage = "saving" /\ op'.job = First
    BY <1>2, <2>1, <2>2, SaveTyped
  <2>4. First.kind # "flush" /\ UNCHANGED <<queue, project, past>>
    BY <1>5, <1>7 DEF TakeChange, Turn
  <2>5. TypeOK'
    BY <1>1, <1>2, <2>3, <2>4 DEF TypeOK
  <2>6. Ledger'
    BY <1>1, <1>2, <1>3, <1>4, <2>3, <2>4, SMTT(30) DEF Ledger, Saving, Rec, Holds
  <2> QED
    BY <2>5, <2>6
<1>8. CASE TakeSave
  <2> DEFINE n == [project EXCEPT !["plugins"] = First.new["plugins"]]
  <2>1. n \in Project /\ project' = n
    BY <1>3, <1>33, <1>8 DEF Project, TakeSave, Writing
  <2>2. op' = Save(First, n, <<>>)
    BY <1>8, <2>1 DEF TakeSave, Writing
  <2> HIDE DEF n
  <2>3. op' \in Ops /\ op'.stage = "saving" /\ op'.job = First
    BY <1>2, <2>1, <2>2, SaveTyped
  <2>4. First.kind = "save" /\ UNCHANGED queue
    BY <1>8 DEF TakeSave, Turn
  <2>5. past' \subseteq Pasts
    BY <1>8 DEF TakeSave, TypeOK, Pasts
  <2>6. TypeOK'
    BY <1>1, <1>2, <2>1, <2>3, <2>4, <2>5 DEF TypeOK
  <2>7. Ledger'
    BY <1>1, <1>2, <1>3, <1>4, <2>3, <2>4, SMTT(30) DEF Ledger, Saving, Rec, Holds
  <2> QED
    BY <2>6, <2>7
<1>9. CASE TakeFlush
  <2> DEFINE n == [project EXCEPT !["plugins"] = runs.plugins]
  <2>1. n \in Project /\ project' = n
    BY <1>3, <1>9 DEF Project, TakeFlush, Writing
  <2>2. op' = Save(First, n, queue)
    BY <1>9, <2>1 DEF TakeFlush, Writing
  <2> HIDE DEF n
  <2>3. op' \in Ops /\ op'.stage = "saving" /\ op'.job = First /\ op'.batch = queue
    BY <1>2, <1>3, <2>1, <2>2, SaveTyped
  <2>4. First.kind = "flush" /\ queue' = <<>> /\ UNCHANGED past
    BY <1>9 DEF TakeFlush, Turn
  <2>5. TypeOK'
    BY <1>1, <1>2, <2>1, <2>3, <2>4 DEF TypeOK
  <2>6. Len(queue) >= 1 /\ Len(queue') = 0 /\ queue # <<>>
    BY <1>2, <1>3, <1>4, <2>4
  <2>7. rev[2] + Len(line') + 1 + Len(queue') <= count.versions
    BY <1>2, <1>3, <1>4, <2>4, <2>6
  <2>8. Ledger'
    BY <1>1, <1>2, <1>3, <1>4, <2>3, <2>4, <2>6, <2>7 DEF Ledger, Saving, Rec, Holds
  <2> QED
    BY <2>5, <2>8
<1> QED
  BY <1>6, <1>7, <1>8, <1>9

LEMMA SwapsTyped ==
  ASSUME TypeOK, Ledger, TakeReload \/ SavedChange
  PROVE  TypeOK' /\ Ledger'
<1>1. /\ project \in Project /\ disk \in Project /\ op \in Ops /\ rev \in Token /\ line \in Seq(Jobs)
      /\ queue \in Seq(Version) /\ past \subseteq Pasts
      /\ count.versions \in Nat /\ rev[1] \in 1 .. MaxRestarts + 1 /\ rev[2] \in Nat
      /\ Len(queue) \in Nat /\ Len(line) \in Nat
      /\ rev = <<rev[1], rev[2]>> /\ count.versions <= MaxVersions
  BY Bounds DEF TypeOK, Counts, Version, Token
<1>2. op.job \in Jobs /\ op.new \in Project
  BY <1>1 DEF Ops
<1>3. \A k \in Changes \cup {"reload"} : k # "flush"
  BY DEF Changes, Edits
<1>4. PICK j \in Jobs, n \in Project, d \in SUBSET Section :
        /\ Swap(j, n, d) /\ j.kind # "flush" /\ j.by # "flusher"
        /\ disk' = n
        /\ UNCHANGED <<runs, client, queue, withdrawn, count>>
        /\ \/ line' = line /\ Saving /\ op.job.kind # "flush"
           \/ line # <<>> /\ line' = Tail(line) /\ First.kind # "flush" /\ ~Saving
  <2>1. CASE TakeReload
    <3>1. line # <<>> /\ line' = Tail(line) /\ First.kind = "reload" /\ op.stage = "idle"
      BY <2>1 DEF TakeReload, Turn
    <3>2. First \in Jobs /\ (First.by = "flusher" <=> First.kind = "flush")
      BY <3>1, TurnTyped
    <3> QED
      BY <1>1, <1>3, <2>1, <3>1, <3>2 DEF TakeReload, Saving
  <2>2. CASE SavedChange
    <3>1. Dirty(op.new) \in SUBSET Section
      BY DEF Dirty
    <3>2. op.job.kind # "flush" /\ op.job.by # "flusher"
      BY <1>3, <2>2 DEF SavedChange, Ledger
    <3> QED
      BY <1>2, <2>2, <3>1, <3>2 DEF SavedChange, Saving
  <2> QED
    BY <2>1, <2>2
<1>5. op' \in Ops /\ op'.stage = "reconcile" /\ op'.back = rev /\ op'.job = j
  <2>1. op' = Reconcile(j, n, d)
    BY <1>4 DEF Swap
  <2> QED
    BY <1>1, <2>1, ReconcileTyped
<1>6. /\ line' \in Seq(Jobs)
      /\ \A i \in DOMAIN line' : line'[i].by = "flusher" <=> line'[i].kind = "flush"
      /\ \A i, k \in DOMAIN line' : line'[i].by = "flusher" /\ line'[k].by = "flusher" => i = k
      /\ Waits("flusher")' <=> Waits("flusher")
      /\ Len(line') + 1 = Len(line) + (IF Saving THEN 1 ELSE 0)
  <2>1. CASE line' = line /\ Saving
    BY <1>1, <2>1 DEF Ledger, Waits
  <2>2. CASE line # <<>> /\ line' = Tail(line) /\ First.kind # "flush" /\ ~Saving
    BY <1>1, <2>2, TurnTyped
  <2> QED
    BY <1>4, <2>1, <2>2
<1>7. rev' = <<rev[1], rev[2] + 1>> /\ project' = n /\ past' \subseteq Pasts
  BY <1>1, <1>4 DEF Swap
<1>8. Len(line') \in Nat
  BY <1>6
<1>9. rev'[2] + Len(line') + Len(queue) <= count.versions + (IF Waits("flusher") THEN 1 ELSE 0)
  BY <1>1, <1>6, <1>7, <1>8 DEF Ledger
<1>10. Waits("flusher") => Len(queue) >= 1
  BY <1>1 DEF Ledger
<1>11. rev' \in Token
  BY <1>1, <1>7, <1>8, <1>9, <1>10, Bounds DEF Token
<1>12. TypeOK'
  BY <1>4, <1>5, <1>6, <1>7, <1>11 DEF TypeOK
<1>13. ~Saving' /\ Rec' /\ op'.job.by # "flusher" /\ op'.job.kind # "flush" /\ ~Holds("flusher")'
  BY <1>4, <1>5 DEF Saving, Rec, Holds
<1>14. rev[1] = count.restarts + 1 /\ (Waits("flusher") => queue # <<>>)
  BY DEF Ledger
<1>15. Ledger'
  BY <1>1, <1>4, <1>5, <1>6, <1>7, <1>9, <1>13, <1>14 DEF Ledger
<1> QED
  BY <1>12, <1>15

LEMMA EndsTyped ==
  ASSUME TypeOK, Ledger, SavedConfig \/ ChangeFails \/ ConfigFails \/ RollbackFails \/ Finish
  PROVE  TypeOK' /\ Ledger'
<1>1. /\ project \in Project /\ disk \in Project /\ op \in Ops /\ rev \in Token /\ line \in Seq(Jobs)
      /\ queue \in Seq(Version) /\ past \subseteq Pasts /\ runs \in Follower
      /\ count.versions \in Nat /\ rev[1] \in 1 .. MaxRestarts + 1 /\ rev[2] \in Nat
      /\ Len(queue) \in Nat /\ Len(line) \in Nat
      /\ rev = <<rev[1], rev[2]>> /\ count.versions <= MaxVersions
      /\ count \in Counts
  BY Bounds DEF TypeOK, Counts, Version, Token
<1>2. /\ op.job \in Jobs /\ op.new \in Project /\ op.batch \in Seq(Version)
      /\ op.job.was[1] \in Version /\ op.job.was[2] \in Version
  BY <1>1 DEF Ops, Jobs
<1>3. op' = Idle /\ op.stage # "idle" /\ UNCHANGED <<line, queue, withdrawn>>
  BY DEF SavedConfig, ChangeFails, ConfigFails, RollbackFails, Finish
<1>4. op' \in Ops /\ op'.stage = "idle"
  BY <1>3, IdleTyped
<1>5. ~Saving' /\ ~Rec' /\ ~Holds("flusher")' /\ (Waits("flusher")' <=> Waits("flusher"))
  BY <1>3, <1>4 DEF Saving, Rec, Holds, Waits
<1>6. Waits("flusher") => Len(queue) >= 1
  BY <1>1 DEF Ledger
<1>7. /\ count' \in Counts /\ count'.versions = count.versions /\ count'.restarts = count.restarts
  BY <1>1, FailedTyped DEF SavedConfig, ChangeFails, ConfigFails, RollbackFails, Finish
<1>8. rev' = rev \/ (Saving /\ rev' = <<rev[1], rev[2] + 1>>)
  BY DEF SavedConfig, ChangeFails, ConfigFails, RollbackFails, Finish, Saving
<1>9. rev'[2] + Len(line) + Len(queue) <= count.versions + (IF Waits("flusher") THEN 1 ELSE 0)
  BY <1>1, <1>8 DEF Ledger
<1>10. rev' \in Token /\ rev'[1] = rev[1]
  BY <1>1, <1>6, <1>8, <1>9, Bounds DEF Token
<1>11. Ledger'
  <2>1. /\ rev[1] = count.restarts + 1
        /\ \A i \in DOMAIN line : line[i].by = "flusher" <=> line[i].kind = "flush"
        /\ \A i, j \in DOMAIN line : line[i].by = "flusher" /\ line[j].by = "flusher" => i = j
        /\ Waits("flusher") => queue # <<>>
    BY DEF Ledger
  <2>2. rev'[2] \in Nat
    BY <1>1, <1>8
  <2>3. rev'[2] + Len(line') + (IF Saving' THEN 1 ELSE 0) + Len(queue')
          <= count'.versions + (IF Waits("flusher")' THEN 1 ELSE 0)
    BY <1>1, <1>3, <1>5, <1>7, <1>9, <2>2
  <2> QED
    BY <1>3, <1>4, <1>5, <1>7, <1>10, <2>1, <2>3 DEF Ledger
<1>12. project' \in Project /\ runs' \in Follower
  <2>1. CASE ConfigFails
    <3>1. op.job.kind # "save" => Head(op.batch) \in Version
      <4>1. op.job.kind # "save" => op.job.kind = "flush" /\ op.batch # <<>>
        BY <2>1 DEF ConfigFails, Bookkeeping, Ledger, Saving
      <4> QED
        BY <1>2, <4>1
    <3> QED
      BY <1>1, <1>2, <2>1, <3>1 DEF ConfigFails, Project, Follower
  <2>2. CASE SavedConfig \/ ChangeFails \/ RollbackFails \/ Finish
    BY <1>1, <2>2 DEF SavedConfig, ChangeFails, RollbackFails, Finish
  <2> QED
    BY <2>1, <2>2
<1>13. disk' \in Project
  BY <1>1, <1>2 DEF SavedConfig, ChangeFails, ConfigFails, RollbackFails, Finish
<1>14. client' \in [Client -> [copy: Project, token: Token \cup {NoToken}]]
  BY <1>1, <1>2 DEF SavedConfig, ChangeFails, ConfigFails, RollbackFails, Finish, TypeOK
<1>15. past' \subseteq Pasts
  BY <1>1 DEF SavedConfig, ChangeFails, ConfigFails, RollbackFails, Finish, Pasts
<1>16. TypeOK'
  BY <1>3, <1>4, <1>7, <1>10, <1>12, <1>13, <1>14, <1>15 DEF TypeOK
<1> QED
  BY <1>11, <1>16

LEMMA StepsTyped ==
  ASSUME TypeOK, Ledger, (\E x \in Steps : Step(x)) \/ StepFails
  PROVE  TypeOK' /\ Ledger'
<1>1. /\ project \in Project /\ op \in Ops /\ rev \in Token /\ line \in Seq(Jobs)
      /\ queue \in Seq(Version) /\ past \subseteq Pasts /\ runs \in Follower
      /\ count.versions \in Nat /\ rev[2] \in Nat
      /\ Len(queue) \in Nat /\ Len(line) \in Nat
  BY Bounds DEF TypeOK, Counts, Version, Token
<1>2. op.todo \in SUBSET Steps /\ op.dirty \in SUBSET Section /\ op.prev \in Project
  BY <1>1 DEF Ops
<1>3. ASSUME NEW x \in Steps, Step(x)
      PROVE  TypeOK' /\ Ledger'
  <2>1. op' \in Ops /\ op'.stage = op.stage /\ op'.job = op.job /\ op'.back = op.back /\ op.stage # "saving"
    BY <1>1, <1>2, <1>3 DEF Step, Ops
  <2>2. runs' \in Follower
    <3>1. /\ project["devices"] \in Version /\ project["plugins"] \in Version
          /\ project["macros"] \in Version
      BY <1>1 DEF Project, Section
    <3> QED
      BY <1>1, <1>3, <3>1 DEF Step, Effect, Follower
  <2>3. TypeOK'
    BY <1>3, <2>1, <2>2 DEF Step, TypeOK
  <2>4. UNCHANGED <<line, queue, rev, count>>
    BY <1>3 DEF Step
  <2>5. Ledger'
    BY <2>1, <2>4 DEF Ledger, Waits, Holds, Saving, Rec
  <2> QED
    BY <2>3, <2>5
<1>4. CASE StepFails
  <2>1. op' = [op EXCEPT !.stage = "rollback", !.todo = Undone(op.dirty)] /\ op.stage = "reconcile"
    BY <1>4 DEF StepFails
  <2>2. op' \in Ops /\ op'.stage = "rollback" /\ op'.job = op.job
    BY <1>1, <1>2, <2>1, TodoTyped DEF Ops
  <2>3. count' \in Counts /\ count'.versions = count.versions /\ count'.restarts = count.restarts
    BY <1>4, FailedTyped DEF StepFails
  <2>4. /\ op.back \in Token /\ rev = <<op.back[1], op.back[2] + 1>> /\ rev' = op.back
        /\ op.back[2] \in Nat
    BY <1>4, Bounds DEF StepFails, Ledger, Rec, Token
  <2>5. UNCHANGED <<line, queue, runs, disk, client>> /\ project' = op.prev
        /\ withdrawn' = withdrawn \cup {rev} /\ past' = past \cup {"kept"}
    BY <1>4 DEF StepFails
  <2>6. TypeOK'
    BY <1>1, <1>2, <2>2, <2>3, <2>4, <2>5 DEF TypeOK, Pasts
  <2>7. ~Saving /\ ~Saving' /\ ~Rec' /\ (Waits("flusher")' <=> Waits("flusher"))
        /\ (Holds("flusher")' <=> Holds("flusher"))
    BY <2>1, <2>2, <2>5 DEF Saving, Rec, Waits, Holds
  <2>8. rev'[2] + Len(line) + Len(queue) <= count.versions + (IF Waits("flusher") THEN 1 ELSE 0)
        /\ rev'[1] = count.restarts + 1
    <3>1. /\ rev[2] + Len(line) + (IF Saving THEN 1 ELSE 0) + Len(queue)
               <= count.versions + (IF Waits("flusher") THEN 1 ELSE 0)
          /\ rev[1] = count.restarts + 1
      BY DEF Ledger
    <3>2. rev'[2] = op.back[2] /\ rev'[1] = op.back[1]
          /\ rev[2] = op.back[2] + 1 /\ rev[1] = op.back[1]
      BY <2>4
    <3>3. op.back[2] + 1 + Len(line) + 0 + Len(queue)
            <= count.versions + (IF Waits("flusher") THEN 1 ELSE 0)
      BY <2>7, <3>1, <3>2
    <3>4. Len(line) \in Nat /\ Len(queue) \in Nat /\ count.versions \in Nat
      BY <1>1
    <3>5. (IF Waits("flusher") THEN 1 ELSE 0) \in Nat
      OBVIOUS
    <3> QED
      BY <2>4, <3>1, <3>2, <3>3, <3>4, <3>5
  <2>9. Ledger'
    <3>1. rev'[2] + Len(line') + (IF Saving' THEN 1 ELSE 0) + Len(queue')
          <= count'.versions + (IF Waits("flusher")' THEN 1 ELSE 0)
      BY <1>1, <2>3, <2>4, <2>5, <2>7, <2>8
    <3> QED
      BY <2>1, <2>2, <2>3, <2>5, <2>7, <2>8, <3>1 DEF Ledger
  <2> QED
    BY <2>6, <2>9
<1> QED
  BY <1>3, <1>4

LEMMA RestartTyped ==
  ASSUME TypeOK, Ledger, Restart
  PROVE  TypeOK' /\ Ledger'
<1>1. /\ disk \in Project /\ rev \in Token /\ count \in Counts /\ rev[1] = count.restarts + 1
      /\ disk["devices"] \in Version /\ disk["plugins"] \in Version /\ disk["macros"] \in Version
  BY DEF TypeOK, Project, Section, Ledger
<1>2. /\ count' \in Counts /\ count'.restarts = count.restarts + 1 /\ count'.versions \in Nat
      /\ count.restarts \in Nat /\ count.restarts < MaxRestarts
  BY <1>1, Bounds DEF Restart, Counts, Version
<1>3. runs' \in Follower
  BY <1>1 DEF Restart, RunsAll, Follower
<1>4. op' \in Ops /\ op'.stage = "idle" /\ line' \in Seq(Jobs) /\ queue' \in Seq(Version)
      /\ Len(line') = 0 /\ Len(queue') = 0 /\ line' = <<>>
  BY IdleTyped DEF Restart
<1>5. ~Saving' /\ ~Rec' /\ ~Waits("flusher")' /\ DOMAIN line' = {}
  BY <1>4 DEF Saving, Rec, Waits
<1>6. rev' = <<count.restarts + 2, 0>>
  BY <1>1, <1>2 DEF Restart
<1>7. rev' \in Token
  BY <1>2, <1>6, Bounds DEF Token
<1>8. TypeOK'
  BY <1>1, <1>2, <1>3, <1>4, <1>7 DEF TypeOK, Restart
<1>9. Ledger'
  BY <1>2, <1>4, <1>5, <1>6 DEF Ledger
<1> QED
  BY <1>8, <1>9

LEMMA InitTyped == Init => TypeOK /\ Ledger
<1> SUFFICES ASSUME Init PROVE TypeOK /\ Ledger
  OBVIOUS
<1>1. 0 \in Version /\ Whole(0) \in Project
  BY Bounds, WholeTyped DEF Version
<1>2. runs \in Follower
  BY <1>1 DEF Init, RunsAll, Follower, Project, Section
<1>3. op \in Ops /\ op.stage = "idle" /\ line = <<>> /\ line \in Seq(Jobs) /\ queue \in Seq(Version)
      /\ Len(line) = 0 /\ Len(queue) = 0 /\ DOMAIN line = {}
  BY IdleTyped DEF Init
<1>4. rev = <<1, 0>> /\ rev \in Token
  BY Bounds DEF Init, Token
<1>5. count \in Counts /\ count.versions = 0 /\ count.restarts = 0
  BY <1>1, Bounds DEF Init, Counts
<1>6. ~Saving /\ ~Rec /\ ~Waits("flusher")
  BY <1>3 DEF Saving, Rec, Waits
<1>7. TypeOK
  BY <1>1, <1>2, <1>3, <1>4, <1>5 DEF Init, TypeOK
<1>8. Ledger
  BY <1>3, <1>4, <1>5, <1>6 DEF Ledger
<1> QED
  BY <1>7, <1>8

LEMMA NextTyped ==
  ASSUME TypeOK, Ledger, [Next]_vars
  PROVE  TypeOK' /\ Ledger'
<1>1. CASE UNCHANGED vars
  BY <1>1 DEF vars, TypeOK, Ledger, Waits, Holds, Saving, Rec
<1> QED
  BY <1>1, AsksTyped, ConfigTyped, TakesTyped, SwapsTyped, EndsTyped, StepsTyped, RestartTyped
  DEF Next, Work

(* The types, and that no change mints more than one token.                  *)
THEOREM ApplyTyped == Spec => [](TypeOK /\ Ledger)
<1>1. Init => TypeOK /\ Ledger
  BY InitTyped
<1>2. TypeOK /\ Ledger /\ [Next]_vars => (TypeOK /\ Ledger)'
  BY NextTyped
<1> QED
  BY <1>1, <1>2, PTL DEF Spec

-----------------------------------------------------------------------------
(* What is known under a token stays known: nothing moves, a token is minted *)
(* or withdrawn, or only the plugin's section moves.                         *)

Soft == queue # <<>> \/ "unsaved" \in past

LEMMA KnownKept ==
  ASSUME NEW p, NEW t, NEW only, Known(p, t, only),
         UNCHANGED <<project, rev, withdrawn>>,
         Loose => Loose',
         Rec' => Rec /\ op'.back = op.back /\ op'.prev = op.prev /\ (Soft => Soft')
  PROVE  Known(p, t, only)'
BY DEF Known, Old, Same, Soft

LEMMA KnownPlugin ==
  ASSUME NEW p, NEW t, NEW only, Known(p, t, only),
         UNCHANGED <<rev, withdrawn>>,
         Loose',
         \A s \in Section : s # "plugins" => project'[s] = project[s],
         Rec' => Rec /\ op'.back = op.back /\ op'.prev = op.prev /\ Soft'
  PROVE  Known(p, t, only)'
BY DEF Known, Old, Same, Soft

LEMMA KnownMinted ==
  ASSUME NEW p, NEW t \in Token \cup {NoToken}, NEW only, Known(p, t, only), rev \in Token,
         rev' = <<rev[1], rev[2] + 1>>, withdrawn' = withdrawn,
         Rec' => op'.back = rev /\ op'.prev = project /\ (Loose => Soft')
  PROVE  Known(p, t, only)'
<1>1. /\ rev[1] \in Nat /\ rev[2] \in Nat /\ t[1] \in Nat /\ t[2] \in Nat
      /\ rev'[1] = rev[1] /\ rev'[2] = rev[2] + 1 /\ rev[1] > 0
  BY Bounds DEF Token, NoToken
<1>2. Old(t)'
  BY <1>1 DEF Known, Old
<1>3. t = rev' => t \in withdrawn
  BY <1>1 DEF Known, Old, NoToken
<1>4. Rec' /\ t = rev /\ t \notin withdrawn => Same(p, op'.prev, only, Soft')
  BY DEF Known, Same
<1> QED
  BY <1>2, <1>3, <1>4 DEF Known, Same, Soft

LEMMA KnownWithdrawn ==
  ASSUME NEW p, NEW t \in Token \cup {NoToken}, NEW only, Known(p, t, only), rev \in Token,
         op.back \in Token, rev = <<op.back[1], op.back[2] + 1>>,
         Rec, ~Rec', rev' = op.back, withdrawn' = withdrawn \cup {rev}, project' = op.prev,
         Soft => Loose'
  PROVE  Known(p, t, only)'
<1>1. /\ op.back[1] \in Nat /\ op.back[2] \in Nat /\ t[1] \in Nat /\ t[2] \in Nat
      /\ rev[1] = op.back[1] /\ rev[2] = op.back[2] + 1 /\ t = <<t[1], t[2]>>
  BY Bounds DEF Token, NoToken
<1>2. Old(t)'
  BY <1>1 DEF Known, Old
<1>3. t = rev' /\ t \notin withdrawn' => Same(p, project', only, Loose')
  BY DEF Known, Same, Soft
<1> QED
  BY <1>2, <1>3 DEF Known, Same

LEMMA KnownRestarted ==
  ASSUME NEW p, NEW t \in Token \cup {NoToken}, NEW only, Known(p, t, only), rev \in Token,
         ~Rec', rev' = <<rev[1] + 1, 0>>, withdrawn' = withdrawn
  PROVE  Known(p, t, only)'
<1>1. /\ rev[1] \in Nat /\ t[1] \in Nat /\ t[2] \in Nat /\ rev'[1] = rev[1] + 1
      /\ rev'[2] = 0
  BY Bounds DEF Token, NoToken
<1>2. Old(t)'
  BY <1>1 DEF Known, Old
<1>3. t = rev' => t \in withdrawn
  BY <1>1 DEF Known, Old, NoToken
<1> QED
  BY <1>2, <1>3 DEF Known, Same

LEMMA KnownStep ==
  ASSUME TypeOK, Ledger, [Next]_vars,
         NEW p, NEW t \in Token \cup {NoToken}, NEW only, Known(p, t, only)
  PROVE  Known(p, t, only)'
<1>1. /\ project \in Project /\ rev \in Token /\ op \in Ops /\ queue \in Seq(Version)
      /\ runs.plugins \in Version /\ project["plugins"] \in Version
  BY DEF TypeOK, Follower, Project, Section
<1>2. Rec => ~Saving /\ ~Booking
  BY DEF Rec, Saving, Booking
<1>3. CASE UNCHANGED <<project, rev, withdrawn, op, queue, past>>
  <2>1. Loose' <=> Loose
    BY <1>3 DEF Loose, Booking, Saving, Rec
  <2> QED
    BY <1>3, <2>1, KnownKept DEF Rec, Soft
<1>4. ASSUME NEW c \in Client, Asks(c)
      PROVE  Known(p, t, only)'
  BY <1>3, <1>4 DEF Asks, Get, Put, Edit, Setup, Load, Reload, Restore, Ask
<1>5. CASE SaveConfigLater
  <2>1. queue' # <<>> /\ UNCHANGED <<rev, withdrawn, op>>
    BY <1>1, <1>5 DEF SaveConfigLater
  <2>2. \A s \in Section : s # "plugins" => project'[s] = project[s]
    BY <1>1, <1>5 DEF SaveConfigLater, Project
  <2> QED
    BY <2>1, <2>2, KnownPlugin DEF Loose, Soft, Rec
<1>6. CASE SaveConfigNow \/ JoinFlush
  BY <1>3, <1>6 DEF SaveConfigNow, JoinFlush, Ask
<1>7. CASE Refuse
  BY <1>3, <1>7 DEF Refuse
<1>8. CASE TakeChange
  <2>1. op.stage = "idle" /\ line # <<>> /\ line' = Tail(line) /\ First.kind \in Changes
        /\ UNCHANGED <<project, rev, withdrawn, queue, past>>
    BY <1>8 DEF TakeChange, Turn
  <2>2. op'.stage = "saving"
    BY <1>8 DEF TakeChange, Save, Idle
  <2>3. ~Rec /\ ~Rec' /\ ~Booking
    BY <2>1, <2>2 DEF Rec, Booking, Saving
  <2>4. Loose => Loose'
    BY <2>1, <2>3 DEF Loose
  <2> QED
    BY <2>1, <2>3, <2>4, KnownKept
<1>9. CASE TakeSave \/ TakeFlush
  <2>1. /\ line # <<>> /\ line' = Tail(line) /\ First.kind \in Bookkeeping
        /\ UNCHANGED <<rev, withdrawn>>
        /\ \E q : op' = Save(First, project', q)
        /\ \E v : project' = [project EXCEPT !["plugins"] = v]
    BY <1>9 DEF TakeSave, TakeFlush, Turn, Writing, Bookkeeping
  <2>2. op'.stage = "saving" /\ op'.job = First
    BY <2>1 DEF Save, Idle
  <2>3. ~Rec' /\ Loose'
    BY <2>1, <2>2 DEF Rec, Loose, Booking, Saving
  <2>4. \A s \in Section : s # "plugins" => project'[s] = project[s]
    BY <1>1, <2>1 DEF Project
  <2> QED
    BY <2>1, <2>3, <2>4, KnownPlugin
<1>10. CASE TakeReload \/ SavedChange
  <2>1. PICK j, n, d : Swap(j, n, d) /\ withdrawn' = withdrawn /\ queue' = queue
    BY <1>10 DEF TakeReload, SavedChange
  <2>2. op'.back = rev /\ op'.prev = project
    BY <2>1 DEF Swap, Reconcile, Idle
  <2>3. ~Booking /\ ~Rec
    BY <1>10 DEF TakeReload, SavedChange, Turn, Booking, Saving, Rec, Changes, Edits, Bookkeeping
  <2>4. Loose => Soft'
    BY <2>1, <2>3 DEF Loose, Soft, Swap
  <2> QED
    BY <1>1, <2>1, <2>2, <2>4, KnownMinted DEF Swap
<1>11. CASE SavedConfig
  <2>1. rev' = <<rev[1], rev[2] + 1>> /\ withdrawn' = withdrawn /\ op' = Idle
    BY <1>11 DEF SavedConfig
  <2>2. ~Rec'
    BY <2>1, IdleTyped DEF Rec
  <2> QED
    BY <1>1, <2>1, <2>2, KnownMinted
<1>12. CASE ChangeFails \/ RollbackFails \/ Finish
  <2>1. UNCHANGED <<project, rev, withdrawn, queue>> /\ op' = Idle /\ op.stage # "idle"
    BY <1>12 DEF ChangeFails, RollbackFails, Finish
  <2>2. ~Rec' /\ ~Booking
    BY <1>12, <2>1, IdleTyped DEF Rec, Booking, Saving, ChangeFails, RollbackFails, Finish, Changes, Edits, Bookkeeping
  <2>3. Loose => Loose'
    BY <1>12, <2>1, <2>2 DEF Loose, ChangeFails, RollbackFails, Finish, Rec
  <2> QED
    BY <2>1, <2>2, <2>3, KnownKept
<1>13. CASE ConfigFails
  <2>1. UNCHANGED <<rev, withdrawn>> /\ op' = Idle /\ "unsaved" \in past'
    BY <1>13 DEF ConfigFails
  <2>2. ~Rec' /\ Loose'
    BY <2>1, IdleTyped DEF Rec, Loose
  <2>3. \A s \in Section : s # "plugins" => project'[s] = project[s]
    BY <1>1, <1>13 DEF ConfigFails, Project
  <2> QED
    BY <2>1, <2>2, <2>3, KnownPlugin
<1>14. ASSUME NEW x \in Steps, Step(x)
       PROVE  Known(p, t, only)'
  <2>1. UNCHANGED <<project, rev, withdrawn, queue, past>>
        /\ op'.stage = op.stage /\ op'.back = op.back /\ op'.prev = op.prev /\ op'.job = op.job
    BY <1>1, <1>14 DEF Step, Ops
  <2>2. (Loose => Loose') /\ (Rec' <=> Rec) /\ (Soft => Soft')
    BY <2>1 DEF Loose, Booking, Saving, Rec, Soft
  <2> QED
    BY <2>1, <2>2, KnownKept
<1>15. CASE StepFails
  <2>1. Rec /\ op'.stage = "rollback" /\ rev' = op.back /\ withdrawn' = withdrawn \cup {rev}
        /\ project' = op.prev /\ queue' = queue /\ past \subseteq past'
    BY <1>1, <1>15 DEF StepFails, Rec, Ops
  <2>2. ~Rec' /\ (Soft => Loose')
    BY <2>1 DEF Rec, Soft, Loose
  <2>3. op.back \in Token /\ rev = <<op.back[1], op.back[2] + 1>>
    BY <2>1 DEF Ledger
  <2> QED
    BY <1>1, <2>1, <2>2, <2>3, KnownWithdrawn
<1>16. CASE Restart
  <2>1. rev' = <<rev[1] + 1, 0>> /\ withdrawn' = withdrawn /\ ~Rec'
    BY <1>16, IdleTyped DEF Restart, Rec
  <2> QED
    BY <1>1, <2>1, KnownRestarted
<1>17. CASE UNCHANGED vars
  BY <1>3, <1>17 DEF vars
<1> QED
  BY <1>4, <1>5, <1>6, <1>7, <1>8, <1>9, <1>10, <1>11, <1>12, <1>13, <1>14, <1>15, <1>16, <1>17
  DEF Next, Work

-----------------------------------------------------------------------------
(* Honest.                                                                   *)

HonestClients == \A c \in Client : Known(client[c].copy, client[c].token, {})
HonestPut(j)  == j.kind = "put" => j.token # NoToken /\ Known(j.new, j.token, j.only)
HonestLine    == \A i \in DOMAIN line : HonestPut(line[i])
HonestSave    == (Saving /\ op.job.kind \in {"put", "edit"})
                   => op.job.token \in withdrawn \/ Same(op.new, project, op.job.only, Soft)
HonestApply   == Rec => Same(op.new, project, {}, queue # <<>>)

LEMMA HonestParts == Honest <=> HonestClients /\ HonestLine /\ HonestSave /\ HonestApply
BY DEF Honest, HonestClients, HonestLine, HonestPut, HonestSave, HonestApply, Soft

(* What a GET answers, and an answered PUT, is the project of that token.    *)
LEMMA HonestClientsStep ==
  ASSUME TypeOK, Ledger, Honest, [Next]_vars
  PROVE  HonestClients'
<1> SUFFICES ASSUME NEW c \in Client, NEW p, NEW t, p = client'[c].copy, t = client'[c].token
             PROVE  Known(p, t, {})'
  BY DEF HonestClients
<1>1. /\ client[c].token \in Token \cup {NoToken} /\ rev \in Token /\ project \in Project
      /\ client \in [Client -> [copy: Project, token: Token \cup {NoToken}]]
  BY DEF TypeOK
<1>2. rev[1] \in Nat /\ rev[2] \in Nat
  BY <1>1, Bounds DEF Token
<1>3. CASE client'[c] = client[c]
  <2>1. p = client[c].copy /\ t = client[c].token
    BY <1>3
  <2>2. Known(p, t, {}) /\ t \in Token \cup {NoToken}
    BY <1>1, <2>1 DEF Honest
  <2> QED
    BY <2>2, KnownStep
<1>4. CASE Get(c)
  <2>1. p = project /\ t = rev /\ UNCHANGED <<project, rev, op, withdrawn>>
    BY <1>1, <1>4 DEF Get
  <2>2. Rec => rev # op.back
    BY <1>2, Bounds DEF Ledger, Token
  <2> QED
    BY <1>2, <2>1, <2>2 DEF Known, Old, Same, Rec
<1>5. CASE Finish /\ Rec /\ client'[c] = [copy |-> op.new, token |-> rev]
  <2>1. UNCHANGED <<project, rev, queue, withdrawn>> /\ ~Rec' /\ p = op.new /\ t = rev
    BY <1>5, IdleTyped DEF Finish, Rec
  <2>2. Same(op.new, project, {}, queue # <<>>)
    BY <1>5 DEF Honest
  <2> QED
    BY <1>2, <1>5, <2>1, <2>2 DEF Known, Old, Same, Loose
<1>6. client'[c] = client[c] \/ Get(c) \/ (Finish /\ Rec /\ client'[c] = [copy |-> op.new, token |-> rev])
  <2>1. ASSUME NEW b \in Client, Asks(b)
        PROVE  client'[c] = client[c] \/ Get(c)
    BY <1>1, <2>1 DEF Asks, Get, Put, Edit, Setup, Load, Reload, Restore, Ask
  <2>2. CASE Finish
    BY <1>1, <2>2 DEF Finish, Rec
  <2>3. CASE \/ SaveConfigLater \/ SaveConfigNow \/ JoinFlush \/ Restart \/ UNCHANGED vars
    BY <2>3 DEF SaveConfigLater, SaveConfigNow, JoinFlush, Restart, vars, Ask
  <2>4. CASE Work /\ ~Finish
    BY <2>4 DEF Work, Refuse, TakeChange, TakeReload, TakeSave, TakeFlush, SavedChange, SavedConfig,
                ChangeFails, ConfigFails, Step, StepFails, RollbackFails
  <2> QED
    BY <2>1, <2>2, <2>3, <2>4 DEF Next
<1> QED
  BY <1>3, <1>4, <1>5, <1>6

LEMMA HonestKept ==
  ASSUME TypeOK, Ledger, [Next]_vars, NEW j \in Jobs, HonestPut(j)
  PROVE  HonestPut(j)'
<1>1. j.token \in Token \cup {NoToken}
  BY DEF Jobs
<1>2. Known(j.new, j.token, j.only) => Known(j.new, j.token, j.only)'
  BY <1>1, KnownStep
<1> QED
  BY <1>2 DEF HonestPut

LEMMA HonestAsk ==
  ASSUME TypeOK, Ledger, HonestLine, [Next]_vars, NEW j \in Jobs, HonestPut(j), line' = Append(line, j)
  PROVE  HonestLine'
<1>1. line \in Seq(Jobs)
  BY DEF TypeOK
<1>2. /\ Len(line) \in Nat
      /\ DOMAIN line = 1..Len(line)
      /\ DOMAIN line' = 1..(Len(line) + 1)
      /\ \A i \in DOMAIN line : line'[i] = line[i]
      /\ line'[Len(line) + 1] = j
  BY <1>1, Appended
<1> SUFFICES ASSUME NEW i \in DOMAIN line', NEW k, k = line'[i]
             PROVE  HonestPut(k)'
  BY DEF HonestLine
<1>3. k \in Jobs /\ HonestPut(k)
  BY <1>1, <1>2 DEF HonestLine
<1> QED
  BY <1>3, HonestKept


LEMMA HonestRest ==
  ASSUME TypeOK, Ledger, HonestLine, [Next]_vars,
         line' = line \/ (line # <<>> /\ line' = Tail(line)) \/ line' = <<>>
  PROVE  HonestLine'
<1>1. line \in Seq(Jobs)
  BY DEF TypeOK
<1> SUFFICES ASSUME NEW i \in DOMAIN line', NEW k, k = line'[i]
             PROVE  HonestPut(k)'
  BY DEF HonestLine
<1>2. k \in Jobs /\ HonestPut(k)
  <2>1. CASE line' = line
    BY <1>1, <2>1 DEF HonestLine
  <2>2. CASE line # <<>> /\ line' = Tail(line)
    <3>1. /\ Len(line) \in Nat /\ Len(line) >= 1
          /\ DOMAIN line = 1..Len(line)
          /\ DOMAIN line' = 1..(Len(line) - 1)
          /\ \A n \in DOMAIN line' : line'[n] = line[n + 1]
      BY <1>1, <2>2, Dropped
    <3>2. i + 1 \in DOMAIN line /\ k = line[i + 1]
      BY <3>1
    <3> QED
      BY <1>1, <3>2, SMTT(30) DEF HonestLine
  <2>3. CASE line' = <<>>
    BY <2>3
  <2> QED
    BY <2>1, <2>2, <2>3
<1> QED
  BY <1>2, HonestKept

LEMMA HonestLineStep ==
  ASSUME TypeOK, Ledger, Honest, [Next]_vars
  PROVE  HonestLine'
<1>1. HonestLine
  BY HonestParts
<1>2. ASSUME NEW c \in Client, Asks(c)
      PROVE  HonestLine'
  <2>1. client[c].token \in Token \cup {NoToken} /\ client[c].copy \in Project
    BY DEF TypeOK
  <2>2. CASE Get(c)
    BY <1>1, <2>2, HonestRest DEF Get
  <2>3. ASSUME NEW s \in Section, Put(c, s)
        PROVE  HonestLine'
    <3> DEFINE n == [client[c].copy EXCEPT ![s] = Fresh]
    <3>1. /\ client[c].token # NoToken /\ Made
          /\ line' = Append(line, Job("put", c, {s}, n, client[c].token, Nothing))
      BY <2>3 DEF Put, Ask
    <3>2. Job("put", c, {s}, n, client[c].token, Nothing) \in Jobs
      BY <3>1, MadeTyped, JobTyped
    <3>3. \A x \in Section \ {s} : n[x] = client[c].copy[x]
      BY <2>1 DEF Project
    <3>4. Known(client[c].copy, client[c].token, {})
      BY DEF Honest
    <3> HIDE DEF n
    <3>5. Known(n, client[c].token, {s})
      BY <3>3, <3>4 DEF Known, Same
    <3>6. HonestPut(Job("put", c, {s}, n, client[c].token, Nothing))
      BY <3>1, <3>5 DEF HonestPut, Job
    <3> SUFFICES ASSUME NEW j, j = Job("put", c, {s}, n, client[c].token, Nothing)
                 PROVE  HonestLine'
      OBVIOUS
    <3> QED
      BY <1>1, <3>1, <3>2, <3>6, HonestAsk
  <2>4. CASE (\E s \in Section : Edit(c, s)) \/ Setup(c) \/ Load(c) \/ Reload(c) \/ Restore(c)
    <3>1. PICK j \in Jobs : Ask(j) /\ j.kind # "put"
      <4>1. Made
        BY <2>4 DEF Edit, Setup, Load, Reload, Restore, Ask
      <4>2. Fresh \in Version
        BY <4>1, MadeTyped
      <4>3. ASSUME NEW s \in Section, Edit(c, s)
            PROVE  \E j \in Jobs : Ask(j) /\ j.kind # "put"
        <5> DEFINE j == Job("edit", c, {s}, Whole(Fresh), NoToken, Nothing)
        <5>1. Ask(j) /\ j \in Jobs
          BY <4>2, <4>3, JobTyped DEF Edit
        <5>2. j.kind # "put"
          BY DEF Job
        <5> HIDE DEF j
        <5> QED
          BY <5>1, <5>2
      <4>4. CASE Setup(c)
        <5> DEFINE j == Job("setup", c, {"devices"}, [project EXCEPT !["devices"] = Fresh], NoToken, Nothing)
        <5>1. Ask(j) /\ j \in Jobs
          BY <4>2, <4>4, JobTyped DEF Setup
        <5>2. j.kind # "put"
          BY DEF Job
        <5> HIDE DEF j
        <5> QED
          BY <5>1, <5>2
      <4>5. CASE Load(c)
        <5>1. PICK t \in {NoToken, client[c].token} : Ask(Job("load", c, Section, Whole(Fresh), t, Nothing))
          BY <4>5 DEF Load
        <5> DEFINE j == Job("load", c, Section, Whole(Fresh), t, Nothing)
        <5>2. Ask(j) /\ j \in Jobs
          BY <4>2, <5>1, JobTyped
        <5>3. j.kind # "put"
          BY DEF Job
        <5> HIDE DEF j
        <5> QED
          BY <5>2, <5>3
      <4>6. CASE Reload(c) \/ Restore(c)
        <5> DEFINE j == Job("reload", c, Section, Whole(0), NoToken, Nothing)
        <5>1. Ask(j) /\ j \in Jobs
          BY <4>2, <4>6, JobTyped DEF Reload, Restore
        <5>2. j.kind # "put"
          BY DEF Job
        <5> HIDE DEF j
        <5> QED
          BY <5>1, <5>2
      <4> QED
        BY <2>4, <4>3, <4>4, <4>5, <4>6
    <3> QED
      BY <1>1, <3>1, HonestAsk DEF HonestPut, Ask
  <2> QED
    BY <1>2, <2>2, <2>3, <2>4 DEF Asks
<1>3. CASE SaveConfigNow
  <2>1. project["plugins"] \in Version /\ runs.plugins \in Version
    BY DEF TypeOK, Project, Section, Follower
  <2>2. PICK by \in Plugin :
          Ask(Job("save", by, {"plugins"}, Whole(Fresh), NoToken, <<project["plugins"], runs.plugins>>))
    BY <1>3 DEF SaveConfigNow, Plugin
  <2>3. Whole(Fresh) \in Project
    BY <2>2, MadeTyped, WholeTyped DEF Ask
  <2> SUFFICES ASSUME NEW j,
                      j = Job("save", by, {"plugins"}, Whole(Fresh), NoToken, <<project["plugins"], runs.plugins>>)
               PROVE  HonestLine'
    OBVIOUS
  <2>4. j \in Jobs /\ j.kind # "put"
    BY <2>1, <2>3 DEF Job, Jobs, Bookkeeping, Section
  <2> QED
    BY <1>1, <2>2, <2>4, HonestAsk DEF HonestPut, Ask
<1>4. CASE JoinFlush
  <2>1. Flush.kind = "flush" /\ line' = Append(line, Flush)
    BY <1>4 DEF JoinFlush, Flush, Job
  <2> QED
    BY <1>1, <2>1, FlushTyped, HonestAsk DEF HonestPut
<1>5. CASE SaveConfigLater \/ Work \/ Restart \/ UNCHANGED vars
  <2>1. line' = line \/ (line # <<>> /\ line' = Tail(line)) \/ line' = <<>>
    BY <1>5 DEF SaveConfigLater, Work, Restart, vars, Refuse, TakeChange, TakeReload, TakeSave, TakeFlush,
                Turn, Writing, SavedChange, SavedConfig, ChangeFails, ConfigFails, Step, StepFails,
                RollbackFails, Finish
  <2> QED
    BY <1>1, <2>1, HonestRest
<1> QED
  BY <1>2, <1>3, <1>4, <1>5 DEF Next

(* While an apply writes, nothing but the plugin changes the project.        *)
LEMMA HonestSaveStep ==
  ASSUME TypeOK, Ledger, Honest, [Next]_vars
  PROVE  HonestSave'
<1>1. project \in Project /\ op \in Ops /\ line \in Seq(Jobs) /\ queue \in Seq(Version)
  BY DEF TypeOK
<1>2. HonestLine /\ HonestSave
  BY HonestParts
<1>3. CASE TakeChange
  <2> SUFFICES ASSUME First.kind \in {"put", "edit"}
               PROVE  HonestSave'
    <3>1. op'.job = First
      BY <1>3 DEF TakeChange, Save, Idle
    <3> QED
      BY <3>1 DEF HonestSave
  <2>1. /\ line # <<>> /\ line' = Tail(line) /\ Current(First) /\ op.stage = "idle"
        /\ UNCHANGED <<project, queue, past, withdrawn, rev>>
    BY <1>3 DEF TakeChange, Turn
  <2>2. First \in Jobs /\ First = line[1] /\ 1 \in DOMAIN line
    BY <1>1, <2>1, Dropped
  <2>3. /\ op'.job = First
        /\ op'.new = IF First.kind = "edit" THEN Overlay(First) ELSE First.new
    BY <1>3 DEF TakeChange, Save, Idle
  <2>4. ~Booking
    BY <2>1 DEF Booking, Saving
  <2>5. CASE First.kind = "edit"
    BY <2>1, <2>3, <2>5 DEF HonestSave, Same, Overlay
  <2>6. CASE First.kind = "put"
    <3>1. First.token # NoToken /\ Known(First.new, First.token, First.only)
      BY <1>2, <2>2, <2>6 DEF HonestLine, HonestPut
    <3>2. First.token = rev
      BY <2>1, <3>1 DEF Current
    <3>3. First.token \in withdrawn \/ Same(First.new, project, First.only, Soft)
      BY <2>4, <3>1, <3>2 DEF Known, Loose, Soft, Same
    <3> QED
      BY <2>1, <2>3, <2>6, <3>3 DEF HonestSave, Same, Soft
  <2> QED
    BY <2>5, <2>6
<1>4. CASE SaveConfigLater
  <2>1. queue' # <<>> /\ UNCHANGED <<op, withdrawn>>
    BY <1>1, <1>4 DEF SaveConfigLater
  <2>2. \A s \in Section : s # "plugins" => project'[s] = project[s]
    BY <1>1, <1>4 DEF SaveConfigLater, Project
  <2> QED
    BY <1>2, <2>1, <2>2 DEF HonestSave, Saving, Same, Soft
<1>5. CASE UNCHANGED <<project, op, withdrawn, queue, past>>
  BY <1>2, <1>5 DEF HonestSave, Saving, Same, Soft
<1>6. CASE op'.stage # "saving"
  BY <1>6 DEF HonestSave, Saving
<1>7. CASE TakeSave \/ TakeFlush
  <2>1. op'.job = First /\ First.kind \in {"save", "flush"}
    BY <1>7 DEF TakeSave, TakeFlush, Turn, Writing, Save, Idle
  <2> QED
    BY <2>1 DEF HonestSave
<1>8. ASSUME NEW c \in Client, Asks(c)
      PROVE  UNCHANGED <<project, op, withdrawn, queue, past>>
  BY <1>8 DEF Asks, Get, Put, Edit, Setup, Load, Reload, Restore, Ask
<1>9. CASE SaveConfigNow \/ JoinFlush \/ Refuse \/ UNCHANGED vars
  BY <1>5, <1>9 DEF SaveConfigNow, JoinFlush, Refuse, vars, Ask
<1>10. CASE TakeReload \/ SavedChange
  BY <1>6, <1>10 DEF TakeReload, SavedChange, Swap, Reconcile, Idle
<1>11. CASE SavedConfig \/ ChangeFails \/ ConfigFails \/ RollbackFails \/ Finish \/ Restart
  BY <1>6, <1>11, IdleTyped DEF SavedConfig, ChangeFails, ConfigFails, RollbackFails, Finish, Restart
<1>12. CASE (\E x \in Steps : Step(x)) \/ StepFails
  <2>1. op'.stage # "saving"
    BY <1>1, <1>12 DEF Step, StepFails, Ops
  <2> QED
    BY <1>6, <2>1
<1> QED
  BY <1>3, <1>4, <1>5, <1>7, <1>8, <1>9, <1>10, <1>11, <1>12 DEF Next, Work

LEMMA HonestApplyStep ==
  ASSUME TypeOK, Ledger, Honest, [Next]_vars
  PROVE  HonestApply'
<1>1. project \in Project /\ op \in Ops /\ queue \in Seq(Version)
  BY DEF TypeOK
<1>2. HonestApply
  BY HonestParts
<1>3. CASE SaveConfigLater
  <2>1. queue' # <<>> /\ UNCHANGED op
    BY <1>1, <1>3 DEF SaveConfigLater
  <2>2. \A s \in Section : s # "plugins" => project'[s] = project[s]
    BY <1>1, <1>3 DEF SaveConfigLater, Project
  <2> QED
    BY <1>2, <2>1, <2>2 DEF HonestApply, Rec, Same
<1>4. CASE TakeReload \/ SavedChange
  <2>1. PICK j, n, d : Swap(j, n, d)
    BY <1>4 DEF TakeReload, SavedChange
  <2>2. op'.new = n /\ project' = n
    BY <2>1 DEF Swap, Reconcile, Idle
  <2> QED
    BY <2>2 DEF HonestApply, Same
<1>5. CASE UNCHANGED <<project, op, queue>>
  BY <1>2, <1>5 DEF HonestApply, Rec, Same
<1>6. ASSUME NEW x \in Steps, Step(x)
      PROVE  HonestApply'
  <2>1. UNCHANGED <<project, queue>> /\ op'.stage = op.stage /\ op'.new = op.new
    BY <1>1, <1>6 DEF Step, Ops
  <2> QED
    BY <1>2, <2>1 DEF HonestApply, Rec, Same
<1>7. CASE op'.stage # "reconcile"
  BY <1>7 DEF HonestApply, Rec
<1>8. ASSUME NEW c \in Client, Asks(c)
      PROVE  UNCHANGED <<project, op, queue>>
  BY <1>8 DEF Asks, Get, Put, Edit, Setup, Load, Reload, Restore, Ask
<1>9. CASE SaveConfigNow \/ JoinFlush \/ Refuse \/ UNCHANGED vars
  BY <1>5, <1>9 DEF SaveConfigNow, JoinFlush, Refuse, vars, Ask
<1>10. CASE TakeChange \/ TakeSave \/ TakeFlush
  BY <1>7, <1>10 DEF TakeChange, TakeSave, TakeFlush, Writing, Save, Idle
<1>11. CASE SavedConfig \/ ChangeFails \/ ConfigFails \/ RollbackFails \/ Finish \/ Restart
  BY <1>7, <1>11, IdleTyped DEF SavedConfig, ChangeFails, ConfigFails, RollbackFails, Finish, Restart
<1>12. CASE StepFails
  <2>1. op'.stage = "rollback"
    BY <1>1, <1>12 DEF StepFails, Ops
  <2> QED
    BY <1>7, <2>1
<1> QED
  BY <1>3, <1>4, <1>5, <1>6, <1>8, <1>9, <1>10, <1>11, <1>12 DEF Next, Work

LEMMA InitHonest == Init => Honest
<1> SUFFICES ASSUME Init PROVE Honest
  OBVIOUS
<1>1. rev = <<1, 0>> /\ op.stage = "idle" /\ line = <<>>
  BY IdleTyped DEF Init
<1>2. \A c \in Client : client[c].token = NoToken
  BY DEF Init
<1>3. NoToken # rev
  BY <1>1 DEF NoToken
<1>4. ~Saving /\ ~Rec
  BY <1>1 DEF Saving, Rec
<1> QED
  BY <1>1, <1>2, <1>3, <1>4 DEF Honest, Known, Old


LEMMA NextHonest ==
  ASSUME TypeOK, Ledger, Honest, [Next]_vars
  PROVE  Honest'
BY HonestClientsStep, HonestLineStep, HonestSaveStep, HonestApplyStep
   DEF Honest, HonestClients, HonestLine, HonestPut, HonestSave, HonestApply, Soft

-----------------------------------------------------------------------------
(* A change of one section puts no other back to what it was: the token it   *)
(* carries is the one under which the project it was made from was current   *)
(* (engine.py: _apply_project_locked, apply_project_edit).                   *)
THEOREM RevertsNothing == Spec => NoSilentRevert
<1> DEFINE Safe == (Saving /\ op'.stage = "reconcile" /\ op.job.kind \in {"put", "edit"})
                   => \A s \in Section \ op.job.only :
                        \/ project'[s] = project[s]
                        \/ op.job.token \in withdrawn
                        \/ s = "plugins" /\ (queue # <<>> \/ "unsaved" \in past)
<1>1. TypeOK /\ Honest /\ [Next]_vars => Safe
  <2> SUFFICES ASSUME TypeOK, Honest, [Next]_vars, Saving, op'.stage = "reconcile",
                      op.job.kind \in {"put", "edit"},
                      NEW s \in Section \ op.job.only
               PROVE  \/ project'[s] = project[s]
                      \/ op.job.token \in withdrawn
                      \/ s = "plugins" /\ (queue # <<>> \/ "unsaved" \in past)
    OBVIOUS
  <2>1. op.stage = "saving" /\ op \in Ops /\ op.job.kind \in Changes
    BY DEF Saving, TypeOK, Changes, Edits
  <2>2. op' # op
    BY <2>1
  <2>3. SavedChange
    <3>1. CASE \E c \in Client : Asks(c)
      BY <2>2, <3>1 DEF Asks, Get, Put, Edit, Setup, Load, Reload, Restore, Ask
    <3>2. CASE SaveConfigLater \/ SaveConfigNow \/ JoinFlush \/ Refuse \/ UNCHANGED vars
      BY <2>2, <3>2 DEF SaveConfigLater, SaveConfigNow, JoinFlush, Refuse, vars, Ask
    <3>3. CASE TakeChange \/ TakeReload \/ TakeSave \/ TakeFlush
      BY <2>1, <3>3 DEF TakeChange, TakeReload, TakeSave, TakeFlush, Turn
    <3>4. CASE SavedConfig \/ ChangeFails \/ ConfigFails \/ RollbackFails \/ Finish \/ Restart
      BY <3>4, IdleTyped DEF SavedConfig, ChangeFails, ConfigFails, RollbackFails, Finish, Restart
    <3>5. CASE (\E x \in Steps : Step(x)) \/ StepFails
      BY <2>1, <3>5 DEF Step, StepFails
    <3> QED
      BY <3>1, <3>2, <3>3, <3>4, <3>5 DEF Next, Work
  <2>4. project' = op.new
    BY <2>3 DEF SavedChange, Swap
  <2>5. op.job.token \in withdrawn \/ Same(op.new, project, op.job.only, Soft)
    BY DEF Honest, Soft
  <2> QED
    BY <2>4, <2>5 DEF Same, Soft
<1>2. Init => Honest
  BY InitHonest
<1>3. TypeOK /\ Ledger /\ Honest /\ [Next]_vars => Honest'
  BY NextHonest
<1>4. Safe => ((op.stage = "saving" /\ op'.stage = "reconcile" /\ op.job.kind \in {"put", "edit"})
        => \A s \in Section \ op.job.only :
             \/ project'[s] = project[s]
             \/ op.job.token \in withdrawn
             \/ s = "plugins" /\ (queue # <<>> \/ "unsaved" \in past))
  BY DEF Saving
<1> QED
  BY <1>1, <1>2, <1>3, <1>4, ApplyTyped, PTL DEF Spec, NoSilentRevert


-----------------------------------------------------------------------------
(* Filed.                                                                    *)

LEMMA ReloadStays ==
  ASSUME line \in Seq(Jobs), NoReload',
         \/ line' = line
         \/ \E j \in Jobs : line' = Append(line, j)
         \/ line # <<>> /\ line' = Tail(line) /\ First.kind # "reload"
  PROVE  NoReload
<1>1. CASE line' = line
  BY <1>1 DEF NoReload
<1>2. ASSUME NEW j \in Jobs, line' = Append(line, j)
      PROVE  NoReload
  <2>1. \A i \in DOMAIN line : i \in DOMAIN line' /\ line'[i] = line[i]
    BY <1>2
  <2> QED
    BY <2>1 DEF NoReload
<1>3. CASE line # <<>> /\ line' = Tail(line) /\ First.kind # "reload"
  <2>1. \A i \in DOMAIN line : i = 1 \/ (i - 1 \in DOMAIN line' /\ line[i] = line'[i - 1])
    BY <1>3
  <2>2. First = line[1]
    BY <1>3, Dropped, ZenonT(60)
  <2> QED
    BY <1>3, <2>1, <2>2 DEF NoReload
<1> QED
  BY <1>1, <1>2, <1>3

LEMMA FiledWaits ==
  ASSUME Filed, UNCHANGED <<project, disk, op, queue, past>>, NoReload' => NoReload
  PROVE  Filed'
BY DEF Filed, Booking, Saving, Rec, Same

(* What a client asks for waits in the line; a restored file as well.        *)
LEMMA FiledAsks ==
  ASSUME TypeOK, Filed, NEW c \in Client, Asks(c)
  PROVE  Filed'
<1>1. line \in Seq(Jobs) /\ project \in Project
  BY DEF TypeOK
<1>2. CASE Get(c)
  BY <1>2, FiledWaits DEF Get, NoReload
<1>3. ASSUME NEW j \in Jobs, Ask(j), disk' = disk
      PROVE  Filed'
  <2>1. NoReload' => NoReload
    BY <1>1, <1>3, ReloadStays DEF Ask
  <2> QED
    BY <1>3, <2>1, FiledWaits DEF Ask
<1>4. Made => Fresh \in Version
  BY MadeTyped
<1>5. ASSUME NEW s \in Section, Put(c, s)
      PROVE  Filed'
  <2> DEFINE j == Job("put", c, {s}, [client[c].copy EXCEPT ![s] = Fresh], client[c].token, Nothing)
  <2>1. Ask(j) /\ disk' = disk
    BY <1>5 DEF Put
  <2>2. j \in Jobs
    BY <1>4, <2>1, JobTyped DEF Ask
  <2> HIDE DEF j
  <2> QED
    BY <1>3, <2>1, <2>2
<1>6. ASSUME NEW s \in Section, Edit(c, s)
      PROVE  Filed'
  <2> DEFINE j == Job("edit", c, {s}, Whole(Fresh), NoToken, Nothing)
  <2>1. Ask(j) /\ disk' = disk
    BY <1>6 DEF Edit
  <2>2. j \in Jobs
    BY <1>4, <2>1, JobTyped DEF Ask
  <2> HIDE DEF j
  <2> QED
    BY <1>3, <2>1, <2>2
<1>7. CASE Setup(c)
  <2> DEFINE j == Job("setup", c, {"devices"}, [project EXCEPT !["devices"] = Fresh], NoToken, Nothing)
  <2>1. Ask(j) /\ disk' = disk
    BY <1>7 DEF Setup
  <2>2. j \in Jobs
    BY <1>4, <2>1, JobTyped DEF Ask
  <2> HIDE DEF j
  <2> QED
    BY <1>3, <2>1, <2>2
<1>8. CASE Load(c)
  <2>1. PICK t \in {NoToken, client[c].token} : Ask(Job("load", c, Section, Whole(Fresh), t, Nothing))
    BY <1>8 DEF Load
  <2> DEFINE j == Job("load", c, Section, Whole(Fresh), t, Nothing)
  <2>2. Ask(j) /\ disk' = disk
    BY <1>8, <2>1 DEF Load
  <2>3. j \in Jobs
    BY <1>4, <2>2, JobTyped DEF Ask
  <2> HIDE DEF j
  <2> QED
    BY <1>3, <2>2, <2>3
<1>9. CASE Reload(c) \/ Restore(c)
  <2> DEFINE j == Job("reload", c, Section, Whole(0), NoToken, Nothing)
  <2>1. Ask(j)
    BY <1>9 DEF Reload, Restore
  <2>2. j \in Jobs
    BY <1>4, <2>1, JobTyped DEF Ask
  <2>3. j.kind = "reload"
    BY DEF Job
  <2> HIDE DEF j
  <2>4. line'[Len(line) + 1] = j /\ Len(line) + 1 \in DOMAIN line'
    BY <1>1, <2>1, <2>2, Appended DEF Ask
  <2>5. ~NoReload'
    BY <2>3, <2>4 DEF NoReload
  <2> QED
    BY <2>1, <2>5 DEF Ask, Filed, Booking, Saving, Rec, Same
<1> QED
  BY <1>2, <1>5, <1>6, <1>7, <1>8, <1>9 DEF Asks

(* An apply or a save files what it puts in place; a failed one says so.     *)
LEMMA NextFiled ==
  ASSUME TypeOK, Ledger, Filed, [Next]_vars
  PROVE  Filed'
<1>1. /\ project \in Project /\ disk \in Project /\ op \in Ops /\ line \in Seq(Jobs)
      /\ queue \in Seq(Version) /\ past \subseteq Pasts
  BY DEF TypeOK
<1>2. Idle.stage = "idle"
  BY IdleTyped
<1>3. CASE SaveConfigLater
  <2>1. queue' # <<>> /\ UNCHANGED <<disk, op, line, past>>
    BY <1>1, <1>3 DEF SaveConfigLater
  <2>2. \A s \in Section : s # "plugins" => project'[s] = project[s]
    BY <1>1, <1>3 DEF SaveConfigLater, Project
  <2> QED
    BY <2>1, <2>2 DEF Filed, Same, Booking, Saving, Rec, NoReload
<1>4. CASE SaveConfigNow \/ JoinFlush
  <2>1. PICK j \in Jobs : line' = Append(line, j)
    <3>1. CASE SaveConfigNow
      <4>1. PICK by \in Plugin :
              Ask(Job("save", by, {"plugins"}, Whole(Fresh), NoToken, <<project["plugins"], runs.plugins>>))
        BY <3>1 DEF SaveConfigNow, Plugin
      <4> DEFINE j == Job("save", by, {"plugins"}, Whole(Fresh), NoToken, <<project["plugins"], runs.plugins>>)
      <4>2. Whole(Fresh) \in Project
        BY <4>1, MadeTyped, WholeTyped DEF Ask
      <4>3. project["plugins"] \in Version /\ runs.plugins \in Version
        BY DEF TypeOK, Project, Section, Follower
      <4>4. j \in Jobs /\ line' = Append(line, j)
        BY <4>1, <4>2, <4>3 DEF Job, Jobs, Bookkeeping, Section, Ask
      <4> HIDE DEF j
      <4> QED
        BY <4>4
    <3>2. CASE JoinFlush
      BY <3>2, FlushTyped DEF JoinFlush
    <3> QED
      BY <1>4, <3>1, <3>2
  <2>2. NoReload' => NoReload
    BY <1>1, <2>1, ReloadStays
  <2> QED
    BY <1>4, <2>2, FiledWaits DEF SaveConfigNow, JoinFlush, Ask
<1>5. CASE Refuse \/ TakeChange \/ TakeSave \/ TakeFlush
  <2>1. line # <<>> /\ line' = Tail(line) /\ First.kind # "reload" /\ op.stage = "idle"
        /\ UNCHANGED disk
    BY <1>5 DEF Refuse, TakeChange, TakeSave, TakeFlush, Turn, Writing, Changes, Edits
  <2>2. NoReload' => NoReload
    BY <1>1, <2>1, ReloadStays
  <2>3. ~Booking /\ ~Rec
    BY <2>1 DEF Booking, Saving, Rec
  <2>4. CASE Refuse
    BY <2>2, <2>4, FiledWaits DEF Refuse
  <2>5. CASE TakeChange
    <3>1. op'.stage = "saving" /\ op'.job = First /\ First.kind \in Changes
          /\ UNCHANGED <<project, queue, past>>
      BY <2>5 DEF TakeChange, Turn, Save, Idle
    <3>2. ~Booking' /\ ~Rec' /\ op'.stage # "rollback"
      BY <3>1 DEF Booking, Rec, Bookkeeping, Changes, Edits
    <3> QED
      BY <2>1, <2>2, <2>3, <3>1, <3>2 DEF Filed, Same
  <2>6. CASE TakeSave \/ TakeFlush
    <3>1. PICK v, b : Writing(v, b)
      BY <2>6 DEF TakeSave, TakeFlush
    <3>2. op'.stage = "saving" /\ op'.job = First /\ op'.new = project' /\ First.kind \in Bookkeeping
      BY <2>6, <3>1 DEF TakeSave, TakeFlush, Turn, Writing, Save, Idle, Bookkeeping
    <3>3. Booking' /\ ~Rec' /\ op'.stage # "rollback" /\ past \subseteq past'
      BY <2>6, <3>2 DEF Booking, Saving, Rec, TakeSave, TakeFlush
    <3>4. \A s \in Section : s # "plugins" => project'[s] = project[s]
      BY <1>1, <3>1 DEF Writing, Project
    <3>5. past' \cap {"kept", "unsaved"} = {} => past \cap {"kept", "unsaved"} = {}
      BY <3>3
    <3>6. (NoReload' /\ past' \cap {"kept", "unsaved"} = {}) => Same(disk, project', {}, TRUE)
      BY <2>2, <2>3, <3>4, <3>5 DEF Filed, Same
    <3> QED
      BY <2>1, <3>2, <3>3, <3>6 DEF Filed, Same
  <2> QED
    BY <1>5, <2>4, <2>5, <2>6
<1>6. CASE TakeReload \/ SavedChange
  <2>1. PICK j, n, d : Swap(j, n, d)
    BY <1>6 DEF TakeReload, SavedChange
  <2>2. op'.stage = "reconcile" /\ project' = n /\ past' = past \ {"kept"}
    BY <2>1 DEF Swap, Reconcile, Idle
  <2>3. disk' = project'
    BY <1>6 DEF TakeReload, SavedChange, Swap
  <2>4. ~Booking' /\ Rec' /\ "kept" \notin past'
    BY <2>2 DEF Booking, Saving, Rec
  <2> QED
    BY <2>2, <2>3, <2>4 DEF Filed, Same
<1>7. CASE SavedConfig
  <2>1. Booking /\ disk' \in {op.new, project} /\ UNCHANGED <<project, line, queue>> /\ op'.stage = "idle"
    BY <1>2, <1>7 DEF SavedConfig, Booking, Saving
  <2>2. Same(disk', project, {}, queue # <<>>)
    BY <2>1 DEF Filed, Same
  <2>3. ~Booking' /\ ~Rec'
    BY <2>1 DEF Booking, Saving, Rec
  <2> QED
    BY <2>1, <2>2, <2>3 DEF Filed, Same
<1>8. CASE ChangeFails
  <2>1. ~Booking /\ ~Rec /\ UNCHANGED <<project, disk, line, queue>> /\ past \subseteq past'
    BY <1>8 DEF ChangeFails, Booking, Rec, Bookkeeping, Changes, Edits
  <2>2. ~Booking' /\ ~Rec' /\ op'.stage # "rollback"
    BY <1>2, <1>8 DEF ChangeFails, Booking, Saving, Rec
  <2>3. past' \cap {"kept", "unsaved"} = {} => past \cap {"kept", "unsaved"} = {}
    BY <2>1
  <2> QED
    BY <2>1, <2>2, <2>3 DEF Filed, Same, NoReload
<1>9. CASE ConfigFails
  <2>1. "unsaved" \in past' /\ op'.stage = "idle"
    BY <1>2, <1>9 DEF ConfigFails
  <2> QED
    BY <2>1 DEF Filed, Booking, Saving, Rec
<1>10. ASSUME NEW x \in Steps, Step(x)
       PROVE  Filed'
  <2>1. op'.stage = op.stage /\ op.stage # "saving" /\ UNCHANGED <<project, disk, line, queue, past>>
    BY <1>1, <1>10 DEF Step, Ops
  <2> QED
    BY <2>1 DEF Filed, Booking, Saving, Rec, Same, NoReload
<1>11. CASE StepFails
  <2>1. op'.stage = "rollback" /\ "kept" \in past'
    BY <1>1, <1>11 DEF StepFails, Ops
  <2> QED
    BY <2>1 DEF Filed, Booking, Saving, Rec
<1>12. CASE RollbackFails
  <2>1. op'.stage = "idle" /\ "kept" \in past'
    BY <1>2, <1>12 DEF RollbackFails, Filed
  <2> QED
    BY <2>1 DEF Filed, Booking, Saving, Rec
<1>13. CASE Finish
  <2>1. op'.stage = "idle" /\ UNCHANGED <<project, disk, line, queue>> /\ past' \subseteq past
        /\ (op.stage = "rollback" => past' = past) /\ op.stage \in {"reconcile", "rollback"}
    BY <1>2, <1>13 DEF Finish
  <2>2. ~Booking' /\ ~Rec' /\ op'.stage # "rollback"
    BY <2>1 DEF Booking, Saving, Rec
  <2>3. CASE op.stage = "reconcile"
    BY <2>1, <2>2, <2>3 DEF Filed, Rec, Same, NoReload
  <2>4. CASE op.stage = "rollback"
    BY <2>1, <2>2, <2>4 DEF Filed
  <2> QED
    BY <2>1, <2>3, <2>4
<1>14. CASE Restart
  <2>1. project' = disk' /\ op'.stage = "idle"
    BY <1>2, <1>14 DEF Restart
  <2> QED
    BY <2>1 DEF Filed, Booking, Saving, Rec, Same
<1>15. CASE UNCHANGED vars
  BY <1>15, FiledWaits DEF vars, NoReload
<1> QED
  BY <1>3, <1>4, <1>5, <1>6, <1>7, <1>8, <1>9, <1>10, <1>11, <1>12, <1>13, <1>14, <1>15, FiledAsks
  DEF Next, Work

LEMMA InitFiled == Init => Filed
<1> SUFFICES ASSUME Init PROVE Filed
  OBVIOUS
<1>1. op.stage = "idle" /\ disk = project
  BY IdleTyped DEF Init
<1> QED
  BY <1>1 DEF Filed, Booking, Saving, Rec, Same

(* With nobody at work the file holds the project: what a restart would      *)
(* start is what runs (engine.py: _apply_project_locked, reload_project,     *)
(* persist_bookkeeping_change, _flush_bookkeeping).                          *)
THEOREM FileIsProject == Spec => []DiskKeeps
<1>1. TypeOK /\ Filed => DiskKeeps
  <2> SUFFICES ASSUME TypeOK, Filed, Quiet, past \cap {"kept", "unsaved"} = {}
               PROVE  disk = project
    BY DEF DiskKeeps
  <2>1. NoReload /\ ~Rec /\ ~Booking
    BY DEF Quiet, NoReload, Rec, Booking, Saving
  <2>2. \A s \in Section : disk[s] = project[s]
    BY <2>1 DEF Filed, Same, Quiet
  <2>3. disk \in [Section -> Version] /\ project \in [Section -> Version]
    BY DEF TypeOK, Project
  <2> QED
    BY <2>2, <2>3
<1>2. Init => Filed
  BY InitFiled
<1>3. TypeOK /\ Ledger /\ Filed /\ [Next]_vars => Filed'
  BY NextFiled
<1> QED
  BY <1>1, <1>2, <1>3, ApplyTyped, PTL DEF Spec


-----------------------------------------------------------------------------
(* Follows.                                                                  *)

LEMMA LineGrows ==
  ASSUME line \in Seq(Jobs), Unchecked, NEW j \in Jobs, line' = Append(line, j),
         j.kind = "setup" => j.token = NoToken
  PROVE  /\ Unchecked'
         /\ SaveWaits => SaveWaits'
         /\ j.kind = "save" => SaveWaits'
         /\ j.kind # "setup" => \A v : SetupWaits(v) => SetupWaits(v)'
         /\ \A v : j.kind = "setup" /\ j.new["devices"] = v => SetupWaits(v)'
<1>1. \A i \in DOMAIN line : i \in DOMAIN line' /\ line'[i] = line[i]
  OBVIOUS
<1>2. /\ Len(line) + 1 \in DOMAIN line' /\ line'[Len(line) + 1] = j
      /\ \A i \in DOMAIN line' : i \in DOMAIN line \/ i = Len(line) + 1
      /\ \A i \in DOMAIN line' : ~(i > Len(line) + 1)
  BY Appended
<1>3. Unchecked'
  BY <1>1, <1>2 DEF Unchecked
<1>4. SaveWaits => SaveWaits'
  BY <1>1 DEF SaveWaits
<1>5. j.kind = "save" => SaveWaits'
  BY <1>2 DEF SaveWaits
<1>6. ASSUME j.kind # "setup", NEW v, SetupWaits(v)
      PROVE  SetupWaits(v)'
  <2>1. PICK i \in DOMAIN line : LastSetup(i) /\ line[i].new["devices"] = v
    BY <1>6 DEF SetupWaits
  <2>2. LastSetup(i)'
    BY <1>1, <1>2, <1>6, <2>1 DEF LastSetup
  <2> QED
    BY <1>1, <2>1, <2>2 DEF SetupWaits
<1>7. \A v : j.kind = "setup" /\ j.new["devices"] = v => SetupWaits(v)'
  BY <1>2 DEF SetupWaits, LastSetup
<1> QED
  BY <1>3, <1>4, <1>5, <1>6, <1>7

LEMMA LineShrinks ==
  ASSUME line \in Seq(Jobs), line # <<>>, Unchecked, line' = Tail(line)
  PROVE  /\ Unchecked'
         /\ First.kind = "setup" => First.token = NoToken
         /\ First.kind # "save" /\ SaveWaits => SaveWaits'
         /\ \A v : SetupWaits(v) => \/ SetupWaits(v)'
                                    \/ First.kind = "setup" /\ First.new["devices"] = v
<1>1. /\ First = line[1] /\ 1 \in DOMAIN line
      /\ DOMAIN line \subseteq Int /\ DOMAIN line' \subseteq Int
  BY Dropped
<1>2. /\ \A i \in DOMAIN line' : i + 1 \in DOMAIN line /\ line'[i] = line[i + 1]
      /\ \A i \in DOMAIN line : i = 1 \/ (i - 1 \in DOMAIN line' /\ line[i] = line'[i - 1])
  OBVIOUS
<1>3. Unchecked'
  BY <1>2 DEF Unchecked
<1>4. First.kind = "setup" => First.token = NoToken
  BY <1>1 DEF Unchecked
<1>5. First.kind # "save" /\ SaveWaits => SaveWaits'
  BY <1>1, <1>2 DEF SaveWaits
<1>6. ASSUME NEW v, SetupWaits(v)
      PROVE  SetupWaits(v)' \/ (First.kind = "setup" /\ First.new["devices"] = v)
  <2>1. PICK i \in DOMAIN line : LastSetup(i) /\ line[i].new["devices"] = v
    BY <1>6 DEF SetupWaits
  <2>2. CASE i = 1
    BY <1>1, <2>1, <2>2 DEF LastSetup
  <2>3. CASE i # 1
    <3>1. i - 1 \in DOMAIN line' /\ line'[i - 1] = line[i] /\ i \in Int
      BY <1>1, <1>2, <2>3
    <3>2. \A k \in DOMAIN line' : k > i - 1 => line'[k].kind # "setup"
      <4> SUFFICES ASSUME NEW k \in DOMAIN line', k > i - 1
                   PROVE  line'[k].kind # "setup"
        OBVIOUS
      <4>1. k + 1 \in DOMAIN line /\ line'[k] = line[k + 1] /\ k \in Int
        BY <1>1, <1>2
      <4>2. k + 1 > i
        BY <3>1, <4>1
      <4> QED
        BY <2>1, <4>1, <4>2 DEF LastSetup
    <3>3. LastSetup(i - 1)'
      BY <2>1, <3>1, <3>2 DEF LastSetup
    <3> QED
      BY <2>1, <3>1, <3>3 DEF SetupWaits
  <2> QED
    BY <2>2, <2>3
<1> QED
  BY <1>3, <1>4, <1>5, <1>6

LEMMA WaitsAgain ==
  ASSUME runs'.devices = runs.devices, \A v : SetupWaits(v) => SetupWaits(v)'
  PROVE  SetupWaits(runs.devices) => SetupWaits(runs.devices)'
<1> SUFFICES ASSUME NEW v, v = runs.devices, v = runs'.devices, SetupWaits(v)'
             PROVE  SetupWaits(runs.devices)'
  OBVIOUS
<1>1. PICK i \in DOMAIN line' : LastSetup(i)' /\ line'[i].new["devices"] = v
  BY DEF SetupWaits
<1> QED
  BY <1>1 DEF SetupWaits

(* Nothing but the line changes.                                             *)
LEMMA FollowsWaits ==
  ASSUME Follows, UNCHANGED <<project, runs, op, queue, past>>,
         Unchecked', SaveWaits => SaveWaits', \A v : SetupWaits(v) => SetupWaits(v)'
  PROVE  Follows'
<1>1. SetupWaits(runs.devices) => SetupWaits(runs.devices)'
  BY WaitsAgain
<1> QED
  BY <1>1 DEF Follows, Sure, Clean, Pending, InHand, Rec, Saving, Same

LEMMA FollowsAsk ==
  ASSUME TypeOK, Follows, NEW j \in Jobs, Ask(j), runs' = runs,
         j.kind # "setup"
  PROVE  Follows'
<1>1. line \in Seq(Jobs) /\ Unchecked /\ line' = Append(line, j)
  BY DEF TypeOK, Follows, Ask
<1>2. /\ Unchecked'
      /\ SaveWaits => SaveWaits'
      /\ \A v : SetupWaits(v) => SetupWaits(v)'
  BY <1>1, LineGrows
<1> QED
  BY <1>2, FollowsWaits DEF Ask


LEMMA FollowsAsks ==
  ASSUME TypeOK, Follows, NEW c \in Client, Asks(c)
  PROVE  Follows'
<1>1. line \in Seq(Jobs) /\ project \in Project /\ runs \in Follower
  BY DEF TypeOK
<1>2. Made => Fresh \in Version
  BY MadeTyped
<1>3. CASE Get(c)
  BY <1>3, FollowsWaits DEF Get, Unchecked, SaveWaits, SetupWaits, LastSetup, Follows
<1>4. ASSUME NEW s \in Section, Put(c, s)
      PROVE  Follows'
  <2> DEFINE j == Job("put", c, {s}, [client[c].copy EXCEPT ![s] = Fresh], client[c].token, Nothing)
  <2>1. Ask(j) /\ runs' = runs
    BY <1>4 DEF Put
  <2>2. j \in Jobs /\ j.kind # "setup"
    BY <1>2, <2>1, JobTyped DEF Ask, Job
  <2> HIDE DEF j
  <2> QED
    BY <2>1, <2>2, FollowsAsk
<1>5. ASSUME NEW s \in Section, Edit(c, s)
      PROVE  Follows'
  <2> DEFINE j == Job("edit", c, {s}, Whole(Fresh), NoToken, Nothing)
  <2>1. Ask(j) /\ runs' = runs
    BY <1>5 DEF Edit
  <2>2. j \in Jobs /\ j.kind # "setup"
    BY <1>2, <2>1, JobTyped DEF Ask, Job
  <2> HIDE DEF j
  <2> QED
    BY <2>1, <2>2, FollowsAsk
<1>6. CASE Load(c)
  <2>1. PICK t \in {NoToken, client[c].token} : Ask(Job("load", c, Section, Whole(Fresh), t, Nothing))
    BY <1>6 DEF Load
  <2> DEFINE j == Job("load", c, Section, Whole(Fresh), t, Nothing)
  <2>2. Ask(j) /\ runs' = runs
    BY <1>6, <2>1 DEF Load
  <2>3. j \in Jobs /\ j.kind # "setup"
    BY <1>2, <2>2, JobTyped DEF Ask, Job
  <2> HIDE DEF j
  <2> QED
    BY <2>2, <2>3, FollowsAsk
<1>7. CASE Reload(c) \/ Restore(c)
  <2> DEFINE j == Job("reload", c, Section, Whole(0), NoToken, Nothing)
  <2>1. Ask(j) /\ runs' = runs
    BY <1>7 DEF Reload, Restore
  <2>2. j \in Jobs /\ j.kind # "setup"
    BY <1>2, <2>1, JobTyped DEF Ask, Job
  <2> HIDE DEF j
  <2> QED
    BY <2>1, <2>2, FollowsAsk
<1>8. CASE Setup(c)
  <2> DEFINE j == Job("setup", c, {"devices"}, [project EXCEPT !["devices"] = Fresh], NoToken, Nothing)
  <2>1. /\ Ask(j) /\ runs' = [runs EXCEPT !.devices = Fresh]
        /\ UNCHANGED <<project, op, queue, past>>
    BY <1>8 DEF Setup, Ask
  <2>2. j \in Jobs /\ j.kind = "setup" /\ j.token = NoToken /\ j.new["devices"] = Fresh
    BY <1>1, <1>2, <2>1, JobTyped DEF Ask, Job, Project, Section
  <2> HIDE DEF j
  <2>3. /\ Unchecked'
        /\ SaveWaits => SaveWaits'
        /\ \A v : j.new["devices"] = v => SetupWaits(v)'
    BY <1>1, <2>1, <2>2, LineGrows DEF Follows, Ask
  <2>4. /\ runs'.devices = j.new["devices"]
        /\ runs'.macros = runs.macros /\ runs'.plugins = runs.plugins /\ runs'.triggers = runs.triggers
    BY <1>1, <2>1, <2>2 DEF Follower
  <2>5. SetupWaits(runs.devices)'
    <3>1. PICK v : v = runs'.devices /\ SetupWaits(v)'
      BY <2>3, <2>4
    <3>2. PICK i \in DOMAIN line' : LastSetup(i)' /\ line'[i].new["devices"] = v
      BY <3>1 DEF SetupWaits
    <3> QED
      BY <3>1, <3>2 DEF SetupWaits
  <2> QED
    BY <2>1, <2>3, <2>4, <2>5 DEF Follows, Sure, Clean, Pending, InHand, Rec, Same
<1> QED
  BY <1>3, <1>4, <1>5, <1>6, <1>7, <1>8 DEF Asks

(* The plugin runs with what it saves, now or once the lock is free.         *)
LEMMA FollowsConfig ==
  ASSUME TypeOK, Follows, SaveConfigLater \/ SaveConfigNow \/ JoinFlush
  PROVE  Follows'
<1>1. line \in Seq(Jobs) /\ project \in Project /\ runs \in Follower /\ queue \in Seq(Version)
  BY DEF TypeOK
<1>2. CASE SaveConfigLater
  <2>1. queue' # <<>> /\ UNCHANGED <<op, line, past>>
    BY <1>1, <1>2 DEF SaveConfigLater
  <2>2. \A s \in Section : s # "plugins" => project'[s] = project[s]
    BY <1>1, <1>2 DEF SaveConfigLater, Project
  <2>3. project'["macros"] = project["macros"] /\ project'["devices"] = project["devices"]
    BY <2>2 DEF Section
  <2>4. /\ runs'.devices = runs.devices
        /\ runs'.macros = runs.macros /\ runs'.triggers = runs.triggers
    BY <1>1, <1>2 DEF SaveConfigLater, Follower
  <2>5. SetupWaits(runs.devices) => SetupWaits(runs.devices)'
    BY <2>1, <2>4 DEF SetupWaits, LastSetup
  <2> QED
    BY <2>1, <2>2, <2>3, <2>4, <2>5
    DEF Follows, Sure, Clean, Pending, InHand, Rec, Saving, Same, SaveWaits, Unchecked
<1>3. CASE SaveConfigNow
  <2>1. PICK by \in Plugin :
          Ask(Job("save", by, {"plugins"}, Whole(Fresh), NoToken, <<project["plugins"], runs.plugins>>))
    BY <1>3 DEF SaveConfigNow, Plugin
  <2> DEFINE j == Job("save", by, {"plugins"}, Whole(Fresh), NoToken, <<project["plugins"], runs.plugins>>)
  <2>2. Whole(Fresh) \in Project
    BY <2>1, MadeTyped, WholeTyped DEF Ask
  <2>3. project["plugins"] \in Version /\ runs.plugins \in Version
    BY <1>1 DEF Project, Section, Follower
  <2>4. j \in Jobs /\ j.kind = "save"
    BY <2>2, <2>3 DEF Job, Jobs, Bookkeeping, Section
  <2>5. Ask(j)
    BY <2>1
  <2> HIDE DEF j
  <2>6. /\ Unchecked'
        /\ SaveWaits'
        /\ \A v : SetupWaits(v) => SetupWaits(v)'
    BY <1>1, <2>4, <2>5, LineGrows DEF Follows, Ask
  <2>7. /\ runs'.devices = runs.devices
        /\ runs'.macros = runs.macros /\ runs'.triggers = runs.triggers
    BY <1>1, <1>3 DEF SaveConfigNow, Follower
  <2>8. SetupWaits(runs.devices) => SetupWaits(runs.devices)'
    BY <2>6, <2>7, WaitsAgain
  <2> QED
    BY <2>5, <2>6, <2>7, <2>8
    DEF Follows, Sure, Clean, Pending, InHand, Rec, Saving, Same, Ask
<1>4. CASE JoinFlush
  <2>1. Flush.kind = "flush" /\ line' = Append(line, Flush)
    BY <1>4 DEF JoinFlush, Flush, Job
  <2>2. /\ Unchecked'
        /\ SaveWaits => SaveWaits'
        /\ \A v : SetupWaits(v) => SetupWaits(v)'
    BY <1>1, <2>1, FlushTyped, LineGrows DEF Follows
  <2> QED
    BY <1>4, <2>2, FollowsWaits DEF JoinFlush
<1> QED
  BY <1>2, <1>3, <1>4

(* The next in line takes the lock, or is refused: a setup never is.         *)
LEMMA FollowsTurn ==
  ASSUME TypeOK, Follows, Refuse \/ TakeChange \/ TakeSave \/ TakeFlush
  PROVE  Follows'
<1>1. line \in Seq(Jobs) /\ project \in Project /\ runs \in Follower /\ Unchecked
  BY DEF TypeOK, Follows
<1>2. line # <<>> /\ line' = Tail(line) /\ op.stage = "idle" /\ runs' = runs
  BY DEF Refuse, TakeChange, TakeSave, TakeFlush, Turn, Writing
<1>3. /\ Unchecked'
      /\ First.kind = "setup" => First.token = NoToken
      /\ First.kind # "save" /\ SaveWaits => SaveWaits'
      /\ \A v : SetupWaits(v) => \/ SetupWaits(v)'
                                 \/ First.kind = "setup" /\ First.new["devices"] = v
  BY <1>1, <1>2, LineShrinks
<1>4. First.kind # "setup" => (SetupWaits(runs.devices) => SetupWaits(runs.devices)')
  <2>1. First.kind # "setup" => \A v : SetupWaits(v) => SetupWaits(v)'
    BY <1>3
  <2> QED
    BY <1>2, <2>1, WaitsAgain
<1>5. ~Rec /\ ~InHand /\ ~Saving
  BY <1>2 DEF Rec, InHand, Saving
<1>6. CASE Refuse
  <2>1. First.kind # "setup" /\ First.kind # "save" /\ UNCHANGED <<project, op, queue, past>>
    BY <1>3, <1>6 DEF Refuse, Turn, Current, Changes, Edits
  <2> QED
    BY <1>2, <1>3, <1>4, <2>1 DEF Follows, Sure, Clean, Pending, InHand, Rec, Saving, Same
<1>7. CASE TakeChange
  <2>1. /\ op'.stage = "saving" /\ op'.job = First
        /\ First.kind = "setup" => op'.new = First.new
        /\ UNCHANGED <<project, queue, past>> /\ First.kind # "save"
    BY <1>7 DEF TakeChange, Turn, Save, Idle, Changes, Edits
  <2>2. ~Rec' /\ ~InHand' /\ Saving'
    BY <2>1 DEF Rec, InHand, Saving
  <2>3. SetupWaits(runs.devices) => \/ SetupWaits(runs.devices)'
                                    \/ op'.job.kind = "setup" /\ op'.new["devices"] = runs.devices
    <3>1. CASE First.kind = "setup" /\ First.new["devices"] = runs.devices
      BY <2>1, <3>1
    <3>2. CASE ~(First.kind = "setup" /\ First.new["devices"] = runs.devices)
      <4> SUFFICES ASSUME NEW v, v = runs.devices, v = runs'.devices, SetupWaits(v)
                   PROVE  SetupWaits(runs.devices)'
        BY <1>2, <3>2
      <4>1. SetupWaits(v)'
        BY <1>3, <3>2
      <4> QED
        BY <4>1 DEF SetupWaits
    <3> QED
      BY <3>1, <3>2
  <2> QED
    BY <1>2, <1>3, <1>5, <2>1, <2>2, <2>3 DEF Follows, Sure, Clean, Pending
<1>8. CASE TakeSave \/ TakeFlush
  <2>1. PICK v, b : Writing(v, b)
    BY <1>8 DEF TakeSave, TakeFlush
  <2>2. op'.stage = "saving" /\ First.kind \in {"save", "flush"}
    BY <1>8, <2>1 DEF TakeSave, TakeFlush, Turn, Writing, Save, Idle
  <2>3. ~Rec' /\ ~InHand'
    BY <2>2 DEF Rec, InHand
  <2>4. \A s \in Section : s # "plugins" => project'[s] = project[s]
    BY <1>1, <2>1 DEF Writing, Project
  <2>5. project'["macros"] = project["macros"] /\ project'["devices"] = project["devices"]
    BY <2>4 DEF Section
  <2>6. Clean' => Clean /\ project'["plugins"] = runs.plugins
    <3>1. CASE TakeSave
      <4>1. project'["plugins"] = First.new["plugins"]
        BY <1>1, <3>1 DEF TakeSave, Writing, Project, Section
      <4> QED
        BY <3>1, <4>1 DEF TakeSave, Clean
    <3>2. CASE TakeFlush
      <4>1. project'["plugins"] = runs.plugins /\ past' = past
        BY <1>1, <3>2 DEF TakeFlush, Writing, Project, Section
      <4> QED
        BY <4>1 DEF Clean
    <3> QED
      BY <1>8, <3>1, <3>2
  <2>7. SetupWaits(runs.devices) => SetupWaits(runs.devices)'
    BY <1>4, <2>2
  <2> QED
    BY <1>2, <1>3, <1>5, <2>3, <2>5, <2>6, <2>7 DEF Follows, Sure, Pending
<1> QED
  BY <1>6, <1>7, <1>8


(* A section that differs is in what the reconcile has to do.                *)
LEMMA FollowsSwap ==
  ASSUME TypeOK, Follows, TakeReload \/ SavedChange
  PROVE  Follows'
<1>1. /\ line \in Seq(Jobs) /\ project \in Project /\ op \in Ops /\ disk \in Project
      /\ op.new \in Project /\ Unchecked
  BY DEF TypeOK, Follows, Ops
<1>2. PICK j, n, d : /\ Swap(j, n, d)
                     /\ n \in Project
                     /\ d \subseteq Section
                     /\ \A s \in Section \ d : n[s] = project[s]
                     /\ TakeReload => d = Section
                     /\ SavedChange => n = op.new
  <2>1. CASE TakeReload
    <3>1. op.stage = "idle" /\ Swap(First, disk, Section)
      BY <2>1 DEF TakeReload, Turn
    <3>2. ~SavedChange
      BY <3>1 DEF SavedChange
    <3> QED
      BY <1>1, <3>1, <3>2
  <2>2. CASE SavedChange
    <3> DEFINE d == IF op.job.kind = "load" THEN Section ELSE Dirty(op.new)
    <3>1. op.stage = "saving" /\ Swap(op.job, op.new, d)
      BY <2>2 DEF SavedChange
    <3>2. ~TakeReload
      BY <3>1 DEF TakeReload, Turn
    <3>3. d \subseteq Section /\ \A s \in Section \ d : op.new[s] = project[s]
      BY DEF Dirty
    <3> HIDE DEF d
    <3> QED
      BY <1>1, <3>1, <3>2, <3>3
  <2> QED
    BY <2>1, <2>2
<1>3. /\ project' = n /\ past' = past \ {"kept"}
      /\ op'.stage = "reconcile" /\ op'.dirty = d /\ op'.prev = project /\ op'.todo = Todo(d)
      /\ runs' = runs /\ queue' = queue
  BY <1>2 DEF Swap, Reconcile, Idle, TakeReload, SavedChange
<1>4. Rec' /\ InHand' /\ (Clean' => Clean) /\ ~InHand /\ ~Rec
  BY <1>3 DEF Rec, InHand, Clean, TakeReload, Turn, SavedChange
<1>5. /\ \A s \in {"macros", "plugins", "devices"} : s \in d => Pending(s)'
      /\ d \cap Running # {} => Pending("start")'
      /\ d \cap Running = {} => "macros" \notin d
      /\ "stop" \in op'.todo => "start" \in op'.todo
  BY <1>3, <1>4 DEF Pending, Todo, Rebuild, Running, Section
<1>6. \A s \in {"macros", "plugins", "devices"} : s \notin d => project'[s] = project[s]
  BY <1>2, <1>3 DEF Section
<1>7. CASE TakeReload
  <2>1. d = Section /\ line # <<>> /\ line' = Tail(line)
    BY <1>2, <1>7 DEF TakeReload, Turn
  <2>2. Unchecked'
    BY <1>1, <2>1, LineShrinks
  <2>3. {"macros", "plugins", "devices"} \subseteq d /\ d \cap Running # {}
    BY <2>1 DEF Section, Running
  <2> QED
    BY <1>3, <1>4, <1>5, <2>1, <2>2, <2>3 DEF Follows, Same
<1>8. CASE SavedChange
  <2>1. line' = line /\ n = op.new
    BY <1>2, <1>8 DEF SavedChange
  <2>2. Unchecked' /\ (SaveWaits => SaveWaits') /\ (SetupWaits(runs.devices) => SetupWaits(runs.devices)')
    BY <1>1, <1>3, <2>1 DEF Unchecked, SaveWaits, SetupWaits, LastSetup
  <2>3. \A s \in {"macros", "plugins", "devices"} : Sure(s)' => Clean \/ s \in d
    BY <1>3, <1>4 DEF Sure
  <2>4. Sure("macros")' => Pending("macros")' \/ runs'.macros = project'["macros"]
    BY <1>3, <1>4, <1>5, <1>6, <2>3 DEF Follows, Sure, Pending
  <2>5. (Clean' \/ (Rec' /\ op'.dirty \cap Running # {}))
          => Pending("start")' \/ runs'.triggers = {project'["macros"]}
    BY <1>3, <1>4, <1>5, <1>6 DEF Follows, Pending
  <2>6. Sure("plugins")' => \/ Pending("plugins")'
                            \/ runs'.plugins = project'["plugins"]
                            \/ queue' # <<>>
                            \/ SaveWaits'
    BY <1>3, <1>4, <1>5, <1>6, <2>2, <2>3 DEF Follows, Sure, Pending
  <2>7. Sure("devices")' => \/ Pending("devices")'
                            \/ runs'.devices = project'["devices"]
                            \/ SetupWaits(runs.devices)'
    BY <1>3, <1>4, <1>5, <1>6, <2>1, <2>2, <2>3 DEF Follows, Sure, Pending
  <2>8. Same(op.prev, project, op.dirty, queue # <<>>)'
    BY <1>2, <1>3 DEF Same
  <2> QED
    BY <1>3, <1>5, <2>2, <2>4, <2>5, <2>6, <2>7, <2>8 DEF Follows
<1> QED
  BY <1>7, <1>8

(* Whoever had the lock lets go of it.                                       *)
LEMMA FollowsEnds ==
  ASSUME TypeOK, Follows, SavedConfig \/ ChangeFails \/ ConfigFails \/ RollbackFails \/ Finish
  PROVE  Follows'
<1>1. /\ op'.stage = "idle" /\ line' = line /\ queue' = queue /\ op.stage # "idle"
  BY IdleTyped DEF SavedConfig, ChangeFails, ConfigFails, RollbackFails, Finish
<1>2. ~Rec' /\ ~InHand' /\ Unchecked'
  BY <1>1 DEF Rec, InHand, Unchecked, Follows
<1>3. CASE ~Clean'
  BY <1>2, <1>3 DEF Follows, Sure
<1>4. CASE Clean' /\ (SavedConfig \/ ChangeFails)
  <2>1. /\ Clean /\ UNCHANGED <<project, runs>> /\ ~Rec /\ ~InHand
        /\ op.job.kind # "setup"
    BY <1>4 DEF SavedConfig, ChangeFails, Clean, Rec, InHand, Bookkeeping
  <2>2. (SaveWaits => SaveWaits') /\ (SetupWaits(runs.devices) => SetupWaits(runs.devices)')
    BY <1>1, <2>1 DEF SaveWaits, SetupWaits, LastSetup
  <2> QED
    BY <1>1, <1>2, <2>1, <2>2 DEF Follows, Sure, Pending
<1>5. CASE Clean' /\ Finish
  <2>1. UNCHANGED <<project, runs>> /\ op.todo = {} /\ ~Saving /\ op.stage \in {"reconcile", "rollback"}
    BY <1>5 DEF Finish, Saving
  <2>2. Clean \/ (Rec /\ op.dirty = Section)
    BY <1>5 DEF Finish, Clean, Rec
  <2>3. \A s \in {"macros", "plugins", "devices"} : Sure(s)
    BY <2>2 DEF Sure, Section
  <2>4. Clean \/ (Rec /\ op.dirty \cap Running # {})
    BY <2>2 DEF Section, Running
  <2>5. \A x : ~Pending(x)
    BY <2>1 DEF Pending
  <2>6. (SaveWaits => SaveWaits') /\ (SetupWaits(runs.devices) => SetupWaits(runs.devices)')
    BY <1>1, <2>1 DEF SaveWaits, SetupWaits, LastSetup
  <2> QED
    BY <1>1, <1>2, <2>1, <2>3, <2>4, <2>5, <2>6 DEF Follows
<1>6. ConfigFails \/ RollbackFails => ~Clean'
  BY DEF ConfigFails, RollbackFails, Clean
<1> QED
  BY <1>3, <1>4, <1>5, <1>6

(* Each step brings its section, the last one the triggers.                  *)
LEMMA FollowsStep ==
  ASSUME TypeOK, Follows, NEW x \in Steps, Step(x)
  PROVE  Follows'
<1>1. op \in Ops /\ runs \in Follower
  BY DEF TypeOK
<1>2. /\ UNCHANGED <<project, line, queue, past>>
      /\ op'.stage = op.stage /\ op'.job = op.job /\ op'.new = op.new /\ op'.prev = op.prev
      /\ op'.dirty = op.dirty /\ op'.todo = op.todo \ {x} /\ x \in op.todo
  BY <1>1 DEF Step, Ops, Due
<1>3. /\ runs'.devices = IF x = "devices" THEN project["devices"] ELSE runs.devices
      /\ runs'.plugins = IF x = "plugins" THEN project["plugins"] ELSE runs.plugins
      /\ runs'.macros = IF x = "macros" THEN project["macros"] ELSE runs.macros
      /\ runs'.triggers = IF x = "stop" THEN {} ELSE
                          IF x = "start" THEN {project["macros"]} ELSE runs.triggers
  BY <1>1 DEF Step, Effect, Follower
<1>4. /\ Clean' = Clean /\ Rec' = Rec /\ InHand' = InHand /\ InHand /\ ~Saving
      /\ \A s : Sure(s)' <=> Sure(s)
      /\ \A y : Pending(y) /\ y # x => Pending(y)'
  BY <1>2 DEF Clean, Rec, InHand, Sure, Pending, Step, Saving
<1>5. x # "devices" => (SetupWaits(runs.devices) => SetupWaits(runs.devices)')
  BY <1>2, <1>3 DEF SetupWaits, LastSetup
<1>6. Unchecked' /\ (SaveWaits => SaveWaits')
  BY <1>2 DEF Unchecked, SaveWaits, Follows
<1>7. Sure("macros")' => Pending("macros")' \/ runs'.macros = project'["macros"]
  BY <1>2, <1>3, <1>4 DEF Follows
<1>8. (Clean' \/ (Rec' /\ op'.dirty \cap Running # {}))
        => Pending("start")' \/ runs'.triggers = {project'["macros"]}
  <2>1. x = "stop" => Pending("start")'
    BY <1>2, <1>4 DEF Follows, Pending
  <2> QED
    BY <1>2, <1>3, <1>4, <2>1 DEF Follows
<1>9. Sure("plugins")' => \/ Pending("plugins")'
                          \/ runs'.plugins = project'["plugins"]
                          \/ queue' # <<>>
                          \/ SaveWaits'
  BY <1>2, <1>3, <1>4, <1>6 DEF Follows
<1>10. Sure("devices")' => \/ Pending("devices")'
                           \/ runs'.devices = project'["devices"]
                           \/ SetupWaits(runs.devices)'
  BY <1>2, <1>3, <1>4, <1>5 DEF Follows
<1>11. Rec' => Same(op.prev, project, op.dirty, queue # <<>>)'
  BY <1>2, <1>4 DEF Follows, Same
<1>12. /\ op'.todo \subseteq Todo(op'.dirty)
       /\ "stop" \in op'.todo => "start" \in op'.todo
  <2>1. /\ op.todo \subseteq Todo(op.dirty)
        /\ "stop" \in op.todo => "start" \in op.todo
    BY <1>4 DEF Follows
  <2>2. x = "start" => "stop" \notin op.todo
    BY DEF Step, Due, Rank
  <2> QED
    BY <1>2, <2>1, <2>2
<1> QED
  BY <1>6, <1>7, <1>8, <1>9, <1>10, <1>11, <1>12 DEF Follows

(* The rollback goes back over the same sections.                            *)
LEMMA FollowsFails ==
  ASSUME TypeOK, Follows, StepFails
  PROVE  Follows'
<1>1. op \in Ops /\ project \in Project /\ op.prev \in Project
  BY DEF TypeOK, Ops
<1>2. /\ project' = op.prev /\ past' = past \cup {"kept"} /\ UNCHANGED <<runs, line, queue>>
      /\ op'.stage = "rollback" /\ op'.dirty = op.dirty /\ op'.todo = Undone(op.dirty)
      /\ op.stage = "reconcile" /\ op.todo # {}
  BY <1>1 DEF StepFails, Ops
<1>3. ~Rec' /\ InHand' /\ (Clean' <=> Clean) /\ Rec /\ InHand /\ ~Saving
  BY <1>2 DEF Rec, InHand, Clean, Saving
<1>4. op.todo \subseteq Todo(op.dirty) /\ Same(op.prev, project, op.dirty, queue # <<>>)
  BY <1>3 DEF Follows
<1>5. op.dirty \cap Running # {}
  BY <1>2, <1>4 DEF Todo, Rebuild
<1>6. Pending("start")'
  BY <1>2, <1>3, <1>5 DEF Pending, Undone, Todo, Rebuild
<1>7. /\ \A s \in {"macros", "plugins", "devices"} : s \in op.dirty => Pending(s)'
      /\ \A s \in {"macros", "plugins", "devices"} : s \notin op.dirty => ~Pending(s)
  BY <1>2, <1>3, <1>4 DEF Pending, Undone, Todo, Rebuild, Running, Section
<1>8. /\ "macros" \notin op.dirty => project'["macros"] = project["macros"]
      /\ "devices" \notin op.dirty => project'["devices"] = project["devices"]
      /\ "plugins" \notin op.dirty => project'["plugins"] = project["plugins"] \/ queue # <<>>
  BY <1>2, <1>4 DEF Same, Section
<1>9. Unchecked' /\ (SaveWaits => SaveWaits') /\ (SetupWaits(runs.devices) => SetupWaits(runs.devices)')
  BY <1>2 DEF Unchecked, SaveWaits, SetupWaits, LastSetup, Follows
<1>10. \A s : Sure(s)' => Sure(s)
  BY <1>3 DEF Sure
<1>11. op'.todo \subseteq Todo(op'.dirty) /\ "stop" \notin op'.todo
  BY <1>2 DEF Undone
<1>12. Sure("macros")' => Pending("macros")' \/ runs'.macros = project'["macros"]
  BY <1>2, <1>7, <1>8, <1>10 DEF Follows
<1>13. Sure("plugins")' => \/ Pending("plugins")'
                           \/ runs'.plugins = project'["plugins"]
                           \/ queue' # <<>>
                           \/ SaveWaits'
  BY <1>2, <1>7, <1>8, <1>9, <1>10 DEF Follows
<1>14. Sure("devices")' => \/ Pending("devices")'
                           \/ runs'.devices = project'["devices"]
                           \/ SetupWaits(runs.devices)'
  BY <1>2, <1>3, <1>7, <1>8, <1>9, <1>10 DEF Follows
<1> QED
  BY <1>3, <1>6, <1>9, <1>11, <1>12, <1>13, <1>14 DEF Follows

LEMMA StartFollows ==
  /\ Init => Follows
  /\ TypeOK /\ Restart => Follows'
<1>1. ASSUME Init
      PROVE  Follows
  <2>1. op.stage = "idle" /\ line = <<>> /\ runs = RunsAll(project)
    BY <1>1, IdleTyped DEF Init
  <2> QED
    BY <2>1 DEF Follows, RunsAll, Rec, InHand, Unchecked
<1>2. ASSUME Restart
      PROVE  Follows'
  <2>1. op'.stage = "idle" /\ line' = <<>> /\ runs' = RunsAll(project)'
    BY <1>2, IdleTyped DEF Restart, RunsAll
  <2> QED
    BY <2>1 DEF Follows, RunsAll, Rec, InHand, Unchecked
<1> QED
  BY <1>1, <1>2

LEMMA NextFollows ==
  ASSUME TypeOK, Follows, [Next]_vars
  PROVE  Follows'
<1>1. CASE UNCHANGED vars
  BY <1>1, FollowsWaits DEF vars, Unchecked, SaveWaits, SetupWaits, LastSetup, Follows
<1> QED
  BY <1>1, FollowsAsks, FollowsConfig, FollowsTurn, FollowsSwap, FollowsEnds, FollowsStep, FollowsFails,
     StartFollows DEF Next, Work

(* With nobody at work the project is what runs, after an apply, a rollback, *)
(* a reload or a restart (engine.py: _reconcile, _rollback_reconcile).       *)
THEOREM ProjectIsWhatRuns == Spec => []RuntimeFollows
<1>1. TypeOK /\ Follows => RuntimeFollows
  <2> SUFFICES ASSUME TypeOK, Follows, Quiet, Clean
               PROVE  runs = RunsAll(project)
    BY DEF RuntimeFollows, Clean
  <2>1. op.stage = "idle" /\ line = <<>> /\ queue = <<>>
    BY DEF Quiet
  <2>2. ~Saving /\ ~SaveWaits /\ (\A x : ~Pending(x)) /\ ~SetupWaits(runs.devices)
    BY <2>1 DEF Saving, SaveWaits, Pending, InHand, SetupWaits
  <2>3. Sure("macros") /\ Sure("plugins") /\ Sure("devices")
    BY DEF Sure
  <2>4. /\ runs.macros = project["macros"] /\ runs.plugins = project["plugins"]
        /\ runs.devices = project["devices"] /\ runs.triggers = {project["macros"]}
    BY <2>1, <2>2, <2>3 DEF Follows
  <2>5. runs \in Follower
    BY DEF TypeOK
  <2> QED
    BY <2>4, <2>5 DEF RunsAll, Follower
<1>2. Init => Follows
  BY StartFollows
<1>3. TypeOK /\ Follows /\ [Next]_vars => Follows'
  BY NextFollows
<1> QED
  BY <1>1, <1>2, <1>3, ApplyTyped, PTL DEF Spec
=============================================================================
