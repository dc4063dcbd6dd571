------------------------------- MODULE Backup -------------------------------
(***************************************************************************)
(* `wishbone backup': a second container copies the database and the image *)
(* tree of the running server to dated files on another volume.  Beside    *)
(* its loop a person may exec `wishbone backup -once' in the same pod.     *)
(* Either may be killed between any two steps.                             *)
(*                                                                         *)
(* Of the database only the picture rows are kept.  A picture is uploaded  *)
(* and removed once, by one request; ImageBlobs has the races of several.  *)
(* Time is counted in ticks of one retry delay or less.                    *)
(***************************************************************************)
EXTENDS Integers, FiniteSets, FiniteSetsExt

CONSTANTS
    Pictures,
    Keep,           \* -keep: daily backups of each kind to retain
    Interval,       \* -interval
    FiveMinutes,
    DayLength,
    RunTime,        \* bound: how long a run takes
    MaxTime,        \* bound on the clock
    MaxFaults,      \* bound on kills and failing writes
    MaxOnce,        \* bound on runs of -once
    Overlap         \* may -once run while the loop is in a run, and vice versa?

ASSUME BackupAssumption ==
    /\ Keep \in Nat /\ RunTime \in Nat
    /\ MaxTime \in Nat /\ MaxFaults \in Nat /\ MaxOnce \in Nat
    /\ Interval \in Nat \ {0} /\ FiveMinutes \in Nat \ {0} /\ DayLength \in Nat \ {0}
    /\ Overlap \in BOOLEAN
    /\ "none" \notin Pictures

Processes  == {"loop", "once"}
Kinds      == {"db", "images"}
Times      == 0..MaxTime
RetryDelay == IF Interval < FiveMinutes THEN Interval ELSE FiveMinutes
Date(t)    == t \div DayLength
Dates      == {Date(t) : t \in Times}

VARIABLES
    server,     \* "off" before its first start, then "db", then "up" for good
    picture,    \* picture[p]: "new", "file", "row" (file and row), "orphan" (file) or "gone"
    commits,    \* transactions committed so far
    now,
    temp,       \* temp[k][d]: the .tmp beside the backup of date d
    named,      \* named[k][d]: the backup of date d
    run,        \* run[p]: where p is in backupCmd, and its locals
    quiet,      \* quiet[k]: since when nothing went wrong with backups of k
    faults,     \* kills and failing writes so far
    onces       \* runs of -once so far

live == <<server, picture, commits>>
disk == <<temp, named>>
vars == <<live, now, disk, run, quiet, faults, onces>>

\* A backup file.  An "open" one is still written to, by the process named; a
\* "torn" one is incomplete for good.  pictures are the rows in it, or the
\* image files; commits and at say which state of the server it began from.
File == [state: {"absent", "open", "torn", "whole"}, by: Processes,
         pictures: SUBSET Pictures, commits: Nat, at: Times]

Absent == [state |-> "absent", by |-> "loop", pictures |-> {}, commits |-> 0, at |-> 0]
Torn   == [Absent EXCEPT !.state = "torn"]

Run == [pc: {"rest", "stat_db", "vacuum", "vacuuming", "rename_db", "stat_images", "walk",
             "copy", "rename_images", "cleanup", "list_db", "prune_db",
             "list_images", "prune_images", "end"},
        stamp: Dates, ok: BOOLEAN, began: Times, wake: 0..(MaxTime + Interval),
        todo: SUBSET Pictures, at: Pictures \cup {"none"}, doomed: SUBSET Dates]

At(p, pc)  == run[p].pc = pc
Rows       == {x \in Pictures : picture[x] = "row"}
OnDisk     == {x \in Pictures : picture[x] \notin {"new", "gone"}}
Shards     == {x \in Pictures : picture[x] # "new"}   \* Remove leaves the directory
Backups(k) == {d \in Dates : named[k][d].state # "absent"}

Tmp(p, k)  == temp[k][run[p].stamp]
Mine(p, f) == f.state = "open" /\ f.by = p

\* What the file p has open is from now on, at whatever paths it is.
Closed(p, paths, state) ==
    [k \in Kinds |-> [d \in Dates |->
        IF Mine(p, paths[k][d]) THEN [paths[k][d] EXCEPT !.state = state]
        ELSE paths[k][d]]]

-----------------------------------------------------------------------------
(* Faulty variants.                                                        *)

\* VACUUM INTO the dated name itself.
VacuumInPlace(p) ==
    /\ At(p, "vacuum")
    /\ named' = [named EXCEPT !["db"][run[p].stamp] =
                    [state |-> "open", by |-> p, pictures |-> Rows,
                     commits |-> commits, at |-> now]]
    /\ run' = [run EXCEPT ![p].pc = "vacuuming"]
    /\ UNCHANGED <<live, now, temp, quiet, faults, onces>>

\* The error of the archive is logged, and the run still counts as good.
ArchiveFailsQuietly(p) ==
    /\ run' = [run EXCEPT ![p].pc = "cleanup", ![p].todo = {}, ![p].at = "none"]
    /\ temp'  = Closed(p, temp, "torn")
    /\ named' = Closed(p, named, "torn")
    /\ quiet' = [quiet EXCEPT !["images"] = now]

\* names[keep-1:]
BeyondKeepLessOne(S) ==
    IF Keep < 1 THEN {} ELSE {d \in S : Cardinality({e \in S : e > d}) >= Keep - 1}

\* sort.Sort without sort.Reverse
BeyondKeepOldestFirst(S) ==
    IF Keep < 1 THEN {} ELSE {d \in S : Cardinality({e \in S : e < d}) >= Keep}

\* The next attempt is always a full interval away.
EndRunNoRetry(p) ==
    /\ At(p, "end")
    /\ run' = [run EXCEPT ![p].pc = "rest", ![p].wake = now + Interval]
    /\ UNCHANGED <<live, now, disk, quiet, faults, onces>>

\* After a good run the timer is not set again.
EndRunForGood(p) ==
    /\ At(p, "end")
    /\ run' = [run EXCEPT ![p].pc = "rest",
                          ![p].wake = IF run[p].ok THEN MaxTime + 1 ELSE now + RetryDelay]
    /\ UNCHANGED <<live, now, disk, quiet, faults, onces>>

\* After a good run every other interval goes by without one.
EndRunEveryOther(p) ==
    /\ At(p, "end")
    /\ run' = [run EXCEPT ![p].pc = "rest",
                          ![p].wake = now + (IF run[p].ok THEN 2 * Interval ELSE RetryDelay)]
    /\ UNCHANGED <<live, now, disk, quiet, faults, onces>>

\* A failed run waits for the next one but one.
EndRunSkipping(p) ==
    /\ At(p, "end")
    /\ run' = [run EXCEPT ![p].pc = "rest",
                          ![p].wake = now + (IF run[p].ok THEN Interval ELSE 2 * Interval)]
    /\ UNCHANGED <<live, now, disk, quiet, faults, onces>>

-----------------------------------------------------------------------------
(* The server: db.Open, then imgstore.New, then requests.                  *)

OpenDatabase ==
    /\ server = "off"
    /\ server' = "db"
    /\ quiet' = [quiet EXCEPT !["db"] = now]
    /\ UNCHANGED <<picture, commits, now, disk, run, faults, onces>>

NewImageStore ==
    /\ server = "db"
    /\ server' = "up"
    /\ quiet' = [quiet EXCEPT !["images"] = now]
    /\ UNCHANGED <<picture, commits, now, disk, run, faults, onces>>

\* A picture's file comes before its row, and goes after it.
ServerStep(x, from, to, writes) ==
    /\ server = "up" /\ picture[x] = from
    /\ picture' = [picture EXCEPT ![x] = to]
    /\ commits' = commits + writes
    /\ UNCHANGED <<server, now, disk, run, quiet, faults, onces>>

Store(x)           == ServerStep(x, "new", "file", 0)
AddItemImage(x)    == ServerStep(x, "file", "row", 1)
DeleteItemImage(x) == ServerStep(x, "row", "orphan", 1)
Remove(x)          == ServerStep(x, "orphan", "gone", 0)

-----------------------------------------------------------------------------
(* One run: the database.                                                  *)

Resting == \A p \in Processes : At(p, "rest")

\* time.After fires; or somebody execs -once.
Begin(p) ==
    /\ At(p, "rest")
    /\ Overlap \/ Resting
    /\ IF p = "loop" THEN run[p].wake <= now /\ UNCHANGED onces
                     ELSE onces < MaxOnce /\ onces' = onces + 1
    /\ run' = [run EXCEPT ![p].pc = "stat_db", ![p].stamp = Date(now),
                          ![p].ok = TRUE, ![p].began = now]
    /\ UNCHANGED <<live, now, disk, quiet, faults>>

\* The database cannot be copied: the run goes on with the images.
DatabaseFails(p) ==
    /\ run' = [run EXCEPT ![p].pc = "stat_images", ![p].ok = FALSE]
    /\ quiet' = [quiet EXCEPT !["db"] = now]

StatDatabase(p) ==
    /\ At(p, "stat_db")
    /\ IF server = "off"
       THEN DatabaseFails(p) /\ UNCHANGED temp
       ELSE /\ temp' = [temp EXCEPT !["db"][run[p].stamp] = Absent]
            /\ run' = [run EXCEPT ![p].pc = "vacuum"]
            /\ UNCHANGED quiet
    /\ UNCHANGED <<live, now, named, faults, onces>>

\* VACUUM INTO refuses a file that exists.  It copies from one read transaction.
Vacuum(p) ==
    /\ At(p, "vacuum")
    /\ IF Tmp(p, "db").state = "absent"
       THEN /\ temp' = [temp EXCEPT !["db"][run[p].stamp] =
                            [state |-> "open", by |-> p, pictures |-> Rows,
                             commits |-> commits, at |-> now]]
            /\ run' = [run EXCEPT ![p].pc = "vacuuming"]
            /\ UNCHANGED quiet
       ELSE /\ temp' = [temp EXCEPT !["db"][run[p].stamp] = Absent]
            /\ DatabaseFails(p)
    /\ UNCHANGED <<live, now, named, faults, onces>>

VacuumDone(p) ==
    /\ At(p, "vacuuming")
    /\ temp'  = Closed(p, temp, "whole")
    /\ named' = Closed(p, named, "whole")
    /\ run' = [run EXCEPT ![p].pc = "rename_db"]
    /\ UNCHANGED <<live, now, quiet, faults, onces>>

\* The volume is full, say.
VacuumFails(p) ==
    /\ At(p, "vacuuming") /\ faults < MaxFaults
    /\ faults' = faults + 1
    /\ temp'  = [Closed(p, temp, "torn") EXCEPT !["db"][run[p].stamp] = Absent]
    /\ named' = Closed(p, named, "torn")
    /\ DatabaseFails(p)
    /\ UNCHANGED <<live, now, onces>>

\* os.Rename replaces an earlier backup of the date.
RenameDatabase(p) ==
    /\ At(p, "rename_db")
    /\ IF Tmp(p, "db").state = "absent"
       THEN DatabaseFails(p) /\ UNCHANGED disk
       ELSE /\ named' = [named EXCEPT !["db"][run[p].stamp] = Tmp(p, "db")]
            /\ temp' = [temp EXCEPT !["db"][run[p].stamp] = Absent]
            /\ run' = [run EXCEPT ![p].pc = "stat_images"]
            /\ UNCHANGED quiet
    /\ UNCHANGED <<live, now, faults, onces>>

-----------------------------------------------------------------------------
(* The image archive.                                                      *)

\* Without the directory there is nothing to archive, which is no failure.
\* os.Create truncates a file that is there, and WalkDir lists the shards.
StatImages(p) ==
    /\ At(p, "stat_images")
    /\ IF server # "up"
       THEN run' = [run EXCEPT ![p].pc = "list_db"] /\ UNCHANGED temp
       ELSE /\ run' = [run EXCEPT ![p].pc = "walk", ![p].todo = Shards]
            /\ temp' = [temp EXCEPT !["images"][run[p].stamp] =
                            IF @.state = "open" THEN Torn
                            ELSE [state |-> "open", by |-> p, pictures |-> {},
                                  commits |-> commits, at |-> now]]
    /\ UNCHANGED <<live, now, named, quiet, faults, onces>>

\* The walk lists the next shard ...
ReadShard(p, x) ==
    /\ At(p, "walk") /\ x \in run[p].todo
    /\ run' = [run EXCEPT ![p].todo = @ \ {x},
                          ![p].pc = IF x \in OnDisk THEN "copy" ELSE "walk",
                          ![p].at = IF x \in OnDisk THEN x ELSE "none"]
    /\ UNCHANGED <<live, now, disk, quiet, faults, onces>>

ArchiveFails(p) ==
    /\ run' = [run EXCEPT ![p].pc = "cleanup", ![p].ok = FALSE,
                          ![p].todo = {}, ![p].at = "none"]
    /\ temp'  = Closed(p, temp, "torn")
    /\ named' = Closed(p, named, "torn")
    /\ quiet' = [quiet EXCEPT !["images"] = now]

\* ... and copies the file in it; a file that went meanwhile ends the archive.
CopyFile(p) ==
    /\ At(p, "copy")
    /\ IF run[p].at \in OnDisk
       THEN /\ temp' = [k \in Kinds |-> [d \in Dates |->
                            IF Mine(p, temp[k][d])
                            THEN [temp[k][d] EXCEPT !.pictures = @ \cup {run[p].at}]
                            ELSE temp[k][d]]]
            /\ run' = [run EXCEPT ![p].pc = "walk", ![p].at = "none"]
            /\ UNCHANGED <<named, quiet>>
       ELSE ArchiveFails(p)
    /\ UNCHANGED <<live, now, faults, onces>>

CopyFails(p) ==
    /\ At(p, "copy") /\ faults < MaxFaults
    /\ faults' = faults + 1
    /\ ArchiveFails(p)
    /\ UNCHANGED <<live, now, onces>>

CloseArchive(p) ==
    /\ At(p, "walk") /\ run[p].todo = {}
    /\ temp'  = Closed(p, temp, "whole")
    /\ named' = Closed(p, named, "whole")
    /\ run' = [run EXCEPT ![p].pc = "rename_images"]
    /\ UNCHANGED <<live, now, quiet, faults, onces>>

RenameImages(p) ==
    /\ At(p, "rename_images")
    /\ IF Tmp(p, "images").state = "absent"
       THEN ArchiveFails(p)
       ELSE /\ named' = [named EXCEPT !["images"][run[p].stamp] = Tmp(p, "images")]
            /\ temp' = [temp EXCEPT !["images"][run[p].stamp] = Absent]
            /\ run' = [run EXCEPT ![p].pc = "cleanup"]
            /\ UNCHANGED quiet
    /\ UNCHANGED <<live, now, faults, onces>>

\* The deferred os.Remove of the temporary file.
Cleanup(p) ==
    /\ At(p, "cleanup")
    /\ temp' = [temp EXCEPT !["images"][run[p].stamp] = Absent]
    /\ run' = [run EXCEPT ![p].pc = "list_db"]
    /\ UNCHANGED <<live, now, named, quiet, faults, onces>>

-----------------------------------------------------------------------------
(* Pruning, first of one kind and then of the other.                       *)

Listing(k) == IF k = "db" THEN "list_db" ELSE "list_images"
Pruning(k) == IF k = "db" THEN "prune_db" ELSE "prune_images"
Pruned(k)  == IF k = "db" THEN "list_images" ELSE "end"

\* names[keep:] of the names in descending order; keep below one prunes nothing.
BeyondKeep(S) ==
    IF Keep < 1 THEN {} ELSE {d \in S : Cardinality({e \in S : e > d}) >= Keep}

ListBackups(p, k) ==
    /\ At(p, Listing(k))
    /\ run' = [run EXCEPT ![p].pc = Pruning(k), ![p].doomed = BeyondKeep(Backups(k))]
    /\ UNCHANGED <<live, now, disk, quiet, faults, onces>>

\* Newest first; a file somebody else removed ends the pruning of its kind.
RemoveOld(p, k, d) ==
    /\ At(p, Pruning(k))
    /\ d \in run[p].doomed /\ \A e \in run[p].doomed : e <= d
    /\ named' = [named EXCEPT ![k][d] = Absent]
    /\ run' = [run EXCEPT ![p].doomed = IF d \in Backups(k) THEN @ \ {d} ELSE {}]
    /\ UNCHANGED <<live, now, temp, quiet, faults, onces>>

PruneDone(p, k) ==
    /\ At(p, Pruning(k)) /\ run[p].doomed = {}
    /\ run' = [run EXCEPT ![p].pc = Pruned(k)]
    /\ UNCHANGED <<live, now, disk, quiet, faults, onces>>

\* A failed run is tried again soon.
EndRun(p) ==
    /\ At(p, "end")
    /\ run' = [run EXCEPT ![p].pc = "rest",
                          ![p].wake = now + (IF run[p].ok THEN Interval ELSE RetryDelay)]
    /\ UNCHANGED <<live, now, disk, quiet, faults, onces>>

\* p is killed, and the loop's container started again.
Kill(p) ==
    /\ p = "loop" \/ ~At(p, "rest")
    /\ faults < MaxFaults
    /\ faults' = faults + 1
    /\ temp'  = Closed(p, temp, "torn")
    /\ named' = Closed(p, named, "torn")
    /\ run' = [run EXCEPT ![p].pc = "rest", ![p].ok = FALSE, ![p].wake = now,
                          ![p].todo = {}, ![p].at = "none", ![p].doomed = {}]
    /\ quiet' = [k \in Kinds |-> now]
    /\ UNCHANGED <<live, now, onces>>

\* A timer that is due fires, and a run takes its time but no more.
Tick ==
    /\ now < MaxTime
    /\ \A p \in Processes :
          IF At(p, "rest") THEN p = "loop" => run[p].wake > now
                           ELSE now < run[p].began + RunTime
    /\ now' = now + 1
    /\ UNCHANGED <<live, disk, run, quiet, faults, onces>>

-----------------------------------------------------------------------------

Init ==
    /\ server = "off"
    /\ picture = [x \in Pictures |-> "new"]
    /\ commits = 0
    /\ now = 0
    /\ temp  = [k \in Kinds |-> [d \in Dates |-> Absent]]
    /\ named = [k \in Kinds |-> [d \in Dates |-> Absent]]
    /\ run = [p \in Processes |->
                [pc |-> "rest", stamp |-> 0, ok |-> FALSE, began |-> 0, wake |-> 0,
                 todo |-> {}, at |-> "none", doomed |-> {}]]
    /\ quiet = [k \in Kinds |-> 0]
    /\ faults = 0
    /\ onces = 0

Server ==
    \/ OpenDatabase \/ NewImageStore
    \/ \E x \in Pictures : Store(x) \/ AddItemImage(x) \/ DeleteItemImage(x) \/ Remove(x)

Sidecar(p) ==
    \/ Begin(p)
    \/ StatDatabase(p) \/ Vacuum(p) \/ VacuumDone(p) \/ VacuumFails(p) \/ RenameDatabase(p)
    \/ StatImages(p)
    \/ \E x \in Pictures : ReadShard(p, x)
    \/ CopyFile(p) \/ CopyFails(p) \/ CloseArchive(p) \/ RenameImages(p) \/ Cleanup(p)
    \/ \E k \in Kinds : ListBackups(p, k) \/ PruneDone(p, k)
    \/ \E k \in Kinds, d \in Dates : RemoveOld(p, k, d)
    \/ EndRun(p)
    \/ Kill(p)

Next == Server \/ (\E p \in Processes : Sidecar(p)) \/ Tick

Spec == Init /\ [][Next]_vars

-----------------------------------------------------------------------------
(* What should hold.                                                       *)

TypeOK ==
    /\ server \in {"off", "db", "up"}
    /\ picture \in [Pictures -> {"new", "file", "row", "orphan", "gone"}]
    /\ commits \in Nat
    /\ now \in Times
    /\ temp  \in [Kinds -> [Dates -> File]]
    /\ named \in [Kinds -> [Dates -> File]]
    /\ run \in [Processes -> Run]
    /\ quiet \in [Kinds -> Times]
    /\ faults \in 0..MaxFaults
    /\ onces \in 0..MaxOnce

\* A restore never picks up an incomplete file: whatever step a run is killed
\* or fails at, a file under a dated name is a complete copy.
NamedIsWhole ==
    \A k \in Kinds, d \in Dates : named[k][d].state \in {"absent", "whole"}

\* A run that reported success left a database copy that restores with its
\* pictures: as long as that copy is there, each picture row in it that is not
\* removed since has its file in an archive of the same date or a later one.
GoodRunRestores ==
    \A p \in Processes :
        LET d == run[p].stamp
        IN  At(p, "rest") /\ run[p].ok /\ d \in Backups("db") /\ named["db"][d].by = p =>
                named["db"][d].pictures \cap Rows \subseteq
                    UNION {named["images"][e].pictures : e \in {e \in Dates : e >= d}}

\* Pruning takes a backup only when Keep newer ones of its kind stay.
PruneSparesTheNewest ==
    [][\A k \in Kinds, d \in Dates :
          d \in Backups(k) /\ d \notin Backups(k)' =>
              Cardinality({e \in Backups(k)' : e > d}) >= Keep]_vars

\* The file that "latest" resolves to, in -verify and -dump.
newestMatching(k) == Max(Backups(k))

\* What "latest" resolves to never gets older.
LatestGoesForward ==
    [][\A k \in Kinds : Backups(k) # {} =>
          /\ Backups(k)' # {}
          /\ named'[k][newestMatching(k)'].commits >= named[k][newestMatching(k)].commits]_vars

\* Once nothing has gone wrong for the time the next attempt may take, there is
\* a backup no older than an interval and the runs around it.  For the database
\* that attempt is the retry; before the image directory exists a run succeeds
\* without it, and the first archive waits for the next interval.
Patience(k) == (IF k = "db" THEN RetryDelay ELSE Interval) + 2 * RunTime

BackupIsFresh ==
    \A k \in Kinds :
        (k = "db" /\ server # "off") \/ server = "up" =>
            (now > quiet[k] + Patience(k) =>
                \E d \in Backups(k) : named[k][d].at + Interval + 2 * RunTime >= now)
=============================================================================
