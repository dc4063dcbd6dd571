---------------------------- MODULE BackupProofs ----------------------------
(***************************************************************************)
(* Proofs about Backup for every Keep, interval, clock bound and number of *)
(* faults: pruning with any overlap of runs, whole files without.          *)
(***************************************************************************)
EXTENDS Backup, FiniteSetTheorems, WellFoundedInduction, TLAPS

-----------------------------------------------------------------------------
(* Dates and times.                                                        *)

LEMMA DatesFinite == IsFiniteSet(Dates)
<1> DEFINE f == [t \in Times |-> Date(t)]
<1>1. IsFiniteSet(Times)
  BY FS_Interval, BackupAssumption DEF Times
<1>2. f \in Surjection(Times, Dates)
  BY DEF Surjection, Dates
<1> QED
  BY <1>1, <1>2, FS_Surjection

LEMMA DatesAreNumbers ==
    /\ \A t \in Times : Date(t) \in Dates
    /\ Dates \subseteq Int
    /\ 0 \in Dates
<1>1. 0 \in Times /\ Times \subseteq Int
  BY BackupAssumption DEF Times
<1>2. \A t \in Int : t \div DayLength \in Int
  BY BackupAssumption
<1>3. Date(0) = 0
  BY BackupAssumption DEF Date
<1> QED
  BY <1>1, <1>2, <1>3 DEF Dates, Date

\* When p rests until, after a run.
LEMMA WakeInRange ==
    ASSUME now \in Times, NEW ok \in BOOLEAN
    PROVE  /\ now + (IF ok THEN Interval ELSE RetryDelay) \in 0..(MaxTime + Interval)
           /\ now \in 0..(MaxTime + Interval)
BY BackupAssumption DEF Times, RetryDelay

LEMMA FileTypes ==
    /\ Absent \in File
    /\ Torn \in File
    /\ Absent.state = "absent" /\ Torn.state = "torn"
<1>1. 0 \in Times
  BY BackupAssumption DEF Times
<1> QED
  BY <1>1 DEF Absent, Torn, File, Processes

LEMMA ClosedType ==
    ASSUME NEW p \in Processes, NEW paths \in [Kinds -> [Dates -> File]],
           NEW state \in {"torn", "whole"}
    PROVE  Closed(p, paths, state) \in [Kinds -> [Dates -> File]]
BY DEF Closed, Mine, File

-----------------------------------------------------------------------------
(* Types.                                                                  *)

LEMMA InitTypes == Init => TypeOK
<1> SUFFICES ASSUME Init PROVE TypeOK
  OBVIOUS
<1>1. 0 \in Times /\ 0 \in 0..(MaxTime + Interval) /\ 0 \in 0..MaxFaults /\ 0 \in 0..MaxOnce
  BY BackupAssumption DEF Times
<1>2. run \in [Processes -> Run]
  BY <1>1, DatesAreNumbers DEF Init, Run
<1> QED
  BY <1>1, <1>2, FileTypes DEF Init, TypeOK

LEMMA ServerTypes == TypeOK /\ Server => TypeOK'
<1> SUFFICES ASSUME TypeOK, Server PROVE TypeOK'
  OBVIOUS
<1> USE DEF TypeOK, live, disk
<1>1. CASE OpenDatabase
  BY <1>1 DEF OpenDatabase
<1>2. CASE NewImageStore
  BY <1>2 DEF NewImageStore
<1>3. ASSUME NEW x \in Pictures,
             Store(x) \/ AddItemImage(x) \/ DeleteItemImage(x) \/ Remove(x)
      PROVE  TypeOK'
  <2>1. CASE Store(x)
    BY <2>1 DEF Store, ServerStep
  <2>2. CASE AddItemImage(x)
    BY <2>2 DEF AddItemImage, ServerStep
  <2>3. CASE DeleteItemImage(x)
    BY <2>3 DEF DeleteItemImage, ServerStep
  <2>4. CASE Remove(x)
    BY <2>4 DEF Remove, ServerStep
  <2> QED
    BY <1>3, <2>1, <2>2, <2>3, <2>4
<1> QED
  BY <1>1, <1>2, <1>3 DEF Server

\* The locals of p after any step of p.
LEMMA RunTypes ==
    ASSUME run \in [Processes -> Run], now \in Times, NEW p \in Processes, Sidecar(p)
    PROVE  run' \in [Processes -> Run]
<1> USE DEF DatabaseFails, ArchiveFails
<1>0. /\ run[p] \in Run
      /\ Date(now) \in Dates
      /\ now \in 0..(MaxTime + Interval)
      /\ now + (IF run[p].ok THEN Interval ELSE RetryDelay) \in 0..(MaxTime + Interval)
  BY DatesAreNumbers, WakeInRange DEF Run
<1>1. CASE Begin(p)
  <2> DEFINE r == [run[p] EXCEPT !.pc = "stat_db", !.stamp = Date(now),
                                 !.ok = TRUE, !.began = now]
  <2>1. r \in Run
    BY <1>0 DEF Run
  <2>2. run' = [run EXCEPT ![p] = r]
    BY <1>1 DEF Begin
  <2> QED
    BY <2>1, <2>2
<1>2. CASE StatDatabase(p)
  BY <1>2 DEF StatDatabase, Run
<1>3. CASE Vacuum(p)
  BY <1>3 DEF Vacuum, Run
<1>4. CASE VacuumDone(p)
  BY <1>4 DEF VacuumDone, Run
<1>5. CASE VacuumFails(p)
  <2> DEFINE r == [run[p] EXCEPT !.pc = "stat_images", !.ok = FALSE]
  <2>1. r \in Run
    BY <1>0 DEF Run
  <2>2. run' = [run EXCEPT ![p] = r]
    BY <1>5 DEF VacuumFails
  <2> QED
    BY <2>1, <2>2
<1>6. CASE RenameDatabase(p)
  BY <1>6 DEF RenameDatabase, Run
<1>7. CASE StatImages(p)
  BY <1>7 DEF StatImages, Shards, Run
<1>8. ASSUME NEW x \in Pictures, ReadShard(p, x) PROVE run' \in [Processes -> Run]
  <2> DEFINE r == [run[p] EXCEPT !.todo = @ \ {x},
                                 !.pc = IF x \in OnDisk THEN "copy" ELSE "walk",
                                 !.at = IF x \in OnDisk THEN x ELSE "none"]
  <2>1. r \in Run
    BY <1>0 DEF Run
  <2>2. run' = [run EXCEPT ![p] = r]
    BY <1>8 DEF ReadShard
  <2> QED
    BY <2>1, <2>2
<1>9. CASE CopyFile(p)
  BY <1>9 DEF CopyFile, Run
<1>10. CASE CopyFails(p)
  <2> DEFINE r == [run[p] EXCEPT !.pc = "cleanup", !.ok = FALSE,
                                 !.todo = {}, !.at = "none"]
  <2>1. r \in Run
    BY <1>0 DEF Run
  <2>2. run' = [run EXCEPT ![p] = r]
    BY <1>10 DEF CopyFails
  <2> QED
    BY <2>1, <2>2
<1>11. CASE CloseArchive(p)
  BY <1>11 DEF CloseArchive, Run
<1>12. CASE RenameImages(p)
  BY <1>12 DEF RenameImages, Run
<1>13. CASE Cleanup(p)
  BY <1>13 DEF Cleanup, Run
<1>14. ASSUME NEW k \in Kinds, ListBackups(p, k) PROVE run' \in [Processes -> Run]
  <2>1. BeyondKeep(Backups(k)) \in SUBSET Dates
    BY DEF BeyondKeep, Backups
  <2>2. Pruning(k) \in {"prune_db", "prune_images"}
    BY DEF Pruning
  <2> DEFINE r == [run[p] EXCEPT !.pc = Pruning(k), !.doomed = BeyondKeep(Backups(k))]
  <2>3. r \in Run
    BY <1>0, <2>1, <2>2 DEF Run
  <2>4. run' = [run EXCEPT ![p] = r]
    BY <1>14 DEF ListBackups
  <2> QED
    BY <2>3, <2>4
<1>15. ASSUME NEW k \in Kinds, PruneDone(p, k) PROVE run' \in [Processes -> Run]
  <2>1. Pruned(k) \in {"list_images", "end"}
    BY DEF Pruned
  <2> QED
    BY <1>15, <2>1 DEF PruneDone, Run
<1>16. ASSUME NEW k \in Kinds, NEW d \in Dates, RemoveOld(p, k, d)
       PROVE  run' \in [Processes -> Run]
  BY <1>16 DEF RemoveOld, Run
<1>17. CASE EndRun(p)
  BY <1>0, <1>17 DEF EndRun, Run
<1>18. CASE Kill(p)
  <2> DEFINE r == [run[p] EXCEPT !.pc = "rest", !.ok = FALSE, !.wake = now,
                                 !.todo = {}, !.at = "none", !.doomed = {}]
  <2>1. r \in Run
    BY <1>0 DEF Run
  <2>2. run' = [run EXCEPT ![p] = r]
    BY <1>18 DEF Kill
  <2> QED
    BY <2>1, <2>2
<1> QED
  BY <1>1, <1>2, <1>3, <1>4, <1>5, <1>6, <1>7, <1>8, <1>9, <1>10, <1>11, <1>12, <1>13,
     <1>14, <1>15, <1>16, <1>17, <1>18 DEF Sidecar

\* The files at the temporary and the dated paths after any step of p.
LEMMA DiskTypes ==
    ASSUME TypeOK, NEW p \in Processes, Sidecar(p)
    PROVE  temp' \in [Kinds -> [Dates -> File]] /\ named' \in [Kinds -> [Dates -> File]]
<1> DEFINE Disk == [Kinds -> [Dates -> File]]
<1> USE DEF disk, Tmp
<1>0. /\ temp \in Disk /\ named \in Disk
      /\ run[p].stamp \in Dates /\ run[p].at \in Pictures \cup {"none"}
      /\ now \in Times /\ commits \in Nat
      /\ Rows \in SUBSET Pictures
      /\ "db" \in Kinds /\ "images" \in Kinds
  BY DEF TypeOK, Run, Rows, Kinds
<1>a. ASSUME NEW t \in Disk, NEW k \in Kinds, NEW d \in Dates, NEW f \in File
      PROVE  [t EXCEPT ![k][d] = f] \in Disk
  OBVIOUS
<1>b. \A state \in {"torn", "whole"} :
        Closed(p, temp, state) \in Disk /\ Closed(p, named, state) \in Disk
  BY <1>0, ClosedType
<1>1. CASE UNCHANGED disk
  BY <1>0, <1>1
<1>c. /\ [temp EXCEPT !["db"][run[p].stamp] = Absent] \in Disk
      /\ [temp EXCEPT !["images"][run[p].stamp] = Absent] \in Disk
  BY <1>0, <1>a, FileTypes
<1>2. CASE StatDatabase(p)
  BY <1>0, <1>2, <1>c DEF StatDatabase
<1>3. CASE Vacuum(p)
  <2> DEFINE f == [state |-> "open", by |-> p, pictures |-> Rows,
                   commits |-> commits, at |-> now]
  <2>1. f \in File
    BY <1>0 DEF File
  <2>2. named' = named
        /\ temp' \in {[temp EXCEPT !["db"][run[p].stamp] = f],
                      [temp EXCEPT !["db"][run[p].stamp] = Absent]}
    BY <1>3 DEF Vacuum
  <2> HIDE DEF f
  <2>3. [temp EXCEPT !["db"][run[p].stamp] = f] \in Disk
    BY <1>0, <1>a, <2>1
  <2> QED
    BY <1>0, <1>c, <2>2, <2>3
<1>4. CASE VacuumDone(p)
  BY <1>4, <1>b DEF VacuumDone
<1>5. CASE VacuumFails(p)
  BY <1>0, <1>5, <1>a, <1>b, FileTypes DEF VacuumFails
<1>6. CASE RenameDatabase(p)
  <2>1. temp["db"][run[p].stamp] \in File
    BY <1>0
  <2>2. [named EXCEPT !["db"][run[p].stamp] = temp["db"][run[p].stamp]] \in Disk
    BY <1>0, <1>a, <2>1
  <2> QED
    BY <1>0, <1>6, <1>c, <2>2 DEF RenameDatabase
<1>7. CASE StatImages(p)
  <2> DEFINE f == IF temp["images"][run[p].stamp].state = "open" THEN Torn
                  ELSE [state |-> "open", by |-> p, pictures |-> {},
                        commits |-> commits, at |-> now]
  <2>1. f \in File
    BY <1>0, FileTypes DEF File
  <2>2. temp' \in {temp, [temp EXCEPT !["images"][run[p].stamp] = f]} /\ named' = named
    BY <1>7 DEF StatImages
  <2> HIDE DEF f
  <2>3. [temp EXCEPT !["images"][run[p].stamp] = f] \in Disk
    BY <1>0, <1>a, <2>1
  <2> QED
    BY <1>0, <2>2, <2>3
<1>8. CASE CopyFile(p)
  <2>1. CASE run[p].at \in OnDisk
    <3>1. run[p].at \in Pictures
      BY <2>1 DEF OnDisk
    <3>2. \A f \in File : [f EXCEPT !.pictures = @ \cup {run[p].at}] \in File
      BY <3>1 DEF File
    <3>3. temp' = [k \in Kinds |-> [d \in Dates |->
                    IF Mine(p, temp[k][d])
                    THEN [temp[k][d] EXCEPT !.pictures = @ \cup {run[p].at}]
                    ELSE temp[k][d]]]
      BY <1>8, <2>1 DEF CopyFile
    <3>4. \A k \in Kinds, d \in Dates : temp[k][d] \in File
      BY <1>0
    <3> QED
      BY <1>0, <1>8, <2>1, <3>2, <3>3, <3>4 DEF CopyFile
  <2>2. CASE run[p].at \notin OnDisk
    BY <1>8, <1>b, <2>2 DEF CopyFile, ArchiveFails
  <2> QED
    BY <2>1, <2>2
<1>9. CASE CopyFails(p)
  BY <1>9, <1>b DEF CopyFails, ArchiveFails
<1>10. CASE CloseArchive(p)
  BY <1>10, <1>b DEF CloseArchive
<1>11. CASE RenameImages(p)
  <2>1. temp["images"][run[p].stamp] \in File
    BY <1>0
  <2>2. [named EXCEPT !["images"][run[p].stamp] = temp["images"][run[p].stamp]] \in Disk
    BY <1>0, <1>a, <2>1
  <2> QED
    BY <1>0, <1>11, <1>b, <1>c, <2>2 DEF RenameImages, ArchiveFails
<1>12. CASE Cleanup(p)
  BY <1>0, <1>12, <1>a, FileTypes DEF Cleanup
<1>13. ASSUME NEW k \in Kinds, NEW d \in Dates, RemoveOld(p, k, d)
       PROVE  temp' \in Disk /\ named' \in Disk
  BY <1>0, <1>13, <1>a, FileTypes DEF RemoveOld
<1>14. CASE Kill(p)
  BY <1>14, <1>b DEF Kill
<1>15. ASSUME \/ Begin(p)
              \/ \E x \in Pictures : ReadShard(p, x)
              \/ \E k \in Kinds : ListBackups(p, k) \/ PruneDone(p, k)
              \/ EndRun(p)
       PROVE  UNCHANGED disk
  BY <1>15 DEF Begin, ReadShard, ListBackups, PruneDone, EndRun
<1> QED
  BY <1>1, <1>2, <1>3, <1>4, <1>5, <1>6, <1>7, <1>8, <1>9, <1>10, <1>11, <1>12, <1>13,
     <1>14, <1>15 DEF Sidecar

\* The counters and clocks after any step of p.
LEMMA OtherTypes ==
    ASSUME TypeOK, NEW p \in Processes, Sidecar(p)
    PROVE  /\ UNCHANGED <<live, now>>
           /\ quiet' \in [Kinds -> Times]
           /\ faults' \in 0..MaxFaults
           /\ onces' \in 0..MaxOnce
<1>0. /\ quiet \in [Kinds -> Times] /\ now \in Times
      /\ faults \in 0..MaxFaults /\ onces \in 0..MaxOnce
      /\ MaxFaults \in Nat /\ MaxOnce \in Nat
  BY BackupAssumption DEF TypeOK
<1>1. CASE Begin(p)
  BY <1>0, <1>1 DEF Begin
<1>2. CASE StatDatabase(p) \/ Vacuum(p) \/ VacuumDone(p) \/ RenameDatabase(p)
  BY <1>0, <1>2 DEF StatDatabase, Vacuum, VacuumDone, RenameDatabase, DatabaseFails
<1>3. CASE VacuumFails(p)
  <2>1. faults < MaxFaults /\ faults' = faults + 1 /\ UNCHANGED <<live, now, onces>>
    BY <1>3 DEF VacuumFails
  <2>2. quiet' = [quiet EXCEPT !["db"] = now]
    BY <1>3 DEF VacuumFails, DatabaseFails
  <2>3. faults' \in 0..MaxFaults
    BY <1>0, <2>1
  <2>4. quiet' \in [Kinds -> Times]
    BY <1>0, <2>2
  <2> QED
    BY <1>0, <2>1, <2>3, <2>4
<1>4. CASE StatImages(p) \/ (\E x \in Pictures : ReadShard(p, x)) \/ CloseArchive(p)
  BY <1>0, <1>4 DEF StatImages, ReadShard, CloseArchive
<1>5. CASE CopyFile(p) \/ RenameImages(p) \/ Cleanup(p)
  BY <1>0, <1>5 DEF CopyFile, RenameImages, Cleanup, ArchiveFails
<1>6. CASE CopyFails(p)
  <2>1. faults < MaxFaults /\ faults' = faults + 1 /\ UNCHANGED <<live, now, onces>>
    BY <1>6 DEF CopyFails
  <2>2. quiet' = [quiet EXCEPT !["images"] = now]
    BY <1>6 DEF CopyFails, ArchiveFails
  <2>3. faults' \in 0..MaxFaults
    BY <1>0, <2>1
  <2>4. quiet' \in [Kinds -> Times]
    BY <1>0, <2>2
  <2> QED
    BY <1>0, <2>1, <2>3, <2>4
<1>7. CASE \/ \E k \in Kinds : ListBackups(p, k) \/ PruneDone(p, k)
           \/ \E k \in Kinds, d \in Dates : RemoveOld(p, k, d)
           \/ EndRun(p)
  BY <1>0, <1>7 DEF ListBackups, PruneDone, RemoveOld, EndRun
<1>8. CASE Kill(p)
  BY <1>0, <1>8 DEF Kill
<1> QED
  BY <1>1, <1>2, <1>3, <1>4, <1>5, <1>6, <1>7, <1>8 DEF Sidecar

LEMMA NextTypes == TypeOK /\ [Next]_vars => TypeOK'
<1> SUFFICES ASSUME TypeOK, [Next]_vars PROVE TypeOK'
  OBVIOUS
<1>1. CASE Server
  BY <1>1, ServerTypes
<1>2. ASSUME NEW p \in Processes, Sidecar(p) PROVE TypeOK'
  <2>1. run \in [Processes -> Run] /\ now \in Times
    BY DEF TypeOK
  <2>2. run' \in [Processes -> Run]
    BY <1>2, <2>1, RunTypes
  <2> QED
    BY <1>2, <2>2, DiskTypes, OtherTypes DEF TypeOK, live
<1>3. CASE Tick
  <2>1. now' \in Times
    BY <1>3, BackupAssumption DEF Tick, TypeOK, Times
  <2> QED
    BY <1>3, <2>1 DEF Tick, TypeOK, live, disk
<1>4. CASE UNCHANGED vars
  BY <1>4 DEF vars, live, disk, TypeOK
<1> QED
  BY <1>1, <1>2, <1>3, <1>4 DEF Next

\* Files, locals and counters are always of their types: in particular a run
\* never leaves a timer set beyond an interval.
THEOREM TypeCorrect == Spec => []TypeOK
BY InitTypes, NextTypes, PTL DEF Spec

-----------------------------------------------------------------------------
(* Pruning, however the runs overlap.                                      *)

Newer(k, d) == {e \in Backups(k) : e > d}

\* What a run is about to remove has Keep newer backups beside it, also after
\* the other run removed what it found.
DoomedAreOld ==
    \A p \in Processes, k \in Kinds :
        At(p, Pruning(k)) => \A d \in run[p].doomed : Cardinality(Newer(k, d)) >= Keep

PruneIInv == TypeOK /\ DoomedAreOld

\* More files, more newer ones.
LEMMA NewerGrows ==
    ASSUME NEW S \in SUBSET Dates, NEW T \in SUBSET Dates, NEW d \in Int,
           {e \in S : e > d} \subseteq T
    PROVE  /\ Cardinality({e \in S : e > d}) \in Nat
           /\ Cardinality({e \in T : e > d}) \in Nat
           /\ Cardinality({e \in S : e > d}) <= Cardinality({e \in T : e > d})
<1>1. IsFiniteSet({e \in S : e > d}) /\ IsFiniteSet({e \in T : e > d})
  BY DatesFinite, FS_Subset
<1>2. {e \in S : e > d} \subseteq {e \in T : e > d}
  OBVIOUS
<1> QED
  BY <1>1, <1>2, FS_Subset, FS_CardinalityType

\* A step of p leaves the locals of the others alone, and only listing and
\* removing lead p to where it removes files.
LEMMA StepIsLocal ==
    ASSUME run \in [Processes -> Run], NEW p \in Processes, Sidecar(p)
    PROVE  /\ \A q \in Processes : q # p => run'[q] = run[q]
           /\ \/ run'[p].pc \notin {"prune_db", "prune_images"}
              \/ \E k \in Kinds : ListBackups(p, k)
              \/ \E k \in Kinds, d \in Dates : RemoveOld(p, k, d)
<1> USE DEF DatabaseFails, ArchiveFails, Run
<1>1. CASE Begin(p)
  BY <1>1 DEF Begin
<1>2. CASE StatDatabase(p)
  BY <1>2 DEF StatDatabase
<1>3. CASE Vacuum(p)
  BY <1>3 DEF Vacuum
<1>4. CASE VacuumDone(p)
  BY <1>4 DEF VacuumDone
<1>5. CASE VacuumFails(p)
  BY <1>5 DEF VacuumFails
<1>6. CASE RenameDatabase(p)
  BY <1>6 DEF RenameDatabase
<1>7. CASE StatImages(p)
  BY <1>7 DEF StatImages
<1>8. ASSUME NEW x \in Pictures, ReadShard(p, x)
      PROVE  /\ \A q \in Processes : q # p => run'[q] = run[q]
             /\ run'[p].pc \notin {"prune_db", "prune_images"}
  BY <1>8 DEF ReadShard
<1>9. CASE CopyFile(p)
  BY <1>9 DEF CopyFile
<1>10. CASE CopyFails(p)
  BY <1>10 DEF CopyFails
<1>11. CASE CloseArchive(p)
  BY <1>11 DEF CloseArchive
<1>12. CASE RenameImages(p)
  BY <1>12 DEF RenameImages
<1>13. CASE Cleanup(p)
  BY <1>13 DEF Cleanup
<1>14. ASSUME NEW k \in Kinds, ListBackups(p, k)
       PROVE  \A q \in Processes : q # p => run'[q] = run[q]
  BY <1>14 DEF ListBackups
<1>15. ASSUME NEW k \in Kinds, PruneDone(p, k)
       PROVE  /\ \A q \in Processes : q # p => run'[q] = run[q]
              /\ run'[p].pc \notin {"prune_db", "prune_images"}
  BY <1>15 DEF PruneDone, Pruned
<1>16. ASSUME NEW k \in Kinds, NEW d \in Dates, RemoveOld(p, k, d)
       PROVE  \A q \in Processes : q # p => run'[q] = run[q]
  BY <1>16 DEF RemoveOld
<1>17. CASE EndRun(p)
  BY <1>17 DEF EndRun
<1>18. CASE Kill(p)
  BY <1>18 DEF Kill
<1> QED
  BY <1>1, <1>2, <1>3, <1>4, <1>5, <1>6, <1>7, <1>8, <1>9, <1>10, <1>11, <1>12, <1>13,
     <1>14, <1>15, <1>16, <1>17, <1>18 DEF Sidecar

\* Ending a write, well or not, leaves a file where there was one.
LEMMA ClosedIsPresent ==
    ASSUME NEW p \in Processes, NEW paths \in [Kinds -> [Dates -> File]],
           NEW state \in {"torn", "whole"}, NEW k \in Kinds, NEW d \in Dates,
           paths[k][d].state # "absent"
    PROVE  Closed(p, paths, state)[k][d].state # "absent"
BY DEF Closed, File

\* Nothing but pruning takes a backup away.
LEMMA OnlyPruningRemoves ==
    ASSUME TypeOK, NEW p \in Processes, Sidecar(p),
           ~ \E k \in Kinds, d \in Dates : RemoveOld(p, k, d)
    PROVE  \A k \in Kinds : Backups(k) \subseteq Backups(k)'
<1> SUFFICES ASSUME NEW k \in Kinds, NEW d \in Dates, named[k][d].state # "absent"
             PROVE  named'[k][d].state # "absent"
  BY DEF Backups
<1>0. named \in [Kinds -> [Dates -> File]] /\ run[p].stamp \in Dates
  BY DEF TypeOK, Run
<1>1. CASE UNCHANGED named
  BY <1>1
<1>2. CASE RenameDatabase(p)
  BY <1>0, <1>2 DEF RenameDatabase, Tmp, disk
<1>a. ASSUME \E state \in {"torn", "whole"} : named' = Closed(p, named, state)
      PROVE  named'[k][d].state # "absent"
  BY <1>0, <1>a, ClosedIsPresent
<1>3. CASE RenameImages(p)
  <2>1. CASE temp["images"][run[p].stamp].state = "absent"
    <3>1. named' = Closed(p, named, "torn")
      BY <1>3, <2>1 DEF RenameImages, ArchiveFails, Tmp
    <3> QED
      BY <1>a, <3>1
  <2>2. CASE temp["images"][run[p].stamp].state # "absent"
    BY <1>0, <1>3, <2>2 DEF RenameImages, Tmp
  <2> QED
    BY <2>1, <2>2
<1>4. CASE VacuumDone(p) \/ VacuumFails(p) \/ CopyFails(p) \/ CloseArchive(p) \/ Kill(p)
  <2>1. named' = Closed(p, named, "torn") \/ named' = Closed(p, named, "whole")
    BY <1>4 DEF VacuumDone, VacuumFails, CopyFails, CloseArchive, Kill, ArchiveFails
  <2> QED
    BY <1>a, <2>1
<1>5. CASE CopyFile(p)
  BY <1>0, <1>5, ClosedIsPresent DEF CopyFile, ArchiveFails
<1>6. ASSUME \/ Begin(p) \/ StatDatabase(p) \/ Vacuum(p) \/ StatImages(p) \/ Cleanup(p)
             \/ \E x \in Pictures : ReadShard(p, x)
             \/ \E j \in Kinds : ListBackups(p, j) \/ PruneDone(p, j)
             \/ EndRun(p)
      PROVE  UNCHANGED named
  BY <1>6 DEF Begin, StatDatabase, Vacuum, StatImages, Cleanup, ReadShard, ListBackups,
              PruneDone, EndRun, disk
<1> QED
  BY <1>1, <1>2, <1>3, <1>4, <1>5, <1>6 DEF Sidecar

\* What RemoveOld does to the backups.
LEMMA RemoveOldRemoves ==
    ASSUME TypeOK, NEW p \in Processes, NEW k \in Kinds, NEW d \in Dates, RemoveOld(p, k, d)
    PROVE  /\ Backups(k)' = Backups(k) \ {d}
           /\ \A j \in Kinds : j # k => Backups(j)' = Backups(j)
           /\ run'[p].pc = Pruning(k) /\ run'[p].doomed \subseteq run[p].doomed
<1>1. /\ named \in [Kinds -> [Dates -> File]] /\ run \in [Processes -> Run]
      /\ named' = [named EXCEPT ![k][d] = Absent]
      /\ run' = [run EXCEPT ![p].doomed = IF d \in Backups(k) THEN @ \ {d} ELSE {}]
      /\ run[p].pc = Pruning(k)
  BY DEF TypeOK, RemoveOld, At
<1>2. Backups(k)' = Backups(k) \ {d}
  BY <1>1, FileTypes DEF Backups
<1>3. \A j \in Kinds : j # k => Backups(j)' = Backups(j)
  BY <1>1 DEF Backups
<1>4. run'[p].pc = Pruning(k) /\ run'[p].doomed \subseteq run[p].doomed
  BY <1>1 DEF Run
<1> QED
  BY <1>2, <1>3, <1>4

LEMMA DoomedStayOld == PruneIInv /\ [Next]_vars => DoomedAreOld'
<1> SUFFICES ASSUME PruneIInv, [Next]_vars,
                    NEW q \in Processes, NEW j \in Kinds, At(q, Pruning(j))',
                    NEW c \in run'[q].doomed
             PROVE  Cardinality(Newer(j, c)') >= Keep
  BY DEF DoomedAreOld
<1>0. /\ TypeOK /\ DoomedAreOld /\ Keep \in Nat /\ run \in [Processes -> Run]
      /\ Backups(j) \in SUBSET Dates /\ Backups(j)' \in SUBSET Dates /\ Dates \subseteq Int
  BY BackupAssumption, DatesAreNumbers DEF PruneIInv, TypeOK, Backups
<1>1. ASSUME UNCHANGED <<run, named>>
      PROVE  Cardinality(Newer(j, c)') >= Keep
  BY <1>0, <1>1 DEF Newer, Backups, DoomedAreOld, At
<1>2. ASSUME NEW p \in Processes, NEW k \in Kinds, NEW d \in Dates, RemoveOld(p, k, d)
      PROVE  Cardinality(Newer(j, c)') >= Keep
  <2>1. Sidecar(p)
    BY <1>2 DEF Sidecar
  <2>2. c \in run[q].doomed /\ run[q].pc = Pruning(j) /\ c \in Int
    <3>1. CASE q # p
      BY <1>0, <2>1, <3>1, StepIsLocal DEF At, Run
    <3>2. CASE q = p
      <4>1. run'[p].pc = Pruning(k) /\ run'[p].doomed \subseteq run[p].doomed
        BY <1>0, <1>2, RemoveOldRemoves
      <4>2. run[p].pc = Pruning(k)
        BY <1>2 DEF RemoveOld, At
      <4> QED
        BY <1>0, <3>2, <4>1, <4>2 DEF At, Run
    <3> QED
      BY <3>1, <3>2
  <2>3. Cardinality({e \in Backups(j) : e > c}) >= Keep
    BY <1>0, <2>2 DEF DoomedAreOld, At, Newer
  <2>4. CASE j # k \/ ~ d > c
    <3>1. {e \in Backups(j)' : e > c} = {e \in Backups(j) : e > c}
      BY <1>0, <1>2, <2>4, RemoveOldRemoves
    <3> QED
      BY <2>3, <3>1 DEF Newer
  <2>5. CASE j = k /\ d > c
    <3>1. Cardinality({e \in Backups(k) : e > d}) >= Keep
      BY <1>0, <1>2 DEF RemoveOld, DoomedAreOld, Newer
    <3>2. Backups(j)' = Backups(j) \ {d}
      BY <1>0, <1>2, <2>5, RemoveOldRemoves
    <3>3. d \in Int
      BY <1>0
    <3>4. {e \in Backups(j) : e > d} \subseteq {e \in Backups(j)' : e > c}
      BY <1>0, <2>2, <2>5, <3>2, <3>3
    <3>5. /\ Cardinality({e \in Backups(j) : e > d}) \in Nat
          /\ IsFiniteSet({e \in Backups(j)' : e > c})
      BY <1>0, DatesFinite, FS_Subset, FS_CardinalityType
    <3>6. /\ Cardinality({e \in Backups(j) : e > d}) <= Cardinality({e \in Backups(j)' : e > c})
          /\ Cardinality({e \in Backups(j)' : e > c}) \in Nat
      BY <3>4, <3>5, FS_Subset, FS_CardinalityType
    <3> QED
      BY <1>0, <2>5, <3>1, <3>5, <3>6 DEF Newer
  <2> QED
    BY <2>4, <2>5
<1>3. ASSUME NEW p \in Processes, Sidecar(p),
             ~ \E k \in Kinds, d \in Dates : RemoveOld(p, k, d)
      PROVE  Cardinality(Newer(j, c)') >= Keep
  <2>1. Backups(j) \subseteq Backups(j)'
    BY <1>0, <1>3, OnlyPruningRemoves
  <2>2. CASE q # p
    <3>1. c \in run[q].doomed /\ run[q].pc = Pruning(j) /\ c \in Int
      BY <1>0, <1>3, <2>2, StepIsLocal DEF At, Run
    <3>2. Cardinality({e \in Backups(j) : e > c}) >= Keep
      BY <1>0, <3>1 DEF DoomedAreOld, At, Newer
    <3> QED
      BY <1>0, <2>1, <3>1, <3>2, NewerGrows DEF Newer
  <2>3. CASE q = p
    <3>1. run'[p].pc \in {"prune_db", "prune_images"}
      BY <2>3 DEF At, Pruning
    <3>2. PICK k \in Kinds : ListBackups(p, k)
      BY <1>0, <1>3, <3>1, StepIsLocal
    <3>3. /\ named' = named
          /\ run' = [run EXCEPT ![p].pc = Pruning(k), ![p].doomed = BeyondKeep(Backups(k))]
      BY <3>2 DEF ListBackups, disk
    <3>4. k = j
      BY <1>0, <2>3, <3>3 DEF At, Pruning, Kinds, Run
    <3>5. c \in BeyondKeep(Backups(j))
      BY <1>0, <2>3, <3>3, <3>4 DEF Run
    <3>6. Cardinality({e \in Backups(j) : e > c}) >= Keep
      BY <3>5 DEF BeyondKeep
    <3> QED
      BY <3>3, <3>6 DEF Newer, Backups
  <2> QED
    BY <2>2, <2>3
<1>4. CASE Server \/ Tick \/ UNCHANGED vars
  <2>1. UNCHANGED <<run, named>>
    BY <1>4 DEF Server, OpenDatabase, NewImageStore, Store, AddItemImage, DeleteItemImage,
                Remove, ServerStep, Tick, vars, disk
  <2> QED
    BY <1>1, <2>1
<1> QED
  BY <1>2, <1>3, <1>4 DEF Next

LEMMA PruneIInvHolds == Spec => []PruneIInv
<1>1. Init => PruneIInv
  <2>1. Init => DoomedAreOld
    BY DEF Init, DoomedAreOld, At, Pruning
  <2> QED
    BY <2>1, InitTypes DEF PruneIInv
<1>2. PruneIInv /\ [Next]_vars => PruneIInv'
  BY NextTypes, DoomedStayOld DEF PruneIInv
<1> QED
  BY <1>1, <1>2, PTL DEF Spec

\* However -once and the loop overlap, are killed or fail, a backup goes only
\* while Keep newer ones of its kind stay.
THEOREM PruningSparesTheNewest == Spec => PruneSparesTheNewest
<1> DEFINE A == \A k \in Kinds, d \in Dates :
                    d \in Backups(k) /\ d \notin Backups(k)' =>
                        Cardinality({e \in Backups(k)' : e > d}) >= Keep
<1>1. PruneIInv /\ [Next]_vars => [A]_vars
  <2> SUFFICES ASSUME PruneIInv, Next,
                      NEW k \in Kinds, NEW d \in Dates, d \in Backups(k), d \notin Backups(k)'
               PROVE  Cardinality({e \in Backups(k)' : e > d}) >= Keep
    OBVIOUS
  <2>0. TypeOK /\ DoomedAreOld
    BY DEF PruneIInv
  <2>1. CASE Server \/ Tick
    <3>1. UNCHANGED named
      BY <2>1 DEF Server, OpenDatabase, NewImageStore, Store, AddItemImage,
                  DeleteItemImage, Remove, ServerStep, Tick, disk
    <3> QED
      BY <3>1 DEF Backups
  <2>2. ASSUME NEW p \in Processes, Sidecar(p)
        PROVE  Cardinality({e \in Backups(k)' : e > d}) >= Keep
    <3>1. PICK j \in Kinds, c \in Dates : RemoveOld(p, j, c)
      BY <2>0, <2>2, OnlyPruningRemoves
    <3>2. j = k /\ c = d
      BY <2>0, <3>1, RemoveOldRemoves
    <3>3. Backups(k)' = Backups(k) \ {d}
      BY <2>0, <3>1, <3>2, RemoveOldRemoves
    <3>4. {e \in Backups(k)' : e > d} = {e \in Backups(k) : e > d}
      <4>1. d \in Int
        BY DatesAreNumbers
      <4> QED
        BY <3>3, <4>1
    <3>5. Cardinality({e \in Backups(k) : e > d}) >= Keep
      BY <2>0, <3>1, <3>2 DEF RemoveOld, DoomedAreOld, Newer
    <3> QED
      BY <3>4, <3>5
  <2> QED
    BY <2>1, <2>2 DEF Next
<1> QED
  BY <1>1, PruneIInvHolds, PTL DEF Spec, PruneSparesTheNewest

-----------------------------------------------------------------------------
(* Whole files, when runs do not overlap.  Then whatever is open at a path *)
(* belongs to the one run there is, and that run knows where it is.        *)

Writing(k) == IF k = "db" THEN {"vacuuming"} ELSE {"walk", "copy"}

Alone == \A p, q \in Processes : p = q \/ At(p, "rest") \/ At(q, "rest")

OpenIsWritten ==
    \A k \in Kinds, d \in Dates :
        temp[k][d].state = "open" =>
            LET p == temp[k][d].by IN d = run[p].stamp /\ run[p].pc \in Writing(k)

HasItsFile(p) ==
    /\ \A k \in Kinds : run[p].pc \in Writing(k) => Mine(p, Tmp(p, k))
    /\ At(p, "rename_db") => Tmp(p, "db").state = "whole"
    /\ At(p, "rename_images") => Tmp(p, "images").state = "whole"

WholeIInv ==
    /\ TypeOK
    /\ NamedIsWhole
    /\ Alone
    /\ OpenIsWritten
    /\ \A p \in Processes : HasItsFile(p)

\* A write that ends touches nothing else.
LEMMA ClosedAt ==
    ASSUME NEW p \in Processes, NEW paths \in [Kinds -> [Dates -> File]],
           NEW state, NEW k \in Kinds, NEW d \in Dates
    PROVE  /\ Mine(p, paths[k][d]) => Closed(p, paths, state)[k][d].state = state
           /\ ~ Mine(p, paths[k][d]) => Closed(p, paths, state)[k][d] = paths[k][d]
BY DEF Closed, File

\* No dated name is ever open, so ending a write leaves the named files alone.
LEMMA NamedNotClosed ==
    ASSUME TypeOK, NamedIsWhole, NEW p \in Processes, NEW state
    PROVE  \A k \in Kinds, d \in Dates : Closed(p, named, state)[k][d] = named[k][d]
<1>1. named \in [Kinds -> [Dates -> File]]
  BY DEF TypeOK
<1>2. \A k \in Kinds, d \in Dates : ~ Mine(p, named[k][d])
  BY DEF NamedIsWhole, Mine
<1> QED
  BY <1>1, <1>2, ClosedAt

\* A step of the only process in a run.
LEMMA OnlyRunStep ==
    ASSUME WholeIInv, NEW p \in Processes, Sidecar(p),
           \A q \in Processes : q = p \/ At(q, "rest")
    PROVE  NamedIsWhole' /\ OpenIsWritten' /\ HasItsFile(p)'
<1> USE DEF At, Tmp, Mine, disk
<1>0. /\ TypeOK /\ NamedIsWhole /\ OpenIsWritten /\ HasItsFile(p)
      /\ temp \in [Kinds -> [Dates -> File]] /\ named \in [Kinds -> [Dates -> File]]
      /\ run \in [Processes -> Run] /\ run[p].stamp \in Dates
      /\ "db" \in Kinds /\ "images" \in Kinds
  BY DEF WholeIInv, TypeOK, Run, Kinds
<1>1. \A k \in Kinds, d \in Dates :
        temp[k][d].state = "open" =>
            temp[k][d].by = p /\ d = run[p].stamp /\ run[p].pc \in Writing(k)
  <2> SUFFICES ASSUME NEW k \in Kinds, NEW d \in Dates, temp[k][d].state = "open"
               PROVE  temp[k][d].by = p /\ d = run[p].stamp /\ run[p].pc \in Writing(k)
    OBVIOUS
  <2> DEFINE q == temp[k][d].by
  <2>1. q \in Processes
    BY <1>0 DEF File
  <2>2. d = run[q].stamp /\ run[q].pc \in Writing(k)
    BY <1>0 DEF OpenIsWritten
  <2>3. run[q].pc # "rest"
    BY <2>2 DEF Writing
  <2>4. q = p
    BY <2>1, <2>3
  <2> QED
    BY <2>2, <2>4
<1>2. \A state \in {"torn", "whole"}, k \in Kinds, d \in Dates :
        Closed(p, temp, state)[k][d].state # "open"
  BY <1>0, <1>1, ClosedAt
\* Steps that write nothing, at a moment when nothing is open.
<1>3. ASSUME \A k \in Kinds : run[p].pc \notin Writing(k)
      PROVE  \A k \in Kinds, d \in Dates : temp[k][d].state # "open"
  BY <1>1, <1>3
<1>4. ASSUME \A k \in Kinds, d \in Dates : named'[k][d].state \in {"absent", "whole"},
             \A k \in Kinds, d \in Dates : temp'[k][d].state # "open",
             run'[p].pc \notin {"vacuuming", "walk", "copy", "rename_db", "rename_images"}
      PROVE  NamedIsWhole' /\ OpenIsWritten' /\ HasItsFile(p)'
  BY <1>4 DEF NamedIsWhole, OpenIsWritten, HasItsFile, Writing
<1>5. \A state : \A k \in Kinds, d \in Dates :
        Closed(p, named, state)[k][d].state \in {"absent", "whole"}
  BY <1>0, NamedNotClosed DEF NamedIsWhole
<1> DEFINE Goal == NamedIsWhole' /\ OpenIsWritten' /\ HasItsFile(p)'
<1>6. ASSUME \/ Begin(p) \/ EndRun(p)
             \/ \E k \in Kinds : ListBackups(p, k) \/ PruneDone(p, k)
      PROVE  Goal
  <2>1. UNCHANGED <<temp, named>>
    BY <1>6 DEF Begin, EndRun, ListBackups, PruneDone
  <2>2. \A k \in Kinds : run[p].pc \notin Writing(k)
    BY <1>6 DEF Begin, EndRun, ListBackups, PruneDone, Listing, Pruning, Writing
  <2>3. run'[p].pc \in {"stat_db", "rest", "prune_db", "prune_images", "list_images", "end"}
    <3>1. CASE Begin(p)
      BY <1>0, <3>1 DEF Begin, Run
    <3>2. CASE EndRun(p)
      BY <1>0, <3>2 DEF EndRun, Run
    <3>3. ASSUME NEW k \in Kinds, ListBackups(p, k)
          PROVE  run'[p].pc \in {"prune_db", "prune_images"}
      BY <1>0, <3>3 DEF ListBackups, Pruning, Run
    <3>4. ASSUME NEW k \in Kinds, PruneDone(p, k)
          PROVE  run'[p].pc \in {"list_images", "end"}
      BY <1>0, <3>4 DEF PruneDone, Pruned, Run
    <3> QED
      BY <1>6, <3>1, <3>2, <3>3, <3>4
  <2> QED
    BY <1>0, <1>3, <1>4, <2>1, <2>2, <2>3 DEF NamedIsWhole
<1>7. CASE StatDatabase(p)
  <2>1. run'[p].pc \in {"stat_images", "vacuum"} /\ run[p].pc = "stat_db" /\ named' = named
    <3>1. run[p].pc = "stat_db" /\ named' = named
      BY <1>7 DEF StatDatabase
    <3>2. run'[p].pc = "stat_images" \/ run'[p].pc = "vacuum"
      BY <1>0, <1>7 DEF StatDatabase, DatabaseFails, Run
    <3> QED
      BY <3>1, <3>2
  <2>2. \A k \in Kinds, d \in Dates : temp'[k][d].state # "open"
    <3>1. \A k \in Kinds, d \in Dates : temp[k][d].state # "open"
      BY <1>0, <1>3, <2>1 DEF Writing
    <3>2. \/ temp' = temp
          \/ temp' = [temp EXCEPT !["db"][run[p].stamp] = Absent]
      BY <1>7 DEF StatDatabase
    <3>3. Absent.state # "open"
      BY FileTypes
    <3> HIDE DEF Absent
    <3> QED
      BY <1>0, <3>1, <3>2, <3>3, ZenonT(30)
  <2> QED
    BY <1>0, <1>4, <2>1, <2>2 DEF NamedIsWhole
<1>8. CASE Vacuum(p)
  <2>1. run[p].pc = "vacuum" /\ named' = named /\ \A k \in Kinds, d \in Dates : temp[k][d].state # "open"
    BY <1>3, <1>8 DEF Vacuum, Writing
  <2>2. CASE temp["db"][run[p].stamp].state = "absent"
    <3> DEFINE f == [state |-> "open", by |-> p, pictures |-> Rows,
                     commits |-> commits, at |-> now]
    <3>1. /\ temp' = [temp EXCEPT !["db"][run[p].stamp] = f]
          /\ run' = [run EXCEPT ![p].pc = "vacuuming"]
      BY <1>8, <2>2 DEF Vacuum
    <3>2. run'[p].pc = "vacuuming" /\ run'[p].stamp = run[p].stamp
      BY <1>0, <3>1 DEF Run
    <3>3. /\ temp'["db"][run[p].stamp] = f
          /\ \A k \in Kinds, d \in Dates :
                k # "db" \/ d # run[p].stamp => temp'[k][d] = temp[k][d]
      BY <1>0, <3>1
    <3>4. NamedIsWhole'
      BY <1>0, <2>1 DEF NamedIsWhole
    <3>5. OpenIsWritten'
      BY <2>1, <3>2, <3>3 DEF OpenIsWritten, Writing
    <3>6. HasItsFile(p)'
      BY <3>2, <3>3 DEF HasItsFile, Writing, Kinds
    <3> QED
      BY <3>4, <3>5, <3>6
  <2>3. CASE temp["db"][run[p].stamp].state # "absent"
    <3>1. run'[p].pc = "stat_images"
      BY <1>0, <1>8, <2>3 DEF Vacuum, DatabaseFails, Run
    <3>2. \A k \in Kinds, d \in Dates : temp'[k][d].state # "open"
      <4>1. temp' = [temp EXCEPT !["db"][run[p].stamp] = Absent]
        BY <1>8, <2>3 DEF Vacuum
      <4> QED
        BY <1>0, <2>1, <4>1, FileTypes
    <3> QED
      BY <1>0, <1>4, <2>1, <3>1, <3>2 DEF NamedIsWhole
  <2> QED
    BY <2>2, <2>3
<1>9. ASSUME VacuumDone(p) \/ CloseArchive(p) PROVE Goal
  <2>1. temp' = Closed(p, temp, "whole") /\ named' = Closed(p, named, "whole")
    BY <1>9 DEF VacuumDone, CloseArchive
  <2>2. \A k \in Kinds, d \in Dates :
            temp'[k][d].state # "open" /\ named'[k][d].state \in {"absent", "whole"}
    BY <1>2, <1>5, <2>1
  <2>3. CASE VacuumDone(p)
    <3>1. run'[p].pc = "rename_db" /\ run'[p].stamp = run[p].stamp /\ run[p].pc = "vacuuming"
      BY <1>0, <2>3 DEF VacuumDone, Run
    <3>2. Mine(p, temp["db"][run[p].stamp])
      BY <1>0, <3>1 DEF HasItsFile, Writing
    <3>3. temp'["db"][run[p].stamp].state = "whole"
      BY <1>0, <2>1, <3>2, ClosedAt
    <3> QED
      BY <2>2, <3>1, <3>3 DEF NamedIsWhole, OpenIsWritten, HasItsFile, Writing
  <2>4. CASE CloseArchive(p)
    <3>1. run'[p].pc = "rename_images" /\ run'[p].stamp = run[p].stamp /\ run[p].pc = "walk"
      BY <1>0, <2>4 DEF CloseArchive, Run
    <3>2. Mine(p, temp["images"][run[p].stamp])
      BY <1>0, <3>1 DEF HasItsFile, Writing
    <3>3. temp'["images"][run[p].stamp].state = "whole"
      BY <1>0, <2>1, <3>2, ClosedAt
    <3> QED
      BY <2>2, <3>1, <3>3 DEF NamedIsWhole, OpenIsWritten, HasItsFile, Writing
  <2> QED
    BY <1>9, <2>3, <2>4
<1>10. CASE VacuumFails(p)
  <2>1. /\ run'[p].pc = "stat_images" /\ named' = Closed(p, named, "torn")
        /\ temp' = [Closed(p, temp, "torn") EXCEPT !["db"][run[p].stamp] = Absent]
    BY <1>0, <1>10 DEF VacuumFails, DatabaseFails, Run
  <2>2. Closed(p, temp, "torn") \in [Kinds -> [Dates -> File]]
    BY <1>0, ClosedType
  <2>3. \A k \in Kinds, d \in Dates : temp'[k][d].state # "open"
    BY <1>0, <1>2, <2>1, <2>2, FileTypes
  <2> QED
    BY <1>4, <1>5, <2>1, <2>3
<1>11. CASE RenameDatabase(p)
  <2>1. /\ run'[p].pc = "stat_images" /\ run[p].pc = "rename_db"
        /\ temp["db"][run[p].stamp].state = "whole"
    BY <1>0, <1>11 DEF RenameDatabase, DatabaseFails, Run, HasItsFile
  <2>2. /\ named' = [named EXCEPT !["db"][run[p].stamp] = temp["db"][run[p].stamp]]
        /\ temp' = [temp EXCEPT !["db"][run[p].stamp] = Absent]
    BY <1>11, <2>1 DEF RenameDatabase
  <2>3. \A k \in Kinds, d \in Dates : temp'[k][d].state # "open"
    BY <1>0, <1>3, <2>1, <2>2, FileTypes DEF Writing
  <2>4. \A k \in Kinds, d \in Dates : named'[k][d].state \in {"absent", "whole"}
    BY <1>0, <2>1, <2>2 DEF NamedIsWhole
  <2> QED
    BY <1>4, <2>1, <2>3, <2>4
<1>12. CASE StatImages(p)
  <2>1. run[p].pc = "stat_images" /\ named' = named
        /\ \A k \in Kinds, d \in Dates : temp[k][d].state # "open"
    BY <1>3, <1>12 DEF StatImages, Writing
  <2>2. CASE server = "up"
    <3> DEFINE f == [state |-> "open", by |-> p, pictures |-> {},
                     commits |-> commits, at |-> now]
    <3>1. temp' = [temp EXCEPT !["images"][run[p].stamp] =
                        IF temp["images"][run[p].stamp].state = "open" THEN Torn ELSE f]
      BY <1>0, <1>12, <2>2 DEF StatImages
    <3>2. run'[p].pc = "walk" /\ run'[p].stamp = run[p].stamp
      BY <1>0, <1>12, <2>2 DEF StatImages, Run
    <3>3. temp' = [temp EXCEPT !["images"][run[p].stamp] = f]
      BY <1>0, <2>1, <3>1
    <3>4. /\ temp'["images"][run[p].stamp] = f
          /\ \A k \in Kinds, d \in Dates :
                k # "images" \/ d # run[p].stamp => temp'[k][d] = temp[k][d]
      BY <1>0, <3>3
    <3>5. NamedIsWhole'
      BY <1>0, <2>1 DEF NamedIsWhole
    <3>6. OpenIsWritten'
      BY <2>1, <3>2, <3>4 DEF OpenIsWritten, Writing
    <3>7. HasItsFile(p)'
      BY <3>2, <3>4 DEF HasItsFile, Writing, Kinds
    <3> QED
      BY <3>5, <3>6, <3>7
  <2>3. CASE server # "up"
    <3>1. run'[p].pc = "list_db" /\ temp' = temp
      BY <1>0, <1>12, <2>3 DEF StatImages, Run
    <3> QED
      BY <1>0, <1>4, <2>1, <3>1 DEF NamedIsWhole
  <2> QED
    BY <2>2, <2>3
<1>13. ASSUME NEW x \in Pictures, ReadShard(p, x) PROVE Goal
  <2>1. /\ UNCHANGED <<temp, named>> /\ run[p].pc = "walk"
        /\ run'[p].pc \in {"walk", "copy"} /\ run'[p].stamp = run[p].stamp
    BY <1>0, <1>13 DEF ReadShard, Run
  <2>2. Mine(p, temp["images"][run[p].stamp])
    BY <1>0, <2>1 DEF HasItsFile, Writing
  <2>3. NamedIsWhole'
    BY <1>0, <2>1 DEF NamedIsWhole
  <2>4. OpenIsWritten'
    BY <1>1, <2>1 DEF OpenIsWritten, Writing, Kinds
  <2>5. HasItsFile(p)'
    BY <2>1, <2>2 DEF HasItsFile, Writing, Kinds
  <2> QED
    BY <2>3, <2>4, <2>5
\* The archive is given up.
<1>14. ASSUME ArchiveFails(p) PROVE Goal
  <2>1. run'[p].pc = "cleanup"
    BY <1>0, <1>14 DEF ArchiveFails, Run
  <2> QED
    BY <1>2, <1>4, <1>5, <1>14, <2>1 DEF ArchiveFails
<1>15. CASE CopyFile(p)
  <2>1. CASE run[p].at \in OnDisk
    <3>1. /\ run[p].pc = "copy" /\ run'[p].pc = "walk" /\ run'[p].stamp = run[p].stamp
          /\ named' = named
      BY <1>0, <1>15, <2>1 DEF CopyFile, Run
    <3>2. \A k \in Kinds, d \in Dates :
              temp'[k][d].state = temp[k][d].state /\ temp'[k][d].by = temp[k][d].by
      <4>1. temp' = [k \in Kinds |-> [d \in Dates |->
                        IF Mine(p, temp[k][d])
                        THEN [temp[k][d] EXCEPT !.pictures = @ \cup {run[p].at}]
                        ELSE temp[k][d]]]
        BY <1>15, <2>1 DEF CopyFile
      <4> SUFFICES ASSUME NEW k \in Kinds, NEW d \in Dates
                   PROVE  /\ temp'[k][d].state = temp[k][d].state
                          /\ temp'[k][d].by = temp[k][d].by
        OBVIOUS
      <4>2. temp'[k][d] = IF Mine(p, temp[k][d])
                          THEN [temp[k][d] EXCEPT !.pictures = @ \cup {run[p].at}]
                          ELSE temp[k][d]
        BY <4>1
      <4>3. temp[k][d] \in File
        BY <1>0
      <4> QED
        BY <4>2, <4>3 DEF File
    <3>3. Mine(p, temp["images"][run[p].stamp])
      BY <1>0, <3>1 DEF HasItsFile, Writing
    <3>4. NamedIsWhole'
      BY <1>0, <3>1 DEF NamedIsWhole
    <3>5. OpenIsWritten'
      BY <1>1, <3>1, <3>2 DEF OpenIsWritten, Writing, Kinds
    <3>6. HasItsFile(p)'
      BY <1>0, <3>1, <3>2, <3>3 DEF HasItsFile, Writing, Kinds
    <3> QED
      BY <3>4, <3>5, <3>6
  <2>2. CASE run[p].at \notin OnDisk
    BY <1>14, <1>15, <2>2 DEF CopyFile
  <2> QED
    BY <2>1, <2>2
<1>16. CASE CopyFails(p)
  BY <1>14, <1>16 DEF CopyFails
<1>17. CASE RenameImages(p)
  <2>1. run[p].pc = "rename_images" /\ temp["images"][run[p].stamp].state = "whole"
    BY <1>0, <1>17 DEF RenameImages, HasItsFile
  <2>2. /\ named' = [named EXCEPT !["images"][run[p].stamp] = temp["images"][run[p].stamp]]
        /\ temp' = [temp EXCEPT !["images"][run[p].stamp] = Absent]
        /\ run'[p].pc = "cleanup"
    BY <1>0, <1>17, <2>1 DEF RenameImages, Run
  <2>3. \A k \in Kinds, d \in Dates : temp'[k][d].state # "open"
    BY <1>0, <1>3, <2>1, <2>2, FileTypes DEF Writing
  <2>4. \A k \in Kinds, d \in Dates : named'[k][d].state \in {"absent", "whole"}
    BY <1>0, <2>1, <2>2 DEF NamedIsWhole
  <2> QED
    BY <1>4, <2>2, <2>3, <2>4
<1>18. CASE Cleanup(p)
  <2>1. run'[p].pc = "list_db" /\ run[p].pc = "cleanup" /\ named' = named
    BY <1>0, <1>18 DEF Cleanup, Run
  <2>2. \A k \in Kinds, d \in Dates : temp'[k][d].state # "open"
    BY <1>0, <1>3, <1>18, <2>1, FileTypes DEF Cleanup, Writing
  <2> QED
    BY <1>0, <1>4, <2>1, <2>2 DEF NamedIsWhole
<1>19. ASSUME NEW k \in Kinds, NEW d \in Dates, RemoveOld(p, k, d) PROVE Goal
  <2>1. /\ temp' = temp /\ named' = [named EXCEPT ![k][d] = Absent]
        /\ run[p].pc = Pruning(k) /\ run'[p].pc = run[p].pc
    BY <1>0, <1>19 DEF RemoveOld, Run
  <2>2. run[p].pc \in {"prune_db", "prune_images"}
    BY <2>1 DEF Pruning
  <2>3. \A j \in Kinds, e \in Dates : temp'[j][e].state # "open"
    BY <1>3, <2>1, <2>2 DEF Writing
  <2>4. \A j \in Kinds, e \in Dates : named'[j][e].state \in {"absent", "whole"}
    BY <1>0, <2>1, FileTypes DEF NamedIsWhole
  <2> QED
    BY <1>4, <2>1, <2>2, <2>3, <2>4
<1>20. CASE Kill(p)
  <2>1. /\ run'[p].pc = "rest"
        /\ temp' = Closed(p, temp, "torn") /\ named' = Closed(p, named, "torn")
    BY <1>0, <1>20 DEF Kill, Run
  <2> QED
    BY <1>2, <1>4, <1>5, <2>1
<1> QED
  BY <1>6, <1>7, <1>8, <1>9, <1>10, <1>11, <1>12, <1>13, <1>15, <1>16, <1>17, <1>18,
     <1>19, <1>20 DEF Sidecar

\* The loop's container is restarted between its runs, perhaps during another.
LEMMA RestartAtRest ==
    ASSUME WholeIInv, NEW p \in Processes, Kill(p), At(p, "rest")
    PROVE  NamedIsWhole' /\ OpenIsWritten' /\ \A q \in Processes : HasItsFile(q)'
<1> USE DEF At, Tmp, Mine
<1>0. /\ TypeOK /\ NamedIsWhole /\ OpenIsWritten /\ \A q \in Processes : HasItsFile(q)
      /\ temp \in [Kinds -> [Dates -> File]] /\ named \in [Kinds -> [Dates -> File]]
      /\ run \in [Processes -> Run]
  BY DEF WholeIInv, TypeOK
<1>1. \A k \in Kinds, d \in Dates : ~ Mine(p, temp[k][d])
  BY <1>0 DEF OpenIsWritten, Writing
<1>2. \A k \in Kinds, d \in Dates : temp'[k][d] = temp[k][d] /\ named'[k][d] = named[k][d]
  <2>1. temp' = Closed(p, temp, "torn") /\ named' = Closed(p, named, "torn")
    BY DEF Kill
  <2>2. \A k \in Kinds, d \in Dates : temp'[k][d] = temp[k][d]
    BY <1>0, <1>1, <2>1, ClosedAt
  <2> QED
    BY <1>0, <2>1, <2>2, NamedNotClosed
<1>3. /\ \A q \in Processes : run'[q].pc = run[q].pc /\ run'[q].stamp = run[q].stamp
      /\ \A q \in Processes : run[q].stamp \in Dates
  BY <1>0 DEF Kill, Run
<1>4. NamedIsWhole'
  BY <1>0, <1>2 DEF NamedIsWhole
<1>5. OpenIsWritten'
  BY <1>0, <1>2, <1>3 DEF OpenIsWritten, File
<1>6. ASSUME NEW q \in Processes PROVE HasItsFile(q)'
  <2>1. HasItsFile(q)
    BY <1>0
  <2> QED
    BY <1>2, <1>3, <2>1 DEF HasItsFile, Kinds
<1> QED
  BY <1>4, <1>5, <1>6

LEMMA WholeIInvStep ==
    ASSUME Overlap = FALSE, WholeIInv, [Next]_vars
    PROVE  WholeIInv'
<1> USE DEF At
<1>0. TypeOK /\ run \in [Processes -> Run] /\ Alone
  BY DEF WholeIInv, TypeOK
<1>1. TypeOK'
  BY <1>0, NextTypes
<1>2. ASSUME NEW p \in Processes, Sidecar(p) PROVE WholeIInv'
  <2>1. \A q \in Processes : q # p => run'[q] = run[q]
    BY <1>0, <1>2, StepIsLocal
  <2>2. CASE \A q \in Processes : q = p \/ At(q, "rest")
    <3>1. NamedIsWhole' /\ OpenIsWritten' /\ HasItsFile(p)'
      BY <1>2, <2>2, OnlyRunStep
    <3>2. \A q \in Processes : q # p => run'[q].pc = "rest"
      BY <2>1, <2>2
    <3>3. Alone'
      BY <3>2 DEF Alone
    <3>4. \A q \in Processes : HasItsFile(q)'
      BY <3>1, <3>2 DEF HasItsFile, Writing
    <3> QED
      BY <1>1, <3>1, <3>3, <3>4 DEF WholeIInv
  <2>3. CASE ~ \A q \in Processes : q = p \/ At(q, "rest")
    <3>1. run[p].pc = "rest"
      BY <1>0, <2>3 DEF Alone
    <3>2. ~ Begin(p)
      BY <2>3 DEF Begin, Resting
    <3>3. Kill(p)
      BY <1>2, <3>1, <3>2
         DEF Sidecar, StatDatabase, Vacuum, VacuumDone, VacuumFails, RenameDatabase,
             StatImages, ReadShard, CopyFile, CopyFails, CloseArchive, RenameImages,
             Cleanup, ListBackups, RemoveOld, PruneDone, EndRun, Listing, Pruning
    <3>4. run'[p].pc = "rest"
      BY <1>0, <3>3 DEF Kill, Run
    <3>5. Alone'
      BY <1>0, <2>1, <3>1, <3>4 DEF Alone
    <3> QED
      BY <1>1, <3>1, <3>3, <3>5, RestartAtRest DEF WholeIInv
  <2> QED
    BY <2>2, <2>3
<1>3. CASE Server \/ Tick \/ UNCHANGED vars
  <2>1. UNCHANGED <<run, temp, named>>
    BY <1>3 DEF Server, OpenDatabase, NewImageStore, Store, AddItemImage, DeleteItemImage,
                Remove, ServerStep, Tick, vars, disk
  <2> QED
    BY <1>1, <2>1 DEF WholeIInv, NamedIsWhole, Alone, OpenIsWritten, HasItsFile, Tmp, Mine
<1> QED
  BY <1>2, <1>3 DEF Next

\* Whatever step a run is killed or fails at, a dated name never has anything
\* but a complete copy, as long as runs do not overlap.
THEOREM NamedStaysWhole == ASSUME Overlap = FALSE PROVE Spec => []NamedIsWhole
<1>1. Init => WholeIInv
  <2> SUFFICES ASSUME Init PROVE WholeIInv
    OBVIOUS
  <2>1. /\ \A k \in Kinds, d \in Dates :
              temp[k][d].state = "absent" /\ named[k][d].state = "absent"
        /\ \A p \in Processes : run[p].pc = "rest"
    BY FileTypes DEF Init
  <2> QED
    BY <2>1, InitTypes
       DEF WholeIInv, NamedIsWhole, Alone, At, OpenIsWritten, HasItsFile, Writing
<1>2. WholeIInv /\ [Next]_vars => WholeIInv'
  BY WholeIInvStep
<1>3. WholeIInv => NamedIsWhole
  BY DEF WholeIInv
<1> QED
  BY <1>1, <1>2, <1>3, PTL DEF Spec

-----------------------------------------------------------------------------
(* What one step of a run does, when runs do not overlap.                  *)

Carrying(k)  == IF k = "db" THEN {"vacuuming", "rename_db"} ELSE {"walk", "copy", "rename_images"}
Opening(k)   == IF k = "db" THEN "vacuum" ELSE "stat_images"
Renaming(k)  == IF k = "db" THEN "rename_db" ELSE "rename_images"
Following(k) == IF k = "db" THEN "stat_images" ELSE "cleanup"

SameRun(p) ==
    /\ run'[p].stamp = run[p].stamp /\ run'[p].began = run[p].began
    /\ run'[p].ok = run[p].ok /\ run'[p].wake = run[p].wake

\* How the rest of the run goes on, with what is left of the walk.
StillToCome(p) == run[p].todo \cup (IF At(p, "copy") THEN {run[p].at} ELSE {})

Opens(p, k) ==
    /\ At(p, Opening(k)) /\ run'[p].pc \in Carrying(k) \ {"rename_db", "rename_images", "copy"}
    /\ SameRun(p) /\ UNCHANGED <<named, quiet>>
    /\ Tmp(p, k)' = [state |-> "open", by |-> p, pictures |-> IF k = "db" THEN Rows ELSE {},
                     commits |-> commits, at |-> now]
    /\ k = "images" => server = "up" /\ run'[p].todo = Shards

Continues(p, k) ==
    /\ run[p].pc \in Carrying(k) /\ run'[p].pc \in Carrying(k)
    /\ SameRun(p) /\ UNCHANGED <<named, quiet>>
    /\ Tmp(p, k)'.by = Tmp(p, k).by /\ Tmp(p, k)'.commits = Tmp(p, k).commits
    /\ Tmp(p, k)'.at = Tmp(p, k).at
    /\ k = "images" =>
          /\ (Tmp(p, k).pictures \cup StillToCome(p)) \cap OnDisk
                \subseteq Tmp(p, k)'.pictures \cup StillToCome(p)'
          /\ At(p, "rename_images")' => run'[p].todo = {}

Renames(p, k) ==
    /\ At(p, Renaming(k)) /\ At(p, Following(k))'
    /\ SameRun(p) /\ UNCHANGED quiet
    /\ named' = [named EXCEPT ![k][run[p].stamp] = Tmp(p, k)]

\* Giving up one of the two copies.
Fails(p, k) ==
    /\ run[p].pc \in (IF k = "db" THEN {"stat_db", "vacuum", "vacuuming"} ELSE {"copy"})
    /\ At(p, Following(k))'
    /\ run'[p].stamp = run[p].stamp /\ run'[p].began = run[p].began
    /\ ~ run'[p].ok
    /\ UNCHANGED named /\ quiet' = [quiet EXCEPT ![k] = now]

Later == {"list_db", "prune_db", "list_images", "prune_images", "end"}

\* Steps that copy nothing.
Passes(p) ==
    /\ \/ At(p, "stat_db") /\ At(p, "vacuum")'
       \/ At(p, "stat_images") /\ server # "up" /\ At(p, "list_db")'
       \/ At(p, "cleanup") /\ At(p, "list_db")'
       \/ run[p].pc \in Later /\ run'[p].pc \in Later
    /\ SameRun(p) /\ UNCHANGED <<named, quiet>>

Steps(p) ==
    \/ Begin(p)
    \/ \E k \in Kinds : Opens(p, k) \/ Continues(p, k) \/ Renames(p, k) \/ Fails(p, k)
    \/ \E k \in Kinds, d \in Dates : RemoveOld(p, k, d)
    \/ Passes(p)
    \/ EndRun(p)
    \/ Kill(p)

LEMMA NamedIsLeft ==
    ASSUME TypeOK, NamedIsWhole, NEW p \in Processes, NEW state
    PROVE  Closed(p, named, state) = named
<1>1. named \in [Kinds -> [Dates -> File]]
  BY DEF TypeOK
<1>2. \A k \in Kinds, d \in Dates : ~ Mine(p, named[k][d])
  BY DEF NamedIsWhole, Mine
<1> QED
  BY <1>1, <1>2 DEF Closed

LEMMA ClosedKeeps ==
    ASSUME NEW p \in Processes, NEW state, NEW k \in Kinds, NEW d \in Dates,
           temp \in [Kinds -> [Dates -> File]]
    PROVE  /\ Closed(p, temp, state)[k][d].by = temp[k][d].by
           /\ Closed(p, temp, state)[k][d].pictures = temp[k][d].pictures
           /\ Closed(p, temp, state)[k][d].commits = temp[k][d].commits
           /\ Closed(p, temp, state)[k][d].at = temp[k][d].at
BY DEF Closed, File

LEMMA StepsAre ==
    ASSUME WholeIInv, NEW p \in Processes, Sidecar(p), HasItsFile(p)
    PROVE  Steps(p)
<1> USE DEF At, Tmp, disk, SameRun
<1>0. /\ TypeOK /\ NamedIsWhole /\ OpenIsWritten
      /\ temp \in [Kinds -> [Dates -> File]] /\ named \in [Kinds -> [Dates -> File]]
      /\ run \in [Processes -> Run] /\ run[p] \in Run /\ run[p].stamp \in Dates
      /\ "db" \in Kinds /\ "images" \in Kinds
      /\ \A state : Closed(p, named, state) = named
  BY NamedIsLeft DEF WholeIInv, TypeOK, Run, Kinds
<1>a. ASSUME \E k \in Kinds : Opens(p, k) \/ Continues(p, k) \/ Renames(p, k) \/ Fails(p, k)
      PROVE  Steps(p)
  BY <1>a DEF Steps
<1>1. CASE StatDatabase(p)
  <2>1. CASE server = "off"
    <3>1. Fails(p, "db")
      BY <1>0, <1>1, <2>1 DEF StatDatabase, DatabaseFails, Fails, Following, Run
    <3> QED
      BY <1>0, <1>a, <3>1
  <2>2. CASE server # "off"
    <3>1. Passes(p)
      BY <1>0, <1>1, <2>2 DEF StatDatabase, Passes, Run
    <3> QED
      BY <3>1 DEF Steps
  <2> QED
    BY <2>1, <2>2
<1>2. CASE Vacuum(p)
  <2>1. CASE temp["db"][run[p].stamp].state = "absent"
    <3>1. run' = [run EXCEPT ![p].pc = "vacuuming"] /\ run[p].pc = "vacuum"
          /\ UNCHANGED <<named, quiet>>
      BY <1>2, <2>1 DEF Vacuum
    <3>2. run'[p].pc = "vacuuming" /\ SameRun(p)
      BY <1>0, <3>1 DEF Run
    <3>3. temp'["db"][run[p].stamp] = [state |-> "open", by |-> p, pictures |-> Rows,
                                       commits |-> commits, at |-> now]
      BY <1>0, <1>2, <2>1 DEF Vacuum
    <3>4. Opens(p, "db")
      BY <3>1, <3>2, <3>3 DEF Opens, Opening, Carrying
    <3> QED
      BY <1>0, <1>a, <3>4
  <2>2. CASE temp["db"][run[p].stamp].state # "absent"
    <3>1. Fails(p, "db")
      BY <1>0, <1>2, <2>2 DEF Vacuum, DatabaseFails, Fails, Following, Run
    <3> QED
      BY <1>0, <1>a, <3>1
  <2> QED
    BY <2>1, <2>2
<1>3. CASE VacuumDone(p)
  <2>1. run[p].pc = "vacuuming" /\ run' = [run EXCEPT ![p].pc = "rename_db"]
        /\ UNCHANGED <<named, quiet>>
    BY <1>0, <1>3 DEF VacuumDone
  <2>2. run'[p].pc = "rename_db" /\ SameRun(p)
    BY <1>0, <2>1 DEF Run
  <2>3. temp' = Closed(p, temp, "whole")
    BY <1>3 DEF VacuumDone
  <2>4. Continues(p, "db")
    BY <1>0, <2>1, <2>2, <2>3, ClosedKeeps DEF Continues, Carrying
  <2> QED
    BY <1>0, <1>a, <2>4
<1>4. CASE VacuumFails(p)
  <2>1. Fails(p, "db")
    BY <1>0, <1>4 DEF VacuumFails, DatabaseFails, Fails, Following, Run
  <2> QED
    BY <1>0, <1>a, <2>1
<1>5. CASE RenameDatabase(p)
  <2>1. temp["db"][run[p].stamp].state # "absent"
    BY <1>5 DEF RenameDatabase, HasItsFile
  <2>2. Renames(p, "db")
    BY <1>0, <1>5, <2>1 DEF RenameDatabase, Renames, Renaming, Following, Run
  <2> QED
    BY <1>0, <1>a, <2>2
<1>6. CASE StatImages(p)
  <2>1. CASE server # "up"
    <3>1. Passes(p)
      BY <1>0, <1>6, <2>1 DEF StatImages, Passes, Run
    <3> QED
      BY <3>1 DEF Steps
  <2>2. CASE server = "up"
    <3>1. temp["images"][run[p].stamp].state # "open"
      <4>1. ASSUME temp["images"][run[p].stamp].state = "open" PROVE FALSE
        <5> DEFINE q == temp["images"][run[p].stamp].by
        <5>1. q \in Processes /\ run[q].pc \in {"walk", "copy"}
          BY <1>0, <4>1 DEF OpenIsWritten, Writing, File
        <5>2. run[p].pc = "stat_images"
          BY <1>6 DEF StatImages
        <5> QED
          BY <5>1, <5>2 DEF WholeIInv, Alone
      <4> QED
        BY <4>1
    <3>2. run[p].pc = "stat_images" /\ UNCHANGED <<named, quiet>>
          /\ run' = [run EXCEPT ![p].pc = "walk", ![p].todo = Shards]
      BY <1>6, <2>2 DEF StatImages
    <3>3. run'[p].pc = "walk" /\ run'[p].todo = Shards /\ SameRun(p)
      BY <1>0, <3>2 DEF Run
    <3>4. temp'["images"][run[p].stamp] = [state |-> "open", by |-> p, pictures |-> {},
                                           commits |-> commits, at |-> now]
      BY <1>0, <1>6, <2>2, <3>1 DEF StatImages
    <3>5. Opens(p, "images")
      BY <2>2, <3>2, <3>3, <3>4 DEF Opens, Opening, Carrying
    <3> QED
      BY <1>0, <1>a, <3>5
  <2> QED
    BY <2>1, <2>2
<1>7. ASSUME NEW x \in Pictures, ReadShard(p, x) PROVE Steps(p)
  <2>1. run[p].pc = "walk" /\ x \in run[p].todo /\ UNCHANGED <<temp, named, quiet>>
        /\ run' = [run EXCEPT ![p].todo = @ \ {x},
                              ![p].pc = IF x \in OnDisk THEN "copy" ELSE "walk",
                              ![p].at = IF x \in OnDisk THEN x ELSE "none"]
    BY <1>7 DEF ReadShard
  <2>2. /\ SameRun(p) /\ run'[p].todo = run[p].todo \ {x}
        /\ run'[p].pc = IF x \in OnDisk THEN "copy" ELSE "walk"
        /\ x \in OnDisk => run'[p].at = x
    BY <1>0, <2>1 DEF Run
  <2>3. (temp["images"][run[p].stamp].pictures \cup StillToCome(p)) \cap OnDisk
           \subseteq temp'["images"][run'[p].stamp].pictures \cup StillToCome(p)'
    BY <2>1, <2>2 DEF StillToCome
  <2>4. run'[p].pc \in Carrying("images") /\ run[p].pc \in Carrying("images")
        /\ run'[p].pc # "rename_images"
    <3>1. CASE x \in OnDisk
      <4>1. run'[p].pc = "copy" /\ run[p].pc = "walk"
        BY <2>1, <2>2, <3>1
      <4> QED
        BY <4>1 DEF Carrying
    <3>2. CASE x \notin OnDisk
      <4>1. run'[p].pc = "walk" /\ run[p].pc = "walk"
        BY <2>1, <2>2, <3>2
      <4> QED
        BY <4>1 DEF Carrying
    <3> QED
      BY <3>1, <3>2
  <2>5. temp'["images"][run'[p].stamp] = temp["images"][run[p].stamp]
    BY <2>1, <2>2
  <2>6. Continues(p, "images")
    BY <2>1, <2>2, <2>3, <2>4, <2>5 DEF Continues
  <2> QED
    BY <1>0, <1>a, <2>6
<1>b. ASSUME ArchiveFails(p), run[p].pc = "copy" PROVE Steps(p)
  <2>1. Fails(p, "images")
    BY <1>0, <1>b DEF ArchiveFails, Fails, Following, Run
  <2> QED
    BY <1>0, <1>a, <2>1
<1>8. CASE CopyFile(p)
  <2>1. CASE run[p].at \in OnDisk
    <3>1. run[p].pc = "copy" /\ UNCHANGED <<named, quiet>>
          /\ run' = [run EXCEPT ![p].pc = "walk", ![p].at = "none"]
      BY <1>8, <2>1 DEF CopyFile
    <3>2. run'[p].pc = "walk" /\ SameRun(p) /\ run'[p].todo = run[p].todo
      BY <1>0, <3>1 DEF Run
    <3> DEFINE f == temp["images"][run[p].stamp]
    <3>3. f \in File /\ Mine(p, f)
      BY <1>0, <3>1 DEF HasItsFile, Writing
    <3>4. temp'["images"][run[p].stamp] = [f EXCEPT !.pictures = @ \cup {run[p].at}]
      <4>1. temp' = [k \in Kinds |-> [d \in Dates |->
                        IF Mine(p, temp[k][d])
                        THEN [temp[k][d] EXCEPT !.pictures = @ \cup {run[p].at}]
                        ELSE temp[k][d]]]
        BY <1>8, <2>1 DEF CopyFile
      <4> HIDE DEF Mine
      <4> QED
        BY <1>0, <3>3, <4>1
    <3>5. /\ temp'["images"][run[p].stamp].by = f.by
          /\ temp'["images"][run[p].stamp].commits = f.commits
          /\ temp'["images"][run[p].stamp].at = f.at
          /\ temp'["images"][run[p].stamp].pictures = f.pictures \cup {run[p].at}
      BY <3>3, <3>4 DEF File
    <3>6. Continues(p, "images")
      <4>1. StillToCome(p) = run[p].todo \cup {run[p].at} /\ StillToCome(p)' = run[p].todo
        BY <3>1, <3>2 DEF StillToCome
      <4>2. run'[p].pc \in Carrying("images") /\ run[p].pc \in Carrying("images")
            /\ run'[p].pc # "rename_images"
        BY <3>1, <3>2 DEF Carrying
      <4> HIDE DEF f
      <4>3. run'[p].stamp = run[p].stamp /\ temp["images"][run[p].stamp] = f
        BY <3>2 DEF f
      <4> QED
        BY <3>1, <3>2, <3>5, <4>1, <4>2, <4>3 DEF Continues
    <3> QED
      BY <1>0, <1>a, <3>6
  <2>2. CASE run[p].at \notin OnDisk
    BY <1>b, <1>8, <2>2 DEF CopyFile
  <2> QED
    BY <2>1, <2>2
<1>9. CASE CopyFails(p)
  BY <1>b, <1>9 DEF CopyFails
<1>10. CASE CloseArchive(p)
  <2>1. run[p].pc = "walk" /\ run[p].todo = {} /\ UNCHANGED <<named, quiet>>
        /\ run' = [run EXCEPT ![p].pc = "rename_images"]
    BY <1>0, <1>10 DEF CloseArchive
  <2>2. run'[p].pc = "rename_images" /\ SameRun(p) /\ run'[p].todo = {}
    BY <1>0, <2>1 DEF Run
  <2>3. temp' = Closed(p, temp, "whole")
    BY <1>10 DEF CloseArchive
  <2>4. Continues(p, "images")
    BY <1>0, <2>1, <2>2, <2>3, ClosedKeeps DEF Continues, Carrying, StillToCome
  <2> QED
    BY <1>0, <1>a, <2>4
<1>11. CASE RenameImages(p)
  <2>1. temp["images"][run[p].stamp].state # "absent"
    BY <1>11 DEF RenameImages, HasItsFile
  <2>2. Renames(p, "images")
    BY <1>0, <1>11, <2>1 DEF RenameImages, Renames, Renaming, Following, Run
  <2> QED
    BY <1>0, <1>a, <2>2
<1>12. CASE Cleanup(p)
  <2>1. Passes(p)
    BY <1>0, <1>12 DEF Cleanup, Passes, Run
  <2> QED
    BY <2>1 DEF Steps
<1>13. ASSUME NEW k \in Kinds, ListBackups(p, k) \/ PruneDone(p, k) PROVE Steps(p)
  <2>1. run[p].pc \in Later /\ run'[p].pc \in Later /\ SameRun(p)
    BY <1>0, <1>13 DEF ListBackups, PruneDone, Listing, Pruning, Pruned, Later, Kinds, Run
  <2>2. Passes(p)
    BY <1>13, <2>1 DEF Passes, ListBackups, PruneDone
  <2> QED
    BY <2>2 DEF Steps
<1> QED
  BY <1>1, <1>2, <1>3, <1>4, <1>5, <1>6, <1>7, <1>8, <1>9, <1>10, <1>11, <1>12, <1>13
     DEF Sidecar, Steps

\* The others are at rest, but while somebody restarts the loop.
LEMMA OthersRest ==
    ASSUME WholeIInv, Overlap = FALSE, NEW p \in Processes, Sidecar(p), ~ Kill(p)
    PROVE  /\ \A q \in Processes : q # p => At(q, "rest") /\ run'[q] = run[q]
           /\ Begin(p) => At(p, "rest")
<1> USE DEF At
<1>0. TypeOK /\ run \in [Processes -> Run] /\ Alone
  BY DEF WholeIInv, TypeOK
<1>1. \A q \in Processes : q # p => run'[q] = run[q]
  BY <1>0, StepIsLocal
<1>2. ASSUME NEW q \in Processes, q # p, run[q].pc # "rest" PROVE FALSE
  <2>1. run[p].pc = "rest"
    BY <1>0, <1>2 DEF Alone
  <2>2. ~ Begin(p)
    BY <1>2 DEF Begin, Resting
  <2> QED
    BY <2>1, <2>2
       DEF Sidecar, StatDatabase, Vacuum, VacuumDone, VacuumFails, RenameDatabase,
           StatImages, ReadShard, CopyFile, CopyFails, CloseArchive, RenameImages,
           Cleanup, ListBackups, RemoveOld, PruneDone, EndRun, Listing, Pruning
<1> QED
  BY <1>1, <1>2 DEF Begin

\* Killing tears what is open, and changes nothing else about a file.
LEMMA KillKeeps ==
    ASSUME WholeIInv, NEW p \in Processes, Kill(p)
    PROVE  /\ named' = named
           /\ \A q \in Processes : q # p => run'[q] = run[q]
           /\ At(p, "rest")' /\ ~ run'[p].ok /\ run'[p].wake = now
           /\ \A k \in Kinds : quiet'[k] = now
           /\ \A k \in Kinds, d \in Dates :
                 /\ temp'[k][d].by = temp[k][d].by
                 /\ temp'[k][d].pictures = temp[k][d].pictures
                 /\ temp'[k][d].commits = temp[k][d].commits
                 /\ temp'[k][d].at = temp[k][d].at
<1>0. TypeOK /\ NamedIsWhole /\ run \in [Processes -> Run]
      /\ temp \in [Kinds -> [Dates -> File]]
  BY DEF WholeIInv, TypeOK
<1>1. named' = named
  BY <1>0, NamedIsLeft DEF Kill
<1>2. temp' = Closed(p, temp, "torn")
  BY DEF Kill
<1> QED
  BY <1>0, <1>1, <1>2, ClosedKeeps DEF Kill, At, Run

-----------------------------------------------------------------------------
(* Dates and times of the copies.                                          *)

InThePast ==
    \A k \in Kinds, d \in Dates :
        /\ d \in Backups(k) => d <= Date(now)
        /\ named[k][d].commits <= commits /\ named[k][d].at <= now

\* No run has written under a later date than the one under way.
LatestIsOwn ==
    \A p \in Processes : ~ At(p, "rest") =>
        /\ run[p].stamp <= Date(now) /\ run[p].began <= now
        /\ \A k \in Kinds : \A d \in Backups(k) : d <= run[p].stamp

\* What a run is about to name is newer than all there is.
CarriesNewer ==
    \A p \in Processes, k \in Kinds : run[p].pc \in Carrying(k) =>
        /\ Tmp(p, k).by = p
        /\ Tmp(p, k).commits <= commits /\ Tmp(p, k).at <= now
        /\ run[p].began <= Tmp(p, k).at
        /\ \A d \in Dates :
              named[k][d].commits <= Tmp(p, k).commits /\ named[k][d].at <= Tmp(p, k).at

InOrder == \A k \in Kinds : \A d, e \in Backups(k) : d < e => named[k][d].at <= named[k][e].at

DoomedAreNotLast ==
    \A p \in Processes, k \in Kinds : At(p, Pruning(k)) =>
        \A d \in run[p].doomed : \E e \in Backups(k) : d < e

DatesIInv ==
    /\ WholeIInv
    /\ InThePast /\ LatestIsOwn /\ CarriesNewer /\ InOrder /\ DoomedAreNotLast

LEMMA DatesGrow ==
    ASSUME NEW s \in Times, NEW t \in Times, s <= t
    PROVE  Date(s) <= Date(t)
<1>1. s \in Int /\ t \in Int /\ DayLength \in Int /\ DayLength > 0
  BY BackupAssumption DEF Times
<1>2. /\ s \div DayLength \in Int /\ t \div DayLength \in Int
      /\ DayLength * (s \div DayLength) <= s
      /\ t < DayLength * (t \div DayLength) + DayLength
  BY <1>1
<1>3. ASSUME NEW x \in Int, NEW y \in Int, NEW n \in Int, n > 0, y + 1 <= x
      PROVE  n * y + n <= n * x
  BY <1>3
<1> QED
  BY <1>1, <1>2, <1>3 DEF Date

\* The types everything below rests on.
LEMMA Numbers ==
    ASSUME TypeOK
    PROVE  /\ now \in Int /\ commits \in Int /\ 0 <= now /\ 0 <= commits
           /\ \A k \in Kinds, d \in Dates :
                 /\ named[k][d] \in File /\ temp[k][d] \in File
                 /\ named[k][d].commits \in Int /\ named[k][d].at \in Int
                 /\ temp[k][d].commits \in Int /\ temp[k][d].at \in Int
           /\ \A p \in Processes : /\ run[p] \in Run /\ run[p].stamp \in Dates
                                   /\ run[p].began \in Int /\ run[p].wake \in Int
           /\ \A k \in Kinds : quiet[k] \in Int
           /\ Date(now) \in Dates /\ Dates \subseteq Int
<1>1. /\ now \in Times /\ \A t \in Times : t \in Int /\ 0 <= t
      /\ \A t \in 0..(MaxTime + Interval) : t \in Int
      /\ \A n \in Nat : n \in Int /\ 0 <= n
  BY BackupAssumption DEF TypeOK, Times
<1>2. Date(now) \in Dates /\ Dates \subseteq Int
  BY <1>1, DatesAreNumbers
<1>3. \A f \in File : f.commits \in Nat /\ f.at \in Times
  BY DEF File
<1>4. \A k \in Kinds, d \in Dates : named[k][d] \in File /\ temp[k][d] \in File
  BY DEF TypeOK
<1>5. \A p \in Processes : run[p] \in Run /\ run[p].stamp \in Dates
                           /\ run[p].began \in Times /\ run[p].wake \in 0..(MaxTime + Interval)
  BY DEF TypeOK, Run
<1>6. \A k \in Kinds : quiet[k] \in Times
  BY DEF TypeOK
<1>7. commits \in Nat
  BY DEF TypeOK
<1>8. \A k \in Kinds, d \in Dates :
        /\ named[k][d] \in File /\ temp[k][d] \in File
        /\ named[k][d].commits \in Int /\ named[k][d].at \in Int
        /\ temp[k][d].commits \in Int /\ temp[k][d].at \in Int
  BY <1>1, <1>3, <1>4
<1>9. \A p \in Processes : /\ run[p] \in Run /\ run[p].stamp \in Dates
                           /\ run[p].began \in Int /\ run[p].wake \in Int
  BY <1>1, <1>5
<1>10. \A k \in Kinds : quiet[k] \in Int
  BY <1>1, <1>6
<1>11. now \in Int /\ commits \in Int /\ 0 <= now /\ 0 <= commits
  BY <1>1, <1>7
<1> QED
  BY <1>2, <1>8, <1>9, <1>10, <1>11

LEMMA NothingNamedStep ==
    ASSUME TypeOK, InThePast, LatestIsOwn, CarriesNewer, InOrder, DoomedAreNotLast,
           Server \/ Tick \/ UNCHANGED vars
    PROVE  InThePast' /\ LatestIsOwn' /\ CarriesNewer' /\ InOrder' /\ DoomedAreNotLast'
<1>1. UNCHANGED <<run, temp, named>>
  BY DEF Server, OpenDatabase, NewImageStore, Store, AddItemImage, DeleteItemImage,
         Remove, ServerStep, Tick, vars, disk
<1>2. TypeOK'
  BY NextTypes DEF Next
<1>3. now <= now' /\ commits <= commits'
  BY Numbers DEF Server, OpenDatabase, NewImageStore, Store, AddItemImage, DeleteItemImage,
                 Remove, ServerStep, Tick, vars, live
<1>4. Date(now) <= Date(now')
  <2>1. now \in Times /\ now' \in Times
    BY <1>2 DEF TypeOK
  <2> QED
    BY <1>3, <2>1, DatesGrow
<1>5. /\ now' \in Int /\ commits' \in Int /\ now \in Int /\ commits \in Int
      /\ Date(now) \in Int /\ Date(now') \in Int
      /\ \A k \in Kinds, d \in Dates : /\ named[k][d].commits \in Int /\ named[k][d].at \in Int
                                      /\ temp[k][d].commits \in Int /\ temp[k][d].at \in Int
      /\ \A p \in Processes : run[p].stamp \in Dates /\ run[p].began \in Int
      /\ \A d \in Dates : d \in Int
  <2>1. now' \in Times /\ commits' \in Nat
    BY <1>2 DEF TypeOK
  <2>2. now' \in Int /\ commits' \in Int /\ Date(now') \in Int
    <3>1. \A t \in Times : t \in Int
      BY BackupAssumption DEF Times
    <3>2. Date(now') \in Dates
      BY <2>1, DatesAreNumbers
    <3>3. commits' \in Int
      BY <2>1
    <3>4. Date(now') \in Int
      BY <3>2, DatesAreNumbers
    <3>5. now' \in Int
      BY <2>1, <3>1
    <3> QED
      BY <3>3, <3>4, <3>5
  <2> QED
    BY <2>2, Numbers
<1>6. \A k \in Kinds : Backups(k)' = Backups(k)
  BY <1>1 DEF Backups
<1>7. InThePast'
  BY <1>1, <1>3, <1>4, <1>5, <1>6 DEF InThePast
<1>8. LatestIsOwn'
  BY <1>1, <1>3, <1>4, <1>5, <1>6 DEF LatestIsOwn, At
<1>9. CarriesNewer'
  BY <1>1, <1>3, <1>5 DEF CarriesNewer, Tmp
<1>10. InOrder' /\ DoomedAreNotLast'
  BY <1>1, <1>6 DEF InOrder, DoomedAreNotLast, At
<1> QED
  BY <1>7, <1>8, <1>9, <1>10

LEMMA DatesRunStep ==
    ASSUME DatesIInv, Overlap = FALSE, NEW p \in Processes, Sidecar(p)
    PROVE  InThePast' /\ LatestIsOwn' /\ CarriesNewer' /\ InOrder' /\ DoomedAreNotLast'
<1> USE DEF At
<1>0. /\ WholeIInv /\ TypeOK /\ HasItsFile(p) /\ run \in [Processes -> Run]
      /\ named \in [Kinds -> [Dates -> File]]
      /\ InThePast /\ LatestIsOwn /\ CarriesNewer /\ InOrder /\ DoomedAreNotLast
      /\ UNCHANGED <<now, commits>>
      /\ \A d \in Dates : d \in Int
  BY OtherTypes, DatesAreNumbers DEF DatesIInv, WholeIInv, TypeOK, live
\* What stays while nothing is renamed and nothing removed.
<1>1. ASSUME named' = named
      PROVE  InThePast' /\ InOrder' /\ \A k \in Kinds : Backups(k)' = Backups(k)
  BY <1>0, <1>1 DEF InThePast, InOrder, Backups
<1>2. CASE Kill(p)
  <2>1. /\ named' = named /\ \A q \in Processes : q # p => run'[q] = run[q]
        /\ run'[p].pc = "rest"
    BY <1>0, <1>2, KillKeeps
  <2>2. LatestIsOwn' /\ DoomedAreNotLast'
    BY <1>0, <1>1, <2>1 DEF LatestIsOwn, DoomedAreNotLast, Pruning
  <2>3. CarriesNewer'
    <3> SUFFICES ASSUME NEW q \in Processes, NEW k \in Kinds, run'[q].pc \in Carrying(k)
                 PROVE  /\ temp'[k][run'[q].stamp].by = q
                        /\ temp'[k][run'[q].stamp].commits <= commits
                        /\ temp'[k][run'[q].stamp].at <= now
                        /\ run'[q].began <= temp'[k][run'[q].stamp].at
                        /\ \A d \in Dates :
                              /\ named[k][d].commits <= temp'[k][run'[q].stamp].commits
                              /\ named[k][d].at <= temp'[k][run'[q].stamp].at
      BY <1>0, <2>1 DEF CarriesNewer, Tmp
    <3>1. q # p
      BY <2>1 DEF Carrying
    <3>2. run'[q] = run[q] /\ run[q].stamp \in Dates
      BY <1>0, <2>1, <3>1, Numbers
    <3> QED
      BY <1>0, <1>2, <3>2, KillKeeps DEF CarriesNewer, Tmp
  <2> QED
    BY <1>1, <2>1, <2>2, <2>3
<1> SUFFICES ASSUME ~ Kill(p)
             PROVE  InThePast' /\ LatestIsOwn' /\ CarriesNewer' /\ InOrder' /\ DoomedAreNotLast'
  BY <1>2
<1>3. \A q \in Processes : q # p => run'[q].pc = "rest"
  BY <1>0, OthersRest
<1>4. ASSUME run'[p].pc # "rest" =>
                /\ run'[p].stamp <= Date(now) /\ run'[p].began <= now
                /\ \A k \in Kinds : \A d \in Backups(k)' : d <= run'[p].stamp
      PROVE  LatestIsOwn'
  BY <1>0, <1>3, <1>4 DEF LatestIsOwn
<1>5. ASSUME \A k \in Kinds : run'[p].pc # Pruning(k)
      PROVE  DoomedAreNotLast'
  BY <1>3, <1>5 DEF DoomedAreNotLast, Pruning
<1>6. ASSUME \A k \in Kinds : run'[p].pc \notin Carrying(k)
      PROVE  CarriesNewer'
  BY <1>3, <1>6 DEF CarriesNewer, Carrying
<1>7. ASSUME run[p].pc # "rest", run'[p].stamp = run[p].stamp, run'[p].began = run[p].began,
             \A k \in Kinds : \A d \in Backups(k)' : d \in Backups(k) \/ d = run[p].stamp
      PROVE  LatestIsOwn'
  <2>1. run[p].stamp \in Int
    BY <1>0, Numbers
  <2> QED
    BY <1>0, <1>4, <1>7, <2>1 DEF LatestIsOwn
<1>8. CASE Begin(p)
  <2>1. /\ run'[p].pc = "stat_db" /\ run'[p].stamp = Date(now) /\ run'[p].began = now
        /\ named' = named
    BY <1>0, <1>8 DEF Begin, Run, disk
  <2>2. LatestIsOwn'
    <3>1. Date(now) \in Int /\ now \in Int
      BY <1>0, Numbers
    <3> QED
      BY <1>0, <1>1, <1>4, <2>1, <3>1 DEF InThePast, Backups
  <2>3. CarriesNewer' /\ DoomedAreNotLast'
    BY <1>5, <1>6, <2>1 DEF Carrying, Pruning
  <2> QED
    BY <1>1, <2>1, <2>2, <2>3
<1>9. ASSUME NEW k \in Kinds, Opens(p, k)
      PROVE  InThePast' /\ LatestIsOwn' /\ CarriesNewer' /\ InOrder' /\ DoomedAreNotLast'
  <2>1. /\ named' = named /\ run[p].pc # "rest" /\ run'[p].pc \in Carrying(k)
        /\ run'[p].stamp = run[p].stamp /\ run'[p].began = run[p].began
        /\ Tmp(p, k)'.by = p /\ Tmp(p, k)'.commits = commits /\ Tmp(p, k)'.at = now
    BY <1>9 DEF Opens, Opening, SameRun
  <2>2. LatestIsOwn'
    BY <1>1, <1>7, <2>1
  <2>3. \A j \in Kinds : run'[p].pc # Pruning(j) /\ (run'[p].pc \in Carrying(j) => j = k)
    BY <2>1 DEF Carrying, Pruning, Kinds
  <2>4. CarriesNewer'
    <3>1. commits \in Int /\ now \in Int /\ run[p].began <= now
      BY <1>0, <2>1, Numbers DEF LatestIsOwn
    <3>2. \A d \in Dates : named[k][d].commits <= commits /\ named[k][d].at <= now
      BY <1>0 DEF InThePast
    <3>3. /\ Tmp(p, k)'.commits <= commits /\ Tmp(p, k)'.at <= now
          /\ run'[p].began <= Tmp(p, k)'.at
          /\ \A d \in Dates : /\ named'[k][d].commits <= Tmp(p, k)'.commits
                              /\ named'[k][d].at <= Tmp(p, k)'.at
      BY <2>1, <3>1, <3>2
    <3> QED
      BY <1>0, <1>3, <2>1, <2>3, <3>3 DEF CarriesNewer, Carrying
  <2> QED
    BY <1>1, <1>5, <2>1, <2>2, <2>3, <2>4
<1>10. ASSUME NEW k \in Kinds, Continues(p, k)
       PROVE  InThePast' /\ LatestIsOwn' /\ CarriesNewer' /\ InOrder' /\ DoomedAreNotLast'
  <2>1. /\ named' = named /\ run[p].pc \in Carrying(k) /\ run'[p].pc \in Carrying(k)
        /\ run'[p].stamp = run[p].stamp /\ run'[p].began = run[p].began
        /\ Tmp(p, k)'.by = Tmp(p, k).by /\ Tmp(p, k)'.commits = Tmp(p, k).commits
        /\ Tmp(p, k)'.at = Tmp(p, k).at
    BY <1>10 DEF Continues, SameRun
  <2>2. run[p].pc # "rest"
    BY <2>1 DEF Carrying
  <2>3. LatestIsOwn'
    BY <1>1, <1>7, <2>1, <2>2
  <2>4. \A j \in Kinds : run'[p].pc # Pruning(j) /\ (run'[p].pc \in Carrying(j) => j = k)
    BY <2>1 DEF Carrying, Pruning, Kinds
  <2>5. CarriesNewer'
    <3>1. /\ Tmp(p, k)'.by = p
          /\ Tmp(p, k)'.commits <= commits /\ Tmp(p, k)'.at <= now
          /\ run'[p].began <= Tmp(p, k)'.at
          /\ \A d \in Dates : /\ named'[k][d].commits <= Tmp(p, k)'.commits
                              /\ named'[k][d].at <= Tmp(p, k)'.at
      BY <1>0, <2>1 DEF CarriesNewer
    <3> QED
      BY <1>0, <1>3, <2>1, <2>4, <3>1 DEF CarriesNewer, Carrying
  <2> QED
    BY <1>1, <1>5, <2>1, <2>3, <2>4, <2>5
<1>11. ASSUME NEW k \in Kinds, Renames(p, k)
       PROVE  InThePast' /\ LatestIsOwn' /\ CarriesNewer' /\ InOrder' /\ DoomedAreNotLast'
  <2> DEFINE d0 == run[p].stamp
             f  == Tmp(p, k)
  <2>1. /\ run[p].pc = Renaming(k) /\ run'[p].pc = Following(k)
        /\ run'[p].stamp = d0 /\ run'[p].began = run[p].began
        /\ named' = [named EXCEPT ![k][d0] = f]
    BY <1>11 DEF Renames, SameRun
  <2>2. run[p].pc # "rest" /\ run[p].pc \in Carrying(k)
    BY <2>1 DEF Renaming, Carrying
  <2>3. /\ \A j \in Kinds : run'[p].pc # Pruning(j) /\ run'[p].pc \notin Carrying(j)
    BY <2>1 DEF Following, Carrying, Pruning
  <2>4. /\ d0 \in Dates /\ d0 <= Date(now) /\ \A j \in Kinds : \A d \in Backups(j) : d <= d0
        /\ f.commits <= commits /\ f.at <= now
        /\ \A d \in Dates : named[k][d].commits <= f.commits /\ named[k][d].at <= f.at
    BY <1>0, <2>2, Numbers DEF LatestIsOwn, CarriesNewer
  <2> HIDE DEF f, d0
  <2>5. /\ named'[k][d0] = f
        /\ \A j \in Kinds, d \in Dates : j # k \/ d # d0 => named'[j][d] = named[j][d]
    BY <1>0, <2>1, <2>4
  <2>6. \A j \in Kinds : \A d \in Backups(j)' : d \in Backups(j) \/ (j = k /\ d = d0)
    BY <2>5 DEF Backups
  <2>7. InThePast'
    <3>1. ASSUME NEW j \in Kinds, NEW d \in Dates
          PROVE  /\ d \in Backups(j)' => d <= Date(now)
                 /\ named'[j][d].commits <= commits /\ named'[j][d].at <= now
      <4>1. CASE j = k /\ d = d0
        BY <2>4, <2>5, <4>1
      <4>2. CASE ~ (j = k /\ d = d0)
        BY <1>0, <2>5, <2>6, <4>2 DEF InThePast
      <4> QED
        BY <4>1, <4>2
    <3> QED
      BY <1>0, <3>1 DEF InThePast
  <2>8. InOrder'
    <3> SUFFICES ASSUME NEW j \in Kinds, NEW d \in Backups(j)', NEW e \in Backups(j)', d < e
                 PROVE  named'[j][d].at <= named'[j][e].at
      BY DEF InOrder
    <3>1. d \in Dates /\ e \in Dates
      BY DEF Backups
    <3>2. CASE j = k /\ e = d0
      <4>1. named'[j][d] = named[j][d]
        BY <1>0, <2>5, <3>1, <3>2
      <4> QED
        BY <2>4, <2>5, <3>1, <3>2, <4>1
    <3>3. CASE j = k /\ e # d0 /\ d = d0
      <4>1. e \in Backups(k) /\ e <= d0
        BY <2>4, <2>6, <3>3
      <4>2. d \in Int /\ e \in Int
        BY <1>0, <3>1
      <4> QED
        BY <3>3, <4>1, <4>2
    <3>4. CASE j # k \/ (e # d0 /\ d # d0)
      <4>1. d \in Backups(j) /\ e \in Backups(j)
        BY <2>6, <3>4
      <4>2. named'[j][d] = named[j][d] /\ named'[j][e] = named[j][e]
        BY <2>5, <3>1, <3>4
      <4> QED
        BY <1>0, <4>1, <4>2 DEF InOrder
    <3> QED
      BY <3>2, <3>3, <3>4
  <2>9. LatestIsOwn'
    BY <1>7, <2>1, <2>2, <2>6 DEF d0
  <2> QED
    BY <1>5, <1>6, <2>3, <2>7, <2>8, <2>9
<1>12. ASSUME NEW k \in Kinds, Fails(p, k)
       PROVE  InThePast' /\ LatestIsOwn' /\ CarriesNewer' /\ InOrder' /\ DoomedAreNotLast'
  <2>1. /\ named' = named /\ run[p].pc # "rest" /\ run'[p].pc = Following(k)
        /\ run'[p].stamp = run[p].stamp /\ run'[p].began = run[p].began
    BY <1>12 DEF Fails
  <2>2. \A j \in Kinds : run'[p].pc # Pruning(j) /\ run'[p].pc \notin Carrying(j)
    BY <2>1 DEF Following, Carrying, Pruning
  <2> QED
    BY <1>1, <1>5, <1>6, <1>7, <2>1, <2>2
<1>13. ASSUME NEW k \in Kinds, NEW d0 \in Dates, RemoveOld(p, k, d0)
       PROVE  InThePast' /\ LatestIsOwn' /\ CarriesNewer' /\ InOrder' /\ DoomedAreNotLast'
  <2>1. /\ run[p].pc = Pruning(k) /\ d0 \in run[p].doomed /\ \A e \in run[p].doomed : e <= d0
        /\ named' = [named EXCEPT ![k][d0] = Absent]
        /\ Backups(k)' = Backups(k) \ {d0}
        /\ \A j \in Kinds : j # k => Backups(j)' = Backups(j)
        /\ run'[p].pc = Pruning(k) /\ run'[p].doomed \subseteq run[p].doomed
        /\ run'[p].stamp = run[p].stamp /\ run'[p].began = run[p].began
    <3>1. run'[p].stamp = run[p].stamp /\ run'[p].began = run[p].began
      BY <1>0, <1>13 DEF RemoveOld, Run
    <3> QED
      BY <1>0, <1>13, <3>1, RemoveOldRemoves DEF RemoveOld
  <2>2. /\ run[p].pc # "rest"
        /\ \A j \in Kinds : run'[p].pc \notin Carrying(j)
        /\ \A j \in Kinds : run'[p].pc = Pruning(j) => j = k
    BY <2>1 DEF Pruning, Carrying, Kinds
  <2>3. \A j \in Kinds, d \in Dates :
            named'[j][d] = IF j = k /\ d = d0 THEN Absent ELSE named[j][d]
    BY <1>0, <2>1
  <2>4. InThePast'
    <3>1. Absent.commits = 0 /\ Absent.at = 0 /\ 0 <= commits /\ 0 <= now
      BY <1>0, Numbers DEF Absent
    <3>2. \A j \in Kinds : Backups(j)' \subseteq Backups(j)
      BY <2>1
    <3>3. ASSUME NEW j \in Kinds, NEW d \in Dates
          PROVE  named'[j][d].commits <= commits /\ named'[j][d].at <= now
      BY <1>0, <2>3, <3>1 DEF InThePast
    <3> QED
      BY <1>0, <3>2, <3>3 DEF InThePast
  <2>5. InOrder'
    <3>1. \A j \in Kinds : \A d \in Backups(j)' : d \in Backups(j) /\ named'[j][d] = named[j][d]
      BY <2>1, <2>3 DEF Backups
    <3> QED
      BY <1>0, <3>1 DEF InOrder
  <2>6. LatestIsOwn'
    BY <1>7, <2>1, <2>2
  <2>7. DoomedAreNotLast'
    <3>1. ASSUME NEW d \in run'[p].doomed
          PROVE  \E e \in Backups(k)' : d < e
      <4>1. d <= d0 /\ d \in Int /\ d0 \in Int
        BY <1>0, <2>1, Numbers DEF Run
      <4>2. PICK e \in Backups(k) : d0 < e
        BY <1>0, <2>1 DEF DoomedAreNotLast
      <4>3. e \in Int
        BY <1>0 DEF Backups
      <4> QED
        BY <2>1, <4>1, <4>2, <4>3
    <3> QED
      BY <1>3, <2>2, <3>1 DEF DoomedAreNotLast, Pruning
  <2> QED
    BY <1>6, <2>2, <2>4, <2>5, <2>6, <2>7
<1>14. ASSUME Passes(p), ~ \E j \in Kinds, c \in Dates : RemoveOld(p, j, c)
       PROVE  InThePast' /\ LatestIsOwn' /\ CarriesNewer' /\ InOrder' /\ DoomedAreNotLast'
  <2>1. /\ named' = named /\ run[p].pc # "rest" /\ SameRun(p)
        /\ \A j \in Kinds : run'[p].pc \notin Carrying(j)
    BY <1>14 DEF Passes, Later, Carrying
  <2>2. LatestIsOwn'
    BY <1>1, <1>7, <2>1 DEF SameRun
  <2>3. DoomedAreNotLast'
    <3> SUFFICES ASSUME NEW k \in Kinds, run'[p].pc = Pruning(k), NEW d \in run'[p].doomed
                 PROVE  \E e \in Backups(k) : d < e
      BY <1>1, <1>3, <2>1 DEF DoomedAreNotLast, Pruning
    <3>1. PICK j \in Kinds : ListBackups(p, j)
      BY <1>0, <1>14, StepIsLocal DEF Pruning
    <3>2. run'[p].pc = Pruning(j) /\ run'[p].doomed = BeyondKeep(Backups(j))
      BY <1>0, <3>1 DEF ListBackups, Run
    <3>3. j = k
      BY <3>2 DEF Pruning, Kinds
    <3>4. d \in Backups(k) /\ Keep >= 1 /\ Cardinality({e \in Backups(k) : e > d}) >= Keep
      BY <3>2, <3>3, BackupAssumption DEF BeyondKeep
    <3>5. {e \in Backups(k) : e > d} # {}
      BY <3>4, FS_EmptySet, BackupAssumption
    <3>6. PICK e \in Backups(k) : e > d
      BY <3>5
    <3>7. e \in Int /\ d \in Int
      BY <1>0, <3>4 DEF Backups
    <3> QED
      BY <3>6, <3>7
  <2> QED
    BY <1>1, <1>6, <2>1, <2>2, <2>3
<1>15. CASE EndRun(p)
  <2>1. run'[p].pc = "rest" /\ named' = named
    BY <1>0, <1>15 DEF EndRun, Run, disk
  <2> QED
    BY <1>1, <1>4, <1>5, <1>6, <2>1 DEF Carrying, Pruning
<1> QED
  BY <1>0, <1>8, <1>9, <1>10, <1>11, <1>12, <1>13, <1>14, <1>15, StepsAre DEF Steps

LEMMA DatesIInvHolds == ASSUME Overlap = FALSE PROVE Spec => []DatesIInv
<1>1. Init => DatesIInv
  <2> SUFFICES ASSUME Init PROVE DatesIInv
    OBVIOUS
  <2>1. WholeIInv
    <3>1. /\ \A k \in Kinds, d \in Dates :
                temp[k][d].state = "absent" /\ named[k][d].state = "absent"
          /\ \A p \in Processes : run[p].pc = "rest"
      BY FileTypes DEF Init
    <3> QED
      BY <3>1, InitTypes
         DEF WholeIInv, NamedIsWhole, Alone, At, OpenIsWritten, HasItsFile, Writing
  <2>2. /\ \A k \in Kinds, d \in Dates : named[k][d] = Absent
        /\ \A k \in Kinds : Backups(k) = {}
        /\ \A p \in Processes : run[p].pc = "rest"
        /\ now = 0 /\ commits = 0
    BY FileTypes DEF Init, Backups
  <2>3. Absent.commits = 0 /\ Absent.at = 0
    BY DEF Absent
  <2> QED
    BY <2>1, <2>2, <2>3
       DEF DatesIInv, InThePast, LatestIsOwn, CarriesNewer, InOrder, DoomedAreNotLast, At,
           Carrying, Pruning
<1>2. DatesIInv /\ [Next]_vars => DatesIInv'
  <2> SUFFICES ASSUME DatesIInv, [Next]_vars PROVE DatesIInv'
    OBVIOUS
  <2>1. WholeIInv'
    BY WholeIInvStep DEF DatesIInv
  <2>2. CASE Server \/ Tick \/ UNCHANGED vars
    BY <2>1, <2>2, NothingNamedStep DEF DatesIInv, WholeIInv
  <2>3. ASSUME NEW p \in Processes, Sidecar(p) PROVE DatesIInv'
    BY <2>1, <2>3, DatesRunStep DEF DatesIInv
  <2> QED
    BY <2>2, <2>3 DEF Next
<1> QED
  BY <1>1, <1>2, PTL DEF Spec

\* Every nonempty set of naturals has a least element.
LEMMA Least ==
    ASSUME NEW S \in SUBSET Nat, S # {}
    PROVE  \E x \in S : \A y \in S : x <= y
<1>1. PICK x \in S : \A y \in S : ~ (<<y, x>> \in OpToRel(<, Nat))
  BY NatLessThanWellFounded, WFMin
<1>2. \A y \in S : <<y, x>> \notin {p \in Nat \X Nat : p[1] < p[2]}
  BY <1>1, Zenon DEF OpToRel
<1>3. ASSUME NEW y \in S, y < x
      PROVE  FALSE
  <2>1. x \in Nat /\ y \in Nat
    OBVIOUS
  <2>2. <<y, x>> \in Nat \X Nat /\ <<y, x>>[1] < <<y, x>>[2]
    BY <1>3, <2>1
  <2> QED
    BY <1>2, <2>2
<1> QED
  BY <1>3

\* "latest" resolves to the last of the dates there are.
LEMMA NewestIsLast ==
    ASSUME NEW S \in SUBSET Dates, S # {}
    PROVE  Max(S) \in S /\ \A d \in S : d <= Max(S)
<1> DEFINE top == Date(MaxTime)
           T == {top - d : d \in S}
<1>1. \A d \in S : d \in Int /\ d <= top
  <2>1. MaxTime \in Times /\ \A t \in Times : t <= MaxTime
    BY BackupAssumption DEF Times
  <2>2. \A d \in Dates : \E t \in Times : d = Date(t)
    BY DEF Dates
  <2> QED
    BY <2>1, <2>2, DatesGrow, DatesAreNumbers
<1>2. top \in Int
  <2>1. MaxTime \in Times
    BY BackupAssumption DEF Times
  <2> QED
    BY <2>1, DatesAreNumbers
<1> HIDE DEF top
<1>3. T \in SUBSET Nat /\ T # {}
  BY <1>1, <1>2
<1>4. PICK x \in T : \A y \in T : x <= y
  BY <1>3, Least
<1>5. PICK m \in S : x = top - m
  BY <1>4
<1>6. ASSUME NEW d \in S PROVE m >= d
  <2>1. top - m <= top - d
    BY <1>4, <1>5
  <2> QED
    BY <1>1, <1>2, <2>1
<1>7. Max(S) \in S /\ \A d \in S : Max(S) >= d
  BY <1>6 DEF Max
<1>8. \A d \in S : d \in Int
  BY <1>1
<1> QED
  BY <1>7, <1>8

\* What "latest" resolves to never gets older, as long as runs do not overlap:
\* whatever step a run fails or is killed at, midnight passed or not.
THEOREM LatestNeverOlder == ASSUME Overlap = FALSE PROVE Spec => LatestGoesForward
<1> DEFINE A == \A k \in Kinds : Backups(k) # {} =>
                    /\ Backups(k)' # {}
                    /\ named'[k][newestMatching(k)'].commits >= named[k][newestMatching(k)].commits
<1>1. DatesIInv /\ [Next]_vars => [A]_vars
  <2> SUFFICES ASSUME DatesIInv, Next, NEW k \in Kinds, Backups(k) # {}
               PROVE  /\ Backups(k)' # {}
                      /\ named'[k][newestMatching(k)'].commits >= named[k][newestMatching(k)].commits
    BY DEF vars
  <2> DEFINE m == Max(Backups(k))
             n == Max(Backups(k)')
  <2>0. /\ WholeIInv /\ TypeOK /\ named \in [Kinds -> [Dates -> File]]
        /\ \A d \in Dates : d \in Int
    BY DatesAreNumbers DEF DatesIInv, WholeIInv, TypeOK
  <2>1. m \in Backups(k) /\ m \in Dates /\ \A d \in Backups(k) : d <= m
    BY NewestIsLast DEF Backups
  <2>2. named[k][m].commits \in Int
    BY <2>0, <2>1, Numbers
  <2>3. newestMatching(k) = m /\ newestMatching(k)' = n
    BY DEF newestMatching
  <2> HIDE DEF m
  <2>4. Backups(k)' \in SUBSET Dates
    BY DEF Backups
  <2>5. ASSUME Backups(k)' # {}
        PROVE  n \in Backups(k)' /\ n \in Dates /\ \A d \in Backups(k)' : d <= n
    BY <2>4, <2>5, NewestIsLast
  <2> HIDE DEF n
  <2>6. ASSUME named' = named
        PROVE  Backups(k)' # {} /\ named'[k][n].commits >= named[k][m].commits
    <3>1. Backups(k)' = Backups(k)
      BY <2>6 DEF Backups
    <3>2. n = m
      BY <3>1 DEF m, n
    <3> QED
      BY <2>2, <2>6, <3>1, <3>2
  <2>7. CASE Server \/ Tick
    <3>1. UNCHANGED named
      BY <2>7 DEF Server, OpenDatabase, NewImageStore, Store, AddItemImage,
                  DeleteItemImage, Remove, ServerStep, Tick, disk
    <3> QED
      BY <2>3, <2>6, <3>1
  <2>8. ASSUME NEW p \in Processes, NEW j \in Kinds, Renames(p, j), Sidecar(p)
        PROVE  Backups(k)' # {} /\ named'[k][n].commits >= named[k][m].commits
    <3> DEFINE d0 == run[p].stamp
               f  == Tmp(p, j)
    <3>1. named' = [named EXCEPT ![j][d0] = f] /\ run[p].pc = Renaming(j)
      BY <2>8 DEF Renames, At
    <3>2. /\ d0 \in Dates /\ \A i \in Kinds : \A d \in Backups(i) : d <= d0
          /\ \A d \in Dates : named[j][d].commits <= f.commits
      BY <2>0, <3>1, Numbers
         DEF DatesIInv, LatestIsOwn, CarriesNewer, Renaming, Carrying, At
    <3>3. f \in File /\ f.commits \in Int /\ f.state = "whole"
      <4>1. HasItsFile(p)
        BY DEF DatesIInv, WholeIInv
      <4> QED
        BY <2>0, <3>1, <4>1, Numbers DEF HasItsFile, Renaming, At, Kinds, Tmp
    <3> HIDE DEF d0, f
    <3>4. CASE j # k
      <4>1. named'[k] = named[k]
        BY <2>0, <3>1, <3>4
      <4>2. Backups(k)' = Backups(k)
        BY <4>1 DEF Backups
      <4> QED
        BY <2>2, <4>1, <4>2 DEF m, n
    <3>5. CASE j = k
      <4>1. /\ named'[k][d0] = f
            /\ \A d \in Dates : d # d0 => named'[k][d] = named[k][d]
        BY <2>0, <3>1, <3>2, <3>5
      <4>2. d0 \in Backups(k)' /\ \A d \in Backups(k)' : d \in Backups(k) \/ d = d0
        BY <3>2, <3>3, <4>1 DEF Backups
      <4>3. n <= d0 /\ d0 <= n
        BY <2>0, <2>5, <3>2, <4>2
      <4>4. n = d0
        BY <2>0, <2>5, <3>2, <4>2, <4>3
      <4> QED
        BY <2>1, <2>2, <3>2, <3>3, <3>5, <4>1, <4>2, <4>4
    <3> QED
      BY <3>4, <3>5
  <2>9. ASSUME NEW p \in Processes, NEW j \in Kinds, NEW d0 \in Dates, RemoveOld(p, j, d0)
        PROVE  Backups(k)' # {} /\ named'[k][n].commits >= named[k][m].commits
    <3>1. /\ Backups(j)' = Backups(j) \ {d0}
          /\ \A i \in Kinds : i # j => Backups(i)' = Backups(i)
          /\ named' = [named EXCEPT ![j][d0] = Absent]
          /\ At(p, Pruning(j)) /\ d0 \in run[p].doomed
      BY <2>0, <2>9, RemoveOldRemoves DEF RemoveOld
    <3>2. j = k => \E e \in Backups(k) : d0 < e
      BY <3>1 DEF DatesIInv, DoomedAreNotLast
    <3>3. j = k => d0 # m
      BY <2>0, <2>1, <3>2 DEF Backups
    <3>4. m \in Backups(k)' /\ Backups(k)' \subseteq Backups(k)
      BY <2>1, <3>1, <3>3
    <3>5. n = m
      BY <2>0, <2>1, <2>5, <3>4
    <3>6. named'[k][m] = named[k][m]
      BY <2>0, <2>1, <3>1, <3>3
    <3> QED
      BY <2>2, <3>4, <3>5, <3>6
  <2>10. ASSUME NEW p \in Processes, Sidecar(p)
         PROVE  Backups(k)' # {} /\ named'[k][n].commits >= named[k][m].commits
    <3>1. Steps(p)
      BY <2>0, <2>10, StepsAre DEF WholeIInv
    <3>2. CASE Begin(p) \/ Passes(p) \/ EndRun(p)
               \/ \E j \in Kinds : Opens(p, j) \/ Continues(p, j) \/ Fails(p, j)
      <4>1. named' = named
        BY <3>2 DEF Begin, Passes, EndRun, Opens, Continues, Fails, disk
      <4> QED
        BY <2>6, <4>1
    <3>3. CASE Kill(p)
      BY <2>0, <2>6, <3>3, KillKeeps
    <3> QED
      BY <2>8, <2>9, <2>10, <3>1, <3>2, <3>3 DEF Steps
  <2> QED
    BY <2>3, <2>7, <2>10 DEF Next
<1>2. Spec => []DatesIInv
  BY DatesIInvHolds
<1> QED
  BY <1>1, <1>2, PTL DEF Spec, LatestGoesForward

-----------------------------------------------------------------------------
(* Pictures in the copies.                                                 *)

\* A picture that was once a row is no row any more when it has gone, and nothing is
\* a row before the server is up.
WasRow(x) == picture[x] # "new" /\ picture[x] # "file"

RowsOnce ==
    /\ server # "up" => \A x \in Pictures : picture[x] = "new"
    /\ \A d \in Dates : \A x \in named["db"][d].pictures \cup temp["db"][d].pictures : WasRow(x)

\* In some copy of the database.
Saved(x) == \E d \in Dates : x \in named["db"][d].pictures

\* The archive in the making gets every row that is in a copy of the database.
Archived ==
    \A p \in Processes : run[p].pc \in Carrying("images") =>
        \A x \in Rows : Saved(x) => x \in Tmp(p, "images").pictures \cup StillToCome(p)

NothingLeft == \A p \in Processes : At(p, "rename_images") => run[p].todo = {}

\* The database copy of date d restores with its pictures.
Safe(d) ==
    LET pictures == named["db"][d].pictures \cap Rows
    IN  /\ pictures # {} => \E e \in Backups("images") : e >= d
        /\ \A e \in Backups("images") : e >= d => pictures \subseteq named["images"][e].pictures

\* From the rename of the archive on, and for as long as the copy is there.
Archiving == {"stat_db", "vacuum", "vacuuming", "rename_db", "stat_images", "walk", "copy",
              "rename_images"}

Responsible(p) ==
    /\ run[p].pc \notin Archiving /\ run[p].ok
    /\ run[p].stamp \in Backups("db") /\ named["db"][run[p].stamp].by = p

Restorable == \A p \in Processes : Responsible(p) => Safe(run[p].stamp)

PicturesIInv == DatesIInv /\ RowsOnce /\ Archived /\ NothingLeft /\ Restorable

\* Nothing gets into a copy of the database but rows.
LEMMA TempCopies ==
    ASSUME WholeIInv, NEW p \in Processes, Sidecar(p), NEW d \in Dates
    PROVE  temp'["db"][d].pictures \subseteq temp["db"][d].pictures \cup Rows
<1> USE DEF At, Tmp, disk
<1>0. /\ temp \in [Kinds -> [Dates -> File]] /\ temp["db"][d] \in File
      /\ run[p].stamp \in Dates /\ OpenIsWritten
      /\ "db" \in Kinds /\ "images" \in Kinds /\ Absent.pictures = {}
      /\ "db" # "images"
  BY DEF WholeIInv, TypeOK, Run, Kinds, Absent
<1>1. ASSUME NEW state, temp' = Closed(p, temp, state)
      PROVE  temp'["db"][d].pictures \subseteq temp["db"][d].pictures \cup Rows
  BY <1>0, <1>1, ClosedKeeps
<1>2. ASSUME temp' = temp
      PROVE  temp'["db"][d].pictures \subseteq temp["db"][d].pictures \cup Rows
  BY <1>2
<1>8. CASE Begin(p) \/ EndRun(p)
  BY <1>2, <1>8 DEF Begin, EndRun
<1>9. ASSUME NEW x \in Pictures, ReadShard(p, x)
      PROVE  temp'["db"][d].pictures \subseteq temp["db"][d].pictures \cup Rows
  BY <1>2, <1>9 DEF ReadShard
<1>10. ASSUME NEW k \in Kinds, ListBackups(p, k) \/ PruneDone(p, k)
       PROVE  temp'["db"][d].pictures \subseteq temp["db"][d].pictures \cup Rows
  BY <1>2, <1>10 DEF ListBackups, PruneDone
<1>11. ASSUME NEW k \in Kinds, NEW e \in Dates, RemoveOld(p, k, e)
       PROVE  temp'["db"][d].pictures \subseteq temp["db"][d].pictures \cup Rows
  BY <1>2, <1>11 DEF RemoveOld
<1>12. CASE RenameImages(p)
  <2>1. CASE temp["images"][run[p].stamp].state = "absent"
    BY <1>1, <1>12, <2>1 DEF RenameImages, ArchiveFails
  <2>2. CASE temp["images"][run[p].stamp].state # "absent"
    BY <1>0, <1>12, <2>2 DEF RenameImages
  <2> QED
    BY <2>1, <2>2
<1>13. CASE StatImages(p) \/ Cleanup(p)
  BY <1>0, <1>13 DEF StatImages, Cleanup
<1>3. CASE StatDatabase(p) \/ RenameDatabase(p)
  BY <1>0, <1>3 DEF StatDatabase, RenameDatabase
<1>4. CASE Vacuum(p)
  <2>1. temp' = [temp EXCEPT !["db"][run[p].stamp] = Absent]
        \/ temp' = [temp EXCEPT !["db"][run[p].stamp] =
                        [state |-> "open", by |-> p, pictures |-> Rows,
                         commits |-> commits, at |-> now]]
    BY <1>4 DEF Vacuum
  <2> QED
    BY <1>0, <2>1
<1>5. CASE VacuumDone(p) \/ CopyFails(p) \/ CloseArchive(p) \/ Kill(p)
  <2>1. temp' = Closed(p, temp, "whole") \/ temp' = Closed(p, temp, "torn")
    BY <1>5 DEF VacuumDone, CopyFails, CloseArchive, Kill, ArchiveFails
  <2> QED
    BY <1>1, <2>1
<1>6. CASE VacuumFails(p)
  <2>1. temp' = [Closed(p, temp, "torn") EXCEPT !["db"][run[p].stamp] = Absent]
    BY <1>6 DEF VacuumFails
  <2>2. Closed(p, temp, "torn") \in [Kinds -> [Dates -> File]]
    BY <1>0, ClosedType
  <2>3. Closed(p, temp, "torn")["db"][d].pictures = temp["db"][d].pictures
    BY <1>0, ClosedKeeps
  <2> QED
    BY <1>0, <2>1, <2>2, <2>3
<1>7. CASE CopyFile(p)
  <2>1. CASE run[p].at \in OnDisk
    <3>1. ~ Mine(p, temp["db"][d])
      <4>1. run[p].pc = "copy"
        BY <1>7 DEF CopyFile
      <4> QED
        BY <1>0, <4>1 DEF OpenIsWritten, Writing, Mine
    <3>2. temp' = [k \in Kinds |-> [e \in Dates |->
                      IF Mine(p, temp[k][e])
                      THEN [temp[k][e] EXCEPT !.pictures = @ \cup {run[p].at}]
                      ELSE temp[k][e]]]
      BY <1>7, <2>1 DEF CopyFile
    <3>3. temp'["db"][d] = temp["db"][d]
      BY <1>0, <3>1, <3>2
    <3> QED
      BY <3>3
  <2>2. CASE run[p].at \notin OnDisk
    BY <1>1, <1>7, <2>2 DEF CopyFile, ArchiveFails
  <2> QED
    BY <2>1, <2>2
<1> QED
  BY <1>3, <1>4, <1>5, <1>6, <1>7, <1>8, <1>9, <1>10, <1>11, <1>12, <1>13 DEF Sidecar

\* No step of the server makes a row of what was one.
LEMMA RowsFall ==
    ASSUME TypeOK, RowsOnce, Server \/ Tick \/ UNCHANGED vars
    PROVE  /\ UNCHANGED <<run, temp, named>>
           /\ RowsOnce'
           /\ \A x \in Pictures : WasRow(x) /\ x \in Rows' => x \in Rows
<1>0. /\ picture \in [Pictures -> {"new", "file", "row", "orphan", "gone"}]
      /\ temp \in [Kinds -> [Dates -> File]] /\ named \in [Kinds -> [Dates -> File]]
      /\ "db" \in Kinds
  BY DEF TypeOK, Kinds
<1>1. UNCHANGED <<run, temp, named>>
  BY DEF Server, OpenDatabase, NewImageStore, Store, AddItemImage, DeleteItemImage,
         Remove, ServerStep, Tick, vars, disk
<1> DEFINE Falls(x) == /\ WasRow(x) => WasRow(x)'
                       /\ WasRow(x) /\ x \in Rows' => x \in Rows
<1>2. ASSUME UNCHANGED picture
      PROVE  \A x \in Pictures : Falls(x)
  BY <1>2 DEF WasRow, Rows
<1>3. ASSUME NEW y \in Pictures, NEW from, NEW to, NEW n, ServerStep(y, from, to, n),
             from # "row" => from = "new" \/ from = "file" \/ (from = "orphan" /\ to = "gone"),
             from = "row" => to = "orphan"
      PROVE  \A x \in Pictures : Falls(x)
  <2>1. /\ picture[y] = from /\ picture' = [picture EXCEPT ![y] = to]
    BY <1>3 DEF ServerStep
  <2> QED
    BY <1>0, <1>3, <2>1 DEF WasRow, Rows
<1>4. CASE Tick \/ UNCHANGED vars \/ OpenDatabase \/ NewImageStore
  <2>1. UNCHANGED picture
    BY <1>4 DEF Tick, vars, live, OpenDatabase, NewImageStore
  <2>2. server' # "up" => server # "up"
    BY <1>4 DEF Tick, vars, live, OpenDatabase, NewImageStore
  <2>3. \A d \in Dates : \A x \in named["db"][d].pictures \cup temp["db"][d].pictures : x \in Pictures
    BY <1>0 DEF File
  <2> QED
    BY <1>1, <1>2, <2>1, <2>2, <2>3 DEF RowsOnce
<1>5. ASSUME NEW y \in Pictures, Store(y) \/ AddItemImage(y) \/ DeleteItemImage(y) \/ Remove(y)
      PROVE  RowsOnce' /\ \A x \in Pictures : Falls(x)
  <2>1. \A x \in Pictures : Falls(x)
    BY <1>3, <1>5 DEF Store, AddItemImage, DeleteItemImage, Remove
  <2>2. server = "up" /\ server' = "up"
    BY <1>5 DEF Store, AddItemImage, DeleteItemImage, Remove, ServerStep
  <2>3. \A d \in Dates : \A x \in named["db"][d].pictures \cup temp["db"][d].pictures : x \in Pictures
    BY <1>0 DEF File
  <2> QED
    BY <1>1, <2>1, <2>2, <2>3 DEF RowsOnce
<1> QED
  BY <1>1, <1>4, <1>5 DEF Server

LEMMA PicturesQuietStep ==
    ASSUME TypeOK, RowsOnce, Archived, NothingLeft, Restorable, Server \/ Tick \/ UNCHANGED vars
    PROVE  RowsOnce' /\ Archived' /\ NothingLeft' /\ Restorable'
<1>1. /\ UNCHANGED <<run, temp, named>> /\ RowsOnce'
      /\ \A x \in Pictures : WasRow(x) /\ x \in Rows' => x \in Rows
  BY RowsFall
<1>2. \A d \in Dates : \A x \in named["db"][d].pictures : x \in Pictures /\ WasRow(x)
  BY DEF RowsOnce, TypeOK, File, Kinds
<1>3. Archived'
  <2>1. \A x : Saved(x)' => Saved(x)
    BY <1>1 DEF Saved
  <2>2. \A x : Saved(x) /\ x \in Rows' => x \in Rows
    BY <1>1, <1>2 DEF Saved
  <2> QED
    BY <1>1, <2>1, <2>2 DEF Archived, Tmp, StillToCome, At
<1>4. NothingLeft'
  BY <1>1 DEF NothingLeft, At
<1>5. Restorable'
  <2>1. \A k \in Kinds : Backups(k)' = Backups(k)
    BY <1>1 DEF Backups
  <2>2. ASSUME NEW p \in Processes, Responsible(p)'
        PROVE  Safe(run[p].stamp)'
    <3>1. Responsible(p) /\ run[p].stamp \in Dates
      BY <1>1, <2>1, <2>2 DEF Responsible, Kinds, TypeOK, Run
    <3> DEFINE d == run[p].stamp
    <3>2. Safe(d)
      BY <3>1 DEF Restorable
    <3>3. named["db"][d].pictures \cap Rows' \subseteq named["db"][d].pictures \cap Rows
      BY <1>1, <1>2, <3>1
    <3> QED
      BY <1>1, <2>1, <3>2, <3>3 DEF Safe, Kinds
  <2> QED
    BY <2>2 DEF Restorable
<1> QED
  BY <1>1, <1>3, <1>4, <1>5

\* A dated name gets what its run carries, or is removed.
LEMMA NamedStep ==
    ASSUME WholeIInv, NEW p \in Processes, Sidecar(p), NEW k \in Kinds, NEW d \in Dates
    PROVE  \/ named'[k][d] = named[k][d]
           \/ Renames(p, k) /\ d = run[p].stamp /\ named'[k][d] = Tmp(p, k)
           \/ RemoveOld(p, k, d) /\ named'[k][d] = Absent
<1> DEFINE Goal == \/ named'[k][d] = named[k][d]
                   \/ Renames(p, k) /\ d = run[p].stamp /\ named'[k][d] = Tmp(p, k)
                   \/ RemoveOld(p, k, d) /\ named'[k][d] = Absent
<1> SUFFICES Goal
  OBVIOUS
<1>0. Steps(p) /\ named \in [Kinds -> [Dates -> File]]
  BY StepsAre DEF WholeIInv, TypeOK
<1>1. ASSUME named' = named PROVE Goal
  BY <1>1
<1>2. ASSUME NEW j \in Kinds, Renames(p, j) PROVE Goal
  <2>1. named' = [named EXCEPT ![j][run[p].stamp] = Tmp(p, j)]
    BY <1>2 DEF Renames
  <2>2. j # k \/ d # run[p].stamp => named'[k][d] = named[k][d]
    BY <1>0, <2>1
  <2>3. j = k /\ d = run[p].stamp => named'[k][d] = Tmp(p, k)
    BY <1>0, <2>1
  <2> QED
    BY <1>2, <2>2, <2>3
<1>3. ASSUME NEW j \in Kinds, NEW e \in Dates, RemoveOld(p, j, e) PROVE Goal
  <2>1. named' = [named EXCEPT ![j][e] = Absent]
    BY <1>3 DEF RemoveOld
  <2>2. j # k \/ d # e => named'[k][d] = named[k][d]
    BY <1>0, <2>1
  <2>3. j = k /\ d = e => named'[k][d] = Absent
    BY <1>0, <2>1
  <2> QED
    BY <1>3, <2>2, <2>3
<1>4. ASSUME NEW j \in Kinds, Opens(p, j) \/ Continues(p, j) \/ Fails(p, j) PROVE Goal
  <2>1. named' = named
    BY <1>4 DEF Opens, Continues, Fails
  <2> QED
    BY <1>1, <2>1
<1>5. ASSUME Begin(p) \/ Passes(p) \/ EndRun(p) \/ Kill(p) PROVE Goal
  <2>1. named' = named
    BY <1>5, KillKeeps DEF Begin, Passes, EndRun, disk
  <2> QED
    BY <1>1, <2>1
<1> HIDE DEF Goal
<1> QED
  BY <1>0, <1>2, <1>3, <1>4, <1>5 DEF Steps

\* What a run names beside the image archive has everything a row in a copy of the
\* database needs.
LEMMA ArchiveIsComplete ==
    ASSUME DatesIInv, Archived, NothingLeft, NEW p \in Processes, Renames(p, "images"),
           NEW d \in Dates
    PROVE  named["db"][d].pictures \cap Rows \subseteq Tmp(p, "images").pictures
<1>1. run[p].pc = "rename_images" /\ run[p].pc \in Carrying("images") /\ run[p].todo = {}
  BY DEF Renames, Renaming, At, NothingLeft, Carrying
<1>2. StillToCome(p) = {}
  BY <1>1 DEF StillToCome, At
<1> QED
  BY <1>1, <1>2 DEF Archived, Saved

LEMMA SafeStays ==
    ASSUME DatesIInv, Archived, NothingLeft, NEW p \in Processes, Sidecar(p),
           NEW d \in Dates, Safe(d), named'["db"][d] = named["db"][d]
    PROVE  Safe(d)'
<1> DEFINE pictures == named["db"][d].pictures \cap Rows
<1>0. /\ WholeIInv /\ TypeOK /\ UNCHANGED picture /\ "images" \in Kinds
      /\ \A e \in Dates : e \in Int
  BY OtherTypes, DatesAreNumbers DEF DatesIInv, WholeIInv, live, Kinds
<1>1. pictures' = pictures
  BY <1>0 DEF Rows
<1>2. /\ pictures # {} => \E e \in Backups("images") : e >= d
      /\ \A e \in Backups("images") : e >= d => pictures \subseteq named["images"][e].pictures
  BY DEF Safe
<1>3. ASSUME Renames(p, "images")
      PROVE  pictures \subseteq Tmp(p, "images").pictures
  BY <1>3, ArchiveIsComplete
<1> HIDE DEF pictures
<1>4. ASSUME NEW e \in Backups("images")', e >= d
      PROVE  pictures \subseteq named'["images"][e].pictures
  <2>1. e \in Dates /\ named'["images"][e].state # "absent"
    BY <1>4 DEF Backups
  <2>2. CASE named'["images"][e] = named["images"][e]
    <3>1. e \in Backups("images")
      BY <2>1, <2>2 DEF Backups
    <3> QED
      BY <1>2, <1>4, <2>2, <3>1
  <2>3. CASE Renames(p, "images") /\ named'["images"][e] = Tmp(p, "images")
    BY <1>3, <2>3
  <2>4. named'["images"][e] # Absent
    BY <2>1, FileTypes
  <2> QED
    BY <1>0, <2>1, <2>2, <2>3, <2>4, NamedStep
<1>5. ASSUME pictures # {}
      PROVE  \E e \in Backups("images")' : e >= d
  <2>1. PICK e \in Backups("images") : e >= d
    BY <1>2, <1>5
  <2>2. e \in Dates /\ named["images"][e].state # "absent"
    BY <2>1 DEF Backups
  <2>3. CASE named'["images"][e] = named["images"][e]
    BY <2>1, <2>2, <2>3 DEF Backups
  <2>4. CASE Renames(p, "images") /\ named'["images"][e] = Tmp(p, "images")
    <3>1. Tmp(p, "images").state = "whole"
      <4>1. HasItsFile(p)
        BY <1>0 DEF WholeIInv
      <4> QED
        BY <2>4, <4>1 DEF HasItsFile, Renames, Renaming, At
    <3> QED
      BY <2>1, <2>2, <2>4, <3>1 DEF Backups
  <2>5. CASE RemoveOld(p, "images", e)
    <3>1. At(p, Pruning("images")) /\ e \in run[p].doomed
      BY <2>5 DEF RemoveOld
    <3>2. PICK c \in Backups("images") : e < c
      BY <1>0, <3>1 DEF DatesIInv, DoomedAreNotLast
    <3>3. Backups("images")' = Backups("images") \ {e}
      BY <1>0, <2>2, <2>5, RemoveOldRemoves
    <3>4. c \in Int /\ e \in Int /\ d \in Int
      BY <1>0, <2>2, <3>2 DEF Backups
    <3> QED
      BY <2>1, <3>2, <3>3, <3>4
  <2> QED
    BY <1>0, <2>2, <2>3, <2>4, <2>5, NamedStep
<1> QED
  BY <1>1, <1>4, <1>5 DEF Safe, pictures

\* When its archive is named the run's copy of the database restores.
LEMMA RenameMakesSafe ==
    ASSUME DatesIInv, Archived, NothingLeft, NEW p \in Processes, Sidecar(p), Renames(p, "images")
    PROVE  Safe(run[p].stamp)'
<1> DEFINE d == run[p].stamp
           f == Tmp(p, "images")
<1>0. /\ WholeIInv /\ TypeOK /\ UNCHANGED picture /\ "images" \in Kinds /\ "db" \in Kinds
      /\ named \in [Kinds -> [Dates -> File]] /\ \A e \in Dates : e \in Int
      /\ d \in Dates /\ HasItsFile(p)
  BY OtherTypes, DatesAreNumbers DEF DatesIInv, WholeIInv, TypeOK, Run, live, Kinds
<1>1. /\ named' = [named EXCEPT !["images"][d] = f] /\ run'[p].stamp = d
      /\ run[p].pc = "rename_images"
  BY DEF Renames, SameRun, Renaming, At
<1>2. f.state = "whole" /\ \A e \in Backups("images") : e <= d
  <2>1. f.state = "whole"
    BY <1>0, <1>1 DEF HasItsFile, At
  <2>2. ~ At(p, "rest")
    BY <1>1 DEF At
  <2> QED
    BY <1>0, <2>1, <2>2 DEF DatesIInv, LatestIsOwn
<1>3. named["db"][d].pictures \cap Rows \subseteq f.pictures
  BY <1>0, ArchiveIsComplete
<1>4. Rows' = Rows
  BY <1>0 DEF Rows
<1> HIDE DEF f, d
<1>5. /\ named'["images"][d] = f /\ named'["db"] = named["db"]
      /\ \A e \in Dates : e # d => named'["images"][e] = named["images"][e]
  BY <1>0, <1>1
<1>6. d \in Backups("images")' /\ d >= d
  BY <1>0, <1>2, <1>5 DEF Backups
<1>7. \A e \in Backups("images")' : e >= d => e = d
  <2> SUFFICES ASSUME NEW e \in Backups("images")', e >= d, e # d PROVE FALSE
    OBVIOUS
  <2>1. e \in Dates /\ e \in Backups("images")
    BY <1>5 DEF Backups
  <2>2. e <= d /\ e \in Int /\ d \in Int
    BY <1>0, <1>2, <2>1
  <2> QED
    BY <2>2
<1> QED
  BY <1>1, <1>3, <1>4, <1>5, <1>6, <1>7 DEF Safe

LEMMA PicturesRunStep ==
    ASSUME DatesIInv, RowsOnce, Archived, NothingLeft, Restorable, Overlap = FALSE,
           NEW p \in Processes, Sidecar(p)
    PROVE  RowsOnce' /\ Archived' /\ NothingLeft' /\ Restorable'
<1> USE DEF At
<1>0. /\ WholeIInv /\ TypeOK /\ HasItsFile(p) /\ run \in [Processes -> Run]
      /\ UNCHANGED <<server, picture>> /\ Steps(p)
      /\ "images" \in Kinds /\ "db" \in Kinds
      /\ \A q \in Processes : run[q].stamp \in Dates
  BY OtherTypes, StepsAre DEF DatesIInv, WholeIInv, TypeOK, Run, live, Kinds
<1>1. /\ Rows' = Rows /\ \A x : WasRow(x)' <=> WasRow(x)
      /\ \A x \in Rows : WasRow(x) /\ x \in Shards /\ x \in OnDisk
  BY <1>0 DEF Rows, WasRow, Shards, OnDisk
<1>2. \A q \in Processes : q # p => run'[q] = run[q]
  BY <1>0, StepIsLocal
<1>3. ~ Kill(p) => \A q \in Processes : q # p => run'[q].pc = "rest"
  BY <1>0, OthersRest
<1>4. RowsOnce'
  <2>1. ASSUME NEW d \in Dates, NEW x \in named'["db"][d].pictures
        PROVE  WasRow(x)
    <3>1. CASE named'["db"][d] = named["db"][d]
      BY <3>1 DEF RowsOnce
    <3>2. CASE d = run[p].stamp /\ named'["db"][d] = Tmp(p, "db")
      BY <1>0, <3>2 DEF RowsOnce, Tmp
    <3>3. CASE named'["db"][d] = Absent
      BY <2>1, <3>3 DEF Absent
    <3> QED
      BY <1>0, <3>1, <3>2, <3>3, NamedStep
  <2>2. ASSUME NEW d \in Dates, NEW x \in temp'["db"][d].pictures
        PROVE  WasRow(x)
    BY <1>0, <1>1, TempCopies DEF RowsOnce
  <2>3. server' # "up" => \A x \in Pictures : picture'[x] = "new"
    BY <1>0 DEF RowsOnce
  <2> QED
    BY <1>1, <2>1, <2>2, <2>3 DEF RowsOnce
\* The walk, step by step.
<1>5. ASSUME ~ Kill(p), run'[p].pc \in Carrying("images")
      PROVE  Opens(p, "images") \/ Continues(p, "images")
  <2>1. ~ \E k \in Kinds : Renames(p, k) \/ Fails(p, k)
    BY <1>5 DEF Renames, Fails, Following, Carrying
  <2>2. ~ (Opens(p, "db") \/ Continues(p, "db"))
    BY <1>5 DEF Opens, Continues, Carrying
  <2>3. ~ \E k \in Kinds, d \in Dates : RemoveOld(p, k, d)
    <3> SUFFICES ASSUME NEW k \in Kinds, NEW d \in Dates, RemoveOld(p, k, d) PROVE FALSE
      OBVIOUS
    <3>1. run'[p].pc = Pruning(k)
      BY <1>0, RemoveOldRemoves
    <3> QED
      BY <1>5, <3>1 DEF Pruning, Carrying
  <2>4. ~ (Begin(p) \/ Passes(p) \/ EndRun(p))
    BY <1>0, <1>5 DEF Begin, Passes, EndRun, Run, Later, Carrying
  <2> QED
    BY <1>0, <1>5, <2>1, <2>2, <2>3, <2>4 DEF Steps, Kinds
<1>6. Archived' /\ NothingLeft'
  <2>1. CASE Kill(p)
    <3>1. named' = named /\ run'[p].pc = "rest"
      BY <1>0, <2>1, KillKeeps
    <3>2. ASSUME NEW q \in Processes, q # p
          PROVE  Tmp(q, "images")'.pictures = Tmp(q, "images").pictures
                 /\ StillToCome(q)' = StillToCome(q)
      BY <1>0, <1>2, <2>1, <3>2, KillKeeps DEF Tmp, StillToCome
    <3>3. \A x : Saved(x)' <=> Saved(x)
      BY <3>1 DEF Saved
    <3>4. Archived'
      BY <1>1, <1>2, <3>1, <3>2, <3>3 DEF Archived, Carrying
    <3> QED
      BY <1>2, <3>1, <3>4 DEF NothingLeft
  <2>2. CASE ~ Kill(p) /\ run'[p].pc \notin Carrying("images")
    BY <1>3, <2>2 DEF Archived, NothingLeft, Carrying
  <2>3. CASE ~ Kill(p) /\ Opens(p, "images")
    <3>1. run'[p].todo = Shards /\ run'[p].pc # "rename_images"
      BY <2>3 DEF Opens
    <3>2. Rows \subseteq StillToCome(p)'
      BY <1>1, <3>1 DEF StillToCome
    <3> QED
      BY <1>1, <1>3, <2>3, <3>1, <3>2 DEF Archived, NothingLeft, Carrying
  <2>4. CASE ~ Kill(p) /\ Continues(p, "images")
    <3>1. /\ run[p].pc \in Carrying("images") /\ named' = named
          /\ (Tmp(p, "images").pictures \cup StillToCome(p)) \cap OnDisk
                \subseteq Tmp(p, "images")'.pictures \cup StillToCome(p)'
          /\ run'[p].pc = "rename_images" => run'[p].todo = {}
      BY <2>4 DEF Continues
    <3>2. \A x : Saved(x)' <=> Saved(x)
      BY <3>1 DEF Saved
    <3>3. \A x \in Rows : Saved(x)' => x \in Tmp(p, "images")'.pictures \cup StillToCome(p)'
      BY <1>1, <3>1, <3>2 DEF Archived
    <3> QED
      BY <1>1, <1>3, <2>4, <3>1, <3>3 DEF Archived, NothingLeft, Carrying
  <2> QED
    BY <1>5, <2>1, <2>2, <2>3, <2>4
<1>7. ASSUME NEW q \in Processes, Responsible(q), run'[q].stamp = run[q].stamp,
             named'["db"][run[q].stamp] = named["db"][run[q].stamp]
      PROVE  Safe(run[q].stamp)'
  <2>1. Safe(run[q].stamp) /\ run[q].stamp \in Dates
    BY <1>0, <1>7 DEF Restorable
  <2>2. PICK d \in Dates : d = run[q].stamp
    BY <2>1
  <2>3. Safe(d)'
    BY <1>7, <2>1, <2>2, SafeStays
  <2>4. d = run'[q].stamp
    BY <1>7, <2>2
  <2> QED
    BY <2>3, <2>4 DEF Safe
<1>8. ASSUME NEW q \in Processes, q # p, Responsible(q)'
      PROVE  Safe(run[q].stamp)'
  <2>1. run'[q] = run[q]
    BY <1>2, <1>8
  <2>2. PICK d \in Dates : d = run[q].stamp
    BY <1>0
  <2>3. run[q].pc \notin Archiving /\ run[q].ok /\ d \in Backups("db")' /\ named'["db"][d].by = q
    BY <1>8, <2>1, <2>2 DEF Responsible
  <2>4. named'["db"][d] # Absent
    BY <2>3, FileTypes DEF Backups
  <2>5. ~ Renames(p, "db") \/ named'["db"][d] # Tmp(p, "db")
    <3>1. Renames(p, "db") => Tmp(p, "db").by = p
      BY <1>0 DEF Renames, Renaming, Carrying, DatesIInv, CarriesNewer
    <3> QED
      BY <1>8, <2>3, <3>1
  <2>6. named'["db"][d] = named["db"][d]
    BY <1>0, <2>4, <2>5, NamedStep
  <2>7. Responsible(q)
    BY <2>2, <2>3, <2>6 DEF Responsible, Backups
  <2> QED
    BY <1>7, <2>1, <2>2, <2>6, <2>7
<1>9. ASSUME Responsible(p)'
      PROVE  Safe(run[p].stamp)'
  <2>0. /\ run'[p].pc \notin Archiving /\ run'[p].ok
        /\ run'[p].stamp \in Backups("db")' /\ named'["db"][run'[p].stamp].by = p
    BY <1>9 DEF Responsible
  <2>1. ASSUME run[p].pc \notin Archiving, run'[p].ok = run[p].ok,
               run'[p].stamp = run[p].stamp, ~ Renames(p, "db")
        PROVE  Safe(run[p].stamp)'
    <3>1. PICK d \in Dates : d = run[p].stamp
      BY <1>0
    <3>2. d \in Backups("db")' /\ named'["db"][d].by = p
      BY <2>0, <2>1, <3>1
    <3>3. named'["db"][d] # Absent
      BY <3>2, FileTypes DEF Backups
    <3>4. named'["db"][d] = named["db"][d]
      BY <1>0, <2>1, <3>3, NamedStep
    <3>5. Responsible(p)
      BY <2>0, <2>1, <3>1, <3>2, <3>4 DEF Responsible, Backups
    <3> QED
      BY <1>7, <2>1, <3>1, <3>4, <3>5
  <2>2. ~ Kill(p) /\ ~ Begin(p)
    BY <1>0, <2>0, KillKeeps DEF Begin, Run, Archiving
  <2>3. ~ \E k \in Kinds : Opens(p, k) \/ Continues(p, k) \/ Fails(p, k)
    BY <2>0 DEF Opens, Continues, Fails, Carrying, Archiving
  <2>4. ASSUME NEW k \in Kinds, Renames(p, k)
        PROVE  Safe(run[p].stamp)'
    <3>1. k # "db"
      BY <2>0, <2>4 DEF Renames, Following, Archiving
    <3>2. k = "images"
      BY <3>1 DEF Kinds
    <3> QED
      BY <1>0, <2>4, <3>2, RenameMakesSafe
  <2>5. ASSUME NEW k \in Kinds, NEW d \in Dates, RemoveOld(p, k, d)
        PROVE  Safe(run[p].stamp)'
    <3>1. run[p].pc \notin Archiving /\ ~ Renames(p, "db")
      BY <2>5 DEF RemoveOld, Pruning, Archiving, Renames, Renaming
    <3>2. run'[p].stamp = run[p].stamp /\ run'[p].ok = run[p].ok
      BY <1>0, <2>5 DEF RemoveOld, Run
    <3> QED
      BY <2>1, <3>1, <3>2
  <2>6. CASE EndRun(p)
    <3>1. run[p].pc \notin Archiving /\ ~ Renames(p, "db")
      BY <2>6 DEF EndRun, Archiving, Renames, Renaming
    <3>2. run'[p].stamp = run[p].stamp /\ run'[p].ok = run[p].ok
      BY <1>0, <2>6 DEF EndRun, Run
    <3> QED
      BY <2>1, <3>1, <3>2
  <2>7. CASE Passes(p)
    <3>1. run'[p].stamp = run[p].stamp /\ run'[p].ok = run[p].ok
      BY <2>7 DEF Passes, SameRun
    <3>2. CASE run[p].pc = "cleanup" \/ run[p].pc \in Later
      BY <2>1, <3>1, <3>2 DEF Later, Archiving, Renames, Renaming
    <3>3. CASE server # "up"
      <4>1. Rows' = {}
        BY <1>1, <3>3 DEF RowsOnce, Rows
      <4> QED
        BY <4>1 DEF Safe
    <3>4. run'[p].pc # "vacuum"
      BY <2>0 DEF Archiving
    <3> QED
      BY <2>7, <3>2, <3>3, <3>4 DEF Passes
  <2> QED
    BY <1>0, <2>2, <2>3, <2>4, <2>5, <2>6, <2>7 DEF Steps
<1>10. Restorable'
  BY <1>8, <1>9 DEF Restorable
<1> QED
  BY <1>4, <1>6, <1>10

LEMMA PicturesIInvHolds == ASSUME Overlap = FALSE PROVE Spec => []PicturesIInv
<1>1. Init => RowsOnce /\ Archived /\ NothingLeft /\ Restorable
  <2> SUFFICES ASSUME Init PROVE RowsOnce /\ Archived /\ NothingLeft /\ Restorable
    OBVIOUS
  <2>1. /\ \A k \in Kinds, d \in Dates : temp[k][d] = Absent /\ named[k][d] = Absent
        /\ \A p \in Processes : run[p].pc = "rest" /\ ~ run[p].ok
        /\ \A x \in Pictures : picture[x] = "new"
        /\ Absent.pictures = {} /\ "db" \in Kinds
    BY DEF Init, Absent, Kinds
  <2> QED
    BY <2>1 DEF RowsOnce, Archived, NothingLeft, Restorable, Responsible, At, Carrying
<1>2. PicturesIInv /\ [Next]_vars /\ DatesIInv' => PicturesIInv'
  <2> SUFFICES ASSUME PicturesIInv, [Next]_vars, DatesIInv'
               PROVE  PicturesIInv'
    OBVIOUS
  <2>1. /\ DatesIInv /\ RowsOnce /\ Archived /\ NothingLeft /\ Restorable /\ TypeOK
    BY DEF PicturesIInv, DatesIInv, WholeIInv
  <2>2. CASE Server \/ Tick \/ UNCHANGED vars
    BY <2>1, <2>2, PicturesQuietStep DEF PicturesIInv
  <2>3. ASSUME NEW p \in Processes, Sidecar(p) PROVE PicturesIInv'
    BY <2>1, <2>3, PicturesRunStep DEF PicturesIInv
  <2> QED
    BY <2>2, <2>3 DEF Next
<1>3. DatesIInv /\ RowsOnce /\ Archived /\ NothingLeft /\ Restorable => PicturesIInv
  BY DEF PicturesIInv
<1> QED
  BY <1>1, <1>2, <1>3, DatesIInvHolds, PTL DEF Spec

\* A run that reported success left a database copy that restores with its pictures,
\* whatever the server did to the pictures while the archive was made.
THEOREM GoodRunsRestore == ASSUME Overlap = FALSE PROVE Spec => []GoodRunRestores
<1>1. PicturesIInv => GoodRunRestores
  <2> SUFFICES ASSUME PicturesIInv, NEW p \in Processes,
                      At(p, "rest"), run[p].ok, run[p].stamp \in Backups("db"),
                      named["db"][run[p].stamp].by = p,
                      NEW x \in named["db"][run[p].stamp].pictures \cap Rows
               PROVE  \E e \in Dates : e >= run[p].stamp /\ x \in named["images"][e].pictures
    BY DEF GoodRunRestores
  <2>1. Safe(run[p].stamp)
    BY DEF PicturesIInv, Restorable, Responsible, Archiving, At
  <2>2. PICK e \in Backups("images") : e >= run[p].stamp
    BY <2>1 DEF Safe
  <2> QED
    BY <2>1, <2>2 DEF Safe, Backups
<1> QED
  BY <1>1, PicturesIInvHolds, PTL

-----------------------------------------------------------------------------
(* How old the newest copy may be.                                         *)

Loop == run["loop"]

\* There is a backup from t or later.
Good(k, t) == \E d \in Backups(k) : named[k][d].at >= t

\* Where the run of the loop has not made its copy yet.
Before(k) ==
    IF k = "db" THEN {"stat_db", "vacuum", "vacuuming", "rename_db"}
    ELSE {"stat_db", "vacuum", "vacuuming", "rename_db", "stat_images", "walk", "copy",
          "rename_images"}

Wait(k)   == IF k = "db" THEN RetryDelay ELSE Interval
Serves(k) == k = "images" => server = "up"

\* A run that begins at t is in time: an interval after a copy, or soon after trouble.
Due(k, t) == Good(k, t - Interval - RunTime) \/ t <= quiet[k] + Wait(k) + RunTime

Timely ==
    /\ Loop.pc = "rest" => now <= Loop.wake /\ Loop.wake <= now + Interval
    /\ Loop.pc # "rest" => now <= Loop.began + RunTime
    /\ \A k \in Kinds : quiet[k] <= now

\* A run that has got past its copy has made it, or had trouble since it began.
Promise(k) ==
    /\ Loop.pc = "rest" => Due(k, Loop.wake)
    /\ Loop.pc \in Before(k) => Due(k, Loop.began)
    /\ Loop.pc # "rest" /\ Loop.pc \notin Before(k) =>
          Good(k, Loop.began) \/ (Loop.began <= quiet[k] /\ (k = "db" => ~ Loop.ok))

Promises == \A k \in Kinds : Serves(k) => Promise(k)

FreshIInv == DatesIInv /\ Timely /\ Promises

\* Renaming brings a newer copy, and pruning leaves a newer one.
LEMMA GoodStays ==
    ASSUME DatesIInv, NEW p \in Processes, Sidecar(p), NEW k \in Kinds, NEW t \in Int, Good(k, t)
    PROVE  Good(k, t)'
<1>0. /\ WholeIInv /\ TypeOK /\ \A e \in Dates : e \in Int
      /\ \A e \in Dates : named[k][e].at \in Int /\ temp[k][e].at \in Int
      /\ run[p].stamp \in Dates
  BY Numbers, DatesAreNumbers DEF DatesIInv, WholeIInv
<1>1. PICK d \in Backups(k) : named[k][d].at >= t
  BY DEF Good
<1>2. d \in Dates /\ named[k][d].state # "absent"
  BY <1>1 DEF Backups
<1>3. CASE named'[k][d] = named[k][d]
  BY <1>1, <1>2, <1>3 DEF Good, Backups
<1>4. CASE Renames(p, k) /\ d = run[p].stamp /\ named'[k][d] = Tmp(p, k)
  <2>1. run[p].pc \in Carrying(k) /\ run[p].pc = Renaming(k)
    BY <1>4 DEF Renames, Renaming, Carrying, At
  <2>2. named[k][d].at <= Tmp(p, k).at
    BY <1>2, <2>1 DEF DatesIInv, CarriesNewer
  <2>3. Tmp(p, k).state = "whole"
    <3>1. HasItsFile(p)
      BY <1>0 DEF WholeIInv
    <3> QED
      BY <2>1, <3>1 DEF HasItsFile, Renaming, At, Kinds
  <2>4. Tmp(p, k).at \in Int
    BY <1>0 DEF Tmp
  <2>5. named'[k][d].at >= t
    BY <1>0, <1>1, <1>2, <1>4, <2>2, <2>4
  <2> QED
    BY <1>2, <1>4, <2>3, <2>5 DEF Good, Backups
<1>5. CASE RemoveOld(p, k, d)
  <2>1. At(p, Pruning(k)) /\ d \in run[p].doomed /\ named' = [named EXCEPT ![k][d] = Absent]
    BY <1>5 DEF RemoveOld
  <2>2. PICK c \in Backups(k) : d < c
    BY <1>0, <2>1 DEF DatesIInv, DoomedAreNotLast
  <2>3. named[k][d].at <= named[k][c].at
    BY <1>1, <2>2 DEF DatesIInv, InOrder
  <2>4. c \in Dates /\ c # d
    BY <1>0, <1>2, <2>2 DEF Backups
  <2>5. Backups(k)' = Backups(k) \ {d}
    BY <1>0, <1>2, <1>5, RemoveOldRemoves
  <2>6. named'[k][c] = named[k][c]
    BY <1>0, <2>1, <2>4 DEF TypeOK
  <2>7. named'[k][c].at >= t
    BY <1>0, <1>1, <1>2, <2>3, <2>4, <2>6
  <2> QED
    BY <2>2, <2>4, <2>5, <2>7 DEF Good
<1> QED
  BY <1>0, <1>2, <1>3, <1>4, <1>5, NamedStep

\* The numbers the argument adds up.
LEMMA Delays ==
    /\ Interval \in Int /\ Interval > 0 /\ RunTime \in Int /\ RunTime >= 0
    /\ RetryDelay \in Int /\ 0 <= RetryDelay /\ RetryDelay <= Interval
    /\ \A k \in Kinds : Wait(k) \in Int /\ 0 <= Wait(k) /\ Wait(k) <= Interval
BY BackupAssumption DEF RetryDelay, Wait

\* While the loop rests, or stays on one side of its copy, a promise is kept by the copy it
\* was about.
LEMMA PromiseGrows ==
    ASSUME NEW k \in Kinds, Promise(k), TypeOK, quiet[k] <= quiet'[k], quiet'[k] \in Int,
           \A t \in Int : Good(k, t) => Good(k, t)',
           Loop'.began = Loop.began, Loop.pc = "rest" => Loop'.wake = Loop.wake,
           Loop'.pc = "rest" <=> Loop.pc = "rest",
           Loop'.pc \in Before(k) <=> Loop.pc \in Before(k),
           k = "db" /\ ~ Loop.ok => ~ Loop'.ok
    PROVE  Promise(k)'
<1>0. /\ Loop.began \in Int /\ Loop.wake \in Int /\ quiet[k] \in Int
  BY Numbers DEF Processes, Loop
<1>1. PICK b \in Int, w \in Int : b = Loop.began /\ w = Loop.wake
  BY <1>0
<1>2. b = Loop'.began /\ (Loop.pc = "rest" => w = Loop'.wake)
  BY <1>1
<1>3. ASSUME NEW t \in Int, Due(k, t)
      PROVE  Due(k, t)'
  <2>1. t - Interval - RunTime \in Int /\ Wait(k) \in Int /\ RunTime \in Int
    BY Delays
  <2>2. PICK u \in Int : u = t - Interval - RunTime
    BY <2>1
  <2>3. Good(k, u) => Good(k, u)'
    OBVIOUS
  <2>4. Good(k, u) \/ t <= quiet[k] + Wait(k) + RunTime
    BY <1>3, <2>2 DEF Due
  <2>5. t <= quiet[k] + Wait(k) + RunTime => t <= quiet'[k] + Wait(k) + RunTime
    BY <1>0, <2>1
  <2> QED
    BY <2>2, <2>3, <2>4, <2>5 DEF Due, Wait
<1>4. Loop'.pc = "rest" => Due(k, w)'
  BY <1>1, <1>3 DEF Promise
<1>5. Loop'.pc \in Before(k) => Due(k, b)'
  BY <1>1, <1>3 DEF Promise
<1>6. Loop'.pc # "rest" /\ Loop'.pc \notin Before(k) =>
         Good(k, b)' \/ (b <= quiet'[k] /\ (k = "db" => ~ Loop'.ok))
  BY <1>0, <1>1 DEF Promise
<1> QED
  BY <1>2, <1>4, <1>5, <1>6 DEF Promise, Due, Good

LEMMA FreshServerStep ==
    ASSUME TypeOK, LatestIsOwn, Timely, Promises, Server \/ Tick \/ UNCHANGED vars
    PROVE  Timely' /\ Promises'
<1>0. /\ "loop" \in Processes /\ now \in Int /\ Loop.began \in Int /\ Loop.wake \in Int
      /\ \A k \in Kinds : quiet[k] \in Int
      /\ quiet \in [Kinds -> Times] /\ now \in Times
  BY Numbers DEF Processes, Loop, TypeOK
<1>1. UNCHANGED <<run, named>>
  BY DEF Server, OpenDatabase, NewImageStore, Store, AddItemImage, DeleteItemImage,
         Remove, ServerStep, Tick, vars, disk
<1>2. /\ Loop' = Loop /\ \A k \in Kinds, t \in Int : Good(k, t) => Good(k, t)'
  BY <1>1 DEF Loop, Good, Backups
<1>3. CASE UNCHANGED <<now, quiet, server>>
  <2>1. \A k \in Kinds : Serves(k)' => Serves(k)
    BY <1>3 DEF Serves
  <2>2. Timely'
    BY <1>2, <1>3 DEF Timely
  <2>3. Promises'
    BY <1>0, <1>2, <1>3, <2>1, PromiseGrows DEF Promises
  <2> QED
    BY <2>2, <2>3
<1>4. CASE Tick
  <2>1. /\ now' = now + 1 /\ UNCHANGED <<quiet, server>>
        /\ Loop.pc = "rest" => Loop.wake > now
        /\ Loop.pc # "rest" => now < Loop.began + RunTime
    BY <1>0, <1>4 DEF Tick, live, Loop, At
  <2>2. Timely'
    BY <1>0, <1>2, <2>1, Delays DEF Timely
  <2>3. \A k \in Kinds : Serves(k)' => Serves(k)
    BY <2>1 DEF Serves
  <2>4. Promises'
    BY <1>0, <1>2, <2>1, <2>3, PromiseGrows DEF Promises
  <2> QED
    BY <2>2, <2>4
<1>5. CASE OpenDatabase
  <2>1. /\ UNCHANGED now /\ server # "up" /\ server' # "up"
        /\ \A k \in Kinds : quiet'[k] = IF k = "db" THEN now ELSE quiet[k]
    BY <1>0, <1>5 DEF OpenDatabase
  <2>2. Timely'
    BY <1>0, <1>2, <2>1 DEF Timely
  <2>3. \A k \in Kinds : Serves(k)' => Serves(k)
    BY <2>1 DEF Serves
  <2>4. \A k \in Kinds : quiet'[k] \in Int /\ quiet[k] <= quiet'[k]
    BY <1>0, <2>1 DEF Timely
  <2>5. Promises'
    BY <1>0, <1>2, <2>3, <2>4, PromiseGrows DEF Promises
  <2> QED
    BY <2>2, <2>5
\* The first archive is due an interval after the image directory is there.
<1>6. CASE NewImageStore
  <2>1. /\ UNCHANGED now /\ \A k \in Kinds : quiet'[k] = IF k = "images" THEN now ELSE quiet[k]
    BY <1>0, <1>6 DEF NewImageStore
  <2>2. Timely'
    BY <1>0, <1>2, <2>1 DEF Timely
  <2>3. \A k \in Kinds : quiet'[k] \in Int /\ quiet[k] <= quiet'[k]
    BY <1>0, <2>1 DEF Timely
  <2>4. Promise("db")'
    <3>1. "db" \in Kinds /\ Promise("db")
      BY DEF Kinds, Promises, Serves
    <3> QED
      BY <1>0, <1>2, <2>3, <3>1, PromiseGrows
  <2>5. Promise("images")'
    <3>1. quiet'["images"] = now /\ Wait("images") = Interval
      BY <2>1 DEF Kinds, Wait
    <3>2. Loop.pc = "rest" => Loop.wake <= now + Interval + RunTime
      BY <1>0, Delays DEF Timely
    <3>3. Loop.pc # "rest" => Loop.began <= now
      BY <1>0 DEF LatestIsOwn, Loop, At
    <3>4. Loop.pc # "rest" => Loop.began <= now + Interval + RunTime
      BY <1>0, <3>3, Delays
    <3>5. Loop.pc \in Before("images") => Loop.pc # "rest"
      BY DEF Before
    <3> QED
      BY <1>2, <3>1, <3>2, <3>3, <3>4, <3>5 DEF Promise, Due, Wait
  <2> QED
    BY <2>2, <2>4, <2>5 DEF Promises, Kinds
<1>7. CASE UNCHANGED vars \/ \E x \in Pictures : Store(x) \/ AddItemImage(x) \/ DeleteItemImage(x) \/ Remove(x)
  <2>1. UNCHANGED <<now, quiet, server>>
    BY <1>7 DEF vars, live, Store, AddItemImage, DeleteItemImage, Remove, ServerStep
  <2> QED
    BY <1>3, <2>1
<1> QED
  BY <1>4, <1>5, <1>6, <1>7 DEF Server

LEMMA FreshRunStep ==
    ASSUME DatesIInv, Overlap = FALSE, Timely, Promises, NEW p \in Processes, Sidecar(p)
    PROVE  Timely' /\ Promises'
<1> USE DEF At
<1>0. /\ WholeIInv /\ TypeOK /\ HasItsFile(p) /\ run \in [Processes -> Run] /\ Steps(p)
      /\ UNCHANGED <<server, now>> /\ quiet \in [Kinds -> Times]
      /\ "loop" \in Processes /\ now \in Int /\ Loop.began \in Int /\ Loop.wake \in Int
      /\ \A k \in Kinds : quiet[k] \in Int
      /\ "images" \in Kinds /\ "db" \in Kinds
  BY OtherTypes, StepsAre, Numbers DEF DatesIInv, WholeIInv, TypeOK, live, Kinds, Processes, Loop
<1>1. \A k \in Kinds, t \in Int : Good(k, t) => Good(k, t)'
  BY GoodStays
<1>2. \A k \in Kinds : quiet'[k] = quiet[k] \/ quiet'[k] = now
  <2>1. CASE Kill(p)
    BY <1>0, <2>1, KillKeeps
  <2>2. ASSUME NEW k \in Kinds, Opens(p, k) \/ Continues(p, k) \/ Renames(p, k)
        PROVE  quiet' = quiet
    BY <2>2 DEF Opens, Continues, Renames
  <2>3. ASSUME NEW k \in Kinds, Fails(p, k)
        PROVE  \A j \in Kinds : quiet'[j] = quiet[j] \/ quiet'[j] = now
    BY <1>0, <2>3 DEF Fails
  <2>4. CASE Begin(p) \/ Passes(p) \/ EndRun(p)
    BY <2>4 DEF Begin, Passes, EndRun
  <2>5. ASSUME NEW k \in Kinds, NEW d \in Dates, RemoveOld(p, k, d)
        PROVE  quiet' = quiet
    BY <2>5 DEF RemoveOld
  <2> QED
    BY <1>0, <2>1, <2>2, <2>3, <2>4, <2>5 DEF Steps
<1>3. \A k \in Kinds : /\ quiet'[k] \in Int /\ quiet[k] <= quiet'[k]
                       /\ quiet'[k] <= now
  BY <1>0, <1>2 DEF Timely
<1>4. \A k \in Kinds : Serves(k)' <=> Serves(k)
  BY <1>0 DEF Serves
<1>5. CASE p # "loop"
  <2>1. Loop' = Loop
    BY <1>0, <1>5, StepIsLocal DEF Loop
  <2>2. Timely'
    BY <1>0, <1>3, <2>1 DEF Timely
  <2>3. Promises'
    BY <1>0, <1>1, <1>3, <1>4, <2>1, PromiseGrows DEF Promises
  <2> QED
    BY <2>2, <2>3
<1> SUFFICES ASSUME p = "loop" PROVE Timely' /\ Promises'
  BY <1>5
<1>6. Loop = run[p] /\ Loop' = run'[p]
  BY DEF Loop
<1>7. ASSUME Loop.pc # "rest", Loop'.pc # "rest", Loop'.began = Loop.began
      PROVE  Timely'
  BY <1>0, <1>3, <1>7 DEF Timely
<1>8. ASSUME NEW k \in Kinds, Serves(k)', Loop.pc # "rest", Loop'.pc # "rest",
             Loop'.began = Loop.began,
             Loop'.pc \in Before(k) <=> Loop.pc \in Before(k),
             ~ Loop.ok => ~ Loop'.ok
      PROVE  Promise(k)'
  <2>1. Promise(k)
    BY <1>4, <1>8 DEF Promises
  <2> QED
    BY <1>0, <1>1, <1>3, <1>8, <2>1, PromiseGrows
\* Past the copy, and there it is.
<1>9. ASSUME NEW k \in Kinds, Loop'.pc # "rest", Loop'.pc \notin Before(k),
             NEW b \in Int, b = Loop'.began, Good(k, b)'
      PROVE  Promise(k)'
  BY <1>9 DEF Promise, Good
<1>10. ASSUME NEW k \in Kinds, Loop'.pc # "rest", Loop'.pc \notin Before(k),
              Loop'.began <= quiet'[k], ~ Loop'.ok \/ k = "images"
       PROVE  Promise(k)'
  BY <1>10 DEF Promise
<1>11. Loop.pc # "rest" => Loop.began <= now
  BY <1>0, <1>6 DEF DatesIInv, LatestIsOwn
<1>12. CASE Begin(p)
  <2>1. /\ Loop.pc = "rest" /\ Loop.wake <= now
        /\ Loop'.pc = "stat_db" /\ Loop'.began = now /\ UNCHANGED <<named, quiet>>
    <3>1. run[p].pc = "rest" /\ run[p].wake <= now /\ UNCHANGED <<named, quiet>>
      BY <1>12 DEF Begin, disk
    <3>2. run'[p].pc = "stat_db" /\ run'[p].began = now
      BY <1>0, <1>12 DEF Begin, Run
    <3> QED
      BY <1>6, <3>1, <3>2
  <2>2. Loop.wake = now
    BY <1>0, <2>1 DEF Timely
  <2>3. Timely'
    BY <1>0, <1>3, <2>1, Delays DEF Timely
  <2>4. ASSUME NEW k \in Kinds, Serves(k)'
        PROVE  Promise(k)'
    <3>1. Due(k, now)
      BY <1>4, <2>1, <2>2, <2>4 DEF Promises, Promise
    <3>2. Due(k, now)'
      BY <1>0, <2>1, <3>1 DEF Due, Good, Backups
    <3>3. Loop'.pc \in Before(k)
      BY <2>1 DEF Before
    <3> QED
      BY <1>0, <2>1, <3>2, <3>3 DEF Promise, Due, Good
  <2> QED
    BY <2>3, <2>4 DEF Promises
<1>13. ASSUME NEW j \in Kinds, Opens(p, j) \/ Continues(p, j)
       PROVE  Timely' /\ Promises'
  <2>1. /\ Loop.pc # "rest" /\ Loop'.pc # "rest" /\ Loop'.began = Loop.began
        /\ Loop'.wake = Loop.wake /\ Loop'.ok = Loop.ok
    BY <1>6, <1>13 DEF Opens, Continues, SameRun, Opening, Carrying
  <2>2. \A k \in Kinds : Loop'.pc \in Before(k) <=> Loop.pc \in Before(k)
    BY <1>6, <1>13 DEF Opens, Continues, Opening, Carrying, Before, Kinds
  <2> QED
    BY <1>7, <1>8, <2>1, <2>2 DEF Promises
<1>14. ASSUME NEW j \in Kinds, Renames(p, j)
       PROVE  Timely' /\ Promises'
  <2> DEFINE f  == Tmp(p, j)
             d0 == run[p].stamp
  <2>1. /\ Loop.pc = Renaming(j) /\ Loop'.pc = Following(j)
        /\ Loop'.began = Loop.began /\ Loop'.wake = Loop.wake /\ Loop'.ok = Loop.ok
        /\ named' = [named EXCEPT ![j][d0] = f]
    BY <1>6, <1>14 DEF Renames, SameRun
  <2>2. Loop.pc # "rest" /\ Loop'.pc # "rest"
    BY <2>1 DEF Renaming, Following
  <2>3. Promise(j)'
    <3>1. d0 \in Dates /\ f.state = "whole" /\ Loop.began <= f.at
      BY <1>0, <1>6, <2>1, Numbers
         DEF HasItsFile, DatesIInv, CarriesNewer, Renaming, Carrying, Kinds
    <3> HIDE DEF f, d0
    <3>2. named'[j][d0] = f
      BY <1>0, <2>1, <3>1 DEF TypeOK
    <3>3. PICK b \in Int : b = Loop.began
      BY <1>0
    <3>4. Good(j, b)'
      BY <3>1, <3>2, <3>3 DEF Good, Backups
    <3>5. Loop'.pc \notin Before(j)
      BY <2>1 DEF Following, Before
    <3> QED
      BY <1>9, <2>1, <2>2, <3>3, <3>4, <3>5
  <2>4. ASSUME NEW k \in Kinds, k # j, Serves(k)'
        PROVE  Promise(k)'
    <3>1. Loop'.pc \in Before(k) <=> Loop.pc \in Before(k)
      BY <2>1, <2>4 DEF Renaming, Following, Before, Kinds
    <3> QED
      BY <1>8, <2>1, <2>2, <2>4, <3>1
  <2> QED
    BY <1>7, <2>1, <2>2, <2>3, <2>4 DEF Promises
<1>15. ASSUME NEW j \in Kinds, Fails(p, j)
       PROVE  Timely' /\ Promises'
  <2>1. /\ Loop.pc \in (IF j = "db" THEN {"stat_db", "vacuum", "vacuuming"} ELSE {"copy"})
        /\ Loop'.pc = Following(j) /\ Loop'.began = Loop.began /\ ~ Loop'.ok
        /\ quiet' = [quiet EXCEPT ![j] = now]
    BY <1>6, <1>15 DEF Fails
  <2>2. Loop.pc # "rest" /\ Loop'.pc # "rest" /\ quiet'[j] = now
    BY <1>0, <2>1 DEF Following
  <2>3. Promise(j)'
    <3>1. Loop'.pc \notin Before(j)
      BY <2>1 DEF Following, Before
    <3> QED
      BY <1>10, <1>11, <2>1, <2>2, <3>1
  <2>4. ASSUME NEW k \in Kinds, k # j, Serves(k)'
        PROVE  Promise(k)'
    <3>1. Loop'.pc \in Before(k) <=> Loop.pc \in Before(k)
      BY <2>1, <2>4 DEF Following, Before, Kinds
    <3> QED
      BY <1>8, <2>1, <2>2, <2>4, <3>1
  <2> QED
    BY <1>7, <2>1, <2>2, <2>3, <2>4 DEF Promises
<1>16. ASSUME NEW j \in Kinds, NEW d \in Dates, RemoveOld(p, j, d)
       PROVE  Timely' /\ Promises'
  <2>1. /\ Loop.pc = Pruning(j) /\ Loop'.pc = Pruning(j) /\ Loop'.began = Loop.began
        /\ Loop'.wake = Loop.wake /\ Loop'.ok = Loop.ok
    BY <1>0, <1>6, <1>16 DEF RemoveOld, Run
  <2>2. Loop.pc # "rest" /\ Loop'.pc # "rest"
    BY <2>1 DEF Pruning
  <2> QED
    BY <1>7, <1>8, <2>1, <2>2 DEF Promises
<1>17. CASE Passes(p)
  <2>1. /\ Loop.pc # "rest" /\ Loop'.pc # "rest" /\ Loop'.began = Loop.began
        /\ Loop'.wake = Loop.wake /\ Loop'.ok = Loop.ok
    BY <1>6, <1>17 DEF Passes, SameRun, Later
  <2>2. ASSUME NEW k \in Kinds, Serves(k)'
        PROVE  Loop'.pc \in Before(k) <=> Loop.pc \in Before(k)
    BY <1>0, <1>6, <1>17, <2>2 DEF Passes, Later, Before, Serves, Kinds
  <2> QED
    BY <1>7, <1>8, <2>1, <2>2 DEF Promises
<1>18. CASE EndRun(p)
  <2>1. /\ Loop.pc = "end" /\ Loop'.pc = "rest"
        /\ Loop'.wake = now + (IF Loop.ok THEN Interval ELSE RetryDelay)
        /\ UNCHANGED <<named, quiet>>
    BY <1>0, <1>6, <1>18 DEF EndRun, Run, disk
  <2>2. /\ now <= Loop'.wake /\ Loop'.wake <= now + Interval /\ Loop'.wake \in Int
        /\ now <= Loop.began + RunTime
    BY <1>0, <2>1, Delays DEF Timely
  <2>3. Timely'
    BY <1>0, <1>3, <2>1, <2>2 DEF Timely
  <2>4. ASSUME NEW k \in Kinds, Serves(k)'
        PROVE  Promise(k)'
    <3>1. Good(k, Loop.began) \/ (Loop.began <= quiet[k] /\ (k = "db" => ~ Loop.ok))
      BY <1>4, <2>1, <2>4 DEF Promises, Promise, Before
    <3>2. PICK w \in Int : w = Loop'.wake
      BY <2>2
    <3>3. CASE Good(k, Loop.began)
      <4>1. PICK d \in Backups(k) : named[k][d].at >= Loop.began
        BY <3>3 DEF Good
      <4>2. named[k][d].at \in Int
        BY <1>0, <4>1, Numbers DEF Backups
      <4>3. named[k][d].at >= w - Interval - RunTime
        BY <1>0, <2>2, <3>2, <4>1, <4>2, Delays
      <4>4. Due(k, w)'
        BY <2>1, <4>1, <4>3 DEF Due, Good, Backups
      <4> QED
        BY <2>1, <3>2, <4>4 DEF Promise, Due, Good, Before
    <3>4. CASE Loop.began <= quiet[k] /\ (k = "db" => ~ Loop.ok)
      <4>1. w <= now + Wait(k)
        BY <1>0, <2>1, <3>2, <3>4, Delays DEF Wait
      <4>2. w <= quiet[k] + Wait(k) + RunTime
        BY <1>0, <2>2, <3>4, <4>1, Delays
      <4>3. Due(k, w)'
        BY <2>1, <4>2 DEF Due, Wait
      <4> QED
        BY <2>1, <3>2, <4>3 DEF Promise, Due, Good, Before
    <3> QED
      BY <3>1, <3>3, <3>4
  <2> QED
    BY <2>3, <2>4 DEF Promises
<1>19. CASE Kill(p)
  <2>1. /\ Loop'.pc = "rest" /\ Loop'.wake = now /\ \A k \in Kinds : quiet'[k] = now
    BY <1>0, <1>6, <1>19, KillKeeps
  <2>2. Timely'
    BY <1>0, <1>3, <2>1, Delays DEF Timely
  <2>3. ASSUME NEW k \in Kinds
        PROVE  Promise(k)'
    <3>1. Wait(k) \in Int /\ 0 <= Wait(k) /\ now <= now + Wait(k) + RunTime
      BY <1>0, Delays
    <3> QED
      BY <2>1, <3>1 DEF Promise, Due, Wait, Before
  <2> QED
    BY <2>2, <2>3 DEF Promises
<1> QED
  BY <1>0, <1>12, <1>13, <1>14, <1>15, <1>16, <1>17, <1>18, <1>19 DEF Steps

LEMMA FreshIInvHolds == ASSUME Overlap = FALSE PROVE Spec => []FreshIInv
<1>1. Init => Timely /\ Promises
  <2> SUFFICES ASSUME Init PROVE Timely /\ Promises
    OBVIOUS
  <2>1. /\ now = 0 /\ \A k \in Kinds : quiet[k] = 0
        /\ Loop.pc = "rest" /\ Loop.wake = 0
    BY DEF Init, Loop, Processes
  <2>2. Timely
    BY <2>1, Delays DEF Timely
  <2>3. \A k \in Kinds : 0 <= 0 + Wait(k) + RunTime
    BY Delays
  <2> QED
    BY <2>1, <2>2, <2>3 DEF Promises, Promise, Due, Before
<1>2. FreshIInv /\ [Next]_vars /\ DatesIInv' => FreshIInv'
  <2> SUFFICES ASSUME FreshIInv, [Next]_vars, DatesIInv'
               PROVE  FreshIInv'
    OBVIOUS
  <2>1. DatesIInv /\ Timely /\ Promises /\ TypeOK /\ LatestIsOwn
    BY DEF FreshIInv, DatesIInv, WholeIInv
  <2>2. CASE Server \/ Tick \/ UNCHANGED vars
    BY <2>1, <2>2, FreshServerStep DEF FreshIInv
  <2>3. ASSUME NEW p \in Processes, Sidecar(p) PROVE FreshIInv'
    BY <2>1, <2>3, FreshRunStep DEF FreshIInv
  <2> QED
    BY <2>2, <2>3 DEF Next
<1>3. DatesIInv /\ Timely /\ Promises => FreshIInv
  BY DEF FreshIInv
<1> QED
  BY <1>1, <1>2, <1>3, DatesIInvHolds, PTL DEF Spec

\* Once nothing has gone wrong for the time the next attempt may take, there is a backup
\* no older than an interval and the runs around it.
THEOREM BackupsAreFresh == ASSUME Overlap = FALSE PROVE Spec => []BackupIsFresh
<1>1. FreshIInv => BackupIsFresh
  <2> SUFFICES ASSUME FreshIInv, NEW k \in Kinds,
                      (k = "db" /\ server # "off") \/ server = "up",
                      now > quiet[k] + Patience(k)
               PROVE  \E d \in Backups(k) : named[k][d].at + Interval + 2 * RunTime >= now
    BY DEF BackupIsFresh
  <2>0. /\ now \in Int /\ Loop.began \in Int /\ Loop.wake \in Int /\ quiet[k] \in Int
        /\ \A d \in Backups(k) : named[k][d].at \in Int
    BY Numbers DEF FreshIInv, DatesIInv, WholeIInv, Processes, Loop, Backups
  <2>1. Promise(k) /\ Timely
    BY DEF FreshIInv, Promises, Serves, Kinds
  <2>2. Patience(k) = Wait(k) + 2 * RunTime
    BY DEF Patience, Wait
  <2>3. ASSUME NEW t \in Int, Due(k, t), now <= t + RunTime
        PROVE  \E d \in Backups(k) : named[k][d].at + Interval + 2 * RunTime >= now
    <3>1. ~ (t <= quiet[k] + Wait(k) + RunTime)
      BY <2>0, <2>2, <2>3, Delays
    <3>2. PICK d \in Backups(k) : named[k][d].at >= t - Interval - RunTime
      BY <2>3, <3>1 DEF Due, Good
    <3>3. named[k][d].at + Interval + 2 * RunTime >= now
      BY <2>0, <2>3, <3>2, Delays
    <3> QED
      BY <3>3
  <2>4. CASE Loop.pc = "rest"
    BY <2>0, <2>1, <2>3, <2>4, Delays DEF Promise, Timely
  <2>5. CASE Loop.pc \in Before(k)
    <3>1. Loop.pc # "rest"
      BY <2>5 DEF Before
    <3> QED
      BY <2>0, <2>1, <2>3, <2>5, <3>1 DEF Promise, Timely
  <2>6. CASE Loop.pc # "rest" /\ Loop.pc \notin Before(k)
    <3>1. now <= Loop.began + RunTime
      BY <2>1, <2>6 DEF Timely
    <3>2. ~ (Loop.began <= quiet[k])
      BY <2>0, <2>2, <3>1, Delays
    <3>3. PICK d \in Backups(k) : named[k][d].at >= Loop.began
      BY <2>1, <2>6, <3>2 DEF Promise, Good
    <3>4. named[k][d].at + Interval + 2 * RunTime >= now
      BY <2>0, <3>1, <3>3, Delays
    <3> QED
      BY <3>4
  <2> QED
    BY <2>4, <2>5, <2>6
<1> QED
  BY <1>1, FreshIInvHolds, PTL

=============================================================================
