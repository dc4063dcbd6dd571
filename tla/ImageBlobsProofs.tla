-------------------------- MODULE ImageBlobsProofs --------------------------
(***************************************************************************)
(* Proofs about ImageBlobs for every set of requests, items and pictures    *)
(* and any number of rows.                                                 *)
(***************************************************************************)
EXTENDS ImageBlobs, FiniteSetTheorems, TLAPS

-----------------------------------------------------------------------------
(* The invariant.                                                          *)

Busy   == {r \in Requests : ~At(r, "idle")}
Adding == {r \in Requests : req[r].sha # "none"}

Storing == {"stat", "open", "write", "rename"}

\* What the position of a handler says of its locals.
Shape(q) ==
    /\ q \in Request
    /\ q.pc = "idle" => q = Idle
    /\ q.pc \in Storing \cup {"row"} => q.sha # "none"
    /\ q.sha # "none" \/ q.pc = "rows" => \E i \in Items : q.items = {i}
    /\ q.pc \in {"unlink", "unlink_display"} <=> q.victim # "none"
    /\ q.pc = "delete" => q.sha = "none"
    /\ q.pc # "write" <=> q.fd = "none"
    /\ q.pc # "rows" => q.doomed = {}
    /\ q.pc \notin Storing => q.kind = "original"

Shapes == \A r \in Requests : Shape(req[r])

\* There is room for the row of everybody who is about to add one.
RoomLeft ==
    /\ inserted \in 0..MaxRows
    /\ IsFiniteSet(Busy)
    /\ inserted + Cardinality(Adding) <= MaxRows

\* The variables but req, and the foreign key.
RowsTyped ==
    /\ DOMAIN rows \subseteq 1..inserted
    /\ \A n \in DOMAIN rows :
          /\ rows[n] \in [item: Items, sha: Pictures, primary: BOOLEAN]
          /\ item[rows[n].item] \in {"live", "removed"}

Typed ==
    /\ history \in Histories
    /\ item \in [Items -> {"new", "live", "removed", "gone"}]
    /\ final \in [Files -> Bytes] /\ temp \in [Files -> Bytes]
    /\ DOMAIN req = Requests

File(q) == <<q.sha, q.kind>>
Original(s) == <<s, "original">>

\* One at a time: what is under way has what it relies on.
Relies(q) ==
    /\ q.pc = "write" => q.fd = "temp"
    /\ q.pc = "rename" => temp[File(q)] = "full"
    /\ q.pc = "row" \/ q.kind = "display" => final[Original(q.sha)] = "full"
    /\ q.victim # "none" => \A n \in DOMAIN rows : rows[n].sha # q.victim

OneAtATime ==
    history = "one at a time" =>
        /\ \A r, x \in Busy : r = x
        /\ \A r \in Requests : Relies(req[r])
        /\ \A n \in DOMAIN rows : final[Original(rows[n].sha)] = "full"
        /\ \A f \in Files : final[f] # "partial"

\* Side by side: somebody still writes to every file that is not complete.
Writes(q, f, fd) == q.pc = "write" /\ q.fd = fd /\ File(q) = f

BeingWritten ==
    history = "side by side" =>
        \A f \in Files :
            /\ final[f] = "partial" => \E r \in Requests : Writes(req[r], f, "final")
            /\ temp[f] = "partial" => \E r \in Requests : Writes(req[r], f, "temp")

\* A primary picture is the last of its item.
PrimaryIsLast ==
    \A n, k \in DOMAIN rows :
        rows[n].primary /\ rows[k].item = rows[n].item => k <= n

\* Who removes a picture removes what the item had before it.
DoomedFromTheFirst ==
    \A r \in Requests : \A n \in req[r].doomed :
        /\ n <= inserted
        /\ n \in DOMAIN rows => rows[n].item \in req[r].items
        /\ \A k \in DOMAIN rows : rows[k].item \in req[r].items /\ k <= n => k \in req[r].doomed

\* Pictures without a primary one among them are all about to go.
PrimaryOrDoomed ==
    history = "side by side" =>
        \A n \in DOMAIN rows :
            \/ \E k \in DOMAIN rows : rows[k].item = rows[n].item /\ rows[k].primary
            \/ \E r \in Requests :
                  /\ rows[n].item \in req[r].items
                  /\ \A k \in DOMAIN rows :
                        rows[k].item = rows[n].item => k \in req[r].doomed

Inv ==
    /\ Shapes /\ RoomLeft /\ RowsTyped /\ Typed
    /\ OneAtATime /\ BeingWritten
    /\ PrimaryIsLast /\ DoomedFromTheFirst /\ PrimaryOrDoomed

-----------------------------------------------------------------------------
(* How a handler's locals change.                                          *)

Locals(pc, items, sha, kind, fd, doomed, shas, victim) ==
    [pc |-> pc, items |-> items, sha |-> sha, kind |-> kind, fd |-> fd,
     doomed |-> doomed, shas |-> shas, victim |-> victim]

\* r goes on with q, and nobody else moves.
Moves(r, q) ==
    /\ DOMAIN req' = Requests /\ req'[r] = q
    /\ \A x \in Requests \ {r} : req'[x] = req[x]

\* The same, but for those who have a file open: it may be moved or replaced.
Elsewhere(q, fd) == Locals(q.pc, q.items, q.sha, q.kind, fd, q.doomed, q.shas, q.victim)

Nudges(r, q) ==
    /\ DOMAIN req' = Requests /\ req'[r] = q
    /\ \A x \in Requests \ {r} :
          \/ req'[x] = req[x]
          \/ /\ req[x].pc = "write"
             /\ \E fd \in {"final", "lost"} : req'[x] = Elsewhere(req[x], fd)

LEMMA MovesNudge ==
    ASSUME NEW r \in Requests, NEW q, Moves(r, q)
    PROVE  Nudges(r, q)
  BY DEF Moves, Nudges

LEMMA CreateMoves ==
    ASSUME Shapes, DOMAIN req = Requests, NEW r \in Requests, NEW i, NEW s,
           CreateItem(r, i, s)
    PROVE  Moves(r, Locals("stat", {i}, s, "original", "none", {}, {}, "none"))
<1>1. req[r] = Idle
  BY DEF CreateItem, Shapes, Shape, At
<1> QED
  BY <1>1, SMTT(30) DEF CreateItem, Go, Moves, Locals, Idle

LEMMA EditAddingMoves ==
    ASSUME Shapes, DOMAIN req = Requests, NEW r \in Requests, NEW i, NEW s,
           EditAdding(r, i, s)
    PROVE  Moves(r, Locals("stat", {i}, s, "original", "none", {}, {}, "none"))
<1>1. req[r] = Idle
  BY DEF EditAdding, Shapes, Shape, At
<1> QED
  BY <1>1, SMTT(30) DEF EditAdding, Go, Moves, Locals, Idle

LEMMA EditRemovingMoves ==
    ASSUME Shapes, DOMAIN req = Requests, NEW r \in Requests, NEW i, NEW s,
           EditRemoving(r, i, s)
    PROVE  Moves(r, Locals("rows", {i}, s, "original", "none", RowsOf({i}), {}, "none"))
<1>1. req[r] = Idle
  BY DEF EditRemoving, Shapes, Shape, At
<1> QED
  BY <1>1, SMTT(30) DEF EditRemoving, Go, Moves, Locals, Idle

LEMMA RemoveItemMoves ==
    ASSUME Shapes, DOMAIN req = Requests, NEW r \in Requests, NEW i,
           RemoveItem(r, i)
    PROVE  Moves(r, Locals("delete", {i}, "none", "original", "none", {}, ShasOf(RowsOf({i})), "none"))
<1>1. req[r] = Idle
  BY DEF RemoveItem, Shapes, Shape, At
<1> QED
  BY <1>1, SMTT(30) DEF RemoveItem, Go, Moves, Locals, Idle

LEMMA RemoveListMoves ==
    ASSUME Shapes, DOMAIN req = Requests, NEW r \in Requests, RemoveList(r)
    PROVE  \E S \in SUBSET Items :
              Moves(r, Locals("delete", Items, "none", "original", "none", {}, ShasOf(RowsOf(S)), "none"))
<1> DEFINE S == {i \in Items : item[i] \in {"live", "removed"}}
<1>1. Moves(r, Locals("delete", Items, "none", "original", "none", {}, ShasOf(RowsOf(S)), "none"))
  <2>1. req[r] = Idle
    BY DEF RemoveList, Shapes, Shape, At
  <2> QED
    BY <2>1 DEF RemoveList, Go, Moves, Locals, Idle
<1> QED
  BY <1>1

LEMMA DeleteRowMoves ==
    ASSUME Shapes, DOMAIN req = Requests, NEW r \in Requests, NEW n,
           DeleteRow(r, n)
    PROVE  Moves(r, Locals("rows", req[r].items,
               req[r].sha, req[r].kind, req[r].fd,
               req[r].doomed \ {n}, req[r].shas \cup ShasOf({n} \cap DOMAIN rows), req[r].victim))
  BY DEF DeleteRow, Go, Moves, Locals, Idle, Shapes, Shape, At

LEMMA RowsDoneMoves ==
    ASSUME Shapes, DOMAIN req = Requests, NEW r \in Requests, RowsDone(r)
    PROVE  Moves(r, Locals("count", req[r].items,
               req[r].sha, req[r].kind, req[r].fd,
               req[r].doomed, req[r].shas, req[r].victim))
<1>1. Go(r, "count", <<>>) /\ DOMAIN <<>> = {}
  BY DEF RowsDone
<1> QED
  BY <1>1 DEF Go, Moves, Locals, Idle

LEMMA DeleteItemMoves ==
    ASSUME Shapes, DOMAIN req = Requests, NEW r \in Requests, NEW keep,
           DeleteItem(r, keep)
    PROVE  Moves(r, Locals("count", {},
               req[r].sha, req[r].kind, req[r].fd,
               req[r].doomed, req[r].shas, req[r].victim))
  BY DEF DeleteItem, Go, Moves, Locals, Idle, Shapes, Shape, At

LEMMA DeleteListMoves ==
    ASSUME Shapes, DOMAIN req = Requests, NEW r \in Requests, DeleteList(r)
    PROVE  Moves(r, Locals("count", {},
               req[r].sha, req[r].kind, req[r].fd,
               req[r].doomed, req[r].shas, req[r].victim))
  BY DEF DeleteList, Go, Moves, Locals, Idle, Shapes, Shape, At

LEMMA OpenTempMoves ==
    ASSUME Shapes, DOMAIN req = Requests, NEW r \in Requests, OpenTemp(r)
    PROVE  Moves(r, Locals("write", req[r].items,
               req[r].sha, req[r].kind, "temp",
               req[r].doomed, req[r].shas, req[r].victim))
  BY DEF OpenTemp, Go, Moves, Locals, Idle, Shapes, Shape, At

LEMMA WriteTempMoves ==
    ASSUME Shapes, DOMAIN req = Requests, NEW r \in Requests, WriteTemp(r)
    PROVE  Moves(r, Locals("rename", req[r].items,
               req[r].sha, req[r].kind, "none",
               req[r].doomed, req[r].shas, req[r].victim))
  BY DEF WriteTemp, Go, Moves, Locals, Idle, Shapes, Shape, At

LEMMA PruneMoves ==
    ASSUME Shapes, DOMAIN req = Requests, NEW r \in Requests, NEW s, Prune(r, s)
    PROVE  \/ /\ RefCount(s) > 0
              /\ Moves(r, Locals("count", req[r].items,
                      req[r].sha, req[r].kind, req[r].fd,
                      req[r].doomed, req[r].shas \ {s}, req[r].victim))
           \/ /\ ~ (RefCount(s) > 0)
              /\ Moves(r, Locals("unlink", req[r].items,
                      req[r].sha, req[r].kind, req[r].fd,
                      req[r].doomed, req[r].shas \ {s}, s))
<1>1. CASE RefCount(s) > 0
  BY <1>1 DEF Prune, Go, Moves, Locals, Idle, Shapes, Shape, At
<1>2. CASE ~ (RefCount(s) > 0)
  BY <1>2 DEF Prune, Go, Moves, Locals, Idle, Shapes, Shape, At
<1> QED
  BY <1>1, <1>2

LEMMA PruneDoneMoves ==
    ASSUME Shapes, DOMAIN req = Requests, NEW r \in Requests, PruneDone(r)
    PROVE  \/ req[r].sha = "none" /\ Moves(r, Idle)
           \/ /\ req[r].sha # "none"
              /\ Moves(r, Locals("stat", req[r].items,
                      req[r].sha, req[r].kind, req[r].fd,
                      req[r].doomed, req[r].shas, req[r].victim))
<1>1. CASE req[r].sha = "none"
  BY <1>1 DEF PruneDone, Done, Moves
<1>2. CASE req[r].sha # "none"
  BY <1>2 DEF PruneDone, Go, Moves, Locals, Idle, Shapes, Shape, At
<1> QED
  BY <1>1, <1>2

LEMMA StatFileMoves ==
    ASSUME Shapes, DOMAIN req = Requests, NEW r \in Requests, StatFile(r)
    PROVE  \/ /\ final[File(req[r])] = "absent"
              /\ Moves(r, Locals("open", req[r].items,
                      req[r].sha, req[r].kind, req[r].fd,
                      req[r].doomed, req[r].shas, req[r].victim))
           \/ /\ final[File(req[r])] # "absent"
              /\ Moves(r, Locals(NextFile(r).pc, req[r].items,
                      req[r].sha, NextFile(r).kind, req[r].fd,
                      req[r].doomed, req[r].shas, req[r].victim))
<1>1. CASE final[File(req[r])] = "absent"
  BY <1>1 DEF StatFile, File, Go, Moves, Locals, Idle, Shapes, Shape, At
<1>2. CASE final[File(req[r])] # "absent"
  <2> DEFINE next == NextFile(r)
  <2>1. Go(r, next.pc, [kind |-> next.kind])
    BY <1>2 DEF StatFile, File
  <2> HIDE DEF next
  <2>2. Moves(r, Locals(next.pc, req[r].items,
                   req[r].sha, next.kind, req[r].fd,
                   req[r].doomed, req[r].shas, req[r].victim))
    BY <2>1 DEF Go, Moves, Locals, Idle, Shapes, Shape, At
  <2> QED
    BY <1>2, <2>2 DEF next
<1> QED
  BY <1>1, <1>2

-----------------------------------------------------------------------------
(* What a request that moves on leaves as it was, conjunct by conjunct.     *)

LEMMA ElsewhereFields ==
    ASSUME NEW q, NEW fd
    PROVE  /\ Elsewhere(q, fd).pc = q.pc /\ Elsewhere(q, fd).fd = fd
           /\ Elsewhere(q, fd).sha = q.sha /\ Elsewhere(q, fd).kind = q.kind
  BY DEF Elsewhere, Locals

LEMMA ElsewhereShape ==
    ASSUME NEW q, Shape(q), q.pc = "write", NEW fd \in {"final", "lost"}
    PROVE  /\ Shape(Elsewhere(q, fd)) /\ Elsewhere(q, fd).pc = "write"
           /\ Elsewhere(q, fd).sha = q.sha /\ Elsewhere(q, fd).doomed = {}
<1>1. Elsewhere(q, fd) \in Request
  BY DEF Elsewhere, Locals, Shape, Request
<1> QED
  BY <1>1 DEF Elsewhere, Locals, Shape, Storing

LEMMA ShapesMove ==
    ASSUME Shapes, NEW r \in Requests, NEW q, Nudges(r, q), Shape(q)
    PROVE  Shapes'
  BY ElsewhereShape DEF Shapes, Nudges

LEMMA AddingAreBusy ==
    ASSUME Shapes
    PROVE  Adding \subseteq Busy
  BY DEF Shapes, Shape, Idle, Adding, Busy, At

\* C is A, or with x added to it where there is room for more than all of B.
Fits(A, B, C, x, n, m) ==
    /\ n \in Nat /\ m \in Nat
    /\ IsFiniteSet(B) /\ A \subseteq B /\ C \subseteq A \cup {x}
    /\ n + Cardinality(A) <= m
    /\ C \subseteq A \/ n + Cardinality(B) < m

LEMMA AtMostOneMore ==
    ASSUME NEW A, NEW B, NEW C, NEW x, NEW n, NEW m, Fits(A, B, C, x, n, m)
    PROVE  n + Cardinality(C) <= m
<1> USE DEF Fits
<1>1. IsFiniteSet(A) /\ IsFiniteSet(C) /\ Cardinality(A) <= Cardinality(B)
  <2>1. IsFiniteSet(A) /\ Cardinality(A) <= Cardinality(B)
    BY FS_Subset
  <2>2. IsFiniteSet(A \cup {x})
    BY <2>1, FS_AddElement
  <2> QED
    BY <2>1, <2>2, FS_Subset
<1>2. Cardinality(A) \in Nat /\ Cardinality(B) \in Nat /\ Cardinality(C) \in Nat
  BY <1>1, FS_CardinalityType
<1>3. CASE C \subseteq A
  <2>1. Cardinality(C) <= Cardinality(A)
    BY <1>1, <1>3, FS_Subset
  <2> QED
    BY <1>2, <2>1
<1>4. CASE n + Cardinality(B) < m
  <2>1. IsFiniteSet(A \cup {x}) /\ Cardinality(A \cup {x}) <= Cardinality(A) + 1
    <3>1. Cardinality(A \cup {x}) = IF x \in A THEN Cardinality(A) ELSE Cardinality(A) + 1
      BY <1>1, FS_AddElement
    <3> QED
      BY <1>1, <1>2, <3>1, FS_AddElement
  <2>2. Cardinality(C) <= Cardinality(A \cup {x}) /\ Cardinality(A \cup {x}) \in Nat
    BY <2>1, FS_Subset, FS_CardinalityType
  <2> QED
    BY <1>1, <1>2, <1>4, <2>1, <2>2
<1> QED
  BY <1>3, <1>4

LEMMA RoomStays ==
    ASSUME Shapes, RoomLeft, inserted' = inserted, NEW r \in Requests, NEW q, Nudges(r, q),
           q.sha = "none" \/ req[r].sha # "none" \/ Room
    PROVE  RoomLeft'
<1>1. Busy' \subseteq Busy \cup {r} /\ Adding' \subseteq Adding \cup {r}
  <2>1. ASSUME NEW x \in Requests \ {r}
        PROVE  req'[x].pc = req[x].pc /\ req'[x].sha = req[x].sha
    BY ElsewhereShape DEF Nudges, Shapes
  <2> QED
    BY <2>1 DEF Nudges, Busy, Adding, At
<1>2. IsFiniteSet(Busy \cup {r}) /\ IsFiniteSet(Busy)
  BY FS_AddElement DEF RoomLeft
<1>0. inserted \in Nat /\ MaxRows \in Nat
  <2>1. MaxRows \in Nat
    BY ImageBlobsAssumption
  <2>2. inserted \in 0..MaxRows
    BY DEF RoomLeft
  <2> QED
    BY ONLY <2>1, <2>2
<1>3. IsFiniteSet(Busy')
  BY <1>1, <1>2, FS_Subset
<1>4. Adding' \subseteq Adding \/ inserted + Cardinality(Busy) < MaxRows
  <2>1. CASE Room
    BY <2>1 DEF Room, Busy
  <2>2. CASE q.sha = "none" \/ req[r].sha # "none"
    BY <1>1, <2>2 DEF Nudges, Adding
  <2> QED
    BY <2>1, <2>2
<1>5. inserted + Cardinality(Adding) <= MaxRows
  BY DEF RoomLeft
<1>6. inserted + Cardinality(Adding') <= MaxRows
  <2> DEFINE more == Adding'
  <2>1. Adding \subseteq Busy /\ more \subseteq Adding \cup {r}
    BY <1>1, AddingAreBusy
  <2>2. more \subseteq Adding \/ inserted + Cardinality(Busy) < MaxRows
    BY <1>4
  <2> HIDE DEF more
  <2>3. inserted + Cardinality(more) <= MaxRows
    <3>1. Fits(Adding, Busy, more, r, inserted, MaxRows)
      BY ONLY <1>0, <1>2, <1>5, <2>1, <2>2 DEF Fits
    <3> QED
      BY ONLY <3>1, AtMostOneMore
  <2> QED
    BY <2>3 DEF more
<1>7. inserted' \in 0..MaxRows
  BY DEF RoomLeft
<1> QED
  BY <1>3, <1>6, <1>7 DEF RoomLeft

LEMMA OneAtATimeStays ==
    ASSUME OneAtATime, UNCHANGED <<history, rows, final, temp>>, Shapes, DOMAIN req = Requests,
           NEW r \in Requests, NEW q, Moves(r, q),
           history = "one at a time" => Relies(q) /\ (AllIdle \/ r \in Busy)
    PROVE  OneAtATime'
<1> SUFFICES ASSUME history = "one at a time"
             PROVE  /\ \A x, y \in Busy' : x = y
                    /\ \A x \in Requests : Relies(req[x])'
                    /\ \A n \in DOMAIN rows' : final'[Original(rows'[n].sha)] = "full"
                    /\ \A f \in Files : final'[f] # "partial"
  BY DEF OneAtATime
<1>1. Busy \subseteq {r}
  <2>1. CASE AllIdle
    BY <2>1 DEF AllIdle, Busy
  <2>2. CASE r \in Busy
    BY <2>2 DEF OneAtATime
  <2> QED
    BY <2>1, <2>2
<1>2. \A x, y \in Busy' : x = y
  <2>1. Busy' \subseteq {r}
    BY <1>1 DEF Busy, Moves, At
  <2> QED
    BY <2>1
<1>3. \A x \in Requests : Relies(req[x])'
  <2> SUFFICES ASSUME NEW x \in Requests
               PROVE  Relies(req[x])'
    OBVIOUS
  <2>1. req'[x] = q \/ req'[x] = req[x]
    BY DEF Moves
  <2>2. Relies(req[x]) /\ Relies(q)
    BY DEF OneAtATime
  <2> QED
    BY <2>1, <2>2 DEF Relies
<1> QED
  BY <1>2, <1>3 DEF OneAtATime

LEMMA BeingWrittenStays ==
    ASSUME BeingWritten, UNCHANGED <<history, final, temp>>,
           NEW r \in Requests, NEW q, Moves(r, q), req[r].pc # "write"
    PROVE  BeingWritten'
<1> SUFFICES ASSUME history = "side by side", NEW f \in Files
             PROVE  /\ final[f] = "partial" => \E x \in Requests : Writes(req'[x], f, "final")
                    /\ temp[f] = "partial" => \E x \in Requests : Writes(req'[x], f, "temp")
  BY DEF BeingWritten, Writes, File
<1>1. \A fd : \A x \in Requests : Writes(req[x], f, fd) => Writes(req'[x], f, fd)
  BY DEF Moves, Writes
<1> QED
  BY <1>1 DEF BeingWritten

LEMMA DoomedStay ==
    ASSUME DoomedFromTheFirst, PrimaryOrDoomed, Shapes, UNCHANGED <<history, rows, inserted>>,
           NEW r \in Requests, NEW q, Nudges(r, q), req[r].doomed = {}, q.doomed = {}
    PROVE  DoomedFromTheFirst' /\ PrimaryOrDoomed'
<1>0. ASSUME NEW x \in Requests
      PROVE  \/ req'[x] = req[x]
             \/ req'[x].doomed = {} /\ req[x].doomed = {}
  BY ElsewhereShape DEF Nudges, Shapes, Shape
<1>1. DoomedFromTheFirst'
  BY <1>0 DEF DoomedFromTheFirst
<1>2. PrimaryOrDoomed'
  <2> SUFFICES ASSUME history = "side by side", NEW n \in DOMAIN rows,
                      ~ \E k \in DOMAIN rows : rows[k].item = rows[n].item /\ rows[k].primary
               PROVE  \E x \in Requests :
                         /\ rows[n].item \in req'[x].items
                         /\ \A k \in DOMAIN rows :
                               rows[k].item = rows[n].item => k \in req'[x].doomed
    BY DEF PrimaryOrDoomed
  <2>1. PICK x \in Requests :
           /\ rows[n].item \in req[x].items
           /\ \A k \in DOMAIN rows : rows[k].item = rows[n].item => k \in req[x].doomed
    BY DEF PrimaryOrDoomed
  <2>2. req'[x] = req[x]
    BY <1>0, <2>1
  <2> QED
    BY <2>1, <2>2
<1> QED
  BY <1>1, <1>2

\* A step that moves one handler and touches nothing else, except to remove.
LEMMA LocalStep ==
    ASSUME Inv, UNCHANGED <<history, item, rows, inserted, final, temp>>,
           NEW r \in Requests, NEW q, Moves(r, q), Shape(q),
           q.sha = "none" \/ req[r].sha # "none" \/ Room,
           history = "one at a time" => Relies(q) /\ (AllIdle \/ r \in Busy),
           req[r].pc # "write", req[r].doomed = {}, q.doomed = {}
    PROVE  Inv'
<1>1. Shapes'
  BY MovesNudge, ShapesMove DEF Inv
<1>2. RoomLeft'
  BY MovesNudge, RoomStays DEF Inv
<1>3. RowsTyped' /\ Typed'
  BY DEF Inv, RowsTyped, Typed, Moves
<1>4. OneAtATime'
  BY OneAtATimeStays DEF Inv, Typed
<1>5. BeingWritten'
  BY BeingWrittenStays DEF Inv
<1>6. PrimaryIsLast' /\ DoomedFromTheFirst' /\ PrimaryOrDoomed'
  BY MovesNudge, DoomedStay DEF Inv, PrimaryIsLast
<1> QED
  BY <1>1, <1>2, <1>3, <1>4, <1>5, <1>6 DEF Inv

-----------------------------------------------------------------------------
(* The steps that touch nothing but their own locals.                      *)

\* The guard of an arrival.
MayArrive == history = "side by side" \/ AllIdle

LEMMA ShasArePictures ==
    ASSUME RowsTyped, NEW N, N \subseteq DOMAIN rows
    PROVE  ShasOf(N) \in SUBSET Pictures
  BY DEF ShasOf, RowsTyped

LEMMA EditAddingKeeps ==
    ASSUME Inv, MayArrive, NEW r \in Requests, NEW i \in Items, NEW s \in Pictures,
           EditAdding(r, i, s)
    PROVE  Inv'
<1> DEFINE q == Locals("stat", {i}, s, "original", "none", {}, {}, "none")
<1>1. Moves(r, q)
  BY EditAddingMoves DEF Inv, Typed
<1>2. q \in Request
  BY DEF Locals, Request, Kinds
<1>3. Shape(q)
  BY <1>2, ImageBlobsAssumption DEF Shape, Locals, Storing
<1>4. Relies(q)
  BY DEF Relies, Locals
<1>5. req[r] = Idle
  BY DEF EditAdding, Inv, Shapes, Shape, At
<1>6. req[r].pc # "write" /\ req[r].doomed = {} /\ q.doomed = {}
  BY <1>5 DEF Idle, Locals
<1> HIDE DEF q
<1> QED
  BY <1>1, <1>3, <1>4, <1>6, LocalStep DEF EditAdding, MayArrive

LEMMA RemoveItemKeeps ==
    ASSUME Inv, MayArrive, NEW r \in Requests, NEW i \in Items, RemoveItem(r, i)
    PROVE  Inv'
<1> DEFINE shas == ShasOf(RowsOf({i}))
           q    == Locals("delete", {i}, "none", "original", "none", {}, shas, "none")
<1>1. Moves(r, q)
  BY RemoveItemMoves DEF Inv, Typed
<1>2. q \in Request
  <2>1. shas \in SUBSET Pictures
    BY ShasArePictures DEF Inv, RowsOf
  <2> HIDE DEF shas
  <2> QED
    BY <2>1 DEF Locals, Request, Kinds
<1>3. Shape(q)
  <2> HIDE DEF shas
  <2> QED
    BY <1>2 DEF Shape, Locals, Storing
<1>4. Relies(q) /\ q.sha = "none"
  BY DEF Relies, Locals
<1>5. req[r] = Idle
  BY DEF RemoveItem, Inv, Shapes, Shape, At
<1>6. req[r].pc # "write" /\ req[r].doomed = {} /\ q.doomed = {}
  BY <1>5 DEF Idle, Locals
<1> HIDE DEF q
<1> QED
  BY <1>1, <1>3, <1>4, <1>6, LocalStep DEF RemoveItem, MayArrive

LEMMA RemoveListKeeps ==
    ASSUME Inv, MayArrive, NEW r \in Requests, RemoveList(r)
    PROVE  Inv'
<1>1. PICK S \in SUBSET Items :
         Moves(r, Locals("delete", Items, "none", "original", "none", {}, ShasOf(RowsOf(S)), "none"))
  BY RemoveListMoves DEF Inv, Typed
<1> DEFINE shas == ShasOf(RowsOf(S))
           q    == Locals("delete", Items, "none", "original", "none", {}, shas, "none")
<1>2. q \in Request
  <2>1. shas \in SUBSET Pictures
    BY ShasArePictures DEF Inv, RowsOf
  <2> HIDE DEF shas
  <2> QED
    BY <2>1 DEF Locals, Request, Kinds
<1>3. Shape(q)
  <2> HIDE DEF shas
  <2> QED
    BY <1>2 DEF Shape, Locals, Storing
<1>4. Relies(q) /\ q.sha = "none"
  BY DEF Relies, Locals
<1>5. req[r] = Idle
  BY DEF RemoveList, Inv, Shapes, Shape, At
<1>6. req[r].pc # "write" /\ req[r].doomed = {} /\ q.doomed = {}
  BY <1>5 DEF Idle, Locals
<1> HIDE DEF q
<1> QED
  BY <1>1, <1>3, <1>4, <1>6, LocalStep DEF RemoveList, MayArrive, q

LEMMA RowsDoneKeeps ==
    ASSUME Inv, NEW r \in Requests, RowsDone(r)
    PROVE  Inv'
<1> DEFINE o == req[r]
           q == Locals("count", o.items, o.sha, o.kind, o.fd, o.doomed, o.shas, o.victim)
<1>1. Moves(r, q)
  BY RowsDoneMoves DEF Inv, Typed
<1>2. o.pc = "rows" /\ o.doomed = {} /\ Shape(o) /\ r \in Busy
  BY DEF RowsDone, At, Inv, Shapes, Busy
<1>3. history = "one at a time" => Relies(o)
  BY DEF Inv, OneAtATime
<1> HIDE DEF o
<1>4. q \in Request
  BY <1>2 DEF Shape, Locals, Request, Kinds
<1>5. Shape(q)
  BY <1>2, <1>4 DEF Shape, Locals, Storing
<1>6. history = "one at a time" => Relies(q)
  BY <1>3, <1>2 DEF Relies, Locals, File
<1>7. q.sha = o.sha /\ q.doomed = {}
  BY <1>2 DEF Locals
<1> HIDE DEF q
<1> USE DEF o
<1> QED
  BY <1>1, <1>2, <1>5, <1>6, <1>7, LocalStep DEF RowsDone

LEMMA NoRowPointsAt ==
    ASSUME RowsTyped, RoomLeft, NEW s, ~ (RefCount(s) > 0)
    PROVE  \A n \in DOMAIN rows : rows[n].sha # s
<1> DEFINE S == {n \in DOMAIN rows : rows[n].sha = s}
<1>1. inserted \in Nat
  <2>1. MaxRows \in Nat /\ inserted \in 0..MaxRows
    BY ImageBlobsAssumption DEF RoomLeft
  <2> QED
    BY ONLY <2>1
<1>2. IsFiniteSet(1..inserted)
  BY ONLY <1>1, FS_Interval
<1>3. IsFiniteSet(S)
  BY <1>2, FS_Subset DEF RowsTyped
<1>4. Cardinality(S) \in Nat /\ ~ (Cardinality(S) > 0)
  BY <1>3, FS_CardinalityType DEF RefCount
<1>5. Cardinality(S) = 0
  BY ONLY <1>4
<1> QED
  BY <1>3, <1>5, FS_EmptySet

LEMMA PruneKeeps ==
    ASSUME Inv, NEW r \in Requests, NEW s \in Pictures, Prune(r, s)
    PROVE  Inv'
<1> DEFINE o == req[r]
<1>2. o.pc = "count" /\ Shape(o) /\ r \in Busy
  BY DEF Prune, At, Inv, Shapes, Busy
<1>3. history = "one at a time" => Relies(o)
  BY DEF Inv, OneAtATime
<1>a. CASE RefCount(s) > 0
  <2> DEFINE q == Locals("count", o.items, o.sha, o.kind, o.fd, o.doomed, o.shas \ {s}, o.victim)
  <2>1. Moves(r, q)
    BY <1>a, PruneMoves DEF Inv, Typed
  <2> HIDE DEF o
  <2>4. q \in Request
    BY <1>2 DEF Shape, Locals, Request, Kinds
  <2>5. Shape(q)
    BY <1>2, <2>4 DEF Shape, Locals, Storing
  <2>6. history = "one at a time" => Relies(q)
    BY <1>3, <1>2 DEF Relies, Locals, File
  <2>7. q.sha = o.sha /\ q.doomed = {} /\ o.doomed = {}
    BY <1>2 DEF Locals, Shape
  <2> HIDE DEF q
  <2> USE DEF o
  <2> QED
    BY <1>2, <2>1, <2>5, <2>6, <2>7, LocalStep DEF Prune
<1>b. CASE ~ (RefCount(s) > 0)
  <2> DEFINE q == Locals("unlink", o.items, o.sha, o.kind, o.fd, o.doomed, o.shas \ {s}, s)
  <2>1. Moves(r, q)
    BY <1>b, PruneMoves DEF Inv, Typed
  <2>2. \A n \in DOMAIN rows : rows[n].sha # s
    BY <1>b, NoRowPointsAt DEF Inv
  <2> HIDE DEF o
  <2>4. q \in Request
    BY <1>2 DEF Shape, Locals, Request, Kinds
  <2>5. Shape(q)
    BY <1>2, <2>4, ImageBlobsAssumption DEF Shape, Locals, Storing
  <2>6. history = "one at a time" => Relies(q)
    BY <1>3, <1>2, <2>2 DEF Relies, Locals, File
  <2>7. q.sha = o.sha /\ q.doomed = {} /\ o.doomed = {}
    BY <1>2 DEF Locals, Shape
  <2> HIDE DEF q
  <2> USE DEF o
  <2> QED
    BY <1>2, <2>1, <2>5, <2>6, <2>7, LocalStep DEF Prune
<1> QED
  BY <1>a, <1>b

LEMMA IdleIsFine ==
    /\ Shape(Idle) /\ Relies(Idle) /\ Idle.doomed = {} /\ Idle.sha = "none"
    /\ Idle.pc = "idle"
<1>1. Idle \in Request
  BY DEF Idle, Request, Kinds
<1> QED
  BY <1>1 DEF Shape, Idle, Relies, Storing

LEMMA PruneDoneKeeps ==
    ASSUME Inv, NEW r \in Requests, PruneDone(r)
    PROVE  Inv'
<1> DEFINE o == req[r]
           q == Locals("stat", o.items, o.sha, o.kind, o.fd, o.doomed, o.shas, o.victim)
<1>1. \/ Moves(r, Idle)
      \/ o.sha # "none" /\ Moves(r, q)
  BY PruneDoneMoves DEF Inv, Typed
<1>2. o.pc = "count" /\ Shape(o) /\ r \in Busy /\ o.doomed = {}
  BY DEF PruneDone, At, Inv, Shapes, Shape, Busy
<1>3. history = "one at a time" => Relies(o)
  BY DEF Inv, OneAtATime
<1>a. CASE Moves(r, Idle)
  BY <1>a, <1>2, IdleIsFine, LocalStep DEF PruneDone
<1>b. CASE o.sha # "none" /\ Moves(r, q)
  <2> HIDE DEF o
  <2>4. q \in Request
    BY <1>2 DEF Shape, Locals, Request, Kinds
  <2>5. Shape(q)
    BY <1>2, <1>b, <2>4 DEF Shape, Locals, Storing
  <2>6. history = "one at a time" => Relies(q)
    BY <1>3, <1>2 DEF Relies, Locals, File
  <2>7. q.sha = o.sha /\ q.doomed = {}
    BY <1>2 DEF Locals
  <2> HIDE DEF q
  <2> USE DEF o
  <2> QED
    BY <1>2, <1>b, <2>5, <2>6, <2>7, LocalStep DEF PruneDone
<1> QED
  BY <1>1, <1>a, <1>b

LEMMA FilesOf ==
    ASSUME NEW q, Shape(q), q.sha # "none"
    PROVE  File(q) \in Files /\ Original(q.sha) \in Files
           /\ (q.kind = "original" => File(q) = Original(q.sha))
           /\ q.sha \in Pictures /\ q.kind \in Kinds
<1>1. q.sha \in Pictures /\ q.kind \in Kinds
  BY DEF Shape, Request
<1> QED
  BY <1>1 DEF File, Original, Files, Kinds

LEMMA NextFileIs ==
    ASSUME NEW r \in Requests
    PROVE  \/ /\ req[r].kind = "original"
              /\ NextFile(r).pc = "stat" /\ NextFile(r).kind = "display"
           \/ NextFile(r).pc = "row" /\ NextFile(r).kind = "original"
  BY DEF NextFile

LEMMA StatFileKeeps ==
    ASSUME Inv, NEW r \in Requests, StatFile(r)
    PROVE  Inv'
<1> DEFINE o == req[r]
<1>2. /\ o.pc = "stat" /\ Shape(o) /\ r \in Busy /\ o.doomed = {} /\ o.sha # "none"
      /\ o.victim = "none" /\ o.fd = "none"
  BY DEF StatFile, At, Inv, Shapes, Shape, Busy, Storing
<1>3. history = "one at a time" => Relies(o)
  BY DEF Inv, OneAtATime
<1>4. /\ File(o) \in Files
      /\ o.kind = "original" => File(o) = Original(o.sha)
  BY <1>2, FilesOf
<1>5. o.kind \in {"original", "display"}
  BY <1>2 DEF Shape, Request, Kinds
<1>a. CASE /\ final[File(o)] = "absent"
           /\ Moves(r, Locals("open", o.items, o.sha, o.kind, o.fd, o.doomed, o.shas, o.victim))
  <2> DEFINE q == Locals("open", o.items, o.sha, o.kind, o.fd, o.doomed, o.shas, o.victim)
  <2>1. Moves(r, q)
    BY <1>a
  <2> HIDE DEF o
  <2>4. q \in Request
    BY <1>2 DEF Shape, Locals, Request, Kinds
  <2>5. Shape(q)
    BY <1>2, <2>4 DEF Shape, Locals, Storing
  <2>6. history = "one at a time" => Relies(q)
    BY <1>3, <1>2 DEF Relies, Locals, File
  <2>7. q.sha = o.sha /\ q.doomed = {}
    BY <1>2 DEF Locals
  <2> HIDE DEF q
  <2> USE DEF o
  <2> QED
    BY <1>2, <2>1, <2>5, <2>6, <2>7, LocalStep DEF StatFile
<1>b. CASE /\ final[File(o)] # "absent"
           /\ Moves(r, Locals(NextFile(r).pc, o.items, o.sha, NextFile(r).kind, o.fd, o.doomed, o.shas, o.victim))
  <2> DEFINE pc   == NextFile(r).pc
             kind == NextFile(r).kind
             q    == Locals(pc, o.items, o.sha, kind, o.fd, o.doomed, o.shas, o.victim)
  <2>1. Moves(r, q)
    BY <1>b
  <2>2. \/ pc = "stat" /\ kind = "display" /\ o.kind = "original"
        \/ pc = "row" /\ kind = "original"
    BY NextFileIs
  <2>3. history = "one at a time" => final[Original(o.sha)] = "full"
    <3> SUFFICES ASSUME history = "one at a time" PROVE final[Original(o.sha)] = "full"
      OBVIOUS
    <3>1. CASE o.kind = "display"
      BY <1>3, <3>1 DEF Relies
    <3>2. CASE o.kind = "original"
      <4>1. final[File(o)] \in Bytes /\ final[File(o)] # "partial"
        BY <1>4 DEF Inv, OneAtATime, Typed
      <4> QED
        BY <1>4, <1>b, <3>2, <4>1 DEF Bytes
    <3> QED
      BY <1>5, <3>1, <3>2
  <2> HIDE DEF o, pc, kind
  <2>4. q \in Request
    BY <1>2, <2>2 DEF Shape, Locals, Request, Kinds
  <2>5. Shape(q)
    <3>1. CASE pc = "stat" /\ kind = "display"
      BY <1>2, <2>4, <3>1 DEF Shape, Locals, Storing
    <3>2. CASE pc = "row" /\ kind = "original"
      BY <1>2, <2>4, <3>2 DEF Shape, Locals, Storing
    <3> QED
      BY <2>2, <3>1, <3>2
  <2>6. history = "one at a time" => Relies(q)
    BY <1>2, <2>2, <2>3 DEF Relies, Locals, File
  <2>7. q.sha = o.sha /\ q.doomed = {}
    BY <1>2 DEF Locals
  <2> HIDE DEF q
  <2> USE DEF o
  <2> QED
    BY <1>2, <2>1, <2>5, <2>6, <2>7, LocalStep DEF StatFile
<1> QED
  BY <1>a, <1>b, StatFileMoves DEF Inv, Typed

-----------------------------------------------------------------------------
(* The steps of writing a file.                                            *)

\* One at a time: the handler that works is the only one.
LEMMA AloneStays ==
    ASSUME OneAtATime, Shapes, NEW r \in Requests, NEW q, Nudges(r, q),
           history' = history, AllIdle \/ r \in Busy,
           history = "one at a time" =>
              /\ Relies(q)'
              /\ \A n \in DOMAIN rows' : final'[Original(rows'[n].sha)] = "full"
              /\ \A f \in Files : final'[f] # "partial"
    PROVE  OneAtATime'
<1> SUFFICES ASSUME history = "one at a time"
             PROVE  /\ \A x, y \in Busy' : x = y
                    /\ \A x \in Requests : Relies(req[x])'
  BY DEF OneAtATime
<1>1. \A x \in Requests \ {r} : req[x] = Idle
  <2> SUFFICES ASSUME NEW x \in Requests \ {r} PROVE req[x].pc = "idle"
    BY DEF Shapes, Shape
  <2>1. CASE AllIdle
    BY <2>1 DEF AllIdle, At
  <2>2. CASE r \in Busy
    BY <2>2 DEF OneAtATime, Busy, At
  <2> QED
    BY <2>1, <2>2
<1>2. \A x \in Requests \ {r} : req'[x] = Idle
  BY <1>1, IdleIsFine DEF Nudges
<1>3. Busy' \subseteq {r}
  BY <1>2, IdleIsFine DEF Busy, At
<1>4. \A x \in Requests : Relies(req[x])'
  <2> SUFFICES ASSUME NEW x \in Requests
               PROVE  Relies(req[x])'
    OBVIOUS
  <2>1. CASE x = r
    BY <2>1 DEF Nudges, Relies
  <2>2. CASE x # r
    <3>1. req'[x] = Idle
      BY <1>2, <2>2
    <3>2. /\ req'[x].pc = "idle" /\ req'[x].kind = "original" /\ req'[x].victim = "none"
      <4>1. Idle.pc = "idle" /\ Idle.kind = "original" /\ Idle.victim = "none"
        BY DEF Idle
      <4> QED
        BY <3>1, <4>1
    <3> QED
      BY <3>2 DEF Relies
  <2> QED
    BY <2>1, <2>2
<1> QED
  BY <1>3, <1>4

LEMMA OpenTempKeeps ==
    ASSUME Inv, NEW r \in Requests, OpenTemp(r)
    PROVE  Inv'
<1>0. PICK o, f, q :
         /\ o = req[r] /\ f = File(o)
         /\ q = Locals("write", o.items, o.sha, o.kind, "temp", o.doomed, o.shas, o.victim)
  OBVIOUS
<1>1. Moves(r, q) /\ Nudges(r, q)
  BY <1>0, OpenTempMoves, MovesNudge DEF Inv, Typed
<1>2. /\ o.pc = "open" /\ Shape(o) /\ r \in Busy /\ o.doomed = {} /\ o.sha # "none"
      /\ o.victim = "none" /\ o.fd = "none"
  BY <1>0 DEF OpenTemp, At, Inv, Shapes, Shape, Busy, Storing
<1>3. history = "one at a time" => Relies(o)
  BY <1>0 DEF Inv, OneAtATime
<1>4. f \in Files
  BY <1>0, <1>2, FilesOf
<1>5. /\ temp' = [temp EXCEPT ![f] = "partial"]
      /\ UNCHANGED <<history, item, rows, inserted, final>>
  BY <1>0 DEF OpenTemp, File
<1>6. q \in Request
  BY <1>0, <1>2 DEF Shape, Locals, Request, Kinds
<1>7. Shape(q)
  BY <1>0, <1>2, <1>6 DEF Shape, Locals, Storing
<1>9. /\ q.sha = o.sha /\ q.doomed = {} /\ q.kind = o.kind
      /\ q.victim = "none" /\ q.pc = "write" /\ q.fd = "temp" /\ File(q) = f
  BY <1>0, <1>2 DEF Locals, File
<1>8. history = "one at a time" => Relies(q)'
  BY <1>0, <1>2, <1>3, <1>5, <1>9 DEF Relies, Locals
<1>10. Shapes' /\ RoomLeft'
  BY <1>0, <1>1, <1>2, <1>5, <1>7, ShapesMove, RoomStays DEF Inv
<1>11. RowsTyped' /\ Typed'
  BY <1>1, <1>4, <1>5 DEF Inv, RowsTyped, Typed, Moves, Bytes
<1>12. OneAtATime'
  <2>1. history = "one at a time" =>
           /\ \A n \in DOMAIN rows' : final'[Original(rows'[n].sha)] = "full"
           /\ \A g \in Files : final'[g] # "partial"
    BY <1>5 DEF Inv, OneAtATime
  <2> QED
    BY <1>0, <1>1, <1>2, <1>5, <1>8, <2>1, AloneStays DEF Inv
<1>13. BeingWritten'
  <2> SUFFICES ASSUME history = "side by side", NEW g \in Files
               PROVE  /\ final[g] = "partial" => \E x \in Requests : Writes(req'[x], g, "final")
                      /\ temp'[g] = "partial" => \E x \in Requests : Writes(req'[x], g, "temp")
    BY <1>5 DEF BeingWritten, Writes, File
  <2>1. \A fd : \A x \in Requests : Writes(req[x], g, fd) => Writes(req'[x], g, fd)
    BY <1>0, <1>1, <1>2 DEF Moves, Writes
  <2>2. CASE g = f
    <3>1. Writes(req'[r], g, "temp")
      BY <1>1, <1>9, <2>2 DEF Moves, Writes
    <3> QED
      BY <2>1, <3>1 DEF Inv, BeingWritten
  <2>3. CASE g # f
    <3>1. temp'[g] = temp[g]
      BY <1>5, <2>3 DEF Inv, Typed
    <3> QED
      BY <2>1, <3>1 DEF Inv, BeingWritten
  <2> QED
    BY <2>2, <2>3
<1>14. PrimaryIsLast' /\ DoomedFromTheFirst' /\ PrimaryOrDoomed'
  BY <1>0, <1>1, <1>2, <1>5, <1>9, DoomedStay DEF Inv, PrimaryIsLast
<1> QED
  BY <1>10, <1>11, <1>12, <1>13, <1>14 DEF Inv

LEMMA WriteTempKeeps ==
    ASSUME Inv, NEW r \in Requests, WriteTemp(r)
    PROVE  Inv'
<1>0. PICK o, f, q :
         /\ o = req[r] /\ f = File(o)
         /\ q = Locals("rename", o.items, o.sha, o.kind, "none", o.doomed, o.shas, o.victim)
  OBVIOUS
<1>1. Moves(r, q) /\ Nudges(r, q)
  BY <1>0, WriteTempMoves, MovesNudge DEF Inv, Typed
<1>2. /\ o.pc = "write" /\ Shape(o) /\ r \in Busy /\ o.doomed = {} /\ o.sha # "none"
      /\ o.victim = "none"
  BY <1>0 DEF WriteTemp, At, Inv, Shapes, Shape, Busy, Storing
<1>3. history = "one at a time" => Relies(o)
  BY <1>0 DEF Inv, OneAtATime
<1>4. f \in Files
  BY <1>0, <1>2, FilesOf
<1>5. /\ temp'  = IF o.fd = "temp"  THEN [temp EXCEPT ![f] = "full"] ELSE temp
      /\ final' = IF o.fd = "final" THEN [final EXCEPT ![f] = "full"] ELSE final
      /\ UNCHANGED <<history, item, rows, inserted>>
  BY <1>0 DEF WriteTemp, File
<1>6. q \in Request
  BY <1>0, <1>2 DEF Shape, Locals, Request, Kinds
<1>7. Shape(q)
  BY <1>0, <1>2, <1>6 DEF Shape, Locals, Storing
<1>9. /\ q.sha = o.sha /\ q.doomed = {} /\ q.kind = o.kind
      /\ q.victim = "none" /\ q.pc = "rename" /\ File(q) = f
  BY <1>0, <1>2 DEF Locals, File
<1>8. history = "one at a time" => Relies(q)' /\ final' = final
  <2> SUFFICES ASSUME history = "one at a time" PROVE Relies(q)' /\ final' = final
    OBVIOUS
  <2>1. o.fd = "temp" /\ (o.kind = "display" => final[Original(o.sha)] = "full")
    BY <1>2, <1>3 DEF Relies
  <2>2. final' = final /\ temp'[f] = "full"
    BY <1>4, <1>5, <2>1 DEF Inv, Typed
  <2> QED
    BY <1>9, <2>1, <2>2 DEF Relies, File
<1>10. Shapes' /\ RoomLeft'
  BY <1>0, <1>1, <1>2, <1>5, <1>7, ShapesMove, RoomStays DEF Inv
<1>11. RowsTyped' /\ Typed'
  BY <1>1, <1>4, <1>5 DEF Inv, RowsTyped, Typed, Moves, Bytes
<1>12. OneAtATime'
  <2>1. history = "one at a time" =>
           /\ \A n \in DOMAIN rows' : final'[Original(rows'[n].sha)] = "full"
           /\ \A g \in Files : final'[g] # "partial"
    BY <1>5, <1>8 DEF Inv, OneAtATime
  <2> QED
    BY <1>0, <1>1, <1>2, <1>5, <1>8, <2>1, AloneStays DEF Inv
<1>13. BeingWritten'
  <2> SUFFICES ASSUME history = "side by side", NEW g \in Files
               PROVE  /\ final'[g] = "partial" => \E x \in Requests : Writes(req'[x], g, "final")
                      /\ temp'[g] = "partial" => \E x \in Requests : Writes(req'[x], g, "temp")
    BY <1>5 DEF BeingWritten, Writes, File
  <2>1. \A fd : \A x \in Requests \ {r} : Writes(req[x], g, fd) => Writes(req'[x], g, fd)
    BY <1>1 DEF Moves, Writes
  <2>2. \A fd : Writes(req[r], g, fd) => fd = o.fd /\ g = f
    BY <1>0 DEF Writes
  <2>3. ASSUME final'[g] = "partial"
        PROVE  \E x \in Requests : Writes(req'[x], g, "final")
    <3>1. final[g] = "partial" /\ ~ (o.fd = "final" /\ g = f)
      BY <1>4, <1>5, <2>3 DEF Inv, Typed
    <3>2. PICK x \in Requests : Writes(req[x], g, "final")
      BY <3>1 DEF Inv, BeingWritten
    <3> QED
      BY <2>1, <2>2, <3>1, <3>2
  <2>4. ASSUME temp'[g] = "partial"
        PROVE  \E x \in Requests : Writes(req'[x], g, "temp")
    <3>1. temp[g] = "partial" /\ ~ (o.fd = "temp" /\ g = f)
      BY <1>4, <1>5, <2>4 DEF Inv, Typed
    <3>2. PICK x \in Requests : Writes(req[x], g, "temp")
      BY <3>1 DEF Inv, BeingWritten
    <3> QED
      BY <2>1, <2>2, <3>1, <3>2
  <2> QED
    BY <2>3, <2>4
<1>14. PrimaryIsLast' /\ DoomedFromTheFirst' /\ PrimaryOrDoomed'
  BY <1>0, <1>1, <1>2, <1>5, <1>9, DoomedStay DEF Inv, PrimaryIsLast
<1> QED
  BY <1>10, <1>11, <1>12, <1>13, <1>14 DEF Inv

LEMMA WriteFailsKeeps ==
    ASSUME Inv, NEW r \in Requests, WriteFails(r)
    PROVE  Inv'
<1>1. Moves(r, Idle) /\ Nudges(r, Idle)
  <2>1. Moves(r, Idle)
    BY DEF WriteFails, Done, Moves, Inv, Typed
  <2> QED
    BY <2>1, MovesNudge
<1>2. /\ history = "one at a time" /\ r \in Busy /\ req[r].doomed = {}
      /\ UNCHANGED <<history, item, rows, inserted, final, temp>>
  BY DEF WriteFails, MayFail, At, Busy, Inv, Shapes, Shape
<1>3. Shapes' /\ RoomLeft'
  BY <1>1, <1>2, IdleIsFine, ShapesMove, RoomStays DEF Inv
<1>4. RowsTyped' /\ Typed'
  BY <1>1, <1>2 DEF Inv, RowsTyped, Typed, Moves
<1>5. OneAtATime'
  BY <1>1, <1>2, IdleIsFine, OneAtATimeStays DEF Inv, Typed
<1>6. BeingWritten'
  BY <1>2 DEF BeingWritten
<1>7. PrimaryIsLast' /\ DoomedFromTheFirst' /\ PrimaryOrDoomed'
  BY <1>1, <1>2, IdleIsFine, DoomedStay DEF Inv, PrimaryIsLast
<1> QED
  BY <1>3, <1>4, <1>5, <1>6, <1>7 DEF Inv

LEMMA CrashKeeps ==
    ASSUME Inv, Crash
    PROVE  Inv'
<1>1. /\ history = "one at a time" /\ DOMAIN req' = Requests
      /\ \A x \in Requests : req'[x] = Idle
      /\ UNCHANGED <<history, item, rows, inserted, final, temp>>
  BY DEF Crash, MayFail
<1>2. Shapes'
  BY <1>1, IdleIsFine DEF Shapes
<1>3. RoomLeft'
  <2>1. Adding' = {} /\ Busy' = {}
    BY <1>1, IdleIsFine DEF Adding, Busy, At
  <2>2. Cardinality(Adding') = 0 /\ IsFiniteSet(Busy')
    BY <2>1, FS_EmptySet
  <2>3. inserted' \in 0..MaxRows /\ MaxRows \in Nat
    BY <1>1, ImageBlobsAssumption DEF Inv, RoomLeft
  <2>4. \A n \in 0..MaxRows : n + 0 <= MaxRows
    BY <2>3
  <2>5. inserted' + Cardinality(Adding') <= MaxRows
    BY ONLY <2>2, <2>3, <2>4
  <2> QED
    BY <2>2, <2>3, <2>5 DEF RoomLeft
<1>4. RowsTyped' /\ Typed'
  BY <1>1 DEF Inv, RowsTyped, Typed
<1>5. OneAtATime'
  <2>1. \A x \in Requests : Relies(req[x])'
    BY <1>1, IdleIsFine DEF Relies
  <2>2. Busy' = {}
    BY <1>1, IdleIsFine DEF Busy, At
  <2> QED
    BY <1>1, <2>1, <2>2 DEF Inv, OneAtATime
<1>6. BeingWritten' /\ PrimaryOrDoomed'
  BY <1>1 DEF BeingWritten, PrimaryOrDoomed
<1>7. PrimaryIsLast' /\ DoomedFromTheFirst'
  BY <1>1, IdleIsFine DEF Inv, PrimaryIsLast, DoomedFromTheFirst
<1> QED
  BY <1>2, <1>3, <1>4, <1>5, <1>6, <1>7 DEF Inv

-----------------------------------------------------------------------------
(* The steps that take a file from under somebody who has it open.         *)

LEMMA ElsewhereIs ==
    ASSUME NEW q \in Request, NEW fd
    PROVE  [q EXCEPT !.fd = fd] = Elsewhere(q, fd)
  BY DEF Elsewhere, Locals, Request

\* Whoever has the file f open under its final name holds a file without a name.
Loses(x, f) ==
    IF req[x].fd = "final" /\ File(req[x]) = f
    THEN req[x].pc = "write" /\ req'[x] = Elsewhere(req[x], "lost")
    ELSE req'[x] = req[x]

LEMMA UnlinkMoves ==
    ASSUME Shapes, DOMAIN req = Requests, NEW r \in Requests, Unlink(r),
           NEW o, o = req[r],
           NEW f, f = <<o.victim, IF o.pc = "unlink" THEN "original" ELSE "display">>,
           NEW q, q = Locals(IF o.pc = "unlink" THEN "unlink_display" ELSE "count",
                             o.items, o.sha, o.kind, o.fd, o.doomed, o.shas,
                             IF o.pc = "unlink" THEN o.victim ELSE "none")
    PROVE  /\ Nudges(r, q)
           /\ \A x \in Requests \ {r} : Loses(x, f)
<1> DEFINE kind  == IF At(r, "unlink") THEN "original" ELSE "display"
           after == [req EXCEPT
                       ![r].pc = IF kind = "original" THEN "unlink_display" ELSE "count",
                       ![r].victim = IF kind = "original" THEN @ ELSE "none"]
<1>1. req' = Losing(f, after)
  BY DEF Unlink, At
<1>2. \A x \in Requests : Shape(req[x]) /\ req[x] \in Request
  BY DEF Shapes, Shape
<1>3. /\ DOMAIN after = Requests /\ \A x \in Requests \ {r} : after[x] = req[x]
      /\ after[r] = q
  <2>1. o.pc \in {"unlink", "unlink_display"} /\ o \in Request
    BY <1>2 DEF Unlink, At
  <2>2. DOMAIN after = Requests /\ \A x \in Requests \ {r} : after[x] = req[x]
    OBVIOUS
  <2>3. CASE o.pc = "unlink"
    <3>1. after[r] = [[o EXCEPT !.pc = "unlink_display"] EXCEPT !.victim = o.victim]
      BY <2>3, <2>1 DEF At, Request
    <3> QED
      BY <2>1, <2>3, <3>1 DEF Locals, Request
  <2>4. CASE o.pc # "unlink"
    <3>1. after[r] = [[o EXCEPT !.pc = "count"] EXCEPT !.victim = "none"]
      BY <2>4, <2>1 DEF At, Request
    <3> QED
      BY <2>1, <2>4, <3>1 DEF Locals, Request
  <2> QED
    BY <2>2, <2>3, <2>4
<1>4. o.fd = "none" /\ q.fd = "none"
  BY <1>2 DEF Unlink, At, Shape, Locals
<1> HIDE DEF after
<1>5. DOMAIN req' = Requests /\ req'[r] = q
  BY <1>1, <1>3, <1>4 DEF Losing
<1>6. \A x \in Requests \ {r} : Loses(x, f)
  <2> SUFFICES ASSUME NEW x \in Requests \ {r} PROVE Loses(x, f)
    OBVIOUS
  <2>1. CASE req[x].fd = "final" /\ File(req[x]) = f
    <3>1. req'[x] = [req[x] EXCEPT !.fd = "lost"]
      BY <1>1, <1>3, <2>1 DEF Losing, File
    <3>2. req[x].pc = "write"
      BY <1>2, <2>1 DEF Shape
    <3> QED
      BY <1>2, <2>1, <3>1, <3>2, ElsewhereIs DEF Loses
  <2>2. CASE ~ (req[x].fd = "final" /\ File(req[x]) = f)
    BY <1>1, <1>3, <2>2 DEF Losing, File, Loses
  <2> QED
    BY <2>1, <2>2
<1> QED
  BY <1>5, <1>6 DEF Nudges, Loses

LEMMA UnlinkKeeps ==
    ASSUME Inv, NEW r \in Requests, Unlink(r)
    PROVE  Inv'
<1>0. PICK o, f, q :
         /\ o = req[r]
         /\ f = <<o.victim, IF o.pc = "unlink" THEN "original" ELSE "display">>
         /\ q = Locals(IF o.pc = "unlink" THEN "unlink_display" ELSE "count",
                       o.items, o.sha, o.kind, o.fd, o.doomed, o.shas,
                       IF o.pc = "unlink" THEN o.victim ELSE "none")
  OBVIOUS
<1>1. Nudges(r, q) /\ \A x \in Requests \ {r} : Loses(x, f)
  BY <1>0, UnlinkMoves DEF Inv, Typed
<1>2. /\ o.pc \in {"unlink", "unlink_display"} /\ Shape(o) /\ r \in Busy /\ o.doomed = {}
      /\ o.victim \in Pictures /\ o.fd = "none" /\ o.kind = "original"
  <2>1. /\ o.pc \in {"unlink", "unlink_display"} /\ Shape(o) /\ r \in Busy
    BY <1>0 DEF Unlink, At, Inv, Shapes, Busy
  <2> QED
    BY <2>1 DEF Shape, Request, Storing
<1>3. history = "one at a time" => Relies(o)
  BY <1>0 DEF Inv, OneAtATime
<1>4. f \in Files /\ \A s : Original(s) = f => s = o.victim
  BY <1>0, <1>2 DEF Files, Kinds, Original
<1>5. /\ final' = [final EXCEPT ![f] = "absent"]
      /\ UNCHANGED <<history, item, rows, inserted, temp>>
  BY <1>0 DEF Unlink, At
<1>9. /\ q.pc \in {"unlink_display", "count"} /\ q.doomed = {} /\ q.sha = o.sha
      /\ q.victim \in {o.victim, "none"} /\ q.fd = "none" /\ q.kind = "original"
  BY <1>0, <1>2, ImageBlobsAssumption DEF Locals
<1>6. q \in Request
  BY <1>0, <1>2 DEF Shape, Locals, Request, Kinds
<1>7. Shape(q)
  <2>1. q.items = o.items
    BY <1>0 DEF Locals
  <2>2. q.victim # "none" <=> q.pc = "unlink_display"
    BY <1>0, <1>2, ImageBlobsAssumption DEF Locals
  <2> QED
    BY <1>2, <1>6, <1>9, <2>1, <2>2 DEF Shape, Storing
<1>8. history = "one at a time" =>
         /\ Relies(q)'
         /\ \A n \in DOMAIN rows' : final'[Original(rows'[n].sha)] = "full"
         /\ \A g \in Files : final'[g] # "partial"
  <2> SUFFICES ASSUME history = "one at a time"
               PROVE  /\ Relies(q)'
                      /\ \A n \in DOMAIN rows' : final'[Original(rows'[n].sha)] = "full"
                      /\ \A g \in Files : final'[g] # "partial"
    OBVIOUS
  <2>1. \A n \in DOMAIN rows : rows[n].sha # o.victim /\ rows[n].sha \in Pictures
    BY <1>2, <1>3, ImageBlobsAssumption DEF Relies, Inv, RowsTyped
  <2>2. Relies(q)'
    BY <1>5, <1>9, <2>1 DEF Relies
  <2>3. \A n \in DOMAIN rows : final'[Original(rows[n].sha)] = final[Original(rows[n].sha)]
    BY <1>4, <1>5, <2>1 DEF Inv, Typed, Files, Original, Kinds
  <2>4. \A g \in Files : final'[g] = final[g] \/ final'[g] = "absent"
    BY <1>4, <1>5 DEF Inv, Typed
  <2> QED
    BY <1>5, <2>2, <2>3, <2>4 DEF Inv, OneAtATime
<1>10. Shapes' /\ RoomLeft'
  BY <1>0, <1>1, <1>2, <1>5, <1>7, <1>9, ShapesMove, RoomStays DEF Inv
<1>11. RowsTyped' /\ Typed'
  BY <1>1, <1>4, <1>5 DEF Inv, RowsTyped, Typed, Nudges, Bytes
<1>12. OneAtATime'
  BY <1>0, <1>1, <1>2, <1>5, <1>8, AloneStays DEF Inv
<1>13. BeingWritten'
  <2> SUFFICES ASSUME history = "side by side", NEW g \in Files
               PROVE  /\ final'[g] = "partial" => \E x \in Requests : Writes(req'[x], g, "final")
                      /\ temp[g] = "partial" => \E x \in Requests : Writes(req'[x], g, "temp")
    BY <1>5 DEF BeingWritten, Writes, File
  <2>1. \A fd : ~ Writes(req[r], g, fd)
    BY <1>0, <1>2 DEF Writes
  <2>2. \A x \in Requests : Writes(req[x], g, "temp") => Writes(req'[x], g, "temp")
    BY <1>1, <2>1 DEF Loses, Writes
  <2>3. g # f => \A x \in Requests : Writes(req[x], g, "final") => Writes(req'[x], g, "final")
    BY <1>1, <2>1 DEF Loses, Writes
  <2>4. IF g = f THEN final'[g] = "absent" ELSE final'[g] = final[g]
    BY <1>4, <1>5 DEF Inv, Typed
  <2> QED
    BY <2>2, <2>3, <2>4 DEF Inv, BeingWritten
<1>14. PrimaryIsLast' /\ DoomedFromTheFirst' /\ PrimaryOrDoomed'
  BY <1>0, <1>1, <1>2, <1>5, <1>9, DoomedStay DEF Inv, PrimaryIsLast
<1> QED
  BY <1>10, <1>11, <1>12, <1>13, <1>14 DEF Inv

\* Renamed over, f is lost to whoever had it open, and the temporary file is f now.
Renamed(x, f) ==
    IF File(req[x]) = f /\ req[x].fd \in {"final", "temp"}
    THEN /\ req[x].pc = "write"
         /\ req'[x] = Elsewhere(req[x], IF req[x].fd = "temp" THEN "final" ELSE "lost")
    ELSE req'[x] = req[x]

LEMMA RenameMoves ==
    ASSUME Shapes, DOMAIN req = Requests, NEW r \in Requests, RenameTemp(r),
           NEW o, o = req[r], temp[File(o)] # "absent",
           NEW q, q = Locals(NextFile(r).pc, o.items, o.sha, NextFile(r).kind,
                             o.fd, o.doomed, o.shas, o.victim)
    PROVE  /\ Nudges(r, q)
           /\ \A x \in Requests \ {r} : Renamed(x, File(o))
<1>0. PICK f, next : f = File(o) /\ next = NextFile(r)
  OBVIOUS
<1> DEFINE moved == [x \in Requests |->
                       IF req[x].fd = "temp" /\ <<req[x].sha, req[x].kind>> = f
                       THEN [Losing(f, req)[x] EXCEPT !.fd = "final"]
                       ELSE Losing(f, req)[x]]
<1>1. req' = [moved EXCEPT ![r].pc = next.pc, ![r].kind = next.kind]
  BY <1>0 DEF RenameTemp, File
<1>2. \A x \in Requests : Shape(req[x]) /\ req[x] \in Request
  BY DEF Shapes, Shape
<1>3. o.fd = "none" /\ o.pc = "rename"
  BY <1>2 DEF RenameTemp, At, Shape
<1>4. moved[r] = o
  BY <1>3 DEF Losing
<1>5. DOMAIN req' = Requests /\ \A x \in Requests \ {r} : req'[x] = moved[x]
  BY <1>1
<1>6. req'[r] = q
  <2>1. req'[r] = [[o EXCEPT !.pc = next.pc] EXCEPT !.kind = next.kind]
    BY <1>1, <1>4
  <2> QED
    BY <1>0, <1>2, <2>1, ZenonT(30) DEF Locals, Request
<1>7. \A x \in Requests \ {r} : Renamed(x, f)
  <2> SUFFICES ASSUME NEW x \in Requests \ {r} PROVE Renamed(x, f)
    OBVIOUS
  <2>1. req'[x] = moved[x]
    BY <1>5
  <2>2. CASE req[x].fd = "temp" /\ File(req[x]) = f
    <3>1. req'[x] = [req[x] EXCEPT !.fd = "final"]
      BY <2>1, <2>2 DEF Losing, File
    <3>2. req[x].pc = "write"
      BY <1>2, <2>2 DEF Shape
    <3> QED
      BY <1>2, <2>2, <3>1, <3>2, ElsewhereIs DEF Renamed
  <2>3. CASE req[x].fd = "final" /\ File(req[x]) = f
    <3>1. req'[x] = [req[x] EXCEPT !.fd = "lost"]
      BY <2>1, <2>3 DEF Losing, File
    <3>2. req[x].pc = "write"
      BY <1>2, <2>3 DEF Shape
    <3> QED
      BY <1>2, <2>3, <3>1, <3>2, ElsewhereIs DEF Renamed
  <2>4. CASE ~ (File(req[x]) = f /\ req[x].fd \in {"final", "temp"})
    BY <2>1, <2>4 DEF Losing, File, Renamed
  <2> QED
    BY <2>2, <2>3, <2>4
<1> QED
  BY <1>0, <1>5, <1>6, <1>7 DEF Nudges, Renamed

LEMMA RenameTempKeeps ==
    ASSUME Inv, NEW r \in Requests, RenameTemp(r)
    PROVE  Inv'
<1>0. PICK o, f, q :
         /\ o = req[r] /\ f = File(o)
         /\ q = Locals(NextFile(r).pc, o.items, o.sha, NextFile(r).kind,
                       o.fd, o.doomed, o.shas, o.victim)
  OBVIOUS
<1>2. /\ o.pc = "rename" /\ Shape(o) /\ r \in Busy /\ o.doomed = {}
      /\ o.sha # "none" /\ o.fd = "none" /\ o.victim = "none"
  BY <1>0 DEF RenameTemp, At, Inv, Shapes, Shape, Busy, Storing
<1>3. history = "one at a time" => Relies(o)
  BY <1>0 DEF Inv, OneAtATime
<1>4. f \in Files
  BY <1>0, <1>2, FilesOf
<1>a. CASE temp[f] = "absent"
  <2>1. Done(r) /\ UNCHANGED <<history, item, rows, inserted, final, temp>>
    BY <1>0, <1>a DEF RenameTemp, File
  <2>2. Moves(r, Idle)
    BY <2>1 DEF Done, Moves, Inv, Typed
  <2> QED
    BY <1>0, <1>2, <2>1, <2>2, IdleIsFine, LocalStep
<1>b. CASE temp[f] # "absent"
  <2>1. Nudges(r, q) /\ \A x \in Requests \ {r} : Renamed(x, f)
    BY <1>0, <1>b, RenameMoves DEF Inv, Typed
  <2>5. /\ final' = [final EXCEPT ![f] = temp[f]]
        /\ temp' = [temp EXCEPT ![f] = "absent"]
        /\ UNCHANGED <<history, item, rows, inserted>>
    BY <1>0, <1>b DEF RenameTemp, File
  <2>9. /\ \/ o.kind = "original" /\ q.pc = "stat" /\ q.kind = "display"
           \/ q.pc = "row" /\ q.kind = "original"
        /\ q.doomed = {} /\ q.sha = o.sha /\ q.fd = "none" /\ q.victim = "none"
        /\ q.items = o.items
    BY <1>0, <1>2, NextFileIs DEF Locals
  <2>6. q \in Request
    <3>1. NextFile(r).pc \in {"stat", "row"} /\ NextFile(r).kind \in Kinds
      BY NextFileIs DEF Kinds
    <3> QED
      BY <1>0, <1>2, <3>1 DEF Shape, Locals, Request
  <2>7. Shape(q)
    <3>1. CASE q.pc = "stat"
      BY <1>2, <2>6, <2>9, <3>1 DEF Shape, Storing
    <3>2. CASE q.pc = "row"
      BY <1>2, <2>6, <2>9, <3>2 DEF Shape, Storing
    <3> QED
      BY <2>9, <3>1, <3>2
  <2>8. history = "one at a time" =>
           /\ Relies(q)'
           /\ \A n \in DOMAIN rows' : final'[Original(rows'[n].sha)] = "full"
           /\ \A g \in Files : final'[g] # "partial"
    <3> SUFFICES ASSUME history = "one at a time"
                 PROVE  /\ Relies(q)'
                        /\ \A n \in DOMAIN rows' : final'[Original(rows'[n].sha)] = "full"
                        /\ \A g \in Files : final'[g] # "partial"
      OBVIOUS
    <3>1. temp[f] = "full"
      BY <1>0, <1>2, <1>3 DEF Relies
    <3>2. \A g \in Files : final'[g] = IF g = f THEN "full" ELSE final[g]
      BY <1>4, <2>5, <3>1 DEF Inv, Typed
    <3>3. \A n \in DOMAIN rows : Original(rows[n].sha) \in Files
      BY DEF Inv, RowsTyped, Original, Files, Kinds
    <3>4. final'[Original(o.sha)] = "full"
      <4>1. Original(o.sha) \in Files /\ (o.kind = "original" => f = Original(o.sha))
        BY <1>0, <1>2, FilesOf
      <4>2. o.kind = "original" \/ o.kind = "display"
        BY <1>2 DEF Shape, Request, Kinds
      <4> QED
        BY <1>3, <3>2, <4>1, <4>2 DEF Relies
    <3>5. Relies(q)'
      BY <2>9, <3>4 DEF Relies
    <3>6. \A n \in DOMAIN rows' : final'[Original(rows'[n].sha)] = "full"
      <4>1. \A n \in DOMAIN rows : final[Original(rows[n].sha)] = "full"
        BY DEF Inv, OneAtATime
      <4> QED
        BY <2>5, <3>2, <3>3, <4>1
    <3>7. \A g \in Files : final'[g] # "partial"
      BY <3>2 DEF Inv, OneAtATime
    <3> QED
      BY <3>5, <3>6, <3>7
  <2>10. Shapes' /\ RoomLeft'
    BY <1>0, <1>2, <2>1, <2>5, <2>7, ShapesMove, RoomStays DEF Inv
  <2>11. RowsTyped' /\ Typed'
    BY <1>4, <2>1, <2>5 DEF Inv, RowsTyped, Typed, Nudges, Bytes
  <2>12. OneAtATime'
    BY <1>0, <1>2, <2>1, <2>5, <2>8, AloneStays DEF Inv
  <2>13. BeingWritten'
    <3> SUFFICES ASSUME history = "side by side", NEW g \in Files
                 PROVE  /\ final'[g] = "partial" => \E x \in Requests : Writes(req'[x], g, "final")
                        /\ temp'[g] = "partial" => \E x \in Requests : Writes(req'[x], g, "temp")
      BY <2>5 DEF BeingWritten, Writes, File
    <3>1. \A fd : ~ Writes(req[r], g, fd)
      BY <1>0, <1>2 DEF Writes
    <3>2. CASE g = f
      <4>1. final'[g] = temp[g] /\ temp'[g] = "absent"
        <5>1. final \in [Files -> Bytes] /\ temp \in [Files -> Bytes]
          BY DEF Inv, Typed
        <5> QED
          BY <1>4, <2>5, <3>2, <5>1
      <4>2. ASSUME NEW x \in Requests, Writes(req[x], g, "temp")
            PROVE  Writes(req'[x], g, "final")
        <5>1. req'[x] = Elsewhere(req[x], "final")
          BY <2>1, <3>1, <3>2, <4>2 DEF Renamed, Writes
        <5>2. PICK p, e : p = req[x] /\ e = Elsewhere(p, "final")
          OBVIOUS
        <5>3. e.pc = p.pc /\ e.fd = "final" /\ e.sha = p.sha /\ e.kind = p.kind
          BY <5>2, ElsewhereFields
        <5>4. Writes(p, g, "temp") /\ req'[x] = e
          BY <4>2, <5>1, <5>2
        <5>5. Writes(e, g, "final")
          BY <5>3, <5>4 DEF Writes, File
        <5> QED
          BY <5>4, <5>5
      <4> QED
        BY <4>1, <4>2 DEF Inv, BeingWritten
    <3>3. CASE g # f
      <4>1. final'[g] = final[g] /\ temp'[g] = temp[g]
        BY <1>4, <2>5, <3>3 DEF Inv, Typed
      <4>2. \A fd : \A x \in Requests : Writes(req[x], g, fd) => Writes(req'[x], g, fd)
        BY <2>1, <3>1, <3>3 DEF Renamed, Writes
      <4> QED
        BY <4>1, <4>2 DEF Inv, BeingWritten
    <3> QED
      BY <3>2, <3>3
  <2>14. PrimaryIsLast' /\ DoomedFromTheFirst' /\ PrimaryOrDoomed'
    BY <1>0, <1>2, <2>1, <2>5, <2>9, DoomedStay DEF Inv, PrimaryIsLast
  <2> QED
    BY <2>10, <2>11, <2>12, <2>13, <2>14 DEF Inv
<1> QED
  BY <1>a, <1>b

-----------------------------------------------------------------------------
(* The steps on the database.                                              *)

LEMMA CreateItemKeeps ==
    ASSUME Inv, MayArrive, NEW r \in Requests, NEW i \in Items, NEW s \in Pictures,
           CreateItem(r, i, s)
    PROVE  Inv'
<1>0. PICK q : q = Locals("stat", {i}, s, "original", "none", {}, {}, "none")
  OBVIOUS
<1>1. Moves(r, q) /\ Nudges(r, q)
  BY <1>0, CreateMoves, MovesNudge DEF Inv, Typed
<1>2. q \in Request
  BY <1>0 DEF Locals, Request, Kinds
<1>3. Shape(q)
  BY <1>0, <1>2, ImageBlobsAssumption DEF Shape, Locals, Storing
<1>4. Relies(q) /\ q.doomed = {}
  BY <1>0 DEF Relies, Locals
<1>5. req[r] = Idle
  BY DEF CreateItem, Inv, Shapes, Shape, At
<1>6. req[r].pc # "write" /\ req[r].doomed = {}
  BY <1>5 DEF Idle
<1>7. /\ item' = [item EXCEPT ![i] = "live"]
      /\ UNCHANGED <<history, rows, inserted, final, temp>> /\ Room
  BY DEF CreateItem
<1>8. \A k \in Items : item'[k] = IF k = i THEN "live" ELSE item[k]
  BY <1>7 DEF Inv, Typed
<1>9. RowsTyped' /\ Typed'
  BY <1>1, <1>7, <1>8 DEF Inv, RowsTyped, Typed, Moves
<1>10. Shapes' /\ RoomLeft'
  BY <1>1, <1>3, <1>7, ShapesMove, RoomStays DEF Inv
<1>11. OneAtATime'
  <2>1. history = "one at a time" => AllIdle
    BY DEF MayArrive
  <2> QED
    BY <1>1, <1>4, <1>7, <2>1, OneAtATimeStays DEF Inv, Typed
<1>12. BeingWritten'
  BY <1>1, <1>6, <1>7, BeingWrittenStays DEF Inv
<1>13. PrimaryIsLast' /\ DoomedFromTheFirst' /\ PrimaryOrDoomed'
  BY <1>1, <1>4, <1>6, <1>7, DoomedStay DEF Inv, PrimaryIsLast
<1> QED
  BY <1>9, <1>10, <1>11, <1>12, <1>13 DEF Inv

LEMMA RowIds ==
    ASSUME RoomLeft, RowsTyped
    PROVE  /\ inserted \in Nat /\ MaxRows \in Nat /\ inserted <= MaxRows
           /\ \A n \in DOMAIN rows : n \in Nat /\ n \in 1..MaxRows /\ n <= inserted
<1>1. MaxRows \in Nat /\ inserted \in 0..MaxRows
  BY ImageBlobsAssumption DEF RoomLeft
<1>2. inserted \in Nat /\ inserted <= MaxRows
  BY ONLY <1>1
<1>3. DOMAIN rows \subseteq 1..inserted
  BY DEF RowsTyped
<1> QED
  BY ONLY <1>1, <1>2, <1>3

LEMMA EditRemovingKeeps ==
    ASSUME Inv, MayArrive, NEW r \in Requests, NEW i \in Items, NEW s \in Pictures \cup {"none"},
           EditRemoving(r, i, s)
    PROVE  Inv'
<1>0. PICK q, doomed : /\ doomed = RowsOf({i})
                       /\ q = Locals("rows", {i}, s, "original", "none", doomed, {}, "none")
  OBVIOUS
<1>1. Moves(r, q) /\ Nudges(r, q)
  BY <1>0, EditRemovingMoves, MovesNudge DEF Inv, Typed
<1>2. q \in Request
  <2>1. doomed \in SUBSET (1..MaxRows)
    BY <1>0, RowIds DEF Inv, RowsOf
  <2> QED
    BY <1>0, <2>1 DEF Locals, Request, Kinds
<1>3. Shape(q)
  BY <1>0, <1>2 DEF Shape, Locals, Storing
<1>4. Relies(q) /\ q.doomed = doomed /\ q.items = {i}
  BY <1>0 DEF Relies, Locals
<1>5. req[r] = Idle
  BY DEF EditRemoving, Inv, Shapes, Shape, At
<1>6. req[r].pc # "write" /\ req[r].doomed = {}
  BY <1>5 DEF Idle
<1>7. UNCHANGED <<history, item, rows, inserted, final, temp>> /\ Room
  BY DEF EditRemoving
<1>8. RowsTyped' /\ Typed'
  BY <1>1, <1>7 DEF Inv, RowsTyped, Typed, Moves
<1>9. Shapes' /\ RoomLeft'
  BY <1>1, <1>3, <1>7, ShapesMove, RoomStays DEF Inv
<1>10. OneAtATime'
  <2>1. history = "one at a time" => AllIdle
    BY DEF MayArrive
  <2> QED
    BY <1>1, <1>4, <1>7, <2>1, OneAtATimeStays DEF Inv, Typed
<1>11. BeingWritten'
  BY <1>1, <1>6, <1>7, BeingWrittenStays DEF Inv
<1>12. PrimaryIsLast'
  BY <1>7 DEF Inv, PrimaryIsLast
<1>13. DoomedFromTheFirst'
  <2> SUFFICES ASSUME NEW x \in Requests, NEW n \in req'[x].doomed
               PROVE  /\ n <= inserted
                      /\ n \in DOMAIN rows => rows[n].item \in req'[x].items
                      /\ \A k \in DOMAIN rows :
                            rows[k].item \in req'[x].items /\ k <= n => k \in req'[x].doomed
    BY <1>7 DEF DoomedFromTheFirst
  <2>1. CASE x = r
    <3>1. req'[x] = q
      BY <1>1, <2>1 DEF Moves
    <3>2. \A k \in DOMAIN rows : k \in doomed <=> rows[k].item = i
      BY <1>0 DEF RowsOf
    <3>3. n \in DOMAIN rows /\ rows[n].item = i
      BY <1>0, <1>4, <3>1 DEF RowsOf
    <3> QED
      BY <1>4, <3>1, <3>2, <3>3, RowIds DEF Inv
  <2>2. CASE x # r
    BY <1>1, <2>2 DEF Moves, Inv, DoomedFromTheFirst
  <2> QED
    BY <2>1, <2>2
<1>14. PrimaryOrDoomed'
  <2> SUFFICES ASSUME history = "side by side", NEW n \in DOMAIN rows,
                      ~ \E k \in DOMAIN rows : rows[k].item = rows[n].item /\ rows[k].primary
               PROVE  \E x \in Requests :
                         /\ rows[n].item \in req'[x].items
                         /\ \A k \in DOMAIN rows :
                               rows[k].item = rows[n].item => k \in req'[x].doomed
    BY <1>7 DEF PrimaryOrDoomed
  <2>1. PICK x \in Requests :
           /\ rows[n].item \in req[x].items
           /\ \A k \in DOMAIN rows : rows[k].item = rows[n].item => k \in req[x].doomed
    BY DEF Inv, PrimaryOrDoomed
  <2>2. req'[x] = req[x]
    BY <1>1, <1>6, <2>1 DEF Moves
  <2> QED
    BY <2>1, <2>2
<1> QED
  BY <1>8, <1>9, <1>10, <1>11, <1>12, <1>13, <1>14 DEF Inv

\* What is left when rows go, whoever takes them.
LEMMA FewerRows ==
    ASSUME Inv, NEW r \in Requests, NEW q, Moves(r, q), NEW N, rows' = Drop(rows, N),
           req[r].pc \in {"rows", "delete"}, UNCHANGED <<history, inserted, final, temp>>,
           Shape(q), q.sha = req[r].sha, q.fd = "none", q.pc \in {"rows", "count"},
           q.kind = "original"
    PROVE  /\ Shapes' /\ RoomLeft' /\ OneAtATime' /\ BeingWritten' /\ PrimaryIsLast'
           /\ DOMAIN rows' = DOMAIN rows \ N
           /\ \A n \in DOMAIN rows' : rows'[n] = rows[n]
<1>1. DOMAIN rows' = DOMAIN rows \ N /\ \A n \in DOMAIN rows' : rows'[n] = rows[n]
  BY DEF Drop, Restrict
<1>2. Nudges(r, q)
  BY MovesNudge
<1>3. Shapes' /\ RoomLeft'
  BY <1>2, ShapesMove, RoomStays DEF Inv
<1>4. OneAtATime'
  <2>1. r \in Busy
    BY DEF Busy, At
  <2>2. q.victim = "none"
    BY DEF Shape
  <2>3. Relies(q)'
    BY <2>2 DEF Relies
  <2>4. history = "one at a time" =>
           /\ \A n \in DOMAIN rows' : final'[Original(rows'[n].sha)] = "full"
           /\ \A g \in Files : final'[g] # "partial"
    BY <1>1 DEF Inv, OneAtATime
  <2> QED
    BY <1>2, <2>1, <2>3, <2>4, AloneStays DEF Inv
<1>5. BeingWritten'
  BY BeingWrittenStays DEF Inv
<1>6. PrimaryIsLast'
  BY <1>1 DEF Inv, PrimaryIsLast
<1> QED
  BY <1>1, <1>3, <1>4, <1>5, <1>6

LEMMA DeleteRowKeeps ==
    ASSUME Inv, NEW r \in Requests, NEW n, DeleteRow(r, n)
    PROVE  Inv'
<1>0. PICK o, q : /\ o = req[r]
                  /\ q = Locals("rows", o.items, o.sha, o.kind, o.fd, o.doomed \ {n},
                                o.shas \cup ShasOf({n} \cap DOMAIN rows), o.victim)
  OBVIOUS
<1>1. Moves(r, q)
  BY <1>0, DeleteRowMoves DEF Inv, Typed
<1>2. /\ o.pc = "rows" /\ n \in o.doomed /\ Shape(o) /\ o.fd = "none" /\ o.kind = "original"
      /\ rows' = Drop(rows, {n}) /\ UNCHANGED <<history, item, inserted, final, temp>>
  BY <1>0 DEF DeleteRow, At, Inv, Shapes, Shape, Storing
<1>3. q \in Request
  <2>1. ShasOf({n} \cap DOMAIN rows) \in SUBSET Pictures
    BY ShasArePictures DEF Inv
  <2>2. PICK shas : shas = o.shas \cup ShasOf({n} \cap DOMAIN rows)
    OBVIOUS
  <2>3. shas \in SUBSET Pictures /\ o \in Request /\ o.doomed \ {n} \in SUBSET (1..MaxRows)
    BY <1>2, <2>1, <2>2 DEF Shape, Request
  <2> QED
    BY <1>0, <2>2, <2>3 DEF Locals, Request
<1>4. /\ q.pc = "rows" /\ q.sha = o.sha /\ q.fd = "none" /\ q.kind = "original"
      /\ q.items = o.items /\ q.doomed = o.doomed \ {n} /\ q.victim = o.victim
  BY <1>0, <1>2 DEF Locals
<1>5. Shape(q)
  BY <1>2, <1>3, <1>4 DEF Shape, Storing
<1>6. /\ Shapes' /\ RoomLeft' /\ OneAtATime' /\ BeingWritten' /\ PrimaryIsLast'
      /\ DOMAIN rows' = DOMAIN rows \ {n}
      /\ \A k \in DOMAIN rows' : rows'[k] = rows[k]
  BY <1>0, <1>1, <1>2, <1>4, <1>5, FewerRows
<1>7. RowsTyped' /\ Typed'
  BY <1>1, <1>2, <1>6 DEF Inv, RowsTyped, Typed, Moves
<1>8. DoomedFromTheFirst'
  <2> SUFFICES ASSUME NEW x \in Requests, NEW m \in req'[x].doomed
               PROVE  /\ m <= inserted
                      /\ m \in DOMAIN rows' => rows'[m].item \in req'[x].items
                      /\ \A k \in DOMAIN rows' :
                            rows'[k].item \in req'[x].items /\ k <= m => k \in req'[x].doomed
    BY <1>2 DEF DoomedFromTheFirst
  <2>1. \/ req'[x] = req[x]
        \/ req'[x].items = req[x].items /\ req'[x].doomed = req[x].doomed \ {n}
    BY <1>0, <1>1, <1>4 DEF Moves
  <2> QED
    BY <1>6, <2>1 DEF Inv, DoomedFromTheFirst
<1>9. PrimaryOrDoomed'
  <2> SUFFICES ASSUME history = "side by side", NEW m \in DOMAIN rows',
                      ~ \E k \in DOMAIN rows' : rows'[k].item = rows'[m].item /\ rows'[k].primary
               PROVE  \E x \in Requests :
                         /\ rows'[m].item \in req'[x].items
                         /\ \A k \in DOMAIN rows' :
                               rows'[k].item = rows'[m].item => k \in req'[x].doomed
    BY <1>2 DEF PrimaryOrDoomed
  <2>1. m \in DOMAIN rows /\ rows'[m] = rows[m]
    BY <1>6
  <2>2. ASSUME NEW x \in Requests, rows[m].item \in req[x].items,
               \A k \in DOMAIN rows : rows[k].item = rows[m].item => k \in req[x].doomed
        PROVE  /\ rows'[m].item \in req'[x].items
               /\ \A k \in DOMAIN rows' :
                     rows'[k].item = rows'[m].item => k \in req'[x].doomed
    <3>1. \/ req'[x] = req[x]
          \/ req'[x].items = req[x].items /\ req'[x].doomed = req[x].doomed \ {n}
      BY <1>0, <1>1, <1>4 DEF Moves
    <3> QED
      BY <1>6, <2>1, <2>2, <3>1
  <2>3. CASE \E k \in DOMAIN rows : rows[k].item = rows[m].item /\ rows[k].primary
    <3>1. PICK k \in DOMAIN rows : rows[k].item = rows[m].item /\ rows[k].primary
      BY <2>3
    <3>2. k = n
      BY <1>6, <2>1, <3>1
    <3>3. \A j \in DOMAIN rows : rows[j].item = rows[m].item => j <= n
      BY <3>1, <3>2 DEF Inv, PrimaryIsLast
    <3>4. rows[m].item \in req[r].items
      BY <1>0, <1>2, <3>1, <3>2 DEF Inv, DoomedFromTheFirst
    <3>5. \A j \in DOMAIN rows : rows[j].item = rows[m].item => j \in req[r].doomed
      BY <1>0, <1>2, <3>3, <3>4 DEF Inv, DoomedFromTheFirst
    <3> QED
      BY <2>2, <3>4, <3>5
  <2>4. CASE ~ \E k \in DOMAIN rows : rows[k].item = rows[m].item /\ rows[k].primary
    <3>1. PICK x \in Requests :
             /\ rows[m].item \in req[x].items
             /\ \A k \in DOMAIN rows : rows[k].item = rows[m].item => k \in req[x].doomed
      BY <2>1, <2>4 DEF Inv, PrimaryOrDoomed
    <3> QED
      BY <2>2, <3>1
  <2> QED
    BY <2>3, <2>4
<1> QED
  BY <1>6, <1>7, <1>8, <1>9 DEF Inv

\* A removal takes all rows of its items, and nobody else's.
LEMMA WholeItemsGo ==
    ASSUME Inv, NEW r \in Requests, NEW q, Moves(r, q), req[r].doomed = {}, q.doomed = {},
           UNCHANGED <<history, inserted>>,
           NEW N, \A n, k \in DOMAIN rows : rows[n].item = rows[k].item /\ n \in N => k \in N,
           DOMAIN rows' = DOMAIN rows \ N,
           \A n \in DOMAIN rows' : rows'[n] = rows[n]
    PROVE  DoomedFromTheFirst' /\ PrimaryOrDoomed'
<1>0. ASSUME NEW x \in Requests
      PROVE  \/ req'[x] = req[x]
             \/ req'[x].doomed = {} /\ req[x].doomed = {}
  BY DEF Moves
<1>1. DoomedFromTheFirst'
  BY <1>0 DEF Inv, DoomedFromTheFirst
<1>2. PrimaryOrDoomed'
  <2> SUFFICES ASSUME history = "side by side", NEW m \in DOMAIN rows',
                      ~ \E k \in DOMAIN rows' : rows'[k].item = rows'[m].item /\ rows'[k].primary
               PROVE  \E x \in Requests :
                         /\ rows'[m].item \in req'[x].items
                         /\ \A k \in DOMAIN rows' :
                               rows'[k].item = rows'[m].item => k \in req'[x].doomed
    BY DEF PrimaryOrDoomed
  <2>1. m \in DOMAIN rows /\ rows'[m] = rows[m] /\ m \notin N
    OBVIOUS
  <2>2. ~ \E k \in DOMAIN rows : rows[k].item = rows[m].item /\ rows[k].primary
    BY <2>1
  <2>3. PICK x \in Requests :
           /\ rows[m].item \in req[x].items
           /\ \A k \in DOMAIN rows : rows[k].item = rows[m].item => k \in req[x].doomed
    BY <2>1, <2>2 DEF Inv, PrimaryOrDoomed
  <2>4. req'[x] = req[x]
    BY <1>0, <2>1, <2>3
  <2> QED
    BY <2>1, <2>3, <2>4
<1> QED
  BY <1>1, <1>2

LEMMA DeleteItemKeeps ==
    ASSUME Inv, NEW r \in Requests, NEW keep \in BOOLEAN, DeleteItem(r, keep)
    PROVE  Inv'
<1>0. PICK o, q, i : /\ o = req[r] /\ i = CHOOSE k \in o.items : TRUE
                     /\ q = Locals("count", {}, o.sha, o.kind, o.fd, o.doomed, o.shas, o.victim)
  OBVIOUS
<1>1. Moves(r, q)
  BY <1>0, DeleteItemMoves DEF Inv, Typed
<1>2. /\ o.pc = "delete" /\ Shape(o) /\ o.fd = "none" /\ o.kind = "original"
      /\ o.doomed = {} /\ o.sha = "none" /\ o.victim = "none"
      /\ UNCHANGED <<history, inserted, final, temp>>
  BY <1>0 DEF DeleteItem, At, Inv, Shapes, Shape, Storing
<1>3. item' = [item EXCEPT ![i] = IF @ \in {"live", "removed"} /\ keep
                                  THEN "removed" ELSE "gone"]
  BY <1>0 DEF DeleteItem
<1>4. i \in Items
  <2>1. Cardinality(o.items) = 1 /\ o.items \subseteq Items
    BY <1>0, <1>2 DEF DeleteItem, Shape, Request
  <2>2. o.items # {}
    <3>1. Cardinality({}) = 0
      BY FS_EmptySet
    <3> QED
      BY <2>1, <3>1
  <2> QED
    BY <1>0, <2>1, <2>2
<1>5. /\ item' \in [Items -> {"new", "live", "removed", "gone"}]
      /\ \A k \in Items \ {i} : item'[k] = item[k]
      /\ item'[i] \in {"removed", "gone"}
  BY <1>3, <1>4 DEF Inv, Typed
<1>6. PICK N : /\ N = IF item'[i] = "gone" THEN RowsOf({i}) ELSE {}
               /\ rows' = Drop(rows, N)
  <2>1. rows' = Drop(rows, IF item'[i] = "gone" THEN RowsOf({i}) ELSE {})
    BY <1>0 DEF DeleteItem
  <2> QED
    BY <2>1
<1>7. q \in Request
  BY <1>0, <1>2 DEF Shape, Locals, Request, Kinds
<1>8. /\ q.pc = "count" /\ q.sha = o.sha /\ q.fd = "none" /\ q.kind = "original"
      /\ q.doomed = {} /\ q.victim = "none"
  BY <1>0, <1>2 DEF Locals
<1>9. Shape(q)
  BY <1>2, <1>7, <1>8 DEF Shape, Storing
<1>10. /\ Shapes' /\ RoomLeft' /\ OneAtATime' /\ BeingWritten' /\ PrimaryIsLast'
       /\ DOMAIN rows' = DOMAIN rows \ N
       /\ \A k \in DOMAIN rows' : rows'[k] = rows[k]
  <2>1. rows' = Drop(rows, N)
    BY <1>6
  <2>2. /\ req[r].pc \in {"rows", "delete"} /\ q.sha = req[r].sha
        /\ q.pc \in {"rows", "count"}
    BY <1>0, <1>2, <1>8
  <2> QED
    BY ONLY Inv, <1>1, <1>2, <1>8, <1>9, <2>1, <2>2, FewerRows
<1>11. \A n \in DOMAIN rows : n \in N <=> item'[i] = "gone" /\ rows[n].item = i
  BY <1>6 DEF RowsOf
<1>12. RowsTyped'
  <2>1. \A n \in DOMAIN rows' : rows'[n].item = i => item'[i] = "removed"
    BY <1>5, <1>10, <1>11
  <2> QED
    BY <1>2, <1>5, <1>10, <2>1 DEF Inv, RowsTyped
<1>13. Typed'
  BY <1>1, <1>2, <1>5 DEF Inv, Typed, Moves
<1>14. DoomedFromTheFirst' /\ PrimaryOrDoomed'
  <2>1. \A n, k \in DOMAIN rows : rows[n].item = rows[k].item /\ n \in N => k \in N
    BY <1>11
  <2> QED
    BY <1>0, <1>1, <1>2, <1>8, <1>10, <2>1, WholeItemsGo
<1> QED
  BY <1>10, <1>12, <1>13, <1>14 DEF Inv

LEMMA DeleteListKeeps ==
    ASSUME Inv, NEW r \in Requests, DeleteList(r)
    PROVE  Inv'
<1>0. PICK o, q : /\ o = req[r]
                  /\ q = Locals("count", {}, o.sha, o.kind, o.fd, o.doomed, o.shas, o.victim)
  OBVIOUS
<1>1. Moves(r, q)
  BY <1>0, DeleteListMoves DEF Inv, Typed
<1>2. /\ o.pc = "delete" /\ Shape(o) /\ o.fd = "none" /\ o.kind = "original"
      /\ o.doomed = {} /\ o.sha = "none" /\ o.victim = "none"
      /\ UNCHANGED <<history, inserted, final, temp>>
      /\ item' = [i \in Items |-> IF item[i] = "new" THEN "new" ELSE "gone"]
      /\ DOMAIN rows' = {}
  BY <1>0 DEF DeleteList, EmptyTable, At, Inv, Shapes, Shape, Storing
<1>7. q \in Request
  BY <1>0, <1>2 DEF Shape, Locals, Request, Kinds
<1>8. /\ q.pc = "count" /\ q.sha = o.sha /\ q.fd = "none" /\ q.kind = "original"
      /\ q.doomed = {} /\ q.victim = "none"
  BY <1>0, <1>2 DEF Locals
<1>9. Shape(q)
  BY <1>2, <1>7, <1>8 DEF Shape, Storing
<1>10. Nudges(r, q)
  BY <1>1, MovesNudge
<1>11. Shapes' /\ RoomLeft'
  BY <1>0, <1>2, <1>8, <1>9, <1>10, ShapesMove, RoomStays DEF Inv
<1>12. RowsTyped' /\ Typed'
  BY <1>1, <1>2 DEF Inv, RowsTyped, Typed, Moves
<1>13. OneAtATime'
  <2>1. Relies(q)' /\ r \in Busy
    BY <1>0, <1>2, <1>8 DEF Relies, Busy, At
  <2>2. history = "one at a time" =>
           /\ \A n \in DOMAIN rows' : final'[Original(rows'[n].sha)] = "full"
           /\ \A g \in Files : final'[g] # "partial"
    BY <1>2 DEF Inv, OneAtATime
  <2> QED
    BY <1>2, <1>10, <2>1, <2>2, AloneStays DEF Inv
<1>14. BeingWritten'
  BY <1>0, <1>1, <1>2, BeingWrittenStays DEF Inv
<1>15. PrimaryIsLast' /\ PrimaryOrDoomed' /\ DoomedFromTheFirst'
  <2>1. PrimaryIsLast' /\ PrimaryOrDoomed'
    BY <1>2 DEF PrimaryIsLast, PrimaryOrDoomed
  <2>2. DoomedFromTheFirst'
    BY <1>1, <1>2, <1>8 DEF Inv, DoomedFromTheFirst, Moves
  <2> QED
    BY <2>1, <2>2
<1> QED
  BY <1>11, <1>12, <1>13, <1>14, <1>15 DEF Inv

LEMMA AddRowKeeps ==
    ASSUME Inv, NEW r \in Requests, AddRow(r)
    PROVE  Inv'
<1>0. PICK o, i : o = req[r] /\ i = CHOOSE k \in o.items : TRUE
  OBVIOUS
<1>1. Moves(r, Idle) /\ Nudges(r, Idle)
  <2>1. Moves(r, Idle)
    BY DEF AddRow, Done, Moves, Inv, Typed
  <2> QED
    BY <2>1, MovesNudge
<1>2. /\ o.pc = "row" /\ Shape(o) /\ r \in Busy /\ o.doomed = {} /\ o.sha # "none"
      /\ UNCHANGED <<history, item, final, temp>>
  BY <1>0 DEF AddRow, At, Busy, Inv, Shapes, Shape
<1>3. o.items = {i} /\ i \in Items /\ o.sha \in Pictures
  <2>1. PICK k \in Items : o.items = {k}
    BY <1>2 DEF Shape
  <2>2. i = k
    BY <1>0, <2>1
  <2>3. o.sha \in Pictures
    BY <1>2, FilesOf
  <2> QED
    BY <2>1, <2>2, <2>3
<1>a. CASE item[i] \notin {"live", "removed"}
  <2>1. UNCHANGED <<rows, inserted>>
    BY <1>0, <1>a DEF AddRow
  <2> QED
    BY <1>0, <1>1, <1>2, <2>1, IdleIsFine, LocalStep
<1>b. CASE item[i] \in {"live", "removed"}
  <2>0. PICK n, row, old :
           /\ n = inserted + 1 /\ row = [item |-> i, sha |-> o.sha, primary |-> TRUE]
           /\ old = [k \in DOMAIN rows |-> IF rows[k].item = i
                                           THEN [rows[k] EXCEPT !.primary = FALSE]
                                           ELSE rows[k]]
    OBVIOUS
  <2>1. inserted' = n /\ rows' = Put(old, n, row)
    BY <1>0, <1>b, <2>0 DEF AddRow
  <2>2. /\ inserted \in Nat /\ MaxRows \in Nat /\ n \in Nat
        /\ \A k \in DOMAIN rows : k \in Nat /\ k <= inserted /\ k # n /\ k <= n
    BY <2>0, RowIds DEF Inv
  <2>3. DOMAIN rows' = DOMAIN rows \cup {n} /\ rows'[n] = row
    BY <2>0, <2>1, <2>2 DEF Put
  <2>4. \A k \in DOMAIN rows : rows[k] \in [item: Items, sha: Pictures, primary: BOOLEAN]
    BY DEF Inv, RowsTyped
  <2>5. \A k \in DOMAIN rows : rows'[k] = old[k]
    BY <2>0, <2>1, <2>2 DEF Put
  <2>6. ASSUME NEW k \in DOMAIN rows
        PROVE  /\ rows'[k] \in [item: Items, sha: Pictures, primary: BOOLEAN]
               /\ rows'[k].item = rows[k].item /\ rows'[k].sha = rows[k].sha
               /\ rows[k].item = i => ~ rows'[k].primary
               /\ rows[k].item # i => rows'[k].primary = rows[k].primary
    <3>1. CASE rows[k].item = i
      <4>1. rows'[k] = [rows[k] EXCEPT !.primary = FALSE]
        BY <2>0, <2>5, <3>1
      <4> QED
        BY <2>4, <3>1, <4>1
    <3>2. CASE rows[k].item # i
      <4>1. rows'[k] = rows[k]
        BY <2>0, <2>5, <3>2
      <4> QED
        BY <2>4, <3>2, <4>1
    <3> QED
      BY <3>1, <3>2
  <2>7. /\ row \in [item: Items, sha: Pictures, primary: BOOLEAN]
        /\ row.item = i /\ row.sha = o.sha /\ row.primary
    BY <1>3, <2>0
  <2>8. Shapes'
    BY <1>1, IdleIsFine, ShapesMove DEF Inv
  <2>9. RoomLeft'
    <3>1. Adding' = Adding \ {r} /\ r \in Adding /\ Busy' \subseteq Busy
      BY <1>0, <1>1, <1>2, IdleIsFine DEF Adding, Busy, Moves, At
    <3>2. IsFiniteSet(Busy) /\ IsFiniteSet(Adding)
      <4>1. Adding \subseteq Busy /\ IsFiniteSet(Busy)
        BY AddingAreBusy DEF Inv, RoomLeft
      <4> QED
        BY <4>1, FS_Subset
    <3>3. IsFiniteSet(Busy')
      BY <3>1, <3>2, FS_Subset
    <3>4. Cardinality(Adding \ {r}) = Cardinality(Adding) - 1 /\ IsFiniteSet(Adding \ {r})
      BY <3>1, <3>2, FS_RemoveElement
    <3>5. Cardinality(Adding) \in Nat /\ Cardinality(Adding \ {r}) \in Nat
      BY <3>2, <3>4, FS_CardinalityType
    <3>6. inserted + Cardinality(Adding) <= MaxRows
      BY DEF Inv, RoomLeft
    <3>7. Cardinality(Adding') = Cardinality(Adding \ {r})
      BY <3>1
    <3>8. n + Cardinality(Adding \ {r}) <= MaxRows /\ n \in 0..MaxRows
      BY ONLY <2>0, <2>2, <3>4, <3>5, <3>6
    <3> QED
      BY <2>1, <3>3, <3>7, <3>8 DEF RoomLeft
  <2>10. RowsTyped'
    <3>1. DOMAIN rows' \subseteq 1..n
      BY <2>0, <2>2, <2>3, RowIds DEF Inv, RowsTyped
    <3>2. \A k \in DOMAIN rows' :
             /\ rows'[k] \in [item: Items, sha: Pictures, primary: BOOLEAN]
             /\ item'[rows'[k].item] \in {"live", "removed"}
      <4>1. ASSUME NEW k \in DOMAIN rows
            PROVE  /\ rows'[k] \in [item: Items, sha: Pictures, primary: BOOLEAN]
                   /\ item'[rows'[k].item] \in {"live", "removed"}
        BY <1>2, <2>6 DEF Inv, RowsTyped
      <4>2. /\ rows'[n] \in [item: Items, sha: Pictures, primary: BOOLEAN]
            /\ item'[rows'[n].item] \in {"live", "removed"}
        BY <1>2, <1>b, <2>3, <2>7
      <4> QED
        BY <2>3, <4>1, <4>2
    <3> QED
      BY <2>1, <3>1, <3>2 DEF RowsTyped
  <2>11. Typed'
    <3>1. Typed
      BY DEF Inv
    <3> QED
      BY <1>1, <1>2, <3>1 DEF Typed, Moves
  <2>12. OneAtATime'
    <3>1. history = "one at a time" => final[Original(o.sha)] = "full"
      BY <1>0, <1>2 DEF Inv, OneAtATime, Relies
    <3>2. history = "one at a time" =>
             /\ \A k \in DOMAIN rows' : final'[Original(rows'[k].sha)] = "full"
             /\ \A f \in Files : final'[f] # "partial"
      <4>1. history = "one at a time" =>
               /\ \A k \in DOMAIN rows : final[Original(rows[k].sha)] = "full"
               /\ \A f \in Files : final[f] # "partial"
        BY DEF Inv, OneAtATime
      <4>2. \A k \in DOMAIN rows : Original(rows'[k].sha) = Original(rows[k].sha)
        BY <2>6
      <4>3. Original(rows'[n].sha) = Original(o.sha)
        BY <2>3, <2>7
      <4> QED
        BY <1>2, <2>3, <3>1, <4>1, <4>2, <4>3
    <3>3. Relies(Idle)'
      BY DEF Relies, Idle
    <3> QED
      BY <1>1, <1>2, <3>2, <3>3, AloneStays DEF Inv
  <2>13. BeingWritten'
    BY <1>0, <1>1, <1>2, BeingWrittenStays DEF Inv
  <2>14. PrimaryIsLast'
    <3> SUFFICES ASSUME NEW k \in DOMAIN rows', NEW j \in DOMAIN rows',
                        rows'[k].primary, rows'[j].item = rows'[k].item
                 PROVE  j <= k
      BY DEF PrimaryIsLast
    <3>1. CASE k = n
      BY <2>2, <2>3, <3>1
    <3>2. CASE k # n
      <4>1. k \in DOMAIN rows /\ rows[k].item # i /\ rows[k].primary
        BY <2>3, <2>6, <3>2
      <4>2. j \in DOMAIN rows /\ rows[j].item = rows[k].item
        BY <2>3, <2>6, <2>7, <4>1
      <4> QED
        BY <4>1, <4>2 DEF Inv, PrimaryIsLast
    <3> QED
      BY <3>1, <3>2
  <2>15. ASSUME NEW x \in Requests
         PROVE  \/ req'[x] = req[x]
                \/ req'[x].doomed = {} /\ req[x].doomed = {}
    BY <1>0, <1>1, <1>2, IdleIsFine DEF Moves
  <2>16. DoomedFromTheFirst'
    <3> SUFFICES ASSUME NEW x \in Requests, NEW m \in req'[x].doomed
                 PROVE  /\ m <= inserted'
                        /\ m \in DOMAIN rows' => rows'[m].item \in req'[x].items
                        /\ \A k \in DOMAIN rows' :
                              rows'[k].item \in req'[x].items /\ k <= m => k \in req'[x].doomed
      BY DEF DoomedFromTheFirst
    <3>1. req'[x] = req[x]
      BY <2>15
    <3>2. m \in Nat /\ m <= inserted
      <4>1. req[x].doomed \in SUBSET (1..MaxRows)
        BY DEF Inv, Shapes, Shape, Request
      <4> QED
        BY <3>1, <4>1, <2>2 DEF Inv, DoomedFromTheFirst
    <3>3. m # n /\ m <= n /\ ~ (n <= m)
      BY ONLY <2>0, <2>2, <3>2
    <3> QED
      BY <2>1, <2>3, <2>6, <3>1, <3>3 DEF Inv, DoomedFromTheFirst
  <2>17. PrimaryOrDoomed'
    <3> SUFFICES ASSUME history = "side by side", NEW m \in DOMAIN rows',
                        ~ \E k \in DOMAIN rows' : rows'[k].item = rows'[m].item /\ rows'[k].primary
                 PROVE  \E x \in Requests :
                           /\ rows'[m].item \in req'[x].items
                           /\ \A k \in DOMAIN rows' :
                                 rows'[k].item = rows'[m].item => k \in req'[x].doomed
      BY <1>2 DEF PrimaryOrDoomed
    <3>1. m \in DOMAIN rows /\ rows'[m].item = rows[m].item /\ rows[m].item # i
      BY <2>3, <2>6, <2>7
    <3>2. ~ \E k \in DOMAIN rows : rows[k].item = rows[m].item /\ rows[k].primary
      BY <2>3, <2>6, <3>1
    <3>3. PICK x \in Requests :
             /\ rows[m].item \in req[x].items
             /\ \A k \in DOMAIN rows : rows[k].item = rows[m].item => k \in req[x].doomed
      BY <3>1, <3>2 DEF Inv, PrimaryOrDoomed
    <3>4. req'[x] = req[x]
      BY <2>15, <3>1, <3>3
    <3> QED
      BY <2>3, <2>6, <2>7, <3>1, <3>3, <3>4
  <2> QED
    BY <2>8, <2>9, <2>10, <2>11, <2>12, <2>13, <2>14, <2>16, <2>17 DEF Inv
<1> QED
  BY <1>a, <1>b

-----------------------------------------------------------------------------
(* The invariant holds, and what follows from it.                          *)

LEMMA InvInit == Init => Inv
<1> SUFFICES ASSUME Init PROVE Inv
  OBVIOUS
<1>1. DOMAIN rows = {} /\ inserted = 0 /\ DOMAIN req = Requests
      /\ (\A r \in Requests : req[r] = Idle)
  BY DEF Init, EmptyTable
<1>2. Shapes
  BY <1>1, IdleIsFine DEF Shapes
<1>3. Adding = {} /\ Busy = {}
  BY <1>1, IdleIsFine DEF Adding, Busy, At
<1>4. RoomLeft
  <2>1. Cardinality(Adding) = 0 /\ IsFiniteSet(Busy)
    BY <1>3, FS_EmptySet
  <2>2. MaxRows \in Nat
    BY ImageBlobsAssumption
  <2>3. inserted \in 0..MaxRows /\ inserted + 0 <= MaxRows
    BY ONLY <1>1, <2>2
  <2> QED
    BY <2>1, <2>3 DEF RoomLeft
<1>5. RowsTyped
  BY <1>1 DEF RowsTyped
<1>6. Typed
  BY <1>1 DEF Init, Typed, Bytes
<1>7. OneAtATime
  BY <1>1, <1>3, IdleIsFine DEF Init, OneAtATime
<1>8. BeingWritten
  BY DEF Init, BeingWritten
<1>9. PrimaryIsLast /\ DoomedFromTheFirst /\ PrimaryOrDoomed
  BY <1>1, IdleIsFine DEF PrimaryIsLast, DoomedFromTheFirst, PrimaryOrDoomed
<1> QED
  BY <1>2, <1>4, <1>5, <1>6, <1>7, <1>8, <1>9 DEF Inv

LEMMA ArriveKeeps ==
    ASSUME Inv, MayArrive, NEW r \in Requests, Arrive(r)
    PROVE  Inv'
<1>1. Arriving \subseteq Pictures
  BY ImageBlobsAssumption DEF Arriving
<1>2. ASSUME NEW i \in Items, NEW s \in Arriving, CreateItem(r, i, s)
      PROVE  Inv'
  BY <1>1, <1>2, CreateItemKeeps
<1>3. ASSUME NEW i \in Items, NEW s \in Arriving, EditAdding(r, i, s)
      PROVE  Inv'
  BY <1>1, <1>3, EditAddingKeeps
<1>4. ASSUME NEW i \in Items, NEW s \in Arriving \cup {"none"}, EditRemoving(r, i, s)
      PROVE  Inv'
  BY <1>1, <1>4, EditRemovingKeeps
<1>5. ASSUME NEW i \in Items, RemoveItem(r, i)
      PROVE  Inv'
  BY <1>5, RemoveItemKeeps
<1>6. CASE RemoveList(r)
  BY <1>6, RemoveListKeeps
<1> QED
  BY <1>2, <1>3, <1>4, <1>5, <1>6 DEF Arrive

LEMMA WorkKeeps ==
    ASSUME Inv, NEW r \in Requests, Work(r)
    PROVE  Inv'
<1>1. CASE \E n \in 1..MaxRows : DeleteRow(r, n)
  BY <1>1, DeleteRowKeeps
<1>2. CASE RowsDone(r)
  BY <1>2, RowsDoneKeeps
<1>3. CASE \E keep \in BOOLEAN : DeleteItem(r, keep)
  BY <1>3, DeleteItemKeeps
<1>4. CASE DeleteList(r)
  BY <1>4, DeleteListKeeps
<1>5. CASE \E s \in Pictures : Prune(r, s)
  BY <1>5, PruneKeeps
<1>6. CASE Unlink(r)
  BY <1>6, UnlinkKeeps
<1>7. CASE PruneDone(r)
  BY <1>7, PruneDoneKeeps
<1>8. CASE StatFile(r)
  BY <1>8, StatFileKeeps
<1>9. CASE OpenTemp(r)
  BY <1>9, OpenTempKeeps
<1>10. CASE WriteTemp(r)
  BY <1>10, WriteTempKeeps
<1>11. CASE WriteFails(r)
  BY <1>11, WriteFailsKeeps
<1>12. CASE RenameTemp(r)
  BY <1>12, RenameTempKeeps
<1>13. CASE AddRow(r)
  BY <1>13, AddRowKeeps
<1> QED
  BY <1>1, <1>2, <1>3, <1>4, <1>5, <1>6, <1>7, <1>8, <1>9, <1>10, <1>11, <1>12, <1>13 DEF Work

LEMMA StutterKeeps ==
    ASSUME Inv, UNCHANGED vars
    PROVE  Inv'
<1> USE DEF vars
<1>1. Adding' = Adding /\ Busy' = Busy
  BY DEF Adding, Busy, At
<1>2. Shapes' /\ RoomLeft' /\ RowsTyped' /\ Typed'
  BY <1>1 DEF Inv, Shapes, RoomLeft, RowsTyped, Typed
<1>3. OneAtATime' /\ BeingWritten'
  <2>1. OneAtATime'
    BY <1>1 DEF Inv, OneAtATime, Relies
  <2>2. BeingWritten'
    BY DEF Inv, BeingWritten, Writes, File
  <2> QED
    BY <2>1, <2>2
<1>4. PrimaryIsLast' /\ DoomedFromTheFirst'
  BY DEF Inv, PrimaryIsLast, DoomedFromTheFirst
<1>5. PrimaryOrDoomed'
  <2>1. rows' = rows /\ req' = req /\ history' = history /\ PrimaryOrDoomed
    BY DEF Inv
  <2> QED
    BY ONLY <2>1, ZenonT(30) DEF PrimaryOrDoomed
<1> QED
  BY <1>2, <1>3, <1>4, <1>5 DEF Inv

LEMMA InvNext == Inv /\ [Next]_vars => Inv'
<1> SUFFICES ASSUME Inv, [Next]_vars PROVE Inv'
  OBVIOUS
<1>1. CASE (history = "side by side" \/ AllIdle) /\ \E r \in Requests : Arrive(r)
  BY <1>1, ArriveKeeps DEF MayArrive
<1>2. CASE \E r \in Requests : Work(r)
  BY <1>2, WorkKeeps
<1>3. CASE Crash
  BY <1>3, CrashKeeps
<1>4. CASE UNCHANGED vars
  BY <1>4, StutterKeeps
<1> QED
  BY <1>1, <1>2, <1>3, <1>4 DEF Next

LEMMA Invariant == Spec => []Inv
  BY InvInit, InvNext, PTL DEF Spec

\* The variable req is a table of all requests.
OfAll == req = [x \in Requests |-> req[x]]

LEMMA OfAllNext ==
    ASSUME OfAll, [Next]_vars
    PROVE  OfAll'
<1> USE DEF OfAll
<1>1. ASSUME NEW r \in Requests, NEW pc, NEW over, Go(r, pc, over)
      PROVE  OfAll'
  <2> DEFINE q == [f \in DOMAIN Idle |-> IF f = "pc" THEN pc
                                        ELSE IF f \in DOMAIN over THEN over[f]
                                        ELSE req[r][f]]
  <2>1. req' = [req EXCEPT ![r] = q]
    BY <1>1 DEF Go
  <2> HIDE DEF q
  <2> QED
    BY <2>1
<1>2. ASSUME NEW r \in Requests, Done(r)
      PROVE  OfAll'
  <2>1. req' = [req EXCEPT ![r] = Idle]
    BY <1>2 DEF Done
  <2> QED
    BY <2>1
<1>3. ASSUME NEW r \in Requests, Arrive(r)
      PROVE  OfAll'
  BY <1>1, <1>3 DEF Arrive, CreateItem, EditAdding, EditRemoving, RemoveItem, RemoveList
<1>4. ASSUME NEW r \in Requests, Unlink(r)
      PROVE  OfAll'
  BY <1>4 DEF Unlink, Losing
<1>5. ASSUME NEW r \in Requests, RenameTemp(r)
      PROVE  OfAll'
  <2>1. CASE Done(r)
    BY <1>2, <2>1
  <2>2. CASE ~ Done(r)
    <3> DEFINE f    == <<req[r].sha, req[r].kind>>
               next == NextFile(r)
               moved == [x \in Requests |->
                           IF req[x].fd = "temp" /\ <<req[x].sha, req[x].kind>> = f
                           THEN [Losing(f, req)[x] EXCEPT !.fd = "final"]
                           ELSE Losing(f, req)[x]]
    <3>1. req' = [moved EXCEPT ![r].pc = next.pc, ![r].kind = next.kind]
      BY <1>5, <2>2 DEF RenameTemp
    <3> QED
      BY <3>1
  <2> QED
    BY <2>1, <2>2
<1>6. ASSUME NEW r \in Requests, Work(r)
      PROVE  OfAll'
  BY <1>1, <1>2, <1>4, <1>5, <1>6
     DEF Work, DeleteRow, RowsDone, DeleteItem, DeleteList, Prune, PruneDone, StatFile,
         OpenTemp, WriteTemp, WriteFails, AddRow
<1>7. CASE Crash
  BY <1>7 DEF Crash
<1>8. CASE UNCHANGED vars
  BY <1>8 DEF vars
<1> QED
  BY <1>3, <1>6, <1>7, <1>8 DEF Next

LEMMA InvTyped == Inv /\ OfAll => TypeOK
<1> SUFFICES ASSUME Inv, OfAll PROVE TypeOK
  OBVIOUS
<1>1. req \in [Requests -> Request]
  <2>1. \A x \in Requests : req[x] \in Request
    BY DEF Inv, Shapes, Shape
  <2> QED
    BY <2>1 DEF OfAll
<1>2. inserted \in 0..MaxRows /\ DOMAIN rows \subseteq 1..inserted
  BY DEF Inv, RoomLeft, RowsTyped
<1> QED
  BY <1>1, <1>2 DEF Inv, TypeOK, Typed, RowsTyped

\* A row that is shown for an item with a primary one is that one.
LEMMA PrimaryIsShown ==
    ASSUME PrimaryIsLast, RowsTyped, RoomLeft, NEW i, NEW n \in RowsOf({i}), rows[n].primary
    PROVE  Shown(i) = n /\ \A k \in RowsOf({i}) : k <= n
<1> DEFINE First(m) == \A k \in RowsOf({i}) :
                          \/ rows[m].primary /\ ~ rows[k].primary
                          \/ rows[m].primary = rows[k].primary /\ m <= k
<1>1. \A k \in RowsOf({i}) : k \in DOMAIN rows /\ rows[k].item = i /\ k \in Nat
                             /\ rows[k].primary \in BOOLEAN
  BY RowIds DEF RowsOf, RowsTyped
<1>2. \A k \in RowsOf({i}) : k <= n
  BY <1>1 DEF PrimaryIsLast
<1>3. \A k \in RowsOf({i}) : rows[k].primary => n <= k
  BY <1>1 DEF PrimaryIsLast
<1>4. First(n)
  <2> SUFFICES ASSUME NEW k \in RowsOf({i})
               PROVE  \/ rows[n].primary /\ ~ rows[k].primary
                      \/ rows[n].primary = rows[k].primary /\ n <= k
    OBVIOUS
  <2>1. CASE rows[k].primary
    BY <1>1, <1>3, <2>1
  <2>2. CASE ~ rows[k].primary
    BY <2>2
  <2> QED
    BY <2>1, <2>2
<1>5. ASSUME NEW m \in RowsOf({i}), First(m)
      PROVE  m = n
  <2>1. rows[m].primary /\ m <= n
    BY <1>5
  <2>2. n <= m
    BY <1>3, <2>1
  <2>3. m \in Nat /\ n \in Nat
    BY <1>1
  <2> QED
    BY ONLY <2>1, <2>2, <2>3
<1>6. Shown(i) = CHOOSE m \in RowsOf({i}) : First(m)
  BY DEF Shown
<1> HIDE DEF First
<1> QED
  BY <1>2, <1>4, <1>5, <1>6

-----------------------------------------------------------------------------

\* The variables keep their types, and a picture's row its item: the foreign key
\* from item_images holds through every order of removals and additions.
THEOREM TypesHold == Spec => []TypeOK
<1>1. Init => OfAll
  BY DEF Init, OfAll
<1>2. OfAll /\ [Next]_vars => OfAll'
  BY OfAllNext
<1>3. Spec => []OfAll
  BY <1>1, <1>2, PTL DEF Spec
<1> QED
  BY <1>3, Invariant, InvTyped, PTL

\* One at a time, and wherever a request was killed or its write failed, every row
\* of item_images points at a complete original: saveImageRow writes the files
\* first, and pruneBlobs unlinks only what no row points at.
THEOREM RowsKeepTheirFiles == Spec => []RowsHaveFiles
<1>1. Inv => RowsHaveFiles
  BY DEF Inv, OneAtATime, RowsHaveFiles, Original
<1> QED
  BY <1>1, Invariant, PTL

\* No file stays short under its final name: writeFile's temporary file and rename
\* see to that one at a time, and side by side whoever has it open completes it.
THEOREM NoFileStaysShort == Spec => []FinalFilesAreComplete
<1>1. Inv => FinalFilesAreComplete
  <2> SUFFICES ASSUME Inv, history = "one at a time" \/ AllIdle, NEW f \in Files
               PROVE  final[f] # "partial"
    BY DEF FinalFilesAreComplete
  <2>1. history \in {"one at a time", "side by side"}
    BY ImageBlobsAssumption DEF Inv, Typed
  <2>2. CASE history = "one at a time"
    BY <2>2 DEF Inv, OneAtATime
  <2>3. CASE history = "side by side" /\ AllIdle
    BY <2>3 DEF Inv, BeingWritten, Writes, AllIdle, At
  <2> QED
    BY <2>1, <2>2, <2>3
<1> QED
  BY <1>1, Invariant, PTL

\* However additions and removals of an item's pictures interleave, it is shown
\* with the one added last as long as one of them is the primary picture; and if no
\* request was killed, one of them is, once nothing is running.
THEOREM NewestWins == Spec => []NewestIsShown
<1>1. Inv => NewestIsShown
  <2> SUFFICES ASSUME Inv, NEW i \in Items, RowsOf({i}) # {}
               PROVE  /\ (\E n \in RowsOf({i}) : rows[n].primary)
                            => \A k \in RowsOf({i}) : k <= Shown(i)
                      /\ AllIdle /\ history = "side by side"
                            => \E n \in RowsOf({i}) : rows[n].primary
    BY DEF NewestIsShown
  <2>1. ASSUME NEW n \in RowsOf({i}), rows[n].primary
        PROVE  \A k \in RowsOf({i}) : k <= Shown(i)
    BY <2>1, PrimaryIsShown DEF Inv
  <2>2. ASSUME AllIdle, history = "side by side"
        PROVE  \E n \in RowsOf({i}) : rows[n].primary
    <3>1. PICK n \in DOMAIN rows : rows[n].item = i
      BY DEF RowsOf
    <3>2. \A x \in Requests : req[x].doomed = {}
      BY <2>2 DEF AllIdle, At, Inv, Shapes, Shape
    <3>3. PICK k \in DOMAIN rows : rows[k].item = rows[n].item /\ rows[k].primary
      BY <2>2, <3>1, <3>2 DEF Inv, PrimaryOrDoomed
    <3> QED
      BY <3>1, <3>3 DEF RowsOf
  <2> QED
    BY <2>1, <2>2
<1> QED
  BY <1>1, Invariant, PTL

\* One request at a time, an original is unlinked only while no row points at it;
\* what the race of a removal with an upload breaks, a crash does not.
THEOREM AloneDeletesOnlyUnreferenced ==
    Spec => [][history = "one at a time" => UnlinksOnlyUnreferenced]_vars
<1>1. ASSUME Inv, Next, history = "one at a time", NEW s \in Pictures,
             final[Original(s)] # "absent", final'[Original(s)] = "absent"
      PROVE  RefCount(s) = 0
  <2>1. Original(s) \in Files
    BY DEF Original, Files, Kinds
  <2>2. final # final'
    BY <1>1
  <2>3. PICK r \in Requests : Work(r)
    BY <1>1, <2>2 DEF Next, Arrive, CreateItem, EditAdding, EditRemoving, RemoveItem,
                      RemoveList, Crash
  <2>4. CASE Unlink(r)
    <3>1. PICK f : /\ f = <<req[r].victim, IF At(r, "unlink") THEN "original" ELSE "display">>
                   /\ final' = [final EXCEPT ![f] = "absent"]
      BY <2>4 DEF Unlink
    <3>2. f = Original(s)
      BY <1>1, <2>1, <3>1 DEF Inv, Typed
    <3>3. req[r].victim = s
      BY <3>1, <3>2 DEF Original
    <3>4. \A n \in DOMAIN rows : rows[n].sha # s
      <4>1. Relies(req[r])
        BY <1>1 DEF Inv, OneAtATime
      <4> QED
        BY <3>3, <4>1, ImageBlobsAssumption DEF Relies
    <3>5. {n \in DOMAIN rows : rows[n].sha = s} = {}
      BY <3>4
    <3> QED
      BY <3>5, FS_EmptySet DEF RefCount
  <2>5. CASE RenameTemp(r)
    <3>1. PICK f : /\ f = <<req[r].sha, req[r].kind>> /\ temp[f] # "absent"
                   /\ final' = [final EXCEPT ![f] = temp[f]]
      BY <2>2, <2>5 DEF RenameTemp
    <3> QED
      BY <1>1, <2>1, <3>1 DEF Inv, Typed
  <2>6. CASE WriteTemp(r)
    <3>1. PICK f : final' = [final EXCEPT ![f] = "full"]
      BY <2>2, <2>6 DEF WriteTemp
    <3> QED
      BY <1>1, <2>1, <3>1 DEF Inv, Typed
  <2> QED
    BY <2>2, <2>3, <2>4, <2>5, <2>6
       DEF Work, DeleteRow, RowsDone, DeleteItem, DeleteList, Prune, PruneDone, StatFile,
           OpenTemp, WriteFails, AddRow
<1>2. Inv /\ [Next]_vars => [history = "one at a time" => UnlinksOnlyUnreferenced]_vars
  BY <1>1 DEF UnlinksOnlyUnreferenced, Original
<1> QED
  BY <1>2, Invariant, PTL DEF Spec

=============================================================================
