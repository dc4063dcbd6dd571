----------------------------- MODULE ImageBlobs -----------------------------
(***************************************************************************)
(* The pictures of one list: the item_images rows in the database and the  *)
(* content-addressed files in the image directory, which no transaction    *)
(* covers.  Requests run side by side, each a sequence of store calls and  *)
(* file operations, and the process may die between any two of them.       *)
(*                                                                         *)
(* Whether an item is claimed is left open: a removal keeps the row or not.*)
(* A picture is the hash of its re-encoded bytes; decoding, scaling and    *)
(* fetching are left out, and a picture that fails them never gets here.   *)
(***************************************************************************)
EXTENDS Naturals, FiniteSets, Tables

CONSTANTS
    Requests,       \* request slots
    Items,
    Pictures,       \* SHA-256 sums
    Large,          \* the pictures that also get a display derivative
    SideBySide,     \* bound: the pictures stored by requests side by side
    MaxRows,        \* bound on the item_images rows ever inserted
    Operations,     \* which of "create", "edit", "remove", "delete_list" arrive
    Histories       \* which of the two kinds of history below

ASSUME ImageBlobsAssumption ==
    /\ Large \subseteq Pictures /\ SideBySide \subseteq Pictures
    /\ "none" \notin Pictures
    /\ MaxRows \in Nat
    /\ Operations \subseteq {"create", "edit", "remove", "delete_list"}
    /\ Histories \subseteq {"one at a time", "side by side"}

Kinds == {"original", "display"}
Files == Pictures \X Kinds
Bytes == {"absent", "partial", "full"}

\* Requests one at a time, with writes that fail and the process killed anywhere;
\* or requests side by side, every one of them to its end.  With both at once a
\* half-written file may stay under its final name.
VARIABLES
    history,    \* which of them this is, for good
    item,       \* item[i]: "new", "live", "removed" (kept, deleted_at set) or "gone"
    rows,       \* row id -> [item, sha, primary]; ids in the order of creation
    inserted,   \* how many rows were ever inserted
    final,      \* final[f]: what is at the path of f
    temp,       \* temp[f]: what is at that path with .tmp appended
    req         \* req[r]: the handler's position and local variables

vars == <<history, item, rows, inserted, final, temp, req>>

\* Locals: the items it works on, the picture it stores, the file it writes and
\* where its open descriptor points, the rows and pictures it still has to take.
Idle == [pc |-> "idle", items |-> {}, sha |-> "none", kind |-> "original",
         fd |-> "none", doomed |-> {}, shas |-> {}, victim |-> "none"]

Request == [pc: {"idle", "rows", "delete", "count", "unlink", "unlink_display",
                 "stat", "open", "write", "rename", "row"},
            items: SUBSET Items, sha: Pictures \cup {"none"}, kind: Kinds,
            fd: {"none", "temp", "final", "lost"},
            doomed: SUBSET (1..MaxRows), shas: SUBSET Pictures,
            victim: Pictures \cup {"none"}]

RowsOf(S)   == {n \in DOMAIN rows : rows[n].item \in S}
ShasOf(N)   == {rows[n].sha : n \in N}
RefCount(s) == Cardinality({n \in DOMAIN rows : rows[n].sha = s})

At(r, pc) == req[r].pc = pc

\* r goes on to pc, with the locals of the record over.
Go(r, pc, over) ==
    req' = [req EXCEPT ![r] =
                [f \in DOMAIN Idle |-> IF f = "pc" THEN pc
                                       ELSE IF f \in DOMAIN over THEN over[f]
                                       ELSE req[r][f]]]

Done(r) == req' = [req EXCEPT ![r] = Idle]

AllIdle == \A r \in Requests : At(r, "idle")

\* The process may be killed and restarted, and a write may fail.
MayFail == history = "one at a time"

\* The bound is on arrivals, so that no request stops half way for it.
Room == inserted + Cardinality({r \in Requests : ~At(r, "idle")}) < MaxRows

-----------------------------------------------------------------------------
(* Faulty variants.                                                        *)

\* saveImageRow before the file is written.
RowFirst(r, i, s) ==
    /\ At(r, "idle") /\ item[i] = "new" /\ "create" \in Operations /\ Room
    /\ item' = [item EXCEPT ![i] = "live"]
    /\ inserted' = inserted + 1
    /\ rows' = Put(rows, inserted', [item |-> i, sha |-> s, primary |-> TRUE])
    /\ Go(r, "stat", [items |-> {i}, sha |-> s])
    /\ UNCHANGED <<history, final, temp>>

\* Without the UPDATE that takes is_primary off the other rows.
AddRowKeepingPrimary(r) ==
    /\ At(r, "row")
    /\ LET i == CHOOSE i \in req[r].items : TRUE
       IN  IF item[i] \in {"live", "removed"}
           THEN /\ inserted' = inserted + 1
                /\ rows' = Put(rows, inserted', [item |-> i, sha |-> req[r].sha, primary |-> TRUE])
           ELSE UNCHANGED <<rows, inserted>>
    /\ Done(r)
    /\ UNCHANGED <<history, item, final, temp>>

\* os.WriteFile straight to the path, without the rename.
WriteInPlace(r) ==
    LET f == <<req[r].sha, req[r].kind>>
    IN  /\ At(r, "open")
        /\ final' = [final EXCEPT ![f] = "partial"]
        /\ Go(r, "write", [fd |-> "final"])
        /\ UNCHANGED <<history, item, rows, inserted, temp>>

\* The cascade from items to item_images is missing.
DeleteItemNoCascade(r, keep) ==
    LET i == CHOOSE i \in req[r].items : TRUE
    IN  /\ At(r, "delete") /\ Cardinality(req[r].items) = 1
        /\ item' = [item EXCEPT ![i] = IF @ \in {"live", "removed"} /\ keep
                                       THEN "removed" ELSE "gone"]
        /\ Go(r, "count", [items |-> {}])
        /\ UNCHANGED <<history, rows, inserted, final, temp>>

\* pruneBlobs that does not ask for the reference count.
PruneUncounted(r, s) ==
    /\ At(r, "count")
    /\ s \in req[r].shas
    /\ Go(r, "unlink", [shas |-> req[r].shas \ {s}, victim |-> s])
    /\ UNCHANGED <<history, item, rows, inserted, final, temp>>

-----------------------------------------------------------------------------
(* A request arrives.                                                      *)

\* handleCreateItem: the item's row, then its picture.
CreateItem(r, i, s) ==
    /\ At(r, "idle") /\ item[i] = "new" /\ "create" \in Operations /\ Room
    /\ item' = [item EXCEPT ![i] = "live"]
    /\ Go(r, "stat", [items |-> {i}, sha |-> s])
    /\ UNCHANGED <<history, rows, inserted, final, temp>>

\* handleUpdateItem with remove_image: removeImages reads the item's rows and
\* works through them; then a new picture, if one was chosen.
EditRemoving(r, i, s) ==
    /\ At(r, "idle") /\ item[i] = "live" /\ "edit" \in Operations /\ Room
    /\ Go(r, "rows", [items |-> {i}, sha |-> s, doomed |-> RowsOf({i})])
    /\ UNCHANGED <<history, item, rows, inserted, final, temp>>

\* handleUpdateItem with a new picture beside the old ones.
EditAdding(r, i, s) ==
    /\ At(r, "idle") /\ item[i] = "live" /\ "edit" \in Operations /\ Room
    /\ Go(r, "stat", [items |-> {i}, sha |-> s])
    /\ UNCHANGED <<history, item, rows, inserted, final, temp>>

\* handleDeleteItem notes the item's pictures first.
RemoveItem(r, i) ==
    /\ At(r, "idle") /\ item[i] = "live" /\ "remove" \in Operations
    /\ Go(r, "delete", [items |-> {i}, shas |-> ShasOf(RowsOf({i}))])
    /\ UNCHANGED <<history, item, rows, inserted, final, temp>>

\* So does handleDeleteList, for all items of the list, removed ones included.
RemoveList(r) ==
    /\ At(r, "idle") /\ "delete_list" \in Operations
    /\ LET S == {i \in Items : item[i] \in {"live", "removed"}}
       IN  /\ Go(r, "delete", [items |-> Items, shas |-> ShasOf(RowsOf(S))])
    /\ UNCHANGED <<history, item, rows, inserted, final, temp>>

-----------------------------------------------------------------------------
(* Its steps.                                                              *)

\* DeleteItemImage; a row somebody else took meanwhile is skipped.
DeleteRow(r, n) ==
    /\ At(r, "rows") /\ n \in req[r].doomed
    /\ rows' = Drop(rows, {n})
    /\ Go(r, "rows", [doomed |-> req[r].doomed \ {n},
                      shas |-> req[r].shas \cup ShasOf({n} \cap DOMAIN rows)])
    /\ UNCHANGED <<history, item, inserted, final, temp>>

RowsDone(r) ==
    /\ At(r, "rows") /\ req[r].doomed = {}
    /\ Go(r, "count", <<>>)
    /\ UNCHANGED <<history, item, rows, inserted, final, temp>>

\* Store.DeleteItem keeps a claimed item's row, and the picture rows with it.
DeleteItem(r, keep) ==
    LET i == CHOOSE i \in req[r].items : TRUE
    IN  /\ At(r, "delete") /\ Cardinality(req[r].items) = 1
        /\ item' = [item EXCEPT ![i] = IF @ \in {"live", "removed"} /\ keep
                                       THEN "removed" ELSE "gone"]
        /\ rows' = Drop(rows, IF item'[i] = "gone" THEN RowsOf({i}) ELSE {})
        /\ Go(r, "count", [items |-> {}])
        /\ UNCHANGED <<history, inserted, final, temp>>

\* Store.DeleteList: the cascades take items and picture rows.
DeleteList(r) ==
    /\ At(r, "delete") /\ req[r].items = Items
    /\ item' = [i \in Items |-> IF item[i] = "new" THEN "new" ELSE "gone"]
    /\ rows' = EmptyTable
    /\ Go(r, "count", [items |-> {}])
    /\ UNCHANGED <<history, inserted, final, temp>>

\* pruneBlobs: count the rows that point at s ...
Prune(r, s) ==
    /\ At(r, "count") /\ s \in req[r].shas
    /\ IF RefCount(s) > 0
       THEN Go(r, "count", [shas |-> req[r].shas \ {s}])
       ELSE Go(r, "unlink", [shas |-> req[r].shas \ {s}, victim |-> s])
    /\ UNCHANGED <<history, item, rows, inserted, final, temp>>

\* Who has f open when its path is unlinked or replaced.
Losing(f, locals) ==
    [x \in Requests |->
        IF locals[x].fd = "final" /\ <<locals[x].sha, locals[x].kind>> = f
        THEN [locals[x] EXCEPT !.fd = "lost"] ELSE locals[x]]

\* ... and then Remove its files, the original first.
Unlink(r) ==
    LET kind == IF At(r, "unlink") THEN "original" ELSE "display"
        f    == <<req[r].victim, kind>>
    IN  /\ At(r, "unlink") \/ At(r, "unlink_display")
        /\ final' = [final EXCEPT ![f] = "absent"]
        /\ req' = Losing(f, [req EXCEPT
                    ![r].pc = IF kind = "original" THEN "unlink_display" ELSE "count",
                    ![r].victim = IF kind = "original" THEN @ ELSE "none"])
        /\ UNCHANGED <<history, item, rows, inserted, temp>>

PruneDone(r) ==
    /\ At(r, "count") /\ req[r].shas = {}
    /\ IF req[r].sha = "none" THEN Done(r) ELSE Go(r, "stat", <<>>)
    /\ UNCHANGED <<history, item, rows, inserted, final, temp>>

\* After one file comes the display derivative, and then the row.
NextFile(r) ==
    IF req[r].kind = "original" /\ req[r].sha \in Large
    THEN [pc |-> "stat", kind |-> "display"]
    ELSE [pc |-> "row", kind |-> "original"]

\* writeFile: a path that exists is taken to hold the bytes.
StatFile(r) ==
    LET next == NextFile(r)
    IN  /\ At(r, "stat")
        /\ IF final[<<req[r].sha, req[r].kind>>] = "absent"
           THEN Go(r, "open", <<>>)
           ELSE Go(r, next.pc, [kind |-> next.kind])
        /\ UNCHANGED <<history, item, rows, inserted, final, temp>>

\* os.WriteFile opens the shared .tmp path with O_TRUNC ...
OpenTemp(r) ==
    /\ At(r, "open")
    /\ temp' = [temp EXCEPT ![<<req[r].sha, req[r].kind>>] = "partial"]
    /\ Go(r, "write", [fd |-> "temp"])
    /\ UNCHANGED <<history, item, rows, inserted, final>>

\* ... and writes to the file it opened, wherever that is by now.
WriteTemp(r) ==
    LET f == <<req[r].sha, req[r].kind>>
    IN  /\ At(r, "write")
        /\ temp'  = IF req[r].fd = "temp"  THEN [temp EXCEPT ![f] = "full"] ELSE temp
        /\ final' = IF req[r].fd = "final" THEN [final EXCEPT ![f] = "full"] ELSE final
        /\ Go(r, "rename", [fd |-> "none"])
        /\ UNCHANGED <<history, item, rows, inserted>>

\* The write fails, on a full disk say, and the upload with it; what it opened
\* stays as it is.
WriteFails(r) ==
    /\ MayFail
    /\ At(r, "write")
    /\ Done(r)
    /\ UNCHANGED <<history, item, rows, inserted, final, temp>>

\* os.Rename; it fails if another request renamed the shared file away, and
\* the upload with it.
RenameTemp(r) ==
    LET f    == <<req[r].sha, req[r].kind>>
        next == NextFile(r)
        moved == [x \in Requests |->
                    IF req[x].fd = "temp" /\ <<req[x].sha, req[x].kind>> = f
                    THEN [Losing(f, req)[x] EXCEPT !.fd = "final"]
                    ELSE Losing(f, req)[x]]
    IN  /\ At(r, "rename")
        /\ IF temp[f] = "absent"
           THEN Done(r) /\ UNCHANGED <<final, temp>>
           ELSE /\ final' = [final EXCEPT ![f] = temp[f]]
                /\ temp'  = [temp EXCEPT ![f] = "absent"]
                /\ req'   = [moved EXCEPT ![r].pc = next.pc, ![r].kind = next.kind]
        /\ UNCHANGED <<history, item, rows, inserted>>

\* AddItemImage: the new row becomes the primary one.  Without its item the
\* foreign key refuses the row; that is only logged.
AddRow(r) ==
    LET i == CHOOSE i \in req[r].items : TRUE
    IN  /\ At(r, "row")
        /\ IF item[i] \in {"live", "removed"}
           THEN /\ inserted' = inserted + 1
                /\ rows' = Put([n \in DOMAIN rows |->
                                    IF rows[n].item = i
                                    THEN [rows[n] EXCEPT !.primary = FALSE]
                                    ELSE rows[n]],
                               inserted', [item |-> i, sha |-> req[r].sha, primary |-> TRUE])
           ELSE UNCHANGED <<rows, inserted>>
        /\ Done(r)
        /\ UNCHANGED <<history, item, final, temp>>

\* The process is killed; the database and the files stay as they are.
Crash ==
    /\ MayFail
    /\ \E r \in Requests : ~At(r, "idle")
    /\ req' = [r \in Requests |-> Idle]
    /\ UNCHANGED <<history, item, rows, inserted, final, temp>>

-----------------------------------------------------------------------------

Init ==
    /\ history \in Histories
    /\ item = [i \in Items |-> "new"]
    /\ rows = EmptyTable
    /\ inserted = 0
    /\ final = [f \in Files |-> "absent"]
    /\ temp  = [f \in Files |-> "absent"]
    /\ req   = [r \in Requests |-> Idle]

Arriving == IF history = "side by side" THEN SideBySide ELSE Pictures

Arrive(r) ==
    \/ \E i \in Items, s \in Arriving : CreateItem(r, i, s) \/ EditAdding(r, i, s)
    \/ \E i \in Items, s \in Arriving \cup {"none"} : EditRemoving(r, i, s)
    \/ \E i \in Items : RemoveItem(r, i)
    \/ RemoveList(r)

Work(r) ==
    \/ \E n \in 1..MaxRows : DeleteRow(r, n)
    \/ RowsDone(r)
    \/ \E keep \in BOOLEAN : DeleteItem(r, keep)
    \/ DeleteList(r)
    \/ \E s \in Pictures : Prune(r, s)
    \/ Unlink(r)
    \/ PruneDone(r)
    \/ StatFile(r) \/ OpenTemp(r) \/ WriteTemp(r) \/ WriteFails(r) \/ RenameTemp(r)
    \/ AddRow(r)

Next ==
    \/ (history = "side by side" \/ AllIdle) /\ \E r \in Requests : Arrive(r)
    \/ \E r \in Requests : Work(r)
    \/ Crash

Spec == Init /\ [][Next]_vars

-----------------------------------------------------------------------------
(* Properties.                                                             *)

\* The variables' types, and the foreign key from item_images to items.
TypeOK ==
    /\ history \in Histories
    /\ item \in [Items -> {"new", "live", "removed", "gone"}]
    /\ DOMAIN rows \subseteq 1..inserted /\ inserted \in 0..MaxRows
    /\ \A n \in DOMAIN rows :
          /\ rows[n] \in [item: Items, sha: Pictures, primary: BOOLEAN]
          /\ item[rows[n].item] \in {"live", "removed"}
    /\ final \in [Files -> Bytes] /\ temp \in [Files -> Bytes]
    /\ req \in [Requests -> Request]

\* While requests come one at a time, and wherever one is cut short, every row
\* points at a complete original: no page shows a broken picture.  The files are
\* written before the row and unlinked after it.
RowsHaveFiles ==
    history = "one at a time" =>
        \A n \in DOMAIN rows : final[<<rows[n].sha, "original">>] = "full"

\* ORDER BY is_primary DESC, created_at: the row an item is shown with.
Shown(i) == CHOOSE n \in RowsOf({i}) :
                \A k \in RowsOf({i}) :
                    \/ rows[n].primary /\ ~rows[k].primary
                    \/ rows[n].primary = rows[k].primary /\ n <= k

\* An item that has a primary picture is shown with the one that was added last,
\* whatever removals and additions ran side by side; and unless a request was
\* killed, every item with pictures has a primary one once nothing is running.
NewestIsShown ==
    \A i \in Items : RowsOf({i}) # {} =>
        /\ (\E n \in RowsOf({i}) : rows[n].primary)
              => \A k \in RowsOf({i}) : k <= Shown(i)
        /\ AllIdle /\ history = "side by side"
              => \E n \in RowsOf({i}) : rows[n].primary

\* A file that exists under its final name holds all its bytes: writeFile takes
\* its existence for that.  Requests that write one file side by side may see it
\* short, but not after the last of them is done.
FinalFilesAreComplete ==
    history = "one at a time" \/ AllIdle => \A f \in Files : final[f] # "partial"

UnlinksOnlyUnreferenced ==
    \A s \in Pictures :
        final[<<s, "original">>] # "absent" /\ final'[<<s, "original">>] = "absent"
            => RefCount(s) = 0

\* An original is unlinked only while no row points at it: what docs call a
\* blob that is only deleted when its reference count reaches zero.
DeletedOnlyUnreferenced == [][UnlinksOnlyUnreferenced]_vars
=============================================================================
