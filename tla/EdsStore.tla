------------------------------ MODULE EdsStore ------------------------------
(***************************************************************************)
(* One block in the EDS store (store/store.go, store/store_cache.go): its  *)
(* ODS file, its Q4 file and the hard link of its height, the two caches   *)
(* (the store's own and the one of CachedStore), and what runs on them:    *)
(* SharesAvailable of a full node, which puts the block, Prune, which      *)
(* removes it or trims its Q4 file, and reads through CachedStore.  The    *)
(* locks of the height and of the data hash are one here; CachedStore      *)
(* takes neither.  File operations may fail, and the process may crash     *)
(* anywhere, which leaves the files as they are.                           *)
(*                                                                         *)
(* A cached accessor is only there or not (see AccessorCache).  Blocks of  *)
(* different heights have different data.                                  *)
(*                                                                         *)
(* A definition X_Wrong in front of X is a faulty variant of it, used to   *)
(* see that the properties notice the fault.                               *)
(***************************************************************************)
EXTENDS FiniteSets

CONSTANTS
    Putters,         \* goroutines in SharesAvailable
    Pruners,         \* goroutines in Prune
    CachedReaders,   \* goroutines in CachedStore.GetByHeight
    archival,        \* the node keeps blocks outside the availability window
    Crashes,         \* the process may crash
    None

\* Goroutines that put and goroutines that prune are different ones.
ASSUME StoreAssumption ==
    /\ Putters \cap Pruners = {}
    /\ None \notin Putters \cup Pruners
    /\ archival \in BOOLEAN


VARIABLES
    ods, q4,          \* the files: "none", "partial" or "full"
    link,             \* the content of the file that the height links to
    recent, second,   \* whether the caches have the block
    inWindow,         \* the block is within the availability window
    proc,             \* the goroutines
    lock,             \* the goroutine that has the locks
    removed           \* history: RemoveODSQ4 succeeded, and no put was or got under way

files == <<ods, q4, link>>
caches == <<recent, second>>
vars == <<files, caches, inWindow, proc, lock, removed>>

Procs == Putters \cup Pruners
Content == {"none", "partial", "full"}
Away == [pc |-> "away", q4 |-> FALSE, fresh |-> {}, again |-> FALSE]
Go(p, pc) == proc' = [proc EXCEPT ![p].pc = pc]
Leave(p) == proc' = [proc EXCEPT ![p] = Away] /\ lock' = None

-----------------------------------------------------------------------------
(***************************************************************************)
(* SharesAvailable: nothing to do if the store has the block; otherwise    *)
(* the square is fetched and put, without its Q4 outside the window.       *)
(***************************************************************************)

HasByHeight == recent \/ second \/ link # "none"

SharesAvailable(p) ==
    /\ proc[p].pc = "away" /\ lock = None
    /\ archival \/ inWindow
    /\ IF HasByHeight
       THEN UNCHANGED proc
       ELSE Go(p, "GetEDS")
    /\ UNCHANGED <<files, caches, inWindow, lock, removed>>

GetEDS(p) ==
    /\ proc[p].pc = "GetEDS"
    /\ \/ proc' = [proc EXCEPT ![p].pc = "put", ![p].q4 = inWindow]
       \/ proc' = [proc EXCEPT ![p] = Away]
    /\ UNCHANGED <<files, caches, inWindow, lock, removed>>

\* put: into the cache before the locks are taken.
put(p) ==
    /\ proc[p].pc = "put"
    /\ recent' = (recent \/ ~second)
    /\ removed' = FALSE
    /\ Go(p, "lock")
    /\ UNCHANGED <<files, second, inWindow, lock>>

putLock(p) ==
    /\ proc[p].pc = "lock" /\ lock = None
    /\ lock' = p
    /\ removed' = FALSE
    /\ Go(p, "create")
    /\ UNCHANGED <<files, caches, inWindow>>

\* CreateODS and createQ4: files that are there already are left alone ...
CreateODS(p) == ods' = IF ods = "none" THEN "partial" ELSE ods
createQ4(p) == q4' = IF proc[p].q4 /\ q4 = "none" THEN "partial" ELSE q4
create(p) ==
    /\ proc[p].pc = "create"
    /\ CreateODS(p) /\ createQ4(p)
    /\ proc' = [proc EXCEPT ![p].pc = "write",
                            ![p].fresh = {f \in {"ods", "q4"} : (f = "ods" /\ ods = "none")
                                                                \/ (f = "q4" /\ proc[p].q4 /\ q4 = "none")}]
    /\ UNCHANGED <<link, caches, inWindow, lock, removed>>

\* What follows when the files in done were written: a failure removes them, and files
\* that were there already are validated; nothing is removed after a recovery.
AfterCreate(p, done, wanted) ==
    IF done = wanted THEN "link"
    ELSE IF proc[p].again THEN "return"
    ELSE IF proc[p].fresh # wanted THEN "validate" ELSE "removeODS"
createODSQ4File(p, done) == AfterCreate(p, done, {"ods", "q4"})
createODSFile(p, done) == AfterCreate(p, done, {"ods"})

\* ... new ones are written, each of which may fail.
writeODSFile(done) == ods' = IF "ods" \in done THEN "full" ELSE ods
writeQ4File(done) == q4' = IF "q4" \in done THEN "full" ELSE q4
write(p) ==
    /\ proc[p].pc = "write"
    /\ \E done \in SUBSET proc[p].fresh :
         /\ writeODSFile(done) /\ writeQ4File(done)
         /\ Go(p, IF proc[p].q4 THEN createODSQ4File(p, done) ELSE createODSFile(p, done))
    /\ UNCHANGED <<link, caches, inWindow, lock, removed>>

\* Exactly a whole file has the size that is expected of it (see EdsAccessor).
ValidateODSSize == ods = "full"
validateQ4Size == q4 = "full"
ValidateODSQ4Size == ValidateODSSize /\ validateQ4Size

\* validateAndRecoverODS(Q4): a file of the wrong size is removed and created again.
validateAndRecover_Wrong(p) ==
    /\ proc[p].pc = "validate"
    /\ Go(p, "link")
    /\ UNCHANGED <<files, caches, inWindow, lock, removed>>

validateAndRecover(p) ==
    /\ proc[p].pc = "validate"
    /\ IF IF proc[p].q4 THEN ValidateODSQ4Size ELSE ValidateODSSize
       THEN Go(p, "link")
       ELSE proc' = [proc EXCEPT ![p].pc = "removeODS", ![p].again = TRUE]
    /\ UNCHANGED <<files, caches, inWindow, lock, removed>>

\* A link that is there already is a success; a failure removes the files for good.
linkHeight(p) ==
    /\ proc[p].pc = "link"
    /\ \/ Go(p, "stored") /\ link' = IF link = "none" THEN ods ELSE link
       \/ /\ link = "none" /\ UNCHANGED link
          /\ proc' = [proc EXCEPT ![p].pc = "removeODS", ![p].again = FALSE]
    /\ UNCHANGED <<ods, q4, caches, inWindow, lock, removed>>

stored(p) ==
    /\ proc[p].pc = "stored"
    /\ Leave(p)
    /\ UNCHANGED <<files, caches, inWindow, removed>>

return(p) ==
    /\ proc[p].pc = "return"
    /\ Leave(p)
    /\ UNCHANGED <<files, caches, inWindow, removed>>

-----------------------------------------------------------------------------
(***************************************************************************)
(* removeODSQ4, removeODS and removeQ4, for put and for Prune, under the   *)
(* locks: out of the caches, then the link, the ODS file and the Q4 file.  *)
(* Each may fail, and then nothing more is removed.                        *)
(***************************************************************************)

Prune(p) ==
    /\ proc[p].pc = "away" /\ lock = None /\ ~inWindow
    /\ lock' = p
    /\ proc' = [proc EXCEPT ![p].pc = IF archival THEN "removeQ4" ELSE "removeODS", ![p].q4 = TRUE]
    /\ UNCHANGED <<files, caches, inWindow, removed>>

\* DoubleCache.Remove: from both caches; closing an opened file may fail.
cacheRemove(p, pc) ==
    /\ recent' = FALSE
    /\ \/ second' = FALSE /\ Go(p, pc)
       \/ second /\ second' = TRUE /\ Go(p, "return")

Fails(p) == Go(p, "return") /\ UNCHANGED <<files, caches>>

removeODS(p) ==
    /\ proc[p].pc = "removeODS"
    /\ cacheRemove(p, "removeLink")
    /\ UNCHANGED <<files, inWindow, lock, removed>>

removeLink(p) ==
    /\ proc[p].pc = "removeLink"
    /\ \/ link' = "none" /\ Go(p, "removeFile") /\ UNCHANGED <<ods, q4, caches>>
       \/ Fails(p)
    /\ UNCHANGED <<inWindow, lock, removed>>

\* What follows a removal: the file is created again, or the put returns its error.
AfterRemoval(p) == IF proc[p].again THEN "create" ELSE "return"

removeFile(p) ==
    /\ proc[p].pc = "removeFile"
    /\ \/ ods' = "none" /\ Go(p, IF proc[p].q4 THEN "removeQ4" ELSE AfterRemoval(p)) /\ UNCHANGED <<q4, link, caches>>
       \/ Fails(p)
    /\ UNCHANGED <<inWindow, lock, removed>>

removeQ4(p) ==
    /\ proc[p].pc = "removeQ4"
    /\ cacheRemove(p, "removeQ4File")
    /\ UNCHANGED <<files, inWindow, lock, removed>>

removeQ4File(p) ==
    /\ proc[p].pc = "removeQ4File"
    /\ \/ /\ q4' = "none"
          /\ Go(p, IF p \in Pruners THEN "pruned" ELSE AfterRemoval(p))
          /\ UNCHANGED <<ods, link, caches>>
       \/ Fails(p)
    /\ UNCHANGED <<inWindow, lock, removed>>

pruned(p) ==
    /\ proc[p].pc = "pruned"
    /\ removed' = (~archival /\ \A q \in Putters : proc[q].pc # "lock")
    /\ Leave(p)
    /\ UNCHANGED <<files, caches, inWindow>>

-----------------------------------------------------------------------------
\* CachedStore.GetByHeight: from a cache, or the linked file is opened into the
\* second one; without the locks of the store.
GetByHeight(r) ==
    /\ ~recent /\ ~second /\ link # "none"
    /\ second' = TRUE
    /\ UNCHANGED <<files, recent, inWindow, proc, lock, removed>>

evict ==
    /\ recent \/ second
    /\ \/ recent' = FALSE /\ UNCHANGED second
       \/ second' = FALSE /\ UNCHANGED recent
    /\ UNCHANGED <<files, inWindow, proc, lock, removed>>

leaveWindow ==
    /\ inWindow
    /\ inWindow' = FALSE
    /\ UNCHANGED <<files, caches, proc, lock, removed>>

crash ==
    /\ Crashes
    /\ proc' = [p \in Procs |-> Away] /\ lock' = None
    /\ recent' = FALSE /\ second' = FALSE
    /\ UNCHANGED <<files, inWindow, removed>>

Init ==
    /\ ods = "none" /\ q4 = "none" /\ link = "none"
    /\ recent = FALSE /\ second = FALSE /\ inWindow = TRUE
    /\ proc = [p \in Procs |-> Away] /\ lock = None
    /\ removed = FALSE

Next ==
    \/ \E p \in Putters :
         \/ SharesAvailable(p) \/ GetEDS(p) \/ put(p) \/ putLock(p) \/ create(p) \/ write(p)
         \/ validateAndRecover(p) \/ linkHeight(p) \/ stored(p)
    \/ \E p \in Pruners : Prune(p) \/ pruned(p)
    \/ \E p \in Procs : removeODS(p) \/ removeLink(p) \/ removeFile(p) \/ removeQ4(p) \/ removeQ4File(p) \/ return(p)
    \/ \E r \in CachedReaders : GetByHeight(r)
    \/ evict \/ leaveWindow \/ crash

Spec == Init /\ [][Next]_vars

-----------------------------------------------------------------------------
(***************************************************************************)
(* Properties.                                                             *)
(***************************************************************************)

Places == {"away", "GetEDS", "put", "lock", "create", "write", "validate", "link", "stored", "removeODS",
           "removeLink", "removeFile", "removeQ4", "removeQ4File", "pruned", "return"}
Goroutine == [pc : Places, q4 : BOOLEAN, fresh : SUBSET {"ods", "q4"}, again : BOOLEAN]

\* Every variable has its type.
TypeOK ==
    /\ ods \in Content /\ q4 \in Content /\ link \in Content
    /\ recent \in BOOLEAN /\ second \in BOOLEAN /\ inWindow \in BOOLEAN
    /\ proc \in [Procs -> Goroutine]
    /\ lock \in Procs \cup {None}
    /\ removed \in BOOLEAN

\* A height that is linked is complete: whatever failed, was interrupted by a
\* crash, was taken up again or was removed in part, a link always leads to a
\* whole ODS, and the files it was made from are there.
LinkedMeansComplete ==
    link # "none" => link = "full" /\ ods = "full"

\* When put reports success the height is linked to a whole ODS, also when it
\* found the remains of an earlier put.
PutStores == \A p \in Putters : proc[p].pc = "stored" => link = "full" /\ (proc[p].q4 => q4 = "full")

\* After RemoveODSQ4 has succeeded nothing of the block is left, neither on disk
\* nor in a cache, until it is put again.
RemovedMeansGone ==
    removed => link = "none" /\ ods = "none" /\ q4 = "none" /\ ~recent /\ ~second

\* What the store promises of a block, whatever fails, crashes or is taken up again: a
\* linked height leads to a whole ODS file, a put that reports success has stored the block,
\* and after RemoveODSQ4 nothing of it is left, on disk or in a cache, until it is put again.
StoredIsComplete == TypeOK /\ LinkedMeansComplete /\ PutStores /\ RemovedMeansGone

-----------------------------------------------------------------------------
(***************************************************************************)
(* The inductive invariant behind the theorem of EdsStoreProofs.           *)
(***************************************************************************)

\* The places at which a goroutine has the locks.
Locked == {"create", "write", "validate", "link", "stored", "removeODS", "removeLink", "removeFile", "removeQ4",
           "removeQ4File", "pruned", "return"}

\* What the goroutine that has the locks has achieved so far.
LockedOK(p) ==
    /\ proc[p].pc = "link" => ods = "full" /\ (proc[p].q4 => q4 = "full")
    /\ proc[p].pc = "removeFile" => link = "none"

\* The steps of a pruner that removes the whole block: the link goes first, then the
\* ODS file; a reader may cache the block in between, but no longer from then on.
PrunerOK(p) ==
    /\ proc[p].pc \in {"removeQ4", "removeQ4File", "pruned"} => link = "none" /\ ods = "none"
    /\ proc[p].pc \in {"removeQ4File", "pruned"} =>
           ~second /\ (recent => \E q \in Putters : proc[q].pc = "lock")
    /\ proc[p].pc = "pruned" => q4 = "none"

\* Everything the proof needs to know of a reachable state.
IInv ==
    /\ TypeOK
    /\ \A p \in Procs : proc[p].pc \in Locked => lock = p
    /\ \A p \in Procs : LockedOK(p)
    /\ ~archival => \A p \in Pruners : PrunerOK(p)
    /\ removed => ~archival /\ \A p \in Putters : proc[p].pc \notin Locked \cup {"lock"}
    /\ StoredIsComplete

=============================================================================
