---------------------------- MODULE EdsStoreProofs ----------------------------
(***************************************************************************)
(* The store keeps its promise (StoredIsComplete) for any number of        *)
(* goroutines that put, prune and read a block, with or without crashes,   *)
(* on an archival node and on one that prunes.  The inductive invariant is *)
(* IInv of EdsStore: who is past the locks has them, and what the one that *)
(* has them has achieved so far is still so, whatever the readers and      *)
(* evictions, which take no lock, do to the caches meanwhile.              *)
(***************************************************************************)
EXTENDS EdsStore, TLAPS

\* Only p moves, to the place pc.
Moves(p, pc) ==
    /\ proc' \in [Procs -> Goroutine]
    /\ proc'[p].pc = pc
    /\ \A q \in Procs : q # p => proc'[q] = proc[q]

\* A goroutine gets a new state, and no other does.
LEMMA RecordMoves ==
    ASSUME TypeOK, NEW p \in Procs, NEW r \in Goroutine, proc' = [proc EXCEPT ![p] = r]
    PROVE  Moves(p, r.pc) /\ proc'[p] = r
<1>1. proc \in [Procs -> Goroutine]
  BY DEF TypeOK
<1> QED
  BY <1>1 DEF Moves

\* Go moves one goroutine and nothing else.
LEMMA GoMoves ==
    ASSUME TypeOK, NEW p \in Procs, NEW pc \in Places, Go(p, pc)
    PROVE  Moves(p, pc) /\ proc'[p].q4 = proc[p].q4
<1>1. proc \in [Procs -> Goroutine]
  BY DEF TypeOK
<1> QED
  BY <1>1 DEF Go, Goroutine, Moves

\* So does the return of a goroutine.
LEMMA AwayMoves ==
    ASSUME TypeOK, NEW p \in Procs, proc' = [proc EXCEPT ![p] = Away]
    PROVE  Moves(p, "away")
<1>1. proc \in [Procs -> Goroutine]
  BY DEF TypeOK
<1>2. Away \in Goroutine /\ Away.pc = "away"
  BY DEF Away, Goroutine, Places
<1> QED
  BY <1>1, <1>2 DEF Moves

\* A step of the goroutine that has the locks keeps the invariant if it does so
\* where the step itself is concerned: no other goroutine is at a place that matters.
LEMMA LockedStep ==
    ASSUME IInv, NEW p \in Procs, proc[p].pc \in Locked,
           NEW pc, Moves(p, pc), TypeOK',
           \/ pc \in Locked /\ lock' = lock
           \/ pc = "away" /\ lock' = None,
           LockedOK(p)', ~archival /\ p \in Pruners => PrunerOK(p)',
           p \in Putters /\ pc = "stored" => link' = "full" /\ (proc'[p].q4 => q4' = "full"),
           LinkedMeansComplete', RemovedMeansGone',
           removed' => ~archival /\ \A q \in Putters : proc[q].pc # "lock" /\ p # q
    PROVE  IInv'
<1>1. lock = p /\ \A q \in Procs : proc[q].pc \in Locked => lock = q
  BY DEF IInv
<1>2. \A q \in Procs : q # p => proc'[q] = proc[q] /\ proc[q].pc \notin Locked
  BY <1>1 DEF Moves
<1>3. \A q \in Procs : q # p => proc'[q].pc \notin Locked
  BY <1>2
<1>4. \A q \in Procs : proc'[q].pc \in Locked => lock' = q
  BY <1>1, <1>3 DEF Moves, Locked
<1>5. \A q \in Procs : LockedOK(q)'
  BY <1>3 DEF LockedOK, Locked
<1>6. ~archival => \A q \in Pruners : PrunerOK(q)'
  BY <1>3 DEF PrunerOK, Locked, Procs
<1>7. PutStores'
  BY <1>3 DEF PutStores, Locked, Procs, Moves
<1>8. removed' => ~archival /\ \A q \in Putters : proc'[q].pc \notin Locked \cup {"lock"}
  BY <1>2, <1>3 DEF Procs
<1> QED
  BY <1>4, <1>5, <1>6, <1>7, <1>8 DEF IInv, StoredIsComplete

\* The put creates the files that are not there ...
LEMMA CreateStep ==
    ASSUME IInv, NEW p \in Putters, create(p)
    PROVE  IInv'
<1>1. Moves(p, "write") /\ proc'[p].q4 = proc[p].q4
  <2>1. TypeOK /\ proc \in [Procs -> Goroutine]
    BY DEF IInv, TypeOK
  <2>2. PICK new \in SUBSET {"ods", "q4"} : proc' = [proc EXCEPT ![p].pc = "write", ![p].fresh = new]
    BY Zenon DEF create
  <2> DEFINE r == [proc[p] EXCEPT !.pc = "write", !.fresh = new]
  <2>3. r \in Goroutine /\ r.pc = "write" /\ r.q4 = proc[p].q4
    BY Zenon, <2>1, <2>2 DEF Goroutine, Places, Procs
  <2>4. proc' = [proc EXCEPT ![p] = r]
    BY Zenon, <2>1, <2>2
  <2> HIDE DEF r
  <2>5. p \in Procs
    BY DEF Procs
  <2>6. Moves(p, r.pc) /\ proc'[p] = r
    BY Zenon, <2>1, <2>3, <2>4, <2>5, RecordMoves
  <2> QED
    BY <2>3, <2>6
<1>2. TypeOK'
  BY <1>1 DEF create, CreateODS, createQ4, IInv, TypeOK, Content,
     Moves, caches
<1>3. LockedOK(p)' /\ p \notin Pruners
  BY <1>1, StoreAssumption DEF LockedOK, Moves
<1>4. LinkedMeansComplete'
  BY DEF create, CreateODS, IInv, StoredIsComplete, LinkedMeansComplete
<1>5. proc[p].pc \in Locked /\ p \in Procs /\ "write" \in Locked /\ lock' = lock
  BY DEF create, Locked, Procs
<1>6. ~removed'
  BY <1>5 DEF create, IInv
<1> QED
  BY <1>1, <1>2, <1>3, <1>4, <1>5, <1>6, LockedStep DEF RemovedMeansGone

\* ... and writes them; those it could not write are not taken for whole ones.
LEMMA WriteStep ==
    ASSUME IInv, NEW p \in Putters, write(p)
    PROVE  IInv'
<1>0. PICK done \in SUBSET proc[p].fresh :
        /\ writeODSFile(done) /\ writeQ4File(done)
        /\ Go(p, IF proc[p].q4 THEN createODSQ4File(p, done) ELSE createODSFile(p, done))
  BY DEF write
<1> DEFINE pc == IF proc[p].q4 THEN createODSQ4File(p, done) ELSE createODSFile(p, done)
<1>1. /\ pc \in {"link", "return", "validate", "removeODS"}
      /\ pc = "link" => "ods" \in done /\ (proc[p].q4 => "q4" \in done)
  BY DEF createODSQ4File, createODSFile, AfterCreate
<1>2. proc[p].pc \in Locked /\ p \in Procs /\ pc \in Locked /\ pc \in Places /\ lock' = lock
  BY <1>1 DEF write, Locked, Procs, Places
<1> HIDE DEF pc
<1>3. Moves(p, pc) /\ proc'[p].q4 = proc[p].q4
  BY <1>0, <1>2, GoMoves DEF pc, IInv
<1>4. TypeOK'
  BY <1>0, <1>3 DEF write, writeODSFile, writeQ4File, IInv, TypeOK, Content,
     Moves, caches
<1>5. LockedOK(p)' /\ p \notin Pruners
  BY <1>0, <1>1, <1>3, StoreAssumption DEF LockedOK, Moves, writeODSFile, writeQ4File
<1>6. LinkedMeansComplete'
  BY <1>0 DEF write, writeODSFile, IInv, StoredIsComplete, LinkedMeansComplete
<1>7. ~removed'
  BY <1>2 DEF write, IInv
<1> QED
  BY <1>1, <1>2, <1>3, <1>4, <1>5, <1>6, <1>7, LockedStep DEF RemovedMeansGone

\* Files that were there already are linked only if they are whole.
LEMMA ValidateStep ==
    ASSUME IInv, NEW p \in Putters, validateAndRecover(p)
    PROVE  IInv'
<1>0. proc \in [Procs -> Goroutine] /\ p \in Procs
  BY DEF IInv, TypeOK, Procs
<1> DEFINE whole == IF proc[p].q4 THEN ValidateODSQ4Size ELSE ValidateODSSize
           pc == IF whole THEN "link" ELSE "removeODS"
<1>1. whole => ods = "full" /\ (proc[p].q4 => q4 = "full")
  BY DEF ValidateODSQ4Size, ValidateODSSize, validateQ4Size
<1>2. Moves(p, pc) /\ proc'[p].q4 = proc[p].q4
  BY <1>0 DEF validateAndRecover, Go, Goroutine, Places, Moves
<1>3. proc[p].pc \in Locked /\ pc \in Locked /\ lock' = lock
  BY DEF validateAndRecover, Locked
<1>4. /\ ods' = ods /\ q4' = q4 /\ link' = link /\ recent' = recent /\ second' = second
      /\ inWindow' = inWindow /\ removed' = removed
  BY DEF validateAndRecover, files, caches
<1>5. pc \in {"link", "removeODS"} /\ (pc = "link" => whole)
  OBVIOUS
<1> HIDE DEF whole, pc
<1>6. TypeOK'
  BY <1>2, <1>3, <1>4 DEF IInv, TypeOK, Moves
<1>7. LockedOK(p)' /\ p \notin Pruners
  BY <1>1, <1>2, <1>4, <1>5, StoreAssumption DEF LockedOK, Moves
<1>8. LinkedMeansComplete'
  BY <1>4 DEF IInv, StoredIsComplete, LinkedMeansComplete
<1>9. ~removed'
  BY <1>3, <1>4 DEF IInv
<1> QED
  BY <1>0, <1>2, <1>3, <1>5, <1>6, <1>7, <1>8, <1>9, LockedStep DEF RemovedMeansGone

\* The link is made to a whole file; if that fails, there was none.
LEMMA LinkStep ==
    ASSUME IInv, NEW p \in Putters, linkHeight(p)
    PROVE  IInv'
<1>0. proc[p].pc \in Locked /\ p \in Procs /\ lock' = lock /\ p \notin Pruners
  BY StoreAssumption DEF linkHeight, Locked, Procs
<1>1. /\ ods' = ods /\ q4' = q4 /\ recent' = recent /\ second' = second
      /\ inWindow' = inWindow /\ removed' = removed
  BY DEF linkHeight, caches
<1>2. ods = "full" /\ (proc[p].q4 => q4 = "full")
  BY <1>0 DEF linkHeight, IInv, LockedOK
<1>3. link' = link \/ link' = ods
  BY DEF linkHeight
<1>4. ~removed'
  BY <1>0, <1>1 DEF IInv
<1>5. LinkedMeansComplete'
  BY <1>1, <1>2, <1>3 DEF IInv, StoredIsComplete, LinkedMeansComplete
<1>6. PICK pc \in {"stored", "removeODS"} :
        /\ Go(p, pc) \/ proc' = [proc EXCEPT ![p].pc = pc, ![p].again = FALSE]
        /\ pc = "stored" => link' # "none"
  BY <1>2 DEF linkHeight
<1>7. Moves(p, pc) /\ proc'[p].q4 = proc[p].q4
  <2>1. proc \in [Procs -> Goroutine]
    BY DEF IInv, TypeOK
  <2> QED
    BY <1>0, <1>6, <2>1 DEF Go, Goroutine, Places, Moves
<1>8. TypeOK'
  BY <1>0, <1>1, <1>3, <1>7 DEF IInv, TypeOK, Moves
<1>9. LockedOK(p)' /\ pc \in Locked
  BY <1>6, <1>7 DEF LockedOK, Moves, Locked
<1>10. pc = "stored" => link' = "full" /\ (proc'[p].q4 => q4' = "full")
  BY <1>1, <1>2, <1>5, <1>6, <1>7 DEF LinkedMeansComplete
<1> QED
  BY <1>0, <1>4, <1>5, <1>7, <1>8, <1>9, <1>10, LockedStep DEF RemovedMeansGone

\* The goroutine returns, and gives the locks back.
LEMMA ReturnStep ==
    ASSUME IInv, NEW p \in Procs, stored(p) \/ return(p)
    PROVE  IInv'
<1>0. proc[p].pc \in {"stored", "return"} /\ proc[p].pc \in Locked /\ lock' = None
  BY DEF stored, return, Locked, Leave
<1>1. /\ ods' = ods /\ q4' = q4 /\ link' = link /\ recent' = recent /\ second' = second
      /\ inWindow' = inWindow /\ removed' = removed
  BY DEF stored, return, files, caches
<1>2. Moves(p, "away")
  BY AwayMoves DEF stored, return, Leave, IInv
<1>3. TypeOK'
  BY <1>0, <1>1, <1>2 DEF IInv, TypeOK, Moves
<1>4. LockedOK(p)' /\ PrunerOK(p)'
  BY <1>2 DEF LockedOK, PrunerOK, Moves
<1>5. LinkedMeansComplete'
  BY <1>1 DEF IInv, StoredIsComplete, LinkedMeansComplete
<1>6. RemovedMeansGone'
  BY <1>1 DEF IInv, StoredIsComplete, RemovedMeansGone
<1>7. removed' => ~archival /\ \A q \in Putters : proc[q].pc # "lock" /\ p # q
  BY <1>0, <1>1 DEF IInv
<1> QED
  BY <1>0, <1>2, <1>3, <1>4, <1>5, <1>6, <1>7, LockedStep

\* Taking the block out of the caches, before the link and before the Q4 file.
LEMMA CacheRemoveStep ==
    ASSUME IInv, NEW p \in Procs, removeODS(p) \/ removeQ4(p)
    PROVE  IInv'
<1>0. proc[p].pc \in Locked /\ lock' = lock /\ inWindow' = inWindow /\ removed' = removed
  BY DEF removeODS, removeQ4, Locked
<1>1. removed' => ~archival /\ \A q \in Putters : proc[q].pc # "lock" /\ p # q
  BY <1>0 DEF IInv
<1>2. ods' = ods /\ q4' = q4 /\ link' = link
  BY DEF removeODS, removeQ4, files
<1>3. PICK pc \in {"removeLink", "removeQ4File", "return"} :
        /\ Go(p, pc)
        /\ recent' = FALSE /\ second' \in BOOLEAN /\ (second' => second)
        /\ pc = "removeQ4File" => proc[p].pc = "removeQ4" /\ ~second'
  BY Zenon DEF removeODS, removeQ4, cacheRemove
<1>4. Moves(p, pc) /\ pc \in Locked
  BY <1>3, GoMoves DEF IInv, Places, Locked
<1>5. TypeOK'
  BY Zenon, <1>0, <1>2, <1>3, <1>4 DEF IInv, TypeOK, Moves
<1>6. LockedOK(p)'
  BY <1>3, <1>4 DEF LockedOK, Moves
<1>7. ~archival /\ p \in Pruners => PrunerOK(p)'
  <2> SUFFICES ASSUME ~archival, p \in Pruners, pc = "removeQ4File"
               PROVE  link' = "none" /\ ods' = "none" /\ ~second' /\ ~recent'
    BY <1>3, <1>4 DEF PrunerOK, Moves
  <2>1. PrunerOK(p)
    BY DEF IInv
  <2> QED
    BY <2>1, <1>2, <1>3 DEF PrunerOK
<1>8. LinkedMeansComplete'
  BY <1>2 DEF IInv, StoredIsComplete, LinkedMeansComplete
<1>9. RemovedMeansGone'
  BY <1>0, <1>2, <1>3 DEF IInv, StoredIsComplete, RemovedMeansGone
<1> QED
  BY <1>0, <1>1, <1>3, <1>4, <1>5, <1>6, <1>7, <1>8, <1>9, LockedStep

\* The link goes before the file it leads to.
LEMMA RemoveLinkStep ==
    ASSUME IInv, NEW p \in Procs, removeLink(p)
    PROVE  IInv'
<1>0. proc[p].pc \in Locked /\ lock' = lock /\ inWindow' = inWindow /\ removed' = removed
  BY DEF removeLink, Locked
<1>1. removed' => ~archival /\ \A q \in Putters : proc[q].pc # "lock" /\ p # q
  BY <1>0 DEF IInv
<1>2. ods' = ods /\ q4' = q4 /\ recent' = recent /\ second' = second
  BY DEF removeLink, Fails, files, caches
<1>3. PICK pc \in {"removeFile", "return"} :
        /\ Go(p, pc)
        /\ link' \in {link, "none"}
        /\ pc = "removeFile" => link' = "none"
  BY DEF removeLink, Fails, files
<1>4. Moves(p, pc) /\ pc \in Locked
  BY <1>3, GoMoves DEF IInv, Places, Locked
<1>5. TypeOK'
  BY <1>0, <1>2, <1>3, <1>4 DEF IInv, TypeOK, Content, Moves
<1>6. LockedOK(p)' /\ PrunerOK(p)'
  BY <1>3, <1>4 DEF LockedOK, PrunerOK, Moves
<1>7. LinkedMeansComplete'
  BY <1>2, <1>3 DEF IInv, StoredIsComplete, LinkedMeansComplete
<1>8. RemovedMeansGone'
  BY <1>0, <1>2, <1>3 DEF IInv, StoredIsComplete, RemovedMeansGone
<1> QED
  BY <1>0, <1>1, <1>3, <1>4, <1>5, <1>6, <1>7, <1>8, LockedStep

\* The ODS file goes when nothing links to it.
LEMMA RemoveFileStep ==
    ASSUME IInv, NEW p \in Procs, removeFile(p)
    PROVE  IInv'
<1>0. proc[p].pc \in Locked /\ lock' = lock /\ inWindow' = inWindow /\ removed' = removed
  BY DEF removeFile, Locked
<1>1. removed' => ~archival /\ \A q \in Putters : proc[q].pc # "lock" /\ p # q
  BY <1>0 DEF IInv
<1>2. q4' = q4 /\ link' = link /\ recent' = recent /\ second' = second /\ link = "none"
  BY DEF removeFile, Fails, files, caches, IInv, LockedOK
<1>3. PICK pc \in {"removeQ4", "create", "return"} :
        /\ Go(p, pc)
        /\ ods' \in {ods, "none"}
        /\ pc = "removeQ4" => ods' = "none"
  BY DEF removeFile, Fails, files, AfterRemoval
<1>4. Moves(p, pc) /\ pc \in Locked
  BY <1>3, GoMoves DEF IInv, Places, Locked
<1>5. TypeOK'
  BY <1>0, <1>2, <1>3, <1>4 DEF IInv, TypeOK, Content, Moves
<1>6. LockedOK(p)' /\ PrunerOK(p)'
  BY <1>2, <1>3, <1>4 DEF LockedOK, PrunerOK, Moves
<1>7. LinkedMeansComplete'
  BY <1>2 DEF LinkedMeansComplete
<1>8. RemovedMeansGone'
  BY <1>0, <1>2, <1>3 DEF IInv, StoredIsComplete, RemovedMeansGone
<1> QED
  BY <1>0, <1>1, <1>3, <1>4, <1>5, <1>6, <1>7, <1>8, LockedStep

\* The Q4 file goes last; when a pruner has removed it, nothing is left.
LEMMA RemoveQ4FileStep ==
    ASSUME IInv, NEW p \in Procs, removeQ4File(p)
    PROVE  IInv'
<1>0. proc[p].pc \in Locked /\ lock' = lock /\ inWindow' = inWindow /\ removed' = removed
  BY DEF removeQ4File, Locked
<1>1. removed' => ~archival /\ \A q \in Putters : proc[q].pc # "lock" /\ p # q
  BY <1>0 DEF IInv
<1>2. ods' = ods /\ link' = link /\ recent' = recent /\ second' = second
  BY DEF removeQ4File, Fails, files, caches
<1>3. PICK pc \in {"pruned", "create", "return"} :
        /\ Go(p, pc)
        /\ q4' \in {q4, "none"}
        /\ pc = "pruned" => q4' = "none"
  BY DEF removeQ4File, Fails, files, AfterRemoval
<1>4. Moves(p, pc) /\ pc \in Locked
  BY <1>3, GoMoves DEF IInv, Places, Locked
<1>5. TypeOK'
  BY <1>0, <1>2, <1>3, <1>4 DEF IInv, TypeOK, Content, Moves
<1>6. LockedOK(p)'
  BY <1>3, <1>4 DEF LockedOK, Moves
<1>7. ~archival /\ p \in Pruners => PrunerOK(p)'
  <2> SUFFICES ASSUME ~archival, p \in Pruners, pc = "pruned"
               PROVE  /\ link' = "none" /\ ods' = "none" /\ q4' = "none" /\ ~second'
                      /\ recent' => \E q \in Putters : proc'[q].pc = "lock"
    BY <1>3, <1>4 DEF PrunerOK, Moves
  <2>1. PrunerOK(p) /\ proc[p].pc = "removeQ4File"
    BY DEF IInv, removeQ4File
  <2>2. \A q \in Putters : proc'[q] = proc[q]
    BY <1>4, StoreAssumption DEF Moves, Procs
  <2> QED
    BY <2>1, <2>2, <1>2, <1>3 DEF PrunerOK
<1>8. LinkedMeansComplete'
  BY <1>2 DEF IInv, StoredIsComplete, LinkedMeansComplete
<1>9. RemovedMeansGone'
  BY <1>0, <1>2, <1>3 DEF IInv, StoredIsComplete, RemovedMeansGone
<1> QED
  BY <1>0, <1>1, <1>3, <1>4, <1>5, <1>6, <1>7, <1>8, <1>9, LockedStep

\* RemoveODSQ4 returns: the block is gone unless a put is already waiting.
LEMMA PrunedStep ==
    ASSUME IInv, NEW p \in Pruners, pruned(p)
    PROVE  IInv'
<1>0. p \in Procs /\ proc[p].pc = "pruned" /\ proc[p].pc \in Locked /\ lock' = None
  BY DEF pruned, Locked, Leave, Procs
<1>1. /\ ods' = ods /\ q4' = q4 /\ link' = link /\ recent' = recent /\ second' = second
      /\ inWindow' = inWindow
  BY DEF pruned, files, caches
<1>2. removed' \in BOOLEAN /\ (removed' <=> ~archival /\ \A q \in Putters : proc[q].pc # "lock")
  BY Zenon DEF pruned
<1>3. Moves(p, "away")
  BY Zenon, <1>0, AwayMoves DEF pruned, Leave, IInv
<1>4. TypeOK'
  BY <1>0, <1>1, <1>2, <1>3 DEF IInv, TypeOK, Moves
<1>5. LockedOK(p)' /\ PrunerOK(p)'
  BY <1>3 DEF LockedOK, PrunerOK, Moves
<1>6. LinkedMeansComplete'
  BY <1>1 DEF IInv, StoredIsComplete, LinkedMeansComplete
<1>7. RemovedMeansGone'
  BY <1>0, <1>1, <1>2 DEF IInv, PrunerOK, RemovedMeansGone
<1>8. removed' => ~archival /\ \A q \in Putters : proc[q].pc # "lock" /\ p # q
  BY <1>2, StoreAssumption
<1> QED
  BY <1>0, <1>3, <1>4, <1>5, <1>6, <1>7, <1>8, LockedStep

\* A step without the locks leaves the files alone, and caches nothing of a block
\* that has no link, except on behalf of a put that now waits for the locks.
LEMMA UnlockedStep ==
    ASSUME IInv, UNCHANGED <<ods, q4, link, lock>>, TypeOK',
           \A q \in Procs :
             \/ proc'[q] = proc[q]
             \/ /\ q \in Putters /\ proc[q].pc \notin Locked \cup {"lock"}
                /\ proc'[q].pc \notin Locked
                /\ proc'[q].pc = "lock" => ~removed',
           removed' => removed,
           recent' => recent \/ \E q \in Putters : proc'[q].pc = "lock",
           second' => second \/ link # "none"
    PROVE  IInv'
<1>1. \A q \in Procs : proc'[q].pc \in Locked => proc'[q] = proc[q]
  OBVIOUS
<1>2. \A q \in Putters : proc[q].pc = "lock" => proc'[q].pc = "lock"
  BY DEF Procs
<1>3. \A q \in Procs : proc'[q].pc \in Locked => lock' = q
  BY <1>1 DEF IInv
<1>4. \A q \in Procs : LockedOK(q)'
  BY <1>1 DEF IInv, LockedOK, Locked
<1>5. ~archival => \A q \in Pruners : PrunerOK(q)'
  BY <1>1, <1>2 DEF IInv, PrunerOK, Locked, Procs
<1>6. removed' => ~archival /\ \A q \in Putters : proc'[q].pc \notin Locked \cup {"lock"}
  BY Zenon DEF IInv, Procs
<1>7. LinkedMeansComplete'
  BY Zenon DEF IInv, StoredIsComplete, LinkedMeansComplete
<1>8. PutStores'
  BY <1>1 DEF IInv, StoredIsComplete, PutStores, Locked, Procs
<1>9. RemovedMeansGone'
  BY <1>6 DEF IInv, StoredIsComplete, RemovedMeansGone
<1> QED
  BY <1>3, <1>4, <1>5, <1>6, <1>7, <1>8, <1>9 DEF IInv, StoredIsComplete

\* The steps of a put before it has the locks.
LEMMA BeforeLockStep ==
    ASSUME IInv, NEW p \in Putters,
           SharesAvailable(p) \/ GetEDS(p) \/ put(p)
    PROVE  IInv'
<1>0. p \in Procs /\ TypeOK /\ proc \in [Procs -> Goroutine]
  BY DEF Procs, IInv, TypeOK
<1>1. CASE SharesAvailable(p)
  <2>1. UNCHANGED <<ods, q4, link, lock, recent, second, inWindow, removed>> /\ proc[p].pc = "away"
    BY Zenon, <1>1 DEF SharesAvailable, files, caches
  <2>2. proc' = proc \/ Moves(p, "GetEDS")
    BY <1>0, <1>1, GoMoves DEF SharesAvailable, Places
  <2>3. TypeOK'
    BY <1>0, <2>1, <2>2 DEF TypeOK, Moves
  <2> QED
    BY <2>1, <2>2, <2>3, UnlockedStep DEF Moves, Locked
<1>2. CASE GetEDS(p)
  <2>1. UNCHANGED <<ods, q4, link, lock, recent, second, inWindow, removed>> /\ proc[p].pc = "GetEDS"
    BY <1>2 DEF GetEDS, files, caches
  <2>2. CASE proc' = [proc EXCEPT ![p].pc = "put", ![p].q4 = inWindow]
    <3> DEFINE r == [proc[p] EXCEPT !.pc = "put", !.q4 = inWindow]
    <3>a. r \in Goroutine /\ r.pc = "put"
      BY Zenon, <1>0 DEF Goroutine, Places, TypeOK
    <3>b. proc' = [proc EXCEPT ![p] = r]
      BY Zenon, <1>0, <2>2
    <3> HIDE DEF r
    <3>1. Moves(p, "put")
      BY Zenon, <1>0, <3>a, <3>b, RecordMoves
    <3>2. TypeOK'
      BY <1>0, <2>1, <3>1 DEF TypeOK, Moves
    <3> QED
      BY <2>1, <3>1, <3>2, UnlockedStep DEF Moves, Locked
  <2>3. CASE proc' = [proc EXCEPT ![p] = Away]
    <3>1. Moves(p, "away")
      BY Zenon, <1>0, <2>3, AwayMoves
    <3>2. TypeOK'
      BY <1>0, <2>1, <3>1 DEF TypeOK, Moves
    <3> QED
      BY <2>1, <3>1, <3>2, UnlockedStep DEF Moves, Locked
  <2> QED
    BY <1>2, <2>2, <2>3 DEF GetEDS
<1>3. CASE put(p)
  <2>1. UNCHANGED <<ods, q4, link, lock, second, inWindow>> /\ proc[p].pc = "put"
    BY <1>3 DEF put, files
  <2>2. removed' = FALSE /\ recent' \in BOOLEAN
    BY <1>3 DEF put
  <2>3. Moves(p, "lock")
    BY <1>0, <1>3, GoMoves DEF put, Places
  <2>4. TypeOK'
    BY Zenon, <1>0, <2>1, <2>2, <2>3 DEF TypeOK, Moves
  <2> QED
    BY <2>1, <2>2, <2>3, <2>4, <1>0, UnlockedStep DEF Moves, Locked
<1> QED
  BY <1>1, <1>2, <1>3

\* Readers, eviction and time.
LEMMA EnvironmentStep ==
    ASSUME IInv,
           evict \/ leaveWindow \/ \E r \in CachedReaders : GetByHeight(r)
    PROVE  IInv'
<1>1. UNCHANGED <<ods, q4, link, lock, proc, removed>>
  BY DEF evict, leaveWindow, GetByHeight, files
<1>2. recent \in BOOLEAN /\ second \in BOOLEAN /\ inWindow \in BOOLEAN
  BY DEF IInv, TypeOK
<1>3. recent' \in {recent, FALSE} /\ inWindow' \in {inWindow, FALSE}
  BY Zenon DEF evict, leaveWindow, GetByHeight, caches
<1>4. second' \in {second, FALSE} \/ (second' = TRUE /\ link # "none")
  BY Zenon DEF evict, leaveWindow, GetByHeight, caches
<1>5. TypeOK'
  BY Zenon, <1>1, <1>2, <1>3, <1>4 DEF IInv, TypeOK
<1>6. recent' => recent
  BY Zenon, <1>3
<1>7. second' => second \/ link # "none"
  BY Zenon, <1>4
<1> QED
  BY <1>1, <1>5, <1>6, <1>7, UnlockedStep

\* A goroutine takes the locks: nobody is at a place where they are needed.
LEMMA TakeLock ==
    ASSUME IInv, NEW p \in Procs, lock = None, lock' = p,
           UNCHANGED <<ods, q4, link, recent, second, inWindow>>,
           NEW pc \in {"create", "removeODS", "removeQ4"}, Moves(p, pc),
           removed' \in BOOLEAN, removed' => removed /\ p \in Pruners,
           ~archival /\ p \in Pruners => pc = "removeODS"
    PROVE  IInv'
<1>1. \A q \in Procs : proc[q].pc \notin Locked
  BY Zenon, StoreAssumption DEF IInv, Procs
<1>2. \A q \in Procs : q # p => proc'[q].pc \notin Locked
  BY Zenon, <1>1 DEF Moves
<1>3. TypeOK'
  BY DEF IInv, TypeOK, Moves
<1>4. \A q \in Procs : LockedOK(q)'
  BY <1>2 DEF LockedOK, Locked, Moves
<1>5. ~archival => \A q \in Pruners : PrunerOK(q)'
  BY <1>2 DEF PrunerOK, Locked, Procs, Moves
<1>6. removed' => ~archival /\ \A q \in Putters : proc'[q].pc \notin Locked \cup {"lock"}
  BY StoreAssumption DEF IInv, Procs, Moves
<1>7. LinkedMeansComplete'
  BY DEF IInv, StoredIsComplete, LinkedMeansComplete
<1>8. PutStores'
  BY <1>2 DEF PutStores, Locked, Procs, Moves
<1>9. RemovedMeansGone'
  BY DEF IInv, StoredIsComplete, RemovedMeansGone
<1> QED
  BY Zenon, <1>2, <1>3, <1>4, <1>5, <1>6, <1>7, <1>8, <1>9 DEF IInv, StoredIsComplete

\* Taking the locks keeps the invariant: the goroutine has achieved nothing yet.
LEMMA TakeLockStep ==
    ASSUME IInv,
           \/ \E p \in Putters : putLock(p)
           \/ \E p \in Pruners : Prune(p)
    PROVE  IInv'
<1>0. TypeOK /\ proc \in [Procs -> Goroutine]
  BY DEF Procs, IInv, TypeOK
<1>1. ASSUME NEW p \in Putters, putLock(p)
      PROVE  IInv'
  <2>1. lock = None /\ lock' = p /\ UNCHANGED <<ods, q4, link, recent, second, inWindow>> /\ p \in Procs
    BY <1>1 DEF putLock, files, caches, Procs
  <2>2. removed' = FALSE
    BY <1>1 DEF putLock
  <2>3. Moves(p, "create")
    BY <1>0, <1>1, <2>1, GoMoves DEF putLock, Places
  <2> QED
    BY Zenon, <2>1, <2>2, <2>3, TakeLock, StoreAssumption
<1>2. ASSUME NEW p \in Pruners, Prune(p)
      PROVE  IInv'
  <2>1. lock = None /\ lock' = p /\ UNCHANGED <<ods, q4, link, recent, second, inWindow, removed>> /\ p \in Procs
    BY <1>2 DEF Prune, files, caches, Procs
  <2> DEFINE pc == IF archival THEN "removeQ4" ELSE "removeODS"
  <2>2. proc' = [proc EXCEPT ![p].pc = pc, ![p].q4 = TRUE]
    BY <1>2 DEF Prune
  <2>3. pc \in Places /\ pc \in {"create", "removeODS", "removeQ4"} /\ (~archival => pc = "removeODS")
    BY DEF Places
  <2> HIDE DEF pc
  <2>4. Moves(p, pc)
    <3> DEFINE r == [proc[p] EXCEPT !.pc = pc, !.q4 = TRUE]
    <3>1. r \in Goroutine /\ r.pc = pc
      BY Zenon, <1>0, <2>1, <2>3 DEF Goroutine
    <3>2. proc' = [proc EXCEPT ![p] = r]
      BY Zenon, <1>0, <2>1, <2>2
    <3> HIDE DEF r
    <3> QED
      BY Zenon, <1>0, <2>1, <3>1, <3>2, RecordMoves
  <2>5. removed' \in BOOLEAN /\ (removed' => removed)
    BY <2>1 DEF IInv, TypeOK
  <2> QED
    BY <2>1, <2>3, <2>4, <2>5, TakeLock
<1> QED
  BY <1>1, <1>2

\* After a crash only the files are left.
LEMMA CrashStep ==
    ASSUME IInv, crash
    PROVE  IInv'
<1>1. UNCHANGED <<ods, q4, link, inWindow, removed>> /\ recent' = FALSE /\ second' = FALSE /\ lock' = None
  BY DEF crash, files
<1>2. proc' \in [Procs -> Goroutine] /\ \A p \in Procs : proc'[p].pc = "away"
  BY DEF crash, Away, Goroutine, Places
<1>3. TypeOK'
  BY Zenon, <1>1, <1>2 DEF IInv, TypeOK
<1>4. \A p \in Procs : proc'[p].pc \notin Locked \cup {"lock"}
  BY <1>2 DEF Locked
<1>5. \A p \in Procs : LockedOK(p)' /\ PrunerOK(p)'
  BY <1>2 DEF LockedOK, PrunerOK
<1>6. LinkedMeansComplete' /\ PutStores'
  BY <1>1, <1>2 DEF IInv, StoredIsComplete, LinkedMeansComplete, PutStores, Procs
<1>7. RemovedMeansGone' /\ (removed' => ~archival)
  BY <1>1 DEF IInv, StoredIsComplete, RemovedMeansGone
<1> QED
  BY <1>3, <1>4, <1>5, <1>6, <1>7 DEF IInv, StoredIsComplete, Procs

\* The invariant holds in the beginning.
LEMMA StoreInit ==
    ASSUME Init
    PROVE  IInv
<1>1. proc \in [Procs -> Goroutine] /\ \A p \in Procs : proc[p].pc = "away"
  BY DEF Init, Away, Goroutine, Places
<1>2. TypeOK
  BY Zenon, <1>1 DEF Init, TypeOK, Content
<1>3. \A p \in Procs : proc[p].pc \notin Locked \cup {"lock"}
  BY <1>1 DEF Locked
<1>4. \A p \in Procs : LockedOK(p) /\ PrunerOK(p)
  BY <1>1 DEF LockedOK, PrunerOK
<1>5. StoredIsComplete /\ removed = FALSE
  BY <1>1, <1>2 DEF Init, StoredIsComplete, LinkedMeansComplete, PutStores, RemovedMeansGone, Procs
<1> QED
  BY <1>2, <1>3, <1>4, <1>5 DEF IInv, Procs

\* Every step keeps the invariant: one lemma for each group of actions.
LEMMA StoreNext ==
    ASSUME IInv, [Next]_(vars)
    PROVE  IInv'
<1>1. CASE UNCHANGED vars
  <2>1. UNCHANGED <<ods, q4, link, recent, second, inWindow, proc, lock, removed>>
    BY <1>1 DEF vars, files, caches
  <2>2. TypeOK'
    BY <2>1 DEF IInv, TypeOK
  <2> QED
    BY <2>1, <2>2, UnlockedStep
<1>2. CASE Next
  <2> USE DEF Procs
  <2>1. ASSUME NEW p \in Putters,
               \/ SharesAvailable(p) \/ GetEDS(p) \/ put(p) \/ putLock(p) \/ create(p)
               \/ write(p) \/ validateAndRecover(p) \/ linkHeight(p) \/ stored(p)
        PROVE  IInv'
    BY <2>1, BeforeLockStep, TakeLockStep, CreateStep, WriteStep, ValidateStep, LinkStep, ReturnStep
  <2>2. ASSUME NEW p \in Pruners, Prune(p) \/ pruned(p)
        PROVE  IInv'
    BY <2>2, TakeLockStep, PrunedStep
  <2>3. ASSUME NEW p \in Procs,
               \/ removeODS(p) \/ removeLink(p) \/ removeFile(p) \/ removeQ4(p)
               \/ removeQ4File(p) \/ return(p)
        PROVE  IInv'
    BY <2>3, CacheRemoveStep, RemoveLinkStep, RemoveFileStep, RemoveQ4FileStep, ReturnStep
  <2> QED
    BY <1>2, <2>1, <2>2, <2>3, EnvironmentStep, CrashStep DEF Next
<1> QED
  BY <1>1, <1>2

\* Whatever fails, crashes or is taken up again, and whoever puts, prunes and reads
\* at the same time: a linked height is complete, a put that reports success has
\* stored the block, and a removal that reports success has left nothing of it.
THEOREM StoreIsComplete ==
    Spec => []StoredIsComplete
<1>1. Init => IInv
  BY StoreInit
<1>2. IInv /\ [Next]_(vars) => IInv'
  BY StoreNext
<1>3. IInv => StoredIsComplete
  BY DEF IInv
<1> QED
  BY <1>1, <1>2, <1>3, PTL DEF Spec
=============================================================================
