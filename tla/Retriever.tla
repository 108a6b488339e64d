------------------------------- MODULE Retriever -------------------------------
(***************************************************************************)
(* share/eds/retriever.go, retriever_quadrant.go, share/ipld/nmt_adder.go  *)
(* and share/eds/byzantine: retrieving a square by quadrants.              *)
(*                                                                         *)
(* request asks for another quadrant at every tick; the shares arrive one  *)
(* by one, from the tree of a row or of a column, and each goroutine that  *)
(* writes one may signal the main loop, which tries to repair the square.  *)
(* Writers hold squareLk for reading and Reconstruct holds it for writing, *)
(* so a write and a repair are one step each.  Shares are not modelled by  *)
(* their bytes: a cell is written or not.  The block producer may have     *)
(* committed to a square with some cells that are no erasure code; every   *)
(* axis through such a cell fails its root when it is rebuilt.             *)
(*                                                                         *)
(* Repair (rsmt2d) and the trees of the block service are external.        *)
(***************************************************************************)
EXTENDS Naturals, FiniteSets

CONSTANTS
    Size,       \* len(RowRoots), the width of the extended square
    Offers,     \* sets of cells, one of which the network has
    Corrupt,    \* sets of cells, one of which is wrongly encoded
    MaxAsked    \* bound on the quadrants requested, of eight

VARIABLES
    offer,      \* cells that the network has
    bad,        \* cells that are not the erasure code of the others
    asked,      \* quadrants that are requested
    locked,     \* squareCellsLks that were taken
    square,     \* cells that are set
    misplaced,  \* cells that hold a share of another place
    count,      \* squareCellsCount
    sig,        \* squareSig holds a signal
    dn,         \* squareDn is closed
    batch,      \* trees that the adder has visited and not committed
    stored,     \* cells with the axes whose trees can prove them from the blockstore
    ctx,        \* "alive" or "done"
    pc,         \* Retrieve: "select", "reconstruct", "again", "close", "prove" or "returned"
    byz,        \* the rsmt2d.ErrByzantineData of the last repair
    result      \* what Retrieve returned

vars == <<offer, bad, asked, locked, square, misplaced, count, sig, dn, batch, stored, ctx, pc, byz, result>>

Index == 0..(Size - 1)
Cells == Index \X Index
Axes == {"row", "col"} \X Index
Half == Size \div 2

\* The cell at a place of an axis, and the cells of an axis.
Cell(axis, j) == IF axis[1] = "row" THEN <<axis[2], j>> ELSE <<j, axis[2]>>
CellsOf(axis) == {Cell(axis, j) : j \in Index}

-----------------------------------------------------------------------------
(***************************************************************************)
(* Quadrants.                                                              *)
(***************************************************************************)

\* Four for each source, requested in a random order.
newQuadrants == [source : {"row", "col"}, x : {0, 1}, y : {0, 1}]

pos(q, rootIdx, cellIdx) == Cell(<<q.source, rootIdx + Half * q.y>>, cellIdx + Half * q.x)

\* The share that arrives for a root and an index is the one at the half of the axis that
\* the link picks.
Link(q, rootIdx, cellIdx) == Cell(<<q.source, Half * q.y + rootIdx>>, Half * q.x + cellIdx)

-----------------------------------------------------------------------------
(***************************************************************************)
(* Repair: every axis with half of its cells is rebuilt and checked.       *)
(***************************************************************************)

\* What can be rebuilt from cells: axes with half of their cells, over and over. An axis
\* through a wrongly encoded cell is not rebuilt but reported.
Solvable(cells) == {a \in Axes : Cardinality(CellsOf(a) \cap cells) >= Half}
Sound(cells) == {a \in Solvable(cells) : CellsOf(a) \cap (bad \cup misplaced) = {}}
Rebuild(cells) == cells \cup UNION {CellsOf(a) : a \in Sound(cells)}

Closure(cells) ==
    LET F[n \in Nat] == IF n = 0 THEN cells ELSE Rebuild(F[n - 1]) IN F[2 * Size]

\* Axes that fail their root when what is there is repaired.
Byzantine(cells) == {a \in Solvable(Closure(cells)) : CellsOf(a) \cap (bad \cup misplaced) # {}}

-----------------------------------------------------------------------------

\* Retrieve cancels what is ongoing when it returns.
Alive == ctx = "alive" /\ pc # "returned"

\* NmtNodeAdder: Visit takes up the trees that a repair builds, Commit writes them to the
\* blockstore, which fails once the context is done.
Visit(cells) == batch' = batch \cup Sound(cells)
Commit ==
    /\ batch' = {}
    /\ \/ stored' = stored \cup UNION {{<<a[1], c>> : c \in CellsOf(a)} : a \in batch}
       \/ ctx = "done" /\ UNCHANGED stored

Init ==
    /\ offer \in Offers /\ bad \in Corrupt
    /\ asked = {} /\ locked = {} /\ square = {} /\ misplaced = {} /\ count = 0 /\ sig = FALSE /\ dn = FALSE
    /\ batch = {} /\ stored = {} /\ ctx = "alive" /\ pc = "select" /\ byz = {} /\ result = "none"

\* request: the first quadrant at once, another one at every tick.
request(q) ==
    /\ Alive /\ q \notin asked /\ Cardinality(asked) < MaxAsked
    /\ asked' = asked \cup {q}
    /\ UNCHANGED <<offer, bad, locked, square, misplaced, count, sig, dn, batch, stored, ctx, pc, byz, result>>

signal == sig' = (sig \/ count' >= Half * Half)

\* A share arrives, with the nodes above it. The first to lock the cell writes it, unless
\* the square is reconstructed by now or a repair that failed later on has set the cell.
doRequest(q, i, j) ==
    LET c == pos(q, i, j) IN
    /\ Alive /\ q \in asked /\ Link(q, i, j) \in offer
    /\ <<q.source, Link(q, i, j)>> \notin stored
    /\ stored' = stored \cup {<<q.source, Link(q, i, j)>>}
    /\ locked' = locked \cup {c}
    /\ IF c \in locked \cup square \/ dn THEN UNCHANGED <<square, misplaced, count, sig>>
       ELSE /\ square' = square \cup {c} /\ count' = count + 1 /\ signal
            /\ misplaced' = IF c = Link(q, i, j) THEN misplaced ELSE misplaced \cup {c}
    /\ UNCHANGED <<offer, bad, asked, dn, batch, ctx, pc, byz, result>>

\* The main loop takes the signal.
wake ==
    /\ pc = "select" /\ sig
    /\ sig' = FALSE /\ pc' = "reconstruct"
    /\ UNCHANGED <<offer, bad, asked, locked, square, misplaced, count, dn, batch, stored, ctx, byz, result>>

\* Reconstruct, with the lock held: the adder visits the tree of every axis that is
\* rebuilt, and cells that were rebuilt stay set when the repair fails.
Reconstruct ==
    LET cells == Closure(square) IN
    /\ pc = "reconstruct"
    /\ Visit(cells) /\ square' = cells
    /\ \/ \E a \in Byzantine(square) : byz' = CellsOf(a) \cap cells /\ pc' = "close" /\ UNCHANGED <<dn, result>>
       \/ /\ Byzantine(square) = {} /\ cells = Cells
          /\ dn' = TRUE /\ pc' = "returned" /\ result' = "square" /\ UNCHANGED byz
       \/ Byzantine(square) = {} /\ cells # Cells /\ pc' = "again" /\ UNCHANGED <<dn, byz, result>>
    /\ UNCHANGED <<offer, bad, asked, locked, misplaced, count, sig, stored, ctx>>

\* Not enough shares yet: back to the select, while others write already.
again ==
    /\ pc = "again" /\ pc' = "select"
    /\ UNCHANGED <<offer, bad, asked, locked, square, misplaced, count, sig, dn, batch, stored, ctx, byz, result>>

closeSession ==
    /\ pc = "close" /\ pc' = "prove" /\ Commit
    /\ UNCHANGED <<offer, bad, asked, locked, square, misplaced, count, sig, dn, ctx, byz, result>>

\* A share of the axis is proved by its row, or else by its column.
GetShareWithProof(c) == <<"row", c>> \in stored \/ <<"col", c>> \in stored

\* Half of the shares of the axis, each with a proof, show that it is wrongly encoded.
NewErrByzantine ==
    /\ pc = "prove" /\ pc' = "returned"
    /\ result' = IF Cardinality({c \in byz : GetShareWithProof(c)}) >= Half THEN "byzantine" ELSE "unproved"
    /\ UNCHANGED <<offer, bad, asked, locked, square, misplaced, count, sig, dn, batch, stored, ctx, byz>>

\* The caller gives up: what the adder has is committed too.
cancel ==
    /\ Alive /\ ctx' = "done"
    /\ UNCHANGED <<offer, bad, asked, locked, square, misplaced, count, sig, dn, batch, stored, pc, byz, result>>

cancelled ==
    /\ pc = "select" /\ ctx = "done" /\ pc' = "returned" /\ result' = "cancelled" /\ Commit
    /\ UNCHANGED <<offer, bad, asked, locked, square, misplaced, count, sig, dn, ctx, byz>>

Next ==
    \/ \E q \in newQuadrants : request(q) \/ \E i, j \in 0..(Half - 1) : doRequest(q, i, j)
    \/ wake \/ Reconstruct \/ again \/ closeSession \/ NewErrByzantine \/ cancel \/ cancelled

-----------------------------------------------------------------------------

\* Every variable has its type.
TypeOK ==
    /\ square \subseteq Cells /\ locked \subseteq Cells /\ misplaced \subseteq square /\ count \in 0..Cardinality(Cells)
    /\ sig \in BOOLEAN /\ dn \in BOOLEAN /\ batch \subseteq Axes /\ stored \subseteq {"row", "col"} \X Cells
    /\ ctx \in {"alive", "done"} /\ result \in {"none", "square", "byzantine", "unproved", "cancelled"}
    /\ pc \in {"select", "reconstruct", "again", "close", "prove", "returned"} /\ byz \subseteq Cells

\* Signals are dropped when one is pending, shares arrive in any order and attempts to
\* repair fail in between; still, once what has arrived is enough to repair the square,
\* the main loop is going to try.
NoLostSignal == pc = "select" /\ ~sig => Closure(square) # Cells

\* A square is returned only if it is correctly encoded, and an error of bad encoding only
\* if it is not, with enough shares that can be proved by what the session has stored,
\* unless the caller gave up before it was stored.
VerdictRight ==
    /\ result = "square" => bad = {}
    /\ result = "byzantine" => bad # {}
    /\ result = "unproved" => ctx = "done"

=============================================================================
