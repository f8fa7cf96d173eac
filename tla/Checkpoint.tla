------------------------------- MODULE Checkpoint -------------------------------
(***************************************************************************)
(* Signed checkpoints over the audit log (audit/checkpoint): a Merkle tree *)
(* over the chained rows, its head, and the inclusion and consistency      *)
(* proofs that are made from the log and verified without it.              *)
(*                                                                         *)
(* The log is the sequence of its rows in the order the package sorts them *)
(* (timestamp, then id).  It grows at the end; a row with an early         *)
(* timestamp may still arrive; and it may be rewritten or lose a row,      *)
(* which is what checkpoints are there to show.  A hash is the term it is  *)
(* the hash of, so equal hashes mean equal contents.                       *)
(***************************************************************************)
EXTENDS Integers, Sequences, SequencesExt

CONSTANTS MaxRows,      \* bound: rows ever written
          MaxFaults     \* bound: late rows, rewrites and deletions

VARIABLES rows,      \* the log: [id, val, day], day 1 or 2 of its timestamp
          written,   \* rows ever written
          faults,    \* late rows, rewrites and deletions so far
          heads      \* the checkpoints taken, in order

checkpointVars == <<rows, written, faults, heads>>

-----------------------------------------------------------------------------
(* merkle.go.                                                              *)

LeafHash(row) == <<0, <<row.id, row.val>>>>
NodeHash(left, right) == <<1, left, right>>

(* The largest power of two strictly less than n, n >= 2.                  *)
splitPoint(n) == CHOOSE k \in {2^e : e \in 0..MaxRows} : k < n /\ 2 * k >= n

isPowerOfTwo(n) == \E e \in 0..MaxRows : n = 2^e

RECURSIVE MerkleRoot(_)
MerkleRoot(leaves) ==
    CASE Len(leaves) = 0 -> <<>>
      [] Len(leaves) = 1 -> leaves[1]
      [] OTHER -> LET k == splitPoint(Len(leaves))
                  IN  NodeHash(MerkleRoot(SubSeq(leaves, 1, k)),
                               MerkleRoot(SubSeq(leaves, k + 1, Len(leaves))))

(* The audit path of the leaf at index (from 0), leaf to root.             *)
RECURSIVE InclusionPath(_, _)
InclusionPath(leaves, index) ==
    IF Len(leaves) = 1 THEN <<>>
    ELSE LET k == splitPoint(Len(leaves))
             left == SubSeq(leaves, 1, k)
             right == SubSeq(leaves, k + 1, Len(leaves))
         IN  IF index < k THEN Append(InclusionPath(left, index), MerkleRoot(right))
                          ELSE Append(InclusionPath(right, index - k), MerkleRoot(left))

RECURSIVE subProof(_, _, _)
subProof(m, leaves, complete) ==
    IF m = Len(leaves) THEN IF complete THEN <<>> ELSE <<MerkleRoot(leaves)>>
    ELSE LET k == splitPoint(Len(leaves))
             left == SubSeq(leaves, 1, k)
             right == SubSeq(leaves, k + 1, Len(leaves))
         IN  IF m <= k THEN Append(subProof(m, left, complete), MerkleRoot(right))
                       ELSE Append(subProof(m - k, right, FALSE), MerkleRoot(left))

ConsistencyPath(leaves, oldSize) ==
    IF oldSize \in {0, Len(leaves)} THEN <<>> ELSE subProof(oldSize, leaves, TRUE)

RECURSIVE skipEvenLevels(_)
skipEvenLevels(c) ==
    IF c.fn % 2 = 0 /\ c.fn /= 0
    THEN skipEvenLevels([c EXCEPT !.fn = @ \div 2, !.sn = @ \div 2]) ELSE c

Up(c) == [c EXCEPT !.fn = @ \div 2, !.sn = @ \div 2]

(* Mutant of FromLeft: a node on the right edge is not recognized.         *)
FromLeftIfOdd(c) == c.fn % 2 = 1

FromLeft(c) == c.fn % 2 = 1 \/ c.fn = c.sn

(* One step of the fold over a path: c.old and c.new are the roots rebuilt *)
(* so far; an inclusion proof rebuilds only the second.                    *)
FoldStep(c, p) ==
    IF ~c.ok \/ c.sn = 0 THEN [c EXCEPT !.ok = FALSE]
    ELSE IF FromLeft(c)
         THEN Up(skipEvenLevels([c EXCEPT !.old = NodeHash(p, @), !.new = NodeHash(p, @)]))
         ELSE Up([c EXCEPT !.new = NodeHash(@, p)])

VerifyInclusionPath(leaf, index, size, path, root) ==
    /\ index \in 0..size - 1
    /\ LET c == FoldLeft(FoldStep, [fn |-> index, sn |-> size - 1, old |-> leaf, new |-> leaf, ok |-> TRUE], path)
       IN  c.ok /\ c.sn = 0 /\ c.new = root

RECURSIVE skipOddLevels(_)
skipOddLevels(c) == IF c.fn % 2 = 1 THEN skipOddLevels(Up(c)) ELSE c

RootsMatch(c, oldRoot, newRoot) == c.old = oldRoot /\ c.new = newRoot

VerifyConsistencyPath(oldSize, newSize, oldRoot, newRoot, path) ==
    CASE oldSize > newSize -> FALSE
      [] oldSize = newSize -> path = <<>> /\ oldRoot = newRoot
      [] oldSize = 0       -> path = <<>>
      [] OTHER ->
           LET nodes == IF isPowerOfTwo(oldSize) THEN <<oldRoot>> \o path ELSE path
           IN  /\ nodes /= <<>>
               /\ LET start == skipOddLevels([fn |-> oldSize - 1, sn |-> newSize - 1,
                                              old |-> nodes[1], new |-> nodes[1], ok |-> TRUE])
                      c == FoldLeft(FoldStep, start, Tail(nodes))
                  IN  c.ok /\ c.sn = 0 /\ RootsMatch(c, oldRoot, newRoot)

-----------------------------------------------------------------------------
(* checkpoint.go.                                                          *)

(* The rows a checkpoint covers; since and until cut at the day boundary.  *)
loadLeaves(since, until) ==
    LET Covered(r) == (since => r.day = 2) /\ (until => r.day = 1)
        kept == SelectSeq(rows, Covered)
    IN  [i \in DOMAIN kept |-> LeafHash(kept[i])]

(* The first cp.size leaves, compared with the root by Matching.           *)
leavesOf(cp) ==
    LET ls == loadLeaves(cp.since, cp.until)
    IN  IF Len(ls) > cp.size THEN SubSeq(ls, 1, cp.size) ELSE ls

Matching(cp) == Len(leavesOf(cp)) = cp.size /\ MerkleRoot(leavesOf(cp)) = cp.root

(* When CreateConsistencyProof makes a proof, and the one it makes.        *)
CanProve(older, newer) ==
    /\ older.size <= newer.size /\ older.since = newer.since
    /\ Matching(newer)
    /\ MerkleRoot(SubSeq(leavesOf(newer), 1, older.size)) = older.root

ConsistencyProof(older, newer) == ConsistencyPath(leavesOf(newer), older.size)

VerifyConsistencyProof(path, older, newer) ==
    /\ older.since = newer.since
    /\ VerifyConsistencyPath(older.size, newer.size, older.root, newer.root, path)

-----------------------------------------------------------------------------
TypeOK ==
    /\ \A i \in DOMAIN rows : rows[i] \in [id : 1..MaxRows, val : 0..1, day : 1..2]
    /\ \A i, j \in DOMAIN rows : i < j => rows[i].day <= rows[j].day
    /\ written \in 0..MaxRows /\ faults \in 0..MaxFaults
    /\ Len(heads) <= 2
    /\ \A i \in DOMAIN heads : heads[i].size = Len(heads[i].covered)

Init == rows = <<>> /\ written = 0 /\ faults = 0 /\ heads = <<>>

LastDay == IF rows = <<>> THEN 1 ELSE Last(rows).day

AppendRow(day) ==
    /\ written < MaxRows /\ day >= LastDay
    /\ written' = written + 1
    /\ rows' = Append(rows, [id |-> written + 1, val |-> 0, day |-> day])
    /\ UNCHANGED <<faults, heads>>

(* CreateCheckpoint over the rows loaded now.                              *)
CreateCheckpoint(since, until) ==
    /\ Len(heads) < 2 /\ ~(since /\ until)
    /\ LET ls == loadLeaves(since, until)
       IN  heads' = Append(heads, [size |-> Len(ls), root |-> MerkleRoot(ls),
                                   since |-> since, until |-> until, covered |-> ls])
    /\ UNCHANGED <<rows, written, faults>>

(* A row with an earlier timestamp than the last lands among the others.   *)
LateRow(i) ==
    /\ written < MaxRows /\ faults < MaxFaults
    /\ written' = written + 1 /\ faults' = faults + 1
    /\ rows' = InsertAt(rows, i, [id |-> written + 1, val |-> 0, day |-> rows[i].day])
    /\ UNCHANGED heads

RewriteRow(i) ==
    /\ faults < MaxFaults /\ faults' = faults + 1
    /\ rows' = [rows EXCEPT ![i].val = 1 - @]
    /\ UNCHANGED <<written, heads>>

DeleteRow(i) ==
    /\ faults < MaxFaults /\ faults' = faults + 1
    /\ rows' = RemoveAt(rows, i)
    /\ UNCHANGED <<written, heads>>

Next ==
    \/ \E day \in 1..2 : AppendRow(day)
    \/ \E since, until \in BOOLEAN : CreateCheckpoint(since, until)
    \/ \E i \in DOMAIN rows : LateRow(i) \/ RewriteRow(i) \/ DeleteRow(i)

Spec == Init /\ [][Next]_checkpointVars

-----------------------------------------------------------------------------
(* An inclusion proof made from the log for a checkpoint it still matches  *)
(* verifies for the row at its place and for no other row or place.        *)
InclusionIsExact ==
    \A c \in DOMAIN heads : Matching(heads[c]) =>
        LET cp == heads[c]
            ls == leavesOf(cp)
        IN  \A i \in 0..cp.size - 1 :
              LET Verifies(j, k) ==
                      VerifyInclusionPath(ls[j+1], k, cp.size, InclusionPath(ls, i), cp.root)
              IN  \A j \in 0..cp.size - 1 :
                    /\ Verifies(j, j) <=> j = i
                    /\ Verifies(i, j) <=> j = i

(* A consistency proof that CreateConsistencyProof makes verifies, and     *)
(* whatever path the log gives rise to, it verifies only if the newer      *)
(* checkpoint's rows begin with the older one's, unchanged: a rewritten,   *)
(* deleted or late row never passes.                                       *)
ConsistencyIsExact ==
    Len(heads) = 2 =>
        LET older == heads[1]
            newer == heads[2]
        IN  /\ CanProve(older, newer)
                 => VerifyConsistencyProof(ConsistencyProof(older, newer), older, newer)
            /\ \A m \in 0..newer.size :
                 VerifyConsistencyProof(ConsistencyPath(newer.covered, m), older, newer)
                   => older.size = 0 \/ IsPrefix(older.covered, newer.covered)

(* While nothing but appending has happened, every checkpoint still        *)
(* matches the log, one cut by until included, and of two checkpoints with *)
(* the same lower bound the larger can be proved to extend the smaller.    *)
AppendOnlyProves ==
    faults = 0 =>
        /\ \A c \in DOMAIN heads : Matching(heads[c])
        /\ Len(heads) = 2 /\ heads[1].since = heads[2].since /\ heads[1].size <= heads[2].size
             => CanProve(heads[1], heads[2])
=============================================================================
