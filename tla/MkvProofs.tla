------------------------------ MODULE MkvProofs ------------------------------
(***************************************************************************)
(* The two ways to extract a Matroska file, for every file, every range of *)
(* time and every track filter, and any number of workers.                 *)
(*                                                                         *)
(* The streaming scanner processes blocks in file order and none of them   *)
(* twice (BlocksInFileOrder), whether it follows cue points or scans the   *)
(* Segment, starts at an estimate, meets headers it cannot read, or a read *)
(* fails.  That is an order between the past and what comes: OrderInv says *)
(* where every block processed so far came from, an element in front of    *)
(* the next one of the scan, or a cue point already followed.  In a fully  *)
(* cued file a cue point stands behind those already followed; when it     *)
(* points at the same Cluster without relative positions, the Cluster has  *)
(* been visited, and nothing is read twice.                                *)
(*                                                                         *)
(* What comes of those blocks is the content of the file (YieldsContent):  *)
(* ContentInv says that exactly the blocks of a stretch of elements, or    *)
(* those the cue points followed lead to, have been fed to the assemblers, *)
(* and that what waits and what has been returned is what an assembler     *)
(* fed with them from its reset makes of them.  A stretch without a gap    *)
(* that reaches from the first cue point of the range to its last one      *)
(* yields what is content of the whole file (StretchOfContent).            *)
(*                                                                         *)
(* The parallel collect misses no worker that fails (FailureIsReported):   *)
(* the call returns only when all are done, "ok" only when none failed,    *)
(* and a single failure, a panic too, comes back as an error.  JoinInv     *)
(* adds why the result is final: before the workers are spawned there are  *)
(* none, and behind the join none of them runs, so that no step of a       *)
(* worker can follow.                                                      *)
(*                                                                         *)
(* It reads no block twice (WorkersReadApart): sorting puts the cue points *)
(* in the order of their Clusters, the partition cuts this order between   *)
(* two Clusters only, so that no Cluster has cue points in two shares      *)
(* (SharesApart), and a worker reads blocks of the Clusters in its share   *)
(* only (ReadInv).                                                         *)
(*                                                                         *)
(* And it returns the content of the file (CollectsContent): each worker   *)
(* has read, in the order of the file, what the cue points it has followed *)
(* lead to; every cue point is in the share of some worker; so that all of *)
(* the file is read, the shares one behind the other, and the stable sort  *)
(* by time leaves the blocks of a track in the order of the file.          *)
(***************************************************************************)
EXTENDS MkvStream, MkvParallel, SequenceLemmas, FiniteSetTheorems, TLAPS
LOCAL INSTANCE FiniteSetsExt

(* The order of BlocksInFileOrder on ids, and the one inside a Cluster.     *)
Ahead == {y \in (Nat \X Nat) \X (Nat \X Nat) :
            \/ y[1][1] < y[2][1]
            \/ y[1][1] = y[2][1] /\ y[1][2] < y[2][2]}
Later == {y \in Block \X Block : y[1].id[2] < y[2].id[2]}

(* The order of cue points in a fully cued file.                            *)
Before == {y \in Cue \X Cue :
             /\ \/ y[1].cluster < y[2].cluster
                \/ /\ y[1].cluster = y[2].cluster
                   /\ \A m \in y[1].rel, n \in y[2].rel : m < n
             /\ y[1].rel = {} <=> y[2].rel = {}}

(* A block that cue point c may have led to.                                *)
ReachedBy(id, c) == id[1] = c.cluster /\ (c.rel = {} \/ id[2] \in c.rel)

(* Where the blocks processed so far came from.                             *)
Scanned == \A k \in DOMAIN pushed : pushed[k][1] < index

Followed ==
  /\ \A k \in DOMAIN pushed :
       \E i \in 1 .. index - 1 : i \in DOMAIN cues /\ ReachedBy(pushed[k], cues[i])
  /\ \A i \in 1 .. index - 1 :
       i \in DOMAIN cues /\ cues[i].rel = {} => cues[i].cluster \in visited

CuesInv ==
  /\ cues \in Seq(Cue) /\ cues # << >>
  /\ \A i \in DOMAIN cues : cues[i].cluster \in DOMAIN file.elements
  /\ cued => Chain(cues, Before) /\ Followed

OrderInv ==
  /\ IsFile(file) /\ (cued => FullyCued(file, active))
  /\ index \in Nat \ {0}
  /\ pushed \in Seq(Nat \X Nat)
  /\ cued \/ cues = << >> => Chain(pushed, Ahead)
  /\ source = "uninit" => cues = << >> /\ pushed = << >> /\ index = 1
  /\ source = "scan" => cues = << >> /\ Scanned
  /\ source = "cues" => CuesInv
-----------------------------------------------------------------------------
(* The blocks of element e, and the ids of blocks.                          *)
From(e) == {b \in Block : b.id[1] = e}
IdsOf(blocks) == [k \in DOMAIN blocks |-> blocks[k].id]

LEMMA InOrder ==
  ASSUME NEW x \in Nat \X Nat, NEW y \in Nat \X Nat,
         x[1] < y[1] \/ (x[1] = y[1] /\ x[2] < y[2])
  PROVE  << x, y >> \in Ahead
BY DEF Ahead

(* Blocks of one element in their order there have ids in their order.      *)
LEMMA IdsInOrder ==
  ASSUME NEW e, NEW blocks \in Seq(From(e)), Chain(blocks, Later)
  PROVE  /\ IdsOf(blocks) \in Seq(Nat \X Nat)
         /\ DOMAIN IdsOf(blocks) = DOMAIN blocks
         /\ \A k \in DOMAIN blocks : IdsOf(blocks)[k] = blocks[k].id /\ blocks[k].id[1] = e
         /\ Chain(IdsOf(blocks), Ahead)
<1> DEFINE n == Len(blocks)
           ids == IdsOf(blocks)
<1>1. n \in Nat /\ DOMAIN blocks = 1 .. n
  OBVIOUS
<1>2. \A k \in 1 .. n : blocks[k] \in Block /\ blocks[k].id \in Nat \X Nat /\ blocks[k].id[1] = e
  <2>1. \A k \in 1 .. n : blocks[k] \in From(e)
    BY ElementOfSeq
  <2> QED
    BY <2>1 DEF From, Block
<1> HIDE DEF n
<1>3. ids = [k \in 1 .. n |-> blocks[k].id]
  BY <1>1 DEF IdsOf
<1> HIDE DEF ids
<1>4. ids \in Seq(Nat \X Nat) /\ DOMAIN ids = 1 .. n
  BY <1>1, <1>2, <1>3
<1>5. ASSUME NEW j \in 1 .. n, NEW k \in 1 .. n, j < k
      PROVE  << ids[j], ids[k] >> \in Ahead
  <2>1. << blocks[j], blocks[k] >> \in Later
    BY <1>1, <1>5 DEF Chain
  <2>2. blocks[j].id[2] < blocks[k].id[2]
    BY <2>1 DEF Later
  <2>3. ids[j] = blocks[j].id /\ ids[k] = blocks[k].id
    BY <1>3
  <2> QED
    BY <1>2, <2>2, <2>3 DEF Ahead
<1>6. Chain(ids, Ahead)
  BY <1>4, <1>5 DEF Chain
<1> QED
  BY <1>1, <1>2, <1>3, <1>4, <1>6 DEF ids

(* The blocks of an element of a file.                                      *)
LEMMA ElementBlocks ==
  ASSUME NEW f, IsFile(f), NEW e \in DOMAIN f.elements
  PROVE  /\ f.elements[e].blocks \in Seq(From(e))
         /\ Chain(f.elements[e].blocks, Later)
         /\ \A n \in DOMAIN f.elements[e].blocks :
              f.elements[e].blocks[n] \in Block /\ f.elements[e].blocks[n].id = << e, n >>
<1> DEFINE blocks == f.elements[e].blocks
<1>1. f.elements[e] \in Element
  BY ElementOfSeq DEF IsFile
<1>2. blocks \in Seq(Block)
  BY <1>1 DEF Element
<1>3. \A n \in 1 .. Len(blocks) : blocks[n] \in Block /\ blocks[n].id = << e, n >>
  BY <1>2, ElementOfSeq DEF IsFile
<1> HIDE DEF blocks
<1>4. \A n \in 1 .. Len(blocks) : blocks[n] \in From(e)
  BY <1>3 DEF From
<1>5. blocks \in Seq(From(e)) /\ DOMAIN blocks = 1 .. Len(blocks)
  BY <1>2, <1>4
<1>6. ASSUME NEW j \in 1 .. Len(blocks), NEW k \in 1 .. Len(blocks), j < k
      PROVE  << blocks[j], blocks[k] >> \in Later
  BY <1>3, <1>6 DEF Later
<1>7. Chain(blocks, Later)
  BY <1>5, <1>6 DEF Chain
<1> QED
  BY <1>3, <1>5, <1>7 DEF blocks

(* What a pass over a Cluster keeps, in its order there.                    *)
LEMMA ScanYields ==
  ASSUME NEW f, IsFile(f), NEW e \in DOMAIN f.elements, NEW a
  PROVE  /\ ScanCluster(f.elements[e], a) \in Seq(From(e))
         /\ Chain(ScanCluster(f.elements[e], a), Later)
<1> DEFINE blocks == f.elements[e].blocks
           S == {b \in Members(blocks) : b.trk \in a}
<1>1. blocks \in Seq(From(e)) /\ Chain(blocks, Later)
  BY ElementBlocks
<1>2. ScanCluster(f.elements[e], a) = Only(blocks, S)
  BY DEF ScanCluster
<1> HIDE DEF blocks, S
<1> QED
  BY <1>1, <1>2, OnlyTyped, OnlyChain

(* The time of the cue replaces that of the block.                          *)
LEMMA Retimed ==
  ASSUME NEW b \in Block, NEW t \in Nat
  PROVE  [b EXCEPT !.time = t] \in Block /\ [b EXCEPT !.time = t].id = b.id
<1> DEFINE I == Nat \X Nat
           S == Seq(Segment)
<1>1. b \in [id: I, trk: Nat, time: Int, segs: S, ok: BOOLEAN, sup: BOOLEAN]
  BY DEF Block
<1> HIDE DEF I, S
<1>2. t \in Int
  OBVIOUS
<1>3. [b EXCEPT !.time = t] \in
        [id: I, trk: Nat, time: Int, segs: S, ok: BOOLEAN, sup: BOOLEAN]
  BY <1>1, <1>2
<1>4. [b EXCEPT !.time = t].id = b.id
  BY <1>1
<1> QED
  BY <1>3, <1>4 DEF Block, I, S

(* All blocks are at place n of their element.                              *)
Placed(blocks, n) == \A k \in DOMAIN blocks : blocks[k].id[2] = n

(* What a relative position leads to: that block of the Cluster, or none.   *)
LEMMA BlockYields ==
  ASSUME NEW f, IsFile(f), NEW e \in DOMAIN f.elements, NEW n, NEW t \in Nat, NEW a
  PROVE  /\ ReadBlockAt(f.elements[e], n, t, a) \in Seq(From(e))
         /\ Chain(ReadBlockAt(f.elements[e], n, t, a), Later)
         /\ Placed(ReadBlockAt(f.elements[e], n, t, a), n)
<1> DEFINE blocks == f.elements[e].blocks
           read == ReadBlockAt(f.elements[e], n, t, a)
           b == [blocks[n] EXCEPT !.time = t]
<1>1. \A m \in DOMAIN blocks : blocks[m] \in Block /\ blocks[m].id = << e, m >>
  BY ElementBlocks
<1>2. read = << >> \/ (n \in DOMAIN blocks /\ read = << b >>)
  BY DEF ReadBlockAt
<1>3. n \in DOMAIN blocks => b \in Block /\ b.id = << e, n >>
  BY <1>1, Retimed
<1> HIDE DEF b, blocks, read
<1>4. CASE read = << >>
  BY <1>4 DEF Chain, Placed, read
<1>5. CASE n \in DOMAIN blocks /\ read = << b >>
  <2>1. b \in From(e) /\ b.id[2] = n
    BY <1>3, <1>5 DEF From
  <2>2. read \in Seq(From(e)) /\ DOMAIN read = {1} /\ read[1] = b
    BY <1>5, <2>1
  <2>3. Chain(read, Later)
    BY <2>2 DEF Chain
  <2> QED
    BY <2>1, <2>2, <2>3 DEF read, Placed
<1> QED
  BY <1>2, <1>4, <1>5

(* What a cue point leads to: the block at its relative position, or the    *)
(* Cluster the first time.                                                  *)
Leads(blocks, seen, c, v) ==
  /\ blocks \in Seq(From(c.cluster)) /\ Chain(blocks, Later)
  /\ c.rel # {} => \A k \in DOMAIN blocks : blocks[k].id[2] \in c.rel
  /\ c.rel = {} /\ c.cluster \in v => blocks = << >>
  /\ v \subseteq seen
  /\ c.rel = {} => c.cluster \in seen

LEMMA CueYields ==
  ASSUME NEW f, IsFile(f), NEW c \in Cue, c.cluster \in DOMAIN f.elements, NEW a, NEW v
  PROVE  Leads(CueBlocks(f.elements, c, a, v).blocks,
               CueBlocks(f.elements, c, a, v).visited, c, v)
<1> DEFINE e == c.cluster
           element == f.elements[e]
           n == CHOOSE n \in c.rel : TRUE
           one == ReadBlockAt(element, n, c.time, a)
           all == ScanCluster(element, a)
           read == CueBlocks(f.elements, c, a, v)
<1>1. c.time \in Nat
  BY DEF Cue
<1>2. one \in Seq(From(e)) /\ Chain(one, Later) /\ Placed(one, n)
  <2> HIDE DEF n
  <2> QED
    BY <1>1, BlockYields
<1>3. all \in Seq(From(e)) /\ Chain(all, Later)
  BY ScanYields
<1>4. c.rel # {} => read.blocks \in {one, << >>} /\ read.visited = v
  BY DEF CueBlocks
<1>5. c.rel = {} => /\ read.blocks \in {all, << >>}
                    /\ e \in v => read.blocks = << >>
                    /\ read.visited = v \cup {e}
  BY DEF CueBlocks
<1>6. << >> \in Seq(From(e)) /\ Chain(<< >>, Later) /\ DOMAIN << >> = {}
  BY DEF Chain
<1>7. c.rel # {} => n \in c.rel
  OBVIOUS
<1> HIDE DEF one, all, read, n
<1> QED
  BY <1>2, <1>3, <1>4, <1>5, <1>6, <1>7 DEF read, Leads, Placed
-----------------------------------------------------------------------------
(* q is p and the ids of more blocks, which are of element e.               *)
Extension(p, q, blocks, e) ==
  /\ q \in Seq(Nat \X Nat)
  /\ \A k \in DOMAIN q :
       \/ \E j \in DOMAIN p : q[k] = p[j]
       \/ \E m \in DOMAIN blocks : q[k] = blocks[m].id /\ blocks[m].id[1] = e
  /\ /\ Chain(p, Ahead)
     /\ \A j \in DOMAIN p, m \in DOMAIN blocks : << p[j], blocks[m].id >> \in Ahead
     => Chain(q, Ahead)

(* Processing more blocks of one element.                                   *)
LEMMA Extended ==
  ASSUME NEW p \in Seq(Nat \X Nat), NEW e,
         NEW blocks \in Seq(From(e)), Chain(blocks, Later)
  PROVE  Extension(p, p \o IdsOf(blocks), blocks, e)
<1> DEFINE ids == IdsOf(blocks)
           q == p \o ids
<1>1. /\ ids \in Seq(Nat \X Nat) /\ DOMAIN ids = DOMAIN blocks
      /\ \A k \in DOMAIN blocks : ids[k] = blocks[k].id /\ blocks[k].id[1] = e
      /\ Chain(ids, Ahead)
  BY IdsInOrder
<1> HIDE DEF ids
<1>2. /\ q \in Seq(Nat \X Nat)
      /\ DOMAIN p = 1 .. Len(p) /\ DOMAIN ids = 1 .. Len(ids)
      /\ DOMAIN q = 1 .. Len(p) + Len(ids)
      /\ \A k \in 1 .. Len(p) : q[k] = p[k]
      /\ \A k \in Len(p) + 1 .. Len(p) + Len(ids) :
           q[k] = ids[k - Len(p)] /\ k - Len(p) \in 1 .. Len(ids)
  BY <1>1, ConcatProperties
<1>3. ASSUME Chain(p, Ahead),
             \A j \in DOMAIN p, m \in DOMAIN blocks : << p[j], blocks[m].id >> \in Ahead
      PROVE  Chain(q, Ahead)
  <2>1. \A j \in DOMAIN p, m \in DOMAIN ids : << p[j], ids[m] >> \in Ahead
    BY <1>1, <1>3
  <2> QED
    BY <1>1, <1>3, <2>1, ChainConcat
<1> HIDE DEF q
<1>4. ASSUME NEW k \in DOMAIN q
      PROVE  \/ \E j \in DOMAIN p : q[k] = p[j]
             \/ \E m \in DOMAIN blocks : q[k] = blocks[m].id /\ blocks[m].id[1] = e
  <2>1. CASE k \in 1 .. Len(p)
    BY <1>2, <2>1
  <2>2. CASE k \in Len(p) + 1 .. Len(p) + Len(ids)
    <3>1. q[k] = ids[k - Len(p)] /\ k - Len(p) \in DOMAIN blocks
      BY <1>1, <1>2, <2>2
    <3> QED
      BY <1>1, <3>1
  <2> QED
    BY <1>2, <2>1, <2>2
<1> QED
  BY <1>2, <1>3, <1>4 DEF q, ids, Extension

(* What does not change while blocks are read.                              *)
(* The places p are in order, and each is one that a cue point in front of  *)
(* the i-th leads to; the Clusters of those without relative position have  *)
(* been seen.                                                               *)
Follow(p, cs, i, v) ==
  /\ p \in Seq(Nat \X Nat) /\ Chain(p, Ahead)
  /\ \A k \in DOMAIN p : \E j \in 1 .. i - 1 : j \in DOMAIN cs /\ ReachedBy(p[k], cs[j])
  /\ \A j \in 1 .. i - 1 : j \in DOMAIN cs /\ cs[j].rel = {} => cs[j].cluster \in v

(* Cue points in order lead to blocks in order.                             *)
LEMMA FollowOn ==
  ASSUME NEW cs \in Seq(Cue), Chain(cs, Before), NEW i \in DOMAIN cs,
         NEW p, NEW v, Follow(p, cs, i, v),
         NEW blocks, NEW seen, Leads(blocks, seen, cs[i], v)
  PROVE  Follow(p \o IdsOf(blocks), cs, i + 1, seen)
<1> DEFINE c == cs[i]
           q == p \o IdsOf(blocks)
<1>1. i \in Nat \ {0} /\ p \in Seq(Nat \X Nat) /\ c \in Cue
  BY ElementOfSeq DEF Follow
<1>2. blocks \in Seq(From(c.cluster)) /\ Chain(blocks, Later)
  BY DEF Leads
<1>3. /\ q \in Seq(Nat \X Nat)
      /\ \A k \in DOMAIN q :
           \/ \E j \in DOMAIN p : q[k] = p[j]
           \/ \E m \in DOMAIN blocks : q[k] = blocks[m].id /\ blocks[m].id[1] = c.cluster
      /\ /\ Chain(p, Ahead)
         /\ \A j \in DOMAIN p, m \in DOMAIN blocks : << p[j], blocks[m].id >> \in Ahead
         => Chain(q, Ahead)
  <2> DEFINE e == c.cluster
  <2>1. blocks \in Seq(From(e))
    BY <1>2
  <2> HIDE DEF e
  <2>2. Extension(p, q, blocks, e)
    BY <1>1, <1>2, <2>1, Extended
  <2> QED
    BY <2>2 DEF e, Extension
<1>4. ASSUME NEW m \in DOMAIN blocks
      PROVE  /\ blocks[m].id \in Nat \X Nat /\ ReachedBy(blocks[m].id, c)
             /\ c.rel = {} => c.cluster \notin v
  <2>1. blocks[m] \in From(c.cluster)
    BY <1>2, ElementOfSeq
  <2>2. c.rel = {} /\ c.cluster \in v => FALSE
    BY <1>4 DEF Leads
  <2> QED
    BY <2>1, <2>2 DEF Leads, From, Block, ReachedBy
<1>5. ASSUME NEW j \in DOMAIN p, NEW m \in DOMAIN blocks
      PROVE  << p[j], blocks[m].id >> \in Ahead
  <2>1. PICK l \in 1 .. i - 1 : l \in DOMAIN cs /\ ReachedBy(p[j], cs[l])
    BY DEF Follow
  <2> DEFINE b == cs[l]
             x == p[j]
             y == blocks[m].id
  <2>2. << b, c >> \in Before
    <3>1. l < i
      BY <1>1
    <3> QED
      BY <2>1, <3>1 DEF Chain
  <2>3. b.rel = {} => b.cluster \in v
    BY <2>1 DEF Follow
  <2>4. x \in Nat \X Nat /\ y \in Nat \X Nat
    BY <1>1, <1>4, ElementOfSeq
  <2>5. ReachedBy(x, b) /\ ReachedBy(y, c) /\ (c.rel = {} => c.cluster \notin v)
    BY <1>4, <2>1
  <2> HIDE DEF b, c, x, y
  <2>6. ASSUME b.cluster < c.cluster
        PROVE  << x, y >> \in Ahead
    BY <2>4, <2>5, <2>6, InOrder DEF ReachedBy
  <2>7. ASSUME b.cluster = c.cluster
        PROVE  << x, y >> \in Ahead
    <3>1. b.rel # {} /\ c.rel # {}
      BY <2>2, <2>3, <2>5, <2>7 DEF Before
    <3>2. x[1] = y[1] /\ x[2] \in b.rel /\ y[2] \in c.rel
      BY <2>5, <2>7, <3>1 DEF ReachedBy
    <3>3. b.cluster \in Nat /\ c.cluster \in Nat
      BY <2>2 DEF Before, Cue
    <3>4. x[2] < y[2]
      BY <2>2, <2>7, <3>2, <3>3 DEF Before
    <3> QED
      BY <2>4, <3>2, <3>4, InOrder
  <2>8. b.cluster < c.cluster \/ b.cluster = c.cluster
    BY <2>2 DEF Before
  <2> QED
    BY <2>6, <2>7, <2>8 DEF x, y
<1>6. Chain(q, Ahead)
  BY <1>3, <1>5 DEF Follow
<1>7. ASSUME NEW k \in DOMAIN q
      PROVE  \E j \in 1 .. i : j \in DOMAIN cs /\ ReachedBy(q[k], cs[j])
  <2>1. CASE \E j \in DOMAIN p : q[k] = p[j]
    <3>1. PICK j \in DOMAIN p : q[k] = p[j]
      BY <2>1
    <3>2. PICK l \in 1 .. i - 1 : l \in DOMAIN cs /\ ReachedBy(p[j], cs[l])
      BY DEF Follow
    <3>3. l \in 1 .. i
      BY <1>1
    <3> QED
      BY <3>1, <3>2, <3>3
  <2>2. CASE \E m \in DOMAIN blocks : q[k] = blocks[m].id
    <3>1. i \in 1 .. i
      BY <1>1
    <3> QED
      BY <1>4, <2>2, <3>1
  <2> QED
    BY <1>3, <2>1, <2>2
<1>8. ASSUME NEW j \in 1 .. i, j \in DOMAIN cs, cs[j].rel = {}
      PROVE  cs[j].cluster \in seen
  <2>1. CASE j = i
    BY <1>8, <2>1 DEF Leads
  <2>2. CASE j \in 1 .. i - 1
    BY <1>8, <2>2 DEF Follow, Leads
  <2> QED
    BY <1>1, <2>1, <2>2
<1>9. (i + 1) - 1 = i
  BY <1>1
<1> HIDE DEF q
<1>10. Follow(q, cs, i + 1, seen)
  BY <1>3, <1>6, <1>7, <1>8, <1>9 DEF Follow
<1> QED
  BY <1>10 DEF q

Same == UNCHANGED << file, active, cued, source, cues >>

(* Following a cue point keeps the order, whatever part of what it leads to *)
(* is processed.                                                            *)
LEMMA CueAdds ==
  ASSUME OrderInv, source = "cues", index <= Len(cues),
         NEW blocks, Leads(blocks, visited', cues[index], visited),
         pushed' = pushed \o IdsOf(blocks), index' = index + 1, Same
  PROVE  OrderInv'
<1> DEFINE c == cues[index]
<1>1. /\ cues \in Seq(Cue) /\ index \in DOMAIN cues /\ index \in Nat \ {0}
      /\ pushed \in Seq(Nat \X Nat)
  BY DEF OrderInv, CuesInv
<1>2. pushed' \in Seq(Nat \X Nat)
  <2> DEFINE e == c.cluster
             q == pushed'
  <2>1. blocks \in Seq(From(e)) /\ Chain(blocks, Later) /\ q = pushed \o IdsOf(blocks)
    BY DEF Leads
  <2> HIDE DEF e, q
  <2>2. Extension(pushed, q, blocks, e)
    BY <1>1, <2>1, Extended
  <2> QED
    BY <2>2 DEF q, Extension
<1>3. /\ source' = source /\ cues' = cues /\ file' = file /\ cued' = cued /\ active' = active
      /\ cues # << >>
  BY DEF Same, OrderInv, CuesInv
<1>4. ASSUME cued
      PROVE  Chain(pushed', Ahead) /\ Followed'
  <2>1. Chain(cues, Before) /\ Follow(pushed, cues, index, visited)
    BY <1>1, <1>4 DEF OrderInv, CuesInv, Followed, Follow
  <2>2. Follow(pushed', cues, index', visited')
    BY <1>1, <2>1, FollowOn
  <2> QED
    BY <1>3, <2>2 DEF Follow, Followed
<1>5. CuesInv'
  BY <1>3, <1>4 DEF OrderInv, CuesInv
<1>6. IsFile(file)' /\ (cued => FullyCued(file, active))' /\ index' \in Nat \ {0}
  BY <1>1, <1>3 DEF OrderInv
<1> QED
  BY <1>2, <1>3, <1>4, <1>5, <1>6 DEF OrderInv

(* So does scanning an element.                                             *)
LEMMA ScanAdds ==
  ASSUME OrderInv, source = "scan", index \in DOMAIN file.elements,
         NEW blocks \in Seq(From(index)), Chain(blocks, Later),
         pushed' = pushed \o IdsOf(blocks), index' = index + 1, Same
  PROVE  OrderInv'
<1> DEFINE q == pushed'
<1>1. pushed \in Seq(Nat \X Nat) /\ index \in Nat \ {0} /\ cues = << >> /\ Scanned
  BY DEF OrderInv
<1>2. Extension(pushed, q, blocks, index)
  BY <1>1, Extended
<1>3. ASSUME NEW m \in DOMAIN blocks
      PROVE  blocks[m].id \in Nat \X Nat /\ blocks[m].id[1] = index
  <2>1. blocks[m] \in From(index)
    BY <1>3, ElementOfSeq
  <2> QED
    BY <2>1 DEF From, Block
<1>4. \A j \in DOMAIN pushed : pushed[j] \in Nat \X Nat /\ pushed[j][1] < index
  BY <1>1, ElementOfSeq DEF Scanned
<1>5. ASSUME NEW j \in DOMAIN pushed, NEW m \in DOMAIN blocks
      PROVE  << pushed[j], blocks[m].id >> \in Ahead
  <2> DEFINE x == pushed[j]
             y == blocks[m].id
  <2>1. x \in Nat \X Nat /\ y \in Nat \X Nat /\ x[1] < y[1]
    BY <1>3, <1>4
  <2> HIDE DEF x, y
  <2>2. << x, y >> \in Ahead
    BY <2>1, InOrder
  <2> QED
    BY <2>2 DEF x, y
<1>6. Chain(pushed, Ahead)
  BY <1>1 DEF OrderInv
<1>7. q \in Seq(Nat \X Nat) /\ Chain(q, Ahead)
  BY <1>2, <1>5, <1>6 DEF Extension
<1>8. ASSUME NEW k \in DOMAIN q
      PROVE  q[k][1] < index + 1
  <2>1. CASE \E j \in DOMAIN pushed : q[k] = pushed[j]
    BY <1>1, <1>4, <2>1
  <2>2. CASE \E m \in DOMAIN blocks : q[k] = blocks[m].id
    BY <1>1, <1>3, <2>2
  <2> QED
    BY <1>2, <2>1, <2>2 DEF Extension
<1>9. /\ source' = source /\ cues' = cues /\ file' = file /\ cued' = cued /\ active' = active
      /\ index' \in Nat \ {0}
  BY <1>1 DEF Same
<1>10. Scanned'
  BY <1>8 DEF Scanned
<1> QED
  BY <1>1, <1>7, <1>9, <1>10 DEF OrderInv

(* The cue points of a fully cued file are in order.                        *)
LEMMA CuesInOrder ==
  ASSUME NEW f, IsFile(f), NEW K, FullyCued(f, K)
  PROVE  Chain(f.cues, Before)
<1> DEFINE s == f.cues
<1>1. SUFFICES ASSUME NEW j \in DOMAIN s, NEW k \in DOMAIN s, j < k
               PROVE  << s[j], s[k] >> \in Before
  BY DEF Chain
<1>2. s[j] \in Cue /\ s[k] \in Cue
  BY ElementOfSeq DEF IsFile
<1>3. \/ s[j].cluster < s[k].cluster
      \/ s[j].cluster = s[k].cluster /\ \A m \in s[j].rel, n \in s[k].rel : m < n
  BY <1>1 DEF FullyCued
<1>4. s[j].rel = {} <=> s[k].rel = {}
  BY <1>1 DEF FullyCued
<1> QED
  BY <1>2, <1>3, <1>4 DEF Before

(* The cue points followed are cue points of the file, in their order.      *)
LEMMA FilteredInOrder ==
  ASSUME IsFile(file)
  PROVE  /\ FilteredCues \in Seq(Cue)
         /\ \A i \in DOMAIN FilteredCues :
              FilteredCues[i].cluster \in DOMAIN file.elements
         /\ FullyCued(file, active) => Chain(FilteredCues, Before)
<1> DEFINE s == file.cues
           S == {c \in Members(s) : c.trk \in active /\ CueInRange(c, range)}
           o == FilteredCues
<1>1. s \in Seq(Cue) /\ \A i \in DOMAIN s : s[i].cluster \in DOMAIN file.elements
  BY DEF IsFile
<1>2. o = Only(s, S)
  BY DEF FilteredCues
<1>3. FullyCued(file, active) => Chain(s, Before)
  BY CuesInOrder
<1> HIDE DEF s, S, o
<1>4. o \in Seq(Cue \cap S \cap Members(s))
  BY <1>1, <1>2, OnlyFrom
<1>5. o \in Seq(Cue)
  BY <1>1, <1>2, OnlyTyped
<1>6. \A i \in DOMAIN o : o[i] \in Members(s)
  BY <1>4, ElementOfSeq
<1>7. \A i \in DOMAIN o : o[i].cluster \in DOMAIN file.elements
  BY <1>1, <1>6 DEF Members
<1>8. FullyCued(file, active) => Chain(o, Before)
  BY <1>1, <1>2, <1>3, OnlyChain
<1> QED
  BY <1>5, <1>7, <1>8 DEF o
-----------------------------------------------------------------------------
LEMMA OrderInit == Init => OrderInv
<1> SUFFICES ASSUME Init PROVE OrderInv
  OBVIOUS
<1>1. IsFile(file) /\ (cued => FullyCued(file, active))
  BY FilesAssumption DEF Init, ChooseFile
<1>2. /\ source = "uninit" /\ cues = << >> /\ pushed = << >> /\ index = 1
  BY DEF Init
<1> QED
  BY <1>1, <1>2 DEF OrderInv, Chain

(* Nothing has been processed when the source is chosen.                    *)
LEMMA ChooseSource ==
  ASSUME OrderInv, InitSource \/ ScanFromEstimate
  PROVE  OrderInv'
<1>1. /\ source = "uninit" /\ cues = << >> /\ pushed = << >> /\ index = 1
      /\ UNCHANGED << file, active, cued, pushed >>
  BY DEF OrderInv, InitSource, ScanFromEstimate, Stop, config
<1>2. Chain(pushed', Ahead) /\ pushed' \in Seq(Nat \X Nat)
  BY <1>1 DEF Chain
<1>3. IsFile(file)' /\ (cued => FullyCued(file, active))'
  BY <1>1 DEF OrderInv
<1>4. CASE InitSource /\ source' = "cues"
  <2>1. cues' = FilteredCues /\ FilteredCues # << >> /\ index' = 1
    BY <1>1, <1>4 DEF InitSource, ByCues
  <2>2. /\ FilteredCues \in Seq(Cue)
        /\ \A i \in DOMAIN FilteredCues : FilteredCues[i].cluster \in DOMAIN file.elements
        /\ FullyCued(file, active) => Chain(FilteredCues, Before)
    BY FilteredInOrder DEF OrderInv
  <2>3. Followed'
    BY <1>1, <2>1 DEF Followed
  <2>4. CuesInv'
    BY <1>1, <1>3, <2>1, <2>2, <2>3 DEF CuesInv, OrderInv
  <2> QED
    BY <1>2, <1>3, <1>4, <2>1, <2>4 DEF OrderInv
<1>5. CASE source' \in {"scan", "done"} /\ cues' = << >>
  <2>1. index' \in Nat \ {0}
    BY <1>1 DEF InitSource, ScanFromEstimate, Stop
  <2>2. Scanned'
    BY <1>1 DEF Scanned
  <2> QED
    BY <1>2, <1>3, <1>5, <2>1, <2>2 DEF OrderInv
<1> QED
  BY <1>1, <1>4, <1>5 DEF InitSource, ScanFromEstimate, Stop

(* What is processed, wherever it stops.                                    *)
LEMMA ProcessedInOrder ==
  ASSUME OrderInv, FollowCue \/ ScanElement \/ HeaderUnreadable
  PROVE  OrderInv'
<1>1. IsFile(file) /\ index \in Nat \ {0}
  BY DEF OrderInv
<1>2. \A blocks : ProcessBlocks(blocks) => pushed' = pushed \o IdsOf(blocks)
  BY DEF ProcessBlocks, IdsOf
<1> DEFINE read == CueBlocks(file.elements, cues[index], active, visited)
<1>3. ASSUME source = "cues", index <= Len(cues)
      PROVE  Leads(read.blocks, read.visited, cues[index], visited)
  <2>1. cues[index] \in Cue /\ cues[index].cluster \in DOMAIN file.elements
    BY <1>1, <1>3, ElementOfSeq DEF OrderInv, CuesInv
  <2> QED
    BY <1>1, <2>1, CueYields
<1>4. ASSUME source = "scan", index <= Len(file.elements)
      PROVE  /\ index \in DOMAIN file.elements
             /\ ScanCluster(file.elements[index], active) \in Seq(From(index))
             /\ Chain(ScanCluster(file.elements[index], active), Later)
  <2>1. index \in DOMAIN file.elements
    BY <1>1, <1>4 DEF IsFile
  <2> QED
    BY <1>1, <2>1, ScanYields
<1>5. CASE FollowCue
  <2>1. /\ source = "cues" /\ index <= Len(cues) /\ index' = index + 1 /\ Same
        /\ visited' = read.visited /\ ProcessBlocks(read.blocks)
    BY <1>5 DEF FollowCue, Same, config
  <2> HIDE DEF read
  <2> QED
    BY <1>2, <1>3, <2>1, CueAdds
<1>6. CASE ScanElement
  <2>1. source = "scan" /\ index <= Len(file.elements) /\ index' = index + 1 /\ Same
    BY <1>6 DEF ScanElement, Same, config
  <2>2. CASE ProcessBlocks(ScanCluster(file.elements[index], active))
    BY <1>2, <1>4, <2>1, <2>2, ScanAdds
  <2>3. CASE pushed' = pushed
    <3>1. << >> \in Seq(From(index)) /\ Chain(<< >>, Later)
      BY DEF Chain
    <3>2. pushed' = pushed \o IdsOf(<< >>)
      BY <2>3, ConcatEmptySeq DEF OrderInv, IdsOf
    <3> QED
      BY <1>4, <2>1, <3>1, <3>2, ScanAdds
  <2> QED
    BY <1>6, <2>2, <2>3 DEF ScanElement
<1>7. CASE HeaderUnreadable
  <2>1. ASSUME NEW blocks, KeepBlocksBefore(blocks), NEW X, blocks \in Seq(X),
               Chain(blocks, Later)
        PROVE  \E some \in Seq(X) :
                 /\ Chain(some, Later)
                 /\ Len(some) <= Len(blocks) /\ \A k \in DOMAIN some : some[k] = blocks[k]
                 /\ pushed' = pushed \o IdsOf(some)
    <3>1. PICK n \in 0 .. Len(blocks) - 1 : ProcessBlocks(SubSeq(blocks, 1, n))
      BY <2>1 DEF KeepBlocksBefore
    <3> DEFINE some == SubSeq(blocks, 1, n)
    <3>2. n \in 0 .. Len(blocks)
      BY <2>1
    <3>3. /\ some \in Seq(X) /\ Len(some) = n /\ Chain(some, Later)
          /\ \A k \in 1 .. n : some[k] = blocks[k]
      BY <2>1, <3>2, Prefix, ChainPrefix
    <3>4. pushed' = pushed \o IdsOf(some)
      BY <1>2, <3>1
    <3> HIDE DEF some
    <3> QED
      BY <3>2, <3>3, <3>4
  <2>2. CASE source = "cues"
    <3> DEFINE blocks == read.blocks
               c == cues[index]
    <3>1. /\ index <= Len(cues) /\ index' = index + 1 /\ Same
          /\ visited' = read.visited /\ KeepBlocksBefore(blocks)
      BY <1>7, <2>2 DEF HeaderUnreadable, Same, config
    <3>2. Leads(blocks, visited', c, visited)
      BY <1>3, <2>2, <3>1
    <3> HIDE DEF read, blocks, c
    <3>3. blocks \in Seq(From(c.cluster)) /\ Chain(blocks, Later)
      BY <3>2 DEF Leads
    <3>4. PICK some \in Seq(From(c.cluster)) :
            /\ Chain(some, Later)
            /\ Len(some) <= Len(blocks) /\ \A k \in DOMAIN some : some[k] = blocks[k]
            /\ pushed' = pushed \o IdsOf(some)
      BY <2>1, <3>1, <3>3
    <3>5. Leads(some, visited', c, visited)
      <4>1. DOMAIN some \subseteq DOMAIN blocks
        BY <3>3, <3>4
      <4>2. c.rel # {} => \A k \in DOMAIN some : some[k].id[2] \in c.rel
        BY <3>2, <3>4, <4>1 DEF Leads
      <4>3. c.rel = {} /\ c.cluster \in visited => some = << >>
        BY <3>2, <3>4 DEF Leads
      <4> QED
        BY <3>2, <3>4, <4>2, <4>3 DEF Leads
    <3> QED
      BY <2>2, <3>1, <3>4, <3>5, CueAdds DEF c
  <2>3. CASE source = "scan" /\ source' = "scan"
    <3> DEFINE blocks == ScanCluster(file.elements[index], active)
    <3>1. /\ index <= Len(file.elements) /\ index' = index + 1 /\ Same
          /\ KeepBlocksBefore(blocks)
      BY <1>7, <2>3 DEF HeaderUnreadable, Same, config, Stop
    <3>2. blocks \in Seq(From(index)) /\ Chain(blocks, Later)
      BY <1>4, <2>3, <3>1
    <3> HIDE DEF blocks
    <3>3. PICK some \in Seq(From(index)) :
            Chain(some, Later) /\ pushed' = pushed \o IdsOf(some)
      BY <2>1, <3>1, <3>2
    <3> QED
      BY <1>4, <2>3, <3>1, <3>3, ScanAdds
  <2>4. CASE source' = "done"
    <3>1. UNCHANGED << file, active, cued, cues, index, pushed >>
      BY <1>7, <2>4 DEF HeaderUnreadable, Stop, config, OrderInv
    <3> QED
      BY <2>4, <3>1 DEF OrderInv
  <2> QED
    BY <1>7, <2>2, <2>3, <2>4 DEF HeaderUnreadable, Stop
<1> QED
  BY <1>5, <1>6, <1>7

LEMMA OrderStep == OrderInv /\ [Next]_vars => OrderInv'
<1> SUFFICES ASSUME OrderInv, [Next]_vars
             PROVE  OrderInv'
  OBVIOUS
<1>1. CASE InitWithoutClusters \/ SourceUsedUp \/ MeetCutOff \/ ReadFails
  <2>1. UNCHANGED << file, active, cued, cues, index, pushed >> /\ source' = "done"
    BY <1>1 DEF InitWithoutClusters, SourceUsedUp, MeetCutOff, ReadFails, Halt, Stop, config
  <2> QED
    BY <2>1 DEF OrderInv
<1>2. CASE PopPending \/ UNCHANGED vars
  <2>1. UNCHANGED << file, active, cued, source, cues, index, visited, pushed >>
    BY <1>2 DEF PopPending, vars, config
  <2> QED
    BY <2>1 DEF OrderInv, CuesInv, Scanned, Followed
<1> QED
  BY <1>1, <1>2, ChooseSource, ProcessedInOrder DEF Next

(* Blocks are processed in file order and none of them twice, for every     *)
(* file, range and track filter (stream.rs:292-420).                        *)
THEOREM ProcessesInFileOrder == Spec => []BlocksInFileOrder
<1>1. OrderInv => BlocksInFileOrder
  <2> SUFFICES ASSUME OrderInv, cued \/ cues = << >>,
                      NEW j \in DOMAIN pushed, NEW k \in DOMAIN pushed, j < k
               PROVE  \/ pushed[j][1] < pushed[k][1]
                      \/ pushed[j][1] = pushed[k][1] /\ pushed[j][2] < pushed[k][2]
    BY DEF BlocksInFileOrder
  <2>1. << pushed[j], pushed[k] >> \in Ahead
    BY DEF OrderInv, Chain
  <2> QED
    BY <2>1 DEF Ahead
<1> QED
  BY <1>1, OrderInit, OrderStep, PTL DEF Spec
-----------------------------------------------------------------------------
(* The blocks of the tracks of K, those among them that decode, and what    *)
(* the assembler of their track is fed with.                                *)
States == CompositionState \cup {None}
OfTracks(K) == {b \in Block : b.trk \in K}
Decoded == {b \in Block : b.ok}
ItemOf(K) == [b \in OfTracks(K) |-> [trk |-> b.trk, segments |-> SegmentsOf(b)]]
Own(K, t) == OfItem(ItemOf(K), t) \cap Decoded

LEMMA SegmentsLogged == IsLog(Segment, Nat, States) /\ IsFed(Segment, Nat, States)
<1>1. \A s \in Segment : s.pts \in Nat /\ s.comp \in States /\ s.type \in SegmentType
  BY DEF Segment, States
<1>2. None \in States /\ 0 \in Nat
  BY DEF States
<1> QED BY <1>1, <1>2 DEF IsLog, IsFed

LEMMA PtsTyped ==
  ASSUME NEW t \in Int
  PROVE  ToPts(t) \in Nat
<1>1. CASE t < 0
  BY <1>1 DEF ToPts
<1>2. CASE ~ (t < 0)
  <2> DEFINE p == t * TimestampScale
  <2>1. t \in Nat /\ TimestampScale \in Nat
    BY <1>2, ScaleAssumption
  <2>2. p \in Nat
    BY <2>1
  <2> HIDE DEF p
  <2>3. (p * 9) \div 100000 \in Nat
    BY <2>2
  <2>4. ToPts(t) = (p * 9) \div 100000
    BY <1>2 DEF ToPts, p
  <2> QED BY <2>3, <2>4
<1> QED BY <1>1, <1>2

LEMMA SegmentsTyped ==
  ASSUME NEW b \in Block
  PROVE  SegmentsOf(b) \in Seq(Segment)
<1> DEFINE o == SegmentsOf(b)
           n == Len(b.segs)
<1>1. b.segs \in Seq(Segment) /\ b.time \in Int
  BY DEF Block
<1>2. n \in Nat /\ DOMAIN b.segs = 1 .. n
  BY <1>1
<1>3. ToPts(b.time) \in Nat
  BY <1>1, PtsTyped
<1>4. ASSUME NEW k \in 1 .. n
      PROVE  [b.segs[k] EXCEPT !.pts = IF b.sup THEN @ ELSE ToPts(b.time)] \in Segment
  <2> DEFINE s == b.segs[k]
             p == IF b.sup THEN s.pts ELSE ToPts(b.time)
             C == CompositionState \cup {None}
  <2>1. s \in [type: SegmentType, pts: Nat, comp: C]
    BY <1>1, <1>2, <1>4, ElementOfSeq DEF Segment
  <2>2. p \in Nat
    BY <1>3, <2>1
  <2> HIDE DEF s, p, C
  <2>3. [s EXCEPT !.pts = p] \in [type: SegmentType, pts: Nat, comp: C]
    BY <2>1, <2>2
  <2> QED BY <2>3 DEF s, p, C, Segment
<1>5. o = [k \in 1 .. n |-> [b.segs[k] EXCEPT !.pts = IF b.sup THEN @ ELSE ToPts(b.time)]]
  BY <1>2 DEF SegmentsOf
<1> HIDE DEF n, o
<1>6. o \in [1 .. n -> Segment]
  BY <1>4, <1>5
<1> QED BY <1>2, <1>6 DEF o

LEMMA ItemsTyped ==
  ASSUME NEW K
  PROVE  /\ Itemizes(ItemOf(K), OfTracks(K), Segment, K)
         /\ DOMAIN ItemOf(K) = OfTracks(K)
         /\ \A t : Own(K, t) = {b \in OfTracks(K) : b.trk = t /\ b.ok}
<1>1. \A b \in OfTracks(K) : [trk |-> b.trk, segments |-> SegmentsOf(b)] \in TrackItems(Segment, K)
  BY SegmentsTyped DEF OfTracks, TrackItems
<1>2. DOMAIN ItemOf(K) = OfTracks(K) /\ \A b \in OfTracks(K) : ItemOf(K)[b].trk = b.trk
  BY DEF ItemOf
<1>3. ItemOf(K) \in [OfTracks(K) -> TrackItems(Segment, K)]
  BY <1>1 DEF ItemOf
<1>4. \A t : Own(K, t) = {b \in OfTracks(K) : b.trk = t /\ b.ok}
  BY <1>2 DEF Own, OfItem, Decoded, OfTracks
<1> QED BY <1>2, <1>3, <1>4 DEF Itemizes

(* Blocks are fed as their items are.                                       *)
LEMMA FedItems ==
  ASSUME NEW K, NEW blocks \in Seq(OfTracks(K)), NEW as
  PROVE  FeedBlocks(as, blocks) = FeedTracks(as, Image(Only(blocks, Decoded), ItemOf(K)))
<1> DEFINE D == {b \in Members(blocks) : b.ok}
           d == Only(blocks, Decoded)
<1>1. \A k \in DOMAIN blocks : blocks[k] \in Block
  BY ElementOfSeq DEF OfTracks
<1>2. \A k \in DOMAIN blocks : blocks[k] \in D <=> blocks[k] \in Decoded
  BY <1>1 DEF Decoded, Members
<1>3. Decodable(blocks) = d
  <2> HIDE DEF D
  <2>1. Only(blocks, D) = Only(blocks, Decoded)
    BY <1>2, OnlySame
  <2> QED BY <2>1 DEF Decodable, D
<1>4. d \in Seq(OfTracks(K))
  BY OnlyTyped
<1> HIDE DEF d
<1>5. \A k \in DOMAIN d : ItemOf(K)[d[k]] = [trk |-> d[k].trk, segments |-> SegmentsOf(d[k])]
  BY <1>4, ElementOfSeq DEF ItemOf
<1>6. ItemsOf(d) = Image(d, ItemOf(K))
  BY <1>5 DEF ItemsOf, Image
<1> QED BY <1>3, <1>6 DEF FeedBlocks, d
-----------------------------------------------------------------------------
(* The blocks of a file by their ids, and those of the tracks of K.         *)
At(f, id) == f.elements[id[1]].blocks[id[2]]
IsPlace(f, K, id) ==
  /\ id[1] \in DOMAIN f.elements /\ id[2] \in DOMAIN f.elements[id[1]].blocks
  /\ At(f, id).trk \in K
BlocksAt(f, p) == [k \in DOMAIN p |-> At(f, p[k])]
AllPlaces(f, K, p) == \A k \in DOMAIN p : IsPlace(f, K, p[k])

(* These blocks are those the file holds, as they are there.                *)
AreReal(f, K, blocks) ==
  \A k \in DOMAIN blocks : IsPlace(f, K, blocks[k].id) /\ At(f, blocks[k].id) = blocks[k]

LEMMA PlaceIs ==
  ASSUME NEW f, IsFile(f), NEW K, NEW id \in Nat \X Nat, IsPlace(f, K, id)
  PROVE  At(f, id) \in OfTracks(K) /\ At(f, id).id = id
<1>1. At(f, id) \in Block /\ At(f, id).id = << id[1], id[2] >>
  BY ElementBlocks DEF IsPlace, At
<1> QED BY <1>1 DEF IsPlace, OfTracks

LEMMA BlocksAtTyped ==
  ASSUME NEW f, IsFile(f), NEW K, NEW p \in Seq(Nat \X Nat), AllPlaces(f, K, p)
  PROVE  /\ BlocksAt(f, p) \in Seq(OfTracks(K)) /\ DOMAIN BlocksAt(f, p) = DOMAIN p
         /\ \A k \in DOMAIN p : BlocksAt(f, p)[k] = At(f, p[k]) /\ At(f, p[k]).id = p[k]
<1>1. \A k \in DOMAIN p : At(f, p[k]) \in OfTracks(K) /\ At(f, p[k]).id = p[k]
  BY ElementOfSeq, PlaceIs DEF AllPlaces
<1> DEFINE n == Len(p)
           q == BlocksAt(f, p)
<1>2. n \in Nat /\ DOMAIN p = 1 .. n
  OBVIOUS
<1> HIDE DEF n
<1>3. q = [k \in 1 .. n |-> At(f, p[k])]
  BY <1>2 DEF BlocksAt
<1> HIDE DEF q
<1>4. q \in [1 .. n -> OfTracks(K)]
  BY <1>1, <1>2, <1>3
<1>5. q \in Seq(OfTracks(K)) /\ DOMAIN q = DOMAIN p /\ \A k \in DOMAIN p : q[k] = At(f, p[k])
  BY <1>2, <1>3, <1>4
<1> QED BY <1>1, <1>5 DEF q

Continues(f, K, p, q, blocks) ==
  /\ AllPlaces(f, K, q)
  /\ BlocksAt(f, q) = BlocksAt(f, p) \o blocks

LEMMA RealContinues ==
  ASSUME NEW f, IsFile(f), NEW K, NEW p \in Seq(Nat \X Nat), AllPlaces(f, K, p),
         NEW blocks \in Seq(OfTracks(K)), AreReal(f, K, blocks)
  PROVE  Continues(f, K, p, p \o IdsOf(blocks), blocks)
<1> DEFINE ids == IdsOf(blocks)
           q == p \o ids
           m == Len(p)
           n == Len(blocks)
<1>1. /\ m \in Nat /\ n \in Nat /\ DOMAIN p = 1 .. m /\ DOMAIN blocks = 1 .. n
  OBVIOUS
<1>2. \A k \in 1 .. n : blocks[k].id \in Nat \X Nat
  <2>1. \A k \in 1 .. n : blocks[k] \in OfTracks(K)
    BY ElementOfSeq
  <2> QED BY <2>1 DEF OfTracks, Block
<1> HIDE DEF m, n
<1>3. ids \in Seq(Nat \X Nat) /\ Len(ids) = n /\ \A k \in 1 .. n : ids[k] = blocks[k].id
  <2>1. ids = [k \in 1 .. n |-> blocks[k].id]
    BY <1>1 DEF IdsOf
  <2> HIDE DEF ids
  <2>2. ids \in [1 .. n -> Nat \X Nat] /\ DOMAIN ids = 1 .. n
    BY <1>2, <2>1
  <2>3. ids \in Seq(Nat \X Nat)
    BY <1>1, <2>2
  <2>4. Len(ids) = n
    BY <1>1, <2>2, <2>3
  <2> QED BY <2>1, <2>3, <2>4
<1> HIDE DEF ids
<1>4. /\ q \in Seq(Nat \X Nat) /\ Len(q) = m + n
      /\ \A k \in 1 .. m : q[k] = p[k]
      /\ \A k \in m + 1 .. m + n : q[k] = ids[k - m]
  <2>1. q \in Seq(Nat \X Nat) /\ Len(q) = m + n
    <3> DEFINE S == Nat \X Nat
    <3>1. p \in Seq(S) /\ ids \in Seq(S)
      BY <1>3
    <3> HIDE DEF S
    <3>2. q \in Seq(S) /\ Len(q) = Len(p) + Len(ids)
      BY <3>1
    <3> QED BY <1>3, <3>2 DEF S, m
  <2>2. \A k \in 1 .. m + n : q[k] = IF k <= m THEN p[k] ELSE ids[k - m]
    BY <1>3 DEF m
  <2> HIDE DEF q
  <2>3. \A k \in 1 .. m : k \in 1 .. m + n /\ k <= m
    BY <1>1
  <2>4. \A k \in m + 1 .. m + n : k \in 1 .. m + n /\ ~ k <= m
    BY <1>1
  <2>5. \A k \in 1 .. m : q[k] = p[k]
    BY <2>2, <2>3
  <2>6. \A k \in m + 1 .. m + n : q[k] = ids[k - m]
    BY <2>2, <2>4
  <2> QED BY <2>1, <2>5, <2>6
<1>5. DOMAIN q = 1 .. m + n
  BY <1>1, <1>4
<1> HIDE DEF q
<1>6. ASSUME NEW k \in m + 1 .. m + n
      PROVE  IsPlace(f, K, q[k]) /\ At(f, q[k]) = blocks[k - m]
  <2>1. q[k] = blocks[k - m].id /\ k - m \in 1 .. n
    <3>1. k - m \in 1 .. n
      BY <1>1
    <3>2. q[k] = ids[k - m] /\ ids[k - m] = blocks[k - m].id
      BY <1>3, <1>4, <3>1
    <3> QED BY <3>1, <3>2
  <2>2. IsPlace(f, K, blocks[k - m].id) /\ At(f, blocks[k - m].id) = blocks[k - m]
    BY <1>1, <2>1 DEF AreReal
  <2> QED BY <2>1, <2>2
<1>7. AllPlaces(f, K, q)
  <2> SUFFICES ASSUME NEW k \in 1 .. m + n PROVE IsPlace(f, K, q[k])
    BY <1>5 DEF AllPlaces
  <2>1. CASE k \in 1 .. m
    BY <1>1, <1>4, <2>1 DEF AllPlaces
  <2>2. CASE k \in m + 1 .. m + n
    BY <1>6, <2>2
  <2> QED BY <1>1, <2>1, <2>2
<1> DEFINE b == BlocksAt(f, p)
           c == BlocksAt(f, q)
           O == OfTracks(K)
<1>8. /\ b \in Seq(O) /\ DOMAIN b = 1 .. m /\ \A k \in 1 .. m : b[k] = At(f, p[k])
  BY <1>1, BlocksAtTyped
<1>9. /\ c \in Seq(O) /\ DOMAIN c = 1 .. m + n /\ \A k \in 1 .. m + n : c[k] = At(f, q[k])
  BY <1>4, <1>5, <1>7, BlocksAtTyped
<1> HIDE DEF b, c, O
<1>10. Len(b) = m /\ Len(c) = m + n
  BY <1>1, <1>8, <1>9
<1>11. /\ b \o blocks \in Seq(O) /\ Len(b \o blocks) = m + n
       /\ \A k \in 1 .. m : (b \o blocks)[k] = b[k]
       /\ \A k \in m + 1 .. m + n : (b \o blocks)[k] = blocks[k - m]
  <2>1. b \in Seq(O) /\ blocks \in Seq(O) /\ Len(b) = m /\ Len(blocks) = n
    BY <1>8, <1>10 DEF O, n
  <2> DEFINE d == b \o blocks
  <2>2. /\ d \in Seq(O) /\ Len(d) = m + n
        /\ \A k \in 1 .. m + n : d[k] = IF k <= m THEN b[k] ELSE blocks[k - m]
    BY <2>1, ConcatProperties
  <2> HIDE DEF d
  <2>3. \A k \in 1 .. m : k \in 1 .. m + n /\ k <= m
    BY <1>1
  <2>4. \A k \in m + 1 .. m + n : k \in 1 .. m + n /\ ~ (k <= m)
    BY <1>1
  <2> QED BY <2>2, <2>3, <2>4 DEF d
<1>12. ASSUME NEW k \in 1 .. m + n PROVE c[k] = (b \o blocks)[k]
  <2>1. CASE k \in 1 .. m
    BY <1>4, <1>8, <1>9, <1>11, <2>1
  <2>2. CASE k \in m + 1 .. m + n
    <3>1. c[k] = At(f, q[k]) /\ At(f, q[k]) = blocks[k - m]
      BY <1>6, <1>9, <2>2
    <3>2. (b \o blocks)[k] = blocks[k - m]
      BY <1>11, <2>2
    <3> QED BY <3>1, <3>2
  <2>3. k \in 1 .. m \/ k \in m + 1 .. m + n
    BY <1>1
  <2> HIDE DEF c
  <2> QED BY <2>1, <2>2, <2>3
<1>13. c = b \o blocks
  <2> DEFINE d == b \o blocks
  <2> HIDE DEF d
  <2> QED BY <1>9, <1>10, <1>11, <1>12, SeqEqual DEF d
<1> QED BY <1>7, <1>13 DEF Continues, q, b, c, ids
-----------------------------------------------------------------------------
(* The assemblers have been fed with these blocks of the file.              *)
Fed(f, K, p, as, out) ==
  /\ AllPlaces(f, K, p)
  /\ IsFeedState(Segment, Nat, States, K, as, out)
  /\ FedWith(ItemOf(K), Decoded, as, out, BlocksAt(f, p))

LEMMA FedNothing ==
  ASSUME NEW f, NEW K
  PROVE  Fed(f, K, << >>, [t \in K |-> AsmNew], << >>)
<1>1. BlocksAt(f, << >>) = << >> /\ AllPlaces(f, K, << >>)
  BY DEF BlocksAt, AllPlaces
<1>2. /\ IsFeedState(Segment, Nat, States, K, [t \in K |-> AsmNew], << >>)
      /\ FedWith(ItemOf(K), Decoded, [t \in K |-> AsmNew], << >>, << >>)
  <2> DEFINE g == ItemOf(K)
  <2> HIDE DEF g
  <2> QED BY SegmentsLogged, FedFirst DEF g
<1> QED BY <1>1, <1>2 DEF Fed

LEMMA FedContinues ==
  ASSUME NEW f, IsFile(f), NEW K, NEW p \in Seq(Nat \X Nat), NEW as, NEW out,
         Fed(f, K, p, as, out),
         NEW blocks \in Seq(OfTracks(K)), AreReal(f, K, blocks)
  PROVE  Fed(f, K, p \o IdsOf(blocks), FeedBlocks(as, blocks).asms,
             out \o FeedBlocks(as, blocks).sets)
<1> DEFINE g == ItemOf(K)
           X == OfTracks(K)
           s == BlocksAt(f, p)
           q == p \o IdsOf(blocks)
           fed == FeedTracks(as, Image(Only(blocks, Decoded), g))
<1>1. FeedBlocks(as, blocks) = fed
  BY FedItems
<1>2. Continues(f, K, p, q, blocks)
  BY RealContinues DEF Fed
<1>3. s \in Seq(X)
  BY BlocksAtTyped DEF Fed
<1>4. Itemizes(g, X, Segment, K)
  BY ItemsTyped
<1>5. /\ IsFeedState(Segment, Nat, States, K, as, out)
      /\ FedWith(g, Decoded, as, out, s)
  BY DEF Fed
<1> HIDE DEF g, X, s, q
<1>6. blocks \in Seq(X) /\ IsFed(Segment, Nat, States) /\ 0 \in Nat
  BY SegmentsLogged DEF X
<1>7. FedMore(Segment, Nat, States, K, g, Decoded, as, out, s, blocks)
  BY <1>3, <1>4, <1>5, <1>6, FeedsMore
<1>8. /\ IsFeedState(Segment, Nat, States, K, fed.asms, out \o fed.sets)
      /\ FedWith(g, Decoded, fed.asms, out \o fed.sets, s \o blocks)
  BY <1>7 DEF FedMore
<1>9. AllPlaces(f, K, q) /\ BlocksAt(f, q) = s \o blocks
  BY <1>2 DEF Continues, s
<1> HIDE DEF fed
<1>10. Fed(f, K, q, fed.asms, out \o fed.sets)
  BY <1>8, <1>9 DEF Fed, g
<1> QED BY <1>1, <1>10 DEF q
-----------------------------------------------------------------------------
(* The decodable blocks of track t, in the order of the file.               *)
Kept(f, K, t) == Joined([e \in DOMAIN f.elements |-> Only(f.elements[e].blocks, Own(K, t))])
ById == {y \in Block \X Block : << y[1].id, y[2].id >> \in Ahead}
IsKept(f, K, t, b) == b \in Own(K, t) /\ IsPlace(f, K, b.id) /\ At(f, b.id) = b

LEMMA KeptOf ==
  ASSUME NEW f, IsFile(f), NEW K, NEW t, NEW e \in DOMAIN f.elements
  PROVE  /\ Only(f.elements[e].blocks, Own(K, t)) \in Seq(OfTracks(K))
         /\ Only(f.elements[e].blocks, Own(K, t)) \in Seq(From(e))
         /\ Chain(Only(f.elements[e].blocks, Own(K, t)), ById)
         /\ \A b : b \in Members(Only(f.elements[e].blocks, Own(K, t)))
                     <=> b \in Own(K, t) /\ b \in Members(f.elements[e].blocks)
<1> DEFINE s == f.elements[e].blocks
           O == Own(K, t)
           o == Only(s, O)
<1>1. s \in Seq(From(e)) /\ Chain(s, Later)
  BY ElementBlocks
<1>2. O \subseteq OfTracks(K)
  BY ItemsTyped
<1> HIDE DEF s, O
<1>3. o \in Seq(From(e) \cap O) /\ Chain(o, Later) /\ Members(o) = Members(s) \cap O
  BY <1>1, OnlyMembers, OnlyChain, OnlySelects
<1> HIDE DEF o
<1>4. \A k \in DOMAIN o : o[k] \in From(e) /\ o[k] \in O
  BY <1>3, ElementOfSeq
<1>5. o \in Seq(OfTracks(K)) /\ o \in Seq(From(e))
  BY <1>2, <1>3, <1>4
<1>6. ASSUME NEW j \in DOMAIN o, NEW k \in DOMAIN o, j < k
      PROVE  << o[j], o[k] >> \in ById
  <2> DEFINE x == o[j]
             y == o[k]
  <2>1. << x, y >> \in Later /\ x \in From(e) /\ y \in From(e)
    BY <1>3, <1>4, <1>6 DEF Chain
  <2> HIDE DEF x, y
  <2>2. /\ x \in Block /\ y \in Block /\ x.id \in Nat \X Nat /\ y.id \in Nat \X Nat
        /\ x.id[1] = y.id[1] /\ x.id[2] < y.id[2]
    BY <2>1 DEF Later, From, Block
  <2>3. << x.id, y.id >> \in Ahead
    BY <2>2, InOrder
  <2> QED BY <2>2, <2>3 DEF ById, x, y
<1>7. Chain(o, ById)
  BY <1>6 DEF Chain
<1> QED BY <1>3, <1>5, <1>7 DEF o, s, O

LEMMA KeptIs ==
  ASSUME NEW f, IsFile(f), NEW K, NEW t
  PROVE  /\ Kept(f, K, t) \in Seq(OfTracks(K))
         /\ Chain(Kept(f, K, t), ById)
         /\ \A b : b \in Members(Kept(f, K, t)) <=> IsKept(f, K, t, b)
<1> DEFINE n == Len(f.elements)
           ss == [e \in DOMAIN f.elements |-> Only(f.elements[e].blocks, Own(K, t))]
           X == OfTracks(K)
<1>1. n \in Nat /\ DOMAIN f.elements = 1 .. n
  BY DEF IsFile
<1>2. ss = [e \in 1 .. n |-> Only(f.elements[e].blocks, Own(K, t))]
  BY <1>1
<1>3. Kept(f, K, t) = Joined(ss)
  BY DEF Kept
<1>4. \A e \in 1 .. n : ss[e] = Only(f.elements[e].blocks, Own(K, t))
  BY <1>1
<1> HIDE DEF n, ss
<1>5. \A e \in 1 .. n : /\ ss[e] \in Seq(X) /\ ss[e] \in Seq(From(e)) /\ Chain(ss[e], ById)
                        /\ \A b : b \in Members(ss[e]) <=>
                                    b \in Own(K, t) /\ b \in Members(f.elements[e].blocks)
  <2> SUFFICES ASSUME NEW e \in 1 .. n
               PROVE  /\ ss[e] \in Seq(X) /\ ss[e] \in Seq(From(e)) /\ Chain(ss[e], ById)
                      /\ \A b : b \in Members(ss[e]) <=>
                                  b \in Own(K, t) /\ b \in Members(f.elements[e].blocks)
    OBVIOUS
  <2>1. e \in DOMAIN f.elements /\ ss[e] = Only(f.elements[e].blocks, Own(K, t))
    BY <1>1, <1>4
  <2>2. /\ ss[e] \in Seq(OfTracks(K)) /\ ss[e] \in Seq(From(e)) /\ Chain(ss[e], ById)
    BY <2>1, KeptOf
  <2>3. \A b : b \in Members(ss[e]) <=> b \in Own(K, t) /\ b \in Members(f.elements[e].blocks)
    BY <2>1, KeptOf
  <2> QED BY <2>2, <2>3
<1> HIDE DEF X
<1>6. ss \in Seq(Seq(X)) /\ DOMAIN ss = 1 .. n
  <2>1. ss \in [1 .. n -> Seq(X)]
    BY <1>2, <1>4, <1>5
  <2> QED BY <1>1, <2>1
<1>7. ASSUME NEW j \in 1 .. n, NEW k \in 1 .. n, j < k,
             NEW x \in Members(ss[j]), NEW y \in Members(ss[k])
      PROVE  << x, y >> \in ById
  <2>1. x \in From(j) /\ y \in From(k)
    <3>1. ss[j] \in Seq(From(j)) /\ ss[k] \in Seq(From(k))
      BY <1>5
    <3> QED BY <3>1, ElementOfSeq DEF Members
  <2>2. /\ x \in Block /\ y \in Block /\ x.id \in Nat \X Nat /\ y.id \in Nat \X Nat
        /\ x.id[1] < y.id[1]
    BY <1>7, <2>1 DEF From, Block
  <2>3. << x.id, y.id >> \in Ahead
    BY <2>2, InOrder
  <2> QED BY <2>2, <2>3 DEF ById
<1>8. Chain(Joined(ss), ById)
  BY <1>5, <1>6, <1>7, JoinedChain
<1>9. Joined(ss) \in Seq(X)
  BY <1>6, JoinedTyped
<1>10. ASSUME NEW b PROVE b \in Members(Joined(ss)) <=> IsKept(f, K, t, b)
  <2>1. b \in Members(Joined(ss)) <=> \E e \in 1 .. n : b \in Members(ss[e])
    BY <1>6, JoinedMembers
  <2>2. b \in Members(Joined(ss)) <=>
          b \in Own(K, t) /\ \E e \in 1 .. n : b \in Members(f.elements[e].blocks)
    BY <1>5, <2>1
  <2>3. ASSUME b \in Own(K, t), NEW e \in 1 .. n, b \in Members(f.elements[e].blocks)
        PROVE  IsKept(f, K, t, b)
    <3>1. PICK m \in DOMAIN f.elements[e].blocks : b = f.elements[e].blocks[m]
      BY <2>3 DEF Members
    <3>2. b.id = << e, m >>
      BY <1>1, <3>1, ElementBlocks
    <3>3. b.trk \in K
      <4>1. Own(K, t) = {x \in OfTracks(K) : x.trk = t /\ x.ok}
        BY ItemsTyped
      <4> QED BY <2>3, <4>1 DEF OfTracks
    <3>4. b.id[1] = e /\ b.id[2] = m
      BY <3>2
    <3>5. At(f, b.id) = b
      BY <3>1, <3>4 DEF At
    <3> QED BY <1>1, <2>3, <3>1, <3>3, <3>4, <3>5 DEF IsKept, IsPlace
  <2>4. IsKept(f, K, t, b) =>
          b \in Own(K, t) /\ \E e \in 1 .. n : b \in Members(f.elements[e].blocks)
    BY <1>1 DEF IsKept, IsPlace, At, Members
  <2> QED BY <2>2, <2>3, <2>4
<1> QED BY <1>3, <1>8, <1>9, <1>10 DEF X

LEMMA BlocksAreKept ==
  ASSUME NEW f, IsFile(f), NEW K, NEW t \in K
  PROVE  BlocksOf(f.elements, t) = Kept(f, K, t)
<1> DEFINE O == Own(K, t)
           own(blocks) == Only(blocks, {b \in Members(blocks) : b.trk = t /\ b.ok})
<1>1. ASSUME NEW e \in DOMAIN f.elements
      PROVE  own(f.elements[e].blocks) = Only(f.elements[e].blocks, O)
  <2> DEFINE s == f.elements[e].blocks
             S == {b \in Members(s) : b.trk = t /\ b.ok}
  <2>1. s \in Seq(From(e))
    BY ElementBlocks
  <2>2. \A k \in DOMAIN s : s[k] \in S <=> s[k] \in O
    <3>1. \A k \in DOMAIN s : s[k] \in Block
      BY <2>1, ElementOfSeq DEF From
    <3>2. O = {b \in OfTracks(K) : b.trk = t /\ b.ok}
      BY ItemsTyped
    <3> QED BY <3>1, <3>2 DEF OfTracks, Members
  <2> HIDE DEF s, S, O
  <2>3. Only(s, S) = Only(s, O)
    BY <2>1, <2>2, OnlySame
  <2> QED BY <2>3 DEF s, S
<1>2. [e \in DOMAIN f.elements |-> own(f.elements[e].blocks)]
        = [e \in DOMAIN f.elements |-> Only(f.elements[e].blocks, O)]
  BY <1>1
<1> QED BY <1>2 DEF BlocksOf, Kept

(* What the file holds for a track is what is found in these blocks.        *)
LEMMA ContentOf ==
  ASSUME NEW f, IsFile(f), NEW K, NEW t \in K
  PROVE  Content(f.elements, t) = SetsIn(Log(Kept(f, K, t), ItemOf(K)))
<1>2. BlocksOf(f.elements, t) = Kept(f, K, t)
  BY BlocksAreKept
<1> DEFINE a == Kept(f, K, t)
           g == ItemOf(K)
<1>3. a \in Seq(OfTracks(K))
  BY KeptIs
<1> HIDE DEF a
<1>4. \A k \in DOMAIN a : [x \in DOMAIN g |-> g[x].segments][a[k]] = SegmentsOf(a[k])
  <2>1. \A k \in DOMAIN a : a[k] \in OfTracks(K)
    BY <1>3, ElementOfSeq
  <2> QED BY <2>1 DEF ItemOf
<1>5. [k \in DOMAIN a |-> SegmentsOf(a[k])] = Image(a, [x \in DOMAIN g |-> g[x].segments])
  <2> HIDE DEF g
  <2> QED BY <1>4 DEF Image
<1>6. LogOf(a) = Log(a, g)
  BY <1>5 DEF LogOf, Log
<1> QED BY <1>2, <1>6 DEF Content, a, g

(* Blocks whose own are those of the file yield its display sets.           *)
LEMMA YieldsContentOf ==
  ASSUME NEW f, IsFile(f), NEW K, NEW t \in K, NEW m \in Seq(OfTracks(K)),
         Only(m, Own(K, t)) = Kept(f, K, t)
  PROVE  SetsOfTrack(FeedBlocks([u \in K |-> AsmNew], m).sets, t) = Content(f.elements, t)
<1> DEFINE S == Segment
           T == Nat
           U == States
           X == OfTracks(K)
           g == ItemOf(K)
           D == Decoded
           as == [u \in K |-> AsmNew]
           fed == FeedBlocks(as, m)
           V == TrackedSets(K, AssembledSets(S, T, U))
<1>1. IsFed(S, T, U) /\ IsLog(S, T, U) /\ 0 \in T
  BY SegmentsLogged
<1>2. Itemizes(g, X, S, K) /\ DOMAIN g = X
  BY ItemsTyped
<1>3. fed = FeedTracks(as, Image(Only(m, D), g))
  BY FedItems
<1>4. IsFeedState(S, T, U, K, as, << >>) /\ FedWith(g, D, as, << >>, << >>)
  <2> HIDE DEF S, T, U, g, D
  <2> QED
    BY <1>1, FedFirst
<1>5. m \in Seq(X) /\ << >> \in Seq(X)
  OBVIOUS
<1> HIDE DEF S, T, U, X, g, D, as, fed
<1>6. FedMore(S, T, U, K, g, D, as, << >>, << >>, m)
  BY <1>1, <1>2, <1>4, <1>5, FeedsMore
<1>7. /\ IsFeedState(S, T, U, K, fed.asms, << >> \o fed.sets)
      /\ FedWith(g, D, fed.asms, << >> \o fed.sets, << >> \o m)
  BY <1>3, <1>6 DEF FedMore
<1>8. << >> \o m = m
  BY <1>5
<1>9. DOMAIN fed.asms = K
  BY <1>7 DEF IsFeedState
<1>10. AsmFeed(AsmNew, Log(Only(m, OfItem(g, t) \cap D), g))
         = [asm |-> fed.asms[t], sets |-> SetsOfTrack(<< >> \o fed.sets, t)]
  BY <1>7, <1>8, <1>9 DEF FedWith
<1>11. << >> \o fed.sets = fed.sets
  <2>1. << >> \o fed.sets \in Seq(V)
    BY <1>7 DEF IsFeedState
  <2>2. fed \in Feedings(S, T, U, K)
    <3>1. as \in [K -> Assemblers(S, T, U)]
      BY <1>4 DEF IsFeedState
    <3>2. Image(Only(m, D), g) \in Seq(TrackItems(S, K))
      BY <1>2, <1>5, OnlyTyped, ImageProperties DEF Itemizes, IsImage
    <3> QED
      BY <1>1, <1>3, <3>1, <3>2, FeedTracksTyped
  <2>3. fed.sets \in Seq(V)
    BY <2>2 DEF Feedings
  <2> HIDE DEF V
  <2> QED
    BY <2>3
<1>12. OfItem(g, t) \cap D = Own(K, t)
  BY DEF Own, g, D
<1>13. SetsOfTrack(fed.sets, t) = AsmFeed(AsmNew, Log(Kept(f, K, t), g)).sets
  <2>1. AsmFeed(AsmNew, Log(Kept(f, K, t), g))
          = [asm |-> fed.asms[t], sets |-> SetsOfTrack(fed.sets, t)]
    BY <1>10, <1>11, <1>12
  <2> QED
    BY <2>1
<1>14. Log(Kept(f, K, t), g) \in Seq(S)
  <2>1. Kept(f, K, t) \in Seq(X)
    BY KeptIs DEF X
  <2> QED
    BY <1>2, <2>1, LogTyped
<1>15. AsmFeed(AsmNew, Log(Kept(f, K, t), g)).sets = SetsIn(Log(Kept(f, K, t), g))
  BY <1>1, <1>14, FeedIsSetsIn
<1>16. Content(f.elements, t) = SetsIn(Log(Kept(f, K, t), g))
  BY ContentOf DEF g
<1> QED
  BY <1>13, <1>15, <1>16 DEF fed, as
-----------------------------------------------------------------------------
(* A place of track t.                                                      *)
OfTheTrack(f, K, t, id) == id \in Nat \X Nat /\ IsPlace(f, K, id) /\ At(f, id).trk = t

(* No place of the track is left out between two of p, and none in front.   *)
Gapless(f, K, t, p) ==
  \A x, y, z : /\ OfTheTrack(f, K, t, x) /\ OfTheTrack(f, K, t, y) /\ OfTheTrack(f, K, t, z)
               /\ << x, y >> \in Ahead /\ << y, z >> \in Ahead
               /\ x \in Members(p) /\ z \in Members(p)
               => y \in Members(p)
FromTheFirst(f, K, t, p) ==
  \A x, y : /\ OfTheTrack(f, K, t, x) /\ OfTheTrack(f, K, t, y)
            /\ << x, y >> \in Ahead /\ y \in Members(p)
            => x \in Members(p)

LEMMA ByIdIsStrict ==
  ASSUME NEW K
  PROVE  Strict(ById, OfTracks(K))
<1>1. \A x \in OfTracks(K) : x.id \in Nat \X Nat
  BY DEF OfTracks, Block
<1>2. ASSUME NEW x \in OfTracks(K) PROVE << x, x >> \notin ById
  BY <1>1 DEF ById, Ahead
<1>3. ASSUME NEW x \in OfTracks(K), NEW y \in OfTracks(K), NEW z \in OfTracks(K),
             << x, y >> \in ById, << y, z >> \in ById
      PROVE  << x, z >> \in ById
  <2> DEFINE i == x.id
             j == y.id
             k == z.id
  <2>1. i \in Nat \X Nat /\ j \in Nat \X Nat /\ k \in Nat \X Nat
    BY <1>1
  <2>2. << i, j >> \in Ahead /\ << j, k >> \in Ahead /\ x \in Block /\ z \in Block
    BY <1>3 DEF ById
  <2> HIDE DEF i, j, k
  <2>3. i[1] < k[1] \/ (i[1] = k[1] /\ i[2] < k[2])
    BY <2>1, <2>2 DEF Ahead
  <2>4. << i, k >> \in Ahead
    BY <2>1, <2>3, InOrder
  <2> QED BY <2>2, <2>4 DEF i, k, ById
<1> QED BY <1>2, <1>3 DEF Strict

(* The blocks of one track among those read.                                *)
LEMMA OwnRead ==
  ASSUME NEW f, IsFile(f), NEW K, NEW t, NEW p \in Seq(Nat \X Nat), AllPlaces(f, K, p),
         Chain(p, Ahead)
  PROVE  /\ Only(BlocksAt(f, p), Own(K, t)) \in Seq(OfTracks(K))
         /\ Chain(Only(BlocksAt(f, p), Own(K, t)), ById)
         /\ \A b : b \in Members(Only(BlocksAt(f, p), Own(K, t)))
                     <=> IsKept(f, K, t, b) /\ b.id \in Members(p)
<1> DEFINE q == BlocksAt(f, p)
           O == Own(K, t)
           s == Only(q, O)
           X == OfTracks(K)
<1>1. /\ q \in Seq(X) /\ DOMAIN q = DOMAIN p
      /\ \A k \in DOMAIN p : q[k] = At(f, p[k]) /\ q[k].id = p[k]
  BY BlocksAtTyped
<1>2. \A k \in DOMAIN q : q[k] \in X
  BY <1>1, ElementOfSeq
<1> HIDE DEF q, O, X
<1>3. Chain(q, ById)
  <2> SUFFICES ASSUME NEW j \in DOMAIN q, NEW k \in DOMAIN q, j < k
               PROVE  << q[j], q[k] >> \in ById
    BY DEF Chain
  <2>1. << q[j].id, q[k].id >> \in Ahead
    BY <1>1 DEF Chain
  <2>2. q[j] \in Block /\ q[k] \in Block
    BY <1>2 DEF X, OfTracks
  <2> QED BY <2>1, <2>2 DEF ById
<1>4. s \in Seq(X) /\ Chain(s, ById) /\ Members(s) = Members(q) \cap O
  BY <1>1, <1>3, OnlyTyped, OnlyChain, OnlySelects
<1> HIDE DEF s
<1>5. ASSUME NEW b PROVE b \in Members(s) <=> IsKept(f, K, t, b) /\ b.id \in Members(p)
  <2>1. ASSUME b \in Members(s) PROVE IsKept(f, K, t, b) /\ b.id \in Members(p)
    <3>1. PICK k \in DOMAIN q : b = q[k]
      BY <1>4, <2>1 DEF Members
    <3>2. b \in O /\ b.id = p[k] /\ At(f, b.id) = b /\ IsPlace(f, K, b.id)
      BY <1>1, <1>4, <2>1, <3>1 DEF AllPlaces
    <3> QED BY <1>1, <3>1, <3>2 DEF IsKept, O, Members
  <2>2. ASSUME IsKept(f, K, t, b), b.id \in Members(p) PROVE b \in Members(s)
    <3>1. PICK k \in DOMAIN p : b.id = p[k]
      BY <2>2 DEF Members
    <3>2. b = q[k] /\ b \in O
      BY <1>1, <2>2, <3>1 DEF IsKept, O
    <3> QED BY <1>1, <1>4, <3>2 DEF Members
  <2> QED BY <2>1, <2>2
<1> QED BY <1>4, <1>5 DEF s, q, O, X

(* What has been returned for a track is a stretch of what the file holds.  *)
YieldsStretch(f, K, t, p, out) ==
  \E from : /\ IsStretch(SetsOfTrack(out, t), Content(f.elements, t), from)
            /\ FromTheFirst(f, K, t, p) => from = 0

LEMMA StretchOfContent ==
  ASSUME NEW f, IsFile(f), NEW K, NEW t \in K, NEW p \in Seq(Nat \X Nat), Chain(p, Ahead),
         NEW as, NEW out, Fed(f, K, p, as, out), Gapless(f, K, t, p)
  PROVE  YieldsStretch(f, K, t, p, out)
<1> DEFINE X == OfTracks(K)
           g == ItemOf(K)
           a == Kept(f, K, t)
           s == Only(BlocksAt(f, p), Own(K, t))
<1>1. a \in Seq(X) /\ Chain(a, ById) /\ \A b : b \in Members(a) <=> IsKept(f, K, t, b)
  BY KeptIs
<1>2. /\ s \in Seq(X) /\ Chain(s, ById)
      /\ \A b : b \in Members(s) <=> IsKept(f, K, t, b) /\ b.id \in Members(p)
  BY OwnRead DEF Fed
<1>3. Strict(ById, X)
  BY ByIdIsStrict
<1>4. AsmFeed(AsmNew, Log(s, g)).sets = SetsOfTrack(out, t)
  <2>1. DOMAIN as = K
    BY DEF Fed, IsFeedState
  <2>2. AsmFeed(AsmNew, Log(s, g)) = [asm |-> as[t], sets |-> SetsOfTrack(out, t)]
    BY <2>1 DEF Fed, FedWith, Own
  <2> QED BY <2>2
<1>5. Content(f.elements, t) = SetsIn(Log(a, g))
  BY ContentOf
<1>6. Itemizes(g, X, Segment, K)
  BY ItemsTyped
<1>7. \A b : IsKept(f, K, t, b) => OfTheTrack(f, K, t, b.id)
  <2> SUFFICES ASSUME NEW b, IsKept(f, K, t, b) PROVE OfTheTrack(f, K, t, b.id)
    OBVIOUS
  <2>1. Own(K, t) = {x \in OfTracks(K) : x.trk = t /\ x.ok}
    BY ItemsTyped
  <2>2. b \in Block /\ b.trk = t /\ IsPlace(f, K, b.id) /\ At(f, b.id) = b
    BY <2>1 DEF IsKept, OfTracks
  <2> QED BY <2>2 DEF OfTheTrack, Block
<1> HIDE DEF X, g, a, s
<1>8. ASSUME NEW i \in DOMAIN a, NEW j \in DOMAIN a, i < j
      PROVE  /\ << a[i].id, a[j].id >> \in Ahead
             /\ IsKept(f, K, t, a[i]) /\ IsKept(f, K, t, a[j])
             /\ OfTheTrack(f, K, t, a[i].id) /\ OfTheTrack(f, K, t, a[j].id)
  <2>1. << a[i], a[j] >> \in ById
    BY <1>1, <1>8 DEF Chain
  <2>2. a[i] \in Members(a) /\ a[j] \in Members(a)
    BY DEF Members
  <2>3. IsKept(f, K, t, a[i]) /\ IsKept(f, K, t, a[j])
    BY <1>1, <2>2
  <2> QED BY <1>7, <2>1, <2>3 DEF ById
<1>9. NoGap(s, a)
  <2> SUFFICES ASSUME NEW i \in DOMAIN a, NEW j \in DOMAIN a, NEW k \in DOMAIN a,
                      i < j, j < k, a[i] \in Members(s), a[k] \in Members(s)
               PROVE  a[j] \in Members(s)
    BY DEF NoGap
  <2>1. /\ << a[i].id, a[j].id >> \in Ahead /\ << a[j].id, a[k].id >> \in Ahead
        /\ IsKept(f, K, t, a[j])
        /\ OfTheTrack(f, K, t, a[i].id) /\ OfTheTrack(f, K, t, a[j].id)
        /\ OfTheTrack(f, K, t, a[k].id)
    BY <1>8
  <2>2. a[i].id \in Members(p) /\ a[k].id \in Members(p)
    BY <1>2
  <2>3. a[j].id \in Members(p)
    BY <2>1, <2>2 DEF Gapless
  <2> QED BY <1>2, <2>1, <2>3
<1>10. FromTheFirst(f, K, t, p) => NoneInFront(s, a)
  <2> SUFFICES ASSUME FromTheFirst(f, K, t, p), NEW j \in DOMAIN a, NEW k \in DOMAIN a,
                      j < k, a[k] \in Members(s)
               PROVE  a[j] \in Members(s)
    BY DEF NoneInFront
  <2>1. a[j].id \in Members(p) /\ IsKept(f, K, t, a[j])
    BY <1>2, <1>8 DEF FromTheFirst
  <2> QED BY <1>2, <2>1
<1>11. Members(s) \subseteq Members(a)
  BY <1>1, <1>2
<1>12. PICK i : IsStretch(s, a, i) /\ (NoneInFront(s, a) => i = 0)
  BY <1>1, <1>2, <1>3, <1>9, <1>11, SortedSlice
<1>13. Yields(s, a, g, i = 0)
  BY <1>1, <1>2, <1>6, <1>12, SegmentsLogged, StretchYields
<1>14. PICK from : /\ IsStretch(SetsOfTrack(out, t), Content(f.elements, t), from)
                   /\ i = 0 => from = 0
  BY <1>4, <1>5, <1>13 DEF Yields
<1> QED BY <1>10, <1>12, <1>14 DEF YieldsStretch
-----------------------------------------------------------------------------
(* The ids of a list of blocks are the places that satisfy a condition.     *)
Reads(f, K, blocks, ids) ==
  /\ blocks \in Seq(OfTracks(K)) /\ AreReal(f, K, blocks)
  /\ \A id \in Nat \X Nat : IsPlace(f, K, id) =>
       (id \in Members(IdsOf(blocks)) <=> id \in ids)

LEMMA IdsRead ==
  ASSUME NEW blocks, NEW id
  PROVE  id \in Members(IdsOf(blocks)) <=> \E k \in DOMAIN blocks : id = blocks[k].id
<1>1. DOMAIN IdsOf(blocks) = DOMAIN blocks /\ \A k \in DOMAIN blocks : IdsOf(blocks)[k] = blocks[k].id
  BY DEF IdsOf
<1> QED BY <1>1 DEF Members

(* A pass over a Cluster reads its blocks.                                  *)
LEMMA ScanReads ==
  ASSUME NEW f, IsFile(f), NEW K, NEW e \in DOMAIN f.elements
  PROVE  Reads(f, K, ScanCluster(f.elements[e], K), {id \in Nat \X Nat : id[1] = e})
<1> DEFINE s == f.elements[e].blocks
           S == {b \in Members(s) : b.trk \in K}
           o == ScanCluster(f.elements[e], K)
           X == OfTracks(K)
<1>1. s \in Seq(From(e)) /\ \A n \in DOMAIN s : s[n] \in Block /\ s[n].id = << e, n >>
  BY ElementBlocks
<1>2. o = Only(s, S)
  BY DEF ScanCluster
<1> HIDE DEF o
<1>3. o \in Seq(From(e) \cap S) /\ Members(o) = Members(s) \cap S
  <2> HIDE DEF s, S
  <2> QED BY <1>1, <1>2, OnlyMembers, OnlySelects
<1>4. ASSUME NEW n \in DOMAIN s, s[n] \in S
      PROVE  /\ s[n] \in X /\ IsPlace(f, K, s[n].id) /\ At(f, s[n].id) = s[n]
  <2>1. s[n].id[1] = e /\ s[n].id[2] = n
    BY <1>1
  <2>2. At(f, s[n].id) = s[n]
    BY <2>1 DEF At
  <2> QED BY <1>1, <1>4, <2>1, <2>2 DEF IsPlace, OfTracks
<1>5. \A k \in DOMAIN o : \E n \in DOMAIN s : o[k] = s[n] /\ s[n] \in S
  BY <1>3, ElementOfSeq DEF Members
<1>6. AreReal(f, K, o)
  <2> HIDE DEF s, S
  <2> QED BY <1>4, <1>5 DEF AreReal
<1>7. o \in Seq(X)
  <2> HIDE DEF s, S, X
  <2>1. \A k \in DOMAIN o : o[k] \in X
    BY <1>4, <1>5
  <2> QED BY <1>3, <2>1
<1>8. ASSUME NEW id \in Nat \X Nat, IsPlace(f, K, id)
      PROVE  id \in Members(IdsOf(o)) <=> id[1] = e
  <2>1. ASSUME id \in Members(IdsOf(o)) PROVE id[1] = e
    <3>1. PICK k \in DOMAIN o : id = o[k].id
      BY <2>1, IdsRead
    <3>2. PICK n \in DOMAIN s : o[k] = s[n]
      BY <1>5
    <3> QED BY <1>1, <3>1, <3>2
  <2>2. ASSUME id[1] = e PROVE id \in Members(IdsOf(o))
    <3> DEFINE n == id[2]
    <3>1. n \in DOMAIN s /\ s[n].trk \in K
      BY <1>8, <2>2 DEF IsPlace, At
    <3>2. s[n] \in Members(o)
      BY <1>3, <3>1 DEF Members
    <3>3. PICK k \in DOMAIN o : o[k] = s[n]
      BY <3>2 DEF Members
    <3>4. id = o[k].id
      <4>1. o[k].id = << e, n >>
        BY <1>1, <3>1, <3>3
      <4>2. id = << id[1], id[2] >>
        OBVIOUS
      <4> QED BY <2>2, <4>1, <4>2
    <3> QED BY <3>4, IdsRead
  <2> QED BY <2>1, <2>2
<1> QED BY <1>6, <1>7, <1>8 DEF Reads, o

(* A cue of a block.                                                        *)
Cues(f, id, c) ==
  /\ c \in Members(f.cues)
  /\ c.cluster = id[1] /\ c.rel \subseteq {id[2]}
  /\ c.time = At(f, id).time /\ c.trk = At(f, id).trk

LEMMA PlaceIsCued ==
  ASSUME NEW f, IsFile(f), NEW K, FullyCued(f, K), NEW id \in Nat \X Nat, IsPlace(f, K, id)
  PROVE  \E c : Cues(f, id, c)
<1> DEFINE e == id[1]
           n == id[2]
<1>1. e \in DOMAIN f.elements /\ n \in DOMAIN f.elements[e].blocks
      /\ f.elements[e].blocks[n].trk \in K
  BY DEF IsPlace, At
<1>2. PICK k \in DOMAIN f.cues : /\ f.cues[k].cluster = e /\ f.cues[k].rel \subseteq {n}
                                 /\ f.cues[k].time = f.elements[e].blocks[n].time
                                 /\ f.cues[k].trk = f.elements[e].blocks[n].trk
  <2> HIDE DEF e, n
  <2> QED BY <1>1 DEF FullyCued
<1>3. Cues(f, id, f.cues[k])
  BY <1>2 DEF Cues, At, Members
<1> QED BY <1>3

LEMMA CueHasPlace ==
  ASSUME NEW f, IsFile(f), NEW K, FullyCued(f, K), NEW c \in Members(f.cues), c.trk \in K
  PROVE  \E id \in Nat \X Nat : IsPlace(f, K, id) /\ Cues(f, id, c)
<1>1. PICK k \in DOMAIN f.cues : c = f.cues[k]
  BY DEF Members
<1>0. PICK e \in DOMAIN f.elements : \E n \in DOMAIN f.elements[e].blocks :
        /\ c.cluster = e /\ c.rel \subseteq {n}
        /\ c.time = f.elements[e].blocks[n].time
        /\ c.trk = f.elements[e].blocks[n].trk
  BY <1>1 DEF FullyCued
<1>2. PICK n \in DOMAIN f.elements[e].blocks :
        /\ c.cluster = e /\ c.rel \subseteq {n}
        /\ c.time = f.elements[e].blocks[n].time
        /\ c.trk = f.elements[e].blocks[n].trk
  BY <1>0
<1> DEFINE id == << e, n >>
<1>3. id[1] = e /\ id[2] = n
  OBVIOUS
<1>4. id \in Nat \X Nat
  <2>1. f.elements[e].blocks[n].id = id /\ f.elements[e].blocks[n] \in Block
    BY ElementBlocks
  <2> QED BY <2>1 DEF Block
<1> HIDE DEF id
<1>5. At(f, id) = f.elements[e].blocks[n]
  BY <1>3 DEF At
<1>6. IsPlace(f, K, id) /\ Cues(f, id, c)
  BY <1>2, <1>3, <1>5 DEF IsPlace, Cues
<1> QED BY <1>4, <1>6

(* What following a cue point reads, in a fully cued file.                  *)
CueReads(f, K, c, v) ==
  LET read == CueBlocks(f.elements, c, K, v)
  IN  /\ Reads(f, K, read.blocks,
               IF c.rel = {} /\ c.cluster \in v THEN {} ELSE {id \in Nat \X Nat : ReachedBy(id, c)})
      /\ read.visited = IF c.rel = {} THEN v \cup {c.cluster} ELSE v

LEMMA CueIsRead ==
  ASSUME NEW f, IsFile(f), NEW K, FullyCued(f, K),
         \A e \in DOMAIN f.elements : f.elements[e].known,
         NEW c \in Members(f.cues), c.trk \in K, NEW v
  PROVE  CueReads(f, K, c, v)
<1> DEFINE read == CueBlocks(f.elements, c, K, v)
           e == c.cluster
           ids == {id \in Nat \X Nat : ReachedBy(id, c)}
<1>1. PICK place \in Nat \X Nat : IsPlace(f, K, place) /\ Cues(f, place, c)
  BY CueHasPlace
<1>2. e = place[1] /\ e \in DOMAIN f.elements /\ place[2] \in DOMAIN f.elements[e].blocks
      /\ f.elements[e].blocks[place[2]] = At(f, place)
  BY <1>1 DEF Cues, IsPlace, At
<1>3. f.elements[e].kind = "cluster"
  <2>1. f.elements[e] \in Element
    BY <1>2, ElementOfSeq DEF IsFile
  <2>2. f.elements[e].kind # "other"
    BY <1>2 DEF IsFile
  <2> QED BY <2>1, <2>2 DEF Element
<1>4. << >> \in Seq(OfTracks(K)) /\ AreReal(f, K, << >>)
      /\ \A id : id \notin Members(IdsOf(<< >>))
  BY IdsRead DEF AreReal
<1>5. CASE c.rel = {} /\ e \in v
  <2>1. read.blocks = << >> /\ read.visited = v \cup {e}
    BY <1>5 DEF CueBlocks
  <2> QED BY <1>4, <1>5, <2>1 DEF CueReads, Reads
<1>6. CASE c.rel = {} /\ e \notin v
  <2>1. read.blocks = ScanCluster(f.elements[e], K) /\ read.visited = v \cup {e}
    BY <1>2, <1>3, <1>6 DEF CueBlocks
  <2>2. Reads(f, K, ScanCluster(f.elements[e], K), {id \in Nat \X Nat : id[1] = e})
    <3> HIDE DEF e
    <3> QED
      BY <1>2, ScanReads
  <2> HIDE DEF read, ids
  <2>3. {id \in Nat \X Nat : id[1] = e} = ids
    BY <1>6 DEF ReachedBy, ids
  <2> QED BY <1>6, <2>1, <2>2, <2>3 DEF CueReads, ids, read
<1>7. CASE c.rel # {}
  <2> DEFINE b == At(f, place)
             n == CHOOSE n \in c.rel : TRUE
             r == [b EXCEPT !.time = c.time]
  <2>1. c.rel = {place[2]} /\ n = place[2]
    BY <1>1, <1>7 DEF Cues
  <2>2. b \in OfTracks(K) /\ b.id = place
    BY <1>1, PlaceIs
  <2>3. r = b
    <3>1. b \in [id: Nat \X Nat, trk: Nat, time: Int, segs: Seq(Segment),
                 ok: BOOLEAN, sup: BOOLEAN]
      BY <2>2 DEF OfTracks, Block
    <3>2. c.time = b.time
      BY <1>1 DEF Cues
    <3> DEFINE I == Nat \X Nat
               S == Seq(Segment)
    <3> HIDE DEF b, I, S
    <3>3. b \in [id: I, trk: Nat, time: Int, segs: S, ok: BOOLEAN, sup: BOOLEAN]
      BY <3>1 DEF I, S
    <3>4. [b EXCEPT !.time = b.time] = b
      BY <3>3
    <3> QED BY <3>2, <3>4
  <2>4. read.blocks = << r >> /\ read.visited = v
    <3>1. /\ read.blocks = ReadBlockAt(f.elements[e], n, c.time, K)
          /\ read.visited = v
      BY <1>3, <1>7 DEF CueBlocks
    <3>2. ReadBlockAt(f.elements[e], place[2], c.time, K) = << r >>
      BY <1>1, <1>2 DEF ReadBlockAt, IsPlace
    <3> QED BY <2>1, <3>1, <3>2
  <2>5. Reads(f, K, << b >>, ids)
    <3> DEFINE w == << b >>
    <3>1. DOMAIN w = {1} /\ w[1] = b /\ w \in Seq(OfTracks(K))
      BY <2>2
    <3> HIDE DEF w, b
    <3>2. AreReal(f, K, w)
      BY <1>1, <2>2, <3>1 DEF AreReal, b
    <3>3. ASSUME NEW id \in Nat \X Nat
          PROVE  id \in Members(IdsOf(w)) <=> id \in ids
      <4>1. id \in Members(IdsOf(w)) <=> id = place
        BY <2>2, <3>1, IdsRead
      <4>2. id \in ids <=> id[1] = place[1] /\ id[2] = place[2]
        BY <1>2, <2>1 DEF ReachedBy
      <4> QED BY <4>1, <4>2
    <3>4. Reads(f, K, w, ids)
      BY <3>1, <3>2, <3>3 DEF Reads
    <3> QED BY <3>4 DEF w
  <2>6. Reads(f, K, read.blocks, ids)
    BY <2>3, <2>4, <2>5
  <2> HIDE DEF ids, read
  <2> QED BY <1>7, <2>4, <2>6 DEF CueReads, ids, read
<1> QED BY <1>5, <1>6, <1>7
-----------------------------------------------------------------------------
(* The blocks that the cue points followed so far lead to.                  *)
Reached(id) == \E i \in 1 .. index - 1 : i \in DOMAIN cues /\ ReachedBy(id, cues[i])

LEMMA TimesOrdered ==
  ASSUME NEW f, NEW K, TimesAscend(f, K), NEW x, NEW y, IsPlace(f, K, x), IsPlace(f, K, y),
         x[1] < y[1] \/ (x[1] = y[1] /\ x[2] < y[2] /\ At(f, x).trk = At(f, y).trk)
  PROVE  At(f, x).time <= At(f, y).time
<1> DEFINE d == x[1]
           e == y[1]
           m == x[2]
           n == y[2]
<1>1. /\ d \in DOMAIN f.elements /\ m \in DOMAIN f.elements[d].blocks
      /\ e \in DOMAIN f.elements /\ n \in DOMAIN f.elements[e].blocks
      /\ f.elements[d].blocks[m].trk \in K /\ f.elements[e].blocks[n].trk \in K
      /\ \/ d < e
         \/ d = e /\ m < n /\ f.elements[d].blocks[m].trk = f.elements[e].blocks[n].trk
  BY DEF IsPlace, At
<1> HIDE DEF d, e, m, n
<1>2. f.elements[d].blocks[m].time <= f.elements[e].blocks[n].time
  BY <1>1 DEF TimesAscend
<1> QED BY <1>2 DEF At, d, e, m, n

(* The cue points followed are those of the active tracks in the range.     *)
LEMMA FilteredMembers ==
  ASSUME IsFile(file)
  PROVE  \A c : c \in Members(FilteredCues) <=>
                  c \in Members(file.cues) /\ c.trk \in active /\ CueInRange(c, range)
<1> DEFINE s == file.cues
           S == {c \in Members(s) : c.trk \in active /\ CueInRange(c, range)}
<1>1. s \in Seq(Cue)
  BY DEF IsFile
<1> HIDE DEF s, S
<1>2. Members(Only(s, S)) = Members(s) \cap S
  BY <1>1, OnlySelects
<1>3. FilteredCues = Only(s, S)
  BY DEF FilteredCues, s, S
<1> QED BY <1>2, <1>3 DEF s, S

LEMMA TicksTyped ==
  ASSUME NEW ms \in Nat
  PROVE  ToTicks(ms) \in Nat
BY ScaleAssumption DEF ToTicks

(* A cue point followed, and the block it was written for.                  *)
LEMMA FollowedCue ==
  ASSUME IsFile(file), FullyCued(file, active), cues = FilteredCues,
         NEW i \in DOMAIN cues
  PROVE  /\ cues[i] \in Cue /\ cues[i] \in Members(file.cues) /\ cues[i].trk \in active
         /\ CueInRange(cues[i], range)
         /\ \E id \in Nat \X Nat : IsPlace(file, active, id) /\ Cues(file, id, cues[i])
<1>1. cues \in Seq(Cue)
  BY FilteredInOrder
<1>2. cues[i] \in Cue /\ cues[i] \in Members(cues)
  BY <1>1, ElementOfSeq DEF Members
<1>3. cues[i] \in Members(file.cues) /\ cues[i].trk \in active /\ CueInRange(cues[i], range)
  BY <1>2, FilteredMembers
<1> QED BY <1>2, <1>3, CueHasPlace

(* Whatever stands in front of a block that has been reached has been       *)
(* reached too, unless it is in front of the range.                         *)
LEMMA ReachedInFront ==
  ASSUME IsFile(file), FullyCued(file, active), TimesAscend(file, active),
         cues = FilteredCues, index \in Nat, range.lo \subseteq Nat, range.hi \subseteq Nat,
         NEW t, NEW y, NEW z, OfTheTrack(file, active, t, y), OfTheTrack(file, active, t, z),
         << y, z >> \in Ahead, Reached(z),
         \/ range.lo = {}
         \/ \E x : OfTheTrack(file, active, t, x) /\ << x, y >> \in Ahead /\ Reached(x)
  PROVE  Reached(y)
<1> SUFFICES ASSUME ~ Reached(y) PROVE FALSE
  OBVIOUS
<1>0. \A id : OfTheTrack(file, active, t, id) =>
         id \in Nat \X Nat /\ IsPlace(file, active, id) /\ At(file, id).trk = t
  BY DEF OfTheTrack
<1>1. PICK i2 \in 1 .. index - 1 : i2 \in DOMAIN cues /\ ReachedBy(z, cues[i2])
  BY DEF Reached
<1> DEFINE c2 == cues[i2]
<1>2. c2 \in Cue /\ CueInRange(c2, range)
  BY <1>1, FollowedCue
<1>3. PICK z2 \in Nat \X Nat : IsPlace(file, active, z2) /\ Cues(file, z2, c2)
  BY <1>1, FollowedCue
<1>4. PICK c : Cues(file, y, c)
  BY <1>0, PlaceIsCued
<1>5. c \in Cue /\ c \in Members(file.cues) /\ c.trk \in active
      /\ c.time = At(file, y).time /\ c.cluster = y[1] /\ c.rel \subseteq {y[2]}
  <2>1. file.cues \in Seq(Cue)
    BY DEF IsFile
  <2>2. c \in Cue
    BY <1>4, <2>1, ElementOfSeq DEF Cues, Members
  <2> QED BY <1>0, <1>4, <2>2 DEF Cues, IsPlace
<1>6. /\ y \in Nat \X Nat /\ z \in Nat \X Nat /\ y[1] \in Nat /\ z[1] \in Nat
      /\ y[2] \in Nat /\ z[2] \in Nat
      /\ y[1] < z[1] \/ (y[1] = z[1] /\ y[2] < z[2])
  BY <1>0 DEF Ahead
<1>7. /\ z2[1] = z[1] /\ c2.cluster = z[1] /\ c2.time = At(file, z2).time
      /\ c2.rel # {} => z2 = z /\ c2.rel = {z[2]}
  <2>1. z[1] = c2.cluster /\ (c2.rel = {} \/ z[2] \in c2.rel)
    BY <1>1 DEF ReachedBy
  <2>2. c2.cluster = z2[1] /\ c2.rel \subseteq {z2[2]} /\ c2.time = At(file, z2).time
    BY <1>3 DEF Cues
  <2>3. c2.rel # {} => z2[2] = z[2] /\ c2.rel = {z[2]}
    BY <2>1, <2>2
  <2>4. z2 = << z2[1], z2[2] >> /\ z = << z[1], z[2] >>
    BY <1>6
  <2> QED BY <2>1, <2>2, <2>3, <2>4
<1>8. ~ (c2.rel = {} /\ y[1] = z[1])
  <2> SUFFICES ASSUME c2.rel = {} /\ y[1] = z[1] PROVE FALSE
    OBVIOUS
  <2>1. ReachedBy(y, c2)
    BY <1>7 DEF ReachedBy
  <2> QED BY <1>1, <2>1 DEF Reached
<1>9. c.time <= c2.time
  <2>1. CASE c2.rel # {}
    BY <1>0, <1>5, <1>6, <1>7, <2>1, TimesOrdered
  <2>2. CASE y[1] < z[1]
    BY <1>0, <1>3, <1>5, <1>7, <2>2, TimesOrdered
  <2> QED BY <1>6, <1>8, <2>1, <2>2
<1>10. ASSUME range.lo # {}
       PROVE  \A lo \in range.lo : c.time >= ToTicks(lo)
  <2>1. PICK x : OfTheTrack(file, active, t, x) /\ << x, y >> \in Ahead /\ Reached(x)
    BY <1>10
  <2>2. PICK i1 \in 1 .. index - 1 : i1 \in DOMAIN cues /\ ReachedBy(x, cues[i1])
    BY <2>1 DEF Reached
  <2> DEFINE c1 == cues[i1]
  <2>3. c1 \in Cue /\ CueInRange(c1, range)
    BY <2>2, FollowedCue
  <2>4. PICK x1 \in Nat \X Nat : IsPlace(file, active, x1) /\ Cues(file, x1, c1)
    BY <2>2, FollowedCue
  <2>5. /\ x \in Nat \X Nat /\ x[1] \in Nat /\ x[2] \in Nat
        /\ x[1] < y[1] \/ (x[1] = y[1] /\ x[2] < y[2])
    BY <1>0, <2>1 DEF Ahead
  <2>6. /\ x1[1] = x[1] /\ c1.cluster = x[1] /\ c1.time = At(file, x1).time
        /\ c1.rel # {} => x1 = x
    <3>1. x[1] = c1.cluster /\ (c1.rel = {} \/ x[2] \in c1.rel)
      BY <2>2 DEF ReachedBy
    <3>2. c1.cluster = x1[1] /\ c1.rel \subseteq {x1[2]} /\ c1.time = At(file, x1).time
      BY <2>4 DEF Cues
    <3>3. c1.rel # {} => x1[2] = x[2]
      BY <3>1, <3>2
    <3>4. x1 = << x1[1], x1[2] >> /\ x = << x[1], x[2] >>
      BY <2>5
    <3> QED BY <3>1, <3>2, <3>3, <3>4
  <2>7. ~ (c1.rel = {} /\ y[1] = x[1])
    <3> SUFFICES ASSUME c1.rel = {} /\ y[1] = x[1] PROVE FALSE
      OBVIOUS
    <3>1. ReachedBy(y, c1)
      BY <2>6 DEF ReachedBy
    <3> QED BY <2>2, <3>1 DEF Reached
  <2>8. c1.time <= c.time
    <3>1. CASE c1.rel # {}
      BY <1>0, <1>5, <2>1, <2>5, <2>6, <3>1, TimesOrdered
    <3>2. CASE x[1] < y[1]
      BY <1>0, <1>5, <2>4, <2>6, <3>2, TimesOrdered
    <3> QED BY <2>5, <2>7, <3>1, <3>2
  <2>9. c1.time \in Nat /\ c.time \in Nat
    BY <1>5, <2>3 DEF Cue
  <2>10. \A lo \in range.lo : c1.time >= ToTicks(lo) /\ ToTicks(lo) \in Nat
    BY <2>3, TicksTyped DEF CueInRange
  <2> HIDE DEF c1
  <2> QED BY <2>8, <2>9, <2>10
<1>11. CueInRange(c, range)
  <2>1. \A hi \in range.hi : c2.time <= ToTicks(hi) /\ ToTicks(hi) \in Nat
    BY <1>2, TicksTyped DEF CueInRange
  <2>2. c2.time \in Nat /\ c.time \in Nat
    BY <1>2, <1>5 DEF Cue
  <2>3. \A hi \in range.hi : c.time <= ToTicks(hi)
    <3> HIDE DEF c2
    <3> QED BY <1>9, <2>1, <2>2
  <2> QED BY <1>10, <2>3 DEF CueInRange
<1>12. c \in Members(cues)
  BY <1>5, <1>11, FilteredMembers
<1>13. PICK m \in DOMAIN cues : c = cues[m]
  BY <1>12 DEF Members
<1>14. ReachedBy(y, c)
  BY <1>5 DEF ReachedBy
<1>15. cues \in Seq(Cue) /\ Chain(cues, Before)
  BY FilteredInOrder
<1>16. m \in Nat \ {0} /\ i2 \in Nat \ {0} /\ i2 < index
  BY <1>1, <1>13, <1>15
<1>17. ~ (m < index)
  BY <1>13, <1>14, <1>16 DEF Reached
<1>18. i2 < m
  BY <1>16, <1>17
<1>19. << c2, c >> \in Before
  BY <1>1, <1>13, <1>15, <1>18 DEF Chain
<1>20. /\ \/ c2.cluster < c.cluster
          \/ c2.cluster = c.cluster /\ \A k \in c2.rel, n \in c.rel : k < n
       /\ c2.rel = {} <=> c.rel = {}
  BY <1>19 DEF Before
<1>21. c2.cluster = c.cluster /\ y[1] = z[1] /\ y[2] < z[2]
  BY <1>5, <1>6, <1>7, <1>20
<1>22. c2.rel = {z[2]} /\ c.rel = {y[2]}
  BY <1>5, <1>7, <1>8, <1>20, <1>21
<1>23. z[2] < y[2]
  BY <1>5, <1>6, <1>7, <1>20, <1>21, <1>22
<1> QED BY <1>6, <1>21, <1>23
-----------------------------------------------------------------------------
(* Nothing of the file has been lost, and every block can be reached.       *)
Covered ==
  /\ ~ lost
  /\ cues # << >> => /\ cued /\ TimesAscend(file, active)
                     /\ \A e \in DOMAIN file.elements : file.elements[e].known

(* Exactly the blocks of a stretch of elements, or those that the cue       *)
(* points followed lead to, have been processed.                            *)
Processed(ids) ==
  \A id \in Nat \X Nat : IsPlace(file, active, id) => (id \in Members(pushed) <=> id \in ids)

ScanCovers ==
  \E first \in 1 .. index :
    /\ range.lo = {} => first = 1
    /\ Processed({id \in Nat \X Nat : first <= id[1] /\ id[1] < index})

CuesCover ==
  /\ cues = FilteredCues
  /\ Processed({id \in Nat \X Nat : Reached(id)})
  /\ \A c \in visited :
       \E j \in 1 .. index - 1 : j \in DOMAIN cues /\ cues[j].rel = {} /\ cues[j].cluster = c

Queues == TrackedSets(active, AssembledSets(Segment, Nat, States))

ContentInv ==
  /\ range.lo \subseteq Nat /\ range.hi \subseteq Nat /\ active \subseteq PgsTracks
  /\ content = [t \in PgsTracks |-> Content(file.elements, t)]
  /\ source = "uninit" => visited = {}
  /\ Covered =>
       /\ yielded \in Seq(Queues) /\ pending \in Seq(Queues)
       /\ Fed(file, active, pushed, asms, Out)
       /\ cues = << >> => ScanCovers
       /\ cues # << >> => CuesCover

LEMMA ContentInit == Init => ContentInv
<1> SUFFICES ASSUME Init PROVE ContentInv
  OBVIOUS
<1>1. /\ range.lo \subseteq Nat /\ range.hi \subseteq Nat /\ active \subseteq PgsTracks
      /\ content = [t \in PgsTracks |-> Content(file.elements, t)] /\ visited = {}
  BY RangesAssumption, ActiveAssumption DEF Init, ChooseFile
<1>2. /\ yielded = << >> /\ pending = << >> /\ pushed = << >> /\ cues = << >> /\ index = 1
      /\ asms = [t \in active |-> AsmNew]
  BY DEF Init
<1>3. Out = << >>
  BY <1>2 DEF Out
<1>4. Fed(file, active, pushed, asms, Out)
  BY <1>2, <1>3, FedNothing
<1>5. ScanCovers
  <2>1. 1 \in 1 .. index
    BY <1>2
  <2>2. Processed({id \in Nat \X Nat : 1 <= id[1] /\ id[1] < index})
    BY <1>2 DEF Processed, Members
  <2> QED BY <2>1, <2>2 DEF ScanCovers
<1>6. yielded \in Seq(Queues) /\ pending \in Seq(Queues)
  BY <1>2
<1> QED BY <1>1, <1>2, <1>4, <1>5, <1>6 DEF ContentInv

(* What a call returns, it takes from the front of the queue.               *)
LEMMA Popped ==
  ASSUME NEW X, NEW s \in Seq(X), NEW u \in Seq(X), u # << >>
  PROVE  /\ Append(s, Head(u)) \in Seq(X) /\ Tail(u) \in Seq(X)
         /\ Append(s, Head(u)) \o Tail(u) = s \o u
<1> DEFINE a == Append(s, Head(u)) \o Tail(u)
           b == s \o u
<1>1. /\ Head(u) \in X /\ Tail(u) \in Seq(X) /\ Append(s, Head(u)) \in Seq(X)
  OBVIOUS
<1>2. a \in Seq(X) /\ b \in Seq(X) /\ Len(a) = Len(b)
  BY <1>1
<1>3. \A k \in 1 .. Len(a) : a[k] = b[k]
  BY <1>1
<1>4. a = b
  <2> HIDE DEF a, b
  <2> QED BY <1>2, <1>3, SeqEqual
<1> QED BY <1>1, <1>4

(* The configuration does not change.                                       *)
Fixed == UNCHANGED << file, active, range, cued, content >>

LEMMA ContentKept ==
  ASSUME ContentInv, Fixed, source' # "uninit" \/ UNCHANGED << source, visited >>,
         UNCHANGED << cues, index, visited, asms, yielded, pending, pushed, lost >>
  PROVE  ContentInv'
<1>1. /\ file' = file /\ active' = active /\ range' = range /\ cued' = cued
      /\ content' = content /\ cues' = cues /\ index' = index /\ visited' = visited
      /\ asms' = asms /\ yielded' = yielded /\ pending' = pending /\ pushed' = pushed
      /\ lost' = lost
  BY DEF Fixed
<1>2. Out' = Out /\ Queues' = Queues /\ Covered' = Covered /\ FilteredCues' = FilteredCues
  BY <1>1 DEF Out, Queues, Covered, FilteredCues
<1>3. ScanCovers' = ScanCovers
  BY <1>1 DEF ScanCovers, Processed
<1>4. CuesCover' = CuesCover
  BY <1>1, <1>2 DEF CuesCover, Processed, Reached
<1> QED BY <1>1, <1>2, <1>3, <1>4 DEF ContentInv

LEMMA ContentPops ==
  ASSUME ContentInv, PopPending
  PROVE  ContentInv'
<1>1. /\ file' = file /\ active' = active /\ range' = range /\ cued' = cued
      /\ content' = content /\ cues' = cues /\ index' = index /\ visited' = visited
      /\ asms' = asms /\ pushed' = pushed /\ lost' = lost /\ source' = source
      /\ pending # << >>
      /\ yielded' = Append(yielded, Head(pending)) /\ pending' = Tail(pending)
  BY DEF PopPending, config
<1>2. Queues' = Queues /\ Covered' = Covered /\ FilteredCues' = FilteredCues
  BY <1>1 DEF Queues, Covered, FilteredCues
<1>3. ScanCovers' = ScanCovers
  BY <1>1 DEF ScanCovers, Processed
<1>4. CuesCover' = CuesCover
  BY <1>1, <1>2 DEF CuesCover, Processed, Reached
<1>5. ASSUME yielded \in Seq(Queues), pending \in Seq(Queues)
      PROVE  yielded' \in Seq(Queues) /\ pending' \in Seq(Queues) /\ Out' = Out
  BY <1>1, <1>5, Popped DEF Out
<1> QED BY <1>1, <1>2, <1>3, <1>4, <1>5 DEF ContentInv

LEMMA ContentSource ==
  ASSUME OrderInv, ContentInv, InitSource \/ ScanFromEstimate
  PROVE  ContentInv'
<1>1. /\ source = "uninit" /\ cues = << >> /\ pushed = << >> /\ index = 1 /\ visited = {}
      /\ file' = file /\ active' = active /\ range' = range /\ cued' = cued
      /\ content' = content /\ visited' = visited
      /\ asms' = asms /\ pushed' = pushed /\ lost' = lost /\ source' # "uninit"
      /\ yielded' = yielded /\ pending' = pending
  BY DEF OrderInv, ContentInv, InitSource, ScanFromEstimate, Stop, config
<1>2. Out' = Out /\ Queues' = Queues /\ FilteredCues' = FilteredCues
  BY <1>1 DEF Out, Queues, FilteredCues
<1>3. Covered' => Covered
  BY <1>1 DEF Covered
<1>4. \A id : id \notin Members(pushed')
  BY <1>1 DEF Members
<1>5. CASE cues' # << >>
  <2>1. InitSource /\ cues' = FilteredCues /\ index' = 1
    BY <1>1, <1>5 DEF InitSource, ScanFromEstimate, Stop
  <2>2. \A id : ~ Reached(id)'
    BY <2>1 DEF Reached
  <2>3. CuesCover'
    BY <1>1, <1>2, <1>4, <2>1, <2>2 DEF CuesCover, Processed
  <2> QED BY <1>1, <1>2, <1>3, <1>5, <2>3 DEF ContentInv
<1>6. CASE cues' = << >>
  <2>1. index' \in Nat \ {0} /\ (range.lo = {} => index' = 1)
    BY <1>1 DEF InitSource, ScanFromEstimate, Stop
  <2>2. ScanCovers'
    <3>1. index' \in 1 .. index'
      BY <2>1
    <3>2. Processed({id \in Nat \X Nat : index <= id[1] /\ id[1] < index})'
      BY <1>4, <2>1 DEF Processed
    <3> QED BY <1>1, <2>1, <3>1, <3>2 DEF ScanCovers
  <2> QED BY <1>1, <1>2, <1>3, <1>6, <2>2 DEF ContentInv
<1> QED BY <1>5, <1>6

(* Processing blocks feeds the assemblers with them.                        *)
LEMMA ContentFed ==
  ASSUME IsFile(file), pushed \in Seq(Nat \X Nat), UNCHANGED << file, active, yielded >>,
         yielded \in Seq(Queues), pending \in Seq(Queues),
         Fed(file, active, pushed, asms, Out),
         NEW blocks, NEW ids, Reads(file, active, blocks, ids), ProcessBlocks(blocks)
  PROVE  /\ yielded' \in Seq(Queues)' /\ pending' \in Seq(Queues)'
         /\ Fed(file, active, pushed, asms, Out)'
         /\ \A id \in Nat \X Nat : IsPlace(file, active, id) =>
              (id \in Members(pushed') <=> id \in Members(pushed) \/ id \in ids)
<1> DEFINE fed == FeedBlocks(asms, blocks)
           I == Nat \X Nat
<1>1. /\ asms' = fed.asms /\ pending' = pending \o fed.sets
      /\ pushed' = pushed \o IdsOf(blocks)
      /\ file' = file /\ active' = active /\ yielded' = yielded
  BY DEF ProcessBlocks, IdsOf
<1>2. blocks \in Seq(OfTracks(active)) /\ AreReal(file, active, blocks)
  BY DEF Reads
<1>3. Fed(file, active, pushed \o IdsOf(blocks), fed.asms, Out \o fed.sets)
  BY <1>2, FedContinues
<1>4. fed.sets \in Seq(Queues)
  <2>1. Itemizes(ItemOf(active), OfTracks(active), Segment, active)
    BY ItemsTyped
  <2>2. asms \in [active -> Assemblers(Segment, Nat, States)]
    BY DEF Fed, IsFeedState
  <2> DEFINE d == Only(blocks, Decoded)
             i == Image(d, ItemOf(active))
  <2>3. d \in Seq(OfTracks(active))
    BY <1>2, OnlyTyped
  <2> HIDE DEF d
  <2>4. i \in Seq(TrackItems(Segment, active))
    BY <2>1, <2>3, ImageProperties DEF Itemizes, IsImage
  <2>5. fed = FeedTracks(asms, i)
    BY <1>2, FedItems DEF d
  <2> HIDE DEF i
  <2>6. FeedTracks(asms, i) \in Feedings(Segment, Nat, States, active)
    BY <2>2, <2>4, SegmentsLogged, FeedTracksTyped
  <2> QED BY <2>5, <2>6 DEF Feedings, Queues
<1> HIDE DEF fed
<1>5. /\ pending \o fed.sets \in Seq(Queues)
      /\ yielded \o (pending \o fed.sets) = (yielded \o pending) \o fed.sets
  <2> DEFINE Q == Queues
             more == fed.sets
  <2>1. yielded \in Seq(Q) /\ pending \in Seq(Q) /\ more \in Seq(Q)
    BY <1>4
  <2> HIDE DEF Q, more
  <2>2. pending \o more \in Seq(Q) /\ yielded \o (pending \o more) = (yielded \o pending) \o more
    <3>1. pending \o more \in Seq(Q)
      BY <2>1, ConcatProperties
    <3>2. yielded \o (pending \o more) = (yielded \o pending) \o more
      BY <2>1, ConcatAssociative
    <3> QED BY <3>1, <3>2
  <2> QED BY <2>2 DEF Q, more
<1>6. Out' = Out \o fed.sets /\ Queues' = Queues
  BY <1>1, <1>5 DEF Out, Queues
<1>7. Fed(file, active, pushed, asms, Out)'
  BY <1>1, <1>3, <1>6
<1>8. IdsOf(blocks) \in Seq(I)
  <2>1. \A k \in DOMAIN blocks : blocks[k].id \in I
    BY <1>2, ElementOfSeq DEF OfTracks, Block
  <2> DEFINE n == Len(blocks)
             o == IdsOf(blocks)
  <2>2. n \in Nat /\ DOMAIN blocks = 1 .. n
    BY <1>2
  <2> HIDE DEF I, n
  <2>3. o = [k \in 1 .. n |-> blocks[k].id]
    BY <2>2 DEF IdsOf
  <2> HIDE DEF o
  <2>4. o \in [1 .. n -> I]
    BY <2>1, <2>2, <2>3
  <2> QED BY <2>2, <2>4 DEF o
<1>9. Members(pushed') = Members(pushed) \cup Members(IdsOf(blocks))
  <2> HIDE DEF I
  <2>1. pushed \in Seq(I)
    BY DEF I
  <2> QED BY <1>1, <1>8, <2>1, MembersConcat
<1>10. \A id \in Nat \X Nat : IsPlace(file, active, id) =>
              (id \in Members(pushed') <=> id \in Members(pushed) \/ id \in ids)
  BY <1>9 DEF Reads
<1> QED BY <1>1, <1>5, <1>6, <1>7, <1>10
-----------------------------------------------------------------------------
(* So it does when the next element is scanned.                             *)
LEMMA ContentScans ==
  ASSUME OrderInv, ContentInv, ScanElement
  PROVE  ContentInv'
<1> DEFINE e == file.elements[index]
           here == {id \in Nat \X Nat : id[1] = index}
<1>1. /\ source = "scan" /\ cues = << >> /\ IsFile(file) /\ index \in Nat \ {0}
      /\ pushed \in Seq(Nat \X Nat)
      /\ file' = file /\ active' = active /\ range' = range /\ cued' = cued
      /\ content' = content /\ cues' = cues /\ visited' = visited /\ lost' = lost
      /\ source' = source /\ yielded' = yielded /\ index' = index + 1
  BY DEF OrderInv, ScanElement, config
<1>2. index \in DOMAIN file.elements
  BY <1>1 DEF IsFile, ScanElement
<1>3. Covered' = Covered /\ Queues' = Queues /\ cues' = << >>
  BY <1>1 DEF Covered, Queues
<1>4. ASSUME Covered
      PROVE  /\ yielded' \in Seq(Queues)' /\ pending' \in Seq(Queues)'
             /\ Fed(file, active, pushed, asms, Out)'
             /\ \A id \in Nat \X Nat : IsPlace(file, active, id) =>
                  (id \in Members(pushed') <=> id \in Members(pushed) \/ id \in here)
  <2>1. /\ yielded \in Seq(Queues) /\ pending \in Seq(Queues)
        /\ Fed(file, active, pushed, asms, Out)
    BY <1>4 DEF ContentInv
  <2>2. CASE e.kind = "cluster"
    <3> DEFINE blocks == ScanCluster(e, active)
    <3>1. ProcessBlocks(blocks)
      BY <2>2 DEF ScanElement
    <3>2. Reads(file, active, blocks, here)
      BY <1>1, <1>2, ScanReads
    <3> HIDE DEF blocks, here
    <3> QED BY <1>1, <2>1, <3>1, <3>2, ContentFed
  <2>3. CASE e.kind # "cluster"
    <3>1. asms' = asms /\ pending' = pending /\ pushed' = pushed
      BY <2>3 DEF ScanElement
    <3>2. e.blocks = << >>
      <4>1. e \in Element
        BY <1>1, <1>2, ElementOfSeq DEF IsFile
      <4>2. e.kind = "other"
        BY <2>3, <4>1 DEF Element
      <4> QED BY <1>1, <1>2, <4>2 DEF IsFile
    <3>3. \A id : IsPlace(file, active, id) => id[1] # index
      BY <3>2 DEF IsPlace
    <3>4. Out' = Out
      BY <1>1, <3>1 DEF Out
    <3> QED BY <1>1, <1>3, <2>1, <3>1, <3>3, <3>4
  <2> QED BY <2>2, <2>3
<1>5. ASSUME Covered PROVE ScanCovers'
  <2>1. PICK first \in 1 .. index :
          /\ range.lo = {} => first = 1
          /\ Processed({id \in Nat \X Nat : first <= id[1] /\ id[1] < index})
    BY <1>1, <1>5 DEF ContentInv, ScanCovers
  <2>2. first \in 1 .. index + 1
    BY <1>1
  <2>3. Processed({id \in Nat \X Nat : first <= id[1] /\ id[1] < index})'
    <3> SUFFICES ASSUME NEW id \in Nat \X Nat, IsPlace(file, active, id)
                 PROVE  id \in Members(pushed') <=> first <= id[1] /\ id[1] < index + 1
      BY <1>1 DEF Processed
    <3>1. id \in Members(pushed) <=> first <= id[1] /\ id[1] < index
      BY <2>1 DEF Processed
    <3>2. id \in Members(pushed') <=> id \in Members(pushed) \/ id[1] = index
      BY <1>4, <1>5
    <3> DEFINE n == id[1]
    <3>3. n \in Nat /\ first \in Nat /\ first <= index
      BY <1>1
    <3> HIDE DEF n
    <3>4. (first <= n /\ n < index) \/ n = index <=> first <= n /\ n < index + 1
      BY <1>1, <3>3
    <3> QED BY <3>1, <3>2, <3>4 DEF n
  <2> QED BY <1>1, <2>1, <2>2, <2>3 DEF ScanCovers
<1> QED BY <1>1, <1>3, <1>4, <1>5 DEF ContentInv

(* And when the next cue point is followed.                                 *)
LEMMA ContentFollows ==
  ASSUME OrderInv, ContentInv, FollowCue
  PROVE  ContentInv'
<1> DEFINE c == cues[index]
           read == CueBlocks(file.elements, c, active, visited)
           here == IF c.rel = {} /\ c.cluster \in visited THEN {}
                   ELSE {id \in Nat \X Nat : ReachedBy(id, c)}
<1>1. /\ source = "cues" /\ cues # << >> /\ IsFile(file) /\ index \in Nat \ {0}
      /\ cues \in Seq(Cue) /\ index <= Len(cues)
      /\ cued => FullyCued(file, active)
      /\ pushed \in Seq(Nat \X Nat)
  BY DEF OrderInv, CuesInv, FollowCue
<1>2. /\ file' = file /\ active' = active /\ range' = range /\ cued' = cued
      /\ content' = content /\ cues' = cues /\ lost' = lost
      /\ source' = source /\ yielded' = yielded /\ index' = index + 1
      /\ visited' = read.visited /\ ProcessBlocks(read.blocks)
  BY DEF FollowCue, config
<1>3. index \in DOMAIN cues
  BY <1>1
<1>4. Covered' = Covered /\ Queues' = Queues /\ FilteredCues' = FilteredCues
  BY <1>2 DEF Covered, Queues, FilteredCues
<1>5. ASSUME Covered
      PROVE  /\ yielded' \in Seq(Queues)' /\ pending' \in Seq(Queues)'
             /\ Fed(file, active, pushed, asms, Out)'
             /\ CuesCover'
  <2>1. /\ yielded \in Seq(Queues) /\ pending \in Seq(Queues)
        /\ Fed(file, active, pushed, asms, Out) /\ CuesCover
        /\ FullyCued(file, active)
        /\ \A e \in DOMAIN file.elements : file.elements[e].known
    BY <1>1, <1>5 DEF ContentInv, Covered
  <2>2. c \in Members(file.cues) /\ c.trk \in active
    BY <1>1, <1>3, <2>1, FollowedCue DEF CuesCover
  <2>3. CueReads(file, active, c, visited)
    <3> HIDE DEF c
    <3> QED BY <1>1, <2>1, <2>2, CueIsRead
  <2>4. /\ Reads(file, active, read.blocks, here)
        /\ visited' = IF c.rel = {} THEN visited \cup {c.cluster} ELSE visited
    BY <1>2, <2>3 DEF CueReads
  <2>5. /\ yielded' \in Seq(Queues)' /\ pending' \in Seq(Queues)'
        /\ Fed(file, active, pushed, asms, Out)'
        /\ \A id \in Nat \X Nat : IsPlace(file, active, id) =>
             (id \in Members(pushed') <=> id \in Members(pushed) \/ id \in here)
    <3> DEFINE blocks == read.blocks
               ids == here
    <3>1. Reads(file, active, blocks, ids) /\ ProcessBlocks(blocks)
      BY <1>2, <2>4
    <3> HIDE DEF blocks, ids
    <3>2. /\ yielded' \in Seq(Queues)' /\ pending' \in Seq(Queues)'
          /\ Fed(file, active, pushed, asms, Out)'
          /\ \A id \in Nat \X Nat : IsPlace(file, active, id) =>
               (id \in Members(pushed') <=> id \in Members(pushed) \/ id \in ids)
      BY <1>1, <1>2, <2>1, <3>1, ContentFed
    <3> QED BY <3>2 DEF ids
  <2> HIDE DEF read
  <2>6. \A id : Reached(id)' <=> Reached(id) \/ ReachedBy(id, c)
    <3> SUFFICES ASSUME NEW id
                 PROVE  (\E i \in 1 .. index : i \in DOMAIN cues /\ ReachedBy(id, cues[i]))
                          <=> Reached(id) \/ ReachedBy(id, c)
      BY <1>1, <1>2 DEF Reached
    <3>1. \A i \in 1 .. index : i = index \/ i \in 1 .. index - 1
      BY <1>1
    <3>2. index \in 1 .. index /\ 1 .. index - 1 \subseteq 1 .. index
      BY <1>1
    <3> QED BY <1>3, <3>1, <3>2 DEF Reached
  <2>7. c.rel = {} /\ c.cluster \in visited => \A id : ReachedBy(id, c) => Reached(id)
    <3> SUFFICES ASSUME c.rel = {}, c.cluster \in visited, NEW id, ReachedBy(id, c)
                 PROVE  Reached(id)
      OBVIOUS
    <3>1. PICK j \in 1 .. index - 1 :
            j \in DOMAIN cues /\ cues[j].rel = {} /\ cues[j].cluster = c.cluster
      BY <2>1 DEF CuesCover
    <3>2. ReachedBy(id, cues[j])
      BY <3>1 DEF ReachedBy
    <3> QED BY <3>1, <3>2 DEF Reached
  <2>8. Processed({id \in Nat \X Nat : Reached(id)})'
    <3> SUFFICES ASSUME NEW id \in Nat \X Nat, IsPlace(file, active, id)
                 PROVE  id \in Members(pushed') <=> Reached(id)'
      BY <1>2 DEF Processed
    <3>1. id \in Members(pushed) <=> Reached(id)
      BY <2>1 DEF CuesCover, Processed
    <3>2. id \in Members(pushed') <=> id \in Members(pushed) \/ id \in here
      BY <2>5
    <3>3. id \in here <=> ReachedBy(id, c) /\ ~ (c.rel = {} /\ c.cluster \in visited)
      <4> HIDE DEF c
      <4> QED OBVIOUS
    <3> HIDE DEF here, c
    <3> QED BY <2>6, <2>7, <3>1, <3>2, <3>3
  <2>9. ASSUME NEW v \in visited'
        PROVE  \E j \in 1 .. index : j \in DOMAIN cues /\ cues[j].rel = {} /\ cues[j].cluster = v
    <3>1. CASE v \in visited
      <4>1. PICK j \in 1 .. index - 1 :
              j \in DOMAIN cues /\ cues[j].rel = {} /\ cues[j].cluster = v
        BY <2>1, <3>1 DEF CuesCover
      <4>2. j \in 1 .. index
        BY <1>1
      <4> QED BY <4>1, <4>2
    <3>2. CASE v \notin visited
      <4>1. c.rel = {} /\ v = c.cluster
        BY <2>4, <2>9, <3>2
      <4>2. index \in 1 .. index
        BY <1>1
      <4> QED BY <1>3, <4>1, <4>2
    <3> QED BY <3>1, <3>2
  <2>10. index' - 1 = index /\ cues' = FilteredCues'
    BY <1>1, <1>2, <1>4, <2>1 DEF CuesCover
  <2>11. CuesCover'
    <3> HIDE DEF here, c
    <3> QED BY <1>2, <2>8, <2>9, <2>10 DEF CuesCover
  <2> QED BY <2>5, <2>11
<1> HIDE DEF read, here, c
<1> QED BY <1>1, <1>2, <1>4, <1>5 DEF ContentInv

LEMMA ContentStep == OrderInv /\ ContentInv /\ [Next]_vars => ContentInv'
<1> SUFFICES ASSUME OrderInv, ContentInv, [Next]_vars
             PROVE  ContentInv'
  OBVIOUS
<1>1. CASE InitWithoutClusters \/ SourceUsedUp \/ MeetCutOff \/ ReadFails
  <2>1. /\ Fixed /\ source' # "uninit"
        /\ UNCHANGED << cues, index, visited, asms, yielded, pending, pushed, lost >>
    BY <1>1 DEF InitWithoutClusters, SourceUsedUp, MeetCutOff, ReadFails, Halt, Stop, config, Fixed
  <2> QED BY <2>1, ContentKept
<1>2. CASE UNCHANGED vars
  <2>1. /\ Fixed /\ UNCHANGED << source, visited >>
        /\ UNCHANGED << cues, index, visited, asms, yielded, pending, pushed, lost >>
    BY <1>2 DEF vars, config, Fixed
  <2> QED BY <2>1, ContentKept
<1>3. CASE HeaderUnreadable
  <2>1. ~ Covered' /\ source' # "uninit" /\ Fixed
    BY <1>3 DEF HeaderUnreadable, Covered, Stop, config, Fixed
  <2> QED BY <2>1 DEF ContentInv, Fixed
<1> QED BY <1>1, <1>2, <1>3, ContentPops, ContentSource, ContentScans, ContentFollows DEF Next

(* The invariant says it: what has been processed has no gap, neither when  *)
(* the file is scanned nor when cue points are followed.                    *)
LEMMA CoveredWithoutGap ==
  ASSUME OrderInv, ContentInv, Covered, NEW t \in active
  PROVE  /\ Gapless(file, active, t, pushed)
         /\ range.lo = {} => FromTheFirst(file, active, t, pushed)
<1>1. IsFile(file) /\ index \in Nat \ {0} /\ range.lo \subseteq Nat /\ range.hi \subseteq Nat
  BY DEF OrderInv, ContentInv
<1>2. \A id : OfTheTrack(file, active, t, id) => id \in Nat \X Nat /\ IsPlace(file, active, id)
  BY DEF OfTheTrack
<1>3. CASE cues = << >>
  <2>1. PICK first \in 1 .. index :
          /\ range.lo = {} => first = 1
          /\ Processed({id \in Nat \X Nat : first <= id[1] /\ id[1] < index})
    BY <1>3 DEF ContentInv, ScanCovers
  <2>2. \A id : OfTheTrack(file, active, t, id) =>
          (id \in Members(pushed) <=> first <= id[1] /\ id[1] < index)
    BY <1>2, <2>1 DEF Processed
  <2>3. \A x, y : << x, y >> \in Ahead => x[1] \in Nat /\ y[1] \in Nat /\ x[1] <= y[1]
    BY DEF Ahead
  <2>4. \A id : OfTheTrack(file, active, t, id) => 1 <= id[1]
    BY <1>1, <1>2 DEF IsPlace, IsFile
  <2>5. first \in Nat
    OBVIOUS
  <2>6. Gapless(file, active, t, pushed)
    <3> SUFFICES ASSUME NEW x, NEW y, NEW z, OfTheTrack(file, active, t, x),
                        OfTheTrack(file, active, t, y), OfTheTrack(file, active, t, z),
                        << x, y >> \in Ahead, << y, z >> \in Ahead,
                        x \in Members(pushed), z \in Members(pushed)
                 PROVE  y \in Members(pushed)
      BY DEF Gapless
    <3>1. first <= x[1] /\ z[1] < index /\ x[1] <= y[1] /\ y[1] <= z[1]
          /\ x[1] \in Nat /\ y[1] \in Nat /\ z[1] \in Nat
      BY <2>2, <2>3
    <3>2. first <= y[1] /\ y[1] < index
      BY <1>1, <2>5, <3>1
    <3> QED BY <2>2, <3>2
  <2>7. ASSUME range.lo = {} PROVE FromTheFirst(file, active, t, pushed)
    <3> SUFFICES ASSUME NEW x, NEW y, OfTheTrack(file, active, t, x),
                        OfTheTrack(file, active, t, y),
                        << x, y >> \in Ahead, y \in Members(pushed)
                 PROVE  x \in Members(pushed)
      BY DEF FromTheFirst
    <3>1. y[1] < index /\ x[1] <= y[1] /\ x[1] \in Nat /\ y[1] \in Nat /\ 1 <= x[1] /\ first = 1
      BY <2>1, <2>2, <2>3, <2>4, <2>7
    <3>2. first <= x[1] /\ x[1] < index
      BY <1>1, <3>1
    <3> QED BY <2>2, <3>2
  <2> QED BY <2>6, <2>7
<1>4. CASE cues # << >>
  <2>1. /\ FullyCued(file, active) /\ TimesAscend(file, active) /\ cues = FilteredCues
        /\ Processed({id \in Nat \X Nat : Reached(id)})
    BY <1>4 DEF OrderInv, ContentInv, Covered, CuesCover
  <2>2. \A id : OfTheTrack(file, active, t, id) => (id \in Members(pushed) <=> Reached(id))
    BY <1>2, <2>1 DEF Processed
  <2>3. Gapless(file, active, t, pushed)
    <3> SUFFICES ASSUME NEW x, NEW y, NEW z, OfTheTrack(file, active, t, x),
                        OfTheTrack(file, active, t, y), OfTheTrack(file, active, t, z),
                        << x, y >> \in Ahead, << y, z >> \in Ahead,
                        x \in Members(pushed), z \in Members(pushed)
                 PROVE  y \in Members(pushed)
      BY DEF Gapless
    <3>1. Reached(x) /\ Reached(z)
      BY <2>2
    <3>2. Reached(y)
      BY <1>1, <2>1, <3>1, ReachedInFront
    <3> QED BY <2>2, <3>2
  <2>4. ASSUME range.lo = {} PROVE FromTheFirst(file, active, t, pushed)
    <3> SUFFICES ASSUME NEW x, NEW y, OfTheTrack(file, active, t, x),
                        OfTheTrack(file, active, t, y),
                        << x, y >> \in Ahead, y \in Members(pushed)
                 PROVE  x \in Members(pushed)
      BY DEF FromTheFirst
    <3>1. Reached(y)
      BY <2>2
    <3>2. Reached(x)
      BY <1>1, <2>1, <2>4, <3>1, ReachedInFront
    <3> QED BY <2>2, <3>2
  <2> QED BY <2>3, <2>4
<1> QED BY <1>3, <1>4

(* The display sets handed out for a track follow one another in the file,  *)
(* none left out, repeated or made up, for every file, range and track      *)
(* filter, whatever read fails and wherever the scan starts                 *)
(* (stream.rs:205-263, 265-290).                                            *)
THEOREM YieldsWhatTheFileHolds == Spec => []YieldsContent
<1>1. OrderInv /\ ContentInv => YieldsContent
  <2> SUFFICES ASSUME OrderInv, ContentInv, Covered, NEW t \in active
               PROVE  LET out == OutOf(t)
                      IN  \E from \in IF range.lo = {} THEN {0} ELSE 0 .. Len(content[t]) :
                            /\ from + Len(out) <= Len(content[t])
                            /\ out = SubSeq(content[t], from + 1, from + Len(out))
    BY DEF YieldsContent, Covered
  <2>1. IsFile(file) /\ pushed \in Seq(Nat \X Nat) /\ Chain(pushed, Ahead)
    BY DEF OrderInv, Covered
  <2>2. Fed(file, active, pushed, asms, Out) /\ Out \in Seq(Queues)
    BY DEF ContentInv, Fed, IsFeedState, Queues
  <2>3. /\ Gapless(file, active, t, pushed)
        /\ range.lo = {} => FromTheFirst(file, active, t, pushed)
    BY CoveredWithoutGap
  <2>4. YieldsStretch(file, active, t, pushed, Out)
    BY <2>1, <2>2, <2>3, StretchOfContent
  <2>5. content[t] = Content(file.elements, t)
    BY DEF ContentInv
  <2> DEFINE out == OutOf(t)
  <2>6. PICK from : IsStretch(out, content[t], from) /\ (range.lo = {} => from = 0)
    BY <2>3, <2>4, <2>5 DEF YieldsStretch, OutOf
  <2>7. Len(out) \in Nat
    <3>1. out \in Seq(AssembledSets(Segment, Nat, States))
      BY <2>2, SetsOfTrackConcat DEF OutOf, Queues
    <3> QED BY <3>1
  <2>8. Len(content[t]) \in Nat
    <3>1. Kept(file, active, t) \in Seq(OfTracks(active))
      BY <2>1, KeptIs
    <3>2. Log(Kept(file, active, t), ItemOf(active)) \in Seq(Segment)
      BY <3>1, ItemsTyped, LogTyped
    <3>3. SetsIn(Log(Kept(file, active, t), ItemOf(active)))
            \in Seq(AssembledSets(Segment, Nat, States))
      <4> DEFINE l == Log(Kept(file, active, t), ItemOf(active))
      <4> HIDE DEF l
      <4>1. l \in Seq(Segment)
        BY <3>2 DEF l
      <4>2. PICK f \in [0 .. Len(l) -> Seq(AssembledSets(Segment, Nat, States))] :
              SetsIn(l) = f[Len(l)]
        BY <4>1, SegmentsLogged, SetsExist
      <4>3. Len(l) \in 0 .. Len(l)
        BY <4>1
      <4>4. SetsIn(l) \in Seq(AssembledSets(Segment, Nat, States))
        BY <4>2, <4>3
      <4> QED BY <4>4 DEF l
    <3>4. content[t] = SetsIn(Log(Kept(file, active, t), ItemOf(active)))
      BY <2>1, <2>5, ContentOf
    <3> QED BY <3>3, <3>4
  <2> HIDE DEF out
  <2>9. /\ from \in IF range.lo = {} THEN {0} ELSE 0 .. Len(content[t])
        /\ from + Len(out) <= Len(content[t])
        /\ out = SubSeq(content[t], from + 1, from + Len(out))
    BY <2>6, <2>7, <2>8 DEF IsStretch
  <2> QED BY <2>9 DEF out
<1> QED
  BY <1>1, OrderInit, OrderStep, ContentInit, ContentStep, PTL DEF Spec
-----------------------------------------------------------------------------
JoinInv ==
  /\ workers \in Nat
  /\ Workers \subseteq 1 .. workers
  /\ outcome \in {"call", "none", "join", "ok", "err", "panic"}
  /\ outcome \in {"call", "none"} => Workers = {}
  /\ FailureIsReported

LEMMA JoinInit == CollectInit => JoinInv
BY WorkerAssumption DEF CollectInit, JoinInv, Workers, FailureIsReported

LEMMA PartitionIsDealtToWorkers ==
  ASSUME NEW s, NEW n \in Nat
  PROVE  DOMAIN Partition(s, n) \subseteq 1 .. n
BY DEF Partition

(* Nothing is behind the least member of a set of one.                     *)
LEMMA NoneBehindTheOnlyOne ==
  ASSUME NEW S, S \subseteq Nat, Cardinality(S) = 1, IsFiniteSet(S), NEW w \in S
  PROVE  ~ (w > Min(S))
<1>1. PICK x : S = {x}
  BY FS_Singleton
<1>2. Min(S) = x
  BY <1>1 DEF Min
<1> QED
  BY <1>1, <1>2

LEMMA WorkerKeepsJoinInv ==
  ASSUME JoinInv, NEW w \in Workers, WorkerStep(w)
  PROVE  JoinInv'
<1>1. outcome = "join" /\ outcome' = outcome /\ chunks' = chunks /\ workers' = workers
  <2>1. Running(w) /\ outcome' = outcome /\ chunks' = chunks /\ workers' = workers
    BY DEF WorkerStep, WorkerProceeds, WorkerFinishes, WorkerFails, WorkerReads, WorkerMeetsCutOff,
       WorkerMeetsUnreadableHeader, WorkerStops, request
  <2> QED
    BY <2>1 DEF JoinInv, FailureIsReported
<1> QED
  BY <1>1 DEF JoinInv, FailureIsReported, Workers

LEMMA MainKeepsJoinInv ==
  ASSUME JoinInv, MainStep
  PROVE  JoinInv'
<1>1. CASE NotApplicable
  BY <1>1 DEF NotApplicable, JoinInv, FailureIsReported, Workers, request
<1>2. CASE Spawn
  <2>1. outcome' = "join" /\ workers' = workers
    BY <1>2 DEF Spawn, request
  <2>2. Workers' \subseteq 1 .. workers
    BY <1>2, PartitionIsDealtToWorkers DEF Spawn, JoinInv, Workers
  <2> QED
    BY <2>1, <2>2 DEF JoinInv, FailureIsReported
<1>3. CASE JoinFails
  <2>1. /\ \A w \in Workers : ~ Running(w)
        /\ Failed # {} /\ Failed \subseteq Workers
        /\ chunks' = chunks /\ status' = status /\ workers' = workers
    BY <1>3 DEF JoinFails, Failed, request, threads
  <2>2. outcome' = IF \E w \in Failed : w > Min(Failed) /\ status[w] = "panic"
                   THEN "panic" ELSE "err"
    BY <1>3 DEF JoinFails
  <2>3. ASSUME Cardinality(Failed) = 1
        PROVE  outcome' = "err"
    <3>1. Failed \subseteq 1 .. workers /\ Failed \subseteq Nat
      BY <2>1 DEF JoinInv
    <3>2. IsFiniteSet(Failed)
      <4>1. IsFiniteSet(1 .. workers)
        BY FS_Interval DEF JoinInv
      <4> QED
        BY <3>1, <4>1, FS_Subset
    <3> QED
      BY <2>2, <2>3, <3>1, <3>2, NoneBehindTheOnlyOne
  <2>4. Workers' = Workers /\ Failed' = Failed /\ \A w : Running(w)' = Running(w)
    BY <2>1 DEF Workers, Failed, Running
  <2>5. outcome' \in {"err", "panic"}
    BY <2>2
  <2> QED
    BY <2>1, <2>3, <2>4, <2>5 DEF JoinInv, FailureIsReported
<1>4. CASE Assemble
  <2>1. /\ \A w \in Workers : status[w] = "ok"
        /\ outcome' = "ok" /\ chunks' = chunks /\ status' = status /\ workers' = workers
    BY <1>4 DEF Assemble, request, threads
  <2>2. Workers' = Workers /\ Failed' = {} /\ \A w \in Workers : ~ Running(w)'
    BY <2>1 DEF Workers, Failed, Running
  <2>3. Cardinality(Failed') # 1
    BY <2>2, FS_EmptySet
  <2> QED
    BY <2>1, <2>2, <2>3 DEF JoinInv, FailureIsReported
<1> QED
  BY <1>1, <1>2, <1>3, <1>4 DEF MainStep

LEMMA JoinStep == JoinInv /\ [CollectNext]_collectVars => JoinInv'
<1>1. ASSUME JoinInv, UNCHANGED collectVars
      PROVE  JoinInv'
  BY <1>1 DEF JoinInv, FailureIsReported, Workers, Failed, Running, collectVars, request, threads
<1> QED
  BY <1>1, WorkerKeepsJoinInv, MainKeepsJoinInv DEF CollectNext

(* No result of the call hides a worker that failed or still runs          *)
(* (mod.rs:320-345).                                                       *)
THEOREM FailuresAreReported == CollectSpec => []FailureIsReported
<1>1. JoinInv => FailureIsReported
  BY DEF JoinInv
<1> QED
  BY <1>1, JoinInit, JoinStep, PTL DEF CollectSpec
-----------------------------------------------------------------------------
(* The order of the indices of a stable sort by the keys a, then b.         *)
ByKeys(R, n, a, b) ==
  LET before(i, j) == a[i] < a[j] \/ (a[i] = a[j] /\ b[i] < b[j])
  IN  \A i, j \in 1 .. n :
        << i, j >> \in R <=> before(i, j) \/ (~ before(j, i) /\ i <= j)

(* It puts them in a line.                                                  *)
LEMMA KeysInALine ==
  ASSUME NEW n \in Nat, NEW a \in [1 .. n -> Int], NEW b \in [1 .. n -> Int],
         NEW R, ByKeys(R, n, a, b)
  PROVE  IsLine(R, n)
<1> DEFINE before(i, j) == a[i] < a[j] \/ (a[i] = a[j] /\ b[i] < b[j])
<1>1. \A i \in 1 .. n : a[i] \in Int /\ b[i] \in Int
  OBVIOUS
<1>2. \A i, j \in 1 .. n : << i, j >> \in R <=> before(i, j) \/ (~ before(j, i) /\ i <= j)
  BY DEF ByKeys
<1>3. ASSUME NEW i \in 1 .. n, NEW j \in 1 .. n
      PROVE  << i, j >> \in R \/ << j, i >> \in R
  BY <1>1, <1>2
<1>4. ASSUME NEW i \in 1 .. n, NEW j \in 1 .. n, << i, j >> \in R, << j, i >> \in R
      PROVE  i = j
  <2>1. /\ before(i, j) \/ (~ before(j, i) /\ i <= j)
        /\ before(j, i) \/ (~ before(i, j) /\ j <= i)
    BY <1>2, <1>4
  <2>2. /\ a[i] \in Int /\ a[j] \in Int /\ b[i] \in Int /\ b[j] \in Int
        /\ i \in Int /\ j \in Int
    BY <1>1
  <2> QED
    BY <2>1, <2>2
<1>5. ASSUME NEW i \in 1 .. n, NEW j \in 1 .. n, NEW k \in 1 .. n,
             << i, j >> \in R, << j, k >> \in R
      PROVE  << i, k >> \in R
  <2>1. /\ before(i, j) \/ (~ before(j, i) /\ i <= j)
        /\ before(j, k) \/ (~ before(k, j) /\ j <= k)
    BY <1>2, <1>5
  <2>2. /\ a[i] \in Int /\ a[j] \in Int /\ a[k] \in Int
        /\ b[i] \in Int /\ b[j] \in Int /\ b[k] \in Int
        /\ i \in Int /\ j \in Int /\ k \in Int
    BY <1>1
  <2>3. before(i, k) \/ (~ before(k, i) /\ i <= k)
    BY <2>1, <2>2
  <2> QED
    BY <1>2, <2>3
<1> QED
  BY <1>3, <1>4, <1>5 DEF IsLine

(* The entries of s, each in the place that R gives it.                     *)
ByPlace(s, R) ==
  [k \in DOMAIN s |-> s[CHOOSE i \in DOMAIN s : Cardinality(UpTo(R, Len(s), i)) = k]]

(* of says where the entries of r have been taken from.                     *)
Sorts(of, s, r, R) ==
  /\ Len(r) = Len(s) /\ of \in [1 .. Len(s) -> 1 .. Len(s)]
  /\ \A k \in 1 .. Len(s) : r[k] = s[of[k]]
  /\ \A i \in 1 .. Len(s) : \E k \in 1 .. Len(s) : of[k] = i
  /\ \A j, k \in 1 .. Len(s) : j < k => << of[j], of[k] >> \in R /\ of[j] # of[k]

LEMMA Sorting ==
  ASSUME NEW X, NEW s \in Seq(X), NEW R, IsLine(R, Len(s))
  PROVE  ByPlace(s, R) \in Seq(X) /\ \E of : Sorts(of, s, ByPlace(s, R), R)
<1> DEFINE r == ByPlace(s, R)
           n == Len(s)
           place == [i \in 1 .. n |-> Cardinality(UpTo(R, n, i))]
           of == [k \in 1 .. n |-> CHOOSE i \in 1 .. n : place[i] = k]
<1>1. n \in Nat /\ DOMAIN s = 1 .. n /\ \A i \in 1 .. n : s[i] \in X
  OBVIOUS
<1>2. /\ \A k \in 1 .. n : \E i \in 1 .. n : place[i] = k
      /\ \A i \in 1 .. n : place[i] \in 1 .. n
      /\ \A i, j \in 1 .. n : /\ place[i] < place[j] => << i, j >> \in R
                              /\ place[i] = place[j] => i = j
  BY <1>1, Places
<1>3. r = [k \in 1 .. n |-> s[of[k]]]
  <2> DEFINE pick(k) == CHOOSE i \in DOMAIN s : Cardinality(UpTo(R, Len(s), i)) = k
  <2>1. r = [k \in DOMAIN s |-> s[pick(k)]]
    BY DEF ByPlace
  <2>2. \A k \in 1 .. n : pick(k) = of[k]
    <3> TAKE k \in 1 .. n
    <3>1. \A i \in 1 .. n : place[i] = Cardinality(UpTo(R, Len(s), i))
      OBVIOUS
    <3>2. of[k] = CHOOSE i \in 1 .. n : place[i] = k
      OBVIOUS
    <3> HIDE DEF place, of, n
    <3>3. pick(k) = CHOOSE i \in 1 .. n : Cardinality(UpTo(R, Len(s), i)) = k
      BY <1>1
    <3> QED
      BY <3>1, <3>2, <3>3
  <2> HIDE DEF of, pick, r
  <2> QED
    BY <1>1, <2>1, <2>2
<1> HIDE DEF n, place, r
<1>4. \A k \in 1 .. n : of[k] \in 1 .. n /\ place[of[k]] = k
  BY <1>2
<1>5. of \in [1 .. n -> 1 .. n]
  BY <1>4
<1> HIDE DEF of
<1>6. r \in Seq(X) /\ Len(r) = n /\ \A k \in 1 .. n : r[k] = s[of[k]]
  <2>1. r \in [1 .. n -> X]
    BY <1>1, <1>3, <1>4
  <2>2. r \in Seq(X) /\ Len(r) = n
    BY <1>1, <2>1
  <2> QED
    BY <1>3, <2>2
<1>7. ASSUME NEW j \in 1 .. n, NEW k \in 1 .. n, j < k
      PROVE  << of[j], of[k] >> \in R /\ of[j] # of[k]
  <2>1. of[j] \in 1 .. n /\ of[k] \in 1 .. n /\ place[of[j]] < place[of[k]]
    BY <1>4, <1>7
  <2>2. of[j] # of[k]
    BY <1>4, <1>7
  <2> QED
    BY <1>2, <2>1, <2>2
<1>8. \A i \in 1 .. n : \E k \in 1 .. n : of[k] = i
  <2> TAKE i \in 1 .. n
  <2>1. place[i] \in 1 .. n /\ of[place[i]] \in 1 .. n /\ place[of[place[i]]] = place[i]
    BY <1>2, <1>4
  <2>2. of[place[i]] = i
    BY <1>2, <2>1
  <2> QED
    BY <2>1, <2>2
<1> QED
  BY <1>5, <1>6, <1>7, <1>8 DEF Sorts, n, r

(* The order of SortedCues, with the place of a cue in the file last.       *)
NotBehind(s) ==
  {y \in (1 .. Len(s)) \X (1 .. Len(s)) :
     Sooner(s[y[1]], s[y[2]]) \/ (~ Sooner(s[y[2]], s[y[1]]) /\ y[1] <= y[2])}

LEMMA CuesInALine ==
  ASSUME NEW s \in Seq(Cue)
  PROVE  IsLine(NotBehind(s), Len(s))
<1> DEFINE n == Len(s)
           a == [i \in 1 .. n |-> s[i].cluster]
           b == [i \in 1 .. n |-> Relative(s[i])]
<1>1. n \in Nat
  OBVIOUS
<1>2. \A i \in 1 .. n : s[i].cluster \in Nat /\ Relative(s[i]) \in Nat
  <2> SUFFICES ASSUME NEW i \in 1 .. n
               PROVE  s[i].cluster \in Nat /\ Relative(s[i]) \in Nat
    OBVIOUS
  <2>1. s[i] \in Cue
    BY ElementOfSeq
  <2>2. s[i].cluster \in Nat /\ s[i].rel \subseteq Nat
    BY <2>1 DEF Cue
  <2>3. Relative(s[i]) \in Nat
    BY <2>2 DEF Relative
  <2> QED
    BY <2>2, <2>3
<1>3. a \in [1 .. n -> Int] /\ b \in [1 .. n -> Int]
  BY <1>2
<1>4. ByKeys(NotBehind(s), n, a, b)
  BY DEF ByKeys, NotBehind, Sooner
<1> HIDE DEF a, b
<1> QED
  BY <1>1, <1>3, <1>4, KeysInALine

(* The sorted cue points are those of the file, in that order.              *)
LEMMA SortedFrom ==
  ASSUME file.cues \in Seq(Cue)
  PROVE  /\ SortedCues \in Seq(Cue)
         /\ \E of : Sorts(of, file.cues, SortedCues, NotBehind(file.cues))
<1> DEFINE s == file.cues
           n == Len(s)
           R == NotBehind(s)
           down(i) == {j \in DOMAIN s : Sooner(s[j], s[i]) \/ (~ Sooner(s[i], s[j]) /\ j <= i)}
           picked(i) == Cardinality(down(i))
           placed(i) == Cardinality(UpTo(R, n, i))
<1>1. SortedCues = [k \in DOMAIN s |-> s[CHOOSE i \in DOMAIN s : picked(i) = k]]
  BY DEF SortedCues, StableSort
<1>2. \A i \in DOMAIN s : picked(i) = placed(i)
  <2>1. \A i \in DOMAIN s : down(i) = UpTo(R, n, i)
    BY DEF UpTo, NotBehind
  <2> HIDE DEF down
  <2> QED
    BY <2>1
<1>3. IsLine(R, n)
  BY CuesInALine
<1>4. ByPlace(s, R) = [k \in DOMAIN s |-> s[CHOOSE i \in DOMAIN s : placed(i) = k]]
  BY DEF ByPlace
<1> HIDE DEF s, picked, placed, R
<1>5. \A k : (CHOOSE i \in DOMAIN s : picked(i) = k) = (CHOOSE i \in DOMAIN s : placed(i) = k)
  BY <1>2
<1>6. SortedCues = ByPlace(s, R)
  BY <1>1, <1>4, <1>5
<1>7. s \in Seq(Cue)
  BY DEF s
<1> QED
  BY <1>3, <1>6, <1>7, Sorting DEF s, R

(* They are in the order of their Clusters.                                 *)
LEMMA SortedByCluster ==
  ASSUME file.cues \in Seq(Cue)
  PROVE  /\ SortedCues \in Seq(Cue) /\ Len(SortedCues) = Len(file.cues)
         /\ Members(SortedCues) = Members(file.cues)
         /\ \A j, k \in 1 .. Len(SortedCues) :
              j < k => SortedCues[j].cluster <= SortedCues[k].cluster
<1> DEFINE s == file.cues
           n == Len(s)
           r == SortedCues
<1>1. r \in Seq(Cue) /\ n \in Nat /\ DOMAIN s = 1 .. n
  BY SortedFrom
<1>2. PICK of : Sorts(of, s, r, NotBehind(s))
  BY SortedFrom
<1> HIDE DEF r
<1>3. /\ Len(r) = n /\ of \in [1 .. n -> 1 .. n] /\ DOMAIN r = 1 .. n
      /\ \A k \in 1 .. n : r[k] = s[of[k]]
      /\ \A i \in 1 .. n : \E k \in 1 .. n : of[k] = i
      /\ \A j, k \in 1 .. n : j < k => << of[j], of[k] >> \in NotBehind(s)
  BY <1>1, <1>2 DEF Sorts
<1>4. Members(r) = Members(s)
  <2>1. ASSUME NEW k \in 1 .. n
        PROVE  r[k] \in Members(s)
    BY <1>1, <1>3 DEF Members
  <2>2. ASSUME NEW i \in 1 .. n
        PROVE  s[i] \in Members(r)
    BY <1>1, <1>3 DEF Members
  <2>3. Members(r) = {r[k] : k \in 1 .. n} /\ Members(s) = {s[i] : i \in 1 .. n}
    BY <1>1, <1>3 DEF Members
  <2> QED
    BY <2>1, <2>2, <2>3
<1>5. \A i, j \in 1 .. n : << i, j >> \in NotBehind(s) => s[i].cluster <= s[j].cluster
  <2> SUFFICES ASSUME NEW i \in 1 .. n, NEW j \in 1 .. n, << i, j >> \in NotBehind(s)
               PROVE  s[i].cluster <= s[j].cluster
    OBVIOUS
  <2>1. s[i] \in Cue /\ s[j] \in Cue
    BY ElementOfSeq
  <2>2. s[i].cluster \in Nat /\ s[j].cluster \in Nat
    BY <2>1 DEF Cue
  <2>3. Sooner(s[i], s[j]) \/ ~ Sooner(s[j], s[i])
    BY DEF NotBehind
  <2> QED
    BY <2>2, <2>3 DEF Sooner
<1>6. ASSUME NEW j \in 1 .. n, NEW k \in 1 .. n, j < k
      PROVE  r[j].cluster <= r[k].cluster
  <2>1. /\ of[j] \in 1 .. n /\ of[k] \in 1 .. n /\ << of[j], of[k] >> \in NotBehind(s)
        /\ r[j] = s[of[j]] /\ r[k] = s[of[k]]
    BY <1>3, <1>6
  <2> QED
    BY <1>5, <2>1
<1> QED
  BY <1>1, <1>3, <1>4, <1>6 DEF r

(* Two workers have no Cluster in common.                                   *)
Apart(c) ==
  \A v, w \in DOMAIN c : v # w =>
    \A i \in DOMAIN c[v], j \in DOMAIN c[w] : c[v][i].cluster # c[w][j].cluster

(* Where a share may end: at either end, or between two Clusters.           *)
Ends(s) == {0, Len(s)} \cup {k \in 1 .. Len(s) - 1 : MayEnd(s, k)}

(* What a worker gets in addition.                                          *)
Deal(s, n) ==
  [y \in (0 .. Len(s)) \X (1 .. n) |->
     Min({Len(s)} \cup
         {k \in 1 .. Len(s) - 1 : /\ y[2] < n /\ MayEnd(s, k)
                                  /\ k >= ((Len(s) + n - 1) \div n) + y[1]})]

(* It is not less than nothing, and ends where a share may end.             *)
LEMMA DealEnds ==
  ASSUME NEW s \in Seq(Cue), NEW n \in Nat \ {0}
  PROVE  /\ Deal(s, n) \in [(0 .. Len(s)) \X (1 .. n) -> 0 .. Len(s)]
         /\ \A d \in 0 .. Len(s), w \in 1 .. n :
              d <= Deal(s, n)[<< d, w >>] /\ Deal(s, n)[<< d, w >>] \in Ends(s)
<1> DEFINE L == Len(s)
           share == (L + n - 1) \div n
           K(d, w) == {L} \cup {k \in 1 .. L - 1 : /\ w < n /\ MayEnd(s, k)
                                                   /\ k >= share + d}
<1>1. L \in Nat
  OBVIOUS
<1>2. share \in Nat
  <2> HIDE DEF L
  <2> QED
    BY <1>1
<1>3. \A d \in 0 .. L, w \in 1 .. n : Deal(s, n)[<< d, w >>] = Min(K(d, w))
  BY DEF Deal
<1> HIDE DEF share
<1>4. ASSUME NEW d \in 0 .. L, NEW w \in 1 .. n
      PROVE  Min(K(d, w)) \in 0 .. L /\ d <= Min(K(d, w)) /\ Min(K(d, w)) \in Ends(s)
  <2>1. K(d, w) \in SUBSET Nat /\ K(d, w) # {}
    BY <1>1
  <2>2. Min(K(d, w)) \in K(d, w)
    <3> HIDE DEF K
    <3>1. \E x \in K(d, w) : \A y \in K(d, w) : x <= y
      BY <2>1, LeastNumber
    <3> QED
      BY <3>1 DEF Min
  <2> QED
    BY <1>1, <1>2, <2>2 DEF Ends
<1>5. Deal(s, n) = [y \in (0 .. L) \X (1 .. n) |-> Min(K(y[1], y[2]))]
  BY DEF Deal, share
<1> HIDE DEF K, L
<1>6. \A y \in (0 .. L) \X (1 .. n) :
        y[1] \in 0 .. L /\ y[2] \in 1 .. n /\ Min(K(y[1], y[2])) \in 0 .. L
  BY <1>4
<1>7. Deal(s, n) \in [(0 .. L) \X (1 .. n) -> 0 .. L]
  BY <1>5, <1>6
<1> QED
  BY <1>3, <1>4, <1>7 DEF L

(* f[w] is how many cue points the first w workers get.                     *)
Dealt(f, s, n) ==
  /\ f \in [0 .. n -> 0 .. Len(s)] /\ f[0] = 0 /\ f[n] = Len(s)
  /\ \A w \in 1 .. n : f[w - 1] <= f[w] /\ f[w] \in Ends(s)
  /\ Partition(s, n) = [w \in {v \in 1 .. n : f[v - 1] < Len(s)} |->
                          SubSeq(s, f[w - 1] + 1, f[w])]

(* The recursive function inside Partition is such an f.                    *)
LEMMA PartitionDeals ==
  ASSUME NEW s \in Seq(Cue), NEW n \in Nat \ {0}
  PROVE  \E f : Dealt(f, s, n)
<1> DEFINE L == Len(s)
           share == (L + n - 1) \div n
           next(d, w) == Min({L} \cup {k \in 1 .. L - 1 : /\ w < n /\ MayEnd(s, k)
                                                          /\ k >= share + d})
           Is(h) == h = [w \in 0 .. n |-> IF w = 0 THEN 0 ELSE next(h[w - 1], w)]
           g == Deal(s, n)
<1>1. L \in Nat
  OBVIOUS
<1>2. /\ g \in [(0 .. L) \X (1 .. n) -> 0 .. L]
      /\ \A d \in 0 .. L, w \in 1 .. n : d <= g[<< d, w >>] /\ g[<< d, w >>] \in Ends(s)
  BY DealEnds
<1>3. \A d \in 0 .. L, w \in 1 .. n : g[<< d, w >>] = next(d, w)
  BY DEF Deal
<1>4. Partition(s, n) = [w \in {v \in 1 .. n : (CHOOSE h : Is(h))[v - 1] < L} |->
                           SubSeq(s, (CHOOSE h : Is(h))[w - 1] + 1, (CHOOSE h : Is(h))[w])]
  BY DEF Partition
<1> HIDE DEF g, next, L
<1>5. PICK f \in [0 .. n -> 0 .. L] : IsRecursive(f, n, 0, g)
  <2> DEFINE D == 0 .. L
  <2>1. 0 \in D /\ g \in [D \X (1 .. n) -> D]
    BY <1>1, <1>2
  <2> HIDE DEF D
  <2>2. \E f \in [0 .. n -> D] : IsRecursive(f, n, 0, g)
    BY <2>1, Recursion
  <2> QED
    BY <2>2 DEF D
<1>6. \A w \in 1 .. n : w - 1 \in 0 .. n /\ w \in 0 .. n /\ w # 0
  OBVIOUS
<1>7. \A w \in 0 .. n : f[w] = IF w = 0 THEN 0 ELSE next(f[w - 1], w)
  <2> SUFFICES ASSUME NEW w \in 0 .. n, w # 0
               PROVE  f[w] = next(f[w - 1], w)
    BY <1>5 DEF IsRecursive
  <2>1. w \in 1 .. n /\ f[w - 1] \in 0 .. L
    BY <1>5
  <2> QED
    BY <1>3, <1>5, <2>1 DEF IsRecursive
<1>8. Is(f)
  BY <1>7
<1>9. Is(CHOOSE h : Is(h))
  <2> HIDE DEF Is
  <2> QED BY <1>8
<1>10. \A h : Is(h) => h = f
  <2> SUFFICES ASSUME NEW h, Is(h)
               PROVE  h = f
    OBVIOUS
  <2> DEFINE T == {w \in 0 .. n : h[w] = f[w]}
  <2>1. \A w \in 0 .. n : h[w] = IF w = 0 THEN 0 ELSE next(h[w - 1], w)
    OBVIOUS
  <2>2. 0 \in T
    BY <1>7, <2>1
  <2>3. ASSUME NEW w \in 0 .. n - 1, w \in T
        PROVE  w + 1 \in T
    <3>1. w + 1 \in 0 .. n /\ w + 1 # 0 /\ (w + 1) - 1 = w
      OBVIOUS
    <3> QED
      BY <1>7, <2>1, <2>3, <3>1
  <2>4. 0 .. n \subseteq T
    <3> HIDE DEF T
    <3> QED BY <2>2, <2>3, Upto
  <2>5. h = [w \in 0 .. n |-> h[w]]
    OBVIOUS
  <2> QED
    BY <2>4, <2>5
<1>11. (CHOOSE h : Is(h)) = f
  BY <1>9, <1>10
<1>12. \A w \in 1 .. n : f[w - 1] <= f[w] /\ f[w] \in Ends(s)
  <2> SUFFICES ASSUME NEW w \in 1 .. n
               PROVE  f[w - 1] <= f[w] /\ f[w] \in Ends(s)
    OBVIOUS
  <2>1. f[w - 1] \in 0 .. L /\ f[w] = g[<< f[w - 1], w >>]
    BY <1>5, <1>6 DEF IsRecursive
  <2> QED
    BY <1>2, <2>1
<1>14. f[0] = 0 /\ f[n] = L
  <2>1. 0 \in 0 .. n /\ n \in 0 .. n /\ n # 0
    OBVIOUS
  <2>2. f[0] = 0 /\ f[n] = next(f[n - 1], n)
    BY <1>7, <2>1
  <2>3. \A d : next(d, n) = Min({L})
    <3>1. \A d : {L} \cup {k \in 1 .. L - 1 : /\ n < n /\ MayEnd(s, k) /\ k >= share + d} = {L}
      OBVIOUS
    <3> QED
      BY <3>1 DEF next
  <2>4. Min({L}) = L
    BY <1>1 DEF Min
  <2> QED
    BY <2>2, <2>3, <2>4
<1>13. Partition(s, n) = [w \in {v \in 1 .. n : f[v - 1] < L} |-> SubSeq(s, f[w - 1] + 1, f[w])]
  <2> HIDE DEF Is
  <2> QED BY <1>4, <1>11
<1> QED
  BY <1>5, <1>12, <1>13, <1>14 DEF Dealt, L

(* Together the first workers get at most what more of them get.            *)
LEMMA DealtAscends ==
  ASSUME NEW s \in Seq(Cue), NEW n \in Nat \ {0}, NEW f, Dealt(f, s, n)
  PROVE  \A v \in 0 .. n : \A w \in v .. n : f[v] <= f[w]
<1>1. /\ Len(s) \in Nat /\ f \in [0 .. n -> 0 .. Len(s)]
      /\ \A w \in 1 .. n : f[w - 1] <= f[w]
  BY DEF Dealt
<1>2. ASSUME NEW v \in 0 .. n
      PROVE  \A w \in v .. n : f[v] <= f[w]
  <2> DEFINE T == {w \in 0 .. n : w >= v => f[v] <= f[w]}
  <2>1. 0 \in T
    BY <1>1
  <2>2. ASSUME NEW w \in 0 .. n - 1, w \in T
        PROVE  w + 1 \in T
    <3>1. w + 1 \in 1 .. n /\ (w + 1) - 1 = w
      OBVIOUS
    <3>2. f[w] <= f[w + 1]
      BY <1>1, <3>1
    <3>3. f[v] \in Nat /\ f[w] \in Nat /\ f[w + 1] \in Nat
      BY <1>1, <3>1
    <3> QED
      BY <2>2, <3>1, <3>2, <3>3
  <2>3. 0 .. n \subseteq T
    <3> HIDE DEF T
    <3> QED
      BY <2>1, <2>2, Upto
  <2> QED
    BY <2>3
<1> QED
  BY <1>2

(* The Clusters of a worker are in front of those of the next.              *)
InTurn(c) ==
  \A v, w \in DOMAIN c : v < w =>
    \A i \in DOMAIN c[v], j \in DOMAIN c[w] : c[v][i].cluster < c[w][j].cluster

(* Every share ends between two Clusters, and the Clusters are in order.    *)
LEMMA SharesApart ==
  ASSUME NEW s \in Seq(Cue), NEW n \in Nat \ {0}, NEW f, Dealt(f, s, n),
         \A j, k \in 1 .. Len(s) : j < k => s[j].cluster <= s[k].cluster
  PROVE  Apart(Partition(s, n)) /\ InTurn(Partition(s, n))
<1> DEFINE L == Len(s)
           c == [k \in 1 .. L |-> s[k].cluster]
           P == Partition(s, n)
<1>1. L \in Nat /\ f \in [0 .. n -> 0 .. L]
  BY DEF Dealt
<1>2. \A k \in 1 .. L : c[k] \in Nat
  <2>1. \A k \in 1 .. L : s[k] \in Cue
    BY ElementOfSeq
  <2> QED BY <2>1 DEF Cue
<1>3. \A j, k \in 1 .. L : j <= k => c[j] <= c[k]
  BY <1>2
<1>4. \A w \in 1 .. n : f[w - 1] <= f[w]
  BY DEF Dealt
<1>5. \A w \in 1 .. n : f[w] \in 1 .. L - 1 => c[f[w]] # c[f[w] + 1]
  <2> SUFFICES ASSUME NEW w \in 1 .. n, f[w] \in 1 .. L - 1
               PROVE  c[f[w]] # c[f[w] + 1]
    OBVIOUS
  <2>1. f[w] \in Ends(s)
    BY DEF Dealt
  <2>2. MayEnd(s, f[w])
    BY <1>1, <2>1 DEF Ends
  <2>3. f[w] \in 1 .. L /\ f[w] + 1 \in 1 .. L
    BY <1>1
  <2> QED
    BY <2>2, <2>3 DEF MayEnd
<1> HIDE DEF c
<1>6. \A v \in 0 .. n : \A w \in v .. n : f[v] <= f[w]
  BY DealtAscends
<1>7. ASSUME NEW w \in DOMAIN P
      PROVE  /\ w \in 1 .. n /\ f[w - 1] < L /\ f[w - 1] \in 0 .. L /\ f[w] \in 0 .. L
             /\ \A i \in DOMAIN P[w] :
                  \E k \in f[w - 1] + 1 .. f[w] : P[w][i].cluster = c[k]
  <2>1. w \in 1 .. n /\ f[w - 1] < L /\ P[w] = SubSeq(s, f[w - 1] + 1, f[w])
    BY <1>1 DEF Dealt
  <2>2. f[w - 1] \in 0 .. L /\ f[w] \in f[w - 1] .. L
    BY <1>1, <1>4, <2>1
  <2>3. /\ Len(P[w]) = f[w] - f[w - 1] /\ P[w] \in Seq(Cue)
        /\ \A i \in 1 .. f[w] - f[w - 1] : P[w][i] = s[f[w - 1] + i]
    <3> DEFINE i == f[w - 1]
               j == f[w]
    <3>1. i \in 0 .. Len(s) /\ j \in i .. Len(s) /\ P[w] = SubSeq(s, i + 1, j)
      BY <2>1, <2>2
    <3> HIDE DEF i, j, P
    <3>2. /\ Len(P[w]) = j - i /\ P[w] \in Seq(Cue)
          /\ \A k \in 1 .. j - i : P[w][k] = s[i + k]
      BY <3>1, Slices
    <3> QED
      BY <3>2 DEF i, j
  <2>4. ASSUME NEW i \in DOMAIN P[w]
        PROVE  \E k \in f[w - 1] + 1 .. f[w] : P[w][i].cluster = c[k]
    <3>1. i \in 1 .. f[w] - f[w - 1]
      BY <2>3, <2>4
    <3>2. f[w - 1] + i \in f[w - 1] + 1 .. f[w] /\ f[w - 1] + i \in 1 .. L
      BY <2>2, <3>1
    <3> QED
      BY <2>3, <3>1, <3>2 DEF c
  <2> QED
    BY <2>1, <2>2, <2>4
<1>8. ASSUME NEW v \in DOMAIN P, NEW w \in DOMAIN P, v < w,
             NEW i \in DOMAIN P[v], NEW j \in DOMAIN P[w]
      PROVE  P[v][i].cluster < P[w][j].cluster
  <2>1. v \in 1 .. n /\ w \in 1 .. n /\ w - 1 \in v .. n
    BY <1>7, <1>8
  <2>2. PICK k \in f[v - 1] + 1 .. f[v] : P[v][i].cluster = c[k]
    BY <1>7
  <2>3. PICK m \in f[w - 1] + 1 .. f[w] : P[w][j].cluster = c[m]
    BY <1>7
  <2> DEFINE e == f[w - 1]
  <2>4. f[v - 1] \in 0 .. L /\ f[v] \in 0 .. L /\ e \in 0 .. L /\ f[w] \in 0 .. L /\ e < L
    BY <1>7
  <2>5. f[v] <= e
    BY <1>6, <2>1
  <2>6. k \in 1 .. e /\ m \in e + 1 .. L /\ e \in 1 .. L - 1
    BY <2>4, <2>5
  <2>7. c[e] # c[e + 1]
    <3>1. w - 1 \in 1 .. n
      BY <2>1
    <3> QED
      BY <1>5, <2>6, <3>1
  <2> HIDE DEF e, L
  <2>8. k \in 1 .. L /\ m \in 1 .. L /\ e \in 1 .. L /\ e + 1 \in 1 .. L
    BY <1>1, <2>6
  <2>9. c[k] <= c[e] /\ c[e] <= c[e + 1] /\ c[e + 1] <= c[m]
    BY <1>3, <2>6, <2>8
  <2>10. c[k] < c[m]
    BY <1>2, <2>7, <2>8, <2>9
  <2> QED
    BY <2>2, <2>3, <2>10
<1> HIDE DEF P
<1>9. InTurn(P)
  BY <1>8 DEF InTurn
<1>10. ASSUME NEW v \in DOMAIN P, NEW w \in DOMAIN P, v # w,
              NEW i \in DOMAIN P[v], NEW j \in DOMAIN P[w]
       PROVE  P[v][i].cluster # P[w][j].cluster
  <2>1. v < w \/ w < v
    <3>1. v \in 1 .. n /\ w \in 1 .. n
      BY <1>7
    <3> QED
      BY <1>10, <3>1
  <2>2. PICK k \in f[v - 1] + 1 .. f[v] : P[v][i].cluster = c[k]
    BY <1>7
  <2>3. f[v - 1] \in 0 .. L /\ f[v] \in 0 .. L
    BY <1>7
  <2>4. k \in 1 .. L
    BY <1>1, <2>3
  <2>5. P[v][i].cluster \in Nat
    BY <1>2, <2>2, <2>4
  <2>6. P[v][i].cluster < P[w][j].cluster \/ P[w][j].cluster < P[v][i].cluster
    BY <1>8, <2>1
  <2> QED
    BY <2>5, <2>6
<1> QED
  BY <1>9, <1>10 DEF Apart, P

(* What a cue point yields are blocks of the Cluster it points at.          *)
LEMMA BlocksOfCluster ==
  ASSUME NEW f, IsFile(f), NEW c \in Cue, c.cluster \in DOMAIN f.elements, NEW a, NEW v
  PROVE  CueBlocks(f.elements, c, a, v).blocks \in Seq(From(c.cluster))
<1> DEFINE e == c.cluster
           element == f.elements[e]
           blocks == element.blocks
<1>1. element \in Element /\ blocks \in Seq(Block)
  <2>1. element \in Element
    BY ElementOfSeq DEF IsFile
  <2> QED
    BY <2>1 DEF Element
<1>2. \A n \in DOMAIN blocks : blocks[n] \in Block /\ blocks[n].id = << e, n >>
  BY <1>1, ElementOfSeq DEF IsFile
<1> HIDE DEF element, blocks
<1>3. \A n, t, act : t \in Nat => ReadBlockAt(element, n, t, act) \in Seq(From(e))
  <2> SUFFICES ASSUME NEW n, NEW t \in Nat, NEW act
               PROVE  ReadBlockAt(element, n, t, act) \in Seq(From(e))
    OBVIOUS
  <2>1. CASE n \in DOMAIN blocks
    <3> DEFINE b == [blocks[n] EXCEPT !.time = t]
    <3>1. b \in Block /\ b.id = << e, n >>
      BY <1>2, <2>1, Retimed
    <3>2. ReadBlockAt(element, n, t, act) = << b >> \/ ReadBlockAt(element, n, t, act) = << >>
      BY <2>1 DEF ReadBlockAt, blocks
    <3> HIDE DEF b
    <3>3. b.id[1] = e
      BY <3>1
    <3>4. b \in From(e)
      BY <3>1, <3>3 DEF From
    <3>5. << b >> \in Seq(From(e)) /\ << >> \in Seq(From(e))
      BY <3>4
    <3> QED
      BY <3>2, <3>5
  <2>2. CASE n \notin DOMAIN blocks
    <3>1. ReadBlockAt(element, n, t, act) = << >>
      BY <2>2 DEF ReadBlockAt, blocks
    <3> QED
      BY <3>1
  <2> QED
    BY <2>1, <2>2
<1>4. ScanCluster(element, a) \in Seq(From(e))
  <2> DEFINE S == {b \in Members(blocks) : b.trk \in a}
  <2>1. blocks \in Seq(From(e))
    <3>1. \A n \in 1 .. Len(blocks) : blocks[n] \in From(e)
      BY <1>1, <1>2 DEF From
    <3> QED
      BY <1>1, <3>1
  <2>2. ScanCluster(element, a) = Only(blocks, S)
    BY DEF ScanCluster, blocks
  <2> HIDE DEF S
  <2> QED
    BY <2>1, <2>2, OnlyTyped
<1>5. c.time \in Nat
  BY DEF Cue
<1>6. CueBlocks(f.elements, c, a, v).blocks \in
        {ReadBlockAt(element, CHOOSE n \in c.rel : TRUE, c.time, a),
         ScanCluster(element, a), << >>}
  BY DEF CueBlocks, element
<1>7. << >> \in Seq(From(e))
  OBVIOUS
<1>8. ReadBlockAt(element, CHOOSE n \in c.rel : TRUE, c.time, a) \in Seq(From(e))
  BY <1>3, <1>5
<1> QED
  BY <1>4, <1>6, <1>7, <1>8

(* The blocks that worker w may read.                                       *)
ReadBy(w) == {b \in Block : \E i \in DOMAIN chunks[w] : b.id[1] = chunks[w][i].cluster}

(* The cue points of the workers point at elements of the file.             *)
Chunked ==
  \A w \in Workers :
    /\ chunks[w] \in Seq(Cue)
    /\ \A i \in DOMAIN chunks[w] : chunks[w][i].cluster \in DOMAIN file.elements

ReadInv ==
  /\ IsFile(file) /\ workers \in Nat \ {0}
  /\ Chunked
  /\ Apart(chunks)
  /\ DOMAIN at = Workers /\ \A w \in Workers : at[w] \in Nat \ {0}
  /\ DOMAIN got = Workers /\ \A w \in Workers : got[w] \in Seq(ReadBy(w))

LEMMA ReadInit == CollectInit => ReadInv
BY FilesAssumption, WorkerAssumption DEF CollectInit, ChooseFile, ReadInv, Workers, Chunked, Apart

(* What the workers are dealt is apart, and points at elements.             *)
LEMMA SpawnChunks ==
  ASSUME ReadInv, Spawn
  PROVE  Apart(chunks)' /\ Chunked'
<1> DEFINE s == SortedCues
<1>1. chunks' = Partition(s, workers) /\ file' = file
  BY DEF Spawn, request
<1>2. /\ s \in Seq(Cue) /\ Len(s) = Len(file.cues) /\ Members(s) = Members(file.cues)
      /\ \A j, k \in 1 .. Len(s) : j < k => s[j].cluster <= s[k].cluster
  BY SortedByCluster DEF ReadInv, IsFile
<1>3. workers \in Nat \ {0}
  BY DEF ReadInv
<1>4. \A k \in 1 .. Len(s) : s[k].cluster \in DOMAIN file.elements
  <2>1. \A i \in 1 .. Len(file.cues) : file.cues[i].cluster \in DOMAIN file.elements
    BY DEF ReadInv, IsFile
  <2> HIDE DEF s
  <2>2. \A k \in 1 .. Len(s) : \E i \in DOMAIN file.cues : s[k] = file.cues[i]
    <3>1. \A k \in 1 .. Len(s) : s[k] \in Members(s)
      BY <1>2 DEF Members
    <3> QED
      BY <1>2, <3>1 DEF Members
  <2> QED
    BY <2>1, <2>2
<1> HIDE DEF s
<1>5. PICK f : Dealt(f, s, workers)
  BY <1>2, <1>3, PartitionDeals
<1>6. Apart(Partition(s, workers))
  BY <1>2, <1>3, <1>5, SharesApart
<1>7. ASSUME NEW w \in DOMAIN Partition(s, workers)
      PROVE  /\ Partition(s, workers)[w] \in Seq(Cue)
             /\ \A i \in DOMAIN Partition(s, workers)[w] :
                  Partition(s, workers)[w][i].cluster \in DOMAIN file.elements
  <2> DEFINE d == f[w - 1]
             e == f[w]
             P == Partition(s, workers)[w]
  <2>1. w \in 1 .. workers /\ d < Len(s) /\ P = SubSeq(s, d + 1, e)
    BY <1>5 DEF Dealt
  <2>2. d \in 0 .. Len(s) /\ e \in d .. Len(s)
    <3>1. f \in [0 .. workers -> 0 .. Len(s)] /\ d <= e
      BY <1>5, <2>1 DEF Dealt
    <3>2. w - 1 \in 0 .. workers /\ w \in 0 .. workers
      BY <1>3, <2>1
    <3> QED
      BY <3>1, <3>2
  <2> HIDE DEF d, e, P
  <2>3. /\ P \in Seq(Cue) /\ Len(P) = e - d
        /\ \A k \in 1 .. e - d : P[k] = s[d + k]
    BY <1>2, <2>1, <2>2, Slices
  <2>4. ASSUME NEW i \in DOMAIN P
        PROVE  P[i].cluster \in DOMAIN file.elements
    <3>1. i \in 1 .. e - d
      BY <2>3, <2>4
    <3>2. d + i \in 1 .. Len(s)
      BY <1>2, <2>2, <3>1
    <3> QED
      BY <1>4, <2>3, <3>1, <3>2
  <2> QED
    BY <2>3, <2>4 DEF P
<1> QED
  BY <1>1, <1>6, <1>7 DEF Chunked, Apart, Workers

LEMMA SpawnReads ==
  ASSUME ReadInv, Spawn
  PROVE  ReadInv'
<1>1. /\ file' = file /\ workers' = workers
      /\ at' = [w \in DOMAIN chunks' |-> 1] /\ got' = [w \in DOMAIN chunks' |-> << >>]
  BY DEF Spawn, request
<1>2. Apart(chunks)' /\ Chunked'
  BY SpawnChunks
<1>3. IsFile(file)' /\ workers' \in Nat \ {0}
  BY <1>1 DEF ReadInv
<1>4. DOMAIN at' = Workers' /\ \A w \in Workers' : at'[w] \in Nat \ {0}
  BY <1>1 DEF Workers
<1>5. DOMAIN got' = Workers' /\ \A w \in Workers' : got'[w] \in Seq(ReadBy(w)')
  BY <1>1 DEF Workers
<1> QED
  BY <1>2, <1>3, <1>4, <1>5 DEF ReadInv

(* A worker whose next cue point is read adds blocks of its own.            *)
LEMMA ReadAdds ==
  ASSUME ReadInv, NEW w \in Workers, at[w] <= Len(chunks[w])
  PROVE  Read(w).blocks \in Seq(ReadBy(w))
<1> DEFINE i == at[w]
           c == chunks[w][i]
<1>1. i \in DOMAIN chunks[w] /\ chunks[w] \in Seq(Cue)
  BY DEF ReadInv, Chunked
<1>2. c \in Cue /\ c.cluster \in DOMAIN file.elements
  BY <1>1, ElementOfSeq DEF ReadInv, Chunked
<1>3. Read(w) = CueBlocks(file.elements, c, active, scanned[w])
  BY DEF Read
<1>4. From(c.cluster) \subseteq ReadBy(w)
  BY <1>1 DEF From, ReadBy
<1> HIDE DEF c
<1>5. Read(w).blocks \in Seq(From(c.cluster))
  BY <1>2, <1>3, BlocksOfCluster DEF ReadInv
<1> QED
  BY <1>4, <1>5

(* The blocks a worker adds are its own.                                    *)
LEMMA GotMore ==
  ASSUME ReadInv, NEW w \in Workers, NEW more \in Seq(ReadBy(w)),
         got' = [got EXCEPT ![w] = @ \o more],
         at' = [at EXCEPT ![w] = @ + 1],
         UNCHANGED << file, workers, chunks >>
  PROVE  ReadInv'
<1>1. Workers' = Workers /\ \A v \in Workers : ReadBy(v)' = ReadBy(v)
  BY DEF Workers, ReadBy
<1>2. IsFile(file)' /\ workers' \in Nat \ {0} /\ Chunked' /\ Apart(chunks)'
  BY <1>1 DEF ReadInv, Chunked
<1>3. DOMAIN at' = Workers /\ \A v \in Workers : at'[v] \in Nat \ {0}
  BY DEF ReadInv
<1>4. DOMAIN got' = Workers /\ \A v \in Workers : got'[v] \in Seq(ReadBy(v))
  <2>1. got[w] \o more \in Seq(ReadBy(w))
    BY ConcatProperties DEF ReadInv
  <2> QED
    BY <2>1 DEF ReadInv
<1> QED
  BY <1>1, <1>2, <1>3, <1>4 DEF ReadInv

LEMMA WorkerKeepsReadInv ==
  ASSUME ReadInv, NEW w \in Workers, WorkerStep(w)
  PROVE  ReadInv'
<1>1. CASE WorkerReads(w)
  BY <1>1, ReadAdds, GotMore DEF WorkerReads, request
<1>2. CASE WorkerMeetsUnreadableHeader(w)
  <2> DEFINE blocks == Read(w).blocks
  <2>1. blocks \in Seq(ReadBy(w))
    BY <1>2, ReadAdds DEF WorkerMeetsUnreadableHeader
  <2>2. PICK n \in 0 .. Len(blocks) - 1 : got' = [got EXCEPT ![w] = @ \o SubSeq(blocks, 1, n)]
    BY <1>2 DEF WorkerMeetsUnreadableHeader
  <2> HIDE DEF blocks
  <2>3. SubSeq(blocks, 1, n) \in Seq(ReadBy(w))
    BY <2>1, <2>2, Prefix
  <2> QED
    BY <1>2, <2>2, <2>3, GotMore DEF WorkerMeetsUnreadableHeader, request
<1>3. CASE WorkerMeetsCutOff(w) \/ WorkerFinishes(w) \/ WorkerFails(w)
  <2>1. UNCHANGED << file, workers, chunks, at, got >>
    BY <1>3 DEF WorkerMeetsCutOff, WorkerFinishes, WorkerFails, WorkerStops, request
  <2> QED
    BY <2>1 DEF ReadInv, Chunked, Workers, ReadBy
<1> QED
  BY <1>1, <1>2, <1>3 DEF WorkerStep, WorkerProceeds

LEMMA ReadStep == ReadInv /\ [CollectNext]_collectVars => ReadInv'
<1> SUFFICES ASSUME ReadInv, [CollectNext]_collectVars
             PROVE  ReadInv'
  OBVIOUS
<1>1. CASE Spawn
  BY <1>1, SpawnReads
<1>2. CASE UNCHANGED collectVars \/ NotApplicable \/ JoinFails \/ Assemble
  <2>1. UNCHANGED << file, workers, chunks, at, got >>
    BY <1>2 DEF NotApplicable, JoinFails, Assemble, collectVars, request, threads
  <2> QED
    BY <2>1 DEF ReadInv, Chunked, Workers, ReadBy
<1> QED
  BY <1>1, <1>2, WorkerKeepsReadInv DEF CollectNext, MainStep

(* Two blocks with the same id would be of the same Cluster.                *)
LEMMA ReadersApart == ReadInv => WorkersReadApart
<1> SUFFICES ASSUME ReadInv, NEW v \in Workers, NEW w \in Workers, v # w,
                    NEW j \in DOMAIN got[v], NEW k \in DOMAIN got[w],
                    got[v][j].id = got[w][k].id
             PROVE  FALSE
  BY DEF WorkersReadApart
<1>1. got[v][j] \in ReadBy(v) /\ got[w][k] \in ReadBy(w)
  BY ElementOfSeq DEF ReadInv
<1> QED
  BY <1>1 DEF ReadInv, ReadBy, Apart, Workers

(* No block is read by two workers, for every file, any number of workers   *)
(* and any of them failing (mod.rs:318-320).                                *)
THEOREM BlocksAreReadOnce == CollectSpec => []WorkersReadApart
BY ReadInit, ReadStep, ReadersApart, PTL DEF CollectSpec
-----------------------------------------------------------------------------
(* Cue points before one another lead to different blocks.                  *)
LEMMA BeforeIsElsewhere ==
  ASSUME NEW c, NEW d, << c, d >> \in Before, c.rel # {}, NEW id,
         ReachedBy(id, c), ReachedBy(id, d)
  PROVE  FALSE
<1>1. /\ c \in Cue /\ d \in Cue /\ d.rel # {}
      /\ \/ c.cluster < d.cluster
         \/ c.cluster = d.cluster /\ \A m \in c.rel, n \in d.rel : m < n
  BY DEF Before
<1>2. c.cluster = d.cluster /\ c.cluster \in Nat /\ id[2] \in c.rel /\ id[2] \in d.rel /\ id[2] \in Nat
  BY <1>1 DEF ReachedBy, Cue
<1> QED
  BY <1>1, <1>2

(* A cue point of another track reads no block that has one of its own.     *)
LEMMA OtherCueIsRead ==
  ASSUME NEW f, IsFile(f), NEW K, FullyCued(f, K),
         \A e \in DOMAIN f.elements : f.elements[e].known,
         NEW c \in Members(f.cues), c.trk \notin K, NEW v
  PROVE  CueReads(f, K, c, v)
<1> DEFINE read == CueBlocks(f.elements, c, K, v)
           e == c.cluster
           ids == {id \in Nat \X Nat : ReachedBy(id, c)}
<1>1. PICK k \in DOMAIN f.cues : c = f.cues[k]
  BY DEF Members
<1>2. c \in Cue /\ e \in DOMAIN f.elements
  BY <1>1, ElementOfSeq DEF IsFile
<1>3. f.elements[e].kind = "cluster" \/ f.elements[e].blocks = << >>
  <2>1. f.elements[e] \in Element
    BY <1>2, ElementOfSeq DEF IsFile
  <2> QED BY <1>2, <2>1 DEF Element, IsFile
<1>4. << >> \in Seq(OfTracks(K)) /\ AreReal(f, K, << >>)
      /\ \A id : id \notin Members(IdsOf(<< >>))
  BY IdsRead DEF AreReal
<1>5. CASE c.rel = {} /\ e \in v
  <2>1. read.blocks = << >> /\ read.visited = v \cup {e}
    BY <1>5 DEF CueBlocks
  <2> QED BY <1>4, <1>5, <2>1 DEF CueReads, Reads
<1>6. CASE c.rel = {} /\ e \notin v
  <2>1. read.visited = v \cup {e}
    BY <1>6 DEF CueBlocks
  <2>2. {id \in Nat \X Nat : id[1] = e} = ids
    BY <1>6 DEF ReachedBy
  <2>3. Reads(f, K, read.blocks, ids)
    <3>1. CASE f.elements[e].kind = "cluster"
      <4>1. read.blocks = ScanCluster(f.elements[e], K)
        BY <1>2, <1>6, <3>1 DEF CueBlocks
      <4>2. Reads(f, K, read.blocks, {id \in Nat \X Nat : id[1] = e})
        BY <1>2, <4>1, ScanReads
      <4> QED BY <2>2, <4>2
    <3>2. CASE f.elements[e].kind # "cluster"
      <4>1. read.blocks = << >>
        BY <1>6, <3>2 DEF CueBlocks
      <4>2. \A id \in ids : ~ IsPlace(f, K, id)
        BY <1>3, <2>2, <3>2 DEF IsPlace
      <4> QED BY <1>4, <4>1, <4>2 DEF Reads
    <3> QED BY <3>1, <3>2
  <2> HIDE DEF ids, read
  <2> QED BY <1>6, <2>1, <2>3 DEF CueReads, ids, read
<1>7. CASE c.rel # {}
  <2>1. ASSUME NEW id \in Nat \X Nat, IsPlace(f, K, id), ReachedBy(id, c)
        PROVE  FALSE
    <3>1. PICK d : Cues(f, id, d)
      BY <2>1, PlaceIsCued
    <3>2. PICK j \in DOMAIN f.cues : d = f.cues[j]
      BY <3>1 DEF Cues, Members
    <3>3. j # k
      BY <1>1, <2>1, <3>1, <3>2 DEF Cues, IsPlace
    <3>4. j \in Nat /\ k \in Nat
      BY DEF IsFile
    <3>5. << c, d >> \in Before \/ << d, c >> \in Before
      <4>1. Chain(f.cues, Before)
        BY CuesInOrder
      <4>2. j < k \/ k < j
        BY <3>3, <3>4
      <4> QED BY <1>1, <3>2, <4>1, <4>2 DEF Chain
    <3>6. d.rel # {}
      BY <1>7, <3>5 DEF Before
    <3>7. ReachedBy(id, d)
      BY <3>1, <3>6 DEF Cues, ReachedBy
    <3> QED BY <1>7, <2>1, <3>5, <3>6, <3>7, BeforeIsElsewhere
  <2>2. read.blocks = << >> /\ read.visited = v
    <3> DEFINE n == CHOOSE n \in c.rel : TRUE
    <3>1. /\ read.blocks = ReadBlockAt(f.elements[e], n, c.time, K) \/ read.blocks = << >>
          /\ read.visited = v
      BY <1>7 DEF CueBlocks
    <3>2. n \in c.rel /\ n \in Nat /\ e \in Nat
      BY <1>2, <1>7 DEF Cue
    <3>3. ReachedBy(<< e, n >>, c) /\ << e, n >> \in Nat \X Nat
      <4> HIDE DEF e, n
      <4> DEFINE id == << e, n >>
      <4>1. id[1] = e /\ id[2] = n /\ id \in Nat \X Nat
        BY <3>2
      <4> HIDE DEF id
      <4>2. ReachedBy(id, c)
        BY <3>2, <4>1 DEF ReachedBy, e
      <4> QED BY <4>1, <4>2 DEF id
    <3>4. ~ (n \in DOMAIN f.elements[e].blocks /\ f.elements[e].blocks[n].trk \in K)
      <4>1. ASSUME n \in DOMAIN f.elements[e].blocks, f.elements[e].blocks[n].trk \in K
            PROVE  IsPlace(f, K, << e, n >>)
        BY <1>2, <4>1 DEF IsPlace, At
      <4> QED BY <2>1, <3>3, <4>1
    <3>5. ReadBlockAt(f.elements[e], n, c.time, K) = << >>
      BY <3>4 DEF ReadBlockAt
    <3> QED BY <3>1, <3>5
  <2>3. Reads(f, K, read.blocks, ids)
    BY <1>4, <2>1, <2>2 DEF Reads
  <2> HIDE DEF ids, read
  <2> QED BY <1>7, <2>2, <2>3 DEF CueReads, ids, read
<1> QED BY <1>5, <1>6, <1>7

LEMMA AnyCueIsRead ==
  ASSUME NEW f, IsFile(f), NEW K, FullyCued(f, K),
         \A e \in DOMAIN f.elements : f.elements[e].known,
         NEW c \in Members(f.cues), NEW v
  PROVE  CueReads(f, K, c, v)
BY CueIsRead, OtherCueIsRead

LEMMA IdsConcat ==
  ASSUME NEW K, NEW g \in Seq(OfTracks(K)), NEW b \in Seq(OfTracks(K))
  PROVE  IdsOf(g \o b) = IdsOf(g) \o IdsOf(b) /\ IdsOf(g) \in Seq(Nat \X Nat)
         /\ IdsOf(b) \in Seq(Nat \X Nat)
<1> DEFINE X == OfTracks(K)
           Y == Nat \X Nat
           h == [x \in X |-> x.id]
<1>1. h \in [X -> Y]
  BY DEF OfTracks, Block
<1>2. \A s \in Seq(X) : IdsOf(s) = Image(s, h)
  <2> TAKE s \in Seq(X)
  <2>1. \A k \in DOMAIN s : h[s[k]] = s[k].id
    BY ElementOfSeq
  <2> HIDE DEF h
  <2> QED BY <2>1 DEF IdsOf, Image
<1> HIDE DEF h, X, Y
<1>3. g \in Seq(X) /\ b \in Seq(X) /\ g \o b \in Seq(X)
  BY DEF X
<1>4. Image(g \o b, h) = Image(g, h) \o Image(b, h)
  BY <1>1, <1>3, ImageConcat
<1>5. Image(g, h) \in Seq(Y) /\ Image(b, h) \in Seq(Y)
  BY <1>1, <1>3, ImageProperties DEF IsImage
<1> QED BY <1>2, <1>3, <1>4, <1>5 DEF Y

(* The places that the cue points in front of the i-th lead to.             *)
InFrontOf(cs, i) ==
  {id \in Nat \X Nat : \E j \in 1 .. i - 1 : j \in DOMAIN cs /\ ReachedBy(id, cs[j])}

(* g is what a reader that remembers the Clusters v has read once it has    *)
(* followed the cue points cs in front of the i-th.                         *)
ReadInFront(f, K, cs, i, g, v) ==
  /\ Follow(IdsOf(g), cs, i, v)
  /\ Reads(f, K, g, InFrontOf(cs, i))
  /\ \A e \in v : \E j \in 1 .. i - 1 : j \in DOMAIN cs /\ cs[j].rel = {} /\ cs[j].cluster = e

LEMMA ReadsNone ==
  ASSUME NEW f, NEW K, NEW cs
  PROVE  ReadInFront(f, K, cs, 1, << >>, {})
<1>1. IdsOf(<< >>) = << >> /\ InFrontOf(cs, 1) = {}
  BY DEF IdsOf, InFrontOf
<1>2. Follow(<< >>, cs, 1, {})
  BY DEF Follow, Chain
<1>3. Reads(f, K, << >>, {})
  BY <1>1 DEF Reads, AreReal, Members
<1> QED BY <1>1, <1>2, <1>3 DEF ReadInFront

(* One cue point more.                                                      *)
LEMMA ReadsOn ==
  ASSUME NEW f, IsFile(f), NEW K, FullyCued(f, K),
         \A e \in DOMAIN f.elements : f.elements[e].known,
         NEW cs \in Seq(Cue), Members(cs) \subseteq Members(f.cues), Chain(cs, Before),
         NEW i \in DOMAIN cs, NEW g, NEW v, ReadInFront(f, K, cs, i, g, v)
  PROVE  LET read == CueBlocks(f.elements, cs[i], K, v)
         IN  ReadInFront(f, K, cs, i + 1, g \o read.blocks, read.visited)
<1> DEFINE c == cs[i]
           b == CueBlocks(f.elements, c, K, v).blocks
           seen == CueBlocks(f.elements, c, K, v).visited
           h == g \o b
<1>1. i \in Nat \ {0} /\ c \in Cue /\ c \in Members(f.cues) /\ c.cluster \in DOMAIN f.elements
  <2>1. c \in Members(f.cues) /\ c \in Cue
    <3>1. i \in 1 .. Len(cs)
      OBVIOUS
    <3> QED BY <3>1, ElementOfSeq DEF Members
  <2>2. PICK k \in DOMAIN f.cues : c = f.cues[k]
    BY <2>1 DEF Members
  <2> QED BY <2>1, <2>2 DEF IsFile
<1>2. CueReads(f, K, c, v) /\ Leads(b, seen, c, v)
  BY <1>1, AnyCueIsRead, CueYields
<1>3. /\ Reads(f, K, b, IF c.rel = {} /\ c.cluster \in v THEN {}
                        ELSE {id \in Nat \X Nat : ReachedBy(id, c)})
      /\ seen = IF c.rel = {} THEN v \cup {c.cluster} ELSE v
  BY <1>2 DEF CueReads
<1> HIDE DEF b, seen
<1>4. g \in Seq(OfTracks(K)) /\ b \in Seq(OfTracks(K)) /\ AreReal(f, K, g) /\ AreReal(f, K, b)
  BY <1>3 DEF ReadInFront, Reads
<1>5. /\ IdsOf(h) = IdsOf(g) \o IdsOf(b)
      /\ Members(IdsOf(h)) = Members(IdsOf(g)) \cup Members(IdsOf(b))
  <2> DEFINE Y == Nat \X Nat
  <2>1. /\ IdsOf(h) = IdsOf(g) \o IdsOf(b)
        /\ IdsOf(g) \in Seq(Y) /\ IdsOf(b) \in Seq(Y)
    BY <1>4, IdsConcat
  <2> HIDE DEF Y, h
  <2> QED BY <2>1, MembersConcat
<1>6. Follow(IdsOf(h), cs, i + 1, seen)
  BY <1>2, <1>5, FollowOn DEF ReadInFront
<1>7. h \in Seq(OfTracks(K)) /\ AreReal(f, K, h)
  <2> DEFINE X == OfTracks(K)
             Real(x) == IsPlace(f, K, x.id) /\ At(f, x.id) = x
  <2>1. \A x \in Members(g) \cup Members(b) : Real(x)
    BY <1>4 DEF AreReal, Members
  <2> HIDE DEF X, Real
  <2>2. g \in Seq(X) /\ b \in Seq(X)
    BY <1>4 DEF X
  <2>3. h \in Seq(X) /\ Members(h) = Members(g) \cup Members(b)
    BY <2>2, MembersConcat
  <2> HIDE DEF h
  <2>4. \A k \in DOMAIN h : Real(h[k])
    BY <2>1, <2>3 DEF Members
  <2> QED BY <2>3, <2>4 DEF AreReal, X, Real
<1> HIDE DEF h
<1>8. \A j : j \in 1 .. (i + 1) - 1 <=> j \in 1 .. i - 1 \/ j = i
  BY <1>1
<1>9. ASSUME NEW id \in Nat \X Nat
      PROVE  id \in InFrontOf(cs, i + 1) <=> id \in InFrontOf(cs, i) \/ ReachedBy(id, c)
  BY <1>8 DEF InFrontOf
<1>10. ASSUME NEW id \in Nat \X Nat, c.rel = {}, c.cluster \in v, ReachedBy(id, c)
       PROVE  id \in InFrontOf(cs, i)
  <2>1. PICK j \in 1 .. i - 1 : j \in DOMAIN cs /\ cs[j].rel = {} /\ cs[j].cluster = c.cluster
    BY <1>10 DEF ReadInFront
  <2>2. ReachedBy(id, cs[j])
    BY <1>10, <2>1 DEF ReachedBy
  <2> QED BY <2>1, <2>2 DEF InFrontOf
<1>11. ASSUME NEW id \in Nat \X Nat, IsPlace(f, K, id)
       PROVE  id \in Members(IdsOf(h)) <=> id \in InFrontOf(cs, i + 1)
  <2>1. id \in Members(IdsOf(g)) <=> id \in InFrontOf(cs, i)
    BY <1>11 DEF ReadInFront, Reads
  <2>2. id \in Members(IdsOf(b)) <=> ~ (c.rel = {} /\ c.cluster \in v) /\ ReachedBy(id, c)
    BY <1>3, <1>11 DEF Reads
  <2> QED BY <1>5, <1>9, <1>10, <2>1, <2>2
<1>12. Reads(f, K, h, InFrontOf(cs, i + 1))
  BY <1>7, <1>11 DEF Reads
<1>13. ASSUME NEW e \in seen
       PROVE  \E j \in 1 .. (i + 1) - 1 : j \in DOMAIN cs /\ cs[j].rel = {} /\ cs[j].cluster = e
  <2>1. CASE e \in v
    <3>1. PICK j \in 1 .. i - 1 : j \in DOMAIN cs /\ cs[j].rel = {} /\ cs[j].cluster = e
      BY <2>1 DEF ReadInFront
    <3> QED BY <1>8, <3>1
  <2>2. CASE e \notin v
    <3>1. c.rel = {} /\ e = c.cluster
      BY <1>3, <1>13, <2>2
    <3> QED BY <1>8, <3>1
  <2> QED BY <2>1, <2>2
<1>14. ReadInFront(f, K, cs, i + 1, h, seen)
  BY <1>6, <1>12, <1>13 DEF ReadInFront
<1> QED BY <1>14 DEF h, b, seen
-----------------------------------------------------------------------------
(* Sorting leaves the cue points of a fully cued file in their order.       *)
LEMMA SortedInOrder ==
  ASSUME IsFile(file), NEW K, FullyCued(file, K)
  PROVE  Chain(SortedCues, Before)
<1> DEFINE s == file.cues
           n == Len(s)
           r == SortedCues
<1>1. s \in Seq(Cue) /\ r \in Seq(Cue) /\ n \in Nat /\ DOMAIN s = 1 .. n
  BY SortedFrom DEF IsFile
<1>2. PICK of : Sorts(of, s, r, NotBehind(s))
  BY <1>1, SortedFrom
<1>3. Chain(s, Before)
  BY CuesInOrder
<1> HIDE DEF r
<1>4. /\ Len(r) = n /\ of \in [1 .. n -> 1 .. n] /\ DOMAIN r = 1 .. n
      /\ \A k \in 1 .. n : r[k] = s[of[k]]
      /\ \A j, k \in 1 .. n : j < k => << of[j], of[k] >> \in NotBehind(s) /\ of[j] # of[k]
  BY <1>1, <1>2 DEF Sorts
<1>5. ASSUME NEW j \in 1 .. n, NEW k \in 1 .. n, j < k
      PROVE  << r[j], r[k] >> \in Before
  <2> DEFINE x == of[j]
             y == of[k]
             c == s[x]
             d == s[y]
  <2>1. x \in 1 .. n /\ y \in 1 .. n /\ x # y /\ << x, y >> \in NotBehind(s)
    BY <1>4, <1>5
  <2>2. Sooner(c, d) \/ x < y
    BY <2>1 DEF NotBehind
  <2>3. CASE x < y
    BY <1>1, <1>3, <1>4, <2>1, <2>3 DEF Chain
  <2>4. CASE y < x
    <3>1. << d, c >> \in Before
      BY <1>1, <1>3, <2>1, <2>4 DEF Chain
    <3>2. Sooner(c, d)
      BY <2>1, <2>2, <2>4
    <3> HIDE DEF c, d
    <3>3. /\ c.cluster \in Nat /\ d.cluster \in Nat /\ c.rel \subseteq Nat /\ d.rel \subseteq Nat
          /\ c.rel = {} <=> d.rel = {}
      BY <3>1 DEF Before, Cue
    <3>4. c.cluster = d.cluster /\ Relative(c) < Relative(d)
          /\ \A m \in d.rel, l \in c.rel : m < l
      BY <3>1, <3>2, <3>3 DEF Before, Sooner
    <3>5. c.rel # {} /\ d.rel # {}
      BY <3>3, <3>4 DEF Relative
    <3>6. Relative(c) \in c.rel /\ Relative(d) \in d.rel
      BY <3>5 DEF Relative
    <3> QED
      BY <3>3, <3>4, <3>6
  <2> QED
    BY <2>1, <2>3, <2>4
<1> QED
  BY <1>4, <1>5 DEF Chain, r

(* The workers share the cue points s: each has a stretch of them, every    *)
(* one is somebody's, and the shares are in the order of the Clusters.      *)
Shares(P, s) ==
  /\ P \in Seq(Seq(Cue)) /\ InTurn(P)
  /\ \A w \in DOMAIN P : Members(P[w]) \subseteq Members(s)
  /\ \A w \in DOMAIN P : Chain(s, Before) => Chain(P[w], Before)
  /\ \A c \in Members(s) : \E w \in DOMAIN P : c \in Members(P[w])

LEMMA PartitionShares ==
  ASSUME NEW s \in Seq(Cue), NEW n \in Nat \ {0},
         \A j, k \in 1 .. Len(s) : j < k => s[j].cluster <= s[k].cluster
  PROVE  Shares(Partition(s, n), s)
<1> DEFINE L == Len(s)
           P == Partition(s, n)
<1>1. PICK f : Dealt(f, s, n)
  BY PartitionDeals
<1>2. /\ L \in Nat /\ f \in [0 .. n -> 0 .. L] /\ f[0] = 0 /\ f[n] = L
      /\ \A w \in 1 .. n : f[w - 1] <= f[w]
      /\ P = [w \in {v \in 1 .. n : f[v - 1] < L} |-> SubSeq(s, f[w - 1] + 1, f[w])]
  BY <1>1 DEF Dealt
<1>3. \A w \in 1 .. n : f[w - 1] \in 0 .. L /\ f[w] \in 0 .. L
  BY <1>2
<1>4. InTurn(P)
  BY <1>1, SharesApart
<1> HIDE DEF P
<1>5. ASSUME NEW w \in DOMAIN P
      PROVE  /\ w \in 1 .. n /\ P[w] \in Seq(Cue) /\ Len(P[w]) = f[w] - f[w - 1]
             /\ \A k \in 1 .. f[w] - f[w - 1] : P[w][k] = s[f[w - 1] + k]
  <2> DEFINE i == f[w - 1]
             j == f[w]
  <2>1. w \in 1 .. n /\ P[w] = SubSeq(s, i + 1, j)
    BY <1>2
  <2>2. i \in 0 .. Len(s) /\ j \in i .. Len(s)
    BY <1>2, <1>3, <2>1
  <2> HIDE DEF i, j
  <2>3. /\ Len(SubSeq(s, i + 1, j)) = j - i /\ SubSeq(s, i + 1, j) \in Seq(Cue)
        /\ \A k \in 1 .. j - i : SubSeq(s, i + 1, j)[k] = s[i + k]
    BY <2>2, Slices
  <2> QED
    BY <2>1, <2>3 DEF i, j
<1>6. ASSUME NEW w \in DOMAIN P
      PROVE  /\ Members(P[w]) \subseteq Members(s)
             /\ Chain(s, Before) => Chain(P[w], Before)
  <2> DEFINE i == f[w - 1]
             m == f[w] - f[w - 1]
             q == P[w]
  <2>1. q \in Seq(Cue) /\ Len(q) = m /\ \A k \in 1 .. m : q[k] = s[i + k]
    BY <1>5
  <2>2. i \in Nat /\ m \in Int /\ i + m <= L
    <3>1. f[w - 1] \in 0 .. L /\ f[w] \in 0 .. L
      BY <1>3, <1>5
    <3> QED
      BY <1>2, <3>1
  <2> HIDE DEF i, m, q
  <2>3. DOMAIN q = 1 .. m /\ \A k \in 1 .. m : i + k \in DOMAIN s
    BY <1>2, <2>1, <2>2
  <2>4. Members(q) \subseteq Members(s)
    BY <2>1, <2>3 DEF Members
  <2>5. ASSUME Chain(s, Before), NEW j \in 1 .. m, NEW k \in 1 .. m, j < k
        PROVE  << q[j], q[k] >> \in Before
    <3>1. i + j < i + k
      BY <2>2, <2>5
    <3> QED
      BY <2>1, <2>3, <2>5, <3>1 DEF Chain
  <2>6. Chain(s, Before) => Chain(q, Before)
    BY <2>3, <2>5 DEF Chain
  <2> QED
    BY <2>4, <2>6 DEF q
<1>7. ASSUME NEW k \in 1 .. L
      PROVE  \E w \in 1 .. n : f[w - 1] < k /\ k <= f[w]
  <2> DEFINE S == {w \in 0 .. n : k <= f[w]}
  <2>1. n \in S /\ S \in SUBSET Nat
    BY <1>2
  <2> HIDE DEF S
  <2>2. PICK w \in S : \A y \in S : w <= y
    BY <2>1, LeastNumber
  <2>3. w \in 0 .. n /\ k <= f[w] /\ w # 0
    BY <1>2, <2>2 DEF S
  <2>4. w - 1 \in 0 .. n /\ w - 1 \notin S
    BY <2>1, <2>2, <2>3
  <2>5. f[w - 1] \in 0 .. L /\ ~ k <= f[w - 1]
    BY <1>2, <2>4 DEF S
  <2> QED
    BY <2>3, <2>5
<1>8. ASSUME NEW c \in Members(s)
      PROVE  \E w \in DOMAIN P : c \in Members(P[w])
  <2>1. PICK k \in 1 .. L : c = s[k]
    BY <1>8 DEF Members
  <2>2. PICK w \in 1 .. n : f[w - 1] < k /\ k <= f[w]
    BY <1>7
  <2>3. f[w - 1] \in 0 .. L /\ f[w] \in 0 .. L
    BY <1>3
  <2>4. w \in DOMAIN P
    BY <1>2, <2>2, <2>3
  <2> DEFINE i == k - f[w - 1]
  <2>5. i \in 1 .. f[w] - f[w - 1] /\ f[w - 1] + i = k
    BY <2>2, <2>3
  <2>6. i \in DOMAIN P[w] /\ P[w][i] = s[k]
    BY <1>5, <2>4, <2>5
  <2> QED
    BY <2>1, <2>4, <2>6 DEF Members
<1>9. P \in Seq(Seq(Cue))
  <2>1. \A v \in 0 .. n : \A w \in v .. n : f[v] <= f[w]
    BY <1>1, DealtAscends
  <2> DEFINE S == {w \in 0 .. n : f[w] = L}
  <2>2. n \in S /\ S \in SUBSET Nat
    BY <1>2
  <2> HIDE DEF S
  <2>3. PICK m \in S : \A y \in S : m <= y
    BY <2>2, LeastNumber
  <2>4. m \in 0 .. n /\ f[m] = L
    BY <2>3 DEF S
  <2>5. ASSUME NEW w \in 1 .. n
        PROVE  f[w - 1] < L <=> w <= m
    <3>1. w - 1 \in 0 .. n /\ f[w - 1] \in 0 .. L
      BY <1>3
    <3>2. w <= m => f[w - 1] # L
      BY <2>3, <2>4, <3>1 DEF S
    <3>3. ~ w <= m => L <= f[w - 1]
      BY <2>1, <2>4, <3>1
    <3> QED
      BY <1>2, <3>1, <3>2, <3>3
  <2>6. DOMAIN P = {v \in 1 .. n : f[v - 1] < L}
    BY <1>2
  <2>7. DOMAIN P = 1 .. m
    BY <2>4, <2>5, <2>6
  <2>8. P = [w \in 1 .. m |-> P[w]]
    BY <1>2, <2>6, <2>7
  <2> DEFINE S1 == Seq(Cue)
  <2>9. \A w \in 1 .. m : P[w] \in S1
    BY <1>5, <2>7
  <2> HIDE DEF S1
  <2>10. P \in Seq(S1)
    BY <2>4, <2>8, <2>9
  <2> QED
    BY <2>10 DEF S1
<1> QED
  BY <1>4, <1>6, <1>8, <1>9 DEF Shares, P

(* The order of Merged, with the place of a block in what was read last.    *)
NotEarlier(s) ==
  {y \in (1 .. Len(s)) \X (1 .. Len(s)) :
     Earlier(s[y[1]], s[y[2]]) \/ (~ Earlier(s[y[2]], s[y[1]]) /\ y[1] <= y[2])}

LEMMA MergedFrom ==
  ASSUME NEW K, Joined(got) \in Seq(OfTracks(K))
  PROVE  /\ Merged \in Seq(OfTracks(K))
         /\ \E of : Sorts(of, Joined(got), Merged, NotEarlier(Joined(got)))
<1> DEFINE s == Joined(got)
           n == Len(s)
           R == NotEarlier(s)
           X == OfTracks(K)
           a == [i \in 1 .. n |-> s[i].time]
           b == [i \in 1 .. n |-> s[i].trk]
           down(i) == {j \in DOMAIN s : Earlier(s[j], s[i]) \/ (~ Earlier(s[i], s[j]) /\ j <= i)}
           picked(i) == Cardinality(down(i))
           placed(i) == Cardinality(UpTo(R, n, i))
<1>1. Merged = [k \in DOMAIN s |-> s[CHOOSE i \in DOMAIN s : picked(i) = k]]
  BY DEF Merged, StableSort
<1>2. \A i \in DOMAIN s : picked(i) = placed(i)
  <2>1. \A i \in DOMAIN s : down(i) = UpTo(R, n, i)
    BY DEF UpTo, NotEarlier
  <2> HIDE DEF down
  <2> QED
    BY <2>1
<1>3. IsLine(R, n)
  <2>1. n \in Nat
    OBVIOUS
  <2>2. \A i \in 1 .. n : s[i].time \in Int /\ s[i].trk \in Int
    <3>1. \A i \in 1 .. n : s[i] \in OfTracks(K)
      BY ElementOfSeq
    <3> HIDE DEF s, n
    <3>2. \A i \in 1 .. n : s[i] \in Block
      BY <3>1 DEF OfTracks
    <3> QED
      BY <3>2 DEF Block
  <2>3. a \in [1 .. n -> Int] /\ b \in [1 .. n -> Int]
    <3> HIDE DEF n, s
    <3> QED
      BY <2>2
  <2>4. ByKeys(R, n, a, b)
    BY DEF ByKeys, NotEarlier, Earlier
  <2> HIDE DEF a, b, R, n
  <2> QED
    BY <2>1, <2>3, <2>4, KeysInALine
<1>4. ByPlace(s, R) = [k \in DOMAIN s |-> s[CHOOSE i \in DOMAIN s : placed(i) = k]]
  BY DEF ByPlace
<1>5. s \in Seq(X)
  OBVIOUS
<1> HIDE DEF s, picked, placed, R, X
<1>6. \A k : (CHOOSE i \in DOMAIN s : picked(i) = k) = (CHOOSE i \in DOMAIN s : placed(i) = k)
  BY <1>2
<1>7. Merged = ByPlace(s, R)
  BY <1>1, <1>4, <1>6
<1> QED
  BY <1>3, <1>5, <1>7, Sorting DEF s, R, X

(* The blocks of the list, by track, stand in the order of their times.     *)
Timed(s) == \A j, k \in DOMAIN s : j < k => s[j].time <= s[k].time

(* Sorting what was read of the whole file, in the order of the file, gives *)
(* the blocks of a track in that order, if their times are in order.        *)
LEMMA SortedTrack ==
  ASSUME NEW f, IsFile(f), NEW K, NEW t,
         NEW s \in Seq(OfTracks(K)), Chain(s, ById), AreReal(f, K, s),
         \A b : IsKept(f, K, t, b) => b \in Members(s),
         NEW m \in Seq(OfTracks(K)), NEW of, Sorts(of, s, m, NotEarlier(s)),
         Timed(Kept(f, K, t))
  PROVE  Only(m, Own(K, t)) = Kept(f, K, t)
<1> DEFINE X == OfTracks(K)
           O == Own(K, t)
           a == Kept(f, K, t)
           n == Len(s)
           Q == {y \in X \X X : y[1] \in O /\ y[2] \in O => y \in ById}
<1>1. /\ a \in Seq(X) /\ Chain(a, ById) /\ Strict(ById, X)
      /\ \A b : b \in Members(a) <=> IsKept(f, K, t, b)
  BY KeptIs, ByIdIsStrict
<1>2. \A b \in O : b \in X /\ b.trk = t
  BY ItemsTyped
<1>3. \A b \in Members(s) : b \in O => IsKept(f, K, t, b)
  BY DEF AreReal, IsKept, Members
<1>4. n \in Nat /\ DOMAIN s = 1 .. n /\ \A k \in 1 .. n : s[k] \in X
  BY ElementOfSeq
<1> HIDE DEF a, O, X, n
<1>5. /\ Len(m) = n /\ DOMAIN m = 1 .. n /\ of \in [1 .. n -> 1 .. n]
      /\ \A k \in 1 .. n : m[k] = s[of[k]]
      /\ \A i \in 1 .. n : \E k \in 1 .. n : of[k] = i
      /\ \A j, k \in 1 .. n : j < k => << of[j], of[k] >> \in NotEarlier(s) /\ of[j] # of[k]
  BY <1>4 DEF Sorts, n
<1>6. Members(m) = Members(s)
  <2>1. ASSUME NEW k \in 1 .. n PROVE m[k] \in Members(s)
    BY <1>4, <1>5 DEF Members
  <2>2. ASSUME NEW i \in 1 .. n PROVE s[i] \in Members(m)
    <3>1. PICK k \in 1 .. n : of[k] = i
      BY <1>5
    <3>2. k \in DOMAIN m /\ m[k] = s[i]
      BY <1>5, <3>1
    <3> QED
      BY <3>2 DEF Members
  <2>3. Members(m) = {m[k] : k \in 1 .. n} /\ Members(s) = {s[i] : i \in 1 .. n}
    BY <1>4, <1>5 DEF Members
  <2> QED
    BY <2>1, <2>2, <2>3
<1>7. ASSUME NEW b \in Members(a), NEW c \in Members(a), << c, b >> \in ById
      PROVE  c.time <= b.time
  <2>1. PICK i \in DOMAIN a : c = a[i]
    BY DEF Members
  <2>2. PICK j \in DOMAIN a : b = a[j]
    BY DEF Members
  <2>3. i \in Nat /\ j \in Nat /\ b \in X /\ c \in X
    BY <1>1, <2>1, <2>2, ElementOfSeq
  <2>4. CASE i < j
    BY <2>1, <2>2, <2>4 DEF Timed, a
  <2>5. CASE j < i
    <3>1. << b, c >> \in ById
      BY <1>1, <2>1, <2>2, <2>5 DEF Chain
    <3> QED
      BY <1>1, <1>7, <2>3, <3>1 DEF Strict
  <2>6. CASE i = j
    BY <1>1, <1>7, <2>1, <2>2, <2>3, <2>6 DEF Strict
  <2> QED
    BY <2>3, <2>4, <2>5, <2>6
<1>8. ASSUME NEW j \in 1 .. n, NEW k \in 1 .. n, j < k
      PROVE  << m[j], m[k] >> \in Q
  <2> DEFINE x == of[j]
             y == of[k]
             b == s[x]
             c == s[y]
  <2>1. x \in 1 .. n /\ y \in 1 .. n /\ x # y /\ << x, y >> \in NotEarlier(s)
        /\ m[j] = b /\ m[k] = c
    BY <1>5, <1>8
  <2>2. b \in X /\ c \in X /\ b \in Members(s) /\ c \in Members(s)
    BY <1>4, <2>1 DEF Members
  <2>3. Earlier(b, c) \/ x < y
    BY <2>1 DEF NotEarlier
  <2>4. ASSUME b \in O, c \in O
        PROVE  << b, c >> \in ById
    <3>1. CASE x < y
      BY <1>4, <2>1, <3>1 DEF Chain
    <3>2. CASE y < x
      <4>1. << c, b >> \in ById
        BY <1>4, <2>1, <3>2 DEF Chain
      <4>2. b \in Members(a) /\ c \in Members(a)
        BY <1>1, <1>3, <2>2, <2>4
      <4>3. c.time <= b.time /\ b.trk = c.trk
        BY <1>2, <1>7, <2>4, <4>1, <4>2
      <4>4. Earlier(b, c)
        BY <2>1, <2>3, <3>2
      <4>5. b.time \in Int /\ c.time \in Int /\ b.trk \in Nat
        BY <2>2 DEF X, OfTracks, Block
      <4> HIDE DEF b, c
      <4> QED
        BY <4>3, <4>4, <4>5 DEF Earlier
    <3> QED
      BY <2>1, <3>1, <3>2
  <2> QED
    BY <2>1, <2>2, <2>4
<1> DEFINE o == Only(m, O)
<1>9. m \in Seq(X)
  BY DEF X
<1>10. o \in Seq(X \cap O) /\ o \in Seq(X) /\ Chain(o, Q) /\ Members(o) = Members(m) \cap O
  <2>1. Chain(m, Q)
    BY <1>5, <1>8 DEF Chain
  <2> HIDE DEF Q
  <2> QED
    BY <1>9, <2>1, OnlyMembers, OnlyTyped, OnlyChain, OnlySelects
<1> HIDE DEF o
<1>11. Chain(o, ById)
  <2>1. \A k \in DOMAIN o : o[k] \in O
    BY <1>10, ElementOfSeq
  <2> QED
    BY <1>10, <2>1 DEF Chain
<1>12. Members(o) = Members(a)
  <2>1. \A b : b \in Members(a) => b \in O /\ b \in Members(s)
    BY <1>1 DEF IsKept, O
  <2>2. \A b \in Members(s) : b \in O => b \in Members(a)
    BY <1>1, <1>3
  <2> QED
    BY <1>6, <1>10, <2>1, <2>2
<1>13. o = a
  BY <1>1, <1>10, <1>11, <1>12, SortedSame
<1> QED
  BY <1>13 DEF o, a, O
-----------------------------------------------------------------------------
(* What the workers collect together is what the file holds.  Each worker   *)
(* has read what the cue points it has followed lead to, in the order of    *)
(* the file (ReadInFront); every cue point is somebody's (Shares); and a    *)
(* worker that is done has followed all of its own.                         *)
Whole == Undamaged(file) /\ ~ missed /\ FullyCued(file, active)
AllFollow ==
  \A w \in Workers : ReadInFront(file, active, chunks[w], at[w], got[w], scanned[w])

CollectInv ==
  /\ active \subseteq PgsTracks
  /\ content = [t \in PgsTracks |-> Content(file.elements, t)]
  /\ DOMAIN scanned = Workers /\ DOMAIN status = Workers
  /\ got = [w \in Workers |-> got[w]]
  /\ outcome \notin {"call", "none"} => Shares(chunks, SortedCues)
  /\ \A w \in Workers : status[w] = "ok" => at[w] > Len(chunks[w])
  /\ Whole => AllFollow
  /\ CollectsContent

LEMMA ContentInitially == CollectInit => CollectInv
<1> SUFFICES ASSUME CollectInit PROVE CollectInv
  OBVIOUS
<1>1. /\ active \subseteq PgsTracks /\ outcome = "call"
      /\ content = [t \in PgsTracks |-> Content(file.elements, t)]
      /\ chunks = << >> /\ scanned = << >> /\ status = << >> /\ got = << >>
  BY ActiveAssumption DEF CollectInit, ChooseFile
<1>2. Workers = {} /\ DOMAIN scanned = {} /\ DOMAIN status = {}
  BY <1>1 DEF Workers
<1>3. got = [w \in Workers |-> got[w]]
  BY <1>1, <1>2
<1> QED
  BY <1>1, <1>2, <1>3 DEF CollectInv, AllFollow, CollectsContent

LEMMA KnownInWhole == Whole => \A e \in DOMAIN file.elements : file.elements[e].known
BY DEF Whole, Undamaged

(* The share of a worker.                                                   *)
LEMMA ShareOf ==
  ASSUME JoinInv, ReadInv, CollectInv, FullyCued(file, active), NEW w \in Workers
  PROVE  /\ Shares(chunks, SortedCues)
         /\ chunks[w] \in Seq(Cue) /\ Chain(chunks[w], Before)
         /\ Members(chunks[w]) \subseteq Members(file.cues)
<1>1. Shares(chunks, SortedCues)
  BY DEF JoinInv, CollectInv
<1>2. Members(SortedCues) = Members(file.cues) /\ Chain(SortedCues, Before)
  BY SortedByCluster, SortedInOrder DEF ReadInv, IsFile
<1>3. chunks[w] \in Seq(Cue)
  BY DEF ReadInv, Chunked
<1> QED
  BY <1>1, <1>2, <1>3 DEF Shares, Workers

(* The workers together have read all of the file, in its order.            *)
LEMMA AllRead ==
  ASSUME JoinInv, ReadInv, CollectInv, outcome = "join",
         \A w \in Workers : status[w] = "ok", Whole, NEW t
  PROVE  LET s == Joined(got)
         IN  /\ s \in Seq(OfTracks(active)) /\ Chain(s, ById) /\ AreReal(file, active, s)
             /\ \A b : IsKept(file, active, t, b) => b \in Members(s)
<1> DEFINE K == active
           X == OfTracks(K)
           s == Joined(got)
<1>1. FullyCued(file, K) /\ IsFile(file) /\ Shares(chunks, SortedCues)
  BY DEF Whole, ReadInv, CollectInv
<1>2. ASSUME NEW w \in Workers
      PROVE  /\ got[w] \in Seq(X) /\ AreReal(file, K, got[w])
             /\ Follow(IdsOf(got[w]), chunks[w], at[w], scanned[w])
             /\ Reads(file, K, got[w], InFrontOf(chunks[w], at[w]))
  BY DEF CollectInv, AllFollow, ReadInFront, Reads
<1>3. /\ chunks \in Seq(Seq(Cue)) /\ DOMAIN got = DOMAIN chunks /\ Workers = DOMAIN chunks
      /\ DOMAIN chunks = 1 .. Len(chunks) /\ Len(chunks) \in Nat
  <2>1. DOMAIN got = DOMAIN chunks /\ Workers = DOMAIN chunks
    BY DEF ReadInv, Workers
  <2> QED
    BY <1>1, <2>1 DEF Shares
<1>4. got \in Seq(Seq(X))
  <2> DEFINE Y == Seq(X)
  <2>1. \A w \in 1 .. Len(chunks) : got[w] \in Y
    BY <1>2, <1>3
  <2>2. got = [w \in 1 .. Len(chunks) |-> got[w]]
    <3>1. got = [w \in Workers |-> got[w]]
      BY DEF CollectInv
    <3> QED
      BY <1>3, <3>1
  <2> HIDE DEF Y
  <2>3. got \in Seq(Y)
    BY <1>3, <2>1, <2>2
  <2> QED
    BY <2>3 DEF Y
<1> HIDE DEF X
<1>5. s \in Seq(X)
  BY <1>4, JoinedTyped
<1>6. \A b : b \in Members(s) <=> \E w \in DOMAIN got : b \in Members(got[w])
  BY <1>4, JoinedMembers
<1>7. AreReal(file, K, s)
  <2>1. ASSUME NEW b \in Members(s)
        PROVE  IsPlace(file, K, b.id) /\ At(file, b.id) = b
    <3>1. PICK w \in DOMAIN got : b \in Members(got[w])
      BY <1>6
    <3> QED
      BY <1>2, <1>3, <3>1 DEF AreReal, Members
  <2> HIDE DEF s
  <2> QED
    BY <2>1 DEF AreReal, Members
<1>8. ASSUME NEW w \in DOMAIN got
      PROVE  Chain(got[w], ById)
  <2> SUFFICES ASSUME NEW j \in DOMAIN got[w], NEW k \in DOMAIN got[w], j < k
               PROVE  << got[w][j], got[w][k] >> \in ById
    BY DEF Chain
  <2> DEFINE g == got[w]
  <2>1. g \in Seq(X) /\ Chain(IdsOf(g), Ahead)
    BY <1>2, <1>3 DEF Follow
  <2> HIDE DEF g
  <2>2. DOMAIN IdsOf(g) = DOMAIN g /\ \A i \in DOMAIN g : IdsOf(g)[i] = g[i].id
    BY DEF IdsOf
  <2>3. j \in DOMAIN g /\ k \in DOMAIN g
    BY DEF g
  <2>4. << g[j].id, g[k].id >> \in Ahead
    BY <2>1, <2>2, <2>3 DEF Chain
  <2>5. g[j] \in Block /\ g[k] \in Block
    BY <2>1, <2>3, ElementOfSeq DEF X, OfTracks
  <2> QED
    BY <2>4, <2>5 DEF ById, g
<1>9. ASSUME NEW v \in DOMAIN got, NEW w \in DOMAIN got, v < w,
             NEW x \in Members(got[v]), NEW y \in Members(got[w])
      PROVE  << x, y >> \in ById
  <2>1. x \in ReadBy(v) /\ y \in ReadBy(w)
    BY <1>3, ElementOfSeq DEF ReadInv, Members
  <2>2. PICK i \in DOMAIN chunks[v] : x.id[1] = chunks[v][i].cluster
    BY <2>1 DEF ReadBy
  <2>3. PICK j \in DOMAIN chunks[w] : y.id[1] = chunks[w][j].cluster
    BY <2>1 DEF ReadBy
  <2>4. x.id[1] < y.id[1]
    BY <1>1, <1>3, <1>9, <2>2, <2>3 DEF Shares, InTurn
  <2>5. x \in Block /\ y \in Block /\ x.id \in Nat \X Nat /\ y.id \in Nat \X Nat
    BY <2>1 DEF ReadBy, Block
  <2>6. << x.id, y.id >> \in Ahead
    BY <2>4, <2>5, InOrder
  <2> QED
    BY <2>5, <2>6 DEF ById
<1>10. Chain(s, ById)
  BY <1>4, <1>8, <1>9, JoinedChain
<1>11. ASSUME NEW b, IsKept(file, K, t, b)
       PROVE  b \in Members(s)
  <2>1. b \in X /\ IsPlace(file, K, b.id) /\ At(file, b.id) = b
    BY <1>11, ItemsTyped DEF IsKept, X
  <2>2. b.id \in Nat \X Nat
    BY <2>1 DEF X, OfTracks, Block
  <2>3. PICK c : Cues(file, b.id, c)
    BY <1>1, <2>1, <2>2, PlaceIsCued
  <2>4. c \in Members(SortedCues)
    BY <2>3, SortedByCluster DEF Cues, ReadInv, IsFile
  <2>5. PICK w \in DOMAIN chunks : c \in Members(chunks[w])
    BY <1>1, <2>4 DEF Shares
  <2>6. PICK i \in DOMAIN chunks[w] : c = chunks[w][i]
    BY <2>5 DEF Members
  <2>7. at[w] > Len(chunks[w]) /\ at[w] \in Nat /\ chunks[w] \in Seq(Cue)
    BY <1>3 DEF CollectInv, ReadInv, Chunked
  <2>8. i \in 1 .. at[w] - 1
    BY <2>7
  <2>9. ReachedBy(b.id, c)
    BY <2>3 DEF Cues, ReachedBy
  <2>10. b.id \in InFrontOf(chunks[w], at[w])
    BY <2>2, <2>6, <2>8, <2>9 DEF InFrontOf
  <2>11. b.id \in Members(IdsOf(got[w]))
    BY <1>2, <1>3, <2>1, <2>2, <2>10 DEF Reads
  <2>12. PICK k \in DOMAIN got[w] : b.id = got[w][k].id
    BY <2>11, IdsRead
  <2>13. got[w][k] = b
    BY <1>2, <1>3, <2>1, <2>12 DEF AreReal
  <2>14. b \in Members(got[w])
    BY <2>12, <2>13 DEF Members
  <2> HIDE DEF s
  <2> QED
    BY <1>3, <1>6, <2>14
<1> QED
  BY <1>5, <1>7, <1>10, <1>11 DEF X

LEMMA MergedIsContent ==
  ASSUME JoinInv, ReadInv, CollectInv, outcome = "join",
         \A w \in Workers : status[w] = "ok", Whole, NEW t \in active, TimesInOrder(t)
  PROVE  SetsOfTrack(FeedBlocks([u \in active |-> AsmNew], Merged).sets, t) = content[t]
<1> DEFINE s == Joined(got)
           f == file
           K == active
<1>1. /\ s \in Seq(OfTracks(K)) /\ Chain(s, ById) /\ AreReal(f, K, s)
      /\ \A b : IsKept(f, K, t, b) => b \in Members(s)
  BY AllRead
<1>2. IsFile(f)
  BY DEF ReadInv
<1>3. Merged \in Seq(OfTracks(K))
  BY <1>1, MergedFrom
<1>4. PICK of : Sorts(of, s, Merged, NotEarlier(s))
  BY <1>1, MergedFrom
<1>5. Timed(Kept(f, K, t))
  BY <1>2, BlocksAreKept DEF TimesInOrder, Timed
<1> HIDE DEF s
<1>6. Only(Merged, Own(K, t)) = Kept(f, K, t)
  <2> DEFINE m == Merged
  <2>1. m \in Seq(OfTracks(K)) /\ Sorts(of, s, m, NotEarlier(s))
    BY <1>3, <1>4
  <2> HIDE DEF m
  <2>2. Only(m, Own(K, t)) = Kept(f, K, t)
    BY <1>1, <1>2, <1>5, <2>1, SortedTrack
  <2> QED
    BY <2>2 DEF m
<1>7. content[t] = Content(f.elements, t)
  BY DEF CollectInv
<1> QED
  BY <1>2, <1>3, <1>6, <1>7, YieldsContentOf

LEMMA AssembledIs ==
  ASSUME NEW blocks, NEW t \in active
  PROVE  Assembled(blocks)[t] = SetsOfTrack(FeedBlocks([u \in active |-> AsmNew], blocks).sets, t)
<1> DEFINE fed == FeedBlocks([u \in active |-> AsmNew], blocks).sets
           r == [u \in active |-> SetsOfTrack(fed, u)]
<1>1. Assembled(blocks) = CHOOSE x \in {r} : TRUE
  BY DEF Assembled
<1>2. (CHOOSE x \in {r} : TRUE) = r
  <2> HIDE DEF r
  <2> QED
    OBVIOUS
<1>3. r[t] = SetsOfTrack(fed, t)
  OBVIOUS
<1> QED
  BY <1>1, <1>2, <1>3

LEMMA AssembleCollects ==
  ASSUME JoinInv, ReadInv, CollectInv, Assemble
  PROVE  CollectInv'
<1>1. /\ outcome = "join" /\ outcome' = "ok" /\ \A w \in Workers : status[w] = "ok"
      /\ sets' = Assembled(Merged)
      /\ UNCHANGED << request, chunks, threads >>
  BY DEF Assemble
<1>2. UNCHANGED << file, active, content, chunks, at, scanned, got, missed, status >>
  BY <1>1 DEF request, threads
<1>3. Workers' = Workers /\ SortedCues' = SortedCues /\ Whole' = Whole
      /\ AllFollow' = AllFollow /\ \A t : TimesInOrder(t)' = TimesInOrder(t)
  BY <1>2 DEF Workers, SortedCues, Whole, AllFollow, TimesInOrder
<1>4. ASSUME Whole, NEW t \in active, TimesInOrder(t)
      PROVE  sets'[t] = content[t]
  <2>1. sets'[t] = SetsOfTrack(FeedBlocks([u \in active |-> AsmNew], Merged).sets, t)
    BY <1>1, AssembledIs
  <2> QED
    BY <1>1, <1>4, <2>1, MergedIsContent
<1>5. CollectsContent'
  BY <1>2, <1>3, <1>4 DEF CollectsContent, Whole
<1> QED
  BY <1>1, <1>2, <1>3, <1>5 DEF CollectInv

(* A step that leaves the result alone leaves it right.                     *)
LEMMA CollectedStays ==
  ASSUME CollectInv, UNCHANGED << file, active, content, outcome, sets >>, missed => missed'
  PROVE  CollectsContent' /\ (Whole' => Whole)
<1>1. \A t : TimesInOrder(t)' = TimesInOrder(t)
  BY DEF TimesInOrder
<1> QED
  BY <1>1 DEF CollectInv, CollectsContent, Whole

LEMMA SpawnCollects ==
  ASSUME ReadInv, CollectInv, Spawn
  PROVE  CollectInv'
<1>1. /\ outcome' = "join" /\ chunks' = Partition(SortedCues, workers)
      /\ at' = [w \in DOMAIN chunks' |-> 1] /\ scanned' = [w \in DOMAIN chunks' |-> {}]
      /\ got' = [w \in DOMAIN chunks' |-> << >>]
      /\ status' = [w \in DOMAIN chunks' |-> "running"]
      /\ UNCHANGED << file, active, content >>
  BY DEF Spawn, request
<1>2. Shares(chunks', SortedCues)
  BY <1>1, SortedByCluster, PartitionShares DEF ReadInv, IsFile
<1>3. SortedCues' = SortedCues
  BY <1>1 DEF SortedCues
<1>4. AllFollow'
  BY <1>1, ReadsNone DEF AllFollow, Workers
<1>5. \A w \in Workers' : status'[w] # "ok"
  BY <1>1 DEF Workers
<1>6. Shares(chunks, SortedCues)'
  BY <1>2, <1>3
<1>7. /\ DOMAIN scanned' = Workers' /\ DOMAIN status' = Workers'
      /\ got' = [w \in Workers' |-> got'[w]]
  BY <1>1 DEF Workers
<1>8. CollectsContent'
  BY <1>1 DEF CollectsContent
<1> QED
  BY <1>1, <1>4, <1>5, <1>6, <1>7, <1>8 DEF CollectInv

LEMMA WorkerCollects ==
  ASSUME JoinInv, ReadInv, CollectInv, NEW w \in Workers, WorkerStep(w)
  PROVE  CollectInv'
<1>1. UNCHANGED << file, active, content, chunks, outcome, sets >> /\ (missed => missed')
  <2>1. CASE WorkerReads(w)
    BY <2>1 DEF WorkerReads, request
  <2>2. CASE WorkerMeetsUnreadableHeader(w)
    BY <2>2 DEF WorkerMeetsUnreadableHeader, request
  <2>3. CASE \E how : WorkerStops(w, how)
    BY <2>3 DEF WorkerStops, request
  <2> QED
    BY <2>1, <2>2, <2>3
    DEF WorkerStep, WorkerProceeds, WorkerFinishes, WorkerFails, WorkerMeetsCutOff
<1>2. Workers' = Workers /\ SortedCues' = SortedCues
  BY <1>1 DEF Workers, SortedCues
<1>3. CollectsContent' /\ (Whole' => Whole)
  BY <1>1, CollectedStays
<1>4. /\ active' \subseteq PgsTracks'
      /\ content' = [t \in PgsTracks |-> Content(file'.elements, t)]
      /\ outcome' \notin {"call", "none"} => Shares(chunks, SortedCues)'
  BY <1>1, <1>2 DEF CollectInv
<1>5. DOMAIN at = Workers /\ DOMAIN got = Workers /\ DOMAIN scanned = Workers /\ DOMAIN status = Workers
      /\ at[w] \in Nat
  BY DEF ReadInv, CollectInv
<1>6. CASE WorkerReads(w)
  <2>1. /\ Running(w) /\ at[w] <= Len(chunks[w]) /\ status' = status
        /\ scanned' = [scanned EXCEPT ![w] = Read(w).visited]
        /\ got' = [got EXCEPT ![w] = @ \o Read(w).blocks]
        /\ at' = [at EXCEPT ![w] = @ + 1]
    BY <1>6 DEF WorkerReads
  <2>2. ASSUME NEW v \in Workers, status'[v] = "ok"
        PROVE  at'[v] > Len(chunks[v])
    <3>1. v # w /\ status[v] = "ok"
      BY <2>1, <2>2 DEF Running
    <3> QED
      BY <1>5, <2>1, <3>1 DEF CollectInv
  <2>3. ASSUME Whole
        PROVE  AllFollow'
    <3>1. ReadInFront(file, active, chunks[w], at[w] + 1, got[w] \o Read(w).blocks, Read(w).visited)
      <4> DEFINE cs == chunks[w]
                 i == at[w]
                 g == got[w]
                 v == scanned[w]
                 read == CueBlocks(file.elements, cs[i], active, v)
      <4>1. FullyCued(file, active) /\ \A e \in DOMAIN file.elements : file.elements[e].known
        BY <2>3, KnownInWhole DEF Whole
      <4>2. cs \in Seq(Cue) /\ Members(cs) \subseteq Members(file.cues) /\ Chain(cs, Before)
        BY <4>1, ShareOf
      <4>3. i \in DOMAIN cs /\ IsFile(file)
        BY <2>1, <4>2 DEF ReadInv
      <4>4. ReadInFront(file, active, cs, i, g, v)
        BY <2>3 DEF CollectInv, AllFollow
      <4>5. Read(w) = read
        BY DEF Read
      <4> HIDE DEF cs, i, g, v
      <4>6. ReadInFront(file, active, cs, i + 1, g \o read.blocks, read.visited)
        BY <4>1, <4>2, <4>3, <4>4, ReadsOn
      <4> QED
        BY <4>5, <4>6 DEF cs, i, g, v
    <3>2. ASSUME NEW v \in Workers
          PROVE  ReadInFront(file, active, chunks[v], at'[v], got'[v], scanned'[v])
      <4>1. CASE v = w
        BY <1>5, <2>1, <3>1, <4>1
      <4>2. CASE v # w
        BY <1>5, <2>1, <2>3, <4>2 DEF CollectInv, AllFollow
      <4> QED
        BY <4>1, <4>2
    <3> QED
      BY <1>1, <1>2, <3>2 DEF AllFollow
  <2>4. DOMAIN scanned' = Workers /\ DOMAIN status' = Workers /\ got' = [v \in Workers |-> got'[v]]
    BY <1>5, <2>1
  <2> QED
    BY <1>1, <1>2, <1>3, <1>4, <2>2, <2>3, <2>4 DEF CollectInv
<1>7. CASE WorkerMeetsUnreadableHeader(w)
  <2>1. /\ Running(w) /\ status' = status /\ missed' = TRUE
        /\ scanned' = [scanned EXCEPT ![w] = Read(w).visited]
        /\ at' = [at EXCEPT ![w] = @ + 1]
        /\ \E more : got' = [got EXCEPT ![w] = @ \o more]
    BY <1>7 DEF WorkerMeetsUnreadableHeader
  <2>2. ASSUME NEW v \in Workers, status'[v] = "ok"
        PROVE  at'[v] > Len(chunks[v])
    <3>1. v # w /\ status[v] = "ok"
      BY <2>1, <2>2 DEF Running
    <3> QED
      BY <1>5, <2>1, <3>1 DEF CollectInv
  <2>3. ~ Whole'
    BY <2>1 DEF Whole
  <2>4. DOMAIN scanned' = Workers /\ DOMAIN status' = Workers /\ got' = [v \in Workers |-> got'[v]]
    BY <1>5, <2>1
  <2> QED
    BY <1>1, <1>2, <1>3, <1>4, <2>2, <2>3, <2>4 DEF CollectInv
<1>8. CASE WorkerMeetsCutOff(w) \/ WorkerFinishes(w) \/ WorkerFails(w)
  <2>1. PICK how \in {"ok", "err", "panic"} :
          WorkerStops(w, how) /\ (how = "ok" => at[w] > Len(chunks[w]))
    BY <1>8 DEF WorkerMeetsCutOff, WorkerFinishes, WorkerFails
  <2>2. UNCHANGED << at, scanned, got, missed >> /\ status' = [status EXCEPT ![w] = how]
    BY <2>1 DEF WorkerStops
  <2>3. ASSUME NEW v \in Workers, status'[v] = "ok"
        PROVE  at'[v] > Len(chunks[v])
    BY <1>5, <2>1, <2>2, <2>3 DEF CollectInv
  <2>4. AllFollow' = AllFollow
    BY <1>1, <1>2, <2>2 DEF AllFollow
  <2>5. DOMAIN scanned' = Workers /\ DOMAIN status' = Workers
    BY <1>5, <2>2
  <2>6. got' = [v \in Workers |-> got'[v]]
    BY <2>2 DEF CollectInv
  <2> QED
    BY <1>1, <1>2, <1>3, <1>4, <2>3, <2>4, <2>5, <2>6 DEF CollectInv
<1> QED
  BY <1>6, <1>7, <1>8 DEF WorkerStep, WorkerProceeds

LEMMA CollectStep == JoinInv /\ ReadInv /\ CollectInv /\ [CollectNext]_collectVars => CollectInv'
<1> SUFFICES ASSUME JoinInv, ReadInv, CollectInv, [CollectNext]_collectVars
             PROVE  CollectInv'
  OBVIOUS
<1>1. CASE NotApplicable \/ JoinFails
  <2>1. /\ UNCHANGED << file, active, content, chunks, at, scanned, got, missed, status, sets >>
        /\ outcome' # "ok"
        /\ outcome' \notin {"call", "none"} => outcome \notin {"call", "none"}
    BY <1>1 DEF NotApplicable, JoinFails, request, threads
  <2>2. Workers' = Workers /\ SortedCues' = SortedCues /\ Whole' = Whole /\ AllFollow' = AllFollow
    BY <2>1 DEF Workers, SortedCues, Whole, AllFollow
  <2> QED
    BY <2>1, <2>2 DEF CollectInv, CollectsContent
<1>2. CASE UNCHANGED collectVars
  <2>1. UNCHANGED << file, active, content, chunks, at, scanned, got, missed, status, sets, outcome >>
    BY <1>2 DEF collectVars, request, threads
  <2>2. Workers' = Workers /\ SortedCues' = SortedCues /\ Whole' = Whole /\ AllFollow' = AllFollow
    BY <2>1 DEF Workers, SortedCues, Whole, AllFollow
  <2>3. CollectsContent'
    BY <2>1, CollectedStays
  <2> QED
    BY <2>1, <2>2, <2>3 DEF CollectInv
<1> QED
  BY <1>1, <1>2, SpawnCollects, AssembleCollects, WorkerCollects DEF CollectNext, MainStep

(* For every file, any number of workers in any order and any of them       *)
(* failing, the parallel collect returns what the file holds, track by      *)
(* track, if every block is cued and none is lost (streaming_api.rs:275).   *)
THEOREM CollectsWhatTheFileHolds == CollectSpec => []CollectsContent
<1>1. CollectInv => CollectsContent
  BY DEF CollectInv
<1> QED
  BY <1>1, JoinInit, JoinStep, ReadInit, ReadStep, ContentInitially, CollectStep, PTL DEF CollectSpec
=============================================================================
