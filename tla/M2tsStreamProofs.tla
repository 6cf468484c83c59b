-------------------------- MODULE M2tsStreamProofs --------------------------
(***************************************************************************)
(* The scanner of the M2TS extractor moves forward and looks at everything *)
(* it can: whatever packets have lost their sync byte, wherever scanning   *)
(* starts, and for every block size and resync limit, no packet is pushed  *)
(* twice, every block read brings the reader further, and a readable       *)
(* packet is skipped only for one of the known causes.                     *)
(*                                                                         *)
(* ScannerInv says where the processed packets lie: behind the reader      *)
(* between blocks, behind the scan offset inside a block, and that the     *)
(* offset of a block in progress is ahead of the block's start.  A resync  *)
(* from cell c never leaves the reader before c - 1 (ResyncForward).       *)
(* SkipInv adds that every cell between the start and the Frontier was     *)
(* scanned, is out of sync, or is Excused; causes are never taken back.    *)
(*                                                                         *)
(* Then: what the scanner hands out are display sets of the file, each     *)
(* segment whole, unless a packet of the PID was lost between the first    *)
(* and the last segment, and those of one PID come in the order of the     *)
(* file.  GenuineInv says of every PID what its reassembler and its        *)
(* assembler hold (PidInv): the buffer is a train of pieces of scanned     *)
(* packets in which a piece continues the one before it or a packet is     *)
(* lost between them (IsTrain); the display set held is a prefix of one    *)
(* of the file, the rest of which follows, or a packet was lost since it   *)
(* began (IsBefore); and both lie behind every display set handed out or   *)
(* queued (Behind), of which OutOk says the properties.                    *)
(*                                                                         *)
(* Last: nothing whose packets were scanned is lost.  CollectInv says of   *)
(* every display set of the file that has begun (AllCollect): it was made, *)
(* or one of its packets was passed over (Found), or its PID collects it:  *)
(* the assembler holds its first segments or none, the buffer begins with  *)
(* the next one (Aimed) and runs on unbroken to its END, or to where the   *)
(* buffer ends while the END is still to come (Reaches).  The flush leaves *)
(* only Missing or Given (AllFound).                                       *)
(***************************************************************************)
EXTENDS M2tsStream, SequenceLemmas, FiniteSetTheorems

ScannerInv ==
  /\ Len(file) \in Nat
  /\ pos \in 0 .. Len(file)
  /\ off \in Nat /\ hi \in 0 .. Len(file)
  /\ phase \in {"top", "scan"}
  /\ result = "end" => phase = "top"
  /\ phase = "top" => \A i \in scanned : i \in 1 .. pos
  /\ phase = "scan" => /\ \A i \in scanned : i \in 1 .. off - 1
                       /\ off \in pos + 1 .. hi + 1 /\ pos < hi

LEMMA ResyncForward ==
  ASSUME Len(file) \in Nat, NEW c \in Nat, NEW q \in 0 .. Len(file),
         ResyncsTo(c, q)
  PROVE  q >= c - 1 \/ q = Len(file)
BY DEF ResyncsTo

LEMMA BlockEndAhead ==
  ASSUME Len(file) \in Nat, pos \in 0 .. Len(file), pos < Len(file)
  PROVE  BlockEnd \in pos + 1 .. Len(file)
BY BlockAssumption DEF BlockEnd

LEMMA FileLength == \A f \in Files : Len(f) \in Nat
<1> SUFFICES ASSUME NEW f \in Files PROVE Len(f) \in Nat
  OBVIOUS
<1>1. f \in Seq(Cells)
  BY FilesAssumption DEF IsFile
<1> QED BY <1>1

LEMMA ScannerInit == Init => ScannerInv
BY FileLength DEF Init, ScannerInv

LEMMA ScannerStep ==
  ASSUME ScannerInv, [Next]_vars
  PROVE  /\ ScannerInv'
         /\ phase = "scan" /\ InSync(off) /\ off' = off + 1 => off \notin scanned
         /\ pos' # pos \/ (phase = "scan" /\ phase' = "top" /\ result' = result)
              => pos' > pos
<1> DEFINE Goal == /\ ScannerInv'
                   /\ phase = "scan" /\ InSync(off) /\ off' = off + 1 => off \notin scanned
                   /\ pos' # pos \/ (phase = "scan" /\ phase' = "top" /\ result' = result)
                        => pos' > pos
<1>1. CASE UNCHANGED vars
  BY <1>1 DEF vars, input, reader, demux, queue, ScannerInv
<1>2. CASE PopPending
  BY <1>2 DEF PopPending, AtTop, input, reader, ScannerInv
<1>3. CASE Finish
  BY <1>3 DEF Finish, AtTop, input, reader, ScannerInv
<1>4. CASE FlushAll
  BY <1>4 DEF FlushAll, AtTop, input, reader, ScannerInv
<1>5. CASE BeginBlock
  <2>1. BlockEnd \in pos + 1 .. Len(file)
    BY <1>5, BlockEndAhead DEF BeginBlock, ScannerInv
  <2>. QED
    BY <1>5, <2>1 DEF BeginBlock, AtTop, input, ScannerInv
<1>6. CASE BeginBlockOutOfSync
  <2>1. BlockEnd \in pos + 1 .. Len(file)
    BY <1>6, BlockEndAhead DEF BeginBlockOutOfSync, ScannerInv
  <2>2. pos' \in pos + 1 .. Len(file)
    <3>1. PICK q \in 0 .. Len(file) : ResyncsTo(BlockEnd + 2, q) /\ pos' = q
      BY <1>6 DEF BeginBlockOutOfSync
    <3>2. q >= BlockEnd + 2 - 1 \/ q = Len(file)
      BY <2>1, <3>1, ResyncForward DEF ScannerInv
    <3>. QED
      BY <2>1, <3>1, <3>2 DEF ScannerInv
  <2>. QED
    BY <1>6, <2>2 DEF BeginBlockOutOfSync, AtTop, input, ScannerInv
<1>7. CASE ScanPacket
  BY <1>7 DEF ScanPacket, Scanning, input, ScannerInv
<1>8. CASE SkipJunk
  BY <1>8 DEF SkipJunk, Scanning, input, ScannerInv
<1>9. CASE LoseSync
  <2>1. pos' \in off .. Len(file)
    <3>1. PICK q \in 0 .. Len(file) : ResyncsTo(off + 1, q) /\ pos' = q
      BY <1>9 DEF LoseSync
    <3>2. q >= off + 1 - 1 \/ q = Len(file)
      BY <3>1, ResyncForward DEF ScannerInv
    <3>. QED
      BY <1>9, <3>1, <3>2 DEF LoseSync, Scanning, ScannerInv
  <2>. QED
    BY <1>9, <2>1 DEF LoseSync, Scanning, input, ScannerInv
<1>10. CASE EndBlock
  BY <1>10 DEF EndBlock, Scanning, input, ScannerInv
<1>11. CASE Fail
  BY <1>11 DEF Fail, AtTop, Scanning, input, reader, ScannerInv
<1>. QED
  BY <1>1, <1>2, <1>3, <1>4, <1>5, <1>6, <1>7, <1>8, <1>9, <1>10, <1>11
     DEF Next

LEMMA ScannerAlways == Spec => []ScannerInv
<1>1. ScannerInv /\ [Next]_vars => ScannerInv'
  BY ScannerStep
<1>. QED
  BY <1>1, ScannerInit, PTL DEF Spec

(* No packet reaches the reassemblers twice (stream.rs:261-319).           *)
THEOREM PacketsAreScannedOnce == Spec => NeverRescans
<1>1. ScannerInv /\ [Next]_vars =>
        [phase = "scan" /\ InSync(off) /\ off' = off + 1
           => off \notin scanned]_vars
  BY ScannerStep
<1>. QED
  BY <1>1, ScannerAlways, PTL DEF Spec, NeverRescans

(* Every block read moves the reader forward (stream.rs:225-322), the      *)
(* ranking argument behind the termination of the iterator.                *)
THEOREM ReaderAdvances == Spec => BlocksAdvance
<1>1. ScannerInv /\ [Next]_vars =>
        [pos' # pos \/ (phase = "scan" /\ phase' = "top" /\ result' = result)
           => pos' > pos]_vars
  BY ScannerStep
<1>. QED
  BY <1>1, ScannerAlways, PTL DEF Spec, BlocksAdvance
-----------------------------------------------------------------------------
(* The first cells of blocks that began out of sync.                       *)
BadBlocks == blockStarts \cap junk

(* Why cell i may have been skipped, as in SkippedForCause.                *)
Excused(i, bad) ==
  \/ \E b \in bad : i \in b .. b + BlockCells
  \/ \E c \in {j + 1 : j \in junk} \cup {b + BlockCells + 1 : b \in bad} :
       c <= i /\ \A m \in c .. i : m <= ResyncLast(c) /\ m - c \notin Untested => ~ SyncPair(m)

(* Where the scanner is: every cell from start up to here was looked at.   *)
Frontier == IF phase = "scan" THEN off - 1 ELSE pos

SkipInv ==
  /\ ScannerInv
  /\ junk \subseteq 1 .. Len(file) /\ start \in 0 .. Len(file)
  /\ blockStarts \subseteq 1 .. Len(file)
  /\ start <= pos
  /\ \A i \in start + 1 .. Frontier : InSync(i) /\ i \notin scanned => Excused(i, BadBlocks)

LEMMA SkipInvIsStrongEnough == SkipInv => SkippedForCause
BY DEF SkipInv, SkippedForCause, Excused, BadBlocks, Frontier

(* A resync from c passes over nothing that is not excused by c.           *)
LEMMA ResyncSkipsForCause ==
  ASSUME Len(file) \in Nat, NEW c \in Nat, NEW q \in 0 .. Len(file),
         ResyncsTo(c, q), NEW i \in c .. q
  PROVE  c <= i /\ \A m \in c .. i :
                      m <= ResyncLast(c) /\ m - c \notin Untested => ~ SyncPair(m)
<1>1. PICK blind \in SUBSET Untested :
        \/ \A n \in c .. q : ~ (SyncPair(n) /\ n - c \notin blind)
        \/ \A n \in c .. ResyncLast(c) : ~ (SyncPair(n) /\ n - c \notin blind)
  BY DEF ResyncsTo
<1>2. ASSUME NEW m \in c .. i, m <= ResyncLast(c), m - c \notin Untested
      PROVE  ~ SyncPair(m)
  <2>1. m \in c .. q /\ m - c \notin blind
    BY <1>2
  <2>2. ResyncLast(c) \in Int
    BY ResyncAssumption DEF ResyncLast
  <2>3. m \in c .. ResyncLast(c)
    BY <1>2, <2>2
  <2> QED
    BY <1>1, <2>1, <2>3
<1> QED
  BY <1>2

(* Blocks that begin out of sync later on excuse no less.                  *)
LEMMA ExcusedGrows ==
  ASSUME NEW i, NEW small, NEW large, small \subseteq large, Excused(i, small)
  PROVE  Excused(i, large)
BY DEF Excused

LEMMA SkipInit == Init => SkipInv
<1> SUFFICES ASSUME Init PROVE SkipInv
  OBVIOUS
<1>1. ScannerInv
  BY ScannerInit
<1> QED
  BY <1>1 DEF Init, SkipInv, Frontier, ScannerInv

(* Steps that look at no new cell, or only at one that was scanned or is   *)
(* out of sync.                                                            *)
LEMMA SkipKept ==
  ASSUME SkipInv, ScannerInv', UNCHANGED << input, blockStarts >>,
         scanned \subseteq scanned', start <= pos',
         \A i \in start + 1 .. Frontier' :
           i \in start + 1 .. Frontier \/ i \in scanned' \/ ~ InSync(i)
  PROVE  SkipInv'
<1>1. \A i \in Nat : InSync(i)' <=> InSync(i)
  BY DEF InSync, input
<1>2. \A i : Excused(i, BadBlocks) => Excused(i, BadBlocks)'
  BY DEF Excused, BadBlocks, ResyncLast, SyncPair, InSync, input
<1>3. ASSUME NEW i \in start' + 1 .. Frontier', InSync(i)', i \notin scanned'
      PROVE  Excused(i, BadBlocks)'
  <2>1. i \in Nat /\ start' = start
    BY DEF SkipInv, input
  <2>2. i \in start + 1 .. Frontier /\ InSync(i) /\ i \notin scanned
    BY <1>1, <1>3, <2>1
  <2> QED
    BY <1>2, <2>2 DEF SkipInv
<1> QED
  BY <1>3 DEF SkipInv, input

(* The search for sync from c moves the reader to q; the cells before c    *)
(* are excused already.                                                    *)
LEMMA SkipByResync ==
  ASSUME SkipInv, ScannerInv', UNCHANGED << input, scanned >>,
         blockStarts \subseteq blockStarts', blockStarts' \subseteq 1 .. Len(file),
         NEW c \in Nat, NEW q \in 0 .. Len(file), ResyncsTo(c, q),
         pos' = q, phase' = "top", start <= q,
         c \in {j + 1 : j \in junk} \cup {b + BlockCells + 1 : b \in BadBlocks'},
         \A i \in start + 1 .. q :
           i < c => \/ i \in start + 1 .. Frontier
                    \/ ~ InSync(i)
                    \/ \E b \in BadBlocks' : i \in b .. b + BlockCells
  PROVE  SkipInv'
<1>1. ASSUME NEW i \in start + 1 .. q, InSync(i), i \notin scanned
      PROVE  Excused(i, BadBlocks')
  <2>1. CASE i >= c
    <3>1. i \in c .. q
      BY <2>1 DEF SkipInv
    <3>2. c <= i /\ \A m \in c .. i :
                      m <= ResyncLast(c) /\ m - c \notin Untested => ~ SyncPair(m)
      BY <3>1, ResyncSkipsForCause DEF SkipInv, ScannerInv
    <3> QED
      BY <3>2 DEF Excused
  <2>2. CASE i < c /\ i \in start + 1 .. Frontier
    <3>1. Excused(i, BadBlocks)
      BY <1>1, <2>2 DEF SkipInv
    <3>2. BadBlocks \subseteq BadBlocks'
      BY DEF BadBlocks, input
    <3> QED
      BY <3>1, <3>2, ExcusedGrows
  <2>3. CASE i < c /\ \E b \in BadBlocks' : i \in b .. b + BlockCells
    BY <2>3 DEF Excused
  <2> QED
    BY <1>1, <2>1, <2>2, <2>3 DEF SkipInv
<1>2. Frontier' = q /\ start' = start /\ scanned' = scanned
  BY DEF Frontier, input
<1>3. \A i : InSync(i)' <=> InSync(i)
  BY DEF InSync, input
<1>4. \A i : Excused(i, BadBlocks') => Excused(i, BadBlocks)'
  BY DEF Excused, ResyncLast, SyncPair, InSync, input
<1> QED
  BY <1>1, <1>2, <1>3, <1>4 DEF SkipInv, input

LEMMA SkipStep ==
  ASSUME SkipInv, [Next]_vars
  PROVE  SkipInv'
<1>0. ScannerInv'
  BY ScannerStep DEF SkipInv
<1>1. CASE UNCHANGED vars \/ PopPending \/ Finish \/ FlushAll \/ Fail
  <2>1. UNCHANGED << input, reader >>
    BY <1>1 DEF vars, PopPending, Finish, FlushAll, Fail
  <2> QED
    BY <1>0, <2>1, SkipKept DEF reader, Frontier, SkipInv
<1>2. CASE BeginBlock
  <2>1. pos + 1 \in 1 .. Len(file)
    BY <1>2 DEF BeginBlock, SkipInv, ScannerInv
  <2>2. ASSUME NEW i \in start + 1 .. pos, InSync(i), i \notin scanned
        PROVE  Excused(i, BadBlocks')
    <3>1. Frontier = pos
      BY <1>2 DEF BeginBlock, AtTop, Frontier
    <3>2. Excused(i, BadBlocks)
      BY <2>2, <3>1 DEF SkipInv
    <3>3. BadBlocks \subseteq BadBlocks'
      BY <1>2 DEF BeginBlock, BadBlocks, input
    <3> QED
      BY <3>2, <3>3, ExcusedGrows
  <2>3. /\ Frontier' = pos /\ start' = start /\ scanned' = scanned /\ pos' = pos
        /\ junk' = junk /\ file' = file
    BY <1>2 DEF BeginBlock, Frontier, input, SkipInv, ScannerInv
  <2>4. \A i : InSync(i)' <=> InSync(i)
    BY <2>3 DEF InSync
  <2>5. \A i : Excused(i, BadBlocks') => Excused(i, BadBlocks)'
    BY <2>3 DEF Excused, ResyncLast, SyncPair, InSync
  <2>6. \A i \in start' + 1 .. Frontier' :
          InSync(i)' /\ i \notin scanned' => Excused(i, BadBlocks)'
    BY <2>2, <2>3, <2>4, <2>5
  <2>7. blockStarts' \subseteq 1 .. Len(file)
    BY <1>2, <2>1 DEF BeginBlock, SkipInv
  <2> QED
    BY <1>0, <2>3, <2>6, <2>7 DEF SkipInv
<1>3. CASE BeginBlockOutOfSync
  <2>1. PICK q \in 0 .. Len(file) : ResyncsTo(BlockEnd + 2, q) /\ pos' = q
    BY <1>3 DEF BeginBlockOutOfSync
  <2>2. /\ UNCHANGED << input, scanned >> /\ phase = "top" /\ phase' = "top"
        /\ blockStarts' = blockStarts \cup {pos + 1} /\ ~ InSync(pos + 1)
        /\ pos < Len(file)
    BY <1>3 DEF BeginBlockOutOfSync, AtTop
  <2>3. /\ pos \in Nat /\ Len(file) \in Nat /\ start \in Nat /\ start <= pos
        /\ pos + 1 \in 1 .. Len(file) /\ pos + 1 \in junk
    BY <2>2 DEF SkipInv, ScannerInv, InSync
  <2>4. pos + 1 \in BadBlocks'
    BY <2>2, <2>3 DEF BadBlocks, input
  <2>5. BlockEnd \in pos + 1 .. Len(file)
    BY <2>2, BlockEndAhead DEF SkipInv, ScannerInv
  <2>6. q >= pos + 1
    BY <2>1, <2>3, <2>5, ResyncForward
  <2>7. CASE BlockEnd = pos + BlockCells
    <3> DEFINE c == BlockEnd + 2
    <3>1. c \in Nat /\ c = (pos + 1) + BlockCells + 1
      BY <2>3, <2>7, BlockAssumption
    <3>2. c \in {b + BlockCells + 1 : b \in BadBlocks'}
      BY <2>4, <3>1
    <3>3. ASSUME NEW i \in start + 1 .. q, i < c
          PROVE  i \in start + 1 .. Frontier
                   \/ \E b \in BadBlocks' : i \in b .. b + BlockCells
      <4>1. CASE i <= pos
        BY <2>2, <2>3, <4>1 DEF Frontier
      <4>2. CASE i > pos
        <5>1. i \in pos + 1 .. (pos + 1) + BlockCells
          BY <2>3, <3>1, <3>3, <4>2, BlockAssumption
        <5> QED
          BY <2>4, <5>1
      <4> QED
        BY <2>3, <4>1, <4>2
    <3> HIDE DEF c
    <3>4. ResyncsTo(c, q)
      BY <2>1 DEF c
    <3>5. start <= q
      BY <2>3, <2>6
    <3>6. blockStarts \subseteq blockStarts' /\ blockStarts' \subseteq 1 .. Len(file)
      BY <2>2, <2>3 DEF SkipInv
    <3> QED
      BY <1>0, <2>1, <2>2, <3>1, <3>2, <3>3, <3>4, <3>5, <3>6, SkipByResync
  <2>8. CASE BlockEnd # pos + BlockCells
    <3>1. Len(file) <= pos + BlockCells
      BY <2>3, <2>8, BlockAssumption DEF BlockEnd
    <3>2. ASSUME NEW i \in start + 1 .. q, InSync(i), i \notin scanned
          PROVE  Excused(i, BadBlocks')
      <4>1. CASE i <= pos
        <5>1. Excused(i, BadBlocks)
          BY <2>2, <2>3, <3>2, <4>1 DEF SkipInv, Frontier
        <5>2. BadBlocks \subseteq BadBlocks'
          BY <2>2 DEF BadBlocks, input
        <5> QED
          BY <5>1, <5>2, ExcusedGrows
      <4>2. CASE i > pos
        <5>1. i \in pos + 1 .. (pos + 1) + BlockCells
          BY <2>3, <3>1, <3>2, <4>2, BlockAssumption
        <5> QED
          BY <2>4, <5>1 DEF Excused
      <4> QED
        BY <2>3, <4>1, <4>2
    <3>3. /\ Frontier' = q /\ start' = start /\ scanned' = scanned /\ pos' = q
          /\ junk' = junk /\ file' = file
      BY <2>1, <2>2 DEF Frontier, input
    <3>4. \A i : InSync(i)' <=> InSync(i)
      BY <3>3 DEF InSync
    <3>5. \A i : Excused(i, BadBlocks') => Excused(i, BadBlocks)'
      BY <3>3 DEF Excused, ResyncLast, SyncPair, InSync
    <3>6. \A i \in start' + 1 .. Frontier' :
            InSync(i)' /\ i \notin scanned' => Excused(i, BadBlocks)'
      BY <3>2, <3>3, <3>4, <3>5
    <3>7. start' <= pos' /\ blockStarts' \subseteq 1 .. Len(file)
      BY <2>2, <2>3, <2>6, <3>3 DEF SkipInv
    <3> QED
      BY <1>0, <3>3, <3>6, <3>7 DEF SkipInv
  <2> QED
    BY <2>7, <2>8
<1>4. CASE ScanPacket
  <2>1. /\ UNCHANGED << input, blockStarts, pos >> /\ phase = "scan" /\ phase' = "scan"
        /\ off' = off + 1 /\ scanned' = scanned \cup {off}
    BY <1>4 DEF ScanPacket, Scanning
  <2>2. off \in Nat /\ start \in Nat
    BY DEF SkipInv, ScannerInv
  <2>3. \A i \in start + 1 .. off : i \in start + 1 .. off - 1 \/ i = off
    BY <2>2
  <2>4. Frontier' = off /\ Frontier = off - 1
    BY <2>1, <2>2 DEF Frontier
  <2> QED
    BY <1>0, <2>1, <2>3, <2>4, SkipKept DEF SkipInv
<1>5. CASE SkipJunk
  <2>1. /\ UNCHANGED << input, blockStarts, pos, scanned >>
        /\ phase = "scan" /\ phase' = "scan" /\ off' = off + 1 /\ ~ InSync(off)
    BY <1>5 DEF SkipJunk, Scanning
  <2>2. off \in Nat /\ start \in Nat
    BY DEF SkipInv, ScannerInv
  <2>3. \A i \in start + 1 .. off : i \in start + 1 .. off - 1 \/ i = off
    BY <2>2
  <2>4. Frontier' = off /\ Frontier = off - 1
    BY <2>1, <2>2 DEF Frontier
  <2> QED
    BY <1>0, <2>1, <2>3, <2>4, SkipKept DEF SkipInv
<1>6. CASE LoseSync
  <2>1. PICK q \in 0 .. Len(file) : ResyncsTo(off + 1, q) /\ pos' = q
    BY <1>6 DEF LoseSync
  <2>2. /\ UNCHANGED << input, scanned, blockStarts >> /\ phase = "scan" /\ phase' = "top"
        /\ ~ InSync(off) /\ off <= hi
    BY <1>6 DEF LoseSync, Scanning
  <2>3. /\ off \in Nat /\ start \in Nat /\ Len(file) \in Nat
        /\ off \in 1 .. Len(file) /\ off \in junk /\ start <= off - 1
    BY <2>2 DEF SkipInv, ScannerInv, InSync
  <2>4. q >= off
    BY <2>1, <2>3, ResyncForward
  <2>5. off + 1 \in {j + 1 : j \in junk}
    BY <2>3
  <2>6. Frontier = off - 1
    BY <2>2 DEF Frontier
  <2>7. ASSUME NEW i \in start + 1 .. q, i < off + 1
        PROVE  i \in start + 1 .. Frontier \/ ~ InSync(i)
    <3>1. i = off \/ i \in start + 1 .. off - 1
      BY <2>3, <2>7
    <3> QED
      BY <2>2, <2>6, <3>1
  <2>8. off + 1 \in Nat /\ start <= q
    BY <2>3, <2>4
  <2>9. blockStarts \subseteq 1 .. Len(file)
    BY DEF SkipInv
  <2> QED
    BY <1>0, <2>1, <2>2, <2>5, <2>7, <2>8, <2>9, SkipByResync
<1>7. CASE EndBlock
  <2>1. /\ UNCHANGED << input, blockStarts, scanned >>
        /\ phase = "scan" /\ phase' = "top" /\ pos' = hi /\ off > hi
    BY <1>7 DEF EndBlock, Scanning
  <2>2. off - 1 = hi /\ start <= hi
    BY <2>1 DEF SkipInv, ScannerInv
  <2>3. Frontier' = Frontier
    BY <2>1, <2>2 DEF Frontier
  <2> QED
    BY <1>0, <2>1, <2>2, <2>3, SkipKept
<1> QED
  BY <1>1, <1>2, <1>3, <1>4, <1>5, <1>6, <1>7 DEF Next

(* A readable packet is skipped only for one of the known causes           *)
(* (stream.rs:229-319, ts_packet.rs:160-230), wherever sync is lost.       *)
THEOREM PacketsAreSkippedForCause == Spec => []SkippedForCause
<1>1. SkipInv /\ [Next]_vars => SkipInv'
  BY SkipStep
<1> QED
  BY <1>1, SkipInit, SkipInvIsStrongEnough, PTL DEF Spec
-----------------------------------------------------------------------------
LEMMA WithinFile ==
  ASSUME NEW n \in Nat, NEW h \in 0 .. n, NEW p \in 0 .. n, NEW o \in p + 1 .. h + 1,
         NEW S, \A i \in S : i \in 1 .. o - 1
  PROVE  o \in 0 .. n + 1 /\ S \subseteq 1 .. n
OBVIOUS

LEMMA TypeStep ==
  ASSUME SkipInv, TypeOK, [Next]_vars
  PROVE  TypeOK'
<1>0. ScannerInv' /\ SkipInv'
  BY ScannerStep, SkipStep DEF SkipInv
<1>1. /\ junk' \subseteq 1 .. Len(file)' /\ start' \in 0 .. Len(file)'
      /\ pos' \in 0 .. Len(file)' /\ phase' \in {"top", "scan"}
      /\ hi' \in 0 .. Len(file)' /\ blockStarts' \subseteq 1 .. Len(file)'
  BY <1>0 DEF SkipInv, ScannerInv
<1>2. off' \in 0 .. Len(file)' + 1 /\ scanned' \subseteq 1 .. Len(file)'
  <2>1. file' = file /\ (phase' = "scan" \/ off' = off)
    <3>1. CASE FlushAll
      BY <3>1 DEF FlushAll, input, reader
    <3> QED
      BY <3>1 DEF Next, vars, input, reader, PopPending, Finish, BeginBlock, Scanning,
         BeginBlockOutOfSync, ScanPacket, SkipJunk, LoseSync, EndBlock, Fail
  <2>2. CASE phase' = "scan"
    <3>1. /\ Len(file)' \in Nat /\ hi' \in 0 .. Len(file)' /\ pos' \in 0 .. Len(file)'
          /\ off' \in pos' + 1 .. hi' + 1
      BY <1>0, <2>2 DEF ScannerInv
    <3>2. \A i \in scanned' : i \in 1 .. off' - 1
      BY <1>0, <2>2 DEF ScannerInv
    <3> QED
      BY <3>1, <3>2, WithinFile
  <2>3. CASE phase' = "top"
    BY <1>0, <2>1, <2>3 DEF ScannerInv, TypeOK
  <2> QED
    BY <1>1, <2>2, <2>3
<1>3. DOMAIN buffer' = Pids /\ hasData' \in [Pids -> BOOLEAN] /\ DOMAIN asm' = Pids
  <2>1. CASE ScanPacket
    <3>1. ProcessPacket(file[off])
      BY <2>1 DEF ScanPacket
    <3> QED
      BY <3>1 DEF ProcessPacket, TypeOK, demux
  <2>2. CASE FlushAll
    BY <2>2 DEF FlushAll, TypeOK
  <2>3. CASE UNCHANGED demux
    BY <2>3 DEF demux, TypeOK
  <2> QED
    BY <2>1, <2>2, <2>3 DEF Next, vars, PopPending, Finish, BeginBlock, BeginBlockOutOfSync,
       SkipJunk, LoseSync, EndBlock, Fail
<1>4. flushed' \in BOOLEAN /\ result' \in {"more", "end", "err"}
  BY DEF TypeOK, Next, vars, PopPending, Finish, FlushAll, BeginBlock,
     BeginBlockOutOfSync, ScanPacket, SkipJunk, LoseSync, EndBlock, Fail
<1> QED
  BY <1>1, <1>2, <1>3, <1>4 DEF TypeOK

(* The variables of the scanner keep to their types: the reader in the     *)
(* file, the block within it, one reassembler and assembler for each PID.  *)
THEOREM ScannerTyped == Spec => []TypeOK
<1>1. Init => TypeOK
  <2>1. Init => /\ Len(file) \in Nat /\ junk \subseteq 1 .. Len(file)
                /\ pos \in 0 .. Len(file) /\ start \in 0 .. Len(file)
                /\ off = 0 /\ hi = 0 /\ scanned = {} /\ blockStarts = {}
    BY FileLength DEF Init
  <2>2. Init => /\ phase = "top" /\ DOMAIN buffer = Pids
                /\ hasData \in [Pids -> BOOLEAN] /\ DOMAIN asm = Pids
                /\ flushed \in BOOLEAN /\ result = "more"
    BY DEF Init
  <2> QED
    BY <2>1, <2>2 DEF TypeOK
<1>2. SkipInv /\ TypeOK /\ [Next]_vars => (SkipInv /\ TypeOK)'
  BY SkipStep, TypeStep
<1> QED
  BY <1>1, <1>2, SkipInit, PTL DEF Spec
-----------------------------------------------------------------------------
(* One round more of the parse does not matter.                             *)
LEMMA ParseEnds ==
  ASSUME NEW buf, Len(buf) \in Nat, NEW p, p.at \in Nat, p.at > Len(buf)
  PROVE  ParseStep(buf, p) = p
BY DEF ParseStep

(* What holds initially and is kept by each round holds when the parse is   *)
(* over, and it is over after as many rounds as there are pieces.           *)
LEMMA ParsedInduction ==
  ASSUME NEW buf, Len(buf) \in Nat, NEW T, [at |-> 1, segments |-> << >>] \in T,
         \A x \in T : /\ x.at \in Nat
                      /\ ParseStep(buf, x) \in T
                      /\ ParseStep(buf, x) = x \/ ParseStep(buf, x).at > x.at
  PROVE  \E x \in T : ParseStep(buf, x) = x /\ ParsePes(buf) = x.segments
<1> DEFINE N == Len(buf)
           e == [at |-> 1, segments |-> << >>]
           D == SUBSET T
           Next1(X) == {ParseStep(buf, p) : p \in X}
           g == [y \in D \X (1 .. N) |-> Next1(y[1])]
           IsF(f) == f = [k \in 0 .. N |-> IF k = 0 THEN {e} ELSE Next1(f[k - 1])]
           u == CHOOSE f : IsF(f)
<1>1. N \in Nat /\ e \in T /\ {e} \in D /\ e.at = 1
  OBVIOUS
<1>2. \A k \in 0 .. N : k # 0 => k - 1 \in 0 .. N /\ k \in 1 .. N
  BY <1>1
<1>3. \A k \in 1 .. N : k # 0 /\ k \in 0 .. N /\ k - 1 \in 0 .. N
  BY <1>1
<1>4. g \in [D \X (1 .. N) -> D] /\ \A y \in D, k \in 1 .. N : g[<< y, k >>] = Next1(y)
  <2>1. \A y \in D : Next1(y) \in D
    OBVIOUS
  <2> HIDE DEF Next1, D, N
  <2> QED BY <2>1
<1> HIDE DEF e
<1>5. IsF(u)
  <2>1. PICK f \in [0 .. N -> D] : IsRecursive(f, N, {e}, g)
    <3> HIDE DEF g, N, D
    <3> QED BY <1>1, <1>4, Recursion
  <2> HIDE DEF g, D, N, Next1
  <2>3. \A k \in 0 .. N : f[k] = IF k = 0 THEN {e} ELSE Next1(f[k - 1])
    BY <1>2, <1>4, <2>1 DEF IsRecursive
  <2>4. IsF(f)
    BY <2>1, <2>3
  <2> HIDE DEF IsF
  <2> QED BY <2>4
<1>6. \A k \in 0 .. N : u[k] = IF k = 0 THEN {e} ELSE Next1(u[k - 1])
  <2> HIDE DEF u, Next1, N
  <2> QED BY <1>5
<1>7. Parsed(buf) = u[N]
  BY DEF Parsed, u, e
<1> HIDE DEF u
<1> DEFINE Good(k, x) == /\ x \in T /\ u[k] = {x}
                         /\ x.at > k \/ ParseStep(buf, x) = x
           S == {k \in 0 .. N : \E x : Good(k, x)}
<1>8. 0 \in S
  <2>0. 0 \in 0 .. N
    BY <1>1
  <2>1. e \in T /\ u[0] = {e} /\ e.at = 1
    BY <1>1, <1>6, <2>0
  <2>2. Good(0, e)
    BY <2>1
  <2> HIDE DEF Good
  <2> QED BY <1>1, <2>2
<1>9. ASSUME NEW k \in 0 .. N - 1, k \in S PROVE k + 1 \in S
  <2>1. PICK x : Good(k, x)
    BY <1>9
  <2>2. k + 1 \in 0 .. N /\ k + 1 # 0 /\ (k + 1) - 1 = k
    BY <1>1
  <2> DEFINE z == ParseStep(buf, x)
  <2>3. u[k + 1] = {z}
    <3>1. u[k + 1] = Next1(u[k])
      BY <1>6, <2>2
    <3> QED BY <2>1, <3>1
  <2>4. z \in T /\ x.at \in Nat /\ z.at \in Nat /\ (z = x \/ z.at > x.at)
    BY <2>1
  <2>5. x.at > k \/ z = x
    BY <2>1
  <2>6. z.at > k + 1 \/ ParseStep(buf, z) = z
    <3>1. CASE z = x
      BY <3>1
    <3>2. CASE z # x
      <4> HIDE DEF z
      <4> QED BY <1>1, <2>4, <2>5, <3>2
    <3> QED BY <3>1, <3>2
  <2>7. Good(k + 1, z)
    <3> HIDE DEF z
    <3> QED BY <2>3, <2>4, <2>6
  <2> HIDE DEF Good, z
  <2> QED BY <2>2, <2>7
<1>10. N \in S
  <2> HIDE DEF S
  <2>1. 0 .. N \subseteq S
    <3> HIDE DEF N
    <3> QED BY <1>1, <1>8, <1>9, Upto
  <2> QED BY <1>1, <2>1
<1>11. PICK x : Good(N, x)
  <2> HIDE DEF Good
  <2> QED BY <1>10
<1>12. ParsePes(buf) = x.segments
  BY <1>7, <1>11 DEF ParsePes
<1>13. ParseStep(buf, x) = x
  BY <1>11, ParseEnds
<1> QED BY <1>11, <1>12, <1>13
-----------------------------------------------------------------------------
(* What a file says of the pieces in it.                                    *)

CellOf(f, a) == CHOOSE i \in DOMAIN f : \E m \in DOMAIN PiecesOf(f, i) : PiecesOf(f, i)[m] = a
First(f, id) == CHOOSE i \in DOMAIN f : \E k \in DOMAIN f[i].pieces :
                   f[i].pieces[k].id = id /\ f[i].pieces[k].part = 1
PtsIn(f, d) ==
  LET pieces == f[First(f, << d, 1 >>)].pieces
  IN  pieces[CHOOSE k \in DOMAIN pieces : pieces[k].id = << d, 1 >>].pts

(* A packet of PID p in cells i .. j was not scanned.                       *)
Lost(f, sc, p, i, j) == \E k \in i .. j : f[k].pid = p /\ k \notin sc

(* a is a piece of a scanned packet of p.                                   *)
IsIn(f, sc, p, a) ==
  \E i \in sc : f[i].pid = p /\ \E m \in DOMAIN PiecesOf(f, i) : PiecesOf(f, i)[m] = a
Linked(f, sc, p, a, b) ==
  /\ CellOf(f, a) <= CellOf(f, b)
  /\ Continues(a, b) \/ Lost(f, sc, p, CellOf(f, a), CellOf(f, b))

(* The cells of a file and their pieces are of their types.                 *)
LEMMA CellTyped ==
  ASSUME NEW f, IsFile(f), NEW i \in DOMAIN f
  PROVE  /\ Len(f) \in Nat /\ DOMAIN f = 1 .. Len(f)
         /\ f[i] \in Cells /\ f[i].pieces = PiecesOf(f, i)
         /\ PiecesOf(f, i) \in Seq(Pieces) /\ Len(PiecesOf(f, i)) \in Nat
         /\ DOMAIN PiecesOf(f, i) = 1 .. Len(PiecesOf(f, i))
         /\ \A m \in DOMAIN PiecesOf(f, i) : PiecesOf(f, i)[m] \in Pieces
<1>1. f \in Seq(Cells)
  BY DEF IsFile
<1>2. Len(f) \in Nat /\ DOMAIN f = 1 .. Len(f)
  BY <1>1, LenProperties
<1>3. f[i] \in Cells
  BY <1>1, <1>2, ElementOfSeq
<1>4. f[i].pieces = PiecesOf(f, i) /\ PiecesOf(f, i) \in Seq(Pieces)
  BY <1>3 DEF Cells, PiecesOf
<1> HIDE DEF PiecesOf
<1> DEFINE s == PiecesOf(f, i)
<1>5. s \in Seq(Pieces)
  BY <1>4
<1> HIDE DEF s
<1>6. Len(s) \in Nat /\ DOMAIN s = 1 .. Len(s)
  BY <1>5, LenProperties
<1>7. \A m \in DOMAIN s : s[m] \in Pieces
  BY <1>5, <1>6, ElementOfSeq
<1> QED BY <1>2, <1>3, <1>4, <1>6, <1>7 DEF s

(* What the file says of the piece a, the n-th of cell i.                   *)
IsPieceOf(f, i, n, a) ==
  /\ i \in DOMAIN f /\ n \in DOMAIN PiecesOf(f, i) /\ a = PiecesOf(f, i)[n]

(* What IsFile says of one piece.                                           *)
LEMMA PieceFacts ==
  ASSUME NEW f, IsFile(f), NEW i, NEW n, NEW a, IsPieceOf(f, i, n, a)
  PROVE  /\ a \in Pieces
         /\ a.id \in DisplaySets \X (Nat \ {0}) /\ a.part \in Nat \ {0} /\ a.of \in Nat \ {0}
         /\ a.pts \in Nat
         /\ a.id[1] \in DisplaySets /\ a.id[2] \in 1 .. Len(Written[a.id[1]])
         /\ a.id = << a.id[1], a.id[2] >>
         /\ a.type = Written[a.id[1]][a.id[2]].type
         /\ a.comp = Written[a.id[1]][a.id[2]].comp
         /\ a.part <= a.of /\ (a.type = "END" => a.of = 1)
         /\ a.pts = PiecesOf(f, i)[1].pts
         /\ Opens(a) => f[i].pusi /\ n = 1
<1>1. i \in 1 .. Len(f) /\ n \in 1 .. Len(PiecesOf(f, i)) /\ a = PiecesOf(f, i)[n] /\ a \in Pieces
  BY CellTyped DEF IsPieceOf
<1>2. IsPiece(f, i, n)
  BY <1>1 DEF IsFile
<1>3. /\ a.id \in DisplaySets \X (Nat \ {0}) /\ a.part \in Nat \ {0} /\ a.of \in Nat \ {0}
      /\ a.pts \in Nat
  BY <1>1 DEF Pieces
<1>4. a.id[1] \in DisplaySets /\ a.id[2] \in Nat \ {0} /\ a.id = << a.id[1], a.id[2] >>
  BY <1>3
<1>5. a.id[2] <= Len(Written[a.id[1]])
  BY <1>1, <1>2 DEF IsPiece
<1>6. Len(Written[a.id[1]]) \in Nat
  BY <1>4, WrittenAssumption, LenProperties
<1>7. a.id[2] \in 1 .. Len(Written[a.id[1]])
  BY <1>4, <1>5, <1>6
<1>8. /\ a.type = Written[a.id[1]][a.id[2]].type
      /\ a.comp = Written[a.id[1]][a.id[2]].comp
      /\ a.part <= a.of /\ (a.type = "END" => a.of = 1)
      /\ a.pts = PiecesOf(f, i)[1].pts
      /\ Opens(a) => f[i].pusi /\ n = 1
  BY <1>1, <1>2 DEF IsPiece
<1> QED BY <1>1, <1>3, <1>4, <1>7, <1>8

(* A piece is written once.                                                 *)
LEMMA PieceUnique ==
  ASSUME NEW f, IsFile(f), NEW i, NEW n, NEW a, IsPieceOf(f, i, n, a),
         NEW j, NEW m, NEW b, IsPieceOf(f, j, m, b), a.id = b.id, a.part = b.part
  PROVE  i = j /\ n = m
<1>1. i \in 1 .. Len(f) /\ n \in 1 .. Len(PiecesOf(f, i)) /\ a = PiecesOf(f, i)[n]
  BY CellTyped DEF IsPieceOf
<1>2. j \in 1 .. Len(f) /\ m \in 1 .. Len(PiecesOf(f, j)) /\ b = PiecesOf(f, j)[m]
  BY CellTyped DEF IsPieceOf
<1>3. IsPiece(f, i, n)
  BY <1>1 DEF IsFile
<1> QED BY <1>1, <1>2, <1>3 DEF IsPiece

(* So CellOf, First and PtsIn find the cell and the time of a piece.        *)
LEMMA CellOfPiece ==
  ASSUME NEW f, IsFile(f), NEW i, NEW n, NEW a, IsPieceOf(f, i, n, a)
  PROVE  CellOf(f, a) = i
<1> DEFINE c == CellOf(f, a)
<1>1. \E j \in DOMAIN f : \E m \in DOMAIN PiecesOf(f, j) : PiecesOf(f, j)[m] = a
  BY DEF IsPieceOf
<1>2. c \in DOMAIN f /\ \E m \in DOMAIN PiecesOf(f, c) : PiecesOf(f, c)[m] = a
  BY <1>1 DEF CellOf
<1> HIDE DEF c
<1>3. PICK m : IsPieceOf(f, c, m, a)
  BY <1>2 DEF IsPieceOf
<1>4. c = i
  BY <1>3, PieceUnique
<1> QED BY <1>4 DEF c

(* The first piece of a segment tells the cell the segment begins in.       *)
LEMMA FirstOfPiece ==
  ASSUME NEW f, IsFile(f), NEW i, NEW n, NEW a, IsPieceOf(f, i, n, a), a.part = 1
  PROVE  First(f, a.id) = i
<1> DEFINE c == First(f, a.id)
           Has(j, m) == f[j].pieces[m].id = a.id /\ f[j].pieces[m].part = 1
<1>0. f[i].pieces = PiecesOf(f, i)
  BY CellTyped DEF IsPieceOf
<1>1. \E j \in DOMAIN f : \E m \in DOMAIN f[j].pieces : Has(j, m)
  BY <1>0 DEF IsPieceOf
<1>2. c \in DOMAIN f /\ \E m \in DOMAIN f[c].pieces : Has(c, m)
  BY <1>1 DEF First
<1> HIDE DEF c
<1>3. PICK m \in DOMAIN f[c].pieces : Has(c, m)
  BY <1>2
<1> DEFINE b == f[c].pieces[m]
<1>4. f[c].pieces = PiecesOf(f, c)
  BY <1>2, CellTyped
<1>5. IsPieceOf(f, c, m, b) /\ b.id = a.id /\ b.part = a.part
  BY <1>2, <1>3, <1>4 DEF IsPieceOf
<1> HIDE DEF b
<1>6. c = i
  BY <1>5, PieceUnique
<1> QED BY <1>6 DEF c

(* The first piece of a display set tells its time.                         *)
LEMMA PtsOfPiece ==
  ASSUME NEW f, IsFile(f), NEW i, NEW n, NEW a, IsPieceOf(f, i, n, a), Opens(a)
  PROVE  PtsIn(f, a.id[1]) = a.pts
<1> DEFINE d == a.id[1]
           s == PiecesOf(f, i)
           k == CHOOSE m \in DOMAIN s : s[m].id = << d, 1 >>
<1>1. a.id = << d, 1 >> /\ a.part = 1 /\ a.pts = s[1].pts
  BY PieceFacts DEF Opens
<1>2. First(f, << d, 1 >>) = i
  BY <1>1, FirstOfPiece
<1>3. i \in DOMAIN f /\ n \in DOMAIN s /\ s[n] = a
  BY DEF IsPieceOf
<1>4. f[i].pieces = s
  BY <1>3, CellTyped
<1>5. PtsIn(f, d) = s[k].pts
  BY <1>2, <1>4 DEF PtsIn
<1>6. k \in DOMAIN s
  <2> HIDE DEF d
  <2> QED BY <1>1, <1>3
<1> HIDE DEF k
<1>7. IsPieceOf(f, i, k, s[k])
  BY <1>3, <1>6 DEF IsPieceOf
<1>8. s[k].pts = s[1].pts
  BY <1>7, PieceFacts
<1> QED BY <1>1, <1>5, <1>8

(* What the file says of a piece of a scanned packet.                        *)
PieceSays(f, sc, p, a) ==
  /\ CellOf(f, a) \in sc /\ CellOf(f, a) \in Nat /\ CellOf(f, a) \in DOMAIN f
  /\ f[CellOf(f, a)].pid = p
  /\ a \in Pieces
  /\ a.id \in DisplaySets \X (Nat \ {0}) /\ a.part \in Nat \ {0} /\ a.of \in Nat \ {0}
  /\ a.pts \in Nat
  /\ a.id[1] \in DisplaySets /\ a.id[2] \in 1 .. Len(Written[a.id[1]])
  /\ a.id = << a.id[1], a.id[2] >>
  /\ a.type = Written[a.id[1]][a.id[2]].type
  /\ a.comp = Written[a.id[1]][a.id[2]].comp
  /\ a.part <= a.of /\ (a.type = "END" => a.of = 1)
  /\ a.part = 1 => First(f, a.id) = CellOf(f, a)
  /\ Opens(a) => PtsIn(f, a.id[1]) = a.pts

(* All of it, for a piece of a scanned packet.                              *)
LEMMA PieceIn ==
  ASSUME NEW f, IsFile(f), NEW sc \in SUBSET (DOMAIN f), NEW p, NEW a, IsIn(f, sc, p, a)
  PROVE  PieceSays(f, sc, p, a)
<1>1. PICK i \in sc : f[i].pid = p /\ \E m \in DOMAIN PiecesOf(f, i) : PiecesOf(f, i)[m] = a
  BY DEF IsIn
<1>2. PICK n : IsPieceOf(f, i, n, a)
  BY <1>1 DEF IsPieceOf
<1>3. CellOf(f, a) = i
  BY <1>2, CellOfPiece
<1>4. i \in DOMAIN f /\ i \in Nat
  BY <1>1, CellTyped
<1>5. a.part = 1 => First(f, a.id) = i
  BY <1>2, FirstOfPiece
<1>6. Opens(a) => PtsIn(f, a.id[1]) = a.pts
  BY <1>2, PtsOfPiece
<1>7. /\ a \in Pieces
      /\ a.id \in DisplaySets \X (Nat \ {0}) /\ a.part \in Nat \ {0} /\ a.of \in Nat \ {0}
      /\ a.pts \in Nat
      /\ a.id[1] \in DisplaySets /\ a.id[2] \in 1 .. Len(Written[a.id[1]])
      /\ a.id = << a.id[1], a.id[2] >>
      /\ a.type = Written[a.id[1]][a.id[2]].type
      /\ a.comp = Written[a.id[1]][a.id[2]].comp
      /\ a.part <= a.of /\ (a.type = "END" => a.of = 1)
  BY <1>2, PieceFacts
<1> QED BY <1>1, <1>3, <1>4, <1>5, <1>6, <1>7 DEF PieceSays
-----------------------------------------------------------------------------
(* Pieces collected from scanned packets.                                   *)

(* B are pieces of scanned packets of p, in the order of the file; where    *)
(* one does not continue the other a packet was lost.                       *)
IsTrain(f, sc, p, B) ==
  /\ IsFile(f) /\ sc \in SUBSET (DOMAIN f) /\ B \in Seq(Pieces)
  /\ \A j \in 1 .. Len(B) : IsIn(f, sc, p, B[j])
  /\ \A j \in 1 .. Len(B) - 1 : Linked(f, sc, p, B[j], B[j + 1])

(* The pieces of a train lie in scanned cells.                              *)
LEMMA TrainCells ==
  ASSUME NEW f, NEW sc, NEW p, NEW B, IsTrain(f, sc, p, B), NEW j \in 1 .. Len(B)
  PROVE  /\ CellOf(f, B[j]) \in Nat /\ CellOf(f, B[j]) \in sc
         /\ j # Len(B) => Linked(f, sc, p, B[j], B[j + 1])
<1>1. Len(B) \in Nat
  BY LenProperties DEF IsTrain
<1>2. j # Len(B) => j \in 1 .. Len(B) - 1
  BY <1>1
<1>3. IsFile(f) /\ sc \in SUBSET (DOMAIN f) /\ IsIn(f, sc, p, B[j])
  BY DEF IsTrain
<1>4. CellOf(f, B[j]) \in Nat /\ CellOf(f, B[j]) \in sc
  BY <1>3, PieceIn DEF PieceSays
<1>5. j # Len(B) => Linked(f, sc, p, B[j], B[j + 1])
  BY <1>2 DEF IsTrain
<1> QED BY <1>4, <1>5

(* Their cells come in the order of the file.                               *)
LEMMA CellsGrow ==
  ASSUME NEW f, NEW sc, NEW p, NEW B, IsTrain(f, sc, p, B),
         NEW i \in 1 .. Len(B), NEW k \in i .. Len(B)
  PROVE  CellOf(f, B[i]) <= CellOf(f, B[k])
<1> DEFINE c(j) == CellOf(f, B[j])
           N == {n \in 0 .. Len(B) - i : c(i) <= c(i + n)}
<1>1. Len(B) \in Nat /\ Len(B) - i \in Nat
  BY LenProperties DEF IsTrain
<1>2. \A j \in 1 .. Len(B) : c(j) \in Nat /\ (j # Len(B) => c(j) <= c(j + 1))
  BY TrainCells DEF Linked
<1> HIDE DEF c
<1>3. 0 \in N
  <2>1. i + 0 = i /\ c(i) \in Nat
    BY <1>2
  <2> QED BY <1>1, <2>1
<1>4. ASSUME NEW n \in 0 .. (Len(B) - i) - 1, n \in N PROVE n + 1 \in N
  <2>1. i + n \in 1 .. Len(B) /\ i + n # Len(B) /\ (i + n) + 1 = i + (n + 1)
        /\ (i + n) + 1 \in 1 .. Len(B) /\ n + 1 \in 0 .. Len(B) - i
    BY <1>1
  <2>2. c(i + n) <= c(i + (n + 1)) /\ c(i) <= c(i + n)
    BY <1>2, <1>4, <2>1
  <2>3. c(i) \in Nat /\ c(i + n) \in Nat /\ c(i + (n + 1)) \in Nat
    BY <1>2, <2>1
  <2>4. c(i) <= c(i + (n + 1))
    BY <2>2, <2>3
  <2> QED BY <2>1, <2>4
<1>5. k - i \in N
  <2> HIDE DEF N
  <2>1. 0 .. Len(B) - i \subseteq N
    BY <1>1, <1>3, <1>4, Upto
  <2>2. k - i \in 0 .. Len(B) - i
    BY <1>1
  <2> QED BY <2>1, <2>2
<1>6. i + (k - i) = k
  BY <1>1
<1> QED BY <1>5, <1>6 DEF c

(* What is lost between two cells is lost between cells further apart.      *)
LEMMA LostGrows ==
  ASSUME NEW f, NEW sc, NEW p, NEW i \in Nat, NEW j \in Nat, Lost(f, sc, p, i, j),
         NEW g \in Nat, NEW h \in Nat, g <= i, j <= h
  PROVE  Lost(f, sc, p, g, h)
<1>1. PICK k \in i .. j : f[k].pid = p /\ k \notin sc
  BY DEF Lost
<1>2. k \in g .. h
  OBVIOUS
<1> QED BY <1>1, <1>2 DEF Lost

(* Where one piece does not continue the other.                             *)
LEMMA LostInTrain ==
  ASSUME NEW f, NEW sc, NEW p, NEW B, IsTrain(f, sc, p, B),
         NEW i \in 1 .. Len(B), NEW k \in i .. Len(B), NEW j \in i .. k - 1,
         ~ Continues(B[j], B[j + 1])
  PROVE  Lost(f, sc, p, CellOf(f, B[i]), CellOf(f, B[k]))
<1>1. Len(B) \in Nat
  BY LenProperties DEF IsTrain
<1>2. /\ j \in 1 .. Len(B) /\ j # Len(B) /\ j \in i .. Len(B)
      /\ j + 1 \in 1 .. Len(B) /\ k \in 1 .. Len(B) /\ k \in j + 1 .. Len(B)
  BY <1>1
<1>3. Lost(f, sc, p, CellOf(f, B[j]), CellOf(f, B[j + 1]))
  BY <1>2, TrainCells DEF Linked
<1>4. CellOf(f, B[i]) <= CellOf(f, B[j]) /\ CellOf(f, B[j + 1]) <= CellOf(f, B[k])
  BY <1>2, CellsGrow
<1>5. /\ CellOf(f, B[i]) \in Nat /\ CellOf(f, B[j]) \in Nat
      /\ CellOf(f, B[j + 1]) \in Nat /\ CellOf(f, B[k]) \in Nat
  BY <1>2, TrainCells
<1> QED BY <1>3, <1>4, <1>5, LostGrows

(* From at on the next count pieces are the first ones of one segment.      *)
IsRow(B, at, count) ==
  \A k \in 1 .. count : /\ B[at + k - 1].id = B[at].id /\ B[at + k - 1].part = k
                        /\ B[at + k - 1].of = B[at].of

(* Pieces that continue one another are those of one segment.               *)
LEMMA RowOf ==
  ASSUME NEW B \in Seq(Pieces), NEW at \in 1 .. Len(B), B[at].part = 1,
         NEW count \in 1 .. B[at].of, at + count <= Len(B) + 1,
         \A j \in at .. at + count - 2 : Continues(B[j], B[j + 1])
  PROVE  IsRow(B, at, count)
<1> DEFINE Ok(k) == /\ B[at + k - 1].id = B[at].id /\ B[at + k - 1].part = k
                    /\ B[at + k - 1].of = B[at].of
           N == {n \in 0 .. count - 1 : Ok(n + 1)}
<1>1. Len(B) \in Nat /\ B[at] \in Pieces
  BY LenProperties, ElementOfSeq
<1>2. B[at].of \in Nat /\ count \in Nat /\ count - 1 \in Nat /\ count <= B[at].of
  <2>1. \A a \in Pieces : a.of \in Nat
    BY DEF Pieces
  <2>2. B[at].of \in Nat
    BY <1>1, <2>1
  <2> QED BY <2>2
<1>3. 0 \in N
  <2>1. at + (0 + 1) - 1 = at /\ 0 + 1 = 1
    OBVIOUS
  <2> QED BY <1>2, <2>1
<1>4. ASSUME NEW n \in 0 .. (count - 1) - 1, n \in N PROVE n + 1 \in N
  <2>1. /\ n + 1 \in 0 .. count - 1 /\ at + (n + 1) - 1 = at + n
        /\ at + ((n + 1) + 1) - 1 = (at + n) + 1
        /\ at + n \in at .. at + count - 2 /\ n + 1 < count /\ n + 1 \in Nat
    BY <1>2
  <2>2. Continues(B[at + n], B[(at + n) + 1])
    BY <2>1
  <2>3. B[at + n].id = B[at].id /\ B[at + n].part = n + 1 /\ B[at + n].of = B[at].of
    BY <1>4, <2>1
  <2>4. B[at + n].part < B[at + n].of
    <3>1. n + 1 < B[at].of
      BY <1>2, <2>1
    <3> QED BY <2>3, <3>1
  <2>5. /\ B[(at + n) + 1].id = B[at + n].id /\ B[(at + n) + 1].part = B[at + n].part + 1
        /\ B[(at + n) + 1].of = B[at + n].of
    BY <2>2, <2>4 DEF Continues
  <2>6. /\ B[(at + n) + 1].id = B[at].id /\ B[(at + n) + 1].part = (n + 1) + 1
        /\ B[(at + n) + 1].of = B[at].of
    BY <2>3, <2>5
  <2>7. Ok((n + 1) + 1)
    BY <2>1, <2>6
  <2> HIDE DEF Ok
  <2> QED BY <2>1, <2>7
<1>5. 0 .. count - 1 \subseteq N
  <2> HIDE DEF N
  <2> QED BY <1>2, <1>3, <1>4, Upto
<1>6. \A k \in 1 .. count : k - 1 \in 0 .. count - 1 /\ (k - 1) + 1 = k
  BY <1>2
<1> HIDE DEF Ok
<1>7. \A k \in 1 .. count : Ok(k)
  BY <1>5, <1>6
<1> QED BY <1>7 DEF Ok, IsRow

-----------------------------------------------------------------------------
(* The segments held are those of display set d up to the last of them,     *)
(* whole; e is what is written behind the m-th.                             *)
IsPrefix(segs, d) ==
  \A k \in 1 .. Len(segs) : segs[k].id = << d, k >> /\ segs[k].whole
Awaits(d, m, e) ==
  IF m < Len(Written[d]) THEN e.id = << d, m + 1 >> /\ e.part = 1 ELSE Opens(e)

IsHeld(f, a) ==
  a.state # None =>
    LET s == a.segments[1]
        d == s.id[1]
    IN  /\ a.segments # << >>
        /\ s.id = << d, 1 >> /\ d \in DisplaySets /\ Written[d][1].comp # None
        /\ a.pts = SaturatingSub(PtsIn(f, d), PtsOffset)
        /\ First(f, << d, 1 >>) \in DOMAIN f
IsBefore(f, sc, p, a, e) ==
  a.state # None =>
    LET d == a.segments[1].id[1]
    IN  /\ First(f, << d, 1 >>) <= CellOf(f, e)
        /\ \/ IsPrefix(a.segments, d) /\ Awaits(d, Len(a.segments), e)
           \/ Lost(f, sc, p, First(f, << d, 1 >>), CellOf(f, e))

IsGenuine(f, d, set) ==
  /\ Complete(d)
  /\ set.pts = SaturatingSub(PtsIn(f, d), PtsOffset)
  /\ Len(set.segments) = Len(Written[d])
  /\ IsPrefix(set.segments, d)
FirstOf(f, set) == First(f, set.segments[1].id)
LastOf(f, set) == First(f, set.segments[Len(set.segments)].id)
IsOut(f, sc, p, set) ==
  /\ FirstOf(f, set) \in DOMAIN f /\ LastOf(f, set) \in sc
  /\ \/ \E d \in DisplaySets : IsGenuine(f, d, set)
     \/ Lost(f, sc, p, FirstOf(f, set), LastOf(f, set))

(* What is written behind a segment that has all its pieces.                *)
LEMMA BehindRow ==
  ASSUME NEW B, NEW at, IsRow(B, at, B[at].of), B[at].of \in Nat \ {0}, at \in Nat,
         Continues(B[at + B[at].of - 1], B[at + B[at].of])
  PROVE  Awaits(B[at].id[1], B[at].id[2], B[at + B[at].of])
<1> DEFINE n == B[at].of
           z == at + n - 1
           e == B[at + n]
<1>1. n \in 1 .. n
  OBVIOUS
<1>2. B[z].id = B[at].id /\ B[z].part = n /\ B[z].of = n
  BY <1>1 DEF IsRow
<1>3. Continues(B[z], e)
  OBVIOUS
<1> HIDE DEF z, e, n
<1>4. ~ (n < n)
  <2>1. n \in Nat
    BY DEF n
  <2> QED BY <2>1
<1>5. IF B[at].id[2] < Len(Written[B[at].id[1]])
      THEN e.id = << B[at].id[1], B[at].id[2] + 1 >> /\ e.part = 1
      ELSE Opens(e)
  BY <1>2, <1>3, <1>4 DEF Continues
<1> QED BY <1>5 DEF Awaits, e, n

(* A segment taken from at .. at + of - 1: it is whole and what is written  *)
(* behind it follows, or a packet in between was lost.                      *)
LEMMA TakenSegment ==
  ASSUME NEW f, NEW sc, NEW p, NEW B, IsTrain(f, sc, p, B),
         NEW at \in 1 .. Len(B), B[at].part = 1, at + B[at].of <= Len(B)
  PROVE  \/ Lost(f, sc, p, CellOf(f, B[at]), CellOf(f, B[at + B[at].of]))
         \/ /\ IsRow(B, at, B[at].of)
            /\ Awaits(B[at].id[1], B[at].id[2], B[at + B[at].of])
<1> DEFINE n == B[at].of
<1>1. /\ B \in Seq(Pieces) /\ Len(B) \in Nat /\ B[at] \in Pieces
  BY LenProperties, ElementOfSeq DEF IsTrain
<1>2. n \in Nat \ {0}
  BY <1>1 DEF Pieces
<1>3. n \in 1 .. n /\ at + n <= Len(B) + 1 /\ at + n \in at .. Len(B)
      /\ at \in Nat /\ at + n - 1 \in at .. (at + n) - 1 /\ (at + n - 1) + 1 = at + n
  BY <1>1, <1>2
<1>4. CASE \E j \in at .. at + n - 1 : ~ Continues(B[j], B[j + 1])
  <2>1. PICK j \in at .. at + n - 1 : ~ Continues(B[j], B[j + 1])
    BY <1>4
  <2>2. Lost(f, sc, p, CellOf(f, B[at]), CellOf(f, B[at + n]))
    <3> HIDE DEF n
    <3> QED BY <1>3, <2>1, LostInTrain
  <2> QED BY <2>2
<1>5. CASE \A j \in at .. at + n - 1 : Continues(B[j], B[j + 1])
  <2>1. \A j \in at .. at + n - 2 : Continues(B[j], B[j + 1])
    <3> HIDE DEF n
    <3> QED BY <1>2, <1>3, <1>5
  <2>2. IsRow(B, at, n)
    BY <1>1, <1>3, <2>1, RowOf
  <2>3. Continues(B[at + n - 1], B[at + n])
    <3> HIDE DEF n
    <3> QED BY <1>3, <1>5
  <2>4. Awaits(B[at].id[1], B[at].id[2], B[at + n])
    BY <1>2, <1>3, <2>2, <2>3, BehindRow
  <2> QED BY <2>2, <2>4
<1> QED BY <1>4, <1>5
-----------------------------------------------------------------------------
(* One round of the parse of a PES packet, and what the assembler makes of  *)
(* the segment.                                                             *)

Segs == [id : DisplaySets \X (Nat \ {0}), type : SegmentType,
         comp : CompositionState \cup {None}, pts : Nat, whole : BOOLEAN]
States == CompositionState \cup {None}
Asms == Assemblers(Segs, Nat, States)

(* The parsed segments are of the type the assembler is fed with.           *)
LEMMA SegsAreFed == IsFed(Segs, Nat, States)
BY DEF IsFed, Segs, States

(* buf is to be parsed; B are its pieces and perhaps one more behind them.  *)
IsParse(f, sc, p, B, buf) ==
  /\ IsTrain(f, sc, p, B)
  /\ buf \in Seq(Pieces) /\ Len(buf) <= Len(B)
  /\ \A j \in 1 .. Len(buf) : buf[j] = B[j]
  /\ \A j \in 2 .. Len(buf) : ~ Opens(buf[j])

(* The next segment lies within buf.                                        *)
IsNext(buf, at) ==
  at \in 1 .. Len(buf) /\ buf[at].part = 1 /\ at + buf[at].of <= Len(buf) + 1

(* The type of a segment tells its place in the display set.                *)
LEMMA TypeOfSegment ==
  ASSUME NEW d \in DisplaySets, NEW k \in 1 .. Len(Written[d])
  PROVE  /\ Len(Written[d]) \in Nat
         /\ Written[d][k].type \in SegmentType /\ Written[d][k].comp \in States
         /\ Written[d][k].type = "PCS" <=> k = 1
         /\ Written[d][k].type = "END" => k = Len(Written[d])
<1>1. Written[d] \in Seq(Segment)
  BY WrittenAssumption
<1>2. Len(Written[d]) \in Nat /\ Written[d][k] \in Segment
  BY <1>1, LenProperties, ElementOfSeq
<1>3. Written[d][k].type \in SegmentType /\ Written[d][k].comp \in States
  BY <1>2 DEF Segment, States
<1> QED BY <1>2, <1>3, WrittenAssumption

(* What is known of the segment parsed next.                                *)
LEMMA NextFacts ==
  ASSUME NEW f, NEW sc, NEW p, NEW B, NEW buf, IsParse(f, sc, p, B, buf),
         NEW at, IsNext(buf, at)
  PROVE  /\ buf[at] = B[at] /\ at \in 1 .. Len(B) /\ at \in Nat
         /\ Len(buf) \in Nat /\ Len(B) \in Nat
         /\ B[at].of \in Nat \ {0} /\ B[at].pts \in Nat /\ buf[1].pts \in Nat
         /\ B[at].id[1] \in DisplaySets /\ B[at].id[2] \in 1 .. Len(Written[B[at].id[1]])
         /\ B[at].id = << B[at].id[1], B[at].id[2] >>
         /\ B[at].type = Written[B[at].id[1]][B[at].id[2]].type
         /\ B[at].comp = Written[B[at].id[1]][B[at].id[2]].comp
         /\ (B[at].type = "END" => B[at].of = 1)
         /\ First(f, B[at].id) = CellOf(f, B[at])
         /\ CellOf(f, B[at]) \in sc /\ CellOf(f, B[at]) \in Nat /\ CellOf(f, B[at]) \in DOMAIN f
         /\ B[at].id[2] = 1 => at = 1 /\ PtsIn(f, B[at].id[1]) = buf[1].pts
         /\ SegmentAt(buf, at) \in Segs
<1>1. /\ IsFile(f) /\ sc \in SUBSET (DOMAIN f) /\ IsIn(f, sc, p, B[at])
      /\ buf[at] = B[at] /\ at \in 1 .. Len(B) /\ at \in Nat
      /\ Len(buf) \in Nat /\ Len(B) \in Nat
      /\ B \in Seq(Pieces) /\ B[at].part = 1
  <2>1. Len(buf) \in Nat /\ Len(B) \in Nat
    BY LenProperties DEF IsParse, IsTrain
  <2> QED BY <2>1 DEF IsParse, IsTrain, IsNext
<1> DEFINE e == B[at]
<1>2. /\ CellOf(f, e) \in sc /\ CellOf(f, e) \in Nat /\ CellOf(f, e) \in DOMAIN f
      /\ e \in Pieces
      /\ e.id \in DisplaySets \X (Nat \ {0}) /\ e.part \in Nat \ {0} /\ e.of \in Nat \ {0}
      /\ e.pts \in Nat
      /\ e.id[1] \in DisplaySets /\ e.id[2] \in 1 .. Len(Written[e.id[1]])
      /\ e.id = << e.id[1], e.id[2] >>
      /\ e.type = Written[e.id[1]][e.id[2]].type
      /\ e.comp = Written[e.id[1]][e.id[2]].comp
      /\ (e.type = "END" => e.of = 1)
      /\ e.part = 1 => First(f, e.id) = CellOf(f, e)
      /\ Opens(e) => PtsIn(f, e.id[1]) = e.pts
  <2>1. IsFile(f) /\ sc \in SUBSET (DOMAIN f) /\ IsIn(f, sc, p, e)
    BY <1>1
  <2> HIDE DEF e
  <2>2. PieceSays(f, sc, p, e)
    BY <2>1, PieceIn
  <2> QED BY <2>2 DEF PieceSays
<1>3. buf[1].pts \in Nat
  <2>1. buf[1] \in Pieces
    BY <1>1, ElementOfSeq DEF IsParse, IsNext
  <2> QED BY <2>1 DEF Pieces
<1>4. e.id[2] = 1 => at = 1 /\ PtsIn(f, e.id[1]) = buf[1].pts
  <2> SUFFICES ASSUME e.id[2] = 1 PROVE at = 1 /\ PtsIn(f, e.id[1]) = buf[1].pts
    OBVIOUS
  <2>1. Opens(e) /\ Opens(buf[at])
    BY <1>1 DEF Opens
  <2>2. at = 1
    <3>1. at \notin 2 .. Len(buf)
      BY <2>1 DEF IsParse
    <3> QED BY <1>1, <3>1 DEF IsNext
  <2> QED BY <1>1, <1>2, <2>1, <2>2
<1>5. SegmentAt(buf, at) \in Segs
  <2>1. SaturatingSub(buf[1].pts, PtsOffset) \in Nat
    BY <1>3, PtsOffsetAssumption DEF SaturatingSub
  <2>2. e.type \in SegmentType /\ e.comp \in States
    BY <1>2, TypeOfSegment
  <2> DEFINE w == \A k \in 1 .. buf[at].of :
                    buf[at + k - 1].id = buf[at].id /\ buf[at + k - 1].part = k
             ti == SaturatingSub(buf[1].pts, PtsOffset)
  <2>3. SegmentAt(buf, at) = [id |-> e.id, type |-> e.type, comp |-> e.comp, pts |-> ti, whole |-> w]
    BY <1>1 DEF SegmentAt
  <2>4. w \in BOOLEAN
    OBVIOUS
  <2> HIDE DEF w, ti
  <2>5. ti \in Nat
    BY <2>1 DEF ti
  <2> QED BY <1>2, <2>2, <2>3, <2>4, <2>5 DEF Segs, States
<1> QED BY <1>1, <1>2, <1>3, <1>4, <1>5

(* The fields of a parsed segment are those of its first piece.             *)
LEMMA SegmentFields ==
  ASSUME NEW f, NEW sc, NEW p, NEW B, NEW buf, IsParse(f, sc, p, B, buf),
         NEW at, IsNext(buf, at)
  PROVE  /\ SegmentAt(buf, at).id = B[at].id
         /\ SegmentAt(buf, at).type = B[at].type
         /\ SegmentAt(buf, at).comp = B[at].comp
         /\ SegmentAt(buf, at).pts = SaturatingSub(buf[1].pts, PtsOffset)
         /\ IsRow(B, at, B[at].of) => SegmentAt(buf, at).whole
         /\ B[at].of = 1 => SegmentAt(buf, at).whole
<1>1. buf[at] = B[at] /\ at \in Nat /\ B[at].of \in Nat /\ B[at].of # 0 /\ Len(buf) \in Nat
  BY NextFacts
<1>2. buf[at].part = 1 /\ at + B[at].of <= Len(buf) + 1 /\ at \in 1 .. Len(buf)
  BY <1>1 DEF IsNext
<1>3. IsRow(B, at, B[at].of) => SegmentAt(buf, at).whole
  <2> SUFFICES ASSUME IsRow(B, at, B[at].of), NEW k \in 1 .. buf[at].of
               PROVE  buf[at + k - 1].id = buf[at].id /\ buf[at + k - 1].part = k
    BY DEF SegmentAt
  <2>1. at + k - 1 \in 1 .. Len(buf)
    BY <1>1, <1>2
  <2>2. buf[at + k - 1] = B[at + k - 1]
    BY <2>1 DEF IsParse
  <2> QED BY <1>1, <2>2 DEF IsRow
<1>4. B[at].of = 1 => SegmentAt(buf, at).whole
  <2> SUFFICES ASSUME B[at].of = 1, NEW k \in 1 .. buf[at].of
               PROVE  buf[at + k - 1].id = buf[at].id /\ buf[at + k - 1].part = k
    BY DEF SegmentAt
  <2>1. k = 1 /\ at + k - 1 = at
    BY <1>1
  <2> QED BY <1>1, <1>2, <2>1
<1> QED BY <1>1, <1>3, <1>4 DEF SegmentAt

(* A PCS opens a display set.                                               *)
LEMMA PushPcs ==
  ASSUME NEW f, NEW sc, NEW p, NEW B, NEW buf, IsParse(f, sc, p, B, buf),
         NEW at, IsNext(buf, at), NEW a \in Asms, B[at].type = "PCS"
  PROVE  LET s == SegmentAt(buf, at)
             to == at + B[at].of
             b == AsmPush(a, s)
         IN  /\ at = 1 /\ AsmOut(a, s) = << >>
             /\ IsHeld(f, b)
             /\ First(f, b.segments[1].id) = CellOf(f, B[1])
             /\ to <= Len(B) => IsBefore(f, sc, p, b, B[to])
<1> DEFINE e == B[at]
           d == e.id[1]
           s == SegmentAt(buf, at)
           to == at + e.of
           b == AsmPush(a, s)
<1>1. /\ e.id = << d, e.id[2] >> /\ d \in DisplaySets /\ e.id[2] \in 1 .. Len(Written[d])
      /\ e.type = Written[d][e.id[2]].type /\ e.comp = Written[d][e.id[2]].comp
      /\ First(f, e.id) = CellOf(f, e) /\ CellOf(f, e) \in DOMAIN f /\ CellOf(f, e) \in Nat
      /\ e.id[2] = 1 => at = 1 /\ PtsIn(f, d) = buf[1].pts
      /\ at \in 1 .. Len(B) /\ at \in Nat /\ e.of \in Nat \ {0} /\ Len(B) \in Nat
  BY NextFacts
<1>2. e.id[2] = 1
  <2>1. Written[d][e.id[2]].type = "PCS"
    BY <1>1
  <2> HIDE DEF e, d
  <2> QED BY <1>1, <2>1, TypeOfSegment
<1>3. at = 1 /\ e.id = << d, 1 >> /\ PtsIn(f, d) = buf[1].pts /\ e.comp = Written[d][1].comp
  BY <1>1, <1>2
<1>4. /\ s.id = e.id /\ s.type = "PCS" /\ s.comp = e.comp
      /\ s.pts = SaturatingSub(buf[1].pts, PtsOffset)
      /\ IsRow(B, at, e.of) => s.whole
  BY SegmentFields
<1>5. b = [segments |-> << s >>, pts |-> s.pts, state |-> s.comp] /\ AsmOut(a, s) = << >>
  <2> HIDE DEF s
  <2> QED BY <1>4 DEF AsmPush, AsmOut
<1> HIDE DEF s, b
<1>6. b.segments = << s >> /\ b.segments[1] = s /\ Len(b.segments) = 1 /\ b.segments # << >>
      /\ b.pts = s.pts /\ b.state = s.comp
  BY <1>5
<1>7. IsHeld(f, b)
  <2> SUFFICES ASSUME b.state # None PROVE IsHeld(f, b)
    BY DEF IsHeld
  <2>1. s.id[1] = d /\ s.id = << d, 1 >> /\ Written[d][1].comp # None
    BY <1>3, <1>4, <1>6
  <2>2. b.pts = SaturatingSub(PtsIn(f, d), PtsOffset)
    BY <1>3, <1>4, <1>6
  <2>3. First(f, << d, 1 >>) \in DOMAIN f
    BY <1>1, <1>3
  <2> HIDE DEF e, d
  <2> QED BY <1>1, <1>6, <2>1, <2>2, <2>3 DEF IsHeld
<1>8. First(f, b.segments[1].id) = CellOf(f, B[1])
  BY <1>1, <1>3, <1>4, <1>6
<1>9. ASSUME to <= Len(B) PROVE IsBefore(f, sc, p, b, B[to])
  <2>1. IsTrain(f, sc, p, B) /\ B[at].part = 1
    BY NextFacts DEF IsParse, IsNext
  <2>2. \/ Lost(f, sc, p, CellOf(f, e), CellOf(f, B[to]))
        \/ IsRow(B, at, e.of) /\ Awaits(d, e.id[2], B[to])
    BY <1>1, <1>9, <2>1, TakenSegment
  <2>3. CellOf(f, e) <= CellOf(f, B[to])
    <3>1. to \in at .. Len(B)
      BY <1>1, <1>9
    <3> QED BY <1>1, <2>1, <3>1, CellsGrow
  <2>4. s.id[1] = d /\ First(f, << d, 1 >>) = CellOf(f, e) /\ s.id = << d, 1 >>
    BY <1>1, <1>3, <1>4
  <2>5. IsRow(B, at, e.of) => IsPrefix(b.segments, d)
    <3>1. IsRow(B, at, e.of) => s.whole
      BY <1>4
    <3>2. \A k \in 1 .. Len(b.segments) : b.segments[k] = s /\ k = 1
      BY <1>6
    <3> HIDE DEF e, d
    <3> QED BY <2>4, <3>1, <3>2 DEF IsPrefix
  <2> HIDE DEF e, d, to
  <2> QED BY <1>2, <1>6, <2>2, <2>3, <2>4, <2>5 DEF IsBefore
<1> QED BY <1>3, <1>5, <1>7, <1>8, <1>9 DEF s, b

(* The display set an assembler holds begins in a cell of the file.         *)
LEMMA HeldStarts ==
  ASSUME NEW f, NEW a \in Asms, IsHeld(f, a), a.state # None
  PROVE  LET d == a.segments[1].id[1]
         IN  /\ a.segments \in Seq(Segs) /\ a.segments # << >>
             /\ a.segments[1].id = << d, 1 >> /\ d \in DisplaySets
             /\ Written[d][1].comp # None
             /\ a.pts = SaturatingSub(PtsIn(f, d), PtsOffset)
             /\ First(f, << d, 1 >>) \in DOMAIN f
             /\ Len(a.segments) \in Nat \ {0}
<1>1. a.segments \in Seq(Segs)
  BY DEF Asms, Assemblers
<1>2. a.segments # << >>
  BY DEF IsHeld
<1>3. Len(a.segments) \in Nat \ {0}
  BY <1>1, <1>2, LenProperties, EmptySeq
<1> QED BY <1>1, <1>2, <1>3 DEF IsHeld

(* Another segment is added to the display set held.                        *)
LEMMA PushBody ==
  ASSUME NEW f, NEW sc, NEW p, NEW B, NEW buf, IsParse(f, sc, p, B, buf),
         NEW at, IsNext(buf, at), NEW a \in Asms, B[at].type # "PCS", B[at].type # "END",
         IsHeld(f, a), IsBefore(f, sc, p, a, B[at])
  PROVE  LET s == SegmentAt(buf, at)
             to == at + B[at].of
             b == AsmPush(a, s)
         IN  /\ AsmOut(a, s) = << >> /\ b.state = a.state
             /\ a.state # None => b.segments[1] = a.segments[1]
             /\ IsHeld(f, b)
             /\ to <= Len(B) => IsBefore(f, sc, p, b, B[to])
<1> DEFINE e == B[at]
           s == SegmentAt(buf, at)
           to == at + e.of
           b == AsmPush(a, s)
           d == a.segments[1].id[1]
           m == Len(a.segments)
<1>1. /\ e.id = << e.id[1], e.id[2] >> /\ e.id[1] \in DisplaySets
      /\ e.id[2] \in 1 .. Len(Written[e.id[1]])
      /\ e.type = Written[e.id[1]][e.id[2]].type
      /\ CellOf(f, e) \in Nat
      /\ at \in 1 .. Len(B) /\ at \in Nat /\ e.of \in Nat \ {0} /\ Len(B) \in Nat
      /\ s \in Segs
  BY NextFacts
<1>2. /\ s.id = e.id /\ s.type # "PCS" /\ s.type # "END"
      /\ IsRow(B, at, e.of) => s.whole
  BY SegmentFields
<1>3. /\ a.segments \in Seq(Segs)
      /\ b = [a EXCEPT !.segments = Append(@, s)] /\ AsmOut(a, s) = << >>
  <2>1. a.segments \in Seq(Segs)
    BY DEF Asms, Assemblers
  <2> HIDE DEF s
  <2> QED BY <1>2, <2>1 DEF AsmPush, AsmOut
<1> HIDE DEF s, b
<1>4. b.state = a.state /\ b.pts = a.pts /\ b.segments = Append(a.segments, s)
  BY <1>3 DEF Asms, Assemblers
<1>5. CASE a.state = None
  <2>1. IsHeld(f, b) /\ IsBefore(f, sc, p, b, B[to])
    BY <1>4, <1>5 DEF IsHeld, IsBefore
  <2> QED BY <1>3, <1>4, <1>5, <2>1 DEF s, b
<1>6. CASE a.state # None
  <2>1. /\ a.segments # << >>
        /\ a.segments[1].id = << d, 1 >> /\ d \in DisplaySets
        /\ Written[d][1].comp # None
        /\ a.pts = SaturatingSub(PtsIn(f, d), PtsOffset)
        /\ First(f, << d, 1 >>) \in DOMAIN f
        /\ m \in Nat \ {0}
    BY <1>6, HeldStarts
  <2>2. /\ Len(b.segments) = m + 1 /\ b.segments[m + 1] = s
        /\ \A k \in 1 .. m : b.segments[k] = a.segments[k]
    BY <1>1, <1>3, <1>4, AppendProperties
  <2>3. b.segments # << >> /\ b.segments[1] = a.segments[1]
    <3>1. 1 \in 1 .. m /\ Len(b.segments) # 0
      BY <2>1, <2>2
    <3> QED BY <2>2, <3>1
  <2>4. IsHeld(f, b)
    BY <1>4, <2>1, <2>3 DEF IsHeld
  <2>5. ASSUME to <= Len(B) PROVE IsBefore(f, sc, p, b, B[to])
    <3>1. IsTrain(f, sc, p, B) /\ B[at].part = 1
      BY NextFacts DEF IsParse, IsNext
    <3>2. \/ Lost(f, sc, p, CellOf(f, e), CellOf(f, B[to]))
          \/ IsRow(B, at, e.of) /\ Awaits(e.id[1], e.id[2], B[to])
      BY <1>1, <2>5, <3>1, TakenSegment
    <3>3. to \in at .. Len(B) /\ to \in 1 .. Len(B)
      BY <1>1, <2>5
    <3>4. CellOf(f, e) <= CellOf(f, B[to])
      BY <1>1, <3>1, <3>3, CellsGrow
    <3>5. CellOf(f, B[to]) \in Nat
      BY <3>1, <3>3, TrainCells
    <3> DEFINE z == B[to]
               c == First(f, << d, 1 >>)
    <3>6. /\ c <= CellOf(f, e)
          /\ \/ IsPrefix(a.segments, d) /\ Awaits(d, m, e)
             \/ Lost(f, sc, p, c, CellOf(f, e))
      BY <1>6 DEF IsBefore
    <3>7. c \in Nat
      <4>1. DOMAIN f = 1 .. Len(f) /\ Len(f) \in Nat
        BY <2>1, <3>1, CellTyped DEF IsTrain
      <4> QED BY <2>1, <4>1
    <3> HIDE DEF z, c, e, m, d, to
    <3>8. c <= CellOf(f, z) /\ (Lost(f, sc, p, c, CellOf(f, e)) => Lost(f, sc, p, c, CellOf(f, z)))
      <4>1. c <= CellOf(f, z)
        BY <1>1, <3>4, <3>5, <3>6, <3>7 DEF z
      <4> QED BY <1>1, <3>4, <3>5, <3>7, <4>1, LostGrows DEF z
    <3>9. Lost(f, sc, p, CellOf(f, e), CellOf(f, z)) => Lost(f, sc, p, c, CellOf(f, z))
      BY <1>1, <3>5, <3>6, <3>7, LostGrows DEF z
    <3>10. ASSUME IsPrefix(a.segments, d), Awaits(d, m, e), IsRow(B, at, e.of),
                  Awaits(e.id[1], e.id[2], z)
           PROVE  IsPrefix(b.segments, d) /\ Awaits(d, m + 1, z)
      <4>1. ~ Opens(e)
        <5>1. e.id[2] # 1
          BY <1>1, <1>2, TypeOfSegment, SegmentFields DEF e
        <5> QED BY <5>1 DEF Opens
      <4>2. e.id = << d, m + 1 >>
        BY <3>10, <4>1 DEF Awaits
      <4>3. \A k \in 1 .. m + 1 : b.segments[k].id = << d, k >> /\ b.segments[k].whole
        <5> TAKE k \in 1 .. m + 1
        <5>1. CASE k = m + 1
          BY <1>2, <2>2, <3>10, <4>2, <5>1
        <5>2. CASE k # m + 1
          <6>1. k \in 1 .. m
            BY <2>1, <5>2
          <6>2. b.segments[k] = a.segments[k]
            BY <2>2, <6>1
          <6> QED BY <3>10, <6>1, <6>2 DEF IsPrefix, m
        <5> QED BY <5>1, <5>2
      <4>4. e.id[1] = d /\ e.id[2] = m + 1
        BY <4>2
      <4> QED BY <2>2, <3>10, <4>3, <4>4 DEF IsPrefix
    <3>11. \/ IsPrefix(b.segments, d) /\ Awaits(d, Len(b.segments), z)
           \/ Lost(f, sc, p, c, CellOf(f, z))
      BY <2>2, <3>2, <3>6, <3>8, <3>9, <3>10 DEF z
    <3>12. IsBefore(f, sc, p, b, z)
      BY <2>3, <3>8, <3>11 DEF IsBefore, c, d
    <3> QED BY <3>12 DEF z, to
  <2> QED BY <1>3, <1>4, <1>6, <2>3, <2>4, <2>5 DEF s, b
<1> QED BY <1>5, <1>6

(* The display set that s completes.                                        *)
Completed(a, s) == [pts |-> a.pts, state |-> a.state, segments |-> Append(a.segments, s)]

(* What END completes is a display set of the file, or a packet between its *)
(* first and its last segment was lost.                                     *)
LEMMA PushEnd ==
  ASSUME NEW f, NEW sc, NEW p, NEW B, NEW buf, IsParse(f, sc, p, B, buf),
         NEW at, IsNext(buf, at), NEW a \in Asms, B[at].type = "END",
         IsHeld(f, a), IsBefore(f, sc, p, a, B[at])
  PROVE  LET s == SegmentAt(buf, at)
             y == Completed(a, s)
         IN  /\ AsmPush(a, s).state = None
             /\ a.state = None => AsmOut(a, s) = << >>
             /\ a.state # None => /\ AsmOut(a, s) = << y >> /\ IsOut(f, sc, p, y)
                                  /\ FirstOf(f, y) = First(f, a.segments[1].id)
                                  /\ LastOf(f, y) = CellOf(f, buf[at])
<1> DEFINE e == B[at]
           s == SegmentAt(buf, at)
           d == a.segments[1].id[1]
           m == Len(a.segments)
           y == Completed(a, s)
<1>1. /\ e.id[1] \in DisplaySets
      /\ e.id[2] \in 1 .. Len(Written[e.id[1]])
      /\ e.type = Written[e.id[1]][e.id[2]].type
      /\ First(f, e.id) = CellOf(f, e) /\ CellOf(f, e) \in Nat /\ CellOf(f, e) \in sc
      /\ e.of = 1 /\ s \in Segs /\ buf[at] = e
  BY NextFacts
<1>2. s.id = e.id /\ s.type = "END" /\ s.whole
  BY <1>1, SegmentFields
<1>3. /\ a.segments \in Seq(Segs)
      /\ AsmPush(a, s) = AsmReset(a)
      /\ AsmOut(a, s) = IF a.state # None THEN << y >> ELSE << >>
  <2>1. a.segments \in Seq(Segs)
    BY DEF Asms, Assemblers
  <2> HIDE DEF s
  <2> QED BY <1>2, <2>1 DEF AsmPush, AsmOut, Completed
<1>4. AsmPush(a, s).state = None
  <2> HIDE DEF s
  <2> QED BY <1>3 DEF AsmReset, Asms, Assemblers
<1>5. ASSUME a.state # None
      PROVE  /\ IsOut(f, sc, p, y) /\ FirstOf(f, y) = First(f, a.segments[1].id)
             /\ LastOf(f, y) = CellOf(f, buf[at])
  <2>1. /\ a.segments # << >>
        /\ a.segments[1].id = << d, 1 >> /\ d \in DisplaySets
        /\ Written[d][1].comp # None
        /\ a.pts = SaturatingSub(PtsIn(f, d), PtsOffset)
        /\ First(f, << d, 1 >>) \in DOMAIN f
        /\ m \in Nat \ {0}
    BY <1>5, HeldStarts
  <2>2. /\ Len(y.segments) = m + 1 /\ y.segments[m + 1] = s
        /\ \A k \in 1 .. m : y.segments[k] = a.segments[k]
    <3>1. y.segments = Append(a.segments, s)
      BY DEF Completed
    <3> HIDE DEF y, s
    <3> QED BY <1>1, <1>3, <3>1, AppendProperties
  <2>3. y.segments[1] = a.segments[1]
    <3>1. 1 \in 1 .. m
      BY <2>1
    <3> QED BY <2>2, <3>1
  <2>4. y.pts = a.pts
    BY DEF Completed
  <2> HIDE DEF y, s
  <2>5. FirstOf(f, y) = First(f, << d, 1 >>) /\ LastOf(f, y) = CellOf(f, e)
    <3>1. First(f, y.segments[1].id) = First(f, << d, 1 >>)
      BY <2>1, <2>3
    <3>2. First(f, y.segments[Len(y.segments)].id) = CellOf(f, e)
      BY <1>1, <1>2, <2>2
    <3> QED BY <3>1, <3>2 DEF FirstOf, LastOf
  <2>6. ASSUME IsPrefix(a.segments, d), Awaits(d, m, e)
        PROVE  IsGenuine(f, d, y)
    <3> HIDE DEF d, m
    <3>1. ~ Opens(e)
      <4>1. e.id[2] # 1
        BY <1>1, <1>2, TypeOfSegment, SegmentFields
      <4> QED BY <4>1 DEF Opens
    <3>2. e.id = << d, m + 1 >> /\ m < Len(Written[d])
      BY <2>6, <3>1 DEF Awaits
    <3>3. e.id[1] = d /\ e.id[2] = m + 1
      BY <3>2
    <3>4. e.type = "END"
      OBVIOUS
    <3> HIDE DEF e
    <3>5. m + 1 \in 1 .. Len(Written[d]) /\ Written[d][m + 1].type = "END"
      BY <1>1, <3>3, <3>4
    <3>6. m + 1 = Len(Written[d])
      BY <2>1, <3>5, TypeOfSegment
    <3>7. \A k \in 1 .. m + 1 : y.segments[k].id = << d, k >> /\ y.segments[k].whole
      <4> TAKE k \in 1 .. m + 1
      <4>1. CASE k = m + 1
        BY <1>2, <2>2, <3>2, <4>1
      <4>2. CASE k # m + 1
        <5>1. k \in 1 .. m
          BY <2>1, <4>2
        <5>2. y.segments[k] = a.segments[k]
          BY <2>2, <5>1
        <5> QED BY <2>6, <5>1, <5>2 DEF IsPrefix, m
      <4> QED BY <4>1, <4>2
    <3>8. Complete(d)
      <4> DEFINE w == Written[d]
      <4>1. 1 \in 1 .. Len(w) /\ Len(w) \in 1 + 1 .. Len(w) /\ Len(w) \in 1 .. Len(w)
        BY <2>1, <3>6
      <4>2. w[1].type = "PCS" /\ w[1].comp # None /\ w[Len(w)].type = "END"
        BY <2>1, <3>5, <3>6, <4>1, TypeOfSegment
      <4>3. \A k \in 1 + 1 .. Len(w) - 1 : w[k].type \in BodyType
        <5> TAKE k \in 1 + 1 .. Len(w) - 1
        <5>1. k \in 1 .. Len(w) /\ k # 1 /\ k # Len(w)
          BY <4>1
        <5>2. w[k].type \in SegmentType /\ w[k].type # "PCS" /\ w[k].type # "END"
          BY <2>1, <5>1, TypeOfSegment
        <5> QED BY <5>2 DEF BodyType
      <4> QED BY <4>1, <4>2, <4>3 DEF Complete, IsRun
    <3> QED BY <2>1, <2>2, <2>4, <3>6, <3>7, <3>8 DEF IsGenuine, IsPrefix
  <2>7. \/ IsPrefix(a.segments, d) /\ Awaits(d, m, e)
        \/ Lost(f, sc, p, First(f, << d, 1 >>), CellOf(f, e))
    BY <1>5 DEF IsBefore
  <2>8. \/ \E x \in DisplaySets : IsGenuine(f, x, y)
        \/ Lost(f, sc, p, FirstOf(f, y), LastOf(f, y))
    <3> HIDE DEF d, m, e
    <3> QED BY <2>1, <2>5, <2>6, <2>7
  <2> QED BY <1>1, <2>1, <2>5, <2>8 DEF IsOut
<1> QED BY <1>3, <1>4, <1>5
-----------------------------------------------------------------------------
(* The whole parse.                                                         *)

(* A parse that stops before the last piece is reached: since that one      *)
(* begins a segment, a packet was lost.                                     *)
LEMMA StopKeeps ==
  ASSUME NEW f, NEW sc, NEW p, NEW B, IsTrain(f, sc, p, B),
         NEW n \in Nat, Len(B) = n + 1, B[n + 1].part = 1,
         NEW at \in 1 .. n, B[at].part # 1 \/ at + B[at].of > n + 1,
         NEW a \in Asms, IsHeld(f, a), IsBefore(f, sc, p, a, B[at])
  PROVE  IsBefore(f, sc, p, a, B[n + 1])
<1> SUFFICES ASSUME a.state # None PROVE IsBefore(f, sc, p, a, B[n + 1])
  BY DEF IsBefore
<1> DEFINE d == a.segments[1].id[1]
           c == First(f, << d, 1 >>)
           e == B[at]
           z == B[n + 1]
<1>1. /\ d \in DisplaySets /\ c \in DOMAIN f
  BY HeldStarts
<1>2. c \in Nat
  <2>1. DOMAIN f = 1 .. Len(f) /\ Len(f) \in Nat
    BY <1>1, CellTyped DEF IsTrain
  <2> QED BY <1>1, <2>1
<1>3. /\ at \in 1 .. Len(B) /\ n + 1 \in at .. Len(B) /\ n + 1 \in 1 .. Len(B)
      /\ B \in Seq(Pieces)
  BY DEF IsTrain
<1>4. CellOf(f, e) <= CellOf(f, z) /\ CellOf(f, e) \in Nat /\ CellOf(f, z) \in Nat
  BY <1>3, CellsGrow, TrainCells
<1>5. /\ c <= CellOf(f, e)
      /\ \/ IsPrefix(a.segments, d) /\ Awaits(d, Len(a.segments), e)
         \/ Lost(f, sc, p, c, CellOf(f, e))
  BY DEF IsBefore
<1>6. Lost(f, sc, p, c, CellOf(f, e)) \/ Lost(f, sc, p, CellOf(f, e), CellOf(f, z))
  <2> SUFFICES ASSUME Awaits(d, Len(a.segments), e),
                      ~ Lost(f, sc, p, CellOf(f, e), CellOf(f, z))
               PROVE  FALSE
    BY <1>5
  <2>1. e.part = 1
    <3> HIDE DEF e, d
    <3> QED BY DEF Awaits, Opens
  <2>2. at + e.of > n + 1 /\ e \in Pieces
    BY <1>3, <2>1, ElementOfSeq
  <2>3. e.of \in Nat
    BY <2>2 DEF Pieces
  <2> DEFINE count == n + 2 - at
  <2>4. count \in 1 .. e.of /\ at + count <= Len(B) + 1 /\ at + count - 2 = n /\ count # 1
        /\ at + count - 1 = n + 1 /\ count \in 1 .. count
    <3> DEFINE m == e.of
    <3>1. m \in Nat /\ at + m > n + 1 /\ Len(B) = n + 1 /\ n \in Nat /\ at \in 1 .. n
      BY <2>2, <2>3
    <3> HIDE DEF m
    <3>2. /\ count \in 1 .. m /\ at + count <= Len(B) + 1 /\ at + count - 2 = n /\ count # 1
          /\ at + count - 1 = n + 1 /\ count \in 1 .. count
      BY <3>1
    <3> QED BY <3>2 DEF m
  <2>5. \A j \in at .. n : Continues(B[j], B[j + 1])
    <3> SUFFICES ASSUME NEW j \in at .. n, ~ Continues(B[j], B[j + 1]) PROVE FALSE
      OBVIOUS
    <3>1. j \in at .. (n + 1) - 1
      OBVIOUS
    <3>2. Lost(f, sc, p, CellOf(f, B[at]), CellOf(f, B[n + 1]))
      BY <1>3, <3>1, LostInTrain
    <3> QED BY <3>2
  <2>6. IsRow(B, at, count)
    <3> HIDE DEF count
    <3> QED BY <1>3, <2>1, <2>4, <2>5, RowOf
  <2>7. B[at + count - 1].part = count
    <3> HIDE DEF count
    <3> QED BY <2>4, <2>6 DEF IsRow
  <2> QED BY <2>4, <2>7
<1> HIDE DEF c, e, z
<1>7. Lost(f, sc, p, c, CellOf(f, z)) /\ c <= CellOf(f, z)
  BY <1>2, <1>4, <1>5, <1>6, LostGrows
<1> QED BY <1>7 DEF IsBefore, c, d, z

Sets == AssembledSets(Segs, Nat, States)

(* What feeding the segments of a PES packet leaves: at most one display    *)
(* set, from behind those that ended at the cells of Y.                     *)
FedOk(f, sc, p, Y, buf, a, sets) ==
  /\ IsHeld(f, a)
  /\ a.state # None => sets = << >> /\ \A x \in Y : x < First(f, a.segments[1].id)
  /\ \/ sets = << >>
     \/ \E y : /\ sets = << y >> /\ IsOut(f, sc, p, y)
               /\ \E j \in 1 .. Len(buf) : LastOf(f, y) = CellOf(f, buf[j])
               /\ \A x \in Y : x < FirstOf(f, y)

IsFeedable(f, sc, p, Y, B, a) ==
  /\ a \in Asms /\ IsHeld(f, a)
  /\ 1 <= Len(B) => IsBefore(f, sc, p, a, B[1])
  /\ \A x \in Y : /\ 1 <= Len(B) => x < CellOf(f, B[1])
                  /\ a.state # None => x < First(f, a.segments[1].id)

(* The parse is at x; a was fed what it has found so far.                   *)
FedUpTo(f, sc, p, Y, B, buf, a, x) ==
  LET fed == AsmFeed(a, x.segments)
  IN  /\ FedOk(f, sc, p, Y, buf, fed.asm, fed.sets)
      /\ x.at = 1 => x.segments = << >>
      /\ x.at <= Len(B) => IsBefore(f, sc, p, fed.asm, B[x.at])

(* One segment more is parsed and pushed.                                   *)
LEMMA FedStep ==
  ASSUME NEW f, NEW sc, NEW p, NEW Y, NEW B, NEW buf, IsParse(f, sc, p, B, buf),
         NEW a, IsFeedable(f, sc, p, Y, B, a),
         NEW at, NEW segs \in Seq(Segs), IsNext(buf, at),
         FedUpTo(f, sc, p, Y, B, buf, a, [at |-> at, segments |-> segs])
  PROVE  LET s == SegmentAt(buf, at)
         IN  FedUpTo(f, sc, p, Y, B, buf, a, [at |-> at + buf[at].of, segments |-> Append(segs, s)])
<1> DEFINE s == SegmentAt(buf, at)
           to == at + B[at].of
           now == AsmFeed(a, segs).asm
           sets == AsmFeed(a, segs).sets
           b == AsmPush(now, s)
           new == AsmFeed(a, Append(segs, s))
<1>1. /\ buf[at] = B[at] /\ at \in 1 .. Len(B) /\ at \in Nat /\ Len(B) \in Nat
      /\ s \in Segs /\ B[at].of \in Nat \ {0}
  BY NextFacts
<1>2. a \in Asms /\ IsFed(Segs, Nat, States)
  BY SegsAreFed DEF IsFeedable
<1>3. now \in Asms /\ sets \in Seq(Sets)
  BY <1>2, FeedTyped DEF Asms, Sets
<1>4. new.asm = b /\ new.sets = sets \o AsmOut(now, s)
  <2>1. s \in Segs /\ a \in Assemblers(Segs, Nat, States)
    BY <1>1, <1>2 DEF Asms
  <2> HIDE DEF s
  <2>2. IsFedOne(AsmFeed(a, segs), new, s)
    BY <1>2, <2>1, FeedAppend
  <2> QED BY <2>2 DEF IsFedOne
<1>5. /\ FedOk(f, sc, p, Y, buf, now, sets)
      /\ at = 1 => segs = << >>
      /\ IsBefore(f, sc, p, now, B[at])
  BY <1>1 DEF FedUpTo
<1>6. to # 1
  BY <1>1
<1> HIDE DEF now, sets
<1> SUFFICES FedOk(f, sc, p, Y, buf, b, sets \o AsmOut(now, s))
             /\ (to <= Len(B) => IsBefore(f, sc, p, b, B[to]))
  BY <1>1, <1>4, <1>6 DEF FedUpTo
<1>7. IsHeld(f, now)
  BY <1>5 DEF FedOk
<1>8. sets \o << >> = sets
  BY <1>3, ConcatEmptySeq
<1>9. CASE B[at].type = "PCS"
  <2>1. /\ at = 1 /\ AsmOut(now, s) = << >> /\ IsHeld(f, b)
        /\ First(f, b.segments[1].id) = CellOf(f, B[1])
        /\ to <= Len(B) => IsBefore(f, sc, p, b, B[to])
    BY <1>3, <1>9, PushPcs
  <2>2. sets = << >>
    <3>1. segs = << >>
      BY <1>5, <2>1
    <3> QED BY <1>2, <3>1, FeedEmpty DEF Asms, sets
  <2>3. \A x \in Y : x < CellOf(f, B[1])
    BY <1>1, <2>1 DEF IsFeedable
  <2> HIDE DEF b, to, s
  <2> QED BY <1>8, <2>1, <2>2, <2>3 DEF FedOk
<1>10. CASE B[at].type = "END"
  <2> DEFINE y == Completed(now, s)
  <2>1. /\ b.state = None
        /\ now.state = None => AsmOut(now, s) = << >>
        /\ now.state # None => /\ AsmOut(now, s) = << y >> /\ IsOut(f, sc, p, y)
                               /\ FirstOf(f, y) = First(f, now.segments[1].id)
                               /\ LastOf(f, y) = CellOf(f, buf[at])
    BY <1>3, <1>5, <1>7, <1>10, PushEnd
  <2> HIDE DEF y, b, s, to
  <2>0. at \in 1 .. Len(buf)
    BY DEF IsNext
  <2>2. IsHeld(f, b) /\ IsBefore(f, sc, p, b, B[to])
    BY <2>1 DEF IsHeld, IsBefore
  <2>3. CASE now.state = None
    BY <1>5, <1>8, <2>1, <2>2, <2>3 DEF FedOk
  <2>4. CASE now.state # None
    <3>1. sets = << >> /\ \A x \in Y : x < First(f, now.segments[1].id)
      BY <1>5, <2>4 DEF FedOk
    <3>2. sets \o << y >> = << y >>
      <4>1. << y >> \in Seq({y})
        OBVIOUS
      <4> QED BY <3>1, <4>1, ConcatEmptySeq
    <3> QED BY <2>0, <2>1, <2>2, <2>4, <3>1, <3>2 DEF FedOk
  <2> QED BY <2>3, <2>4
<1>11. CASE B[at].type # "PCS" /\ B[at].type # "END"
  <2>1. /\ AsmOut(now, s) = << >> /\ b.state = now.state
        /\ now.state # None => b.segments[1] = now.segments[1]
        /\ IsHeld(f, b)
        /\ to <= Len(B) => IsBefore(f, sc, p, b, B[to])
    BY <1>3, <1>5, <1>7, <1>11, PushBody
  <2> HIDE DEF b, s, to
  <2> QED BY <1>5, <1>8, <2>1 DEF FedOk
<1> QED BY <1>9, <1>10, <1>11

(* Feeding a buffer keeps what is known of the assembler; and what it holds *)
(* then is before the piece behind the buffer.                              *)
LEMMA FeedBuffer ==
  ASSUME NEW f, NEW sc, NEW p, NEW Y, NEW B, NEW buf, IsParse(f, sc, p, B, buf),
         NEW a, IsFeedable(f, sc, p, Y, B, a)
  PROVE  LET fed == AsmFeed(a, ParsePes(buf))
         IN  /\ fed.asm \in Asms /\ fed.sets \in Seq(Sets)
             /\ FedOk(f, sc, p, Y, buf, fed.asm, fed.sets)
             /\ Len(B) = Len(buf) + 1 /\ B[Len(B)].part = 1
                  => IsBefore(f, sc, p, fed.asm, B[Len(B)])
<1> DEFINE n == Len(buf)
           e == [at |-> 1, segments |-> << >>]
           T == {x \in [at : 1 .. n + 1, segments : Seq(Segs)] : FedUpTo(f, sc, p, Y, B, buf, a, x)}
<1>1. /\ n \in Nat /\ Len(B) \in Nat /\ n <= Len(B) /\ buf \in Seq(Pieces)
      /\ \A k \in 1 .. n : buf[k] = B[k]
      /\ IsTrain(f, sc, p, B)
  BY LenProperties DEF IsParse, IsTrain
<1>2. a \in Asms /\ IsFed(Segs, Nat, States) /\ a \in Assemblers(Segs, Nat, States)
  BY SegsAreFed DEF IsFeedable, Asms
<1>3. e \in T
  <2>1. AsmFeed(a, e.segments) = [asm |-> a, sets |-> << >>]
    BY <1>2, FeedEmpty
  <2>2. FedOk(f, sc, p, Y, buf, a, << >>)
    BY DEF FedOk, IsFeedable
  <2>3. 1 <= Len(B) => IsBefore(f, sc, p, a, B[1])
    BY DEF IsFeedable
  <2>4. FedUpTo(f, sc, p, Y, B, buf, a, e)
    BY <2>1, <2>2, <2>3 DEF FedUpTo
  <2>5. e \in [at : 1 .. n + 1, segments : Seq(Segs)]
    <3>1. << >> \in Seq(Segs) /\ 1 \in 1 .. n + 1
      BY <1>1
    <3> QED BY <3>1
  <2> QED BY <2>4, <2>5
<1>4. ASSUME NEW x \in T
      PROVE  /\ x.at \in Nat
             /\ ParseStep(buf, x) \in T
             /\ ParseStep(buf, x) = x \/ ParseStep(buf, x).at > x.at
             /\ IsNext(buf, x.at) => ParseStep(buf, x) # x
  <2> DEFINE at == x.at
             s == SegmentAt(buf, at)
             z == [at |-> at + buf[at].of, segments |-> Append(x.segments, s)]
  <2>1. /\ at \in 1 .. n + 1 /\ x.segments \in Seq(Segs)
        /\ FedUpTo(f, sc, p, Y, B, buf, a, x)
        /\ x = [at |-> at, segments |-> x.segments]
    OBVIOUS
  <2>2. at \in Nat
    BY <1>1, <2>1
  <2>3. CASE ~ IsNext(buf, at)
    <3>0. at \in 1 .. n => buf[at].of \in Nat
      <4> SUFFICES ASSUME at \in 1 .. n PROVE buf[at].of \in Nat
        OBVIOUS
      <4>1. buf[at] \in Pieces
        BY <1>1, ElementOfSeq
      <4> QED BY <4>1 DEF Pieces
    <3>1. ParseStep(buf, x) = x
      <4> HIDE DEF z, s
      <4> QED BY <1>1, <2>1, <2>2, <2>3, <3>0 DEF ParseStep, IsNext
    <3> QED BY <2>2, <2>3, <3>1
  <2>4. CASE IsNext(buf, at)
    <3>1. /\ buf[at].of \in Nat \ {0} /\ s \in Segs
      BY <2>4, NextFacts
    <3>2. /\ at \in 1 .. n /\ buf[at].part = 1 /\ at + buf[at].of <= n + 1
      BY <2>4 DEF IsNext
    <3>3. ParseStep(buf, x) = z
      BY <1>1, <2>2, <3>1, <3>2 DEF ParseStep
    <3>4. FedUpTo(f, sc, p, Y, B, buf, a, z)
      BY <2>1, <2>4, FedStep
    <3>5. z.at > at /\ z.at \in 1 .. n + 1
      BY <1>1, <2>2, <3>1, <3>2
    <3>6. Append(x.segments, s) \in Seq(Segs)
      BY <2>1, <3>1, AppendProperties
    <3>7. z \in T
      BY <3>4, <3>5, <3>6
    <3>8. z # x
      <4> HIDE DEF z
      <4> QED BY <2>2, <3>5
    <3> QED BY <2>2, <3>3, <3>5, <3>7, <3>8
  <2> QED BY <2>3, <2>4
<1>5. PICK x \in T : ParseStep(buf, x) = x /\ ParsePes(buf) = x.segments
  <2> HIDE DEF T, n
  <2>1. Len(buf) \in Nat
    BY <1>1 DEF n
  <2> QED BY <1>3, <1>4, <2>1, ParsedInduction
<1>6. /\ x.at \in 1 .. n + 1 /\ x.segments \in Seq(Segs)
      /\ FedUpTo(f, sc, p, Y, B, buf, a, x) /\ ~ IsNext(buf, x.at)
  BY <1>4, <1>5
<1> DEFINE fed == AsmFeed(a, x.segments)
<1>7. fed.asm \in Asms /\ fed.sets \in Seq(Sets)
  BY <1>2, <1>6, FeedTyped DEF Asms, Sets
<1>8. FedOk(f, sc, p, Y, buf, fed.asm, fed.sets) /\ (x.at <= Len(B) => IsBefore(f, sc, p, fed.asm, B[x.at]))
  BY <1>6 DEF FedUpTo
<1> HIDE DEF T, fed
<1>9. ASSUME Len(B) = n + 1, B[Len(B)].part = 1
      PROVE  IsBefore(f, sc, p, fed.asm, B[Len(B)])
  <2>1. CASE x.at = n + 1
    BY <1>1, <1>8, <1>9, <2>1
  <2>2. CASE x.at # n + 1
    <3>1. x.at \in 1 .. n /\ x.at <= Len(B)
      BY <1>1, <1>6, <1>9, <2>2
    <3>2. buf[x.at] = B[x.at] /\ B[n + 1].part = 1
      BY <1>1, <1>9, <3>1
    <3>3. B[x.at].part # 1 \/ x.at + B[x.at].of > n + 1
      <4>1. B[x.at] \in Pieces
        BY <1>1, <3>1, <3>2, ElementOfSeq
      <4>2. B[x.at].of \in Nat
        BY <4>1 DEF Pieces
      <4>3. ~ (buf[x.at].part = 1 /\ x.at + buf[x.at].of <= n + 1)
        BY <1>6, <3>1 DEF IsNext
      <4> QED BY <1>1, <3>1, <3>2, <4>2, <4>3
    <3>4. IsHeld(f, fed.asm) /\ IsBefore(f, sc, p, fed.asm, B[x.at])
      BY <1>8, <3>1 DEF FedOk
    <3> HIDE DEF n
    <3>5. IsBefore(f, sc, p, fed.asm, B[n + 1])
      BY <1>1, <1>7, <1>9, <3>1, <3>2, <3>3, <3>4, StopKeeps
    <3> QED BY <1>9, <3>5
  <2> QED BY <2>1, <2>2
<1> QED BY <1>5, <1>7, <1>8, <1>9 DEF fed
-----------------------------------------------------------------------------
(* One packet more is scanned.                                              *)

(* sc grows by cell o, which is behind all of it.                           *)
IsNewer(f, sc, o) ==
  IsFile(f) /\ sc \in SUBSET (DOMAIN f) /\ o \in DOMAIN f /\ \A i \in sc : i < o

(* Cells are numbers.                                                       *)
LEMMA NewerFacts ==
  ASSUME NEW f, NEW sc, NEW o, IsNewer(f, sc, o)
  PROVE  /\ sc \cup {o} \in SUBSET (DOMAIN f) /\ DOMAIN f \subseteq Nat /\ o \in Nat
         /\ sc \subseteq Nat
<1>1. DOMAIN f = 1 .. Len(f) /\ Len(f) \in Nat
  BY CellTyped DEF IsNewer
<1> QED BY <1>1 DEF IsNewer

(* Scanning the next cell takes back nothing that was lost.                 *)
LEMMA LostStays ==
  ASSUME NEW f, NEW sc, NEW o, IsNewer(f, sc, o), NEW p, NEW i \in Nat, NEW j \in Nat, j < o,
         Lost(f, sc, p, i, j)
  PROVE  Lost(f, sc \cup {o}, p, i, j)
<1>1. PICK k \in i .. j : f[k].pid = p /\ k \notin sc
  BY DEF Lost
<1>2. k # o
  BY NewerFacts
<1> QED BY <1>1, <1>2 DEF Lost

(* The pieces of scanned packets stay such.                                 *)
LEMMA InStays ==
  ASSUME NEW f, NEW sc, NEW o, IsNewer(f, sc, o), NEW p, NEW a, IsIn(f, sc, p, a)
  PROVE  /\ IsIn(f, sc \cup {o}, p, a)
         /\ CellOf(f, a) \in sc /\ CellOf(f, a) \in Nat /\ CellOf(f, a) < o
<1>1. IsIn(f, sc \cup {o}, p, a)
  BY DEF IsIn
<1>2. PieceSays(f, sc, p, a)
  BY PieceIn DEF IsNewer
<1> QED BY <1>1, <1>2 DEF PieceSays, IsNewer

(* So do the links between them,                                            *)
LEMMA LinkStays ==
  ASSUME NEW f, NEW sc, NEW o, IsNewer(f, sc, o), NEW p,
         NEW a, IsIn(f, sc, p, a), NEW b, IsIn(f, sc, p, b), Linked(f, sc, p, a, b)
  PROVE  Linked(f, sc \cup {o}, p, a, b)
<1>1. CellOf(f, a) \in Nat /\ CellOf(f, b) \in Nat /\ CellOf(f, b) < o
  BY InStays
<1> QED BY <1>1, LostStays DEF Linked

(* and trains.                                                              *)
LEMMA TrainStays ==
  ASSUME NEW f, NEW sc, NEW o, IsNewer(f, sc, o), NEW p, NEW B, IsTrain(f, sc, p, B)
  PROVE  IsTrain(f, sc \cup {o}, p, B)
<1>1. sc \cup {o} \in SUBSET (DOMAIN f) /\ IsFile(f) /\ B \in Seq(Pieces) /\ Len(B) \in Nat
  BY NewerFacts, LenProperties DEF IsTrain
<1>2. \A j \in 1 .. Len(B) : IsIn(f, sc, p, B[j])
  BY DEF IsTrain
<1>3. \A j \in 1 .. Len(B) : IsIn(f, sc \cup {o}, p, B[j])
  BY <1>2, InStays
<1>4. ASSUME NEW j \in 1 .. Len(B) - 1
      PROVE  Linked(f, sc \cup {o}, p, B[j], B[j + 1])
  <2>1. j \in 1 .. Len(B) /\ j + 1 \in 1 .. Len(B)
    BY <1>1
  <2>2. Linked(f, sc, p, B[j], B[j + 1])
    BY DEF IsTrain
  <2> QED BY <1>2, <2>1, <2>2, LinkStays
<1> QED BY <1>1, <1>3, <1>4 DEF IsTrain

(* Two trains that are linked are one.                                      *)
LEMMA TrainConcat ==
  ASSUME NEW f, NEW sc, NEW p, NEW B, IsTrain(f, sc, p, B), NEW C, IsTrain(f, sc, p, C),
         B # << >> /\ C # << >> => Linked(f, sc, p, B[Len(B)], C[1])
  PROVE  IsTrain(f, sc, p, B \o C)
<1> DEFINE D == B \o C
<1>1. /\ B \in Seq(Pieces) /\ C \in Seq(Pieces) /\ IsFile(f) /\ sc \in SUBSET (DOMAIN f)
      /\ Len(B) \in Nat /\ Len(C) \in Nat
  BY LenProperties DEF IsTrain
<1>2. /\ D \in Seq(Pieces) /\ Len(D) = Len(B) + Len(C)
      /\ \A i \in 1 .. Len(D) : D[i] = IF i <= Len(B) THEN B[i] ELSE C[i - Len(B)]
  BY <1>1, ConcatProperties
<1>3. (B = << >> <=> Len(B) = 0) /\ (C = << >> <=> Len(C) = 0)
  BY <1>1, EmptySeq
<1> HIDE DEF D
<1>4. ASSUME NEW j \in 1 .. Len(D) PROVE IsIn(f, sc, p, D[j])
  <2>1. CASE j <= Len(B)
    <3>1. j \in 1 .. Len(B)
      BY <1>1, <2>1
    <3> QED BY <1>2, <2>1, <3>1 DEF IsTrain
  <2>2. CASE ~ (j <= Len(B))
    <3>1. j - Len(B) \in 1 .. Len(C)
      BY <1>1, <1>2, <2>2
    <3> QED BY <1>2, <2>2, <3>1 DEF IsTrain
  <2> QED BY <2>1, <2>2
<1>5. ASSUME NEW j \in 1 .. Len(D) - 1 PROVE Linked(f, sc, p, D[j], D[j + 1])
  <2>1. j \in 1 .. Len(D) /\ j + 1 \in 1 .. Len(D)
    BY <1>1, <1>2
  <2>2. CASE j < Len(B)
    <3>1. j \in 1 .. Len(B) - 1 /\ j <= Len(B) /\ j + 1 <= Len(B)
      BY <1>1, <2>2
    <3> QED BY <1>2, <2>1, <3>1 DEF IsTrain
  <2>3. CASE j = Len(B)
    <3>1. j <= Len(B) /\ ~ (j + 1 <= Len(B)) /\ j + 1 - Len(B) = 1 /\ Len(B) # 0 /\ Len(C) # 0
      BY <1>1, <1>2, <2>3
    <3>2. D[j] = B[j] /\ D[j + 1] = C[1]
      BY <1>2, <2>1, <3>1
    <3> QED BY <1>3, <2>3, <3>1, <3>2
  <2>4. CASE j > Len(B)
    <3>1. /\ j - Len(B) \in 1 .. Len(C) - 1 /\ ~ (j <= Len(B)) /\ ~ (j + 1 <= Len(B))
          /\ (j + 1) - Len(B) = (j - Len(B)) + 1
      BY <1>1, <1>2, <2>4
    <3>2. D[j] = C[j - Len(B)] /\ D[j + 1] = C[(j - Len(B)) + 1]
      BY <1>2, <2>1, <3>1
    <3>3. Linked(f, sc, p, C[j - Len(B)], C[(j - Len(B)) + 1])
      BY <3>1 DEF IsTrain
    <3> QED BY <3>2, <3>3
  <2> QED BY <1>1, <2>2, <2>3, <2>4
<1> QED BY <1>1, <1>2, <1>4, <1>5 DEF IsTrain, D

(* The pieces of one packet.                                                *)
LEMMA CellTrain ==
  ASSUME NEW f, IsFile(f), NEW sc \in SUBSET (DOMAIN f), NEW o \in sc
  PROVE  /\ IsTrain(f, sc, f[o].pid, PiecesOf(f, o))
         /\ \A j \in 1 .. Len(PiecesOf(f, o)) : CellOf(f, PiecesOf(f, o)[j]) = o
         /\ \A j \in 2 .. Len(PiecesOf(f, o)) : ~ Opens(PiecesOf(f, o)[j])
<1> DEFINE C == PiecesOf(f, o)
<1>1. C \in Seq(Pieces) /\ Len(C) \in Nat /\ o \in DOMAIN f /\ DOMAIN C = 1 .. Len(C)
      /\ o \in Nat /\ o \in 1 .. Len(f)
  <2>1. o \in DOMAIN f
    OBVIOUS
  <2> QED BY <2>1, CellTyped
<1>2. \A j \in 1 .. Len(C) : IsPieceOf(f, o, j, C[j])
  BY <1>1 DEF IsPieceOf
<1>3. \A j \in 1 .. Len(C) : IsIn(f, sc, f[o].pid, C[j])
  BY <1>1 DEF IsIn
<1>4. \A j \in 1 .. Len(C) : CellOf(f, C[j]) = o
  BY <1>2, CellOfPiece
<1>5. \A j \in 2 .. Len(C) : ~ Opens(C[j])
  <2> TAKE j \in 2 .. Len(C)
  <2>1. j \in 1 .. Len(C) /\ j # 1
    BY <1>1
  <2>2. Opens(C[j]) => j = 1
    BY <1>2, <2>1, PieceFacts
  <2> QED BY <2>1, <2>2
<1>6. ASSUME NEW j \in 1 .. Len(C) - 1 PROVE Linked(f, sc, f[o].pid, C[j], C[j + 1])
  <2>1. Continues(C[j], C[j + 1])
    BY <1>1 DEF IsFile
  <2>2. j \in 1 .. Len(C) /\ j + 1 \in 1 .. Len(C)
    BY <1>1
  <2>3. CellOf(f, C[j]) <= CellOf(f, C[j + 1])
    BY <1>1, <1>4, <2>2
  <2> QED BY <2>1, <2>3 DEF Linked
<1> HIDE DEF C
<1>7. IsTrain(f, sc, f[o].pid, C)
  BY <1>1, <1>3, <1>6 DEF IsTrain
<1> QED BY <1>4, <1>5, <1>7 DEF C

(* a is the last piece scanned of p.                                        *)
Newest(f, sc, p, a) ==
  \A k \in sc : f[k].pid = p /\ PiecesOf(f, k) # << >> => k <= CellOf(f, a)

(* The first piece of the next packet scanned: it continues the last piece, *)
(* or a packet in between was not scanned.                                  *)
LEMMA NextLinked ==
  ASSUME NEW f, NEW sc, NEW o, IsNewer(f, sc, o), PiecesOf(f, o) # << >>,
         NEW i \in sc, f[i].pid = f[o].pid, PiecesOf(f, i) # << >>,
         NEW a, a = PiecesOf(f, i)[Len(PiecesOf(f, i))], Newest(f, sc, f[o].pid, a)
  PROVE  Linked(f, sc \cup {o}, f[o].pid, a, PiecesOf(f, o)[1])
<1> DEFINE p == f[o].pid
           C == PiecesOf(f, o)
           A == PiecesOf(f, i)
<1>1. /\ i \in DOMAIN f /\ o \in DOMAIN f /\ i < o /\ IsFile(f)
      /\ i \in 1 .. Len(f) /\ o \in 1 .. Len(f) /\ Len(f) \in Nat
      /\ C \in Seq(Pieces) /\ A \in Seq(Pieces)
  <2>1. i \in DOMAIN f /\ o \in DOMAIN f /\ i < o /\ IsFile(f)
    BY DEF IsNewer
  <2> QED BY <2>1, CellTyped
<1>2. 1 \in DOMAIN C /\ Len(A) \in DOMAIN A
  <2> HIDE DEF A, C
  <2>1. Len(A) \in Nat /\ Len(A) # 0 /\ Len(C) \in Nat /\ Len(C) # 0
        /\ DOMAIN A = 1 .. Len(A) /\ DOMAIN C = 1 .. Len(C)
    <3>1. A # << >> /\ C # << >>
      BY DEF A, C
    <3> QED BY <1>1, <3>1, LenProperties, EmptySeq
  <2> QED BY <2>1
<1>3. CellOf(f, a) = i /\ CellOf(f, C[1]) = o
  <2>1. IsPieceOf(f, i, Len(A), a) /\ IsPieceOf(f, o, 1, C[1])
    BY <1>1, <1>2 DEF IsPieceOf
  <2> QED BY <1>1, <2>1, CellOfPiece
<1>4. CASE \A k \in i + 1 .. o - 1 : f[k].pid = f[i].pid => PiecesOf(f, k) = << >>
  <2>1. o \in i + 1 .. Len(f)
    BY <1>1
  <2>2. Continues(A[Len(A)], C[1])
    BY <1>1, <1>4, <2>1 DEF IsFile
  <2> QED BY <1>1, <1>3, <2>2 DEF Linked
<1>5. CASE \E k \in i + 1 .. o - 1 : f[k].pid = f[i].pid /\ PiecesOf(f, k) # << >>
  <2>1. PICK k \in i + 1 .. o - 1 : f[k].pid = f[i].pid /\ PiecesOf(f, k) # << >>
    BY <1>5
  <2>2. k \notin sc
    <3> SUFFICES ASSUME k \in sc PROVE FALSE
      OBVIOUS
    <3>1. k <= CellOf(f, a)
      BY <2>1 DEF Newest
    <3> QED BY <1>1, <1>3, <3>1
  <2>3. k \in i .. o /\ k # o
    BY <1>1
  <2>4. Lost(f, sc \cup {o}, p, i, o)
    BY <2>1, <2>2, <2>3 DEF Lost
  <2> QED BY <1>1, <1>3, <2>4 DEF Linked
<1> QED BY <1>4, <1>5
-----------------------------------------------------------------------------
(* The reassembler and the assembler of one PID.                            *)

(* The last piece of the buffer is the last of its packet.                  *)
EndsPacket(f, sc, p, e) ==
  \E i \in sc : f[i].pid = p /\ PiecesOf(f, i) # << >> /\ e = PiecesOf(f, i)[Len(PiecesOf(f, i))]

(* The reassembler and the assembler of PID p, when the packets in sc were  *)
(* scanned.                                                                 *)
PidInv(f, sc, p, buf, has, a) ==
  /\ a \in Asms /\ IsHeld(f, a)
  /\ IsTrain(f, sc, p, buf)
  /\ \A j \in 2 .. Len(buf) : ~ Opens(buf[j])
  /\ has \in BOOLEAN /\ (has <=> buf # << >>)
  /\ ~ has => a.state = None
  /\ has => /\ Newest(f, sc, p, buf[Len(buf)])
            /\ EndsPacket(f, sc, p, buf[Len(buf)])
            /\ IsBefore(f, sc, p, a, buf[1])

(* Scanning the next cell keeps IsBefore.                                   *)
LEMMA BeforeStays ==
  ASSUME NEW f, NEW sc, NEW o, IsNewer(f, sc, o), NEW p, NEW a \in Asms, IsHeld(f, a),
         NEW e, IsIn(f, sc, p, e), IsBefore(f, sc, p, a, e)
  PROVE  IsBefore(f, sc \cup {o}, p, a, e)
<1> SUFFICES ASSUME a.state # None PROVE IsBefore(f, sc \cup {o}, p, a, e)
  BY DEF IsBefore
<1> DEFINE d == a.segments[1].id[1]
           c == First(f, << d, 1 >>)
<1>1. c \in Nat
  <2>1. c \in DOMAIN f
    BY HeldStarts
  <2> QED BY <2>1, NewerFacts
<1>2. CellOf(f, e) \in Nat /\ CellOf(f, e) < o
  BY InStays
<1>3. Lost(f, sc, p, c, CellOf(f, e)) => Lost(f, sc \cup {o}, p, c, CellOf(f, e))
  BY <1>1, <1>2, LostStays
<1> QED BY <1>3 DEF IsBefore

(* The first and the last piece of a buffer are pieces of scanned packets.  *)
LEMMA BufferEnds ==
  ASSUME NEW f, NEW sc, NEW p, NEW buf, IsTrain(f, sc, p, buf), buf # << >>
  PROVE  /\ Len(buf) \in Nat \ {0} /\ 1 \in 1 .. Len(buf) /\ Len(buf) \in 1 .. Len(buf)
         /\ IsIn(f, sc, p, buf[1]) /\ IsIn(f, sc, p, buf[Len(buf)])
<1>1. Len(buf) \in Nat /\ Len(buf) # 0
  BY LenProperties, EmptySeq DEF IsTrain
<1>2. 1 \in 1 .. Len(buf) /\ Len(buf) \in 1 .. Len(buf)
  BY <1>1
<1> QED BY <1>1, <1>2 DEF IsTrain

(* A packet of another PID or without payload.                              *)
LEMMA PidStays ==
  ASSUME NEW f, NEW sc, NEW o, IsNewer(f, sc, o), NEW p,
         NEW buf, NEW has, NEW a, PidInv(f, sc, p, buf, has, a),
         f[o].pid # p \/ PiecesOf(f, o) = << >>
  PROVE  PidInv(f, sc \cup {o}, p, buf, has, a)
<1>1. IsTrain(f, sc, p, buf) /\ IsTrain(f, sc \cup {o}, p, buf) /\ a \in Asms /\ IsHeld(f, a)
      /\ (has <=> buf # << >>)
  BY TrainStays DEF PidInv
<1>2. ASSUME has
      PROVE  /\ Newest(f, sc \cup {o}, p, buf[Len(buf)])
             /\ EndsPacket(f, sc \cup {o}, p, buf[Len(buf)])
             /\ IsBefore(f, sc \cup {o}, p, a, buf[1])
  <2>1. IsIn(f, sc, p, buf[1])
    BY <1>1, <1>2, BufferEnds
  <2>2. IsBefore(f, sc \cup {o}, p, a, buf[1])
    BY <1>1, <1>2, <2>1, BeforeStays DEF PidInv
  <2>3. Newest(f, sc \cup {o}, p, buf[Len(buf)])
    BY <1>2 DEF PidInv, Newest
  <2>4. EndsPacket(f, sc \cup {o}, p, buf[Len(buf)])
    BY <1>2 DEF PidInv, EndsPacket
  <2> QED BY <2>2, <2>3, <2>4
<1> QED BY <1>1, <1>2 DEF PidInv

(* A packet of p with payload, scanned last.                                *)
LEMMA PacketEnds ==
  ASSUME NEW f, NEW sc, NEW o, IsNewer(f, sc, o), PiecesOf(f, o) # << >>
  PROVE  LET p == f[o].pid
             C == PiecesOf(f, o)
             now == sc \cup {o}
         IN  /\ IsTrain(f, now, p, C)
             /\ \A j \in 2 .. Len(C) : ~ Opens(C[j])
             /\ ~ f[o].pusi => ~ Opens(C[1])
             /\ f[o].pusi => C[1].part = 1
             /\ C[1] \in Pieces /\ Len(C) \in Nat \ {0} /\ C \in Seq(Pieces)
             /\ CellOf(f, C[1]) = o /\ IsIn(f, now, p, C[1])
             /\ EndsPacket(f, now, p, C[Len(C)]) /\ Newest(f, now, p, C[Len(C)])
<1> DEFINE p == f[o].pid
           C == PiecesOf(f, o)
           now == sc \cup {o}
<1>1. IsFile(f) /\ now \in SUBSET (DOMAIN f) /\ o \in now /\ o \in Nat /\ sc \subseteq Nat
      /\ o \in DOMAIN f
  BY NewerFacts DEF IsNewer
<1>2. /\ IsTrain(f, now, p, C) /\ \A j \in 1 .. Len(C) : CellOf(f, C[j]) = o
      /\ \A j \in 2 .. Len(C) : ~ Opens(C[j])
  BY <1>1, CellTrain
<1>3. /\ Len(C) \in Nat \ {0} /\ 1 \in 1 .. Len(C) /\ Len(C) \in 1 .. Len(C)
      /\ IsIn(f, now, p, C[1]) /\ C \in Seq(Pieces)
  BY <1>2, BufferEnds DEF IsTrain
<1>4. C[1] \in Pieces /\ IsPieceOf(f, o, 1, C[1])
  <2>1. DOMAIN C = 1 .. Len(C) /\ C[1] \in Pieces
    BY <1>1, <1>3, CellTyped
  <2> QED BY <1>1, <1>3, <2>1 DEF IsPieceOf
<1>5. ~ f[o].pusi => ~ Opens(C[1])
  BY <1>1, <1>4, PieceFacts
<1>6. f[o].pusi => C[1].part = 1
  <2>1. o \in 1 .. Len(f)
    BY <1>1, CellTyped
  <2> QED BY <1>1, <2>1 DEF IsFile
<1>7. EndsPacket(f, now, p, C[Len(C)])
  BY <1>1 DEF EndsPacket
<1>8. Newest(f, now, p, C[Len(C)])
  <2>1. CellOf(f, C[Len(C)]) = o
    BY <1>2, <1>3
  <2>2. \A k \in now : k <= o
    BY <1>1 DEF IsNewer
  <2> QED BY <2>1, <2>2 DEF Newest
<1> QED BY <1>2, <1>3, <1>4, <1>5, <1>6, <1>7, <1>8

(* What was collected before it, and its first piece.                       *)
LEMMA PacketLinked ==
  ASSUME NEW f, NEW sc, NEW o, IsNewer(f, sc, o), PiecesOf(f, o) # << >>,
         NEW buf, NEW has, NEW a, PidInv(f, sc, f[o].pid, buf, has, a), has
  PROVE  Linked(f, sc \cup {o}, f[o].pid, buf[Len(buf)], PiecesOf(f, o)[1])
<1>1. /\ EndsPacket(f, sc, f[o].pid, buf[Len(buf)])
      /\ Newest(f, sc, f[o].pid, buf[Len(buf)])
  BY DEF PidInv
<1>2. PICK i \in sc : /\ f[i].pid = f[o].pid /\ PiecesOf(f, i) # << >>
                      /\ buf[Len(buf)] = PiecesOf(f, i)[Len(PiecesOf(f, i))]
  BY <1>1 DEF EndsPacket
<1> QED BY <1>1, <1>2, NextLinked

(* A packet in the middle of a PES packet.                                  *)
LEMMA PidAppends ==
  ASSUME NEW f, NEW sc, NEW o, IsNewer(f, sc, o), PiecesOf(f, o) # << >>, ~ f[o].pusi,
         NEW buf, NEW has, NEW a, PidInv(f, sc, f[o].pid, buf, has, a), has
  PROVE  PidInv(f, sc \cup {o}, f[o].pid, buf \o PiecesOf(f, o), has, a)
<1> DEFINE p == f[o].pid
           C == PiecesOf(f, o)
           now == sc \cup {o}
           D == buf \o C
<1>1. /\ IsTrain(f, now, p, C)
      /\ \A j \in 1 .. Len(C) : ~ Opens(C[j])
      /\ Len(C) \in Nat \ {0} /\ C \in Seq(Pieces)
      /\ EndsPacket(f, now, p, C[Len(C)]) /\ Newest(f, now, p, C[Len(C)])
  <2>1. \A j \in 1 .. Len(C) : j = 1 \/ j \in 2 .. Len(C)
    OBVIOUS
  <2> HIDE DEF C
  <2> QED BY <2>1, PacketEnds DEF C
<1>2. /\ a \in Asms /\ IsHeld(f, a) /\ buf # << >>
      /\ IsTrain(f, sc, p, buf) /\ IsTrain(f, now, p, buf) /\ buf \in Seq(Pieces)
      /\ has \in BOOLEAN
  <2>1. /\ a \in Asms /\ IsHeld(f, a) /\ buf # << >> /\ has \in BOOLEAN
        /\ IsTrain(f, sc, p, buf)
    BY DEF PidInv
  <2>2. IsTrain(f, now, p, buf)
    BY <2>1, TrainStays
  <2>3. buf \in Seq(Pieces)
    BY <2>1 DEF IsTrain
  <2> QED BY <2>1, <2>2, <2>3
<1>3. Len(buf) \in Nat \ {0} /\ IsIn(f, sc, p, buf[1])
  BY <1>2, BufferEnds
<1>4. Linked(f, now, p, buf[Len(buf)], C[1])
  BY PacketLinked
<1> HIDE DEF C
<1>5. IsTrain(f, now, p, D)
  BY <1>1, <1>2, <1>4, TrainConcat
<1>6. /\ D \in Seq(Pieces) /\ Len(D) = Len(buf) + Len(C)
      /\ \A i \in 1 .. Len(D) : D[i] = IF i <= Len(buf) THEN buf[i] ELSE C[i - Len(buf)]
  BY <1>1, <1>2, ConcatProperties
<1> HIDE DEF D
<1>7. D[1] = buf[1] /\ D[Len(D)] = C[Len(C)] /\ D # << >>
  <2>1. 1 \in 1 .. Len(D) /\ 1 <= Len(buf) /\ Len(D) \in 1 .. Len(D) /\ ~ (Len(D) <= Len(buf))
        /\ Len(D) - Len(buf) = Len(C) /\ Len(D) # 0
    BY <1>1, <1>3, <1>6
  <2> QED BY <1>6, <2>1
<1>8. \A j \in 2 .. Len(D) : ~ Opens(D[j])
  <2> TAKE j \in 2 .. Len(D)
  <2>1. CASE j <= Len(buf)
    <3>1. j \in 2 .. Len(buf) /\ j \in 1 .. Len(D)
      BY <1>3, <1>6, <2>1
    <3> QED BY <1>6, <2>1, <3>1 DEF PidInv
  <2>2. CASE ~ (j <= Len(buf))
    <3>1. j - Len(buf) \in 1 .. Len(C) /\ j \in 1 .. Len(D)
      BY <1>1, <1>3, <1>6, <2>2
    <3> QED BY <1>1, <1>6, <2>2, <3>1
  <2> QED BY <2>1, <2>2
<1>9. IsBefore(f, now, p, a, buf[1])
  BY <1>2, <1>3, BeforeStays DEF PidInv
<1>10. PidInv(f, now, p, D, has, a)
  BY <1>1, <1>2, <1>5, <1>7, <1>8, <1>9 DEF PidInv
<1> QED BY <1>10 DEF C, D

(* The buffer of p is parsed with the first piece of the next packet        *)
(* behind it.                                                               *)
WithNext(f, sc, p, buf, c, B) ==
  /\ IsParse(f, sc, p, B, buf)
  /\ Len(B) = Len(buf) + 1 /\ B[Len(B)] = c /\ B[1] = buf[1]
  /\ Len(buf) \in Nat \ {0}

LEMMA ParsedWithNext ==
  ASSUME NEW f, NEW sc, NEW o, IsNewer(f, sc, o), PiecesOf(f, o) # << >>,
         NEW p, p = f[o].pid,
         NEW buf, NEW has, NEW a, PidInv(f, sc, p, buf, has, a), has,
         NEW c, c = PiecesOf(f, o)[1]
  PROVE  WithNext(f, sc \cup {o}, p, buf, c, buf \o << c >>)
<1> DEFINE now == sc \cup {o}
           one == << c >>
           B == buf \o one
<1>1. IsIn(f, now, p, c) /\ c \in Pieces
  BY PacketEnds
<1>2. IsTrain(f, sc, p, buf) /\ IsTrain(f, now, p, buf) /\ buf \in Seq(Pieces) /\ buf # << >>
      /\ \A j \in 2 .. Len(buf) : ~ Opens(buf[j])
  <2>1. IsTrain(f, sc, p, buf) /\ buf # << >> /\ \A j \in 2 .. Len(buf) : ~ Opens(buf[j])
    BY DEF PidInv
  <2>2. IsTrain(f, now, p, buf)
    BY <2>1, TrainStays
  <2> QED BY <2>1, <2>2 DEF IsTrain
<1>3. Len(buf) \in Nat \ {0}
  BY <1>2, BufferEnds
<1>4. Linked(f, now, p, buf[Len(buf)], c)
  BY PacketLinked
<1>5. one \in Seq(Pieces) /\ Len(one) = 1 /\ one[1] = c
  BY <1>1
<1> HIDE DEF one
<1>6. IsTrain(f, now, p, one)
  <2>1. \A j \in 1 .. Len(one) : one[j] = c
    BY <1>5
  <2>2. 1 .. Len(one) - 1 = {}
    BY <1>5
  <2> QED BY <1>1, <1>2, <1>5, <2>1, <2>2 DEF IsTrain
<1>7. IsTrain(f, now, p, B)
  BY <1>2, <1>4, <1>5, <1>6, TrainConcat
<1>8. /\ Len(B) = Len(buf) + 1
      /\ \A i \in 1 .. Len(B) : B[i] = IF i <= Len(buf) THEN buf[i] ELSE one[i - Len(buf)]
  <2>1. /\ Len(B) = Len(buf) + Len(one)
        /\ \A i \in 1 .. Len(B) : B[i] = IF i <= Len(buf) THEN buf[i] ELSE one[i - Len(buf)]
    <3>1. buf \in Seq(Pieces) /\ one \in Seq(Pieces)
      BY <1>2, <1>5
    <3> QED BY <3>1, ConcatProperties
  <2> HIDE DEF B
  <2> QED BY <1>5, <2>1
<1> HIDE DEF B
<1>9. /\ B[Len(B)] = c /\ B[1] = buf[1] /\ \A j \in 1 .. Len(buf) : B[j] = buf[j]
      /\ Len(buf) <= Len(B)
  <2>1. /\ Len(B) \in 1 .. Len(B) /\ ~ (Len(B) <= Len(buf)) /\ Len(B) - Len(buf) = 1
        /\ 1 \in 1 .. Len(buf) /\ Len(buf) <= Len(B)
        /\ \A j \in 1 .. Len(buf) : j \in 1 .. Len(B) /\ j <= Len(buf)
    BY <1>3, <1>8
  <2>2. B[Len(B)] = one[1]
    BY <1>8, <2>1
  <2>3. \A j \in 1 .. Len(buf) : B[j] = buf[j]
    BY <1>8, <2>1
  <2> QED BY <1>5, <2>1, <2>2, <2>3
<1>10. IsParse(f, now, p, B, buf)
  BY <1>2, <1>7, <1>9 DEF IsParse
<1>11. WithNext(f, now, p, buf, c, B)
  BY <1>3, <1>8, <1>9, <1>10 DEF WithNext
<1> QED BY <1>11 DEF B, one

(* What the reassembler emits.                                              *)
Segments(has, buf) == IF has THEN ParsePes(buf) ELSE << >>

(* A packet that begins a PES packet: the one before it is emitted.         *)
LEMMA PidEmits ==
  ASSUME NEW f, NEW sc, NEW o, IsNewer(f, sc, o), PiecesOf(f, o) # << >>, f[o].pusi,
         NEW buf, NEW has, NEW a, PidInv(f, sc, f[o].pid, buf, has, a),
         NEW Y, \A x \in Y : /\ x < o
                             /\ has => x < CellOf(f, buf[1])
                             /\ a.state # None => x < First(f, a.segments[1].id)
  PROVE  LET fed == AsmFeed(a, Segments(has, buf))
         IN  /\ PidInv(f, sc \cup {o}, f[o].pid, PiecesOf(f, o), TRUE, fed.asm)
             /\ fed.sets \in Seq(Sets)
             /\ FedOk(f, sc \cup {o}, f[o].pid, Y, buf, fed.asm, fed.sets)
<1> DEFINE p == f[o].pid
           C == PiecesOf(f, o)
           now == sc \cup {o}
           fed == AsmFeed(a, Segments(has, buf))
<1>1. /\ IsTrain(f, now, p, C)
      /\ \A j \in 2 .. Len(C) : ~ Opens(C[j])
      /\ Len(C) \in Nat \ {0} /\ C # << >> /\ C[1] \in Pieces /\ C[1].part = 1
      /\ CellOf(f, C[1]) = o /\ IsIn(f, now, p, C[1])
      /\ EndsPacket(f, now, p, C[Len(C)]) /\ Newest(f, now, p, C[Len(C)])
  BY PacketEnds
<1>2. a \in Asms /\ IsHeld(f, a) /\ has \in BOOLEAN /\ IsTrain(f, sc, p, buf)
  BY DEF PidInv
<1> SUFFICES /\ fed.asm \in Asms /\ fed.sets \in Seq(Sets)
             /\ FedOk(f, now, p, Y, buf, fed.asm, fed.sets)
             /\ IsBefore(f, now, p, fed.asm, C[1])
  <2> HIDE DEF fed, C
  <2>1. IsHeld(f, fed.asm)
    BY DEF FedOk
  <2>2. PidInv(f, now, p, C, TRUE, fed.asm)
    BY <1>1, <2>1 DEF PidInv
  <2> QED BY <2>2 DEF fed, C
<1>3. CASE ~ has
  <2>1. fed = [asm |-> a, sets |-> << >>]
    <3>1. a \in Assemblers(Segs, Nat, States)
      BY <1>2 DEF Asms
    <3> QED BY <1>3, <3>1, SegsAreFed, FeedEmpty DEF Segments
  <2>2. a.state = None
    BY <1>3 DEF PidInv
  <2> HIDE DEF fed
  <2>3. FedOk(f, now, p, Y, buf, a, << >>) /\ IsBefore(f, now, p, a, C[1])
    BY <1>2, <2>2 DEF FedOk, IsBefore
  <2> QED BY <1>2, <2>1, <2>3
<1>4. CASE has
  <2> DEFINE c == C[1]
             B == buf \o << c >>
  <2>1. WithNext(f, now, p, buf, c, B)
    <3>1. c = PiecesOf(f, o)[1]
      OBVIOUS
    <3> HIDE DEF c, C
    <3> QED BY <1>4, <3>1, ParsedWithNext
  <2> HIDE DEF B, C
  <2>2. /\ IsParse(f, now, p, B, buf) /\ Len(buf) \in Nat \ {0}
        /\ Len(B) = Len(buf) + 1 /\ B[Len(B)] = C[1] /\ B[1] = buf[1]
    BY <2>1 DEF WithNext
  <2>3. IsIn(f, sc, p, buf[1])
    <3>1. buf # << >>
      BY <1>4 DEF PidInv
    <3> QED BY <1>2, <3>1, BufferEnds
  <2>4. IsFeedable(f, now, p, Y, B, a)
    <3>1. IsBefore(f, sc, p, a, buf[1])
      BY <1>4 DEF PidInv
    <3>2. IsBefore(f, now, p, a, buf[1])
      BY <1>2, <2>3, <3>1, BeforeStays
    <3> QED BY <1>2, <1>4, <2>2, <3>2 DEF IsFeedable
  <2>5. Segments(has, buf) = ParsePes(buf)
    BY <1>4 DEF Segments
  <2>6. /\ fed.asm \in Asms /\ fed.sets \in Seq(Sets)
        /\ FedOk(f, now, p, Y, buf, fed.asm, fed.sets)
        /\ Len(B) = Len(buf) + 1 /\ B[Len(B)].part = 1
             => IsBefore(f, now, p, fed.asm, B[Len(B)])
    BY <2>2, <2>4, <2>5, FeedBuffer
  <2> HIDE DEF fed, c
  <2>7. C[1].part = 1
    BY <1>1
  <2>8. IsBefore(f, now, p, fed.asm, C[1])
    BY <2>2, <2>6, <2>7
  <2> QED BY <2>6, <2>8
<1> QED BY <1>2, <1>3, <1>4

(* The buffer left at the end of the file.                                  *)
LEMMA PidFlushes ==
  ASSUME NEW f, NEW sc, NEW p,
         NEW buf, NEW has, NEW a, PidInv(f, sc, p, buf, has, a),
         NEW Y, \A x \in Y : /\ has => x < CellOf(f, buf[1])
                             /\ a.state # None => x < First(f, a.segments[1].id)
  PROVE  LET fed == AsmFeed(a, Segments(has, buf))
         IN  /\ fed.asm \in Asms /\ fed.sets \in Seq(Sets)
             /\ FedOk(f, sc, p, Y, buf, fed.asm, fed.sets)
<1> DEFINE fed == AsmFeed(a, Segments(has, buf))
<1>1. a \in Asms /\ IsHeld(f, a) /\ has \in BOOLEAN /\ IsTrain(f, sc, p, buf)
  BY DEF PidInv
<1>2. CASE ~ has
  <2>1. fed = [asm |-> a, sets |-> << >>]
    <3>1. a \in Assemblers(Segs, Nat, States)
      BY <1>1 DEF Asms
    <3> QED BY <1>2, <3>1, SegsAreFed, FeedEmpty DEF Segments
  <2>2. a.state = None
    BY <1>2 DEF PidInv
  <2> HIDE DEF fed
  <2>3. FedOk(f, sc, p, Y, buf, a, << >>)
    BY <1>1, <2>2 DEF FedOk
  <2>4. fed.asm = a /\ fed.sets = << >> /\ << >> \in Seq(Sets)
    BY <2>1
  <2>5. fed.asm \in Asms /\ fed.sets \in Seq(Sets) /\ FedOk(f, sc, p, Y, buf, fed.asm, fed.sets)
    BY <1>1, <2>3, <2>4
  <2> QED BY <2>5 DEF fed
<1>3. CASE has
  <2>1. buf \in Seq(Pieces) /\ Len(buf) \in Nat
    BY <1>1, LenProperties DEF IsTrain
  <2>2. IsParse(f, sc, p, buf, buf)
    <3>1. \A j \in 2 .. Len(buf) : ~ Opens(buf[j])
      BY DEF PidInv
    <3> QED BY <1>1, <2>1, <3>1 DEF IsParse
  <2>3. IsFeedable(f, sc, p, Y, buf, a)
    <3>1. IsBefore(f, sc, p, a, buf[1])
      BY <1>3 DEF PidInv
    <3> QED BY <1>1, <1>3, <3>1 DEF IsFeedable
  <2>4. Segments(has, buf) = ParsePes(buf)
    BY <1>3 DEF Segments
  <2>5. /\ fed.asm \in Asms /\ fed.sets \in Seq(Sets)
        /\ FedOk(f, sc, p, Y, buf, fed.asm, fed.sets)
    BY <2>2, <2>3, <2>4, FeedBuffer
  <2> QED BY <2>5
<1> QED BY <1>1, <1>2, <1>3
-----------------------------------------------------------------------------
(* The display sets handed out and queued.                                  *)

Outs == [pid : Pids, set : Sets]

(* Display sets of one PID, the one in front first.                         *)
InOrder(f) ==
  {yz \in Outs \X Outs : yz[1].pid = yz[2].pid => LastOf(f, yz[1].set) < FirstOf(f, yz[2].set)}

(* Where the display sets of p end.                                         *)
Ends(f, out, p) == {LastOf(f, out[k].set) : k \in {i \in 1 .. Len(out) : out[i].pid = p}}

OutOk(f, sc, out) ==
  /\ out \in Seq(Outs)
  /\ \A k \in 1 .. Len(out) : IsOut(f, sc, out[k].pid, out[k].set)
  /\ Chain(out, InOrder(f))

(* The display sets of p are behind what is still collected of it.          *)
Behind(f, out, p, buf, has, a) ==
  \A x \in Ends(f, out, p) : /\ has => x < CellOf(f, buf[1])
                             /\ a.state # None => x < First(f, a.segments[1].id)

(* Scanning the next cell keeps what is known of a display set.             *)
LEMMA OutStays ==
  ASSUME NEW f, NEW sc, NEW o, IsNewer(f, sc, o), NEW p, NEW y, IsOut(f, sc, p, y)
  PROVE  IsOut(f, sc \cup {o}, p, y) /\ LastOf(f, y) < o
<1>1. /\ FirstOf(f, y) \in DOMAIN f /\ LastOf(f, y) \in sc
      /\ \/ \E d \in DisplaySets : IsGenuine(f, d, y)
         \/ Lost(f, sc, p, FirstOf(f, y), LastOf(f, y))
  BY DEF IsOut
<1>2. FirstOf(f, y) \in Nat /\ LastOf(f, y) \in Nat /\ LastOf(f, y) < o
  BY <1>1, NewerFacts DEF IsNewer
<1>3. Lost(f, sc, p, FirstOf(f, y), LastOf(f, y))
        => Lost(f, sc \cup {o}, p, FirstOf(f, y), LastOf(f, y))
  BY <1>2, LostStays
<1> QED BY <1>1, <1>2, <1>3 DEF IsOut

(* The same for all display sets handed out or queued.                      *)
LEMMA AllOutStay ==
  ASSUME NEW f, NEW sc, NEW o, IsNewer(f, sc, o), NEW out, OutOk(f, sc, out)
  PROVE  /\ OutOk(f, sc \cup {o}, out)
         /\ \A p : \A x \in Ends(f, out, p) : x < o
<1>1. \A k \in 1 .. Len(out) : IsOut(f, sc, out[k].pid, out[k].set)
  BY DEF OutOk
<1>2. \A k \in 1 .. Len(out) : /\ IsOut(f, sc \cup {o}, out[k].pid, out[k].set)
                               /\ LastOf(f, out[k].set) < o
  BY <1>1, OutStays
<1>3. \A p : \A x \in Ends(f, out, p) : x < o
  BY <1>2 DEF Ends
<1> QED BY <1>2, <1>3 DEF OutOk

(* What PID p adds to the display sets when a PES packet is emitted: at     *)
(* most one display set, ending in the packet and behind the others of p.   *)
AddsOne(f, sc, out, p, buf, sets) ==
  /\ sets \in Seq(Sets)
  /\ \/ sets = << >>
     \/ \E y : /\ sets = << y >> /\ IsOut(f, sc, p, y)
               /\ \E j \in 1 .. Len(buf) : LastOf(f, y) = CellOf(f, buf[j])
               /\ \A x \in Ends(f, out, p) : x < FirstOf(f, y)

GrowsBy(f, sc, out, p, buf, sets, more) ==
  /\ Tagged(p, sets) \in Seq(Outs)
  /\ OutOk(f, sc, more)
  /\ \A q : q # p => Ends(f, more, q) = Ends(f, out, q)
  /\ sets = << >> => more = out
  /\ \A x \in Ends(f, more, p) :
       x \in Ends(f, out, p) \/ \E j \in 1 .. Len(buf) : x = CellOf(f, buf[j])

(* So much for the queue when a PID adds to it.                             *)
LEMMA OutGrows ==
  ASSUME NEW f, NEW sc, NEW out, OutOk(f, sc, out), NEW p \in Pids,
         NEW sets, NEW buf, AddsOne(f, sc, out, p, buf, sets)
  PROVE  GrowsBy(f, sc, out, p, buf, sets, out \o Tagged(p, sets))
<1> DEFINE new == Tagged(p, sets)
           more == out \o new
<1>0. /\ sets \in Seq(Sets)
      /\ \/ sets = << >>
         \/ \E y : /\ sets = << y >> /\ IsOut(f, sc, p, y)
                   /\ \E j \in 1 .. Len(buf) : LastOf(f, y) = CellOf(f, buf[j])
                   /\ \A x \in Ends(f, out, p) : x < FirstOf(f, y)
  BY DEF AddsOne
<1>1. out \in Seq(Outs) /\ Len(out) \in Nat
  BY LenProperties DEF OutOk
<1>2. CASE sets = << >>
  <2>1. new = << >>
    BY <1>2 DEF Tagged
  <2>2. more = out
    BY <1>1, <2>1, ConcatEmptySeq
  <2>3. new \in Seq(Outs)
    BY <2>1
  <2> HIDE DEF more, new
  <2>4. Ends(f, more, p) = Ends(f, out, p) /\ \A q : Ends(f, more, q) = Ends(f, out, q)
    BY <2>2
  <2> QED BY <1>2, <2>2, <2>3, <2>4 DEF more, new, GrowsBy
<1>3. CASE sets # << >>
  <2>1. PICK y : /\ sets = << y >> /\ IsOut(f, sc, p, y)
                 /\ \E j \in 1 .. Len(buf) : LastOf(f, y) = CellOf(f, buf[j])
                 /\ \A x \in Ends(f, out, p) : x < FirstOf(f, y)
    BY <1>0, <1>3
  <2> DEFINE z == [pid |-> p, set |-> y]
  <2>2. y \in Sets /\ z \in Outs /\ z.pid = p /\ z.set = y
    <3>1. y \in Sets
      BY <1>0, <2>1
    <3> QED BY <3>1 DEF Outs
  <2>3. new = << z >>
    BY <2>1 DEF Tagged
  <2> HIDE DEF z
  <2>4. new \in Seq(Outs) /\ Len(new) = 1 /\ new[1] = z
    BY <2>2, <2>3
  <2> HIDE DEF new
  <2>5. /\ more \in Seq(Outs) /\ Len(more) = Len(out) + 1
        /\ \A i \in 1 .. Len(more) : more[i] = IF i <= Len(out) THEN out[i] ELSE new[i - Len(out)]
    <3>1. out \in Seq(Outs) /\ new \in Seq(Outs)
      BY <1>1, <2>4
    <3>2. /\ more \in Seq(Outs) /\ Len(more) = Len(out) + Len(new)
          /\ \A i \in 1 .. Len(more) : more[i] = IF i <= Len(out) THEN out[i] ELSE new[i - Len(out)]
      BY <3>1, ConcatProperties
    <3> QED BY <2>4, <3>2
  <2>6. /\ \A i \in 1 .. Len(out) : i \in 1 .. Len(more) /\ more[i] = out[i]
        /\ Len(more) \in 1 .. Len(more) /\ more[Len(more)] = z
        /\ \A i \in 1 .. Len(more) : i \in 1 .. Len(out) \/ i = Len(more)
    <3> HIDE DEF more
    <3>1. Len(more) \in 1 .. Len(more) /\ ~ (Len(more) <= Len(out)) /\ Len(more) - Len(out) = 1
      BY <1>1, <2>5
    <3>2. \A i \in 1 .. Len(out) : i \in 1 .. Len(more) /\ i <= Len(out)
      BY <1>1, <2>5
    <3>3. \A i \in 1 .. Len(more) : i \in 1 .. Len(out) \/ i = Len(more)
      BY <1>1, <2>5
    <3> QED BY <2>4, <2>5, <3>1, <3>2, <3>3
  <2> HIDE DEF more
  <2>7. \A k \in 1 .. Len(more) : IsOut(f, sc, more[k].pid, more[k].set)
    BY <2>1, <2>2, <2>6 DEF OutOk
  <2>8. Chain(more, InOrder(f))
    <3>1. \A j, k \in 1 .. Len(out) : j < k => << out[j], out[k] >> \in InOrder(f)
      BY <1>1, LenProperties DEF OutOk, Chain
    <3>2. ASSUME NEW j \in 1 .. Len(more), NEW k \in 1 .. Len(more), j < k
          PROVE  << more[j], more[k] >> \in InOrder(f)
      <4>1. j \in 1 .. Len(out)
        BY <1>1, <2>5, <2>6, <3>2
      <4>2. CASE k \in 1 .. Len(out)
        BY <2>6, <3>1, <3>2, <4>1, <4>2
      <4>3. CASE k = Len(more)
        <5>1. more[j] = out[j] /\ more[k] = z /\ out[j] \in Outs
          BY <1>1, <2>6, <4>1, <4>3, ElementOfSeq
        <5>2. out[j].pid = z.pid => LastOf(f, out[j].set) < FirstOf(f, z.set)
          BY <2>1, <2>2, <4>1 DEF Ends
        <5> QED BY <2>2, <5>1, <5>2 DEF InOrder
      <4> QED BY <2>6, <4>2, <4>3
    <3>3. DOMAIN more = 1 .. Len(more)
      BY <2>5, LenProperties
    <3> QED BY <3>2, <3>3 DEF Chain
  <2>9. OutOk(f, sc, more)
    BY <2>5, <2>7, <2>8 DEF OutOk
  <2>10. ASSUME NEW q, q # p PROVE Ends(f, more, q) = Ends(f, out, q)
    <3>1. {i \in 1 .. Len(more) : more[i].pid = q} = {i \in 1 .. Len(out) : out[i].pid = q}
      BY <2>2, <2>6, <2>10
    <3>2. \A i \in {k \in 1 .. Len(out) : out[k].pid = q} : more[i] = out[i]
      BY <2>6
    <3> QED BY <3>1, <3>2 DEF Ends
  <2>11. ASSUME NEW x \in Ends(f, more, p)
         PROVE  x \in Ends(f, out, p) \/ \E j \in 1 .. Len(buf) : x = CellOf(f, buf[j])
    <3>1. PICK i \in 1 .. Len(more) : more[i].pid = p /\ x = LastOf(f, more[i].set)
      BY DEF Ends
    <3> QED BY <2>1, <2>2, <2>6, <3>1 DEF Ends
  <2> QED BY <1>3, <2>4, <2>9, <2>10, <2>11 DEF more, new, GrowsBy
<1> QED BY <1>2, <1>3
-----------------------------------------------------------------------------
(* The end of the file.                                                     *)

(* Sequences of display sets are joined in either order.                    *)
LEMMA OutsRegroup == \A s, t, u \in Seq(Outs) : (s \o t) \o u = s \o (t \o u)
BY ConcatAssociative

IsOrder(N, o) == o \in [1 .. N -> Pids] /\ \A i, j \in 1 .. N : i # j => o[i] # o[j]
AllAddOne(f, sc, out, bufs, feds) ==
  \A p \in Pids : AddsOne(f, sc, out, p, bufs[p], feds[p])

(* The PIDs are flushed one after the other, each of them once.             *)
LEMMA FlushedOut ==
  ASSUME NEW f, NEW sc, NEW out, OutOk(f, sc, out), NEW N \in Nat, NEW o, IsOrder(N, o),
         NEW bufs, NEW feds, AllAddOne(f, sc, out, bufs, feds),
         NEW new, new = Joined([k \in 1 .. N |-> Tagged(o[k], feds[o[k]])])
  PROVE  new \in Seq(Outs) /\ OutOk(f, sc, out \o new)
<1>0. /\ o \in [1 .. N -> Pids] /\ \A i, j \in 1 .. N : i # j => o[i] # o[j]
      /\ \A p \in Pids : AddsOne(f, sc, out, p, bufs[p], feds[p])
  BY DEF IsOrder, AllAddOne
<1> DEFINE ss == [k \in 1 .. N |-> Tagged(o[k], feds[o[k]])]
<1>1. \A k \in 1 .. N : o[k] \in Pids /\ AddsOne(f, sc, out, o[k], bufs[o[k]], feds[o[k]])
  BY <1>0
<1>2. \A k \in 1 .. N : Tagged(o[k], feds[o[k]]) \in Seq(Outs)
  <2> TAKE k \in 1 .. N
  <2>1. GrowsBy(f, sc, out, o[k], bufs[o[k]], feds[o[k]], out \o Tagged(o[k], feds[o[k]]))
    BY <1>1, OutGrows
  <2> QED BY <2>1 DEF GrowsBy
<1>3. ss \in Seq(Seq(Outs)) /\ Len(ss) = N
  <2>1. ss \in [1 .. N -> Seq(Outs)]
    BY <1>2
  <2> HIDE DEF ss
  <2> QED BY <2>1, SeqDef, LenProperties
<1>4. PICK g \in [0 .. N -> Seq(Outs)] : IsJoining(g, ss) /\ Joined(ss) = g[N]
  <2> HIDE DEF ss
  <2> QED BY <1>3, JoiningExists
<1>5. \A k \in 0 .. N : g[k] = IF k = 0 THEN << >> ELSE g[k - 1] \o Tagged(o[k], feds[o[k]])
  <2>1. \A k \in 0 .. N : g[k] = IF k = 0 THEN << >> ELSE g[k - 1] \o ss[k]
    <3> HIDE DEF ss
    <3> QED BY <1>3, <1>4 DEF IsJoining
  <2>2. \A k \in 0 .. N : k # 0 => ss[k] = Tagged(o[k], feds[o[k]])
    OBVIOUS
  <2> HIDE DEF ss
  <2> QED BY <2>1, <2>2
<1> HIDE DEF ss
<1> DEFINE all(k) == out \o g[k]
           Ok(k) == /\ OutOk(f, sc, all(k))
                    /\ \A p \in Pids : (\A i \in 1 .. k : o[i] # p) => Ends(f, all(k), p) = Ends(f, out, p)
           S == {k \in 0 .. N : Ok(k)}
<1>6. out \in Seq(Outs)
  BY DEF OutOk
<1>7. 0 \in S
  <2>1. 0 \in 0 .. N
    OBVIOUS
  <2>2. g[0] = << >>
    BY <1>5, <2>1
  <2>3. all(0) = out
    BY <1>6, <2>2, ConcatEmptySeq
  <2> QED BY <2>1, <2>3
<1>8. ASSUME NEW k \in 0 .. N - 1, k \in S PROVE k + 1 \in S
  <2>1. k + 1 \in 1 .. N /\ k + 1 \in 0 .. N /\ (k + 1) - 1 = k /\ k + 1 # 0 /\ k \in 0 .. N
    OBVIOUS
  <2> DEFINE p == o[k + 1]
             one == Tagged(p, feds[p])
  <2>2. p \in Pids /\ AddsOne(f, sc, out, p, bufs[p], feds[p])
    BY <1>1, <2>1
  <2>3. OutOk(f, sc, all(k))
    BY <1>8
  <2>4. Ends(f, all(k), p) = Ends(f, out, p)
    <3>1. \A i \in 1 .. k : i \in 1 .. N /\ i # k + 1
      BY <2>1
    <3>2. \A i \in 1 .. k : o[i] # p
      BY <1>0, <2>1, <3>1
    <3> QED BY <1>8, <2>2, <3>2
  <2>5. g[k + 1] = g[k] \o one
    BY <1>5, <2>1
  <2> DEFINE a == all(k)
  <2> HIDE DEF all, one, a, p
  <2>6. /\ one \in Seq(Outs) /\ OutOk(f, sc, a \o one)
        /\ \A q : q # p => Ends(f, a \o one, q) = Ends(f, a, q)
    <3>1. OutOk(f, sc, a) /\ Ends(f, a, p) = Ends(f, out, p)
      BY <2>3, <2>4 DEF a
    <3>2. p \in Pids /\ AddsOne(f, sc, a, p, bufs[p], feds[p])
      BY <2>2, <3>1 DEF AddsOne
    <3>3. GrowsBy(f, sc, a, p, bufs[p], feds[p], a \o Tagged(p, feds[p]))
      BY <3>1, <3>2, OutGrows
    <3> QED BY <3>3 DEF GrowsBy, one
  <2>7. all(k + 1) = a \o one
    <3>1. out \in Seq(Outs) /\ g[k] \in Seq(Outs) /\ one \in Seq(Outs)
      BY <1>6, <2>1, <2>6
    <3>2. out \o (g[k] \o one) = (out \o g[k]) \o one
      BY <3>1, OutsRegroup
    <3> QED BY <2>5, <3>2 DEF all, a
  <2>8. ASSUME NEW q \in Pids, \A i \in 1 .. k + 1 : o[i] # q
        PROVE  Ends(f, all(k + 1), q) = Ends(f, out, q)
    <3>1. q # p
      BY <2>1, <2>8 DEF p
    <3>2. \A i \in 1 .. k : o[i] # q
      BY <2>1, <2>8
    <3>3. Ends(f, all(k), q) = Ends(f, out, q)
      BY <1>8, <3>2
    <3> QED BY <2>6, <2>7, <3>1, <3>3 DEF a
  <2>9. Ok(k + 1)
    BY <2>6, <2>7, <2>8
  <2> HIDE DEF Ok
  <2> QED BY <2>1, <2>9
<1>9. 0 .. N \subseteq S
  <2> HIDE DEF S
  <2> QED BY <1>7, <1>8, Upto
<1>10. Ok(N) /\ g[N] \in Seq(Outs)
  <2> HIDE DEF Ok
  <2>1. N \in 0 .. N
    OBVIOUS
  <2> QED BY <1>9, <2>1
<1> QED BY <1>4, <1>10 DEF ss
-----------------------------------------------------------------------------
(* The packets of the block.                                                *)

(* A packet that the reassembler of its PID ignores: no PES packet has      *)
(* begun yet.                                                               *)
LEMMA PidIgnores ==
  ASSUME NEW f, NEW sc, NEW o, IsNewer(f, sc, o), NEW p,
         NEW buf, NEW has, NEW a, PidInv(f, sc, p, buf, has, a), ~ has
  PROVE  PidInv(f, sc \cup {o}, p, buf, has, a)
<1>1. IsTrain(f, sc \cup {o}, p, buf)
  BY TrainStays DEF PidInv
<1> QED BY <1>1 DEF PidInv

(* What ProcessPacket makes of the PID of cell o.                           *)
FedBy(f, o, buf, has, a) == AsmFeed(a, IF f[o].pusi THEN Segments(has, buf) ELSE << >>)
HasNow(f, o, has) == has \/ f[o].pusi
BufferNow(f, o, buf, has) ==
  LET kept == IF f[o].pusi THEN << >> ELSE buf
  IN  IF HasNow(f, o, has) THEN kept \o PiecesOf(f, o) ELSE kept

IsPacketStep(f, sc, out, o, buf, has, a) ==
  LET fed  == FedBy(f, o, buf, has, a)
      now  == sc \cup {o}
      p    == f[o].pid
      more == out \o Tagged(p, fed.sets)
  IN  /\ PidInv(f, now, p, BufferNow(f, o, buf, has), HasNow(f, o, has), fed.asm)
      /\ Behind(f, more, p, BufferNow(f, o, buf, has), HasNow(f, o, has), fed.asm)
      /\ GrowsBy(f, now, out, p, buf, fed.sets, more)

(* An assembler fed with nothing stays.                                     *)
LEMMA NoSegments ==
  ASSUME NEW a \in Asms
  PROVE  AsmFeed(a, << >>) = [asm |-> a, sets |-> << >>]
<1>1. a \in Assemblers(Segs, Nat, States)
  BY DEF Asms
<1> QED BY <1>1, SegsAreFed, FeedEmpty

(* A PID that adds nothing changes nothing.                                 *)
LEMMA NothingAdded ==
  ASSUME NEW f, NEW sc, NEW out, OutOk(f, sc, out), NEW p \in Pids, NEW buf
  PROVE  out \o Tagged(p, << >>) = out /\ GrowsBy(f, sc, out, p, buf, << >>, out)
<1>1. AddsOne(f, sc, out, p, buf, << >>)
  BY DEF AddsOne
<1>2. GrowsBy(f, sc, out, p, buf, << >>, out \o Tagged(p, << >>))
  BY <1>1, OutGrows
<1> QED BY <1>2 DEF GrowsBy

(* A packet with payload keeps what is known of its PID.                    *)
LEMMA PacketStep ==
  ASSUME NEW f, NEW sc, NEW o, IsNewer(f, sc, o), PiecesOf(f, o) # << >>, f[o].pid \in Pids,
         NEW out, OutOk(f, sc, out),
         NEW buf, NEW has, NEW a, PidInv(f, sc, f[o].pid, buf, has, a),
         Behind(f, out, f[o].pid, buf, has, a), f[o].pusi \in BOOLEAN
  PROVE  IsPacketStep(f, sc, out, o, buf, has, a)
<1> DEFINE p == f[o].pid
           now == sc \cup {o}
           C == PiecesOf(f, o)
           fed == FedBy(f, o, buf, has, a)
<1>1. OutOk(f, now, out) /\ \A x \in Ends(f, out, p) : x < o
  BY AllOutStay
<1>2. /\ a \in Asms /\ has \in BOOLEAN /\ (has <=> buf # << >>) /\ buf \in Seq(Pieces)
      /\ IsTrain(f, sc, p, buf)
  BY DEF PidInv, IsTrain
<1>3. CASE ~ f[o].pusi
  <2>1. fed.asm = a /\ fed.sets = << >>
    BY <1>2, <1>3, NoSegments DEF FedBy
  <2>2. out \o Tagged(p, fed.sets) = out /\ GrowsBy(f, now, out, p, buf, fed.sets, out)
    BY <1>1, <2>1, NothingAdded
  <2>3. HasNow(f, o, has) = has
    BY <1>2, <1>3 DEF HasNow
  <2>4. CASE has
    <3>1. BufferNow(f, o, buf, has) = buf \o C
      BY <1>3, <2>3, <2>4 DEF BufferNow
    <3>2. PidInv(f, now, p, buf \o C, has, a)
      BY <1>3, <2>4, PidAppends
    <3>3. (buf \o C)[1] = buf[1]
      <4>1. C \in Seq(Pieces) /\ buf \in Seq(Pieces)
        BY <1>2, PacketEnds
      <4>2. Len(buf) \in Nat \ {0} /\ Len(C) \in Nat
        BY <1>2, <2>4, <4>1, BufferEnds, LenProperties
      <4> HIDE DEF C
      <4>3. Len(buf \o C) = Len(buf) + Len(C)
            /\ \A i \in 1 .. Len(buf \o C) : (buf \o C)[i] = IF i <= Len(buf) THEN buf[i] ELSE C[i - Len(buf)]
        BY <4>1, ConcatProperties
      <4>4. 1 \in 1 .. Len(buf \o C) /\ 1 <= Len(buf)
        BY <4>2, <4>3
      <4> QED BY <4>3, <4>4
    <3>4. Behind(f, out, p, buf \o C, has, a)
      BY <3>3 DEF Behind
    <3> QED BY <2>1, <2>2, <2>3, <3>1, <3>2, <3>4 DEF IsPacketStep
  <2>5. CASE ~ has
    <3>1. BufferNow(f, o, buf, has) = buf
      BY <1>3, <2>3, <2>5 DEF BufferNow
    <3>2. PidInv(f, now, p, buf, has, a)
      BY <2>5, PidIgnores
    <3> QED BY <2>1, <2>2, <2>3, <3>1, <3>2 DEF IsPacketStep
  <2> QED BY <1>2, <2>4, <2>5
<1>4. CASE f[o].pusi
  <2> DEFINE Y == Ends(f, out, p)
  <2>1. fed = AsmFeed(a, Segments(has, buf)) /\ HasNow(f, o, has) = TRUE
    BY <1>2, <1>4 DEF FedBy, HasNow
  <2>2. BufferNow(f, o, buf, has) = C
    <3>1. C \in Seq(Pieces)
      BY PacketEnds
    <3>2. BufferNow(f, o, buf, has) = << >> \o C
      BY <1>4, <2>1 DEF BufferNow
    <3> HIDE DEF C
    <3> QED BY <3>1, <3>2, ConcatEmptySeq
  <2>3. \A x \in Y : /\ x < o
                     /\ has => x < CellOf(f, buf[1])
                     /\ a.state # None => x < First(f, a.segments[1].id)
    BY <1>1 DEF Behind
  <2> HIDE DEF Y
  <2>4. /\ PidInv(f, now, p, C, TRUE, fed.asm)
        /\ fed.sets \in Seq(Sets)
        /\ FedOk(f, now, p, Y, buf, fed.asm, fed.sets)
    BY <1>4, <2>1, <2>3, PidEmits
  <2> DEFINE sets == fed.sets
             more == out \o Tagged(p, sets)
  <2>5. AddsOne(f, now, out, p, buf, sets)
    BY <2>4 DEF FedOk, AddsOne, Y
  <2> HIDE DEF fed
  <2>6. GrowsBy(f, now, out, p, buf, sets, more)
    BY <1>1, <2>5, OutGrows
  <2>7. Behind(f, more, p, C, TRUE, fed.asm)
    <3>1. CellOf(f, C[1]) = o
      BY PacketEnds
    <3>2. ASSUME NEW x \in Ends(f, more, p)
          PROVE  x < o
      <4>1. CASE x \in Ends(f, out, p)
        BY <1>1, <4>1
      <4>2. CASE \E j \in 1 .. Len(buf) : x = CellOf(f, buf[j])
        <5>1. PICK j \in 1 .. Len(buf) : x = CellOf(f, buf[j])
          BY <4>2
        <5>2. IsIn(f, sc, p, buf[j])
          BY <1>2 DEF IsTrain
        <5> QED BY <5>1, <5>2, InStays
      <4> QED BY <2>6, <3>2, <4>1, <4>2 DEF GrowsBy
    <3>3. ASSUME fed.asm.state # None, NEW x \in Ends(f, more, p)
          PROVE  x < First(f, fed.asm.segments[1].id)
      <4>1. sets = << >> /\ \A y \in Y : y < First(f, fed.asm.segments[1].id)
        BY <2>4, <3>3 DEF FedOk
      <4>2. more = out
        BY <2>6, <4>1 DEF GrowsBy
      <4> QED BY <3>3, <4>1, <4>2 DEF Y
    <3> QED BY <3>1, <3>2, <3>3 DEF Behind
  <2> QED BY <2>1, <2>2, <2>4, <2>6, <2>7 DEF IsPacketStep, fed
<1> QED BY <1>3, <1>4

(* Every PID as it is when the packets in sc were scanned.                  *)
Demuxed(f, sc, out, B, H, A) ==
  \A p \in Pids : PidInv(f, sc, p, B[p], H[p], A[p]) /\ Behind(f, out, p, B[p], H[p], A[p])

GenuineInv ==
  /\ ScannerInv /\ IsFile(file)
  /\ DOMAIN buffer = Pids /\ DOMAIN hasData = Pids /\ DOMAIN asm = Pids
  /\ yielded \in Seq(Outs) /\ pending \in Seq(Outs)
  /\ OutOk(file, scanned, Out)
  /\ phase = "scan" /\ result = "more" => ~ flushed
  /\ ~ flushed => Demuxed(file, scanned, Out, buffer, hasData, asm)

(* A packet that no reassembler gets keeps what is known of all PIDs.       *)
LEMMA OtherPacket ==
  ASSUME NEW f, NEW sc, NEW o, IsNewer(f, sc, o), NEW out, OutOk(f, sc, out),
         NEW B, NEW H, NEW A, Demuxed(f, sc, out, B, H, A),
         f[o].pid \notin Pids \/ PiecesOf(f, o) = << >>
  PROVE  OutOk(f, sc \cup {o}, out) /\ Demuxed(f, sc \cup {o}, out, B, H, A)
<1>1. OutOk(f, sc \cup {o}, out)
  BY AllOutStay
<1>2. ASSUME NEW p \in Pids PROVE PidInv(f, sc \cup {o}, p, B[p], H[p], A[p])
  <2>1. PidInv(f, sc, p, B[p], H[p], A[p]) /\ (f[o].pid # p \/ PiecesOf(f, o) = << >>)
    BY DEF Demuxed
  <2> QED BY <2>1, PidStays
<1> QED BY <1>1, <1>2 DEF Demuxed

(* The reassembler of p and its assembler, a, after the packet of cell o.   *)
IsUpdate(f, o, p, a, B, H, A, BB, HH, AA) ==
  /\ DOMAIN BB = Pids /\ DOMAIN HH = Pids /\ DOMAIN AA = Pids
  /\ BB[p] = BufferNow(f, o, B[p], H[p]) /\ HH[p] = HasNow(f, o, H[p]) /\ AA[p] = a
  /\ \A q \in Pids : q # p => BB[q] = B[q] /\ HH[q] = H[q] /\ AA[q] = A[q]

OwnDone(f, sc, out, p, sets, B, H, A) ==
  LET more == out \o Tagged(p, sets)
  IN  Tagged(p, sets) \in Seq(Outs) /\ OutOk(f, sc, more) /\ Demuxed(f, sc, more, B, H, A)

(* A packet with payload keeps what is known of all PIDs.                   *)
LEMMA OwnPacket ==
  ASSUME NEW f, NEW sc, NEW o, IsNewer(f, sc, o), NEW out, OutOk(f, sc, out),
         NEW B, NEW H, NEW A, Demuxed(f, sc, out, B, H, A),
         f[o].pid \in Pids, PiecesOf(f, o) # << >>,
         NEW p, p = f[o].pid, NEW fed, fed = FedBy(f, o, B[p], H[p], A[p]),
         NEW BB, NEW HH, NEW AA, IsUpdate(f, o, p, fed.asm, B, H, A, BB, HH, AA)
  PROVE  OwnDone(f, sc \cup {o}, out, p, fed.sets, BB, HH, AA)
<1> DEFINE more == out \o Tagged(p, fed.sets)
<1>1. f[o].pusi \in BOOLEAN
  BY CellTyped DEF IsNewer, Cells
<1>2. PidInv(f, sc, p, B[p], H[p], A[p]) /\ Behind(f, out, p, B[p], H[p], A[p])
  BY DEF Demuxed
<1>3. IsPacketStep(f, sc, out, o, B[p], H[p], A[p])
  BY <1>1, <1>2, PacketStep
<1>4. /\ PidInv(f, sc \cup {o}, p, BufferNow(f, o, B[p], H[p]), HasNow(f, o, H[p]), fed.asm)
      /\ Behind(f, more, p, BufferNow(f, o, B[p], H[p]), HasNow(f, o, H[p]), fed.asm)
      /\ GrowsBy(f, sc \cup {o}, out, p, B[p], fed.sets, more)
  BY <1>3 DEF IsPacketStep
<1> HIDE DEF more
<1>5. /\ BB[p] = BufferNow(f, o, B[p], H[p]) /\ HH[p] = HasNow(f, o, H[p]) /\ AA[p] = fed.asm
      /\ \A q \in Pids : q # p => BB[q] = B[q] /\ HH[q] = H[q] /\ AA[q] = A[q]
  BY DEF IsUpdate
<1>6. ASSUME NEW q \in Pids
      PROVE  PidInv(f, sc \cup {o}, q, BB[q], HH[q], AA[q]) /\ Behind(f, more, q, BB[q], HH[q], AA[q])
  <2>1. CASE q = p
    BY <1>4, <1>5, <2>1
  <2>2. CASE q # p
    <3>1. BB[q] = B[q] /\ HH[q] = H[q] /\ AA[q] = A[q]
      BY <1>5, <2>2
    <3>2. PidInv(f, sc, q, B[q], H[q], A[q]) /\ Behind(f, out, q, B[q], H[q], A[q])
      BY DEF Demuxed
    <3>3. PidInv(f, sc \cup {o}, q, B[q], H[q], A[q])
      BY <2>2, <3>2, PidStays
    <3>4. Ends(f, more, q) = Ends(f, out, q)
      BY <1>4, <2>2 DEF GrowsBy
    <3>5. Behind(f, more, q, B[q], H[q], A[q])
      BY <3>2, <3>4 DEF Behind
    <3> QED BY <3>1, <3>3, <3>5
  <2> QED BY <2>1, <2>2
<1> QED BY <1>4, <1>6 DEF more, GrowsBy, Demuxed, OwnDone

(* The invariant holds at first, and every step keeps it.                   *)
LEMMA GenuineInit == Init => GenuineInv
<1> SUFFICES ASSUME Init PROVE GenuineInv
  OBVIOUS
<1>1. ScannerInv
  BY ScannerInit
<1>2. IsFile(file)
  BY FilesAssumption DEF Init
<1>3. /\ buffer = [p \in Pids |-> << >>] /\ hasData = [p \in Pids |-> FALSE]
      /\ asm = [p \in Pids |-> AsmNew] /\ yielded = << >> /\ pending = << >>
      /\ scanned = {} /\ phase = "top"
  BY DEF Init
<1>4. Out = << >>
  BY <1>3 DEF Out
<1>5. OutOk(file, scanned, Out)
  BY <1>4 DEF OutOk, Chain
<1>6. ASSUME NEW p \in Pids
      PROVE  PidInv(file, scanned, p, buffer[p], hasData[p], asm[p])
             /\ Behind(file, Out, p, buffer[p], hasData[p], asm[p])
  <2>1. buffer[p] = << >> /\ hasData[p] = FALSE /\ asm[p] = AsmNew
    BY <1>3
  <2>2. IsTrain(file, scanned, p, << >>)
    BY <1>2, <1>3 DEF IsTrain
  <2>3. AsmNew.state = None /\ IsHeld(file, AsmNew)
    BY DEF AsmNew, IsHeld
  <2>4. AsmNew \in Asms
    BY DEF AsmNew, Asms, Assemblers, States, Segs
  <2>5. PidInv(file, scanned, p, << >>, FALSE, AsmNew)
    BY <2>2, <2>3, <2>4 DEF PidInv
  <2>6. Behind(file, Out, p, << >>, FALSE, AsmNew)
    BY <1>4 DEF Behind, Ends
  <2> QED BY <2>1, <2>5, <2>6
<1>7. yielded \in Seq(Outs) /\ pending \in Seq(Outs)
  BY <1>3
<1>8. DOMAIN buffer = Pids /\ DOMAIN hasData = Pids /\ DOMAIN asm = Pids /\ phase # "scan"
  BY <1>3
<1>9. Demuxed(file, scanned, Out, buffer, hasData, asm)
  BY <1>6 DEF Demuxed
<1> QED BY <1>1, <1>2, <1>5, <1>7, <1>8, <1>9 DEF GenuineInv

(* Steps of the scanner that touch neither the PIDs nor the queue.          *)
LEMMA GenuineKept ==
  ASSUME GenuineInv, ScannerInv', UNCHANGED << input, scanned, demux, queue >>,
         ~ flushed' => ~ flushed,
         phase' = "scan" /\ result' = "more" => ~ flushed'
  PROVE  GenuineInv'
<1>1. /\ file' = file /\ scanned' = scanned /\ buffer' = buffer /\ hasData' = hasData
      /\ asm' = asm /\ yielded' = yielded /\ pending' = pending
  BY DEF input, demux, queue
<1>2. Out' = Out
  BY <1>1 DEF Out
<1> QED BY <1>1, <1>2 DEF GenuineInv

(* Handing out a display set moves it from the queue to the yielded ones.   *)
LEMMA PopKeepsOut ==
  ASSUME GenuineInv, PopPending
  PROVE  Out' = Out /\ yielded' \in Seq(Outs) /\ pending' \in Seq(Outs)
<1>1. /\ yielded \in Seq(Outs) /\ pending \in Seq(Outs) /\ pending # << >>
      /\ yielded' = Append(yielded, Head(pending)) /\ pending' = Tail(pending)
      /\ UNCHANGED << file, scanned, buffer, hasData, asm, flushed, result, phase >>
  BY DEF PopPending, GenuineInv, input, reader, demux
<1>2. /\ Head(pending) \in Outs /\ Tail(pending) \in Seq(Outs)
      /\ pending = << Head(pending) >> \o Tail(pending)
  BY <1>1, HeadTailProperties
<1> DEFINE h == Head(pending)
           t == Tail(pending)
<1>3. h \in Outs /\ t \in Seq(Outs) /\ pending = << h >> \o t
  BY <1>2
<1> HIDE DEF h, t
<1>4. Append(yielded, h) = yielded \o << h >> /\ << h >> \in Seq(Outs)
      /\ Append(yielded, h) \in Seq(Outs)
  BY <1>1, <1>3, AppendIsConcat
<1>5. \A s, u, v \in Seq(Outs) : (s \o u) \o v = s \o (u \o v)
  BY OutsRegroup
<1>6. Append(yielded, h) \o t = yielded \o pending
  BY <1>1, <1>3, <1>4, <1>5
<1>7. Out' = Out
  BY <1>1, <1>6 DEF Out, h, t
<1>8. yielded' \in Seq(Outs) /\ pending' \in Seq(Outs)
  BY <1>1, <1>3, <1>4 DEF h, t
<1> QED BY <1>7, <1>8

LEMMA GenuinePop ==
  ASSUME GenuineInv, ScannerInv', PopPending
  PROVE  GenuineInv'
<1>1. UNCHANGED << file, scanned, buffer, hasData, asm, flushed, result, phase >>
  BY DEF PopPending, input, reader, demux
<1>2. Out' = Out /\ yielded' \in Seq(Outs) /\ pending' \in Seq(Outs)
  BY PopKeepsOut
<1> QED BY <1>1, <1>2 DEF GenuineInv

(* What scanning a packet does: it changes nothing but scanned, or its PID  *)
(* and the queue.                                                           *)
IsOwnScan(p, fed) ==
  /\ p = file[off].pid /\ p \in Pids /\ PiecesOf(file, off) # << >>
  /\ fed = FedBy(file, off, buffer[p], hasData[p], asm[p])
  /\ IsUpdate(file, off, p, fed.asm, buffer, hasData, asm, buffer', hasData', asm')
  /\ pending' = pending \o Tagged(p, fed.sets)

LEMMA ScanEffect ==
  ASSUME GenuineInv, ScanPacket
  PROVE  /\ IsNewer(file, scanned, off) /\ scanned' = scanned \cup {off}
         /\ phase = "scan" /\ result = "more" /\ ~ flushed
         /\ UNCHANGED << file, phase, yielded, flushed, result >>
         /\ \/ /\ file[off].pid \notin Pids \/ PiecesOf(file, off) = << >>
               /\ UNCHANGED << demux, pending >>
            \/ \E p, fed : IsOwnScan(p, fed)
<1> DEFINE p == file[off].pid
           fed == FedBy(file, off, buffer[p], hasData[p], asm[p])
<1>1. /\ phase = "scan" /\ result = "more" /\ off \in 1 .. Len(file)
      /\ ProcessPacket(file[off]) /\ scanned' = scanned \cup {off}
      /\ UNCHANGED << file, phase, yielded, flushed, result >>
  BY DEF ScanPacket, Scanning, InSync, input
<1>2. /\ ~ flushed /\ IsFile(file) /\ OutOk(file, scanned, Out)
      /\ Demuxed(file, scanned, Out, buffer, hasData, asm)
      /\ DOMAIN buffer = Pids /\ DOMAIN hasData = Pids /\ DOMAIN asm = Pids
  BY <1>1 DEF GenuineInv
<1>3. IsNewer(file, scanned, off) /\ off \in DOMAIN file
  <2>1. off \in DOMAIN file /\ DOMAIN file = 1 .. Len(file) /\ Len(file) \in Nat
    <3>1. file \in Seq(Cells)
      BY <1>2 DEF IsFile
    <3> QED BY <1>1, <3>1, LenProperties
  <2>2. \A i \in scanned : i \in 1 .. off - 1
    BY <1>1 DEF GenuineInv, ScannerInv
  <2>3. \A i \in scanned : i \in 1 .. Len(file) /\ i < off
    BY <2>1, <2>2
  <2> QED BY <1>2, <2>1, <2>3 DEF IsNewer
<1>4. file[off].pieces = PiecesOf(file, off) /\ file[off].pusi \in BOOLEAN
  BY <1>2, <1>3, CellTyped DEF Cells
<1>5. CASE p \notin Pids \/ PiecesOf(file, off) = << >>
  <2>1. UNCHANGED << demux, pending >>
    BY <1>1, <1>4, <1>5 DEF ProcessPacket
  <2> QED BY <1>1, <1>2, <1>3, <1>5, <2>1
<1>6. CASE p \in Pids /\ PiecesOf(file, off) # << >>
  <2> DEFINE segs == IF file[off].pusi THEN Emitted(p) ELSE << >>
             kept == IF file[off].pusi THEN << >> ELSE buffer[p]
  <2>1. /\ hasData' = [hasData EXCEPT ![p] = @ \/ file[off].pusi]
        /\ buffer' = [buffer EXCEPT ![p] =
                         IF hasData'[p] THEN kept \o file[off].pieces ELSE kept]
        /\ asm' = [asm EXCEPT ![p] = AsmFeed(asm[p], segs).asm]
        /\ pending' = pending \o Tagged(p, AsmFeed(asm[p], segs).sets)
    BY <1>1, <1>4, <1>6 DEF ProcessPacket
  <2>2. fed = AsmFeed(asm[p], segs)
    BY DEF FedBy, Segments, Emitted
  <2>3. hasData'[p] = HasNow(file, off, hasData[p])
    BY <1>2, <1>6, <2>1 DEF HasNow
  <2>4. (IF hasData'[p] THEN kept \o file[off].pieces ELSE kept)
          = BufferNow(file, off, buffer[p], hasData[p])
    BY <1>4, <2>3 DEF BufferNow
  <2>5. fed = FedBy(file, off, buffer[p], hasData[p], asm[p])
    OBVIOUS
  <2> HIDE DEF fed, segs, kept
  <2>6. hasData' = [hasData EXCEPT ![p] = HasNow(file, off, hasData[p])]
    BY <2>1 DEF HasNow
  <2>7. buffer' = [buffer EXCEPT ![p] = BufferNow(file, off, buffer[p], hasData[p])]
    BY <2>1, <2>4
  <2>8. asm' = [asm EXCEPT ![p] = fed.asm]
    BY <2>1, <2>2
  <2>9. IsUpdate(file, off, p, fed.asm, buffer, hasData, asm, buffer', hasData', asm')
    <3>1. DOMAIN buffer' = Pids /\ DOMAIN hasData' = Pids /\ DOMAIN asm' = Pids
      BY <1>2, <2>6, <2>7, <2>8
    <3>2. /\ buffer'[p] = BufferNow(file, off, buffer[p], hasData[p])
          /\ \A q \in Pids : q # p => buffer'[q] = buffer[q]
      BY <1>2, <1>6, <2>7
    <3>3. /\ hasData'[p] = HasNow(file, off, hasData[p])
          /\ \A q \in Pids : q # p => hasData'[q] = hasData[q]
      BY <1>2, <1>6, <2>6
    <3>4. asm'[p] = fed.asm /\ \A q \in Pids : q # p => asm'[q] = asm[q]
      BY <1>2, <1>6, <2>8
    <3> QED BY <3>1, <3>2, <3>3, <3>4 DEF IsUpdate
  <2>10. pending' = pending \o Tagged(p, fed.sets)
    BY <2>1, <2>2
  <2>11. IsOwnScan(p, fed)
    BY <1>6, <2>5, <2>9, <2>10 DEF IsOwnScan
  <2> QED BY <1>1, <1>2, <1>3, <2>11
<1> QED BY <1>5, <1>6

(* The display sets it adds to the queue.                                   *)
LEMMA OwnScanAdds ==
  ASSUME GenuineInv, ScanPacket, NEW p, NEW fed, IsOwnScan(p, fed)
  PROVE  /\ OwnDone(file, scanned \cup {off}, Out, p, fed.sets, buffer', hasData', asm')
         /\ Out' = Out \o Tagged(p, fed.sets) /\ pending' \in Seq(Outs)
         /\ DOMAIN buffer' = Pids /\ DOMAIN hasData' = Pids /\ DOMAIN asm' = Pids
<1>1. /\ IsNewer(file, scanned, off) /\ ~ flushed /\ yielded' = yielded
  BY ScanEffect
<1>2. /\ OutOk(file, scanned, Out) /\ Demuxed(file, scanned, Out, buffer, hasData, asm)
      /\ yielded \in Seq(Outs) /\ pending \in Seq(Outs)
      /\ DOMAIN buffer = Pids /\ DOMAIN hasData = Pids /\ DOMAIN asm = Pids
  BY <1>1 DEF GenuineInv
<1> DEFINE BB == buffer'
           HH == hasData'
           AA == asm'
           new == Tagged(p, fed.sets)
<1>3. /\ p = file[off].pid /\ p \in Pids /\ PiecesOf(file, off) # << >>
      /\ fed = FedBy(file, off, buffer[p], hasData[p], asm[p])
      /\ IsUpdate(file, off, p, fed.asm, buffer, hasData, asm, BB, HH, AA)
      /\ pending' = pending \o new
  BY DEF IsOwnScan
<1> HIDE DEF BB, HH, AA
<1>4. OwnDone(file, scanned \cup {off}, Out, p, fed.sets, BB, HH, AA)
  BY <1>1, <1>2, <1>3, OwnPacket
<1>5. new \in Seq(Outs)
  BY <1>4 DEF OwnDone
<1>6. DOMAIN BB = Pids /\ DOMAIN HH = Pids /\ DOMAIN AA = Pids
  BY <1>3 DEF IsUpdate
<1> HIDE DEF new
<1>7. \A s, u, v \in Seq(Outs) : (s \o u) \o v = s \o (u \o v)
  BY OutsRegroup
<1>8. (yielded \o pending) \o new = yielded \o (pending \o new)
  BY <1>2, <1>5, <1>7
<1>9. pending \o new \in Seq(Outs)
  BY <1>2, <1>5, ConcatProperties
<1> QED BY <1>1, <1>3, <1>4, <1>6, <1>8, <1>9 DEF Out, BB, HH, AA, new

(* A packet is scanned.                                                     *)
LEMMA GenuineScan ==
  ASSUME GenuineInv, ScannerInv', ScanPacket
  PROVE  GenuineInv'
<1>1. /\ IsNewer(file, scanned, off) /\ scanned' = scanned \cup {off} /\ ~ flushed
      /\ UNCHANGED << file, phase, yielded, flushed, result >>
  BY ScanEffect
<1>2. /\ OutOk(file, scanned, Out) /\ Demuxed(file, scanned, Out, buffer, hasData, asm)
  BY <1>1 DEF GenuineInv
<1>3. CASE /\ file[off].pid \notin Pids \/ PiecesOf(file, off) = << >>
           /\ UNCHANGED << demux, pending >>
  <2>1. Out' = Out
    BY <1>1, <1>3 DEF Out
  <2>2. /\ OutOk(file, scanned \cup {off}, Out)
        /\ Demuxed(file, scanned \cup {off}, Out, buffer, hasData, asm)
    BY <1>1, <1>2, <1>3, OtherPacket
  <2> QED BY <1>1, <1>3, <2>1, <2>2 DEF GenuineInv, demux
<1>4. CASE \E p, fed : IsOwnScan(p, fed)
  <2>1. PICK p, fed : IsOwnScan(p, fed)
    BY <1>4
  <2>2. /\ OwnDone(file, scanned \cup {off}, Out, p, fed.sets, buffer', hasData', asm')
        /\ Out' = Out \o Tagged(p, fed.sets) /\ pending' \in Seq(Outs)
        /\ DOMAIN buffer' = Pids /\ DOMAIN hasData' = Pids /\ DOMAIN asm' = Pids
    BY <2>1, OwnScanAdds
  <2>3. /\ OutOk(file, scanned \cup {off}, Out')
        /\ Demuxed(file, scanned \cup {off}, Out', buffer', hasData', asm')
    BY <2>2 DEF OwnDone
  <2> QED BY <1>1, <2>2, <2>3 DEF GenuineInv
<1> QED BY <1>3, <1>4, ScanEffect

(* What flushing adds to the display sets handed out.                       *)
FlushOf(feds, o, N) == Joined([k \in 1 .. N |-> Tagged(o[k], feds[o[k]])])

IsFlush(feds, o, new) ==
  /\ \A p \in Pids : /\ feds[p] \in Seq(Sets)
                     /\ feds[p] = AsmFeed(asm[p], Segments(hasData[p], buffer[p])).sets
  /\ IsOrder(Cardinality(Pids), o)
  /\ new = FlushOf(feds, o, Cardinality(Pids))
  /\ new \in Seq(Outs) /\ OutOk(file, scanned, Out \o new)
  /\ pending' = new /\ Out' = Out \o new

LEMMA FlushAdds ==
  ASSUME GenuineInv, FlushAll
  PROVE  \E feds, o, new : IsFlush(feds, o, new)
<1> DEFINE N == Cardinality(Pids)
           fed == [p \in Pids |-> AsmFeed(asm[p], Emitted(p))]
           feds == [p \in Pids |-> fed[p].sets]
<1>1. /\ AtTop /\ pending = << >> /\ ~ flushed /\ flushed'
      /\ asm' = [p \in Pids |-> fed[p].asm]
      /\ buffer' = [p \in Pids |-> IF hasData[p] THEN << >> ELSE buffer[p]]
      /\ hasData' = [p \in Pids |-> FALSE]
      /\ UNCHANGED << file, scanned, phase, yielded, result >>
  BY DEF FlushAll, input, reader
<1>2. PICK o \in Orders :
        pending' = Joined([k \in 1 .. N |-> Tagged(o[k], fed[o[k]].sets)])
  BY DEF FlushAll
<1>3. /\ OutOk(file, scanned, Out) /\ Demuxed(file, scanned, Out, buffer, hasData, asm)
      /\ yielded \in Seq(Outs) /\ IsFile(file)
  BY <1>1 DEF GenuineInv
<1>4. N \in Nat
  BY PidsAssumption, FS_CardinalityType
<1>5. o \in [1 .. N -> Pids] /\ \A i, j \in 1 .. N : i # j => o[i] # o[j]
  BY <1>2 DEF Orders
<1>6. ASSUME NEW p \in Pids
      PROVE  AddsOne(file, scanned, Out, p, buffer[p], feds[p])
  <2>1. PidInv(file, scanned, p, buffer[p], hasData[p], asm[p])
        /\ Behind(file, Out, p, buffer[p], hasData[p], asm[p])
    BY <1>3 DEF Demuxed
  <2> DEFINE Y == Ends(file, Out, p)
  <2>2. \A x \in Y : /\ hasData[p] => x < CellOf(file, buffer[p][1])
                     /\ asm[p].state # None => x < First(file, asm[p].segments[1].id)
    BY <2>1 DEF Behind
  <2> DEFINE r == AsmFeed(asm[p], Segments(hasData[p], buffer[p]))
  <2> HIDE DEF Y
  <2>3. r.sets \in Seq(Sets) /\ FedOk(file, scanned, p, Y, buffer[p], r.asm, r.sets)
    BY <2>1, <2>2, PidFlushes
  <2>4. feds[p] = r.sets
    BY DEF Segments, Emitted
  <2> HIDE DEF r, feds
  <2> QED BY <2>3, <2>4 DEF AddsOne, FedOk, Y
<1> DEFINE new == Joined([k \in 1 .. N |-> Tagged(o[k], feds[o[k]])])
<1>7. pending' = new
  <2>1. \A k \in 1 .. N : Tagged(o[k], fed[o[k]].sets) = Tagged(o[k], feds[o[k]])
    <3>1. \A p \in Pids : feds[p] = fed[p].sets
      OBVIOUS
    <3> HIDE DEF fed, feds
    <3> QED BY <1>5, <3>1
  <2> HIDE DEF fed, feds
  <2>2. [k \in 1 .. N |-> Tagged(o[k], fed[o[k]].sets)] = [k \in 1 .. N |-> Tagged(o[k], feds[o[k]])]
    BY <2>1
  <2> QED BY <1>2, <2>2
<1>8. IsOrder(N, o)
  BY <1>5 DEF IsOrder
<1>9. \A p \in Pids : /\ feds[p] \in Seq(Sets)
                     /\ feds[p] = AsmFeed(asm[p], Segments(hasData[p], buffer[p])).sets
  <2> TAKE p \in Pids
  <2>1. feds[p] \in Seq(Sets)
    BY <1>6 DEF AddsOne
  <2>2. feds[p] = AsmFeed(asm[p], Segments(hasData[p], buffer[p])).sets
    BY DEF Segments, Emitted
  <2> QED BY <2>1, <2>2
<1>10. new \in Seq(Outs) /\ OutOk(file, scanned, Out \o new)
  <2>1. AllAddOne(file, scanned, Out, buffer, feds)
    BY <1>6 DEF AllAddOne
  <2>2. new = Joined([k \in 1 .. N |-> Tagged(o[k], feds[o[k]])])
    OBVIOUS
  <2> HIDE DEF fed, feds, N, new
  <2> QED BY <1>3, <1>4, <1>8, <2>1, <2>2, FlushedOut
<1>11. new = FlushOf(feds, o, Cardinality(Pids))
  BY DEF FlushOf
<1> HIDE DEF new, fed, feds
<1>12. Out = yielded
  BY <1>1, <1>3, ConcatEmptySeq DEF Out
<1>13. Out' = Out \o new
  BY <1>1, <1>7, <1>12 DEF Out
<1>14. IsFlush(feds, o, new)
  BY <1>7, <1>8, <1>9, <1>10, <1>11, <1>13 DEF IsFlush
<1> QED BY <1>14

(* The PES packets that are still collected are flushed.                    *)
LEMMA GenuineFlush ==
  ASSUME GenuineInv, ScannerInv', FlushAll
  PROVE  GenuineInv'
<1>1. /\ phase = "top" /\ flushed'
      /\ DOMAIN buffer' = Pids /\ DOMAIN hasData' = Pids /\ DOMAIN asm' = Pids
      /\ UNCHANGED << file, scanned, phase, yielded, result >>
  BY DEF FlushAll, AtTop, input, reader
<1>2. PICK feds, o, new : IsFlush(feds, o, new)
  BY FlushAdds
<1>3. pending' \in Seq(Outs) /\ OutOk(file, scanned, Out')
  BY <1>2 DEF IsFlush
<1> QED BY <1>1, <1>3 DEF GenuineInv

(* Every step keeps the invariant.                                          *)
LEMMA GenuineStep ==
  ASSUME GenuineInv, [Next]_vars
  PROVE  GenuineInv'
<1>0. ScannerInv'
  BY ScannerStep DEF GenuineInv
<1>1. CASE UNCHANGED vars
  BY <1>0, <1>1, GenuineKept DEF vars, reader, GenuineInv
<1>2. CASE Finish \/ BeginBlock \/ BeginBlockOutOfSync \/ SkipJunk \/ LoseSync \/ EndBlock
  <2>1. UNCHANGED << input, scanned, demux, queue, flushed >>
        /\ (phase' = "scan" /\ result' = "more" => ~ flushed')
    BY <1>2 DEF Finish, BeginBlock, BeginBlockOutOfSync, SkipJunk, LoseSync, EndBlock,
       AtTop, Scanning, reader, GenuineInv
  <2> QED BY <1>0, <2>1, GenuineKept
<1>3. CASE Fail
  <2>1. UNCHANGED << input, scanned, demux, queue >> /\ flushed' /\ result' # "more"
    BY <1>3 DEF Fail, reader
  <2> QED BY <1>0, <2>1, GenuineKept
<1>4. CASE PopPending
  BY <1>0, <1>4, GenuinePop
<1>5. CASE ScanPacket
  BY <1>0, <1>5, GenuineScan
<1>6. CASE FlushAll
  BY <1>0, <1>6, GenuineFlush
<1> QED BY <1>1, <1>2, <1>3, <1>4, <1>5, <1>6 DEF Next

(* The invariant in the words of the properties.                            *)
LEMMA OutIsRead ==
  ASSUME GenuineInv, NEW k \in DOMAIN Out
  PROVE  /\ k \in 1 .. Len(Out) /\ Out[k] \in Outs
         /\ IsOut(file, scanned, Out[k].pid, Out[k].set)
         /\ FirstCell(FirstId(Out[k])) = FirstOf(file, Out[k].set)
         /\ FirstCell(LastId(Out[k])) = LastOf(file, Out[k].set)
<1>1. OutOk(file, scanned, Out)
  BY DEF GenuineInv
<1>2. Out \in Seq(Outs)
  BY <1>1 DEF OutOk
<1>3. k \in 1 .. Len(Out) /\ Out[k] \in Outs
  <2> DEFINE s == Out
  <2>1. s \in Seq(Outs) /\ k \in DOMAIN s
    BY <1>2
  <2> HIDE DEF s
  <2>2. k \in 1 .. Len(s) /\ s[k] \in Outs
    BY <2>1, LenProperties, ElementOfSeq
  <2> QED BY <2>2 DEF s
<1>4. \A id : FirstCell(id) = First(file, id)
  BY DEF FirstCell, First, BeginsIn
<1> QED BY <1>1, <1>3, <1>4 DEF OutOk, FirstOf, LastOf, FirstId, LastId

(* The invariant implies both properties.                                   *)
LEMMA GenuineOut == GenuineInv => GenuineUnlessPacketLost
<1> SUFFICES ASSUME GenuineInv, NEW k \in DOMAIN Out
             PROVE  LET y == Out[k]
                    IN  \/ \E d \in DisplaySets : Complete(d) /\ IsSet(y, d)
                        \/ \E i \in FirstCell(FirstId(y)) .. FirstCell(LastId(y)) :
                             file[i].pid = y.pid /\ i \notin scanned
  BY DEF GenuineUnlessPacketLost
<1> DEFINE y == Out[k]
<1>1. /\ y \in Outs /\ IsOut(file, scanned, y.pid, y.set)
      /\ FirstCell(FirstId(y)) = FirstOf(file, y.set)
      /\ FirstCell(LastId(y)) = LastOf(file, y.set)
  BY OutIsRead
<1> HIDE DEF y
<1>2. CASE \E d \in DisplaySets : IsGenuine(file, d, y.set)
  <2>1. PICK d \in DisplaySets : IsGenuine(file, d, y.set)
    BY <1>2
  <2>2. y.set.segments \in Seq(Segs)
    BY <1>1 DEF Outs, Sets, AssembledSets
  <2>3. DOMAIN y.set.segments = 1 .. Len(y.set.segments)
    BY <2>2, LenProperties
  <2>4. FirstCell(<< d, 1 >>) = First(file, << d, 1 >>)
    BY DEF FirstCell, First, BeginsIn
  <2>5. PtsOf(d) = PtsIn(file, d)
    BY <2>4 DEF PtsOf, PtsIn
  <2>6. IsSet(y, d)
    BY <2>1, <2>3, <2>5 DEF IsGenuine, IsSet, IsPrefix
  <2>7. Complete(d)
    BY <2>1 DEF IsGenuine
  <2> QED BY <2>6, <2>7 DEF y
<1>3. CASE Lost(file, scanned, y.pid, FirstOf(file, y.set), LastOf(file, y.set))
  BY <1>1, <1>3 DEF Lost, y
<1> QED BY <1>1, <1>2, <1>3 DEF IsOut

(* The second one: display sets of one PID do not overlap.                  *)
LEMMA OrderedOut == GenuineInv => TrackOrder
<1> SUFFICES ASSUME GenuineInv, NEW j \in DOMAIN Out, NEW k \in DOMAIN Out,
                    j < k, Out[j].pid = Out[k].pid
             PROVE  FirstCell(LastId(Out[j])) < FirstCell(FirstId(Out[k]))
  BY DEF TrackOrder
<1>1. /\ FirstCell(LastId(Out[j])) = LastOf(file, Out[j].set)
      /\ FirstCell(FirstId(Out[k])) = FirstOf(file, Out[k].set)
  BY OutIsRead
<1>2. Chain(Out, InOrder(file))
  BY DEF GenuineInv, OutOk
<1>3. << Out[j], Out[k] >> \in InOrder(file)
  BY <1>2 DEF Chain
<1> DEFINE y == Out[j]
           z == Out[k]
<1>4. << y, z >> \in InOrder(file) /\ y.pid = z.pid
  BY <1>3
<1> HIDE DEF y, z
<1>5. LastOf(file, y.set) < FirstOf(file, z.set)
  BY <1>4 DEF InOrder
<1> QED BY <1>1, <1>5 DEF y, z

(* What the iterator hands out is a display set of the file, its segments   *)
(* and its pts, unless a packet of the PID between its first and its last   *)
(* segment was lost (pes.rs:31-52, stream.rs:160-222).                      *)
THEOREM DisplaySetsAreGenuine == Spec => []GenuineUnlessPacketLost
<1>1. GenuineInv /\ [Next]_vars => GenuineInv'
  BY GenuineStep
<1> QED BY <1>1, GenuineInit, GenuineOut, PTL DEF Spec

(* The display sets of a PID come in the order of the file, each once, and  *)
(* no segment of the one is in the other (stream.rs:160-222).               *)
THEOREM TracksKeepOrder == Spec => []TrackOrder
<1>1. GenuineInv /\ [Next]_vars => GenuineInv'
  BY GenuineStep
<1> QED BY <1>1, GenuineInit, OrderedOut, PTL DEF Spec
-----------------------------------------------------------------------------
(* Every display set whose packets are scanned is put together.             *)

(* a holds the first m segments of display set d, whole.                    *)
Gathered(f, a, d, m) ==
  /\ a.state # None /\ a.pts = SaturatingSub(PtsIn(f, d), PtsOffset)
  /\ Len(a.segments) = m /\ IsPrefix(a.segments, d)

(* The segment of d that begins at e is the next one a needs.               *)
Aimed(f, a, d, e) ==
  /\ e.part = 1 /\ e.id[1] = d
  /\ e.id[2] # 1 => Gathered(f, a, d, e.id[2] - 1)

(* The first n pieces continue one another.                                 *)
IsUnbroken(B, n) == n \in 1 .. Len(B) /\ \A j \in 1 .. n - 1 : Continues(B[j], B[j + 1])
IsEnd(e, d) == e.id = << d, Len(Written[d]) >> /\ e.part = 1
HasMade(f, d, sets) == \E k \in 1 .. Len(sets) : IsGenuine(f, d, sets[k])

(* A segment within a stretch that ends where a segment begins is whole,    *)
(* and the next one begins behind it.                                       *)
LEMMA UnbrokenRow ==
  ASSUME NEW B \in Seq(Pieces), NEW n, IsUnbroken(B, n), B[n].part = 1,
         NEW at \in 1 .. n, at # n, B[at].part = 1,
         B[at].id[2] < Len(Written[B[at].id[1]])
  PROVE  LET to == at + B[at].of
         IN  /\ to \in at + 1 .. n /\ IsRow(B, at, B[at].of)
             /\ B[to].id = << B[at].id[1], B[at].id[2] + 1 >> /\ B[to].part = 1
<1> DEFINE q == B[at].of
<1>1. Len(B) \in Nat /\ n \in 1 .. Len(B) /\ at \in 1 .. Len(B) /\ at < n
  BY LenProperties DEF IsUnbroken
<1>2. q \in Nat \ {0}
  <2>1. B[at] \in Pieces
    BY <1>1, ElementOfSeq
  <2> QED BY <2>1 DEF Pieces
<1>3. \A j \in 1 .. n - 1 : Continues(B[j], B[j + 1])
  BY DEF IsUnbroken
<1>4. at + q <= n
  <2> SUFFICES ASSUME at + q > n PROVE FALSE
    BY <1>1, <1>2
  <2> DEFINE count == n - at + 1
  <2>1. /\ count \in 1 .. q /\ at + count <= Len(B) + 1 /\ count # 1 /\ at + count - 1 = n
        /\ at + count - 2 = n - 1 /\ count \in 1 .. count
    <3> HIDE DEF q
    <3> QED BY <1>1, <1>2
  <2>2. \A j \in at .. at + count - 2 : Continues(B[j], B[j + 1])
    BY <1>1, <1>3, <2>1
  <2> HIDE DEF count
  <2>3. IsRow(B, at, count)
    BY <1>1, <2>1, <2>2, RowOf
  <2>4. B[at + count - 1].part = count
    BY <2>1, <2>3 DEF IsRow
  <2> QED BY <2>1, <2>4
<1>5. /\ q \in 1 .. q /\ at + q <= Len(B) + 1 /\ at + q \in at + 1 .. n
      /\ \A j \in at .. at + q - 1 : j \in 1 .. n - 1
      /\ at + q - 1 \in at .. at + q - 1 /\ (at + q - 1) + 1 = at + q
      /\ \A j \in at .. at + q - 2 : j \in at .. at + q - 1
  <2> HIDE DEF q
  <2> QED BY <1>1, <1>2, <1>4
<1>6. \A j \in at .. at + q - 2 : Continues(B[j], B[j + 1])
  <2> HIDE DEF q
  <2> QED BY <1>3, <1>5
<1>7. IsRow(B, at, q)
  BY <1>1, <1>5, <1>6, RowOf
<1>8. Continues(B[at + q - 1], B[at + q])
  <2> HIDE DEF q
  <2> QED BY <1>3, <1>5
<1>9. Awaits(B[at].id[1], B[at].id[2], B[at + q])
  BY <1>1, <1>2, <1>7, <1>8, BehindRow
<1> QED BY <1>5, <1>7, <1>9 DEF Awaits

(* The next segment of d is pushed.                                         *)
LEMMA PushAimed ==
  ASSUME NEW f, NEW sc, NEW p, NEW B, NEW buf, IsParse(f, sc, p, B, buf),
         NEW at, IsNext(buf, at), NEW a \in Asms, NEW d \in DisplaySets, Complete(d),
         Aimed(f, a, d, B[at]), SegmentAt(buf, at).whole
  PROVE  LET s == SegmentAt(buf, at)
             k == B[at].id[2]
         IN  /\ k < Len(Written[d]) => Gathered(f, AsmPush(a, s), d, k)
             /\ k = Len(Written[d]) => \E y : AsmOut(a, s) = << y >> /\ IsGenuine(f, d, y)
<1> DEFINE e == B[at]
           s == SegmentAt(buf, at)
           k == e.id[2]
           b == AsmPush(a, s)
           L == Len(Written[d])
<1>1. /\ e.id[1] = d /\ k \in 1 .. L /\ e.id = << d, k >>
      /\ e.type = Written[d][k].type /\ e.comp = Written[d][k].comp
      /\ k = 1 => PtsIn(f, d) = buf[1].pts
      /\ s \in Segs
  BY NextFacts DEF Aimed
<1>2. /\ s.id = << d, k >> /\ s.type = Written[d][k].type /\ s.comp = Written[d][k].comp
      /\ s.pts = SaturatingSub(buf[1].pts, PtsOffset) /\ s.whole
  BY <1>1, SegmentFields
<1>3. a.segments \in Seq(Segs) /\ Len(a.segments) \in Nat
  BY LenProperties DEF Asms, Assemblers
<1>4. /\ L \in Nat /\ L \in 2 .. L /\ Written[d][1].comp # None
      /\ Written[d][k].type = "PCS" <=> k = 1
      /\ Written[d][k].type = "END" <=> k = L
      /\ Written[d][k].type \in SegmentType
  <2> HIDE DEF e, s, b
  <2>1. L \in Nat /\ (Written[d][k].type = "PCS" <=> k = 1) /\ Written[d][k].type \in SegmentType
        /\ (Written[d][k].type = "END" => k = L)
    BY <1>1, TypeOfSegment
  <2>2. L \in 1 + 1 .. L /\ Written[d][1].comp # None /\ Written[d][L].type = "END"
    BY DEF Complete, IsRun
  <2> QED BY <2>1, <2>2
<1>5. k # 1 => Gathered(f, a, d, k - 1)
  BY DEF Aimed
<1> HIDE DEF e, s, k
<1>6. CASE k = 1
  <2>1. b = [segments |-> << s >>, pts |-> s.pts, state |-> s.comp]
    BY <1>2, <1>4, <1>6 DEF AsmPush
  <2> HIDE DEF b
  <2>2. b.segments = << s >> /\ Len(b.segments) = 1 /\ b.segments[1] = s
        /\ b.pts = s.pts /\ b.state = s.comp
    BY <2>1
  <2>3. \A j \in 1 .. Len(b.segments) : b.segments[j] = s /\ j = k
    BY <1>6, <2>2
  <2>4. IsPrefix(b.segments, d)
    BY <1>2, <2>3 DEF IsPrefix
  <2>5. Gathered(f, b, d, k)
    BY <1>1, <1>2, <1>4, <1>6, <2>2, <2>4 DEF Gathered
  <2> QED BY <1>4, <1>6, <2>5 DEF s, k, e, b
<1>7. CASE k # 1
  <2>1. /\ a.state # None /\ a.pts = SaturatingSub(PtsIn(f, d), PtsOffset)
        /\ Len(a.segments) = k - 1 /\ IsPrefix(a.segments, d)
    BY <1>5, <1>7 DEF Gathered
  <2> DEFINE t == Append(a.segments, s)
  <2>2. /\ t \in Seq(Segs) /\ Len(t) = k /\ t[k] = s
        /\ \A j \in 1 .. k - 1 : t[j] = a.segments[j]
    BY <1>1, <1>3, <2>1, AppendProperties
  <2> HIDE DEF t
  <2>3. IsPrefix(t, d)
    <3> SUFFICES ASSUME NEW j \in 1 .. k PROVE t[j].id = << d, j >> /\ t[j].whole
      BY <2>2 DEF IsPrefix
    <3>1. CASE j = k
      BY <1>2, <2>2, <3>1
    <3>2. CASE j # k
      <4>1. j \in 1 .. k - 1
        BY <1>1, <3>2
      <4> QED BY <2>1, <2>2, <4>1 DEF IsPrefix
    <3> QED BY <3>1, <3>2
  <2>4. CASE k = L
    <3> DEFINE y == [pts |-> a.pts, state |-> a.state, segments |-> t]
    <3>1. AsmOut(a, s) = << y >>
      BY <1>2, <1>4, <2>1, <2>4 DEF AsmOut, t
    <3>2. y.pts = a.pts /\ y.segments = t
      OBVIOUS
    <3> HIDE DEF y
    <3>3. IsGenuine(f, d, y)
      BY <2>1, <2>2, <2>3, <2>4, <3>2 DEF IsGenuine
    <3> QED BY <2>4, <3>1, <3>3 DEF s, k, e
  <2>5. CASE k # L
    <3>1. b = [a EXCEPT !.segments = t]
      BY <1>2, <1>4, <1>7, <2>5 DEF AsmPush, t
    <3>2. b.segments = t /\ b.pts = a.pts /\ b.state = a.state
      BY <3>1 DEF Asms, Assemblers
    <3> HIDE DEF b
    <3>3. Gathered(f, b, d, k)
      BY <2>1, <2>2, <2>3, <3>2 DEF Gathered
    <3> QED BY <2>5, <3>3 DEF s, k, e, b
  <2> QED BY <2>4, <2>5
<1> QED BY <1>6, <1>7

(* What a display set was found among stays when more are found.            *)
LEMMA MadeStays ==
  ASSUME NEW f, NEW d, NEW X, NEW s \in Seq(X), NEW t \in Seq(X), HasMade(f, d, s) \/ HasMade(f, d, t)
  PROVE  HasMade(f, d, s \o t)
<1> DEFINE u == s \o t
<1>1. /\ Len(s) \in Nat /\ Len(t) \in Nat /\ Len(u) = Len(s) + Len(t)
      /\ \A k \in 1 .. Len(u) : u[k] = IF k <= Len(s) THEN s[k] ELSE t[k - Len(s)]
  BY LenProperties, ConcatProperties
<1> HIDE DEF u
<1>2. CASE HasMade(f, d, s)
  <2>1. PICK k \in 1 .. Len(s) : IsGenuine(f, d, s[k])
    BY <1>2 DEF HasMade
  <2>2. k \in 1 .. Len(u) /\ u[k] = s[k]
    BY <1>1
  <2> QED BY <2>1, <2>2 DEF HasMade, u
<1>3. CASE HasMade(f, d, t)
  <2>1. PICK k \in 1 .. Len(t) : IsGenuine(f, d, t[k])
    BY <1>3 DEF HasMade
  <2>2. Len(s) + k \in 1 .. Len(u) /\ u[Len(s) + k] = t[k]
    <3>1. Len(s) + k \in 1 .. Len(u) /\ ~ (Len(s) + k <= Len(s)) /\ (Len(s) + k) - Len(s) = k
      BY <1>1
    <3> QED BY <1>1, <3>1
  <2> QED BY <2>1, <2>2 DEF HasMade, u
<1> QED BY <1>2, <1>3

(* The parse is at x, and what it found so far was fed to a: display set d  *)
(* is made, or the next segment of d is parsed next.                        *)
FedSoFar(f, d, B, n, a, x) ==
  LET fed == AsmFeed(a, x.segments)
  IN  HasMade(f, d, fed.sets) \/ (x.at <= n /\ Aimed(f, fed.asm, d, B[x.at]))

(* One segment more.                                                        *)
LEMMA FedFurther ==
  ASSUME NEW f, NEW sc, NEW p, NEW B, NEW buf, IsParse(f, sc, p, B, buf),
         NEW a \in Asms, NEW d \in DisplaySets, Complete(d),
         NEW n, IsUnbroken(B, n), B[n].part = 1, n <= Len(buf) + 1,
         n <= Len(buf) => IsEnd(B[n], d),
         NEW at \in 1 .. Len(buf), NEW segs \in Seq(Segs),
         FedSoFar(f, d, B, n, a, [at |-> at, segments |-> segs])
  PROVE  /\ HasMade(f, d, AsmFeed(a, segs).sets) \/ IsNext(buf, at)
         /\ IsNext(buf, at) =>
              FedSoFar(f, d, B, n, a, [at |-> at + buf[at].of,
                                       segments |-> Append(segs, SegmentAt(buf, at))])
<1> DEFINE e == B[at]
           s == SegmentAt(buf, at)
           to == at + e.of
           now == AsmFeed(a, segs).asm
           sets == AsmFeed(a, segs).sets
           b == AsmPush(now, s)
           new == AsmFeed(a, Append(segs, s))
           L == Len(Written[d])
<1>1. /\ B \in Seq(Pieces) /\ Len(B) \in Nat /\ Len(buf) \in Nat /\ Len(buf) <= Len(B)
      /\ at \in 1 .. Len(B) /\ buf[at] = e /\ at \in Nat /\ n \in 1 .. Len(B)
      /\ IsFile(f) /\ sc \in SUBSET (DOMAIN f) /\ IsIn(f, sc, p, e)
  <2>1. Len(buf) \in Nat /\ Len(B) \in Nat
    BY LenProperties DEF IsParse, IsTrain
  <2> QED BY <2>1 DEF IsParse, IsTrain, IsUnbroken
<1>2. now \in Asms /\ sets \in Seq(Sets)
  BY SegsAreFed, FeedTyped DEF Asms, Sets
<1>3. HasMade(f, d, sets) \/ (at <= n /\ Aimed(f, now, d, e))
  BY DEF FedSoFar
<1>4. IsNext(buf, at) => s \in Segs /\ buf[at] = e
  BY NextFacts
<1>5. ASSUME s \in Segs
      PROVE  /\ new.asm = b /\ new.sets = sets \o AsmOut(now, s)
             /\ AsmOut(now, s) \in Seq(Sets)
  <2>1. a \in Assemblers(Segs, Nat, States)
    BY DEF Asms
  <2> HIDE DEF s
  <2>2. IsFedOne(AsmFeed(a, segs), new, s)
    BY <1>5, <2>1, SegsAreFed, FeedAppend
  <2>3. now \in Assemblers(Segs, Nat, States)
    BY <1>2 DEF Asms
  <2>4. AsmOut(now, s) \in Seq(Sets)
    <3> HIDE DEF now
    <3> QED BY <1>5, <2>3, SegsAreFed, AsmPushTyped DEF Sets
  <2> QED BY <2>2, <2>4 DEF IsFedOne
<1>6. ASSUME HasMade(f, d, sets), IsNext(buf, at) PROVE HasMade(f, d, new.sets)
  <2>1. new.sets = sets \o AsmOut(now, s)
    BY <1>4, <1>5, <1>6
  <2> DEFINE more == AsmOut(now, s)
  <2>2. more \in Seq(Sets)
    BY <1>4, <1>5, <1>6
  <2> HIDE DEF more, sets
  <2> QED BY <1>2, <1>6, <2>1, <2>2, MadeStays DEF more
<1>7. ASSUME at <= n, Aimed(f, now, d, e)
      PROVE  /\ IsNext(buf, at)
             /\ HasMade(f, d, new.sets) \/ (to <= n /\ Aimed(f, new.asm, d, B[to]))
  <2>1. /\ e.id[1] = d /\ e.id[2] \in 1 .. L /\ e.part = 1 /\ e.of \in Nat \ {0}
        /\ (e.type = "END" => e.of = 1) /\ e.type = Written[d][e.id[2]].type
    <3> HIDE DEF e
    <3>1. PieceSays(f, sc, p, e)
      BY <1>1, PieceIn
    <3> QED BY <1>7, <3>1 DEF PieceSays, Aimed
  <2>2. L \in Nat /\ L > 1 /\ Written[d][L].type = "END"
    <3>1. 1 \in 1 .. L
      BY DEF Complete, IsRun
    <3>2. L \in Nat
      BY <3>1, TypeOfSegment
    <3>3. L \in 1 + 1 .. L /\ Written[d][L].type = "END"
      BY DEF Complete, IsRun
    <3> QED BY <3>2, <3>3
  <2>3. CASE e.id[2] = L
    <3>1. e.of = 1
      <4> HIDE DEF e
      <4> QED BY <2>1, <2>2, <2>3
    <3>2. IsNext(buf, at)
      BY <1>1, <2>1, <3>1 DEF IsNext
    <3>3. s.whole
      BY <3>1, <3>2, SegmentFields
    <3>4. PICK y : AsmOut(now, s) = << y >> /\ IsGenuine(f, d, y)
      BY <1>2, <1>7, <2>3, <3>2, <3>3, PushAimed
    <3>5. new.sets = sets \o << y >>
      BY <1>4, <1>5, <3>2, <3>4
    <3> DEFINE one == << y >>
    <3>6. sets \in Seq(Sets) /\ one \in Seq(Sets) /\ Len(one) = 1 /\ one[1] = y
      BY <1>2, <1>4, <1>5, <3>2, <3>4
    <3> HIDE DEF one, sets
    <3>7. HasMade(f, d, one)
      <4>1. 1 \in 1 .. Len(one)
        BY <3>6
      <4> QED BY <3>4, <3>6, <4>1 DEF HasMade
    <3>8. HasMade(f, d, sets \o one)
      BY <3>6, <3>7, MadeStays
    <3> QED BY <3>2, <3>5, <3>8 DEF one
  <2>4. CASE e.id[2] # L
    <3>1. e.id[2] < L
      <4> HIDE DEF e, L
      <4> QED BY <2>1, <2>2, <2>4
    <3>2. at # n
      <4> SUFFICES ASSUME at = n PROVE FALSE
        OBVIOUS
      <4>1. n <= Len(buf)
        BY <1>1
      <4>2. e.id = << d, L >>
        BY <4>1 DEF IsEnd
      <4> QED BY <2>4, <4>2
    <3>3. at \in 1 .. n
      BY <1>1, <1>7
    <3>4. /\ to \in at + 1 .. n /\ IsRow(B, at, e.of)
          /\ B[to].id = << d, e.id[2] + 1 >> /\ B[to].part = 1
      BY <1>1, <2>1, <3>1, <3>2, <3>3, UnbrokenRow
    <3>5. IsNext(buf, at)
      <4>1. to <= Len(buf) + 1
        <5> HIDE DEF to
        <5> QED BY <1>1, <3>4
      <4> QED BY <1>1, <2>1, <4>1 DEF IsNext
    <3>6. s.whole
      BY <3>4, <3>5, SegmentFields
    <3>7. Gathered(f, b, d, e.id[2])
      BY <1>2, <1>7, <3>1, <3>5, <3>6, PushAimed
    <3>8. new.asm = b
      BY <1>4, <1>5, <3>5
    <3>9. B[to].id[1] = d /\ B[to].id[2] - 1 = e.id[2]
      <4> HIDE DEF to, e
      <4> QED BY <2>1, <3>4
    <3>10. Aimed(f, new.asm, d, B[to])
      <4> HIDE DEF to, e, new, b
      <4> QED BY <3>4, <3>7, <3>8, <3>9 DEF Aimed
    <3>11. to <= n
      <4> HIDE DEF to
      <4> QED BY <1>1, <3>4
    <3> QED BY <3>5, <3>10, <3>11
  <2> QED BY <2>3, <2>4
<1> HIDE DEF new, sets, now
<1>8. HasMade(f, d, sets) \/ IsNext(buf, at)
  BY <1>3, <1>7
<1>9. IsNext(buf, at) => HasMade(f, d, new.sets) \/ (to <= n /\ Aimed(f, new.asm, d, B[to]))
  BY <1>3, <1>6, <1>7
<1>10. IsNext(buf, at) => FedSoFar(f, d, B, n, a, [at |-> at + buf[at].of, segments |-> Append(segs, s)])
  BY <1>1, <1>9 DEF FedSoFar, new
<1> QED BY <1>8, <1>10 DEF sets

(* The whole buffer: display set d is made, or the piece behind the buffer  *)
(* begins its next segment.                                                 *)
LEMMA UnbrokenFed ==
  ASSUME NEW f, NEW sc, NEW p, NEW B, NEW buf, IsParse(f, sc, p, B, buf),
         NEW a \in Asms, NEW d \in DisplaySets, Complete(d),
         NEW n, IsUnbroken(B, n), B[n].part = 1, n <= Len(buf) + 1,
         n <= Len(buf) => IsEnd(B[n], d), Aimed(f, a, d, B[1])
  PROVE  LET fed == AsmFeed(a, ParsePes(buf))
         IN  /\ fed.asm \in Asms /\ fed.sets \in Seq(Sets)
             /\ HasMade(f, d, fed.sets) \/ (n = Len(buf) + 1 /\ Aimed(f, fed.asm, d, B[n]))
<1> DEFINE N == Len(buf)
           e == [at |-> 1, segments |-> << >>]
           T == {x \in [at : 1 .. N + 1, segments : Seq(Segs)] : FedSoFar(f, d, B, n, a, x)}
<1>1. N \in Nat /\ Len(B) \in Nat /\ N <= Len(B) /\ buf \in Seq(Pieces) /\ n \in 1 .. Len(B)
      /\ \A k \in 1 .. N : buf[k] = B[k]
  BY LenProperties DEF IsParse, IsTrain, IsUnbroken
<1>2. a \in Assemblers(Segs, Nat, States)
  BY DEF Asms
<1>3. e \in T
  <2>1. AsmFeed(a, e.segments) = [asm |-> a, sets |-> << >>]
    BY <1>2, SegsAreFed, FeedEmpty
  <2>2. FedSoFar(f, d, B, n, a, e)
    BY <1>1, <2>1 DEF FedSoFar
  <2>3. e \in [at : 1 .. N + 1, segments : Seq(Segs)]
    <3>1. << >> \in Seq(Segs) /\ 1 \in 1 .. N + 1
      BY <1>1
    <3> QED BY <3>1
  <2> QED BY <2>2, <2>3
<1>4. ASSUME NEW x \in T
      PROVE  /\ x.at \in Nat
             /\ ParseStep(buf, x) \in T
             /\ ParseStep(buf, x) = x \/ ParseStep(buf, x).at > x.at
             /\ IsNext(buf, x.at) => ParseStep(buf, x) # x
  <2> DEFINE at == x.at
             s == SegmentAt(buf, at)
             z == [at |-> at + buf[at].of, segments |-> Append(x.segments, s)]
  <2>1. /\ at \in 1 .. N + 1 /\ x.segments \in Seq(Segs)
        /\ FedSoFar(f, d, B, n, a, x)
        /\ x = [at |-> at, segments |-> x.segments]
    OBVIOUS
  <2>2. at \in Nat
    BY <1>1, <2>1
  <2>3. CASE ~ IsNext(buf, at)
    <3>0. at \in 1 .. N => buf[at].of \in Nat
      <4> SUFFICES ASSUME at \in 1 .. N PROVE buf[at].of \in Nat
        OBVIOUS
      <4>1. buf[at] \in Pieces
        BY <1>1, ElementOfSeq
      <4> QED BY <4>1 DEF Pieces
    <3>1. ParseStep(buf, x) = x
      <4> HIDE DEF z, s
      <4> QED BY <1>1, <2>1, <2>2, <2>3, <3>0 DEF ParseStep, IsNext
    <3> QED BY <2>2, <2>3, <3>1
  <2>4. CASE IsNext(buf, at)
    <3>1. /\ buf[at].of \in Nat \ {0} /\ s \in Segs
      BY <2>4, NextFacts
    <3>2. /\ at \in 1 .. N /\ buf[at].part = 1 /\ at + buf[at].of <= N + 1
      BY <2>4 DEF IsNext
    <3>3. ParseStep(buf, x) = z
      BY <1>1, <2>2, <3>1, <3>2 DEF ParseStep
    <3>4. FedSoFar(f, d, B, n, a, z)
      <4>1. FedSoFar(f, d, B, n, a, [at |-> at, segments |-> x.segments])
        BY <2>1
      <4> HIDE DEF at
      <4> QED BY <2>1, <2>4, <3>2, <4>1, FedFurther DEF at
    <3>5. z.at > at /\ z.at \in 1 .. N + 1
      BY <1>1, <2>2, <3>1, <3>2
    <3>6. Append(x.segments, s) \in Seq(Segs)
      BY <2>1, <3>1, AppendProperties
    <3>7. z \in T
      BY <3>4, <3>5, <3>6
    <3>8. z # x
      <4> HIDE DEF z
      <4> QED BY <2>2, <3>5
    <3> QED BY <2>2, <3>3, <3>5, <3>7, <3>8
  <2> QED BY <2>3, <2>4
<1>5. PICK x \in T : ParseStep(buf, x) = x /\ ParsePes(buf) = x.segments
  <2> HIDE DEF T, N
  <2>1. Len(buf) \in Nat
    BY <1>1 DEF N
  <2> QED BY <1>3, <1>4, <2>1, ParsedInduction
<1>6. /\ x.at \in 1 .. N + 1 /\ x.segments \in Seq(Segs)
      /\ FedSoFar(f, d, B, n, a, x) /\ ~ IsNext(buf, x.at)
      /\ x = [at |-> x.at, segments |-> x.segments]
  BY <1>4, <1>5
<1> DEFINE fed == AsmFeed(a, x.segments)
<1>7. fed.asm \in Asms /\ fed.sets \in Seq(Sets)
  BY <1>2, <1>6, SegsAreFed, FeedTyped DEF Asms, Sets
<1>8. HasMade(f, d, fed.sets) \/ (x.at <= n /\ Aimed(f, fed.asm, d, B[x.at]))
  BY <1>6 DEF FedSoFar
<1>9. x.at \in 1 .. N => HasMade(f, d, fed.sets)
  <2> SUFFICES ASSUME x.at \in 1 .. N PROVE HasMade(f, d, fed.sets)
    OBVIOUS
  <2> DEFINE at == x.at
             segs == x.segments
  <2>1. at \in 1 .. Len(buf) /\ segs \in Seq(Segs) /\ ~ IsNext(buf, at)
        /\ FedSoFar(f, d, B, n, a, [at |-> at, segments |-> segs])
    BY <1>6
  <2> HIDE DEF at, segs, N, fed, T
  <2>2. HasMade(f, d, AsmFeed(a, segs).sets)
    BY <2>1, FedFurther
  <2> QED BY <2>2 DEF fed, segs
<1> HIDE DEF fed, T
<1>10. HasMade(f, d, fed.sets) \/ (n = N + 1 /\ Aimed(f, fed.asm, d, B[n]))
  <2> SUFFICES ASSUME x.at = N + 1, x.at <= n, Aimed(f, fed.asm, d, B[x.at])
               PROVE  n = N + 1 /\ Aimed(f, fed.asm, d, B[n])
    <3>1. x.at \in 1 .. N \/ x.at = N + 1
      BY <1>1, <1>6
    <3> QED BY <1>8, <1>9, <3>1
  <2>1. n = N + 1
    BY <1>1
  <2> QED BY <2>1
<1> QED BY <1>5, <1>7, <1>10 DEF fed

-----------------------------------------------------------------------------
(* Where a display set is in the file.                                      *)
StartsIn(f, i, id) ==
  i \in DOMAIN f /\ \E m \in DOMAIN PiecesOf(f, i) : PiecesOf(f, i)[m].id = id /\ PiecesOf(f, i)[m].part = 1
HasOf(f, i, d) == i \in DOMAIN f /\ \E m \in DOMAIN PiecesOf(f, i) : PiecesOf(f, i)[m].id[1] = d
OpensAt(f, d) == First(f, << d, 1 >>)
EndsAt(f, d) == First(f, << d, Len(Written[d]) >>)

(* d is complete, and in the file on p.                                     *)
IsWritten(f, p, d) ==
  /\ d \in DisplaySets /\ Complete(d)
  /\ StartsIn(f, OpensAt(f, d), << d, 1 >>) /\ f[OpensAt(f, d)].pid = p
  /\ StartsIn(f, EndsAt(f, d), << d, Len(Written[d]) >>) /\ f[EndsAt(f, d)].pid = p
  /\ OpensAt(f, d) <= EndsAt(f, d)

(* A packet of d was passed over.                                           *)
Missed(f, sc, d) == \E i : HasOf(f, i, d) /\ i \notin sc /\ \E j \in sc : i < j

(* What continues a piece of d other than its END is of d.                  *)
LEMMA OwnNext ==
  ASSUME NEW f, IsFile(f), NEW d \in DisplaySets, Complete(d),
         NEW i, NEW n, NEW a, IsPieceOf(f, i, n, a), a.id[1] = d, ~ IsEnd(a, d),
         NEW b, Continues(a, b)
  PROVE  b.id[1] = d
<1> DEFINE L == Len(Written[d])
           k == a.id[2]
<1>1. /\ k \in 1 .. L /\ a.id = << d, k >> /\ a.part \in Nat \ {0} /\ a.of \in Nat
      /\ a.part <= a.of /\ a.type = Written[d][k].type /\ (a.type = "END" => a.of = 1)
  BY PieceFacts
<1>2. L \in Nat /\ Written[d][L].type = "END"
  <2>1. L \in Nat
    BY <1>1, TypeOfSegment
  <2> QED BY <2>1 DEF Complete, IsRun
<1>3. CASE a.part < a.of
  BY <1>1, <1>3 DEF Continues
<1>4. CASE ~ (a.part < a.of) /\ k < L
  BY <1>1, <1>4 DEF Continues
<1>5. CASE ~ (a.part < a.of) /\ ~ (k < L)
  <2>1. k = L
    <3> HIDE DEF k, L
    <3> QED BY <1>1, <1>2, <1>5
  <2>2. a.part = 1
    <3>1. a.of = 1
      BY <1>1, <1>2, <2>1
    <3> QED BY <1>1, <3>1
  <2>3. a.id = << d, L >>
    BY <1>1, <2>1
  <2> QED BY <2>2, <2>3 DEF IsEnd
<1> QED BY <1>3, <1>4, <1>5

(* A packet whose first piece is of d holds pieces of d up to the END.      *)
LEMMA CellGoesOn ==
  ASSUME NEW f, IsFile(f), NEW o \in DOMAIN f, PiecesOf(f, o) # << >>,
         NEW d \in DisplaySets, Complete(d), PiecesOf(f, o)[1].id[1] = d
  PROVE  LET C == PiecesOf(f, o)
         IN  /\ \A n \in 1 .. Len(C) : IsUnbroken(C, n)
             /\ (\E n \in 1 .. Len(C) : IsEnd(C[n], d)) \/ C[Len(C)].id[1] = d
<1> DEFINE C == PiecesOf(f, o)
           N == Len(C)
           S == {k \in 0 .. N - 1 : (\E n \in 1 .. N : IsEnd(C[n], d)) \/ C[k + 1].id[1] = d}
<1>1. C \in Seq(Pieces) /\ N \in Nat /\ N # 0 /\ DOMAIN C = 1 .. N /\ o \in 1 .. Len(f)
  <2>1. C \in Seq(Pieces) /\ N \in Nat /\ DOMAIN C = 1 .. N /\ o \in 1 .. Len(f) /\ C # << >>
    BY CellTyped
  <2> HIDE DEF C
  <2>2. N # 0
    BY <2>1, EmptySeq
  <2> QED BY <2>1, <2>2
<1>2. \A j \in 1 .. N - 1 : Continues(C[j], C[j + 1])
  BY <1>1 DEF IsFile
<1>3. \A j \in 1 .. N : IsPieceOf(f, o, j, C[j])
  BY <1>1 DEF IsPieceOf
<1> HIDE DEF C
<1>4. \A n \in 1 .. N : IsUnbroken(C, n)
  BY <1>1, <1>2 DEF IsUnbroken
<1>5. 0 \in S
  <2>1. 0 \in 0 .. N - 1 /\ 0 + 1 = 1
    BY <1>1
  <2> QED BY <2>1 DEF C
<1>6. ASSUME NEW k \in 0 .. (N - 1) - 1, k \in S PROVE k + 1 \in S
  <2>1. /\ k + 1 \in 1 .. N - 1 /\ k + 1 \in 1 .. N /\ k + 1 \in 0 .. N - 1
    BY <1>1
  <2>2. CASE C[k + 1].id[1] = d /\ ~ IsEnd(C[k + 1], d)
    <3>1. Continues(C[k + 1], C[(k + 1) + 1])
      BY <1>2, <2>1
    <3>2. C[(k + 1) + 1].id[1] = d
      BY <1>3, <2>1, <2>2, <3>1, OwnNext
    <3> QED BY <2>1, <3>2
  <2> QED BY <1>6, <2>1, <2>2
<1>7. N - 1 \in S
  <2>1. N - 1 \in Nat /\ N - 1 \in 0 .. N - 1
    BY <1>1
  <2> HIDE DEF S, N
  <2>2. 0 .. N - 1 \subseteq S
    BY <1>5, <1>6, <2>1, Upto
  <2> QED BY <2>1, <2>2
<1>8. (N - 1) + 1 = N
  BY <1>1
<1> QED BY <1>4, <1>7, <1>8 DEF C

(* B holds the pieces of d from its beginning up to the END, or up to its   *)
(* last piece with the END still to come.                                   *)
Reaches(f, d, B) ==
  \/ \E n \in 1 .. Len(B) : IsUnbroken(B, n) /\ IsEnd(B[n], d)
  \/ /\ IsUnbroken(B, Len(B)) /\ B[Len(B)].id[1] = d
     /\ CellOf(f, B[Len(B)]) < EndsAt(f, d)

LEMMA CellReaches ==
  ASSUME NEW f, IsFile(f), NEW o \in DOMAIN f, PiecesOf(f, o) # << >>,
         NEW p, NEW d, IsWritten(f, p, d), PiecesOf(f, o)[1].id[1] = d, o <= EndsAt(f, d)
  PROVE  Reaches(f, d, PiecesOf(f, o))
<1> DEFINE C == PiecesOf(f, o)
<1>1. /\ \A n \in 1 .. Len(C) : IsUnbroken(C, n)
      /\ (\E n \in 1 .. Len(C) : IsEnd(C[n], d)) \/ C[Len(C)].id[1] = d
  BY CellGoesOn DEF IsWritten
<1>2. Len(C) \in 1 .. Len(C) /\ DOMAIN C = 1 .. Len(C) /\ CellOf(f, C[Len(C)]) = o /\ o \in Nat
  <2>1. C \in Seq(Pieces) /\ Len(C) \in Nat /\ C # << >> /\ DOMAIN C = 1 .. Len(C) /\ o \in Nat
    BY CellTyped
  <2>2. Len(C) \in 1 .. Len(C)
    <3> HIDE DEF C
    <3> QED BY <2>1, EmptySeq
  <2>3. IsPieceOf(f, o, Len(C), C[Len(C)])
    BY <2>1, <2>2 DEF IsPieceOf
  <2> QED BY <2>1, <2>2, <2>3, CellOfPiece
<1>3. CASE o = EndsAt(f, d)
  <2>1. StartsIn(f, o, << d, Len(Written[d]) >>)
    BY <1>3 DEF IsWritten
  <2>2. \E n \in 1 .. Len(C) : IsEnd(C[n], d)
    BY <1>2, <2>1 DEF StartsIn, IsEnd
  <2> HIDE DEF C
  <2> QED BY <1>1, <2>2 DEF Reaches, C
<1>4. CASE o # EndsAt(f, d)
  <2>1. EndsAt(f, d) \in Nat
    <3>1. EndsAt(f, d) \in DOMAIN f
      BY DEF IsWritten, StartsIn
    <3> QED BY <3>1, CellTyped
  <2>2. o < EndsAt(f, d)
    BY <1>2, <1>4, <2>1
  <2> HIDE DEF C
  <2> QED BY <1>1, <1>2, <2>2 DEF Reaches, C
<1> QED BY <1>3, <1>4

(* A stretch goes on in what is put behind it.                              *)
LEMMA UnbrokenStays ==
  ASSUME NEW B \in Seq(Pieces), NEW C \in Seq(Pieces), NEW n, IsUnbroken(B, n)
  PROVE  IsUnbroken(B \o C, n) /\ (B \o C)[n] = B[n]
<1> DEFINE D == B \o C
<1>1. /\ Len(B) \in Nat /\ Len(C) \in Nat /\ Len(D) = Len(B) + Len(C)
      /\ \A i \in 1 .. Len(D) : D[i] = IF i <= Len(B) THEN B[i] ELSE C[i - Len(B)]
  BY LenProperties, ConcatProperties
<1> HIDE DEF D
<1>2. \A i \in 1 .. Len(B) : D[i] = B[i]
  BY <1>1
<1>3. n \in 1 .. Len(B) /\ n \in 1 .. Len(D)
      /\ \A j \in 1 .. n - 1 : j \in 1 .. Len(B) /\ j + 1 \in 1 .. Len(B)
  BY <1>1 DEF IsUnbroken
<1> QED BY <1>2, <1>3 DEF IsUnbroken, D

LEMMA UnbrokenConcat ==
  ASSUME NEW B \in Seq(Pieces), NEW C \in Seq(Pieces), IsUnbroken(B, Len(B)),
         NEW n, IsUnbroken(C, n), Continues(B[Len(B)], C[1])
  PROVE  IsUnbroken(B \o C, Len(B) + n) /\ (B \o C)[Len(B) + n] = C[n]
<1> DEFINE D == B \o C
<1>1. /\ Len(B) \in Nat /\ Len(C) \in Nat /\ Len(D) = Len(B) + Len(C)
      /\ \A i \in 1 .. Len(D) : D[i] = IF i <= Len(B) THEN B[i] ELSE C[i - Len(B)]
  BY LenProperties, ConcatProperties
<1>2. Len(B) \in 1 .. Len(B) /\ n \in 1 .. Len(C)
  BY DEF IsUnbroken
<1> HIDE DEF D
<1>3. /\ \A i \in 1 .. Len(B) : D[i] = B[i]
      /\ \A i \in 1 .. Len(C) : D[Len(B) + i] = C[i]
  <2>1. \A i \in 1 .. Len(B) : i \in 1 .. Len(D) /\ i <= Len(B)
    BY <1>1
  <2>2. \A i \in 1 .. Len(C) : /\ Len(B) + i \in 1 .. Len(D) /\ ~ (Len(B) + i <= Len(B))
                               /\ (Len(B) + i) - Len(B) = i
    BY <1>1
  <2> QED BY <1>1, <2>1, <2>2
<1>4. ASSUME NEW j \in 1 .. (Len(B) + n) - 1 PROVE Continues(D[j], D[j + 1])
  <2>1. CASE j < Len(B)
    <3>1. j \in 1 .. Len(B) - 1 /\ j \in 1 .. Len(B) /\ j + 1 \in 1 .. Len(B)
      BY <1>1, <2>1
    <3> QED BY <1>3, <3>1 DEF IsUnbroken
  <2>2. CASE j = Len(B)
    <3>1. 1 \in 1 .. Len(C)
      BY <1>1, <1>2
    <3> QED BY <1>2, <1>3, <2>2, <3>1
  <2>3. CASE j > Len(B)
    <3> DEFINE i == j - Len(B)
    <3>1. /\ i \in 1 .. n - 1 /\ i \in 1 .. Len(C) /\ i + 1 \in 1 .. Len(C)
          /\ Len(B) + i = j /\ Len(B) + (i + 1) = j + 1
      BY <1>1, <1>2, <2>3
    <3> HIDE DEF i
    <3>2. D[j] = C[i] /\ D[j + 1] = C[i + 1]
      BY <1>3, <3>1
    <3> QED BY <3>1, <3>2 DEF IsUnbroken
  <2> QED BY <1>1, <2>1, <2>2, <2>3
<1>5. Len(B) + n \in 1 .. Len(D)
  BY <1>1, <1>2
<1> QED BY <1>2, <1>3, <1>4, <1>5 DEF IsUnbroken, D

LEMMA ReachesOn ==
  ASSUME NEW f, NEW d, NEW B \in Seq(Pieces), NEW C \in Seq(Pieces), C # << >>,
         IsUnbroken(B, Len(B)), Continues(B[Len(B)], C[1]), Reaches(f, d, C)
  PROVE  Reaches(f, d, B \o C)
<1> DEFINE D == B \o C
<1>1. Len(D) = Len(B) + Len(C) /\ Len(B) \in Nat /\ Len(C) \in Nat
  BY LenProperties, ConcatProperties
<1>2. ASSUME NEW n, IsUnbroken(C, n)
      PROVE  /\ IsUnbroken(D, Len(B) + n) /\ D[Len(B) + n] = C[n]
             /\ Len(B) + n \in 1 .. Len(D)
  <2>1. IsUnbroken(D, Len(B) + n) /\ D[Len(B) + n] = C[n]
    BY <1>2, UnbrokenConcat
  <2> QED BY <2>1 DEF IsUnbroken
<1> HIDE DEF D
<1>3. CASE \E n \in 1 .. Len(C) : IsUnbroken(C, n) /\ IsEnd(C[n], d)
  <2>1. PICK n \in 1 .. Len(C) : IsUnbroken(C, n) /\ IsEnd(C[n], d)
    BY <1>3
  <2>2. /\ IsUnbroken(D, Len(B) + n) /\ D[Len(B) + n] = C[n]
        /\ Len(B) + n \in 1 .. Len(D)
    BY <1>2, <2>1
  <2> QED BY <2>1, <2>2 DEF Reaches, D
<1>4. CASE /\ IsUnbroken(C, Len(C)) /\ C[Len(C)].id[1] = d
           /\ CellOf(f, C[Len(C)]) < EndsAt(f, d)
  <2>1. IsUnbroken(D, Len(D)) /\ D[Len(D)] = C[Len(C)]
    BY <1>1, <1>2, <1>4
  <2> QED BY <1>4, <2>1 DEF Reaches, D
<1> QED BY <1>3, <1>4 DEF Reaches

(* The next packet of p goes on with d, or a packet of d was passed over.   *)
LEMMA NextGoesOn ==
  ASSUME NEW f, NEW sc, NEW o, IsNewer(f, sc, o), PiecesOf(f, o) # << >>,
         NEW p, p = f[o].pid, NEW d, IsWritten(f, p, d),
         NEW i \in sc, f[i].pid = p, PiecesOf(f, i) # << >>,
         NEW e, e = PiecesOf(f, i)[Len(PiecesOf(f, i))], Newest(f, sc, p, e),
         e.id[1] = d, i < EndsAt(f, d)
  PROVE  \/ Missed(f, sc \cup {o}, d)
         \/ /\ Continues(e, PiecesOf(f, o)[1]) /\ PiecesOf(f, o)[1].id[1] = d
            /\ o <= EndsAt(f, d)
<1> DEFINE S == {k \in i + 1 .. o : f[k].pid = p /\ PiecesOf(f, k) # << >>}
           z == EndsAt(f, d)
<1>1. /\ IsFile(f) /\ i \in DOMAIN f /\ o \in DOMAIN f /\ i < o
      /\ Len(f) \in Nat /\ DOMAIN f = 1 .. Len(f) /\ d \in DisplaySets /\ Complete(d)
  <2>1. IsFile(f) /\ i \in DOMAIN f /\ o \in DOMAIN f /\ i < o
    BY DEF IsNewer
  <2> QED BY <2>1, CellTyped DEF IsWritten
<1>2. z \in DOMAIN f /\ f[z].pid = p /\ PiecesOf(f, z) # << >>
  <2>1. StartsIn(f, z, << d, Len(Written[d]) >>) /\ f[z].pid = p
    BY DEF IsWritten
  <2>2. PICK m \in DOMAIN PiecesOf(f, z) : TRUE
    BY <2>1 DEF StartsIn
  <2>3. PiecesOf(f, z) # << >>
    BY <2>2
  <2> QED BY <2>1, <2>3 DEF StartsIn
<1>3. \A k \in DOMAIN f : PiecesOf(f, k) # << >> =>
        /\ IsPieceOf(f, k, 1, PiecesOf(f, k)[1])
        /\ IsPieceOf(f, k, Len(PiecesOf(f, k)), PiecesOf(f, k)[Len(PiecesOf(f, k))])
  <2> SUFFICES ASSUME NEW k \in DOMAIN f, PiecesOf(f, k) # << >>
               PROVE  1 \in DOMAIN PiecesOf(f, k) /\ Len(PiecesOf(f, k)) \in DOMAIN PiecesOf(f, k)
    BY DEF IsPieceOf
  <2> DEFINE C == PiecesOf(f, k)
  <2>1. C \in Seq(Pieces) /\ Len(C) \in Nat /\ C # << >> /\ DOMAIN C = 1 .. Len(C)
    BY <1>1, CellTyped
  <2> HIDE DEF C
  <2>2. Len(C) # 0
    BY <2>1, EmptySeq
  <2>3. 1 \in DOMAIN C /\ Len(C) \in DOMAIN C
    BY <2>1, <2>2
  <2> QED BY <2>3 DEF C
<1>4. PICK k \in S : \A j \in S : k <= j
  <2>1. S \in SUBSET Nat
    BY <1>1
  <2>2. o \in S
    BY <1>1
  <2> QED BY <2>1, <2>2, LeastNumber
<1>5. /\ k \in i + 1 .. Len(f) /\ k \in DOMAIN f /\ k <= o /\ f[k].pid = p
      /\ PiecesOf(f, k) # << >> /\ i \in 1 .. Len(f) /\ k \in Nat /\ o \in Nat /\ i < k
  BY <1>1, <1>4
<1> DEFINE b == PiecesOf(f, k)[1]
<1>6. Continues(e, b)
  <2>1. \A j \in i + 1 .. k - 1 : f[j].pid = f[i].pid => PiecesOf(f, j) = << >>
    <3> SUFFICES ASSUME NEW j \in i + 1 .. k - 1, f[j].pid = p, PiecesOf(f, j) # << >> PROVE FALSE
      OBVIOUS
    <3>1. j \in i + 1 .. o /\ ~ (k <= j)
      BY <1>1, <1>5
    <3> QED BY <1>4, <3>1
  <2> HIDE DEF S, b
  <2>2. Continues(PiecesOf(f, i)[Len(PiecesOf(f, i))], PiecesOf(f, k)[1])
    BY <1>1, <1>5, <2>1 DEF IsFile
  <2> QED BY <2>2 DEF b
<1>7. IsPieceOf(f, i, Len(PiecesOf(f, i)), e) /\ CellOf(f, e) = i
  <2>1. IsPieceOf(f, i, Len(PiecesOf(f, i)), e)
    BY <1>1, <1>3
  <2> QED BY <1>1, <2>1, CellOfPiece
<1>8. ~ IsEnd(e, d)
  <2> SUFFICES ASSUME IsEnd(e, d) PROVE FALSE
    OBVIOUS
  <2>1. e.part = 1 /\ e.id = << d, Len(Written[d]) >>
    BY DEF IsEnd
  <2>2. First(f, e.id) = i
    BY <1>1, <1>7, <2>1, FirstOfPiece
  <2> QED BY <1>1, <2>1, <2>2 DEF EndsAt
<1>9. b.id[1] = d
  BY <1>1, <1>6, <1>7, <1>8, OwnNext
<1>10. CASE k = o
  <2>1. o <= z
    <3>1. z \in i + 1 .. o \/ o <= z
      BY <1>1, <1>2
    <3> QED BY <1>2, <1>4, <1>10, <3>1
  <2> QED BY <1>6, <1>9, <1>10, <2>1
<1>11. CASE k # o
  <2>1. k < o
    BY <1>5, <1>11
  <2>2. k \notin sc
    <3> SUFFICES ASSUME k \in sc PROVE FALSE
      OBVIOUS
    <3>1. k <= CellOf(f, e)
      BY <1>5 DEF Newest
    <3> QED BY <1>1, <1>5, <1>7, <3>1
  <2>3. HasOf(f, k, d)
    <3>1. 1 \in DOMAIN PiecesOf(f, k)
      BY <1>3, <1>5 DEF IsPieceOf
    <3> QED BY <1>5, <1>9, <3>1 DEF HasOf
  <2>4. k \notin sc \cup {o} /\ o \in sc \cup {o}
    BY <1>11, <2>2
  <2> QED BY <2>1, <2>3, <2>4 DEF Missed
<1> QED BY <1>10, <1>11

(* The buffer of p is parsed on its own.                                    *)
LEMMA ParsedAlone ==
  ASSUME NEW f, NEW sc, NEW p, NEW buf, NEW has, NEW a, PidInv(f, sc, p, buf, has, a)
  PROVE  IsParse(f, sc, p, buf, buf) /\ Len(buf) \in Nat
<1>1. IsTrain(f, sc, p, buf) /\ \A j \in 2 .. Len(buf) : ~ Opens(buf[j])
  BY DEF PidInv
<1>2. buf \in Seq(Pieces) /\ Len(buf) \in Nat
  BY <1>1, LenProperties DEF IsTrain
<1>3. Len(buf) <= Len(buf)
  BY <1>2
<1> QED BY <1>1, <1>2, <1>3 DEF IsParse

(* p is collecting d: the next segment of d begins the buffer, and nothing  *)
(* of d is missing so far.                                                  *)
Collecting(f, d, buf, has, a) == has /\ Aimed(f, a, d, buf[1]) /\ Reaches(f, d, buf)

(* The packet d begins in is scanned.                                       *)
LEMMA OpeningCollects ==
  ASSUME NEW f, NEW sc, NEW o, IsNewer(f, sc, o), NEW p, NEW d, IsWritten(f, p, d),
         o = OpensAt(f, d), NEW buf, NEW has \in BOOLEAN, NEW a
  PROVE  /\ f[o].pid = p /\ PiecesOf(f, o) # << >>
         /\ Collecting(f, d, BufferNow(f, o, buf, has), HasNow(f, o, has), a)
<1> DEFINE C == PiecesOf(f, o)
<1>1. /\ IsFile(f) /\ o \in DOMAIN f /\ f[o].pid = p /\ d \in DisplaySets
      /\ StartsIn(f, o, << d, 1 >>) /\ o <= EndsAt(f, d) /\ f[o].pusi \in BOOLEAN
  <2>1. IsFile(f) /\ o \in DOMAIN f /\ f[o].pid = p /\ d \in DisplaySets
        /\ StartsIn(f, o, << d, 1 >>) /\ o <= EndsAt(f, d)
    BY DEF IsNewer, IsWritten
  <2>2. f[o].pusi \in BOOLEAN
    BY <2>1, CellTyped DEF Cells
  <2> QED BY <2>1, <2>2
<1>2. PICK m \in DOMAIN C : C[m].id = << d, 1 >> /\ C[m].part = 1
  BY <1>1 DEF StartsIn
<1>3. IsPieceOf(f, o, m, C[m]) /\ Opens(C[m])
  BY <1>1, <1>2 DEF IsPieceOf, Opens
<1>4. f[o].pusi /\ m = 1
  BY <1>1, <1>3, PieceFacts
<1>5. C # << >>
  BY <1>2
<1>6. Reaches(f, d, C)
  <2>1. C[1].id[1] = d
    BY <1>2, <1>4
  <2> QED BY <1>1, <1>5, <2>1, CellReaches
<1>7. Aimed(f, a, d, C[1])
  BY <1>2, <1>4 DEF Aimed
<1>8. BufferNow(f, o, buf, has) = C /\ HasNow(f, o, has)
  <2>1. << >> \o C = C
    <3>1. C \in Seq(Pieces)
      BY <1>1, CellTyped
    <3> QED BY <3>1, ConcatEmptySeq
  <2> QED BY <1>4, <2>1 DEF BufferNow, HasNow
<1> HIDE DEF C
<1>9. Collecting(f, d, BufferNow(f, o, buf, has), HasNow(f, o, has), a)
  BY <1>6, <1>7, <1>8 DEF Collecting
<1> QED BY <1>1, <1>5, <1>9 DEF C

(* A packet of p is scanned while p is collecting d.                        *)
LEMMA PacketCollects ==
  ASSUME NEW f, NEW sc, NEW o, IsNewer(f, sc, o), PiecesOf(f, o) # << >>,
         NEW p, p = f[o].pid, f[o].pusi \in BOOLEAN,
         NEW buf, NEW has, NEW a, PidInv(f, sc, p, buf, has, a),
         NEW d, IsWritten(f, p, d), Collecting(f, d, buf, has, a),
         NEW fed, fed = FedBy(f, o, buf, has, a)
  PROVE  \/ Missed(f, sc \cup {o}, d)
         \/ HasMade(f, d, fed.sets)
         \/ Collecting(f, d, BufferNow(f, o, buf, has), HasNow(f, o, has), fed.asm)
<1> DEFINE C == PiecesOf(f, o)
           now == sc \cup {o}
<1>1. /\ has /\ Aimed(f, a, d, buf[1]) /\ Reaches(f, d, buf)
      /\ d \in DisplaySets /\ Complete(d) /\ a \in Asms /\ buf # << >>
      /\ IsTrain(f, sc, p, buf) /\ buf \in Seq(Pieces)
      /\ Newest(f, sc, p, buf[Len(buf)]) /\ EndsPacket(f, sc, p, buf[Len(buf)])
  <2>1. has /\ Aimed(f, a, d, buf[1]) /\ Reaches(f, d, buf)
    BY DEF Collecting
  <2>2. IsTrain(f, sc, p, buf)
    BY DEF PidInv
  <2> QED BY <2>1, <2>2 DEF IsWritten, PidInv, IsTrain
<1>2. C \in Seq(Pieces) /\ IsFile(f) /\ o \in DOMAIN f /\ C # << >> /\ C[1] \in Pieces
      /\ Len(C) \in Nat \ {0} /\ (f[o].pusi => C[1].part = 1)
  BY PacketEnds DEF IsNewer
<1>3. Len(buf) \in Nat \ {0}
  BY <1>1, BufferEnds
<1>4. HasNow(f, o, has) /\ BufferNow(f, o, buf, has) = IF f[o].pusi THEN C ELSE buf \o C
  <2>1. << >> \o C = C
    BY <1>2, ConcatEmptySeq
  <2> QED BY <1>1, <2>1 DEF HasNow, BufferNow
<1>5. (buf \o C)[1] = buf[1]
  <2> HIDE DEF C
  <2>1. /\ Len(buf \o C) = Len(buf) + Len(C)
        /\ \A i \in 1 .. Len(buf \o C) : (buf \o C)[i] = IF i <= Len(buf) THEN buf[i] ELSE C[i - Len(buf)]
    BY <1>1, <1>2, ConcatProperties
  <2> DEFINE N == Len(buf \o C)
  <2>2. N = Len(buf) + Len(C)
    BY <2>1
  <2> HIDE DEF N
  <2>3. 1 \in 1 .. N /\ 1 <= Len(buf)
    BY <1>2, <1>3, <2>2
  <2> QED BY <2>1, <2>3 DEF N
<1>6. ~ f[o].pusi => fed.asm = a
  <2>1. ~ f[o].pusi => fed = [asm |-> a, sets |-> << >>]
    BY <1>1, NoSegments DEF FedBy
  <2> QED BY <2>1
<1>7. f[o].pusi => fed = AsmFeed(a, ParsePes(buf))
  BY <1>1 DEF FedBy, Segments
<1> HIDE DEF C, now
<1>8. CASE \E n \in 1 .. Len(buf) : IsUnbroken(buf, n) /\ IsEnd(buf[n], d)
  <2>1. PICK n \in 1 .. Len(buf) : IsUnbroken(buf, n) /\ IsEnd(buf[n], d)
    BY <1>8
  <2>2. CASE f[o].pusi
    <3>1. IsParse(f, sc, p, buf, buf)
      BY ParsedAlone
    <3>2. buf[n].part = 1 /\ n <= Len(buf) + 1 /\ n # Len(buf) + 1
      BY <1>3, <2>1 DEF IsEnd
    <3>3. HasMade(f, d, AsmFeed(a, ParsePes(buf)).sets)
      BY <1>1, <2>1, <3>1, <3>2, UnbrokenFed
    <3> QED BY <1>7, <2>2, <3>3
  <2>3. CASE ~ f[o].pusi
    <3> DEFINE D == buf \o C
    <3>1. IsUnbroken(D, n) /\ D[n] = buf[n]
      BY <1>1, <1>2, <2>1, UnbrokenStays
    <3>2. n \in 1 .. Len(D)
      BY <3>1 DEF IsUnbroken
    <3>3. D[1] = buf[1]
      BY <1>5
    <3> HIDE DEF D
    <3>4. Reaches(f, d, D)
      BY <2>1, <3>1, <3>2 DEF Reaches
    <3>5. BufferNow(f, o, buf, has) = D
      BY <1>4, <2>3 DEF D
    <3> QED BY <1>1, <1>4, <1>6, <2>3, <3>3, <3>4, <3>5 DEF Collecting
  <2> QED BY <2>2, <2>3
<1>9. CASE /\ IsUnbroken(buf, Len(buf)) /\ buf[Len(buf)].id[1] = d
           /\ CellOf(f, buf[Len(buf)]) < EndsAt(f, d)
  <2> DEFINE e == buf[Len(buf)]
  <2>1. PICK i \in sc : f[i].pid = p /\ PiecesOf(f, i) # << >> /\ e = PiecesOf(f, i)[Len(PiecesOf(f, i))]
    BY <1>1 DEF EndsPacket
  <2>2. CellOf(f, e) = i
    <3>1. i \in DOMAIN f
      BY <2>1 DEF IsNewer
    <3> DEFINE A == PiecesOf(f, i)
    <3>2. A \in Seq(Pieces) /\ Len(A) \in Nat /\ A # << >> /\ DOMAIN A = 1 .. Len(A)
      BY <1>2, <2>1, <3>1, CellTyped
    <3>3. Len(A) \in DOMAIN A
      <4> HIDE DEF A
      <4>1. Len(A) # 0
        BY <3>2, EmptySeq
      <4> QED BY <3>2, <4>1
    <3>4. IsPieceOf(f, i, Len(A), e)
      BY <2>1, <3>1, <3>3 DEF IsPieceOf
    <3> QED BY <1>2, <3>4, CellOfPiece
  <2>3. e.id[1] = d /\ i < EndsAt(f, d) /\ Newest(f, sc, p, e)
    BY <1>1, <1>9, <2>2
  <2> HIDE DEF e
  <2>4. \/ Missed(f, now, d)
        \/ Continues(e, C[1]) /\ C[1].id[1] = d /\ o <= EndsAt(f, d)
    BY <2>1, <2>3, NextGoesOn DEF C, now
  <2> SUFFICES ASSUME Continues(e, C[1]), C[1].id[1] = d, o <= EndsAt(f, d)
               PROVE  \/ HasMade(f, d, fed.sets)
                      \/ Collecting(f, d, BufferNow(f, o, buf, has), HasNow(f, o, has), fed.asm)
    BY <2>4 DEF now
  <2>5. Reaches(f, d, C)
    BY <1>2, CellReaches DEF C
  <2>6. CASE ~ f[o].pusi
    <3> DEFINE D == buf \o C
    <3>1. Reaches(f, d, D)
      BY <1>1, <1>2, <1>9, <2>5, ReachesOn DEF e
    <3>2. D[1] = buf[1]
      BY <1>5
    <3> HIDE DEF D
    <3>3. BufferNow(f, o, buf, has) = D
      BY <1>4, <2>6 DEF D
    <3> QED BY <1>1, <1>4, <1>6, <2>6, <3>1, <3>2, <3>3 DEF Collecting
  <2>7. CASE f[o].pusi
    <3> DEFINE c == C[1]
               one == << c >>
               B == buf \o one
               n == Len(buf) + 1
    <3>1. /\ IsParse(f, now, p, B, buf)
          /\ Len(B) = Len(buf) + 1 /\ B[Len(B)] = c /\ B[1] = buf[1]
      <4>1. c = PiecesOf(f, o)[1]
        BY DEF C
      <4> HIDE DEF c, B, one
      <4>2. WithNext(f, sc \cup {o}, p, buf, c, buf \o << c >>)
        BY <1>1, <4>1, ParsedWithNext
      <4> QED BY <4>2 DEF now, B, one, WithNext
    <3>2. c.part = 1 /\ c \in Pieces
      BY <1>2, <2>7
    <3>3. one \in Seq(Pieces) /\ Len(one) = 1 /\ one[1] = c
      BY <3>2
    <3> HIDE DEF one, c
    <3>4. IsUnbroken(one, 1) /\ Continues(buf[Len(buf)], one[1])
      <4>1. 1 \in 1 .. Len(one) /\ 1 .. 1 - 1 = {}
        BY <3>3
      <4> QED BY <3>3, <4>1 DEF IsUnbroken, e, c
    <3>5. IsUnbroken(B, Len(buf) + 1)
      BY <1>1, <1>9, <3>3, <3>4, UnbrokenConcat
    <3> HIDE DEF B
    <3>6. IsUnbroken(B, n) /\ B[n].part = 1 /\ n <= Len(buf) + 1 /\ ~ (n <= Len(buf))
      BY <1>3, <3>1, <3>2, <3>5
    <3>7. Aimed(f, a, d, B[1])
      BY <1>1, <3>1
    <3> HIDE DEF n
    <3>8. HasMade(f, d, AsmFeed(a, ParsePes(buf)).sets) \/ Aimed(f, AsmFeed(a, ParsePes(buf)).asm, d, B[n])
      BY <1>1, <3>1, <3>6, <3>7, UnbrokenFed
    <3>9. HasMade(f, d, fed.sets) \/ Aimed(f, fed.asm, d, C[1])
      BY <1>7, <2>7, <3>1, <3>8 DEF n, c
    <3>10. BufferNow(f, o, buf, has) = C
      BY <1>4, <2>7
    <3> QED BY <1>4, <2>5, <3>9, <3>10 DEF Collecting
  <2> QED BY <2>6, <2>7
<1> QED BY <1>1, <1>8, <1>9 DEF Reaches

(* d was handed out or is queued.                                           *)
Given(f, d, out) == \E k \in 1 .. Len(out) : IsGenuine(f, d, out[k].set)
Found(f, sc, d, out) == Missed(f, sc, d) \/ Given(f, d, out)

(* Every display set that has begun is collected, was found, or misses a    *)
(* packet.                                                                  *)
AllCollect(f, sc, out, B, H, A) ==
  \A p \in Pids : \A d \in DisplaySets :
    IsWritten(f, p, d) /\ OpensAt(f, d) \in sc =>
      Found(f, sc, d, out) \/ Collecting(f, d, B[p], H[p], A[p])

LEMMA MissedStays ==
  ASSUME NEW f, NEW sc, NEW o, IsNewer(f, sc, o), NEW d, Missed(f, sc, d)
  PROVE  Missed(f, sc \cup {o}, d)
<1>1. PICK i : HasOf(f, i, d) /\ i \notin sc /\ \E j \in sc : i < j
  BY DEF Missed
<1>2. PICK j \in sc : i < j
  BY <1>1
<1>3. i \in Nat /\ j \in Nat /\ o \in Nat /\ j < o
  BY <1>1, NewerFacts DEF HasOf, IsNewer
<1>4. i # o
  BY <1>2, <1>3
<1> QED BY <1>1, <1>2, <1>4 DEF Missed

LEMMA GivenStays ==
  ASSUME NEW f, NEW d, NEW out \in Seq(Outs), NEW more \in Seq(Outs),
         Given(f, d, out) \/ Given(f, d, more)
  PROVE  Given(f, d, out \o more)
<1> DEFINE u == out \o more
<1>1. /\ Len(out) \in Nat /\ Len(more) \in Nat /\ Len(u) = Len(out) + Len(more)
      /\ \A k \in 1 .. Len(u) : u[k] = IF k <= Len(out) THEN out[k] ELSE more[k - Len(out)]
  BY LenProperties, ConcatProperties
<1> HIDE DEF u
<1>2. CASE Given(f, d, out)
  <2>1. PICK k \in 1 .. Len(out) : IsGenuine(f, d, out[k].set)
    BY <1>2 DEF Given
  <2>2. k \in 1 .. Len(u) /\ u[k] = out[k]
    BY <1>1
  <2> QED BY <2>1, <2>2 DEF Given, u
<1>3. CASE Given(f, d, more)
  <2>1. PICK k \in 1 .. Len(more) : IsGenuine(f, d, more[k].set)
    BY <1>3 DEF Given
  <2>2. /\ Len(out) + k \in 1 .. Len(u) /\ ~ (Len(out) + k <= Len(out))
        /\ (Len(out) + k) - Len(out) = k
    BY <1>1
  <2>3. u[Len(out) + k] = more[k]
    BY <1>1, <2>2
  <2> QED BY <2>1, <2>2, <2>3 DEF Given, u
<1> QED BY <1>2, <1>3

(* A display set that is made is queued.                                    *)
LEMMA MadeIsGiven ==
  ASSUME NEW f, NEW d, NEW p, NEW sets \in Seq(Sets), HasMade(f, d, sets)
  PROVE  Given(f, d, Tagged(p, sets))
<1> DEFINE new == Tagged(p, sets)
<1>1. PICK k \in 1 .. Len(sets) : IsGenuine(f, d, sets[k])
  BY DEF HasMade
<1>2. Len(sets) \in Nat
  BY LenProperties
<1>3. Len(new) = Len(sets) /\ new[k].set = sets[k]
  BY <1>2 DEF Tagged
<1> HIDE DEF new
<1> QED BY <1>1, <1>3 DEF Given, new

(* A packet that no reassembler gets.                                       *)
LEMMA OtherCollects ==
  ASSUME NEW f, NEW sc, NEW o, IsNewer(f, sc, o), NEW out,
         NEW B, NEW H, NEW A, Demuxed(f, sc, out, B, H, A), AllCollect(f, sc, out, B, H, A),
         f[o].pid \notin Pids \/ PiecesOf(f, o) = << >>
  PROVE  AllCollect(f, sc \cup {o}, out, B, H, A)
<1> SUFFICES ASSUME NEW p \in Pids, NEW d \in DisplaySets, IsWritten(f, p, d),
                    OpensAt(f, d) \in sc \cup {o}
             PROVE  Found(f, sc \cup {o}, d, out) \/ Collecting(f, d, B[p], H[p], A[p])
  BY DEF AllCollect
<1>1. OpensAt(f, d) # o
  <2> SUFFICES ASSUME o = OpensAt(f, d) PROVE FALSE
    OBVIOUS
  <2>1. H[p] \in BOOLEAN
    BY DEF Demuxed, PidInv
  <2>2. f[o].pid = p /\ PiecesOf(f, o) # << >>
    BY <2>1, OpeningCollects
  <2> QED BY <2>2
<1>2. Found(f, sc, d, out) \/ Collecting(f, d, B[p], H[p], A[p])
  BY <1>1 DEF AllCollect
<1> QED BY <1>2, MissedStays DEF Found

(* A packet of one of the PIDs.                                             *)
LEMMA OwnCollects ==
  ASSUME NEW f, NEW sc, NEW o, IsNewer(f, sc, o), NEW out \in Seq(Outs),
         NEW B, NEW H, NEW A, Demuxed(f, sc, out, B, H, A), AllCollect(f, sc, out, B, H, A),
         f[o].pid \in Pids, PiecesOf(f, o) # << >>,
         NEW q, q = f[o].pid, NEW fed, fed = FedBy(f, o, B[q], H[q], A[q]),
         fed.sets \in Seq(Sets), Tagged(q, fed.sets) \in Seq(Outs),
         NEW BB, NEW HH, NEW AA, IsUpdate(f, o, q, fed.asm, B, H, A, BB, HH, AA)
  PROVE  AllCollect(f, sc \cup {o}, out \o Tagged(q, fed.sets), BB, HH, AA)
<1> DEFINE now == sc \cup {o}
           more == out \o Tagged(q, fed.sets)
<1> SUFFICES ASSUME NEW p \in Pids, NEW d \in DisplaySets, IsWritten(f, p, d),
                    OpensAt(f, d) \in now
             PROVE  Found(f, now, d, more) \/ Collecting(f, d, BB[p], HH[p], AA[p])
  <2> HIDE DEF now, more
  <2>1. AllCollect(f, now, more, BB, HH, AA)
    BY DEF AllCollect
  <2> QED BY <2>1 DEF now, more
<1>1. f[o].pusi \in BOOLEAN
  BY CellTyped DEF IsNewer, Cells
<1>2. PidInv(f, sc, p, B[p], H[p], A[p]) /\ H[p] \in BOOLEAN
  BY DEF Demuxed, PidInv
<1>3. p = q => /\ BB[p] = BufferNow(f, o, B[p], H[p]) /\ HH[p] = HasNow(f, o, H[p])
               /\ AA[p] = fed.asm /\ fed = FedBy(f, o, B[p], H[p], A[p])
  BY DEF IsUpdate
<1>4. p # q => BB[p] = B[p] /\ HH[p] = H[p] /\ AA[p] = A[p]
  BY DEF IsUpdate
<1>5. CASE o = OpensAt(f, d)
  <2>1. f[o].pid = p /\ Collecting(f, d, BufferNow(f, o, B[p], H[p]), HasNow(f, o, H[p]), fed.asm)
    BY <1>2, <1>5, OpeningCollects
  <2> QED BY <1>3, <2>1
<1>6. CASE o # OpensAt(f, d)
  <2>1. Found(f, sc, d, out) \/ Collecting(f, d, B[p], H[p], A[p])
    BY <1>6 DEF AllCollect
  <2>2. Missed(f, sc, d) => Missed(f, now, d)
    BY MissedStays
  <2>3. Given(f, d, out) => Given(f, d, more)
    BY GivenStays
  <2>4. HasMade(f, d, fed.sets) => Given(f, d, more)
    <3> SUFFICES ASSUME HasMade(f, d, fed.sets) PROVE Given(f, d, more)
      OBVIOUS
    <3>1. Given(f, d, Tagged(q, fed.sets))
      BY MadeIsGiven
    <3> QED BY <3>1, GivenStays
  <2> HIDE DEF now, more
  <2>5. CASE p # q
    BY <1>4, <2>1, <2>2, <2>3, <2>5 DEF Found
  <2>6. CASE p = q
    <3>1. Collecting(f, d, B[p], H[p], A[p]) =>
            \/ Missed(f, now, d) \/ HasMade(f, d, fed.sets)
            \/ Collecting(f, d, BufferNow(f, o, B[p], H[p]), HasNow(f, o, H[p]), fed.asm)
      BY <1>1, <1>2, <1>3, <2>6, PacketCollects DEF now
    <3> QED BY <1>3, <2>1, <2>2, <2>3, <2>4, <2>6, <3>1 DEF Found
  <2> QED BY <2>5, <2>6
<1> QED BY <1>5, <1>6

(* The end of the file: what is still collected is emitted.                 *)
Missing(f, sc, d) == \E i : HasOf(f, i, d) /\ i \notin sc

LEMMA FlushCollects ==
  ASSUME NEW f, NEW sc, NEW p, NEW buf, NEW has, NEW a, PidInv(f, sc, p, buf, has, a),
         NEW d, IsWritten(f, p, d), Collecting(f, d, buf, has, a),
         NEW sets, sets = AsmFeed(a, Segments(has, buf)).sets
  PROVE  HasMade(f, d, sets) \/ Missing(f, sc, d)
<1>1. /\ has /\ Aimed(f, a, d, buf[1]) /\ Reaches(f, d, buf) /\ a \in Asms
      /\ d \in DisplaySets /\ Complete(d)
      /\ IsTrain(f, sc, p, buf) /\ buf # << >> /\ Newest(f, sc, p, buf[Len(buf)])
  BY DEF Collecting, PidInv, IsWritten
<1>2. IsParse(f, sc, p, buf, buf) /\ Len(buf) \in Nat
  BY ParsedAlone
<1>3. sets = AsmFeed(a, ParsePes(buf)).sets
  BY <1>1 DEF Segments
<1>4. CASE \E n \in 1 .. Len(buf) : IsUnbroken(buf, n) /\ IsEnd(buf[n], d)
  <2>1. PICK n \in 1 .. Len(buf) : IsUnbroken(buf, n) /\ IsEnd(buf[n], d)
    BY <1>4
  <2>2. buf[n].part = 1 /\ n <= Len(buf) + 1 /\ n # Len(buf) + 1
    BY <1>2, <2>1 DEF IsEnd
  <2>3. HasMade(f, d, AsmFeed(a, ParsePes(buf)).sets)
    BY <1>1, <1>2, <2>1, <2>2, UnbrokenFed
  <2> QED BY <1>3, <2>3
<1>5. CASE CellOf(f, buf[Len(buf)]) < EndsAt(f, d)
  <2> DEFINE z == EndsAt(f, d)
             k == Len(Written[d])
  <2>1. z \in DOMAIN f /\ f[z].pid = p
        /\ \E m \in DOMAIN PiecesOf(f, z) : PiecesOf(f, z)[m].id = << d, k >>
    BY DEF IsWritten, StartsIn
  <2>2. PICK m \in DOMAIN PiecesOf(f, z) : PiecesOf(f, z)[m].id = << d, k >>
    BY <2>1
  <2>3. HasOf(f, z, d)
    <3>1. PiecesOf(f, z)[m].id[1] = d
      BY <2>2
    <3> QED BY <2>1, <2>2, <3>1 DEF HasOf
  <2>4. z \notin sc
    <3> SUFFICES ASSUME z \in sc PROVE FALSE
      OBVIOUS
    <3>1. PiecesOf(f, z) # << >>
      BY <2>2
    <3>2. z <= CellOf(f, buf[Len(buf)])
      BY <1>1, <2>1, <3>1 DEF Newest
    <3>3. CellOf(f, buf[Len(buf)]) \in Nat /\ z \in Nat
      <4>1. Len(buf) \in 1 .. Len(buf)
        BY <1>1, BufferEnds
      <4>2. z \in Nat
        BY <1>1, <2>1, CellTyped DEF IsTrain
      <4> QED BY <1>1, <4>1, <4>2, TrainCells
    <3> QED BY <1>5, <3>2, <3>3
  <2> QED BY <2>3, <2>4 DEF Missing
<1> QED BY <1>1, <1>4, <1>5 DEF Reaches

(* Every PID is flushed.                                                    *)
LEMMA OrderIsOnto ==
  ASSUME NEW o, IsOrder(Cardinality(Pids), o), NEW p \in Pids
  PROVE  \E k \in 1 .. Cardinality(Pids) : o[k] = p
<1> DEFINE N == Cardinality(Pids)
           K == 1 .. N
<1>1. N \in Nat /\ IsFiniteSet(Pids)
  BY PidsAssumption, FS_CardinalityType
<1>2. Cardinality(K) = N
  <2> HIDE DEF N
  <2>1. Cardinality(1 .. N) = IF 1 > N THEN 0 ELSE N - 1 + 1
    BY <1>1, FS_Interval
  <2> QED BY <1>1, <2>1
<1>3. o \in [K -> Pids] /\ \A i, j \in K : i # j => o[i] # o[j]
  BY DEF IsOrder
<1> HIDE DEF K
<1>4. o \in Injection(K, Pids)
  <2>1. \A i, j \in DOMAIN o : o[i] = o[j] => i = j
    BY <1>3
  <2> QED BY <1>3, <2>1 DEF Injection, IsInjective
<1>5. o \in Surjection(K, Pids)
  BY <1>1, <1>2, <1>4, FS_Injection
<1> QED BY <1>5 DEF Surjection, K

LEMMA TaggedTyped ==
  ASSUME NEW p \in Pids, NEW sets \in Seq(Sets)
  PROVE  Tagged(p, sets) \in Seq(Outs)
<1>1. Len(sets) \in Nat /\ \A k \in 1 .. Len(sets) : sets[k] \in Sets
  BY LenProperties, ElementOfSeq
<1>2. \A k \in 1 .. Len(sets) : [pid |-> p, set |-> sets[k]] \in Outs
  BY <1>1 DEF Outs
<1>3. [k \in 1 .. Len(sets) |-> [pid |-> p, set |-> sets[k]]] \in [1 .. Len(sets) -> Outs]
  BY <1>2
<1> QED BY <1>1, <1>3, SeqDef DEF Tagged

(* Of every display set that has begun: it was handed out or is queued, or  *)
(* one of its packets was not scanned.                                      *)
AllFound(f, sc, out) ==
  \A p \in Pids : \A d \in DisplaySets :
    IsWritten(f, p, d) /\ OpensAt(f, d) \in sc => Missing(f, sc, d) \/ Given(f, d, out)

LEMMA FlushedCollects ==
  ASSUME NEW f, NEW sc, NEW out \in Seq(Outs),
         NEW B, NEW H, NEW A, Demuxed(f, sc, out, B, H, A), AllCollect(f, sc, out, B, H, A),
         NEW feds, \A p \in Pids : feds[p] = AsmFeed(A[p], Segments(H[p], B[p])).sets,
         \A p \in Pids : feds[p] \in Seq(Sets),
         NEW N, N = Cardinality(Pids), NEW o, IsOrder(N, o),
         NEW new, new = FlushOf(feds, o, N), new \in Seq(Outs)
  PROVE  AllFound(f, sc, out \o new)
<1> SUFFICES ASSUME NEW p \in Pids, NEW d \in DisplaySets, IsWritten(f, p, d),
                    OpensAt(f, d) \in sc, ~ Missing(f, sc, d)
             PROVE  Given(f, d, out \o new)
  BY DEF AllFound
<1>1. Given(f, d, out) \/ Collecting(f, d, B[p], H[p], A[p])
  <2>1. Missed(f, sc, d) => Missing(f, sc, d)
    BY DEF Missed, Missing
  <2> QED BY <2>1 DEF AllCollect, Found
<1>2. CASE Given(f, d, out)
  BY <1>2, GivenStays
<1>3. CASE Collecting(f, d, B[p], H[p], A[p])
  <2>1. HasMade(f, d, feds[p])
    <3>1. PidInv(f, sc, p, B[p], H[p], A[p])
      BY DEF Demuxed
    <3> QED BY <1>3, <3>1, FlushCollects
  <2> DEFINE ss == [k \in 1 .. N |-> Tagged(o[k], feds[o[k]])]
  <2>2. o \in [1 .. N -> Pids] /\ N \in Nat
    BY PidsAssumption, FS_CardinalityType DEF IsOrder
  <2>3. PICK k \in 1 .. N : o[k] = p
    BY OrderIsOnto
  <2>4. /\ ss \in Seq(Seq(Outs)) /\ DOMAIN ss = 1 .. N /\ ss[k] = Tagged(p, feds[p])
        /\ ss[k] \in Seq(Outs)
    <3>1. \A j \in 1 .. N : Tagged(o[j], feds[o[j]]) \in Seq(Outs)
      <4> TAKE j \in 1 .. N
      <4>1. o[j] \in Pids
        BY <2>2
      <4> QED BY <4>1, TaggedTyped
    <3>2. ss \in [1 .. N -> Seq(Outs)]
      BY <3>1
    <3>3. ss[k] = Tagged(p, feds[p]) /\ DOMAIN ss = 1 .. N
      BY <2>3
    <3> HIDE DEF ss
    <3>4. ss \in Seq(Seq(Outs))
      <4> DEFINE X == Seq(Outs)
      <4>1. N \in Nat /\ ss \in [1 .. N -> X]
        BY <2>2, <3>2
      <4> HIDE DEF X
      <4>2. ss \in Seq(X)
        BY <4>1, SeqDef
      <4> QED BY <4>2 DEF X
    <3>5. ss[k] \in Seq(Outs)
      BY <2>3, <3>2
    <3> QED BY <3>3, <3>4, <3>5
  <2>5. new = Joined(ss)
    BY DEF FlushOf
  <2> HIDE DEF ss
  <2>6. PICK m \in 1 .. Len(ss[k]) : IsGenuine(f, d, ss[k][m].set)
    <3>1. Given(f, d, ss[k])
      BY <2>1, <2>4, MadeIsGiven
    <3> QED BY <3>1 DEF Given
  <2>7. ss[k][m] \in Members(new)
    <3>1. DOMAIN ss[k] = 1 .. Len(ss[k])
      BY <2>4, LenProperties
    <3>2. ss[k][m] \in Members(ss[k])
      BY <2>6, <3>1 DEF Members
    <3> QED BY <2>3, <2>4, <2>5, <3>2, JoinedMembers
  <2>8. Given(f, d, new)
    <3>1. DOMAIN new = 1 .. Len(new)
      BY LenProperties
    <3> QED BY <2>6, <2>7, <3>1 DEF Members, Given
  <2> QED BY <2>8, GivenStays
<1> QED BY <1>1, <1>2, <1>3

(* What a PID emits are display sets.                                       *)
LEMMA FedTyped ==
  ASSUME NEW f, NEW sc, NEW o, IsNewer(f, sc, o), NEW p, NEW buf, NEW has, NEW a,
         PidInv(f, sc, p, buf, has, a)
  PROVE  FedBy(f, o, buf, has, a).sets \in Seq(Sets)
<1>1. f[o].pusi \in BOOLEAN /\ a \in Asms
  BY CellTyped DEF IsNewer, Cells, PidInv
<1>2. CASE ~ f[o].pusi
  <2>1. FedBy(f, o, buf, has, a).sets = << >>
    BY <1>1, <1>2, NoSegments DEF FedBy
  <2> QED BY <2>1
<1>3. CASE f[o].pusi
  <2>1. AsmFeed(a, Segments(has, buf)).sets \in Seq(Sets)
    <3> DEFINE Y == {}
    <3>1. \A x \in Y : /\ has => x < CellOf(f, buf[1])
                       /\ a.state # None => x < First(f, a.segments[1].id)
      OBVIOUS
    <3> HIDE DEF Y
    <3> QED BY <3>1, PidFlushes
  <2> QED BY <1>3, <2>1 DEF FedBy
<1> QED BY <1>1, <1>2, <1>3

(* Until the flush every display set that has begun is collected, after it  *)
(* it was handed out or is queued, if none of its packets was passed over.  *)
CollectInv ==
  /\ GenuineInv
  /\ result = "end" => flushed /\ pending = << >>
  /\ ~ flushed => AllCollect(file, scanned, Out, buffer, hasData, asm)
  /\ flushed /\ result # "err" => AllFound(file, scanned, Out)

LEMMA CollectInit == Init => CollectInv
<1> SUFFICES ASSUME Init PROVE CollectInv
  OBVIOUS
<1>1. scanned = {} /\ result = "more" /\ flushed = FALSE
  BY DEF Init
<1> QED BY <1>1, GenuineInit DEF CollectInv, AllCollect

(* Steps of the scanner that touch neither the PIDs nor the queue.          *)
LEMMA CollectKept ==
  ASSUME CollectInv, GenuineInv', UNCHANGED << input, scanned, demux, queue, flushed >>,
         \/ result' = result
         \/ result = "more" /\ result' = "end" /\ flushed /\ pending = << >>
  PROVE  CollectInv'
<1>1. /\ file' = file /\ scanned' = scanned /\ buffer' = buffer /\ hasData' = hasData
      /\ asm' = asm /\ yielded' = yielded /\ pending' = pending /\ flushed' = flushed
  BY DEF input, demux, queue
<1>2. Out' = Out
  BY <1>1 DEF Out
<1> QED BY <1>1, <1>2 DEF CollectInv

LEMMA CollectPop ==
  ASSUME CollectInv, GenuineInv', PopPending
  PROVE  CollectInv'
<1>1. /\ UNCHANGED << file, scanned, buffer, hasData, asm, flushed, result >>
      /\ result = "more"
  BY DEF PopPending, AtTop, input, reader, demux
<1>2. Out' = Out
  BY PopKeepsOut DEF CollectInv
<1> QED BY <1>1, <1>2 DEF CollectInv

LEMMA CollectScan ==
  ASSUME CollectInv, GenuineInv', ScanPacket
  PROVE  CollectInv'
<1>1. /\ IsNewer(file, scanned, off) /\ scanned' = scanned \cup {off} /\ ~ flushed
      /\ result = "more" /\ UNCHANGED << file, yielded, flushed, result >>
  BY ScanEffect DEF CollectInv
<1>2. /\ GenuineInv /\ OutOk(file, scanned, Out)
      /\ Demuxed(file, scanned, Out, buffer, hasData, asm)
      /\ AllCollect(file, scanned, Out, buffer, hasData, asm)
  BY <1>1 DEF CollectInv, GenuineInv
<1>3. CASE /\ file[off].pid \notin Pids \/ PiecesOf(file, off) = << >>
           /\ UNCHANGED << demux, pending >>
  <2>1. Out' = Out /\ buffer' = buffer /\ hasData' = hasData /\ asm' = asm
    BY <1>1, <1>3 DEF Out, demux
  <2>2. AllCollect(file, scanned \cup {off}, Out, buffer, hasData, asm)
    BY <1>1, <1>2, <1>3, OtherCollects
  <2> QED BY <1>1, <2>1, <2>2 DEF CollectInv
<1>4. CASE \E p, fed : IsOwnScan(p, fed)
  <2>1. PICK p, fed : IsOwnScan(p, fed)
    BY <1>4
  <2>2. /\ OwnDone(file, scanned \cup {off}, Out, p, fed.sets, buffer', hasData', asm')
        /\ Out' = Out \o Tagged(p, fed.sets)
    BY <1>2, <2>1, OwnScanAdds
  <2> DEFINE BB == buffer'
             HH == hasData'
             AA == asm'
  <2>3. /\ p = file[off].pid /\ p \in Pids /\ PiecesOf(file, off) # << >>
        /\ fed = FedBy(file, off, buffer[p], hasData[p], asm[p])
        /\ IsUpdate(file, off, p, fed.asm, buffer, hasData, asm, BB, HH, AA)
    BY <2>1 DEF IsOwnScan
  <2> HIDE DEF BB, HH, AA
  <2>4. fed.sets \in Seq(Sets)
    <3>1. PidInv(file, scanned, p, buffer[p], hasData[p], asm[p])
      BY <1>2, <2>3 DEF Demuxed
    <3> QED BY <1>1, <2>3, <3>1, FedTyped
  <2>5. Tagged(p, fed.sets) \in Seq(Outs) /\ Out \in Seq(Outs)
    BY <1>2, <2>2 DEF OwnDone, OutOk
  <2>6. AllCollect(file, scanned \cup {off}, Out \o Tagged(p, fed.sets), BB, HH, AA)
    BY <1>1, <1>2, <2>3, <2>4, <2>5, OwnCollects
  <2>7. AllCollect(file, scanned \cup {off}, Out', buffer', hasData', asm')
    BY <2>2, <2>6 DEF BB, HH, AA
  <2> QED BY <1>1, <2>7 DEF CollectInv
<1> QED BY <1>2, <1>3, <1>4, ScanEffect

LEMMA CollectFlush ==
  ASSUME CollectInv, GenuineInv', FlushAll
  PROVE  CollectInv'
<1>1. /\ result = "more" /\ ~ flushed /\ flushed' /\ UNCHANGED << file, scanned, result >>
  BY DEF FlushAll, AtTop, input, reader
<1>2. /\ GenuineInv /\ OutOk(file, scanned, Out)
      /\ Demuxed(file, scanned, Out, buffer, hasData, asm)
      /\ AllCollect(file, scanned, Out, buffer, hasData, asm)
  BY <1>1 DEF CollectInv, GenuineInv
<1>3. PICK feds, o, new : IsFlush(feds, o, new)
  BY <1>2, FlushAdds
<1> DEFINE N == Cardinality(Pids)
<1>4. /\ \A p \in Pids : feds[p] = AsmFeed(asm[p], Segments(hasData[p], buffer[p])).sets
      /\ \A p \in Pids : feds[p] \in Seq(Sets)
      /\ IsOrder(N, o)
      /\ new = FlushOf(feds, o, N)
      /\ new \in Seq(Outs) /\ Out' = Out \o new
  BY <1>3 DEF IsFlush
<1>5. Out \in Seq(Outs) /\ N = Cardinality(Pids)
  BY <1>2 DEF OutOk
<1> HIDE DEF N
<1>6. AllFound(file, scanned, Out \o new)
  BY <1>2, <1>4, <1>5, FlushedCollects
<1> QED BY <1>1, <1>4, <1>6 DEF CollectInv

LEMMA CollectStep ==
  ASSUME CollectInv, [Next]_vars
  PROVE  CollectInv'
<1>0. GenuineInv'
  BY GenuineStep DEF CollectInv
<1>1. CASE UNCHANGED vars
  BY <1>0, <1>1, CollectKept DEF vars, reader
<1>2. CASE BeginBlock \/ BeginBlockOutOfSync \/ SkipJunk \/ LoseSync \/ EndBlock
  <2>1. UNCHANGED << input, scanned, demux, queue, flushed, result >>
    BY <1>2 DEF BeginBlock, BeginBlockOutOfSync, SkipJunk, LoseSync, EndBlock, reader
  <2> QED BY <1>0, <2>1, CollectKept
<1>3. CASE Finish
  <2>1. /\ UNCHANGED << input, scanned, demux, queue, flushed >>
        /\ result = "more" /\ result' = "end" /\ flushed /\ pending = << >>
    BY <1>3 DEF Finish, AtTop, reader
  <2> QED BY <1>0, <2>1, CollectKept
<1>4. CASE Fail
  <2>1. flushed' /\ result' = "err"
    BY <1>4 DEF Fail
  <2> QED BY <1>0, <2>1 DEF CollectInv
<1>5. CASE PopPending
  BY <1>0, <1>5, CollectPop
<1>6. CASE ScanPacket
  BY <1>0, <1>6, CollectScan
<1>7. CASE FlushAll
  BY <1>0, <1>7, CollectFlush
<1> QED BY <1>1, <1>2, <1>3, <1>4, <1>5, <1>6, <1>7 DEF Next

(* What begins in a cell begins nowhere else.                               *)
LEMMA BeginsOnce ==
  ASSUME NEW d, NEW k, NEW i \in DOMAIN file, IsFile(file), BeginsIn(<< d, k >>, i)
  PROVE  /\ First(file, << d, k >>) = i /\ StartsIn(file, i, << d, k >>)
         /\ i \in CellsOf(d)
<1>1. file[i].pieces = PiecesOf(file, i) /\ DOMAIN PiecesOf(file, i) = 1 .. Len(PiecesOf(file, i))
  BY CellTyped
<1>2. PICK n \in DOMAIN file[i].pieces :
        file[i].pieces[n].id = << d, k >> /\ file[i].pieces[n].part = 1
  BY DEF BeginsIn
<1> DEFINE a == PiecesOf(file, i)[n]
<1>3. a.id = << d, k >> /\ a.part = 1 /\ IsPieceOf(file, i, n, a)
  BY <1>1, <1>2 DEF IsPieceOf
<1>4. First(file, a.id) = i
  <2> HIDE DEF a
  <2> QED BY <1>3, FirstOfPiece
<1>5. StartsIn(file, i, << d, k >>)
  BY <1>1, <1>2, <1>3 DEF StartsIn
<1>6. file[i].pieces[n].id[1] = d
  BY <1>2
<1>7. i \in CellsOf(d)
  BY <1>2, <1>6 DEF CellsOf
<1> QED BY <1>3, <1>4, <1>5, <1>7

(* The invariant in the words of the property.                              *)
LEMMA CollectedOut == CollectInv => ScannedSetsAreYielded
<1> SUFFICES ASSUME CollectInv, result = "end", NEW d \in DisplaySets, Complete(d), Held(d),
                    TrackOf(d) \in Pids, CellsOf(d) \subseteq scanned
             PROVE  \E k \in DOMAIN yielded : IsSet(yielded[k], d)
  BY DEF ScannedSetsAreYielded
<1>1. /\ GenuineInv /\ IsFile(file) /\ pending = << >> /\ AllFound(file, scanned, Out)
      /\ yielded \in Seq(Outs)
  BY DEF CollectInv, GenuineInv
<1>2. Out = yielded
  BY <1>1, ConcatEmptySeq DEF Out
<1>3. PICK i \in DOMAIN file, j \in DOMAIN file :
        /\ i <= j /\ file[i].pid = file[j].pid
        /\ BeginsIn(<< d, 1 >>, i) /\ BeginsIn(<< d, Len(Written[d]) >>, j)
  BY DEF Held
<1>4. OpensAt(file, d) = i /\ StartsIn(file, i, << d, 1 >>) /\ i \in CellsOf(d)
  BY <1>1, <1>3, BeginsOnce DEF OpensAt
<1>5. EndsAt(file, d) = j /\ StartsIn(file, j, << d, Len(Written[d]) >>)
  BY <1>1, <1>3, BeginsOnce DEF EndsAt
<1>6. FirstCell(<< d, 1 >>) = First(file, << d, 1 >>)
  BY DEF FirstCell, First, BeginsIn
<1>7. TrackOf(d) = file[i].pid
  BY <1>4, <1>6 DEF TrackOf, OpensAt
<1>8. IsWritten(file, file[i].pid, d)
  BY <1>3, <1>4, <1>5 DEF IsWritten
<1>9. ~ Missing(file, scanned, d)
  <2> SUFFICES ASSUME NEW c, HasOf(file, c, d) PROVE c \in scanned
    BY DEF Missing
  <2>1. c \in DOMAIN file /\ file[c].pieces = PiecesOf(file, c)
    BY <1>1, CellTyped DEF HasOf
  <2>2. c \in CellsOf(d)
    BY <2>1 DEF HasOf, CellsOf
  <2> QED BY <2>2
<1>10. Given(file, d, Out)
  BY <1>1, <1>4, <1>7, <1>8, <1>9 DEF AllFound
<1>11. PICK k \in 1 .. Len(yielded) : IsGenuine(file, d, yielded[k].set)
  BY <1>2, <1>10 DEF Given
<1>12. k \in DOMAIN yielded /\ yielded[k] \in Outs
  <2> DEFINE s == yielded
  <2>1. s \in Seq(Outs) /\ k \in 1 .. Len(s)
    BY <1>1
  <2> HIDE DEF s
  <2>2. k \in DOMAIN s /\ s[k] \in Outs
    BY <2>1, LenProperties, ElementOfSeq
  <2> QED BY <2>2 DEF s
<1>13. DOMAIN yielded[k].set.segments = 1 .. Len(yielded[k].set.segments)
  <2> DEFINE s == yielded[k].set.segments
  <2>1. s \in Seq(Segs)
    BY <1>12 DEF Outs, Sets, AssembledSets
  <2> HIDE DEF s
  <2>2. DOMAIN s = 1 .. Len(s)
    BY <2>1, LenProperties
  <2> QED BY <2>2 DEF s
<1>14. PtsOf(d) = PtsIn(file, d)
  BY <1>6 DEF PtsOf, PtsIn
<1>15. IsSet(yielded[k], d)
  BY <1>11, <1>13, <1>14 DEF IsGenuine, IsSet, IsPrefix
<1> QED BY <1>12, <1>15

(* When the iterator is exhausted, every complete display set the file      *)
(* holds and whose packets were all scanned was handed out intact: each     *)
(* packet brings its PES packet nearer to its last segment, the last one is *)
(* emitted by the next or by the flush, and what neighbouring packets lose  *)
(* costs other display sets only (pes.rs:31-78, stream.rs:160-222).         *)
THEOREM ScannedSetsArrive == Spec => []ScannedSetsAreYielded
<1>1. CollectInv /\ [Next]_vars => CollectInv'
  BY CollectStep
<1> QED BY <1>1, CollectInit, CollectedOut, PTL DEF Spec
=============================================================================
