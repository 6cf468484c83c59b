----------------------------- MODULE M2tsStream -----------------------------
(***************************************************************************)
(* The M2TS extractor (src/src/m2ts/stream.rs, pes.rs, ts_packet.rs): the  *)
(* transport stream is scanned in blocks, the packets of every PGS PID are *)
(* reassembled into PES packets, a PES packet is parsed into segments when *)
(* the next one of its PID starts, and the segments are assembled into     *)
(* display sets that wait in a queue for the iterator.                     *)
(*                                                                         *)
(* The file is a sequence of cells of one packet each.  A cell in junk has *)
(* lost its sync byte; the other cells are readable packets.  Positions    *)
(* count cells: the reader at pos has cells 1 .. pos behind it.            *)
(* A block is BlockCells cells and the first bytes of the next one (2 MiB  *)
(* is no multiple of 188 or 192), so the sync byte of that next cell is    *)
(* visible but the cell itself is left for the next block.                 *)
(*                                                                         *)
(* The payload of a packet is a sequence of pieces; a segment of n pieces  *)
(* may continue in the following packets of its PES packet.  The pieces of *)
(* one PES packet carry its pts.                                           *)
(***************************************************************************)
EXTENDS PgsAssembly, Integers, FiniteSets

CONSTANTS Pids,        (* the PIDs extracted: the PGS PIDs in the filter   *)
          Written,     (* for each display set of the files, its segments  *)
          Files,       (* the cells a file may consist of                  *)
          JunkSets,    (* which cells may have lost their sync byte        *)
          BlockCells,  (* SCAN_BLOCK_SIZE in packets                       *)
          ResyncCells, (* MAX_RESYNC_SCAN in packets                       *)
          Untested,    (* how many packets behind the place where a resync *)
                       (* begins a packet may start that it never tests    *)
          PtsOffset,   (* presentation start taken from the CLPI           *)
          MayFail      (* whether a read or a seek may fail                *)

ASSUME PidsAssumption == IsFiniteSet(Pids)
ASSUME BlockAssumption == BlockCells \in Nat \ {0}
ASSUME ResyncAssumption == ResyncCells \in Nat \ {0} /\ Untested \subseteq Nat
ASSUME PtsOffsetAssumption == PtsOffset \in Nat
ASSUME MayFailAssumption == MayFail \in BOOLEAN

(* A segment id is << d, k >>: segment k of display set d.                 *)
DisplaySets == DOMAIN Written

(* What is written is divided before each PCS and behind each END, and no  *)
(* display set has a PCS or an END elsewhere.                              *)
Segment == [type : SegmentType, comp : CompositionState \cup {None}]

ASSUME WrittenAssumption ==
  \A d \in DisplaySets :
    /\ Written[d] \in Seq(Segment) /\ Written[d] # << >>
    /\ \A k \in 1 .. Len(Written[d]) : /\ Written[d][k].type = "PCS" <=> k = 1
                                       /\ Written[d][k].type = "END" => k = Len(Written[d])

(* A piece of a segment: part tells the how manieth, of how many there     *)
(* are.  The first piece begins with the header.                           *)
Pieces == [id : DisplaySets \X (Nat \ {0}), type : SegmentType,
          comp : CompositionState \cup {None}, part : Nat \ {0}, of : Nat \ {0},
          pts : Nat]
Cells == [pid : Nat, pusi : BOOLEAN, pieces : Seq(Pieces)]

Opens(a) == a.id[2] = 1 /\ a.part = 1

(* b is what is written behind a: the rest of its segment, the rest of its *)
(* display set, another display set.                                       *)
Continues(a, b) ==
  IF a.part < a.of THEN b.id = a.id /\ b.part = a.part + 1 /\ b.of = a.of
  ELSE IF a.id[2] < Len(Written[a.id[1]])
  THEN b.id = << a.id[1], a.id[2] + 1 >> /\ b.part = 1
  ELSE Opens(b)

(* Every display set is written once, on one PID and in order; its first   *)
(* segment begins a PES packet, and a PES packet begins with a header and  *)
(* has one time.  An END is only its header, so it is never divided.       *)
PiecesOf(f, i) == f[i].pieces
IsPiece(f, i, n) ==
  LET a == PiecesOf(f, i)[n]
  IN  /\ a.id[2] <= Len(Written[a.id[1]])
      /\ a.type = Written[a.id[1]][a.id[2]].type
      /\ a.comp = Written[a.id[1]][a.id[2]].comp
      /\ a.part <= a.of /\ (a.type = "END" => a.of = 1)
      /\ a.pts = PiecesOf(f, i)[1].pts
      /\ Opens(a) => f[i].pusi /\ n = 1
      /\ \A j \in 1 .. Len(f) : \A m \in 1 .. Len(PiecesOf(f, j)) :
           LET b == PiecesOf(f, j)[m]
           IN  a.id = b.id /\ a.part = b.part => i = j /\ n = m
IsFile(f) ==
  /\ f \in Seq(Cells)
  /\ \A i \in 1 .. Len(f) :
       /\ \A n \in 1 .. Len(PiecesOf(f, i)) : IsPiece(f, i, n)
       /\ \A n \in 1 .. Len(PiecesOf(f, i)) - 1 :
            Continues(PiecesOf(f, i)[n], PiecesOf(f, i)[n + 1])
       /\ f[i].pusi /\ PiecesOf(f, i) # << >> => PiecesOf(f, i)[1].part = 1
       /\ \A j \in i + 1 .. Len(f) :
            /\ f[i].pid = f[j].pid /\ PiecesOf(f, i) # << >> /\ PiecesOf(f, j) # << >>
            /\ \A k \in i + 1 .. j - 1 : f[k].pid = f[i].pid => PiecesOf(f, k) = << >>
            => Continues(PiecesOf(f, i)[Len(PiecesOf(f, i))], PiecesOf(f, j)[1])

ASSUME FilesAssumption == \A f \in Files : IsFile(f)

VARIABLES file, junk,     (* the file; they never change                   *)
          pos,            (* reader.position()                             *)
          phase,          (* "top" of the loop of next_display_set, or     *)
                          (* "scan"ning the packets of a block             *)
          off,            (* the cell the scan of the block is at          *)
          hi,             (* the last cell of the block                    *)
          buffer, hasData,(* PesReassembler of each PID                    *)
          asm,            (* DisplaySetAssembler of each PID               *)
          pending,        (* display sets not yet handed out               *)
          flushed,        (* no more scanning                              *)
          result,         (* "more" until the iterator returned None       *)
                          (* ("end") or an error ("err")                   *)
          yielded,        (* history: the display sets handed out          *)
          start,          (* history: where scanning started               *)
          ahead,          (* history: the display sets each PID has behind *)
                          (* that position                                 *)
          scanned,        (* history: the cells whose packet was processed *)
          blockStarts     (* history: the first cell of every block read   *)

input  == << file, junk, start, ahead >>
reader == << pos, phase, off, hi, scanned, blockStarts >>
demux  == << buffer, hasData, asm >>
queue  == << pending, yielded >>
vars   == << input, reader, demux, queue, flushed, result >>
-----------------------------------------------------------------------------
(* PES reassembly and parsing.                                             *)
SaturatingSub(a, b) == IF a < b THEN 0 ELSE a - b

(* parse_pes_for_pgs and parse_raw_segments, round by round: the pieces of *)
(* a PES packet are taken as segments one after the other; a segment whose *)
(* length reaches past the end, or a piece that is no segment header, ends *)
(* the parse.  whole says whether the segment got its own bytes.           *)
SegmentAt(buf, i) ==
  [id |-> buf[i].id, type |-> buf[i].type, comp |-> buf[i].comp,
   pts |-> SaturatingSub(buf[1].pts, PtsOffset),
   whole |-> \A k \in 1 .. buf[i].of :
               buf[i + k - 1].id = buf[i].id /\ buf[i + k - 1].part = k]

ParseStep(buf, p) ==
  IF \/ p.at > Len(buf)
     \/ p.at <= Len(buf) /\ (buf[p.at].part # 1 \/ p.at + buf[p.at].of > Len(buf) + 1)
  THEN p
  ELSE [at |-> p.at + buf[p.at].of, segments |-> Append(p.segments, SegmentAt(buf, p.at))]

(* The states of the loop, each the only member of its set.                *)
Parsed(buf) ==
  LET parsed[k \in 0 .. Len(buf)] ==
        IF k = 0 THEN {[at |-> 1, segments |-> << >>]}
        ELSE {ParseStep(buf, p) : p \in parsed[k - 1]}
  IN  parsed[Len(buf)]

ParsePes(buf) == (CHOOSE p \in Parsed(buf) : TRUE).segments

(* What the PES reassembler of pid p emits when it emits.                  *)
Emitted(p) == IF hasData[p] THEN ParsePes(buffer[p]) ELSE << >>

Tagged(p, sets) == [k \in 1 .. Len(sets) |-> [pid |-> p, set |-> sets[k]]]

(* Mutant of ProcessPacket: the emitted PES packet stays in the buffer.    *)
ProcessPacketKeepBuffer(cell) ==
  IF cell.pid \notin Pids \/ cell.pieces = << >>
  THEN UNCHANGED << demux, pending >>
  ELSE LET p   == cell.pid
           fed == AsmFeed(asm[p], IF cell.pusi THEN Emitted(p) ELSE << >>)
       IN  /\ hasData' = [hasData EXCEPT ![p] = @ \/ cell.pusi]
           /\ buffer' = [buffer EXCEPT ![p] = @ \o cell.pieces]
           /\ asm' = [asm EXCEPT ![p] = fed.asm]
           /\ pending' = pending \o Tagged(p, fed.sets)

(* A packet of an active PID with payload: PesReassembler::push, then the  *)
(* segments it returned go to the display set assembler.                   *)
ProcessPacket(cell) ==
  IF cell.pid \notin Pids \/ cell.pieces = << >>
  THEN UNCHANGED << demux, pending >>
  ELSE LET p    == cell.pid
           segs == IF cell.pusi THEN Emitted(p) ELSE << >>
           fed  == AsmFeed(asm[p], segs)
           kept == IF cell.pusi THEN << >> ELSE buffer[p]
       IN  /\ hasData' = [hasData EXCEPT ![p] = @ \/ cell.pusi]
           /\ buffer' = [buffer EXCEPT ![p] =
                           IF hasData'[p] THEN kept \o cell.pieces ELSE kept]
           /\ asm' = [asm EXCEPT ![p] = fed.asm]
           /\ pending' = pending \o Tagged(p, fed.sets)
-----------------------------------------------------------------------------
(* Sync detection.                                                         *)
InSync(i) == i \in 1 .. Len(file) /\ i \notin junk
SyncPair(i) == InSync(i) /\ InSync(i + 1)

(* ts_packet::resync from cell c on leaves the reader at q, before the     *)
(* first of two cells in sync; when it finds none within its limit, its    *)
(* callers seek to the end of the file.                                    *)
ResyncLast(c) ==
  IF c + ResyncCells <= Len(file) THEN c + ResyncCells - 2 ELSE Len(file) - 1

(* The search reads chunks that overlap by one packet.  With 192 bytes to  *)
(* a packet, of which the sync byte is the fifth, the starts in the last   *)
(* four bytes of what a chunk tests are in no chunk with both sync bytes;  *)
(* with 188 there are none.  Where they fall depends on the byte at which  *)
(* the search begins, so any of Untested may be tested all the same.       *)
ResyncsTo(c, q) ==
  \E blind \in SUBSET Untested :
    LET found(i) == SyncPair(i) /\ i - c \notin blind
    IN  \/ /\ q + 1 \in c .. ResyncLast(c)
           /\ found(q + 1)
           /\ \A i \in c .. q : ~ found(i)
        \/ /\ \A i \in c .. ResyncLast(c) : ~ found(i)
           /\ q = Len(file)

(* The sync byte of this cell lies in the block that ends with cell h.     *)
Visible(i, h) == i <= h + 1
-----------------------------------------------------------------------------
(* What the file holds.                                                    *)
CellsOf(d) == {i \in DOMAIN file :
                 \E k \in DOMAIN file[i].pieces : file[i].pieces[k].id[1] = d}
BeginsIn(id, i) == \E k \in DOMAIN file[i].pieces :
                     file[i].pieces[k].id = id /\ file[i].pieces[k].part = 1
FirstCell(id) == CHOOSE i \in DOMAIN file : BeginsIn(id, i)
TrackOf(d) == file[FirstCell(<< d, 1 >>)].pid

(* Display set d was written completely: PCS of a known state to END.      *)
Complete(d) == IsRun(Written[d], 1, Len(Written[d]))

(* The file holds display set d from its PCS to its END, on one PID.       *)
Held(d) ==
  \E i, j \in DOMAIN file : /\ i <= j /\ file[i].pid = file[j].pid
                            /\ BeginsIn(<< d, 1 >>, i)
                            /\ BeginsIn(<< d, Len(Written[d]) >>, j)

(* The complete display sets of PID p that begin behind position from.     *)
AheadOf(p, from) ==
  LET own == {d \in DisplaySets : /\ Complete(d) /\ TrackOf(d) = p
                                  /\ FirstCell(<< d, 1 >>) > from}
      rank(d) == Cardinality({e \in own : FirstCell(<< e, 1 >>) < FirstCell(<< d, 1 >>)})
  IN  [k \in 1 .. Cardinality(own) |-> CHOOSE d \in own : rank(d) = k - 1]
-----------------------------------------------------------------------------
Init ==
  /\ file \in Files
  /\ junk \in JunkSets /\ junk \subseteq 1 .. Len(file)
  /\ start \in 0 .. Len(file)
  /\ ahead = [p \in Pids |-> AheadOf(p, start)]
  /\ pos = start
  /\ phase = "top" /\ off = 0 /\ hi = 0
  /\ buffer = [p \in Pids |-> << >>]
  /\ hasData = [p \in Pids |-> FALSE]
  /\ asm = [p \in Pids |-> AsmNew]
  /\ pending = << >> /\ yielded = << >>
  /\ flushed = FALSE
  /\ result = "more"
  /\ scanned = {} /\ blockStarts = {}

AtTop == result = "more" /\ phase = "top"
Scanning == result = "more" /\ phase = "scan"

(* next_display_set hands out the front of the queue.                      *)
PopPending ==
  /\ AtTop /\ pending # << >>
  /\ yielded' = Append(yielded, Head(pending))
  /\ pending' = Tail(pending)
  /\ UNCHANGED << input, reader, demux, flushed, result >>

(* Nothing queued and nothing left to scan: the iterator returns None.     *)
Finish ==
  /\ AtTop /\ pending = << >> /\ flushed
  /\ result' = "end"
  /\ UNCHANGED << input, reader, demux, queue, flushed >>

(* Mutants of FlushAll: the buffered PES packets are dropped; the flag is  *)
(* not set.                                                                *)
FlushAllWithoutPes ==
  /\ AtTop /\ pending = << >> /\ ~ flushed /\ pos >= Len(file)
  /\ flushed' = TRUE
  /\ UNCHANGED << input, reader, demux, queue, result >>

FlushAllForever ==
  /\ AtTop /\ pending = << >> /\ ~ flushed /\ pos >= Len(file)
  /\ UNCHANGED vars

(* flush_all at the end of the file: the PES packets still being collected *)
(* are emitted, PID after PID in the arbitrary order of the hash map.      *)
Orders == {o \in [1 .. Cardinality(Pids) -> Pids] :
             \A i, j \in DOMAIN o : i # j => o[i] # o[j]}

FlushAll ==
  /\ AtTop /\ pending = << >> /\ ~ flushed /\ pos >= Len(file)
  /\ LET fed == [p \in Pids |-> AsmFeed(asm[p], Emitted(p))]
     IN  /\ asm' = [p \in Pids |-> fed[p].asm]
         /\ \E o \in Orders :
              pending' = Joined([k \in 1 .. Cardinality(Pids) |-> Tagged(o[k], fed[o[k]].sets)])
  /\ buffer' = [p \in Pids |-> IF hasData[p] THEN << >> ELSE buffer[p]]
  /\ hasData' = [p \in Pids |-> FALSE]
  /\ flushed' = TRUE
  /\ UNCHANGED << input, reader, yielded, result >>

BlockEnd == IF pos + BlockCells < Len(file) THEN pos + BlockCells ELSE Len(file)

(* scan_next_block reads a block that starts with a sync byte.             *)
BeginBlock ==
  /\ AtTop /\ pending = << >> /\ ~ flushed /\ pos < Len(file)
  /\ InSync(pos + 1)
  /\ hi' = BlockEnd
  /\ off' = pos + 1
  /\ phase' = "scan"
  /\ blockStarts' = blockStarts \cup {pos + 1}
  /\ UNCHANGED << input, pos, scanned, demux, queue, flushed, result >>

(* The block starts with junk.  No stride of a packet within its first     *)
(* packet holds two sync bytes, and the reader already stands behind the   *)
(* block and the visible bytes of the next cell: the search goes on there. *)
BeginBlockOutOfSync ==
  /\ AtTop /\ pending = << >> /\ ~ flushed /\ pos < Len(file)
  /\ ~ InSync(pos + 1)
  /\ \E q \in 0 .. Len(file) : ResyncsTo(BlockEnd + 2, q) /\ pos' = q
  /\ blockStarts' = blockStarts \cup {pos + 1}
  /\ UNCHANGED << input, phase, off, hi, scanned, demux, queue, flushed,
                  result >>

ScanPacket ==
  /\ Scanning /\ off <= hi /\ InSync(off)
  /\ ProcessPacket(file[off])
  /\ scanned' = scanned \cup {off}
  /\ off' = off + 1
  /\ UNCHANGED << input, pos, phase, hi, blockStarts, yielded, flushed,
                  result >>

(* Sync lost inside the block.  find_sync_start looks one packet ahead for *)
(* two sync bytes it can see; else the reader goes back to just behind the *)
(* loss, resyncs from there, and a new block starts.                       *)
SkipJunk ==
  /\ Scanning /\ off <= hi /\ ~ InSync(off)
  /\ SyncPair(off + 1) /\ Visible(off + 2, hi)
  /\ off' = off + 1
  /\ UNCHANGED << input, pos, phase, hi, scanned, blockStarts, demux, queue,
                  flushed, result >>

(* Mutants of LoseSync: the reader is not moved back to the loss before    *)
(* the search; the reader is left where the search started.                *)
LoseSyncFromBlockEnd ==
  /\ Scanning /\ off <= hi /\ ~ InSync(off)
  /\ ~ (SyncPair(off + 1) /\ Visible(off + 2, hi))
  /\ \E q \in 0 .. Len(file) : ResyncsTo(hi + 2, q) /\ pos' = q
  /\ phase' = "top"
  /\ UNCHANGED << input, off, hi, scanned, blockStarts, demux, queue, flushed,
                  result >>

LoseSyncStayingPut ==
  /\ Scanning /\ off <= hi /\ ~ InSync(off)
  /\ ~ (SyncPair(off + 1) /\ Visible(off + 2, hi))
  /\ phase' = "top"
  /\ UNCHANGED << input, pos, off, hi, scanned, blockStarts, demux, queue,
                  flushed, result >>

LoseSync ==
  /\ Scanning /\ off <= hi /\ ~ InSync(off)
  /\ ~ (SyncPair(off + 1) /\ Visible(off + 2, hi))
  /\ \E q \in 0 .. Len(file) : ResyncsTo(off + 1, q) /\ pos' = q
  /\ phase' = "top"
  /\ UNCHANGED << input, off, hi, scanned, blockStarts, demux, queue, flushed,
                  result >>

(* Mutant of EndBlock: one packet too many is given back.                  *)
EndBlockOneBack ==
  /\ Scanning /\ off > hi
  /\ pos' = hi - 1
  /\ phase' = "top"
  /\ UNCHANGED << input, off, hi, scanned, blockStarts, demux, queue, flushed,
                  result >>

(* The block is used up; the partial packet behind it is given back.       *)
EndBlock ==
  /\ Scanning /\ off > hi
  /\ pos' = hi
  /\ phase' = "top"
  /\ UNCHANGED << input, off, hi, scanned, blockStarts, demux, queue, flushed,
                  result >>

(* A read or seek of scan_next_block fails: the error is returned, and the *)
(* Extractor drops the scanner with whatever the block had queued.         *)
Fail ==
  /\ MayFail
  /\ \/ AtTop /\ pending = << >> /\ ~ flushed /\ pos < Len(file)
     \/ Scanning /\ off <= hi /\ ~ InSync(off)
          /\ ~ (SyncPair(off + 1) /\ Visible(off + 2, hi))
     \/ Scanning /\ off > hi /\ hi < Len(file)
  /\ flushed' = TRUE
  /\ result' = "err"
  /\ UNCHANGED << input, reader, demux, queue >>

Next == \/ PopPending \/ Finish \/ FlushAll
        \/ BeginBlock \/ BeginBlockOutOfSync
        \/ ScanPacket \/ SkipJunk \/ LoseSync \/ EndBlock
        \/ Fail

Spec == Init /\ [][Next]_vars

(* next_display_set loops until it can return, and the consumer drains the *)
(* iterator; that reads fail is not relied on.                             *)
FairSpec ==
  Spec /\ WF_vars(\/ PopPending \/ Finish \/ FlushAll
                  \/ BeginBlock \/ BeginBlockOutOfSync
                  \/ ScanPacket \/ SkipJunk \/ LoseSync \/ EndBlock)
-----------------------------------------------------------------------------
PtsOf(d) ==
  LET pieces == file[FirstCell(<< d, 1 >>)].pieces
  IN  pieces[CHOOSE k \in DOMAIN pieces : pieces[k].id = << d, 1 >>].pts

(* y is display set d as written, at its time in the presentation.         *)
IsSet(y, d) ==
  /\ y.set.pts = SaturatingSub(PtsOf(d), PtsOffset)
  /\ Len(y.set.segments) = Len(Written[d])
  /\ \A k \in DOMAIN y.set.segments :
       y.set.segments[k].id = << d, k >> /\ y.set.segments[k].whole

Out == yielded \o pending
FirstId(y) == y.set.segments[1].id
LastId(y) == y.set.segments[Len(y.set.segments)].id
-----------------------------------------------------------------------------
TypeOK ==
  /\ junk \subseteq 1 .. Len(file)
  /\ pos \in 0 .. Len(file) /\ start \in 0 .. Len(file)
  /\ phase \in {"top", "scan"}
  /\ off \in 0 .. Len(file) + 1 /\ hi \in 0 .. Len(file)
  /\ DOMAIN buffer = Pids /\ hasData \in [Pids -> BOOLEAN]
  /\ DOMAIN asm = Pids
  /\ flushed \in BOOLEAN /\ result \in {"more", "end", "err"}
  /\ scanned \subseteq 1 .. Len(file) /\ blockStarts \subseteq 1 .. Len(file)

(* A display set that is handed out is one the file holds, segment for     *)
(* segment, byte for byte and with its own pts, wherever scanning started; *)
(* segments of two sets are mixed only when a packet of that PID between   *)
(* them was lost.                                                          *)
GenuineUnlessPacketLost ==
  \A k \in DOMAIN Out :
    LET y == Out[k]
    IN  \/ \E d \in DisplaySets : Complete(d) /\ IsSet(y, d)
        \/ \E i \in FirstCell(FirstId(y)) .. FirstCell(LastId(y)) :
             file[i].pid = y.pid /\ i \notin scanned

(* When the iterator is exhausted, every complete display set the file     *)
(* holds whose packets were all scanned has been handed out intact:        *)
(* neither the loss of neighbouring packets nor the end of the file costs  *)
(* it.                                                                     *)
ScannedSetsAreYielded ==
  result = "end" =>
    \A d \in DisplaySets :
      Complete(d) /\ Held(d) /\ TrackOf(d) \in Pids /\ CellsOf(d) \subseteq scanned =>
        \E k \in DOMAIN yielded : IsSet(yielded[k], d)

(* The display sets of one track come in file order and none comes twice.  *)
TrackOrder ==
  \A j, k \in DOMAIN Out :
    j < k /\ Out[j].pid = Out[k].pid =>
      FirstCell(LastId(Out[j])) < FirstCell(FirstId(Out[k]))

(* A readable packet behind the scanner was skipped only because its block *)
(* began out of sync, or because from the place where sync was lost no two *)
(* packets in sync follow each other up to it or within the resync limit,  *)
(* but for those whose start no chunk of the search tests.                 *)
SkippedForCause ==
  LET badBlocks == blockStarts \cap junk
  IN  \A i \in start + 1 .. (IF phase = "scan" THEN off - 1 ELSE pos) :
        InSync(i) /\ i \notin scanned =>
          \/ \E b \in badBlocks : i \in b .. b + BlockCells
          \/ \E c \in {j + 1 : j \in junk}
                     \cup {b + BlockCells + 1 : b \in badBlocks} :
               c <= i /\ \A m \in c .. i :
                           m <= ResyncLast(c) /\ m - c \notin Untested => ~ SyncPair(m)

(* No packet is pushed into the reassemblers twice.                        *)
NeverRescans ==
  [][phase = "scan" /\ InSync(off) /\ off' = off + 1 => off \notin scanned]_vars

(* A block that has been worked off leaves the reader further on: neither  *)
(* the rewind of a partial packet nor a resync goes back to its start.     *)
BlocksAdvance ==
  [][pos' # pos \/ (phase = "scan" /\ phase' = "top" /\ result' = result)
       => pos' > pos]_vars

(* The iterator comes to an end on every input.                            *)
Terminates == <>(result # "more")
=============================================================================
