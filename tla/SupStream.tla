----------------------------- MODULE SupStream -----------------------------
(***************************************************************************)
(* SupExtractorState of src/src/sup/stream.rs: the segments of a .sup file *)
(* are read one after the other and assembled into display sets, from      *)
(* where the detection of the format left the reader.  A time range        *)
(* estimates where its start is from the first and the last pts of the     *)
(* file, and searches from there for the next "PG".  Also the counting     *)
(* pre-scan, which walks the same headers without an assembler.            *)
(*                                                                         *)
(* A file is a sequence of cells.  A header is three cells, "P", "G" and   *)
(* one for the rest of its 13 bytes; a payload is any number of cells.  A  *)
(* cell is a record of its byte ("x" if neither P nor G), and of what a    *)
(* reader finds there that takes it for the rest of a header: pts, type    *)
(* ("?" if unknown), len and, decoded from the payload that follows, comp  *)
(* (as in PgsAssembly) and objs, the number of composition objects as an   *)
(* Option, {} for a payload shorter than 11 bytes.                         *)
(***************************************************************************)
EXTENDS PgsAssembly, FiniteSets

CONSTANTS Files,       (* the files                                        *)
          Starts,      (* starts of a time range, in ms, as Options        *)
          TicksPerMs,  (* 90                                               *)
          TailCells,   (* SUP_TAIL_SCAN, 64 KiB                            *)
          MarginCap,   (* the margin in front of the estimate: 2 MiB, but  *)
          MarginPart,  (* no more than a hundredth of the file             *)
          ProbeCells,  (* the 1152 bytes detect_packet_format reads        *)
          MayFail      (* whether reads and seeks may fail                 *)

HEADER_SIZE == 3

FileCell == [byte : {"P", "G", "x"}, pts : Nat, type : SegmentType \cup {"?"},
             len : Nat, comp : CompositionState \cup {None}, objs : SUBSET Nat]

Least(a, b) == IF a < b THEN a ELSE b
Minus(a, b) == IF a > b THEN a - b ELSE 0     (* saturating_sub *)

MagicAt(f, i) == /\ i + HEADER_SIZE <= Len(f)
                 /\ f[i + 1].byte = "P" /\ f[i + 2].byte = "G"
Fields(f, i) == f[i + HEADER_SIZE]
Behind(f, i) == i + HEADER_SIZE + Fields(f, i).len

(* Files that open takes for subtitle files: they begin with "PG" and,     *)
(* beyond these cells, are not in sync as transport packets are.           *)
ASSUME FilesAssumption == \A f \in Files : f \in Seq(FileCell) /\ MagicAt(f, 0)
ASSUME StartsAssumption == \A s \in Starts : s \subseteq Nat
ASSUME PositiveAssumption == TicksPerMs \in Nat \ {0} /\ MarginPart \in Nat \ {0}
ASSUME SizesAssumption == TailCells \in Nat /\ MarginCap \in Nat /\ ProbeCells \in Nat
ASSUME MayFailAssumption == MayFail \in BOOLEAN

VARIABLES file, start,   (* fixed at the start                             *)
          opened,        (* whether set_time_range is behind               *)
          at,            (* the reader's place in the file                 *)
          asm, yielded,
          result,        (* "more" until None ("end") or an error ("err")  *)
          aim,           (* history: where set_time_range began to search  *)
                         (* for "PG", or where the reader was left         *)
          strayed,       (* history: whether it was left there by the      *)
                         (* detection or by a failure of set_time_range    *)
          content        (* history: the display sets of the file          *)

config == << file, start, content >>
vars == << config, opened, at, asm, yielded, result, aim, strayed >>
-----------------------------------------------------------------------------
(* find_last_sup_pts, as an Option.                                        *)
FindLastPts(data) ==
  LET from[i \in 0 .. Len(data)] ==
        IF i + HEADER_SIZE > Len(data) THEN {}
        ELSE IF MagicAt(data, i)
             THEN LET later == from[Least(Behind(data, i), Len(data))]
                  IN  IF later # {} THEN later ELSE {Fields(data, i).pts}
             ELSE from[i + 1]
  IN  from[0]

(* Mutant of ScanToPgMagic: it stops at the first "P".                     *)
ScanToP(f, i) ==
  LET land[k \in 0 .. Len(f)] ==
        IF k = Len(f) THEN k ELSE IF f[k + 1].byte = "P" THEN k ELSE land[k + 1]
  IN  IF i > Len(f) THEN i ELSE land[i]

(* scan_to_pg_magic.  The byte behind a "P" is not looked at again.        *)
ScanToPgMagic(f, i) ==
  LET land[k \in 0 .. Len(f)] ==
        IF k = Len(f) THEN k
        ELSE IF f[k + 1].byte # "P" THEN land[k + 1]
        ELSE IF k + 1 = Len(f) THEN Len(f)
        ELSE IF f[k + 2].byte = "G" THEN k
        ELSE land[k + 2]
  IN  IF i > Len(f) THEN i ELSE land[i]

(* The place set_time_range seeks to, as an Option: {} when the file has   *)
(* no readable first header or does not last.                              *)
Estimate(f, ms) ==
  IF ~ MagicAt(f, 0) THEN {}
  ELSE LET tail == SubSeq(f, Minus(Len(f), TailCells) + 1, Len(f))
           margin == Least(MarginCap, Len(f) \div MarginPart)
           to(duration) ==
             Minus((Len(f) * ms * TicksPerMs) \div duration, margin)
       IN  {to(last - Fields(f, 0).pts) :
              last \in {l \in FindLastPts(tail) : l > Fields(f, 0).pts}}

(* The segment a header at i and its payload make.                         *)
SegmentAt(f, i) ==
  [type |-> Fields(f, i).type, pts |-> Fields(f, i).pts,
   comp |-> Fields(f, i).comp,
   payload |-> SubSeq(f, i + HEADER_SIZE + 1, Behind(f, i))]

(* A whole segment of a known type is at i.                                *)
Readable(f, i) == /\ MagicAt(f, i)
                  /\ Fields(f, i).type \in SegmentType
                  /\ Behind(f, i) <= Len(f)
-----------------------------------------------------------------------------
(* The counts after a segment with the header h.                           *)
Tally(c, h) ==
  CASE h.type = "PCS" /\ h.objs # {0} -> [c EXCEPT !.content = @ + 1]
    [] h.type = "PCS" /\ h.objs = {0} -> [c EXCEPT !.clear = @ + 1]
    [] h.type = "END" -> [c EXCEPT !.total = @ + 1]
    [] OTHER -> c

(* What count_display_sets returns, as an Option.  A payload is only read  *)
(* for a PCS; seeking over another one succeeds also where the file is cut *)
(* off.                                                                    *)
CountDisplaySets(f) ==
  LET countable(i) ==
        /\ MagicAt(f, i) /\ Fields(f, i).type \in SegmentType
        /\ Fields(f, i).type = "PCS" =>
             Fields(f, i).objs # {} /\ Behind(f, i) <= Len(f)
      from[i \in 0 .. Len(f)] ==
        IF i = Len(f) THEN {[total |-> 0, content |-> 0, clear |-> 0]}
        ELSE IF countable(i)
             THEN {Tally(c, Fields(f, i)) : c \in from[Least(Behind(f, i), Len(f))]}
             ELSE {}
  IN  from[0]
-----------------------------------------------------------------------------
(* The segments of a file read from its beginning as far as they are whole *)
(* and, from them, the display sets with the place where each begins.      *)
SegmentsOf(f) ==
  LET from[i \in 0 .. Len(f)] ==
        IF Readable(f, i) THEN << i >> \o from[Behind(f, i)] ELSE << >>
  IN  from[0]

ContentOf(f) ==
  LET places == SegmentsOf(f)
      log == [k \in DOMAIN places |-> SegmentAt(f, places[k])]
      upTo[j \in 0 .. Len(log)] ==
        IF j = 0 THEN << >>
        ELSE LET opens == {i \in 1 .. j - 1 : IsRun(log, i, j)}
             IN  IF opens = {} THEN upTo[j - 1]
                 ELSE LET i == CHOOSE i \in opens : TRUE
                      IN  Append(upTo[j - 1],
                                 [begin |-> places[i], set |-> RunSet(log, i, j)])
  IN  upTo[Len(log)]
-----------------------------------------------------------------------------
(* Where detect_format leaves the reader of a subtitle file: at 0, but if  *)
(* the fifth byte, of the first pts, is a sync byte detect_packet_format   *)
(* reads on, its error is dropped and nothing seeks back.  A shorter file  *)
(* is left at its end, with the tracked position 0.                        *)
SYNC_BYTE == 71
DetectLeaves(f) ==
  LET far == Least(ProbeCells, Len(f))
  IN  IF (Fields(f, 0).pts \div 256) % 256 # SYNC_BYTE THEN {0}
      ELSE IF MayFail THEN 0 .. far ELSE {far}

Init == /\ file \in Files /\ start \in Starts /\ content = ContentOf(file)
        /\ opened = FALSE /\ at \in DetectLeaves(file)
        /\ asm = AsmNew /\ yielded = << >> /\ result = "more"
        /\ aim = at /\ strayed = (at # 0)

(* set_time_range.  Without a start it leaves the reader where it is; with *)
(* one file_size corrects the tracked position, and when there is no       *)
(* estimate the stream begins at the beginning of the file.                *)
SetTimeRange ==
  /\ ~ opened /\ opened' = TRUE
  /\ LET to == UNION {Estimate(file, ms) : ms \in start}
     IN  \/ start = {} /\ UNCHANGED << at, aim, strayed >>
         \/ start # {} /\ to = {} /\ at' = 0 /\ aim' = 0 /\ strayed' = FALSE
         \/ \E place \in to : /\ at' = ScanToPgMagic(file, place)
                              /\ aim' = place /\ strayed' = FALSE
  /\ UNCHANGED << config, asm, yielded, result >>

(* Errors in set_time_range are dropped.  They leave the reader anywhere:  *)
(* file_size stays at the end when the way back fails, a failed seek stays *)
(* where it was, and after a failed read_bytes the tracked position is     *)
(* that before the read, so that in a file shorter than the tail seek_to   *)
(* at the end of the handler does nothing.                                 *)
SetTimeRangeFails ==
  /\ MayFail
  /\ ~ opened /\ opened' = TRUE /\ start # {}
  /\ at' \in 0 .. Len(file) /\ aim' = at'
  /\ strayed' = TRUE
  /\ UNCHANGED << config, asm, yielded, result >>

(* One pass through the loop of next_display_set.                          *)
Reading == opened /\ result = "more"

ReadSegment ==
  /\ Reading
  /\ Readable(file, at)
  /\ LET segment == SegmentAt(file, at)
     IN  /\ asm' = AsmPush(asm, segment)
         /\ yielded' = yielded \o AsmOut(asm, segment)
  /\ at' = Behind(file, at)
  /\ UNCHANGED << config, opened, result, aim, strayed >>

Stop(how) == /\ result' = how
             /\ UNCHANGED << config, opened, at, asm, yielded, aim, strayed >>

(* Mutant of CleanEnd: a header cut off at the end of the file is no error.*)
LenientEnd == /\ Reading
              /\ at + HEADER_SIZE > Len(file)
              /\ Stop("end")

(* Mutant of CleanEnd: a reader behind the end is not at the end.          *)
ExactEnd == /\ Reading
            /\ at = Len(file)
            /\ Stop("end")

(* No byte is left, or the reader is behind the end of the file.           *)
CleanEnd == /\ Reading
            /\ at >= Len(file)
            /\ Stop("end")

(* A header that is cut off, has another magic or an unknown type, or a    *)
(* payload that is cut off.                                                *)
Malformed == /\ Reading
             /\ at < Len(file) /\ ~ Readable(file, at)
             /\ Stop("err")

ReadFails == /\ MayFail
             /\ Reading
             /\ Stop("err")

Next == \/ SetTimeRange \/ SetTimeRangeFails
        \/ ReadSegment \/ CleanEnd \/ Malformed \/ ReadFails

Spec == Init /\ [][Next]_vars

(* The consumer drains the iterator; that reads fail is not relied on.     *)
FairSpec ==
  Spec /\ WF_vars(SetTimeRange \/ ReadSegment \/ CleanEnd \/ Malformed)
-----------------------------------------------------------------------------
(* No payload holds a "PG" and none ends in "P".                           *)
Unambiguous(f) ==
  LET places == SegmentsOf(f)
      heads == {places[k] : k \in DOMAIN places}
  IN  /\ Len(f) = 0 \/ \E i \in heads : Behind(f, i) = Len(f)
      /\ \A i \in 0 .. Len(f) - 2 :
           f[i + 1].byte = "P" /\ f[i + 2].byte = "G" => i \in heads
      /\ \A i \in heads : i > 0 => f[i].byte # "P"

SetsFrom(place) ==
  LET behind == Only(content, {c \in Members(content) : c.begin >= place})
  IN  [k \in DOMAIN behind |-> behind[k].set]

(* The iterator over the whole file: no time range, and the detection left *)
(* the reader at the beginning.                                            *)
FromBeginning == start = {} /\ aim = 0
-----------------------------------------------------------------------------
(* The display sets handed out are those that begin at the estimated place *)
(* or behind it, in file order and from the first of them on, and at the   *)
(* end of the iterator all of them: landing inside a segment or in the     *)
(* middle of a display set invents none and loses none behind.  The same   *)
(* holds wherever the detection of the format, or a failed read or seek of *)
(* set_time_range, leaves the reader, so an end is never reported in the   *)
(* middle of the file.                                                     *)
YieldsFromAim ==
  opened /\ Unambiguous(file) =>
    LET expected == SetsFrom(aim)
    IN  /\ strayed \/ at >= Len(file) \/ Readable(file, at)
        /\ Len(yielded) <= Len(expected)
        /\ yielded = SubSeq(expected, 1, Len(yielded))
        /\ result = "end" => yielded = expected

(* count_display_sets, which reads from the beginning, against the         *)
(* iterator over the whole file, if that began there too: where the        *)
(* iterator comes to its end the count succeeds, unless a PCS is too short *)
(* to be counted, and no display set handed out is missing from it; where  *)
(* the iterator fails so does the count, unless only the payload of the    *)
(* last segment is cut off, which the count seeks over.  content + clear   *)
(* == total, said without a condition (stream.rs:191, docs/NDJSON.md:56),  *)
(* holds where each PCS opens a display set of its own and each END closes *)
(* one: two PCS in a row or an END alone break it.                         *)
CountMatchesIterator ==
  FromBeginning /\ result # "more" =>
    LET counts == CountDisplaySets(file)
        places == SegmentsOf(file)
        ofType(t) == Cardinality({k \in DOMAIN places : Fields(file, places[k]).type = t})
        shortPcs == \E k \in DOMAIN places :
                      /\ Fields(file, places[k]).type = "PCS"
                      /\ Fields(file, places[k]).objs = {}
    IN  /\ result = "end" => (counts # {} <=> ~ shortPcs)
        /\ counts # {} /\ at < Len(file) /\ ~ Readable(file, at) =>
             MagicAt(file, at) /\ Behind(file, at) > Len(file)
        /\ \A c \in counts :
             /\ Len(yielded) <= c.total /\ Len(yielded) <= c.content + c.clear
             /\ result = "end" /\ Len(content) = ofType("PCS") /\ Len(content) = ofType("END")
                  => c.content + c.clear = c.total

(* Only display sets before the start of a time range are skipped          *)
(* (lib.rs:350), and none without one, where the segments are "read        *)
(* sequentially" (stream.rs:16) to a clean end of the file.                *)
RangeIsComplete ==
  result = "end" /\ Unambiguous(file) =>
    \A k \in DOMAIN content :
      (\A ms \in start : content[k].set.pts >= TicksPerMs * ms) =>
        \E m \in DOMAIN yielded : yielded[m] = content[k].set

(* The iterator comes to an end on every file.                             *)
Terminates == <>(result # "more")
=============================================================================
