----------------------------- MODULE PgsPayload -----------------------------
(***************************************************************************)
(* The segment payloads of src/src/pgs/payload.rs and the builder of       *)
(* display sets in src/src/pgs/display_set.rs.  A payload is the sequence  *)
(* of its fields, each a number, followed in an ODS by the bytes of the    *)
(* coded bitmap; a payload cut off lacks its last fields.  What parse      *)
(* returns is an Option.                                                   *)
(*                                                                         *)
(* A segment is a record of type, pts and payload.                         *)
(***************************************************************************)
EXTENDS PgsAssembly, Rle, SequencesExt

CONSTANTS U8,          (* 2^8: the counts in a payload are one byte        *)
          U16,         (* 2^16: a segment header has 16 bits for the       *)
                       (* length of its payload, counted in fields here    *)
          U32,         (* 2^32: the pts in a segment header has 32 bits    *)
          MaxPayload   (* MAX_SEGMENT_PAYLOAD: 65535                       *)

ODS_FIRST_HEADER == 11                      (* bytes of the first 6 fields *)
ODS_CONT_HEADER == 4                        (* bytes of the first 3 fields *)

ASSUME WidthAssumption ==
  /\ U8 \in Nat \ {0} /\ U16 \in Nat \ {0} /\ U32 \in Nat \ {0}
  /\ MaxPayload \in Nat /\ MaxPayload > ODS_FIRST_HEADER /\ MaxPayload < U16

StateOf(byte) == CASE byte = 0 -> "Normal" [] byte = 1 -> "AcquisitionPoint"
                   [] byte = 2 -> "EpochStart" [] OTHER -> None
ByteOf(state) == CHOOSE byte \in 0 .. 2 : StateOf(byte) = state

FrameRate == 16                             (* 0x10                        *)
-----------------------------------------------------------------------------
(* Presentation composition: 8 fields and the objects, of 5 fields each or *)
(* of 9 with a crop.  A crop is an Option of its 4 fields.  Of the flags   *)
(* of an object only the top bit is read, and the others are written as 0. *)
HEADER_FIELDS == 8
TopBit == U8 \div 2                         (* 0x80                        *)
Cropped(flags) == flags >= TopBit

PcsParse(p) ==
  IF Len(p) < HEADER_FIELDS \/ StateOf(p[5]) = None THEN {}
  ELSE LET end[k \in 0 .. p[8]] ==
             IF k = 0 THEN HEADER_FIELDS
             ELSE LET o == end[k - 1]
                  IN  IF o + 5 > Len(p) THEN Len(p) + 1
                      ELSE IF Cropped(p[o + 3]) THEN o + 9 ELSE o + 5
           object(k) ==
             LET o == end[k - 1]
             IN  [object_id |-> p[o + 1], window_id |-> p[o + 2],
                  x |-> p[o + 4], y |-> p[o + 5],
                  crop |-> IF Cropped(p[o + 3]) THEN {SubSeq(p, o + 6, o + 9)} ELSE {}]
       IN  IF end[p[8]] > Len(p) THEN {}
           ELSE {[number |-> p[4], state |-> StateOf(p[5]),
                  palette_only |-> p[6] = TopBit, video |-> << p[1], p[2] >>,
                  palette_id |-> p[7],
                  objects |-> [k \in 1 .. p[8] |-> object(k)]]}

(* Mutant of PcsToBytes: a crop is written but not flagged.                *)
PcsToBytesUnflagged(c) ==
  LET bytes(o) ==
        << o.object_id, o.window_id, 0, o.x, o.y >>
          \o (IF o.crop = {} THEN << >> ELSE CHOOSE f \in o.crop : TRUE)
  IN  << c.video[1], c.video[2], FrameRate, c.number, ByteOf(c.state),
         IF c.palette_only THEN TopBit ELSE 0, c.palette_id, Len(c.objects) % U8 >>
        \o Joined([k \in DOMAIN c.objects |-> bytes(c.objects[k])])

PcsToBytes(c) ==
  LET flag(b) == IF b THEN TopBit ELSE 0
      bytes(o) ==
        << o.object_id, o.window_id, flag(o.crop # {}), o.x, o.y >>
          \o (IF o.crop = {} THEN << >> ELSE CHOOSE f \in o.crop : TRUE)
  IN  << c.video[1], c.video[2], FrameRate, c.number, ByteOf(c.state),
         flag(c.palette_only), c.palette_id, Len(c.objects) % U8 >>
        \o Joined([k \in DOMAIN c.objects |-> bytes(c.objects[k])])

(* composition_state of a segment, as the assembler asks for it: the state *)
(* byte is there although the rest of the payload need not be.             *)
CompositionStateOf(s) ==
  IF s.type = "PCS" /\ Len(s.payload) >= 5 THEN StateOf(s.payload[5]) ELSE None
-----------------------------------------------------------------------------
(* Windows: a count and 5 fields each.  Palettes: id, version and 5 fields *)
(* for each entry, without a count.                                        *)
Chunk(p, from, size, k) == SubSeq(p, from + size * (k - 1) + 1, from + size * k)

WdsParse(p) ==
  IF Len(p) = 0 THEN {}
  ELSE IF 1 + 5 * p[1] > Len(p) THEN {}
  ELSE {[k \in 1 .. p[1] |-> Chunk(p, 1, 5, k)]}

WdsToBytes(windows) == << Len(windows) % U8 >> \o Joined(windows)

PdsParse(p) ==
  IF Len(p) < 2 \/ (Len(p) - 2) % 5 # 0 THEN {}
  ELSE {[id |-> p[1], version |-> p[2],
         entries |-> [k \in 1 .. (Len(p) - 2) \div 5 |-> Chunk(p, 2, 5, k)]]}

PdsToBytes(pds) == << pds.id, pds.version >> \o Joined(pds.entries)
-----------------------------------------------------------------------------
(* Objects.  Only a first fragment carries the length of the data and the  *)
(* dimensions.                                                             *)
SequenceFlag == [Continuation |-> 0, Last |-> 1, First |-> 2, Complete |-> 3]

IsFirst(sequence) == sequence >= SequenceFlag.First

OdsParse(p) ==
  IF Len(p) < 3 \/ ~ p[3] \in 0 .. 3 THEN {}
  ELSE IF ~ IsFirst(p[3])
  THEN {[id |-> p[1], version |-> p[2], sequence |-> p[3], data_length |-> 0,
         size |-> {}, rle |-> SubSeq(p, 4, Len(p))]}
  ELSE IF Len(p) < 6 THEN {}
  ELSE {[id |-> p[1], version |-> p[2], sequence |-> p[3], data_length |-> p[4],
         size |-> {<< p[5], p[6] >>}, rle |-> SubSeq(p, 7, Len(p))]}

(* The data length written is that of the fragment.                        *)
OdsToBytes(o) ==
  << o.id, o.version, o.sequence >>
    \o (IF IsFirst(o.sequence)
        THEN << Len(o.rle) + 4 >> \o (CHOOSE s \in o.size : TRUE)
        ELSE << >>)
    \o o.rle
-----------------------------------------------------------------------------
(* DisplaySetBuilder::build, the segments of a display set: composition,   *)
(* windows if any were given, palettes, and each bitmap as one ODS or in   *)
(* fragments.  {} when a bitmap has not the size it says.                  *)
Fragment(o, sequence, rle, total) ==
  [id |-> o.id, version |-> o.version, sequence |-> sequence,
   data_length |-> IF IsFirst(sequence) THEN total + 4 ELSE 0, rle |-> rle,
   size |-> IF IsFirst(sequence) THEN {<< o.width, o.height >>} ELSE {}]

(* Mutant of Fragments: two fragments have to do.                          *)
FragmentsDroppingTail(o, rle) ==
  LET firstMax == MaxPayload - ODS_FIRST_HEADER
      contMax == MaxPayload - ODS_CONT_HEADER
      part(sequence, from, to) ==
        Fragment(o, sequence, SubSeq(rle, from, to), Len(rle))
  IN  IF Len(rle) <= firstMax
      THEN << part(SequenceFlag.Complete, 1, Len(rle)) >>
      ELSE << part(SequenceFlag.First, 1, firstMax),
              part(SequenceFlag.Last, firstMax + 1,
                   Min({firstMax + contMax, Len(rle)})) >>

Fragments(o, rle) ==
  LET firstMax == MaxPayload - ODS_FIRST_HEADER
      contMax == MaxPayload - ODS_CONT_HEADER
      more == IF Len(rle) <= firstMax THEN 0
              ELSE (Len(rle) - firstMax + contMax - 1) \div contMax
      end(k) == IF k > more THEN Len(rle) ELSE firstMax + (k - 1) * contMax
      sequence(k) == CASE more = 0 -> SequenceFlag.Complete
                       [] more # 0 /\ k = 1 -> SequenceFlag.First
                       [] k > 1 /\ k <= more -> SequenceFlag.Continuation
                       [] k > 1 /\ k > more -> SequenceFlag.Last
  IN  [k \in 1 .. more + 1 |->
         Fragment(o, sequence(k), SubSeq(rle, IF k = 1 THEN 1 ELSE end(k - 1) + 1, end(k)),
                  Len(rle))]

CodedBitmaps(objects) ==
  LET coded == [k \in DOMAIN objects |->
                  UNION {EncodeRle(o.pixels, o.width, o.height) : o \in {objects[k]}}]
  IN  {c \in {coded} : \A k \in DOMAIN objects : c[k] # {}}

SegmentsOf(pts, pcs, wds, palettes, objects, coded) ==
  LET segment(type, payload) == [type |-> type, pts |-> pts, payload |-> payload]
      ods(o, rle) == LET parts == Fragments(o, rle)
                     IN  [k \in DOMAIN parts |-> segment("ODS", OdsToBytes(parts[k]))]
  IN  << segment("PCS", PcsToBytes(pcs)) >>
        \o (IF wds = {} THEN << >>
            ELSE << segment("WDS", WdsToBytes(CHOOSE w \in wds : TRUE)) >>)
        \o [k \in DOMAIN palettes |-> segment("PDS", PdsToBytes(palettes[k]))]
        \o Joined([k \in DOMAIN objects |->
                     ods(objects[k], CHOOSE rle \in coded[k] : TRUE)])
        \o << segment("END", << >>) >>

Build(pts, pcs, wds, palettes, objects) ==
  {SegmentsOf(pts, pcs, wds, palettes, objects, c) : c \in CodedBitmaps(objects)}

(* PgsSegment::to_bytes: what a header has no bits for is cut off, of the  *)
(* pts as of the length.  The payload itself is written whole.             *)
Written(s) == [type |-> s.type, pts |-> s.pts % U32,
               length |-> Len(s.payload) % U16, payload |-> s.payload]

(* Reading a file again, segment by segment.  Behind a payload longer than *)
(* its header says there is no header, which ends the reading.             *)
SegmentsIn(file) ==
  LET whole(s) == s.length = Len(s.payload)
      reached == {k \in DOMAIN file : \A j \in 1 .. k - 1 : whole(file[j])}
  IN  [k \in 1 .. Cardinality(reached) |->
         [type |-> file[k].type, pts |-> file[k].pts,
          payload |-> SubSeq(file[k].payload, 1, file[k].length)]]

(* What the fields of a header have the bits for.                          *)
LengthsFit(segments) == \A k \in DOMAIN segments : Len(segments[k].payload) < U16
TimesFit(segments) == \A k \in DOMAIN segments : segments[k].pts < U32
=============================================================================
