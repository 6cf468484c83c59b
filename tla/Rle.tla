-------------------------------- MODULE Rle --------------------------------
(***************************************************************************)
(* The run-length coding of object bitmaps in src/src/pgs/rle.rs.  Pixels  *)
(* are palette indices, row by row; the coded data is a sequence of bytes. *)
(* A byte other than 0 is one pixel; 0 and a flag byte start a run or, if  *)
(* the flag is 0 too, end the line.  The upper two bits of the flag tell   *)
(* whether the run has a second length byte (Long) and a color (Colored),  *)
(* the rest is the length or its upper part.                               *)
(***************************************************************************)
EXTENDS Naturals, Sequences, FiniteSets, Selection

CONSTANT ShortRun   (* the longest run with one length byte: 63            *)

ASSUME ShortRunAssumption == ShortRun \in Nat \ {0}

Byte == 4 * (ShortRun + 1)                  (* 256                         *)
LongRun == (ShortRun + 1) * Byte - 1        (* 16383                       *)

LongFlag == ShortRun + 1                    (* 0x40                        *)
ColorFlag == 2 * (ShortRun + 1)             (* 0x80                        *)
-----------------------------------------------------------------------------
(* One run of at most LongRun pixels.                                      *)
Code(color, n) ==
  CASE color # 0 /\ n = 1 -> << color >>
    [] color # 0 /\ n = 2 -> << color, color >>
    [] color # 0 /\ n \in 3 .. ShortRun -> << 0, ColorFlag + n, color >>
    [] color # 0 /\ n > ShortRun /\ n > 2 ->
         << 0, ColorFlag + LongFlag + n \div Byte, n % Byte, color >>
    [] color = 0 /\ n <= ShortRun -> << 0, n >>
    [] color = 0 /\ n > ShortRun -> << 0, LongFlag + n \div Byte, n % Byte >>

(* Longer runs are split.                                                  *)
CodeRun(color, run) ==
  Joined([k \in 1 .. run \div LongRun |-> Code(color, LongRun)])
    \o (IF run % LongRun = 0 THEN << >> ELSE Code(color, run % LongRun))

(* A run ends with its row at the latest.                                  *)
RowEnds(w, h) == {r * w : r \in 0 .. h}

RunStarts(pixels, w, h) ==
  {i \in DOMAIN pixels : i - 1 \in RowEnds(w, h) \/ pixels[i] # pixels[i - 1]}

RunEnd(pixels, w, h, i) ==
  CHOOSE j \in i .. Len(pixels) :
    /\ \A k \in i .. j : pixels[k] = pixels[i]
    /\ \A k \in i .. j - 1 : k \notin RowEnds(w, h)
    /\ j \in RowEnds(w, h) \/ pixels[j + 1] # pixels[i]

EndOfLine == << 0, 0 >>

(* The data so far and the first pixel that is not in it, after one more   *)
(* run.                                                                    *)
EncodeRun(p, pixels, w, h) ==
  LET end == RunEnd(pixels, w, h, p.at)
  IN  [at |-> end + 1,
       data |-> p.data \o CodeRun(pixels[p.at], end - p.at + 1)
                  \o (IF end \in RowEnds(w, h) THEN EndOfLine ELSE << >>)]

(* The states of the loop of encode_rle, each the only member of its set.  *)
Runs(pixels, w, h) ==
  LET coded[k \in 0 .. Cardinality(RunStarts(pixels, w, h))] ==
        IF k = 0 THEN {[at |-> 1, data |-> << >>]}
        ELSE {EncodeRun(p, pixels, w, h) : p \in coded[k - 1]}
  IN  coded

(* encode_rle, as an Option.                                               *)
EncodeRle(pixels, w, h) ==
  IF Len(pixels) # w * h THEN {}
  ELSE IF w * h = 0 THEN {<< >>}
  ELSE {p.data : p \in Runs(pixels, w, h)[Cardinality(RunStarts(pixels, w, h))]}
-----------------------------------------------------------------------------
(* The code at place i: a run of n pixels, the end of a line, "cut" where   *)
(* bytes of a run are missing, or nothing where the data ends in a lone 0; *)
(* and the place of the next code.                                         *)
CodeAt(data, i) ==
  LET flag == data[i + 1]
      long == (flag \div LongFlag) % 2
      colored == flag \div ColorFlag
      next == i + 2 + long + colored
      low == flag % LongFlag
      code(kind, n, color, to) ==
        [kind |-> kind, n |-> n, color |-> color, next |-> to]
  IN  IF data[i] # 0 THEN code("run", 1, data[i], i + 1)
      ELSE IF i = Len(data) THEN code("none", 0, 0, i + 1)
      ELSE IF flag = 0 THEN code("eol", 0, 0, i + 2)
      ELSE IF next > Len(data) + 1 THEN code("cut", 0, 0, Len(data) + 1)
      ELSE code("run", IF long = 1 THEN low * Byte + data[i + 2] ELSE low,
                IF colored = 1 THEN data[next - 1] ELSE 0, next)

Repeat(color, n) == [k \in 1 .. n |-> color]

(* The bitmap painted so far, and the column the next pixel goes to, after *)
(* one more code.  A line end pads the row, and nothing is painted beyond  *)
(* the bitmap.                                                             *)
Paint(p, code, w, total) ==
  LET n == IF code.kind = "eol" THEN (IF w > p.col THEN w - p.col ELSE 0)
           ELSE code.n
      room == total - Len(p.pixels)
      kept == IF n < room THEN n ELSE room
  IN  [at |-> code.next,
       pixels |-> p.pixels \o Repeat(code.color, kept),
       col |-> IF code.kind = "eol" THEN 0 ELSE p.col + kept]

(* One round of the loop of decode_rle, if there is one; the result is an  *)
(* Option.                                                                 *)
Decode(p, data, w, total) ==
  IF p.at > Len(data) \/ Len(p.pixels) = total THEN {p}
  ELSE {Paint(p, code, w, total) :
          code \in {c \in {CodeAt(data, p.at)} : c.kind # "cut"}}

(* The rounds: none reads less than a byte.                                *)
Rounds(data, w, h) ==
  LET painted[k \in 0 .. Len(data)] ==
        IF k = 0 THEN {[at |-> 1, pixels |-> << >>, col |-> 0]}
        ELSE UNION {Decode(p, data, w, w * h) : p \in painted[k - 1]}
  IN  painted

(* decode_rle, as an Option.  What is left of the bitmap is padded.        *)
DecodeRle(data, w, h) ==
  IF w * h = 0 THEN {<< >>}
  ELSE {p.pixels \o Repeat(0, w * h - Len(p.pixels)) :
          p \in Rounds(data, w, h)[Len(data)]}
=============================================================================
