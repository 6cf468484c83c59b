-------------------------- MODULE NdjsonPipeProofs --------------------------
(***************************************************************************)
(* The coding of bitmaps is decoded to what was encoded; input that encode *)
(* cannot accept leaves no file, and what stream writes is accepted unless *)
(* stream itself could not read it: for every source, size of the pipe and *)
(* interleaving of the two processes.  What extract writes can be read     *)
(* back, every display set in the file of its track.                       *)
(*                                                                         *)
(* The decoder is followed over the data of one run after the other: it    *)
(* Arrives behind it with the pixels of the run painted.                   *)
(*                                                                         *)
(* LeavesNoFile is not inductive: it says nothing of what is in the pipe.  *)
(* PipeInv adds that the pipe holds the last of the lines sent, that the   *)
(* lines taken from it by an encoder that has not failed can be encoded,   *)
(* and that the first file is not begun before every line was taken.       *)
(* AcceptInv adds that a bitmap in a line has the size beside it.          *)
(*                                                                         *)
(* ExtractInv says which files of extract are there between two writes.    *)
(* That they can be read back is induction over the display sets of a      *)
(* track: whatever the assembler holds, feeding it a display set returns   *)
(* that set (RunFed).                                                      *)
(***************************************************************************)
EXTENDS NdjsonPipe, SequenceLemmas

Codes == [kind : {"run", "eol", "cut", "none"}, n : Nat, color : Nat, next : Nat]

(* Wherever it starts to read, CodeAt finds a code and goes on behind it.  *)
LEMMA CodeTyped ==
  ASSUME NEW data \in Seq(Nat), NEW i \in 1 .. Len(data)
  PROVE  CodeAt(data, i) \in Codes /\ CodeAt(data, i).next > i
<1> DEFINE flag == data[i + 1]
           long == (flag \div LongFlag) % 2
           colored == flag \div ColorFlag
           end == i + 2 + long + colored
           low == flag % LongFlag
           n == IF long = 1 THEN low * Byte + data[i + 2] ELSE low
           color == IF colored = 1 THEN data[end - 1] ELSE 0
           code(kind, m, c, to) == [kind |-> kind, n |-> m, color |-> c, next |-> to]
<1>1. Len(data) \in Nat /\ \A k \in 1 .. Len(data) : data[k] \in Nat
  OBVIOUS
<1>2. LongFlag \in Nat \ {0} /\ ColorFlag \in Nat \ {0} /\ Byte \in Nat
  BY ShortRunAssumption DEF LongFlag, ColorFlag, Byte
<1>3. CodeAt(data, i) =
        IF data[i] # 0 THEN code("run", 1, data[i], i + 1)
        ELSE IF i = Len(data) THEN code("none", 0, 0, i + 1)
        ELSE IF flag = 0 THEN code("eol", 0, 0, i + 2)
        ELSE IF end > Len(data) + 1 THEN code("cut", 0, 0, Len(data) + 1)
        ELSE code("run", n, color, end)
  BY DEF CodeAt
<1>4. ASSUME i # Len(data), end <= Len(data) + 1
      PROVE  n \in Nat /\ color \in Nat /\ end \in Nat /\ end > i
  <2>1. i + 1 \in 1 .. Len(data) /\ flag \in Nat
    BY <1>1, <1>4
  <2> HIDE DEF flag
  <2>2. long \in {0, 1} /\ colored \in Nat /\ low \in Nat
    BY <1>2, <2>1
  <2> HIDE DEF long, colored, low
  <2>3. end \in Nat /\ end > i
    BY <1>1, <2>2
  <2>4. ASSUME long = 1 PROVE data[i + 2] \in Nat
    <3>1. i + 2 \in 1 .. Len(data)
      BY <1>1, <1>4, <2>2, <2>4
    <3> QED BY <1>1, <3>1
  <2>5. ASSUME colored = 1 PROVE data[end - 1] \in Nat
    <3>1. end - 1 \in 1 .. Len(data)
      BY <1>1, <1>4, <2>2, <2>5
    <3> QED BY <1>1, <3>1
  <2>6. n \in Nat
    <3>1. CASE long = 1
      <4>1. low * Byte \in Nat
        BY <1>2, <2>2
      <4> QED BY <2>4, <3>1, <4>1
    <3> QED BY <2>2, <3>1
  <2>7. color \in Nat
    BY <2>5
  <2> QED BY <2>3, <2>6, <2>7
<1> HIDE DEF flag, n, color, end
<1> HIDE DEF code
<1>5. data[i] \in Nat /\ i + 1 \in Nat /\ i + 2 \in Nat /\ Len(data) + 1 \in Nat
  BY <1>1
<1>6. CASE data[i] # 0
  <2>1. code("run", 1, data[i], i + 1) \in Codes /\ code("run", 1, data[i], i + 1).next > i
    BY <1>5 DEF Codes, code
  <2> QED BY <1>3, <1>6, <2>1
<1>7. CASE data[i] = 0 /\ (i = Len(data) \/ flag = 0)
  <2>1. /\ code("none", 0, 0, i + 1) \in Codes /\ code("none", 0, 0, i + 1).next > i
        /\ code("eol", 0, 0, i + 2) \in Codes /\ code("eol", 0, 0, i + 2).next > i
    BY <1>5 DEF Codes, code
  <2> QED BY <1>3, <1>7, <2>1
<1>8. CASE data[i] = 0 /\ i # Len(data) /\ flag # 0 /\ end > Len(data) + 1
  <2>1. /\ code("cut", 0, 0, Len(data) + 1) \in Codes
        /\ code("cut", 0, 0, Len(data) + 1).next > i
    BY <1>5 DEF Codes, code
  <2> QED BY <1>3, <1>8, <2>1
<1>9. CASE data[i] = 0 /\ i # Len(data) /\ flag # 0 /\ ~ (end > Len(data) + 1)
  <2>1. end \in Int
    <3>1. i + 1 \in 1 .. Len(data) /\ flag \in Nat
      BY <1>1, <1>9 DEF flag
    <3>2. long \in {0, 1} /\ colored \in Nat
      BY <1>2, <3>1
    <3> QED BY <1>1, <3>2 DEF end
  <2>2. end <= Len(data) + 1
    BY <1>1, <1>9, <2>1
  <2>3. code("run", n, color, end) \in Codes /\ code("run", n, color, end).next > i
    BY <1>4, <1>9, <2>2 DEF Codes, code
  <2> QED BY <1>3, <1>9, <2>3
<1> QED BY <1>6, <1>7, <1>8, <1>9

(* What decode_rle knows between two codes of a bitmap of total pixels.    *)
Painting(total) ==
  {p \in [at : Nat \ {0}, pixels : Seq(Nat), col : Nat] : Len(p.pixels) <= total}

(* A run of one color.                                                     *)
LEMMA RepeatTyped ==
  ASSUME NEW c \in Nat, NEW n \in Nat
  PROVE  Repeat(c, n) \in Seq(Nat) /\ Len(Repeat(c, n)) = n
         /\ \A k \in 1 .. n : Repeat(c, n)[k] = c
BY DEF Repeat

(* A code keeps what decode_rle knows in its bounds.                       *)
LEMMA PaintTyped ==
  ASSUME NEW w \in Nat, NEW total \in Nat, NEW p \in Painting(total),
         NEW code \in Codes, code.next > p.at
  PROVE  Paint(p, code, w, total) \in Painting(total)
<1> DEFINE n == IF code.kind = "eol" THEN (IF w > p.col THEN w - p.col ELSE 0)
                ELSE code.n
           room == total - Len(p.pixels)
           kept == IF n < room THEN n ELSE room
           more == Repeat(code.color, kept)
           q == [at |-> code.next, pixels |-> p.pixels \o more,
                 col |-> IF code.kind = "eol" THEN 0 ELSE p.col + kept]
<1>1. /\ p.at \in Nat \ {0} /\ p.pixels \in Seq(Nat) /\ p.col \in Nat
      /\ Len(p.pixels) <= total /\ Len(p.pixels) \in Nat
  BY DEF Painting
<1>2. code.n \in Nat /\ code.color \in Nat /\ code.next \in Nat
  BY DEF Codes
<1>3. n \in Nat
  BY <1>1, <1>2
<1> HIDE DEF n
<1>4. room \in Nat
  BY <1>1
<1>5. kept \in Nat /\ kept <= total - Len(p.pixels)
  <2> HIDE DEF room
  <2>1. kept \in Nat /\ kept <= room
    BY <1>3, <1>4
  <2> QED BY <2>1 DEF room
<1> HIDE DEF kept
<1>6. more \in Seq(Nat) /\ Len(more) = kept
  BY <1>2, <1>5, RepeatTyped
<1> HIDE DEF more
<1>7. p.pixels \o more \in Seq(Nat) /\ Len(p.pixels \o more) = Len(p.pixels) + kept
  BY <1>1, <1>6, ConcatProperties
<1>8. q \in Painting(total)
  <2>1. q.at \in Nat \ {0} /\ q.col \in Nat /\ Len(q.pixels) <= total
    BY <1>1, <1>2, <1>5, <1>7
  <2> QED BY <1>7, <2>1 DEF Painting
<1> QED BY <1>8 DEF Paint, q, more, kept, room, n

(* So does a round of its loop.                                            *)
LEMMA DecodeTyped ==
  ASSUME NEW data \in Seq(Nat), NEW w \in Nat, NEW total \in Nat, NEW p \in Painting(total)
  PROVE  Decode(p, data, w, total) \in SUBSET Painting(total)
<1>1. CASE p.at > Len(data) \/ Len(p.pixels) = total
  BY <1>1 DEF Decode
<1>2. CASE ~ (p.at > Len(data) \/ Len(p.pixels) = total)
  <2>1. p.at \in 1 .. Len(data)
    BY <1>2 DEF Painting
  <2>2. CodeAt(data, p.at) \in Codes /\ CodeAt(data, p.at).next > p.at
    BY <2>1, CodeTyped
  <2>3. Paint(p, CodeAt(data, p.at), w, total) \in Painting(total)
    BY <2>2, PaintTyped
  <2> QED BY <1>2, <2>3 DEF Decode
<1> QED BY <1>1, <1>2

(* f is the state of decode_rle after more and more rounds.                *)
IsDecoding(f, data, w, total) ==
  \A k \in 0 .. Len(data) :
    f[k] = IF k = 0 THEN {[at |-> 1, pixels |-> << >>, col |-> 0]}
           ELSE UNION {Decode(p, data, w, total) : p \in f[k - 1]}

(* The rounds are what their equation says.                                *)
LEMMA DecodingExists ==
  ASSUME NEW data \in Seq(Nat), NEW w \in Nat, NEW h \in Nat
  PROVE  /\ Rounds(data, w, h) \in [0 .. Len(data) -> SUBSET Painting(w * h)]
         /\ IsDecoding(Rounds(data, w, h), data, w, w * h)
<1> DEFINE N == Len(data)
           total == w * h
           D == SUBSET Painting(total)
           zero == {[at |-> 1, pixels |-> << >>, col |-> 0]}
           more(d) == UNION {Decode(p, data, w, total) : p \in d}
           g == [y \in D \X (1 .. N) |-> more(y[1])]
           Is(f) == f = [k \in 0 .. N |->
                           IF k = 0 THEN {[at |-> 1, pixels |-> << >>, col |-> 0]}
                           ELSE UNION {Decode(p, data, w, w * h) : p \in f[k - 1]}]
           u == CHOOSE f : Is(f)
<1>1. N \in Nat /\ total \in Nat
  OBVIOUS
<1>2. zero \in D
  <2>1. << >> \in Seq(Nat) /\ Len(<< >>) = 0 /\ 0 <= total
    BY <1>1
  <2> HIDE DEF total
  <2> QED BY <2>1 DEF Painting
<1>3. \A d \in D : more(d) \in D
  <2> HIDE DEF total
  <2> QED BY <1>1, DecodeTyped
<1>4. /\ g \in [D \X (1 .. N) -> D]
      /\ \A y \in D, n \in 1 .. N : g[<< y, n >>] = more(y)
  <2> HIDE DEF more, D, N
  <2> QED BY <1>3
<1>5. Rounds(data, w, h) = u
  BY DEF Rounds
<1>6. Is(u)
  <2>1. PICK f \in [0 .. N -> D] : IsRecursive(f, N, zero, g)
    <3> HIDE DEF g, N, D, more, zero
    <3> QED BY <1>1, <1>2, <1>4, Recursion
  <2>2. Is(f)
    <3>1. \A n \in 0 .. N : n # 0 => n - 1 \in 0 .. N /\ n \in 1 .. N
      BY <1>1
    <3> HIDE DEF g, D, N, more, zero
    <3>2. \A n \in 0 .. N : f[n] = IF n = 0 THEN zero ELSE more(f[n - 1])
      BY <1>4, <2>1, <3>1 DEF IsRecursive
    <3>3. f = [n \in 0 .. N |-> IF n = 0 THEN zero ELSE more(f[n - 1])]
      BY <2>1, <3>2
    <3> QED BY <3>3 DEF more, zero, total
  <2> HIDE DEF Is
  <2> QED BY <2>2
<1>7. Follows(u, N, D, zero, g) /\ IsDecoding(u, data, w, total)
  <2> HIDE DEF g, u, D
  <2>1. \A n \in 1 .. N : n # 0 /\ n \in 0 .. N
    BY <1>1
  <2>2. u = [n \in 0 .. N |-> IF n = 0 THEN zero ELSE more(u[n - 1])]
    BY <1>6
  <2>3. IsDecoding(u, data, w, total)
    BY <1>6 DEF IsDecoding
  <2> HIDE DEF more, zero
  <2>4. \A n \in 0 .. N : u[n] = IF n = 0 THEN zero ELSE more(u[n - 1])
    BY <2>2
  <2>5. u[0] = zero /\ \A n \in 1 .. N : u[n] = more(u[n - 1])
    BY <1>1, <2>1, <2>4
  <2>6. u = [n \in 0 .. N |-> u[n]]
    BY <2>2
  <2> HIDE DEF N
  <2> QED BY <1>4, <2>3, <2>5, <2>6 DEF Follows
<1>8. u \in [0 .. N -> D]
  <2> HIDE DEF g, u, D, N, more, zero
  <2> QED BY <1>1, <1>2, <1>4, <1>7, RecursionTyped
<1> QED
  <2> HIDE DEF u
  <2> QED BY <1>5, <1>7, <1>8

(* A bitmap decoded has the size it was asked for, whatever the data.      *)
LEMMA DecodedLength ==
  ASSUME NEW data \in Seq(Nat), NEW w \in Nat, NEW h \in Nat,
         NEW b \in DecodeRle(data, w, h)
  PROVE  b \in Seq(Nat) /\ Len(b) = w * h
<1>1. CASE w * h = 0
  BY <1>1 DEF DecodeRle
<1>2. CASE w * h # 0
  <2> DEFINE total == w * h
  <2>1. total \in Nat
    OBVIOUS
  <2>2. PICK p \in Rounds(data, w, h)[Len(data)] :
          b = p.pixels \o Repeat(0, total - Len(p.pixels))
    BY <1>2 DEF DecodeRle
  <2>3. p \in Painting(total)
    <3>1. Len(data) \in 0 .. Len(data)
      OBVIOUS
    <3>2. Rounds(data, w, h) \in [0 .. Len(data) -> SUBSET Painting(total)]
      BY DecodingExists
    <3> QED BY <2>2, <3>1, <3>2
  <2> HIDE DEF total
  <2>4. p.pixels \in Seq(Nat) /\ Len(p.pixels) \in Nat /\ total - Len(p.pixels) \in Nat
    BY <2>1, <2>3 DEF Painting
  <2>5. /\ Repeat(0, total - Len(p.pixels)) \in Seq(Nat)
        /\ Len(Repeat(0, total - Len(p.pixels))) = total - Len(p.pixels)
    BY <2>4, RepeatTyped
  <2>6. b \in Seq(Nat) /\ Len(b) = Len(p.pixels) + (total - Len(p.pixels))
    <3> DEFINE rest == Repeat(0, total - Len(p.pixels))
    <3> HIDE DEF rest
    <3>1. rest \in Seq(Nat) /\ Len(rest) = total - Len(p.pixels)
      BY <2>5 DEF rest
    <3>2. p.pixels \o rest \in Seq(Nat) /\ Len(p.pixels \o rest) = Len(p.pixels) + Len(rest)
      BY <2>4, <3>1, ConcatProperties
    <3> QED BY <2>2, <3>1, <3>2 DEF rest
  <2>7. Len(b) = total
    BY <2>1, <2>4, <2>6
  <2> QED BY <2>6, <2>7 DEF total
<1> QED BY <1>1, <1>2

(* Concatenation is associative.                                           *)
LEMMA Regroup ==
  ASSUME NEW s \in Seq(Nat), NEW t \in Seq(Nat), NEW u \in Seq(Nat)
  PROVE  (s \o t) \o u = s \o (t \o u)
OBVIOUS

(* c is a code of decode_rle, wherever it stands.                          *)
IsCode(c, kind, n, color) ==
  \A P, R \in Seq(Nat) :
    CodeAt(P \o (c \o R), Len(P) + 1) =
      [kind |-> kind, n |-> n, color |-> color, next |-> Len(P) + Len(c) + 1]

(* Where it stands.                                                        *)
LEMMA InTheMiddle ==
  ASSUME NEW P \in Seq(Nat), NEW c \in Seq(Nat), NEW R \in Seq(Nat)
  PROVE  /\ P \o (c \o R) \in Seq(Nat)
         /\ Len(P \o (c \o R)) = Len(P) + Len(c) + Len(R)
         /\ Len(P) \in Nat /\ Len(c) \in Nat /\ Len(R) \in Nat
         /\ \A j \in 1 .. Len(c) : (P \o (c \o R))[Len(P) + j] = c[j]
<1>1. Len(P) \in Nat /\ Len(c) \in Nat /\ Len(R) \in Nat
  OBVIOUS
<1> DEFINE d == c \o R
<1>2. d \in Seq(Nat) /\ Len(d) = Len(c) + Len(R) /\ \A j \in 1 .. Len(c) : d[j] = c[j]
  BY <1>1, ConcatProperties
<1> HIDE DEF d
<1>3. P \o d \in Seq(Nat) /\ Len(P \o d) = Len(P) + Len(d)
  BY <1>2, ConcatProperties
<1>4. \A j \in 1 .. Len(c) : (P \o d)[Len(P) + j] = d[j]
  <2> SUFFICES ASSUME NEW j \in 1 .. Len(c) PROVE (P \o d)[Len(P) + j] = d[j]
    OBVIOUS
  <2>1. Len(P) + j \in Len(P) + 1 .. Len(P) + Len(d) /\ (Len(P) + j) - Len(P) = j
    BY <1>1, <1>2
  <2> QED BY <1>2, <2>1, ConcatProperties
<1> QED BY <1>1, <1>2, <1>3, <1>4 DEF d

(* A flag of a run, and the run it stands for.                             *)
Flagged(data, i, long, colored, low) ==
  /\ data[i] = 0 /\ i < Len(data) /\ i + 2 + long + colored <= Len(data) + 1
  /\ data[i + 1] = colored * ColorFlag + long * LongFlag + low /\ data[i + 1] # 0

FlaggedRun(data, i, long, colored, low) ==
  [kind |-> "run", n |-> IF long = 1 THEN low * Byte + data[i + 2] ELSE low,
   color |-> IF colored = 1 THEN data[i + 1 + long + colored] ELSE 0,
   next |-> i + 2 + long + colored]

(* Such a flag is read as this run.                                        *)
LEMMA FlagMeans ==
  ASSUME NEW data \in Seq(Nat), NEW i \in 1 .. Len(data),
         NEW long \in {0, 1}, NEW colored \in {0, 1}, NEW low \in 0 .. ShortRun,
         Flagged(data, i, long, colored, low)
  PROVE  CodeAt(data, i) = FlaggedRun(data, i, long, colored, low)
<1> DEFINE flag == data[i + 1]
           S == ShortRun + 1
<1>1. S \in Nat \ {0} /\ LongFlag = S /\ ColorFlag = 2 * S
  BY ShortRunAssumption DEF LongFlag, ColorFlag
<1>2. low \in Nat /\ low < S
  BY ShortRunAssumption
<1> HIDE DEF S
<1>3. flag = (2 * colored + long) * S + low
  <2>1. (2 * colored + long) * S = colored * (2 * S) + long * S
    BY <1>1
  <2> QED BY <1>1, <1>2, <2>1 DEF Flagged
<1>4. flag = colored * (2 * S) + (long * S + low)
  BY <1>1, <1>2 DEF Flagged
<1> HIDE DEF flag
<1>5. flag \div S = 2 * colored + long /\ flag % S = low
  <2> DEFINE q == 2 * colored + long
  <2>1. q \in Nat
    OBVIOUS
  <2> HIDE DEF q
  <2>2. low \in 0 .. S - 1
    BY <1>1, <1>2
  <2>3. (q * S + low) \div S = q /\ (q * S + low) % S = low
    BY <1>1, <2>1, <2>2, Division
  <2> QED BY <1>3, <2>3 DEF q
<1>6. (2 * colored + long) % 2 = long
  OBVIOUS
<1>7. flag \div (2 * S) = colored
  <2> DEFINE SS == 2 * S
             r == long * S + low
  <2>1. SS \in Nat \ {0} /\ r \in 0 .. SS - 1 /\ colored \in Nat
    BY <1>1, <1>2
  <2> HIDE DEF SS, r
  <2>2. (colored * SS + r) \div SS = colored
    BY <2>1, Division
  <2> QED BY <1>4, <2>2 DEF SS, r
<1>8. (flag \div LongFlag) % 2 = long /\ flag \div ColorFlag = colored /\ flag % LongFlag = low
  BY <1>1, <1>5, <1>6, <1>7
<1>9. Len(data) \in Nat /\ flag # 0 /\ i # Len(data) /\ ~ (i + 2 + long + colored > Len(data) + 1)
      /\ (i + 2 + long + colored) - 1 = i + 1 + long + colored
  BY DEF flag, Flagged
<1>10. data[i] = 0
  BY DEF Flagged
<1> QED BY <1>8, <1>9, <1>10 DEF CodeAt, FlaggedRun, flag

(* The end of a line is a code.                                            *)
LEMMA EndOfLineIsCode == IsCode(EndOfLine, "eol", 0, 0)
<1> SUFFICES ASSUME NEW P \in Seq(Nat), NEW R \in Seq(Nat)
             PROVE  CodeAt(P \o (EndOfLine \o R), Len(P) + 1) =
                      [kind |-> "eol", n |-> 0, color |-> 0,
                       next |-> Len(P) + Len(EndOfLine) + 1]
  BY DEF IsCode
<1> DEFINE c == EndOfLine
           D == P \o (c \o R)
           i == Len(P) + 1
<1>1. c \in Seq(Nat) /\ Len(c) = 2 /\ c[1] = 0 /\ c[2] = 0
  BY DEF EndOfLine
<1> HIDE DEF c
<1>2. /\ Len(D) = Len(P) + Len(c) + Len(R) /\ Len(P) \in Nat /\ Len(R) \in Nat
      /\ \A j \in 1 .. Len(c) : D[Len(P) + j] = c[j]
  BY <1>1, InTheMiddle
<1> HIDE DEF D
<1>3. 1 \in 1 .. Len(c) /\ 2 \in 1 .. Len(c) /\ Len(D) = Len(P) + 2 + Len(R)
      /\ i + 1 = Len(P) + 2
  BY <1>1, <1>2
<1>4. D[Len(P) + 1] = 0 /\ D[Len(P) + 2] = 0
  BY <1>1, <1>2, <1>3
<1>5. i # Len(D) /\ D[i] = 0 /\ D[i + 1] = 0 /\ i + 2 = Len(P) + 2 + 1
  BY <1>2, <1>3, <1>4
<1> HIDE DEF i
<1> QED BY <1>1, <1>5 DEF CodeAt, c, D, i

(* A color is a code.                                                      *)
LEMMA ColorIsCode ==
  ASSUME NEW color \in Nat \ {0}
  PROVE  IsCode(<< color >>, "run", 1, color)
<1> SUFFICES ASSUME NEW P \in Seq(Nat), NEW R \in Seq(Nat)
             PROVE  CodeAt(P \o (<< color >> \o R), Len(P) + 1) =
                      [kind |-> "run", n |-> 1, color |-> color,
                       next |-> Len(P) + Len(<< color >>) + 1]
  BY DEF IsCode
<1> DEFINE c == << color >>
           D == P \o (c \o R)
           i == Len(P) + 1
<1>1. c \in Seq(Nat) /\ Len(c) = 1 /\ c[1] = color
  OBVIOUS
<1> HIDE DEF c
<1>2. Len(P) \in Nat /\ \A j \in 1 .. Len(c) : D[Len(P) + j] = c[j]
  BY <1>1, InTheMiddle
<1> HIDE DEF D
<1>3. 1 \in 1 .. Len(c)
  BY <1>1
<1>4. D[i] # 0 /\ D[i] = color /\ i + 1 = Len(P) + 1 + 1
  BY <1>1, <1>2, <1>3
<1> HIDE DEF i
<1> QED BY <1>1, <1>4 DEF CodeAt, c, D, i

(* A code with a flag.                                                     *)
LEMMA FlaggedIsCode ==
  ASSUME NEW c \in Seq(Nat), NEW long \in {0, 1}, NEW colored \in {0, 1},
         NEW low \in 0 .. ShortRun, NEW n \in Nat \ {0}, NEW color \in Nat,
         Len(c) = 2 + long + colored, c[1] = 0,
         c[2] = colored * ColorFlag + long * LongFlag + low, c[2] # 0,
         n = IF long = 1 THEN low * Byte + c[3] ELSE low,
         color = IF colored = 1 THEN c[2 + long + colored] ELSE 0
  PROVE  IsCode(c, "run", n, color)
<1> SUFFICES ASSUME NEW P \in Seq(Nat), NEW R \in Seq(Nat)
             PROVE  CodeAt(P \o (c \o R), Len(P) + 1) =
                      [kind |-> "run", n |-> n, color |-> color,
                       next |-> Len(P) + Len(c) + 1]
  BY DEF IsCode
<1> DEFINE D == P \o (c \o R)
           i == Len(P) + 1
<1>1. /\ D \in Seq(Nat) /\ Len(D) = Len(P) + Len(c) + Len(R)
      /\ Len(P) \in Nat /\ Len(R) \in Nat
      /\ \A j \in 1 .. Len(c) : D[Len(P) + j] = c[j]
  BY InTheMiddle
<1> HIDE DEF D
<1>2. /\ i \in 1 .. Len(D) /\ i < Len(D) /\ i + 2 + long + colored <= Len(D) + 1
      /\ i + 2 + long + colored = Len(P) + Len(c) + 1
  <2> DEFINE lp == Len(P)
             lr == Len(R)
             lc == Len(c)
  <2>1. lp \in Nat /\ lr \in Nat /\ lc = 2 + long + colored /\ Len(D) = lp + lc + lr
        /\ i = lp + 1
    BY <1>1
  <2> HIDE DEF lp, lr, lc, i
  <2>2. i \in 1 .. Len(D) /\ i < Len(D) /\ i + 2 + long + colored <= Len(D) + 1
        /\ i + 2 + long + colored = lp + lc + 1
    BY <2>1
  <2> QED BY <2>2 DEF lp, lc
<1>3. /\ D[i] = c[1] /\ D[i + 1] = c[2] /\ (long = 1 => D[i + 2] = c[3])
      /\ D[i + 1 + long + colored] = c[2 + long + colored]
  <2>1. 1 \in 1 .. Len(c) /\ 2 \in 1 .. Len(c) /\ (long = 1 => 3 \in 1 .. Len(c))
        /\ 2 + long + colored \in 1 .. Len(c)
    OBVIOUS
  <2>2. i = Len(P) + 1 /\ i + 1 = Len(P) + 2 /\ i + 2 = Len(P) + 3
        /\ i + 1 + long + colored = Len(P) + (2 + long + colored)
    BY <1>1
  <2> HIDE DEF i
  <2> QED BY <1>1, <2>1, <2>2
<1> HIDE DEF i
<1>4. /\ D[i] = 0 /\ D[i + 1] = colored * ColorFlag + long * LongFlag + low
      /\ D[i + 1] # 0
  BY <1>3
<1>5. CodeAt(D, i) = FlaggedRun(D, i, long, colored, low)
  <2>1. Flagged(D, i, long, colored, low)
    BY <1>2, <1>4 DEF Flagged
  <2> HIDE DEF i
  <2> QED BY <1>1, <1>2, <2>1, FlagMeans
<1>6. /\ (IF long = 1 THEN low * Byte + D[i + 2] ELSE low) = n
      /\ (IF colored = 1 THEN D[i + 1 + long + colored] ELSE 0) = color
  BY <1>3
<1>7. CodeAt(D, i) = [kind |-> "run", n |-> n, color |-> color, next |-> Len(P) + Len(c) + 1]
  BY <1>2, <1>5, <1>6 DEF FlaggedRun
<1> QED BY <1>7 DEF D, i

(* Whatever follows P, a decoder reads it and has then painted px, up to   *)
(* column col of the row.                                                  *)
Arrives(w, h, P, px, col) ==
  \A R \in Seq(Nat) : \E k \in 0 .. Len(P) :
    Rounds(P \o R, w, h)[k] = {[at |-> Len(P) + 1, pixels |-> px, col |-> col]}

(* It reads one more code.                                                 *)
LEMMA ReadsCode ==
  ASSUME NEW w \in Nat, NEW h \in Nat, NEW P \in Seq(Nat), NEW px \in Seq(Nat),
         NEW col \in Nat, Arrives(w, h, P, px, col), Len(px) # w * h,
         NEW c \in Seq(Nat), c # << >>, NEW kind, kind # "cut", NEW n, NEW color,
         IsCode(c, kind, n, color), NEW px2, NEW col2,
         Paint([at |-> Len(P) + 1, pixels |-> px, col |-> col],
               [kind |-> kind, n |-> n, color |-> color, next |-> Len(P) + Len(c) + 1],
               w, w * h) =
           [at |-> Len(P) + Len(c) + 1, pixels |-> px2, col |-> col2]
  PROVE  Arrives(w, h, P \o c, px2, col2)
<1> SUFFICES ASSUME NEW R \in Seq(Nat)
             PROVE  \E k \in 0 .. Len(P \o c) :
                      Rounds((P \o c) \o R, w, h)[k] =
                        {[at |-> Len(P \o c) + 1, pixels |-> px2, col |-> col2]}
  BY DEF Arrives
<1> DEFINE D == P \o (c \o R)
           total == w * h
           p == [at |-> Len(P) + 1, pixels |-> px, col |-> col]
           code == [kind |-> kind, n |-> n, color |-> color, next |-> Len(P) + Len(c) + 1]
<1>1. /\ (P \o c) \o R = D /\ c \o R \in Seq(Nat)
      /\ Len(P \o c) = Len(P) + Len(c) /\ Len(c) \in Nat \ {0} /\ Len(P) \in Nat
  <2>1. (P \o c) \o R = D
    BY Regroup
  <2>2. c \o R \in Seq(Nat) /\ Len(P \o c) = Len(P) + Len(c)
    BY ConcatProperties
  <2>3. Len(c) \in Nat \ {0} /\ Len(P) \in Nat
    BY EmptySeq
  <2> QED BY <2>1, <2>2, <2>3
<1>2. D \in Seq(Nat) /\ Len(D) >= Len(P) + Len(c)
  BY InTheMiddle
<1>3. PICK k \in 0 .. Len(P) : Rounds(D, w, h)[k] = {p}
  BY <1>1 DEF Arrives
<1>4. CodeAt(D, Len(P) + 1) = code
  BY DEF IsCode
<1>5. Paint(p, code, w, total) = [at |-> Len(P) + Len(c) + 1, pixels |-> px2, col |-> col2]
  OBVIOUS
<1>6. p.at = Len(P) + 1 /\ p.pixels = px /\ code.kind = kind /\ total # Len(px)
  OBVIOUS
<1> HIDE DEF D, total, p, code
<1>7. Decode(p, D, w, total) = {Paint(p, code, w, total)}
  <2>1. ~ (p.at > Len(D) \/ Len(p.pixels) = total)
    BY <1>1, <1>2, <1>6
  <2>2. {x \in {CodeAt(D, p.at)} : x.kind # "cut"} = {code}
    BY <1>4, <1>6
  <2> QED BY <2>1, <2>2 DEF Decode
<1>8. Rounds(D, w, h)[k + 1] = {Paint(p, code, w, total)}
  <2>1. k + 1 \in 0 .. Len(D) /\ k + 1 # 0 /\ (k + 1) - 1 = k
    BY <1>1, <1>2
  <2>2. IsDecoding(Rounds(D, w, h), D, w, total)
    BY <1>2, DecodingExists DEF total
  <2>3. Rounds(D, w, h)[k + 1] = UNION {Decode(x, D, w, total) : x \in {p}}
    BY <1>3, <2>1, <2>2 DEF IsDecoding
  <2> QED BY <1>7, <2>3
<1>9. k + 1 \in 0 .. Len(P \o c)
  BY <1>1
<1> QED BY <1>1, <1>5, <1>8, <1>9

(* Reading c paints n pixels of one color, wherever there is room for them. *)
Paints(c, n, color) ==
  \A w, h \in Nat, P, px \in Seq(Nat), col \in Nat :
    Arrives(w, h, P, px, col) /\ Len(px) + n <= w * h =>
      Arrives(w, h, P \o c, px \o Repeat(color, n), col + n)

(* The code of a run does so.                                              *)
LEMMA RunPaints ==
  ASSUME NEW c \in Seq(Nat), c # << >>, NEW n \in Nat \ {0}, NEW color \in Nat,
         IsCode(c, "run", n, color)
  PROVE  Paints(c, n, color)
<1> SUFFICES ASSUME NEW w \in Nat, NEW h \in Nat, NEW P \in Seq(Nat), NEW px \in Seq(Nat),
                    NEW col \in Nat, Arrives(w, h, P, px, col), Len(px) + n <= w * h
             PROVE  Arrives(w, h, P \o c, px \o Repeat(color, n), col + n)
  BY DEF Paints
<1> DEFINE total == w * h
           p == [at |-> Len(P) + 1, pixels |-> px, col |-> col]
           to == Len(P) + Len(c) + 1
           code == [kind |-> "run", n |-> n, color |-> color, next |-> to]
<1>1. total \in Nat /\ Len(px) \in Nat /\ Len(px) + n <= total
  OBVIOUS
<1>2. Paint(p, code, w, total) = [at |-> to, pixels |-> px \o Repeat(color, n), col |-> col + n]
  <2> DEFINE l == Len(px)
  <2> HIDE DEF total, to, l
  <2>1. total \in Nat /\ l \in Nat /\ l + n <= total
    BY <1>1 DEF l
  <2>2. (IF n < total - l THEN n ELSE total - l) = n
    BY <2>1
  <2> USE DEF l
  <2>3. /\ code.n = n /\ code.next = to /\ code.color = color
        /\ ~ (code.kind = "eol") /\ p.pixels = px /\ p.col = col
    OBVIOUS
  <2> HIDE DEF p, code
  <2> QED BY <2>2, <2>3 DEF Paint
<1>3. Len(px) # w * h
  BY <1>1
<1> QED BY <1>2, <1>3, ReadsCode DEF p, code, to, total

(* Two runs of one color are a longer one.                                 *)
LEMMA RepeatTwice ==
  ASSUME NEW color \in Nat, NEW m \in Nat, NEW n \in Nat
  PROVE  Repeat(color, m) \o Repeat(color, n) = Repeat(color, m + n)
<1> DEFINE a == Repeat(color, m)
           b == Repeat(color, n)
           c == Repeat(color, m + n)
<1>1. /\ a \in Seq(Nat) /\ Len(a) = m /\ \A k \in 1 .. m : a[k] = color
      /\ b \in Seq(Nat) /\ Len(b) = n /\ \A k \in 1 .. n : b[k] = color
  BY RepeatTyped
<1>2. c \in Seq(Nat) /\ Len(c) = m + n /\ \A k \in 1 .. m + n : c[k] = color
  BY RepeatTyped
<1> HIDE DEF a, b, c
<1>3. a \o b \in Seq(Nat) /\ Len(a \o b) = m + n
  BY <1>1, ConcatProperties
<1>4. \A k \in 1 .. m + n : (a \o b)[k] = color
  <2> SUFFICES ASSUME NEW k \in 1 .. m + n PROVE (a \o b)[k] = color
    OBVIOUS
  <2>1. CASE k <= m
    <3>1. k \in 1 .. Len(a)
      BY <1>1, <2>1
    <3> QED BY <1>1, <3>1, ConcatProperties
  <2>2. CASE ~ (k <= m)
    <3>1. k \in Len(a) + 1 .. Len(a) + Len(b) /\ k - Len(a) \in 1 .. n
      BY <1>1, <2>2
    <3> QED BY <1>1, <3>1, ConcatProperties
  <2> QED BY <2>1, <2>2
<1>5. a \o b = c
  <2> DEFINE ab == a \o b
  <2> HIDE DEF ab
  <2>1. ab \in Seq(Nat) /\ Len(ab) = Len(c) /\ \A k \in 1 .. Len(ab) : ab[k] = c[k]
    BY <1>2, <1>3, <1>4 DEF ab
  <2>2. ab = c
    BY <1>2, <2>1, SeqEqual
  <2> QED BY <2>2 DEF ab
<1> QED BY <1>5 DEF a, b, c

(* No code, no pixels.                                                     *)
LEMMA NothingPaints ==
  ASSUME NEW color
  PROVE  Paints(<< >>, 0, color)
<1> SUFFICES ASSUME NEW w \in Nat, NEW h \in Nat, NEW P \in Seq(Nat), NEW px \in Seq(Nat),
                    NEW col \in Nat, Arrives(w, h, P, px, col)
             PROVE  Arrives(w, h, P \o << >>, px \o Repeat(color, 0), col + 0)
  BY DEF Paints
<1>1. Repeat(color, 0) = << >>
  BY DEF Repeat
<1>2. P \o << >> = P /\ px \o << >> = px /\ col + 0 = col
  BY ConcatEmptySeq
<1> QED BY <1>1, <1>2

(* Two codes of one color paint the pixels of both.                        *)
LEMMA PaintsBoth ==
  ASSUME NEW c \in Seq(Nat), NEW d \in Seq(Nat), NEW m \in Nat, NEW n \in Nat,
         NEW color \in Nat, Paints(c, m, color), Paints(d, n, color)
  PROVE  Paints(c \o d, m + n, color)
<1> SUFFICES ASSUME NEW w \in Nat, NEW h \in Nat, NEW P \in Seq(Nat), NEW px \in Seq(Nat),
                    NEW col \in Nat, Arrives(w, h, P, px, col), Len(px) + (m + n) <= w * h
             PROVE  Arrives(w, h, P \o (c \o d), px \o Repeat(color, m + n), col + (m + n))
  BY DEF Paints
<1> DEFINE a == Repeat(color, m)
           b == Repeat(color, n)
           total == w * h
<1>1. a \in Seq(Nat) /\ Len(a) = m /\ b \in Seq(Nat) /\ Len(px) \in Nat /\ total \in Nat
  BY RepeatTyped
<1>2. Repeat(color, m + n) = a \o b
  BY RepeatTwice
<1>3. Len(px) + m <= total /\ (Len(px) + m) + n <= total
  BY <1>1
<1> HIDE DEF a, b, total
<1>4. /\ P \o c \in Seq(Nat) /\ px \o a \in Seq(Nat) /\ Len(px \o a) = Len(px) + m
      /\ P \o (c \o d) = (P \o c) \o d /\ px \o (a \o b) = (px \o a) \o b
      /\ col + (m + n) = (col + m) + n /\ col + m \in Nat
  <2>1. P \o c \in Seq(Nat) /\ px \o a \in Seq(Nat) /\ Len(px \o a) = Len(px) + m
    BY <1>1, ConcatProperties
  <2>2. P \o (c \o d) = (P \o c) \o d
    BY Regroup
  <2>3. px \o (a \o b) = (px \o a) \o b
    BY <1>1, Regroup
  <2> QED BY <2>1, <2>2, <2>3
<1>5. Arrives(w, h, P \o c, px \o a, col + m)
  BY <1>3 DEF Paints, a, total
<1>6. Len(px \o a) + n <= w * h
  BY <1>3, <1>4 DEF total
<1>7. Arrives(w, h, (P \o c) \o d, (px \o a) \o b, (col + m) + n)
  <2> DEFINE Q == P \o c
             qx == px \o a
             qc == col + m
  <2>1. /\ Q \in Seq(Nat) /\ qx \in Seq(Nat) /\ qc \in Nat /\ Arrives(w, h, Q, qx, qc)
        /\ Len(qx) + n <= w * h
    BY <1>4, <1>5, <1>6
  <2> HIDE DEF Q, qx, qc
  <2>2. Arrives(w, h, Q \o d, qx \o b, qc + n)
    BY <2>1 DEF Paints, b
  <2> QED BY <2>2 DEF Q, qx, qc
<1> QED BY <1>2, <1>4, <1>7

(* Two sequences of one element.                                           *)
LEMMA Pair ==
  ASSUME NEW X, NEW e \in X
  PROVE  << e >> \o << e >> = << e, e >>
<1> DEFINE s == << e >>
           a == Append(s, e)
           b == << e, e >>
<1>1. s \in Seq(X) /\ Len(s) = 1 /\ s[1] = e
  OBVIOUS
<1>2. b \in Seq(X) /\ Len(b) = 2 /\ b[1] = e /\ b[2] = e
  OBVIOUS
<1>3. a = s \o << e >>
  BY <1>1, AppendIsConcat
<1> HIDE DEF s, b
<1>4. /\ a \in Seq(X) /\ Len(a) = Len(s) + 1 /\ a[Len(s) + 1] = e
      /\ \A k \in 1 .. Len(s) : a[k] = s[k]
  <2>1. s \in Seq(X)
    BY <1>1
  <2> QED BY <2>1, AppendProperties
<1> HIDE DEF a
<1>5. \A k \in 1 .. Len(a) : a[k] = b[k]
  <2>1. 1 \in 1 .. Len(s) /\ Len(a) = 2 /\ a[2] = e
    BY <1>1, <1>4
  <2>2. a[1] = e
    BY <1>1, <1>4, <2>1
  <2>3. \A k \in 1 .. 2 : k = 1 \/ k = 2
    OBVIOUS
  <2> QED BY <1>2, <2>1, <2>2, <2>3
<1>6. a = b
  <2>1. a \in Seq(X) /\ b \in Seq(X) /\ Len(a) = Len(b)
    BY <1>1, <1>2, <1>4
  <2> QED BY <1>5, <2>1, SeqEqual
<1> QED BY <1>3, <1>6 DEF b, s

(* n is q times b, and r is left.                                          *)
IsDivided(n, b, q, r) == n = q * b + r /\ q \in Nat /\ r \in 0 .. b - 1

(* Division leaves a remainder below the divisor.                          *)
LEMMA Remainder ==
  ASSUME NEW n \in Nat, NEW b \in Nat \ {0}
  PROVE  IsDivided(n, b, n \div b, n % b)
<1> DEFINE T == {m \in Nat : \E q \in Nat, r \in 0 .. b - 1 : m = q * b + r}
<1>1. 0 \in T
  <2>1. 0 = 0 * b + 0 /\ 0 \in 0 .. b - 1
    OBVIOUS
  <2> QED BY <2>1
<1>2. ASSUME NEW m \in T PROVE m + 1 \in T
  <2>1. PICK q \in Nat, r \in 0 .. b - 1 : m = q * b + r
    OBVIOUS
  <2>2. CASE r = b - 1
    <3> DEFINE p == q + 1
    <3>1. m + 1 = p * b + 0 /\ p \in Nat /\ 0 \in 0 .. b - 1
      BY <2>1, <2>2
    <3> HIDE DEF p
    <3> QED BY <3>1
  <2>3. CASE r # b - 1
    <3>1. m + 1 = q * b + (r + 1) /\ r + 1 \in 0 .. b - 1
      BY <2>1, <2>3
    <3> QED BY <3>1
  <2> QED BY <2>2, <2>3
<1>3. T = Nat
  <2>1. T \in SUBSET Nat
    OBVIOUS
  <2> HIDE DEF T
  <2> QED BY <1>1, <1>2, <2>1, SetInduction
<1>4. PICK q \in Nat, r \in 0 .. b - 1 : n = q * b + r
  <2>1. n \in T
    <3> HIDE DEF T
    <3> QED BY <1>3
  <2> QED BY <2>1
<1>5. n \div b = q /\ n % b = r
  <2> DEFINE e == q * b + r
  <2>1. e \div b = q /\ e % b = r
    BY Division
  <2>2. n = e
    BY <1>4
  <2> HIDE DEF e
  <2> QED BY <2>1, <2>2
<1> DEFINE c == n \div b
           d == n % b
<1>6. c = q /\ d = r
  BY <1>5
<1> HIDE DEF c, d
<1>7. IsDivided(n, b, c, d)
  BY <1>4, <1>6 DEF IsDivided
<1> QED BY <1>7 DEF c, d

(* The upper digit of a number with two digits is one.                     *)
LEMMA Digits ==
  ASSUME NEW n \in Nat, NEW b \in Nat \ {0}, NEW s \in Nat, n < s * b,
         NEW q, NEW r, IsDivided(n, b, q, r)
  PROVE  q \in 0 .. s - 1
<1>1. n = q * b + r /\ r \in 0 .. b - 1 /\ q \in Nat
  BY DEF IsDivided
<1>2. q < s
  <2>1. q * b <= n /\ q * b \in Nat /\ s * b \in Nat
    BY <1>1
  <2>2. CASE s = q
    BY <2>1, <2>2
  <2>3. CASE s < q
    <3>1. s * b + b <= q * b
      BY <1>1, <2>3, Product
    <3> QED BY <2>1, <3>1
  <2> QED BY <1>1, <2>2, <2>3
<1> QED BY <1>1, <1>2

(* What encode_rle writes for a run of at most LongRun pixels is read as    *)
(* this run.                                                               *)
LEMMA CodePaints ==
  ASSUME NEW color \in Nat, NEW n \in 1 .. LongRun
  PROVE  Code(color, n) \in Seq(Nat) /\ Paints(Code(color, n), n, color)
<1> DEFINE hi == n \div Byte
           lo == n % Byte
           S == ShortRun + 1
<1>1. /\ ShortRun \in Nat \ {0} /\ LongFlag = S /\ ColorFlag = 2 * S /\ Byte = 4 * S
      /\ LongRun = S * Byte - 1 /\ S \in Nat \ {0} /\ n \in Nat \ {0}
  <2>1. LongRun \in Int
    BY ShortRunAssumption DEF LongRun, Byte
  <2> QED BY <2>1, ShortRunAssumption DEF LongFlag, ColorFlag, Byte, LongRun
<1>2. n = hi * Byte + lo /\ lo \in Nat /\ hi \in 0 .. ShortRun
  <2> DEFINE b == Byte
             s == S
  <2>1. b \in Nat \ {0} /\ s \in Nat /\ n \in Nat /\ n < s * b
    BY <1>1
  <2> HIDE DEF b, s
  <2>2. IsDivided(n, b, hi, lo)
    <3>1. IsDivided(n, b, n \div b, n % b)
      BY <2>1, Remainder
    <3> QED BY <3>1 DEF b
  <2> HIDE DEF hi, lo
  <2>3. hi \in 0 .. s - 1
    BY <2>1, <2>2, Digits
  <2> QED BY <1>1, <2>1, <2>2, <2>3 DEF s, b, IsDivided
<1> HIDE DEF hi, lo
<1> DEFINE Ok(c) == c \in Seq(Nat) /\ Paints(c, n, color)
<1>3. CASE color # 0 /\ n = 1
  <2>1. << color >> \in Seq(Nat) /\ << color >> # << >> /\ IsCode(<< color >>, "run", 1, color)
    BY <1>3, ColorIsCode
  <2>2. Ok(<< color >>)
    <3> DEFINE c == << color >>
    <3>1. c \in Seq(Nat) /\ c # << >> /\ IsCode(c, "run", n, color)
      BY <1>3, <2>1
    <3> HIDE DEF c
    <3>2. Ok(c)
      BY <1>1, <3>1, RunPaints
    <3> QED BY <3>2 DEF c
  <2>3. Code(color, n) = << color >>
    BY <1>1, <1>3 DEF Code
  <2> QED BY <2>2, <2>3
<1>4. CASE color # 0 /\ n = 2
  <2>1. << color >> \in Seq(Nat) /\ << color >> # << >> /\ IsCode(<< color >>, "run", 1, color)
    BY <1>4, ColorIsCode
  <2>2. Paints(<< color >>, 1, color)
    <3> DEFINE c == << color >>
    <3>1. c \in Seq(Nat) /\ c # << >> /\ IsCode(c, "run", 1, color) /\ 1 \in Nat \ {0}
      BY <2>1
    <3> HIDE DEF c
    <3>2. Paints(c, 1, color)
      BY <3>1, RunPaints
    <3> QED BY <3>2 DEF c
  <2>3. Paints(<< color >> \o << color >>, 1 + 1, color)
    BY <2>1, <2>2, PaintsBoth
  <2>4. << color >> \o << color >> = << color, color >> /\ << color, color >> \in Seq(Nat)
    <3>1. << color, color >> \in Seq(Nat)
      OBVIOUS
    <3>2. << color >> \o << color >> = << color, color >>
      BY Pair
    <3> QED BY <3>1, <3>2
  <2>5. Code(color, n) = << color, color >> /\ n = 1 + 1
    BY <1>1, <1>4 DEF Code
  <2> QED BY <2>3, <2>4, <2>5
<1>5. CASE color # 0 /\ n \in 3 .. ShortRun
  <2> DEFINE c == << 0, ColorFlag + n, color >>
  <2>1. /\ c \in Seq(Nat) /\ c # << >> /\ Len(c) = 3 /\ c[1] = 0
        /\ c[2] = ColorFlag + n /\ c[3] = color
    BY <1>1
  <2>2. c[2] = 1 * ColorFlag + 0 * LongFlag + n /\ c[2] # 0
    BY <1>1, <2>1
  <2> HIDE DEF c
  <2>3. IsCode(c, "run", n, color)
    <3>1. n \in 0 .. ShortRun
      BY <1>5
    <3> QED BY <1>1, <2>1, <2>2, <3>1, FlaggedIsCode
  <2>4. Ok(c)
    BY <1>1, <2>1, <2>3, RunPaints
  <2>5. Code(color, n) = c
    BY <1>1, <1>5 DEF Code, c, hi, lo
  <2> QED BY <2>4, <2>5
<1>6. CASE color # 0 /\ n > ShortRun /\ n > 2
  <2> DEFINE c == << 0, ColorFlag + LongFlag + hi, lo, color >>
  <2>1. /\ c \in Seq(Nat) /\ c # << >> /\ Len(c) = 4 /\ c[1] = 0
        /\ c[2] = ColorFlag + LongFlag + hi /\ c[3] = lo /\ c[4] = color
    BY <1>1, <1>2
  <2>2. c[2] = 1 * ColorFlag + 1 * LongFlag + hi /\ c[2] # 0
    BY <1>1, <1>2, <2>1
  <2> HIDE DEF c
  <2>3. IsCode(c, "run", n, color)
    BY <1>1, <1>2, <2>1, <2>2, FlaggedIsCode
  <2>4. Ok(c)
    BY <1>1, <2>1, <2>3, RunPaints
  <2>5. Code(color, n) = c
    BY <1>1, <1>6 DEF Code, c, hi, lo
  <2> QED BY <2>4, <2>5
<1>7. CASE color = 0 /\ n <= ShortRun
  <2> DEFINE c == << 0, n >>
  <2>1. c \in Seq(Nat) /\ c # << >> /\ Len(c) = 2 /\ c[1] = 0 /\ c[2] = n
    BY <1>1
  <2>2. c[2] = 0 * ColorFlag + 0 * LongFlag + n /\ c[2] # 0
    BY <1>1, <2>1
  <2> HIDE DEF c
  <2>3. IsCode(c, "run", n, color)
    <3>1. n \in 0 .. ShortRun
      BY <1>1, <1>7
    <3> QED BY <1>1, <1>7, <2>1, <2>2, <3>1, FlaggedIsCode
  <2>4. Ok(c)
    BY <1>1, <2>1, <2>3, RunPaints
  <2>5. Code(color, n) = c
    BY <1>1, <1>7 DEF Code, c, hi, lo
  <2> QED BY <2>4, <2>5
<1>8. CASE color = 0 /\ n > ShortRun
  <2> DEFINE c == << 0, LongFlag + hi, lo >>
  <2>1. /\ c \in Seq(Nat) /\ c # << >> /\ Len(c) = 3 /\ c[1] = 0
        /\ c[2] = LongFlag + hi /\ c[3] = lo
    BY <1>1, <1>2
  <2>2. c[2] = 0 * ColorFlag + 1 * LongFlag + hi /\ c[2] # 0
    BY <1>1, <1>2, <2>1
  <2> HIDE DEF c
  <2>3. IsCode(c, "run", n, color)
    BY <1>1, <1>2, <1>8, <2>1, <2>2, FlaggedIsCode
  <2>4. Ok(c)
    BY <1>1, <2>1, <2>3, RunPaints
  <2>5. Code(color, n) = c
    BY <1>1, <1>8 DEF Code, c, hi, lo
  <2> QED BY <2>4, <2>5
<1>9. \/ color # 0 /\ n = 1
      \/ color # 0 /\ n = 2
      \/ color # 0 /\ n \in 3 .. ShortRun
      \/ color # 0 /\ n > ShortRun /\ n > 2
      \/ color = 0 /\ n <= ShortRun
      \/ color = 0 /\ n > ShortRun
  <2>1. n \in Nat \ {0} /\ ShortRun \in Nat
    BY <1>1
  <2>2. n = 1 \/ n = 2 \/ n \in 3 .. ShortRun \/ (n > ShortRun /\ n > 2)
    BY <2>1
  <2>3. n <= ShortRun \/ n > ShortRun
    BY <2>1
  <2> QED BY <2>2, <2>3
<1> QED BY <1>3, <1>4, <1>5, <1>6, <1>7, <1>8, <1>9

(* The same code q times.                                                  *)
LEMMA CopiesPaint ==
  ASSUME NEW c \in Seq(Nat), NEW n \in Nat, NEW color \in Nat, Paints(c, n, color),
         NEW q \in Nat
  PROVE  /\ Joined([k \in 1 .. q |-> c]) \in Seq(Nat)
         /\ Paints(Joined([k \in 1 .. q |-> c]), q * n, color)
<1> DEFINE copies(m) == [k \in 1 .. m |-> c]
           T == {m \in Nat : /\ Joined(copies(m)) \in Seq(Nat)
                             /\ Paints(Joined(copies(m)), m * n, color)}
<1>1. \A m \in Nat : copies(m) \in Seq(Seq(Nat))
  OBVIOUS
<1>2. 0 \in T
  <2>1. copies(0) = << >> /\ << >> \in Seq(Nat) /\ 0 * n = 0
    OBVIOUS
  <2>2. Paints(<< >>, 0, color)
    BY NothingPaints
  <2> QED BY <2>1, <2>2, JoinedEmpty
<1>3. ASSUME NEW m \in T PROVE m + 1 \in T
  <2>1. m \in Nat /\ m * n \in Nat /\ (m + 1) * n = m * n + n
    OBVIOUS
  <2>2. copies(m + 1) = Append(copies(m), c)
    <3> DEFINE a == copies(m + 1)
               b == Append(copies(m), c)
    <3>1. a \in Seq(Seq(Nat)) /\ Len(a) = m + 1 /\ \A k \in 1 .. m + 1 : a[k] = c
      BY <2>1
    <3>2. copies(m) \in Seq(Seq(Nat)) /\ Len(copies(m)) = m /\ \A k \in 1 .. m : copies(m)[k] = c
      BY <2>1
    <3> HIDE DEF copies
    <3>3. b \in Seq(Seq(Nat)) /\ Len(b) = m + 1 /\ b[m + 1] = c /\ \A k \in 1 .. m : b[k] = c
      BY <2>1, <3>2, AppendProperties
    <3> HIDE DEF a, b
    <3>4. \A k \in 1 .. Len(a) : a[k] = b[k]
      BY <2>1, <3>1, <3>3
    <3>5. a = b
      BY <3>1, <3>3, <3>4, SeqEqual
    <3> QED BY <3>5 DEF a, b
  <2> DEFINE s == copies(m)
             j == Joined(s)
             mn == m * n
  <2>3. s \in Seq(Seq(Nat)) /\ j \in Seq(Nat) /\ Paints(j, mn, color) /\ mn \in Nat
    BY <1>1, <2>1
  <2>4. Joined(copies(m + 1)) = j \o c
    <3>1. Joined(Append(s, c)) = Joined(s) \o c
      <4> HIDE DEF s
      <4> QED BY <2>3, JoinedAppend
    <3> QED BY <2>2, <3>1
  <2> HIDE DEF s, j, mn
  <2>5. j \o c \in Seq(Nat) /\ Paints(j \o c, mn + n, color)
    BY <2>3, PaintsBoth, ConcatProperties
  <2>6. Paints(j \o c, (m + 1) * n, color) /\ m + 1 \in Nat
    BY <2>1, <2>5 DEF mn
  <2> HIDE DEF copies
  <2> QED BY <2>4, <2>5, <2>6
<1>4. T = Nat
  <2>1. T \in SUBSET Nat
    OBVIOUS
  <2> HIDE DEF T
  <2> QED BY <1>2, <1>3, <2>1, SetInduction
<1>5. q \in T
  BY <1>4
<1> QED BY <1>5

(* A run of any length is read as this run.                                *)
LEMMA CodeRunPaints ==
  ASSUME NEW color \in Nat, NEW run \in Nat
  PROVE  CodeRun(color, run) \in Seq(Nat) /\ Paints(CodeRun(color, run), run, color)
<1> DEFINE L == LongRun
           q == run \div L
           r == run % L
           c == Code(color, L)
           a == Joined([k \in 1 .. q |-> c])
           b == IF r = 0 THEN << >> ELSE Code(color, r)
<1>1. L \in Nat \ {0}
  <2> DEFINE S == ShortRun + 1
  <2>1. S \in Nat \ {0} /\ Byte = 4 * S
    BY ShortRunAssumption DEF Byte
  <2> HIDE DEF S
  <2>2. S * Byte = 4 * (S * S) /\ S * S \in Nat \ {0}
    BY <2>1
  <2>3. L = S * Byte - 1
    BY DEF LongRun, S
  <2> QED BY <2>2, <2>3
<1> HIDE DEF L
<1>2. IsDivided(run, L, q, r)
  BY <1>1, Remainder
<1> HIDE DEF q, r
<1>3. q \in Nat /\ r \in 0 .. L - 1 /\ run = q * L + r /\ q * L \in Nat
  BY <1>1, <1>2 DEF IsDivided
<1>4. c \in Seq(Nat) /\ Paints(c, L, color)
  <2>1. L \in 1 .. LongRun
    BY <1>1 DEF L
  <2> QED BY <2>1, CodePaints
<1> HIDE DEF c
<1>5. a \in Seq(Nat) /\ Paints(a, q * L, color)
  BY <1>1, <1>3, <1>4, CopiesPaint
<1> HIDE DEF a
<1>6. b \in Seq(Nat) /\ Paints(b, r, color)
  <2>1. CASE r = 0
    <3>1. << >> \in Seq(Nat) /\ Paints(<< >>, 0, color)
      BY NothingPaints
    <3> QED BY <2>1, <3>1
  <2>2. CASE r # 0
    <3>1. r \in 1 .. LongRun
      BY <1>1, <1>3, <2>2 DEF L
    <3>2. Code(color, r) \in Seq(Nat) /\ Paints(Code(color, r), r, color)
      BY <3>1, CodePaints
    <3> QED BY <2>2, <3>2
  <2> QED BY <2>1, <2>2
<1> HIDE DEF b
<1>7. a \o b \in Seq(Nat) /\ Paints(a \o b, run, color)
  <2> DEFINE m == q * L
  <2>1. m \in Nat /\ r \in Nat /\ run = m + r /\ Paints(a, m, color)
    BY <1>3, <1>5
  <2> HIDE DEF m
  <2>2. a \o b \in Seq(Nat)
    BY <1>5, <1>6, ConcatProperties
  <2> QED BY <1>5, <1>6, <2>1, <2>2, PaintsBoth
<1>8. CodeRun(color, run) = a \o b
  BY DEF CodeRun, a, b, c, q, r, L
<1> QED BY <1>7, <1>8

(* A bitmap that is not empty.                                             *)
IsBitmap(pixels, w, h) ==
  /\ w \in Nat /\ h \in Nat /\ pixels \in Seq(Nat)
  /\ Len(pixels) = w * h /\ w * h # 0

(* It ends with a row, and begins behind one.                              *)
LEMMA BitmapEnds ==
  ASSUME NEW pixels, NEW w, NEW h, IsBitmap(pixels, w, h)
  PROVE  /\ w \in Nat \ {0} /\ h \in Nat \ {0} /\ Len(pixels) \in Nat \ {0}
         /\ Len(pixels) = h * w
         /\ 0 \in RowEnds(w, h) /\ Len(pixels) \in RowEnds(w, h)
<1>1. w \in Nat /\ h \in Nat /\ Len(pixels) = w * h /\ w * h # 0
  BY DEF IsBitmap
<1>2. w # 0 /\ h # 0 /\ w * h = h * w /\ w * h \in Nat
  BY <1>1
<1>3. 0 = 0 * w /\ 0 \in 0 .. h /\ h \in 0 .. h
  BY <1>1
<1> QED BY <1>1, <1>2, <1>3 DEF RowEnds

(* From behind row r on, the row ends where the next multiple of the width *)
(* is, and not before.                                                     *)
LEMMA RowEnd ==
  ASSUME NEW w \in Nat \ {0}, NEW h \in Nat, NEW r \in Nat, NEW m \in Nat, NEW e \in Nat,
         r * w <= m, m < r * w + w, m < e, e <= h * w,
         \A k \in m + 1 .. e - 1 : k \notin RowEnds(w, h)
  PROVE  /\ e <= r * w + w
         /\ e \in RowEnds(w, h) <=> e = r * w + w
         /\ (r + 1) * w = r * w + w
<1> DEFINE a == r * w
           t == h * w
           s == r + 1
<1>1. a \in Nat /\ t \in Nat /\ s \in Nat /\ s * w = a + w
  OBVIOUS
<1>2. r < h
  <2>1. CASE h = r
    BY <1>1, <2>1
  <2>2. CASE h < r
    <3>1. h * w + w <= r * w
      BY <2>2, Product
    <3> QED BY <1>1, <3>1
  <2> QED BY <2>1, <2>2
<1>3. a + w \in RowEnds(w, h)
  <2>1. s \in 0 .. h
    BY <1>2
  <2> HIDE DEF s
  <2> QED BY <1>1, <2>1 DEF RowEnds
<1> HIDE DEF a, t
<1>4. e <= a + w
  <2> SUFFICES ASSUME a + w < e PROVE FALSE
    BY <1>1
  <2>1. m < a + w
    BY DEF a
  <2>2. a + w \in m + 1 .. e - 1
    BY <1>1, <2>1
  <2> QED BY <1>3, <2>2
<1>5. ASSUME e \in RowEnds(w, h) PROVE e = a + w
  <2>1. PICK x \in 0 .. h : e = x * w
    BY <1>5 DEF RowEnds
  <2>2. a <= m
    BY DEF a
  <2>3. CASE x < r
    <3>1. x * w + w <= r * w
      BY <2>3, Product
    <3> QED BY <1>1, <2>1, <2>2, <3>1 DEF a
  <2>4. CASE x = r
    BY <1>1, <2>1, <2>2, <2>4 DEF a
  <2>5. CASE x = s
    BY <1>1, <2>1, <2>5
  <2>6. CASE s < x
    <3>1. s * w + w <= x * w
      BY <1>1, <2>6, Product
    <3> QED BY <1>1, <1>4, <2>1, <3>1
  <2> QED BY <2>3, <2>4, <2>5, <2>6
<1> QED BY <1>1, <1>3, <1>4, <1>5 DEF a, s

(* e is where the run that starts at i ends.                               *)
IsRunEnd(pixels, w, h, i, e) ==
  /\ e \in i .. Len(pixels)
  /\ \A k \in i .. e : pixels[k] = pixels[i]
  /\ \A k \in i .. e - 1 : k \notin RowEnds(w, h)
  /\ e \in RowEnds(w, h) \/ pixels[e + 1] # pixels[i]

(* Every run ends.                                                         *)
LEMMA RunEnds ==
  ASSUME NEW pixels, NEW w, NEW h, IsBitmap(pixels, w, h), NEW i \in 1 .. Len(pixels)
  PROVE  IsRunEnd(pixels, w, h, i, RunEnd(pixels, w, h, i))
<1> DEFINE T == Len(pixels)
           E == RowEnds(w, h)
           stops == {j \in i .. T : j \in E \/ pixels[j + 1] # pixels[i]}
<1>1. T \in Nat \ {0} /\ T \in E
  BY BitmapEnds
<1> HIDE DEF T, E
<1>2. i \in Nat /\ T \in i .. T
  BY <1>1 DEF T
<1>3. PICK e \in stops : \A y \in stops : e <= y
  <2>1. stops \in SUBSET Nat /\ T \in stops
    BY <1>1, <1>2
  <2> HIDE DEF stops
  <2> QED BY <2>1, LeastNumber
<1>4. e \in i .. T /\ e \in Nat
  BY <1>2
<1>5. \A k \in i .. e - 1 : k \notin E /\ pixels[k + 1] = pixels[i]
  <2> SUFFICES ASSUME NEW k \in i .. e - 1 PROVE k \notin E /\ pixels[k + 1] = pixels[i]
    OBVIOUS
  <2>1. ~ (e <= k) /\ k \in i .. T
    BY <1>1, <1>2, <1>4
  <2>2. k \notin stops
    BY <1>3, <2>1
  <2> QED BY <2>1, <2>2
<1>6. \A k \in i .. e : pixels[k] = pixels[i]
  <2> SUFFICES ASSUME NEW k \in i .. e, k # i PROVE pixels[k] = pixels[i]
    OBVIOUS
  <2>1. k - 1 \in i .. e - 1 /\ (k - 1) + 1 = k
    BY <1>2, <1>4
  <2>2. pixels[(k - 1) + 1] = pixels[i]
    BY <1>5, <2>1
  <2> QED BY <2>1, <2>2
<1>7. IsRunEnd(pixels, w, h, i, e)
  BY <1>3, <1>4, <1>5, <1>6 DEF IsRunEnd, T, E
<1>8. RunEnd(pixels, w, h, i) = CHOOSE j \in i .. Len(pixels) : IsRunEnd(pixels, w, h, i, j)
  BY DEF RunEnd, IsRunEnd
<1> QED BY <1>4, <1>7, <1>8 DEF T

(* The next run starts behind it, and none in it.                          *)
LEMMA NextRun ==
  ASSUME NEW pixels, NEW w, NEW h, IsBitmap(pixels, w, h),
         NEW i \in RunStarts(pixels, w, h), NEW e, IsRunEnd(pixels, w, h, i, e)
  PROVE  /\ e + 1 \in RunStarts(pixels, w, h) \cup {Len(pixels) + 1}
         /\ RunStarts(pixels, w, h) \cap (1 .. e) =
              (RunStarts(pixels, w, h) \cap (1 .. i - 1)) \cup {i}
<1> DEFINE T == Len(pixels)
           E == RowEnds(w, h)
           S == RunStarts(pixels, w, h)
<1>1. /\ DOMAIN pixels = 1 .. T /\ T \in Nat
      /\ \A k \in 1 .. T : k \in S <=> (k - 1 \in E \/ pixels[k] # pixels[k - 1])
  <2>1. DOMAIN pixels = 1 .. T /\ T \in Nat
    BY DEF IsBitmap
  <2> QED BY <2>1 DEF RunStarts
<1>2. i \in 1 .. T /\ S \subseteq 1 .. T
  BY <1>1 DEF RunStarts
<1>3. /\ e \in i .. T
      /\ e \in E \/ pixels[e + 1] # pixels[i]
      /\ \A k \in i .. e : pixels[k] = pixels[i]
      /\ \A k \in i .. e - 1 : k \notin E
  BY DEF IsRunEnd
<1> HIDE DEF T, E, S
<1>4. \A k \in i + 1 .. e : k \notin S
  <2> SUFFICES ASSUME NEW k \in i + 1 .. e PROVE k \notin S
    OBVIOUS
  <2>1. k - 1 \in i .. e - 1 /\ k - 1 \in i .. e /\ k \in i .. e /\ k \in 1 .. T
    BY <1>1, <1>2, <1>3
  <2>2. k - 1 \notin E /\ pixels[k] = pixels[k - 1]
    BY <1>3, <2>1
  <2> QED BY <1>1, <2>1, <2>2
<1>5. ASSUME e # T PROVE e + 1 \in S
  <2>1. e + 1 \in 1 .. T /\ (e + 1) - 1 = e /\ e \in i .. e
    BY <1>1, <1>2, <1>3, <1>5
  <2>2. pixels[e] = pixels[i]
    BY <1>3, <2>1
  <2> QED BY <1>1, <1>3, <2>1, <2>2
<1>6. S \cap (1 .. e) = (S \cap (1 .. i - 1)) \cup {i}
  <2>1. i \in S
    BY DEF S
  <2>2. 1 .. e = (1 .. i - 1) \cup {i} \cup (i + 1 .. e)
    BY <1>1, <1>2, <1>3
  <2> QED BY <1>4, <2>1, <2>2
<1> QED BY <1>5, <1>6 DEF S, T

(* encode_rle has coded the pixels in front of p.at, and that is what a     *)
(* decoder makes of p.data; at the end but for the last end of a line,     *)
(* which it does not need.                                                 *)
Encoded(pixels, w, h, p) ==
  /\ p.at \in 1 .. Len(pixels) + 1 /\ p.data \in Seq(Nat)
  /\ p.at <= Len(pixels) =>
       /\ p.at \in RunStarts(pixels, w, h)
       /\ \E r \in Nat :
            /\ r * w <= p.at - 1 /\ p.at - 1 < r * w + w
            /\ Arrives(w, h, p.data, SubSeq(pixels, 1, p.at - 1), p.at - 1 - r * w)
  /\ p.at = Len(pixels) + 1 =>
       \E P \in Seq(Nat), col \in Nat :
         p.data = P \o EndOfLine /\ Arrives(w, h, P, pixels, col)

(* Before the first run nothing is coded.                                  *)
LEMMA EncodingBegins ==
  ASSUME NEW pixels, NEW w, NEW h, IsBitmap(pixels, w, h)
  PROVE  Encoded(pixels, w, h, [at |-> 1, data |-> << >>])
<1> DEFINE p == [at |-> 1, data |-> << >>]
<1>1. /\ w \in Nat \ {0} /\ h \in Nat \ {0} /\ Len(pixels) \in Nat \ {0}
      /\ 0 \in RowEnds(w, h) /\ pixels \in Seq(Nat)
  BY BitmapEnds DEF IsBitmap
<1>2. 1 \in RunStarts(pixels, w, h)
  <2>1. 1 \in DOMAIN pixels /\ 1 - 1 = 0
    BY <1>1
  <2> QED BY <1>1, <2>1 DEF RunStarts
<1>3. Arrives(w, h, << >>, << >>, 0)
  <2> SUFFICES ASSUME NEW R \in Seq(Nat)
               PROVE  \E k \in 0 .. Len(<< >>) :
                        Rounds(<< >> \o R, w, h)[k] =
                          {[at |-> Len(<< >>) + 1, pixels |-> << >>, col |-> 0]}
    BY DEF Arrives
  <2>1. << >> \o R = R /\ Len(<< >>) = 0 /\ 0 \in 0 .. 0 /\ 0 \in 0 .. Len(R) /\ 0 + 1 = 1
    BY ConcatEmptySeq
  <2>2. IsDecoding(Rounds(R, w, h), R, w, w * h)
    BY <1>1, DecodingExists
  <2>3. Rounds(R, w, h)[0] = {[at |-> 1, pixels |-> << >>, col |-> 0]}
    BY <2>1, <2>2 DEF IsDecoding
  <2> QED BY <2>1, <2>3
<1>4. p.at = 1 /\ p.data = << >> /\ << >> \in Seq(Nat) /\ 1 - 1 = 0
  OBVIOUS
<1>5. SubSeq(pixels, 1, 0) = << >>
  BY <1>1, SubSeqEmpty
<1>6. /\ 0 \in Nat /\ 0 * w <= 1 - 1 /\ 1 - 1 < 0 * w + w
      /\ Arrives(w, h, << >>, SubSeq(pixels, 1, 1 - 1), 1 - 1 - 0 * w)
  <2>1. 0 * w = 0 /\ 1 - 1 - 0 * w = 0 /\ 0 + w = w /\ 0 < w /\ 0 <= 0 /\ 1 - 1 = 0
    BY <1>1
  <2> QED BY <1>3, <1>5, <2>1
<1>7. p.at \in 1 .. Len(pixels) + 1 /\ p.at # Len(pixels) + 1
  BY <1>1, <1>4
<1> HIDE DEF p
<1>8. Encoded(pixels, w, h, p)
  BY <1>2, <1>4, <1>6, <1>7 DEF Encoded
<1> QED BY <1>8 DEF p

(* A prefix and a run of one color behind it.                              *)
LEMMA PrefixGrows ==
  ASSUME NEW s \in Seq(Nat), NEW m \in Nat, NEW e \in Nat, m <= e, e <= Len(s),
         NEW color \in Nat, \A k \in m + 1 .. e : s[k] = color
  PROVE  SubSeq(s, 1, m) \o Repeat(color, e - m) = SubSeq(s, 1, e)
<1> DEFINE a == SubSeq(s, 1, m)
           b == Repeat(color, e - m)
           c == SubSeq(s, 1, e)
<1>1. m \in 0 .. Len(s) /\ e \in 0 .. Len(s) /\ e - m \in Nat
  OBVIOUS
<1>2. a \in Seq(Nat) /\ Len(a) = m /\ \A k \in 1 .. m : a[k] = s[k]
  BY <1>1, Prefix
<1>3. c \in Seq(Nat) /\ Len(c) = e /\ \A k \in 1 .. e : c[k] = s[k]
  BY <1>1, Prefix
<1>4. b \in Seq(Nat) /\ Len(b) = e - m /\ \A k \in 1 .. e - m : b[k] = color
  BY <1>1, RepeatTyped
<1> HIDE DEF a, b, c
<1>5. a \o b \in Seq(Nat) /\ Len(a \o b) = e
  <2>1. a \in Seq(Nat) /\ b \in Seq(Nat) /\ Len(a) = m /\ Len(b) = e - m
    BY <1>2, <1>4
  <2>2. a \o b \in Seq(Nat) /\ Len(a \o b) = Len(a) + Len(b)
    BY <2>1, ConcatProperties
  <2> QED BY <1>1, <2>1, <2>2
<1>6. \A k \in 1 .. e : (a \o b)[k] = s[k]
  <2> SUFFICES ASSUME NEW k \in 1 .. e PROVE (a \o b)[k] = s[k]
    OBVIOUS
  <2>1. CASE k <= m
    <3>1. k \in 1 .. Len(a) /\ k \in 1 .. m
      BY <1>2, <2>1
    <3>2. (a \o b)[k] = a[k]
      BY <1>2, <1>4, <3>1, ConcatProperties
    <3> QED BY <1>2, <3>1, <3>2
  <2>2. CASE ~ (k <= m)
    <3>1. /\ k \in Len(a) + 1 .. Len(a) + Len(b) /\ k - Len(a) \in 1 .. e - m
          /\ k \in m + 1 .. e
      BY <1>1, <1>2, <1>4, <2>2
    <3>2. a \in Seq(Nat) /\ b \in Seq(Nat) /\ k \in Len(a) + 1 .. Len(a) + Len(b)
      BY <1>2, <1>4, <3>1
    <3>3. (a \o b)[k] = b[k - Len(a)]
      BY <3>2, ConcatProperties
    <3> QED BY <1>4, <3>1, <3>3
  <2> QED BY <2>1, <2>2
<1>7. a \o b = c
  <2> DEFINE ab == a \o b
  <2> HIDE DEF ab
  <2>1. ab \in Seq(Nat) /\ Len(ab) = Len(c) /\ \A k \in 1 .. Len(ab) : ab[k] = c[k]
    BY <1>3, <1>5, <1>6 DEF ab
  <2>2. ab = c
    BY <1>3, <2>1, SeqEqual
  <2> QED BY <2>2 DEF ab
<1> QED BY <1>7 DEF a, b, c

(* The end of a line that ends where the row does changes the column only. *)
LEMMA LineEnds ==
  ASSUME NEW w \in Nat, NEW h \in Nat, NEW P \in Seq(Nat), NEW px \in Seq(Nat),
         Arrives(w, h, P, px, w), Len(px) < w * h
  PROVE  Arrives(w, h, P \o EndOfLine, px, 0)
<1> DEFINE c == EndOfLine
           total == w * h
           p == [at |-> Len(P) + 1, pixels |-> px, col |-> w]
           to == Len(P) + Len(c) + 1
           code == [kind |-> "eol", n |-> 0, color |-> 0, next |-> to]
<1>1. c \in Seq(Nat) /\ c # << >> /\ IsCode(c, "eol", 0, 0)
  BY EndOfLineIsCode DEF EndOfLine
<1>2. Repeat(0, 0) = << >> /\ px \o << >> = px
  BY ConcatEmptySeq DEF Repeat
<1>3. Paint(p, code, w, total) = [at |-> to, pixels |-> px, col |-> 0]
  <2> DEFINE l == Len(px)
  <2>1. total \in Nat /\ l \in Nat /\ l < total
    OBVIOUS
  <2>2. /\ code.kind = "eol" /\ code.next = to /\ code.color = 0
        /\ p.pixels = px /\ p.col = w
    OBVIOUS
  <2> HIDE DEF total, l, p, code, to
  <2>3. ~ (w > w) /\ (IF 0 < total - l THEN 0 ELSE total - l) = 0
    BY <2>1
  <2> QED BY <1>2, <2>2, <2>3 DEF Paint, l
<1>4. Len(px) # w * h
  OBVIOUS
<1> HIDE DEF c
<1>5. Arrives(w, h, P \o c, px, 0)
  BY <1>1, <1>3, <1>4, ReadsCode DEF p, code, to, total
<1> QED BY <1>5 DEF c

(* One more run codes its pixels, and the end of the line behind them.     *)
LEMMA EncodeStep ==
  ASSUME NEW pixels, NEW w, NEW h, IsBitmap(pixels, w, h),
         NEW p, Encoded(pixels, w, h, p), p.at <= Len(pixels)
  PROVE  LET q == EncodeRun(p, pixels, w, h)
             S == RunStarts(pixels, w, h)
         IN  /\ Encoded(pixels, w, h, q) /\ p.at \in S
             /\ S \cap (1 .. q.at - 1) = (S \cap (1 .. p.at - 1)) \cup {p.at}
<1> DEFINE T == Len(pixels)
           E == RowEnds(w, h)
           S == RunStarts(pixels, w, h)
           i == p.at
           m == i - 1
           e == RunEnd(pixels, w, h, i)
           n == e - m
           color == pixels[i]
           c == CodeRun(color, n)
           eol == IF e \in E THEN EndOfLine ELSE << >>
           q == EncodeRun(p, pixels, w, h)
           A == p.data \o c
           B == SubSeq(pixels, 1, e)
<1>1. /\ w \in Nat \ {0} /\ h \in Nat \ {0} /\ T \in Nat \ {0} /\ pixels \in Seq(Nat)
      /\ T = h * w /\ T = w * h /\ T \in E
  BY BitmapEnds DEF IsBitmap
<1>2. i \in 1 .. T /\ i \in S /\ p.data \in Seq(Nat)
  <2>1. i \in 1 .. T + 1 /\ i <= T
    BY DEF Encoded
  <2>2. i \in 1 .. T
    BY <1>1, <2>1
  <2> QED BY <2>2 DEF Encoded
<1>3. PICK r \in Nat : /\ r * w <= m /\ m < r * w + w
                       /\ Arrives(w, h, p.data, SubSeq(pixels, 1, m), m - r * w)
  BY DEF Encoded
<1>4. IsRunEnd(pixels, w, h, i, e)
  BY <1>2, RunEnds
<1>5. q = [at |-> e + 1, data |-> A \o eol]
  <2>1. (e - i) + 1 = n
    <3>1. e \in Nat /\ i \in Nat
      BY <1>1, <1>2, <1>4 DEF IsRunEnd
    <3> HIDE DEF e, i
    <3> QED BY <3>1
  <2>2. e - i + 1 = n
    BY <2>1
  <2> QED BY <2>2 DEF EncodeRun
<1> HIDE DEF T, E, S, i, e, q, color, c
<1>6. /\ e \in i .. T /\ e \in Nat /\ m \in Nat /\ i \in Nat /\ m < e /\ n \in Nat \ {0}
      /\ i = m + 1
  BY <1>1, <1>2, <1>4 DEF IsRunEnd, T
<1> HIDE DEF m, n
<1>7. color \in Nat /\ \A k \in m + 1 .. e : pixels[k] = color
  <2>1. color \in Nat
    BY <1>1, <1>2 DEF color, T
  <2> QED BY <1>4, <1>6, <2>1 DEF IsRunEnd, color
<1>8. c \in Seq(Nat) /\ Paints(c, n, color)
  BY <1>6, <1>7, CodeRunPaints DEF c
<1>9. /\ e <= r * w + w
      /\ e \in E <=> e = r * w + w
      /\ (r + 1) * w = r * w + w
  <2>1. \A k \in m + 1 .. e - 1 : k \notin RowEnds(w, h)
    BY <1>4, <1>6 DEF IsRunEnd
  <2>2. e <= h * w
    BY <1>1, <1>6
  <2>3. /\ e <= r * w + w
        /\ e \in RowEnds(w, h) <=> e = r * w + w
        /\ (r + 1) * w = r * w + w
    BY <1>1, <1>3, <1>6, <2>1, <2>2, RowEnd
  <2> QED BY <2>3 DEF E
<1> DEFINE a == r * w
<1>10. a \in Nat /\ a <= m /\ m < a + w
  BY <1>1, <1>3
<1>11. A \in Seq(Nat) /\ B \in Seq(Nat) /\ Len(B) = e
  <2>1. e \in 0 .. Len(pixels)
    BY <1>6 DEF T
  <2>2. B \in Seq(Nat) /\ Len(B) = e
    BY <1>1, <2>1, Prefix
  <2> QED BY <1>2, <1>8, <2>2, ConcatProperties
<1>12. Arrives(w, h, A, B, e - a)
  <2> DEFINE px == SubSeq(pixels, 1, m)
             col == m - a
  <2>1. px \in Seq(Nat) /\ Len(px) = m
    <3>1. m \in 0 .. Len(pixels)
      BY <1>6 DEF T
    <3> QED BY <1>1, <3>1, Prefix
  <2>2. px \o Repeat(color, n) = B
    <3>1. m <= e /\ e <= Len(pixels)
      BY <1>6 DEF T
    <3>2. SubSeq(pixels, 1, m) \o Repeat(color, e - m) = SubSeq(pixels, 1, e)
      BY <1>1, <1>6, <1>7, <3>1, PrefixGrows
    <3> QED BY <3>2 DEF n
  <2>3. Arrives(w, h, p.data, px, col)
    BY <1>3
  <2> HIDE DEF a
  <2>4. col \in Nat /\ col + n = e - a
    BY <1>6, <1>10 DEF n
  <2>5. m + n <= w * h
    BY <1>1, <1>6 DEF n
  <2>6. w \in Nat /\ h \in Nat
    BY <1>1
  <2> HIDE DEF px, col
  <2>7. Arrives(w, h, p.data \o c, px \o Repeat(color, n), col + n)
    BY <1>2, <1>8, <2>1, <2>3, <2>4, <2>5, <2>6 DEF Paints
  <2> QED BY <2>2, <2>4, <2>7
<1> HIDE DEF A, B
<1>13. /\ e + 1 \in S \cup {T + 1}
       /\ S \cap (1 .. e) = (S \cap (1 .. i - 1)) \cup {i}
  BY <1>2, <1>4, NextRun DEF S, T
<1>14. q.at = e + 1 /\ q.at - 1 = e /\ q.data = A \o eol
  BY <1>5, <1>6
<1>15. EndOfLine \in Seq(Nat) /\ << >> \in Seq(Nat)
  BY DEF EndOfLine
<1>16. q.at \in 1 .. T + 1 /\ q.data \in Seq(Nat)
  <2>1. eol \in Seq(Nat)
    BY <1>15
  <2> HIDE DEF eol
  <2>2. A \o eol \in Seq(Nat)
    BY <1>11, <2>1, ConcatProperties
  <2> QED BY <1>1, <1>6, <1>14, <2>2
<1>17. ASSUME q.at <= T
       PROVE  /\ q.at \in S
              /\ \E x \in Nat : /\ x * w <= q.at - 1 /\ q.at - 1 < x * w + w
                                /\ Arrives(w, h, q.data, SubSeq(pixels, 1, q.at - 1),
                                           q.at - 1 - x * w)
  <2>1. e < T /\ q.at \in S
    BY <1>1, <1>6, <1>13, <1>14, <1>17
  <2>2. CASE e \in E
    <3> DEFINE s == r + 1
    <3>1. s \in Nat /\ s * w = e /\ e - a = w /\ e - e = 0
      <4>1. s \in Nat /\ s * w = a + w /\ e = a + w
        BY <1>9, <2>2
      <4> HIDE DEF a, s
      <4> QED BY <1>1, <1>10, <4>1
    <3>2. Arrives(w, h, A \o EndOfLine, B, 0)
      <4>1. Len(B) < w * h /\ w \in Nat /\ h \in Nat
        BY <1>1, <1>11, <2>1
      <4>2. Arrives(w, h, A, B, w)
        BY <1>12, <3>1
      <4> QED BY <1>11, <4>1, <4>2, LineEnds
    <3> HIDE DEF s
    <3>3. s * w <= e /\ e < s * w + w /\ e - s * w = 0
      BY <1>1, <1>6, <3>1
    <3>4. Arrives(w, h, q.data, SubSeq(pixels, 1, e), e - s * w)
      BY <1>14, <2>2, <3>2, <3>3 DEF B
    <3> QED BY <1>14, <2>1, <3>1, <3>3, <3>4
  <2>3. CASE e \notin E
    <3>1. A \o << >> = A
      BY <1>11, ConcatEmptySeq
    <3>2. a <= e /\ e < a + w
      <4>1. e <= a + w /\ e # a + w
        BY <1>9, <2>3
      <4> HIDE DEF a
      <4> QED BY <1>1, <1>6, <1>10, <4>1
    <3>3. q.data = A
      BY <1>14, <2>3, <3>1
    <3>4. Arrives(w, h, q.data, SubSeq(pixels, 1, e), e - r * w)
      BY <1>12, <3>3 DEF B
    <3> QED BY <1>14, <2>1, <3>2, <3>4
  <2> QED BY <2>2, <2>3
<1>18. ASSUME q.at = T + 1
       PROVE  \E P \in Seq(Nat), col \in Nat :
                q.data = P \o EndOfLine /\ Arrives(w, h, P, pixels, col)
  <2>1. e = T
    BY <1>1, <1>6, <1>14, <1>18
  <2>2. q.data = A \o EndOfLine
    BY <1>1, <1>14, <2>1
  <2>3. B = pixels
    <3>1. SubSeq(pixels, 1, Len(pixels)) = pixels
      BY <1>1, SubSeqFull
    <3> QED BY <2>1, <3>1 DEF B, T
  <2> HIDE DEF a
  <2>4. e - a \in Nat
    BY <1>6, <1>10
  <2> DEFINE d == e - a
  <2>5. d \in Nat /\ Arrives(w, h, A, pixels, d)
    BY <1>12, <2>3, <2>4
  <2> HIDE DEF d
  <2> QED BY <1>11, <2>2, <2>5
<1>19. Encoded(pixels, w, h, q)
  <2>1. /\ q.at <= Len(pixels) =>
             /\ q.at \in RunStarts(pixels, w, h)
             /\ \E x \in Nat :
                  /\ x * w <= q.at - 1 /\ q.at - 1 < x * w + w
                  /\ Arrives(w, h, q.data, SubSeq(pixels, 1, q.at - 1), q.at - 1 - x * w)
        /\ q.at = Len(pixels) + 1 =>
             \E P \in Seq(Nat), col \in Nat :
               q.data = P \o EndOfLine /\ Arrives(w, h, P, pixels, col)
    BY <1>17, <1>18 DEF S, T
  <2> QED BY <1>16, <2>1 DEF Encoded, T
<1>20. S \cap (1 .. q.at - 1) = (S \cap (1 .. i - 1)) \cup {i}
  BY <1>13, <1>14
<1> QED BY <1>2, <1>19, <1>20 DEF S, i, q

(* The loop of encode_rle between two runs.                                *)
Encodings(pixels, w, h) ==
  {p \in [at : 1 .. Len(pixels) + 1, data : Seq(Nat)] : Encoded(pixels, w, h, p)}

(* After j runs it stands behind j of the places where one starts.         *)
AfterRuns(pixels, w, h, j, ps) ==
  \E p \in Encodings(pixels, w, h) :
    ps = {p} /\ Cardinality(RunStarts(pixels, w, h) \cap (1 .. p.at - 1)) = j

(* The first run is still to come.                                          *)
LEMMA BeforeRuns ==
  ASSUME NEW pixels, NEW w, NEW h, IsBitmap(pixels, w, h)
  PROVE  AfterRuns(pixels, w, h, 0, {[at |-> 1, data |-> << >>]})
<1> DEFINE p == [at |-> 1, data |-> << >>]
           S == RunStarts(pixels, w, h)
<1>1. Encoded(pixels, w, h, p) /\ Len(pixels) \in Nat \ {0}
  BY EncodingBegins, BitmapEnds
<1>2. p \in Encodings(pixels, w, h)
  BY <1>1 DEF Encodings
<1>3. p.at - 1 = 0
  OBVIOUS
<1> HIDE DEF p
<1>4. S \cap (1 .. p.at - 1) = {}
  BY <1>3
<1>5. Cardinality(S \cap (1 .. p.at - 1)) = 0
  BY <1>4, FS_EmptySet
<1>6. AfterRuns(pixels, w, h, 0, {p})
  BY <1>2, <1>5 DEF AfterRuns
<1> QED BY <1>6 DEF p

(* As long as fewer runs are done than start, there is one to do.          *)
LEMMA OneMoreRun ==
  ASSUME NEW pixels, NEW w, NEW h, IsBitmap(pixels, w, h), NEW p,
         NEW j \in Nat, j < Cardinality(RunStarts(pixels, w, h)),
         AfterRuns(pixels, w, h, j, {p})
  PROVE  /\ p \in Encodings(pixels, w, h) /\ p.at <= Len(pixels)
         /\ EncodeRun(p, pixels, w, h) \in Encodings(pixels, w, h)
         /\ AfterRuns(pixels, w, h, j + 1, {EncodeRun(p, pixels, w, h)})
<1> DEFINE S == RunStarts(pixels, w, h)
           T == Len(pixels)
           q == EncodeRun(p, pixels, w, h)
           before == S \cap (1 .. p.at - 1)
<1>1. p \in Encodings(pixels, w, h) /\ Cardinality(before) = j
  <2>1. PICK x \in Encodings(pixels, w, h) :
          {p} = {x} /\ Cardinality(S \cap (1 .. x.at - 1)) = j
    BY DEF AfterRuns
  <2>2. x = p
    BY <2>1
  <2> QED BY <2>1, <2>2
<1>2. p.at \in 1 .. T + 1 /\ T \in Nat \ {0} /\ Encoded(pixels, w, h, p)
  BY <1>1, BitmapEnds DEF Encodings
<1>3. S \subseteq 1 .. T /\ IsFiniteSet(S)
  <2>1. pixels \in Seq(Nat)
    BY DEF IsBitmap
  <2>2. S \subseteq 1 .. T
    BY <2>1 DEF RunStarts
  <2>3. IsFiniteSet(1 .. T)
    BY <1>2, FS_Interval
  <2> QED BY <2>2, <2>3, FS_Subset
<1>4. p.at <= T
  <2> SUFFICES ASSUME p.at = T + 1 PROVE FALSE
    BY <1>2
  <2>1. p.at - 1 = T
    BY <1>2
  <2> HIDE DEF S, T
  <2>2. before = S
    BY <1>3, <2>1
  <2> HIDE DEF before
  <2> QED BY <1>1, <2>2 DEF S
<1>5. /\ Encoded(pixels, w, h, q) /\ p.at \in S
      /\ S \cap (1 .. q.at - 1) = before \cup {p.at}
  BY <1>2, <1>4, EncodeStep
<1>6. q \in Encodings(pixels, w, h)
  <2>1. q.at \in 1 .. T + 1 /\ q.data \in Seq(Nat)
    BY <1>5 DEF Encoded
  <2>2. q = [at |-> q.at, data |-> q.data]
    BY DEF EncodeRun
  <2> HIDE DEF q
  <2>3. q \in [at : 1 .. T + 1, data : Seq(Nat)]
    BY <2>1, <2>2
  <2> QED BY <1>5, <2>3 DEF Encodings
<1> HIDE DEF q, S, T
<1>7. Cardinality(S \cap (1 .. q.at - 1)) = j + 1
  <2>1. IsFiniteSet(before)
    <3>1. before \in SUBSET S
      OBVIOUS
    <3> QED BY <1>3, <3>1, FS_Subset
  <2>2. p.at \notin before
    BY <1>2
  <2> HIDE DEF before
  <2>3. Cardinality(before \cup {p.at}) = Cardinality(before) + 1
    BY <2>1, <2>2, FS_AddElement
  <2> QED BY <1>1, <1>5, <2>3
<1>8. AfterRuns(pixels, w, h, j + 1, {q})
  BY <1>6, <1>7 DEF AfterRuns, S
<1> QED BY <1>1, <1>4, <1>6, <1>8 DEF q, T

(* When all runs are done, all pixels are.                                 *)
LEMMA NoMoreRuns ==
  ASSUME NEW pixels, NEW w, NEW h, IsBitmap(pixels, w, h), NEW ps,
         AfterRuns(pixels, w, h, Cardinality(RunStarts(pixels, w, h)), ps)
  PROVE  \E p \in Encodings(pixels, w, h) : ps = {p} /\ p.at = Len(pixels) + 1
<1> DEFINE S == RunStarts(pixels, w, h)
           T == Len(pixels)
<1>1. PICK p \in Encodings(pixels, w, h) :
        ps = {p} /\ Cardinality(S \cap (1 .. p.at - 1)) = Cardinality(S)
  BY DEF AfterRuns
<1> DEFINE before == S \cap (1 .. p.at - 1)
<1>2. p.at \in 1 .. T + 1 /\ T \in Nat \ {0} /\ Encoded(pixels, w, h, p)
  BY BitmapEnds DEF Encodings
<1>3. IsFiniteSet(S)
  <2>1. pixels \in Seq(Nat)
    BY DEF IsBitmap
  <2>2. S \subseteq 1 .. T
    BY <2>1 DEF RunStarts
  <2>3. IsFiniteSet(1 .. T)
    BY <1>2, FS_Interval
  <2> QED BY <2>2, <2>3, FS_Subset
<1>4. p.at = T + 1
  <2> SUFFICES ASSUME p.at <= T PROVE FALSE
    BY <1>2
  <2>1. p.at \in S /\ p.at \notin before
    BY <1>2 DEF Encoded
  <2>2. before \in SUBSET S
    OBVIOUS
  <2> HIDE DEF S, before
  <2>3. before = S
    BY <1>1, <1>3, <2>2, FS_Subset DEF before
  <2> QED BY <2>1, <2>3
<1> QED BY <1>1, <1>4

(* The loop of encode_rle gets through all runs.                           *)
LEMMA RunsEncode ==
  ASSUME NEW pixels, NEW w, NEW h, IsBitmap(pixels, w, h)
  PROVE  \E p \in Encodings(pixels, w, h) :
           /\ Runs(pixels, w, h)[Cardinality(RunStarts(pixels, w, h))] = {p}
           /\ p.at = Len(pixels) + 1
<1> DEFINE N == Cardinality(RunStarts(pixels, w, h))
           P == Encodings(pixels, w, h)
           D == SUBSET P
           zero == {[at |-> 1, data |-> << >>]}
           after(p) == EncodeRun(p, pixels, w, h)
           more(d) == {after(p) : p \in d}
           kept(d) == IF more(d) \in D THEN more(d) ELSE {}
           g == [y \in D \X (1 .. N) |-> kept(y[1])]
           Is(f) == f = [k \in 0 .. N |->
                           IF k = 0 THEN {[at |-> 1, data |-> << >>]}
                           ELSE {EncodeRun(p, pixels, w, h) : p \in f[k - 1]}]
           u == CHOOSE f : Is(f)
           At(j, d) == AfterRuns(pixels, w, h, j, d)
<1>1. N \in Nat
  <2>1. pixels \in Seq(Nat) /\ Len(pixels) \in Nat
    BY DEF IsBitmap
  <2>2. RunStarts(pixels, w, h) \in SUBSET (1 .. Len(pixels))
    BY <2>1 DEF RunStarts
  <2>3. IsFiniteSet(1 .. Len(pixels))
    BY <2>1, FS_Interval
  <2> QED BY <2>2, <2>3, FS_Subset, FS_CardinalityType
<1>2. zero \in D /\ At(0, zero)
  <2>1. At(0, zero)
    BY BeforeRuns
  <2> HIDE DEF zero
  <2> QED BY <2>1 DEF AfterRuns
<1>3. /\ g \in [D \X (1 .. N) -> D]
      /\ \A y \in D, n \in 1 .. N : g[<< y, n >>] = kept(y)
  <2> HIDE DEF more, D, N
  <2>1. \A y \in D : kept(y) \in D
    BY DEF D
  <2> HIDE DEF kept
  <2> QED BY <2>1
<1>4. Runs(pixels, w, h) = u
  BY DEF Runs
<1>5. PICK f \in [0 .. N -> D] : IsRecursive(f, N, zero, g)
  <2> HIDE DEF g, N, D, zero
  <2> QED BY <1>1, <1>2, <1>3, Recursion
<1>6. \A k \in 0 .. N : f[k] = IF k = 0 THEN zero ELSE kept(f[k - 1])
  <2>1. \A n \in 0 .. N : n # 0 => n - 1 \in 0 .. N /\ n \in 1 .. N
    BY <1>1
  <2> HIDE DEF g, D, N, kept, zero
  <2> QED BY <1>3, <1>5, <2>1 DEF IsRecursive
<1> DEFINE U == {k \in 0 .. N : At(k, f[k])}
<1>7. ASSUME NEW k \in 0 .. N - 1, k \in U
      PROVE  k + 1 \in U /\ f[k + 1] = more(f[k])
  <2>1. k \in Nat /\ k < N /\ k \in 0 .. N /\ k + 1 \in 0 .. N /\ k + 1 # 0 /\ (k + 1) - 1 = k
    BY <1>1
  <2>2. At(k, f[k])
    BY <1>7
  <2>3. PICK p : f[k] = {p}
    BY <2>2 DEF AfterRuns
  <2>4. after(p) \in P /\ At(k + 1, {after(p)})
    <3>1. AfterRuns(pixels, w, h, k, {p})
      BY <2>2, <2>3
    <3> QED BY <2>1, <3>1, OneMoreRun
  <2> HIDE DEF after, At, N, P
  <2>5. more(f[k]) = {after(p)} /\ {after(p)} \in D
    BY <2>3, <2>4
  <2>6. kept(f[k]) = more(f[k])
    <3> HIDE DEF more
    <3> QED BY <2>5
  <2> HIDE DEF more, D, kept
  <2>7. f[k + 1] = kept(f[k])
    BY <1>6, <2>1
  <2> QED BY <2>1, <2>4, <2>5, <2>6, <2>7
<1>8. 0 .. N \subseteq U
  <2>1. 0 \in U
    <3>1. 0 \in 0 .. N
      BY <1>1
    <3>2. f[0] = zero
      BY <1>6, <3>1
    <3> HIDE DEF At
    <3> QED BY <1>2, <3>1, <3>2
  <2> HIDE DEF U, N
  <2> QED BY <1>1, <1>7, <2>1, Upto
<1>9. Is(f)
  <2>1. ASSUME NEW k \in 0 .. N, k # 0 PROVE f[k] = more(f[k - 1])
    <3>1. k - 1 \in 0 .. N - 1 /\ k - 1 \in 0 .. N /\ (k - 1) + 1 = k
      BY <1>1, <2>1
    <3> HIDE DEF U, more, N
    <3>2. f[(k - 1) + 1] = more(f[k - 1])
      BY <1>7, <1>8, <3>1
    <3> QED BY <3>1, <3>2
  <2>2. \A k \in 0 .. N : f[k] = IF k = 0 THEN zero ELSE more(f[k - 1])
    <3> HIDE DEF N, zero, more
    <3> QED BY <1>6, <2>1
  <2>3. f = [k \in 0 .. N |-> IF k = 0 THEN zero ELSE more(f[k - 1])]
    <3> HIDE DEF N, zero, more, D
    <3> QED BY <1>5, <2>2
  <2> QED BY <2>3 DEF zero, more, after, N
<1>10. Is(u)
  <2> HIDE DEF Is
  <2> QED BY <1>9
<1> DEFINE V == {k \in 0 .. N : u[k] = f[k]}
<1>11. 0 .. N \subseteq V
  <2>1. \A k \in 0 .. N : u[k] = IF k = 0 THEN zero ELSE more(u[k - 1])
    BY <1>10
  <2>2. \A k \in 0 .. N : f[k] = IF k = 0 THEN zero ELSE more(f[k - 1])
    BY <1>9
  <2> HIDE DEF u, zero, more, N
  <2>3. 0 \in V
    BY <1>1, <2>1, <2>2
  <2>4. ASSUME NEW k \in 0 .. N - 1, k \in V PROVE k + 1 \in V
    <3>1. k + 1 \in 0 .. N /\ k + 1 # 0 /\ (k + 1) - 1 = k
      BY <1>1
    <3> QED BY <2>1, <2>2, <2>4, <3>1
  <2> HIDE DEF V
  <2> QED BY <1>1, <2>3, <2>4, Upto
<1>12. u[N] = f[N] /\ At(N, f[N])
  <2>1. N \in 0 .. N
    BY <1>1
  <2> HIDE DEF u, At
  <2> QED BY <1>8, <1>11, <2>1
<1>13. PICK p \in P : f[N] = {p} /\ p.at = Len(pixels) + 1
  <2>1. AfterRuns(pixels, w, h, N, f[N])
    BY <1>12
  <2> QED BY <2>1, NoMoreRuns
<1> QED BY <1>4, <1>12, <1>13

(* After k rounds p is reached, and its bitmap is full.                    *)
IsFull(data, w, h, k, p) ==
  /\ k \in 0 .. Len(data) /\ Rounds(data, w, h)[k] = {p}
  /\ Len(p.pixels) = w * h

(* Once a bitmap is full, the rounds of decode_rle do not change it.       *)
LEMMA FullStays ==
  ASSUME NEW w \in Nat, NEW h \in Nat, NEW data \in Seq(Nat), NEW k, NEW p,
         IsFull(data, w, h, k, p)
  PROVE  Rounds(data, w, h)[Len(data)] = {p}
<1> DEFINE f == Rounds(data, w, h)
           N == Len(data)
           total == w * h
           U == {j \in 0 .. N : j >= k => f[j] = {p}}
<1>1. N \in Nat /\ Len(p.pixels) = total /\ k \in 0 .. N /\ f[k] = {p}
  BY DEF IsFull
<1>2. \A j \in 0 .. N : j # 0 => f[j] = UNION {Decode(x, data, w, total) : x \in f[j - 1]}
  <2>1. IsDecoding(f, data, w, total)
    BY DecodingExists
  <2> HIDE DEF f, total
  <2> QED BY <2>1 DEF IsDecoding
<1> HIDE DEF f, total, N
<1>3. 0 \in U
  BY <1>1
<1>4. ASSUME NEW j \in 0 .. N - 1, j \in U PROVE j + 1 \in U
  <2>1. j + 1 \in 0 .. N /\ j + 1 # 0 /\ (j + 1) - 1 = j
    BY <1>1
  <2>2. CASE j + 1 = k
    BY <1>1, <2>1, <2>2
  <2>3. CASE j >= k
    <3>1. f[j] = {p}
      BY <1>4, <2>3
    <3>2. Decode(p, data, w, total) = {p}
      BY <1>1 DEF Decode
    <3>3. f[j + 1] = UNION {Decode(x, data, w, total) : x \in {p}}
      BY <1>2, <2>1, <3>1
    <3>4. f[j + 1] = {p}
      BY <3>2, <3>3
    <3> QED BY <2>1, <3>4
  <2>4. CASE j + 1 < k
    BY <1>1, <2>1, <2>4
  <2>5. j + 1 = k \/ j >= k \/ j + 1 < k
    BY <1>1
  <2> QED BY <2>2, <2>3, <2>4, <2>5
<1>5. 0 .. N \subseteq U
  <2> HIDE DEF U
  <2> QED BY <1>1, <1>3, <1>4, Upto
<1>6. N \in U /\ N >= k
  <2>1. N \in 0 .. N /\ N >= k
    BY <1>1
  <2> QED BY <1>5, <2>1
<1> QED BY <1>6 DEF f, N

(* Every bitmap can be encoded, and decoding gives the same bitmap.        *)
THEOREM RleRoundTrip ==
  ASSUME NEW w \in Nat, NEW h \in Nat, NEW pixels \in Seq(Nat), Len(pixels) = w * h
  PROVE  \E data \in Seq(Nat) : /\ EncodeRle(pixels, w, h) = {data}
                                /\ DecodeRle(data, w, h) = {pixels}
<1>1. CASE w * h = 0
  <2>1. pixels = << >> /\ << >> \in Seq(Nat)
    BY <1>1, EmptySeq
  <2>2. EncodeRle(pixels, w, h) = {<< >>} /\ DecodeRle(<< >>, w, h) = {<< >>}
    BY <1>1 DEF EncodeRle, DecodeRle
  <2> QED BY <2>1, <2>2
<1>2. CASE w * h # 0
  <2> DEFINE total == w * h
             N == Cardinality(RunStarts(pixels, w, h))
  <2>1. IsBitmap(pixels, w, h)
    BY <1>2 DEF IsBitmap
  <2>2. PICK p \in Encodings(pixels, w, h) :
          Runs(pixels, w, h)[N] = {p} /\ p.at = Len(pixels) + 1
    BY <2>1, RunsEncode
  <2>3. EncodeRle(pixels, w, h) = {p.data}
    BY <1>2, <2>2 DEF EncodeRle
  <2>4. Encoded(pixels, w, h, p)
    BY DEF Encodings
  <2>5. PICK P \in Seq(Nat), col \in Nat :
          p.data = P \o EndOfLine /\ Arrives(w, h, P, pixels, col)
    BY <2>2, <2>4 DEF Encoded
  <2> DEFINE data == P \o EndOfLine
             q == [at |-> Len(P) + 1, pixels |-> pixels, col |-> col]
  <2>6. EndOfLine \in Seq(Nat)
    BY DEF EndOfLine
  <2>7. data \in Seq(Nat) /\ Len(data) = Len(P) + Len(EndOfLine) /\ Len(P) \in Nat
        /\ Len(EndOfLine) \in Nat
    BY <2>6, ConcatProperties
  <2>8. PICK k \in 0 .. Len(P) : Rounds(data, w, h)[k] = {q}
    BY <2>5, <2>6 DEF Arrives
  <2>9. k \in 0 .. Len(data)
    BY <2>7
  <2>10. q.pixels = pixels
    OBVIOUS
  <2> HIDE DEF q, data
  <2>11. Rounds(data, w, h)[Len(data)] = {q}
    <3>1. data \in Seq(Nat) /\ Len(q.pixels) = w * h
      BY <2>7, <2>10
    <3>2. IsFull(data, w, h, k, q)
      BY <2>8, <2>9, <3>1 DEF IsFull
    <3> QED BY <3>1, <3>2, FullStays
  <2>12. DecodeRle(data, w, h) = {pixels \o Repeat(0, total - Len(pixels))}
    BY <1>2, <2>10, <2>11 DEF DecodeRle
  <2>13. pixels \o Repeat(0, total - Len(pixels)) = pixels
    <3>1. total - Len(pixels) = 0
      OBVIOUS
    <3>2. Repeat(0, 0) = << >> /\ pixels \o << >> = pixels
      BY ConcatEmptySeq DEF Repeat
    <3> QED BY <3>1, <3>2
  <2> QED BY <2>3, <2>5, <2>7, <2>12, <2>13 DEF data
<1> QED BY <1>1, <1>2

HasSize(pixels, w, h) ==
  w \in Nat /\ h \in Nat /\ pixels \in Seq(Nat) /\ Len(pixels) = w * h

(* In particular there is an encoding.                                     *)
LEMMA Encodes ==
  ASSUME NEW pixels, NEW w, NEW h, HasSize(pixels, w, h)
  PROVE  EncodeRle(pixels, w, h) # {}
<1>1. w \in Nat /\ h \in Nat /\ pixels \in Seq(Nat) /\ Len(pixels) = w * h
  BY DEF HasSize
<1>2. \E data \in Seq(Nat) : EncodeRle(pixels, w, h) = {data}
  BY <1>1, RleRoundTrip
<1> QED BY <1>2
-----------------------------------------------------------------------------
Sizes == {{}} \cup {{s} : s \in Nat \X Nat}

OdsRecords ==
  [id : Nat, version : Nat, sequence : Nat, data_length : Nat, size : Sizes, rle : Seq(Nat)]

(* What is read from the payload of an ODS.                                *)
LEMMA OdsTyped ==
  ASSUME NEW p \in Seq(Nat)
  PROVE  OdsParse(p) \in SUBSET OdsRecords
<1>1. Len(p) \in Nat /\ \A k \in 1 .. Len(p) : p[k] \in Nat
  OBVIOUS
<1>2. ASSUME NEW from \in 1 .. Len(p) + 1 PROVE SubSeq(p, from, Len(p)) \in Seq(Nat)
  BY <1>1, <1>2, SubSeqProperties
<1>3. CASE Len(p) < 3 \/ ~ p[3] \in 0 .. 3
  BY <1>3 DEF OdsParse
<1>4. CASE ~ (Len(p) < 3 \/ ~ p[3] \in 0 .. 3) /\ ~ IsFirst(p[3])
  <2>1. p[1] \in Nat /\ p[2] \in Nat /\ p[3] \in Nat /\ 4 \in 1 .. Len(p) + 1
    BY <1>1, <1>4
  <2>2. SubSeq(p, 4, Len(p)) \in Seq(Nat)
    BY <1>2, <2>1
  <2> QED BY <1>4, <2>1, <2>2 DEF OdsParse, OdsRecords, Sizes
<1>5. CASE ~ (Len(p) < 3 \/ ~ p[3] \in 0 .. 3) /\ IsFirst(p[3]) /\ Len(p) < 6
  BY <1>5 DEF OdsParse
<1>6. CASE ~ (Len(p) < 3 \/ ~ p[3] \in 0 .. 3) /\ IsFirst(p[3]) /\ ~ (Len(p) < 6)
  <2>1. \A k \in 1 .. 6 : k \in 1 .. Len(p)
    BY <1>1, <1>6
  <2>2. p[1] \in Nat /\ p[2] \in Nat /\ p[3] \in Nat /\ p[4] \in Nat
    BY <1>1, <2>1
  <2>3. << p[5], p[6] >> \in Nat \X Nat
    BY <1>1, <2>1
  <2>4. 7 \in 1 .. Len(p) + 1
    BY <1>1, <1>6
  <2>5. SubSeq(p, 7, Len(p)) \in Seq(Nat)
    BY <1>2, <2>4
  <2>6. {<< p[5], p[6] >>} \in Sizes
    BY <2>3 DEF Sizes
  <2> QED BY <1>6, <2>2, <2>5, <2>6 DEF OdsParse, OdsRecords
<1> QED BY <1>3, <1>4, <1>5, <1>6

PayloadSegments == [type : SegmentType, pts : Nat, payload : Seq(Nat)]
Segments == Seq(PayloadSegments)

(* What write_objects starts from.                                         *)
LEMMA ParsedOdsTyped ==
  ASSUME NEW segments \in Segments
  PROVE  ParsedOds(segments) \in Seq(OdsRecords)
<1> DEFINE ods == OfType(segments, "ODS")
           options == [k \in DOMAIN ods |-> OdsParse(ods[k].payload)]
<1>1. ods \in Segments
  BY OnlyTyped DEF OfType, Segments
<1> HIDE DEF ods
<1>2. DOMAIN ods = 1 .. Len(ods) /\ Len(ods) \in Nat
      /\ \A k \in DOMAIN ods : ods[k].payload \in Seq(Nat)
  <2>1. DOMAIN ods = 1 .. Len(ods) /\ Len(ods) \in Nat
    BY <1>1 DEF Segments
  <2>2. \A k \in DOMAIN ods : ods[k] \in PayloadSegments
    BY <1>1, <2>1, ElementOfSeq DEF Segments
  <2> QED BY <2>1, <2>2 DEF PayloadSegments
<1>3. \A k \in DOMAIN ods : OdsParse(ods[k].payload) \in SUBSET OdsRecords
  BY <1>2, OdsTyped
<1>4. options \in Seq(SUBSET OdsRecords)
  BY <1>2, <1>3
<1> HIDE DEF options
<1>5. Present(options) \in Seq(OdsRecords)
  BY <1>4, PresentTyped
<1> QED BY <1>5 DEF ParsedOds, options, ods

(* An object with a bitmap has a size, and the bitmap has it.              *)
IsDecoded(o) ==
  \A s \in o.size, b \in o.bitmap :
    s \in Nat \X Nat /\ b \in Seq(Nat) /\ Len(b) = s[1] * s[2]

(* Each object of a line is decoded to its size.                           *)
LEMMA ObjectsDecoded ==
  ASSUME NEW segments \in Segments, NEW k \in DOMAIN Objects(segments)
  PROVE  LET o == Objects(segments)[k]
         IN  IsDecoded(o) /\ (o.bitmap # {} => o.size # {})
<1> DEFINE ods == ParsedOds(segments)
           leads == {n \in DOMAIN ods : \A j \in 1 .. n - 1 : ods[j].id # ods[n].id}
           numbers == [n \in DOMAIN ods |-> n]
           places == Only(numbers, leads)
           own(n) == Only(ods, {o \in Members(ods) : o.id = ods[n].id})
           data(n) == Joined([j \in DOMAIN own(n) |-> own(n)[j].rle])
           object(n) == [id |-> ods[n].id, version |-> ods[n].version, size |-> ods[n].size,
                         bitmap |-> UNION {DecodeRle(rle, s[1], s[2]) :
                                             s \in ods[n].size, rle \in {data(n)}}]
<1>1. Objects(segments) = ObjectsOf(ods)
  BY DEF Objects
<1>2. ods \in Seq(OdsRecords)
  BY ParsedOdsTyped
<1>3. ObjectsOf(ods) = [j \in DOMAIN places |-> object(places[j])]
  BY DEF ObjectsOf
<1> HIDE DEF ods
<1>4. places \in Seq(DOMAIN ods)
  <2>1. numbers \in Seq(DOMAIN ods)
    BY <1>2
  <2> HIDE DEF numbers, leads
  <2> QED BY <2>1, OnlyTyped
<1> DEFINE n == places[k]
<1>5. n \in DOMAIN ods /\ Objects(segments)[k] = object(n)
  <2> HIDE DEF places, object
  <2>1. k \in DOMAIN places
    BY <1>1, <1>3
  <2>2. n \in DOMAIN ods
    BY <1>4, <2>1
  <2> QED BY <1>1, <1>3, <2>1, <2>2
<1> HIDE DEF n, places
<1>6. ods[n] \in OdsRecords
  <2>1. DOMAIN ods = 1 .. Len(ods)
    BY <1>2
  <2>2. n \in 1 .. Len(ods)
    BY <1>5, <2>1
  <2> QED BY <1>2, <2>2, ElementOfSeq
<1>7. data(n) \in Seq(Nat)
  <2> DEFINE os == own(n)
             parts == [j \in DOMAIN os |-> os[j].rle]
  <2>1. os \in Seq(OdsRecords)
    BY <1>2, OnlyTyped
  <2> HIDE DEF os
  <2>2. parts \in Seq(Seq(Nat))
    <3>1. \A j \in DOMAIN os : os[j].rle \in Seq(Nat)
      <4>1. \A j \in DOMAIN os : os[j] \in OdsRecords
        BY <2>1
      <4> QED BY <4>1 DEF OdsRecords
    <3>2. DOMAIN os = 1 .. Len(os) /\ Len(os) \in Nat
      BY <2>1
    <3> QED BY <3>1, <3>2
  <2> HIDE DEF parts
  <2>3. Joined(parts) \in Seq(Nat)
    BY <2>2, JoinedTyped
  <2> QED BY <2>3 DEF parts, os
<1> HIDE DEF own, data
<1>8. ASSUME NEW s \in object(n).size, NEW b \in object(n).bitmap
      PROVE  s \in Nat \X Nat /\ b \in Seq(Nat) /\ Len(b) = s[1] * s[2]
  <2>1. ods[n].size \in Sizes /\ s \in ods[n].size
    BY <1>6 DEF OdsRecords
  <2>2. s \in Nat \X Nat /\ ods[n].size = {s}
    BY <2>1 DEF Sizes
  <2>3. b \in DecodeRle(data(n), s[1], s[2])
    BY <2>2
  <2>4. b \in Seq(Nat) /\ Len(b) = s[1] * s[2]
    BY <1>7, <2>2, <2>3, DecodedLength
  <2> QED BY <2>2, <2>4
<1>9. object(n).bitmap # {} => object(n).size # {}
  OBVIOUS
<1> HIDE DEF object
<1> QED BY <1>5, <1>8, <1>9 DEF IsDecoded

(* A composition that was parsed, and not kept as it is, can be read again. *)
LEMMA CompositionIsRead ==
  ASSUME NEW segments, NEW withRaw, NEW c \in Composition(segments, withRaw),
         "number" \in DOMAIN c
  PROVE  PcsFromJson(c) # {}
<1> DEFINE pcs == OfType(segments, "PCS")[1].payload
<1>1. c \in PcsParse(pcs) \/ c = [payload |-> pcs]
  BY DEF Composition
<1>2. c \in PcsParse(pcs)
  <2>1. "number" \notin DOMAIN [payload |-> pcs]
    OBVIOUS
  <2> QED BY <1>1, <2>1
<1>3. PcsFields \subseteq DOMAIN c
  <2> HIDE DEF pcs
  <2> QED BY <1>2 DEF PcsParse, PcsFields
<1> QED BY <1>3 DEF PcsFromJson

(* An object with a bitmap can be built again.                             *)
LEMMA ObjectIsRead ==
  ASSUME NEW o, o.size # {}, o.bitmap # {}, IsDecoded(o)
  PROVE  /\ ObjectFromJson(o) # {}
         /\ \A x \in ObjectFromJson(o) : EncodeRle(x.pixels, x.width, x.height) # {}
<1>1. ASSUME NEW s \in o.size, NEW b \in o.bitmap
      PROVE  s \in Nat \X Nat /\ b \in Seq(Nat) /\ Len(b) = s[1] * s[2]
  BY DEF IsDecoded
<1>2. ObjectFromJson(o) # {}
  <2>1. PICK s \in o.size, b \in o.bitmap : TRUE
    OBVIOUS
  <2>2. << s, b >> \in {q \in o.size \X o.bitmap : Len(q[2]) = q[1][1] * q[1][2]}
    BY <1>1
  <2> QED BY <2>2 DEF ObjectFromJson
<1>3. ASSUME NEW x \in ObjectFromJson(o)
      PROVE  EncodeRle(x.pixels, x.width, x.height) # {}
  <2>1. PICK p \in {q \in o.size \X o.bitmap : Len(q[2]) = q[1][1] * q[1][2]} :
          x.width = p[1][1] /\ x.height = p[1][2] /\ x.pixels = p[2]
    BY DEF ObjectFromJson
  <2> DEFINE s == p[1]
             b == p[2]
  <2>2. s[1] \in Nat /\ s[2] \in Nat /\ b \in Seq(Nat) /\ Len(b) = s[1] * s[2]
    BY <1>1
  <2> HIDE DEF s, b
  <2>3. EncodeRle(b, s[1], s[2]) # {}
    <3>1. HasSize(b, s[1], s[2])
      BY <2>2 DEF HasSize
    <3> QED BY <3>1, Encodes
  <2> QED BY <2>1, <2>3 DEF s, b
<1> QED BY <1>2, <1>3

(* A line of stream.                                                       *)
IsStreamLine(line, withRaw) ==
  \/ line.type = "tracks"
  \/ /\ line.type = "display_set"
     /\ \E segments \in Segments : /\ line.composition = Composition(segments, withRaw)
                                   /\ line.objects = Objects(segments)

(* A line of stream that has all encode asks for is taken.                 *)
LEMMA StreamLineIsRead ==
  ASSUME NEW line, NEW withRaw, IsStreamLine(line, withRaw), Encodable(line)
  PROVE  PassedOver(line) \/ (line.type = "display_set" /\ DisplaySetFromJson(line) # {})
<1> SUFFICES ASSUME ~ PassedOver(line)
             PROVE  line.type = "display_set" /\ DisplaySetFromJson(line) # {}
  OBVIOUS
<1>1. line.type = "display_set"
  BY DEF IsStreamLine, PassedOver
<1>2. PICK segments \in Segments : /\ line.composition = Composition(segments, withRaw)
                                   /\ line.objects = Objects(segments)
  BY <1>1 DEF IsStreamLine
<1>3. /\ line.composition # {}
      /\ \A k \in DOMAIN line.objects : line.objects[k].bitmap # {}
      /\ \E c \in line.composition : "number" \in DOMAIN c
  BY <1>1 DEF PassedOver, Encodable
<1>4. PICK c \in line.composition : PcsFromJson(c) # {}
  BY <1>2, <1>3, CompositionIsRead
<1>5. PICK pcs : pcs \in PcsFromJson(c)
  BY <1>4
<1>6. ASSUME NEW k \in DOMAIN line.objects
      PROVE  /\ ObjectFromJson(line.objects[k]) # {}
             /\ \A x \in ObjectFromJson(line.objects[k]) :
                  EncodeRle(x.pixels, x.width, x.height) # {}
  <2> DEFINE o == line.objects[k]
  <2>1. o.bitmap # {}
    BY <1>3
  <2>2. IsDecoded(o) /\ o.size # {}
    BY <1>2, <2>1, ObjectsDecoded
  <2> HIDE DEF o
  <2>3. /\ ObjectFromJson(o) # {}
        /\ \A x \in ObjectFromJson(o) : EncodeRle(x.pixels, x.width, x.height) # {}
    BY <2>1, <2>2, ObjectIsRead
  <2> QED BY <2>3 DEF o
<1> DEFINE K == DOMAIN line.objects
           decoded == [k \in K |-> ObjectFromJson(line.objects[k])]
           os == [k \in K |-> CHOOSE o \in decoded[k] : TRUE]
           objects == {[k \in DOMAIN d |-> CHOOSE o \in d[k] : TRUE] :
                         d \in {e \in {decoded} : \A k \in DOMAIN e : e[k] # {}}}
<1>7. os \in objects
  <2>1. decoded \in {e \in {decoded} : \A k \in DOMAIN e : e[k] # {}}
    BY <1>6
  <2>2. DOMAIN decoded = K
    OBVIOUS
  <2> HIDE DEF decoded
  <2> QED BY <2>1, <2>2
<1>8. Build(line.pts, pcs, WdsFromJson(line.windows), PdsFromJson(line.palettes), os) # {}
  <2> DEFINE coded == [k \in DOMAIN os |->
                         UNION {EncodeRle(o.pixels, o.width, o.height) : o \in {os[k]}}]
  <2>1. \A k \in DOMAIN os : coded[k] # {}
    <3> SUFFICES ASSUME NEW k \in K PROVE coded[k] # {}
      OBVIOUS
    <3>1. os[k] \in ObjectFromJson(line.objects[k])
      BY <1>6
    <3>2. EncodeRle(os[k].pixels, os[k].width, os[k].height) # {}
      BY <1>6, <3>1
    <3> QED BY <3>2
  <2> HIDE DEF os
  <2>2. CodedBitmaps(os) # {}
    BY <2>1 DEF CodedBitmaps
  <2> QED BY <2>2 DEF Build
<1>9. DisplaySetFromJson(line) # {}
  <2>1. pcs \in UNION {PcsFromJson(x) : x \in line.composition}
    BY <1>5
  <2>2. DisplaySetFromJson(line) =
          UNION {Build(line.pts, x, WdsFromJson(line.windows), PdsFromJson(line.palettes), y) :
                   x \in UNION {PcsFromJson(z) : z \in line.composition}, y \in objects}
    BY DEF DisplaySetFromJson
  <2> HIDE DEF os, objects
  <2> QED BY <1>7, <1>8, <2>1, <2>2
<1> QED BY <1>1, <1>9
-----------------------------------------------------------------------------
Taken == Len(sent) - Len(pipe)
AllEncodable == \A k \in DOMAIN sent : Encodable(sent[k])

LinesInOrder ==
  /\ \E Lines : sent \in Seq(Lines) /\ pipe \in Seq(Lines)
  /\ Len(pipe) <= Len(sent)
  /\ \A j \in 1 .. Len(pipe) : pipe[j] = sent[Taken + j]

PipeInv ==
  Piping /\ ~ edited =>
    /\ LinesInOrder
    /\ encoder \in {"read", "write", "ok", "err"}
    /\ encoder # "err" => \A k \in 1 .. Taken : Encodable(sent[k])
    /\ encoder \in {"write", "ok"} => pipe = << >>
    /\ encoder = "read" => files = << >>
    /\ encoder = "err" => files = << >> \/ AllEncodable

(* PipeInv says all that LeavesNoFile does.                                *)
LEMMA PipeInvIsStrongEnough == PipeInv => LeavesNoFile
<1> SUFFICES ASSUME PipeInv, Piping, ~ edited,
                    NEW k \in DOMAIN sent, ~ Encodable(sent[k])
             PROVE  DOMAIN files = {} /\ encoder # "ok"
  BY DEF LeavesNoFile
<1>1. ~ AllEncodable
  BY DEF AllEncodable
<1>2. encoder \notin {"write", "ok"}
  <2> SUFFICES ASSUME encoder \in {"write", "ok"} PROVE FALSE
    OBVIOUS
  <2>1. pipe = << >> /\ \A j \in 1 .. Taken : Encodable(sent[j])
    BY DEF PipeInv
  <2>2. DOMAIN sent = 1 .. Len(sent) /\ Len(sent) \in Nat
    BY LenProperties DEF PipeInv, LinesInOrder
  <2>3. Taken = Len(sent)
    BY <2>1, <2>2 DEF Taken
  <2> QED
    BY <2>1, <2>2, <2>3
<1>3. files = << >>
  BY <1>1, <1>2 DEF PipeInv
<1> QED
  BY <1>2, <1>3

(* It holds where both processes start.                                    *)
LEMMA PipeInvInit == Init => PipeInv
<1> SUFFICES ASSUME Init PROVE PipeInv
  OBVIOUS
<1>1. sent = << >> /\ pipe = << >> /\ encoder = "read" /\ files = << >>
  BY DEF Init
<1>2. << >> \in Seq({}) /\ Len(<< >>) = 0
  BY EmptySeq
<1>3. LinesInOrder /\ Taken = 0
  BY <1>1, <1>2 DEF LinesInOrder, Taken
<1> QED
  BY <1>1, <1>3 DEF PipeInv

(* A line written is the last one sent and the last one in the pipe.       *)
LEMMA WriteKeepsOrder ==
  ASSUME LinesInOrder, NEW line, Write(line)
  PROVE  /\ LinesInOrder' /\ Taken' = Taken
         /\ \A k \in 1 .. Taken : sent'[k] = sent[k]
<1>1. PICK Lines : sent \in Seq(Lines) /\ pipe \in Seq(Lines)
  BY DEF LinesInOrder
<1> DEFINE More == Lines \cup {line}
<1>2. sent \in Seq(More) /\ pipe \in Seq(More) /\ line \in More
  BY <1>1, SeqMonotonic
<1> HIDE DEF More
<1>3. Len(sent) \in Nat /\ Len(pipe) \in Nat /\ Len(pipe) <= Len(sent)
  BY <1>1, LenProperties DEF LinesInOrder
<1>4. /\ sent' \in Seq(More) /\ Len(sent') = Len(sent) + 1
      /\ \A k \in 1 .. Len(sent) : sent'[k] = sent[k]
      /\ sent'[Len(sent) + 1] = line
  BY <1>2, <1>3, AppendProperties DEF Write
<1>5. /\ pipe' \in Seq(More) /\ Len(pipe') = Len(pipe) + 1
      /\ \A k \in 1 .. Len(pipe) : pipe'[k] = pipe[k]
      /\ pipe'[Len(pipe) + 1] = line
  BY <1>2, <1>3, AppendProperties DEF Write
<1>6. Taken' = Taken /\ Taken \in Nat /\ Taken <= Len(sent)
  BY <1>3, <1>4, <1>5 DEF Taken
<1>7. ASSUME NEW j \in 1 .. Len(pipe')
      PROVE  pipe'[j] = sent'[Taken' + j]
  <2>1. CASE j \in 1 .. Len(pipe)
    <3>1. Taken + j \in 1 .. Len(sent)
      BY <1>3, <1>6, <2>1 DEF Taken
    <3> QED
      BY <1>4, <1>5, <1>6, <2>1, <3>1 DEF LinesInOrder
  <2>2. CASE j = Len(pipe) + 1
    <3>1. Taken + j = Len(sent) + 1
      BY <1>3, <2>2 DEF Taken
    <3> QED
      BY <1>4, <1>5, <1>6, <2>2, <3>1
  <2> QED
    BY <1>3, <1>5, <2>1, <2>2
<1>8. LinesInOrder'
  BY <1>3, <1>4, <1>5, <1>7 DEF LinesInOrder
<1> QED
  BY <1>3, <1>4, <1>6, <1>8

(* The line taken from the pipe is the next one sent.                      *)
LEMMA ReadTakesTheNext ==
  ASSUME LinesInOrder, Read
  PROVE  /\ LinesInOrder' /\ Taken \in Nat /\ Taken' = Taken + 1
         /\ Head(pipe) = sent[Taken + 1]
<1>1. PICK Lines : sent \in Seq(Lines) /\ pipe \in Seq(Lines)
  BY DEF LinesInOrder
<1>2. Len(sent) \in Nat /\ Len(pipe) \in Nat \ {0} /\ Len(pipe) <= Len(sent)
  BY <1>1, EmptySeq, LenProperties DEF LinesInOrder, Read
<1>3. /\ pipe' \in Seq(Lines) /\ Len(pipe') = Len(pipe) - 1
      /\ \A k \in 1 .. Len(pipe') : pipe'[k] = pipe[k + 1]
  BY <1>1, HeadTailProperties DEF Read
<1>4. sent' = sent
  BY DEF Read, stream
<1>5. Taken \in Nat /\ Taken' = Taken + 1
  BY <1>2, <1>3, <1>4 DEF Taken
<1>6. ASSUME NEW j \in 1 .. Len(pipe')
      PROVE  pipe'[j] = sent'[Taken' + j]
  <2>1. j + 1 \in 1 .. Len(pipe) /\ Taken + (j + 1) = Taken' + j
    BY <1>2, <1>3, <1>5
  <2> QED
    BY <1>3, <1>4, <2>1 DEF LinesInOrder
<1>7. LinesInOrder'
  BY <1>1, <1>2, <1>3, <1>4, <1>6 DEF LinesInOrder
<1>8. Head(pipe) = pipe[1] /\ 1 \in 1 .. Len(pipe)
  BY <1>1, <1>2
<1> QED
  BY <1>5, <1>7, <1>8 DEF LinesInOrder

(* What the encoder takes from the pipe without failing can be encoded.    *)
LEMMA TakenIsEncodable ==
  ASSUME NEW line,
         \/ PassedOver(line)
         \/ line.type = "display_set" /\ DisplaySetFromJson(line) # {}
  PROVE  Encodable(line)
<1>1. CASE PassedOver(line)
  BY <1>1 DEF PassedOver, Encodable
<1>2. CASE DisplaySetFromJson(line) # {}
  <2> DEFINE decoded == [k \in DOMAIN line.objects |-> ObjectFromJson(line.objects[k])]
             objects == {[k \in DOMAIN d |-> CHOOSE o \in d[k] : TRUE] :
                           d \in {e \in {decoded} : \A k \in DOMAIN e : e[k] # {}}}
  <2>1. PICK pcs \in UNION {PcsFromJson(c) : c \in line.composition}, os \in objects : TRUE
    BY <1>2 DEF DisplaySetFromJson
  <2>2. \A k \in DOMAIN decoded : decoded[k] # {}
    BY <2>1
  <2>3. ASSUME NEW k \in DOMAIN line.objects
        PROVE  line.objects[k].bitmap # {}
    <3>1. ObjectFromJson(line.objects[k]) # {}
      BY <2>2
    <3> QED
      BY <3>1 DEF ObjectFromJson
  <2>4. \E c \in line.composition : "number" \in DOMAIN c
    BY <2>1 DEF PcsFromJson, PcsFields
  <2> QED
    BY <2>3, <2>4 DEF Encodable
<1> QED
  BY <1>1, <1>2

(* The writer keeps it.                                                    *)
LEMMA StreamingKeepsPipeInv ==
  ASSUME PipeInv, Piping, ~ edited, Streaming \/ StreamFails
  PROVE  PipeInv'
<1>1. ASSUME NEW line, Write(line), UNCHANGED << config, encoder, files, script >>
      PROVE  PipeInv'
  <2>1. /\ LinesInOrder' /\ Taken' = Taken
        /\ \A k \in 1 .. Taken : sent'[k] = sent[k]
    BY <1>1, WriteKeepsOrder DEF PipeInv
  <2>2. encoder = "read" /\ encoder' = "read" /\ files' = files
    BY <1>1 DEF Write, Listening
  <2>3. \A k \in 1 .. Taken' : Encodable(sent'[k])
    BY <2>1, <2>2 DEF PipeInv
  <2> QED
    BY <2>1, <2>2, <2>3 DEF PipeInv
<1>2. ASSUME UNCHANGED << config, sent, pipe, encoder, files, script >>
      PROVE  PipeInv'
  BY <1>2 DEF PipeInv, LinesInOrder, Taken, AllEncodable, Piping, config, script
<1>3. CASE StreamTracks
  BY <1>1, <1>3 DEF StreamTracks
<1>4. CASE StreamDisplaySet
  BY <1>1, <1>4 DEF StreamDisplaySet
<1>5. CASE StreamEnds \/ BrokenPipe \/ StreamFails
  BY <1>2, <1>5 DEF StreamEnds, BrokenPipe, StreamFails, StreamExits
<1> QED
  BY <1>3, <1>4, <1>5 DEF Streaming

(* The reader keeps it.                                                    *)
LEMMA EncodingKeepsPipeInv ==
  ASSUME PipeInv, Piping, ~ edited, Encoding \/ WriteFails
  PROVE  PipeInv'
<1>1. ASSUME Read, encoder = "read", Encodable(Head(pipe)), encoder' = "read"
      PROVE  PipeInv'
  <2>1. /\ LinesInOrder' /\ Taken \in Nat /\ Taken' = Taken + 1
        /\ Head(pipe) = sent[Taken + 1]
    BY <1>1, ReadTakesTheNext DEF PipeInv
  <2>2. sent' = sent /\ files' = files
    BY <1>1 DEF Read, stream
  <2>3. \A k \in 1 .. Taken' : Encodable(sent'[k])
    BY <1>1, <2>1, <2>2 DEF PipeInv
  <2> QED
    BY <1>1, <2>1, <2>2, <2>3 DEF PipeInv
<1>2. CASE PassOver \/ Collect
  <2>1. Read /\ encoder = "read" /\ encoder' = "read"
    BY <1>2 DEF PassOver, Collect, Read, Listening
  <2>2. Encodable(Head(pipe))
    BY <1>2, TakenIsEncodable DEF PassOver, Collect
  <2> QED
    BY <1>1, <2>1, <2>2
<1>3. CASE Reject
  <2>1. LinesInOrder' /\ encoder' = "err" /\ encoder = "read" /\ files' = files
    BY <1>3, ReadTakesTheNext DEF Reject, Read, Listening, PipeInv
  <2> QED
    BY <2>1 DEF PipeInv
<1>4. ASSUME UNCHANGED << config, sent, pipe, script >>, encoder # "err",
             encoder' \in {"ok", "write"}, pipe = << >>
      PROVE  PipeInv'
  BY <1>4 DEF PipeInv, LinesInOrder, Taken
<1>5. CASE EndOfInput
  BY <1>4, <1>5 DEF EndOfInput, Listening, stream
<1>6. CASE WriteFile
  BY <1>4, <1>6 DEF WriteFile, PipeInv, stream
<1>7. CASE WriteFails
  <2>1. AllEncodable
    <3>1. pipe = << >> /\ \A k \in 1 .. Taken : Encodable(sent[k])
      BY <1>7 DEF WriteFails, PipeInv
    <3>2. Taken = Len(sent) /\ DOMAIN sent = 1 .. Len(sent)
      BY <3>1, LenProperties DEF Taken, PipeInv, LinesInOrder
    <3> QED
      BY <3>1, <3>2 DEF AllEncodable
  <2>2. UNCHANGED << config, sent, pipe, script >> /\ encoder' = "err"
    BY <1>7 DEF WriteFails, stream
  <2> QED
    BY <2>1, <2>2 DEF PipeInv, LinesInOrder, Taken, AllEncodable
<1>8. CASE Extract
  BY <1>8 DEF Extract
<1> QED
  BY <1>2, <1>3, <1>5, <1>6, <1>7, <1>8 DEF Encoding

(* A step that leaves a pipe whose lines were not changed found one.       *)
LEMMA StillPiping ==
  ASSUME Next, Piping', ~ edited'
  PROVE  /\ Piping /\ ~ edited /\ UNCHANGED << config, script >>
         /\ \/ Streaming \/ StreamFails \/ PassOver \/ Collect \/ Reject
            \/ EndOfInput \/ WriteFile \/ WriteFails
<1>1. ASSUME Script PROVE FALSE
  BY <1>1 DEF Script
<1>2. ASSUME UNCHANGED << config, script >>
      PROVE  Piping /\ ~ edited
  BY <1>2 DEF Piping, config, script
<1>3. CASE Streaming \/ StreamFails
  BY <1>2, <1>3 DEF Streaming, StreamTracks, StreamDisplaySet, StreamEnds,
       BrokenPipe, StreamFails, StreamExits
<1>4. CASE PassOver \/ Collect \/ Reject
  BY <1>2, <1>4 DEF PassOver, Collect, Reject, Read
<1>5. CASE EndOfInput
  BY <1>2, <1>5 DEF EndOfInput
<1>6. CASE WriteFile \/ WriteFails
  BY <1>2, <1>6, Zenon DEF WriteFile, WriteFails
<1>7. ASSUME Extract \/ ExtractFails PROVE FALSE
  <2>1. ~ Piping /\ UNCHANGED << config, script >>
    BY <1>7, Zenon DEF Extract, ExtractFails
  <2> QED BY <1>2, <2>1
<1> QED BY <1>1, <1>3, <1>4, <1>5, <1>6, <1>7 DEF Next, Encoding

(* Every step keeps it.                                                    *)
LEMMA PipeInvNext == PipeInv /\ [Next]_vars => PipeInv'
<1> SUFFICES ASSUME PipeInv, [Next]_vars, Piping', ~ edited'
             PROVE  PipeInv'
  BY DEF PipeInv
<1>1. CASE UNCHANGED vars
  BY <1>1 DEF PipeInv, LinesInOrder, Taken, AllEncodable, Piping, vars, config, stream,
              script
<1>2. CASE Next
  BY <1>2, StillPiping, StreamingKeepsPipeInv, EncodingKeepsPipeInv DEF Encoding
<1> QED BY <1>1, <1>2

(* A line that encode cannot accept is never answered with files or an     *)
(* exit without error, however many lines before it were good, however far *)
(* stream is ahead, and whatever fails.                                    *)
THEOREM BadInputLeavesNoFile == Spec => []LeavesNoFile
BY PipeInvInit, PipeInvNext, PipeInvIsStrongEnough, PTL DEF Spec
-----------------------------------------------------------------------------
(* The encoder finds nothing to reject in what stream writes, and ends     *)
(* reading only after stream has ended.                                    *)
AcceptInv ==
  /\ source \in Seq(Items) /\ next \in Nat \ {0}
  /\ Piping /\ ~ edited =>
       /\ \A k \in DOMAIN sent : IsStreamLine(sent[k], raw)
       /\ encoder \in {"write", "ok"} => streamer \in {"ok", "err"}
       /\ encoder = "err" => ~ AllEncodable \/ (pipe = << >> /\ streamer \in {"ok", "err"})

(* AcceptInv holds where both processes start.                             *)
LEMMA AcceptInvInit == Init => AcceptInv
<1> SUFFICES ASSUME Init PROVE AcceptInv
  OBVIOUS
<1>1. source \in Seq(Items) /\ next \in Nat \ {0}
  BY SetupsAssumption DEF Init
<1>2. sent = << >> /\ encoder = "read" /\ DOMAIN << >> = {}
  BY DEF Init
<1> QED BY <1>1, <1>2 DEF AcceptInv

(* Every step keeps it.                                                    *)
LEMMA AcceptInvNext == AcceptInv /\ PipeInv /\ [Next]_vars => AcceptInv'
<1> SUFFICES ASSUME AcceptInv, PipeInv, [Next]_vars
             PROVE  AcceptInv'
  OBVIOUS
<1>1. source' = source /\ next' \in Nat \ {0}
  <2>1. ASSUME UNCHANGED << config, next >> PROVE source' = source /\ next' \in Nat \ {0}
    BY <2>1 DEF config, AcceptInv
  <2>2. CASE UNCHANGED vars
    BY <2>1, <2>2 DEF vars, stream
  <2>3. CASE Next
    <3>1. CASE StreamDisplaySet
      BY <3>1 DEF StreamDisplaySet, AcceptInv, config
    <3>2. CASE StreamTracks \/ StreamEnds \/ BrokenPipe \/ StreamFails
      BY <2>1, <3>2 DEF StreamTracks, StreamEnds, BrokenPipe, StreamFails, StreamExits
    <3>3. CASE PassOver \/ Collect \/ Reject \/ EndOfInput \/ Script
      BY <2>1, <3>3 DEF PassOver, Collect, Reject, Read, EndOfInput, Script, stream
    <3>4. CASE WriteFile \/ WriteFails \/ Extract \/ ExtractFails
      <4>1. UNCHANGED << config, stream >>
        BY <3>4, Zenon DEF WriteFile, WriteFails, Extract, ExtractFails
      <4> QED BY <2>1, <4>1 DEF stream
    <3> QED BY <2>3, <3>1, <3>2, <3>3, <3>4 DEF Next, Encoding, Streaming
  <2> QED BY <2>2, <2>3
<1> SUFFICES ASSUME Piping', ~ edited'
             PROVE  /\ \A k \in DOMAIN sent' : IsStreamLine(sent'[k], raw')
                    /\ encoder' \in {"write", "ok"} => streamer' \in {"ok", "err"}
                    /\ encoder' = "err" =>
                         ~ AllEncodable' \/ (pipe' = << >> /\ streamer' \in {"ok", "err"})
  BY <1>1 DEF AcceptInv
<1>2. CASE UNCHANGED vars
  <2>1. UNCHANGED << source, command, raw, sent, pipe, encoder, streamer, edited, config >>
    BY <1>2 DEF vars, config, stream, script
  <2>2. \A k \in DOMAIN sent : IsStreamLine(sent[k], raw')
    BY <2>1 DEF AcceptInv, config, Piping
  <2> QED BY <2>1, <2>2 DEF AcceptInv, Piping, AllEncodable
<1>3. CASE Next
  <2>1. /\ Piping /\ ~ edited /\ UNCHANGED config
        /\ \/ Streaming \/ StreamFails \/ PassOver \/ Collect \/ Reject
           \/ EndOfInput \/ WriteFile \/ WriteFails
    BY <1>3, StillPiping
  <2>2. /\ \A k \in DOMAIN sent : IsStreamLine(sent[k], raw')
        /\ encoder \in {"write", "ok"} => streamer \in {"ok", "err"}
        /\ encoder = "err" => ~ AllEncodable \/ (pipe = << >> /\ streamer \in {"ok", "err"})
    BY <2>1 DEF AcceptInv, config
  <2>3. /\ LinesInOrder /\ (encoder \in {"write", "ok"} => pipe = << >>)
    BY <2>1 DEF PipeInv
  <2>4. ASSUME NEW line, IsStreamLine(line, raw'), Write(line), UNCHANGED encoder
        PROVE  /\ \A k \in DOMAIN sent' : IsStreamLine(sent'[k], raw')
               /\ encoder' = "read"
    <3>1. PICK Lines : sent \in Seq(Lines)
      BY <2>3 DEF LinesInOrder
    <3> DEFINE More == Lines \cup {line}
    <3>2. sent \in Seq(More) /\ line \in More
      BY <3>1, SeqMonotonic
    <3> HIDE DEF More
    <3>3. /\ sent' \in Seq(More) /\ Len(sent') = Len(sent) + 1 /\ Len(sent) \in Nat
          /\ \A k \in 1 .. Len(sent) : sent'[k] = sent[k]
          /\ sent'[Len(sent) + 1] = line
      BY <2>4, <3>2, AppendProperties, LenProperties DEF Write
    <3>4. DOMAIN sent' = 1 .. Len(sent) + 1 /\ DOMAIN sent = 1 .. Len(sent)
      BY <3>2, <3>3, LenProperties
    <3> QED BY <2>2, <2>4, <3>3, <3>4 DEF Write, Listening
  <2>5. CASE StreamTracks
    <3>1. IsStreamLine([type |-> "tracks"], raw')
      BY DEF IsStreamLine
    <3> QED BY <2>4, <2>5, <3>1 DEF StreamTracks
  <2>6. CASE StreamDisplaySet
    <3> DEFINE item == source[next]
               line == Line(item.trk, IndexOf(item.trk), item.segments)
    <3>1. item \in Items
      <4>1. source \in Seq(Items) /\ next \in Nat \ {0}
        BY <2>1 DEF AcceptInv
      <4>2. next \in 1 .. Len(source)
        BY <2>6, <4>1 DEF StreamDisplaySet
      <4> QED BY <4>1, <4>2
    <3>2. item.segments \in Segments
      <4> HIDE DEF item
      <4> QED BY <3>1 DEF Items, Segments, PayloadSegments
    <3>3. IsStreamLine(line, raw')
      <4>1. /\ line.type = "display_set" /\ line.objects = Objects(item.segments)
            /\ line.composition = Composition(item.segments, raw) /\ raw' = raw
        BY <2>1 DEF Line, config
      <4> HIDE DEF line, item
      <4> QED BY <3>2, <4>1 DEF IsStreamLine
    <3> HIDE DEF line
    <3> QED BY <2>4, <2>6, <3>3 DEF StreamDisplaySet, line
  <2>7. CASE StreamEnds \/ BrokenPipe \/ StreamFails
    <3>1. UNCHANGED << sent, pipe, encoder >> /\ streamer' \in {"ok", "err"}
      BY <2>7 DEF StreamEnds, BrokenPipe, StreamFails, StreamExits
    <3> QED BY <2>2, <3>1 DEF AllEncodable
  <2>8. ASSUME UNCHANGED sent, UNCHANGED streamer, UNCHANGED encoder, encoder = "read"
        PROVE  /\ \A k \in DOMAIN sent' : IsStreamLine(sent'[k], raw')
               /\ encoder' = "read"
    BY <2>2, <2>8
  <2>9. CASE PassOver \/ Collect
    BY <2>2, <2>9 DEF PassOver, Collect, Read, Listening, stream
  <2>10. CASE Reject
    <3>1. UNCHANGED sent /\ encoder' = "err"
      BY <2>10 DEF Reject, Read, stream
    <3>2. ~ AllEncodable
      <4> DEFINE line == Head(pipe)
      <4>1. Taken \in Nat /\ line = sent[Taken + 1] /\ Taken + 1 \in DOMAIN sent
        <5>1. Taken \in Nat /\ line = sent[Taken + 1]
          BY <2>3, <2>10, ReadTakesTheNext DEF Reject
        <5>2. Taken + 1 \in 1 .. Len(sent)
          <6>1. PICK Lines : sent \in Seq(Lines) /\ pipe \in Seq(Lines)
            BY <2>3 DEF LinesInOrder
          <6>2. Len(sent) \in Nat /\ Len(pipe) \in Nat \ {0}
            BY <2>10, <6>1, EmptySeq, LenProperties DEF Reject, Read
          <6> QED BY <5>1, <6>2 DEF Taken
        <5> QED BY <2>3, <5>1, <5>2, LenProperties DEF LinesInOrder
      <4>2. IsStreamLine(line, raw)
        BY <2>1, <4>1 DEF AcceptInv
      <4>3. ~ PassedOver(line) /\ (line.type = "display_set" => DisplaySetFromJson(line) = {})
        BY <2>10 DEF Reject
      <4> HIDE DEF line
      <4>4. ~ Encodable(line)
        BY <4>2, <4>3, StreamLineIsRead
      <4> QED BY <4>1, <4>4 DEF AllEncodable
    <3> QED BY <2>2, <3>1, <3>2 DEF AllEncodable
  <2>11. CASE EndOfInput
    <3>1. UNCHANGED << sent, streamer >> /\ streamer \in {"ok", "err"} /\ encoder' # "err"
      BY <2>11 DEF EndOfInput, stream
    <3> QED BY <2>2, <3>1
  <2>12. CASE WriteFile \/ WriteFails
    <3>1. UNCHANGED << sent, streamer, pipe >> /\ encoder = "write"
      BY <2>12 DEF WriteFile, WriteFails, stream
    <3> QED BY <2>2, <2>3, <3>1
  <2> QED BY <2>1, <2>5, <2>6, <2>7, <2>9, <2>10, <2>11, <2>12 DEF Streaming
<1> QED BY <1>2, <1>3

(* encode accepts all that stream writes.                                  *)
THEOREM StreamIsAccepted == Spec => []AcceptsWhatStreamWrites
<1>1. AcceptInv => AcceptsWhatStreamWrites
  BY DEF AcceptInv, AcceptsWhatStreamWrites, AllEncodable
<1> QED BY <1>1, PipeInvInit, PipeInvNext, AcceptInvInit, AcceptInvNext, PTL DEF Spec
-----------------------------------------------------------------------------
(* Reading a file back.                                                     *)

States == CompositionState \cup {None}
SeenSegments == [type : SegmentType, pts : Nat, payload : Seq(Nat), comp : States]
SeenSets == AssembledSets(SeenSegments, Nat, States)

LEMMA SeenIsLog ==
  /\ IsLog(SeenSegments, Nat, States)
  /\ IsFed(SeenSegments, Nat, States)
  /\ AsmNew \in Assemblers(SeenSegments, Nat, States)
BY DEF IsLog, IsFed, SeenSegments, States, AsmNew, Assemblers

LEMMA SeenTyped ==
  ASSUME NEW s \in PayloadSegments
  PROVE  Seen(s) \in SeenSegments
<1>1. StateOf(s.payload[5]) \in States
  BY DEF StateOf, States, CompositionState
<1>2. CompositionStateOf(s) \in States
  BY <1>1 DEF CompositionStateOf, States
<1> QED
  BY <1>2 DEF Seen, SeenSegments, PayloadSegments

(* What a file keeps of a segment whose length fits its header.             *)
Kept(s) == [type |-> s.type, pts |-> s.pts % U32, payload |-> s.payload]

LEMMA KeptTyped ==
  ASSUME NEW s \in PayloadSegments
  PROVE  /\ Kept(s) \in PayloadSegments
         /\ Kept(s).type = s.type /\ Kept(s).payload = s.payload
         /\ CompositionStateOf(Kept(s)) = CompositionStateOf(s)
<1>1. s.pts % U32 \in Nat
  BY WidthAssumption DEF PayloadSegments
<1> QED
  BY <1>1 DEF Kept, PayloadSegments, CompositionStateOf

(* What is read of a segment that was written.                              *)
Reread == [s \in PayloadSegments |-> Seen(Kept(s))]
WrittenAll(segments) == [k \in DOMAIN segments |-> Written(segments[k])]
KeptAll(segments) == [k \in DOMAIN segments |-> Kept(segments[k])]

LEMMA RereadTyped == Reread \in [PayloadSegments -> SeenSegments]
BY SeenTyped, KeptTyped DEF Reread

LEMMA ModOfLess ==
  ASSUME NEW n \in Nat, NEW w \in Nat \ {0}, n < w
  PROVE  n % w = n
<1>1. n = w * (n \div w) + (n % w) /\ n % w \in 0 .. w - 1 /\ n \div w \in Int
  OBVIOUS
<1>2. n \div w = 0
  OBVIOUS
<1> QED
  BY <1>1, <1>2

LEMMA WrittenIsWhole ==
  ASSUME NEW s \in PayloadSegments, Len(s.payload) < U16
  PROVE  /\ Written(s).type = s.type /\ Written(s).pts = s.pts % U32
         /\ Written(s).payload = s.payload /\ Written(s).length = Len(s.payload)
         /\ SubSeq(s.payload, 1, Len(s.payload)) = s.payload
<1>1. s.payload \in Seq(Nat) /\ Len(s.payload) \in Nat
  BY DEF PayloadSegments
<1>2. Len(s.payload) % U16 = Len(s.payload)
  BY <1>1, WidthAssumption, ModOfLess
<1> QED
  BY <1>1, <1>2, SubSeqFull DEF Written

(* A file whose lengths fit is read to its end.                             *)
LEMMA SegmentsInAll ==
  ASSUME NEW s \in Segments, LengthsFit(s)
  PROVE  SegmentsIn(WrittenAll(s)) = KeptAll(s)
<1> DEFINE file == WrittenAll(s)
           whole(x) == x.length = Len(x.payload)
           reached == {k \in DOMAIN file : \A j \in 1 .. k - 1 : whole(file[j])}
           n == Len(s)
           read(k) == [type |-> file[k].type, pts |-> file[k].pts,
                       payload |-> SubSeq(file[k].payload, 1, file[k].length)]
<1>1. n \in Nat /\ DOMAIN s = 1 .. n /\ \A k \in 1 .. n : s[k] \in PayloadSegments
  BY ElementOfSeq DEF Segments
<1>2. DOMAIN file = 1 .. n /\ \A k \in 1 .. n : file[k] = Written(s[k])
  BY <1>1 DEF WrittenAll
<1>3. \A k \in 1 .. n : Len(s[k].payload) < U16
  BY <1>1 DEF LengthsFit
<1> HIDE DEF file, n
<1>4. \A k \in 1 .. n : whole(file[k])
  BY <1>1, <1>2, <1>3, WrittenIsWhole
<1>5. reached = 1 .. n
  BY <1>1, <1>2, <1>4
<1>6. Cardinality(reached) = n
  <2>1. Cardinality(1 .. n) = IF 1 > n THEN 0 ELSE n - 1 + 1
    BY <1>1, FS_Interval
  <2> HIDE DEF reached
  <2> QED BY <1>1, <1>5, <2>1
<1>7. \A k \in 1 .. n : read(k) = Kept(s[k])
  BY <1>1, <1>2, <1>3, WrittenIsWhole DEF Kept
<1>8. SegmentsIn(file) = [k \in 1 .. Cardinality(reached) |-> read(k)]
  BY DEF SegmentsIn
<1> HIDE DEF reached, read
<1>9. SegmentsIn(file) = [k \in 1 .. n |-> Kept(s[k])]
  BY <1>6, <1>7, <1>8
<1> QED
  BY <1>1, <1>9 DEF KeptAll, file

LEMMA RereadIs ==
  ASSUME NEW s \in Segments
  PROVE  SeenAll(KeptAll(s)) = Image(s, Reread)
<1>1. DOMAIN s = 1 .. Len(s) /\ Len(s) \in Nat /\ \A k \in DOMAIN s : s[k] \in PayloadSegments
  BY ElementOfSeq DEF Segments
<1>2. DOMAIN KeptAll(s) = DOMAIN s /\ \A k \in DOMAIN s : KeptAll(s)[k] = Kept(s[k])
  BY DEF KeptAll
<1>3. \A k \in DOMAIN s : Seen(KeptAll(s)[k]) = Reread[s[k]]
  BY <1>1, <1>2 DEF Reread
<1> QED
  BY <1>2, <1>3 DEF SeenAll, Image

(* The segments of a display set, one by one.                               *)
LEMMA PushStarts ==
  ASSUME NEW a, NEW s, s.type = "PCS"
  PROVE  /\ AsmPush(a, s) = [segments |-> << s >>, pts |-> s.pts, state |-> s.comp]
         /\ AsmOut(a, s) = << >>
BY DEF AsmPush, AsmOut

LEMMA PushGoesOn ==
  ASSUME NEW S, NEW T, NEW U, NEW a \in Assemblers(S, T, U), NEW s, s.type \in BodyType
  PROVE  /\ AsmPush(a, s) = [segments |-> Append(a.segments, s), pts |-> a.pts, state |-> a.state]
         /\ AsmOut(a, s) = << >>
<1>1. s.type # "PCS" /\ s.type # "END"
  BY DEF BodyType
<1>2. AsmPush(a, s) = [a EXCEPT !.segments = Append(@, s)]
  BY <1>1 DEF AsmPush
<1> QED
  BY <1>1, <1>2 DEF AsmOut, Assemblers

LEMMA PushEnds ==
  ASSUME NEW a, NEW s, s.type = "END", a.state # None
  PROVE  AsmOut(a, s) = << [pts |-> a.pts, state |-> a.state,
                            segments |-> Append(a.segments, s)] >>
BY DEF AsmOut

(* A display set that is fed comes out, whatever was there before.          *)
LEMMA RunFed ==
  ASSUME NEW S, NEW T, NEW U, IsFed(S, T, U), NEW a \in Assemblers(S, T, U),
         NEW l \in Seq(S), IsRun(l, 1, Len(l))
  PROVE  AsmFeed(a, l).sets = << RunSet(l, 1, Len(l)) >>
<1> DEFINE n == Len(l)
           p(k) == SubSeq(l, 1, k)
           fed(k) == AsmFeed(a, p(k))
           held(k) == [segments |-> p(k), pts |-> l[1].pts, state |-> l[1].comp]
           G == {k \in 0 .. n - 1 : k > 0 => fed(k).asm = held(k) /\ fed(k).sets = << >>}
<1>1. /\ n \in Nat /\ n >= 2 /\ \A k \in 1 .. n : l[k] \in S
      /\ l[1].type = "PCS" /\ l[1].comp # None /\ l[n].type = "END"
      /\ \A k \in 2 .. n - 1 : l[k].type \in BodyType
  BY ElementOfSeq DEF IsRun
<1>2. ASSUME NEW k \in 0 .. n - 1
      PROVE  /\ p(k + 1) = Append(p(k), l[k + 1])
             /\ IsFedOne(fed(k), fed(k + 1), l[k + 1])
             /\ fed(k).asm \in Assemblers(S, T, U)
  <2>1. p(k) \in Seq(S) /\ p(k + 1) = Append(p(k), l[k + 1]) /\ l[k + 1] \in S
    BY <1>1, Prefix
  <2> HIDE DEF p
  <2>2. fed(k).asm \in Assemblers(S, T, U)
    BY <2>1, FeedTyped
  <2>3. IsFedOne(fed(k), fed(k + 1), l[k + 1])
    BY <2>1, FeedAppend
  <2> QED
    BY <2>1, <2>2, <2>3
<1>3. fed(0).sets = << >>
  <2>1. p(0) = << >>
    BY <1>1, SubSeqEmpty
  <2>2. AsmFeed(a, << >>).sets = << >>
    BY FeedEmpty
  <2> HIDE DEF p
  <2> QED
    BY <2>1, <2>2
<1>4. p(n) = l /\ p(1) = << l[1] >> /\ p(n) = Append(p(n - 1), l[n])
  <2>1. p(n) = l /\ p(1) = << l[1] >>
    <3>1. p(0) = << >> /\ 0 \in 0 .. Len(l) /\ 0 < Len(l)
      BY <1>1, SubSeqEmpty
    <3>2. SubSeq(l, 1, 0 + 1) = Append(SubSeq(l, 1, 0), l[0 + 1])
      BY <3>1, Prefix
    <3>3. p(1) = << l[1] >>
      <4>1. p(1) = Append(p(0), l[1])
        BY <3>2
      <4> HIDE DEF p
      <4>2. p(1) = Append(<< >>, l[1])
        BY <3>1, <4>1
      <4> QED
        BY <4>2
    <3>4. p(n) = l
      BY SubSeqFull
    <3> QED
      BY <3>3, <3>4
  <2>2. n - 1 \in 0 .. n - 1 /\ (n - 1) + 1 = n
    BY <1>1
  <2> HIDE DEF p, fed, n
  <2> QED
    BY <1>2, <2>1, <2>2
<1> HIDE DEF n, p, fed
<1>5. 0 \in G
  BY <1>1
<1>6. ASSUME NEW k \in 0 .. (n - 1) - 1, k \in G PROVE k + 1 \in G
  <2>1. k + 1 \in 0 .. n - 1 /\ k \in 0 .. n - 1 /\ k + 1 \in 1 .. n
    BY <1>1
  <2>2. IsFedOne(fed(k), fed(k + 1), l[k + 1]) /\ p(k + 1) = Append(p(k), l[k + 1])
    BY <1>2, <2>1
  <2>3. fed(k).sets = << >>
    BY <1>3, <1>6, <2>1
  <2>4. CASE k = 0
    <3>1. AsmOut(fed(0).asm, l[1]) = << >> /\ AsmPush(fed(0).asm, l[1]) = held(1)
      BY <1>1, <1>4, PushStarts
    <3>2. fed(1).asm = held(1) /\ fed(1).sets = << >> \o << >>
      BY <2>2, <2>3, <2>4, <3>1 DEF IsFedOne
    <3> HIDE DEF held
    <3> QED
      BY <2>1, <2>4, <3>2
  <2>5. CASE k > 0
    <3>1. fed(k).asm = held(k) /\ l[k + 1].type \in BodyType
      BY <1>1, <1>6, <2>5
    <3>2. fed(k).asm \in Assemblers(S, T, U)
      BY <1>2, <2>1
    <3>3. /\ AsmPush(fed(k).asm, l[k + 1]) =
               [segments |-> Append(fed(k).asm.segments, l[k + 1]),
                pts |-> fed(k).asm.pts, state |-> fed(k).asm.state]
          /\ AsmOut(fed(k).asm, l[k + 1]) = << >>
      <4> DEFINE b == fed(k).asm
                 e == l[k + 1]
      <4>1. b \in Assemblers(S, T, U) /\ e.type \in BodyType
        BY <3>1, <3>2
      <4> HIDE DEF b, e
      <4>2. /\ AsmPush(b, e) = [segments |-> Append(b.segments, e), pts |-> b.pts, state |-> b.state]
            /\ AsmOut(b, e) = << >>
        BY <4>1, PushGoesOn
      <4> QED
        BY <4>2 DEF b, e
    <3>4. AsmPush(fed(k).asm, l[k + 1]) = held(k + 1)
      <4>1. /\ fed(k).asm.segments = p(k) /\ fed(k).asm.pts = l[1].pts
            /\ fed(k).asm.state = l[1].comp
        BY <3>1
      <4>2. AsmPush(fed(k).asm, l[k + 1]) =
              [segments |-> Append(p(k), l[k + 1]), pts |-> l[1].pts, state |-> l[1].comp]
        BY <3>3, <4>1
      <4> QED
        BY <2>2, <4>2
    <3>5. fed(k + 1).asm = held(k + 1) /\ fed(k + 1).sets = << >> \o << >>
      BY <2>2, <2>3, <3>3, <3>4 DEF IsFedOne
    <3> HIDE DEF held
    <3> QED
      BY <2>1, <3>5
  <2> QED
    BY <2>1, <2>4, <2>5
<1>7. fed(n - 1).asm = held(n - 1) /\ fed(n - 1).sets = << >>
  <2>1. n - 1 \in Nat /\ n - 1 > 0
    BY <1>1
  <2> DEFINE m == n - 1
  <2>2. \A k \in 0 .. m - 1 : k \in G => k + 1 \in G
    BY <1>6
  <2>4. m \in Nat /\ m > 0
    BY <2>1
  <2> HIDE DEF G, m
  <2>3. m \in 0 .. m /\ 0 .. m \subseteq G
    BY <1>5, <2>2, <2>4, Upto
  <2> QED
    BY <2>1, <2>3 DEF G, m
<1>8. IsFedOne(fed(n - 1), fed(n), l[n])
  BY <1>1, <1>2
<1>9. AsmOut(held(n - 1), l[n]) = << [pts |-> l[1].pts, state |-> l[1].comp, segments |-> l] >>
  <2>1. held(n - 1).state # None /\ held(n - 1).pts = l[1].pts
        /\ held(n - 1).state = l[1].comp /\ held(n - 1).segments = p(n - 1)
    BY <1>1
  <2> HIDE DEF held
  <2> QED
    BY <1>1, <1>4, <2>1, PushEnds
<1>10. fed(n).sets = << [pts |-> l[1].pts, state |-> l[1].comp, segments |-> l] >>
  <2> DEFINE y == [pts |-> l[1].pts, state |-> l[1].comp, segments |-> l]
  <2> HIDE DEF y, held
  <2>1. fed(n).sets = << >> \o << y >>
    BY <1>7, <1>8, <1>9 DEF IsFedOne, y
  <2> QED
    BY <2>1 DEF y
<1>11. AsmFeed(a, l).sets = << [pts |-> l[1].pts, state |-> l[1].comp, segments |-> l] >>
  <2>1. fed(n) = AsmFeed(a, l)
    BY <1>4 DEF fed
  <2> QED
    BY <1>10, <2>1
<1> QED
  BY <1>4, <1>11 DEF RunSet, n, p

DisplaySets == {s \in Segments : IsDisplaySet(s)}

(* A display set that was written is one for the reader.                    *)
OneSet(s) == RunSet(Image(s, Reread), 1, Len(s))

LEMMA RereadRun ==
  ASSUME NEW s \in DisplaySets
  PROVE  /\ Image(s, Reread) \in Seq(SeenSegments) /\ Len(Image(s, Reread)) = Len(s)
         /\ IsRun(Image(s, Reread), 1, Len(Image(s, Reread)))
         /\ OneSet(s).segments = Image(s, Reread) /\ OneSet(s) \in SeenSets
<1> DEFINE i == Image(s, Reread)
           a == SeenAll(s)
           n == Len(s)
<1>1. s \in Segments /\ IsRun(a, 1, n) /\ n \in Nat /\ DOMAIN s = 1 .. n
  BY DEF DisplaySets, IsDisplaySet, Segments
<1>2. /\ i \in Seq(SeenSegments) /\ Len(i) = n
      /\ \A k \in 1 .. n : i[k] = Reread[s[k]]
  BY <1>1, RereadTyped, ImageProperties DEF IsImage, Segments
<1>3. \A k \in 1 .. n : s[k] \in PayloadSegments /\ a[k] = Seen(s[k])
  BY <1>1, ElementOfSeq DEF SeenAll, Segments
<1>4. \A k \in 1 .. n : i[k].type = a[k].type /\ i[k].comp = a[k].comp
  <2> SUFFICES ASSUME NEW k \in 1 .. n
               PROVE  i[k].type = a[k].type /\ i[k].comp = a[k].comp
    OBVIOUS
  <2>1. i[k] = Seen(Kept(s[k])) /\ a[k] = Seen(s[k]) /\ s[k] \in PayloadSegments
    BY <1>2, <1>3 DEF Reread
  <2> HIDE DEF i, a
  <2> QED
    BY <2>1, KeptTyped DEF Seen
<1>5. Len(a) = n /\ DOMAIN a = 1 .. n
  BY <1>1 DEF SeenAll
<1> HIDE DEF i, a, n
<1>6. IsRun(i, 1, n)
  BY <1>1, <1>2, <1>4, <1>5 DEF IsRun
<1>7. SubSeq(i, 1, n) = i
  BY <1>2, SubSeqFull
<1>8. n >= 2 /\ i[1] \in SeenSegments
  BY <1>1, <1>2, <1>6, ElementOfSeq DEF IsRun
<1>9. /\ OneSet(s) = [pts |-> i[1].pts, state |-> i[1].comp, segments |-> i]
      /\ i[1].pts \in Nat /\ i[1].comp \in States
  BY <1>7, <1>8 DEF OneSet, RunSet, i, n, SeenSegments
<1>10. OneSet(s) \in SeenSets /\ OneSet(s).segments = i
  BY <1>2, <1>9 DEF SeenSets, AssembledSets
<1> QED
  BY <1>2, <1>6, <1>10 DEF i, n

(* Display sets written one behind the other are all read back.             *)
LEMMA JoinedRead ==
  ASSUME NEW sets \in Seq(DisplaySets)
  PROVE  AsmFeed(AsmNew, Image(Joined(sets), Reread)).sets
           = [k \in DOMAIN sets |-> OneSet(sets[k])]
<1> DEFINE log(u) == Image(Joined(u), Reread)
           one == [x \in DisplaySets |-> OneSet(x)]
           D == DisplaySets
           T == {u \in Seq(D) : AsmFeed(AsmNew, log(u)).sets = Image(u, one)}
<1>0. one \in [D -> SeenSets] /\ D \subseteq Seq(PayloadSegments)
  BY RereadRun DEF DisplaySets, Segments
<1>1. << >> \in T
  <2>1. log(<< >>) = << >> /\ Image(<< >>, one) = << >>
    BY JoinedEmpty DEF Image
  <2>2. AsmFeed(AsmNew, << >>).sets = << >>
    BY SeenIsLog, FeedEmpty
  <2> QED
    BY <2>1, <2>2
<1>2. ASSUME NEW u \in Seq(D), NEW e \in D, u \in T PROVE Append(u, e) \in T
  <2>1. u \in Seq(Seq(PayloadSegments)) /\ e \in Seq(PayloadSegments)
    BY <1>0
  <2>2. Joined(u) \in Seq(PayloadSegments) /\ Joined(Append(u, e)) = Joined(u) \o e
    BY <2>1, JoinedTyped, JoinedAppend
  <2> DEFINE x == log(u)
             y == Image(e, Reread)
             a == AsmFeed(AsmNew, x).asm
  <2>3. log(Append(u, e)) = x \o y
    BY <2>1, <2>2, RereadTyped, ImageConcat
  <2>4. x \in Seq(SeenSegments) /\ y \in Seq(SeenSegments)
    BY <2>1, <2>2, RereadTyped, ImageProperties DEF IsImage
  <2>5. IsRun(y, 1, Len(y)) /\ Len(y) = Len(e)
    BY RereadRun
  <2> HIDE DEF y, x
  <2>6. a \in Assemblers(SeenSegments, Nat, States)
    BY <2>4, SeenIsLog, FeedTyped
  <2>7. AsmFeed(AsmNew, x \o y).sets = AsmFeed(AsmNew, x).sets \o AsmFeed(a, y).sets
    <3>1. FeedsOn(AsmNew, x, y)
      BY <2>4, SeenIsLog, FeedConcat
    <3> QED BY <3>1 DEF FeedsOn
  <2> HIDE DEF a
  <2>8. AsmFeed(a, y).sets = << RunSet(y, 1, Len(y)) >>
    BY <2>4, <2>5, <2>6, SeenIsLog, RunFed
  <2>9. RunSet(y, 1, Len(y)) = one[e]
    BY <2>5 DEF OneSet, y
  <2>10. AsmFeed(AsmNew, x).sets = Image(u, one)
    BY <1>2 DEF x
  <2>11. Image(Append(u, e), one) = Append(Image(u, one), one[e])
    <3> HIDE DEF one, D
    <3> QED BY <1>0, ImageAppend
  <2>12. Image(u, one) \in Seq(SeenSets) /\ one[e] \in SeenSets
    <3> HIDE DEF one, D
    <3> QED BY <1>0, ImageProperties DEF IsImage
  <2>13. Image(u, one) \o << one[e] >> = Append(Image(u, one), one[e])
    <3> HIDE DEF one
    <3> QED BY <2>12, AppendIsConcat
  <2>14. AsmFeed(AsmNew, log(Append(u, e))).sets = Image(Append(u, e), one)
    <3> HIDE DEF one, log
    <3> QED BY <2>3, <2>7, <2>8, <2>9, <2>10, <2>11, <2>13
  <2>15. Append(u, e) \in Seq(D)
    OBVIOUS
  <2> QED
    BY <2>14, <2>15
<1> HIDE DEF T, D
<1>3. Seq(D) \subseteq T
  BY <1>1, <1>2, SeqInduction
<1>4. AsmFeed(AsmNew, log(sets)).sets = Image(sets, one)
  BY <1>3 DEF T, D
<1>5. \A k \in DOMAIN sets : one[sets[k]] = OneSet(sets[k])
  BY ElementOfSeq
<1> QED
  BY <1>4, <1>5 DEF Image

(* Display sets whose lengths fit are still such when they are joined.      *)
LEMMA JoinedFit ==
  ASSUME NEW sets \in Seq(DisplaySets), \A k \in DOMAIN sets : LengthsFit(sets[k])
  PROVE  LengthsFit(Joined(sets))
<1> DEFINE S == {x \in PayloadSegments : Len(x.payload) < U16}
<1>1. \A k \in DOMAIN sets : sets[k] \in Seq(S)
  <2> SUFFICES ASSUME NEW k \in DOMAIN sets PROVE sets[k] \in Seq(S)
    OBVIOUS
  <2> DEFINE s == sets[k]
  <2>1. s \in Seq(PayloadSegments) /\ LengthsFit(s)
    BY ElementOfSeq DEF DisplaySets, Segments
  <2> HIDE DEF s
  <2>2. Len(s) \in Nat /\ DOMAIN s = 1 .. Len(s) /\ s = [j \in 1 .. Len(s) |-> s[j]]
    BY <2>1
  <2>3. \A j \in 1 .. Len(s) : s[j] \in S
    BY <2>1, <2>2, ElementOfSeq DEF LengthsFit
  <2>4. s \in Seq(S)
    <3> HIDE DEF S
    <3> QED BY <2>2, <2>3
  <2> QED
    BY <2>4 DEF s
<1> HIDE DEF S
<1>2. sets \in Seq(Seq(S))
  <2>1. Len(sets) \in Nat /\ DOMAIN sets = 1 .. Len(sets) /\ sets = [j \in 1 .. Len(sets) |-> sets[j]]
    OBVIOUS
  <2> QED BY <1>1, <2>1
<1>3. Joined(sets) \in Seq(S)
  BY <1>2, JoinedTyped
<1>4. \A j \in DOMAIN Joined(sets) : Joined(sets)[j] \in S
  BY <1>3, ElementOfSeq
<1> QED
  BY <1>4 DEF S, LengthsFit

(* Reading back a file that holds the display sets of a track.              *)
LEMMA FileReadBack ==
  ASSUME NEW sets \in Seq(DisplaySets), \A k \in DOMAIN sets : LengthsFit(sets[k])
  PROVE  ReadBack(WrittenAll(Joined(sets))) = [k \in DOMAIN sets |-> KeptAll(sets[k])]
<1> DEFINE all == Joined(sets)
           found == AsmFeed(AsmNew, SeenAll(KeptAll(all))).sets
           plain(s) == [type |-> s.type, pts |-> s.pts, payload |-> s.payload]
<1>1. all \in Segments
  <2>1. sets \in Seq(Seq(PayloadSegments))
    BY DEF DisplaySets, Segments
  <2> QED
    BY <2>1, JoinedTyped DEF Segments
<1>2. found = [k \in DOMAIN sets |-> OneSet(sets[k])]
  BY <1>1, RereadIs, JoinedRead
<1>3. ReadBack(WrittenAll(all)) =
        [k \in DOMAIN found |-> [j \in DOMAIN found[k].segments |-> plain(found[k].segments[j])]]
  <2>1. LengthsFit(all)
    BY JoinedFit
  <2>2. SegmentsIn(WrittenAll(all)) = KeptAll(all)
    BY <1>1, <2>1, SegmentsInAll
  <2> QED
    BY <2>2 DEF ReadBack
<1> HIDE DEF found, all
<1>4. ASSUME NEW k \in DOMAIN sets
      PROVE  [j \in DOMAIN found[k].segments |-> plain(found[k].segments[j])]
               = KeptAll(sets[k])
  <2> DEFINE s == sets[k]
  <2>1. s \in DisplaySets
    BY ElementOfSeq
  <2>2. s \in Seq(PayloadSegments)
    BY <2>1 DEF DisplaySets, Segments
  <2>3. found[k].segments = Image(s, Reread)
    BY <1>2, <2>1, RereadRun
  <2>4. \A j \in DOMAIN s : s[j] \in PayloadSegments
    BY <2>2, ElementOfSeq
  <2>5. \A j \in DOMAIN s : plain(Reread[s[j]]) = Kept(s[j])
    <3> SUFFICES ASSUME NEW j \in DOMAIN s PROVE plain(Reread[s[j]]) = Kept(s[j])
      OBVIOUS
    <3>1. s[j] \in PayloadSegments /\ Kept(s[j]) \in PayloadSegments
      BY <2>4, KeptTyped
    <3> QED
      BY <3>1 DEF Reread, Seen, PayloadSegments
  <2> HIDE DEF s
  <2>6. DOMAIN Image(s, Reread) = DOMAIN s /\ \A j \in DOMAIN s : Image(s, Reread)[j] = Reread[s[j]]
    BY DEF Image
  <2> QED
    BY <2>3, <2>5, <2>6 DEF KeptAll, s
<1>5. DOMAIN found = DOMAIN sets
  BY <1>2
<1> QED
  BY <1>3, <1>4, <1>5 DEF all
-----------------------------------------------------------------------------
(* The tracks in the order of their files.                                  *)

Distinct(s) == \A g, h \in 1 .. Len(s) : s[g] = s[h] => g = h

LEMMA DistinctCount ==
  ASSUME NEW V, NEW s \in Seq(V), Distinct(s)
  PROVE  IsFiniteSet(Members(s)) /\ Cardinality(Members(s)) = Len(s)
<1> DEFINE D == 1 .. Len(s)
<1>1. Len(s) \in Nat /\ DOMAIN s = D /\ Members(s) = {s[k] : k \in D}
  BY DEF Members
<1>2. s \in [D -> Members(s)]
  BY <1>1
<1>3. s \in Injection(D, Members(s))
  <2>1. \A g, h \in D : s[g] = s[h] => g = h
    BY DEF Distinct
  <2> HIDE DEF D
  <2> QED BY <1>2, <2>1 DEF Injection, IsInjective
<1>4. s \in Surjection(D, Members(s))
  BY <1>1, <1>2 DEF Surjection
<1>5. ExistsBijection(D, Members(s))
  BY <1>3, <1>4 DEF ExistsBijection, Bijection
<1>6. IsFiniteSet(D) /\ Cardinality(D) = Len(s)
  BY <1>1, FS_Interval
<1> QED
  BY <1>5, <1>6, FS_Bijection

LEMMA FirstsAre ==
  ASSUME NEW X, NEW items \in Seq(X)
  PROVE  LET firsts == Firsts(items)
             order == [j \in DOMAIN firsts |-> items[firsts[j]].trk]
         IN  /\ DOMAIN order = 1 .. Len(order) /\ Len(order) \in Nat
             /\ order \in Seq(TracksOf(items))
             /\ Distinct(order) /\ Members(order) = TracksOf(items)
<1> DEFINE D == DOMAIN items
           n == Len(items)
           same == [k \in D |-> k]
           S == {k \in D : \A j \in 1 .. k - 1 : items[j].trk # items[k].trk}
           R == {p \in Nat \X Nat : p[1] < p[2]}
           firsts == Firsts(items)
           order == [j \in DOMAIN firsts |-> items[firsts[j]].trk]
<1>1. D = 1 .. n /\ n \in Nat /\ same \in Seq(D) /\ DOMAIN same = D
  OBVIOUS
<1>2. firsts = Only(same, S)
  BY DEF Firsts
<1>3. firsts \in Seq(D \cap S)
  <2> HIDE DEF D, S, same, firsts
  <2> QED BY <1>1, <1>2, OnlyMembers
<1>4. Chain(firsts, R)
  <2>1. Chain(same, R)
    BY <1>1 DEF Chain
  <2> HIDE DEF D, S, R, same, firsts
  <2> QED BY <1>1, <1>2, <2>1, OnlyChain
<1>5. Members(firsts) = S
  <2>1. Members(same) = D
    BY <1>1 DEF Members
  <2>2. Members(Only(same, S)) = Members(same) \cap S
    <3> HIDE DEF D, S, same
    <3> QED BY <1>1, OnlySelects
  <2> QED BY <1>2, <2>1, <2>2
<1>6. /\ Len(firsts) \in Nat /\ DOMAIN firsts = 1 .. Len(firsts)
      /\ \A j \in 1 .. Len(firsts) : firsts[j] \in D /\ firsts[j] \in S
  <2> HIDE DEF D, S, firsts
  <2> QED BY <1>3, ElementOfSeq
<1> HIDE DEF firsts
<1>7. /\ Len(order) = Len(firsts) /\ DOMAIN order = 1 .. Len(firsts)
      /\ \A j \in 1 .. Len(firsts) : order[j] = items[firsts[j]].trk
      /\ order \in Seq(TracksOf(items))
  BY <1>6 DEF TracksOf
<1>8. Distinct(order)
  <2> SUFFICES ASSUME NEW g \in 1 .. Len(firsts), NEW h \in 1 .. Len(firsts), g < h
               PROVE  order[g] # order[h]
    BY <1>6, <1>7 DEF Distinct
  <2>1. firsts[g] < firsts[h]
    BY <1>4, <1>6 DEF Chain
  <2>2. firsts[g] \in 1 .. firsts[h] - 1
    BY <1>1, <1>6, <2>1
  <2>3. items[firsts[g]].trk # items[firsts[h]].trk
    BY <1>6, <2>2
  <2> QED
    BY <1>7, <2>3
<1>9. ASSUME NEW t \in TracksOf(items) PROVE t \in Members(order)
  <2> DEFINE K == {k \in D : items[k].trk = t}
  <2>1. K \in SUBSET Nat /\ K # {}
    BY <1>1 DEF TracksOf
  <2>2. PICK k \in K : \A y \in K : k <= y
    BY <2>1, LeastNumber
  <2>3. k \in S
    BY <1>1, <2>2
  <2>4. PICK j \in DOMAIN firsts : firsts[j] = k
    BY <1>5, <2>3 DEF Members
  <2> QED
    BY <1>6, <1>7, <2>2, <2>4 DEF Members
<1>10. Members(order) \subseteq TracksOf(items)
  BY <1>6, <1>7 DEF Members, TracksOf
<1> QED
  BY <1>6, <1>7, <1>8, <1>9, <1>10 DEF firsts

(* The tracks extract writes files for.                                     *)
TracksFor(items) == IF Cardinality(command.tracks) = 1 THEN command.tracks ELSE TracksOf(items)

LEMMA TrackListIs ==
  ASSUME NEW X, NEW items \in Seq(X), IsFiniteSet(command.tracks)
  PROVE  LET order == TrackList(items)
         IN  /\ order \in Seq(TracksFor(items)) /\ Distinct(order)
             /\ Members(order) = TracksFor(items)
             /\ Cardinality(TracksFor(items)) = Len(order)
<1> DEFINE order == TrackList(items)
<1>1. order \in Seq(TracksFor(items)) /\ Distinct(order) /\ Members(order) = TracksFor(items)
  <2>1. CASE Cardinality(command.tracks) = 1
    <3>1. PICK t : command.tracks = {t}
      BY <2>1, FS_Singleton
    <3>2. order = << t >> /\ TracksFor(items) = {t}
      BY <2>1, <3>1 DEF TrackList, TracksFor
    <3> QED
      BY <3>2 DEF Distinct, Members
  <2>2. CASE Cardinality(command.tracks) # 1
    <3> DEFINE o == [j \in DOMAIN Firsts(items) |-> items[Firsts(items)[j]].trk]
    <3>1. order = o /\ TracksFor(items) = TracksOf(items)
      BY <2>2 DEF TrackList, TracksFor
    <3>2. o \in Seq(TracksOf(items)) /\ Distinct(o) /\ Members(o) = TracksOf(items)
      BY FirstsAre
    <3> HIDE DEF o, order
    <3> QED
      BY <3>1, <3>2
  <2> QED
    BY <2>1, <2>2
<1> HIDE DEF order
<1>2. Cardinality(TracksFor(items)) = Len(order)
  BY <1>1, DistinctCount
<1> QED
  BY <1>1, <1>2 DEF order
-----------------------------------------------------------------------------
(* extract.                                                                 *)

Order == TrackList(Collected)
WholeItems == {i \in Items : IsDisplaySet(i.segments) /\ LengthsFit(i.segments)}

SetupInv ==
  /\ source \in Seq(WholeItems)
  /\ command.pipe \in BOOLEAN /\ IsFiniteSet(command.tracks)

(* The files of the first n groups are there, and no others.                *)
WrittenTo(n) ==
  /\ DOMAIN files = {NameOf(g) : g \in 1 .. n}
  /\ IsFiniteSet(DOMAIN files) /\ Cardinality(DOMAIN files) = n
  /\ \A g \in 1 .. n : files[NameOf(g)] = FileOf(g)

ExtractInv ==
  ~ Piping =>
    /\ encoder \in {"read", "write", "ok", "err"}
    /\ encoder = "read" => files = << >>
    /\ encoder \in {"write", "ok"} =>
         groups = [g \in DOMAIN Order |-> GroupOf(Collected, Order[g])]
    /\ encoder = "write" => \E n \in 0 .. Len(Order) - 1 : WrittenTo(n)
    /\ encoder = "ok" => WrittenTo(Len(Order))

LEMMA CollectedTyped ==
  SetupInv => Collected \in Seq(WholeItems)
BY OnlyTyped DEF SetupInv, Collected

LEMMA OrderIs ==
  ASSUME SetupInv
  PROVE  /\ Len(Order) \in Nat /\ DOMAIN Order = 1 .. Len(Order)
         /\ Distinct(Order) /\ Members(Order) = TracksFor(Collected)
         /\ Cardinality(TracksFor(Collected)) = Len(Order)
<1>1. Collected \in Seq(WholeItems) /\ IsFiniteSet(command.tracks)
  BY CollectedTyped DEF SetupInv
<1>2. /\ Order \in Seq(TracksFor(Collected)) /\ Distinct(Order)
      /\ Members(Order) = TracksFor(Collected)
      /\ Cardinality(TracksFor(Collected)) = Len(Order)
  BY <1>1, TrackListIs DEF Order
<1> QED
  BY <1>2

(* The groups of the tracks have names of their own.                        *)
LEMMA NamesApart ==
  ASSUME SetupInv, groups = [g \in DOMAIN Order |-> GroupOf(Collected, Order[g])]
  PROVE  /\ Len(groups) = Len(Order)
         /\ \A g \in 1 .. Len(Order) : NameOf(g) = FileFor(Order[g], Len(Order))
         /\ \A g, h \in 1 .. Len(Order) : NameOf(g) = NameOf(h) => g = h
<1> DEFINE n == Len(Order)
<1>1. n \in Nat /\ DOMAIN Order = 1 .. n /\ \A g, h \in 1 .. n : Order[g] = Order[h] => g = h
  BY OrderIs DEF Distinct
<1>2. Len(groups) = n /\ DOMAIN groups = 1 .. n
  BY <1>1
<1>3. \A g \in 1 .. n : groups[g].trk = Order[g]
  BY <1>1 DEF GroupOf
<1>4. \A g \in 1 .. n : NameOf(g) = IF n = 1 THEN << >> ELSE << Order[g] >>
  BY <1>2, <1>3 DEF NameOf
<1> HIDE DEF n
<1>5. ASSUME NEW g \in 1 .. n, NEW h \in 1 .. n, NameOf(g) = NameOf(h) PROVE g = h
  <2>1. CASE n = 1
    BY <2>1
  <2>2. CASE n # 1
    <3>1. << Order[g] >> = << Order[h] >>
      BY <1>4, <1>5, <2>2
    <3>2. Order[g] = Order[h]
      BY <3>1
    <3> QED
      BY <1>1, <3>2
  <2> QED
    BY <2>1, <2>2
<1> QED
  BY <1>2, <1>4, <1>5 DEF FileFor, n

LEMMA ExtractInvInit == Init => SetupInv /\ ExtractInv
<1> SUFFICES ASSUME Init PROVE SetupInv /\ ExtractInv
  OBVIOUS
<1>1. PICK s \in Setups : source = s.source /\ command = s.command
  BY DEF Init
<1>2. /\ source \in Seq(Items)
      /\ \A k \in DOMAIN source : /\ IsDisplaySet(source[k].segments)
                                 /\ LengthsFit(source[k].segments)
      /\ command.pipe \in BOOLEAN /\ IsFiniteSet(command.tracks)
  BY <1>1, SetupsAssumption
<1>3. source \in Seq(WholeItems)
  <2>1. DOMAIN source = 1 .. Len(source) /\ Len(source) \in Nat
    BY <1>2
  <2>2. \A k \in DOMAIN source : source[k] \in WholeItems
    BY <1>2, <2>1, ElementOfSeq DEF WholeItems
  <2> QED
    BY <1>2, <2>1, <2>2
<1> QED
  BY <1>2, <1>3 DEF Init, SetupInv, ExtractInv

LEMMA OrderStays ==
  ASSUME UNCHANGED config
  PROVE  UNCHANGED << Order, Collected, Piping >> /\ (SetupInv => SetupInv')
<1>1. source' = source /\ command' = command
  BY DEF config
<1>2. Collected' = Collected
  BY <1>1 DEF Collected, Wanted
<1> HIDE DEF config
<1>3. Order' = Order
  BY <1>1, <1>2 DEF Order, TrackList
<1>4. Piping' = Piping
  BY <1>1 DEF Piping
<1> QED
  BY <1>1, <1>2, <1>3, <1>4 DEF SetupInv

(* The next file is written.                                                *)
LEMMA FileAdded ==
  ASSUME SetupInv, groups = [g \in DOMAIN Order |-> GroupOf(Collected, Order[g])],
         UNCHANGED << config, groups >>, NEW n \in 0 .. Len(Order) - 1, WrittenTo(n),
         files' = WithFile(NameOf(n + 1), FileOf(n + 1))
  PROVE  WrittenTo(n + 1)'
<1> DEFINE N == Len(Order)
           name == NameOf(n + 1)
<1>1. N \in Nat /\ n + 1 \in 1 .. N /\ n \in Nat
  BY OrderIs
<1>2. /\ DOMAIN files = {NameOf(g) : g \in 1 .. n}
      /\ IsFiniteSet(DOMAIN files) /\ Cardinality(DOMAIN files) = n
      /\ \A g \in 1 .. n : files[NameOf(g)] = FileOf(g)
  BY DEF WrittenTo
<1>3. \A g \in 1 .. n : NameOf(g) # name
  <2>1. \A g, h \in 1 .. N : NameOf(g) = NameOf(h) => g = h
    BY NamesApart
  <2>2. \A g \in 1 .. n : g \in 1 .. N /\ g # n + 1
    BY <1>1
  <2> QED
    BY <1>1, <2>1, <2>2
<1>4. \A g : NameOf(g)' = NameOf(g) /\ FileOf(g)' = FileOf(g)
  BY DEF NameOf, FileOf
<1> DEFINE what == FileOf(n + 1)
<1> HIDE DEF name, what
<1>5. /\ DOMAIN files' = {name} \cup DOMAIN files /\ files'[name] = what
      /\ \A x \in DOMAIN files : x # name => files'[x] = files[x]
  BY DEF WithFile, name, what
<1>8. name \notin DOMAIN files
  BY <1>2, <1>3
<1>9. IsFiniteSet(DOMAIN files') /\ Cardinality(DOMAIN files') = n + 1
  <2>1. IsFiniteSet(DOMAIN files \cup {name}) /\ Cardinality(DOMAIN files \cup {name}) = n + 1
    BY <1>2, <1>8, FS_AddElement
  <2>2. DOMAIN files' = DOMAIN files \cup {name}
    BY <1>5
  <2> QED
    BY <2>1, <2>2
<1>10. DOMAIN files' = {NameOf(g) : g \in 1 .. n + 1}
  <2>1. \A g : g \in 1 .. n + 1 <=> g \in 1 .. n \/ g = n + 1
    BY <1>1
  <2> QED
    BY <1>2, <1>5, <2>1 DEF name
<1>11. ASSUME NEW g \in 1 .. n + 1 PROVE files'[NameOf(g)] = FileOf(g)
  <2>1. CASE g = n + 1
    BY <1>5, <2>1 DEF name, what
  <2>2. CASE g \in 1 .. n
    BY <1>2, <1>3, <1>5, <2>2
  <2> QED
    BY <1>1, <2>1, <2>2
<1>12. /\ DOMAIN files' = {NameOf(g)' : g \in 1 .. n + 1}
       /\ \A g \in 1 .. n + 1 : files'[NameOf(g)'] = FileOf(g)'
  BY <1>4, <1>10, <1>11
<1> QED
  BY <1>9, <1>12 DEF WrittenTo

(* Any other step of extract.                                               *)
LEMMA ExtractInvNext ==
  SetupInv /\ ExtractInv /\ [Next]_vars => SetupInv' /\ ExtractInv'
<1> SUFFICES ASSUME SetupInv, ExtractInv, [Next]_vars PROVE SetupInv' /\ ExtractInv'
  OBVIOUS
<1>1. UNCHANGED config
  BY DEF Next, vars, Streaming, Encoding, StreamTracks, StreamDisplaySet, StreamEnds,
     BrokenPipe, StreamFails, StreamExits, PassOver, Collect, Reject, Read, EndOfInput,
     WriteFile, WriteFails, Extract, ExtractFails, Script
<1>2. SetupInv' /\ Order' = Order /\ Collected' = Collected /\ Piping' = Piping
  BY <1>1, OrderStays
<1> SUFFICES ASSUME ~ Piping PROVE ExtractInv'
  BY <1>2 DEF ExtractInv
<1>3. /\ encoder \in {"read", "write", "ok", "err"}
      /\ encoder = "read" => files = << >>
      /\ encoder \in {"write", "ok"} =>
           groups = [g \in DOMAIN Order |-> GroupOf(Collected, Order[g])]
      /\ encoder = "write" => \E n \in 0 .. Len(Order) - 1 : WrittenTo(n)
      /\ encoder = "ok" => WrittenTo(Len(Order))
  BY DEF ExtractInv
<1>4. \A x, t : GroupOf(x, t)' = GroupOf(x, t)
  BY DEF GroupOf, OfTrack
<1>5. Len(Order) \in Nat /\ DOMAIN Order = 1 .. Len(Order)
  BY OrderIs
<1>6. CASE UNCHANGED << encoder, groups, files >>
  <2>1. \A n : WrittenTo(n)' <=> WrittenTo(n)
    BY <1>6 DEF WrittenTo, NameOf, FileOf
  <2>2. Len(Order)' = Len(Order) /\ DOMAIN Order' = DOMAIN Order
    BY <1>2
  <2> QED
    <3>1. [g \in DOMAIN Order |-> GroupOf(Collected, Order[g])]'
            = [g \in DOMAIN Order |-> GroupOf(Collected, Order[g])]
      BY <1>2 DEF GroupOf, OfTrack
    <3> QED
      BY <1>3, <1>6, <2>1, <2>2, <3>1 DEF ExtractInv
<1>7. CASE Extract
  <2>1. /\ groups' = [g \in DOMAIN Order |-> GroupOf(Collected, Order[g])]
        /\ encoder' = IF Order = << >> THEN "ok" ELSE "write"
        /\ files' = files /\ files = << >>
    BY <1>3, <1>7 DEF Extract, Order
  <2>2. WrittenTo(0)'
    <3>1. DOMAIN files' = {} /\ Cardinality({}) = 0 /\ IsFiniteSet({})
      BY <2>1, FS_EmptySet
    <3>2. \A g : g \notin 1 .. 0
      OBVIOUS
    <3> QED
      BY <3>1, <3>2 DEF WrittenTo
  <2>3. CASE Order = << >>
    <3>1. Len(Order') = 0 /\ encoder' = "ok"
      BY <1>2, <2>1, <2>3
    <3> QED
      BY <1>2, <2>1, <2>2, <3>1 DEF ExtractInv, GroupOf, OfTrack
  <2>4. CASE Order # << >>
    <3>1. Len(Order) # 0
      BY <1>5, <2>4 DEF Order
    <3>2. 0 \in 0 .. Len(Order') - 1 /\ encoder' = "write"
      BY <1>2, <1>5, <2>1, <2>4, <3>1
    <3> QED
      BY <1>2, <2>1, <2>2, <3>2 DEF ExtractInv, GroupOf, OfTrack
  <2> QED
    BY <2>3, <2>4
<1>8. CASE ExtractFails \/ WriteFails
  <2>1. encoder' = "err"
    BY <1>8 DEF ExtractFails, WriteFails
  <2> QED
    BY <2>1 DEF ExtractInv
<1>9. CASE WriteFile
  <2>1. PICK n \in 0 .. Len(Order) - 1 : WrittenTo(n)
    BY <1>3, <1>9 DEF WriteFile
  <2>2. groups = [g \in DOMAIN Order |-> GroupOf(Collected, Order[g])]
    BY <1>3, <1>9 DEF WriteFile
  <2>3. Cardinality(DOMAIN files) = n /\ Len(groups) = Len(Order)
    BY <1>5, <2>1, <2>2, NamesApart DEF WrittenTo
  <2>4. /\ files' = WithFile(NameOf(n + 1), FileOf(n + 1))
        /\ encoder' = IF n + 1 = Len(Order) THEN "ok" ELSE "write"
        /\ groups' = groups
    BY <1>9, <2>3 DEF WriteFile
  <2>5. WrittenTo(n + 1)'
    BY <1>1, <2>1, <2>2, <2>4, FileAdded
  <2>6. groups' = [g \in DOMAIN Order' |-> GroupOf(Collected, Order[g])']
    BY <1>2, <2>2, <2>4 DEF GroupOf, OfTrack
  <2>7. CASE n + 1 = Len(Order)
    <3>1. WrittenTo(Len(Order))' /\ encoder' = "ok"
      BY <1>2, <2>4, <2>5, <2>7
    <3> QED
      BY <2>6, <3>1 DEF ExtractInv
  <2>8. CASE n + 1 # Len(Order)
    <3>1. n + 1 \in 0 .. Len(Order') - 1 /\ encoder' = "write"
      <4>1. Len(Order') = Len(Order)
        BY <1>2
      <4>2. encoder' = "write"
        BY <2>4, <2>8
      <4>3. n + 1 \in 0 .. Len(Order) - 1
        <5> DEFINE N == Len(Order)
        <5>1. N \in Nat /\ n \in 0 .. N - 1 /\ n + 1 # N
          BY <1>5, <2>8, Zenon
        <5> HIDE DEF N
        <5>2. n + 1 \in 0 .. N - 1
          BY <5>1
        <5> QED
          BY <5>2 DEF N
      <4> QED
        BY <4>1, <4>2, <4>3, Zenon
    <3> QED
      BY <2>5, <2>6, <3>1 DEF ExtractInv
  <2> QED
    BY <2>7, <2>8
<1>10. ASSUME Next, ~ Extract, ~ ExtractFails, ~ WriteFails, ~ WriteFile
       PROVE  UNCHANGED << encoder, groups, files >>
  BY <1>10 DEF Next, Streaming, Encoding, StreamTracks, StreamDisplaySet, StreamEnds,
     BrokenPipe, StreamFails, StreamExits, PassOver, Collect, Reject, Read, EndOfInput, Script
<1> QED
  BY <1>6, <1>7, <1>8, <1>9, <1>10 DEF vars

(* Where the times fit, a file keeps segments as they are.                  *)
LEMMA KeptIfTimesFit ==
  ASSUME NEW s \in Segments, TimesFit(s)
  PROVE  KeptAll(s) = s
<1>1. Len(s) \in Nat /\ DOMAIN s = 1 .. Len(s) /\ s = [j \in 1 .. Len(s) |-> s[j]]
  BY DEF Segments
<1>2. \A j \in 1 .. Len(s) : s[j] \in PayloadSegments /\ s[j].pts < U32
  BY <1>1, ElementOfSeq DEF Segments, TimesFit
<1>3. \A j \in 1 .. Len(s) : s[j].pts % U32 = s[j].pts
  BY <1>2, WidthAssumption, ModOfLess DEF PayloadSegments
<1>4. \A j \in 1 .. Len(s) : Kept(s[j]) = s[j]
  BY <1>2, <1>3 DEF Kept, PayloadSegments
<1> QED
  BY <1>1, <1>4 DEF KeptAll

(* What was written is what was asked for.                                  *)
LEMMA ExtractInvLossless == SetupInv /\ ExtractInv => ExtractIsLossless
<1> SUFFICES ASSUME SetupInv, ExtractInv, ~ Piping, encoder = "ok"
             PROVE  LET own(t) == OfTrack(Collected, t)
                        tracks == TracksFor(Collected)
                    IN  /\ DOMAIN files = {FileFor(t, Cardinality(tracks)) : t \in tracks}
                        /\ \A t \in tracks :
                             (\A k \in DOMAIN own(t) : TimesFit(own(t)[k].segments)) =>
                               ReadBack(files[FileFor(t, Cardinality(tracks))]) =
                                 [k \in DOMAIN own(t) |-> own(t)[k].segments]
  BY DEF ExtractIsLossless, TracksFor
<1> DEFINE tracks == TracksFor(Collected)
           N == Len(Order)
<1>1. /\ groups = [g \in DOMAIN Order |-> GroupOf(Collected, Order[g])]
      /\ DOMAIN files = {NameOf(g) : g \in 1 .. N}
      /\ \A g \in 1 .. N : files[NameOf(g)] = FileOf(g)
  BY DEF ExtractInv, WrittenTo
<1>2. /\ N \in Nat /\ DOMAIN Order = 1 .. N /\ Cardinality(tracks) = N
      /\ tracks = {Order[g] : g \in 1 .. N}
  BY OrderIs DEF Members
<1>3. \A g \in 1 .. N : NameOf(g) = FileFor(Order[g], N)
  BY <1>1, NamesApart
<1>4. DOMAIN files = {FileFor(t, N) : t \in tracks}
  BY <1>1, <1>2, <1>3
<1>5. ASSUME NEW t \in tracks,
             \A k \in DOMAIN OfTrack(Collected, t) :
               TimesFit(OfTrack(Collected, t)[k].segments)
      PROVE  ReadBack(files[FileFor(t, N)]) =
               [k \in DOMAIN OfTrack(Collected, t) |-> OfTrack(Collected, t)[k].segments]
  <2> DEFINE own == OfTrack(Collected, t)
             sets == [k \in DOMAIN own |-> own[k].segments]
  <2>1. PICK g \in 1 .. N : Order[g] = t
    BY <1>2
  <2>2. groups[g].sets = sets
    <3>1. groups[g] = GroupOf(Collected, t)
      BY <1>1, <1>2, <2>1
    <3> QED
      BY <3>1 DEF GroupOf
  <2>3. own \in Seq(WholeItems)
    BY CollectedTyped, OnlyTyped DEF OfTrack
  <2>4. \A k \in DOMAIN own : /\ own[k].segments \in DisplaySets
                              /\ LengthsFit(own[k].segments)
    <3> HIDE DEF own
    <3>1. \A k \in DOMAIN own : own[k] \in WholeItems
      BY <2>3, ElementOfSeq
    <3> QED
      BY <3>1 DEF WholeItems, Items, DisplaySets, Segments, PayloadSegments
  <2> HIDE DEF own
  <2>5. sets \in Seq(DisplaySets)
    BY <2>3, <2>4
  <2>6. DOMAIN sets = DOMAIN own /\ \A k \in DOMAIN own : sets[k] = own[k].segments
    OBVIOUS
  <2> HIDE DEF sets
  <2>7. files[FileFor(t, N)] = WrittenAll(Joined(sets))
    <3>1. FileOf(g) = WrittenAll(Joined(sets))
      BY <2>2 DEF FileOf, WrittenAll
    <3>2. NameOf(g) = FileFor(t, N)
      BY <1>3, <2>1
    <3>3. files[NameOf(g)] = FileOf(g)
      BY <1>1
    <3> QED
      BY <3>1, <3>2, <3>3
  <2>8. ReadBack(WrittenAll(Joined(sets))) = [k \in DOMAIN sets |-> KeptAll(sets[k])]
    BY <2>4, <2>5, <2>6, FileReadBack
  <2>9. \A k \in DOMAIN own : KeptAll(own[k].segments) = own[k].segments
    BY <1>5, <2>4, KeptIfTimesFit DEF own, DisplaySets
  <2> QED
    BY <2>6, <2>7, <2>8, <2>9 DEF own
<1> QED
  BY <1>2, <1>4, <1>5

(* extract writes every display set of the tracks asked for, whole, to the  *)
(* file of its track and nothing else, and a SUP scanner finds them there.  *)
THEOREM ExtractLosesNothing == Spec => []ExtractIsLossless
BY ExtractInvInit, ExtractInvNext, ExtractInvLossless, PTL DEF Spec
=============================================================================
