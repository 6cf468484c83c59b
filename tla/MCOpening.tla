------------------------------ MODULE MCOpening ------------------------------
(* Model-checking instance of Opening.                                     *)
EXTENDS Opening

(* Transport streams of 12 packets of 2 units: a PAT, a PMT or two, and    *)
(* the packets of a video and of a PGS stream.                             *)
Packets(at, pid, section, good, names, pts) ==
  [at |-> at, pid |-> pid, section |-> section, good |-> good, names |-> names,
   pts |-> pts]
Pat(at, names) == Packets(at, 0, TRUE, TRUE, names, {})
Pmt(at, pid, good, names) == Packets(at, pid, TRUE, good, names, {})
Pes(at, pid, pts) == Packets(at, pid, FALSE, TRUE, << >>, pts)
PgsStream(pid, language) == [pid |-> pid, pgs |-> TRUE, language |-> language]
Video == [pid |-> 9, pgs |-> FALSE, language |-> {}]

TableSets ==
  { {Pat(0, << 1 >>), Pmt(2, 1, TRUE, << Video, PgsStream(5, {}), PgsStream(6, {"eng"}) >>)},
    {Pat(0, << 1, 2 >>), Pmt(2, 2, TRUE, << Video >>), Pmt(4, 1, TRUE, << PgsStream(5, {"fra"}) >>)},
    {Pat(0, << 1, 2 >>), Pmt(2, 2, TRUE, << Video, PgsStream(5, {}) >>),
       Pmt(4, 1, TRUE, << PgsStream(6, {}), Video, PgsStream(7, {"eng"}) >>)},
    {Pat(0, << 1, 2 >>), Pmt(2, 2, TRUE, << Video >>)},
    {Pat(0, << 1 >>), Pmt(2, 1, FALSE, << PgsStream(5, {}) >>)},
    {Pat(0, << 1 >>), Pmt(2, 1, TRUE, << Video >>)},
    {Pat(2, << 1 >>), Pmt(4, 1, TRUE, << PgsStream(5, {}) >>)} }

(* The PTS values of the packets: at a constant rate, with most of the     *)
(* bytes at the end, with most at the beginning, in pairs that change      *)
(* places, and running backwards.                                          *)
Rates == { [k \in 0 .. 11 |-> k], [k \in 0 .. 11 |-> (k * k) \div 8],
           [k \in 0 .. 11 |-> 11 - ((11 - k) * (11 - k)) \div 12],
           [k \in 0 .. 11 |-> IF k % 2 = 0 THEN k + 1 ELSE k - 1],
           [k \in 0 .. 11 |-> 11 - k] }
Carriers == { 3 .. 11, {3, 5, 8}, {4, 11}, {10}, {} }
TsFile(tables, rate, carriers, gap, clpi) ==
  [kind |-> "ts", magic |-> {"sync"}, size |-> 24 + gap, clpi |-> clpi,
   packets |-> tables \cup
     {Pes(IF k > 6 THEN 2 * k + gap ELSE 2 * k, IF k % 3 = 2 THEN 5 ELSE 9,
          IF k \in carriers THEN {rate[k]} ELSE {}) :
        k \in {i \in 0 .. 11 : \A t \in tables : t.at # 2 * i}}]
MCClpi == { {}, {[languages |-> [p \in {5, 6} |-> "deu"], times |-> {<< 1, 9 >>}]},
            {[languages |-> [p \in {} |-> "deu"], times |-> {}]} }
FirstTables == CHOOSE t \in TableSets : \E p \in t : p.pid = 1 /\ Len(p.names) = 3
TsFiles ==
  {TsFile(FirstTables, rate, carriers, gap, clpi) :
     rate \in Rates, carriers \in Carriers, gap \in {0, 1, 3}, clpi \in MCClpi}
  \cup {TsFile(tables, [k \in 0 .. 11 |-> k], 3 .. 11, 0, clpi) :
          tables \in TableSets, clpi \in MCClpi}
MCStarts == {{}} \cup {{s} : s \in 0 .. 12}

(* Matroska files: the elements of the Segment in every order, with and    *)
(* without a SeekHead, and one of them damaged.                            *)
MkvElement(id, body) == [id |-> id, known |-> TRUE, good |-> TRUE, body |-> body]
Entry(number, uid, pgs, languages, encodings) ==
  [number |-> number, uid |-> uid, pgs |-> pgs, languages |-> languages,
   encodings |-> encodings]
Body(id) ==
  CASE id = "Info" -> {100}
    [] id = "Tracks" -> << Entry({9}, {}, FALSE, << >>, << >>),
                           Entry({1}, {11}, TRUE, << << "legacy", "eng" >>, << "bcp47", "en-US" >> >>,
                                 << "lzo", "zlib" >>),
                           Entry({2}, {12}, TRUE, << << "legacy", "und" >> >>, << >>),
                           Entry({3}, {13}, TRUE,
                                 << << "bcp47", "de-AT" >>, << "legacy", "ger" >> >>, << >>) >>
    [] id = "Cues" -> << [time |-> 5, positions |-> << [trk |-> 9, cluster |-> 1],
                                                      [trk |-> 1, cluster |-> 1] >>] >>
    [] id = "Tags" -> << [uids |-> {11}, frames |-> {40}], [uids |-> {12}, frames |-> {}],
                         [uids |-> {13}, frames |-> {30}] >>
    [] OTHER -> << >>
Ids == << "Info", "Tracks", "Cues", "Tags", "Cluster" >>
Orders == {o \in [1 .. 5 -> 1 .. 5] : \A j, k \in 1 .. 5 : o[j] = o[k] => j = k}
Ordering(o, more) ==
  [k \in 1 .. 7 |-> CASE k < 6 -> Ids[o[k]] [] k = 6 -> more [] OTHER -> "Cluster"]
InOrder == [k \in 1 .. 5 |-> k]

(* What the SeekHead lists: nothing, everything, or the Cues and Tags but  *)
(* one position too far.                                                   *)
Listing(ids, n) ==
  CASE n = 1 -> << >>
    [] n = 2 -> [k \in 1 .. 7 |-> << ids[k], k + 1 >>]
    [] OTHER -> SelectSeq([k \in 1 .. 7 |-> << ids[k], k + 2 >>],
                          LAMBDA p : p[1] \in {"Cues", "Tags"})
MkvFile(ids, n, bad) ==
  [kind |-> "mkv", magic |-> {"ebml"}, doctype |-> "matroska",
   elements |-> << [MkvElement("SeekHead", Listing(ids, n)) EXCEPT !.good = bad # "SeekHead"] >>
                  \o [k \in 1 .. 7 |-> [MkvElement(ids[k], Body(ids[k]))
                                          EXCEPT !.good = ids[k] # bad]]]
MCMkvFiles ==
  {MkvFile(Ordering(o, more), n, "none") :
     o \in Orders, more \in {"Other", "Tags"}, n \in 1 .. 3}
  \cup {MkvFile(Ordering(InOrder, "Other"), n, bad) : n \in 1 .. 3,
          bad \in {"SeekHead", "Info", "Tracks", "Cues", "Tags"}}
  \cup {[MkvFile(Ordering(InOrder, "Other"), 1, "none") EXCEPT !.doctype = "other"],
        [MkvFile(Ordering(InOrder, "Other"), 1, "none") EXCEPT !.elements =
           << [MkvElement("Other", << >>) EXCEPT !.known = FALSE] >> \o @],
        [MkvFile(Ordering(InOrder, "Other"), 1, "none") EXCEPT !.elements = SubSeq(@, 1, 5)]}

SupFiles == {[kind |-> "sup", size |-> n, magic |-> m] :
               n \in {3, 24}, m \in {{"pg"}, {"pg", "sync"}, {"sync"}, {}}}

MCOpenedFiles == TsFiles \cup MCMkvFiles \cup SupFiles
==============================================================================
