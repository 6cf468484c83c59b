---------------------------- MODULE MCSupStream ----------------------------
(* Model-checking instance of SupStream and of its refinement.             *)
EXTENDS SupRefinement, SequencesExt

Cell(b) == [byte |-> b, type |-> "?", pts |-> 0, len |-> 0, comp |-> None,
            objs |-> {}]
Body(bytes) == [k \in DOMAIN bytes |-> Cell(bytes[k])]
Segment(type, pts, comp, objs, bytes) ==
  << Cell("P"), Cell("G"),
     [byte |-> "x", type |-> type, pts |-> pts, len |-> Len(bytes),
      comp |-> comp, objs |-> objs] >> \o Body(bytes)

Start(pts) == Segment("PCS", pts, "EpochStart", {1}, << "x" >>)
Clear(pts) == Segment("PCS", pts, "Normal", {0}, << "x" >>)
Short(pts) == Segment("PCS", pts, "EpochStart", {}, << "x" >>)
Stub(pts) == Segment("PCS", pts, None, {}, << >>)
Bitmap(pts, bytes) == Segment("ODS", pts, None, {}, bytes)
Close(pts) == Segment("END", pts, None, {}, << >>)

(* Three display sets from pts first on, the first of them with a bitmap.  *)
Subtitles(first, bytes) ==
  Start(first) \o Bitmap(first, bytes) \o Close(first)
    \o Clear(first + 90) \o Close(first + 90)
    \o Start(first + 270) \o Close(first + 270)

Bitmaps == {<< "x", "x" >>, << "P", "x" >>, << "x", "P" >>, << "G", "P", "P" >>,
            << "P", "G", "x" >>, << "x", "x", "x", "x", "x", "x", "x", "x", "x" >>}
Plain == Subtitles(0, << "x", "P", "x" >>)

(* The fifth byte of a file that begins at 18176 is a sync byte.           *)
Brief == Start(18176) \o Close(18176)

MCFiles ==
  {Subtitles(first, bytes) : first \in {0, 180, 18176}, bytes \in Bitmaps}
    \cup {SubSeq(Plain, 1, n) : n \in HEADER_SIZE .. Len(Plain)}    \* cut off
    \cup {Brief}
    \cup {FlattenSeq(f) : f \in
           {<< Close(0), Start(90), Close(90) >>,            \* begins late
            << Start(0), Start(90), Bitmap(90, << "x" >>), Close(90) >>,
            << Short(0), Close(0), Start(90), Close(90) >>,
            << Stub(0), Close(0), Clear(180), Close(180) >>,
            << Start(0), Close(0), Segment("?", 90, None, {}, << "x" >>) >>,
            << Start(0), Close(0), Body(<< "x", "x", "x", "x" >>), Close(90) >>,
            << Start(900), Close(900), Start(0), Close(0) >>}}  \* pts wraps

(* Four display sets of one size, one ms apart, the first of them at 2 ms, *)
(* and the file whose beginning is taken for that of transport packets.    *)
MCIncomplete == {Brief, Start(180) \o Close(180) \o Start(270) \o Close(270)
                 \o Start(360) \o Close(360) \o Start(450) \o Close(450)}

MCStarts == {{}, {0}, {1}, {2}, {3}, {20}}
=============================================================================
