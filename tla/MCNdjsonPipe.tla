---------------------------- MODULE MCNdjsonPipe ----------------------------
(* Model-checking instance of NdjsonPipe.                                  *)
EXTENDS NdjsonPipe

Pcs(state, objects) ==
  PcsToBytes([number |-> 1, state |-> state, palette_only |-> FALSE,
              video |-> << 7, 6 >>, palette_id |-> 1, objects |-> objects])
Placed(crop) == [object_id |-> 1, window_id |-> 2, x |-> 3, y |-> 4, crop |-> crop]

Segs(pts, parts) ==
  Append([k \in DOMAIN parts |->
            [type |-> parts[k][1], pts |-> pts, payload |-> parts[k][2]]],
         [type |-> "END", pts |-> pts, payload |-> << >>])

Clear(pts) == Segs(pts, << << "PCS", Pcs("Normal", << >>) >> >>)
Ods(id, sequence, size, data) ==
  << "ODS", << id, 0, sequence >> \o size \o data >>

(* One bitmap of w columns as a scanner may deliver it, in one segment.    *)
Whole(w, pixels) ==
  LET rle == CHOOSE r \in EncodeRle(pixels, w, Len(pixels) \div w) : TRUE
  IN  Segs(2, << << "PCS", Pcs("EpochStart", << Placed({}) >>) >>,
                 Ods(1, 3, << Len(rle) + 4, w, Len(pixels) \div w >>, rle) >>)

Runs2(c, n, d, m) == Repeat(c, n) \o Repeat(d, m)
RowBitmaps == {Runs2(c, n, d, m) : c \in {0, 1}, d \in {0, 2}, m \in {1, 2, 3},
                                   n \in {1, 4, 15, 16, 62, 63, 64, 126, 127}}

Checkered == [k \in 1 .. 30 |-> 1 + (k % 2)]

Rich ==
  Segs(1, << << "PCS", Pcs("EpochStart", << Placed({<< 1, 2, 3, 4 >>}), Placed({}) >>) >>,
             << "WDS", << 1, 0, 1, 2, 3, 4 >> >>, << "WDS", << 1, 1, 5, 6, 7, 7 >> >>,
             << "WDS", << 2, 0, 1 >> >>,
             << "PDS", << 1, 0, 0, 1, 2, 3, 1, 1, 2, 3, 1, 0 >> >>,
             << "PDS", << 1, 0, 0 >> >>,
             Ods(1, 2, << 14, 3, 2 >>, << 1, 2 >>), Ods(1, 0, << >>, << 2, 0, 0, 3 >>),
             Ods(2, 3, << 7, 2, 1 >>, << 1, 1, 0 >>), Ods(1, 1, << >>, << 0 >>) >>)

MCBitmapSources ==
  {<< [trk |-> 1, segments |-> Whole(Len(b), b)] >> : b \in RowBitmaps}
    \cup {<< [trk |-> 1, segments |-> Whole(w, b)] >> :
             w \in {2, 3}, b \in [1 .. 6 -> {0, 1}]}
    \cup {<< [trk |-> 1, segments |-> Whole(w, Checkered)] >> : w \in {15, 30}}

Item(t, segments) == [trk |-> t, segments |-> segments]
Unreadable == Segs(3, << << "PCS", SubSeq(Pcs("Normal", << >>), 1, 6) >> >>)
Headless == Segs(3, << << "PCS", Pcs("Normal", << >>) >>,
                       Ods(1, 1, << >>, << 1, 1 >>) >>)
Hopeless == Segs(3, << << "PCS", SubSeq(Pcs("Normal", << >>), 1, 6) >>,
                       Ods(1, 1, << >>, << 1, 1 >>) >>)
CutOff == Segs(3, << << "PCS", Pcs("Normal", << >>) >>,
                     Ods(1, 3, << 8, 2, 1 >>, << 0, 12 >>) >>)

(* A time that 32 bits do not hold, and windows that one count does not.   *)
Late == Clear(9)
Crowded ==
  Segs(2, << << "PCS", Pcs("Normal", << >>) >>,
             << "WDS", << 2, 0, 1, 2, 3, 4, 1, 1, 2, 3, 4 >> >>,
             << "WDS", << 2, 2, 1, 2, 3, 4, 3, 1, 2, 3, 4 >> >> >>)

(* A flag of an object besides that of its crop.                           *)
Forced ==
  Segs(2, << << "PCS", << 7, 6, FrameRate, 1, 0, 0, 1, 1, 1, 2, 1, 3, 4 >> >> >>)

MCMixedSources ==
  {<< >>,
   << Item(1, Rich), Item(2, Clear(6)), Item(1, Clear(5)), Item(2, Rich) >>,
   << Item(1, Clear(1)), Item(1, Unreadable), Item(2, Clear(3)) >>,
   << Item(2, Unreadable), Item(1, Rich) >>,
   << Item(1, Late), Item(2, Forced), Item(3, Crowded) >>,
   << Item(1, Hopeless), Item(2, Clear(3)) >>,
   << Item(1, Clear(1)), Item(2, Headless), Item(1, Clear(3)) >>,
   << Item(1, Clear(1)), Item(1, CutOff) >>}

Pipe == [pipe |-> TRUE, tracks |-> {}]
Extracts == {[pipe |-> FALSE, tracks |-> ts] : ts \in {{}, {1}, {2}, {1, 2}, {3}}}
Setup(s, c, r, e) == [source |-> s, command |-> c, raw |-> r, edits |-> e]

MCSetups ==
  {Setup(s, Pipe, FALSE, 0) : s \in MCBitmapSources}
    \cup {Setup(s, Pipe, r, 1) : s \in MCMixedSources, r \in BOOLEAN}
    \cup {Setup(s, c, FALSE, 0) : s \in MCMixedSources, c \in Extracts}

(* Bitmaps whose data exceeds one segment, and the others.                 *)
MCLossySetups ==
  {Setup(<< Item(1, s) >>, Pipe, FALSE, 0) :
     s \in {Whole(w, Checkered) : w \in {15, 30}} \cup {Late, Crowded, Forced}}

Scripted == [type |-> "display_set", trk |-> 1, index |-> 0, pts |-> 4,
             composition |-> PcsParse(Pcs("Normal", << >>)),
             windows |-> << >>, palettes |-> << >>, objects |-> << >>]
Entry == << 1, 2, 3, 0, 99 >>

(* Numbers that fit no field, and all a composition may have.              *)
Wild ==
  [Scripted EXCEPT
     !.composition =
       {[number |-> 999, state |-> "EpochStart", palette_only |-> TRUE,
         video |-> << 7, 999 >>, palette_id |-> 99,
         objects |-> << Placed({<< 1, 999, 3, 4 >>}),
                        [Placed({}) EXCEPT !.object_id = 999, !.window_id = 99] >>]},
     !.windows = << << 99, 999, 2, 3, 4 >>, << 1, 1, 1, 1, 1 >> >>,
     !.palettes = << [id |-> 99, version |-> 0, entries |-> << Entry >>] >>,
     !.objects = << [id |-> 999, version |-> 99, size |-> {<< 2, 1 >>},
                     bitmap |-> {<< 1, 0 >>}] >>]

(* A palette longer than the header of its segment can say.                *)
Overlong ==
  [Scripted EXCEPT !.palettes = << [id |-> 1, version |-> 0, entries |-> Repeat(Entry, 26)] >>]

MCEdits ==
  {[type |-> "blank"], [type |-> "garbled"], [type |-> "header"], Wild, Overlong,
   [Scripted EXCEPT !.composition = {}],
   [Scripted EXCEPT !.composition =
      {[c EXCEPT !.objects = Repeat(Placed({}), U8)] : c \in @}],
   [Scripted EXCEPT !.composition =
      {[f \in PcsFields \ {"state"} |-> c[f]] : c \in @}],
   [Scripted EXCEPT !.trk = 2,
      !.objects = << [id |-> 1, version |-> 0, size |-> {<< 2, 2 >>},
                      bitmap |-> {<< 1 >>}] >>]}
=============================================================================
