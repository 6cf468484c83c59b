----------------------------- MODULE NdjsonPipe -----------------------------
(***************************************************************************)
(* The commands of src/src/cli/main.rs that carry display sets: `stream`   *)
(* writes one NDJSON line for each display set of the Extractor into a     *)
(* pipe, a script may change the lines on their way, and `encode` reads    *)
(* them, builds display sets again and writes them to .sup files at the    *)
(* end.  `extract` collects the display sets and writes them as they are.  *)
(*                                                                         *)
(* A line is a record of its type and, for a display set, of the values in *)
(* it; what base64 and JSON do to these values is left out, and a line     *)
(* that is no JSON is of type "garbled".  An object of the composition     *)
(* that lacks a field lacks it in its DOMAIN, a null is {}.                *)
(***************************************************************************)
EXTENDS PgsPayload

CONSTANTS Setups,      (* records of source: what the Extractor yields,    *)
                       (* a sequence of trk and segments; of the command:  *)
                       (* whether it is the pipe, and the tracks of an     *)
                       (* extract command, {} for all; of raw, the option  *)
                       (* --raw-payloads; and of edits, how many lines the *)
                       (* script changes at most                           *)
          PipeLines,   (* lines the pipe holds                             *)
          Edits,       (* lines a script may write instead of a line       *)
          MayFail      (* whether reading the source and writing fail      *)

ASSUME PipeAssumption == PipeLines \in Nat \ {0} /\ MayFail \in BOOLEAN

Items == [trk : Nat, segments : Seq([type : SegmentType, pts : Nat, payload : Seq(Nat)])]

(* What the assembler returns, and so what the Extractor yields, begins    *)
(* with a PCS and ends with the END behind it.  The lengths of its         *)
(* payloads were read from 16 bits.                                        *)
Seen(s) == [type |-> s.type, pts |-> s.pts, payload |-> s.payload,
            comp |-> CompositionStateOf(s)]
SeenAll(segments) == [k \in DOMAIN segments |-> Seen(segments[k])]
IsDisplaySet(segments) == IsRun(SeenAll(segments), 1, Len(segments))

ASSUME SetupsAssumption ==
  \A s \in Setups :
    /\ s.source \in Seq(Items)
    /\ \A k \in DOMAIN s.source : /\ IsDisplaySet(s.source[k].segments)
                                  /\ LengthsFit(s.source[k].segments)
    /\ s.command.pipe \in BOOLEAN /\ IsFiniteSet(s.command.tracks)

VARIABLES source, command, raw,   (* fixed at the start                    *)
          next,        (* the next display set of the source               *)
          indices,     (* track_indices                                    *)
          streamer,    (* "start", "run", and the exit "ok" or "err"       *)
          pipe,
          encoder,     (* "read", "write", and the exit "ok" or "err"      *)
          groups,      (* the display sets by track, in order of arrival   *)
          files,       (* the files written, by name                       *)
          edits,       (* lines the script may still change                *)
          edited,      (* history: whether it has changed one              *)
          sent         (* history: the lines written by stream             *)

config == << source, command, raw >>
script == << edits, edited >>
stream == << next, indices, streamer, sent >>
vars == << config, stream, pipe, encoder, groups, files, script >>
-----------------------------------------------------------------------------
(* stream: the parts of a line.                                            *)
OfType(segments, type) ==
  Only(segments, {s \in Members(segments) : s.type = type})

(* write_composition: the first PCS; null if it cannot be parsed, or only  *)
(* its payload with --raw-payloads.                                        *)
Composition(segments, withRaw) ==
  LET read(pcs) == IF PcsParse(pcs) # {} THEN PcsParse(pcs)
                   ELSE IF withRaw THEN {[payload |-> pcs]} ELSE {}
  IN  UNION {read(pcs) : pcs \in {OfType(segments, "PCS")[1].payload}}

(* write_windows, write_palettes and the parsed ODS: payloads that cannot  *)
(* be parsed are left out.                                                 *)
Windows(segments) ==
  LET wds == OfType(segments, "WDS")
  IN  Joined(Present([k \in DOMAIN wds |-> WdsParse(wds[k].payload)]))

Palettes(segments) ==
  LET pds == OfType(segments, "PDS")
  IN  Present([k \in DOMAIN pds |-> PdsParse(pds[k].payload)])

ParsedOds(segments) ==
  LET ods == OfType(segments, "ODS")
  IN  Present([k \in DOMAIN ods |-> OdsParse(ods[k].payload)])

(* write_objects: the ODS of one id are one object, whose bitmap is null   *)
(* unless the first of them has dimensions and the data can be decoded.    *)
ObjectsOf(ods) ==
  LET leads == {k \in DOMAIN ods : \A j \in 1 .. k - 1 : ods[j].id # ods[k].id}
      object(k) ==
        LET own == Only(ods, {o \in Members(ods) : o.id = ods[k].id})
            data == Joined([j \in DOMAIN own |-> own[j].rle])
        IN  [id |-> ods[k].id, version |-> ods[k].version, size |-> ods[k].size,
             bitmap |-> UNION {DecodeRle(rle, s[1], s[2]) :
                               s \in ods[k].size, rle \in {data}}]
      places == Only([k \in DOMAIN ods |-> k], leads)
  IN  [j \in DOMAIN places |-> object(places[j])]
Objects(segments) == CHOOSE os \in {ObjectsOf(ods) : ods \in {ParsedOds(segments)}} : TRUE

Line(trk, index, segments) ==
  [type |-> "display_set", trk |-> trk, index |-> index, pts |-> segments[1].pts,
   composition |-> Composition(segments, raw), windows |-> Windows(segments),
   palettes |-> Palettes(segments), objects |-> Objects(segments)]
-----------------------------------------------------------------------------
(* encode: the numbers of a line saturate at the width of their field.     *)
Fit(n, width) == IF n < width THEN n ELSE width - 1

(* parse_pcs_json, as an Option.  Objects need not be given.               *)
PcsFields == {"number", "state", "palette_only", "video", "palette_id"}

PcsFromJson(c) ==
  IF ~ PcsFields \subseteq DOMAIN c THEN {}
  ELSE LET given == IF "objects" \in DOMAIN c THEN c.objects ELSE << >>
           fitted(o) ==
             [o EXCEPT !.object_id = Fit(@, U16), !.window_id = Fit(@, U8),
                       !.x = Fit(@, U16), !.y = Fit(@, U16),
                       !.crop = {[j \in 1 .. 4 |-> Fit(f[j], U16)] : f \in @}]
       IN  {[number |-> Fit(c.number, U16), state |-> c.state,
             palette_only |-> c.palette_only, palette_id |-> Fit(c.palette_id, U8),
             video |-> << Fit(c.video[1], U16), Fit(c.video[2], U16) >>,
             objects |-> [k \in DOMAIN given |-> fitted(given[k])]]}

WdsFromJson(windows) ==
  IF windows = << >> THEN {}
  ELSE {[k \in DOMAIN windows |->
           [j \in 1 .. 5 |-> Fit(windows[k][j], IF j = 1 THEN U8 ELSE U16)]]}

PdsFromJson(palettes) ==
  [k \in DOMAIN palettes |->
     [id |-> Fit(palettes[k].id, U8), version |-> Fit(palettes[k].version, U8),
      entries |-> [m \in DOMAIN palettes[k].entries |->
                     [j \in 1 .. 5 |-> Fit(palettes[k].entries[m][j], U8)]]]]

(* parse_object_json, as an Option: a bitmap of the right size is needed.  *)
ObjectFromJson(o) ==
  {[id |-> Fit(o.id, U16), version |-> Fit(o.version, U8), width |-> p[1][1],
    height |-> p[1][2], pixels |-> p[2]] :
     p \in {q \in o.size \X o.bitmap : Len(q[2]) = q[1][1] * q[1][2]}}

(* The display set of a line with a composition, as an Option.             *)
DisplaySetFromJson(line) ==
  LET decoded == [k \in DOMAIN line.objects |-> ObjectFromJson(line.objects[k])]
      objects == {[k \in DOMAIN d |-> CHOOSE o \in d[k] : TRUE] :
                    d \in {e \in {decoded} : \A k \in DOMAIN e : e[k] # {}}}
  IN  UNION {Build(line.pts, pcs, WdsFromJson(line.windows),
                   PdsFromJson(line.palettes), os) :
               pcs \in UNION {PcsFromJson(c) : c \in line.composition},
               os \in objects}

(* The display sets of a track stay together.                              *)
AddTo(trk, segments) ==
  IF \E g \in DOMAIN groups : groups[g].trk = trk
  THEN LET g == CHOOSE g \in DOMAIN groups : groups[g].trk = trk
       IN  [groups EXCEPT ![g].sets = Append(@, segments)]
  ELSE Append(groups, [trk |-> trk, sets |-> << segments >>])
-----------------------------------------------------------------------------
Init == /\ \E s \in Setups : /\ source = s.source /\ command = s.command
                              /\ raw = s.raw /\ edits = s.edits
        /\ next = 1 /\ indices = << >> /\ streamer = "start" /\ sent = << >>
        /\ pipe = << >> /\ encoder = "read" /\ groups = << >> /\ files = << >>
        /\ edited = FALSE

Piping == command.pipe
Listening == encoder = "read"            (* the pipe has a reader           *)

Write(line) == /\ Listening /\ Len(pipe) < PipeLines
               /\ pipe' = Append(pipe, line) /\ sent' = Append(sent, line)

(* The track discovery line; a header may come before it and is skipped in *)
(* the same way.                                                           *)
StreamTracks ==
  /\ Piping /\ streamer = "start"
  /\ Write([type |-> "tracks"])
  /\ streamer' = "run"
  /\ UNCHANGED << config, next, indices, encoder, groups, files, script >>

IndexOf(trk) == IF trk \in DOMAIN indices THEN indices[trk] ELSE 0

CountIndex(trk) ==
  [t \in DOMAIN indices \cup {trk} |->
     IF t = trk THEN IndexOf(trk) + 1 ELSE indices[t]]

StreamDisplaySet ==
  /\ Piping /\ streamer = "run" /\ next <= Len(source)
  /\ LET item == source[next]
     IN  /\ Write(Line(item.trk, IndexOf(item.trk), item.segments))
         /\ indices' = CountIndex(item.trk)
  /\ next' = next + 1
  /\ UNCHANGED << config, streamer, encoder, groups, files, script >>

StreamExits(how) ==
  /\ streamer' = how
  /\ UNCHANGED << config, next, indices, sent, pipe, encoder, groups, files, script >>

StreamEnds == /\ Piping /\ streamer = "run" /\ next > Len(source)
              /\ StreamExits("ok")

(* The Extractor returns an error; the lines before it are written.        *)
StreamFails == /\ MayFail /\ Piping /\ streamer \in {"start", "run"}
               /\ StreamExits("err")

(* Mutant of BrokenPipe: it is only noticed where the source is at its end.*)
BrokenPipeAtEnd == /\ Piping /\ streamer = "run" /\ next > Len(source)
                   /\ ~ Listening
                   /\ StreamExits("ok")

(* A write with no reader left is no error.                                *)
BrokenPipe == /\ Piping /\ streamer \in {"start", "run"} /\ ~ Listening
              /\ StreamExits("ok")

(* The script between the two commands drops a line or writes another.     *)
Script ==
  /\ edits > 0 /\ edits' = edits - 1 /\ edited' = TRUE
  /\ pipe # << >>
  /\ \/ pipe' = Front(pipe)
     \/ \E line \in Edits : pipe' = Append(Front(pipe), line)
  /\ UNCHANGED << config, stream, encoder, groups, files >>
-----------------------------------------------------------------------------
(* Mutant of PassedOver: a null composition is an error.                   *)
PassedOverByType(line) == line.type \in {"blank", "tracks", "header"}

(* One line read by cmd_encode: passed over, rejected or collected.        *)
PassedOver(line) ==
  \/ line.type \in {"blank", "tracks", "header"}
  \/ line.type = "display_set" /\ line.composition = {}

Read == /\ Piping /\ Listening /\ pipe # << >>
        /\ pipe' = Tail(pipe)
        /\ UNCHANGED << config, stream, files, script >>

PassOver == /\ Read /\ PassedOver(Head(pipe))
            /\ UNCHANGED << encoder, groups >>

Collect ==
  /\ Read /\ ~ PassedOver(Head(pipe)) /\ Head(pipe).type = "display_set"
  /\ \E segments \in DisplaySetFromJson(Head(pipe)) :
       groups' = AddTo(Head(pipe).trk, segments)
  /\ UNCHANGED encoder

(* Mutant of Reject: what was accepted before is written.                  *)
RejectButWrite ==
  /\ Read /\ ~ PassedOver(Head(pipe))
  /\ Head(pipe).type = "display_set" => DisplaySetFromJson(Head(pipe)) = {}
  /\ encoder' = IF groups = << >> THEN "err" ELSE "write"
  /\ UNCHANGED groups

Reject ==
  /\ Read /\ ~ PassedOver(Head(pipe))
  /\ Head(pipe).type = "display_set" => DisplaySetFromJson(Head(pipe)) = {}
  /\ encoder' = "err"
  /\ UNCHANGED groups

EndOfInput == /\ Piping /\ Listening
              /\ pipe = << >> /\ streamer \in {"ok", "err"}
              /\ encoder' = IF groups = << >> THEN "ok" ELSE "write"
              /\ UNCHANGED << config, stream, pipe, groups, files, script >>

OfTrack(items, t) == Only(items, {i \in Members(items) : i.trk = t})

Wanted(trk) == command.tracks = {} \/ trk \in command.tracks

(* cmd_extract: the tracks in the order in which their files are written,  *)
(* that of their first display sets.  With one track asked for there is    *)
(* one file, even if it has nothing to hold; that a command names a track  *)
(* twice is left out.                                                      *)
Collected == Only(source, {i \in Members(source) : Wanted(i.trk)})

Firsts(items) ==
  Only([k \in DOMAIN items |-> k],
       {k \in DOMAIN items : \A j \in 1 .. k - 1 : items[j].trk # items[k].trk})

TrackList(items) ==
  IF Cardinality(command.tracks) = 1
  THEN << CHOOSE t \in command.tracks : TRUE >>
  ELSE LET firsts == Firsts(items)
       IN  [j \in DOMAIN firsts |-> items[firsts[j]].trk]

GroupOf(items, t) ==
  LET own == OfTrack(items, t)
  IN  [trk |-> t, sets |-> [k \in DOMAIN own |-> own[k].segments]]

(* Everything is collected before anything is written.                     *)
Extract ==
  /\ ~ Piping /\ encoder = "read"
  /\ LET order == TrackList(Collected)
     IN  /\ groups' = [g \in DOMAIN order |-> GroupOf(Collected, order[g])]
         /\ encoder' = IF order = << >> THEN "ok" ELSE "write"
  /\ UNCHANGED << config, stream, pipe, files, script >>

ExtractFails == /\ MayFail /\ ~ Piping /\ encoder = "read"
                /\ encoder' = "err"
                /\ UNCHANGED << config, stream, pipe, groups, files, script >>

(* Mutant of NameOf: files are numbered in their order.                    *)
NameOfPlace(g) == IF Len(groups) = 1 THEN << >> ELSE << g >>

(* One group goes to the output path, << >>, several to                    *)
(* <stem>_track<id>.<ext>, << id >>.                                       *)
NameOf(g) == IF Len(groups) = 1 THEN << >> ELSE << groups[g].trk >>

FileOf(g) ==
  LET segments == Joined(groups[g].sets)
  IN  [k \in DOMAIN segments |-> Written(segments[k])]

WithFile(name, content) ==
  [x \in DOMAIN files \cup {name} |-> IF x = name THEN content ELSE files[x]]

(* write_sup_file for the next group.                                      *)
WriteFile ==
  /\ encoder = "write"
  /\ LET g == Cardinality(DOMAIN files) + 1
     IN  /\ files' = WithFile(NameOf(g), FileOf(g))
         /\ encoder' = IF g = Len(groups) THEN "ok" ELSE "write"
  /\ UNCHANGED << config, stream, pipe, groups, script >>

(* It fails behind some of the segments; the files before it stay.         *)
WriteFails ==
  /\ MayFail /\ encoder = "write"
  /\ LET g == Cardinality(DOMAIN files) + 1
     IN  \/ UNCHANGED files
         \/ \E n \in 0 .. Len(FileOf(g)) :
              files' = WithFile(NameOf(g), SubSeq(FileOf(g), 1, n))
  /\ encoder' = "err"
  /\ UNCHANGED << config, stream, pipe, groups, script >>

Streaming == StreamTracks \/ StreamDisplaySet \/ StreamEnds \/ BrokenPipe
Encoding == PassOver \/ Collect \/ Reject \/ EndOfInput \/ Extract \/ WriteFile

Next == \/ StreamFails \/ ExtractFails \/ WriteFails \/ Script
        \/ Streaming \/ Encoding

Spec == Init /\ [][Next]_vars

(* Both processes run; that anything fails is not relied on.               *)
FairSpec == Spec /\ WF_vars(Streaming) /\ WF_vars(Encoding)
-----------------------------------------------------------------------------
(* What a display set shows.                                               *)
View(segments) ==
  [pts |-> segments[1].pts, composition |-> Composition(segments, FALSE),
   windows |-> Windows(segments), palettes |-> Palettes(segments),
   objects |-> Objects(segments)]

(* The display sets a SUP scanner finds in a file.                         *)
ReadBack(file) ==
  LET found == AsmFeed(AsmNew, SeenAll(SegmentsIn(file))).sets
      plain(s) == [type |-> s.type, pts |-> s.pts, payload |-> s.payload]
  IN  [k \in DOMAIN found |->
         [j \in DOMAIN found[k].segments |-> plain(found[k].segments[j])]]

(* What a file is called that holds one of n tracks.                       *)
FileFor(t, n) == IF n = 1 THEN << >> ELSE << t >>
TracksOf(items) == {items[k].trk : k \in DOMAIN items}

Encodable(line) ==
  line.type = "display_set" /\ line.composition # {} =>
    /\ \A k \in DOMAIN line.objects : line.objects[k].bitmap # {}
    /\ \E c \in line.composition : "number" \in DOMAIN c
-----------------------------------------------------------------------------
(* What of the source encode has to bring to its files, and which file is  *)
(* that of a track.                                                        *)
RoundTripped == Piping /\ encoder = "ok" /\ ~ edited

Shown ==
  LET upTo == IF streamer = "ok" THEN Len(source) ELSE next - 1
  IN  Only(SubSeq(source, 1, upTo),
           {i \in Members(source) : Composition(i.segments, FALSE) # {}})

FileOfTrack(t) == FileFor(t, Cardinality(TracksOf(Shown)))

ComesBack(t) ==
  LET own == OfTrack(Shown, t)
      found == ReadBack(files[FileOfTrack(t)])
  IN  [k \in DOMAIN found |-> View(found[k])] = [k \in DOMAIN own |-> View(own[k].segments)]

(* The time fits the header, and the windows of a line, which encode       *)
(* writes into one WDS, fit its count and its length.                      *)
FitsFile(view) == /\ view.pts < U32
                  /\ Len(view.windows) < U8 /\ 1 + 5 * Len(view.windows) < U16

(* `stream | encode` keeps what is shown (README.md:187): each track's     *)
(* display sets are in its file in order, with the same time, composition, *)
(* windows, palettes and bitmaps, however the tracks interleave and the    *)
(* bitmaps are coded and fragmented.  Only those without a readable        *)
(* composition are missing, and those behind an error of stream, which     *)
(* encode takes for the end.  It is said of tracks whose times and numbers *)
(* of windows fit a file; what else is lost, IdentityRoundTrip says.       *)
RoundTrip ==
  RoundTripped =>
    /\ DOMAIN files = {FileOfTrack(t) : t \in TracksOf(Shown)}
    /\ \A t \in TracksOf(Shown) :
         (\A k \in DOMAIN OfTrack(Shown, t) : FitsFile(View(OfTrack(Shown, t)[k].segments)))
           => ComesBack(t)

(* What a line says, its numbers brought to the widths of their fields.    *)
Said(line) ==
  LET object(o) == [id |-> o.id, version |-> o.version,
                    size |-> {<< o.width, o.height >>}, bitmap |-> {o.pixels}]
  IN  [pts |-> line.pts,
       composition |-> UNION {PcsFromJson(c) : c \in line.composition},
       windows |-> IF line.windows = << >> THEN << >>
                   ELSE CHOOSE w \in WdsFromJson(line.windows) : TRUE,
       palettes |-> PdsFromJson(line.palettes),
       objects |-> [k \in DOMAIN line.objects |->
                      object(CHOOSE o \in ObjectFromJson(line.objects[k]) : TRUE)]]

(* A file can hold what a line says: the composition has a place for each  *)
(* of its objects, no object is defined twice, and no payload is longer    *)
(* than its header can say.                                                *)
LineFitsFile(said, segments) ==
  /\ FitsFile(said) /\ LengthsFit(segments)
  /\ \A c \in said.composition : Len(c.objects) < U8
  /\ \A j, k \in DOMAIN said.objects : said.objects[j].id = said.objects[k].id => j = k

(* Whatever a script writes into a line that encode accepts, numbers that  *)
(* fit no field among it, comes back from a file as one display set that   *)
(* shows what the line said, and what was collected before is as it was.   *)
EncodesWhatIsSaid ==
  [][Piping /\ groups' # groups =>
       /\ \A g \in DOMAIN groups : IsPrefix(groups[g].sets, groups'[g].sets)
       /\ \E g \in DOMAIN groups' :
            LET line == Head(pipe)
                built == Last(groups'[g].sets)
                found == ReadBack([k \in DOMAIN built |-> Written(built[k])])
            IN  /\ groups'[g].trk = line.trk
                /\ LineFitsFile(Said(line), built) =>
                     Len(found) = 1 /\ View(found[1]) = Said(line)]_vars

(* Input with a line that cannot be encoded leaves no file at all, however *)
(* many lines before it were good and others still wait in the pipe.       *)
LeavesNoFile ==
  Piping /\ ~ edited /\ (\E k \in DOMAIN sent : ~ Encodable(sent[k])) =>
    DOMAIN files = {} /\ encoder # "ok"

(* encode accepts all that stream writes (README.md:181) unless it holds,  *)
(* where the composition is not null, an object whose bitmap is null or,   *)
(* with --raw-payloads, a composition that could not be parsed: otherwise  *)
(* only writing the files can fail, with all input read.                   *)
AcceptsWhatStreamWrites ==
  Piping /\ ~ edited /\ (\A k \in DOMAIN sent : Encodable(sent[k])) =>
    (encoder = "err" => pipe = << >> /\ streamer \in {"ok", "err"})

(* extract writes the display sets of the tracks asked for, every segment  *)
(* of them and nothing else, to one file or to one for each track, and     *)
(* reading a file back finds them as they were, if their times fit the 32  *)
(* bits of a header.                                                       *)
ExtractIsLossless ==
  ~ Piping /\ encoder = "ok" =>
    LET own(t) == OfTrack(Collected, t)
        tracks == IF Cardinality(command.tracks) = 1 THEN command.tracks
                  ELSE TracksOf(Collected)
    IN  /\ DOMAIN files = {FileFor(t, Cardinality(tracks)) : t \in tracks}
        /\ \A t \in tracks :
             (\A k \in DOMAIN own(t) : TimesFit(own(t)[k].segments)) =>
               ReadBack(files[FileFor(t, Cardinality(tracks))]) =
                 [k \in DOMAIN own(t) |-> own(t)[k].segments]

(* The data length of an object is that of all its fragments and its       *)
(* dimensions (payload.rs:345).                                            *)
DataLengthIsTotal(segments) ==
  LET ods == ParsedOds(segments)
  IN  \A k \in DOMAIN ods :
        IsFirst(ods[k].sequence) =>
          LET own == Only(ods, {o \in Members(ods) : o.id = ods[k].id})
          IN  ods[k].data_length =
                4 + Len(Joined([j \in DOMAIN own |-> own[j].rle]))

(* `stream | encode` is an "identity round-trip" (README.md:187): what is  *)
(* shown comes back of every track, its compositions to the byte, and the  *)
(* objects have the data length of their format.                           *)
IdentityRoundTrip ==
  RoundTripped =>
    \A t \in TracksOf(Shown) :
      LET own == OfTrack(Shown, t)
          found == ReadBack(files[FileOfTrack(t)])
      IN  /\ ComesBack(t)
          /\ \A k \in DOMAIN found :
               /\ found[k][1].payload = own[k].segments[1].payload
               /\ DataLengthIsTotal(found[k])

(* Neither command waits for ever: not stream on a pipe that nobody reads, *)
(* nor encode for lines that never come.                                   *)
Terminates == <>(/\ encoder \in {"ok", "err"}
                 /\ Piping => streamer \in {"ok", "err"})
=============================================================================
