----------------------------- MODULE MkvOpening -----------------------------
(***************************************************************************)
(* How a Matroska file is opened (prepare_mkv_metadata of src/src/mkv): a  *)
(* walk over the elements of the Segment up to the first Cluster, helped   *)
(* by the positions in its SeekHeads, and then the Tracks, Info, Cues and  *)
(* Tags elements where they were found.                                    *)
(*                                                                         *)
(* A position is the number of an element, or 0 where none begins.  An     *)
(* element has an id, known (its size is), good (what is in it can be      *)
(* read) and a body:                                                       *)
(*   SeekHead - << id, position >> pairs                                   *)
(*   Tracks   - entries: Options number and uid, whether it is a PGS       *)
(*              track, its languages in order, each << field, code >>, and *)
(*              the algorithms of its content encodings                    *)
(*   Info     - the Duration, an Option                                    *)
(*   Cues     - points of a time and positions, [trk, cluster]             *)
(*   Tags     - tags of some uids and an Option of a number of frames      *)
(***************************************************************************)
EXTENDS OpenedFile

VARIABLES walk,      (* the element the walk is at                         *)
          layout,    (* the Option of a position for each id noted         *)
          entries,   (* the PGS tracks                                     *)
          duration, cuePoints, frameCounts

TrackEntry == [number: SUBSET Nat, uid: SUBSET Nat, pgs: BOOLEAN,
               languages: Seq({"legacy", "bcp47"} \X STRING), encodings: Seq(STRING)]
CuePoint == [time: Nat, positions: Seq([trk: Nat, cluster: Nat])]
Tag == [uids: SUBSET Nat, frames: SUBSET Nat]
IsMatroska(f) ==
  /\ f.elements \in Seq(Members(f.elements))
  /\ \A e \in Members(f.elements) : e.known \/ e.id \in {"Cluster", "Other"}
  /\ \A e \in Members(f.elements) :
       CASE e.id = "SeekHead" -> e.body \in Seq(STRING \X Nat)
         [] e.id = "Tracks" -> e.body \in Seq(TrackEntry)
         [] e.id = "Cues" -> e.body \in Seq(CuePoint)
         [] e.id = "Tags" -> e.body \in Seq(Tag)
         [] OTHER -> TRUE

mkvVars == << walk, layout, entries, duration, cuePoints, frameCounts >>

Noted == {"Info", "Tracks", "Cues", "Tags", "Cluster"}
-----------------------------------------------------------------------------
MkvInit ==
  /\ walk = 1 /\ layout = [id \in Noted |-> {}]
  /\ entries = << >> /\ duration = {} /\ cuePoints = << >>
  /\ frameCounts = [uid \in {} |-> 0]

(* parse_ebml_header.                                                      *)
ParseHeader ==
  /\ phase = "ebml"
  /\ GoTo(IF file.doctype \in {"matroska", "webm"} THEN "segment" ELSE "err")
  /\ UNCHANGED mkvVars

(* Mutant of Note: the last position counts.                               *)
NoteLast(found, id, position) ==
  IF id \in Noted THEN [found EXCEPT ![id] = {position}] ELSE found

(* The first position of an element that is found or listed counts.        *)
Note(found, id, position) ==
  IF id \in Noted /\ found[id] = {} THEN [found EXCEPT ![id] = {position}]
  ELSE found

(* parse_seekhead: the pairs in order.                                     *)
NoteAll(found, pairs) ==
  LET upTo[k \in 0 .. Len(pairs)] ==
        IF k = 0 THEN found ELSE Note(upTo[k - 1], pairs[k][1], pairs[k][2])
  IN  upTo[Len(pairs)]

(* parse_segment: the elements up to the first Cluster.                    *)
WalkSeekHead ==
  /\ phase = "segment" /\ walk <= Len(file.elements)
  /\ LET e == file.elements[walk]
     IN  /\ e.id = "SeekHead"
         /\ IF e.good
            THEN layout' = NoteAll(layout, e.body) /\ walk' = walk + 1 /\ GoTo("segment")
            ELSE GoTo("err") /\ UNCHANGED << layout, walk >>
  /\ UNCHANGED << entries, duration, cuePoints, frameCounts >>

WalkElement ==
  /\ phase = "segment" /\ walk <= Len(file.elements)
  /\ LET e == file.elements[walk]
     IN  /\ e.id # "SeekHead"
         /\ layout' = Note(layout, e.id, walk)
         /\ IF e.id = "Cluster" \/ ~ e.known
            THEN GoTo("tracks") /\ UNCHANGED walk
            ELSE walk' = walk + 1 /\ GoTo("segment")
  /\ UNCHANGED << entries, duration, cuePoints, frameCounts >>

WalkEnds ==
  /\ phase = "segment" /\ walk > Len(file.elements)
  /\ GoTo("tracks") /\ UNCHANGED mkvVars

(* A header that cannot be read ends the walk, too, without an error.      *)
WalkBreaks ==
  /\ MayFail /\ phase = "segment"
  /\ phase' = "tracks" /\ failed' = TRUE
  /\ UNCHANGED << file, mkvVars >>
-----------------------------------------------------------------------------
(* The element of an id at the position noted for it, if it is there and   *)
(* can be read.                                                            *)
Element(id) ==
  {file.elements[k] : k \in {i \in layout[id] \cap DOMAIN file.elements :
                               file.elements[i].id = id /\ file.elements[i].good}}

(* parse_track_entry: the last of the language elements counts.            *)
Language(e) ==
  IF e.languages = << >> THEN {} ELSE {e.languages[Len(e.languages)][2]} \ {"und"}

(* parse_content_encodings: the first algorithm that is supported.         *)
Compression(e) ==
  LET known == SelectSeq(e.encodings, LAMBDA a : a \in {"zlib", "headers"})
  IN  IF known = << >> THEN {} ELSE {known[1]}

(* The PGS tracks in Tracks, if there are some and all have a number.      *)
PgsEntries ==
  {pgs \in {Only(t.body, {e \in Members(t.body) : e.pgs}) : t \in Element("Tracks")} :
     pgs # << >> /\ \A k \in DOMAIN pgs : pgs[k].number # {}}

ParseTracks ==
  /\ phase = "tracks"
  /\ \E pgs \in PgsEntries :
       entries' = [k \in DOMAIN pgs |->
                     [number |-> pgs[k].number, uid |-> pgs[k].uid,
                      language |-> Language(pgs[k]),
                      compression |-> Compression(pgs[k])]]
  /\ GoTo("info")
  /\ UNCHANGED << walk, layout, duration, cuePoints, frameCounts >>

ParseInfo ==
  /\ phase = "info"
  /\ \/ layout["Info"] = {} /\ UNCHANGED duration
     \/ \E info \in Element("Info") : duration' = info.body
  /\ GoTo("cues")
  /\ UNCHANGED << walk, layout, entries, cuePoints, frameCounts >>

Numbers == UNION {entries[k].number : k \in DOMAIN entries}

(* parse_cues_for_tracks: one cue for each position of a PGS track.        *)
Cues(points) ==
  LET upTo[k \in 0 .. Len(points)] ==
        IF k = 0 THEN << >>
        ELSE LET at == points[k].positions
                 own == Only(at, {p \in Members(at) : p.trk \in Numbers})
             IN  upTo[k - 1] \o [j \in DOMAIN own |->
                                   [time |-> points[k].time, trk |-> own[j].trk,
                                    cluster |-> own[j].cluster]]
  IN  upTo[Len(points)]

ParseCues ==
  /\ phase = "cues"
  /\ \/ layout["Cues"] = {} /\ UNCHANGED cuePoints
     \/ \E cues \in Element("Cues") : cuePoints' = Cues(cues.body)
  /\ GoTo("tags")
  /\ UNCHANGED << walk, layout, entries, duration, frameCounts >>

(* Tracks, Info or Cues that are not where they were noted, or cannot be   *)
(* read, no Tracks, and Tracks without a PGS track.                        *)
ElementFails ==
  /\ \/ phase = "tracks" /\ PgsEntries = {}
     \/ phase = "info" /\ layout["Info"] # {} /\ Element("Info") = {}
     \/ phase = "cues" /\ layout["Cues"] # {} /\ Element("Cues") = {}
  /\ GoTo("err") /\ UNCHANGED mkvVars

(* parse_tags_frame_counts: the last tag with a number counts.             *)
FrameCounts(tags) ==
  LET counted(uid) == {k \in DOMAIN tags : uid \in tags[k].uids /\ tags[k].frames # {}}
      uids == {uid \in UNION {entries[k].uid : k \in DOMAIN entries} : counted(uid) # {}}
      latest(uid) == CHOOSE k \in counted(uid) : \A j \in counted(uid) : j <= k
  IN  [uid \in uids |-> CHOOSE n \in tags[latest(uid)].frames : TRUE]

(* Mutant of ParseTags: Tags that cannot be read are an error.             *)
ParseTagsStrictly ==
  /\ phase = "tags"
  /\ \/ layout["Tags"] = {} /\ GoTo("open") /\ UNCHANGED frameCounts
     \/ \E tags \in Element("Tags") :
          frameCounts' = FrameCounts(tags.body) /\ GoTo("open")
     \/ layout["Tags"] # {} /\ Element("Tags") = {} /\ GoTo("err") /\ UNCHANGED frameCounts
  /\ UNCHANGED << walk, layout, entries, duration, cuePoints >>

(* An error in the Tags only loses the numbers of frames, and does not     *)
(* count as a failure.                                                     *)
ParseTags ==
  /\ phase = "tags"
  /\ \/ \E tags \in Element("Tags") : frameCounts' = FrameCounts(tags.body)
     \/ (Element("Tags") = {} \/ MayFail) /\ UNCHANGED frameCounts
  /\ GoTo("open")
  /\ UNCHANGED << walk, layout, entries, duration, cuePoints >>

MkvStep ==
  \/ ParseHeader \/ WalkSeekHead \/ WalkElement \/ WalkEnds
  \/ ParseTracks \/ ParseInfo \/ ParseCues \/ ElementFails \/ ParseTags
MkvFault ==
  \/ WalkBreaks
  \/ ReadError({"ebml", "segment", "tracks", "info", "cues"}) /\ UNCHANGED mkvVars
-----------------------------------------------------------------------------
(* mkv_track_to_info.                                                      *)
TrackInfo(e) ==
  [id |-> e.number, language |-> e.language,
   sets |-> UNION {{frameCounts[u]} : u \in e.uid \cap DOMAIN frameCounts},
   cued |-> \E k \in DOMAIN cuePoints : cuePoints[k].trk \in e.number]
=============================================================================
