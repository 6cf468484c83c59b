------------------------------- MODULE Opening -------------------------------
(***************************************************************************)
(* Extractor::open (src/src/lib.rs): the format is recognised by the first *)
(* bytes, the metadata of the format is read, and the Extractor is ready   *)
(* once its time range is set.                                             *)
(*                                                                         *)
(* A file has a kind ("ts", "mkv" or "sup"), a size and magic, the         *)
(* beginnings its first bytes agree with: "ebml", "sync" or "pg".          *)
(***************************************************************************)
EXTENDS M2tsOpening, MkvOpening

CONSTANTS OpenedFiles,
          SyncCount   (* SYNC_CHECK_COUNT                                  *)

ASSUME OpenedFilesAssumption ==
  \A f \in OpenedFiles : /\ f.kind = "ts" => IsTransportStream(f)
                         /\ f.kind = "mkv" => "ebml" \in f.magic /\ IsMatroska(f)
                         /\ f.kind = "sup" => f.size \in Nat

vars == << shared, m2tsVars, mkvVars >>

Init ==
  /\ file \in OpenedFiles /\ phase = "detect" /\ failed = FALSE
  /\ M2tsInit /\ MkvInit

(* detect_packet_format: enough packets at the beginning in sync, and one  *)
(* more to be read.                                                        *)
InPackets ==
  /\ "sync" \in file.magic /\ file.kind = "ts"
  /\ file.size >= (SyncCount + 1) * PacketSize
  /\ \A k \in 0 .. SyncCount - 1 : Packet(k * PacketSize) # {}

(* What the bytes it reads say to detect_format.                           *)
Detected == CASE "ebml" \in file.magic -> "ebml"
              [] "ebml" \notin file.magic /\ InPackets -> "pat"
              [] "ebml" \notin file.magic /\ ~ InPackets /\ "pg" \in file.magic -> "open"
              [] OTHER -> "err"

(* detect_format.  A subtitle file whose fifth byte is a sync byte is not  *)
(* taken for a transport stream, but the reader, from which its scanner    *)
(* starts, stays behind the packets looked for, or at the end of a shorter *)
(* file; the scanners of the other formats seek to where they start.       *)
SoughtInPackets == file.kind = "sup" /\ "sync" \in file.magic
SoughtTo == AtMost((SyncCount + 1) * PacketSize, file.size)

Detect ==
  /\ phase = "detect"
  /\ GoTo(Detected)
  /\ pos' = IF SoughtInPackets THEN SoughtTo ELSE pos
  /\ UNCHANGED << programs, tracks, times, search, mkvVars >>

(* An error while the packets are read is dropped.                         *)
DetectPacketsFails ==
  /\ MayFail /\ phase = "detect" /\ SoughtInPackets
  /\ phase' = Detected /\ failed' = TRUE /\ pos' \in 0 .. SoughtTo
  /\ UNCHANGED << file, programs, tracks, times, search, mkvVars >>

(* A Matroska file only notes a time range.  SupStream models what a       *)
(* subtitle file does with it, from the place pos.                         *)
NoteTimeRange ==
  /\ phase = "open" /\ file.kind # "ts"
  /\ GoTo("ready") /\ UNCHANGED << m2tsVars, mkvVars >>

Step ==
  \/ Detect \/ NoteTimeRange
  \/ file.kind = "ts" /\ M2tsStep /\ UNCHANGED mkvVars
  \/ file.kind = "mkv" /\ MkvStep /\ UNCHANGED m2tsVars
Fault ==
  \/ ReadError({"detect"}) /\ UNCHANGED << m2tsVars, mkvVars >>
  \/ DetectPacketsFails
  \/ file.kind = "ts" /\ M2tsFault /\ UNCHANGED mkvVars
  \/ file.kind = "mkv" /\ MkvFault /\ UNCHANGED m2tsVars
Next == Step \/ Fault

Spec == Init /\ [][Next]_vars

(* Opening is a call that runs until it returns; nothing has to fail.      *)
FairSpec == Spec /\ WF_vars(Step)
-----------------------------------------------------------------------------
Opened == phase \in {"open", "ready"}

(* What is looked for in files that are as they should be.                 *)

(* The first position of an element of an id, and whether it lies before   *)
(* the first Cluster or is listed by a SeekHead there.                     *)
FirstOf(id) == {k \in DOMAIN file.elements :
                  /\ file.elements[k].id = id
                  /\ \A j \in 1 .. k - 1 : file.elements[j].id # id}
Walkable(k) == \A j \in 1 .. k - 1 :
                 file.elements[j].id # "Cluster" /\ file.elements[j].known
Lists == UNION {{file.elements[k].body[j] : j \in DOMAIN file.elements[k].body} :
                  k \in {i \in DOMAIN file.elements :
                           file.elements[i].id = "SeekHead" /\ Walkable(i)}}
Reached(id) == {k \in FirstOf(id) : Walkable(k) \/ << id, k >> \in Lists}

(* SeekHeads list elements where they are, the first one of an id first.   *)
RightlyListed ==
  \A k \in DOMAIN file.elements : file.elements[k].id = "SeekHead" =>
    LET pairs == file.elements[k].body
    IN  \A j \in DOMAIN pairs :
          /\ pairs[j][2] \in DOMAIN file.elements
          /\ file.elements[pairs[j][2]].id = pairs[j][1]
          /\ \E i \in 1 .. j : pairs[i][1] = pairs[j][1] /\ pairs[i][2] \in FirstOf(pairs[j][1])

HealthyMkv ==
  /\ file.doctype \in {"matroska", "webm"} /\ RightlyListed
  /\ \A k \in DOMAIN file.elements :
       file.elements[k].good \/ file.elements[k].id \in {"Tags", "Cluster", "Other"}
  /\ \E k \in Reached("Tracks") : \E j \in DOMAIN file.elements[k].body :
       file.elements[k].body[j].pgs
  /\ \A k \in Reached("Tracks") : \A j \in DOMAIN file.elements[k].body :
       file.elements[k].body[j].number # {}

(* The tables of a transport stream come before its other packets, in      *)
(* sync and within the limits, and are the same whenever repeated.         *)
Tables == {p \in file.packets : p.section}
HealthyTs ==
  /\ InPackets
  /\ \A p \in Tables : p.good /\ p \in Walked(PatLimit) \cap Walked(PmtLimit)
  /\ \A p, q \in Tables : p.pid = q.pid => p.names = q.names
  /\ \E p \in Tables : p.pid = 0
  /\ \A p \in Tables : p.pid = 0 =>
       /\ \A k \in DOMAIN p.names : \E q \in Tables : q.pid = p.names[k]
       /\ \E q \in Tables : /\ \E k \in DOMAIN p.names : q.pid = p.names[k]
                            /\ \E j \in DOMAIN q.names : q.names[j].pgs
  /\ \A p \in Tables, q \in file.packets : q \notin Tables => p.at < q.at

Healthy == CASE file.kind = "mkv" -> "ebml" \in file.magic /\ HealthyMkv
             [] file.kind = "ts" -> "ebml" \notin file.magic /\ HealthyTs
             [] OTHER -> "ebml" \notin file.magic /\ "pg" \in file.magic
-----------------------------------------------------------------------------
(* A file is only refused for a reason: damaged Tags, tables repeated, a   *)
(* SeekHead that lists what the walk finds too, a sync byte in the fifth   *)
(* byte of a subtitle file are none.                                       *)
HealthyFilesOpen == Healthy /\ ~ failed => phase # "err"

(* Nothing that belongs to the range lies before the place where the       *)
(* extraction will start (m2ts/stream.rs:124, 152): when a search was made *)
(* no packet with a PTS from the start of the range on, if PTS values grow *)
(* over a distance of the seek margin less the one packet that alignment   *)
(* may take of it; otherwise no packet but those of the tables, if these   *)
(* come first.                                                             *)
Ordered ==
  \A p, q \in file.packets :
    q.at - p.at > SeekMargin - PacketSize => \A s \in p.pts, t \in q.pts : s < t

StartsAheadOfRange ==
  phase = "ready" /\ file.kind = "ts" /\ ~ failed =>
    \A p \in file.packets :
      p.at < pos =>
        IF start # {} /\ Duration # 0
        THEN Ordered => \A t \in p.pts : t < Target
        ELSE HealthyTs => p \in Tables

(* The layout a Matroska file is read by leads to the first element of     *)
(* each id, Clusters included, found on the way or listed (header.rs:67).  *)
LayoutIsTheFiles ==
  phase \in {"tracks", "info", "cues", "tags", "open"} /\ file.kind = "mkv"
    /\ RightlyListed /\ ~ failed
  => \A id \in Noted : layout[id] = Reached(id)

(* The PGS streams that the tables announce for a program, and those for   *)
(* the first n of some programs, in order.                                 *)
PgsStreams(tables, pid) ==
  LET pmt == CHOOSE q \in tables : q.pid = pid
  IN  Only(pmt.names, {s \in Members(pmt.names) : s.pgs})
ListedUpTo(tables, names, n) ==
  LET upTo[k \in 0 .. Len(names)] ==
        IF k = 0 THEN << >> ELSE upTo[k - 1] \o PgsStreams(tables, names[k])
  IN  upTo[n]

DescribesTs(pat) ==
  LET listed == ListedUpTo(Tables, pat.names, Len(pat.names))
  IN  tracks = [k \in DOMAIN listed |->
                  [listed[k] EXCEPT !.language =
                     IF @ # {} THEN @ ELSE ClpiLanguage(listed[k].pid)]]

WrittenLast(e) == {e.languages[k][2] : k \in {j \in DOMAIN e.languages :
                                              \A i \in DOMAIN e.languages : i <= j}}
DescribesMkv(t, e) ==
  LET cues == UNION {{file.elements[k].body[j].positions : j \in DOMAIN file.elements[k].body} :
                       k \in Reached("Cues")}
  IN  /\ t.id = e.number
      /\ t.language = WrittenLast(e) \ {"und"}
      /\ t.cued = (\E c \in cues : \E j \in DOMAIN c : c[j].trk \in e.number)
      /\ \A n \in t.sets : \E k \in Reached("Tags") : \E j \in DOMAIN file.elements[k].body :
           LET tag == file.elements[k].body[j]
           IN  n \in tag.frames /\ tag.uids \cap e.uid # {}

(* tracks() lists the PGS tracks of the file, all of them, each once and   *)
(* in its order: the PGS streams of the PMTs in the order of the PAT,      *)
(* wherever the PMTs stand, with the language of the PMT or else of the    *)
(* CLPI file (m2ts/mod.rs:83); and those in Tracks, cued if a cue refers   *)
(* to them and counted if a tag does.  Their language is the one written   *)
(* last, also where an older Language element behind that of BCP 47, which *)
(* "takes precedence" (tracks.rs:119), replaces it.                        *)
TracksDescribeFile ==
  Opened /\ Healthy /\ ~ failed =>
    CASE file.kind = "ts" -> \A p \in Tables : p.pid = 0 => DescribesTs(p)
      [] file.kind = "mkv" ->
           \A k \in Reached("Tracks") :
             LET body == file.elements[k].body
                 pgs == Only(body, {e \in Members(body) : e.pgs})
             IN  /\ Len(entries) = Len(pgs)
                 /\ \A j \in DOMAIN pgs : DescribesMkv(TrackInfo(entries[j]), pgs[j])
      [] OTHER -> TRUE

(* open returns, and so does set_time_range.                               *)
Terminates == <>(phase \in {"ready", "err"})
=============================================================================
