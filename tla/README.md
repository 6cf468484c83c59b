# TLA+ models of libpgs

libpgs extracts PGS (Blu-ray) subtitles from Matroska (`.mkv`), transport
streams (`.m2ts`) and raw `.sup` files. The product is a stream of *display
sets*: runs of segments PCS, WDS, PDS, ODS ..., END with a composition state
and a 90 kHz time. This directory holds TLA+ modules translated from the Rust
source, TLC configurations that check them on small instances, and TLAPS proofs
of what holds for every instance.

    tlc -config MCM2tsStream.cfg MCM2tsStream.tla      # a run
    tlapm ExtractorProofs.tla                          # the proofs of a module

`PROJECT.json` lists the components, the runs, the source lines each definition
translates (`map`), a mutation that breaks each property (`mutants`), the
hazards the properties are aimed at, the findings and the theorems.
Paths below are relative to the crate, that is to `src/`.

## 1. Inventory of the system

How the parts interact: the caller builds an `Extractor`; the Extractor owns one
container scanner (`ExtractorInner::{Mkv, M2ts, Sup, Done}`) and calls its
`next_display_set`; a scanner reads the file through one `SeekBufReader`, cuts it
into segments and pushes them into one `DisplaySetAssembler` per track; finished
display sets wait in the scanner's `pending` queue. Everything is one thread
except the parallel collect of MKV, which spawns scoped worker threads. Nothing
is persisted, there are no messages and no timeouts: what is hard is what damaged
or unusual files, failing reads and unusual call sequences do to the state that
survives from one call to the next.

| Component (source) | State | Operations | What is hard | What makes it correct | Status |
|---|---|---|---|---|---|
| Display set assembly (`src/pgs/display_set.rs`) | segments, pts and composition state of the open set | `push`, `reset`; `DisplaySetBuilder::build` | streams that start in the middle of a set, lose END or PCS, or carry an unknown state byte | returns exactly the display sets the pushed segments spell | modelled |
| Segments (`src/pgs/segment.rs`) | none | `parse`, `to_bytes`, `parse_raw_segments`, `composition_state` | truncated buffers, unknown types, 33-bit times | parse what was written; stop at the first broken segment | partly: as the scanners and the builder use it, without the byte layout |
| Payloads (`src/pgs/payload.rs`) | none | parse and write PCS, WDS, PDS, ODS | an object split over fragments, its declared length, counts of one byte and lengths of two that are cut without a word | what was written is read back; fragments join to the object | modelled |
| Run-length coding (`src/pgs/rle.rs`) | none | `encode_rle`, `decode_rle` | run lengths at 2/3, 63/64 and 16383, ends of lines, cut off data | decode after encode is the identity | modelled |
| M2TS scanner (`src/m2ts/stream.rs`, `pes.rs`, `ts_packet.rs`) | reader position, PES buffer and assembler per PID, `pending`, `flushed` | `next_display_set`, `scan_next_block`, `flush_all`, `set_time_range`, `resync` | sync loss in or at the start of a block, PES packets that end only when the next begins, blocks that end inside a packet, the search by probing | no packet pushed twice or skipped without cause; sets handed out are sets of the file; the end is reached; the search ends ahead of the range | partly: the packet layout is abstracted, and of the chunks of `resync` only the starts none of them tests are kept |
| M2TS metadata (`src/m2ts/mod.rs`, `pat.rs`, `pmt.rs`, `clpi.rs`) | the PMT PIDs still open, the tracks | PAT/PMT, CLPI fallback, `find_last_pts` | repeated and damaged tables, sync loss in the tail | healthy files open and are described as they are | modelled; a section or CLPI file is what it says |
| MKV scanner (`src/mkv/stream.rs`, `cluster.rs`, `block.rs`, `mod.rs`) | chosen source (cues or scan), index into it, visited clusters, assemblers, `pending` | `next_display_set`, `init_source`, `advance_source`, `extract_blocks_for_cue_point`, `scan_cluster_for_pgs`, `read_block_at_position` | incomplete Cues, several cues to one Cluster, unknown sizes, unreadable headers, cut-off files, rounding of range bounds to ticks, a scan from a byte estimate | blocks once and in file order; a range is complete; errors are not ends | partly: a scan from an estimate may land anywhere |
| MKV parallel collect (`src/mkv/mod.rs:261-381`, `stream.rs:410-460`) | cue points, position, blocks and status of every worker | `partition_by_cluster`, `extract_blocks_for_cues`, join, merge | interleaving, failing and panicking workers, sets that span workers | equals the sequential result; a failure is an error, never a partial result; the call returns | modelled |
| MKV metadata (`header.rs`, `tracks.rs`, `tags.rs`, `cues.rs`) | the place of the walk, the layout found | `parse_segment`, SeekHead, Tracks, Info, Cues, Tags | any order of elements, SeekHeads that list too little or the wrong place, damaged elements | the first element of each id is found; tracks are described as they are | modelled |
| EBML (`src/ebml`) | none | variable-length integers, element headers | unknown sizes | round trips | not modelled (section 6) |
| SUP scanner (`src/sup/stream.rs`) | reader, assembler, finished flag | `set_time_range`, `next_display_set`, `count_display_sets` | where the detection of the format leaves the reader, the byte estimate, the search for the magic `PG`, failing seeks | what begins behind the aim is handed out, the count agrees with the iterator | modelled |
| Buffered reader (`src/io/reader.rs`) | tracked position, byte counter | `read_exact`, `skip`, `seek_to`, `drain` | the tracked position after a failure | position = position of the file | partly: inside the actions of the scanners |
| Extractor (`src/lib.rs`) | inner scanner or `Done`, filter, range, strategy, history, statistics | `open`, `with_*`, `next`, `history*`, `drain_history`, `collect_by_track`, `write_sup_file` | builder calls that reopen the file, the end of a range with several tracks, collecting after some `next` | delivers exactly what was asked for, once, and stays ended | partly: without the statistics |
| Command line (`src/cli/main.rs`) | track indices of `stream`, groups of `encode` | `stream`, `encode`, `extract`; `tracks`, `bench` | two processes on a pipe, lines a script changed, fragments, names of several files | what is shown survives the round trip; all input is accepted or no file is written; both ends stop | partly: without the commands that only print |
| Errors, language table (`src/error.rs`, `src/lang.rs`) | none | texts, a table | - | - | not modelled: text and data |

The `hazards` of `PROJECT.json` give the source line where each difficulty bites
and the property that would catch it.

## 2. Modules

                                    Extractor <- ExtractorProofs
                                        | uses
                                   TrackStreams      what a scanner promises
               ____________________/    |     \______________
              | implements              | implements         | implements
        M2tsRefinement           MkvRefinement          SupRefinement
              |                         |                    |
        M2tsStream                 MkvStream  MkvParallel    SupStream
        <- M2tsStreamProofs            \    / <- MkvProofs    <- SupStreamProofs
              |                     MkvExtraction                |
              |                       MkvBlocks                  |
              |________________________|_________________________|
                                       |
          DisplaySetAssembler -> PgsAssembly <- PgsPayload -> Rle
          <- DisplaySetAssemblerProofs               ^
                                     NdjsonPipe <- NdjsonPipeProofs

          Opening -> M2tsOpening, MkvOpening -> OpenedFile
          <- OpeningProofs

          Selection       used by Extractor, PgsAssembly, OpenedFile, Rle
          SequenceLemmas  extends PgsAssembly; used by the modules of proofs

A line or an arrow without a word is EXTENDS; `<- XProofs` names the module with
the proofs about the one it stands by. `MC*` modules define the small instances;
`MCMkvFiles` has the Matroska files that both MKV instances use.

**PgsAssembly** - the assembler as functions of a record: `AsmPush`, `AsmOut`,
`AsmReset` and `AsmFeed` (several pushes). Every scanner uses these, so each has
the real assembler inside; `FeedTracks` is several assemblers fed with the blocks of
several tracks, as the scanner and the workers of a Matroska file do. `IsRun`, `OpenRun`,
`RunSet` and `SetsIn` say what a display set is, and which ones a list of segments holds,
without reference to the assembler. An `Option` is a sequence or set of at most
one value. A PCS whose state byte is unknown or missing has `comp = None`.

**Selection** - what a pass over a list with a condition keeps (`Only`), the values
in a list of Options (`Present`), and lists one behind the other (`Joined`). `Only` does
what `SelectSeq` does. The prover knows nothing of `SelectSeq`; `Only` is a recursive
function, and the condition is a set, so that **SequenceLemmas** can say what it
keeps and in which order.

**DisplaySetAssembler** - one assembler under arbitrary pushes and resets, with the
log of calls and results as history.

**TrackStreams** - the abstract scanner: display sets of each track in order, each
once, "end" only when all tracks are used up, an error at any time.

**M2tsStream** - a file is a sequence of cells of one packet each; a cell in
`junk` has lost its sync byte. `pos` is the reader's position in cells.
`BeginBlock`, `ScanPacket`, `SkipJunk`, `LoseSync` and `EndBlock` are the branches of
`scan_next_block`; `PopPending`, `FlushAll` and `Finish` the rest of
`next_display_set`; `Fail` any failing read or seek. What the abstraction keeps of
the bytes:
  - a block is `BlockCells` cells and the first bytes of the next: 2 MiB is a
    multiple of neither 188 nor 192. So the sync byte of one more packet is visible,
    and that packet is given back at the end of the block;
  - at the start of a block `find_sync_start` can only test the aligned position; when
    it fails the reader already stands behind the block, and the resync begins
    there (`BeginBlockOutOfSync`): the whole block is passed over;
  - inside a block one stride ahead is tried (`SkipJunk`), else the reader goes back to
    just behind the loss and `resync` looks for two packets in sync (`LoseSync`);
    when there are none within `ResyncCells` it goes to the end of the file;
  - `resync` reads chunks of 64 KiB that overlap by one packet and tests no start in the last
    packet and sync offset of a chunk, so with the sync byte at offset 4 (`.m2ts`) the last
    starts of a chunk are tested in no chunk (`src/m2ts/ts_packet.rs:182-200`). The chunks are not
    modelled; `Untested` are the distances, in packets, from where a resync begins of starts that
    no chunk tests: none for packets of 188 bytes; for those of 192 bytes one where a
    start falls on these bytes. `ResyncsTo` may pass over any of them;
  - a PES payload is a sequence of pieces; a segment may need pieces of several
    packets, so a lost packet can join pieces of two segments (`whole` records it).
    A piece from the middle of a segment is taken not to look like a header;
  - a file is written as authoring tools write it (`IsFile`): each display set once, on one
    PID, its segments in order and not mixed with those of another set; a PES packet
    begins with a segment header and has one time, and so does each display set. Damage is
    in `junk` and in `start`, not in the file: what is lost is never scanned;
  - the seek of `set_time_range` is an arbitrary `start` here, and an algorithm of its
    own in M2tsOpening;
  - the continuity counter is not modelled because the code does not read it.

**MkvBlocks**, **MkvExtraction**, **MkvStream**, **MkvParallel** - the Segment is a sequence of elements
from the first Cluster on; a Cluster is a sequence of blocks; a cue names an element
and, optionally, a block in it. MkvBlocks has what the scanner and the workers share:
`CueBlocks` (with the visited clusters), `ScanCluster`, `FeedBlocks` (undecodable
blocks are passed over), the tick conversions, and `Content`, the display sets a
file holds whichever way it is read. MkvExtraction adds the file and the tracks wanted, which
the two ways to extract it have in common. MkvStream has one action per outcome of
`init_source` and `advance_source`. `HeaderUnreadable` is the `Err(_) => break` and
`Err(_) => return Ok(false)` of the element loops, and `lost` records that it
happened. `ScanFromEstimate` is the scan of a file without usable cues for a range
with a start: it begins at a byte computed from bitrate and probes, which may be the
middle of an element, so the first thing found is any element, an error or the end;
`astray` records it. `MeetCutOff` is the error a cut-off last block gives, which happens
with every such file; `ReadFails` is a fault and may happen anywhere. A file may be damaged: an element of unknown size, a last block
that is cut off (draining its payload fails in the sequential scan whatever its
track, skipping does not), a cue that points at no Cluster, no Cluster at all.
MkvParallel (`CollectSpec`) has one action for each step of a worker (a cue point read, a header
unreadable, finished, failed or panicked) and of the main thread (spawn, join that
fails, assemble). Workers are joined in order up to the first that failed; the thread
scope then waits for the others and panics itself if one of these panicked.
`available_parallelism` (at most 8) and the threshold of 32 cues are constants.

**SupStream** - a file is a sequence of cells; a header takes three of them ("P", "G"
and the rest), so that a seek can land between the bytes of a magic and in
a payload. Every cell says what a reader finds that takes it for the rest of a
header. The reader starts where `detect_format` leaves it (`DetectLeaves`): at the beginning, but if the
fifth byte of the file, a byte of its first pts, is 0x47 (`SYNC_BYTE`), behind the
1152 bytes that `detect_packet_format` reads (`ProbeCells`), or at the end of a shorter file
(`src/lib.rs:647-653`, `src/m2ts/ts_packet.rs:86`); a failed read may leave it anywhere before. Without a
range nothing seeks back. `FromBeginning` says that none of this happened and that there is no
range. `SetTimeRange` is the whole handler: `find_last_pts`, the estimate with its
margin, and `scan_to_pg_magic`, which does not look twice at the byte behind a `P`.
`SetTimeRangeFails` is a read or seek in it that fails: the caller drops the error, and the
reader is left anywhere, also with a tracked position that is not that of the
file. `CountDisplaySets` is the counting pre-scan, a function because nothing
comes between its steps.

**OpenedFile**, **M2tsOpening**, **MkvOpening**, **Opening** - `Extractor::open`. `Detect` is
the recognition by first bytes, with the place where it leaves the reader of a subtitle file
(`SoughtTo`); `DetectPacketsFails` is an error in it that is dropped. `failed` records
that a read or seek ended the opening, or left the reader or the layout otherwise than without it;
a failure that is dropped and changes neither does not set it. For a transport stream, PAT and PMT are looked for in the
first packets, each programme's PMT in turn (`FindPat`, `FindPmt`), languages and times come
from a CLPI file beside it, else the last PTS from the tail; then `SetTimeRange`,
`Probe`, `Settle` are the search of `set_time_range`, with byte offsets, so that probes
land between packets. For Matroska, `WalkElement`, `WalkSeekHead`, `WalkEnds` and
`WalkBreaks` are the walk of `parse_segment`, followed by Tracks, Info, Cues and
Tags at the places noted. A SeekHead may be wrong: a position is the number of an
element, or 0 where no header can be read.

**Rle**, **PgsPayload** - the coding and the four payloads as functions over
sequences of fields; parsing returns an Option, {} where the code returns `None` or an error.
`Runs` and `Rounds` are the loops of `encode_rle` and `decode_rle`, one run and one code at a
time: the state of round k as the only member of a set, or, for `Rounds`, no member once a
code was cut off. `Build` is `DisplaySetBuilder::build` with the split of an object into
fragments. `Written` is `PgsSegment::to_bytes`, which casts the pts to 32 bits and the length of the
payload to 16; `SegmentsIn` reads a file again, up to a payload that is longer than its header
says. Numbers of objects and windows are cast to a byte (`PcsToBytes`, `WdsToBytes`); of the
flags of an object only the one for a crop is read and written (`Cropped`).

**NdjsonPipe** - `stream` and `encode` as two processes with a bounded pipe between them,
and `extract`. `Line` is what `stream` writes for a display set, `DisplaySetFromJson` what
`encode` builds of a line. A script may drop a line or write another (`Script`), a
reader may be gone (`BrokenPipe`), writing may fail behind any segment (`WriteFails`).
JSON and base64 themselves are left out.

**Extractor** - builder calls, `next`, `drain_history` and `collect_by_track`, over a
scanner that is `TrackStreams`. `Reopen` is `open_with_strategy`/`open_filtered`;
`SetTimeRange` is the scanner's `set_time_range`: the MKV scanner leaves out sets before
the start and behind the end, the others look for a position before the start. That
the position found is not behind the start is assumed here: for transport streams it is
`StartsAheadOfRange` of Opening; for SUP it does not always hold, which is what the run
`sup_incomplete` shows. `with_history` is only called before `next`, as its
documentation requires. Builder calls that change nothing are stuttering steps.

## 3. What the runs check

Passing runs:

| Run | Instance | Shows |
|---|---|---|
| `assembler` | six kinds of segments, every sequence of up to 6 calls | the assembler returns exactly the display sets in the log (`ReturnsExactlyTheRuns`) and holds exactly the open one (`HoldsTheOpenRun`) |
| `m2ts_stream` | every interleaving of two PGS tracks of 5 and 3 packets, some with a packet of another PID, every set of at most two junk cells, every start, blocks of 3 cells, a resync that may miss the start one packet on, reads may fail | sets handed out are genuine unless a packet of the PID was lost between (`GenuineUnlessPacketLost`); a display set that the file holds from its PCS to its END (`Held`) and whose packets were all scanned is handed out by the end (`ScannedSetsAreYielded`); `TrackOrder`; a readable packet is skipped only for one of the known causes (`SkippedForCause`); nothing is scanned twice, every block moves on, the iterator ends; without junk the scanner implements `TrackStreams` with the sets behind the start (`IsTrackStream`) |
| `extractor` | four files (MKV with and without parallel collect, M2TS with a track that goes back in time, SUP), every chain of up to 2 builder calls, every use afterwards, opens and reads may fail | `DeliversOnlyTheRequest`, `EndsWithTheRequest`, `HistoryIsDelivered`, `Fused`, `Terminates` |
| `mkv_stream` | every division of 7 blocks into three Clusters, cued with and without relative positions or not cued, with and without a Duration; damaged files; four ranges; two filters; failing reads and unreadable headers | `BlocksInFileOrder`; sets handed out follow one another in the file even if it is cut off, a read fails or the scan began at an estimate (`YieldsContent`); a display set that lies in the range with all its segments is handed out (`RangeIsComplete`); `Terminates`; on sound files the scanner implements `TrackStreams` (`IsTrackStream`) |
| `mkv_parallel` | the cued and the damaged files, 1 to 3 workers, each failing, panicking or meeting an unreadable header anywhere | workers never read the same block (`WorkersReadApart`); the merge is what the file holds (`CollectsContent`); a failure is reported (`FailureIsReported`); the call returns (`Returns`) |
| `sup` | files with a first pts of 0 and later, and with a sync byte in it, bitmaps that hold or end in parts of a magic, every cut of a file, sets that begin late or are abandoned, PCS too short to count, six starts, failing reads and seeks | `YieldsFromAim`; the count agrees with the iterator (`CountMatchesIterator`); `Terminates`; from the beginning and without a range the scanner implements `TrackStreams` |
| `ndjson` | bitmaps with runs of every length around the limits of the coding, objects of one to several fragments, two tracks, unreadable payloads, all options of `extract`, times and numbers of windows at the limits of their fields, at most one line edited by a script, also with numbers that fit no field, failing source and output | what is shown survives `stream \| encode` if its times and numbers of windows fit a file (`RoundTrip`); a line that cannot be encoded leaves no file at all (`LeavesNoFile`); all that `stream` writes and that can be encoded is accepted (`AcceptsWhatStreamWrites`); `extract` loses nothing (`ExtractIsLossless`); what any accepted line says is what a reader of the file will see (`EncodesWhatIsSaid`); neither process waits for ever |
| `opening` | transport streams of 12 packets with 6 arrangements of the tables, 5 rates of PTS, 5 choices of the packets that carry one, a gap, 3 CLPI files, 14 starts; Matroska files with 5 elements in every order and a sixth, three SeekHeads, each element damaged; magics of all kinds | `HealthyFilesOpen`; the search for a range ends ahead of it (`StartsAheadOfRange`); the layout is the file's (`LayoutIsTheFiles`); all PGS tracks, in their order, are described as they are (`TracksDescribeFile`); `Terminates` |

Runs that find a violation, each a statement of the documentation the code does
not keep (see `findings`):

| Run | Shows |
|---|---|
| `extractor_chain` | `with_track_filter` and `with_mkv_strategy` forget a range or filter given before |
| `mkv_incomplete` (`AllInRangeExtracted`) | a PGS track without cues is not extracted when another track has cues; a display set that begins in the range is lost when its END is a block of its own with a cue point behind the range (`CueInRange` drops it) |
| `sup_incomplete` (`RangeIsComplete`) | a SUP file whose fifth byte is 0x47 is read from byte 1152 on, or not at all with a clean end; a range on a file whose first display set is late skips sets that belong to the range: the estimate divides by the duration without subtracting the first pts |
| `ndjson_identity` (`IdentityRoundTrip`) | the first fragment of an object that `encode` splits says the length of the fragment, not that of the object; a time of 33 bits is cut to 32; flags of an object other than that of a crop are lost; the windows of several WDS, written into one, overflow its count |

TLC stops at the first violation; with `-continue` it reports the others too.

### Preconditions that some properties carry

- `DeliversOnlyTheRequest` and `EndsWithTheRequest` hold for `CarriedOver` chains: no call
  that reopens the file after a setting it drops (that is what `extractor_chain`
  shows), no builder call whose reopening failed (the code then returns the Extractor
  unchanged), and no range without a start after one with a start (M2TS and SUP files
  do not seek back).
- A set behind the end of the range stops the iteration for all tracks
  (`src/lib.rs:602`); `EndsWithTheRequest` therefore excuses what is missing of a track only
  when such a set was the last one given, and it was of another track or the track goes
  back in time.
- MKV: `RangeIsComplete` is about display sets that lie in the range from the first segment to the last
  (`WhollyInRange`); one whose END comes behind the range is what `mkv_incomplete`
  shows, with the split set that the files of both runs have. `RangeIsComplete` and `CollectsContent` need an undamaged file, all headers readable
  (`~ lost`, `~ missed`), a scan that did not begin at an estimate (`~ astray`), and an index of one
  kind that covers every block (`FullyCued`). An index that has cues with and without
  relative position for one Cluster makes the code read blocks twice. `YieldsContent` needs
  only `~ lost` and, by cues, `FullyCued`, known sizes and blocks in the order of their
  times (`TimesAscend`): `init_source` keeps the cue points whose time is in the range, and in
  a file whose times go back this may leave out a block between two others.
- `CollectsContent` needs the blocks of a track to be in time order: the merge sorts by
  time, and a display set split over blocks stays together because they have one time.
- `IsTrackStream` maps the files for which no promise is made to an empty stream: for
  M2TS those with junk, for MKV those that are not `Sound`, for SUP all that is not `FromBeginning`.
- `YieldsFromAim` speaks of the display sets behind the place where the reader was put, by the search, by
  a failure in it or by the detection of the format; that these are all of the file or of the range is
  `RangeIsComplete`, which the run `sup_incomplete` violates.
- `CountMatchesIterator` compares the count, which seeks to the beginning, with an iterator that
  began there too (`FromBeginning`). That the numbers with and without content add up to the total, as
  `docs/NDJSON.md:56` has it, holds only where each PCS and each END belong to a display set of
  their own, because the total counts END and the parts count PCS; the property says so.
- `YieldsFromAim` is about files that are `Unambiguous`: no payload holds a `PG` and none ends
  in `P` before a header. Otherwise `scan_to_pg_magic` may stop in a payload or run past a
  header, and the code makes no promise.
- `StartsAheadOfRange` needs PTS values that grow over a distance of the seek margin
  less a packet (`Ordered`), and that neither the seek back from the tail nor the last seek
  fails (`~ failed`). A tail that cannot be read leaves the duration unknown, and a probe that
  cannot be read is taken for one without PTS; the property holds through both.
- `HealthyTs` wants a PMT for every programme of the PAT, since one that is missing or
  damaged fails the opening even if another holds the PGS streams (`src/m2ts/pmt.rs:33`).
- `TracksDescribeFile` says of a Matroska track with two languages that the one
  written last is taken. That is what the code does; its comment says that BCP 47 takes
  precedence (`src/mkv/tracks.rs:119`), which is not so where the older element stands behind it.
- `SkippedForCause` excepts the starts that a resync does not test (`Untested`).
- `RoundTrip`, `LeavesNoFile` and `AcceptsWhatStreamWrites` are about lines no script has
  changed (`~ edited`). A line is `Encodable` if its composition is null (the line is then
  passed over), or if no object lacks its bitmap and the composition could be parsed (a raw
  payload has no number). An edited line may be anything, and `EncodesWhatIsSaid` says what becomes of it.
- `RoundTrip` is said of each track whose times are below 2^32 and whose display sets have so many
  windows that one WDS can hold them (`FitsFile`), and compares what a viewer sees (`View`): time, composition, windows,
  palettes and bitmaps. It leaves out the data length of an object, flags of an object other than
  that of a crop, and what the premise excludes; all of these are lost, and
  `IdentityRoundTrip` says so. `ExtractIsLossless` has the premise on times (`TimesFit`) and compares
  every segment.
- `EncodesWhatIsSaid` brings the numbers of a line to the widths of their fields first, as
  `as_u8` and `as_u16` do, which saturate. It leaves out lines that no file can hold (`LineFitsFile`): too many
  objects or windows for their count, a payload longer than 65535 bytes (`src/pgs/segment.rs:135`), a time
  of 33 bits, an object defined twice. These are cut without a word, and the run has lines that
  are.

### Bounds, and why they are enough

- *assembler*: an open set is closed, replaced or reset within three calls; six calls
  hold every pair of consecutive sets with every loss between. The theorems remove the bound.
- *M2TS*: blocks of three cells put every packet of a display set at the start, in the
  middle and at the end of a block, and eight cells make three blocks. Two junk cells are
  enough for each sync path, for a resync that fails within its limit of three cells, and
  for a loss at the very start of a block after another loss. One untested start, a packet behind
  where the resync begins, is passed over with the packet in sync that stands there; in the code this is packet 1020 or
  so of 64 KiB, which changes the distance and not the steps. Track 1 has a set of four
  packets with a segment over two packets, and one in a single PES packet; track 2 has an
  abandoned set and a whole one.
- *Extractor*: two builder calls of each kind are all pairs; ranges with start, with end, and
  with both; sets before, on, between and behind the bounds, and two tracks whose times are
  not in step.
- *MKV*: every division into three Clusters puts the two blocks of the split set into one or
  two Clusters, and every track's blocks first, last, or alone. The second block of the split set is a tick later
  than the first, so that the end of a range lies between them. A tick is 700000 ns so no
  bound of a range is a whole tick and the rounding of `ToTicks` shows.
- *parallel*: three workers are the least for which a worker in the middle fails
  while ones before and after it run, and for an unjoined worker that panics. `CueThreshold = 1`
  lets files this small take the parallel path.
- *SUP*: 90 ticks a millisecond as in the code; a tail of 14 cells that holds the last header
  in some files and cuts it in others; a margin of a fifth of the file, at most 4 cells, so
  that both limits are used and estimates land on every byte of a header; 12 cells read by the detection, which
  end in a payload, at a header or behind the end of a file.
- *ndjson*: short runs of up to 3 pixels make a byte of 16 values and a long run of up to 63, so that
  all forms of `Code` and a run longer than two long ones are met; payloads of 20
  bytes make an object of one, two and three fragments; a byte of payloads has 4 values, a time 8
  and a number or length of two bytes 128, and sources, edited lines or both reach beyond each; the pipe of two
  lines can be full, and a script may change a line behind another.
- *opening*: packets of 2 units, a probe of 3 packets, a margin of 5 units and 2
  probes let the search end by the margin and by the number of probes; a gap of 1 or 3 units puts
  packets out of step with `AlignDown`; a tail of 9 units begins inside a packet; the limits of 4
  and 5 packets for the tables are reached.

### Fairness

Every `FairSpec`, and the `FairCollectSpec` of MkvParallel, is weak fairness of the steps that are not faults; nothing ever relies on a
read, a write or a worker to fail:

- in the scanners, `next_display_set` loops until it can return, and the consumer drains the
  iterator;
- for the Extractor, the consumer keeps calling `next` (or `collect_by_track` does): this is
  why `Terminates` there speaks of modes "next" and "collect" only;
- for the parallel collect, the operating system does not stop while some thread can
  run. Fairness for each worker is not needed, because no step can repeat for ever;
- for the pipe, both processes run: weak fairness of `Streaming` and of `Encoding`, one for
  each process, and none of the script;
- `open` and `set_time_range` are calls that run until they return: weak fairness of `Step`.

The specifications stop when the iterator has ended or the command has exited, so the
configurations turn deadlock checking off; `Terminates` and `Returns` say that they do not stop earlier.


## 4. What is proved

The proofs hold for every value of the constants that meets the named
assumptions of the modules. Most of these say that sizes are positive numbers and that
inputs have the types of the code. Those that say more:

- `FilesAssumption` and `WrittenAssumption` of M2tsStream: `IsFile`, as described in section 2, and a
  display set has its PCS in front and its END, if it has one, at the end. A
  file in which a PID mixes the segments of two sets would not even as a whole yield
  the sets that were written, so the properties below have nothing to say of it;
- `FilesAssumption` of Extractor: the display sets of a track are of that track, and a SUP
  file has the track 0 only; of MkvExtraction: `IsFile`, a block knows its
  element and place, blocks are in Clusters only, and a cue points at an element (one that
  points elsewhere is a cue to an element that is no Cluster);
- `RangesAssumption` of MkvStream: the bounds of a range are not negative;
- `FilesAssumption` of SupStream: a file is any sequence of cells, and its display sets are read off
  it, whatever it holds (`ContentOf`);
- `OpenedFilesAssumption` of Opening: only Clusters and unknown elements have an unknown
  size, and a Matroska file begins with the EBML header;
- `SetupsAssumption` of NdjsonPipe: segments have the types and the non-negative numbers
  that the parsers return, and what the Extractor yields are display sets as the assembler makes them
  (`ReturnsExactlyTheRuns`), and no payload is longer than 65535 bytes (`LengthsFit`), which the two
  bytes of its length give.

**DisplaySetAssemblerProofs** - `TypeCorrect`, `PushReturnsTheRuns` and
`AssemblerHoldsTheOpenRun`: `Spec => []TypeOK`, `[]ReturnsExactlyTheRuns` and
`[]HoldsTheOpenRun`, for any set of well-formed segments and any number of calls.
`ReturnsExactlyTheRuns` is not inductive: whether the next END returns a set depends on
what the assembler holds. `Inv` adds `HoldsTheOpenRun`, which ties the record to the log.
The lemmas `RunStable`, `RunCloses`, `OpenExtends` and `SubSeqExtends` say how runs, the open
run and subsequences change when the log grows by one entry.

**M2tsStreamProofs** - for every file, every set of junk cells, every block size and
resync limit: `PacketsAreScannedOnce` (`NeverRescans`), `ReaderAdvances` (`BlocksAdvance`),
`PacketsAreSkippedForCause` (`SkippedForCause`) and `ScannerTyped`.
`ScannerInv` says where scanned cells lie: behind the reader between blocks, behind the
scan offset inside one. A resync that starts at cell c never leaves the reader before
c - 1 (`ResyncForward`), and a block ends ahead of its start (`BlockEndAhead`).
`SkipInv` adds, for every cell up to the `Frontier` of what was looked at, why
it was left out (`Excused`), which a start that the resync does not test always is; `ResyncSkipsForCause` and `SkipByResync` show that the cells a resync
passes over are excused by the place where it began.
`DisplaySetsAreGenuine` (`GenuineUnlessPacketLost`) and `TracksKeepOrder` (`TrackOrder`): for every
file, start, loss of sync and order of the flush. The property of the display sets handed out
says nothing of those still being collected, so `GenuineInv` does, for each PID (`PidInv`): the PES
buffer is a train of pieces of scanned packets, each continuing the one before it or
with a lost packet of the PID between (`IsTrain`); the set that the assembler holds is the beginning
of one of the file and what follows next stands in front of the buffer, or a packet was lost
since (`IsBefore`). `FeedBuffer` follows the parse of a buffer round by round (`FedUpTo`, `FedStep`): a
segment that took pieces that are not its own, or one after which the parse stops too soon,
has a lost packet between its first piece and the next header. For the order, everything that
is collected begins behind the last cell of the sets that were handed out (`Behind`).
`ScannedSetsArrive` (`ScannedSetsAreYielded`): when the scanner is exhausted, no display set is missing
whose packets were all scanned. `CollectInv` follows each of them from its PCS on (`AllCollect`): it was made,
or one of its packets was passed over (`Found`), or its PID is `Collecting` it. Then the assembler
holds its first segments, or none, and the buffer begins with the next one (`Aimed`), and the buffer runs on
unbroken to its END, or as far as it goes while the END is still to come (`Reaches`). A packet that
starts a PES packet feeds the unbroken part (`UnbrokenFed`), which makes the set or leaves the assembler aimed at
what that packet begins with; a packet that was passed over is of the set, since what follows a piece
of it other than its END is (`OwnNext`). The flush leaves only sets that were given or miss a packet
(`AllFound`). A file may hold a part of a display set only, hence `Held`.

**ExtractorProofs** - `ExtractorTyped`, `HistoryIsWhatWasDelivered`,
`ExtractorIsFused`, `DeliversTheRequest` (`DeliversOnlyTheRequest`) and
`EndsWithNothingMissing` (`EndsWithTheRequest`), for all files, filters, ranges and builder
chains. `BooksInv` adds that nothing was delivered, cataloged or drained while the
Extractor is set up, so that reopening the file or switching the history loses nothing, and
that an end that was reported left `inner` at `Done` or consumed the Extractor.
`RequestInv` is the invariant behind the other two: as long as the chain keeps what it was
told, the settings in force are those of the last calls (`BuilderInv`), the scanner has sets
of the active tracks left only, in order of time where the file is (`LeftInv`), what a track was
asked for is what was delivered followed by what the scanner still has
inside the range (`PendingInv`), and an end came from a scanner that had no more or from a set
behind the range (`OverInv`).

**OpeningProofs** - `OpeningStartsAheadOfRange` (`StartsAheadOfRange`): for every transport
stream, packet size, seek margin, number of probes and start, also when reads of the tail or of
probes fail; a failed last seek, or seek back from the tail, is excepted (`~ failed`). `SearchInv` says why: the search keeps in `best` only positions behind which a PTS not
after the target was seen (`BestIsEarly`), and without a search the reader stands behind
the table read last (`BehindTable`). `OpeningInvStarts` is where the margin, the rounding
to packets (`AlignDownBounds`) and the order of PTS values meet.
`LayoutLeadsToTheFiles` (`LayoutIsTheFiles`): `LayoutInv` says that what was noted so far is
the first element of its id among those walked, or comes from a SeekHead on the way.
`HealthyFilesAreOpened` (`HealthyFilesOpen`) and `TracksAreDescribed`
(`TracksDescribeFile`): `TablesInv` follows PAT, PMT and CLPI, and says that the tracks made so far are the PGS streams
of the programmes done, in the order of the PAT (`ListedUpTo`); `MetadataInv` the
reads of Tracks, Info, Cues and Tags, and `DescriptionInv` ties the tracks made so far to
the tables of the file.

**MkvProofs** - the streaming scanner first. `ProcessesInFileOrder` (`BlocksInFileOrder`): for every file, range
and filter, unreadable headers, failing reads and a scan from an estimate. `OrderInv` says where every
block processed so far came from: an element ahead of the next one of the scan, or a cue
point already followed; `CuesInv` says that cue points keep the order of a full
index and which Clusters were visited.
`YieldsWhatTheFileHolds` (`YieldsContent`): for every file, range, filter and failing read, what is
handed out for a track is a run of consecutive display sets of `Content`, the sets of
the file whichever way it is read. The property says nothing of the
blocks read or of the assemblers, so `ContentInv` does: what was processed are exactly the blocks
of a stretch of elements, or those that the cue points followed so far lead to
(`Processed`); the assemblers and the sets returned so far are what `AsmFeed` makes of them from
a reset (`Fed`); what was handed out is the front of what was returned, and blocks read but not yet
processed come next (`Queues`). Cue points of a range are consecutive ones of the index, so
no block of the track lies between two that were read and was not (`CoveredWithoutGap`, which needs
`TimesAscend`); and the sets of a stretch without a gap are consecutive ones of the file
(`StretchOfContent`), because a set that is open where the stretch begins is dropped
by the assembler, and every later one is whole.

Then the parallel collect, `CollectSpec`. `FailuresAreReported` (`FailureIsReported`): for every file,
any number of workers, failing and panicking in any order. `JoinInv` adds that there are no workers
before they are spawned and that none runs behind the join. `BlocksAreReadOnce` (`WorkersReadApart`):
sorting puts the cue points in the order of their Clusters, the partition cuts this order
between two Clusters only (`SharesApart`), and a worker reads blocks of the Clusters in its share
only (`ReadInv`).
`CollectsWhatTheFileHolds` (`CollectsContent`): `CollectInv` says that each worker has read, in the
order of the file, exactly the blocks that the cue points it has followed lead to (`ReadsOn`, one cue point
at a time), and that one which is done has followed all of its own. The shares cover the cue points,
without a gap and in order (`PartitionShares`), so what the workers have read, one behind the other, is
all of the file in its order (`AllRead`). The sort by time and track is stable (`Sorting`, for any two
keys), and so leaves the blocks of one track in that order if their times are (`SortedTrack`): each assembler
is fed with the blocks of its track, and returns the display sets of the file (`YieldsContentOf`, which
the scanner uses too).

**SupStreamProofs** - for every file, every place where the detection of the format leaves the reader, every start
and a failure in `set_time_range`.
`YieldsWhatIsBehind` (`YieldsFromAim`): what is handed out are the display sets that begin where the reader was put
or behind it. The scanner walks over the file by jumps of any length, and so do
`FindLastPts`, `ScanToPgMagic` and the definition of a file's content: `Jumping` gives the
functions they are made of, and `Downto`, which goes down from the end of the file, what holds of
them. `SetsBehind`: the sets that begin at a place or behind it are those in the segments from
the first one behind that place, because a set begins with a PCS and cannot reach back over
one. `ScanFindsNearest` and `ScanLands`: the search lands on that segment, unless a byte behind a `P`
or in a payload looks like a header (`Unambiguous`). `SupInv` says that the segments from that one
up to the next one to read were pushed, that the assembler holds what they leave open, and
where the reader is; this gives the property.
`CountIsRight` (`CountMatchesIterator`), for an iterator that began at the beginning: the counter walks over the same segments, stops where the
iterator does, or behind a payload that is cut off, and counts the PCS (`IsCount`), of which there is
one for each display set (`Enough`).
`ImplementsStream`, of the iterator over the whole file from its beginning: every step is a step of TrackStreams or a stutter, from `SupInv`, which says that
what was handed out is the front of the content (`Handed`).

**NdjsonPipeProofs** - `RleRoundTrip`: every bitmap of the right size has exactly one
encoding, and decoding it gives the bitmap back, for every width, height, bitmap and length
of a short run. The argument follows `encode_rle` run by run: the decoder `Arrives` behind
the data of a run with the pixels up to its end, whatever data follows (`AfterRuns`).
`DecodedLength`: whatever the data, what `decode_rle` returns has the size asked for.
`BadInputLeavesNoFile` (`LeavesNoFile`) and `StreamIsAccepted`
(`AcceptsWhatStreamWrites`): for every source, capacity of the pipe, coding and interleaving of the two processes.
`PipeInv` adds what the properties do not mention: the pipe holds
the last lines sent in their order (`LinesInOrder`), the lines taken from it by an encoder
that has not failed can be encoded, and no file is begun before every line was taken.
`AcceptInv` adds that a bitmap in a line of `stream` has the size beside it, which is
`DecodedLength`, so that `encode_rle` takes it, which is `RleRoundTrip`.
`ExtractLosesNothing` (`ExtractIsLossless`): `ExtractInv` says which files are there between two
writes; that files of different tracks have different names comes from the order of the tracks, which
lists each once (`FirstsAre`). A display set that is fed to an assembler comes out of it, whatever was there before
(`RunFed`), and so do all those of a file (`JoinedRead`). Reading a file finds every segment that was written, since no
length is cut (`SegmentsInAll`), and finds it as it was if its time fits (`KeptIfTimesFit`).

**SequenceLemmas** - induction. The induction theorems of the library have an operator
as a parameter, which the provers cannot instantiate; here the predicate is a set
(`SetInduction`, `Upto`, `SeqInduction`). `Recursion` and `RecursionTyped`
show that a recursive function is what its equation says. Then what `Only`,
`Present` and `Joined` keep, in which order, and what they do to a list that
grows. A property of all inputs of a recursive definition is proved with these: that feeding a
list is feeding its parts one behind the other (`FeedConcat`), that what an assembler returns
from its reset are the display sets of the list (`FeedIsSetsIn`), that those of a part
are consecutive ones of the whole (`StretchYields`), and that of what is fed to several
assemblers each makes what it makes of its own items (`FeedsMore`).

**Only model-checked**: liveness and `ENABLED`, which the prover does not handle; the
refinements of TrackStreams by the M2TS and MKV scanners, and the liveness of all three; and the
properties `RangeIsComplete` (MkvStream), and `RoundTrip` and `EncodesWhatIsSaid` (NdjsonPipe). `RangeIsComplete` holds of the
files of the run but not of every file: the range is cut in ticks and in times of 90 kHz, both rounded,
so that with a small enough `TimestampScale` a set at the very end of the range is left out.
`RoundTrip` is one of the sources of the run and of those like them: a payload of the model may hold a number
beyond its field, which no file can, so a theorem would have to start from more conditions on the source.

## 5. Plan

Done, in this order: PgsAssembly and the assembler; M2TS scanner; TrackStreams and its
refinements; Extractor; MKV scanner; parallel collect; SUP scanner; payloads, run-length coding and
the pipe of the command line; opening and the search for a range; the proofs above.

Left, most important first:

1. The safety part of the refinements M2tsRefinement and MkvRefinement, as for the SUP scanner.
2. `RoundTrip`, of sources whose values fit their fields, and `EncodesWhatIsSaid`: the parsers of PgsPayload are inverse to the writers, and the
   fragments of an object join to its coding.
3. **TsResync**: byte positions and overlapping chunks of `resync`, from which the set `Untested`
   would follow (`src/m2ts/ts_packet.rs:160-205`).
4. **SeekBufReader** by itself: the tracked position against that of the file.

## 6. What is not modelled, and why

- The chunks in which `resync` reads, but for the starts they leave untested, and the fields of a transport packet: M2tsStream and M2tsOpening take
  a packet as one cell with a PID, a start flag, a payload and a PTS.
- The sections PAT and PMT, the CLPI file and PES headers as bytes: a table is a list of names, and good or
  damaged.
- Variable-length integers and element headers of EBML: pure decoding, well covered by unit tests. An
  element has an id, a size that may be unknown, and a header that may be unreadable.
- Decompression of Matroska blocks: a block decodes or it does not (`ok`).
- DTS, which the code copies and never reads, and the flags and names of tracks, which it
  only copies.
- Bytes read, statistics and progress of the Extractor, and functions that only combine its calls.
- JSON, base64, time stamps and arguments of the command line as text, and the commands `tracks`
  and `bench`, which print results.
- `src/error.rs` and `src/lang.rs`: texts and a table of data.
