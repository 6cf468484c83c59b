---------------------------- MODULE MkvParallel ----------------------------
(***************************************************************************)
(* Parallel extraction by the Cues index, the fast path of                 *)
(* Extractor::collect_by_track: try_collect_parallel (mkv/stream.rs) and   *)
(* extract_via_cues_parallel (mkv/mod.rs).  The cue points are sorted and  *)
(* dealt out to worker threads by Cluster; each reads its blocks through a *)
(* file handle of its own; the main thread joins the workers in the order  *)
(* in which it spawned them, sorts the blocks by time and assembles them.  *)
(***************************************************************************)
EXTENDS MkvExtraction
LOCAL INSTANCE FiniteSetsExt
LOCAL INSTANCE SequencesExt

CONSTANTS WorkerCounts,  (* available_parallelism, at most 8               *)
          CueThreshold   (* PARALLEL_CUE_THRESHOLD                         *)

ASSUME WorkerAssumption == WorkerCounts \subseteq Nat \ {0}

VARIABLES workers,   (* fixed at the start                                 *)
          chunks,    (* the cue points of each spawned worker              *)
          at,        (* the next cue point of each worker                  *)
          scanned,   (* the clusters each worker has scanned               *)
          got,       (* the blocks each worker has read                    *)
          missed,    (* history: whether a header could not be read         *)
          status,    (* "running", then "ok", "err" or "panic"             *)
          outcome,   (* "call", "join", then "ok", "err", "panic", or      *)
                     (* "none" when the iterator has to be used instead    *)
          sets       (* the display sets collected for each active track   *)

request == << file, active, workers, content >>
threads == << at, scanned, got, missed, status >>
collectVars == << request, chunks, threads, outcome, sets >>

(* Vec::sort_by_key is stable.                                             *)
StableSort(s, Before(_, _)) ==
  LET place(i) == Cardinality({j \in DOMAIN s :
                    Before(s[j], s[i]) \/ (~ Before(s[i], s[j]) /\ j <= i)})
  IN  [k \in DOMAIN s |-> s[CHOOSE i \in DOMAIN s : place(i) = k]]

(* By cluster position and relative position, 0 if there is none.          *)
Relative(c) == IF c.rel = {} THEN 0 ELSE CHOOSE n \in c.rel : TRUE
Sooner(c, d) ==
  \/ c.cluster < d.cluster
  \/ c.cluster = d.cluster /\ Relative(c) < Relative(d)
SortedCues == StableSort(file.cues, Sooner)

(* Mutant of MayEnd: the Clusters are not kept together.                   *)
MayEndAnywhere(s, k) == k + 1 \in DOMAIN s

(* A worker's share may end between two Clusters.                          *)
MayEnd(s, k) == s[k].cluster # s[k + 1].cluster

(* partition_by_cluster: how many cue points the first w workers get.  The *)
(* next worker takes over as soon as it may once the current one has its   *)
(* share, and the last one takes the rest; workers left without cue points *)
(* are not spawned.                                                        *)
Partition(s, n) ==
  LET share == (Len(s) + n - 1) \div n
      dealt[w \in 0 .. n] ==
        IF w = 0 THEN 0
        ELSE Min({Len(s)} \cup
                 {k \in 1 .. Len(s) - 1 : /\ w < n /\ MayEnd(s, k)
                                          /\ k >= share + dealt[w - 1]})
  IN  [w \in {v \in 1 .. n : dealt[v - 1] < Len(s)} |->
         SubSeq(s, dealt[w - 1] + 1, dealt[w])]
-----------------------------------------------------------------------------
CollectInit ==
  /\ ChooseFile /\ workers \in WorkerCounts
  /\ chunks = << >> /\ at = << >> /\ scanned = << >> /\ got = << >>
  /\ missed = FALSE /\ status = << >> /\ outcome = "call"
  /\ sets = [t \in active |-> << >>]

Applicable == Len(file.cues) >= CueThreshold /\ workers > 1

(* try_collect_parallel: the cue points of every track count, and are      *)
(* followed, whatever the track filter.                                    *)
NotApplicable ==
  /\ outcome = "call" /\ ~ Applicable
  /\ outcome' = "none"
  /\ UNCHANGED << request, chunks, threads, sets >>

Spawn ==
  /\ outcome = "call" /\ Applicable
  /\ \E sorted \in {SortedCues} : chunks' = Partition(sorted, workers)
  /\ at' = [w \in DOMAIN chunks' |-> 1]
  /\ scanned' = [w \in DOMAIN chunks' |-> {}]
  /\ got' = [w \in DOMAIN chunks' |-> << >>]
  /\ status' = [w \in DOMAIN chunks' |-> "running"]
  /\ outcome' = "join"
  /\ UNCHANGED << request, missed, sets >>
-----------------------------------------------------------------------------
(* extract_blocks_for_cues in worker w: the blocks of one cue point.       *)
Running(w) == status[w] = "running"
Read(w) == CueBlocks(file.elements, chunks[w][at[w]], active, scanned[w])

WorkerReads(w) ==
  /\ Running(w) /\ at[w] <= Len(chunks[w])
  /\ ~ Read(w).fails
  /\ scanned' = [scanned EXCEPT ![w] = Read(w).visited]
  /\ got' = [got EXCEPT ![w] = @ \o Read(w).blocks]
  /\ at' = [at EXCEPT ![w] = @ + 1]
  /\ UNCHANGED << request, chunks, missed, status, outcome, sets >>

(* The header of an element in a Cluster cannot be read: the blocks before *)
(* it are all the cue point yields, and no error is returned.              *)
WorkerMeetsUnreadableHeader(w) ==
  /\ ~ file.legible /\ Running(w) /\ at[w] <= Len(chunks[w])
  /\ scanned' = [scanned EXCEPT ![w] = Read(w).visited]
  /\ \E n \in 0 .. Len(Read(w).blocks) - 1 :
       got' = [got EXCEPT ![w] = @ \o SubSeq(Read(w).blocks, 1, n)]
  /\ at' = [at EXCEPT ![w] = @ + 1]
  /\ missed' = TRUE
  /\ UNCHANGED << request, chunks, status, outcome, sets >>

WorkerStops(w, how) ==
  /\ status' = [status EXCEPT ![w] = how]
  /\ UNCHANGED << request, chunks, at, scanned, got, missed, outcome, sets >>

WorkerFinishes(w) ==
  /\ Running(w) /\ at[w] > Len(chunks[w])
  /\ WorkerStops(w, "ok")

(* A block is cut off.                                                     *)
WorkerMeetsCutOff(w) ==
  /\ Running(w) /\ at[w] <= Len(chunks[w])
  /\ Read(w).fails
  /\ WorkerStops(w, "err")

(* A read, a seek or opening the file fails, or the thread panics.         *)
WorkerFails(w) ==
  /\ MayFail
  /\ Running(w) /\ at[w] <= Len(chunks[w])
  /\ \E how \in {"err", "panic"} : WorkerStops(w, how)
-----------------------------------------------------------------------------
Workers == DOMAIN chunks
Failed == {w \in Workers : status[w] # "ok"}

(* Mutant of JoinFails: a panic is not turned into an error.               *)
JoinFailsOnErrorOnly ==
  /\ outcome = "join" /\ \A w \in Workers : ~ Running(w)
  /\ \E w \in Failed : status[w] = "err"
  /\ outcome' = "err"
  /\ UNCHANGED << request, chunks, threads, sets >>

(* The workers are joined in order up to the first that failed.  The scope *)
(* waits for the others, and panics if one of these did.                   *)
JoinFails ==
  /\ outcome = "join" /\ \A w \in Workers : ~ Running(w)
  /\ Failed # {}
  /\ outcome' = IF \E w \in Failed : w > Min(Failed) /\ status[w] = "panic"
                THEN "panic" ELSE "err"
  /\ UNCHANGED << request, chunks, threads, sets >>

(* Mutant of Merged: the workers are joined from the last to the first and *)
(* the blocks are not sorted by time.                                      *)
MergedBackwards == FlattenSeq(Reverse(got))

(* The blocks of all workers, by time and track.                           *)
Earlier(b, c) == b.time < c.time \/ (b.time = c.time /\ b.trk < c.trk)
Merged == StableSort(Joined(got), Earlier)

(* TrackAssemblers::process_pgs_blocks and into_results.                   *)
Assembled(blocks) ==
  CHOOSE r \in {[t \in active |-> SetsOfTrack(fed, t)] :
                   fed \in {FeedBlocks([t \in active |-> AsmNew], blocks).sets}} : TRUE

(* Mutant of Assemble: what the workers that failed had read is used.      *)
AssembleWhatIsThere ==
  /\ outcome = "join" /\ \A w \in Workers : ~ Running(w)
  /\ \E blocks \in {Merged} : sets' = Assembled(blocks)
  /\ outcome' = "ok"
  /\ UNCHANGED << request, chunks, threads >>

(* Every worker returned its blocks.                                       *)
Assemble ==
  /\ outcome = "join" /\ \A w \in Workers : status[w] = "ok"
  /\ \E blocks \in {Merged} : sets' = Assembled(blocks)
  /\ outcome' = "ok"
  /\ UNCHANGED << request, chunks, threads >>

WorkerProceeds(w) == WorkerReads(w) \/ WorkerMeetsCutOff(w) \/ WorkerFinishes(w)
WorkerStep(w) ==
  WorkerProceeds(w) \/ WorkerFails(w) \/ WorkerMeetsUnreadableHeader(w)
MainStep == NotApplicable \/ Spawn \/ JoinFails \/ Assemble

CollectNext == (\E w \in Workers : WorkerStep(w)) \/ MainStep

CollectSpec == CollectInit /\ [][CollectNext]_collectVars

(* The operating system does not stop while a thread can run; that none of *)
(* them is neglected is not needed, nor that any of them fails.            *)
FairCollectSpec ==
  CollectSpec /\ WF_collectVars(MainStep \/ \E w \in Workers : WorkerProceeds(w))
-----------------------------------------------------------------------------
(* No block is read by two workers: a cluster belongs to one of them.      *)
WorkersReadApart ==
  \A v, w \in Workers : v # w =>
    {got[v][k].id : k \in DOMAIN got[v]} \cap
      {got[w][k].id : k \in DOMAIN got[w]} = {}

TimesInOrder(t) ==
  LET own == BlocksOf(file.elements, t)
  IN  \A j, k \in DOMAIN own : j < k => own[j].time <= own[k].time

(* What the workers collect together is what the file holds, track by      *)
(* track and in file order, as if one reader had streamed it               *)
(* (streaming_api.rs:275), if every block is cued and no header unreadable.*)
CollectsContent ==
  outcome = "ok" /\ Undamaged(file) /\ ~ missed /\ FullyCued(file, active) =>
    \A t \in active : TimesInOrder(t) => sets[t] = content[t]

(* Nothing is returned while a worker still runs; a failure of any worker  *)
(* is reported, never a partial result; and a single worker that panics is *)
(* reported as an error (mod.rs:337).                                      *)
FailureIsReported ==
  outcome \in {"ok", "err", "panic"} =>
    /\ \A w \in Workers : ~ Running(w)
    /\ (outcome = "ok") = (Failed = {})
    /\ Cardinality(Failed) = 1 => outcome = "err"

(* The call returns.                                                       *)
Returns == <>(outcome \notin {"call", "join"})
=============================================================================
