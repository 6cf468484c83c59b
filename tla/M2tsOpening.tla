----------------------------- MODULE M2tsOpening -----------------------------
(***************************************************************************)
(* How an M2TS file is opened and positioned: the program tables that      *)
(* announce the PGS streams (m2ts/pat.rs, m2ts/pmt.rs), the languages and  *)
(* times of a CLPI file beside it (m2ts/clpi.rs), the last PTS near the    *)
(* end of the file (m2ts/mod.rs), and the search for the start of a time   *)
(* range (m2ts/stream.rs).                                                 *)
(*                                                                         *)
(* A file has a size and packets, each of PacketSize units at the offset   *)
(* at; where no packet is, sync is lost.  A packet has a pid, may begin a  *)
(* section or carry a pts, and a section that can be parsed (good) names   *)
(* programs (a PAT: their PMT PIDs) or streams (a PMT).  clpi is an Option *)
(* of what the CLPI file says: a language for some PIDs, and an Option of  *)
(* the first and the last time.                                            *)
(***************************************************************************)
EXTENDS OpenedFile

CONSTANTS PacketSize,
          PatLimit, PmtLimit, (* packets searched for a table              *)
          TailSize,           (* TAIL_SCAN_SIZE                            *)
          ProbeSize,          (* PROBE_SIZE                                *)
          SeekMargin,         (* SEEK_MARGIN                               *)
          MaxProbes,          (* 20                                        *)
          Starts              (* Options: where a range may start          *)

ASSUME SizesAssumption ==
  /\ {PacketSize, SeekMargin, ProbeSize, TailSize, MaxProbes} \subseteq Nat
  /\ PacketSize > 0 /\ SeekMargin > 0
ASSUME StartsAssumption == \A s \in Starts : s \subseteq Nat

VARIABLES pos,       (* reader.position()                                  *)
          programs,  (* the PMT PIDs still to be looked up                 *)
          tracks,    (* the PGS streams found                              *)
          times,     (* pts_offset and the Option pts_end                  *)
          start,     (* the start of the range, an Option                  *)
          lo, hi, best, probes   (* the search of set_time_range           *)

(* Packets do not overlap.  The packets of PID 0 name programs, the others *)
(* streams.                                                                *)
Stream == [pid: Nat, pgs: BOOLEAN, language: SUBSET STRING]
IsTransportStream(f) ==
  /\ f.size \in Nat
  /\ \A p \in f.packets :
       /\ p.at \in Nat /\ p.pts \subseteq Nat
       /\ p.names \in Seq(IF p.pid = 0 THEN Nat \ {0} ELSE Stream)
  /\ \A p, q \in f.packets : p.at < q.at => p.at + PacketSize <= q.at
  /\ \A c \in f.clpi : \A t \in c.times : t[1] \in Nat /\ t[2] \in Nat

search == << start, lo, hi, best, probes >>
m2tsVars == << pos, programs, tracks, times, search >>
-----------------------------------------------------------------------------
Packet(b) == {p \in file.packets : p.at = b}

(* The first sync byte from byte a on that has another one a packet later, *)
(* no later than a packet on, in the block that ends at b.                 *)
FindSyncStart(a, b) ==
  LET synced == {s \in a .. a + PacketSize - 1 :
                   s + PacketSize < b /\ \A i \in {s, s + PacketSize} : Packet(i) # {}}
  IN  {s \in synced : \A r \in synced : s <= r}

AlignDown(b) == (b \div PacketSize) * PacketSize
SaturatingSub(a, b) == IF a < b THEN 0 ELSE a - b
AtMost(a, b) == IF a < b THEN a ELSE b

M2tsInit ==
  /\ pos = 0 /\ programs = << >> /\ tracks = << >>
  /\ times = [offset |-> 0, end |-> {}]
  /\ start = {} /\ lo = 0 /\ hi = 0 /\ best = 0 /\ probes = 0
-----------------------------------------------------------------------------
(* The packets that are read from the beginning of the file, one after the *)
(* other, before sync is lost or the limit is reached.                     *)
Walked(limit) ==
  {p \in file.packets :
     /\ p.at % PacketSize = 0 /\ p.at < limit * PacketSize
     /\ p.at + PacketSize <= file.size
     /\ \A k \in 0 .. p.at \div PacketSize : Packet(k * PacketSize) # {}}

(* find_pat and find_pmt: the first of them that begins a section of the   *)
(* PID, if it can be parsed.                                               *)
Table(pid, limit) ==
  LET begun == {p \in Walked(limit) : p.section /\ p.pid = pid}
  IN  {p \in begun : p.good /\ \A q \in begun : p.at <= q.at}

FindPat ==
  /\ phase = "pat"
  /\ \E t \in Table(0, PatLimit) :
       programs' = t.names /\ pos' = t.at + PacketSize
  /\ GoTo("pmt") /\ UNCHANGED << tracks, times, search >>

(* Mutant of FindPmt: the streams of a later program come first.           *)
FindPmtInFront ==
  /\ phase = "pmt" /\ programs # << >>
  /\ \E t \in Table(Head(programs), PmtLimit) :
       /\ tracks' = Only(t.names, {s \in Members(t.names) : s.pgs}) \o tracks
       /\ pos' = t.at + PacketSize
  /\ programs' = Tail(programs)
  /\ UNCHANGED << shared, times, search >>

FindPmt ==
  /\ phase = "pmt" /\ programs # << >>
  /\ \E t \in Table(Head(programs), PmtLimit) :
       /\ tracks' = tracks \o Only(t.names, {s \in Members(t.names) : s.pgs})
       /\ pos' = t.at + PacketSize
  /\ programs' = Tail(programs)
  /\ UNCHANGED << shared, times, search >>

(* A table that is missing or cannot be parsed is an error, and so is a    *)
(* file without PGS streams.                                               *)
TableFails ==
  /\ \/ phase = "pat" /\ Table(0, PatLimit) = {}
     \/ phase = "pmt" /\ programs # << >> /\ Table(Head(programs), PmtLimit) = {}
     \/ phase = "pmt" /\ programs = << >> /\ tracks = << >>
  /\ GoTo("err") /\ UNCHANGED m2tsVars

(* What the CLPI file says of a stream.                                    *)
ClpiLanguage(pid) ==
  {c.languages[pid] : c \in {d \in file.clpi : pid \in DOMAIN d.languages}}

(* apply_clpi_fallback: for a stream without a language.                   *)
WithClpi(t) ==
  IF t.language # {} THEN t ELSE [t EXCEPT !.language = ClpiLanguage(t.pid)]

ApplyClpi ==
  /\ phase = "pmt" /\ programs = << >> /\ tracks # << >>
  /\ tracks' = [k \in DOMAIN tracks |-> WithClpi(tracks[k])]
  /\ LET said == UNION {c.times : c \in file.clpi}
     IN  IF said = {} THEN GoTo("tail") /\ UNCHANGED times
         ELSE GoTo("open") /\ times' \in {[offset |-> t[1], end |-> {t[2]}] : t \in said}
  /\ UNCHANGED << pos, programs, search >>
-----------------------------------------------------------------------------
(* find_last_pts: the last one in the tail of the file; when sync is lost  *)
(* for more than a packet, what comes behind is not looked at.             *)
TailPts ==
  LET from == SaturatingSub(file.size, TailSize)
      scan[o \in from .. file.size + PacketSize] ==
        IF o + PacketSize > file.size THEN {}
        ELSE IF Packet(o) = {} THEN UNION {scan[s] : s \in FindSyncStart(o + 1, file.size)}
        ELSE IF scan[o + PacketSize] # {} THEN scan[o + PacketSize]
        ELSE UNION {p.pts : p \in Packet(o)}
  IN  UNION {scan[s] : s \in FindSyncStart(from, file.size)}
LastPts == TailPts \cap Nat

(* The position of the reader is restored.                                 *)
FindLastPts ==
  /\ phase = "tail"
  /\ times' = [times EXCEPT !.end = LastPts]
  /\ GoTo("open") /\ UNCHANGED << pos, programs, tracks, search >>

(* An error counts as no PTS; the seek that restores the position may fail *)
(* too, without being noticed, wherever the scan has left the reader.      *)
FindLastPtsFails ==
  /\ MayFail /\ phase = "tail"
  /\ times' \in {times, [times EXCEPT !.end = LastPts]}
  /\ pos' \in {pos} \cup (SaturatingSub(file.size, TailSize) .. file.size)
  /\ phase' = "open" /\ failed' = (failed \/ pos' # pos)
  /\ UNCHANGED << file, programs, tracks, search >>
-----------------------------------------------------------------------------
(* set_time_range.                                                         *)
Duration == IF times.end = {} THEN 0
            ELSE SaturatingSub(CHOOSE e \in times.end : TRUE, times.offset)
Target == (CHOOSE s \in start : TRUE) + times.offset

SetTimeRange ==
  /\ phase = "open"
  /\ start' \in Starts
  /\ lo' = 0 /\ best' = 0 /\ probes' = 0
  /\ IF start' = {} \/ Duration = 0
     THEN GoTo("ready") /\ UNCHANGED hi
     ELSE GoTo("search") /\ hi' \in {(file.size * s) \div Duration : s \in start'}
  /\ UNCHANGED << pos, programs, tracks, times >>

Searching == phase = "search" /\ probes < MaxProbes
             /\ SaturatingSub(hi, lo) >= SeekMargin
Mid == lo + (hi - lo) \div 2

(* probe_pts: the first PTS in the block at the reader.  Packets are       *)
(* stepped over one by one from where sync is found, also those without.   *)
ProbePts(from, to) ==
  LET seen == {p \in file.packets :
                 /\ p.pts # {} /\ p.at + PacketSize <= to
                 /\ \E s \in FindSyncStart(from, to) :
                      p.at >= s /\ (p.at - s) % PacketSize = 0}
  IN  UNION {p.pts : p \in {q \in seen : \A r \in seen : q.at <= r.at}}

Earlier == lo' = Mid /\ best' = Mid /\ UNCHANGED hi
Later == hi' = Mid /\ UNCHANGED << lo, best >>

(* A PTS up to the target moves the lower bound, a later one, or none, the *)
(* upper bound.                                                            *)
Judge(seen) == IF \E t \in seen : t <= Target THEN Earlier ELSE Later

Probe ==
  /\ Searching
  /\ LET from == AlignDown(Mid)
         size == AtMost(SaturatingSub(file.size, from), ProbeSize)
     IN  /\ Judge(ProbePts(from, from + size))
         /\ pos' = IF size < PacketSize THEN from ELSE from + size
  /\ probes' = probes + 1
  /\ UNCHANGED << shared, programs, tracks, times, start >>

(* A read that fails counts as no PTS.  Where it leaves the reader does    *)
(* not matter: half a margin, of many packets, is between the place of the *)
(* probe and that of any later seek.                                       *)
ProbeUnread ==
  /\ MayFail /\ Searching
  /\ Later /\ pos' = AlignDown(Mid) /\ probes' = probes + 1
  /\ UNCHANGED << shared, programs, tracks, times, start >>

(* Mutant of Goal: no margin is left before the best position.             *)
GoalWithoutMargin == AlignDown(best)

Goal == AlignDown(SaturatingSub(best, SeekMargin))

(* Mutant of Settle: the number of probes is forgotten.                    *)
SettleConverged ==
  /\ phase = "search" /\ SaturatingSub(hi, lo) < SeekMargin
  /\ pos' = Goal
  /\ GoTo("ready") /\ UNCHANGED << programs, tracks, times, search >>

Settle ==
  /\ phase = "search" /\ ~ Searching
  /\ pos' = Goal
  /\ GoTo("ready") /\ UNCHANGED << programs, tracks, times, search >>

(* A seek that fails ends the search, and if it is the last one, leaves    *)
(* the reader where it is.                                                 *)
SearchFails ==
  /\ MayFail /\ phase = "search"
  /\ pos' \in {pos, Goal}
  /\ phase' = "ready" /\ failed' = (failed \/ pos' # Goal)
  /\ UNCHANGED << file, programs, tracks, times, search >>

M2tsStep ==
  \/ FindPat \/ FindPmt \/ TableFails \/ ApplyClpi \/ FindLastPts
  \/ SetTimeRange \/ Probe \/ Settle
M2tsFault ==
  \/ FindLastPtsFails \/ ProbeUnread \/ SearchFails
  \/ ReadError({"pat", "pmt"}) /\ UNCHANGED m2tsVars
=============================================================================
