----------------------------- MODULE PeerTransfer -----------------------------
(***************************************************************************)
(* The raw files of a hibernation snapshot are fetched from the node that   *)
(* wrote it.  The peer describes a sparse file as slices of data; the waking *)
(* node fetches them over several streams into one staged file, skips the    *)
(* zeros, and hands the directory to `vm clone --from-dir`.  Streams break,  *)
(* stall and corrupt data, the snapshot is replaced or removed on the peer,  *)
(* vk-cocoon restarts, and the startup sweep of the staging root runs beside *)
(* new restores.                                                             *)
(*                                                                         *)
(* A snapshot is one file; offsets count blocks.  What the wake does after a *)
(* failed transfer (the registry pull) is in Hibernation.                    *)
(***************************************************************************)
EXTENDS Integers, Sequences, FiniteSets

CONSTANTS
    MaxSize,        \* bound: blocks of the file
    Tunings,        \* the sizes of peer.go that are tried, in blocks
    MaxRestores,    \* bound: restores tried
    MaxRestarts,    \* bound: restarts of vk-cocoon
    Faults          \* what may go wrong, a subset of FaultKinds

FaultKinds == {"seek",      \* the peer's file system cannot seek holes
               "peer",      \* a request fails, is refused with 503, or breaks off
               "stall",     \* a stream falls silent
               "corrupt",   \* a section changes in transit
               "disk"}      \* a local create or write fails

ASSUME PeerAssumption ==
    /\ Tunings \subseteq [gap: Nat,                   \* coalesceGapBytes
                          limit: Nat \ {0},           \* peerSliceBytes
                          section: Nat \ {0},         \* restoreBufBytes
                          skip: Nat \ {0},            \* zeroSkipBytes
                          perFile: Nat \ {0},         \* streamsPerFile
                          concurrency: Nat \ {0}]     \* defaultPeerConcurrency
    /\ {MaxSize, MaxRestores, MaxRestarts} \subseteq Nat
    /\ Faults \subseteq FaultKinds

VARIABLES
    tuning,     \* the sizes in force
    layout,     \* what each block of the file is: a hole, zeros or data
    served,     \* the snapshot the peer has under the name, 0 for none
    pc,         \* where the restore is
    plan,       \* the peer's plan
    streams,    \* the tasks of fetchFiles
    dest,       \* the contents of the staged file
    dir,        \* the staging directory of the restore is there
    linked,     \* with the file in it
    envelope,   \* with snapshot.json in it
    leftover,   \* staging directories of restores that a restart cut off
    sweep,      \* SweepStaging
    restores,   \* restores tried so far
    restarts    \* restarts so far

file == <<tuning, layout>>
peer == <<file, served>>
staging == <<dest, dir, linked, envelope>>
sweeping == <<leftover, sweep>>
bounds == <<restores, restarts>>
vars == <<peer, pc, plan, streams, staging, sweeping, bounds>>

Want == 1           \* cfg.SnapshotID, the registry's
Other == 2          \* a later snapshot of the same name
Corrupt == 3        \* the contents of no snapshot
NoPlan == [id |-> 0, size |-> 0, slices |-> <<>>]
NoSweep == [pc |-> "off", old |-> 0, mine |-> FALSE]

Layouts == UNION {[0..(n - 1) -> {"hole", "zero", "data"}] : n \in 0..MaxSize}
Size == Cardinality(DOMAIN layout)
May(fault) == fault \in Faults
Least(S) == CHOOSE x \in S : \A y \in S : x <= y

\* Blocks of different snapshots are told apart; holes and zeros read as 0.
Content(id, b) == IF layout[b] = "data" THEN id ELSE 0

Init ==
    /\ tuning \in Tunings
    /\ layout \in Layouts
    /\ served \in {Want, Other}
    /\ pc = "idle"
    /\ plan = NoPlan
    /\ streams = <<>>
    /\ dest = <<>>
    /\ dir = FALSE
    /\ linked = FALSE
    /\ envelope = FALSE
    /\ leftover = 0
    /\ sweep = NoSweep
    /\ restores = 0
    /\ restarts = 0

--------------------------------------------------------------------------------
(* The plan: extents of data, coalesced and split into slices.             *)

\* The state of a loop after some rounds.
Loop(rounds, start, body(_, _)) ==
    LET run[n \in 0..rounds] == IF n = 0 THEN start ELSE body(run[n - 1], n)
    IN run[rounds]

\* SEEK_DATA and SEEK_HOLE
DataFrom(off) == {b \in off..(Size - 1) : layout[b] # "hole"}
DataStart(off) == Least(DataFrom(off))
HoleStart(off) == Least({b \in off..Size : b = Size \/ layout[b] = "hole"})

\* A round of scanExtents; there is none once only holes remain.
Seek(s) ==
    LET start == DataStart(s.off)
        hole == HoleStart(start)
    IN IF DataFrom(s.off) = {} THEN s
       ELSE [off |-> hole, out |-> Append(s.out, [offset |-> start, length |-> hole - start])]

\* scanExtents: run by run, or the whole file where holes cannot be sought.
ScanExtents(seeks) ==
    IF Size = 0 THEN <<>>
    ELSE IF seeks THEN Loop(Size, [off |-> 0, out |-> <<>>], LAMBDA s, n : Seek(s)).out
    ELSE <<[offset |-> 0, length |-> Size]>>

\* Mutant: the length of the next run is added, the hole before it is not.
MergeLengths(out, e) ==
    LET last == out[Len(out)]
    IN IF out # <<>> /\ e.offset - (last.offset + last.length) <= tuning.gap
       THEN [out EXCEPT ![Len(out)].length = @ + e.length]
       ELSE Append(out, e)

\* A round of coalesceExtents: a small hole rides along.
Merge(out, e) ==
    LET last == out[Len(out)]
    IN IF out # <<>> /\ e.offset - (last.offset + last.length) <= tuning.gap
       THEN [out EXCEPT ![Len(out)].length = e.offset + e.length - last.offset]
       ELSE Append(out, e)

CoalesceExtents(extents) ==
    Loop(Len(extents), <<>>, LAMBDA out, i : Merge(out, extents[i]))

\* A round of splitExtents' inner loop; there is none once the extent is used up.
Cut(e, s) ==
    LET left == e.offset + e.length - s.off
    IN IF left <= 0 THEN s
       ELSE [off |-> s.off + tuning.limit,
             out |-> Append(s.out, [offset |-> s.off,
                                    length |-> IF tuning.limit < left THEN tuning.limit ELSE left])]

SplitExtent(out, e) ==
    Loop(e.length, [off |-> e.offset, out |-> out], LAMBDA s, n : Cut(e, s)).out

SplitExtents(extents) ==
    Loop(Len(extents), <<>>, LAMBDA out, i : SplitExtent(out, extents[i]))

BuildPlan(seeks) ==
    [id |-> served, size |-> Size,
     slices |-> SplitExtents(CoalesceExtents(ScanExtents(seeks)))]

Blocks(slice) == slice.offset..(slice.offset + slice.length - 1)

--------------------------------------------------------------------------------
(* The peer: its snapshot is removed, and another one saved when the VM      *)
(* hibernates there again.                                                  *)

PeerRemoves ==
    /\ served # 0
    /\ served' = 0
    /\ UNCHANGED <<file, pc, plan, streams, staging, sweeping, bounds>>

PeerSaves ==
    /\ served = 0
    /\ served' = Other
    /\ UNCHANGED <<file, pc, plan, streams, staging, sweeping, bounds>>

--------------------------------------------------------------------------------
(* PeerRestorer.Restore                                                    *)

\* tryPeerRestore: the manifest names a peer, and this restore passed the gate.
RestoreStarts ==
    /\ pc = "idle"
    /\ restores < MaxRestores
    /\ restores' = restores + 1
    /\ pc' = "plan"
    /\ UNCHANGED <<peer, plan, streams, staging, sweeping, restarts>>

\* fetchPlan, and handlePlan at the peer; the registry's snapshot ID is the anchor.
FetchPlan ==
    /\ pc = "plan"
    /\ served # 0
    /\ IF served = Want
       THEN /\ \E seeks \in {TRUE, ~May("seek")} : plan' = BuildPlan(seeks)
            /\ pc' = "stage"
       ELSE pc' = "idle" /\ UNCHANGED plan
    /\ UNCHANGED <<peer, streams, staging, sweeping, bounds>>

FetchPlanFails ==
    /\ pc = "plan"
    /\ served = 0 \/ May("peer")
    /\ pc' = "idle"
    /\ UNCHANGED <<peer, plan, streams, staging, sweeping, bounds>>

NewStagingDir ==
    /\ pc = "stage"
    /\ \/ dir' = TRUE /\ pc' = "open" /\ UNCHANGED plan
       \/ May("disk") /\ pc' = "idle" /\ plan' = NoPlan /\ UNCHANGED dir
    /\ UNCHANGED <<peer, streams, dest, linked, envelope, sweeping, bounds>>

\* slices.Chunk: one task for each run of perStream slices.
Tasks(slices) ==
    LET n == Len(slices)
        each == (n + tuning.perFile - 1) \div tuning.perFile
        least(a, b) == IF a < b THEN a ELSE b
    IN IF n = 0 THEN <<>>
       ELSE [i \in 1..((n + each - 1) \div each) |->
               [pc |-> "queued", off |-> 0, bad |-> FALSE,
                todo |-> SubSeq(slices, (i - 1) * each + 1, least(i * each, n))]]

\* The head of fetchFiles: the slices are within the file, which starts as zeros.
OpenFile ==
    /\ pc = "open"
    /\ LET sound == \A i \in 1..Len(plan.slices) :
                      LET s == plan.slices[i]
                      IN s.offset >= 0 /\ s.length > 0 /\ s.offset + s.length <= plan.size
       IN \/ /\ dir
             /\ sound
             /\ linked' = TRUE
             /\ dest' = [b \in 0..(plan.size - 1) |-> 0]
             /\ streams' = Tasks(plan.slices)
             /\ pc' = "fetch"
          \/ /\ ~dir \/ ~sound \/ May("disk")
             /\ pc' = "cleanup"
             /\ UNCHANGED <<linked, dest, streams>>
    /\ UNCHANGED <<peer, plan, dir, envelope, sweeping, bounds>>

\* Mutant: the first error is returned while other streams still write.
FetchStopsAtError ==
    /\ pc = "fetch"
    /\ \/ /\ \E i \in DOMAIN streams : streams[i].pc = "err"
          /\ pc' = "cleanup"
       \/ /\ \A i \in DOMAIN streams : streams[i].pc = "end"
          /\ pc' = "envelope"
    /\ streams' = SelectSeq(streams, LAMBDA t : t.pc \notin {"end", "err"})
    /\ UNCHANGED <<peer, plan, staging, sweeping, bounds>>

\* eg.Wait
FetchEnds ==
    /\ pc = "fetch"
    /\ \A i \in DOMAIN streams : streams[i].pc \in {"end", "err"}
    /\ pc' = IF \E i \in DOMAIN streams : streams[i].pc = "err" THEN "cleanup" ELSE "envelope"
    /\ streams' = <<>>
    /\ UNCHANGED <<peer, plan, staging, sweeping, bounds>>

WriteEnvelope ==
    /\ pc = "envelope"
    /\ \/ dir /\ envelope' = TRUE /\ pc' = "staged"
       \/ (~dir \/ May("disk")) /\ pc' = "cleanup" /\ UNCHANGED envelope
    /\ UNCHANGED <<peer, plan, streams, dest, dir, linked, sweeping, bounds>>

\* cloneFromHibernate: whatever comes of the clone, the source is released.
CloneFromDir ==
    /\ pc = "staged"
    /\ pc' = "cleanup"
    /\ UNCHANGED <<peer, plan, streams, staging, sweeping, bounds>>

\* Mutant: a directory that failed is left to the sweep.
CleanupNothing ==
    /\ pc = "cleanup"
    /\ pc' = "idle"
    /\ plan' = NoPlan
    /\ UNCHANGED <<peer, streams, staging, sweeping, bounds>>

\* os.RemoveAll, by Restore when it fails and by cleanup when the source is released.
Cleanup ==
    /\ pc = "cleanup"
    /\ pc' = "idle"
    /\ plan' = NoPlan
    /\ dest' = <<>>
    /\ dir' = FALSE
    /\ linked' = FALSE
    /\ envelope' = FALSE
    /\ sweep' = [sweep EXCEPT !.mine = FALSE]
    /\ UNCHANGED <<peer, streams, leftover, bounds>>

Restore ==
    \/ FetchPlan \/ FetchPlanFails \/ NewStagingDir \/ OpenFile \/ FetchEnds
    \/ WriteEnvelope \/ CloneFromDir \/ Cleanup

--------------------------------------------------------------------------------
(* fetchSlice, one stream per task; the first error cancels the others.     *)

Stream(i, s) == streams' = [streams EXCEPT ![i] = s]
Over(i, outcome) == Stream(i, [pc |-> outcome, off |-> 0, bad |-> FALSE, todo |-> <<>>])
Cancelled == \E i \in DOMAIN streams : streams[i].pc = "err"
Running == {i \in DOMAIN streams : streams[i].pc \notin {"queued", "end", "err"}}
Slice(i) == Head(streams[i].todo)
End(i) == Slice(i).offset + Slice(i).length

\* doGet, and handleSlice up to the open file: a snapshot that vanished is a 404.
StreamGets(i) ==
    LET s == streams[i]
    IN /\ \/ s.pc = "get"
          \/ /\ s.pc = "queued"
             /\ Cardinality(Running) < tuning.concurrency
             /\ \A j \in 1..(i - 1) : streams[j].pc # "queued"
       /\ \/ /\ ~Cancelled
             /\ plan.id = served
             /\ Stream(i, [s EXCEPT !.pc = "read", !.off = Slice(i).offset])
          \/ /\ Cancelled \/ plan.id # served \/ May("peer")
             /\ Over(i, "err")
       /\ UNCHANGED <<peer, pc, plan, staging, sweeping, bounds>>

\* Mutant: a chunk that begins with a zero is taken for zeros.
SkipByFirstBlock(old, off, data) ==
    LET chunk(b) == (b - off) \div tuning.skip
        first(b) == off + chunk(b) * tuning.skip
    IN [b \in DOMAIN old |->
          IF b \in DOMAIN data /\ data[first(b)] # 0 THEN data[b] ELSE old[b]]

\* writeSkippingZeros: a chunk of zeros is not written.
WriteSkippingZeros(old, off, data) ==
    LET chunk(b) == (b - off) \div tuning.skip
        zeros(b) == \A c \in DOMAIN data : chunk(c) = chunk(b) => data[c] = 0
    IN [b \in DOMAIN old |->
          IF b \in DOMAIN data /\ ~zeros(b) THEN data[b] ELSE old[b]]

\* sectionWriter: the stream arrives section by section.
StreamReads(i) ==
    LET s == streams[i]
        next == IF s.off + tuning.section < End(i) THEN s.off + tuning.section ELSE End(i)
        sent == [b \in s.off..(next - 1) |-> Content(plan.id, b)]
    IN /\ s.pc = "read"
       /\ s.off < End(i)
       /\ ~Cancelled
       /\ \/ /\ dest' = WriteSkippingZeros(dest, s.off, sent)
             /\ Stream(i, [s EXCEPT !.off = next])
          \/ /\ May("corrupt")
             /\ dest' = WriteSkippingZeros(dest, s.off, [b \in DOMAIN sent |-> Corrupt])
             /\ Stream(i, [s EXCEPT !.off = next, !.bad = TRUE])
       /\ UNCHANGED <<peer, pc, plan, dir, linked, envelope, sweeping, bounds>>

\* The body ends early, a write fails, or the context is cancelled.
StreamBreaks(i) ==
    /\ streams[i].pc = "read"
    /\ Cancelled \/ May("peer") \/ May("disk")
    /\ Over(i, "err")
    /\ UNCHANGED <<peer, pc, plan, staging, sweeping, bounds>>

StreamStalls(i) ==
    /\ streams[i].pc = "read"
    /\ May("stall")
    /\ Stream(i, [streams[i] EXCEPT !.pc = "stalled"])
    /\ UNCHANGED <<peer, pc, plan, staging, sweeping, bounds>>

\* Mutant: only the error of another stream ends a silent one.
StallWaits(i) ==
    /\ streams[i].pc = "stalled"
    /\ Cancelled
    /\ Over(i, "err")
    /\ UNCHANGED <<peer, pc, plan, staging, sweeping, bounds>>

\* peerSliceStallTimeout
StallTimeout(i) ==
    /\ streams[i].pc = "stalled"
    /\ Over(i, "err")
    /\ UNCHANGED <<peer, pc, plan, staging, sweeping, bounds>>

\* The length is right, and the checksum decides.
StreamEnds(i) ==
    LET s == streams[i]
    IN /\ s.pc = "read"
       /\ s.off = End(i)
       /\ IF s.bad THEN Over(i, "err")
          ELSE IF Len(s.todo) = 1 THEN Over(i, "end")
          ELSE Stream(i, [s EXCEPT !.pc = "get", !.todo = Tail(s.todo)])
       /\ UNCHANGED <<peer, pc, plan, staging, sweeping, bounds>>

Streams == \E i \in DOMAIN streams :
    \/ StreamGets(i) \/ StreamReads(i) \/ StreamBreaks(i) \/ StallTimeout(i) \/ StreamEnds(i)

--------------------------------------------------------------------------------
(* Restarts, and SweepStaging, which main starts in the background.         *)

Restart ==
    /\ restarts < MaxRestarts
    /\ restarts' = restarts + 1
    /\ pc' = "idle"
    /\ plan' = NoPlan
    /\ streams' = <<>>
    /\ dest' = <<>>
    /\ dir' = FALSE
    /\ linked' = FALSE
    /\ envelope' = FALSE
    /\ leftover' = IF dir THEN leftover + 1 ELSE leftover
    /\ sweep' = [NoSweep EXCEPT !.pc = "list"]
    /\ UNCHANGED <<peer, restores>>

\* os.ReadDir: the directory of a restore already under way is listed as well.
SweepLists ==
    /\ sweep.pc = "list"
    /\ sweep' = [pc |-> "remove", old |-> leftover, mine |-> dir]
    /\ UNCHANGED <<peer, pc, plan, streams, staging, leftover, bounds>>

SweepRemovesOld ==
    /\ sweep.old > 0
    /\ sweep' = [sweep EXCEPT !.old = @ - 1]
    /\ leftover' = leftover - 1
    /\ UNCHANGED <<peer, pc, plan, streams, staging, bounds>>

\* os.RemoveAll unlinks the files one by one, and the directory when it is empty.
SweepRemovesMine ==
    /\ sweep.mine
    /\ \/ /\ linked
          /\ linked' = FALSE
          /\ UNCHANGED <<dir, envelope, sweep>>
       \/ /\ envelope
          /\ envelope' = FALSE
          /\ UNCHANGED <<dir, linked, sweep>>
       \/ /\ ~linked
          /\ ~envelope
          /\ dir' = FALSE
          /\ sweep' = [sweep EXCEPT !.mine = FALSE]
          /\ UNCHANGED <<linked, envelope>>
    /\ UNCHANGED <<peer, pc, plan, streams, dest, leftover, bounds>>

SweepEnds ==
    /\ sweep.pc = "remove"
    /\ sweep.old = 0
    /\ ~sweep.mine
    /\ sweep' = NoSweep
    /\ UNCHANGED <<peer, pc, plan, streams, staging, leftover, bounds>>

SweepStaging == SweepLists \/ SweepRemovesOld \/ SweepRemovesMine \/ SweepEnds

--------------------------------------------------------------------------------

Next ==
    \/ PeerRemoves \/ PeerSaves
    \/ RestoreStarts \/ Restore
    \/ Streams \/ \E i \in DOMAIN streams : StreamStalls(i)
    \/ Restart \/ SweepStaging

Spec == Init /\ [][Next]_vars

\* What has begun goes on; nobody need ask for a restore, and no fault is owed.
Fairness == WF_vars(Restore) /\ WF_vars(Streams) /\ WF_vars(SweepStaging)

FairSpec == Spec /\ Fairness

--------------------------------------------------------------------------------
(* Properties.                                                             *)

(* The values of the variables; streams run only inside fetchFiles, which    *)
(* waits for all of them, so none writes into a directory being removed.     *)
TypeOK ==
    /\ tuning \in Tunings
    /\ layout \in Layouts
    /\ served \in {0, Want, Other}
    /\ pc \in {"idle", "plan", "stage", "open", "fetch", "envelope", "staged", "cleanup"}
    /\ plan.id \in {0, Want, Other}
    /\ \A i \in DOMAIN streams :
         streams[i].pc \in {"queued", "get", "read", "stalled", "end", "err"}
    /\ streams # <<>> => pc = "fetch"
    /\ dest \in UNION {[0..(n - 1) -> 0..Corrupt] : n \in 0..MaxSize}
    /\ {dir, linked, envelope} \subseteq BOOLEAN
    /\ leftover \in 0..restarts
    /\ sweep \in [pc: {"off", "list", "remove"}, old: 0..leftover, mine: BOOLEAN]
    /\ restores \in 0..MaxRestores
    /\ restarts \in 0..MaxRestarts

(* A plan loses no data: every block that is not a hole or zeros is in a     *)
(* slice, the slices are in order, within the file, disjoint and no longer   *)
(* than peerSliceBytes, whether the file system can seek holes or not        *)
(* (scanExtents, coalesceExtents, splitExtents).                            *)
PlanIsSound ==
    plan.id # 0 =>
        LET s == plan.slices
            covered == UNION {Blocks(s[i]) : i \in DOMAIN s}
        IN /\ \A b \in DOMAIN layout : layout[b] = "data" => b \in covered
           /\ covered \subseteq DOMAIN layout
           /\ \A i \in DOMAIN s : s[i].length \in 1..tuning.limit
           /\ \A i, j \in DOMAIN s : i < j => s[i].offset + s[i].length <= s[j].offset

(* A file handed to the clone is, block for block, the file of the snapshot  *)
(* the registry names, whatever was replaced, cut short, corrupted or swept  *)
(* on the way, and though several streams write it and skip zeros            *)
(* (Restore, fetchSlice, writeSkippingZeros).                               *)
StagedIsWanted ==
    pc = "staged" /\ linked => dest = [b \in DOMAIN layout |-> Content(Want, b)]

(* A staging directory belongs to a restore under way; only a restart        *)
(* orphans one, and then the sweep will list it or still has it on its list  *)
(* (Restore's and cleanup's RemoveAll, SweepStaging).                       *)
NoStagingLeak ==
    /\ dir => pc \in {"open", "fetch", "envelope", "staged", "cleanup"}
    /\ leftover # 0 => sweep.pc = "list" \/ sweep.old = leftover

(* A restore that began ends: it succeeds or fails, so that the wake can fall *)
(* back to the registry, though a stream of the peer may fall silent         *)
(* (peerSliceStallTimeout, errgroup's cancellation).                        *)
RestoreEnds == pc # "idle" ~> pc = "idle"
================================================================================
