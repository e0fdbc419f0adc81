--------------------------- MODULE PeerTransferProofs ---------------------------
(***************************************************************************)
(* For every size of file, every tuning of the transfer and any number of    *)
(* restores and restarts: no staging directory of a peer restore is leaked,  *)
(* the peer's plan loses no data, and what a clone is made from is the       *)
(* snapshot that the registry names.                                         *)
(***************************************************************************)
EXTENDS PeerTransfer, FiniteSetTheorems, SequenceTheorems, WellFoundedInduction, TLAPS

--------------------------------------------------------------------------------
(* The staging directories.                                                *)

Inside == {"open", "fetch", "envelope", "staged", "cleanup"}
SweepRec == [pc: {"off", "list", "remove"}, old: Nat, mine: BOOLEAN]

\* What the restore and the sweep know of directories: a directory belongs to a
\* restore under way; what a restart orphaned is on the sweep's list once it has one,
\* and there is nothing to sweep without a restart.
Inv ==
    /\ dir \in BOOLEAN
    /\ dir => pc \in Inside
    /\ leftover \in Nat
    /\ sweep \in SweepRec
    /\ sweep.pc = "off" => leftover = 0 /\ sweep.old = 0
    /\ sweep.pc = "list" => sweep.old = 0
    /\ sweep.pc = "remove" => sweep.old = leftover

\* A step that neither makes nor removes a directory keeps the restore that has one.
LEMMA InvKept ==
    ASSUME Inv, UNCHANGED <<dir, leftover, sweep>>, pc' = pc \/ pc' \in Inside \/ ~dir
    PROVE  Inv'
BY DEF Inv, Inside

LEMMA InvRestore ==
    ASSUME Inv, Restore
    PROVE  Inv'
<1>1. CASE FetchPlan \/ FetchPlanFails
  <2>1. ~dir /\ UNCHANGED <<dir, leftover, sweep>>
    BY <1>1, Zenon DEF Inv, Inside, FetchPlan, FetchPlanFails, staging, sweeping
  <2> QED BY <2>1, InvKept
<1>2. CASE NewStagingDir
  <2>1. UNCHANGED <<leftover, sweep>> /\ ~dir
    BY <1>2 DEF Inv, Inside, NewStagingDir, sweeping
  <2>2. pc' \in Inside \/ ~dir'
    BY <1>2, <2>1 DEF NewStagingDir, Inside
  <2>3. dir' \in BOOLEAN
    BY <1>2, Zenon DEF NewStagingDir, Inv
  <2> QED BY <2>1, <2>2, <2>3 DEF Inv
<1>3. CASE OpenFile \/ FetchEnds \/ WriteEnvelope \/ CloneFromDir
  <2>1. pc' \in Inside /\ UNCHANGED <<dir, leftover, sweep>>
    BY <1>3 DEF Inside, OpenFile, FetchEnds, WriteEnvelope, CloneFromDir, staging, sweeping
  <2> QED BY <2>1, InvKept, Zenon
<1>4. CASE Cleanup
  <2>1. dir' = FALSE /\ leftover' = leftover /\ sweep' = [sweep EXCEPT !.mine = FALSE]
    BY <1>4 DEF Cleanup
  <2> QED BY <2>1, Zenon DEF Inv, SweepRec
<1> QED BY <1>1, <1>2, <1>3, <1>4 DEF Restore

LEMMA InvSweep ==
    ASSUME Inv, SweepStaging
    PROVE  Inv'
<1>1. CASE SweepLists
  BY <1>1 DEF Inv, SweepRec, SweepLists, staging
<1>2. CASE SweepRemovesOld
  <2>1. /\ UNCHANGED <<dir, pc>> /\ sweep.old > 0 /\ leftover' = leftover - 1
        /\ sweep' = [sweep EXCEPT !.old = sweep.old - 1]
    BY <1>2 DEF SweepRemovesOld, staging
  <2>2. sweep.pc = "remove"
    BY <2>1 DEF Inv, SweepRec
  <2> QED BY <2>1, <2>2 DEF Inv, SweepRec
<1>3. CASE SweepRemovesMine
  <2>1. UNCHANGED <<leftover, pc>>
    BY <1>3 DEF SweepRemovesMine
  <2>2. \/ UNCHANGED <<dir, sweep>>
        \/ dir' = FALSE /\ sweep' = [sweep EXCEPT !.mine = FALSE]
    BY <1>3 DEF SweepRemovesMine
  <2>3. CASE UNCHANGED <<dir, sweep>>
    BY <2>1, <2>3, InvKept
  <2>4. CASE dir' = FALSE /\ sweep' = [sweep EXCEPT !.mine = FALSE]
    <3>1. dir' \in BOOLEAN /\ ~dir'
      BY <2>4, Zenon
    <3> QED BY <2>1, <2>4, <3>1, Zenon DEF Inv, SweepRec
  <2> QED BY <2>2, <2>3, <2>4, Zenon
<1>4. CASE SweepEnds
  BY <1>4 DEF Inv, SweepRec, SweepEnds, NoSweep, staging
<1> QED BY <1>1, <1>2, <1>3, <1>4, Zenon DEF SweepStaging

LEMMA InvNext ==
    ASSUME Inv, [Next]_vars
    PROVE  Inv'
<1>1. CASE UNCHANGED vars
  <2>1. pc' = pc /\ UNCHANGED <<dir, leftover, sweep>>
    BY <1>1, Zenon DEF vars, staging, sweeping
  <2> QED BY <2>1, InvKept
<1>2. CASE PeerRemoves \/ PeerSaves
  <2>1. pc' = pc /\ UNCHANGED <<dir, leftover, sweep>>
    BY <1>2 DEF PeerRemoves, PeerSaves, staging, sweeping
  <2> QED BY <2>1, InvKept
<1>3. CASE RestoreStarts
  <2>1. ~dir /\ UNCHANGED <<dir, leftover, sweep>>
    BY <1>3 DEF Inv, Inside, RestoreStarts, staging, sweeping
  <2> QED BY <2>1, InvKept
<1>4. CASE Restore
  BY <1>4, InvRestore, Zenon
<1>5. CASE Streams \/ \E i \in DOMAIN streams : StreamStalls(i)
  <2>1. pc' = pc /\ UNCHANGED <<dir, leftover, sweep>>
    BY <1>5, Zenon
       DEF Streams, StreamGets, StreamReads, StreamBreaks, StreamStalls, StallTimeout,
       StreamEnds, staging, sweeping
  <2> QED BY <2>1, InvKept
<1>6. CASE Restart
  <2>0. dir' \in BOOLEAN /\ ~dir'
    BY <1>6, Zenon DEF Restart
  <2>1. leftover' \in {leftover, leftover + 1}
    BY <1>6 DEF Restart
  <2>2. sweep' = [pc |-> "list", old |-> 0, mine |-> FALSE]
    BY <1>6, Zenon DEF Restart, NoSweep
  <2> QED BY <2>0, <2>1, <2>2 DEF Inv, SweepRec
<1>7. CASE SweepStaging
  BY <1>7, InvSweep
<1> QED BY <1>1, <1>2, <1>3, <1>4, <1>5, <1>6, <1>7, Zenon DEF Next

LEMMA InvInit ==
    ASSUME Init
    PROVE  Inv
<1>0. dir \in BOOLEAN /\ ~dir
  BY Zenon DEF Init
<1>1. leftover = 0
  BY DEF Init
<1>2. sweep = [pc |-> "off", old |-> 0, mine |-> FALSE]
  BY DEF Init, NoSweep
<1> QED BY <1>0, <1>1, <1>2 DEF Inv, SweepRec

\* NoStagingLeak holds in every state of every instance: Restore and its cleanup
\* remove the directory on every path that leaves fetchFiles or writeEnvelope, and
\* what a restart orphans at any point of a restore is found by SweepStaging, though
\* it runs beside new restores.
THEOREM NoStagingLeakAlways == Spec => []NoStagingLeak
<1>1. Init => Inv
  BY InvInit
<1>2. Inv /\ [Next]_vars => Inv'
  BY InvNext
<1>3. Inv => NoStagingLeak
  BY DEF Inv, NoStagingLeak, Inside, SweepRec
<1> QED BY <1>1, <1>2, <1>3, PTL DEF Spec

LEMMA LeastNatural ==
    ASSUME NEW T, T \subseteq Nat, T # {}
    PROVE  Least(T) \in T /\ \A y \in T : Least(T) <= y
<1> DEFINE R == {ss \in Nat \X Nat : ss[1] < ss[2]}
<1>1. IsWellFoundedOn(R, Nat)
  BY NatLessThanWellFounded, Zenon DEF OpToRel
<1> HIDE DEF R
<1>2. PICK x \in T : \A y \in T : ~ (<<y, x>> \in R)
  BY <1>1, WFMin, Zenon
<1>3. ASSUME NEW y \in T PROVE x <= y
  <2>1. x \in Nat /\ y \in Nat /\ ~ (<<y, x>> \in R)
    BY <1>2
  <2>2. ~ (y < x)
    BY <2>1 DEF R
  <2> QED BY <2>1, <2>2
<1> QED BY <1>3, Zenon DEF Least

LEMMA Induction ==
    ASSUME NEW N \in Nat, NEW T, 0 \in T, \A n \in 0..(N - 1) : n \in T => n + 1 \in T
    PROVE  0..N \subseteq T
<1> DEFINE U == (0..N) \ T
<1> SUFFICES ASSUME U # {} PROVE FALSE
  OBVIOUS
<1> DEFINE m == Least(U)
<1>1. m \in U /\ \A y \in U : m <= y
  BY LeastNatural
<1> HIDE DEF m
<1>2. m # 0 /\ m \in 1..N
  BY <1>1
<1>3. m - 1 \in 0..(N - 1) /\ m - 1 \in 0..N /\ ~(m <= m - 1) /\ (m - 1) + 1 = m
  BY <1>2
<1>4. m - 1 \in T
  BY <1>1, <1>3
<1> QED BY <1>1, <1>3, <1>4

IsStep(h, S, N) == h \in [S \X (1..N) -> S]
IsRun(f, start, h, S, N) ==
    /\ f \in [0..N -> S]
    /\ f[0] = start
    /\ \A n \in 1..N : f[n] = h[<<f[n - 1], n>>]

LEMMA LoopExists ==
    ASSUME NEW N \in Nat, NEW S, NEW start \in S, NEW h, IsStep(h, S, N)
    PROVE  \E f : IsRun(f, start, h, S, N)
<1> USE DEF IsStep
<1> DEFINE Runs(f, m) == f[0] = start /\ \A n \in 1..m : f[n] = h[<<f[n - 1], n>>]
           T == {m \in 0..N : \E f \in [0..m -> S] : Runs(f, m)}
<1>1. 0 \in T
  <2>1. [n \in 0..0 |-> start] \in [0..0 -> S] /\ Runs([n \in 0..0 |-> start], 0)
    OBVIOUS
  <2>2. \E f \in [0..0 -> S] : Runs(f, 0)
    BY <2>1, Zenon
  <2> QED BY <2>2
<1>2. ASSUME NEW m \in 0..(N - 1), m \in T
      PROVE  m + 1 \in T
  <2>1. PICK f \in [0..m -> S] : Runs(f, m)
    BY <1>2
  <2> DEFINE g == [n \in 0..(m + 1) |-> IF n = m + 1 THEN h[<<f[m], m + 1>>] ELSE f[n]]
  <2>2. m \in 0..m /\ m + 1 \in 1..N /\ m + 1 \in 0..(m + 1) /\ f[m] \in S
    OBVIOUS
  <2>3. h[<<f[m], m + 1>>] \in S
    BY <2>2
  <2>4. g \in [0..(m + 1) -> S] /\ g[m + 1] = h[<<f[m], m + 1>>] /\ \A n \in 0..m : g[n] = f[n]
    BY <2>2, <2>3
  <2> HIDE DEF g
  <2>5. \A n \in 1..(m + 1) : g[n] = h[<<g[n - 1], n>>]
    <3> TAKE n \in 1..(m + 1)
    <3>1. CASE n = m + 1
      <4>1. n - 1 = m
        BY <3>1
      <4> QED BY <3>1, <4>1, <2>2, <2>4, Zenon
    <3>2. CASE n \in 1..m
      <4>1. n \in 0..m /\ n - 1 \in 0..m
        BY <3>2
      <4> QED BY <2>1, <2>4, <3>2, <4>1, Zenon
    <3> QED BY <3>1, <3>2
  <2>6. Runs(g, m + 1)
    BY <2>1, <2>4, <2>5
  <2>7. \E e \in [0..(m + 1) -> S] : Runs(e, m + 1)
    BY <2>4, <2>6, Zenon
  <2> QED BY <2>7
<1>3. N \in T
  <2> HIDE DEF T
  <2>1. 0..N \subseteq T
    BY <1>1, <1>2, Induction, Zenon
  <2> QED BY <2>1
<1> QED BY <1>3 DEF IsRun

\* What a loop with a typed body goes through.
LEMMA LoopTyped ==
    ASSUME NEW N \in Nat, NEW S, NEW h, IsStep(h, S, N), NEW c, c[0] \in S,
           \A n \in 1..N : c[n - 1] \in S => c[n] = h[<<c[n - 1], n>>]
    PROVE  \A n \in 0..N : c[n] \in S
<1> DEFINE T == {n \in 0..N : c[n] \in S}
<1>1. 0 \in T
  OBVIOUS
<1>2. ASSUME NEW n \in 0..(N - 1), n \in T PROVE n + 1 \in T
  <2>1. n + 1 \in 1..N /\ n + 1 \in 0..N /\ (n + 1) - 1 = n /\ c[n] \in S
    BY <1>2
  <2>2. h[<<c[n], n + 1>>] \in S
    BY <2>1 DEF IsStep
  <2> QED BY <2>1, <2>2
<1>3. 0..N \subseteq T
  <2> HIDE DEF T
  <2> QED BY <1>1, <1>2, Induction, Zenon
<1> QED BY <1>3

Extent == [offset: Nat, length: Nat \ {0}]

LEMMA CoalesceRuns ==
    ASSUME NEW extents, Len(extents) \in Nat, NEW S, <<>> \in S,
           \A out \in S, i \in 1..Len(extents) : Merge(out, extents[i]) \in S
    PROVE  \E c : /\ c[0] = <<>>
                  /\ \A n \in 1..Len(extents) : c[n] = Merge(c[n - 1], extents[n])
                  /\ CoalesceExtents(extents) = c[Len(extents)]
<1> DEFINE N == Len(extents)
           Runs(f) == f = [n \in 0..N |-> IF n = 0 THEN <<>> ELSE Merge(f[n - 1], extents[n])]
           h == [x \in S \X (1..N) |-> Merge(x[1], extents[x[2]])]
           c == CHOOSE g : Runs(g)
<1>1. IsStep(h, S, N) /\ N \in Nat /\ \A s \in S, n \in 1..N : h[<<s, n>>] = Merge(s, extents[n])
  BY DEF IsStep
<1> HIDE DEF h
<1>2. CoalesceExtents(extents) = c[N]
  BY DEF CoalesceExtents, Loop
<1> HIDE DEF N
<1>3. PICK f : IsRun(f, <<>>, h, S, N)
  BY <1>1, LoopExists, Zenon
<1>4. \A n \in 1..N : n - 1 \in 0..N /\ n # 0 /\ n \in 0..N /\ f[n - 1] \in S
  BY <1>1, <1>3 DEF IsRun
<1>5. \A n \in 0..N : f[n] = IF n = 0 THEN <<>> ELSE Merge(f[n - 1], extents[n])
  <2>1. f[0] = <<>> /\ \A n \in 1..N : f[n] = Merge(f[n - 1], extents[n])
    BY <1>1, <1>3, <1>4, Zenon DEF IsRun
  <2>2. \A n \in 0..N : n = 0 \/ n \in 1..N
    BY <1>1
  <2> QED BY <2>1, <2>2, <1>4, Zenon
<1>6. Runs(f)
  BY <1>3, <1>5 DEF IsRun
<1>7. Runs(c)
  BY <1>6, Zenon
<1> HIDE DEF c
<1>8. c[0] = <<>> /\ \A n \in 1..N : c[n] = Merge(c[n - 1], extents[n])
  BY <1>1, <1>4, <1>7
<1> QED BY <1>2, <1>8 DEF N

LEMMA SplitRuns ==
    ASSUME NEW extents, Len(extents) \in Nat, NEW S, <<>> \in S,
           \A out \in S, i \in 1..Len(extents) : SplitExtent(out, extents[i]) \in S
    PROVE  \E c : /\ c[0] = <<>>
                  /\ \A n \in 1..Len(extents) : c[n] = SplitExtent(c[n - 1], extents[n])
                  /\ SplitExtents(extents) = c[Len(extents)]
<1> DEFINE N == Len(extents)
           Runs(f) == f = [n \in 0..N |-> IF n = 0 THEN <<>> ELSE SplitExtent(f[n - 1], extents[n])]
           h == [x \in S \X (1..N) |-> SplitExtent(x[1], extents[x[2]])]
           c == CHOOSE g : Runs(g)
<1>1. IsStep(h, S, N) /\ N \in Nat
      /\ \A s \in S, n \in 1..N : h[<<s, n>>] = SplitExtent(s, extents[n])
  BY DEF IsStep
<1> HIDE DEF h
<1>2. SplitExtents(extents) = c[N]
  BY DEF SplitExtents, Loop
<1> HIDE DEF N
<1>3. PICK f : IsRun(f, <<>>, h, S, N)
  BY <1>1, LoopExists, Zenon
<1>4. \A n \in 1..N : n - 1 \in 0..N /\ n # 0 /\ n \in 0..N /\ f[n - 1] \in S
  BY <1>1, <1>3 DEF IsRun
<1>5. \A n \in 0..N : f[n] = IF n = 0 THEN <<>> ELSE SplitExtent(f[n - 1], extents[n])
  <2>1. f[0] = <<>> /\ \A n \in 1..N : f[n] = SplitExtent(f[n - 1], extents[n])
    BY <1>1, <1>3, <1>4, Zenon DEF IsRun
  <2>2. \A n \in 0..N : n = 0 \/ n \in 1..N
    BY <1>1
  <2> QED BY <2>1, <2>2, <1>4, Zenon
<1>6. Runs(f)
  BY <1>3, <1>5 DEF IsRun
<1>7. Runs(c)
  BY <1>6, Zenon
<1> HIDE DEF c
<1>8. c[0] = <<>> /\ \A n \in 1..N : c[n] = SplitExtent(c[n - 1], extents[n])
  BY <1>1, <1>4, <1>7
<1> QED BY <1>2, <1>8 DEF N

LEMMA ScanRuns ==
    ASSUME Size \in Nat, NEW S, NEW start \in S, \A s \in S : Seek(s) \in S
    PROVE  \E c : /\ c[0] = start
                  /\ \A n \in 1..Size : c[n] = Seek(c[n - 1])
                  /\ \A n \in 0..Size : c[n] \in S
                  /\ Loop(Size, start, LAMBDA s, n : Seek(s)) = c[Size]
<1> DEFINE N == Size
           Runs(f) == f = [n \in 0..N |-> IF n = 0 THEN start ELSE Seek(f[n - 1])]
           h == [x \in S \X (1..N) |-> Seek(x[1])]
           c == CHOOSE g : Runs(g)
<1>1. IsStep(h, S, N) /\ N \in Nat /\ \A s \in S, n \in 1..N : h[<<s, n>>] = Seek(s)
  BY DEF IsStep
<1> HIDE DEF h
<1>2. Loop(Size, start, LAMBDA s, n : Seek(s)) = c[N]
  BY DEF Loop
<1> HIDE DEF N
<1>3. PICK f : IsRun(f, start, h, S, N)
  BY <1>1, LoopExists, Zenon
<1>4. \A n \in 1..N : n - 1 \in 0..N /\ n # 0 /\ n \in 0..N /\ f[n - 1] \in S
  BY <1>1, <1>3 DEF IsRun
<1>5. \A n \in 0..N : f[n] = IF n = 0 THEN start ELSE Seek(f[n - 1])
  <2>1. f[0] = start /\ \A n \in 1..N : f[n] = Seek(f[n - 1])
    BY <1>1, <1>3, <1>4, Zenon DEF IsRun
  <2>2. \A n \in 0..N : n = 0 \/ n \in 1..N
    BY <1>1
  <2> QED BY <2>1, <2>2, <1>4, Zenon
<1>6. Runs(f)
  BY <1>3, <1>5 DEF IsRun
<1>7. Runs(c)
  BY <1>6, Zenon
<1> HIDE DEF c
<1>8. c[0] = start /\ \A n \in 1..N : c[n] = Seek(c[n - 1])
  BY <1>1, <1>4, <1>7
<1>9. \A n \in 0..N : c[n] \in S
  BY <1>1, <1>8, LoopTyped
<1> QED BY <1>2, <1>8, <1>9, Zenon DEF N

LEMMA CutRuns ==
    ASSUME NEW e, e.length \in Nat, NEW out, NEW S, [off |-> e.offset, out |-> out] \in S,
           \A s \in S : Cut(e, s) \in S
    PROVE  \E c : /\ c[0] = [off |-> e.offset, out |-> out]
                  /\ \A n \in 1..e.length : c[n] = Cut(e, c[n - 1])
                  /\ \A n \in 0..e.length : c[n] \in S
                  /\ SplitExtent(out, e) = c[e.length].out
<1> DEFINE N == e.length
           start == [off |-> e.offset, out |-> out]
           Runs(f) == f = [n \in 0..N |-> IF n = 0 THEN start ELSE Cut(e, f[n - 1])]
           h == [x \in S \X (1..N) |-> Cut(e, x[1])]
           c == CHOOSE g : Runs(g)
<1>1. IsStep(h, S, N) /\ N \in Nat /\ \A s \in S, n \in 1..N : h[<<s, n>>] = Cut(e, s)
  BY DEF IsStep
<1> HIDE DEF h
<1>2. SplitExtent(out, e) = c[N].out
  BY Zenon DEF Loop, SplitExtent
<1>0. start \in S
  BY Zenon
<1> HIDE DEF N, start
<1>3. PICK f : IsRun(f, start, h, S, N)
  BY <1>0, <1>1, LoopExists, Zenon
<1>4. \A n \in 1..N : n - 1 \in 0..N /\ n # 0 /\ n \in 0..N /\ f[n - 1] \in S
  BY <1>1, <1>3 DEF IsRun
<1>5. \A n \in 0..N : f[n] = IF n = 0 THEN start ELSE Cut(e, f[n - 1])
  <2>1. f[0] = start /\ \A n \in 1..N : f[n] = Cut(e, f[n - 1])
    BY <1>1, <1>3, <1>4, Zenon DEF IsRun
  <2>2. \A n \in 0..N : n = 0 \/ n \in 1..N
    BY <1>1
  <2> QED BY <2>1, <2>2, <1>4, Zenon
<1>6. Runs(f)
  BY <1>3, <1>5 DEF IsRun
<1>7. Runs(c)
  BY <1>6, Zenon
<1> HIDE DEF c
<1>8. c[0] = start /\ \A n \in 1..N : c[n] = Cut(e, c[n - 1])
  BY <1>1, <1>4, <1>7
<1>9. \A n \in 0..N : c[n] \in S
  BY <1>0, <1>1, <1>8, LoopTyped
<1> QED BY <1>2, <1>8, <1>9, Zenon DEF N, start

EndOf(e) == e.offset + e.length
Covers(s, b) == \E i \in DOMAIN s : b \in Blocks(s[i])

\* Extents in order, apart, up to an offset.
Sorted(s, hi) ==
    /\ s \in Seq(Extent)
    /\ \A i \in DOMAIN s : EndOf(s[i]) <= hi
    /\ \A i, j \in DOMAIN s : i < j => EndOf(s[i]) <= s[j].offset

LEMMA EmptySorted == Sorted(<<>>, 0)
BY DEF Sorted

LEMMA SortedBeyond ==
    ASSUME NEW s, NEW lo \in Nat, NEW hi \in Nat, Sorted(s, lo), lo <= hi
    PROVE  Sorted(s, hi)
<1>1. \A i \in DOMAIN s : s[i] \in Extent
  BY DEF Sorted
<1> QED BY <1>1 DEF Sorted, Extent, EndOf

LEMMA AppendSorted ==
    ASSUME NEW s, NEW hi \in Nat, NEW e \in Extent, Sorted(s, hi), hi <= e.offset
    PROVE  /\ Sorted(Append(s, e), EndOf(e))
           /\ \A b : Covers(s, b) \/ b \in Blocks(e) => Covers(Append(s, e), b)
<1> DEFINE t == Append(s, e)
<1>1. s \in Seq(Extent) /\ t \in Seq(Extent) /\ Len(t) = Len(s) + 1 /\ Len(s) \in Nat
  BY DEF Sorted
<1>2. DOMAIN s = 1..Len(s) /\ DOMAIN t = 1..(Len(s) + 1)
  BY <1>1
<1>3. t[Len(s) + 1] = e /\ \A i \in 1..Len(s) : t[i] = s[i] /\ i \in DOMAIN t
  BY <1>1
<1> HIDE DEF t
<1>4. e.offset \in Nat /\ e.length \in Nat /\ e.length > 0
  BY DEF Extent
<1>5. ASSUME NEW i \in 1..Len(s)
      PROVE  s[i].offset \in Nat /\ s[i].length \in Nat /\ EndOf(s[i]) <= hi
  <2>1. s[i] \in Extent
    BY <1>1
  <2>2. i \in DOMAIN s
    BY <1>2, Zenon
  <2>3. EndOf(s[i]) <= hi
    BY <2>2 DEF Sorted
  <2> QED BY <2>1, <2>3 DEF Extent
<1>6. \A i \in DOMAIN t : i \in 1..Len(s) \/ i = Len(s) + 1
  BY <1>1, <1>2
<1>7. ASSUME NEW i \in DOMAIN t PROVE EndOf(t[i]) <= EndOf(e)
  <2>1. CASE i \in 1..Len(s)
    <3>1. t[i] = s[i] /\ s[i].offset \in Nat /\ s[i].length \in Nat /\ EndOf(s[i]) <= hi
      BY <1>3, <1>5, <2>1, Zenon
    <3> QED BY <1>4, <3>1 DEF EndOf
  <2>2. CASE i = Len(s) + 1
    BY <1>3, <1>4, <2>2 DEF EndOf
  <2> QED BY <1>6, <2>1, <2>2, Zenon
<1>8. ASSUME NEW i \in DOMAIN t, NEW j \in DOMAIN t, i < j PROVE EndOf(t[i]) <= t[j].offset
  <2>1. i \in 1..Len(s)
    BY <1>1, <1>2, <1>8
  <2>2. CASE j = Len(s) + 1
    BY <1>3, <1>4, <1>5, <2>1, <2>2 DEF EndOf
  <2>3. CASE j \in 1..Len(s)
    BY <1>2, <1>3, <1>8, <2>1, <2>3, Zenon DEF Sorted
  <2> QED BY <1>6, <2>2, <2>3, Zenon
<1>9. Sorted(t, EndOf(e))
  BY <1>1, <1>7, <1>8, Zenon DEF Sorted
<1>10. \A b : Covers(s, b) => Covers(t, b)
  BY <1>2, <1>3, Zenon DEF Covers
<1>11. Len(s) + 1 \in DOMAIN t
  BY <1>1, <1>2
<1>12. \A b \in Blocks(e) : Covers(t, b)
  BY <1>3, <1>11, Zenon DEF Covers
<1> QED BY <1>9, <1>10, <1>12, Zenon DEF t

LEMMA FileSize ==
    ASSUME MaxSize \in Nat, layout \in Layouts
    PROVE  Size \in 0..MaxSize /\ Size \in Nat /\ DOMAIN layout = 0..(Size - 1)
<1>1. PICK n \in 0..MaxSize : layout \in [0..(n - 1) -> {"hole", "zero", "data"}]
  BY DEF Layouts
<1>2. DOMAIN layout = 0..(n - 1) /\ n \in Nat
  BY <1>1
<1>3. Cardinality(0..(n - 1)) = IF 0 > n - 1 THEN 0 ELSE (n - 1) - 0 + 1
  BY <1>2, FS_Interval
<1>4. Size = n
  BY <1>2, <1>3 DEF Size
<1> QED BY <1>2, <1>4, Zenon

\* SEEK_DATA finds the first data at or after the offset, SEEK_HOLE its end.
LEMMA SeekFinds ==
    ASSUME Size \in Nat, NEW off \in 0..Size, DataFrom(off) # {}
    PROVE  LET start == DataStart(off)
               hole == HoleStart(start)
           IN /\ start \in off..(Size - 1)
              /\ hole \in (start + 1)..Size
              /\ \A b \in off..(start - 1) : layout[b] = "hole"
<1> DEFINE start == DataStart(off)
           hole == HoleStart(start)
           ends == {b \in start..Size : b = Size \/ layout[b] = "hole"}
<1>1. DataFrom(off) \subseteq Nat
  BY DEF DataFrom
<1>2. start \in DataFrom(off) /\ \A b \in DataFrom(off) : start <= b
  BY <1>1, LeastNatural, Zenon DEF DataStart
<1> HIDE DEF start
<1>3. start \in off..(Size - 1) /\ layout[start] # "hole" /\ start \in Nat
  BY <1>2 DEF DataFrom
<1>4. \A b \in off..(start - 1) : layout[b] = "hole"
  <2> SUFFICES ASSUME NEW b \in off..(start - 1), layout[b] # "hole" PROVE FALSE
    OBVIOUS
  <2>1. b \in DataFrom(off) /\ ~(start <= b)
    BY <1>3 DEF DataFrom
  <2> QED BY <1>2, <2>1, Zenon
<1>5. ends \subseteq Nat /\ Size \in ends
  BY <1>3
<1>6. hole \in ends
  BY <1>5, LeastNatural, Zenon DEF HoleStart
<1>7. hole \in (start + 1)..Size
  BY <1>3, <1>6
<1> QED BY <1>3, <1>4, <1>7, Zenon DEF start

Scanning == [off: 0..Size, out: Seq(Extent)]

\* What scanExtents has found: the data up to the offset.
ScanInv(s, n) ==
    /\ Sorted(s.out, s.off)
    /\ \A b \in 0..(s.off - 1) : layout[b] # "hole" => Covers(s.out, b)
    /\ n <= s.off \/ DataFrom(s.off) = {}

LEMMA SeekTyped ==
    ASSUME Size \in Nat, NEW s \in Scanning
    PROVE  Seek(s) \in Scanning
<1> DEFINE start == DataStart(s.off)
           hole == HoleStart(start)
           e == [offset |-> start, length |-> hole - start]
<1>1. s.off \in 0..Size /\ s.out \in Seq(Extent)
  BY DEF Scanning
<1>2. CASE DataFrom(s.off) = {}
  BY <1>2, Zenon DEF Seek
<1>3. CASE DataFrom(s.off) # {}
  <2>1. start \in s.off..(Size - 1) /\ hole \in (start + 1)..Size
    BY <1>1, <1>3, SeekFinds, Zenon
  <2>2. Seek(s) = [off |-> hole, out |-> Append(s.out, e)]
    BY <1>3 DEF Seek
  <2> HIDE DEF start, hole
  <2>3. hole \in 0..Size /\ start \in Nat /\ hole - start \in Nat \ {0}
    BY <1>1, <2>1
  <2>4. e \in Extent
    BY <2>3 DEF Extent
  <2> HIDE DEF e
  <2>5. Append(s.out, e) \in Seq(Extent)
    BY <1>1, <2>4
  <2> QED BY <2>2, <2>3, <2>5 DEF Scanning
<1> QED BY <1>2, <1>3, Zenon

LEMMA SeekKeeps ==
    ASSUME Size \in Nat, NEW s \in Scanning, NEW n \in Nat, ScanInv(s, n)
    PROVE  ScanInv(Seek(s), n + 1)
<1> DEFINE start == DataStart(s.off)
           hole == HoleStart(start)
           e == [offset |-> start, length |-> hole - start]
<1>1. s.off \in 0..Size /\ s.out \in Seq(Extent) /\ s.off \in Nat
  BY DEF Scanning
<1>2. CASE DataFrom(s.off) = {}
  BY <1>2, Zenon DEF Seek, ScanInv
<1>3. CASE DataFrom(s.off) # {}
  <2>1. /\ start \in s.off..(Size - 1) /\ hole \in (start + 1)..Size
        /\ \A b \in s.off..(start - 1) : layout[b] = "hole"
    BY <1>1, <1>3, SeekFinds, Zenon
  <2>2. Seek(s) = [off |-> hole, out |-> Append(s.out, e)]
    BY <1>3 DEF Seek
  <2> HIDE DEF start, hole
  <2>3. hole \in 0..Size /\ start \in Nat /\ hole \in Nat /\ hole - start \in Nat \ {0}
    BY <1>1, <2>1
  <2>4. e \in Extent /\ e.offset = start /\ EndOf(e) = hole /\ Blocks(e) = start..(hole - 1)
    BY <2>3 DEF Extent, EndOf, Blocks
  <2> HIDE DEF e
  <2>5. /\ Sorted(Append(s.out, e), hole)
        /\ \A b : Covers(s.out, b) \/ b \in Blocks(e) => Covers(Append(s.out, e), b)
    BY <1>1, <2>1, <2>4, AppendSorted DEF ScanInv
  <2>6. ASSUME NEW b \in 0..(hole - 1), layout[b] # "hole" PROVE Covers(Append(s.out, e), b)
    <3>1. b \in 0..(s.off - 1) \/ b \in s.off..(start - 1) \/ b \in start..(hole - 1)
      BY <1>1, <2>1, <2>3
    <3> QED BY <2>1, <2>4, <2>5, <2>6, <3>1, Zenon DEF ScanInv
  <2>7. n + 1 <= hole
    BY <1>1, <1>3, <2>1 DEF ScanInv
  <2> QED BY <2>2, <2>5, <2>6, <2>7 DEF ScanInv
<1> QED BY <1>2, <1>3, Zenon

\* scanExtents loses no data.
LEMMA ScanIsSound ==
    ASSUME Size \in Nat, NEW seeks \in BOOLEAN
    PROVE  /\ Sorted(ScanExtents(seeks), Size)
           /\ \A b \in 0..(Size - 1) : layout[b] # "hole" => Covers(ScanExtents(seeks), b)
<1>1. CASE Size = 0
  <2>1. ScanExtents(seeks) = <<>>
    BY <1>1, Zenon DEF ScanExtents
  <2> QED BY <1>1, <2>1, EmptySorted
<1>2. CASE Size # 0 /\ ~seeks
  <2> DEFINE e == [offset |-> 0, length |-> Size]
  <2>1. ScanExtents(seeks) = Append(<<>>, e)
    BY <1>2 DEF ScanExtents
  <2>2. e \in Extent /\ e.offset = 0 /\ EndOf(e) = Size /\ Blocks(e) = 0..(Size - 1)
    BY <1>2 DEF Extent, EndOf, Blocks
  <2> HIDE DEF e
  <2>3. /\ Sorted(Append(<<>>, e), EndOf(e))
        /\ \A b : Covers(<<>>, b) \/ b \in Blocks(e) => Covers(Append(<<>>, e), b)
    <3>1. 0 \in Nat /\ 0 <= e.offset
      BY <2>2
    <3> QED BY <2>2, <3>1, EmptySorted, AppendSorted, Zenon
  <2> QED BY <2>1, <2>2, <2>3, Zenon
<1>3. CASE Size # 0 /\ seeks
  <2> DEFINE start == [off |-> 0, out |-> <<>>]
  <2>1. start \in Scanning /\ ScanInv(start, 0)
    BY EmptySorted DEF Scanning, ScanInv
  <2>2. ScanExtents(seeks) = Loop(Size, start, LAMBDA s, n : Seek(s)).out
    BY <1>3 DEF ScanExtents
  <2> HIDE DEF start
  <2>3. PICK c : /\ c[0] = start
                 /\ \A n \in 1..Size : c[n] = Seek(c[n - 1])
                 /\ \A n \in 0..Size : c[n] \in Scanning
                 /\ Loop(Size, start, LAMBDA s, n : Seek(s)) = c[Size]
    BY <2>1, SeekTyped, ScanRuns, Zenon
  <2> DEFINE T == {n \in 0..Size : ScanInv(c[n], n)}
  <2>4. 0 \in T
    <3>1. ScanInv(c[0], 0)
      BY <2>1, <2>3, Zenon
    <3> QED BY <3>1
  <2>5. ASSUME NEW n \in 0..(Size - 1), n \in T PROVE n + 1 \in T
    <3>1. n + 1 \in 1..Size /\ n + 1 \in 0..Size /\ (n + 1) - 1 = n /\ n \in Nat /\ n \in 0..Size
      OBVIOUS
    <3>2. c[n + 1] = Seek(c[n]) /\ c[n] \in Scanning /\ ScanInv(c[n], n)
      BY <2>3, <2>5, <3>1, Zenon
    <3>3. ScanInv(c[n + 1], n + 1)
      BY <3>1, <3>2, SeekKeeps, Zenon
    <3> QED BY <3>1, <3>3, Zenon
  <2>6. Size \in T
    <3> HIDE DEF T
    <3>1. 0..Size \subseteq T
      BY <2>4, <2>5, Induction, Zenon
    <3> QED BY <3>1
  <2> DEFINE s == c[Size]
  <2>7. s \in Scanning /\ ScanInv(s, Size) /\ ScanExtents(seeks) = s.out
    BY <2>2, <2>3, <2>6, Zenon
  <2> HIDE DEF s
  <2>8. s.off \in 0..Size
    BY <2>7, Zenon DEF Scanning
  <2>9. Sorted(s.out, Size)
    BY <2>7, <2>8, SortedBeyond DEF ScanInv
  <2>10. DataFrom(s.off) = {}
    BY <2>7, <2>8 DEF ScanInv, DataFrom
  <2>11. ASSUME NEW b \in 0..(Size - 1), layout[b] # "hole" PROVE Covers(s.out, b)
    <3>1. b \in 0..(s.off - 1)
      BY <2>8, <2>10, <2>11 DEF DataFrom
    <3> QED BY <2>7, <2>11, <3>1, Zenon DEF ScanInv
  <2> QED BY <2>7, <2>9, <2>11, Zenon
<1> QED BY <1>1, <1>2, <1>3, Zenon

LooseExtent == [offset: Nat, length: Int]
Near(out, e) == out # <<>> /\ e.offset - EndOf(out[Len(out)]) <= tuning.gap

LEMMA MergeTyped ==
    ASSUME NEW out \in Seq(LooseExtent), NEW e \in Extent
    PROVE  Merge(out, e) \in Seq(LooseExtent)
<1> DEFINE last == out[Len(out)]
           merged == [out EXCEPT ![Len(out)].length = e.offset + e.length - last.offset]
<1>0. e \in LooseExtent /\ e.offset \in Nat /\ e.length \in Nat
  BY DEF Extent, LooseExtent
<1>1. CASE Near(out, e)
  <2>1. Merge(out, e) = merged
    BY <1>1 DEF Merge, Near, EndOf
  <2>2. Len(out) \in DOMAIN out /\ last \in LooseExtent /\ Len(out) \in Nat
    BY <1>1 DEF Near
  <2>3. [last EXCEPT !.length = e.offset + e.length - last.offset] \in LooseExtent
    BY <1>0, <2>2 DEF LooseExtent
  <2>4. merged = [out EXCEPT ![Len(out)] =
                    [last EXCEPT !.length = e.offset + e.length - last.offset]]
    OBVIOUS
  <2> QED BY <2>1, <2>2, <2>3, <2>4
<1>2. CASE ~Near(out, e)
  <2>1. Merge(out, e) = Append(out, e)
    BY <1>2, Zenon DEF Merge, Near, EndOf
  <2> QED BY <1>0, <2>1
<1> QED BY <1>1, <1>2, Zenon

LEMMA MergeKeeps ==
    ASSUME NEW out, NEW hi \in Nat, NEW e \in Extent, Sorted(out, hi), hi <= e.offset
    PROVE  /\ Sorted(Merge(out, e), EndOf(e))
           /\ \A b \in Nat : Covers(out, b) \/ b \in Blocks(e) => Covers(Merge(out, e), b)
<1>1. CASE ~Near(out, e)
  <2>1. Merge(out, e) = Append(out, e)
    BY <1>1, Zenon DEF Merge, Near, EndOf
  <2> QED BY <2>1, AppendSorted, Zenon
<1>2. CASE Near(out, e)
  <2> DEFINE N == Len(out)
             last == out[N]
             grown == [offset |-> last.offset, length |-> EndOf(e) - last.offset]
             t == [out EXCEPT ![N] = grown]
  <2>1. out \in Seq(Extent) /\ N \in Nat /\ N \in DOMAIN out /\ DOMAIN out = 1..N
    BY <1>2 DEF Sorted, Near
  <2>2. ASSUME NEW i \in DOMAIN out
        PROVE  /\ out[i] \in Extent /\ out[i].offset \in Nat /\ out[i].length \in Nat
               /\ out[i].length > 0
    <3>1. out[i] \in Extent
      BY <2>1
    <3> QED BY <3>1 DEF Extent
  <2>3. e.offset \in Nat /\ e.length \in Nat /\ e.length > 0
    BY DEF Extent
  <2>4. last.offset \in Nat /\ last.length \in Nat /\ EndOf(last) <= hi /\ EndOf(last) \in Nat
        /\ last.length > 0
    BY <2>1, <2>2 DEF Sorted, EndOf
  <2>5. grown \in Extent /\ grown.offset = last.offset /\ EndOf(grown) = EndOf(e)
        /\ Blocks(grown) = last.offset..(EndOf(e) - 1)
    <3> HIDE DEF last
    <3>1. last.offset <= EndOf(last) /\ EndOf(e) \in Nat /\ e.offset < EndOf(e)
      BY <2>3, <2>4 DEF EndOf
    <3>2. last.offset < EndOf(e)
      BY <2>3, <2>4, <3>1
    <3>3. EndOf(e) - last.offset \in Nat \ {0}
      BY <2>4, <3>1, <3>2
    <3>4. grown.offset = last.offset /\ grown.length = EndOf(e) - last.offset /\ grown \in Extent
      BY <2>4, <3>3, Zenon DEF Extent
    <3> HIDE DEF grown
    <3>5. grown.offset + grown.length = EndOf(e)
      BY <2>4, <3>1, <3>4
    <3>6. EndOf(grown) = EndOf(e)
      BY <3>5, Zenon DEF EndOf
    <3>7. Blocks(grown) = last.offset..(EndOf(e) - 1)
      <4>1. grown.offset \in Nat /\ grown.length \in Nat
        BY <3>4, Zenon DEF Extent
      <4>2. grown.offset + grown.length - 1 = EndOf(e) - 1 /\ grown.offset = last.offset
        BY <3>1, <3>4, <3>5, <4>1
      <4> QED BY <4>2, Zenon DEF Blocks
    <3> QED BY <3>4, <3>6, <3>7, Zenon
  <2>6. Merge(out, e) = t
    <3>1. last \in Extent
      BY <2>1, <2>2
    <3>2. [last EXCEPT !.length = e.offset + e.length - last.offset] = grown
      <4> HIDE DEF last
      <4> QED BY <3>1 DEF EndOf, Extent
    <3>3. Merge(out, e) = [out EXCEPT ![N] = [last EXCEPT !.length = e.offset + e.length - last.offset]]
      BY <1>2, Zenon DEF Merge, Near, EndOf
    <3> QED BY <3>2, <3>3, Zenon
  <2> HIDE DEF grown
  <2>7. /\ t \in Seq(Extent) /\ DOMAIN t = DOMAIN out /\ t[N] = grown
        /\ \A i \in DOMAIN out : i # N => t[i] = out[i]
    BY <2>1, <2>5
  <2> HIDE DEF t
  <2>8. ASSUME NEW i \in DOMAIN t PROVE EndOf(t[i]) <= EndOf(e)
    <3>1. CASE i = N
      BY <2>3, <2>5, <2>7, <3>1 DEF EndOf
    <3>2. CASE i # N
      <4>1. t[i] = out[i] /\ EndOf(out[i]) <= hi
        BY <2>7, <3>2, Zenon DEF Sorted
      <4> QED BY <2>2, <2>3, <2>7, <4>1 DEF EndOf
    <3> QED BY <3>1, <3>2, Zenon
  <2>9. ASSUME NEW i \in DOMAIN t, NEW j \in DOMAIN t, i < j PROVE EndOf(t[i]) <= t[j].offset
    <3>1. i # N /\ t[i] = out[i] /\ i \in DOMAIN out /\ j \in DOMAIN out
      BY <2>1, <2>7, <2>9
    <3>2. t[j].offset = out[j].offset
      BY <2>5, <2>7, <3>1, Zenon
    <3> QED BY <2>9, <3>1, <3>2, Zenon DEF Sorted
  <2>10. Sorted(t, EndOf(e))
    BY <2>7, <2>8, <2>9, Zenon DEF Sorted
  <2>11. ASSUME NEW b \in Nat, Covers(out, b) \/ b \in Blocks(e) PROVE Covers(t, b)
    <3>1. CASE b \in Blocks(e)
      <4> HIDE DEF last
      <4>0. last.offset <= EndOf(last)
        BY <2>4 DEF EndOf
      <4>1. e.offset <= b /\ b < EndOf(e) /\ last.offset <= e.offset
        BY <2>3, <2>4, <3>1, <4>0 DEF Blocks, EndOf
      <4>2. b \in last.offset..(EndOf(e) - 1)
        BY <2>3, <2>4, <4>1 DEF EndOf
      <4> QED BY <2>1, <2>5, <2>7, <4>2, Zenon DEF Covers
    <3>2. CASE Covers(out, b)
      <4>1. PICK i \in DOMAIN out : b \in Blocks(out[i])
        BY <3>2, Zenon DEF Covers
      <4>2. CASE i = N
        <5>0. b \in last.offset..(last.offset + last.length - 1)
          BY <4>1, <4>2, Zenon DEF Blocks
        <5>1. last.offset <= b /\ b < EndOf(last) /\ EndOf(last) <= EndOf(e)
          <6> HIDE DEF last
          <6> QED BY <2>3, <2>4, <5>0 DEF EndOf
        <5>2. b \in last.offset..(EndOf(e) - 1)
          BY <2>3, <2>4, <5>1 DEF EndOf
        <5> QED BY <2>1, <2>5, <2>7, <5>2, Zenon DEF Covers
      <4>3. CASE i # N
        BY <2>7, <4>1, <4>3, Zenon DEF Covers
      <4> QED BY <4>2, <4>3, Zenon
    <3> QED BY <2>11, <3>1, <3>2, Zenon
  <2> QED BY <2>6, <2>10, <2>11, Zenon
<1> QED BY <1>1, <1>2, Zenon

\* The end of the n-th extent.
Upto(s, n) == IF n = 0 THEN 0 ELSE EndOf(s[n])

LEMMA UptoIsSorted ==
    ASSUME NEW s, NEW hi \in Nat, Sorted(s, hi), NEW n \in 0..Len(s)
    PROVE  /\ Upto(s, n) \in Nat /\ Upto(s, n) <= hi
           /\ n < Len(s) => Upto(s, n) <= s[n + 1].offset
<1>1. s \in Seq(Extent) /\ Len(s) \in Nat /\ DOMAIN s = 1..Len(s)
  BY DEF Sorted
<1>2. ASSUME NEW i \in 1..Len(s) PROVE s[i] \in Extent /\ EndOf(s[i]) \in Nat /\ s[i].offset \in Nat
  <2>1. s[i] \in Extent
    BY <1>1
  <2> QED BY <2>1 DEF Extent, EndOf
<1>3. CASE n = 0
  <2>1. Upto(s, n) = 0
    BY <1>3, Zenon DEF Upto
  <2>2. n < Len(s) => s[n + 1].offset \in Nat
    BY <1>1, <1>2, <1>3
  <2> QED BY <2>1, <2>2
<1>4. CASE n # 0
  <2>1. n \in 1..Len(s) /\ n \in DOMAIN s /\ Upto(s, n) = EndOf(s[n])
    BY <1>1, <1>4 DEF Upto
  <2>2. EndOf(s[n]) \in Nat /\ EndOf(s[n]) <= hi
    BY <1>2, <2>1, Zenon DEF Sorted
  <2>3. ASSUME n < Len(s) PROVE EndOf(s[n]) <= s[n + 1].offset
    <3>1. n + 1 \in DOMAIN s /\ n < n + 1
      BY <1>1, <2>1, <2>3
    <3> QED BY <2>1, <3>1, Zenon DEF Sorted
  <2> QED BY <2>1, <2>2, <2>3, Zenon
<1> QED BY <1>3, <1>4, Zenon

\* What a loop over sorted extents has: all of the first n.
Joined(out, s, n) ==
    /\ Sorted(out, Upto(s, n))
    /\ \A i \in 1..n : \A b \in Nat : b \in Blocks(s[i]) => Covers(out, b)

\* coalesceExtents loses no data.
LEMMA CoalesceIsSound ==
    ASSUME NEW s, NEW hi \in Nat, Sorted(s, hi)
    PROVE  /\ Sorted(CoalesceExtents(s), hi)
           /\ \A b \in Nat : Covers(s, b) => Covers(CoalesceExtents(s), b)
<1> DEFINE N == Len(s)
<1>1. s \in Seq(Extent) /\ N \in Nat /\ DOMAIN s = 1..N /\ \A i \in 1..N : s[i] \in Extent
  BY DEF Sorted
<1>2. <<>> \in Seq(LooseExtent)
  OBVIOUS
<1>3. \A out \in Seq(LooseExtent), i \in 1..N : Merge(out, s[i]) \in Seq(LooseExtent)
  BY <1>1, MergeTyped, Zenon
<1>4. PICK c : /\ c[0] = <<>>
               /\ \A n \in 1..N : c[n] = Merge(c[n - 1], s[n])
               /\ CoalesceExtents(s) = c[N]
  BY <1>1, <1>2, <1>3, CoalesceRuns, Zenon
<1> HIDE DEF N
<1> DEFINE T == {n \in 0..N : Joined(c[n], s, n)}
<1>5. 0 \in T
  <2>1. Joined(<<>>, s, 0)
    BY EmptySorted DEF Joined, Upto
  <2>2. Joined(c[0], s, 0)
    BY <1>4, <2>1, Zenon
  <2> QED BY <1>1, <2>2
<1>6. ASSUME NEW n \in 0..(N - 1), n \in T PROVE n + 1 \in T
  <2>1. n + 1 \in 1..N /\ n + 1 \in 0..N /\ (n + 1) - 1 = n /\ n + 1 # 0 /\ n < N /\ n \in 0..N
    BY <1>1
  <2> DEFINE e == s[n + 1]
  <2>2. c[n + 1] = Merge(c[n], e) /\ e \in Extent /\ Joined(c[n], s, n)
    BY <1>1, <1>4, <1>6, <2>1, Zenon
  <2>3. Upto(s, n) \in Nat /\ Upto(s, n) <= e.offset /\ Upto(s, n + 1) = EndOf(e)
    BY <2>1, UptoIsSorted, Zenon DEF Upto, N
  <2> HIDE DEF e
  <2>4. /\ Sorted(c[n + 1], EndOf(e))
        /\ \A b \in Nat : Covers(c[n], b) \/ b \in Blocks(e) => Covers(c[n + 1], b)
    BY <2>2, <2>3, MergeKeeps DEF Joined
  <2>5. ASSUME NEW i \in 1..(n + 1), NEW b \in Nat, b \in Blocks(s[i]) PROVE Covers(c[n + 1], b)
    <3>1. i = n + 1 \/ i \in 1..n
      OBVIOUS
    <3> QED BY <2>2, <2>4, <2>5, <3>1, Zenon DEF Joined, e
  <2> QED BY <2>1, <2>3, <2>4, <2>5, Zenon DEF Joined
<1>7. N \in T
  <2> HIDE DEF T
  <2>1. 0..N \subseteq T
    BY <1>1, <1>5, <1>6, Induction, Zenon
  <2> QED BY <1>1, <2>1
<1>8. Sorted(c[N], hi)
  <2>1. Upto(s, N) \in Nat /\ Upto(s, N) <= hi /\ Sorted(c[N], Upto(s, N))
    BY <1>1, <1>7, UptoIsSorted, Zenon DEF Joined, N
  <2> QED BY <2>1, SortedBeyond, Zenon
<1>9. \A b \in Nat : Covers(s, b) => Covers(c[N], b)
  BY <1>1, <1>7, Zenon DEF Covers, Joined
<1> QED BY <1>4, <1>8, <1>9, Zenon

Cutting == [off: Nat, out: Seq(Extent)]
Limited(s) == \A i \in DOMAIN s : s[i].length <= tuning.limit
Least2(a, b) == IF a < b THEN a ELSE b

LEMMA CutTyped ==
    ASSUME tuning.limit \in Nat \ {0}, NEW e \in Extent, NEW s \in Cutting
    PROVE  Cut(e, s) \in Cutting
<1> DEFINE left == e.offset + e.length - s.off
           x == [offset |-> s.off, length |-> IF tuning.limit < left THEN tuning.limit ELSE left]
<1>1. s.off \in Nat /\ s.out \in Seq(Extent) /\ e.offset \in Nat /\ e.length \in Nat
  BY DEF Cutting, Extent
<1>2. left \in Int
  BY <1>1
<1> HIDE DEF left
<1>3. CASE left <= 0
  BY <1>3, Zenon DEF Cut, left
<1>4. CASE ~(left <= 0)
  <2>1. x \in Extent
    BY <1>1, <1>2, <1>4 DEF Extent
  <2>2. Cut(e, s) = [off |-> s.off + tuning.limit, out |-> Append(s.out, x)]
    BY <1>4, Zenon DEF Cut, left
  <2> HIDE DEF x
  <2>3. Append(s.out, x) \in Seq(Extent) /\ s.off + tuning.limit \in Nat
    BY <1>1, <2>1
  <2> QED BY <2>2, <2>3 DEF Cutting
<1> QED BY <1>3, <1>4, Zenon

\* After n rounds, the extent is cut up to the offset, in pieces that are small enough.
CutInv(s, out, e, n) ==
    /\ s.off >= e.offset
    /\ Sorted(s.out, Least2(s.off, EndOf(e)))
    /\ Limited(s.out)
    /\ \A b \in Nat : Covers(out, b) => Covers(s.out, b)
    /\ \A b \in Nat : e.offset <= b /\ b < s.off /\ b < EndOf(e) => Covers(s.out, b)
    /\ s.off >= e.offset + n \/ s.off >= EndOf(e)

LEMMA CutKeeps ==
    ASSUME tuning.limit \in Nat \ {0}, NEW e \in Extent, NEW s \in Cutting, NEW n \in Nat,
           NEW out, CutInv(s, out, e, n)
    PROVE  CutInv(Cut(e, s), out, e, n + 1)
<1> DEFINE left == e.offset + e.length - s.off
           x == [offset |-> s.off, length |-> IF tuning.limit < left THEN tuning.limit ELSE left]
<1>1. s.off \in Nat /\ s.out \in Seq(Extent) /\ e.offset \in Nat /\ e.length \in Nat
  BY DEF Cutting, Extent
<1>2. left \in Int /\ left = EndOf(e) - s.off /\ EndOf(e) \in Nat
  BY <1>1 DEF EndOf
<1> HIDE DEF left
<1>3. CASE left <= 0
  <2>1. Cut(e, s) = s
    BY <1>3, Zenon DEF Cut, left
  <2>2. s.off >= EndOf(e)
    BY <1>1, <1>2, <1>3
  <2> QED BY <2>1, <2>2, Zenon DEF CutInv
<1>4. CASE ~(left <= 0)
  <2>1. x \in Extent
    BY <1>1, <1>2, <1>4 DEF Extent
  <2>2. /\ x.offset = s.off /\ x.length \in Nat /\ x.length > 0
        /\ x.length <= tuning.limit /\ x.length <= left
        /\ x.length = tuning.limit \/ x.length = left
    BY <1>1, <1>2, <1>4
  <2> DEFINE t == Cut(e, s)
  <2>3. t.off = s.off + tuning.limit /\ t.out = Append(s.out, x)
    BY <1>4, Zenon DEF Cut, left
  <2> HIDE DEF x, t
  <2>4. Least2(s.off, EndOf(e)) = s.off /\ Least2(t.off, EndOf(e)) = EndOf(x)
    <3>1. EndOf(x) = s.off + x.length
      BY <2>2, Zenon DEF EndOf
    <3>2. s.off < EndOf(e)
      BY <1>1, <1>2, <1>4
    <3>3. EndOf(x) = IF s.off + tuning.limit < EndOf(e) THEN s.off + tuning.limit ELSE EndOf(e)
      BY <1>1, <1>2, <2>2, <3>1
    <3> QED BY <2>3, <3>2, <3>3, Zenon DEF Least2
  <2>5. /\ Sorted(t.out, EndOf(x))
        /\ \A b : Covers(s.out, b) \/ b \in Blocks(x) => Covers(t.out, b)
    <3>1. Sorted(s.out, s.off) /\ s.off <= x.offset
      BY <1>1, <2>2, <2>4 DEF CutInv
    <3> QED BY <1>1, <2>1, <2>3, <3>1, AppendSorted
  <2>6. Limited(t.out)
    <3>1. Len(s.out) \in Nat /\ DOMAIN s.out = 1..Len(s.out) /\ DOMAIN t.out = 1..(Len(s.out) + 1)
      BY <1>1, <2>1, <2>3
    <3>2. t.out[Len(s.out) + 1] = x /\ \A i \in 1..Len(s.out) : t.out[i] = s.out[i]
      BY <1>1, <2>1, <2>3
    <3>3. \A i \in DOMAIN t.out : i \in DOMAIN s.out \/ i = Len(s.out) + 1
      BY <3>1
    <3>4. Limited(s.out)
      BY Zenon DEF CutInv
    <3>5. ASSUME NEW i \in DOMAIN t.out PROVE t.out[i].length <= tuning.limit
      <4>1. CASE i \in DOMAIN s.out
        <5>1. t.out[i] = s.out[i]
          BY <3>1, <3>2, <4>1, Zenon
        <5> QED BY <3>4, <4>1, <5>1, Zenon DEF Limited
      <4>2. CASE i = Len(s.out) + 1
        BY <2>2, <3>2, <4>2, Zenon
      <4> QED BY <3>3, <4>1, <4>2, Zenon
    <3> QED BY <3>5, Zenon DEF Limited
  <2>7. t.off >= e.offset + (n + 1) \/ t.off >= EndOf(e)
    <3>1. s.off >= e.offset + n \/ s.off >= EndOf(e)
      BY Zenon DEF CutInv
    <3>2. s.off < EndOf(e)
      BY <1>1, <1>2, <1>4
    <3>3. s.off >= e.offset + n
      BY <1>1, <1>2, <3>1, <3>2
    <3>4. s.off + tuning.limit >= e.offset + (n + 1)
      BY <1>1, <3>3
    <3> QED BY <2>3, <3>4, Zenon
  <2>8. t.off >= e.offset
    <3>1. s.off >= e.offset
      BY Zenon DEF CutInv
    <3> QED BY <1>1, <2>3, <3>1
  <2>9. ASSUME NEW b \in Nat, e.offset <= b, b < t.off, b < EndOf(e) PROVE Covers(t.out, b)
    <3>1. CASE b < s.off
      BY <2>5, <2>9, <3>1, Zenon DEF CutInv
    <3>2. CASE ~(b < s.off)
      <4>1. b < s.off + x.length
        BY <1>1, <1>2, <2>2, <2>3, <2>9
      <4>2. b \in Blocks(x)
        BY <1>1, <2>2, <3>2, <4>1 DEF Blocks
      <4> QED BY <2>5, <4>2, Zenon
    <3> QED BY <3>1, <3>2, Zenon
  <2>10. \A b \in Nat : Covers(out, b) => Covers(t.out, b)
    BY <2>5, Zenon DEF CutInv
  <2> QED BY <2>4, <2>5, <2>6, <2>7, <2>8, <2>9, <2>10, Zenon DEF CutInv, t
<1> QED BY <1>3, <1>4, Zenon

\* splitExtents cuts an extent after the others into pieces that make it up.
LEMMA SplitExtentIsSound ==
    ASSUME tuning.limit \in Nat \ {0}, NEW e \in Extent, NEW out \in Seq(Extent)
    PROVE  /\ SplitExtent(out, e) \in Seq(Extent)
           /\ \A lo \in Nat : lo <= e.offset /\ Sorted(out, lo) /\ Limited(out) =>
                /\ Sorted(SplitExtent(out, e), EndOf(e))
                /\ Limited(SplitExtent(out, e))
                /\ \A b \in Nat : Covers(out, b) \/ b \in Blocks(e) =>
                                      Covers(SplitExtent(out, e), b)
<1> DEFINE start == [off |-> e.offset, out |-> out]
           N == e.length
<1>1. e.offset \in Nat /\ N \in Nat /\ N > 0 /\ EndOf(e) = e.offset + N
  BY DEF Extent, EndOf
<1>2. start \in Cutting /\ start.off = e.offset /\ start.out = out
  BY <1>1, Zenon DEF Cutting
<1>3. \A s \in Cutting : Cut(e, s) \in Cutting
  BY CutTyped, Zenon
<1>4. PICK c : /\ c[0] = start
               /\ \A n \in 1..e.length : c[n] = Cut(e, c[n - 1])
               /\ \A n \in 0..e.length : c[n] \in Cutting
               /\ SplitExtent(out, e) = c[e.length].out
  BY <1>1, <1>2, <1>3, CutRuns
<1> HIDE DEF start
<1>5. SplitExtent(out, e) = c[N].out /\ N \in 0..e.length
  BY <1>1, <1>4
<1>6. SplitExtent(out, e) \in Seq(Extent)
  BY <1>4, <1>5, Zenon DEF Cutting
<1>7. ASSUME NEW lo \in Nat, lo <= e.offset, Sorted(out, lo), Limited(out)
      PROVE  /\ Sorted(SplitExtent(out, e), EndOf(e))
             /\ Limited(SplitExtent(out, e))
             /\ \A b \in Nat : Covers(out, b) \/ b \in Blocks(e) => Covers(SplitExtent(out, e), b)
  <2> DEFINE T == {n \in 0..N : CutInv(c[n], out, e, n)}
  <2>1. 0 \in T
    <3>1. c[0].off = e.offset /\ c[0].out = out
      BY <1>2, <1>4, Zenon
    <3>2. Least2(c[0].off, EndOf(e)) = e.offset
      BY <1>1, <3>1 DEF Least2
    <3>3. Sorted(out, e.offset)
      BY <1>1, <1>7, SortedBeyond, Zenon
    <3>4. CutInv(c[0], out, e, 0)
      BY <1>1, <1>7, <3>1, <3>2, <3>3 DEF CutInv
    <3> QED BY <1>1, <3>4
  <2>2. ASSUME NEW n \in 0..(N - 1), n \in T PROVE n + 1 \in T
    <3>1. n \in Nat /\ n + 1 \in 1..e.length /\ n + 1 \in 0..N /\ (n + 1) - 1 = n /\ n \in 0..e.length
      BY <1>1
    <3>2. c[n + 1] = Cut(e, c[n]) /\ c[n] \in Cutting /\ CutInv(c[n], out, e, n)
      BY <1>4, <2>2, <3>1, Zenon
    <3>3. CutInv(c[n + 1], out, e, n + 1)
      BY <3>1, <3>2, CutKeeps, Zenon
    <3> QED BY <3>1, <3>3, Zenon
  <2>3. CutInv(c[N], out, e, N)
    <3> HIDE DEF T, N
    <3>1. 0..N \subseteq T
      BY <1>1, <2>1, <2>2, Induction, Zenon
    <3>2. N \in T
      BY <1>1, <3>1
    <3> QED BY <3>2, Zenon DEF T
  <2>4. c[N].off \in Nat
    BY <1>4, <1>5, Zenon DEF Cutting
  <2>5. c[N].off >= EndOf(e) /\ Least2(c[N].off, EndOf(e)) = EndOf(e)
    <3>1. c[N].off >= e.offset + N \/ c[N].off >= EndOf(e)
      BY <2>3, Zenon DEF CutInv
    <3> HIDE DEF N
    <3>2. c[N].off >= EndOf(e) /\ EndOf(e) \in Nat
      BY <1>1, <3>1
    <3> QED BY <2>4, <3>2 DEF Least2
  <2>6. ASSUME NEW b \in Nat, b \in Blocks(e) PROVE Covers(c[N].out, b)
    <3>1. e.offset <= b /\ b < EndOf(e)
      BY <1>1, <2>6 DEF Blocks
    <3>2. b < c[N].off
      <4> HIDE DEF N
      <4> QED BY <1>1, <2>4, <2>5, <3>1
    <3> QED BY <2>3, <3>1, <3>2, Zenon DEF CutInv
  <2> QED BY <1>5, <2>3, <2>5, <2>6, Zenon DEF CutInv
<1> QED BY <1>6, <1>7, Zenon

\* splitExtents loses no data and leaves no slice longer than the limit.
LEMMA SplitIsSound ==
    ASSUME tuning.limit \in Nat \ {0}, NEW s, NEW hi \in Nat, Sorted(s, hi)
    PROVE  /\ Sorted(SplitExtents(s), hi)
           /\ Limited(SplitExtents(s))
           /\ \A b \in Nat : Covers(s, b) => Covers(SplitExtents(s), b)
<1> DEFINE N == Len(s)
<1>1. s \in Seq(Extent) /\ N \in Nat /\ DOMAIN s = 1..N /\ \A i \in 1..N : s[i] \in Extent
  BY DEF Sorted
<1>2. <<>> \in Seq(Extent)
  OBVIOUS
<1>3. \A out \in Seq(Extent), i \in 1..N : SplitExtent(out, s[i]) \in Seq(Extent)
  BY <1>1, SplitExtentIsSound, Zenon
<1>4. PICK c : /\ c[0] = <<>>
               /\ \A n \in 1..N : c[n] = SplitExtent(c[n - 1], s[n])
               /\ SplitExtents(s) = c[N]
  BY <1>1, <1>2, <1>3, SplitRuns, Zenon
<1> HIDE DEF N
<1> DEFINE T == {n \in 0..N : Joined(c[n], s, n) /\ Limited(c[n])}
<1>5. 0 \in T
  <2>1. Joined(<<>>, s, 0) /\ Limited(<<>>)
    BY EmptySorted DEF Joined, Upto, Limited
  <2>2. Joined(c[0], s, 0) /\ Limited(c[0])
    BY <1>4, <2>1, Zenon
  <2> QED BY <1>1, <2>2
<1>6. ASSUME NEW n \in 0..(N - 1), n \in T PROVE n + 1 \in T
  <2>1. n + 1 \in 1..N /\ n + 1 \in 0..N /\ (n + 1) - 1 = n /\ n + 1 # 0 /\ n < N /\ n \in 0..N
    BY <1>1
  <2> DEFINE e == s[n + 1]
  <2>2. /\ c[n + 1] = SplitExtent(c[n], e) /\ e \in Extent
        /\ Joined(c[n], s, n) /\ Limited(c[n])
    BY <1>1, <1>4, <1>6, <2>1, Zenon
  <2>3. Upto(s, n) \in Nat /\ Upto(s, n) <= e.offset /\ Upto(s, n + 1) = EndOf(e)
    BY <2>1, UptoIsSorted, Zenon DEF Upto, N
  <2> HIDE DEF e
  <2>4. Sorted(c[n], Upto(s, n)) /\ c[n] \in Seq(Extent)
    BY <2>2, Zenon DEF Joined, Sorted
  <2>5. /\ Sorted(c[n + 1], EndOf(e)) /\ Limited(c[n + 1])
        /\ \A b \in Nat : Covers(c[n], b) \/ b \in Blocks(e) => Covers(c[n + 1], b)
    BY <2>2, <2>3, <2>4, SplitExtentIsSound, Zenon
  <2>6. ASSUME NEW i \in 1..(n + 1), NEW b \in Nat, b \in Blocks(s[i]) PROVE Covers(c[n + 1], b)
    <3>1. i = n + 1 \/ i \in 1..n
      OBVIOUS
    <3> QED BY <2>2, <2>5, <2>6, <3>1, Zenon DEF Joined, e
  <2> QED BY <2>1, <2>3, <2>5, <2>6, Zenon DEF Joined
<1>7. N \in T
  <2> HIDE DEF T
  <2>1. 0..N \subseteq T
    BY <1>1, <1>5, <1>6, Induction, Zenon
  <2> QED BY <1>1, <2>1
<1>8. Sorted(c[N], hi)
  <2>1. Upto(s, N) \in Nat /\ Upto(s, N) <= hi /\ Sorted(c[N], Upto(s, N))
    BY <1>1, <1>7, UptoIsSorted, Zenon DEF Joined, N
  <2> QED BY <2>1, SortedBeyond, Zenon
<1>9. \A b \in Nat : Covers(s, b) => Covers(c[N], b)
  BY <1>1, <1>7, Zenon DEF Covers, Joined
<1> QED BY <1>4, <1>7, <1>8, <1>9, Zenon

\* The slices of a plan are in order, small, within the file, and hold all of its data.
LEMMA BuildPlanIsSound ==
    ASSUME tuning.limit \in Nat \ {0}, tuning.gap \in Nat, Size \in Nat, NEW seeks \in BOOLEAN
    PROVE  /\ BuildPlan(seeks).id = served
           /\ BuildPlan(seeks).size = Size
           /\ Sorted(BuildPlan(seeks).slices, Size)
           /\ Limited(BuildPlan(seeks).slices)
           /\ \A b \in 0..(Size - 1) : layout[b] # "hole" => Covers(BuildPlan(seeks).slices, b)
<1> DEFINE x == ScanExtents(seeks)
           y == CoalesceExtents(x)
           z == SplitExtents(y)
<1>1. /\ Sorted(x, Size)
      /\ \A b \in 0..(Size - 1) : layout[b] # "hole" => Covers(x, b)
  BY ScanIsSound, Zenon
<1>2. BuildPlan(seeks) = [id |-> served, size |-> Size, slices |-> z]
  BY Zenon DEF BuildPlan
<1> HIDE DEF x
<1>3. Sorted(y, Size) /\ \A b \in Nat : Covers(x, b) => Covers(y, b)
  BY <1>1, CoalesceIsSound, Zenon
<1> HIDE DEF y
<1>4. Sorted(z, Size) /\ Limited(z) /\ \A b \in Nat : Covers(y, b) => Covers(z, b)
  BY <1>3, SplitIsSound, Zenon
<1> HIDE DEF z
<1> QED BY <1>1, <1>2, <1>3, <1>4

--------------------------------------------------------------------------------
(* The transfer: every block is awaited by at most one stream, is 0 until it   *)
(* arrives and what the wanted snapshot has from then on.                    *)

PCs == {"idle", "plan", "stage", "open", "fetch", "envelope", "staged", "cleanup"}
StreamPCs == {"queued", "get", "read", "stalled", "end", "err"}
Reading == {"read", "stalled"}

GoodPlan(p) ==
    /\ p.id = Want
    /\ p.size = Size
    /\ Sorted(p.slices, Size)
    /\ Limited(p.slices)
    /\ \A b \in 0..(Size - 1) : layout[b] # "hole" => Covers(p.slices, b)

\* A stream has a block ahead of it, in its k-th slice.
Holds(s, k, b) == k \in DOMAIN s.todo /\ b \in Blocks(s.todo[k])
Awaits(s, b) ==
    \E k \in DOMAIN s.todo : Holds(s, k, b) /\ (k = 1 /\ s.pc \in Reading => b >= s.off)

\* The block arrived in a slice whose checksum will be wrong.
Taints(s, b) == s.bad /\ Holds(s, 1, b)

StreamRec == [pc: StreamPCs, off: Nat, bad: BOOLEAN, todo: Seq(Extent)]
StreamInv(s) ==
    /\ s \in StreamRec
    /\ s.pc \in {"queued", "get"} => s.todo # <<>> /\ ~s.bad
    /\ s.pc \in Reading =>
         s.todo # <<>> /\ s.todo[1].offset <= s.off /\ s.off <= EndOf(s.todo[1])
    /\ s.pc = "end" => s.todo = <<>> /\ ~s.bad

Shaped == \A i \in DOMAIN streams : StreamInv(streams[i])

Apart ==
    \A i, j \in DOMAIN streams : \A k, l, b \in Nat :
        Holds(streams[i], k, b) /\ Holds(streams[j], l, b) => i = j /\ k = l

BlockInv(b) ==
    IF \E i \in DOMAIN streams : Awaits(streams[i], b) THEN dest[b] = 0
    ELSE dest[b] = Content(Want, b) \/ \E i \in DOMAIN streams : Taints(streams[i], b)

Transfer ==
    /\ dest \in [0..(Size - 1) -> 0..Corrupt]
    /\ Apart
    /\ \A b \in 0..(Size - 1) : BlockInv(b)

Wanted == [b \in DOMAIN layout |-> Content(Want, b)]

DataInv ==
    /\ tuning \in Tunings
    /\ layout \in Layouts
    /\ served \in {0, Want, Other}
    /\ pc \in PCs
    /\ plan = NoPlan \/ GoodPlan(plan)
    /\ pc \in {"stage", "open", "fetch", "envelope", "staged"} => GoodPlan(plan)
    /\ streams # <<>> => pc = "fetch"
    /\ Shaped
    /\ dest \in UNION {[0..(n - 1) -> 0..Corrupt] : n \in 0..MaxSize}
    /\ pc = "fetch" => Cancelled \/ Transfer
    /\ pc \in {"envelope", "staged"} => dest = Wanted

\* Quotient and remainder.
LEMMA Quotient ==
    ASSUME NEW a \in Nat, NEW b \in Nat, b > 0
    PROVE  /\ a \div b \in Nat
           /\ (a \div b) * b <= a
           /\ a < (a \div b) * b + b
OBVIOUS

LEMMA Multiples ==
    ASSUME NEW i \in Nat, NEW j \in Nat, NEW b \in Nat, i < j
    PROVE  i * b \in Nat /\ j * b \in Nat /\ i * b + b <= j * b
<1>1. PICK d \in Nat : j = i + 1 + d
  <2>1. j - i - 1 \in Nat /\ j = i + 1 + (j - i - 1)
    OBVIOUS
  <2> QED BY <2>1, Zenon
<1>2. j * b = i * b + b + d * b
  BY <1>1
<1>3. d * b \in Nat /\ i * b \in Nat
  OBVIOUS
<1> QED BY <1>2, <1>3

\* slices.Chunk deals every slice to one task.
LEMMA ChunksDeal ==
    ASSUME NEW n \in Nat, n > 0, NEW parts \in Nat, parts > 0,
           NEW each, each = (n + parts - 1) \div parts,
           NEW count, count = (n + each - 1) \div each
    PROVE  /\ each \in Nat /\ each > 0 /\ count \in Nat
           /\ \A i \in 1..count : (i - 1) * each \in Nat /\ (i - 1) * each < n
                                  /\ i * each = (i - 1) * each + each
           /\ \A i, j \in 1..count : i < j => i * each <= (j - 1) * each
           /\ \A q \in 1..n : \E i \in 1..count : (i - 1) * each < q /\ q <= i * each
<1>1. each \in Nat /\ each > 0
  <2> DEFINE a == n + parts - 1
  <2>1. a \in Nat /\ a >= parts
    OBVIOUS
  <2> HIDE DEF a
  <2>2. each \in Nat /\ a < each * parts + parts
    BY <2>1, Quotient, Zenon DEF a
  <2>3. each # 0
    BY <2>1, <2>2
  <2> QED BY <2>2, <2>3
<1>2. count \in Nat /\ count * each <= n + each - 1 /\ n - 1 < count * each
  <2> DEFINE a == n + each - 1
  <2>1. a \in Nat
    BY <1>1
  <2>2. count = a \div each
    BY Zenon
  <2> HIDE DEF a
  <2>3. count \in Nat /\ count * each <= a /\ a < count * each + each
    BY <1>1, <2>1, <2>2, Quotient, Zenon
  <2>4. count * each \in Nat
    BY <1>1, <2>3
  <2> QED BY <1>1, <2>3, <2>4 DEF a
<1>3. ASSUME NEW i \in 1..count
      PROVE  /\ (i - 1) * each \in Nat /\ (i - 1) * each < n
             /\ i * each = (i - 1) * each + each
  <2>1. i - 1 \in Nat /\ i - 1 < count
    BY <1>2
  <2>2. (i - 1) * each \in Nat /\ (i - 1) * each + each <= count * each /\ count * each \in Nat
    BY <1>1, <1>2, <2>1, Multiples, Zenon
  <2>3. i * each = (i - 1) * each + each
    BY <1>1, <1>2
  <2>4. (i - 1) * each < n
    BY <1>1, <1>2, <2>2
  <2> QED BY <2>2, <2>3, <2>4, Zenon
<1>4. ASSUME NEW i \in 1..count, NEW j \in 1..count, i < j PROVE i * each <= (j - 1) * each
  <2>1. CASE i = j - 1
    <3>1. i * each \in Nat
      BY <1>1, <1>2
    <3> QED BY <2>1, <3>1
  <2>2. CASE i # j - 1
    <3>1. i \in Nat /\ j - 1 \in Nat /\ i < j - 1
      BY <1>2, <1>4, <2>2
    <3>2. i * each + each <= (j - 1) * each /\ i * each \in Nat /\ (j - 1) * each \in Nat
      BY <1>1, <3>1, Multiples, Zenon
    <3> QED BY <1>1, <3>2
  <2> QED BY <2>1, <2>2, Zenon
<1>5. ASSUME NEW q \in 1..n
      PROVE  \E i \in 1..count : (i - 1) * each < q /\ q <= i * each
  <2> DEFINE k == (q - 1) \div each
  <2>1. q - 1 \in Nat
    OBVIOUS
  <2>2. k \in Nat /\ k * each <= q - 1 /\ q - 1 < k * each + each
    BY <1>1, <2>1, Quotient, Zenon
  <2> HIDE DEF k
  <2>3. k < count
    <3> SUFFICES ASSUME count <= k PROVE FALSE
      BY <1>2, <2>2
    <3>1. k * each \in Nat /\ count * each \in Nat
      BY <1>1, <1>2, <2>2
    <3>2. count * each <= k * each
      <4>1. CASE count = k
        BY <3>1, <4>1
      <4>2. CASE count < k
        <5>1. count * each + each <= k * each
          BY <1>1, <1>2, <2>2, <4>2, Multiples, Zenon
        <5> QED BY <1>1, <3>1, <5>1
      <4> QED BY <1>2, <2>2, <4>1, <4>2
    <3> QED BY <1>2, <2>2, <3>1, <3>2
  <2>4. k + 1 \in 1..count /\ (k + 1) - 1 = k
    BY <1>2, <2>2, <2>3
  <2>5. (k + 1) * each = k * each + each /\ k * each \in Nat
    BY <1>1, <2>2
  <2>6. k * each < q /\ q <= (k + 1) * each
    BY <1>1, <2>2, <2>5
  <2> QED BY <2>4, <2>6, Zenon
<1> QED BY <1>1, <1>2, <1>3, <1>4, <1>5, Zenon

\* The tasks of fetchFiles: the slices of the plan, each in one task.
LEMMA TasksDeal ==
    ASSUME tuning.perFile \in Nat \ {0}, NEW slices, NEW hi \in Nat, Sorted(slices, hi)
    PROVE  LET T == Tasks(slices) IN
           /\ \A i \in DOMAIN T : StreamInv(T[i]) /\ T[i].pc = "queued"
           /\ \A i, j \in DOMAIN T : \A k, l, b \in Nat :
                Holds(T[i], k, b) /\ Holds(T[j], l, b) => i = j /\ k = l
           /\ \A b : Covers(slices, b) => \E i \in DOMAIN T, k \in Nat : Holds(T[i], k, b)
<1> DEFINE n == Len(slices)
           each == (n + tuning.perFile - 1) \div tuning.perFile
           count == (n + each - 1) \div each
           last(i) == Least2(i * each, n)
           T == Tasks(slices)
<1>1. slices \in Seq(Extent) /\ n \in Nat /\ DOMAIN slices = 1..n
      /\ \A i \in 1..n : slices[i] \in Extent
  BY DEF Sorted
<1>2. CASE n = 0
  <2>1. T = <<>> /\ slices = <<>>
    BY <1>1, <1>2 DEF Tasks
  <2>2. DOMAIN T = {} /\ DOMAIN slices = {}
    BY <2>1
  <2> QED BY <2>2, Zenon DEF Covers
<1>3. CASE n # 0
  <2>1. T = [i \in 1..count |-> [pc |-> "queued", off |-> 0, bad |-> FALSE,
                                 todo |-> SubSeq(slices, (i - 1) * each + 1, last(i))]]
    BY <1>3, Zenon DEF Tasks, Least2
  <2>2. n > 0 /\ tuning.perFile \in Nat /\ tuning.perFile > 0
    BY <1>1, <1>3
  <2>3. /\ each \in Nat /\ each > 0 /\ count \in Nat
        /\ \A i \in 1..count : /\ (i - 1) * each \in Nat /\ (i - 1) * each < n
                               /\ i * each = (i - 1) * each + each
        /\ \A i, j \in 1..count : i < j => i * each <= (j - 1) * each
        /\ \A q \in 1..n : \E i \in 1..count : (i - 1) * each < q /\ q <= i * each
    <3> HIDE DEF n
    <3> QED BY <1>1, <2>2, ChunksDeal, Zenon
  <2> DEFINE base(i) == (i - 1) * each
  <2>4. ASSUME NEW i \in 1..count
        PROVE  /\ base(i) \in Nat /\ last(i) \in Nat /\ base(i) < last(i) /\ last(i) <= n
               /\ \A j \in 1..count : i < j => last(i) <= base(j)
    <3> HIDE DEF n, each, count
    <3>1. i * each \in Nat /\ base(i) \in Nat /\ base(i) < n /\ base(i) < i * each
      <4>1. base(i) \in Nat /\ base(i) < n /\ i * each = base(i) + each
        BY <2>3, Zenon
      <4> HIDE DEF base
      <4> QED BY <2>3, <4>1
    <3>2. /\ last(i) \in Nat /\ base(i) < last(i) /\ last(i) <= n /\ last(i) <= i * each
      BY <1>1, <3>1 DEF Least2
    <3>3. ASSUME NEW j \in 1..count, i < j PROVE last(i) <= base(j)
      <4>1. i * each <= base(j) /\ base(j) \in Nat
        BY <2>3, <3>3, Zenon
      <4> HIDE DEF base, last
      <4> QED BY <3>1, <3>2, <4>1
    <3> QED BY <3>1, <3>2, <3>3, Zenon
  <2>5. /\ DOMAIN T = 1..count
        /\ \A i \in 1..count :
             T[i] = [pc |-> "queued", off |-> 0, bad |-> FALSE,
                     todo |-> SubSeq(slices, base(i) + 1, last(i))]
    <3> HIDE DEF count, last
    <3> QED BY <2>1, Zenon
  <2> HIDE DEF n, each, count, T, base, last
  <2>6. ASSUME NEW i \in 1..count
        PROVE  /\ T[i].todo \in Seq(Extent) /\ T[i].todo # <<>>
               /\ DOMAIN T[i].todo = 1..(last(i) - base(i))
               /\ \A k \in 1..(last(i) - base(i)) :
                    base(i) + k \in 1..n /\ T[i].todo[k] = slices[base(i) + k]
    <3>1. base(i) + 1 \in Int /\ last(i) \in Int /\ base(i) + 1 <= last(i)
          /\ last(i) - (base(i) + 1) + 1 = last(i) - base(i)
          /\ \A q \in (base(i) + 1)..last(i) : slices[q] \in Extent
      BY <1>1, <2>4
    <3> DEFINE w == SubSeq(slices, base(i) + 1, last(i))
    <3>2. /\ w \in Seq(Extent)
          /\ Len(w) = last(i) - base(i)
          /\ \A k \in 1..(last(i) - base(i)) : w[k] = slices[base(i) + 1 + k - 1]
      BY <3>1, SubSeqProperties
    <3>3. T[i].todo = w
      BY <2>5
    <3> HIDE DEF w
    <3>4. w # <<>> /\ DOMAIN w = 1..(last(i) - base(i))
      BY <2>4, <3>2
    <3>5. ASSUME NEW k \in 1..(last(i) - base(i))
          PROVE  base(i) + k \in 1..n /\ w[k] = slices[base(i) + k]
      <4>1. base(i) + 1 + k - 1 = base(i) + k /\ base(i) + k \in 1..n
        BY <1>1, <2>4
      <4> QED BY <3>2, <4>1, Zenon
    <3> QED BY <3>2, <3>3, <3>4, <3>5, Zenon
  <2>7. ASSUME NEW i \in 1..count, NEW j \in 1..count, NEW k \in Nat, NEW l \in Nat, NEW b \in Nat,
               Holds(T[i], k, b), Holds(T[j], l, b)
        PROVE  i = j /\ k = l
    <3> DEFINE p == base(i) + k
               q == base(j) + l
    <3>1. /\ k \in 1..(last(i) - base(i)) /\ l \in 1..(last(j) - base(j))
          /\ p \in 1..n /\ q \in 1..n /\ b \in Blocks(slices[p]) /\ b \in Blocks(slices[q])
      BY <2>6, <2>7, Zenon DEF Holds
    <3>2. p = q
      <4> HIDE DEF p, q
      <4>1. slices[p] \in Extent /\ slices[q] \in Extent /\ p \in DOMAIN slices /\ q \in DOMAIN slices
        BY <1>1, <3>1, Zenon
      <4>2. slices[p].offset \in Nat /\ slices[p].length \in Nat
            /\ slices[q].offset \in Nat /\ slices[q].length \in Nat
        BY <4>1, Zenon DEF Extent
      <4>3. ~(p < q)
        <5> SUFFICES ASSUME p < q PROVE FALSE
          BY Zenon
        <5>1. EndOf(slices[p]) <= slices[q].offset
          BY <4>1, Zenon DEF Sorted
        <5> QED BY <3>1, <4>2, <5>1 DEF EndOf, Blocks
      <4>4. ~(q < p)
        <5> SUFFICES ASSUME q < p PROVE FALSE
          BY Zenon
        <5>1. EndOf(slices[q]) <= slices[p].offset
          BY <4>1, Zenon DEF Sorted
        <5> QED BY <3>1, <4>2, <5>1 DEF EndOf, Blocks
      <4> QED BY <1>1, <3>1, <4>3, <4>4
    <3>3. base(i) + k = base(j) + l
      BY <3>2, Zenon
    <3>4. i = j
      <4>1. base(i) \in Nat /\ last(i) \in Nat /\ base(j) \in Nat /\ last(j) \in Nat
        BY <2>4, Zenon
      <4>2. ~(i < j)
        <5> SUFFICES ASSUME i < j PROVE FALSE
          BY Zenon
        <5>1. last(i) <= base(j)
          BY <2>4, Zenon
        <5> QED BY <3>1, <3>3, <4>1, <5>1
      <4>3. ~(j < i)
        <5> SUFFICES ASSUME j < i PROVE FALSE
          BY Zenon
        <5>1. last(j) <= base(i)
          BY <2>4, Zenon
        <5> QED BY <3>1, <3>3, <4>1, <5>1
      <4> QED BY <2>3, <4>2, <4>3
    <3> QED BY <2>4, <3>3, <3>4
  <2>8. ASSUME NEW b, Covers(slices, b) PROVE \E i \in 1..count, k \in Nat : Holds(T[i], k, b)
    <3>1. PICK q \in 1..n : b \in Blocks(slices[q])
      BY <1>1, <2>8, Zenon DEF Covers
    <3>2. PICK i \in 1..count : base(i) < q /\ q <= i * each
      BY <2>3, Zenon DEF base
    <3>3. q <= last(i) /\ base(i) \in Nat /\ last(i) \in Nat
      <4>1. last(i) = IF i * each < n THEN i * each ELSE n
        BY Zenon DEF last, Least2
      <4> QED BY <1>1, <2>4, <3>2, <4>1
    <3> DEFINE k == q - base(i)
    <3>4. k \in Nat /\ k \in 1..(last(i) - base(i)) /\ base(i) + k = q
      BY <1>1, <3>2, <3>3
    <3> HIDE DEF k
    <3>5. Holds(T[i], k, b)
      BY <2>6, <3>1, <3>4, Zenon DEF Holds
    <3> QED BY <3>4, <3>5, Zenon
  <2>9. \A i \in 1..count : StreamInv(T[i]) /\ T[i].pc = "queued"
    <3> TAKE i \in 1..count
    <3>1. PICK w : w \in Seq(Extent) /\ w # <<>>
                   /\ T[i] = [pc |-> "queued", off |-> 0, bad |-> FALSE, todo |-> w]
      BY <2>5, <2>6
    <3> QED BY <3>1 DEF StreamInv, StreamRec, StreamPCs, Reading
  <2>10. \A i, j \in 1..count : \A k, l, b \in Nat :
           Holds(T[i], k, b) /\ Holds(T[j], l, b) => i = j /\ k = l
    BY <2>7, Zenon
  <2> QED BY <2>5, <2>8, <2>9, <2>10, Zenon DEF T
<1> QED BY <1>2, <1>3, Zenon

LEMMA StreamStep ==
    ASSUME NEW i \in DOMAIN streams, NEW n, Stream(i, n)
    PROVE  /\ DOMAIN streams' = DOMAIN streams
           /\ streams'[i] = n
           /\ \A j \in DOMAIN streams : j # i => streams'[j] = streams[j]
BY Zenon DEF Stream

\* A stream goes on: its slices are those it had, or those after the first, and a block
\* is as before or has arrived in the slice that the stream reads.
Arrives(old, new, b) ==
    \/ /\ dest'[b] = dest[b]
       /\ Awaits(old, b) <=> Awaits(new, b)
       /\ Taints(old, b) => Taints(new, b)
    \/ /\ Holds(old, 1, b)
       /\ ~Awaits(new, b)
       /\ dest'[b] = Content(Want, b) \/ Taints(new, b)

LEMMA TransferStep ==
    ASSUME Transfer, Shaped, NEW i \in DOMAIN streams, NEW n, Stream(i, n),
           layout' = layout, dest' \in [0..(Size - 1) -> 0..Corrupt],
           NEW d \in Nat, \A k, b \in Nat : Holds(n, k, b) => Holds(streams[i], k + d, b),
           \A b \in 0..(Size - 1) : Arrives(streams[i], n, b)
    PROVE  Transfer'
<1>1. /\ DOMAIN streams' = DOMAIN streams
      /\ streams'[i] = n
      /\ \A j \in DOMAIN streams : j # i => streams'[j] = streams[j]
  BY StreamStep, Zenon
<1>2. Size' = Size /\ \A b : Content(Want, b)' = Content(Want, b)
  BY Zenon DEF Size, Content
<1>4. Apart'
  <2> SUFFICES ASSUME NEW p \in DOMAIN streams, NEW q \in DOMAIN streams,
                      NEW k \in Nat, NEW l \in Nat, NEW b \in Nat,
                      Holds(streams'[p], k, b), Holds(streams'[q], l, b)
               PROVE  p = q /\ k = l
    BY <1>1, Zenon DEF Apart, Holds
  <2> DEFINE at(j, x) == IF j = i THEN x + d ELSE x
  <2>1. /\ Holds(streams[p], at(p, k), b) /\ at(p, k) \in Nat
        /\ Holds(streams[q], at(q, l), b) /\ at(q, l) \in Nat
    BY <1>1
  <2>2. p = q /\ at(p, k) = at(q, l)
    BY <2>1, Zenon DEF Transfer, Apart
  <2> QED BY <2>2
<1>5. ASSUME NEW b \in 0..(Size - 1) PROVE BlockInv(b)'
  <2>0. BlockInv(b) /\ Arrives(streams[i], n, b) /\ b \in Nat
    BY <1>5 DEF Transfer
  <2>1. CASE /\ dest'[b] = dest[b]
             /\ Awaits(streams[i], b) <=> Awaits(n, b)
             /\ Taints(streams[i], b) => Taints(n, b)
    <3>1. (\E j \in DOMAIN streams : Awaits(streams[j], b))
            <=> (\E j \in DOMAIN streams' : Awaits(streams'[j], b))
      BY <1>1, <2>1, Zenon
    <3>2. (\E j \in DOMAIN streams : Taints(streams[j], b))
            => (\E j \in DOMAIN streams' : Taints(streams'[j], b))
      BY <1>1, <2>1, Zenon
    <3> QED BY <1>2, <2>0, <2>1, <3>1, <3>2, Zenon DEF BlockInv
  <2>2. CASE /\ Holds(streams[i], 1, b)
             /\ ~Awaits(n, b)
             /\ dest'[b] = Content(Want, b) \/ Taints(n, b)
    <3>1. ASSUME NEW j \in DOMAIN streams', Awaits(streams'[j], b) PROVE FALSE
      <4>1. j # i /\ j \in DOMAIN streams /\ Awaits(streams[j], b)
        BY <1>1, <2>2, <3>1, Zenon
      <4>2. PICK k \in DOMAIN streams[j].todo : Holds(streams[j], k, b)
        BY <4>1, Zenon DEF Awaits
      <4>3. streams[j].todo \in Seq(Extent)
        BY <4>1, Zenon DEF Shaped, StreamInv, StreamRec
      <4>4. k \in Nat
        BY <4>2, <4>3
      <4> QED BY <2>0, <2>2, <4>1, <4>2, <4>4, Zenon DEF Transfer, Apart
    <3>2. dest'[b] = Content(Want, b) \/ \E j \in DOMAIN streams' : Taints(streams'[j], b)
      BY <1>1, <2>2, Zenon
    <3> QED BY <1>2, <3>1, <3>2, Zenon DEF BlockInv
  <2> QED BY <2>0, <2>1, <2>2, Zenon DEF Arrives
<1> QED BY <1>2, <1>4, <1>5, Zenon DEF Transfer

LEMMA StreamGoesOn ==
    ASSUME Shaped, NEW i \in DOMAIN streams, NEW n, Stream(i, n), StreamInv(n)
    PROVE  /\ Shaped'
           /\ n.pc = "err" \/ (Cancelled /\ streams[i].pc # "err") => Cancelled'
<1>1. /\ DOMAIN streams' = DOMAIN streams
      /\ streams'[i] = n
      /\ \A j \in DOMAIN streams : j # i => streams'[j] = streams[j]
  BY StreamStep, Zenon
<1> QED BY <1>1, Zenon DEF Shaped, Cancelled

LEMMA StreamFails ==
    ASSUME Shaped, NEW i \in DOMAIN streams, Over(i, "err")
    PROVE  Shaped' /\ Cancelled'
<1> DEFINE n == [pc |-> "err", off |-> 0, bad |-> FALSE, todo |-> <<>>]
<1>1. StreamInv(n) /\ n.pc = "err"
  BY DEF StreamInv, StreamRec, StreamPCs, Reading
<1>2. Stream(i, n)
  BY Zenon DEF Over
<1> HIDE DEF n
<1> QED BY <1>1, <1>2, StreamGoesOn, Zenon

\* A stream that neither writes nor moves on waits for what it did.
LEMMA StreamWaits ==
    ASSUME Shaped, Cancelled \/ Transfer, NEW i \in DOMAIN streams, NEW n, Stream(i, n),
           StreamInv(n), streams[i].pc # "err", UNCHANGED <<layout, dest>>,
           n.todo = streams[i].todo, n.bad = streams[i].bad,
           \A b \in 0..(Size - 1) : Awaits(streams[i], b) <=> Awaits(n, b)
    PROVE  Shaped' /\ (Cancelled' \/ Transfer')
<1>1. Shaped' /\ (Cancelled => Cancelled')
  BY StreamGoesOn, Zenon
<1>2. \A k, b \in Nat : Holds(n, k, b) => Holds(streams[i], k + 0, b)
  BY DEF Holds
<1>3. \A b : Taints(streams[i], b) => Taints(n, b)
  BY Zenon DEF Holds, Taints
<1>4. \A b \in 0..(Size - 1) : Arrives(streams[i], n, b)
  BY <1>3, Zenon DEF Arrives
<1>5. Transfer => Transfer'
  <2> SUFFICES ASSUME Transfer PROVE Transfer'
    BY Zenon
  <2>1. dest' \in [0..(Size - 1) -> 0..Corrupt] /\ 0 \in Nat
    BY Zenon DEF Transfer
  <2> QED BY <1>2, <1>4, <2>1, TransferStep, Zenon
<1> QED BY <1>1, <1>5, Zenon

LEMMA GetsKeeps ==
    ASSUME Shaped, Cancelled \/ Transfer, NEW i \in DOMAIN streams, StreamGets(i)
    PROVE  Shaped' /\ (Cancelled' \/ Transfer')
<1>0. UNCHANGED <<layout, dest>>
  BY DEF StreamGets, peer, file, staging
<1> DEFINE s == streams[i]
           n == [s EXCEPT !.pc = "read", !.off = Slice(i).offset]
<1>1. s.pc \in {"queued", "get"}
  BY Zenon DEF StreamGets
<1>2. s \in StreamRec /\ StreamInv(s) /\ s.todo \in Seq(Extent) /\ s.todo # <<>>
  BY <1>1, Zenon DEF Shaped, StreamInv, StreamRec
<1>3. Slice(i) = s.todo[1] /\ s.todo[1] \in Extent /\ 1 \in DOMAIN s.todo
  BY <1>2 DEF Slice
<1>4. Slice(i).offset \in Nat /\ Slice(i).length \in Nat
  BY <1>3, Zenon DEF Extent
<1>5. CASE Stream(i, n)
  <2>1. n.pc = "read" /\ n.off = Slice(i).offset /\ n.todo = s.todo /\ n.bad = s.bad /\ n \in StreamRec
    BY <1>2, <1>4, Zenon DEF StreamRec, StreamPCs
  <2> HIDE DEF n, s
  <2>2. StreamInv(n)
    <3>1. n.todo[1].offset <= n.off /\ n.off <= EndOf(n.todo[1])
      BY <1>3, <1>4, <2>1 DEF EndOf
    <3> QED BY <1>2, <2>1, <3>1, Zenon DEF StreamInv, Reading
  <2>3. ASSUME NEW b \in 0..(Size - 1) PROVE Awaits(s, b) <=> Awaits(n, b)
    <3>1. \A k : Holds(s, k, b) <=> Holds(n, k, b)
      BY <2>1, Zenon DEF Holds
    <3>2. Holds(s, 1, b) => b >= n.off
      BY <1>3, <1>4, <2>1 DEF Holds, Blocks
    <3> QED BY <1>1, <2>1, <3>1, <3>2, Zenon DEF Awaits, Reading
  <2>4. streams[i].pc # "err"
    BY <1>1, Zenon DEF s
  <2>5. n.todo = streams[i].todo /\ n.bad = streams[i].bad
        /\ \A b \in 0..(Size - 1) : Awaits(streams[i], b) <=> Awaits(n, b)
    BY <2>1, <2>3, Zenon DEF s
  <2> QED BY <1>0, <1>5, <2>2, <2>4, <2>5, StreamWaits, Zenon
<1>6. CASE Over(i, "err")
  BY <1>6, StreamFails, Zenon
<1> QED BY <1>5, <1>6, Zenon DEF StreamGets

LEMMA StallsKeeps ==
    ASSUME Shaped, Cancelled \/ Transfer, NEW i \in DOMAIN streams, StreamStalls(i)
    PROVE  Shaped' /\ (Cancelled' \/ Transfer')
<1>0. UNCHANGED <<layout, dest>>
  BY DEF StreamStalls, peer, file, staging
<1> DEFINE s == streams[i]
           n == [s EXCEPT !.pc = "stalled"]
<1>1. s.pc = "read" /\ Stream(i, n)
  BY Zenon DEF StreamStalls
<1>2. s \in StreamRec /\ StreamInv(s)
  BY DEF Shaped, StreamInv
<1>3. n.pc = "stalled" /\ n.off = s.off /\ n.todo = s.todo /\ n.bad = s.bad /\ n \in StreamRec
  BY <1>2, Zenon DEF StreamRec, StreamPCs
<1> HIDE DEF n
<1>4. StreamInv(n)
  BY <1>1, <1>2, <1>3, Zenon DEF StreamInv, Reading
<1>5. \A b \in 0..(Size - 1) : Awaits(s, b) <=> Awaits(n, b)
  BY <1>1, <1>3, Zenon DEF Awaits, Holds, Reading
<1> QED BY <1>0, <1>1, <1>3, <1>4, <1>5, StreamWaits, Zenon

LEMMA EndsKeeps ==
    ASSUME Shaped, Cancelled \/ Transfer, NEW i \in DOMAIN streams, StreamEnds(i)
    PROVE  Shaped' /\ (Cancelled' \/ Transfer')
<1>0. UNCHANGED <<layout, dest>>
  BY DEF StreamEnds, peer, file, staging
<1> DEFINE s == streams[i]
<1>1. s.pc = "read" /\ s.off = End(i)
  BY Zenon DEF StreamEnds
<1>2. /\ StreamInv(s) /\ s \in StreamRec /\ s.todo \in Seq(Extent) /\ s.todo # <<>>
      /\ s.bad \in BOOLEAN
  BY <1>1, Zenon DEF Shaped, StreamInv, StreamRec, Reading
<1>3. Slice(i) = s.todo[1] /\ s.todo[1] \in Extent /\ Len(s.todo) \in Nat /\ Len(s.todo) > 0
      /\ DOMAIN s.todo = 1..Len(s.todo)
  BY <1>2 DEF Slice
<1>4. s.todo[1].offset \in Nat /\ s.todo[1].length \in Nat
  BY <1>3, Zenon DEF Extent
<1>5. \A b \in Nat : Holds(s, 1, b) => b < s.off
  BY <1>1, <1>3, <1>4 DEF Holds, Blocks, End
<1>6. CASE s.bad
  BY <1>6, StreamFails, Zenon DEF StreamEnds
<1>7. ASSUME ~s.bad, NEW n, Stream(i, n), StreamInv(n), n.pc \notin Reading, ~n.bad,
             \A k \in Nat : \A b : Holds(n, k, b) <=> k # 0 /\ Holds(s, k + 1, b)
      PROVE  Shaped' /\ (Cancelled' \/ Transfer')
  <2>1. Shaped' /\ (Cancelled => Cancelled')
    BY <1>1, <1>7, StreamGoesOn, Zenon
  <2>2. n.todo \in Seq(Extent)
    BY <1>7, Zenon DEF StreamInv, StreamRec
  <2>3. ASSUME NEW b \in Nat PROVE Awaits(s, b) <=> Awaits(n, b)
    <3>1. ASSUME Awaits(s, b) PROVE Awaits(n, b)
      <4>1. PICK k \in DOMAIN s.todo : Holds(s, k, b) /\ k # 1
        BY <1>1, <1>2, <1>5, <3>1 DEF Awaits, Reading, StreamRec
      <4>2. k - 1 \in Nat /\ (k - 1) + 1 = k /\ k - 1 # 0
        BY <1>3, <4>1
      <4>3. Holds(n, k - 1, b)
        BY <1>7, <4>1, <4>2, Zenon
      <4>4. k - 1 \in DOMAIN n.todo
        BY <4>3, Zenon DEF Holds
      <4> QED BY <1>7, <4>3, <4>4, Zenon DEF Awaits
    <3>2. ASSUME Awaits(n, b) PROVE Awaits(s, b)
      <4>1. PICK k \in DOMAIN n.todo : Holds(n, k, b)
        BY <3>2, Zenon DEF Awaits
      <4>2. k \in Nat /\ k # 0 /\ k + 1 # 1
        BY <2>2, <4>1
      <4>3. Holds(s, k + 1, b)
        BY <1>7, <4>1, <4>2, Zenon
      <4>4. k + 1 \in DOMAIN s.todo
        BY <4>3, Zenon DEF Holds
      <4> QED BY <4>2, <4>3, <4>4, Zenon DEF Awaits
    <3> QED BY <3>1, <3>2, Zenon
  <2>4. \A b \in 0..(Size - 1) : Arrives(streams[i], n, b)
    BY <1>0, <1>7, <2>3 DEF Arrives, Taints
  <2>5. \A k, b \in Nat : Holds(n, k, b) => Holds(streams[i], k + 1, b)
    BY <1>7, Zenon
  <2>6. Transfer => Transfer'
    <3> SUFFICES ASSUME Transfer PROVE Transfer'
      BY Zenon
    <3>1. dest' \in [0..(Size - 1) -> 0..Corrupt] /\ 1 \in Nat /\ layout' = layout
      BY <1>0, Zenon DEF Transfer
    <3> QED BY <1>7, <2>4, <2>5, <3>1, TransferStep, Zenon
  <2> QED BY <2>1, <2>6, Zenon
<1>8. CASE ~s.bad /\ Len(s.todo) = 1
  <2> DEFINE n == [pc |-> "end", off |-> 0, bad |-> FALSE, todo |-> <<>>]
  <2>1. Stream(i, n)
    BY <1>8, Zenon DEF StreamEnds, Over
  <2>2. StreamInv(n) /\ n.pc \notin Reading /\ ~n.bad /\ n.todo = <<>>
    BY DEF StreamInv, StreamRec, StreamPCs, Reading
  <2> HIDE DEF n
  <2>3. \A k \in Nat : \A b : ~Holds(n, k, b)
    BY <2>2 DEF Holds
  <2>4. \A k \in Nat : \A b : k # 0 => ~Holds(s, k + 1, b)
    BY <1>3, <1>8 DEF Holds
  <2> QED BY <1>7, <1>8, <2>1, <2>2, <2>3, <2>4, Zenon
<1>9. CASE ~s.bad /\ Len(s.todo) # 1
  <2> DEFINE n == [s EXCEPT !.pc = "get", !.todo = Tail(s.todo)]
  <2>0. Len(s.todo) > 1
    <3> DEFINE L == Len(s.todo)
    <3>1. L # 1 /\ L \in Nat /\ L > 0
      BY <1>3, <1>9, Zenon
    <3> HIDE DEF L
    <3>2. L > 1
      BY <3>1
    <3> QED BY <3>2, Zenon DEF L
  <2>1. Stream(i, n)
    BY <1>9, Zenon DEF StreamEnds
  <2>2. /\ Tail(s.todo) \in Seq(Extent) /\ Len(Tail(s.todo)) = Len(s.todo) - 1
        /\ \A k \in 1..Len(Tail(s.todo)) : Tail(s.todo)[k] = s.todo[k + 1]
    BY <1>2, HeadTailProperties, Zenon
  <2>3. n.pc = "get" /\ n.todo = Tail(s.todo) /\ n.bad = s.bad /\ n \in StreamRec
    BY <1>2, <2>2, Zenon DEF StreamRec, StreamPCs
  <2> HIDE DEF n, s
  <2>4. n.todo # <<>> /\ DOMAIN n.todo = 1..(Len(s.todo) - 1)
    <3>1. n.todo \in Seq(Extent) /\ Len(n.todo) = Len(s.todo) - 1
      BY <2>2, <2>3, Zenon
    <3> QED BY <1>3, <2>0, <3>1
  <2>5. StreamInv(n) /\ n.pc \notin Reading /\ ~n.bad
    BY <1>9, <2>3, <2>4, Zenon DEF StreamInv, Reading
  <2>6. ASSUME NEW k \in Nat, NEW b PROVE Holds(n, k, b) <=> k # 0 /\ Holds(s, k + 1, b)
    <3>1. k \in DOMAIN n.todo <=> k # 0 /\ k + 1 \in DOMAIN s.todo
      BY <1>3, <2>4
    <3>2. k \in DOMAIN n.todo => n.todo[k] = s.todo[k + 1]
      BY <2>2, <2>3, <2>4, Zenon
    <3> QED BY <3>1, <3>2, Zenon DEF Holds
  <2>7. \A k \in Nat : \A b : Holds(n, k, b) <=> k # 0 /\ Holds(s, k + 1, b)
    BY <2>6, Zenon
  <2> QED BY <1>7, <1>9, <2>1, <2>5, <2>7, Zenon
<1> QED BY <1>2, <1>6, <1>8, <1>9, Zenon

\* What is skipped is zeros, where the file has zeros.
LEMMA WriteWrites ==
    ASSUME NEW old, NEW off, NEW data
    PROVE  LET w == WriteSkippingZeros(old, off, data) IN
           /\ DOMAIN w = DOMAIN old
           /\ w = [b \in DOMAIN old |-> w[b]]
           /\ \A b \in DOMAIN old : IF b \in DOMAIN data
                                    THEN w[b] = data[b] \/ (data[b] = 0 /\ w[b] = old[b])
                                    ELSE w[b] = old[b]
<1> DEFINE chunk(b) == (b - off) \div tuning.skip
           zeros(b) == \A c \in DOMAIN data : chunk(c) = chunk(b) => data[c] = 0
           w == [b \in DOMAIN old |-> IF b \in DOMAIN data /\ ~zeros(b) THEN data[b] ELSE old[b]]
<1>1. WriteSkippingZeros(old, off, data) = w
  BY Zenon DEF WriteSkippingZeros
<1>2. \A b \in DOMAIN data : zeros(b) => data[b] = 0
  OBVIOUS
<1> HIDE DEF zeros
<1> QED BY <1>1, <1>2, Zenon

\* The blocks of a section, from lo up to hi, are in the slice that the section is cut
\* from; a block outside is before both or behind both.
LEMMA WithinSection ==
    ASSUME NEW e \in Extent, NEW lo \in Nat, NEW hi \in Nat, NEW b \in lo..(hi - 1),
           e.offset <= lo, hi <= EndOf(e)
    PROVE  b \in Blocks(e) /\ b >= lo /\ ~(b >= hi)
BY DEF Extent, Blocks, EndOf

LEMMA OutsideSection ==
    ASSUME NEW lo \in Nat, NEW hi \in Nat, NEW b \in Nat, lo < hi, b \notin lo..(hi - 1)
    PROVE  b >= lo <=> b >= hi
OBVIOUS

\* A section of a slice is not empty and ends within the slice.
LEMMA SectionEnds ==
    ASSUME NEW off \in Nat, NEW size \in Nat \ {0}, NEW end \in Nat, off < end, NEW next,
           next = IF off + size < end THEN off + size ELSE end
    PROVE  next \in Nat /\ off < next /\ next <= end
<1>1. CASE off + size < end
  <2>1. next = off + size
    BY <1>1, Zenon
  <2> QED BY <1>1, <2>1
<1>2. CASE ~(off + size < end)
  <2>1. next = end
    BY <1>2, Zenon
  <2> QED BY <2>1
<1> QED BY <1>1, <1>2, Zenon

LEMMA ReadsKeeps ==
    ASSUME Shaped, Transfer, plan.id = Want, tuning.section \in Nat \ {0},
           NEW i \in DOMAIN streams, StreamReads(i)
    PROVE  Shaped' /\ Transfer'
<1> DEFINE s == streams[i]
           next == IF s.off + tuning.section < End(i) THEN s.off + tuning.section ELSE End(i)
           sent == [b \in s.off..(next - 1) |-> Content(plan.id, b)]
           spoilt == [b \in DOMAIN sent |-> Corrupt]
<1>1. s.pc = "read" /\ s.off < End(i) /\ layout' = layout
  BY Zenon DEF StreamReads, peer, file
<1>2. /\ StreamInv(s) /\ s \in StreamRec /\ s.todo \in Seq(Extent) /\ s.todo # <<>>
      /\ s.off \in Nat /\ s.bad \in BOOLEAN /\ s.todo[1].offset <= s.off
  BY <1>1, Zenon DEF Shaped, StreamInv, StreamRec, Reading
<1>3. Slice(i) = s.todo[1] /\ s.todo[1] \in Extent /\ 1 \in DOMAIN s.todo
  BY <1>2 DEF Slice
<1>4. /\ s.todo[1].offset \in Nat /\ s.todo[1].length \in Nat
      /\ End(i) = EndOf(s.todo[1]) /\ End(i) \in Nat
  <2>1. s.todo[1].offset \in Nat /\ s.todo[1].length \in Nat
    BY <1>3, Zenon DEF Extent
  <2>2. End(i) = EndOf(s.todo[1])
    BY <1>3, Zenon DEF End, EndOf
  <2>3. EndOf(s.todo[1]) \in Nat
    BY <2>1 DEF EndOf
  <2> QED BY <2>1, <2>2, <2>3, Zenon
<1>5. next \in Nat /\ s.off < next /\ next <= End(i)
  <2>1. s.off \in Nat /\ End(i) \in Nat /\ s.off < End(i)
    BY <1>1, <1>2, <1>4, Zenon
  <2>2. next = IF s.off + tuning.section < End(i) THEN s.off + tuning.section ELSE End(i)
    BY Zenon
  <2> HIDE DEF s, next
  <2> QED BY <2>1, <2>2, SectionEnds
<1>6. \/ dest' = WriteSkippingZeros(dest, s.off, sent) /\ Stream(i, [s EXCEPT !.off = next])
      \/ dest' = WriteSkippingZeros(dest, s.off, spoilt)
         /\ Stream(i, [s EXCEPT !.off = next, !.bad = TRUE])
  BY Zenon DEF StreamReads
<1>7. DOMAIN sent = s.off..(next - 1) /\ DOMAIN spoilt = s.off..(next - 1)
      /\ \A b \in s.off..(next - 1) : sent[b] = Content(Want, b) /\ spoilt[b] = Corrupt
  BY Zenon
<1> HIDE DEF next, sent, spoilt
<1>8. ASSUME NEW n \in StreamRec, n.pc = "read", n.off = next, n.todo = s.todo, s.bad => n.bad,
             Stream(i, n), NEW data, DOMAIN data = s.off..(next - 1),
             dest' = WriteSkippingZeros(dest, s.off, data),
             \A b \in s.off..(next - 1) : data[b] \in 0..Corrupt /\ (data[b] = Content(Want, b) \/ n.bad)
      PROVE  Shaped' /\ Transfer'
  <2>1. StreamInv(n)
    <3>1. n.todo[1].offset <= n.off /\ n.off <= EndOf(n.todo[1])
      <4>1. n.todo[1] = s.todo[1] /\ n.off = next
        BY <1>8, Zenon
      <4>2. s.todo[1].offset <= next
        BY <1>2, <1>4, <1>5
      <4>3. next <= EndOf(s.todo[1])
        BY <1>4, <1>5, Zenon
      <4> QED BY <4>1, <4>2, <4>3, Zenon
    <3> QED BY <1>2, <1>8, <3>1, ZenonT(40) DEF StreamInv, Reading
  <2>2. Shaped'
    BY <1>8, <2>1, StreamGoesOn, Zenon
  <2>3. dest \in [0..(Size - 1) -> 0..Corrupt] /\ DOMAIN dest = 0..(Size - 1)
    BY Zenon DEF Transfer
  <2>4. /\ dest' = [b \in DOMAIN dest |-> dest'[b]]
        /\ \A b \in DOMAIN dest : IF b \in DOMAIN data
                                  THEN dest'[b] = data[b] \/ (data[b] = 0 /\ dest'[b] = dest[b])
                                  ELSE dest'[b] = dest[b]
    <3> DEFINE w == WriteSkippingZeros(dest, s.off, data)
    <3>1. /\ w = [b \in DOMAIN dest |-> w[b]]
          /\ \A b \in DOMAIN dest : IF b \in DOMAIN data
                                    THEN w[b] = data[b] \/ (data[b] = 0 /\ w[b] = dest[b])
                                    ELSE w[b] = dest[b]
      BY WriteWrites
    <3> HIDE DEF w
    <3>2. dest' = w
      BY <1>8, Zenon DEF w
    <3> QED BY <3>1, <3>2, Zenon
  <2>5. dest' \in [0..(Size - 1) -> 0..Corrupt]
    <3>1. ASSUME NEW b \in 0..(Size - 1) PROVE dest'[b] \in 0..Corrupt
      <4>1. dest[b] \in 0..Corrupt
        BY <2>3, Zenon
      <4> QED BY <1>8, <2>3, <2>4, <4>1, Zenon
    <3> QED BY <2>3, <2>4, <3>1, Zenon
  <2>6. ASSUME NEW k, NEW b PROVE Holds(n, k, b) <=> Holds(s, k, b)
    BY <1>8, Zenon DEF Holds
  <2>7. ASSUME NEW b \in 0..(Size - 1) PROVE Arrives(s, n, b)
    <3>0. b \in Nat /\ b \in DOMAIN dest
      BY <2>3
    <3>1. CASE b \in s.off..(next - 1)
      <4>1. Holds(s, 1, b) /\ ~(b >= n.off) /\ b >= s.off
        <5>1. b \in Blocks(s.todo[1]) /\ b >= s.off /\ ~(b >= next)
          <6>1. next \in Nat /\ next <= EndOf(s.todo[1])
            BY <1>4, <1>5, Zenon
          <6>2. s.off \in Nat /\ s.todo[1] \in Extent /\ s.todo[1].offset <= s.off
            BY <1>2, <1>3, Zenon
          <6> HIDE DEF s
          <6> QED BY <3>1, <6>1, <6>2, WithinSection
        <5> QED BY <1>3, <1>8, <5>1, Zenon DEF Holds
      <4>2. Awaits(s, b)
        BY <1>3, <4>1, Zenon DEF Awaits
      <4>3. dest[b] = 0
        BY <4>2, Zenon DEF Transfer, BlockInv
      <4>4. dest'[b] = data[b]
        BY <1>8, <2>4, <3>0, <3>1, <4>3, Zenon
      <4>5. dest'[b] = Content(Want, b) \/ Taints(n, b)
        BY <1>8, <2>6, <3>1, <4>1, <4>4, Zenon DEF Taints
      <4>6. ASSUME NEW k \in DOMAIN s.todo, Holds(s, k, b) PROVE k = 1
        <5>1. k \in Nat /\ 1 \in Nat
          BY <1>2
        <5> QED BY <3>0, <4>1, <4>6, <5>1, Zenon DEF Transfer, Apart
      <4>7. ~Awaits(n, b)
        BY <1>8, <2>6, <4>1, <4>6, Zenon DEF Awaits, Reading
      <4> QED BY <4>1, <4>5, <4>7, Zenon DEF Arrives
    <3>2. CASE b \notin s.off..(next - 1)
      <4>1. dest'[b] = dest[b]
        BY <1>8, <2>4, <3>0, <3>2, Zenon
      <4>2. b >= s.off <=> b >= n.off
        BY <1>2, <1>5, <1>8, <3>0, <3>2, OutsideSection, Zenon
      <4>3. Awaits(s, b) <=> Awaits(n, b)
        BY <1>1, <1>8, <2>6, <4>2, Zenon DEF Awaits, Reading
      <4>4. Taints(s, b) => Taints(n, b)
        BY <1>8, <2>6, Zenon DEF Taints
      <4> QED BY <4>1, <4>3, <4>4, Zenon DEF Arrives
    <3> QED BY <3>1, <3>2, Zenon
  <2>8. \A k, b \in Nat : Holds(n, k, b) => Holds(streams[i], k + 0, b)
    BY <2>6
  <2>9. 0 \in Nat /\ \A b \in 0..(Size - 1) : Arrives(streams[i], n, b)
    BY <2>7, Zenon
  <2>10. Transfer'
    BY <1>1, <1>8, <2>5, <2>8, <2>9, TransferStep, Zenon
  <2> QED BY <2>2, <2>10, Zenon
<1>9. \A b : Content(Want, b) \in 0..Corrupt
  BY DEF Content, Want, Corrupt
<1>10. CASE dest' = WriteSkippingZeros(dest, s.off, sent) /\ Stream(i, [s EXCEPT !.off = next])
  <2> DEFINE n == [s EXCEPT !.off = next]
  <2>1. n \in StreamRec /\ n.pc = "read" /\ n.off = next /\ n.todo = s.todo /\ n.bad = s.bad
    BY <1>1, <1>2, <1>5 DEF StreamRec
  <2> HIDE DEF n
  <2>2. Stream(i, n)
    BY <1>10, Zenon DEF n
  <2> QED BY <1>7, <1>8, <1>9, <1>10, <2>1, <2>2, Zenon
<1>11. CASE /\ dest' = WriteSkippingZeros(dest, s.off, spoilt)
            /\ Stream(i, [s EXCEPT !.off = next, !.bad = TRUE])
  <2> DEFINE n == [s EXCEPT !.off = next, !.bad = TRUE]
  <2>1. n \in StreamRec /\ n.pc = "read" /\ n.off = next /\ n.todo = s.todo /\ n.bad = TRUE
    BY <1>1, <1>2, <1>5, Zenon DEF StreamRec
  <2> HIDE DEF n
  <2>2. Stream(i, n)
    BY <1>11, Zenon DEF n
  <2>3. Corrupt \in 0..Corrupt
    BY DEF Corrupt
  <2> QED BY <1>7, <1>8, <1>11, <2>1, <2>2, <2>3, Zenon
<1> QED BY <1>6, <1>10, <1>11, Zenon

LEMMA Typed ==
    ASSUME DataInv
    PROVE  /\ tuning.gap \in Nat /\ tuning.limit \in Nat \ {0} /\ tuning.section \in Nat \ {0}
           /\ tuning.perFile \in Nat \ {0}
           /\ Size \in 0..MaxSize /\ Size \in Nat /\ DOMAIN layout = 0..(Size - 1)
<1>1. tuning \in [gap: Nat, limit: Nat \ {0}, section: Nat \ {0}, skip: Nat \ {0},
                  perFile: Nat \ {0}, concurrency: Nat \ {0}] /\ MaxSize \in Nat
  BY PeerAssumption, Zenon DEF DataInv
<1>2. layout \in Layouts
  BY Zenon DEF DataInv
<1> QED BY <1>1, <1>2, FileSize, Zenon

\* The steps that leave the file, the plan, the streams and the data alone.
LEMMA DataFrame ==
    ASSUME DataInv, UNCHANGED <<tuning, layout, plan, streams, dest>>,
           served' \in {0, Want, Other},
           \/ pc' = pc
           \/ pc # "fetch" /\ pc' \in {"idle", "plan", "cleanup"}
           \/ pc = "stage" /\ pc' = "open"
           \/ pc = "envelope" /\ pc' = "staged"
    PROVE  DataInv'
<1>1. UNCHANGED <<Cancelled, Shaped, Wanted>> /\ Size' = Size
  BY Zenon DEF Cancelled, Shaped, Wanted, Content, Size
<1>2. GoodPlan(plan)' = GoodPlan(plan)
  BY <1>1, Zenon DEF GoodPlan, Limited
<1>3. Transfer' = Transfer
  <2>1. \A b : Content(Want, b)' = Content(Want, b)
    BY Zenon DEF Content
  <2> QED BY <1>1, <2>1 DEF Transfer, Apart, BlockInv
<1>4. pc' \in PCs
  BY DEF DataInv, PCs
<1> QED BY <1>1, <1>2, <1>3, <1>4, Zenon DEF DataInv

LEMMA DataPlanned ==
    ASSUME DataInv, FetchPlan
    PROVE  DataInv'
<1>1. pc = "plan" /\ served' = served /\ UNCHANGED <<tuning, layout, streams, dest>>
  BY Zenon DEF FetchPlan, peer, file, staging
<1>2. CASE served # Want
  <2>1. pc' = "idle" /\ plan' = plan
    BY <1>2, Zenon DEF FetchPlan
  <2>2. served' \in {0, Want, Other}
    BY <1>1, Zenon DEF DataInv
  <2> QED BY <1>1, <2>1, <2>2, DataFrame, Zenon
<1>3. CASE served = Want
  <2>1. PICK seeks \in BOOLEAN : plan' = BuildPlan(seeks)
    BY <1>3, Zenon DEF FetchPlan, May
  <2>2. pc' = "stage"
    BY <1>3, Zenon DEF FetchPlan
  <2>3. GoodPlan(plan')
    BY <1>3, <2>1, Typed, BuildPlanIsSound, Zenon DEF GoodPlan
  <2>4. GoodPlan(plan)'
    BY <1>1, <2>3, Zenon DEF GoodPlan, Size, Limited
  <2>5. streams = <<>> /\ Shaped'
    BY <1>1, Zenon DEF DataInv, Shaped
  <2> QED BY <1>1, <2>2, <2>4, <2>5, Zenon DEF DataInv, PCs
<1> QED BY <1>2, <1>3, Zenon

LEMMA EmptyFile == <<>> \in UNION {[0..(n - 1) -> 0..Corrupt] : n \in 0..MaxSize}
<1>1. 0 \in 0..MaxSize /\ 0..(0 - 1) = {}
  BY PeerAssumption
<1>2. <<>> \in [{} -> 0..Corrupt]
  OBVIOUS
<1> QED BY <1>1, <1>2, Zenon

LEMMA DataOpened ==
    ASSUME DataInv, OpenFile
    PROVE  DataInv'
<1>1. pc = "open" /\ served' = served /\ UNCHANGED <<tuning, layout, plan>>
  BY Zenon DEF OpenFile, peer, file
<1>2. CASE pc' = "cleanup" /\ UNCHANGED <<linked, dest, streams>>
  <2>1. served' \in {0, Want, Other}
    BY <1>1, Zenon DEF DataInv
  <2> QED BY <1>1, <1>2, <2>1, DataFrame, Zenon
<1>3. CASE /\ dest' = [b \in 0..(plan.size - 1) |-> 0]
           /\ streams' = Tasks(plan.slices)
           /\ pc' = "fetch"
  <2>1. GoodPlan(plan) /\ Size \in 0..MaxSize /\ Size \in Nat /\ tuning.perFile \in Nat \ {0}
    BY <1>1, Typed, Zenon DEF DataInv
  <2>2. plan.size = Size /\ Sorted(plan.slices, Size)
        /\ \A b \in 0..(Size - 1) : layout[b] # "hole" => Covers(plan.slices, b)
    BY <2>1, Zenon DEF GoodPlan
  <2> DEFINE T == Tasks(plan.slices)
  <2>3. /\ \A i \in DOMAIN T : StreamInv(T[i]) /\ T[i].pc = "queued"
        /\ \A i, j \in DOMAIN T : \A k, l, b \in Nat :
             Holds(T[i], k, b) /\ Holds(T[j], l, b) => i = j /\ k = l
        /\ \A b : Covers(plan.slices, b) => \E i \in DOMAIN T, k \in Nat : Holds(T[i], k, b)
    BY <2>1, <2>2, TasksDeal, Zenon
  <2>4. streams' = T
    BY <1>3, Zenon
  <2> HIDE DEF T
  <2>5. Size' = Size /\ GoodPlan(plan)' /\ \A b : Content(Want, b)' = Content(Want, b)
    BY <1>1, <2>1, Zenon DEF Size, GoodPlan, Limited, Content
  <2>6. dest' \in [0..(Size - 1) -> 0..Corrupt] /\ \A b \in 0..(Size - 1) : dest'[b] = 0
    BY <1>3, <2>2 DEF Corrupt
  <2>7. Shaped' /\ Apart'
    BY <2>3, <2>4 DEF Shaped, Apart
  <2>8. ASSUME NEW b \in 0..(Size - 1) PROVE BlockInv(b)'
    <3>1. ASSUME ~\E i \in DOMAIN T : Awaits(T[i], b) PROVE layout[b] = "hole"
      <4> SUFFICES ASSUME layout[b] # "hole" PROVE FALSE
        BY Zenon
      <4>1. PICK i \in DOMAIN T, k \in Nat : Holds(T[i], k, b)
        BY <2>2, <2>3, Zenon
      <4>2. Awaits(T[i], b)
        BY <2>3, <4>1, Zenon DEF Awaits, Holds, Reading
      <4> QED BY <3>1, <4>2, Zenon
    <3>2. layout[b] = "hole" => Content(Want, b) = 0
      BY Zenon DEF Content
    <3> QED BY <2>4, <2>5, <2>6, <3>1, <3>2, Zenon DEF BlockInv
  <2>9. Transfer'
    BY <2>5, <2>6, <2>7, <2>8, Zenon DEF Transfer
  <2>10. dest' \in UNION {[0..(n - 1) -> 0..Corrupt] : n \in 0..MaxSize}
    BY <2>1, <2>6, Zenon
  <2> QED BY <1>1, <1>3, <2>5, <2>7, <2>9, <2>10, Zenon DEF DataInv, PCs
<1> QED BY <1>2, <1>3, Zenon DEF OpenFile

LEMMA DataFetched ==
    ASSUME DataInv, FetchEnds
    PROVE  DataInv'
<1>1. /\ pc = "fetch" /\ streams' = <<>> /\ served' = served
      /\ UNCHANGED <<tuning, layout, plan, dest>>
      /\ \A i \in DOMAIN streams : streams[i].pc \in {"end", "err"}
      /\ pc' = IF Cancelled THEN "cleanup" ELSE "envelope"
  BY Zenon DEF FetchEnds, peer, file, staging, Cancelled
<1>2. GoodPlan(plan)' /\ Wanted' = Wanted
  BY <1>1, Zenon DEF DataInv, GoodPlan, Size, Limited, Wanted, Content
<1>3. ASSUME ~Cancelled PROVE dest = Wanted
  <2>1. Transfer /\ \A i \in DOMAIN streams : streams[i].pc = "end"
    BY <1>1, <1>3, Zenon DEF DataInv, Cancelled
  <2>2. \A i \in DOMAIN streams : streams[i].todo = <<>> /\ ~streams[i].bad
    BY <2>1, Zenon DEF DataInv, Shaped, StreamInv
  <2>3. \A i \in DOMAIN streams : \A b : ~Awaits(streams[i], b) /\ ~Taints(streams[i], b)
    BY <2>2 DEF Awaits, Taints
  <2>4. \A b \in 0..(Size - 1) : dest[b] = Content(Want, b)
    BY <2>1, <2>3, Zenon DEF Transfer, BlockInv
  <2>5. DOMAIN layout = 0..(Size - 1) /\ dest \in [0..(Size - 1) -> 0..Corrupt]
    BY <2>1, Typed, Zenon DEF Transfer
  <2> QED BY <2>4, <2>5, Zenon DEF Wanted
<1>4. Shaped'
  BY <1>1 DEF Shaped
<1> QED BY <1>1, <1>2, <1>3, <1>4, Zenon DEF DataInv, PCs

LEMMA DataStreams ==
    ASSUME DataInv, NEW i \in DOMAIN streams,
           \/ StreamGets(i) \/ StreamReads(i) \/ StreamBreaks(i) \/ StallTimeout(i)
           \/ StreamEnds(i) \/ StreamStalls(i)
    PROVE  DataInv'
<1>1. UNCHANGED <<tuning, layout, served, pc, plan>>
  BY Zenon
     DEF StreamGets, StreamReads, StreamBreaks, StallTimeout, StreamEnds, StreamStalls, peer, file
<1>2. pc = "fetch" /\ Shaped /\ (Cancelled \/ Transfer) /\ GoodPlan(plan) /\ plan.id = Want
  <2>1. streams # <<>>
    OBVIOUS
  <2> QED BY <2>1, Zenon DEF DataInv, GoodPlan
<1>3. Shaped' /\ (Cancelled' \/ Transfer')
  <2>1. CASE StreamGets(i)
    BY <1>2, <2>1, GetsKeeps, Zenon
  <2>2. CASE StreamReads(i)
    <3>1. Transfer
      BY <1>2, <2>2, Zenon DEF StreamReads
    <3> QED BY <1>2, <2>2, <3>1, Typed, ReadsKeeps, Zenon
  <2>3. CASE StreamBreaks(i) \/ StallTimeout(i)
    <3>1. Over(i, "err")
      BY <2>3, Zenon DEF StreamBreaks, StallTimeout
    <3> QED BY <1>2, <3>1, StreamFails, Zenon
  <2>4. CASE StreamEnds(i)
    BY <1>2, <2>4, EndsKeeps, Zenon
  <2>5. CASE StreamStalls(i)
    BY <1>2, <2>5, StallsKeeps, Zenon
  <2> QED BY <2>1, <2>2, <2>3, <2>4, <2>5, Zenon
<1>4. GoodPlan(plan)' /\ Size' = Size
  BY <1>1, <1>2, Zenon DEF GoodPlan, Size, Limited
<1>5. dest' \in UNION {[0..(n - 1) -> 0..Corrupt] : n \in 0..MaxSize}
  <2>1. CASE dest' = dest
    BY <2>1, Zenon DEF DataInv
  <2>2. CASE StreamReads(i)
    <3>1. Transfer
      BY <1>2, <2>2, Zenon DEF StreamReads
    <3>2. Transfer'
      BY <1>2, <2>2, <3>1, Typed, ReadsKeeps, Zenon
    <3>3. dest' \in [0..(Size - 1) -> 0..Corrupt] /\ Size \in 0..MaxSize
      BY <1>4, <3>2, Typed, Zenon DEF Transfer
    <3> QED BY <3>3, Zenon
  <2>3. dest' = dest \/ StreamReads(i)
    BY Zenon DEF StreamGets, StreamBreaks, StallTimeout, StreamEnds, StreamStalls, staging
  <2> QED BY <2>1, <2>2, <2>3, Zenon
<1> QED BY <1>1, <1>2, <1>3, <1>4, <1>5, Zenon DEF DataInv

LEMMA DataNext ==
    ASSUME DataInv, [Next]_vars
    PROVE  DataInv'
<1>0. served \in {0, Want, Other}
  BY Zenon DEF DataInv
<1>1. CASE \/ UNCHANGED vars \/ PeerRemoves \/ PeerSaves \/ SweepStaging
  <2>1. UNCHANGED <<tuning, layout, plan, streams, dest, pc>> /\ served' \in {0, Want, Other}
    BY <1>0, <1>1, Zenon
       DEF vars, PeerRemoves, PeerSaves, SweepStaging, SweepLists, SweepRemovesOld,
       SweepRemovesMine, SweepEnds, peer, file, staging
  <2> QED BY <2>1, DataFrame, Zenon
<1>2. CASE RestoreStarts \/ FetchPlanFails \/ WriteEnvelope \/ CloneFromDir
  <2>1. /\ UNCHANGED <<tuning, layout, plan, streams, dest>> /\ served' = served
        /\ pc # "fetch"
        /\ pc' \in {"idle", "plan", "cleanup"} \/ (pc = "envelope" /\ pc' = "staged")
    BY <1>2, Zenon
       DEF RestoreStarts, FetchPlanFails, WriteEnvelope, CloneFromDir, peer, file, staging
  <2> QED BY <1>0, <2>1, DataFrame, Zenon
<1>3. CASE FetchPlan
  BY <1>3, DataPlanned
<1>4. CASE NewStagingDir
  <2>1. pc = "stage" /\ served' = served /\ UNCHANGED <<tuning, layout, streams, dest>>
    BY <1>4, Zenon DEF NewStagingDir, peer, file
  <2>2. CASE pc' = "open" /\ UNCHANGED plan
    BY <1>0, <2>1, <2>2, DataFrame, Zenon
  <2>3. CASE pc' = "idle" /\ plan' = NoPlan
    <3>1. streams = <<>> /\ Shaped'
      BY <2>1, Zenon DEF DataInv, Shaped
    <3> QED BY <1>0, <2>1, <2>3, <3>1, Zenon DEF DataInv, PCs
  <2> QED BY <1>4, <2>2, <2>3, Zenon DEF NewStagingDir
<1>5. CASE OpenFile
  BY <1>5, DataOpened
<1>6. CASE FetchEnds
  BY <1>6, DataFetched
<1>7. CASE Cleanup \/ Restart
  <2>1. /\ pc' = "idle" /\ plan' = NoPlan /\ dest' = <<>> /\ UNCHANGED <<tuning, layout, served>>
        /\ streams' = <<>>
    BY <1>7, Zenon DEF Cleanup, Restart, peer, file, DataInv
  <2>2. Shaped'
    BY <2>1 DEF Shaped
  <2> QED BY <1>0, <2>1, <2>2, EmptyFile, Zenon DEF DataInv, PCs
<1>8. CASE Streams \/ \E i \in DOMAIN streams : StreamStalls(i)
  BY <1>8, DataStreams, Zenon DEF Streams
<1> QED BY <1>1, <1>2, <1>3, <1>4, <1>5, <1>6, <1>7, <1>8, Zenon DEF Next, Restore

LEMMA DataInit ==
    ASSUME Init
    PROVE  DataInv
<1>1. streams = <<>> /\ dest = <<>> /\ plan = NoPlan /\ pc = "idle"
  BY Zenon DEF Init
<1>2. Shaped
  BY <1>1 DEF Shaped
<1>3. served \in {0, Want, Other} /\ tuning \in Tunings /\ layout \in Layouts
  BY Zenon DEF Init
<1> QED BY <1>1, <1>2, <1>3, EmptyFile, Zenon DEF DataInv, PCs

\* The counters, and a directory is orphaned by a restart.
Counters ==
    /\ linked \in BOOLEAN /\ envelope \in BOOLEAN
    /\ restores \in 0..MaxRestores
    /\ restarts \in 0..MaxRestarts
    /\ leftover <= restarts

LEMMA CountersNext ==
    ASSUME Inv, Counters, [Next]_vars
    PROVE  Counters'
<1>0. leftover \in Nat /\ restarts \in Nat /\ restores \in Nat /\ {MaxRestores, MaxRestarts} \subseteq Nat
  BY PeerAssumption DEF Inv, Counters
<1>1. linked' \in BOOLEAN /\ envelope' \in BOOLEAN
  BY Zenon
     DEF Counters, Next, vars, Restore, Streams, SweepStaging, PeerRemoves, PeerSaves, RestoreStarts,
     FetchPlan, FetchPlanFails, NewStagingDir, OpenFile, FetchEnds, WriteEnvelope, CloneFromDir,
     Cleanup, StreamGets, StreamReads, StreamBreaks, StallTimeout, StreamEnds, StreamStalls, Restart,
     SweepLists, SweepRemovesOld, SweepRemovesMine, SweepEnds, staging
<1>2. CASE RestoreStarts
  <2>1. restores < MaxRestores /\ restores' = restores + 1 /\ UNCHANGED <<restarts, leftover>>
    BY <1>2, Zenon DEF RestoreStarts, sweeping
  <2> QED BY <1>0, <1>1, <2>1 DEF Counters
<1>3. CASE Restart
  <2>1. /\ restarts < MaxRestarts /\ restarts' = restarts + 1 /\ restores' = restores
        /\ leftover' \in {leftover, leftover + 1}
    BY <1>3, Zenon DEF Restart
  <2> QED BY <1>0, <1>1, <2>1 DEF Counters
<1>4. CASE SweepRemovesOld
  <2>1. UNCHANGED <<restores, restarts>> /\ leftover' = leftover - 1
    BY <1>4, Zenon DEF SweepRemovesOld, bounds
  <2> QED BY <1>0, <1>1, <2>1 DEF Counters
<1>5. CASE ~RestoreStarts /\ ~Restart /\ ~SweepRemovesOld
  <2>1. UNCHANGED <<restores, restarts, leftover>>
    BY <1>5, Zenon DEF Next, vars, Restore, Streams, SweepStaging, PeerRemoves, PeerSaves,
       FetchPlan, FetchPlanFails, NewStagingDir, OpenFile, FetchEnds, WriteEnvelope, CloneFromDir,
       Cleanup, StreamGets, StreamReads, StreamBreaks, StallTimeout, StreamEnds, StreamStalls,
       SweepLists, SweepRemovesMine, SweepEnds, bounds, sweeping
  <2> QED BY <1>0, <1>1, <2>1, Zenon DEF Counters
<1> QED BY <1>2, <1>3, <1>4, <1>5, Zenon

\* The plan that the peer serves loses no data of any file, however it is laid out,
\* coalesced and cut (scanExtents, coalesceExtents, splitExtents).
THEOREM PlanIsSoundAlways == Spec => []PlanIsSound
<1>1. Init => DataInv
  BY DataInit
<1>2. DataInv /\ [Next]_vars => DataInv'
  BY DataNext
<1>3. DataInv => PlanIsSound
  <2> SUFFICES ASSUME DataInv, plan.id # 0
               PROVE  LET s == plan.slices
                          covered == UNION {Blocks(s[i]) : i \in DOMAIN s}
                      IN /\ \A b \in DOMAIN layout : layout[b] = "data" => b \in covered
                         /\ covered \subseteq DOMAIN layout
                         /\ \A i \in DOMAIN s : s[i].length \in 1..tuning.limit
                         /\ \A i, j \in DOMAIN s : i < j => s[i].offset + s[i].length <= s[j].offset
    BY Zenon DEF PlanIsSound
  <2> DEFINE s == plan.slices
             covered == UNION {Blocks(s[i]) : i \in DOMAIN s}
  <2>1. GoodPlan(plan)
    BY DEF DataInv, NoPlan
  <2>2. Size \in Nat /\ DOMAIN layout = 0..(Size - 1) /\ tuning.limit \in Nat
    BY Typed, Zenon
  <2>3. Sorted(s, Size) /\ Limited(s) /\ s \in Seq(Extent)
    BY <2>1, Zenon DEF GoodPlan, Sorted
  <2>4. \A i \in DOMAIN s : s[i] \in Extent
    BY <2>3
  <2>5. \A i \in DOMAIN s : s[i].offset \in Nat /\ s[i].length \in Nat /\ s[i].length > 0
    BY <2>4 DEF Extent
  <2>6. \A b \in DOMAIN layout : layout[b] = "data" => b \in covered
    BY <2>1, <2>2, Zenon DEF GoodPlan, Covers
  <2>7. covered \subseteq DOMAIN layout
    <3> SUFFICES ASSUME NEW i \in DOMAIN s, NEW b \in Blocks(s[i]) PROVE b \in DOMAIN layout
      BY Zenon
    <3>1. EndOf(s[i]) <= Size
      BY <2>3, Zenon DEF Sorted
    <3> HIDE DEF s
    <3> QED BY <2>2, <2>5, <3>1 DEF EndOf, Blocks
  <2>8. \A i \in DOMAIN s : s[i].length \in 1..tuning.limit
    BY <2>2, <2>3, <2>5 DEF Limited
  <2>9. \A i, j \in DOMAIN s : i < j => s[i].offset + s[i].length <= s[j].offset
    BY <2>3, Zenon DEF Sorted, EndOf
  <2> QED BY <2>6, <2>7, <2>8, <2>9, Zenon
<1> QED BY <1>1, <1>2, <1>3, PTL DEF Spec

\* What the clone is made from is, block for block, the snapshot that the registry names,
\* for every file and every division of it among streams, whatever breaks, stalls, is
\* corrupted or is replaced (Restore, fetchSlice, writeSkippingZeros).
THEOREM StagedIsWantedAlways == Spec => []StagedIsWanted
<1>1. Init => DataInv
  BY DataInit
<1>2. DataInv /\ [Next]_vars => DataInv'
  BY DataNext
<1>3. DataInv => StagedIsWanted
  BY Zenon DEF DataInv, StagedIsWanted, Wanted
<1> QED BY <1>1, <1>2, <1>3, PTL DEF Spec

\* The variables have their types, streams run only within fetchFiles, and no more
\* directories are left over than vk-cocoon was restarted (Restore, SweepStaging).
THEOREM TypeCorrect == Spec => []TypeOK
<1>1. Init => DataInv /\ Inv /\ Counters
  <2>1. ASSUME Init PROVE Counters
    <3>1. linked \in BOOLEAN /\ envelope \in BOOLEAN
      BY <2>1, Zenon DEF Init
    <3>2. restores = 0 /\ restarts = 0 /\ leftover = 0
      BY <2>1, Zenon DEF Init
    <3> QED BY <3>1, <3>2, PeerAssumption DEF Counters
  <2> QED BY <2>1, DataInit, InvInit, Zenon
<1>2. DataInv /\ Inv /\ Counters /\ [Next]_vars => (DataInv /\ Inv /\ Counters)'
  BY DataNext, InvNext, CountersNext, Zenon
<1>3. DataInv /\ Inv /\ Counters => TypeOK
  <2> SUFFICES ASSUME DataInv, Inv, Counters PROVE TypeOK
    BY Zenon
  <2>1. plan.id \in {0, Want, Other}
    BY DEF DataInv, GoodPlan, NoPlan
  <2>2. \A i \in DOMAIN streams : streams[i].pc \in {"queued", "get", "read", "stalled", "end", "err"}
    BY Zenon DEF DataInv, Shaped, StreamInv, StreamRec, StreamPCs
  <2>3. leftover \in 0..restarts /\ sweep \in [pc: {"off", "list", "remove"}, old: 0..leftover, mine: BOOLEAN]
    <3>1. leftover \in Nat /\ leftover <= restarts /\ restarts \in Nat
      BY PeerAssumption DEF Inv, Counters
    <3>2. sweep \in SweepRec /\ (sweep.old = 0 \/ sweep.old = leftover)
      BY DEF Inv, SweepRec
    <3> QED BY <3>1, <3>2 DEF SweepRec
  <2> QED BY <2>1, <2>2, <2>3, Zenon DEF TypeOK, DataInv, Inv, Counters, PCs
<1> QED BY <1>1, <1>2, <1>3, PTL DEF Spec
================================================================================
