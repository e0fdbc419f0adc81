---------------------------- MODULE LifecycleProofs ----------------------------
(***************************************************************************)
(* Safety of Lifecycle for every number of incarnations, generations, patch*)
(* attempts and background goroutines.                                     *)
(***************************************************************************)
EXTENDS Lifecycle, TLAPS

(***************************************************************************)
(* The record sets are expanded once, in the lemmas about what the helpers *)
(* return; the step proofs cite those lemmas.                              *)
(***************************************************************************)

LEMMA ConstantsTyped ==
    /\ NoStatus \in Status
    /\ NoPod \in Pod
    /\ NoIntent \in Intent
    /\ NoApiPod \in ApiPod
    /\ Idle \in Op
BY BoundsAssumption
   DEF NoStatus, Status, NoPod, Pod, NoIntent, Intent, NoApiPod, ApiPod, Idle, Op, PCs,
       LifecycleStates

LEMMA ConstantFields ==
    /\ NoStatus.gen = 0
    /\ NoPod.uid = 0 /\ NoPod.gen = 0
    /\ NoIntent.uid = 0
    /\ NoApiPod.uid = 0 /\ NoApiPod.gen = 0 /\ NoApiPod.lc = NoStatus
    /\ Idle.pc = "idle" /\ Idle.uid = 0 /\ Idle.gen = 0
BY DEF NoStatus, NoPod, NoIntent, NoApiPod, Idle

LEMMA ResumeTyped ==
    ASSUME TypeOK, NEW p \in Procs
    PROVE  Resume(p) \in Op
<1>1. op[p] \in Op
  BY DEF TypeOK
<1>2. 0 \in 0..(Attempts - 1)
  BY BoundsAssumption
<1>3. [op[p] EXCEPT !.pc = "run", !.tries = 0, !.status = NoStatus] \in Op
  BY <1>1, <1>2, ConstantsTyped, Zenon DEF Op, PCs
<1> QED BY <1>3, ConstantsTyped DEF Resume

LEMMA RetriedTyped ==
    ASSUME TypeOK, NEW p \in Procs
    PROVE  Retried(p) \in Op
<1>1. op[p] \in Op
  BY DEF TypeOK
<1>2. CASE op[p].tries + 1 < Attempts
  <2>1. op[p].tries + 1 \in 0..(Attempts - 1)
    BY <1>1, <1>2, BoundsAssumption DEF Op
  <2>2. Retried(p) = [op[p] EXCEPT !.pc = "check", !.tries = op[p].tries + 1]
    BY <1>2 DEF Retried
  <2> QED BY <1>1, <2>1, <2>2, Zenon DEF Op, PCs
<1>3. CASE ~(op[p].tries + 1 < Attempts)
  BY <1>3, ResumeTyped DEF Retried
<1> QED BY <1>2, <1>3

LEMMA ApiViewTyped ==
    ASSUME TypeOK
    PROVE  ApiView \in Pod
BY DEF TypeOK, ApiView, ApiPod, Pod

LEMMA TrackPodTyped ==
    ASSUME TypeOK, NEW pod \in Pod
    PROVE  Reassert(pod) \in Pod /\ ReassertIntent(pod) \in Intent
BY ConstantsTyped DEF TypeOK, Reassert, ReassertIntent, Pod, Intent

LEMMA NewStatusTyped ==
    ASSUME TypeOK, NEW w \in Procs, NEW state \in LifecycleStates,
           NEW msg \in Messages \cup {""}
    PROVE  NewStatus(w, state, msg) \in Status
BY Zenon DEF TypeOK, NewStatus, WriteGen, Status, Op, Pod

LEMMA StageTyped ==
    ASSUME TypeOK, NEW w \in Procs, NEW s \in Status, NEW next \in PCs,
           NEW create \in {"no", "running", "failed"}, Stage(w, s, next, create)
    PROVE  /\ intent' \in Intent
           /\ tracked' \in Pod
           /\ op' \in [Procs -> Op]
<1>1. CASE Accepted(op[w].uid, s)
  BY <1>1, ConstantsTyped, BoundsAssumption DEF TypeOK, Stage, Apply, Intent, Pod, Op
<1>2. CASE ~Accepted(op[w].uid, s)
  BY <1>2 DEF TypeOK, Stage, Op
<1> QED BY <1>1, <1>2

(***************************************************************************)
(* Type correctness.                                                       *)
(***************************************************************************)

LEMMA TypeEnvironment ==
    ASSUME TypeOK, Environment
    PROVE  TypeOK'
<1>1. CASE ApiCreate
  <2>1. lastUID + 1 \in 0..MaxUID /\ 1 \in 0..MaxGen
    BY <1>1, BoundsAssumption DEF TypeOK, ApiCreate
  <2>2. [NoApiPod EXCEPT !.uid = lastUID + 1, !.gen = 1] \in ApiPod
    BY <2>1, ConstantsTyped, Zenon DEF ApiPod
  <2> QED BY <1>1, <2>1, <2>2 DEF TypeOK, ApiCreate
<1>2. CASE ApiTerminate
  BY <1>2, Zenon DEF TypeOK, ApiTerminate, ApiPod
<1>3. CASE ApiRemove
  BY <1>3, ConstantsTyped DEF TypeOK, ApiRemove
<1>4. CASE StampGeneration
  <2>1. api.gen + 1 \in 0..MaxGen
    BY <1>4, BoundsAssumption DEF TypeOK, StampGeneration, ApiPod
  <2> QED BY <1>4, <2>1 DEF TypeOK, StampGeneration, ApiPod
<1> QED BY <1>1, <1>2, <1>3, <1>4 DEF Environment

LEMMA TypeFlush ==
    ASSUME TypeOK, NEW p \in Procs, Flush(p)
    PROVE  TypeOK'
<1>1. op[p] \in Op /\ op \in [Procs -> Op] /\ op[p].status \in Status
      /\ op[p].uid \in 0..MaxUID
  BY DEF TypeOK, Op
<1>2. CASE PublishStatus(p)
  <2>1. api' \in ApiPod
    BY <1>2, Zenon DEF TypeOK, PublishStatus, ApiPod
  <2>2. [op[p] EXCEPT !.pc = "check"] \in Op
    BY <1>1 DEF Op, PCs
  <2>3. op' = [op EXCEPT ![p] = [op[p] EXCEPT !.pc = "check"]]
        \/ op' = [op EXCEPT ![p] = Resume(p)]
    BY <1>2 DEF PublishStatus
  <2>4. op' \in [Procs -> Op]
    BY <1>1, <2>2, <2>3, ResumeTyped
  <2> QED BY <1>2, <2>1, <2>4 DEF TypeOK, PublishStatus
<1>3. CASE FlushCheck(p)
  <2>1. [op[p] EXCEPT !.pc = "patch"] \in Op
    BY <1>1 DEF Op, PCs
  <2> QED BY <1>1, <1>3, <2>1, ResumeTyped DEF TypeOK, FlushCheck
<1>4. CASE PatchLands(p)
  <2>1. api' \in ApiPod
    BY <1>1, <1>4, Zenon DEF TypeOK, PatchLands, ApiPod
  <2>2. op' \in [Procs -> Op]
    BY <1>1, <1>4 DEF PatchLands, Op, PCs
  <2> QED BY <1>4, <2>1, <2>2 DEF TypeOK, PatchLands
<1>5. CASE PatchAnswerLost(p)
  <2>1. api' \in ApiPod
    BY <1>1, <1>5, Zenon DEF TypeOK, PatchAnswerLost, ApiPod
  <2>2. op' \in [Procs -> Op]
    BY <1>1, <1>5, RetriedTyped DEF PatchAnswerLost
  <2> QED BY <1>5, <2>1, <2>2 DEF TypeOK, PatchAnswerLost
<1>6. CASE PatchFails(p)
  BY <1>1, <1>6, RetriedTyped DEF TypeOK, PatchFails
<1>7. CASE PatchSuperseded(p)
  <2>1. op' \in [Procs -> Op]
    BY <1>1, <1>7 DEF PatchSuperseded, Op, PCs
  <2> QED BY <1>7, <2>1 DEF TypeOK, PatchSuperseded
<1>8. CASE RecordFlushed(p)
  <2>1. intent' \in Intent
    BY <1>1, <1>8 DEF TypeOK, RecordFlushed, Intent
  <2> QED BY <1>1, <1>8, <2>1, ResumeTyped DEF TypeOK, RecordFlushed
<1>9. CASE DropSuperseded(p)
  BY <1>1, <1>9, ConstantsTyped, ResumeTyped DEF TypeOK, DropSuperseded
<1> QED BY <1>2, <1>3, <1>4, <1>5, <1>6, <1>7, <1>8, <1>9 DEF Flush

LEMMA TypeWork ==
    ASSUME TypeOK, NEW w \in Writers, Work(w)
    PROVE  TypeOK'
<1>1. w \in Procs /\ op[w] \in Op /\ op \in [Procs -> Op]
      /\ op[w].create \in {"no", "running", "failed"}
  BY DEF TypeOK, Procs, Op
<1>2. CASE Created(w)
  BY <1>1, <1>2 DEF TypeOK, Created, Op
<1>3. CASE Mark(w)
  <2>0. PICK state \in IF op[w].create = "running" THEN {"creating"} ELSE Marks :
          \E msg \in MessagesOf(state) :
            Stage(w, NewStatus(w, state, msg),
                  IF state = "ready" THEN "status" ELSE "check", op[w].create)
    BY <1>3, Zenon DEF Mark
  <2>1. PICK msg \in MessagesOf(state) :
          Stage(w, NewStatus(w, state, msg),
                IF state = "ready" THEN "status" ELSE "check", op[w].create)
    BY <2>0
  <2>2. state \in LifecycleStates /\ msg \in Messages \cup {""}
    BY <2>1, MarksAssumption, Zenon DEF LifecycleStates, MessagesOf
  <2>3. (IF state = "ready" THEN "status" ELSE "check") \in PCs
    BY DEF PCs
  <2> QED BY <1>1, <1>3, <2>1, <2>2, <2>3, NewStatusTyped, StageTyped, Zenon DEF TypeOK, Mark
<1>4. CASE Republish(w)
  <2>1. intent.status.state \in LifecycleStates \cup {""}
        /\ intent.status.msg \in Messages \cup {""}
    BY Zenon DEF TypeOK, Intent, Status
  <2>2. NewStatus(w, intent.status.state, intent.status.msg) \in Status
    BY <1>1, <2>1, Zenon DEF TypeOK, NewStatus, WriteGen, Status, Op, Pod
  <2>3. "check" \in PCs
    BY DEF PCs
  <2> QED BY <1>1, <1>4, <2>2, <2>3, StageTyped DEF TypeOK, Republish
<1>5. CASE FailCreate(w)
  <2>1. PICK msg \in Messages : Stage(w, NewStatus(w, "failed", msg), "check", "failed")
    BY <1>5 DEF FailCreate
  <2>2. "check" \in PCs /\ "failed" \in LifecycleStates
    BY DEF PCs, LifecycleStates
  <2> QED BY <1>1, <1>5, <2>1, <2>2, NewStatusTyped, StageTyped, Zenon DEF TypeOK, FailCreate
<1>6. CASE FailCreateUntrack(w)
  BY <1>1, <1>6, ConstantsTyped DEF TypeOK, FailCreateUntrack
<1>7. CASE Return(w)
  BY <1>1, <1>7, ConstantsTyped DEF TypeOK, Return
<1> QED BY <1>2, <1>3, <1>4, <1>5, <1>6, <1>7 DEF Work

LEMMA TypeNext ==
    ASSUME TypeOK, [Next]_vars
    PROVE  TypeOK'
<1>1. CASE Environment
  BY <1>1, TypeEnvironment
<1>2. CASE Reconcile
  <2>1. Reconciler \in Procs
    BY DEF Procs
  <2>2. [Idle EXCEPT !.pc = IF intent.status.state = "ready" THEN "getpod" ELSE "check",
                     !.uid = intent.uid, !.status = intent.status] \in Op
    BY ConstantsTyped, Zenon DEF TypeOK, Intent, Op, PCs
  <2> QED BY <1>2, <2>1, <2>2 DEF TypeOK, Reconcile
<1>3. CASE ReconcileGetPod
  <2> DEFINE published == [op[Reconciler] EXCEPT !.pc = "status", !.uid = tracked.uid]
             plain == [op[Reconciler] EXCEPT !.pc = "check"]
  <2>1. Reconciler \in Procs
    BY DEF Procs
  <2>2. published \in Op /\ plain \in Op
    BY <2>1, Zenon DEF TypeOK, Op, PCs, Pod
  <2>3. op' = [op EXCEPT ![Reconciler] = published]
        \/ op' = [op EXCEPT ![Reconciler] = plain]
    BY <1>3, <2>1, Zenon DEF TypeOK, ReconcileGetPod
  <2> HIDE DEF published, plain
  <2>4. op' \in [Procs -> Op]
    BY <2>1, <2>2, <2>3 DEF TypeOK
  <2> QED BY <1>3, <2>4 DEF TypeOK, ReconcileGetPod
<1>4. CASE ForgetPod
  BY <1>4, ConstantsTyped DEF TypeOK, ForgetPod
<1>5. ASSUME NEW p \in Procs, Flush(p) PROVE TypeOK'
  BY <1>5, TypeFlush
<1>6. CASE Dispatch
  <2>1. api.uid \in 0..MaxUID /\ api.gen \in 0..MaxGen
    BY DEF TypeOK, ApiPod
  <2>2. [Idle EXCEPT !.pc = "run", !.uid = api.uid, !.gen = api.gen,
           !.create = IF tracked.uid = api.uid THEN "no" ELSE "running"] \in Op
    BY <2>1, ConstantsTyped, Zenon DEF Op, PCs
  <2> QED BY <1>6, <2>2, ApiViewTyped, TrackPodTyped, Zenon DEF TypeOK, Dispatch, TrackPod
<1>7. ASSUME NEW w \in Workers, Spawn(w) PROVE TypeOK'
  <2>1. [Idle EXCEPT !.pc = "run", !.uid = tracked.uid, !.gen = tracked.gen] \in Op
    BY ConstantsTyped, Zenon DEF TypeOK, Pod, Op, PCs
  <2> QED BY <1>7, <2>1, Zenon DEF TypeOK, Spawn
<1>8. ASSUME NEW w \in Writers, Work(w) PROVE TypeOK'
  BY <1>8, TypeWork
<1>9. CASE Crash
  BY <1>9, ConstantsTyped DEF TypeOK, Crash
<1>10. CASE Startup
  <2>1. Seed(ApiView) \in Intent
    BY ApiViewTyped, ConstantsTyped, Zenon DEF Seed, Pod, Intent
  <2> QED BY <1>10, <2>1, ApiViewTyped, Zenon DEF TypeOK, Startup
<1>11. CASE UNCHANGED vars
  BY <1>11 DEF TypeOK, vars
<1> QED BY <1>1, <1>2, <1>3, <1>4, <1>5, <1>6, <1>7, <1>8, <1>9, <1>10, <1>11
        DEF Next, Repair

\* Type correctness: every table, goroutine and annotation keeps its shape, and
\* no flush makes more than lifecyclePatchAttempts attempts.
THEOREM TypeCorrect == Spec => []TypeOK
<1>1. Init => TypeOK
  <2>1. 0 \in 0..MaxUID
    BY BoundsAssumption
  <2> QED BY <2>1, ConstantsTyped, Zenon DEF Init, TypeOK
<1> QED BY <1>1, TypeNext, PTL DEF Spec

(***************************************************************************)
(* What a staged status does to the tables.                                *)
(***************************************************************************)

LEMMA StageCases ==
    ASSUME NEW w \in Procs, NEW s, NEW next, NEW create, Stage(w, s, next, create)
    PROVE  \/ /\ Accepted(op[w].uid, s)
              /\ Apply(op[w].uid, s)
           \/ UNCHANGED <<intent, tracked>>
BY DEF Stage

\* Only Dispatch, Stage, RecordFlushed, FailCreateUntrack, the two ways to
\* forget and a restart touch tracked and intent.
LEMMA TablesStep ==
    ASSUME [Next]_vars
    PROVE  \/ UNCHANGED <<tracked, intent>>
           \/ TrackPod(ApiView)
           \/ \E w \in Writers : \E s : Accepted(op[w].uid, s) /\ Apply(op[w].uid, s)
           \/ tracked' = NoPod /\ intent' \in {intent, NoIntent}
           \/ tracked' = tracked /\ intent' = NoIntent
           \/ tracked' = tracked /\ \E s : intent' = [intent EXCEPT !.flushed = s]
           \/ booting /\ tracked' = ApiView /\ intent' = Seed(ApiView)
<1>1. CASE Environment
  BY <1>1 DEF Environment, ApiCreate, ApiTerminate, ApiRemove, StampGeneration
<1>2. CASE Reconcile \/ ReconcileGetPod
  BY <1>2 DEF Reconcile, ReconcileGetPod
<1>3. CASE ForgetPod
  BY <1>3 DEF ForgetPod
<1>4. ASSUME NEW p \in Procs, Flush(p)
      PROVE  \/ UNCHANGED <<tracked, intent>>
             \/ tracked' = tracked /\ intent' = NoIntent
             \/ tracked' = tracked /\ \E s : intent' = [intent EXCEPT !.flushed = s]
  BY <1>4 DEF Flush, PublishStatus, FlushCheck, PatchLands, PatchAnswerLost, PatchFails,
              PatchSuperseded, RecordFlushed, DropSuperseded
<1>5. CASE Dispatch
  BY <1>5 DEF Dispatch
<1>6. ASSUME NEW w \in Workers, Spawn(w) PROVE UNCHANGED <<tracked, intent>>
  BY <1>6 DEF Spawn
<1>7. ASSUME NEW w \in Writers, Work(w)
      PROVE  \/ UNCHANGED <<tracked, intent>>
             \/ \E s : Accepted(op[w].uid, s) /\ Apply(op[w].uid, s)
             \/ tracked' = NoPod /\ intent' = intent
  <2>1. CASE Created(w) \/ Return(w)
    BY <2>1 DEF Created, Return
  <2>2. CASE Mark(w)
    <3>1. \E s, next : Stage(w, s, next, op[w].create)
      BY <2>2 DEF Mark
    <3> QED BY <3>1, StageCases DEF Procs
  <2>3. CASE Republish(w)
    <3>1. \E s : Stage(w, s, "check", "no")
      BY <2>3 DEF Republish
    <3> QED BY <3>1, StageCases DEF Procs
  <2>4. CASE FailCreate(w)
    <3>1. \E s : Stage(w, s, "check", "failed")
      BY <2>4 DEF FailCreate
    <3> QED BY <3>1, StageCases DEF Procs
  <2>5. CASE FailCreateUntrack(w)
    BY <2>5 DEF FailCreateUntrack
  <2> QED BY <1>7, <2>1, <2>2, <2>3, <2>4, <2>5 DEF Work
<1>8. CASE Crash
  BY <1>8 DEF Crash
<1>9. CASE Startup
  BY <1>9 DEF Startup
<1>10. CASE UNCHANGED vars
  BY <1>10 DEF vars
<1> QED BY <1>1, <1>2, <1>3, <1>4, <1>5, <1>6, <1>7, <1>8, <1>9, <1>10 DEF Next, Repair

\* The tracked pod always shows the staged status of its own incarnation:
\* whatever UpdatePod brings is re-stamped (reassertLifecycleLocked), and a
\* write is only applied by a holder of the tracked incarnation
\* (applyLifecycleLocked).
THEOREM TrackedShowsIntentAlways == Spec => []TrackedShowsIntent
<1>1. Init => TrackedShowsIntent
  BY DEF Init, TrackedShowsIntent, NoPod
<1>2. TypeOK /\ TrackedShowsIntent /\ [Next]_vars => TrackedShowsIntent'
  <2> SUFFICES ASSUME TypeOK, TrackedShowsIntent, [Next]_vars PROVE TrackedShowsIntent'
    OBVIOUS
  <2>1. CASE UNCHANGED <<tracked, intent>>
    BY <2>1 DEF TrackedShowsIntent
  <2>2. CASE TrackPod(ApiView)
    BY <2>2, ApiViewTyped DEF TrackPod, Reassert, ReassertIntent, TrackedShowsIntent,
                              NoIntent, Pod
  <2>3. ASSUME NEW w \in Writers, NEW s, Accepted(op[w].uid, s), Apply(op[w].uid, s)
        PROVE  TrackedShowsIntent'
    BY <2>3 DEF Accepted, Superseded, Apply, TrackedShowsIntent, TypeOK, Pod
  <2>4. CASE tracked' = NoPod
    BY <2>4 DEF TrackedShowsIntent, NoPod
  <2>5. CASE intent' = NoIntent
    BY <2>5 DEF TrackedShowsIntent, NoIntent
  <2>6. ASSUME NEW s, tracked' = tracked, intent' = [intent EXCEPT !.flushed = s]
        PROVE  TrackedShowsIntent'
    BY <2>6 DEF TrackedShowsIntent, TypeOK, Intent
  <2>7. CASE tracked' = ApiView /\ intent' = Seed(ApiView)
    BY <2>7, Zenon DEF TrackedShowsIntent, Seed, NoIntent, ApiView
  <2> QED BY <2>1, <2>2, <2>3, <2>4, <2>5, <2>6, <2>7, TablesStep
<1> QED BY <1>1, <1>2, TypeCorrect, PTL DEF Spec

\* The annotations of a pod were flushed for that pod: the UID in the patch
\* keeps a goroutine of a deleted incarnation off the recreated one
\* (patchIncarnationAnnotations).
THEOREM AnnotationsAreOwnAlways == Spec => []AnnotationsAreOwn
<1>1. Init => AnnotationsAreOwn
  BY DEF Init, AnnotationsAreOwn, NoApiPod
<1>2. TypeOK /\ AnnotationsAreOwn /\ [Next]_vars => AnnotationsAreOwn'
  <2> SUFFICES ASSUME TypeOK, AnnotationsAreOwn, [Next]_vars PROVE AnnotationsAreOwn'
    OBVIOUS
  <2>1. CASE Environment
    <3>1. CASE ApiCreate \/ ApiRemove
      <4>1. api'.lc = NoStatus
        BY <3>1, ConstantsTyped, ConstantFields, Zenon DEF ApiCreate, ApiRemove, ApiPod
      <4> QED BY <4>1 DEF AnnotationsAreOwn
    <3>2. CASE ApiTerminate \/ StampGeneration
      BY <3>2 DEF ApiTerminate, StampGeneration, AnnotationsAreOwn, TypeOK, ApiPod
    <3> QED BY <2>1, <3>1, <3>2 DEF Environment
  <2>2. ASSUME NEW p \in Procs, Flush(p) PROVE AnnotationsAreOwn'
    <3>1. CASE PublishStatus(p)
      BY <3>1 DEF PublishStatus, AnnotationsAreOwn, TypeOK, ApiPod
    <3>2. CASE PatchLands(p) \/ PatchAnswerLost(p)
      <4>1. /\ api.uid = op[p].uid
            /\ api' = [api EXCEPT !.lc = op[p].status, !.by = op[p].uid]
        BY <3>2 DEF PatchLands, PatchAnswerLost, FenceHolds
      <4>2. api'.uid = api.uid /\ api'.by = op[p].uid
        BY <4>1 DEF TypeOK, ApiPod
      <4> QED BY <4>1, <4>2 DEF AnnotationsAreOwn
    <3>3. CASE api' = api
      BY <3>3 DEF AnnotationsAreOwn
    <3> QED BY <2>2, <3>1, <3>2, <3>3
            DEF Flush, FlushCheck, PatchFails, PatchSuperseded, RecordFlushed,
                DropSuperseded
  <2>3. CASE api' = api
    BY <2>3 DEF AnnotationsAreOwn
  <2>4. ASSUME NEW w \in Writers, Work(w) PROVE api' = api
    BY <2>4 DEF Work, Created, Mark, Republish, FailCreate, FailCreateUntrack, Return
  <2> QED BY <2>1, <2>2, <2>3, <2>4
          DEF Next, Repair, Reconcile, ReconcileGetPod, ForgetPod, Dispatch, Spawn, Crash,
              Startup, vars
<1> QED BY <1>1, <1>2, TypeCorrect, PTL DEF Spec

(***************************************************************************)
(* GenerationsKnown, action by action.                                     *)
(***************************************************************************)

LEMMA ResumeFields ==
    ASSUME TypeOK, NEW p \in Procs
    PROVE  \/ p = Reconciler /\ Resume(p) = Idle
           \/ /\ Resume(p).uid = op[p].uid /\ Resume(p).gen = op[p].gen
              /\ Resume(p).create = op[p].create /\ Resume(p).pc = "run"
<1>1. CASE p = Reconciler
  BY <1>1 DEF Resume
<1>2. CASE p # Reconciler
  <2>1. Resume(p) = [op[p] EXCEPT !.pc = "run", !.tries = 0, !.status = NoStatus] /\ op[p] \in Op
    BY <1>2 DEF Resume, TypeOK
  <2>2. /\ Resume(p).uid = op[p].uid /\ Resume(p).gen = op[p].gen
        /\ Resume(p).create = op[p].create /\ Resume(p).pc = "run"
    BY <2>1 DEF Op
  <2> QED BY <2>2
<1> QED BY <1>1, <1>2

LEMMA RetriedFields ==
    ASSUME TypeOK, NEW p \in Procs
    PROVE  \/ p = Reconciler /\ Retried(p) = Idle
           \/ /\ Retried(p).uid = op[p].uid /\ Retried(p).gen = op[p].gen
              /\ Retried(p).create = op[p].create
              /\ \/ Retried(p).pc = "run"
                 \/ Retried(p).pc = "check" /\ Retried(p).status = op[p].status
<1>1. CASE op[p].tries + 1 < Attempts
  <2>1. Retried(p) = [op[p] EXCEPT !.pc = "check", !.tries = op[p].tries + 1] /\ op[p] \in Op
    BY <1>1 DEF Retried, TypeOK
  <2>2. /\ Retried(p).uid = op[p].uid /\ Retried(p).gen = op[p].gen
        /\ Retried(p).create = op[p].create /\ Retried(p).pc = "check"
        /\ Retried(p).status = op[p].status
    BY <2>1 DEF Op
  <2> QED BY <2>2
<1>2. CASE ~(op[p].tries + 1 < Attempts)
  BY <1>2, ResumeFields DEF Retried
<1> QED BY <1>1, <1>2

\* A flush keeps the incarnation its goroutine holds, or ends at Idle; a patch
\* is only sent for the status the intent still shows.
LEMMA FlushKeepsPod ==
    ASSUME TypeOK, NEW p \in Procs, Flush(p)
    PROVE  /\ op[p].pc # "idle"
           /\ \A q \in Procs \ {p} : op'[q] = op[q]
           /\ \/ op'[p] = Idle
              \/ op'[p].uid = op[p].uid /\ op'[p].gen = op[p].gen /\ op'[p].pc # "idle"
           /\ op'[p].pc = "patch" =>
                op'[p].status = op[p].status /\ Owned(op[p].uid, op[p].status)
<1>1. op[p] \in Op /\ op \in [Procs -> Op]
  BY DEF TypeOK
<1>2. /\ \/ Resume(p) = Idle
         \/ Resume(p).uid = op[p].uid /\ Resume(p).gen = op[p].gen /\ Resume(p).pc = "run"
      /\ Resume(p).pc # "patch"
  BY ResumeFields, ConstantFields
<1>3. /\ \/ Retried(p) = Idle
         \/ /\ Retried(p).uid = op[p].uid /\ Retried(p).gen = op[p].gen
            /\ Retried(p).pc # "idle"
      /\ Retried(p).pc # "patch"
  BY RetriedFields, ConstantFields
<1>4. CASE PublishStatus(p)
  <2>1. op' = [op EXCEPT ![p].pc = "check"] \/ op' = [op EXCEPT ![p] = Resume(p)]
    BY <1>4 DEF PublishStatus
  <2> QED BY <1>1, <1>2, <1>4, <2>1 DEF PublishStatus, Op
<1>5. CASE FlushCheck(p)
  <2>1. CASE Owned(op[p].uid, op[p].status)
    <3>1. op' = [op EXCEPT ![p] = [op[p] EXCEPT !.pc = "patch"]]
      BY <1>1, <1>5, <2>1 DEF FlushCheck
    <3> QED BY <1>1, <1>5, <2>1, <3>1 DEF FlushCheck, Op
  <2>2. CASE ~Owned(op[p].uid, op[p].status)
    <3>1. op' = [op EXCEPT ![p] = Resume(p)]
      BY <1>1, <1>5, <2>2 DEF FlushCheck
    <3> QED BY <1>1, <1>2, <1>5, <3>1 DEF FlushCheck
  <2> QED BY <2>1, <2>2
<1>6. CASE PatchLands(p)
  BY <1>1, <1>6 DEF PatchLands, Op
<1>7. CASE PatchAnswerLost(p) \/ PatchFails(p)
  <2>1. op' = [op EXCEPT ![p] = Retried(p)] /\ op[p].pc = "patch"
    BY <1>7 DEF PatchAnswerLost, PatchFails
  <2> QED BY <1>1, <1>3, <2>1
<1>8. CASE PatchSuperseded(p)
  BY <1>1, <1>8 DEF PatchSuperseded, Op
<1>9. CASE RecordFlushed(p) \/ DropSuperseded(p)
  <2>1. op' = [op EXCEPT ![p] = Resume(p)] /\ op[p].pc # "idle"
    BY <1>9, Zenon DEF RecordFlushed, DropSuperseded
  <2> QED BY <1>1, <1>2, <2>1
<1> QED BY <1>4, <1>5, <1>6, <1>7, <1>8, <1>9 DEF Flush

LEMMA GenerationsFlush ==
    ASSUME TypeOK, GenerationsKnown, NEW p \in Procs, Flush(p)
    PROVE  GenerationsKnown'
<1>1. /\ op[p] \in Op /\ op[p].pc # "idle" /\ op[p].uid # 0
      /\ UNCHANGED <<lastUID, tracked, booting>>
  BY FlushKeepsPod, Zenon
     DEF GenerationsKnown, TypeOK, Flush, PublishStatus, FlushCheck, PatchLands,
         PatchAnswerLost, PatchFails, PatchSuperseded, RecordFlushed, DropSuperseded
<1>2. ~booting
  BY <1>1, ConstantFields DEF GenerationsKnown
<1>3. /\ api'.uid = api.uid /\ api'.gen = api.gen
      /\ api'.lc.gen <= api'.gen
      /\ api.uid = 0 => api' = api
  <2>1. CASE PublishStatus(p)
    BY <1>1, <2>1 DEF PublishStatus, FenceHolds, GenerationsKnown, TypeOK, ApiPod
  <2>2. CASE PatchLands(p) \/ PatchAnswerLost(p)
    <3>1. /\ api.uid = op[p].uid /\ op[p].pc = "patch"
          /\ api' = [api EXCEPT !.lc = op[p].status, !.by = op[p].uid]
      BY <2>2 DEF PatchLands, PatchAnswerLost, FenceHolds
    <3>2. api'.uid = api.uid /\ api'.gen = api.gen /\ api'.lc = op[p].status
      BY <3>1 DEF TypeOK, ApiPod
    <3> QED BY <1>1, <3>1, <3>2 DEF GenerationsKnown
  <2>3. CASE api' = api
    BY <2>3 DEF GenerationsKnown
  <2> QED BY <2>1, <2>2, <2>3
          DEF Flush, FlushCheck, PatchFails, PatchSuperseded, RecordFlushed, DropSuperseded
<1>4. \/ intent'.uid = intent.uid /\ intent'.status = intent.status
      \/ intent' = NoIntent
  BY Zenon DEF Flush, PublishStatus, FlushCheck, PatchLands, PatchAnswerLost, PatchFails,
         PatchSuperseded, RecordFlushed, DropSuperseded, TypeOK, Intent
<1>5. intent'.uid <= lastUID' /\ (api'.uid # 0 /\ intent'.uid = api'.uid
                                    => intent'.status.gen <= api'.gen)
  BY <1>1, <1>3, <1>4, ConstantFields DEF GenerationsKnown, TypeOK
<1>6. ASSUME NEW q \in Procs
      PROVE  /\ op'[q].uid <= lastUID' /\ (op'[q].pc # "idle" => op'[q].uid # 0)
             /\ api'.uid # 0 /\ op'[q].uid = api'.uid =>
                  /\ q # Reconciler => op'[q].gen <= api'.gen
                  /\ op'[q].pc = "patch" => op'[q].status.gen <= api'.gen
  <2>1. CASE q # p
    BY <1>1, <1>3, <2>1, FlushKeepsPod, Zenon DEF GenerationsKnown
  <2>2. CASE q = p /\ op'[p] = Idle
    BY <1>1, <2>2, ConstantFields DEF TypeOK
  <2>3. CASE q = p /\ op'[p] # Idle
    <3>1. op'[p].uid = op[p].uid /\ op'[p].gen = op[p].gen
      BY <2>3, FlushKeepsPod
    <3>2. op'[p].pc = "patch" => op'[p].status = intent.status /\ op[p].uid = intent.uid
      BY FlushKeepsPod DEF Owned
    <3> QED BY <1>1, <1>3, <2>3, <3>1, <3>2, Zenon DEF GenerationsKnown
  <2> QED BY <2>1, <2>2, <2>3, Zenon
<1> QED BY <1>1, <1>2, <1>3, <1>5, <1>6, Zenon DEF GenerationsKnown

LEMMA GenerationsEnvironment ==
    ASSUME TypeOK, GenerationsKnown, Environment
    PROVE  GenerationsKnown'
<1>1. CASE ApiCreate
  <2>1. /\ api'.uid = lastUID + 1 /\ api'.gen = 1 /\ api'.lc = NoStatus
        /\ lastUID' = lastUID + 1
        /\ UNCHANGED <<tracked, intent, op, booting>>
    BY <1>1, ConstantsTyped, ConstantFields DEF ApiCreate, ApiPod
  <2>2. lastUID \in Nat /\ tracked.uid \in Nat /\ intent.uid \in Nat
        /\ \A p \in Procs : op[p].uid \in Nat
    BY DEF TypeOK, Pod, Intent, Op
  <2> QED BY <2>1, <2>2, ConstantFields DEF GenerationsKnown
<1>2. CASE ApiTerminate
  <2>1. /\ api'.uid = api.uid /\ api'.gen = api.gen /\ api'.lc = api.lc /\ api.uid # 0
        /\ UNCHANGED <<lastUID, tracked, intent, op, booting>>
    BY <1>2, Zenon DEF ApiTerminate, TypeOK, ApiPod
  <2> QED BY <2>1 DEF GenerationsKnown
<1>3. CASE ApiRemove
  <2>1. api' = NoApiPod /\ UNCHANGED <<lastUID, tracked, intent, op, booting>>
    BY <1>3, Zenon DEF ApiRemove
  <2> QED BY <2>1, ConstantFields DEF GenerationsKnown
<1>4. CASE StampGeneration
  <2>1. /\ api'.uid = api.uid /\ api'.gen = api.gen + 1 /\ api'.lc = api.lc /\ api.uid # 0
        /\ UNCHANGED <<lastUID, tracked, intent, op, booting>>
    BY <1>4, Zenon DEF StampGeneration, TypeOK, ApiPod
  <2>2. /\ api.gen \in Nat /\ api.lc.gen \in Nat /\ tracked.gen \in Nat
        /\ intent.status.gen \in Nat
        /\ \A p \in Procs : op[p].gen \in Nat /\ op[p].status.gen \in Nat
    <3>1. /\ api.lc \in Status /\ intent.status \in Status
          /\ \A p \in Procs : op[p].status \in Status
      BY DEF TypeOK, ApiPod, Intent, Op
    <3>2. \A st \in Status : st.gen \in 0..MaxGen
      BY Zenon DEF Status
    <3> QED BY <3>1, <3>2, BoundsAssumption DEF TypeOK, ApiPod, Pod, Op
  <2> QED BY <2>1, <2>2 DEF GenerationsKnown
<1> QED BY <1>1, <1>2, <1>3, <1>4, Zenon DEF Environment

\* A status staged by a writer carries a generation of the writer's incarnation.
LEMMA StagedGeneration ==
    ASSUME TypeOK, GenerationsKnown, NEW w \in Procs \ {Reconciler}, NEW state, NEW msg,
           Accepted(op[w].uid, NewStatus(w, state, msg)),
           api.uid # 0, op[w].uid = api.uid
    PROVE  NewStatus(w, state, msg).gen <= api.gen
<1>1. NewStatus(w, state, msg).gen = WriteGen(op[w].gen)
  BY Zenon DEF NewStatus
<1>2. tracked.gen <= api.gen
  BY ConstantFields DEF Accepted, Superseded, GenerationsKnown, TypeOK, ApiPod
<1>3. op[w].gen <= api.gen
  BY Zenon DEF GenerationsKnown
<1> QED BY <1>1, <1>2, <1>3 DEF WriteGen

LEMMA GenerationsStage ==
    ASSUME TypeOK, GenerationsKnown, NEW w \in Procs \ {Reconciler}, NEW state, NEW msg,
           NEW next \in PCs \ {"patch", "idle"}, NEW create,
           op[w].pc = "run", Stage(w, NewStatus(w, state, msg), next, create),
           UNCHANGED <<api, lastUID, booting>>
    PROVE  GenerationsKnown'
<1> DEFINE s == NewStatus(w, state, msg)
<1>1. op[w] \in Op /\ op \in [Procs -> Op] /\ op[w].uid # 0
  BY Zenon DEF TypeOK, GenerationsKnown
<1>2. ~booting
  BY <1>1, ConstantFields DEF GenerationsKnown
<1>3. /\ \A q \in Procs \ {w} : op'[q] = op[q]
      /\ op'[w].uid = op[w].uid /\ op'[w].gen = op[w].gen
      /\ op'[w].pc # "patch" /\ op'[w].pc # "idle"
  BY <1>1 DEF Stage, Op
<1>4. CASE Accepted(op[w].uid, s)
  <2>1. Apply(op[w].uid, s)
    BY <1>4 DEF Stage
  <2>2. intent'.uid = op[w].uid /\ intent'.status = s
    <3> HIDE DEF s
    <3> QED BY <2>1 DEF Apply
  <2>3. tracked'.uid = tracked.uid /\ tracked'.gen = tracked.gen
        /\ (tracked.uid = 0 => tracked' = tracked)
    <3> HIDE DEF s
    <3> QED BY <2>1, Zenon DEF Apply, TypeOK, Pod
  <2>4. api.uid # 0 /\ op[w].uid = api.uid => s.gen <= api.gen
    BY <1>4, StagedGeneration, Zenon
  <2> HIDE DEF s
  <2> QED BY <1>2, <1>3, <2>2, <2>3, <2>4 DEF GenerationsKnown
<1>5. CASE ~Accepted(op[w].uid, s)
  <2>1. UNCHANGED <<intent, tracked>>
    BY <1>5 DEF Stage
  <2> HIDE DEF s
  <2> QED BY <1>2, <1>3, <2>1 DEF GenerationsKnown
<1> QED BY <1>4, <1>5, Zenon

LEMMA GenerationsWork ==
    ASSUME TypeOK, GenerationsKnown, NEW w \in Writers, Work(w)
    PROVE  GenerationsKnown'
<1>1. w \in Procs \ {Reconciler} /\ op[w] \in Op /\ op \in [Procs -> Op]
      /\ op[w].pc = "run" /\ op[w].uid # 0
      /\ UNCHANGED <<api, lastUID, booting>>
  <2>0. w \in Procs \ {Reconciler}
    BY ProcsAssumption DEF Procs, Writers
  <2>1. w \in Procs /\ op[w].pc = "run" /\ UNCHANGED <<api, lastUID, booting>>
    BY Zenon DEF Procs, Work, Created, Mark, Republish, FailCreate, FailCreateUntrack, Return
  <2> QED BY <2>0, <2>1 DEF TypeOK, GenerationsKnown
<1>2. ~booting
  BY <1>1, ConstantFields, Zenon DEF GenerationsKnown
<1>3. CASE Created(w)
  <2>1. /\ \A q \in Procs \ {w} : op'[q] = op[q]
        /\ op'[w].uid = op[w].uid /\ op'[w].gen = op[w].gen /\ op'[w].pc = "run"
        /\ UNCHANGED <<tracked, intent>>
    BY <1>1, <1>3 DEF Created, Op
  <2> QED BY <1>1, <1>2, <2>1 DEF GenerationsKnown
<1>4. CASE Mark(w)
  <2>1. \E state, msg :
          \E next \in {"status", "check"} :
            Stage(w, NewStatus(w, state, msg), next, op[w].create)
    BY <1>4, Zenon DEF Mark
  <2> QED BY <1>1, <2>1, GenerationsStage DEF PCs
<1>5. CASE Republish(w)
  BY <1>1, <1>5, GenerationsStage DEF Republish, PCs
<1>6. CASE FailCreate(w)
  BY <1>1, <1>6, GenerationsStage, Zenon DEF FailCreate, PCs
<1>7. CASE FailCreateUntrack(w) \/ Return(w)
  <2>1. /\ \A q \in Procs \ {w} : op'[q] = op[q]
        /\ op'[w] = Idle
        /\ intent' = intent
        /\ tracked' = tracked \/ tracked' = NoPod
    BY <1>1, <1>7 DEF FailCreateUntrack, Return
  <2> QED BY <1>1, <1>2, <2>1, ConstantFields DEF GenerationsKnown, TypeOK
<1> QED BY <1>3, <1>4, <1>5, <1>6, <1>7, Zenon DEF Work

LEMMA GenerationsNext ==
    ASSUME TypeOK, GenerationsKnown, [Next]_vars
    PROVE  GenerationsKnown'
<1>0. op \in [Procs -> Op] /\ Reconciler \in Procs /\ Kubelet \in Procs
  BY DEF TypeOK, Procs, Writers
<1>1. CASE Environment
  BY <1>1, GenerationsEnvironment, Zenon
<1>2. CASE Reconcile
  <2>1. /\ \A q \in Procs \ {Reconciler} : op'[q] = op[q]
        /\ op'[Reconciler].uid = intent.uid /\ op'[Reconciler].gen = 0
        /\ op'[Reconciler].pc # "patch"
        /\ intent.uid # 0
    BY <1>0, <1>2, ConstantsTyped, ConstantFields DEF Reconcile, Drifted, Op
  <2>2. UNCHANGED <<api, lastUID, tracked, intent, booting>> /\ ~booting
    BY <1>2 DEF Reconcile
  <2>3. api.gen \in Nat
    BY DEF TypeOK, ApiPod
  <2> QED BY <2>1, <2>2, <2>3 DEF GenerationsKnown
<1>3. CASE ReconcileGetPod
  <2>1. UNCHANGED <<api, lastUID, tracked, intent, booting>>
    BY <1>3 DEF ReconcileGetPod
  <2>2. /\ \A q \in Procs \ {Reconciler} : op'[q] = op[q]
        /\ op'[Reconciler].pc \notin {"patch", "idle"}
        /\ op'[Reconciler].uid = IF tracked.uid # 0 THEN tracked.uid
                                                    ELSE op[Reconciler].uid
    <3>1. CASE tracked.uid # 0
      BY <1>0, <1>3, <3>1 DEF ReconcileGetPod, Op
    <3>2. CASE tracked.uid = 0
      BY <1>0, <1>3, <3>2 DEF ReconcileGetPod, Op
    <3> QED BY <3>1, <3>2
  <2>3. op[Reconciler].pc # "idle" /\ ~booting
    BY <1>0, <1>3, ConstantFields, Zenon DEF ReconcileGetPod, GenerationsKnown
  <2> QED BY <1>0, <2>1, <2>2, <2>3 DEF GenerationsKnown
<1>4. CASE ForgetPod
  BY <1>4, ConstantFields DEF ForgetPod, GenerationsKnown, TypeOK
<1>5. ASSUME NEW p \in Procs, Flush(p) PROVE GenerationsKnown'
  BY <1>5, GenerationsFlush, Zenon
<1>6. CASE Dispatch
  <2>1. /\ \A q \in Procs \ {Kubelet} : op'[q] = op[q]
        /\ op'[Kubelet].uid = api.uid /\ op'[Kubelet].gen = api.gen
        /\ op'[Kubelet].pc = "run"
        /\ api.uid # 0 /\ ~booting
        /\ UNCHANGED <<api, lastUID, booting>>
    BY <1>0, <1>6, ConstantsTyped DEF Dispatch, Op
  <2>2. tracked'.uid = api.uid /\ tracked'.gen = api.gen
    BY <1>6, ApiViewTyped DEF Dispatch, TrackPod, Reassert, ApiView, Pod
  <2>3. intent' = intent \/ intent' = NoIntent
    BY <1>6, Zenon DEF Dispatch, TrackPod, ReassertIntent
  <2>4. api.gen \in Nat
    BY DEF TypeOK, ApiPod
  <2> QED BY <2>1, <2>2, <2>3, <2>4, ConstantFields DEF GenerationsKnown, TypeOK
<1>7. ASSUME NEW w \in Workers, Spawn(w) PROVE GenerationsKnown'
  <2>0. w \in Procs
    BY DEF Procs, Writers
  <2>1. /\ \A q \in Procs \ {w} : op'[q] = op[q]
        /\ op'[w].uid = tracked.uid /\ op'[w].gen = tracked.gen
        /\ op'[w].pc = "run"
        /\ tracked.uid # 0
        /\ UNCHANGED <<api, lastUID, tracked, intent, booting>>
    BY <1>0, <1>7, <2>0, ConstantsTyped, Zenon DEF Spawn, Op
  <2>2. ~booting
    BY <2>1, ConstantFields, Zenon DEF GenerationsKnown
  <2> QED BY <2>1, <2>2 DEF GenerationsKnown
<1>8. ASSUME NEW w \in Writers, Work(w) PROVE GenerationsKnown'
  BY <1>8, GenerationsWork
<1>9. CASE Crash
  BY <1>9, ConstantFields DEF Crash, GenerationsKnown, TypeOK
<1>10. CASE Startup
  <2>1. UNCHANGED <<api, lastUID, op>> /\ booting' = FALSE
    BY <1>10, Zenon DEF Startup
  <2>2. CASE UNCHANGED <<tracked, intent>>
    BY <2>1, <2>2, Zenon DEF GenerationsKnown
  <2>3. CASE api.uid # 0 /\ tracked' = ApiView /\ intent' = Seed(ApiView)
    <3>1. tracked'.uid = api.uid /\ tracked'.gen = api.gen
      BY <2>3 DEF ApiView
    <3>2. intent'.uid = 0 \/ (intent'.uid = api.uid /\ intent'.status = api.lc)
      <4>1. ApiView.uid = api.uid /\ ApiView.lc = api.lc
        BY DEF ApiView
      <4>2. CASE ApiView.lc.state = ""
        <5>1. intent' = NoIntent
          BY <2>3, <4>2, Zenon DEF Seed
        <5> QED BY <5>1, ConstantFields
      <4>3. CASE ApiView.lc.state # ""
        <5>1. intent' = [uid |-> ApiView.uid, status |-> ApiView.lc, flushed |-> ApiView.lc]
          BY <2>3, <4>3, Zenon DEF Seed
        <5> QED BY <4>1, <5>1
      <4> QED BY <4>2, <4>3, Zenon
    <3>3. api.gen \in Nat
      BY DEF TypeOK, ApiPod
    <3> QED BY <2>1, <2>3, <3>1, <3>2, <3>3 DEF GenerationsKnown, TypeOK
  <2> QED BY <1>10, <2>2, <2>3 DEF Startup
<1>11. CASE UNCHANGED vars
  BY <1>11 DEF GenerationsKnown, vars
<1> QED BY <1>1, <1>2, <1>3, <1>4, <1>5, <1>6, <1>7, <1>8, <1>9, <1>10, <1>11
        DEF Next, Repair

\* Every generation vk-cocoon keeps, in its tables, in an intent or in a goroutine of
\* an old incarnation, was stamped on the pod by the operator before
\* (applyLifecycleLocked, trackPod, restoreLifecycle).
THEOREM GenerationsKnownAlways == Spec => []GenerationsKnown
<1>1. Init => GenerationsKnown
  BY ConstantFields DEF Init, GenerationsKnown
<1> QED BY <1>1, GenerationsNext, TypeCorrect, PTL DEF Spec

\* The pod never reports a generation the operator has not stamped on it, with
\* any number of incarnations, goroutines of old incarnations and restarts
\* (ObservedGeneration in applyLifecycleLocked).
THEOREM ObservedNeverAheadAlways == Spec => []ObservedNeverAhead
<1>1. GenerationsKnown => ObservedNeverAhead
  BY DEF GenerationsKnown, ObservedNeverAhead
<1> QED BY <1>1, GenerationsKnownAlways, PTL

\* An incarnation's intent never goes back a generation, and only a new attempt
\* leaves a Failed at its own generation (applyLifecycleLocked).
THEOREM IntentAdvancesAlways == Spec => IntentAdvances
<1> DEFINE Advance ==
      intent.uid # 0 /\ intent'.uid = intent.uid =>
         /\ intent'.status.gen >= intent.status.gen
         /\ (intent.status.state = "failed" /\ intent'.status.gen = intent.status.gen)
              => intent'.status.state \in {"failed", "creating", "hibernating"}
<1>1. TypeOK /\ GenerationsKnown /\ [Next]_vars => [Advance]_vars
  <2> SUFFICES ASSUME TypeOK, GenerationsKnown, [Next]_vars PROVE Advance
    OBVIOUS
  <2>0. intent.status.gen \in Nat /\ \A st \in Status : st.gen \in 0..MaxGen
    <3>1. intent.status \in Status /\ \A st \in Status : st.gen \in 0..MaxGen
      BY Zenon DEF TypeOK, Intent, Status
    <3> QED BY <3>1, BoundsAssumption
  <2>1. CASE intent' = intent
    BY <2>0, <2>1
  <2>2. CASE intent' = NoIntent
    BY <2>2, ConstantFields, Zenon
  <2>3. ASSUME NEW w \in Writers, NEW s, Accepted(op[w].uid, s), Apply(op[w].uid, s)
        PROVE  Advance
    <3>1. intent'.uid = op[w].uid /\ intent'.status = s
      BY <2>3 DEF Apply
    <3>2. intent'.status \in Status
      BY TypeNext DEF TypeOK, Intent
    <3> QED BY <2>0, <2>3, <3>1, <3>2 DEF Accepted, StaleGen, StickyFailed
  <2>4. ASSUME NEW s, intent' = [intent EXCEPT !.flushed = s] PROVE Advance
    <3>1. intent'.status = intent.status
      BY <2>4, Zenon DEF TypeOK, Intent
    <3> QED BY <2>0, <3>1
  <2>5. CASE booting
    BY <2>5, ConstantFields, Zenon DEF GenerationsKnown
  <2>6. CASE TrackPod(ApiView)
    BY <2>1, <2>2, <2>6, Zenon DEF TrackPod, ReassertIntent
  <2> HIDE DEF Advance
  <2> QED BY <2>1, <2>2, <2>3, <2>4, <2>5, <2>6, TablesStep
<1> QED BY <1>1, TypeCorrect, GenerationsKnownAlways, PTL DEF Spec, IntentAdvances

--------------------------------------------------------------------------------
(* StatusBeforeReady.                                                      *)

Flushing == {"getpod", "status", "check", "patch"}

\* Whatever was staged carries a generation the operator stamped, never the 0 of a pod
\* without one.
Stamped ==
    /\ api.uid # 0 => api.gen # 0
    /\ api.lc.state # "" => api.lc.gen # 0
    /\ tracked.uid # 0 => tracked.gen # 0
    /\ intent.uid # 0 => intent.status.gen # 0
    /\ \A w \in Writers : op[w].pc # "idle" => op[w].gen # 0
    /\ \A p \in Procs : op[p].pc \in Flushing => op[p].status.gen # 0

\* A goroutine of the pod at the apiserver, which nobody has asked to terminate.
Current(p) == api.uid # 0 /\ ~api.term /\ op[p].uid = api.uid

\* A Ready of that pod is staged, or about to be published by the reconciler.
ReadyStaged ==
    \/ intent.uid = api.uid /\ intent.status.state = "ready"
    \/ op[Reconciler].uid = api.uid /\ op[Reconciler].pc = "getpod"

\* A Ready on its way to the annotations follows the status; while it is staged, and
\* while any goroutine of the pod runs, the pod is tracked, so the reconciler finds the
\* status to publish; and a CreatePod that may still fail is alone with its pod.
ReadyInv ==
    /\ StatusBeforeReady
    /\ \A p \in Procs : Current(p) /\ op[p].pc \in {"check", "patch"}
                          /\ op[p].status.state = "ready" => api.published
    /\ \A w \in Writers : Current(w) /\ op[w].pc # "idle" => tracked.uid = api.uid
    /\ api.uid # 0 /\ ~api.term /\ ReadyStaged => tracked.uid = api.uid
    /\ Current(Kubelet) /\ op[Kubelet].create # "no" =>
         /\ ~ReadyStaged
         /\ \A w \in Workers : op[w].uid = api.uid => op[w].pc = "idle"
    /\ \A w \in Workers : op[w].create = "no"
    /\ op[Kubelet].pc = "idle" => op[Kubelet].create = "no"

\* How a goroutine goes on in a flush: it rests, it is past it, or it still carries its
\* status, and from the status patch only when that has landed.
Carries(p) ==
    \/ p = Reconciler /\ op'[p] = Idle
    \/ /\ op'[p].uid = op[p].uid /\ op'[p].gen = op[p].gen /\ op'[p].create = op[p].create
       /\ \/ op'[p].pc \in {"run", "landed", "conflict"}
          \/ /\ op'[p].pc \in {"check", "patch"} /\ op'[p].status = op[p].status
             /\ \/ op[p].pc \in {"check", "patch"}
                \/ op[p].pc = "status" /\ api'.published

LEMMA FlushShape ==
    ASSUME TypeOK, NEW p \in Procs, Flush(p)
    PROVE  /\ UNCHANGED <<lastUID, tracked, booting>>
           /\ op[p].pc # "idle"
           /\ \A q \in Procs \ {p} : op'[q] = op[q]
           /\ Carries(p)
           /\ \/ intent'.uid = intent.uid /\ intent'.status = intent.status
              \/ intent' = NoIntent
           /\ api'.uid = api.uid /\ api'.gen = api.gen /\ api'.term = api.term
           /\ api.published => api'.published
           /\ \/ api'.lc = api.lc
              \/ op[p].pc = "patch" /\ op[p].uid = api.uid /\ api'.lc = op[p].status
<1>1. op[p] \in Op /\ op \in [Procs -> Op]
  BY DEF TypeOK
<1>2. UNCHANGED <<lastUID, tracked, booting>> /\ op[p].pc # "idle"
  BY DEF Flush, PublishStatus, FlushCheck, PatchLands, PatchAnswerLost, PatchFails,
         PatchSuperseded, RecordFlushed, DropSuperseded
<1>3. \/ intent'.uid = intent.uid /\ intent'.status = intent.status
      \/ intent' = NoIntent
  BY DEF Flush, PublishStatus, FlushCheck, PatchLands, PatchAnswerLost, PatchFails,
         PatchSuperseded, RecordFlushed, DropSuperseded, TypeOK, Intent
<1>4. /\ api'.uid = api.uid /\ api'.gen = api.gen /\ api'.term = api.term
      /\ api.published => api'.published
      /\ \/ api'.lc = api.lc
         \/ op[p].pc = "patch" /\ op[p].uid = api.uid /\ api'.lc = op[p].status
  <2>1. \/ api' = api
        \/ api' = [api EXCEPT !.published = TRUE]
        \/ /\ op[p].pc = "patch" /\ op[p].uid = api.uid
           /\ api' = [api EXCEPT !.lc = op[p].status, !.by = op[p].uid]
    BY DEF Flush, PublishStatus, FlushCheck, PatchLands, PatchAnswerLost, PatchFails,
           PatchSuperseded, RecordFlushed, DropSuperseded, FenceHolds
  <2>2. CASE api' = api
    BY <2>2
  <2>3. CASE api' = [api EXCEPT !.published = TRUE]
    BY <2>3 DEF TypeOK, ApiPod
  <2>4. CASE /\ op[p].pc = "patch" /\ op[p].uid = api.uid
             /\ api' = [api EXCEPT !.lc = op[p].status, !.by = op[p].uid]
    BY <2>4 DEF TypeOK, ApiPod
  <2> QED BY <2>1, <2>2, <2>3, <2>4
<1>5. ASSUME op' = [op EXCEPT ![p] = Resume(p)]
      PROVE  Carries(p) /\ \A q \in Procs \ {p} : op'[q] = op[q]
  <2>1. op'[p] = Resume(p) /\ \A q \in Procs \ {p} : op'[q] = op[q]
    BY <1>1, <1>5
  <2> QED BY <2>1, ResumeFields DEF Carries
<1>6. ASSUME NEW pc, op' = [op EXCEPT ![p].pc = pc]
      PROVE  /\ \A q \in Procs \ {p} : op'[q] = op[q]
             /\ op'[p].uid = op[p].uid /\ op'[p].gen = op[p].gen /\ op'[p].create = op[p].create
             /\ op'[p].pc = pc /\ op'[p].status = op[p].status
  BY <1>1, <1>6, Zenon DEF Op
<1>7. Carries(p) /\ \A q \in Procs \ {p} : op'[q] = op[q]
  <2>1. CASE PublishStatus(p)
    <3>1. CASE op' = [op EXCEPT ![p].pc = "check"] /\ api' = [api EXCEPT !.published = TRUE]
      <4>1. api'.published
        BY <3>1 DEF TypeOK, ApiPod
      <4> QED BY <1>6, <2>1, <3>1, <4>1, Zenon DEF Carries, PublishStatus
    <3>2. CASE op' = [op EXCEPT ![p] = Resume(p)]
      BY <1>5, <3>2
    <3> QED BY <2>1, <3>1, <3>2 DEF PublishStatus
  <2>2. CASE FlushCheck(p)
    <3>1. CASE Owned(op[p].uid, op[p].status)
      <4>1. op' = [op EXCEPT ![p] = [op[p] EXCEPT !.pc = "patch"]] /\ op[p].pc = "check"
        BY <1>1, <2>2, <3>1 DEF FlushCheck
      <4>2. op'[p] = [op[p] EXCEPT !.pc = "patch"] /\ \A q \in Procs \ {p} : op'[q] = op[q]
        BY <1>1, <4>1
      <4>3. /\ op'[p].uid = op[p].uid /\ op'[p].gen = op[p].gen /\ op'[p].create = op[p].create
            /\ op'[p].pc = "patch" /\ op'[p].status = op[p].status
        BY <1>1, <4>2 DEF Op
      <4> QED BY <4>1, <4>2, <4>3 DEF Carries
    <3>2. CASE ~Owned(op[p].uid, op[p].status)
      <4>1. op' = [op EXCEPT ![p] = Resume(p)]
        BY <1>1, <2>2, <3>2 DEF FlushCheck
      <4> QED BY <1>5, <4>1
    <3> QED BY <3>1, <3>2
  <2>3. CASE PatchLands(p) \/ PatchSuperseded(p)
    <3>1. op' = [op EXCEPT ![p].pc = "landed"] \/ op' = [op EXCEPT ![p].pc = "conflict"]
      BY <2>3, Zenon DEF PatchLands, PatchSuperseded
    <3> QED BY <1>6, <3>1 DEF Carries
  <2>4. CASE PatchAnswerLost(p) \/ PatchFails(p)
    <3>1. op' = [op EXCEPT ![p] = Retried(p)] /\ op[p].pc = "patch"
      BY <2>4 DEF PatchAnswerLost, PatchFails
    <3>2. op'[p] = Retried(p) /\ \A q \in Procs \ {p} : op'[q] = op[q]
      BY <1>1, <3>1
    <3> QED BY <3>1, <3>2, RetriedFields DEF Carries
  <2>5. CASE RecordFlushed(p) \/ DropSuperseded(p)
    <3>1. op' = [op EXCEPT ![p] = Resume(p)]
      BY <2>5, Zenon DEF RecordFlushed, DropSuperseded
    <3> QED BY <1>5, <3>1
  <2> QED BY <2>1, <2>2, <2>3, <2>4, <2>5 DEF Flush
<1> QED BY <1>2, <1>3, <1>4, <1>7

\* A writer that stages: it carries its status, or the write was dropped.
LEMMA StageShape ==
    ASSUME TypeOK, NEW w \in Procs, NEW state, NEW msg, NEW next, NEW create,
           op[w].pc = "run", Stage(w, NewStatus(w, state, msg), next, create)
    PROVE  /\ \A q \in Procs \ {w} : op'[q] = op[q]
           /\ op'[w].uid = op[w].uid /\ op'[w].gen = op[w].gen /\ op'[w].create = create
           /\ tracked'.uid = tracked.uid /\ tracked'.gen = tracked.gen
           /\ \/ UNCHANGED <<intent, tracked>> /\ op'[w].pc = "run"
              \/ /\ op'[w].pc = next /\ op'[w].status = NewStatus(w, state, msg)
                 /\ intent'.uid = op[w].uid /\ intent'.status = NewStatus(w, state, msg)
<1> DEFINE s == NewStatus(w, state, msg)
<1>1. op[w] \in Op /\ op \in [Procs -> Op] /\ tracked \in Pod
  BY Zenon DEF TypeOK
<1> HIDE DEF s
<1>2. CASE Accepted(op[w].uid, s)
  <2>1. /\ Apply(op[w].uid, s)
        /\ op' = [op EXCEPT ![w].pc = next, ![w].status = s, ![w].tries = 0, ![w].create = create]
    BY <1>2 DEF Stage, s
  <2>2. /\ \A q \in Procs \ {w} : op'[q] = op[q]
        /\ op'[w].uid = op[w].uid /\ op'[w].gen = op[w].gen /\ op'[w].create = create
        /\ op'[w].pc = next /\ op'[w].status = s
    BY <1>1, <2>1 DEF Op
  <2>3. intent'.uid = op[w].uid /\ intent'.status = s
    BY <2>1 DEF Apply
  <2>4. tracked'.uid = tracked.uid /\ tracked'.gen = tracked.gen
    BY <1>1, <2>1 DEF Apply, Pod
  <2> QED BY <2>2, <2>3, <2>4 DEF s
<1>3. CASE ~Accepted(op[w].uid, s)
  <2>1. UNCHANGED <<intent, tracked>> /\ op' = [op EXCEPT ![w].create = create]
    BY <1>3 DEF Stage, s
  <2>2. /\ \A q \in Procs \ {w} : op'[q] = op[q]
        /\ op'[w].uid = op[w].uid /\ op'[w].gen = op[w].gen /\ op'[w].create = create
        /\ op'[w].pc = "run"
    BY <1>1, <2>1, Zenon DEF Op
  <2> QED BY <2>1, <2>2
<1> QED BY <1>2, <1>3

LEMMA QuietFields ==
    /\ NoStatus.state = "" /\ NoIntent.status.state = "" /\ NoApiPod.lc.state = ""
    /\ Idle.create = "no"
BY Zenon DEF NoStatus, NoIntent, NoApiPod, Idle

LEMMA ReadyEnvironment ==
    ASSUME TypeOK, GenerationsKnown, ReadyInv, Environment
    PROVE  ReadyInv'
<1>1. CASE ApiCreate
  <2>1. api'.uid = lastUID + 1 /\ api'.lc = NoStatus
    BY <1>1, ConstantsTyped, ConstantFields DEF ApiCreate, ApiPod
  <2>2. UNCHANGED <<tracked, intent, op, booting>> /\ lastUID \in Nat
    BY <1>1 DEF ApiCreate, TypeOK
  <2>3. \A p \in Procs : op[p].uid # api'.uid
    <3>1. \A p \in Procs : op[p].uid \in Nat /\ op[p].uid <= lastUID
      BY DEF GenerationsKnown, TypeOK, Op
    <3> QED BY <2>1, <2>2, <3>1
  <2>4. intent.uid # api'.uid
    <3>1. intent.uid \in Nat /\ intent.uid <= lastUID
      BY DEF GenerationsKnown, TypeOK, Intent
    <3> QED BY <2>1, <2>2, <3>1
  <2> QED BY <2>1, <2>2, <2>3, <2>4, QuietFields, Zenon
          DEF ReadyInv, Current, ReadyStaged, StatusBeforeReady, Procs, Writers
<1>2. CASE ApiTerminate
  <2>1. api'.term
    BY <1>2, Zenon DEF ApiTerminate, TypeOK, ApiPod
  <2> QED BY <1>2, <2>1 DEF ApiTerminate, ReadyInv, Current, StatusBeforeReady
<1>3. CASE ApiRemove
  <2>1. api'.uid = 0 /\ api'.lc.state = ""
    BY <1>3, ConstantFields, QuietFields, Zenon DEF ApiRemove
  <2> QED BY <1>3, <2>1, Zenon DEF ApiRemove, ReadyInv, Current, StatusBeforeReady
<1>4. CASE StampGeneration
  <2>1. /\ api'.uid = api.uid /\ api'.lc = api.lc /\ api'.term = api.term
        /\ api'.published = api.published
    BY <1>4, Zenon DEF StampGeneration, TypeOK, ApiPod
  <2> QED BY <1>4, <2>1 DEF StampGeneration, ReadyInv, Current, ReadyStaged, StatusBeforeReady
<1> QED BY <1>1, <1>2, <1>3, <1>4, Zenon DEF Environment

LEMMA ReadyFlush ==
    ASSUME TypeOK, GenerationsKnown, ReadyInv, NEW p \in Procs, Flush(p)
    PROVE  ReadyInv'
<1>1. Kubelet \in Procs /\ Reconciler \in Procs /\ Workers \subseteq Procs
      /\ Writers \subseteq Procs \ {Reconciler} /\ Kubelet # Reconciler
  BY ProcsAssumption DEF Procs, Writers
<1>2. /\ tracked' = tracked /\ op[p].pc # "idle" /\ op[p].uid # 0
      /\ api'.uid = api.uid /\ api'.term = api.term
      /\ api.published => api'.published
  BY FlushShape, Zenon DEF GenerationsKnown
<1>3. ASSUME NEW q \in Procs, Current(q)'
      PROVE  /\ Current(q)
             /\ op'[q].create = op[q].create
             /\ op'[q].pc = "idle" <=> op[q].pc = "idle"
             /\ op'[q].pc \in {"check", "patch"} /\ op'[q].status.state = "ready"
                  => api'.published
  <2>1. CASE q # p
    <3>1. op'[q] = op[q]
      BY <2>1, FlushShape, Zenon
    <3> QED BY <1>2, <1>3, <3>1, Zenon DEF Current, ReadyInv
  <2>2. CASE q = p /\ op'[p] = Idle
    BY <1>2, <1>3, <2>2, ConstantFields, Zenon DEF Current
  <2>3. CASE q = p /\ op'[p] # Idle
    <3>1. /\ op'[p].uid = op[p].uid /\ op'[p].create = op[p].create
          /\ \/ op'[p].pc \in {"run", "landed", "conflict"}
             \/ /\ op'[p].pc \in {"check", "patch"} /\ op'[p].status = op[p].status
                /\ \/ op[p].pc \in {"check", "patch"}
                   \/ op[p].pc = "status" /\ api'.published
      BY <2>3, FlushShape, Zenon DEF Carries
    <3>2. Current(p)
      BY <1>2, <1>3, <2>3, <3>1, Zenon DEF Current
    <3> QED BY <1>2, <2>3, <3>1, <3>2, Zenon DEF ReadyInv
  <2> QED BY <2>1, <2>2, <2>3, Zenon
<1>4. api.uid # 0 /\ ReadyStaged' => ReadyStaged
  <2>1. intent'.uid = api.uid /\ intent'.status.state = "ready" /\ api.uid # 0
          => intent.uid = api.uid /\ intent.status.state = "ready"
    BY FlushShape, ConstantFields, Zenon
  <2>2. op'[Reconciler].pc = "getpod" => op'[Reconciler] = op[Reconciler]
    BY <1>1, FlushShape, ConstantFields, Zenon DEF Carries
  <2> QED BY <1>2, <2>1, <2>2, Zenon DEF ReadyStaged
<1>5. StatusBeforeReady'
  <2>1. CASE api'.lc = api.lc
    BY <1>2, <2>1, Zenon DEF ReadyInv, StatusBeforeReady
  <2>2. CASE op[p].pc = "patch" /\ op[p].uid = api.uid /\ api'.lc = op[p].status
    BY <1>2, <2>2, Zenon DEF ReadyInv, StatusBeforeReady, Current
  <2> QED BY <2>1, <2>2, FlushShape, Zenon
<1>6. \A w \in Procs \ {Reconciler} :
         op'[w].create = op[w].create /\ (op'[w].pc = "idle" <=> op[w].pc = "idle")
  <2>1. TAKE w \in Procs \ {Reconciler}
  <2>2. CASE w = p
    BY <1>2, <2>2, FlushShape, Zenon DEF Carries
  <2>3. CASE w # p
    BY <2>3, FlushShape
  <2> QED BY <2>2, <2>3
<1>7. \A w \in Workers : op'[w].uid = api.uid => op[w].uid = api.uid
  <2>1. TAKE w \in Workers
  <2>2. CASE w = p
    BY <1>1, <2>2, FlushShape, ProcsAssumption, Zenon DEF Carries
  <2>3. CASE w # p
    BY <1>1, <2>3, FlushShape, Zenon
  <2> QED BY <2>2, <2>3
<1>8. (\A w \in Writers : Current(w) /\ op[w].pc # "idle" => tracked.uid = api.uid)'
  BY <1>1, <1>2, <1>3, Zenon DEF ReadyInv
<1>9. (api.uid # 0 /\ ~api.term /\ ReadyStaged => tracked.uid = api.uid)'
  BY <1>2, <1>4, Zenon DEF ReadyInv
<1>10. (Current(Kubelet) /\ op[Kubelet].create # "no" =>
         /\ ~ReadyStaged
         /\ \A w \in Workers : op[w].uid = api.uid => op[w].pc = "idle")'
  <2> SUFFICES ASSUME Current(Kubelet)', op'[Kubelet].create # "no"
               PROVE  /\ ~ReadyStaged'
                      /\ \A w \in Workers : op'[w].uid = api'.uid => op'[w].pc = "idle"
    BY Zenon
  <2>1. Current(Kubelet) /\ op[Kubelet].create # "no" /\ api.uid # 0
    BY <1>1, <1>3, Zenon DEF Current
  <2>2. ~ReadyStaged /\ \A w \in Workers : op[w].uid = api.uid => op[w].pc = "idle"
    BY <2>1 DEF ReadyInv
  <2>3. Workers \subseteq Procs \ {Reconciler}
    BY <1>1, ProcsAssumption, Zenon
  <2> QED BY <1>2, <1>4, <1>6, <1>7, <2>1, <2>2, <2>3, Zenon
<1>11. (\A w \in Workers : op[w].create = "no")'
       /\ (op[Kubelet].pc = "idle" => op[Kubelet].create = "no")'
  BY <1>1, <1>6, ProcsAssumption, Zenon DEF ReadyInv
<1> QED BY <1>3, <1>5, <1>8, <1>9, <1>10, <1>11 DEF ReadyInv

\* A status staged by a writer, which is Ready only on the way to the status patch and
\* only after CreatePod.
LEMMA ReadyStage ==
    ASSUME TypeOK, GenerationsKnown, ReadyInv,
           NEW w \in Writers, NEW state, NEW msg, NEW next \in {"status", "check"}, NEW create,
           op[w].pc = "run", Stage(w, NewStatus(w, state, msg), next, create),
           UNCHANGED <<api, lastUID, booting>>,
           state = "ready" => next = "status" /\ op[w].create = "no",
           create # "no" => op[w].create # "no"
    PROVE  ReadyInv'
<1>1. /\ w \in Procs /\ w # Reconciler /\ Kubelet # Reconciler
      /\ Kubelet \in Procs /\ Kubelet \in Writers /\ Reconciler \in Procs
      /\ Workers \subseteq Procs /\ Writers \subseteq Procs /\ Kubelet \notin Workers
  BY ProcsAssumption, Zenon DEF Procs, Writers
<1>2. /\ \A q \in Procs \ {w} : op'[q] = op[q]
      /\ op'[w].uid = op[w].uid /\ op'[w].create = create /\ op'[w].pc # "idle"
      /\ tracked'.uid = tracked.uid
      /\ \/ intent' = intent /\ op'[w].pc = "run"
         \/ /\ op'[w].pc = next /\ op'[w].status.state = state
            /\ intent'.uid = op[w].uid /\ intent'.status.state = state
  <2>1. NewStatus(w, state, msg).state = state
    BY Zenon DEF NewStatus
  <2> QED BY <1>1, <2>1, StageShape
<1>3. op[w].uid # 0 /\ \A q \in Procs : op'[q].uid = op[q].uid
      /\ (op'[q].pc = "idle" <=> op[q].pc = "idle")
  BY <1>1, <1>2, Zenon DEF GenerationsKnown
<1>4. \A q \in Procs : Current(q)' <=> Current(q)
  BY <1>3, Zenon DEF Current
<1>5. ReadyStaged' => ReadyStaged \/ (op[w].uid = api.uid /\ state = "ready")
  <2>1. op'[Reconciler] = op[Reconciler] /\ api' = api
    BY <1>1, <1>2, Zenon
  <2>2. CASE intent' = intent
    BY <2>1, <2>2, Zenon DEF ReadyStaged
  <2>3. CASE intent'.uid = op[w].uid /\ intent'.status.state = state
    BY <2>1, <2>3, Zenon DEF ReadyStaged
  <2> QED BY <1>2, <2>2, <2>3, Zenon
<1>6. (\A q \in Procs : Current(q) /\ op[q].pc \in {"check", "patch"}
                          /\ op[q].status.state = "ready" => api.published)'
  <2> SUFFICES ASSUME NEW q \in Procs, Current(q)', op'[q].pc \in {"check", "patch"},
                      op'[q].status.state = "ready"
               PROVE  api'.published
    BY Zenon
  <2>1. q # w
    BY <1>2, Zenon
  <2> QED BY <1>2, <1>4, <2>1, Zenon DEF ReadyInv
<1>7. (\A q \in Writers : Current(q) /\ op[q].pc # "idle" => tracked.uid = api.uid)'
  BY <1>1, <1>2, <1>3, <1>4, Zenon DEF ReadyInv
<1>8. (api.uid # 0 /\ ~api.term /\ ReadyStaged => tracked.uid = api.uid)'
  BY <1>2, <1>5, Zenon DEF ReadyInv, Current
<1>9. (Current(Kubelet) /\ op[Kubelet].create # "no" =>
         /\ ~ReadyStaged
         /\ \A q \in Workers : op[q].uid = api.uid => op[q].pc = "idle")'
  <2> SUFFICES ASSUME Current(Kubelet)', op'[Kubelet].create # "no"
               PROVE  /\ ~ReadyStaged'
                      /\ \A q \in Workers : op'[q].uid = api'.uid => op'[q].pc = "idle"
    BY Zenon
  <2>1. Current(Kubelet) /\ op[Kubelet].create # "no"
    BY <1>1, <1>2, <1>4, Zenon
  <2>2. ~ReadyStaged /\ \A q \in Workers : op[q].uid = api.uid => op[q].pc = "idle"
    BY <2>1, Zenon DEF ReadyInv
  <2>3. op[w].uid = api.uid => w = Kubelet
    BY <2>2, Zenon DEF Writers
  <2> QED BY <1>1, <1>3, <1>5, <2>1, <2>2, <2>3, Zenon
<1>10. (\A q \in Workers : op[q].create = "no")'
       /\ (op[Kubelet].pc = "idle" => op[Kubelet].create = "no")'
  BY <1>1, <1>2 DEF ReadyInv
<1>11. StatusBeforeReady'
  BY DEF ReadyInv, StatusBeforeReady
<1> QED BY <1>6, <1>7, <1>8, <1>9, <1>10, <1>11, Zenon DEF ReadyInv

\* republishLifecycleOnGenerationBump meets no Ready: it alone stages a Ready that is
\* flushed without the status patch before it.
NoReadyRepublished == \A w \in Writers : Republish(w) => intent.status.state # "ready"

LEMMA ReadyWork ==
    ASSUME TypeOK, GenerationsKnown, ReadyInv, NoReadyRepublished, NEW w \in Writers, Work(w)
    PROVE  ReadyInv'
<1>1. /\ w \in Procs /\ w # Reconciler /\ Kubelet # Reconciler
      /\ Kubelet \in Procs /\ Reconciler \in Procs
      /\ Workers \subseteq Procs /\ Writers \subseteq Procs /\ Kubelet \notin Workers
      /\ op \in [Procs -> Op] /\ op[w] \in Op
  BY ProcsAssumption, Zenon DEF Procs, Writers, TypeOK
<1>2. op[w].pc = "run" /\ UNCHANGED <<api, lastUID, booting>> /\ op[w].uid # 0
  <2>1. op[w].pc = "run" /\ UNCHANGED <<api, lastUID, booting>>
    BY Zenon DEF Work, Created, Mark, Republish, FailCreate, FailCreateUntrack, Return
  <2> QED BY <1>1, <2>1 DEF GenerationsKnown
<1>3. CASE Created(w)
  <2>1. /\ \A q \in Procs \ {w} : op'[q] = op[q]
        /\ op'[w].uid = op[w].uid /\ op'[w].pc = op[w].pc /\ op'[w].create = "no"
        /\ op'[w].status = op[w].status
        /\ UNCHANGED <<tracked, intent>>
    BY <1>1, <1>3, Zenon DEF Created, Op
  <2>2. \A q \in Procs : /\ Current(q)' <=> Current(q)
                         /\ op'[q].uid = op[q].uid /\ op'[q].pc = op[q].pc
                         /\ op'[q].status = op[q].status
                         /\ op'[q].create \in {"no", op[q].create}
    BY <1>2, <2>1, Zenon DEF Current
  <2>3. ReadyStaged' <=> ReadyStaged
    BY <1>1, <1>2, <2>1, <2>2, Zenon DEF ReadyStaged
  <2> QED BY <1>1, <1>2, <2>1, <2>2, <2>3 DEF ReadyInv, StatusBeforeReady
<1>4. CASE Mark(w)
  <2>1. PICK state \in IF op[w].create = "running" THEN {"creating"} ELSE Marks :
          \E msg \in MessagesOf(state) :
            Stage(w, NewStatus(w, state, msg),
                  IF state = "ready" THEN "status" ELSE "check", op[w].create)
    BY <1>4, Zenon DEF Mark
  <2>2. PICK msg \in MessagesOf(state) :
            Stage(w, NewStatus(w, state, msg),
                  IF state = "ready" THEN "status" ELSE "check", op[w].create)
    BY <2>1, Zenon
  <2>3. state = "ready" => op[w].create = "no"
    <3>1. op[w].create \in {"no", "running", "failed"} /\ op[w].create # "failed"
      BY <1>1, <1>4, Zenon DEF Mark, Op
    <3> QED BY <2>1, <3>1, Zenon
  <2>4. CASE state = "ready"
    <3>1. Stage(w, NewStatus(w, state, msg), "status", op[w].create)
      BY <2>2, <2>4, Zenon
    <3> QED BY <1>2, <2>3, <3>1, ReadyStage, Zenon
  <2>5. CASE state # "ready"
    <3>1. Stage(w, NewStatus(w, state, msg), "check", op[w].create)
      BY <2>2, <2>5, Zenon
    <3> QED BY <1>2, <2>5, <3>1, ReadyStage, Zenon
  <2> QED BY <2>4, <2>5, Zenon
<1>5. CASE Republish(w)
  <2>1. intent.status.state # "ready"
    BY <1>5, Zenon DEF NoReadyRepublished
  <2>2. Stage(w, NewStatus(w, intent.status.state, intent.status.msg), "check", "no")
    BY <1>5, Zenon DEF Republish
  <2> QED BY <1>2, <2>1, <2>2, ReadyStage
<1>6. CASE FailCreate(w)
  <2>1. PICK msg \in Messages : Stage(w, NewStatus(w, "failed", msg), "check", "failed")
    BY <1>6, Zenon DEF FailCreate
  <2>2. op[w].create # "no"
    BY <1>6, Zenon DEF FailCreate
  <2> QED BY <1>2, <2>1, <2>2, ReadyStage, Zenon
<1>7. ASSUME op' = [op EXCEPT ![w] = Idle], intent' = intent,
             \/ tracked' = tracked
             \/ /\ tracked' = NoPod /\ op[w].create # "no"
                /\ tracked.uid \in {0, op[w].uid}
      PROVE  ReadyInv'
  <2>1. op'[w] = Idle /\ \A q \in Procs \ {w} : op'[q] = op[q]
    BY <1>1, <1>7, Zenon
  <2>2. \A q \in Procs : Current(q)' => q # w /\ Current(q) /\ op'[q] = op[q]
    BY <1>2, <2>1, ConstantFields, Zenon DEF Current
  <2>3. op'[Reconciler] = op[Reconciler] /\ (ReadyStaged' <=> ReadyStaged)
    BY <1>1, <1>2, <1>7, <2>1, Zenon DEF ReadyStaged
  <2>4. ASSUME tracked' # tracked
        PROVE  /\ w = Kubelet /\ op[w].create # "no"
               /\ tracked.uid = api.uid /\ api.uid # 0 /\ ~api.term =>
                    /\ ~ReadyStaged
                    /\ \A q \in Workers : op[q].uid = api.uid => op[q].pc = "idle"
    <3>1. w = Kubelet /\ op[w].create # "no" /\ tracked.uid \in {0, op[w].uid}
      BY <1>7, <2>4, Zenon DEF ReadyInv, Writers
    <3>2. tracked.uid = api.uid /\ api.uid # 0 /\ ~api.term => Current(Kubelet)
      BY <3>1, Zenon DEF Current
    <3> QED BY <3>1, <3>2, Zenon DEF ReadyInv
  <2>5. (\A q \in Writers : Current(q) /\ op[q].pc # "idle" => tracked.uid = api.uid)'
    <3> SUFFICES ASSUME NEW q \in Writers, Current(q)', op'[q].pc # "idle"
                 PROVE  tracked'.uid = api'.uid
      BY Zenon
    <3>1. q # w /\ Current(q) /\ op[q].pc # "idle" /\ tracked.uid = api.uid
      BY <1>1, <2>2, Zenon DEF ReadyInv
    <3> QED BY <1>2, <2>4, <3>1, Zenon DEF Writers, Current
  <2>6. (api.uid # 0 /\ ~api.term /\ ReadyStaged => tracked.uid = api.uid)'
    BY <1>2, <2>3, <2>4, Zenon DEF ReadyInv
  <2>7. (Current(Kubelet) /\ op[Kubelet].create # "no" =>
           /\ ~ReadyStaged
           /\ \A q \in Workers : op[q].uid = api.uid => op[q].pc = "idle")'
    <3> SUFFICES ASSUME Current(Kubelet)', op'[Kubelet].create # "no"
                 PROVE  /\ ~ReadyStaged'
                        /\ \A q \in Workers : op'[q].uid = api'.uid => op'[q].pc = "idle"
      BY Zenon
    <3>1. Current(Kubelet) /\ op[Kubelet].create # "no"
      BY <1>1, <2>2, Zenon
    <3> QED BY <1>1, <1>2, <2>1, <2>3, <3>1, ConstantFields DEF ReadyInv
  <2>8. (\A q \in Workers : op[q].create = "no")'
        /\ (op[Kubelet].pc = "idle" => op[Kubelet].create = "no")'
    BY <1>1, <2>1, QuietFields, Zenon DEF ReadyInv
  <2>9. (\A q \in Procs : Current(q) /\ op[q].pc \in {"check", "patch"}
                            /\ op[q].status.state = "ready" => api.published)'
    BY <1>2, <2>2, Zenon DEF ReadyInv
  <2> QED BY <1>2, <2>5, <2>6, <2>7, <2>8, <2>9, Zenon DEF ReadyInv, StatusBeforeReady
<1>8. CASE FailCreateUntrack(w)
  BY <1>7, <1>8, Zenon DEF FailCreateUntrack, Superseded
<1>9. CASE Return(w)
  BY <1>7, <1>9 DEF Return
<1> QED BY <1>3, <1>4, <1>5, <1>6, <1>8, <1>9, Zenon DEF Work

LEMMA ReadyTables ==
    ASSUME TypeOK, GenerationsKnown, ReadyInv,
           Dispatch \/ ForgetPod \/ Crash \/ Startup \/ \E w \in Workers : Spawn(w)
    PROVE  ReadyInv'
<1>1. /\ Kubelet # Reconciler /\ Kubelet \in Procs /\ Reconciler \in Procs
      /\ Kubelet \in Writers /\ Workers \subseteq Writers /\ Writers \subseteq Procs
      /\ Kubelet \notin Workers /\ Reconciler \notin Workers
      /\ op \in [Procs -> Op]
  BY ProcsAssumption, Zenon DEF Procs, Writers, TypeOK
<1>2. CASE Dispatch
  <2>1. /\ \A q \in Procs \ {Kubelet} : op'[q] = op[q]
        /\ op'[Kubelet].uid = api.uid /\ op'[Kubelet].pc = "run"
        /\ op'[Kubelet].create = IF tracked.uid = api.uid THEN "no" ELSE "running"
        /\ UNCHANGED <<api, lastUID, booting>> /\ api.uid # 0 /\ ~api.term
    BY <1>1, <1>2, ConstantsTyped DEF Dispatch, Op
  <2>2. tracked'.uid = api.uid
    BY <1>2, ApiViewTyped DEF Dispatch, TrackPod, Reassert, ApiView, Pod
  <2>3. intent' = intent \/ intent' = NoIntent
    BY <1>2, Zenon DEF Dispatch, TrackPod, ReassertIntent
  <2>4. op'[Reconciler] = op[Reconciler] /\ (ReadyStaged' => ReadyStaged)
    BY <1>1, <2>1, <2>3, QuietFields, Zenon DEF ReadyStaged
  <2>5. (\A q \in Procs : Current(q) /\ op[q].pc \in {"check", "patch"}
                            /\ op[q].status.state = "ready" => api.published)'
    BY <2>1, Zenon DEF ReadyInv, Current
  <2>6. (Current(Kubelet) /\ op[Kubelet].create # "no" =>
           /\ ~ReadyStaged
           /\ \A w \in Workers : op[w].uid = api.uid => op[w].pc = "idle")'
    <3> SUFFICES ASSUME op'[Kubelet].create # "no"
                 PROVE  /\ ~ReadyStaged'
                        /\ \A w \in Workers : op'[w].uid = api'.uid => op'[w].pc = "idle"
      BY Zenon
    <3>1. tracked.uid # api.uid
      BY <2>1, Zenon
    <3>2. \A w \in Workers : op'[w] = op[w]
      BY <1>1, <2>1, Zenon
    <3> QED BY <1>1, <2>1, <2>4, <3>1, <3>2 DEF ReadyInv, Current
  <2>7. (\A w \in Workers : op[w].create = "no")' /\ op'[Kubelet].pc # "idle"
    BY <1>1, <2>1, Zenon DEF ReadyInv
  <2> QED BY <2>1, <2>2, <2>5, <2>6, <2>7 DEF ReadyInv, StatusBeforeReady
<1>3. CASE ForgetPod
  <2>1. /\ UNCHANGED <<api, op>> /\ tracked' = NoPod /\ intent' = NoIntent
        /\ api.term \/ api.uid # tracked.uid
    BY <1>3, Zenon DEF ForgetPod
  <2>2. ReadyStaged' /\ api.uid # 0 => ReadyStaged
    BY <2>1, ConstantFields, Zenon DEF ReadyStaged
  <2>3. \A q \in Procs : Current(q)' <=> Current(q)
    BY <2>1, Zenon DEF Current
  <2>4. (\A w \in Writers : Current(w) /\ op[w].pc # "idle" => tracked.uid = api.uid)'
    BY <1>1, <2>1, <2>3, Zenon DEF ReadyInv, Current
  <2>5. (api.uid # 0 /\ ~api.term /\ ReadyStaged => tracked.uid = api.uid)'
    BY <2>1, <2>2, Zenon DEF ReadyInv
  <2>6. (Current(Kubelet) /\ op[Kubelet].create # "no" =>
           /\ ~ReadyStaged
           /\ \A w \in Workers : op[w].uid = api.uid => op[w].pc = "idle")'
    BY <1>1, <2>1, <2>2, <2>3, Zenon DEF ReadyInv, Current
  <2> QED BY <2>1, <2>3, <2>4, <2>5, <2>6, Zenon DEF ReadyInv, StatusBeforeReady
<1>4. ASSUME UNCHANGED api, \A q \in Procs : op'[q] = Idle,
             api.uid # 0 => intent' = NoIntent \/ tracked'.uid = api.uid
      PROVE  ReadyInv'
  <2>1. \A q \in Procs : ~Current(q)' /\ op'[q].pc = "idle" /\ op'[q].create = "no"
    BY <1>4, ConstantFields, QuietFields, Zenon DEF Current
  <2>2. (api.uid # 0 /\ ~api.term /\ ReadyStaged => tracked.uid = api.uid)'
    BY <1>1, <1>4, <2>1, ConstantFields, Zenon DEF ReadyStaged
  <2> QED BY <1>1, <1>4, <2>1, <2>2, Zenon DEF ReadyInv, StatusBeforeReady
<1>5. CASE Crash
  BY <1>4, <1>5, Zenon DEF Crash
<1>6. CASE Startup
  <2>1. UNCHANGED api /\ intent = NoIntent /\ \A q \in Procs : op'[q] = Idle
    BY <1>6, Zenon DEF Startup, GenerationsKnown
  <2>2. intent' = intent \/ tracked'.uid = api.uid
    BY <1>6 DEF Startup, ApiView
  <2> QED BY <1>4, <2>1, <2>2, Zenon
<1>7. ASSUME NEW w \in Workers, Spawn(w) PROVE ReadyInv'
  <2>1. /\ \A q \in Procs \ {w} : op'[q] = op[q]
        /\ op'[w].uid = tracked.uid /\ op'[w].pc = "run" /\ op'[w].create = "no"
        /\ UNCHANGED <<api, tracked, intent>> /\ op[Kubelet].create = "no"
    BY <1>1, <1>7, ConstantsTyped, QuietFields, Zenon DEF Spawn, Op
  <2>2. op'[Kubelet] = op[Kubelet] /\ op'[Reconciler] = op[Reconciler]
    BY <1>1, <1>7, <2>1, Zenon
  <2>3. ReadyStaged' => ReadyStaged
    BY <2>1, <2>2, Zenon DEF ReadyStaged
  <2>4. (\A q \in Procs : Current(q) /\ op[q].pc \in {"check", "patch"}
                            /\ op[q].status.state = "ready" => api.published)'
    BY <2>1, Zenon DEF ReadyInv, Current
  <2>5. (\A q \in Writers : Current(q) /\ op[q].pc # "idle" => tracked.uid = api.uid)'
    BY <1>1, <2>1, Zenon DEF ReadyInv, Current
  <2>6. (\A q \in Workers : op[q].create = "no")'
    BY <1>1, <2>1, Zenon DEF ReadyInv
  <2> QED BY <2>1, <2>2, <2>3, <2>4, <2>5, <2>6, Zenon DEF ReadyInv, StatusBeforeReady
<1> QED BY <1>2, <1>3, <1>5, <1>6, <1>7, Zenon

LEMMA ReadyReconciler ==
    ASSUME TypeOK, GenerationsKnown, ReadyInv, Reconcile \/ ReconcileGetPod
    PROVE  ReadyInv'
<1>1. /\ Kubelet # Reconciler /\ Kubelet \in Procs /\ Reconciler \in Procs
      /\ Writers \subseteq Procs \ {Reconciler} /\ Workers \subseteq Procs \ {Reconciler}
      /\ op \in [Procs -> Op]
  BY ProcsAssumption DEF Procs, Writers, TypeOK
<1>2. UNCHANGED <<api, tracked, intent>> /\ \A q \in Procs \ {Reconciler} : op'[q] = op[q]
  <2>1. UNCHANGED <<api, tracked, intent>>
    BY DEF Reconcile, ReconcileGetPod
  <2>2. CASE Reconcile
    BY <1>1, <2>2 DEF Reconcile
  <2>3. CASE ReconcileGetPod
    BY <1>1, <2>3, Zenon DEF ReconcileGetPod
  <2> QED BY <2>1, <2>2, <2>3
<1>3. /\ ReadyStaged' => ReadyStaged
      /\ Current(Reconciler)' /\ op'[Reconciler].pc \in {"check", "patch"} =>
           op'[Reconciler].status.state # "ready"
  <2>1. CASE Reconcile
    <3>1. /\ op'[Reconciler].pc = IF intent.status.state = "ready" THEN "getpod" ELSE "check"
          /\ op'[Reconciler].uid = intent.uid /\ op'[Reconciler].status = intent.status
      BY <1>1, <2>1, ConstantsTyped, Zenon DEF Reconcile, Op
    <3> QED BY <1>2, <3>1 DEF ReadyStaged
  <2>2. CASE ReconcileGetPod /\ tracked.uid # 0
    <3>1. op'[Reconciler].pc = "status"
      BY <1>1, <2>2, Zenon DEF ReconcileGetPod, Op
    <3> QED BY <1>2, <3>1 DEF ReadyStaged
  <2>3. CASE ReconcileGetPod /\ tracked.uid = 0
    <3>1. /\ op'[Reconciler].pc = "check" /\ op[Reconciler].pc = "getpod"
          /\ op'[Reconciler].uid = op[Reconciler].uid
      BY <1>1, <2>3, Zenon DEF ReconcileGetPod, Op
    <3>2. ~Current(Reconciler)'
      BY <1>2, <2>3, <3>1, Zenon DEF ReadyInv, ReadyStaged, Current
    <3> QED BY <1>2, <3>1, <3>2 DEF ReadyStaged
  <2> QED BY <2>1, <2>2, <2>3, Zenon
<1>4. \A q \in Procs \ {Reconciler} : Current(q)' <=> Current(q)
  BY <1>2, Zenon DEF Current
<1>5. (\A q \in Procs : Current(q) /\ op[q].pc \in {"check", "patch"}
                          /\ op[q].status.state = "ready" => api.published)'
  BY <1>2, <1>3, <1>4, Zenon DEF ReadyInv
<1>6. (Current(Kubelet) /\ op[Kubelet].create # "no" =>
         /\ ~ReadyStaged
         /\ \A w \in Workers : op[w].uid = api.uid => op[w].pc = "idle")'
  BY <1>1, <1>2, <1>3, <1>4, Zenon DEF ReadyInv
<1>7. /\ (\A w \in Writers : Current(w) /\ op[w].pc # "idle" => tracked.uid = api.uid)'
      /\ (api.uid # 0 /\ ~api.term /\ ReadyStaged => tracked.uid = api.uid)'
      /\ (\A w \in Workers : op[w].create = "no")'
      /\ (op[Kubelet].pc = "idle" => op[Kubelet].create = "no")'
  BY <1>1, <1>2, <1>3, <1>4 DEF ReadyInv
<1> QED BY <1>2, <1>5, <1>6, <1>7, Zenon DEF ReadyInv, StatusBeforeReady

LEMMA ReadyNext ==
    ASSUME TypeOK, GenerationsKnown, ReadyInv, [Next]_vars, [NoReadyRepublished]_vars
    PROVE  ReadyInv'
<1>1. CASE UNCHANGED vars
  BY <1>1 DEF vars, ReadyInv, StatusBeforeReady, Current, ReadyStaged
<1>2. CASE Next /\ NoReadyRepublished
  BY <1>2, ReadyEnvironment, ReadyFlush, ReadyWork, ReadyTables, ReadyReconciler
     DEF Next, Repair
<1> QED BY <1>1, <1>2, Zenon

\* Whatever fails, restarts or outlives its pod, the status patch lands before the
\* Ready annotation, as long as no generation bump republishes a Ready: that path alone
\* flushes the annotation without publishReadyLifecycle
\* (publishReadyLifecycle, republishLifecycleOnGenerationBump).
THEOREM StatusBeforeReadyUnlessRepublished ==
    Spec /\ [][NoReadyRepublished]_vars => []StatusBeforeReady
<1>1. Init => ReadyInv
  <2>1. Kubelet \in Procs /\ Reconciler \in Procs /\ Workers \subseteq Procs
    BY Zenon DEF Procs, Writers
  <2> QED BY <2>1, ConstantFields, QuietFields, Zenon
          DEF Init, ReadyInv, StatusBeforeReady, Current, ReadyStaged, Writers, Procs
<1>2. ReadyInv => StatusBeforeReady
  BY Zenon DEF ReadyInv
<1> QED BY <1>1, <1>2, ReadyNext, TypeCorrect, GenerationsKnownAlways, PTL DEF Spec

LEMMA StampedFlush ==
    ASSUME TypeOK, Stamped, NEW p \in Procs, Flush(p)
    PROVE  Stamped'
<1>1. Writers \subseteq Procs \ {Reconciler}
  BY ProcsAssumption, Zenon DEF Procs, Writers
<1>2. (/\ api.uid # 0 => api.gen # 0
       /\ api.lc.state # "" => api.lc.gen # 0
       /\ tracked.uid # 0 => tracked.gen # 0
       /\ intent.uid # 0 => intent.status.gen # 0)'
  BY FlushShape, ConstantFields, Zenon DEF Stamped, Flushing
<1>3. (\A w \in Writers : op[w].pc # "idle" => op[w].gen # 0)'
  <2> SUFFICES ASSUME NEW w \in Writers, op'[w].pc # "idle" PROVE op'[w].gen # 0
    BY Zenon
  <2>1. op'[w].gen = op[w].gen /\ op[w].pc # "idle"
    BY <1>1, FlushShape, Zenon DEF Carries
  <2> QED BY <2>1, Zenon DEF Stamped
<1>4. (\A q \in Procs : op[q].pc \in Flushing => op[q].status.gen # 0)'
  <2> SUFFICES ASSUME NEW q \in Procs, op'[q].pc \in Flushing PROVE op'[q].status.gen # 0
    BY Zenon
  <2>1. op'[q].status = op[q].status /\ op[q].pc \in Flushing
    BY FlushShape, ConstantFields, Zenon DEF Carries, Flushing
  <2> QED BY <2>1, Zenon DEF Stamped
<1> QED BY <1>2, <1>3, <1>4, Zenon DEF Stamped

LEMMA StampedStage ==
    ASSUME TypeOK, Stamped, NEW w \in Writers, NEW state, NEW msg, NEW next, NEW create,
           op[w].pc = "run", Stage(w, NewStatus(w, state, msg), next, create),
           UNCHANGED <<api, lastUID, booting>>
    PROVE  Stamped'
<1>1. w \in Procs /\ Writers \subseteq Procs
  BY Zenon DEF Procs, Writers
<1>2. NewStatus(w, state, msg).gen # 0
  <2>1. NewStatus(w, state, msg).gen = WriteGen(op[w].gen) /\ op[w].gen # 0
    BY Zenon DEF NewStatus, Stamped
  <2>2. op[w].gen \in Nat /\ tracked.gen \in Nat
    BY <1>1 DEF TypeOK, Op, Pod
  <2> QED BY <2>1, <2>2 DEF WriteGen
<1>3. /\ \A q \in Procs \ {w} : op'[q] = op[q]
      /\ op'[w].gen = op[w].gen
      /\ tracked'.uid = tracked.uid /\ tracked'.gen = tracked.gen
  BY <1>1, StageShape, Zenon
<1>4. \/ intent' = intent /\ op'[w].pc = "run"
      \/ op'[w].status = NewStatus(w, state, msg) /\ intent'.status = NewStatus(w, state, msg)
  BY <1>1, StageShape
<1>5. \/ intent' = intent /\ op'[w].pc = "run"
      \/ op'[w].status.gen # 0 /\ intent'.status.gen # 0
  BY <1>2, <1>4
<1> QED BY <1>1, <1>3, <1>5, Zenon DEF Stamped, Flushing

LEMMA StampedNext ==
    ASSUME TypeOK, GenerationsKnown, Stamped, [Next]_vars
    PROVE  Stamped'
<1>0. /\ op \in [Procs -> Op] /\ Reconciler \in Procs /\ Kubelet \in Procs
      /\ Writers \subseteq Procs \ {Reconciler}
  BY ProcsAssumption, Zenon DEF TypeOK, Procs, Writers
<1>1. CASE Environment
  <2>1. UNCHANGED <<tracked, intent, op>>
    BY <1>1, Zenon DEF Environment, ApiCreate, ApiTerminate, ApiRemove, StampGeneration
  <2>2. (api.uid # 0 => api.gen # 0)' /\ (api.lc.state # "" => api.lc.gen # 0)'
    <3>1. CASE ApiCreate
      <4>1. api'.gen = 1 /\ api'.lc = NoStatus
        BY <3>1, ConstantsTyped, ConstantFields DEF ApiCreate, ApiPod
      <4>2. api'.gen # 0
        BY <4>1
      <4>3. api'.lc.state = ""
        BY <4>1, QuietFields, Zenon
      <4> QED BY <4>2, <4>3, Zenon
    <3>2. CASE ApiTerminate
      <4>1. api'.uid = api.uid /\ api'.gen = api.gen /\ api'.lc = api.lc
        BY <3>2, Zenon DEF ApiTerminate, TypeOK, ApiPod
      <4> QED BY <4>1, Zenon DEF Stamped
    <3>3. CASE ApiRemove
      BY <3>3, ConstantFields, QuietFields, Zenon DEF ApiRemove
    <3>4. CASE StampGeneration
      <4>1. api'.gen = api.gen + 1 /\ api'.lc = api.lc /\ api.gen \in Nat
        BY <3>4 DEF StampGeneration, TypeOK, ApiPod
      <4>2. api'.gen # 0
        BY <4>1
      <4> QED BY <4>1, <4>2, Zenon DEF Stamped
    <3> QED BY <1>1, <3>1, <3>2, <3>3, <3>4, Zenon DEF Environment
  <2> QED BY <2>1, <2>2, Zenon DEF Stamped
<1>2. CASE Reconcile
  <2>1. /\ \A q \in Procs \ {Reconciler} : op'[q] = op[q]
        /\ op'[Reconciler].status = intent.status /\ intent.uid # 0
        /\ UNCHANGED <<api, tracked, intent>>
    BY <1>0, <1>2, ConstantsTyped, Zenon DEF Reconcile, Drifted, Op
  <2> QED BY <1>0, <2>1, Zenon DEF Stamped
<1>3. CASE ReconcileGetPod
  <2>1. /\ \A q \in Procs \ {Reconciler} : op'[q] = op[q]
        /\ op'[Reconciler].status = op[Reconciler].status /\ op[Reconciler].pc = "getpod"
        /\ UNCHANGED <<api, tracked, intent>>
    <3>1. CASE tracked.uid # 0
      BY <1>0, <1>3, <3>1 DEF ReconcileGetPod, Op
    <3>2. CASE tracked.uid = 0
      BY <1>0, <1>3, <3>2, Zenon DEF ReconcileGetPod, Op
    <3> QED BY <3>1, <3>2
  <2> QED BY <1>0, <2>1, Zenon DEF Stamped, Flushing
<1>4. CASE ForgetPod
  BY <1>4, ConstantFields, Zenon DEF ForgetPod, Stamped
<1>5. ASSUME NEW p \in Procs, Flush(p) PROVE Stamped'
  BY <1>5, StampedFlush, Zenon
<1>6. CASE Dispatch
  <2>1. /\ \A q \in Procs \ {Kubelet} : op'[q] = op[q]
        /\ op'[Kubelet].gen = api.gen /\ op'[Kubelet].pc = "run" /\ api.uid # 0
        /\ UNCHANGED api
    BY <1>0, <1>6, ConstantsTyped DEF Dispatch, Op
  <2>2. tracked'.gen = api.gen
    BY <1>6, ApiViewTyped DEF Dispatch, TrackPod, Reassert, ApiView, Pod
  <2>3. intent' = intent \/ intent' = NoIntent
    BY <1>6 DEF Dispatch, TrackPod, ReassertIntent
  <2> QED BY <1>0, <2>1, <2>2, <2>3, ConstantFields, Zenon DEF Stamped, Flushing
<1>7. ASSUME NEW w \in Workers, Spawn(w) PROVE Stamped'
  <2>0. w \in Procs
    BY DEF Procs, Writers
  <2>1. /\ \A q \in Procs \ {w} : op'[q] = op[q]
        /\ op'[w].gen = tracked.gen /\ op'[w].pc = "run" /\ tracked.uid # 0
        /\ UNCHANGED <<api, tracked, intent>>
    BY <1>0, <1>7, <2>0, ConstantsTyped DEF Spawn, Op
  <2> QED BY <1>0, <2>1, Zenon DEF Stamped, Flushing
<1>8. ASSUME NEW w \in Writers, Work(w) PROVE Stamped'
  <2>1. op[w].pc = "run" /\ UNCHANGED <<api, lastUID, booting>> /\ op[w] \in Op
    BY <1>0, <1>8, Zenon
       DEF Work, Created, Mark, Republish, FailCreate, FailCreateUntrack, Return
  <2>2. CASE Mark(w) \/ Republish(w) \/ FailCreate(w)
    <3>1. \E state, msg, next, create : Stage(w, NewStatus(w, state, msg), next, create)
      BY <2>2, Zenon DEF Mark, Republish, FailCreate
    <3> QED BY <2>1, <3>1, StampedStage, Zenon
  <2>3. CASE Created(w)
    <3>1. /\ \A q \in Procs \ {w} : op'[q] = op[q]
          /\ op'[w].gen = op[w].gen /\ op'[w].pc = "run"
          /\ UNCHANGED <<tracked, intent>>
      BY <1>0, <2>1, <2>3 DEF Created, Op
    <3> QED BY <1>0, <2>1, <3>1, Zenon DEF Stamped, Flushing
  <2>4. CASE FailCreateUntrack(w) \/ Return(w)
    <3>1. /\ \A q \in Procs \ {w} : op'[q] = op[q]
          /\ op'[w] = Idle /\ intent' = intent /\ (tracked' = tracked \/ tracked' = NoPod)
      BY <1>0, <2>4 DEF FailCreateUntrack, Return
    <3> QED BY <1>0, <2>1, <3>1, ConstantFields, Zenon DEF Stamped, Flushing
  <2> QED BY <1>8, <2>2, <2>3, <2>4 DEF Work
<1>9. CASE Crash
  BY <1>0, <1>9, ConstantFields, Zenon DEF Crash, Stamped, Flushing
<1>10. CASE Startup
  <2>1. UNCHANGED <<api, op>>
    BY <1>10, Zenon DEF Startup
  <2>2. (tracked.uid # 0 => tracked.gen # 0)' /\ (intent.uid # 0 => intent.status.gen # 0)'
    <3>1. CASE UNCHANGED <<tracked, intent>>
      BY <3>1, Zenon DEF Stamped
    <3>2. CASE tracked' = ApiView /\ intent' = Seed(ApiView)
      <4>1. ApiView.lc = api.lc /\ ApiView.gen = api.gen /\ ApiView.uid = api.uid
        BY Zenon DEF ApiView
      <4>2. CASE api.lc.state = ""
        BY <3>2, <4>1, <4>2, ConstantFields, Zenon DEF Stamped, Seed
      <4>3. CASE api.lc.state # ""
        <5>1. intent' = [uid |-> ApiView.uid, status |-> ApiView.lc, flushed |-> ApiView.lc]
          BY <3>2, <4>1, <4>3, Zenon DEF Seed
        <5>2. intent'.status = api.lc /\ tracked'.uid = api.uid /\ tracked'.gen = api.gen
          BY <3>2, <4>1, <5>1
        <5> QED BY <4>3, <5>2, Zenon DEF Stamped
      <4> QED BY <4>2, <4>3, Zenon
    <3> QED BY <1>10, <3>1, <3>2, Zenon DEF Startup
  <2> QED BY <2>1, <2>2, Zenon DEF Stamped
<1>11. CASE UNCHANGED vars
  BY <1>11, Zenon DEF Stamped, vars
<1> QED BY <1>1, <1>2, <1>3, <1>4, <1>5, <1>6, <1>7, <1>8, <1>9, <1>10, <1>11, Zenon
        DEF Next, Repair

\* A pod of one generation is never republished, so its status patch always lands
\* before its Ready annotation, with any number of incarnations, goroutines, failed
\* patches and restarts (publishReadyLifecycle, reconcileAllLifecycle).
THEOREM StatusBeforeReadyAlways ==
    ASSUME MaxGen = 1
    PROVE  Spec => []StatusBeforeReady
<1>1. Init => Stamped
  BY ConstantFields, QuietFields, Zenon DEF Init, Stamped, Flushing, Procs, Writers
<1>2. Spec => []Stamped
  BY <1>1, StampedNext, TypeCorrect, GenerationsKnownAlways, PTL DEF Spec
<1>3. TypeOK /\ GenerationsKnown /\ Stamped => NoReadyRepublished
  <2> SUFFICES ASSUME TypeOK, GenerationsKnown, Stamped, NEW w \in Writers, Republish(w)
               PROVE  FALSE
    BY Zenon DEF NoReadyRepublished
  <2>1. w \in Procs /\ op[w].pc = "run" /\ intent.uid = op[w].uid
        /\ op[w].gen > intent.status.gen
    BY Zenon DEF Republish, Procs
  <2>2. op[w].gen \in 0..1 /\ intent.status.gen \in 0..1
    BY <2>1, Zenon DEF TypeOK, Op, Intent, Status
  <2>3. intent.status.gen # 0
    BY <2>1, Zenon DEF GenerationsKnown, Stamped
  <2> QED BY <2>1, <2>2, <2>3
<1>4. TypeOK /\ GenerationsKnown /\ Stamped => [NoReadyRepublished]_vars
  BY <1>3
<1> QED BY <1>2, <1>4, TypeCorrect, GenerationsKnownAlways,
           StatusBeforeReadyUnlessRepublished, PTL
================================================================================
