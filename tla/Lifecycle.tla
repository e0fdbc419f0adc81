------------------------------- MODULE Lifecycle -------------------------------
(***************************************************************************)
(* The lifecycle annotations of one pod key (provider/cocoon/lifecycle.go).*)
(* Every operation of vk-cocoon reports its progress by staging a status   *)
(* (state, observed CocoonSet generation, message) in p.lifecycleIntent    *)
(* under p.mu and then patching it onto the pod at the apiserver without   *)
(* the lock.  A ticker re-flushes whatever did not get through.            *)
(*                                                                         *)
(* The maps of the Provider are keyed by namespace/name and every function *)
(* here touches one key, so one key is modelled.  A pod deleted and        *)
(* recreated under the key is a new incarnation with a new UID: UIDs are   *)
(* the numbers 1, 2, ... in creation order and 0 stands for no pod.        *)
(*                                                                         *)
(* Three kinds of goroutine write: the framework's worker, which calls     *)
(* CreatePod and UpdatePod one at a time for a key; Workers, the background*)
(* work those calls left behind or a restart resumed; and the reconciler.  *)
(* A writer holds the pod object it was started with, which may be of an   *)
(* older generation or incarnation by the time it writes.                  *)
(***************************************************************************)
EXTENDS Naturals, FiniteSets

CONSTANTS
    Kubelet,        \* the framework's worker for the key
    Workers,        \* background goroutines that mark lifecycle states
    Reconciler,     \* the goroutine of StartLifecycleReconciler
    Marks,          \* the lifecycle states the writers stage
    Messages,       \* messages of a Failed status
    MaxUID,         \* bound: incarnations of the key
    MaxGen,         \* bound: CocoonSet generations stamped on an incarnation
    Attempts        \* lifecyclePatchAttempts

LifecycleStates == {"creating", "ready", "failed", "hibernating", "hibernated"}

ASSUME ProcsAssumption ==
    Kubelet \notin Workers /\ Reconciler \notin Workers /\ Kubelet # Reconciler
ASSUME MarksAssumption == Marks \subseteq LifecycleStates /\ "" \notin Messages
ASSUME BoundsAssumption ==
    /\ MaxUID \in Nat \ {0}
    /\ MaxGen \in Nat \ {0}
    /\ Attempts \in Nat \ {0}

VARIABLES
    api,        \* the pod at the apiserver: uid, generation stamp, annotations
    lastUID,    \* UIDs handed out so far
    tracked,    \* p.pods[key]
    intent,     \* p.lifecycleIntent[key]
    op,         \* the goroutines
    booting     \* the process is between its start and StartupReconcile's end

vars == <<api, lastUID, tracked, intent, op, booting>>

Writers == Workers \cup {Kubelet}
Procs == Writers \cup {Reconciler}

\* meta.LifecycleStatus; Snapshot() is injective, so statuses are compared.
NoStatus == [state |-> "", gen |-> 0, msg |-> ""]
Status == [state: LifecycleStates \cup {""}, gen: 0..MaxGen, msg: Messages \cup {""}]

NoPod == [uid |-> 0, gen |-> 0, lc |-> NoStatus]
Pod == [uid: 0..MaxUID, gen: 0..MaxGen, lc: Status]

\* lifecycleEntry; flushed is the snapshot last recorded, NoStatus when "".
NoIntent == [uid |-> 0, status |-> NoStatus, flushed |-> NoStatus]
Intent == [uid: 0..MaxUID, status: Status, flushed: Status]

\* The pod at the apiserver.  term: it has a DeletionTimestamp.  published: a
\* status patch of this incarnation has landed.  by: the incarnation whose flush
\* wrote the annotations (history).
NoApiPod == [uid |-> 0, gen |-> 0, lc |-> NoStatus, term |-> FALSE,
             published |-> FALSE, by |-> 0]
ApiPod == [uid: 0..MaxUID, gen: 0..MaxGen, lc: Status, term: BOOLEAN,
           published: BOOLEAN, by: 0..MaxUID]

PCs == {"idle", "run", "getpod", "status", "check", "patch", "landed", "conflict"}

\* A goroutine: its program counter, the pod it holds, the status it is
\* flushing, the patch attempts used, and how far into CreatePod it is.
Idle == [pc |-> "idle", uid |-> 0, gen |-> 0, status |-> NoStatus, tries |-> 0,
         create |-> "no"]
Op == [pc: PCs, uid: 0..MaxUID, gen: 0..MaxGen, status: Status,
       tries: 0..(Attempts - 1), create: {"no", "running", "failed"}]

TypeOK ==
    /\ api \in ApiPod
    /\ lastUID \in 0..MaxUID
    /\ tracked \in Pod
    /\ intent \in Intent
    /\ op \in [Procs -> Op]
    /\ booting \in BOOLEAN

Init ==
    /\ api = NoApiPod
    /\ lastUID = 0
    /\ tracked = NoPod
    /\ intent = NoIntent
    /\ op = [p \in Procs |-> Idle]
    /\ booting = FALSE

--------------------------------------------------------------------------------
(* The apiserver.                                                          *)

ApiCreate ==
    /\ api.uid = 0
    /\ lastUID < MaxUID
    /\ lastUID' = lastUID + 1
    /\ api' = [NoApiPod EXCEPT !.uid = lastUID + 1, !.gen = 1]
    /\ UNCHANGED <<tracked, intent, op, booting>>

ApiTerminate ==
    /\ api.uid # 0
    /\ ~api.term
    /\ api' = [api EXCEPT !.term = TRUE]
    /\ UNCHANGED <<lastUID, tracked, intent, op, booting>>

\* The pod object goes: the framework's final delete, a force delete, an eviction.
ApiRemove ==
    /\ api.uid # 0
    /\ api' = NoApiPod
    /\ UNCHANGED <<lastUID, tracked, intent, op, booting>>

\* The operator stamps a newer CocoonSet generation on the pod.
StampGeneration ==
    /\ api.uid # 0
    /\ api.gen < MaxGen
    /\ api' = [api EXCEPT !.gen = @ + 1]
    /\ UNCHANGED <<lastUID, tracked, intent, op, booting>>

\* The pod object as a list or a watch delivers it.
ApiView == [uid |-> api.uid, gen |-> api.gen, lc |-> api.lc]

--------------------------------------------------------------------------------
(* The tables under p.mu.                                                  *)

\* supersededLocked
Superseded(uid) == tracked.uid # 0 /\ tracked.uid # uid

\* Mutant: the framework's snapshot is tracked as it came.
ReassertNothing(pod) == pod

\* reassertLifecycleLocked: the pod about to be tracked shows this
\* incarnation's intent; a predecessor's intent is dropped.
Reassert(pod) ==
    IF intent.uid = pod.uid THEN [pod EXCEPT !.lc = intent.status] ELSE pod
ReassertIntent(pod) == IF intent.uid = pod.uid THEN intent ELSE NoIntent

\* trackPodLocked, the part the lifecycle depends on
TrackPod(pod) ==
    /\ tracked' = Reassert(pod)
    /\ intent' = ReassertIntent(pod)

\* ObservedGeneration of a write by a holder of [uid, gen]
WriteGen(gen) == IF tracked.gen > gen THEN tracked.gen ELSE gen

\* The early returns of applyLifecycleLocked.
StagedByOther(uid) == intent.uid # 0 /\ intent.uid # uid /\ tracked.uid = 0
StaleGen(uid, gen) == intent.uid = uid /\ gen < intent.status.gen
\* Mutant: a Failed gives way to any later state.
NeverSticky(uid, s) == FALSE

StickyFailed(uid, s) ==
    /\ intent.uid = uid
    /\ intent.status.state = "failed"
    /\ s.state \notin {"failed", "creating", "hibernating"}
    /\ s.gen = intent.status.gen

Accepted(uid, s) ==
    /\ ~Superseded(uid)
    /\ ~StagedByOther(uid)
    /\ ~StaleGen(uid, s.gen)
    /\ ~StickyFailed(uid, s)

\* applyLifecycleLocked: stage the status and show it on the tracked pod.
Apply(uid, s) ==
    /\ intent' = [uid |-> uid, status |-> s, flushed |-> NoStatus]
    /\ tracked' = IF tracked.uid = 0 THEN tracked ELSE [tracked EXCEPT !.lc = s]

\* lifecycleOwnedLocked
Owned(uid, s) == intent.uid = uid /\ intent.status = s

\* A flush or a publication is over: a writer goes on, the reconciler rests.
Resume(p) == IF p = Reconciler THEN Idle
             ELSE [op[p] EXCEPT !.pc = "run", !.tries = 0, !.status = NoStatus]

--------------------------------------------------------------------------------
(* Where pods enter and leave the tables.                                  *)

\* The framework calls CreatePod or UpdatePod with the pod it last saw, which
\* ages from here on.  An incarnation that is not the tracked one goes through
\* CreatePod.
Dispatch ==
    /\ ~booting
    /\ op[Kubelet].pc = "idle"
    /\ api.uid # 0
    /\ ~api.term
    /\ TrackPod(ApiView)
    /\ op' = [op EXCEPT ![Kubelet] =
                [Idle EXCEPT !.pc = "run", !.uid = api.uid, !.gen = api.gen,
                   !.create = IF tracked.uid = api.uid THEN "no" ELSE "running"]]
    /\ UNCHANGED <<api, lastUID, booting>>

\* CreatePod is past its last failing step: the VM is up and bound.
Created(w) ==
    /\ op[w].pc = "run"
    /\ op[w].create = "running"
    /\ op' = [op EXCEPT ![w].create = "no"]
    /\ UNCHANGED <<api, lastUID, tracked, intent, booting>>

\* Background work (post-clone setup, ready wait, probe callback, a resumed or
\* retried operation) starts with the pod that is tracked at that moment, and
\* not before CreatePod has brought the VM up.
Spawn(w) ==
    /\ op[w].pc = "idle"
    /\ op[Kubelet].create = "no"
    /\ tracked.uid # 0
    /\ op' = [op EXCEPT ![w] = [Idle EXCEPT !.pc = "run", !.uid = tracked.uid,
                                            !.gen = tracked.gen]]
    /\ UNCHANGED <<api, lastUID, tracked, intent, booting>>

Return(w) ==
    /\ op[w].pc = "run"
    /\ op[w].create = "no"
    /\ op' = [op EXCEPT ![w] = Idle]
    /\ UNCHANGED <<api, lastUID, tracked, intent, booting>>

\* untrackLocked, reached from DeletePod (the framework's worker sees the pod
\* terminating or gone), or from an eviction or detachIncarnation, which found
\* the incarnation gone from the apiserver.
ForgetPod ==
    /\ tracked.uid # 0
    /\ \/ op[Kubelet].pc = "idle" /\ api.term
       \/ api.uid # tracked.uid
    /\ tracked' = NoPod
    /\ intent' = NoIntent
    /\ UNCHANGED <<api, lastUID, op, booting>>

--------------------------------------------------------------------------------
(* Staging a status.                                                       *)

NewStatus(w, state, msg) ==
    [state |-> state, gen |-> WriteGen(op[w].gen), msg |-> msg]

\* setLifecycleState, then on to next when the write was applied.
Stage(w, s, next, create) ==
    IF Accepted(op[w].uid, s)
      THEN /\ Apply(op[w].uid, s)
           /\ op' = [op EXCEPT ![w].pc = next, ![w].status = s, ![w].tries = 0,
                               ![w].create = create]
      ELSE /\ op' = [op EXCEPT ![w].create = create]
           /\ UNCHANGED <<intent, tracked>>

MessagesOf(state) == IF state = "failed" THEN Messages ELSE {""}

\* markLifecycleState; a Ready is published by markReadyPublished, which
\* pushes the pod status before it exposes the annotation.  Until the VM is up
\* CreatePod marks nothing but Creating.
Mark(w) ==
    /\ op[w].pc = "run"
    /\ op[w].create # "failed"
    /\ \E state \in IF op[w].create = "running" THEN {"creating"} ELSE Marks :
       \E msg \in MessagesOf(state) :
         Stage(w, NewStatus(w, state, msg),
               IF state = "ready" THEN "status" ELSE "check", op[w].create)
    /\ UNCHANGED <<api, lastUID, booting>>

\* republishLifecycleOnGenerationBump
Republish(w) ==
    /\ op[w].pc = "run"
    /\ op[w].create = "no"
    /\ intent.uid = op[w].uid
    /\ op[w].gen > intent.status.gen
    /\ Stage(w, NewStatus(w, intent.status.state, intent.status.msg), "check", "no")
    /\ UNCHANGED <<api, lastUID, booting>>

\* failCreate: mark Failed, and when that is flushed ...
FailCreate(w) ==
    /\ op[w].pc = "run"
    /\ op[w].create = "running"
    /\ \E msg \in Messages :
         Stage(w, NewStatus(w, "failed", msg), "check", "failed")
    /\ UNCHANGED <<api, lastUID, booting>>

\* ... take the pod, and only the pod, off the tables for the framework to retry.
FailCreateUntrack(w) ==
    /\ op[w].pc = "run"
    /\ op[w].create = "failed"
    /\ tracked' = IF Superseded(op[w].uid) THEN tracked ELSE NoPod
    /\ op' = [op EXCEPT ![w] = Idle]
    /\ UNCHANGED <<api, lastUID, intent, booting>>

--------------------------------------------------------------------------------
(* Publishing a staged status.                                             *)

\* Mutant: the patch goes by name only.
FencedByName(uid) == api.uid # 0

\* patchIncarnationAnnotations and publishPodStatus carry the UID in the patch:
\* the apiserver refuses it for another incarnation or a missing pod.
FenceHolds(uid) == api.uid = uid

\* Mutant: the error of publishPodStatus is ignored.
PublishStatusBestEffort(p) ==
    /\ op[p].pc = "status"
    /\ \/ api' = [api EXCEPT !.published = @ \/ FenceHolds(op[p].uid)]
       \/ api' = api
    /\ op' = [op EXCEPT ![p].pc = "check"]
    /\ UNCHANGED <<lastUID, tracked, intent, booting>>

\* publishReadyLifecycle: the status patch, landed or given up after retries.
PublishStatus(p) ==
    /\ op[p].pc = "status"
    /\ \/ /\ FenceHolds(op[p].uid)
          /\ api' = [api EXCEPT !.published = TRUE]
          /\ op' = [op EXCEPT ![p].pc = "check"]
       \/ /\ api' = api
          /\ op' = [op EXCEPT ![p] = Resume(p)]
    /\ UNCHANGED <<lastUID, tracked, intent, booting>>

\* flushLifecycle, the ownership check under the read lock
FlushCheck(p) ==
    /\ op[p].pc = "check"
    /\ op' = [op EXCEPT ![p] = IF Owned(op[p].uid, op[p].status)
                                 THEN [@ EXCEPT !.pc = "patch"] ELSE Resume(p)]
    /\ UNCHANGED <<api, lastUID, tracked, intent, booting>>

\* Mutant: one attempt too many.
RetriedOnceMore(p) ==
    IF op[p].tries + 1 <= Attempts
      THEN [op[p] EXCEPT !.pc = "check", !.tries = @ + 1] ELSE Resume(p)

\* flushLifecycle, another attempt or "will reconcile"
Retried(p) ==
    IF op[p].tries + 1 < Attempts
      THEN [op[p] EXCEPT !.pc = "check", !.tries = @ + 1] ELSE Resume(p)

\* The patch reaches the apiserver while the lock is not held.
PatchLands(p) ==
    /\ op[p].pc = "patch"
    /\ FenceHolds(op[p].uid)
    /\ api' = [api EXCEPT !.lc = op[p].status, !.by = op[p].uid]
    /\ op' = [op EXCEPT ![p].pc = "landed"]
    /\ UNCHANGED <<lastUID, tracked, intent, booting>>

\* The patch lands but its answer is lost.
PatchAnswerLost(p) ==
    /\ op[p].pc = "patch"
    /\ FenceHolds(op[p].uid)
    /\ api' = [api EXCEPT !.lc = op[p].status, !.by = op[p].uid]
    /\ op' = [op EXCEPT ![p] = Retried(p)]
    /\ UNCHANGED <<lastUID, tracked, intent, booting>>

PatchFails(p) ==
    /\ op[p].pc = "patch"
    /\ op' = [op EXCEPT ![p] = Retried(p)]
    /\ UNCHANGED <<api, lastUID, tracked, intent, booting>>

PatchSuperseded(p) ==
    /\ op[p].pc = "patch"
    /\ ~FenceHolds(op[p].uid)
    /\ op' = [op EXCEPT ![p].pc = "conflict"]
    /\ UNCHANGED <<api, lastUID, tracked, intent, booting>>

\* Mutant: a flush is not recorded.
RecordNothing(p) ==
    /\ op[p].pc = "landed"
    /\ op' = [op EXCEPT ![p] = Resume(p)]
    /\ UNCHANGED <<api, lastUID, tracked, intent, booting>>

\* recordLifecycleFlushed
RecordFlushed(p) ==
    /\ op[p].pc = "landed"
    /\ intent' = IF Owned(op[p].uid, op[p].status)
                   THEN [intent EXCEPT !.flushed = op[p].status] ELSE intent
    /\ op' = [op EXCEPT ![p] = Resume(p)]
    /\ UNCHANGED <<api, lastUID, tracked, booting>>

\* dropSupersededLifecycle
DropSuperseded(p) ==
    /\ op[p].pc = "conflict"
    /\ intent' = IF Owned(op[p].uid, op[p].status) THEN NoIntent ELSE intent
    /\ op' = [op EXCEPT ![p] = Resume(p)]
    /\ UNCHANGED <<api, lastUID, tracked, booting>>

--------------------------------------------------------------------------------
(* The reconciler, and a restart of the process.                           *)

Drifted == intent.uid # 0 /\ intent.flushed # intent.status

\* reconcileAllLifecycle collects the drift under the read lock ...
Reconcile ==
    /\ ~booting
    /\ op[Reconciler].pc = "idle"
    /\ Drifted
    /\ op' = [op EXCEPT ![Reconciler] =
                [Idle EXCEPT !.pc = IF intent.status.state = "ready"
                                      THEN "getpod" ELSE "check",
                             !.uid = intent.uid, !.status = intent.status]]
    /\ UNCHANGED <<api, lastUID, tracked, intent, booting>>

\* ... and for a Ready publishes the status of whatever pod is tracked by then.
ReconcileGetPod ==
    /\ op[Reconciler].pc = "getpod"
    /\ op' = IF tracked.uid # 0
               THEN [op EXCEPT ![Reconciler].pc = "status",
                               ![Reconciler].uid = tracked.uid]
               ELSE [op EXCEPT ![Reconciler].pc = "check"]
    /\ UNCHANGED <<api, lastUID, tracked, intent, booting>>

\* The process dies: its tables and goroutines are gone.
Crash ==
    /\ ~booting
    /\ tracked' = NoPod
    /\ intent' = NoIntent
    /\ op' = [p \in Procs |-> Idle]
    /\ booting' = TRUE
    /\ UNCHANGED <<api, lastUID>>

\* seedLifecycleIntentFromPod
Seed(pod) ==
    IF pod.lc.state = "" THEN NoIntent
    ELSE [uid |-> pod.uid, status |-> pod.lc, flushed |-> pod.lc]

\* StartupReconcile adopts the pod (trackPod, then seedLifecycleIntentFromPod)
\* or leaves it to CreatePod; informers start afterwards.
Startup ==
    /\ booting
    /\ \/ /\ api.uid # 0
          /\ tracked' = ApiView
          /\ intent' = Seed(ApiView)
       \/ UNCHANGED <<tracked, intent>>
    /\ booting' = FALSE
    /\ UNCHANGED <<api, lastUID, op>>

--------------------------------------------------------------------------------
Environment ==
    \/ ApiCreate
    \/ ApiTerminate
    \/ ApiRemove
    \/ StampGeneration

Flush(p) ==
    \/ PublishStatus(p)
    \/ FlushCheck(p)
    \/ PatchLands(p)
    \/ PatchAnswerLost(p)
    \/ PatchFails(p)
    \/ PatchSuperseded(p)
    \/ RecordFlushed(p)
    \/ DropSuperseded(p)

Work(w) ==
    \/ Created(w)
    \/ Mark(w)
    \/ Republish(w)
    \/ FailCreate(w)
    \/ FailCreateUntrack(w)
    \/ Return(w)

Repair == Reconcile \/ ReconcileGetPod \/ ForgetPod \/ \E p \in Procs : Flush(p)

Next ==
    \/ Environment
    \/ Repair
    \/ Dispatch
    \/ \E w \in Workers : Spawn(w)
    \/ \E w \in Writers : Work(w)
    \/ Crash
    \/ Startup

Spec == Init /\ [][Next]_vars

(***************************************************************************)
(* Fairness: the ticker runs reconcileAllLifecycle again and again, a      *)
(* goroutine inside flushLifecycle keeps running, an apiserver that is     *)
(* asked again and again answers in the end, and the framework deletes a   *)
(* pod it sees terminating or gone (retryPodSync never gives up on one).   *)
(***************************************************************************)
Fairness ==
    /\ WF_vars(ForgetPod)
    /\ WF_vars(Reconcile)
    /\ WF_vars(ReconcileGetPod)
    /\ \A p \in Procs :
         /\ WF_vars(Flush(p))
         /\ SF_vars(PublishStatus(p) /\ op'[p].pc = "check")
         /\ SF_vars(PatchLands(p) \/ PatchSuperseded(p))

FairSpec == Spec /\ Fairness

--------------------------------------------------------------------------------
(* Properties.                                                             *)

\* The pod that GetPod and GetPodStatus report from always shows exactly the
\* staged status of its own incarnation, whatever stale snapshot UpdatePod
\* brought and whichever goroutine wrote last (reassertLifecycleLocked,
\* applyLifecycleLocked).
TrackedShowsIntent ==
    tracked.uid # 0 /\ intent.uid # 0 =>
        intent.uid = tracked.uid /\ tracked.lc = intent.status

\* The annotations on an incarnation were flushed for that incarnation: a
\* goroutine that outlived its pod never marks the recreated one
\* (the UID fence of patchIncarnationAnnotations).
AnnotationsAreOwn == api.uid # 0 /\ api.lc # NoStatus => api.by = api.uid

\* The pod never reports an observed generation newer than the generation the
\* operator stamped on it, so the operator cannot take an unprocessed change
\* for a processed one (ObservedGeneration in applyLifecycleLocked).
ObservedNeverAhead == api.lc.gen <= api.gen

\* What makes ObservedNeverAhead and IntentAdvances inductive: every holder of
\* an incarnation the apiserver still has knows a generation stamped on it, a
\* patch under way carries such a generation, nobody holds a UID not handed out
\* yet, and a process that has just started has empty tables.
GenerationsKnown ==
    /\ api.uid \in {0, lastUID}
    /\ api.uid = 0 => api = NoApiPod
    /\ tracked.uid = 0 => tracked = NoPod
    /\ tracked.uid <= lastUID
    /\ intent.uid <= lastUID
    /\ api.lc.gen <= api.gen
    /\ api.uid # 0 =>
         /\ tracked.uid = api.uid => tracked.gen <= api.gen
         /\ intent.uid = api.uid => intent.status.gen <= api.gen
         /\ \A p \in Procs : op[p].uid = api.uid =>
              /\ p # Reconciler => op[p].gen <= api.gen
              /\ op[p].pc = "patch" => op[p].status.gen <= api.gen
    /\ \A p \in Procs : op[p].uid <= lastUID /\ (op[p].pc # "idle" => op[p].uid # 0)
    /\ booting => tracked = NoPod /\ intent = NoIntent /\ op = [p \in Procs |-> Idle]

\* While an incarnation keeps its intent, the observed generation of the intent
\* never goes back, and a Failed is only left at its own generation by a state
\* that starts a new attempt (the two drops of applyLifecycleLocked).
IntentAdvances ==
    [][intent.uid # 0 /\ intent'.uid = intent.uid =>
         /\ intent'.status.gen >= intent.status.gen
         /\ (intent.status.state = "failed" /\ intent'.status.gen = intent.status.gen)
              => intent'.status.state \in {"failed", "creating", "hibernating"}]_vars

\* On the apiserver the status patch of a pod that is not being deleted lands
\* before its lifecycle-state=ready annotation, also when the goroutine that
\* staged the Ready failed to publish and the reconciler took over
\* (publishReadyLifecycle, reconcileAllLifecycle).
StatusBeforeReady == api.lc.state = "ready" /\ ~api.term => api.published

\* Once pods stop changing and nobody marks a new state, every drift is
\* flushed or dropped for good (runLifecycleReconciler).
DriftIsRepaired == <>[][Repair]_vars => <>[](~Drifted)

\* Then the apiserver shows the staged status: a write skipped or failed on the
\* way is made up for by the flush that owns it (flushLifecycle).
AnnotationConverges ==
    <>[][Repair]_vars =>
        <>[](intent.uid # 0 /\ intent.uid = api.uid => api.lc = intent.status)
================================================================================
