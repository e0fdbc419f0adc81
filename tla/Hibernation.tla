------------------------------ MODULE Hibernation ------------------------------
(***************************************************************************)
(* Hibernate and wake of one VM name (provider/cocoon/update.go, create.go,*)
(* delete.go, reconcile.go, gc.go).  The state of a guest is kept in up to *)
(* four places that no transaction spans: the VM, the local snapshot of    *)
(* each node, the :hibernate tag of the registry, and what the pod's       *)
(* annotations say.  Each step of an operation may fail, and the process   *)
(* may die between any two of them.                                        *)
(*                                                                         *)
(* A state of the guest is a version: 1 after a first boot, then the value *)
(* of a clock that ticks whenever the guest changes something.  A snapshot *)
(* is its version; verifyLocalSnapshot compares snapshot IDs, and two      *)
(* snapshots of one version are interchangeable.  0 is no version, no VM.  *)
(*                                                                         *)
(* The pod sits on one node at a time: a new one is created only when the  *)
(* old one is gone, and op, tracked, bound are the tables of the vk-cocoon *)
(* process on the pod's node.  Lifecycle annotations are written at once   *)
(* here; Lifecycle models what happens between staging and flushing them.  *)
(***************************************************************************)
EXTENDS Naturals, FiniteSets

CONSTANTS
    Nodes,          \* the nodes
    Setups,         \* the deployments considered
    MaxVer,         \* bound: versions of the guest
    MaxVM           \* bound: VMs created

FaultKinds == {"crash", "patch", "registry", "save", "clone", "remove", "halfremove"}

ASSUME NodesAssumption == Nodes # {} /\ IsFiniteSet(Nodes) /\ "none" \notin Nodes
ASSUME BoundsAssumption == MaxVer \in Nat \ {0} /\ MaxVM \in Nat \ {0}
ASSUME SetupsAssumption ==
    Setups \subseteq [nodes: (SUBSET Nodes) \ {{}},  \* where the pod may be scheduled
                      registry: BOOLEAN,       \* p.Registry, p.Pusher, p.Puller configured
                      destroy: BOOLEAN,        \* OrphanPolicy is OrphanDestroy
                      faults: SUBSET FaultKinds,   \* what may go wrong
                      vers: 1..MaxVer, vms: 1..MaxVM]  \* bounds

VARIABLES
    setup,      \* the deployment, which never changes
    pod,        \* the pod at the apiserver
    vm,         \* vm[n]: the VM with the name on node n (cocoon's records)
    snap,       \* snap[n]: the local snapshot with the VM's name
    tag,        \* the :hibernate tag in the registry
    op,         \* the operation in progress on the pod's node
    tracked,    \* p.pods[key] is this pod
    bound,      \* p.vmsByPod[key]: the VM's ID
    index,      \* index[n]: p.vmsByName entry of a VM no pod is bound to
    rec,        \* rec[n]: the snapshot reclaimer of node n
    clock,      \* versions handed out so far
    lastVM,     \* VM IDs handed out so far
    owed        \* history: the version whose VM a hibernation removed

stores == <<vm, snap, tag>>
tables == <<tracked, bound, index>>
history == <<clock, lastVM, owed>>
vars == <<setup, pod, stores, op, tables, rec, history>>

Ver == 0..MaxVer
ID == 0..MaxVM
None == "none"
LifecycleStates == {"", "creating", "ready", "failed", "hibernate failed",
                    "hibernating", "hibernated"}

\* term: not deleted, deleted by a seat release (keep-snapshot-on-delete), or
\* deleted for good.  marked: restore-from-hibernate.  want: hibernate.
NoPod == [node |-> None, want |-> FALSE, marked |-> FALSE, term |-> "no",
          vmid |-> 0, lc |-> ""]
Pod == [node: Nodes \cup {None}, want: BOOLEAN, marked: BOOLEAN,
        term: {"no", "keep", "drop"}, vmid: ID, lc: LifecycleStates]

NoVM == [id |-> 0, ver |-> 0]

\* ver: the version saved by hibernate, or imported from the registry or a peer
\* by resolveWakeSource; local: the source is the local snapshot instead.
\* create: CreatePod runs the wake.  cleared: preCleared.
Idle == [pc |-> "idle", create |-> FALSE, ver |-> 0, local |-> FALSE, cleared |-> FALSE]
PCs == {"idle", "down", "save", "push", "clear", "remove", "compensate", "rollback",
        "forget", "evidence", "resolve", "clone", "boot", "bind",
        "delsave", "delvm", "delsnap", "deleted"}
Op == [pc: PCs, create: BOOLEAN, ver: Ver, local: BOOLEAN, cleared: BOOLEAN]

TypeOK ==
    /\ setup \in Setups
    /\ pod \in Pod
    /\ vm \in [Nodes -> [id: ID, ver: Ver]]
    /\ snap \in [Nodes -> Ver]
    /\ tag \in Ver
    /\ op \in Op
    /\ tracked \in BOOLEAN
    /\ bound \in ID
    /\ index \in [Nodes -> ID]
    /\ rec \in [Nodes -> [ver: Ver, stale: BOOLEAN]]
    /\ clock \in 1..MaxVer
    /\ lastVM \in ID
    /\ owed \in Ver

NotReclaiming == [ver |-> 0, stale |-> FALSE]

Init ==
    /\ setup \in Setups
    /\ pod = NoPod
    /\ vm = [n \in Nodes |-> NoVM]
    /\ snap = [n \in Nodes |-> 0]
    /\ tag = 0
    /\ op = Idle
    /\ tracked = FALSE
    /\ bound = 0
    /\ index = [n \in Nodes |-> 0]
    /\ rec = [n \in Nodes |-> NotReclaiming]
    /\ clock = 1
    /\ lastVM = 0
    /\ owed = 0

\* The pod's node; meaningful while the pod exists.
Here == pod.node
Exists == pod.node # None
HasRegistry == setup.registry
DestroyOrphans == setup.destroy
May(fault) == fault \in setup.faults
Goto(pc) == op' = [op EXCEPT !.pc = pc]

--------------------------------------------------------------------------------
(* The user, the operator and the guest.                                   *)

OperatorCreatesPod(n, marked) ==
    /\ ~Exists
    /\ pod' = [NoPod EXCEPT !.node = n, !.marked = marked]
    /\ UNCHANGED <<stores, op, tables, rec, history>>

OperatorTogglesHibernate ==
    /\ Exists
    /\ pod.term = "no"
    /\ pod' = [pod EXCEPT !.want = ~@]
    /\ UNCHANGED <<stores, op, tables, rec, history>>

OperatorDeletesPod(term) ==
    /\ Exists
    /\ pod.term = "no"
    /\ pod' = [pod EXCEPT !.term = term]
    /\ UNCHANGED <<stores, op, tables, rec, history>>

\* The CocoonHibernation reconciler drops the tag once the woken VM is running.
OperatorDropsTag ==
    /\ Exists
    /\ ~pod.want
    /\ pod.vmid # 0
    /\ pod.lc = "ready"
    /\ tag # 0
    /\ tag' = 0
    /\ UNCHANGED <<pod, vm, snap, op, tables, rec, history>>

\* The user gives the hibernated state up.
OperatorDiscards ==
    /\ ~Exists
    /\ tag # 0
    /\ tag' = 0
    /\ owed' = 0
    /\ UNCHANGED <<pod, vm, snap, op, tables, rec, clock, lastVM>>

GuestRuns(n) ==
    /\ vm[n].id # 0
    /\ clock < setup.vers
    /\ clock' = clock + 1
    /\ vm' = [vm EXCEPT ![n].ver = clock + 1]
    /\ UNCHANGED <<pod, snap, tag, op, tables, rec, lastVM, owed>>

Environment ==
    \/ \E n \in setup.nodes, marked \in BOOLEAN : OperatorCreatesPod(n, marked)
    \/ OperatorTogglesHibernate
    \/ \E term \in {"keep", "drop"} : OperatorDeletesPod(term)
    \/ OperatorDropsTag
    \/ OperatorDiscards
    \/ \E n \in Nodes : GuestRuns(n)

--------------------------------------------------------------------------------
(* Hibernate: Save -> Push -> clear -> Remove.                             *)

\* The worker of the key is free and the pod is not being deleted.
Free == Exists /\ op.pc = "idle" /\ pod.term = "no"

\* applyUpdate's case wantHibernate && haveVM: an UpdatePod, retryOp, or the
\* resumed hibernate of dispatchResume.
HibernateStart ==
    /\ Free
    /\ tracked
    /\ pod.want
    /\ bound # 0
    /\ pod' = [pod EXCEPT !.lc = "hibernating"]
    /\ Goto("save")
    /\ UNCHANGED <<stores, tables, rec, history>>

\* failHibernate; the caller's retryOpLater leaves the operation owed.
FailHibernate ==
    /\ pod' = [pod EXCEPT !.lc = "hibernate failed"]
    /\ op' = Idle

\* dropNICForHibernate or the resumed Start fails: no rollback.
HibernatePrepareFails ==
    /\ op.pc = "save"
    /\ May("save")
    /\ FailHibernate
    /\ UNCHANGED <<stores, tables, rec, history>>

HibernateSave ==
    /\ op.pc = "save"
    /\ vm[Here].id = bound
    /\ snap' = [snap EXCEPT ![Here] = vm[Here].ver]
    /\ op' = [op EXCEPT !.pc = "push", !.ver = vm[Here].ver]
    /\ UNCHANGED <<pod, vm, tag, tables, rec, history>>

\* SnapshotSave removes the snapshot that holds the name before its second try,
\* so a failed save may have lost the previous snapshot.
HibernateSaveFails ==
    /\ op.pc = "save"
    /\ \/ vm[Here].id # bound /\ UNCHANGED snap
       \/ /\ vm[Here].id = bound
          /\ May("save")
          /\ \/ UNCHANGED snap
             \/ snap' = [snap EXCEPT ![Here] = 0]
    /\ Goto("rollback")
    /\ UNCHANGED <<pod, vm, tag, tables, rec, history>>

\* Mutant: the push is best effort.
PushBestEffort ==
    /\ op.pc = "push"
    /\ tag' \in {tag, IF HasRegistry THEN snap[Here] ELSE tag}
    /\ Goto("clear")
    /\ UNCHANGED <<pod, vm, snap, tables, rec, history>>

\* PushSnapshot exports the local snapshot by its name.
HibernatePush ==
    /\ op.pc = "push"
    /\ \/ ~HasRegistry /\ UNCHANGED tag /\ Goto("clear")
       \/ HasRegistry /\ snap[Here] # 0 /\ tag' = snap[Here] /\ Goto("clear")
    /\ UNCHANGED <<pod, vm, snap, tables, rec, history>>

\* The answer to a push that landed may be lost as well.
HibernatePushFails ==
    /\ op.pc = "push"
    /\ HasRegistry
    /\ \/ snap[Here] = 0 /\ UNCHANGED tag
       \/ /\ snap[Here] # 0
          /\ May("registry")
          /\ tag' \in {tag, snap[Here]}
    /\ Goto("rollback")
    /\ UNCHANGED <<pod, vm, snap, tables, rec, history>>

\* clearRuntimeAnnotations, whose failure is only logged.
ClearVMID(cleared) ==
    \/ cleared /\ pod' = [pod EXCEPT !.vmid = 0]
    \/ ~cleared /\ May("patch") /\ UNCHANGED pod

HibernateClear ==
    /\ op.pc = "clear"
    /\ \E cleared \in BOOLEAN :
        /\ ClearVMID(cleared)
        /\ op' = [op EXCEPT !.pc = "remove", !.cleared = cleared]
    /\ UNCHANGED <<stores, tables, rec, history>>

\* removeVM: a VM that is already absent counts as removed.
HibernateRemove ==
    /\ op.pc = "remove"
    /\ vm' = [vm EXCEPT ![Here] = NoVM]
    /\ owed' = op.ver
    /\ Goto("forget")
    /\ UNCHANGED <<pod, snap, tag, tables, rec, clock, lastVM>>

HibernateRemoveFails ==
    /\ op.pc = "remove"
    /\ May("remove")
    /\ Goto("compensate")
    /\ UNCHANGED <<pod, stores, tables, rec, history>>

\* The remove reports an error (its deadline, a late step of it) with the VM gone.
HibernateRemoveHalfFails ==
    /\ op.pc = "remove"
    /\ May("halfremove")
    /\ vm' = [vm EXCEPT ![Here] = NoVM]
    /\ owed' = op.ver
    /\ Goto("compensate")
    /\ UNCHANGED <<pod, snap, tag, tables, rec, clock, lastVM>>

\* The best-effort DeleteManifest of the tag just pushed.
HibernateCompensate ==
    /\ op.pc = "compensate"
    /\ tag' \in {0} \cup (IF May("registry") THEN {tag} ELSE {})
    /\ Goto("rollback")
    /\ UNCHANGED <<pod, vm, snap, tables, rec, history>>

\* Mutant: the rollback reports a state the annotation does not have.
RollbackMarksRunning ==
    /\ op.pc = "rollback"
    /\ pod' = [pod EXCEPT !.vmid = bound, !.lc = "running"]
    /\ op' = Idle
    /\ UNCHANGED <<stores, tables, rec, history>>

\* rollbackHibernate, then failHibernate: the VM is bound and published again.
HibernateRollback ==
    /\ op.pc = "rollback"
    /\ \E vmid \in {bound} \cup (IF May("patch") THEN {pod.vmid} ELSE {}) :
        pod' = [pod EXCEPT !.vmid = vmid, !.lc = "hibernate failed"]
    /\ op' = Idle
    /\ UNCHANGED <<stores, tables, rec, history>>

\* The second clear if the first failed, forgetVMOnly, Hibernated.
HibernateForget ==
    /\ op.pc = "forget"
    /\ \E vmid \in {0} \cup (IF May("patch") /\ ~op.cleared THEN {pod.vmid} ELSE {}) :
        pod' = [pod EXCEPT !.vmid = vmid, !.lc = "hibernated"]
    /\ bound' = 0
    /\ op' = Idle
    /\ UNCHANGED <<stores, tracked, index, rec, history>>

Hibernate ==
    \/ HibernateStart \/ HibernatePrepareFails
    \/ HibernateSave \/ HibernateSaveFails
    \/ HibernatePush \/ HibernatePushFails
    \/ HibernateClear
    \/ HibernateRemove \/ HibernateRemoveFails \/ HibernateRemoveHalfFails
    \/ HibernateCompensate \/ HibernateRollback \/ HibernateForget

\* Mutant: only failures of other operations are lifted.
LiftOthers ==
    /\ Free
    /\ tracked
    /\ ~pod.want
    /\ bound # 0
    /\ vm[Here].id = bound
    /\ pod.lc = "failed"
    /\ pod' = [pod EXCEPT !.lc = "creating"]
    /\ UNCHANGED <<stores, op, tables, rec, history>>

\* liftHibernateFailure on an update or a retry: creating, then Ready.
Lift ==
    /\ Free
    /\ tracked
    /\ ~pod.want
    /\ bound # 0
    /\ vm[Here].id = bound
    /\ pod.lc = "hibernate failed"
    /\ pod' = [pod EXCEPT !.lc = "creating"]
    /\ UNCHANGED <<stores, op, tables, rec, history>>

--------------------------------------------------------------------------------
(* Bringing a VM up: wake, and CreatePod.                                  *)

\* applyUpdate's case !wantHibernate && !haveVM.
WakeStart ==
    /\ Free
    /\ tracked
    /\ ~pod.want
    /\ bound = 0
    /\ \E vmid \in {0} \cup (IF May("patch") THEN {pod.vmid} ELSE {}) :
        pod' = [pod EXCEPT !.vmid = vmid, !.lc = "creating"]
    /\ Goto("resolve")
    /\ UNCHANGED <<stores, tables, rec, history>>

\* CreatePod of a pod that is not in the tables, up to awaitBusyCreate.
CreateStart ==
    /\ Free
    /\ ~tracked
    /\ tracked' = TRUE
    /\ pod' = [pod EXCEPT !.lc = "creating"]
    /\ op' = [op EXCEPT !.pc = "evidence", !.create = TRUE]
    /\ UNCHANGED <<stores, bound, index, rec, history>>

\* failOp, and failCreate for CreatePod, which drops the pod from the tables.
FailBringUp ==
    /\ pod' = [pod EXCEPT !.lc = "failed"]
    /\ tracked' = ~op.create
    /\ op' = Idle

\* adoptableVM, and the adopt branch.
CreateAdopts ==
    /\ op.pc = "evidence"
    /\ index[Here] # 0
    /\ vm[Here].id = index[Here]
    /\ Goto("bind")
    /\ UNCHANGED <<pod, stores, tables, rec, history>>

\* hibernateEvidence
Evidence == IF HasRegistry THEN tag # 0 ELSE snap[Here] # 0

\* deriveRestoreFromEvidence, and bringUpVM's branch on its answer.
CreateDecides ==
    /\ op.pc = "evidence"
    /\ index[Here] = 0 \/ vm[Here].id # index[Here]
    /\ index' = [index EXCEPT ![Here] = 0]
    /\ Goto(IF pod.marked \/ Evidence THEN "resolve" ELSE "boot")
    /\ UNCHANGED <<pod, stores, tracked, bound, rec, history>>

\* The inspect of the indexed VM or the registry fails: no fresh boot.
CreateDecideFails ==
    /\ op.pc = "evidence"
    /\ May("registry")
    /\ FailBringUp
    /\ UNCHANGED <<stores, bound, index, rec, history>>

\* verifyLocalSnapshot
LocalIsCurrent == snap[Here] # 0 /\ (HasRegistry => tag = snap[Here])

\* resolveWakeSource: the verified local snapshot, else discard a stale one and
\* take the tag's snapshot from the peer that pushed it or from the registry.
ResolveWakeSource ==
    /\ op.pc = "resolve"
    /\ \/ /\ LocalIsCurrent
          /\ op' = [op EXCEPT !.pc = "clone", !.local = TRUE]
          /\ UNCHANGED snap
       \/ /\ ~LocalIsCurrent
          /\ tag # 0
          /\ op' = [op EXCEPT !.pc = "clone", !.ver = tag]
          /\ snap' = [snap EXCEPT ![Here] = 0]
    /\ UNCHANGED <<pod, vm, tag, tables, rec, history>>

\* No source, or the registry does not answer: before the local snapshot is
\* judged, or for the pull after a stale one was discarded.
ResolveWakeSourceFails ==
    /\ op.pc = "resolve"
    /\ \/ ~LocalIsCurrent /\ tag = 0 /\ snap' = [snap EXCEPT ![Here] = 0]
       \/ HasRegistry /\ May("registry") /\ UNCHANGED snap
       \/ HasRegistry /\ May("registry") /\ ~LocalIsCurrent /\ snap' = [snap EXCEPT ![Here] = 0]
    /\ FailBringUp
    /\ UNCHANGED <<vm, tag, bound, index, rec, history>>

\* The runtime starts a VM under the name, which must be free.
StartVM(ver) ==
    /\ vm[Here].id = 0
    /\ lastVM < setup.vms
    /\ lastVM' = lastVM + 1
    /\ vm' = [vm EXCEPT ![Here] = [id |-> lastVM + 1, ver |-> ver]]
    /\ owed' = 0
    /\ Goto("bind")
    /\ UNCHANGED <<pod, snap, tag, tables, rec, clock>>

\* cloneFromHibernate; a local source is read by name, now.
Clone ==
    /\ op.pc = "clone"
    /\ op.local => snap[Here] # 0
    /\ StartVM(IF op.local THEN snap[Here] ELSE op.ver)

\* bringUpVM from the image or an explicit clone source.
Boot ==
    /\ op.pc = "boot"
    /\ StartVM(1)

StartVMFails ==
    /\ op.pc \in {"clone", "boot"}
    /\ \/ May("clone")
       \/ vm[Here].id # 0
       \/ op.local /\ snap[Here] = 0
    /\ FailBringUp
    /\ UNCHANGED <<stores, bound, index, rec, history>>

\* applyRuntime: bind the VM, then publish its ID; a failed patch is logged.
Bind ==
    /\ op.pc = "bind"
    /\ bound' = vm[Here].id
    /\ index' = [index EXCEPT ![Here] = 0]
    /\ \E vmid \in {vm[Here].id} \cup (IF May("patch") THEN {pod.vmid} ELSE {}) :
        pod' = [pod EXCEPT !.vmid = vmid]
    /\ op' = Idle
    /\ UNCHANGED <<stores, tracked, rec, history>>

\* The background ready wait of the pod, started by wake, CreatePod, a lift or
\* owedOpFor after a restart.
MarkReady ==
    /\ Exists
    /\ op.pc = "idle"
    /\ tracked
    /\ bound # 0
    /\ vm[Here].id = bound
    /\ pod.lc = "creating"
    /\ pod' = [pod EXCEPT !.lc = "ready"]
    /\ UNCHANGED <<stores, op, tables, rec, history>>

BringUp ==
    \/ WakeStart \/ CreateStart
    \/ CreateAdopts \/ CreateDecides \/ CreateDecideFails
    \/ ResolveWakeSource \/ ResolveWakeSourceFails
    \/ Clone \/ Boot \/ StartVMFails \/ Bind \/ MarkReady

--------------------------------------------------------------------------------
(* DeletePod, and the framework's removal of the pod object.               *)

\* snapshot: the pod's snapshot policy asks for one, and there is a pusher.
DeleteStart(snapshot) ==
    /\ Exists
    /\ op.pc = "idle"
    /\ pod.term # "no"
    /\ snapshot => HasRegistry
    /\ Goto(IF bound = 0 THEN "delsnap" ELSE IF snapshot THEN "delsave" ELSE "delvm")
    /\ UNCHANGED <<pod, stores, tables, rec, history>>

\* saveAndPushSnapshot saves under the VM's name, and pushes another tag.
DeleteSave ==
    /\ op.pc = "delsave"
    /\ \/ vm[Here].id # bound /\ UNCHANGED snap
       \/ vm[Here].id = bound /\ snap' = [snap EXCEPT ![Here] = vm[Here].ver]
    /\ Goto("delvm")
    /\ UNCHANGED <<pod, vm, tag, tables, rec, history>>

\* ErrDeleteKeptVM: the framework calls DeletePod again.
DeleteFails ==
    /\ \/ /\ op.pc = "delsave"
          /\ May("save")
          /\ snap' \in {snap, [snap EXCEPT ![Here] = 0], [snap EXCEPT ![Here] = vm[Here].ver]}
       \/ op.pc = "delvm" /\ May("remove") /\ UNCHANGED snap
    /\ op' = Idle
    /\ UNCHANGED <<pod, vm, tag, tables, rec, history>>

\* Mutant: an error of Remove is ignored.
DeleteVMBestEffort ==
    /\ op.pc = "delvm"
    /\ vm' \in {vm, [vm EXCEPT ![Here] = NoVM]}
    /\ Goto("delsnap")
    /\ UNCHANGED <<pod, snap, tag, tables, rec, history>>

DeleteVM ==
    /\ op.pc = "delvm"
    /\ vm' = [vm EXCEPT ![Here] = IF @.id = bound THEN NoVM ELSE @]
    /\ Goto("delsnap")
    /\ UNCHANGED <<pod, snap, tag, tables, rec, history>>

\* removeLocalSnapshots (best effort) unless the pod is a seat release, then
\* forgetPod.  Without a registry this gives a hibernated state up.
DeleteForgets ==
    /\ op.pc = "delsnap"
    /\ \/ pod.term = "keep" /\ UNCHANGED <<snap, owed>>
       \/ /\ pod.term = "drop"
          /\ \/ snap' = [snap EXCEPT ![Here] = 0]
             \/ May("save") /\ UNCHANGED snap
          /\ owed' = IF HasRegistry THEN owed ELSE 0
    /\ tracked' = FALSE
    /\ bound' = 0
    /\ Goto("deleted")
    /\ UNCHANGED <<pod, vm, tag, index, rec, clock, lastVM>>

FrameworkRemovesPod ==
    /\ op.pc = "deleted"
    /\ pod' = NoPod
    /\ op' = Idle
    /\ UNCHANGED <<stores, tables, rec, history>>

\* The watcher finds the bound VM gone (evictGoneIncarnation, evictPod): it
\* deletes the pod, without the seat-release flag, and forgets it.
EvictGone ==
    /\ Free
    /\ bound # 0
    /\ vm[Here].id # bound
    /\ pod' = [pod EXCEPT !.term = "drop"]
    /\ tracked' = FALSE
    /\ bound' = 0
    /\ UNCHANGED <<stores, op, index, rec, history>>

Delete ==
    \/ \E snapshot \in BOOLEAN : DeleteStart(snapshot)
    \/ DeleteSave \/ DeleteFails \/ DeleteVM \/ DeleteForgets \/ FrameworkRemovesPod
    \/ EvictGone

--------------------------------------------------------------------------------
(* reclaimLocalSnapshots, on every node.                                   *)

ReclaimList(n) ==
    /\ rec[n] = NotReclaiming
    /\ ~(n = Here /\ (tracked \/ op.pc = "down"))
    /\ snap[n] # 0
    /\ rec' = [rec EXCEPT ![n].ver = snap[n]]
    /\ UNCHANGED <<pod, stores, op, tables, history>>

\* Without a registry, or when it does not answer, the snapshot is kept.
ReclaimVerify(n) ==
    /\ rec[n].ver # 0
    /\ ~rec[n].stale
    /\ \/ HasRegistry /\ tag # rec[n].ver /\ rec' = [rec EXCEPT ![n].stale = TRUE]
       \/ tag = rec[n].ver /\ rec' = [rec EXCEPT ![n] = NotReclaiming]
       \/ (May("registry") \/ ~HasRegistry) /\ rec' = [rec EXCEPT ![n] = NotReclaiming]
    /\ UNCHANGED <<pod, stores, op, tables, history>>

ReclaimRemove(n) ==
    /\ rec[n].stale
    /\ snap' = [snap EXCEPT ![n] = 0]
    /\ rec' = [rec EXCEPT ![n] = NotReclaiming]
    /\ UNCHANGED <<pod, vm, tag, op, tables, history>>

Reclaim(n) == ReclaimList(n) \/ ReclaimVerify(n) \/ ReclaimRemove(n)

--------------------------------------------------------------------------------
(* The process dies and starts again.                                      *)

Crash ==
    /\ Exists
    /\ op.pc # "down"
    /\ May("crash")
    /\ op' = [Idle EXCEPT !.pc = "down"]
    /\ tracked' = FALSE
    /\ bound' = 0
    /\ index' = [index EXCEPT ![Here] = 0]
    /\ rec' = [rec EXCEPT ![Here] = NotReclaiming]
    /\ UNCHANGED <<pod, stores, history>>

\* Mutant: no adoption by name.
MatchedByID == IF pod.vmid = vm[Here].id THEN vm[Here].id ELSE 0

\* The VM StartupReconcile matches to the pod: by the annotated ID, or by name
\* when no ID is annotated.  0 when there is none.
Matched ==
    IF pod.vmid = 0 \/ pod.vmid = vm[Here].id THEN vm[Here].id ELSE 0

\* adoptByVMName publishes the ID; reconcileStaleHibernate clears a stale one;
\* a match by ID lifts a hibernate failure whose request is gone.
StartupAnnotations(vmid) ==
    pod' = [pod EXCEPT !.vmid = vmid,
                       !.lc = IF /\ pod.vmid # 0 /\ Matched # 0
                                 /\ ~pod.want /\ pod.lc = "hibernate failed"
                              THEN "creating" ELSE @]

\* handleOrphan: an unmatched VM is removed, or published in p.vmsByName.
HandleOrphan ==
    IF vm[Here].id = 0 \/ Matched # 0
    THEN UNCHANGED <<vm, index>>
    ELSE \/ DestroyOrphans /\ vm' = [vm EXCEPT ![Here] = NoVM] /\ UNCHANGED index
         \/ DestroyOrphans /\ May("remove") /\ UNCHANGED <<vm, index>>
         \/ ~DestroyOrphans /\ index' = [index EXCEPT ![Here] = vm[Here].id] /\ UNCHANGED vm

\* StartupReconcile.  A pod without a VM is tracked if it asks for hibernation
\* and is left to CreatePod otherwise.
Startup ==
    /\ op.pc = "down"
    /\ op' = Idle
    /\ bound' = Matched
    /\ tracked' = (Matched # 0 \/ pod.want)
    /\ \E vmid \in (IF Matched # 0 \/ pod.want THEN {Matched} ELSE {pod.vmid})
                   \cup (IF May("patch") THEN {pod.vmid} ELSE {}) :
        StartupAnnotations(vmid)
    /\ HandleOrphan
    /\ UNCHANGED <<snap, tag, rec, history>>

--------------------------------------------------------------------------------

Next ==
    /\ \/ Environment
       \/ Hibernate
       \/ Lift
       \/ BringUp
       \/ Delete
       \/ \E n \in Nodes : Reclaim(n)
       \/ Crash
       \/ Startup
    /\ UNCHANGED setup

Spec == Init /\ [][Next]_vars

\* Every operation that was begun or is owed is carried on: by the framework's
\* queue, by retryDueOps or by the resumed work; a dead process is restarted.
\* Faults are transient: a step of a bring-up that is retried for ever succeeds.
Fairness ==
    /\ WF_vars((Hibernate \/ Lift \/ BringUp \/ Delete \/ Startup) /\ UNCHANGED setup)
    /\ SF_vars(CreateDecides /\ UNCHANGED setup)
    /\ SF_vars(ResolveWakeSource /\ UNCHANGED setup)
    /\ SF_vars(Clone /\ UNCHANGED setup)
    /\ SF_vars(Boot /\ UNCHANGED setup)

FairSpec == Spec /\ Fairness

--------------------------------------------------------------------------------
(* Properties.                                                             *)

\* At most one node runs a VM with the name: a pod recreated on another node
\* after DeletePod never has its guest running twice.
OneVM == Cardinality({n \in Nodes : vm[n].id # 0}) <= 1

\* A hibernated state can be restored: whatever the reclaimer, a seat release, a
\* failed or repeated hibernate or a restart did since, the source every wake
\* resolves to holds the very version whose VM hibernate removed
\* (resolveWakeSource, reclaimLocalSnapshots, deletePod).
OwedIsRecoverable ==
    owed # 0 => IF HasRegistry THEN tag = owed ELSE \E n \in Nodes : snap[n] = owed

\* The guest the user sees, in the terms of GuestState.
GuestLives == \E n \in Nodes : vm[n].id # 0
GuestMode == IF GuestLives THEN "live" ELSE IF owed # 0 THEN "asleep" ELSE "absent"
GuestVer ==
    IF GuestLives THEN vm[CHOOSE n \in Nodes : vm[n].id # 0].ver ELSE owed

Guest == INSTANCE GuestState WITH
    mode <- GuestMode,
    ver <- GuestVer,
    kept <- Exists /\ pod.term = "no"

\* Hibernation implements GuestState: a hibernated guest comes back as the
\* version it was saved at, never booted afresh from its image and never from
\* an older snapshot (CreatePod, wake), and nothing but the deletion of the pod
\* takes a live guest away without that version being owed (hibernate,
\* StartupReconcile).
GuestStateKept == Guest!Spec

\* The pod asks for a running VM and nothing stands in the way.
Wanted ==
    /\ Exists
    /\ pod.term = "no"
    /\ ~pod.want
    /\ ~pod.marked
    /\ op.pc # "down"
    /\ GuestLives \/ lastVM < setup.vms

\* While vk-cocoon does not restart, a pod that keeps asking for a running VM ends
\* up Ready with one, also when the request came while a hibernate was at work or
\* had failed (UpdatePod's wake and lift, retryDueOps).
WantedBecomesReady ==
    ~May("crash") => (<>[]Wanted => <>[](bound # 0 /\ pod.lc = "ready"))

\* The same for a pod that has its VM: after a restart the work left over is
\* resumed and the pod gets out of whatever state the dead process left it in
\* (dispatchOwedWork, owedOpFor).
AdoptedBecomesReady == <>[](Wanted /\ bound # 0) => <>[](pod.lc = "ready")
================================================================================
