-------------------------------- MODULE BringUp --------------------------------
(***************************************************************************)
(* A managed pod is brought up: CreatePod clones or boots its VM, binds it, *)
(* and leaves the rest of the boot (the fixup inside the guest, the SAC     *)
(* pass, the wait for a lease) to a background tail that no lock covers.    *)
(* vk-cocoon may restart at any step.  What it finds then is a VM record in *)
(* any state, perhaps with its `cocoon vm clone` still running, and the     *)
(* annotations that reached the apiserver; startup reconciliation, the      *)
(* watchers of busy creates, the resumed operations and CreatePod's adopt   *)
(* branch must finish the boot from these.                                  *)
(*                                                                         *)
(* One pod key and one VM name; incarnations and VMs are numbered.  Restores*)
(* from a hibernate snapshot are in Hibernation, generations and the order  *)
(* of lifecycle patches in Lifecycle, VMs that vanish under a running       *)
(* vk-cocoon in VMWatcher.                                                  *)
(***************************************************************************)
EXTENDS Integers, FiniteSets

CONSTANTS
    Setups,         \* the pods and the values of VK_ORPHAN_POLICY considered
    MaxUID,         \* bound: pods created
    MaxRestarts,    \* bound: restarts of vk-cocoon
    Faults          \* what may go wrong, a subset of FaultKinds

\* A run-mode boot owes no fixup, a clone does, a Windows clone a SAC pass as well.
Kinds == {"boot", "clone", "windows"}
Policies == {"destroy", "keep"}     \* alert keeps the VM as well

FaultKinds == {"patch",     \* an annotation patch is lost
               "clone",     \* a clone fails and leaves nothing
               "remove",    \* the VM of a deleted pod cannot be removed
               "orphan",    \* an orphan cannot be removed
               "guest",     \* the fixup or the SAC pass fails
               "lease",     \* no lease in time
               "verb",      \* reconcile-stale-create, an inspect or a list fails
               "registry",  \* the registry does not answer
               "slow",      \* a clone outlives the budget of its watcher
               "lost"}      \* the VM is lost while vk-cocoon is down

ASSUME BringUpAssumption ==
    /\ Setups \subseteq [kind: Kinds, policy: Policies]
    /\ MaxUID \in Nat /\ MaxRestarts \in Nat
    /\ Faults \subseteq FaultKinds

VARIABLES
    kind,       \* the kind of the pods
    policy,     \* VK_ORPHAN_POLICY
    api,        \* the pod at the apiserver
    lastUID,    \* UIDs handed out so far
    vm,         \* the VM record of the name
    lastVM,     \* VM IDs handed out so far
    pods,       \* UID of p.pods[key]
    life,       \* p.lifecycleIntent[key]
    mark,       \* the post-clone-state annotation of p.pods[key]
    bound,      \* VM ID of p.vmsByPod[key]
    byName,     \* VM ID of p.vmsByName[name]
    resumed,    \* the key is in p.resumedOps
    busy,       \* the name is in p.busyCreates
    watched,    \* VM ID of its watcher
    worker,     \* the framework's worker of the key
    tails,      \* background boots
    abandoned,  \* VM ID vk-cocoon gave up on with a log line, until it restarts
    boot,       \* how far startup reconciliation is, and what it listed
    restarts    \* restarts so far

cluster == <<api, lastUID>>
host == <<vm, lastVM>>
tables == <<pods, life, mark, bound, byName>>
watcher == <<busy, watched, abandoned>>
startup == <<boot, restarts>>
setup == <<kind, policy>>
vars == <<setup, cluster, host, tables, resumed, watcher, worker, tails, startup>>

UID == 1..MaxUID
MaxVM == MaxUID + MaxRestarts       \* a VM is made for a new pod or after a restart
NoPod == [uid |-> 0, term |-> FALSE, vmid |-> 0, life |-> "", mark |-> ""]
NoVM == [id |-> 0, state |-> "none", owned |-> FALSE, fixed |-> FALSE, sac |-> FALSE]
Idle == [pc |-> "idle", uid |-> 0, id |-> 0, fresh |-> FALSE]
Up == [pc |-> "up", pod |-> NoPod, vm |-> NoVM]

LifeStates == {"", "creating", "ready", "failed"}
MarkStates == {"", "running", "done", "failed"}
Pods == [uid: 0..MaxUID, term: BOOLEAN, vmid: 0..MaxVM, life: LifeStates, mark: MarkStates]
VMs == [id: 0..MaxVM, state: {"none", "creating", "created", "running"},
        owned: BOOLEAN, fixed: BOOLEAN, sac: BOOLEAN]
WorkerPCs == {"idle", "await", "adopt", "clone", "cloning", "bind", "dispatch", "fail", "rm", "forget", "gone"}
TailPCs == {"classify", "mark", "exec", "done", "sac", "ip", "lease", "failmark", "faillife"}
WorkerRec == [pc: WorkerPCs, uid: 0..MaxUID, id: 0..MaxVM, fresh: BOOLEAN]
TailRec == [pc: TailPCs, uid: UID, id: 1..MaxVM, claim: BOOLEAN]
BootRec == [pc: {"up", "list", "stale", "adopt"}, pod: Pods, vm: VMs]

\* The variables keep their types, and only a tracked pod has a VM bound (vmsByPod
\* goes with pods in untrackLocked).
TypeOK ==
    /\ kind \in Kinds
    /\ policy \in Policies
    /\ api \in Pods
    /\ lastUID \in 0..MaxUID
    /\ vm \in VMs
    /\ lastVM \in 0..MaxVM
    /\ pods \in 0..MaxUID
    /\ life \in LifeStates
    /\ mark \in MarkStates
    /\ bound \in 0..MaxVM
    /\ byName \in 0..MaxVM
    /\ resumed \in BOOLEAN
    /\ busy \in BOOLEAN
    /\ watched \in 0..MaxVM
    /\ abandoned \in 0..MaxVM
    /\ bound # 0 => pods # 0
    /\ worker \in WorkerRec
    /\ tails \subseteq TailRec
    /\ boot \in BootRec
    /\ restarts \in 0..MaxRestarts

Init ==
    /\ \E s \in Setups : kind = s.kind /\ policy = s.policy
    /\ api = NoPod
    /\ lastUID = 0
    /\ vm = NoVM
    /\ lastVM = 0
    /\ pods = 0
    /\ life = ""
    /\ mark = ""
    /\ bound = 0
    /\ byName = 0
    /\ resumed = FALSE
    /\ busy = FALSE
    /\ watched = 0
    /\ abandoned = 0
    /\ worker = Idle
    /\ tails = {}
    /\ boot = Up
    /\ restarts = 0

May(fault) == fault \in Faults
Superseded(u) == pods # 0 /\ pods # u
There(id) == vm.id = id /\ vm.state # "none"

--------------------------------------------------------------------------------
(* Users, and the subprocess that makes the VM.                            *)

ApiCreate ==
    /\ api.uid = 0
    /\ lastUID < MaxUID
    /\ lastUID' = lastUID + 1
    /\ api' = [NoPod EXCEPT !.uid = lastUID + 1]
    /\ UNCHANGED <<setup, host, tables, resumed, watcher, worker, tails, startup>>

ApiTerminate ==
    /\ api.uid # 0
    /\ ~api.term
    /\ api' = [api EXCEPT !.term = TRUE]
    /\ UNCHANGED <<setup, lastUID, host, tables, resumed, watcher, worker, tails, startup>>

\* A force delete.
ApiRemove ==
    /\ api.uid # 0
    /\ api' = NoPod
    /\ UNCHANGED <<setup, lastUID, host, tables, resumed, watcher, worker, tails, startup>>

\* `vm clone` commits its record in one go, `vm run` passes through created.
CloneAdvances ==
    /\ vm.owned
    /\ vm' = IF kind = "boot" /\ vm.state = "creating"
             THEN [vm EXCEPT !.state = "created"]
             ELSE [vm EXCEPT !.state = "running", !.owned = FALSE]
    /\ UNCHANGED <<setup, cluster, lastVM, tables, resumed, watcher, worker, tails, startup>>

Environment == ApiCreate \/ ApiTerminate \/ ApiRemove \/ CloneAdvances

--------------------------------------------------------------------------------
(* Annotations: kept with the tracked pod, and patched with a UID fence.    *)

Patch(u, field, value) ==
    \/ api' = IF api.uid = u THEN [api EXCEPT ![field] = value] ELSE api
    \/ May("patch") /\ UNCHANGED api

\* markLifecycleState
SetLife(u, state) ==
    IF Superseded(u)
    THEN UNCHANGED <<api, life>>
    ELSE life' = state /\ Patch(u, "life", state)

\* markPostCloneState: the failed marker sticks.
MarkPostCloneState(u, state) ==
    IF Superseded(u) \/ (mark = "failed" /\ state # "failed")
    THEN UNCHANGED <<api, mark>>
    ELSE mark' = state /\ Patch(u, "mark", state)

\* The status reconciler repeats a lifecycle patch that was lost, never a marker.
RepublishLife ==
    /\ pods # 0
    /\ api.uid = pods
    /\ api.life # life
    /\ api' = [api EXCEPT !.life = life]
    /\ UNCHANGED <<setup, lastUID, host, tables, resumed, watcher, worker, tails, startup>>

\* Mutant: any marker, and the absence of one, resumes the wait alone.
OwedWaitOnly(pod) ==
    IF pod.term \/ pod.life \notin {"", "creating"} \/ pod.mark = "failed" THEN "none" ELSE "ip"

\* owedOpFor: where the tail of an interrupted boot goes on.
OwedOpFor(pod) ==
    IF pod.term \/ pod.life \notin {"", "creating"} \/ pod.mark = "failed" THEN "none"
    ELSE CASE pod.mark = "running" -> "mark"
           [] pod.mark = "done" -> IF kind = "windows" THEN "sac" ELSE "ip"
           [] pod.mark = "" -> CASE kind = "windows" -> "classify"
                                 [] kind = "clone" -> "mark"
                                 [] kind = "boot" -> "ip"

\* dispatchResume: one resumed operation per key.
Resume(u, id, op) ==
    IF resumed
    THEN UNCHANGED <<resumed, tails>>
    ELSE /\ resumed' = TRUE
         /\ tails' = tails \cup {[pc |-> op, uid |-> u, id |-> id, claim |-> TRUE]}

--------------------------------------------------------------------------------
(* CreatePod and DeletePod, run by the framework's worker of the key.       *)

Goto(pc) == worker' = [worker EXCEPT !.pc = pc]

\* A pod the provider does not track is created.  One that took the place of a
\* tracked one reaches updatePod, which backs off while an operation is resumed and
\* detaches the old incarnation; its VM stays indexed.
CreatePod ==
    /\ boot.pc = "up"
    /\ worker.pc = "idle"
    /\ api.uid \notin {0, pods}
    /\ ~api.term
    /\ pods # 0 => ~resumed
    /\ worker' = [Idle EXCEPT !.pc = "await", !.uid = api.uid]
    /\ pods' = api.uid
    /\ bound' = 0
    /\ byName' = IF bound # 0 THEN bound ELSE byName
    /\ mark' = api.mark
    /\ life' = "creating"
    /\ Patch(api.uid, "life", "creating")
    /\ UNCHANGED <<setup, lastUID, host, resumed, watcher, tails, startup>>

\* awaitBusyCreate
AwaitBusyCreate ==
    /\ worker.pc = "await"
    /\ ~busy
    /\ Goto("adopt")
    /\ UNCHANGED <<setup, cluster, host, tables, resumed, watcher, tails, startup>>

\* adoptableVM: a VM indexed under the name is bound, one that is gone dropped.
AdoptableVM ==
    /\ worker.pc = "adopt"
    /\ \/ /\ byName # 0
          /\ There(byName)
          /\ worker' = [worker EXCEPT !.pc = "bind", !.id = byName]
          /\ UNCHANGED byName
       \/ /\ ~There(byName)
          /\ byName' = 0
          /\ Goto("clone")
       \/ /\ byName # 0
          /\ May("verb")
          /\ Goto("fail")
          /\ UNCHANGED byName
    /\ UNCHANGED <<setup, cluster, host, pods, life, mark, bound, resumed, watcher, tails, startup>>

\* bringUpVM: the placeholder record needs the name free.
BringUpVM ==
    /\ worker.pc = "clone"
    /\ vm.state = "none"
    /\ lastVM' = lastVM + 1
    /\ vm' = [NoVM EXCEPT !.id = lastVM + 1, !.state = "creating", !.owned = TRUE]
    /\ worker' = [worker EXCEPT !.pc = "cloning", !.id = lastVM + 1, !.fresh = TRUE]
    /\ UNCHANGED <<setup, cluster, tables, resumed, watcher, tails, startup>>

BringUpFails ==
    /\ worker.pc = "clone"
    /\ vm.state # "none" \/ May("clone")
    /\ Goto("fail")
    /\ UNCHANGED <<setup, cluster, host, tables, resumed, watcher, tails, startup>>

BroughtUp ==
    /\ worker.pc = "cloning"
    /\ ~vm.owned
    /\ Goto("bind")
    /\ UNCHANGED <<setup, cluster, host, tables, resumed, watcher, tails, startup>>

\* applyRuntime: the VM is tracked and its ID published, unless another pod took the
\* name; then the VM is left to that one's create.
ApplyRuntime ==
    /\ worker.pc = "bind"
    /\ \/ /\ api.uid \in {0, worker.uid} \/ May("patch")
          /\ bound' = worker.id
          /\ byName' = worker.id
          /\ Patch(worker.uid, "vmid", worker.id)
          /\ Goto("dispatch")
          /\ UNCHANGED <<pods, life, mark>>
       \/ /\ api.uid \notin {0, worker.uid}
          /\ byName' = worker.id
          /\ pods' = 0
          /\ bound' = 0
          /\ life' = ""
          /\ mark' = ""
          /\ worker' = Idle
          /\ UNCHANGED api
    /\ UNCHANGED <<setup, lastUID, host, resumed, watcher, tails, startup>>

FailCreate ==
    /\ worker.pc = "fail"
    /\ SetLife(worker.uid, "failed")
    /\ pods' = 0
    /\ worker' = Idle
    /\ UNCHANGED <<setup, lastUID, host, mark, bound, byName, resumed, watcher, tails, startup>>

\* The rest of the boot goes to the background: that of an adopted VM as an owed
\* operation, that of a new one from its start.
Dispatch ==
    /\ worker.pc = "dispatch"
    /\ worker' = Idle
    /\ LET op == OwedOpFor([NoPod EXCEPT !.life = "creating", !.mark = mark])
           tail == [pc |-> IF kind = "boot" THEN "ip" ELSE "mark",
                    uid |-> worker.uid, id |-> worker.id, claim |-> FALSE]
       IN \/ /\ ~worker.fresh
             /\ IF op = "none"
                THEN SetLife(worker.uid, "ready") /\ UNCHANGED <<resumed, tails>>
                ELSE Resume(worker.uid, worker.id, op) /\ UNCHANGED <<api, life>>
             /\ UNCHANGED mark
          \/ /\ worker.fresh
             /\ tails' = tails \cup {tail}
             /\ IF kind = "boot"
                THEN mark' = "done" /\ Patch(worker.uid, "mark", "done")
                ELSE UNCHANGED <<api, mark>>
             /\ UNCHANGED <<life, resumed>>
    /\ UNCHANGED <<setup, lastUID, host, pods, bound, byName, watcher, startup>>

\* A terminating pod, or a tracked one the apiserver lost, is deleted.
DeletePod ==
    /\ boot.pc = "up"
    /\ worker.pc = "idle"
    /\ \E u \in UID :
         /\ (u = api.uid /\ api.term) \/ (u = pods /\ api.uid = 0)
         /\ resumed => Superseded(u)
         /\ worker' = [Idle EXCEPT !.uid = u, !.pc = IF Superseded(u) THEN "gone"
                                                    ELSE IF bound # 0 THEN "rm" ELSE "forget"]
    /\ UNCHANGED <<setup, cluster, host, tables, resumed, watcher, tails, startup>>

DeleteRemovesVM ==
    /\ worker.pc = "rm"
    /\ vm' = IF vm.id = bound THEN NoVM ELSE vm
    /\ Goto("forget")
    /\ UNCHANGED <<setup, cluster, lastVM, tables, resumed, watcher, tails, startup>>

DeleteRemoveFails ==
    /\ worker.pc = "rm"
    /\ May("remove")
    /\ worker' = Idle
    /\ UNCHANGED <<setup, cluster, host, tables, resumed, watcher, tails, startup>>

\* Mutant: the VM of a forgotten pod stays bound.
ForgetPodOnly ==
    /\ worker.pc = "forget"
    /\ pods' = 0
    /\ Goto("gone")
    /\ UNCHANGED <<setup, cluster, host, life, mark, bound, byName, resumed, watcher, tails, startup>>

ForgetPod ==
    /\ worker.pc = "forget"
    /\ pods' = 0
    /\ bound' = 0
    /\ byName' = IF byName = bound THEN 0 ELSE byName
    /\ life' = ""
    /\ mark' = ""
    /\ Goto("gone")
    /\ UNCHANGED <<setup, cluster, host, resumed, watcher, tails, startup>>

DeleteEnds ==
    /\ worker.pc = "gone"
    /\ api' = IF api.uid = worker.uid THEN NoPod ELSE api
    /\ worker' = Idle
    /\ UNCHANGED <<setup, lastUID, host, tables, resumed, watcher, tails, startup>>

Worker ==
    \/ CreatePod \/ AwaitBusyCreate \/ AdoptableVM \/ BringUpVM \/ BringUpFails
    \/ BroughtUp \/ ApplyRuntime \/ FailCreate \/ Dispatch
    \/ DeletePod \/ DeleteRemovesVM \/ DeleteRemoveFails \/ ForgetPod \/ DeleteEnds

--------------------------------------------------------------------------------
(* The tail of a boot: runPostCloneSetup, runReadyWait, markReadyAfterIP.   *)

TailGoto(t, pc) == tails' = (tails \ {t}) \cup {[t EXCEPT !.pc = pc]}

\* Mutant: the claim is not released.
KeepClaim(t) == tails' = tails \ {t} /\ UNCHANGED resumed

\* The tail is over, and with it its claim.
TailEnds(t) ==
    /\ tails' = tails \ {t}
    /\ resumed' = (resumed /\ ~t.claim)

\* classifyNICRecovery: without hibernate evidence the VM is a fresh clone.
TailClassify(t) ==
    /\ t.pc = "classify"
    /\ TailGoto(t, "mark") \/ (May("registry") /\ TailGoto(t, "faillife"))
    /\ UNCHANGED <<setup, cluster, host, tables, resumed, watcher, worker, startup>>

TailMarks(t) ==
    /\ t.pc = "mark"
    /\ MarkPostCloneState(t.uid, "running")
    /\ TailGoto(t, "exec")
    /\ UNCHANGED <<setup, lastUID, host, pods, life, bound, byName, resumed, watcher, worker, startup>>

\* The fixup succeeds within its budget, or never.
TailExecs(t) ==
    /\ t.pc = "exec"
    /\ \/ /\ There(t.id)
          /\ vm' = [vm EXCEPT !.fixed = TRUE]
          /\ TailGoto(t, "done")
       \/ /\ ~There(t.id) \/ May("guest")
          /\ TailGoto(t, "failmark")
          /\ UNCHANGED vm
    /\ UNCHANGED <<setup, cluster, lastVM, tables, resumed, watcher, worker, startup>>

\* The done marker precedes the SAC pass.
TailDone(t) ==
    /\ t.pc = "done"
    /\ MarkPostCloneState(t.uid, "done")
    /\ TailGoto(t, IF kind = "windows" THEN "sac" ELSE "ip")
    /\ UNCHANGED <<setup, lastUID, host, pods, life, bound, byName, resumed, watcher, worker, startup>>

TailSAC(t) ==
    /\ t.pc = "sac"
    /\ \/ /\ There(t.id)
          /\ vm' = [vm EXCEPT !.sac = TRUE]
          /\ TailGoto(t, "ip")
       \/ /\ ~There(t.id) \/ May("guest")
          /\ TailGoto(t, "failmark")
          /\ UNCHANGED vm
    /\ UNCHANGED <<setup, cluster, lastVM, tables, resumed, watcher, worker, startup>>

\* A pod that failed meanwhile stays failed.
TailIP(t) ==
    /\ t.pc = "ip"
    /\ IF pods = t.uid /\ life = "failed"
       THEN TailEnds(t)
       ELSE TailGoto(t, "lease") /\ UNCHANGED resumed
    /\ UNCHANGED <<setup, cluster, host, tables, watcher, worker, startup>>

\* The lease arrives or does not; setLifecycleStateForWake applies the outcome only
\* to the VM the pod still has.
TailLease(t) ==
    /\ t.pc = "lease"
    /\ IF pods # 0 /\ bound = t.id
       THEN \/ vm.state = "running" /\ SetLife(t.uid, "ready")
            \/ (vm.state # "running" \/ May("lease")) /\ SetLife(t.uid, "failed")
       ELSE UNCHANGED <<api, life>>
    /\ TailEnds(t)
    /\ UNCHANGED <<setup, lastUID, host, pods, mark, bound, byName, watcher, worker, startup>>

TailFailMark(t) ==
    /\ t.pc = "failmark"
    /\ MarkPostCloneState(t.uid, "failed")
    /\ TailGoto(t, "faillife")
    /\ UNCHANGED <<setup, lastUID, host, pods, life, bound, byName, resumed, watcher, worker, startup>>

TailFails(t) ==
    /\ t.pc = "faillife"
    /\ SetLife(t.uid, "failed")
    /\ TailEnds(t)
    /\ UNCHANGED <<setup, lastUID, host, pods, mark, bound, byName, watcher, worker, startup>>

Tail(t) ==
    \/ TailClassify(t) \/ TailMarks(t) \/ TailExecs(t) \/ TailDone(t) \/ TailSAC(t)
    \/ TailIP(t) \/ TailLease(t) \/ TailFailMark(t) \/ TailFails(t)

--------------------------------------------------------------------------------
(* vk-cocoon restarts, and StartupReconcile runs before the framework does. *)

\* All memory is lost.  The subprocess of a clone goes on or dies, and a VM may be
\* lost while vk-cocoon is down.
Restart ==
    /\ boot.pc = "up"
    /\ restarts < MaxRestarts
    /\ restarts' = restarts + 1
    /\ vm' \in {vm, [vm EXCEPT !.owned = FALSE]} \cup IF May("lost") THEN {NoVM} ELSE {}
    /\ pods' = 0
    /\ life' = ""
    /\ mark' = ""
    /\ bound' = 0
    /\ byName' = 0
    /\ resumed' = FALSE
    /\ busy' = FALSE
    /\ watched' = 0
    /\ abandoned' = 0
    /\ worker' = Idle
    /\ tails' = {}
    /\ boot' = [Up EXCEPT !.pc = "list"]
    /\ UNCHANGED <<setup, cluster, lastVM>>

StartupList ==
    /\ boot.pc = "list"
    /\ boot' = [pc |-> IF vm.state = "creating" THEN "stale" ELSE "adopt", pod |-> api, vm |-> vm]
    /\ UNCHANGED <<setup, cluster, host, tables, resumed, watcher, worker, tails, restarts>>

\* The record of a create nobody owns any more is collected (external).
Collectable(id) == vm.id = id /\ vm.state = "creating" /\ ~vm.owned

\* handleOrphan: the VM is removed, or indexed so that a create of its name adopts it.
HandleOrphan(id) ==
    \/ /\ policy = "destroy"
       /\ vm' = IF vm.id = id THEN NoVM ELSE vm
       /\ UNCHANGED <<byName, abandoned>>
    \/ /\ policy = "destroy"
       /\ May("orphan")
       /\ abandoned' = id
       /\ UNCHANGED <<vm, byName>>
    \/ /\ policy = "keep"
       /\ byName' = id
       /\ UNCHANGED <<vm, abandoned>>

\* reconcileStaleCreates: the placeholder is collected, found committed, or watched.
ReconcileStaleCreate ==
    /\ boot.pc = "stale"
    /\ \/ /\ ~There(boot.vm.id) \/ Collectable(boot.vm.id)
          /\ vm' = NoVM
          /\ boot' = [boot EXCEPT !.pc = "adopt", !.vm = NoVM]
          /\ UNCHANGED watcher
       \/ /\ There(boot.vm.id)
          /\ vm.state = "running"
          /\ boot' = [boot EXCEPT !.pc = "adopt", !.vm = vm]
          /\ UNCHANGED <<vm, watcher>>
       \/ /\ (There(boot.vm.id) /\ vm.owned) \/ May("verb")
          /\ busy' = TRUE
          /\ watched' = boot.vm.id
          /\ boot' = [boot EXCEPT !.pc = "adopt", !.vm = NoVM]
          /\ UNCHANGED <<vm, abandoned>>
    /\ UNCHANGED <<setup, cluster, lastVM, tables, resumed, worker, tails, restarts>>

\* The pod is matched with the VM by the annotated ID, or by the name when there is
\* none, and the work owed to it is resumed.  A VM without a pod is an orphan, and so
\* is one whose pod turns out to have been replaced while vk-cocoon bound it.
AdoptAtStartup ==
    /\ boot.pc = "adopt"
    /\ boot' = Up
    /\ LET pod == boot.pod
           id == boot.vm.id
           matches == pod.uid # 0 /\ id # 0 /\ pod.vmid \in {0, id}
           taken == pod.vmid = 0 /\ api.uid \notin {0, pod.uid}
           op == OwedOpFor(pod)
       IN \/ /\ matches
             /\ taken => May("patch")
             /\ pods' = pod.uid
             /\ bound' = id
             /\ byName' = id
             /\ life' = pod.life
             /\ mark' = pod.mark
             /\ IF pod.vmid = 0 THEN Patch(pod.uid, "vmid", id) ELSE UNCHANGED api
             /\ IF op = "none" THEN UNCHANGED <<resumed, tails>> ELSE Resume(pod.uid, id, op)
             /\ UNCHANGED <<vm, abandoned>>
          \/ /\ matches => taken
             /\ IF id = 0 THEN UNCHANGED <<vm, byName, abandoned>> ELSE HandleOrphan(id)
             /\ UNCHANGED <<api, pods, bound, life, mark, resumed, tails>>
    /\ UNCHANGED <<setup, lastUID, lastVM, busy, watched, worker, restarts>>

--------------------------------------------------------------------------------
(* watchBusyCreate: until the record settles, the name is held.             *)

WatcherEnds == busy' = FALSE /\ watched' = 0

WatcherCollects ==
    /\ busy
    /\ ~There(watched) \/ Collectable(watched)
    /\ vm' = IF There(watched) THEN NoVM ELSE vm
    /\ WatcherEnds
    /\ UNCHANGED <<setup, cluster, lastVM, tables, resumed, abandoned, worker, tails, startup>>

\* Mutant: a VM that committed is left alone.
SettleUnindexed ==
    /\ busy
    /\ There(watched)
    /\ vm.state = "running"
    /\ WatcherEnds
    /\ UNCHANGED <<setup, cluster, host, tables, resumed, abandoned, worker, tails, startup>>

\* Mutant: a VM that committed is an orphan whatever pods there are.
SettleAsOrphan ==
    /\ busy
    /\ There(watched)
    /\ vm.state = "running"
    /\ HandleOrphan(watched)
    /\ WatcherEnds
    /\ UNCHANGED <<setup, cluster, lastVM, pods, life, mark, bound, resumed, worker, tails, startup>>

\* settleCommittedCreate: a VM whose name a live pod wants, as far as the apiserver
\* says, is indexed for its create.
SettleCommittedCreate ==
    /\ busy
    /\ There(watched)
    /\ vm.state = "running"
    /\ \/ /\ (api.uid # 0 /\ ~api.term) \/ May("verb")
          /\ byName' = watched
          /\ UNCHANGED <<vm, abandoned>>
       \/ /\ api.uid = 0 \/ api.term
          /\ HandleOrphan(watched)
    /\ WatcherEnds
    /\ UNCHANGED <<setup, cluster, lastVM, pods, life, mark, bound, resumed, worker, tails, startup>>

WatcherGivesUp ==
    /\ busy
    /\ There(watched)
    /\ vm.state # "running"
    /\ May("slow")
    /\ abandoned' = watched
    /\ WatcherEnds
    /\ UNCHANGED <<setup, cluster, host, tables, resumed, worker, tails, startup>>

Watch == WatcherCollects \/ SettleCommittedCreate \/ WatcherGivesUp

Startup == StartupList \/ ReconcileStaleCreate \/ AdoptAtStartup

--------------------------------------------------------------------------------

Next ==
    \/ Environment
    \/ Worker
    \/ \E t \in tails : Tail(t)
    \/ RepublishLife
    \/ Restart
    \/ Startup
    \/ Watch

Spec == Init /\ [][Next]_vars

\* Everything goes on; a clone, a removal or an inspect tried again and again succeeds
\* at last.
Fairness ==
    /\ WF_vars(Worker)
    /\ WF_vars(\E t \in tails : Tail(t))
    /\ WF_vars(RepublishLife)
    /\ WF_vars(Startup)
    /\ WF_vars(WatcherCollects \/ SettleCommittedCreate)
    /\ WF_vars(CloneAdvances)
    /\ SF_vars(AdoptableVM /\ worker'.pc # "fail")
    /\ SF_vars(BringUpVM)
    /\ SF_vars(DeleteRemovesVM)

FairSpec == Spec /\ Fairness

--------------------------------------------------------------------------------
(* Properties.                                                             *)

\* A pod is never Ready on a clone whose fixup (and, on Windows, SAC pass) did not
\* finish inside the guest, wherever restarts cut the boot: the marker an interrupted
\* boot left decides what is resumed (owedOpFor), by startup reconciliation and by the
\* adopt branch of CreatePod alike.
FixupBeforeReady ==
    pods # 0 /\ life = "ready" /\ bound = vm.id /\ kind # "boot" =>
        /\ vm.fixed
        /\ kind = "windows" => vm.sac

\* Once startup reconciliation is over no VM of the name is unknown: it is bound to
\* the pod, indexed for the next create (vmsByName), watched while its clone is in
\* flight (busyCreates), in the hands of the running create, or vk-cocoon logged that
\* it gave up on it.  Otherwise every create of the name would fail on the record.
VMIsKnown ==
    boot.pc = "up" /\ vm.state # "none" =>
        \/ vm.id \in {bound, byName}
        \/ busy /\ watched = vm.id
        \/ worker.pc \in {"cloning", "bind"} /\ worker.id = vm.id
        \/ abandoned = vm.id

\* A VM that runs is removed only by the delete of its pod, or when no live pod wants
\* its name: a clone that commits under a watcher is not an orphan while a pod waits
\* for it (settleCommittedCreate).  A pod created after startup reconciliation listed
\* the pods comes too late to be seen.
WantedVMIsKept ==
    [][vm.state = "running" /\ vm' = NoVM /\ UNCHANGED restarts =>
         \/ worker.pc = "rm"
         \/ api.uid = 0
         \/ api.term
         \/ boot.pc = "adopt" /\ boot.pod.uid # api.uid]_vars

\* Every boot is finished: in the end the pod is gone, or the apiserver shows it ready,
\* failed, or parked on a failed fixup.  No restart leaves a pod in creating for good,
\* no watcher holds a create for ever, and no resumed operation keeps its claim.  Only
\* a record vk-cocoon gave up on stands in the way, until the next restart.
PodSettles ==
    <>[](\/ api.uid = 0
         \/ api.life \in {"ready", "failed"}
         \/ api.mark = "failed"
         \/ abandoned # 0 /\ abandoned = vm.id)

================================================================================
