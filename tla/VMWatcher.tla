------------------------------- MODULE VMWatcher -------------------------------
(***************************************************************************)
(* What vk-cocoon does when a VM stops or disappears (vmWatchLoop and what *)
(* it calls in provider/cocoon/provider.go): inspect the VM, start it      *)
(* again, or remove it and evict its pod.  The watch loop handles one event*)
(* at a time; a VM it cannot judge is left to a deferred recheck, one      *)
(* goroutine per VM.  Beside them the framework's worker creates, deletes, *)
(* hibernates and wakes the pod.  They meet in the tables under p.mu and in*)
(* the deleting claim of the key; calls to the runtime and to the apiserver*)
(* are made without the lock.                                              *)
(*                                                                         *)
(* One pod key and one VM name, and a managed pod.  Incarnations of the pod*)
(* and VMs are numbered in the order of their creation; 0 is none.         *)
(***************************************************************************)
EXTENDS Naturals, FiniteSets

CONSTANTS
    MaxUID,     \* bound: incarnations of the pod
    MaxVM,      \* bound: VMs created
    MaxNew,     \* bound: incarnations and VMs together
    FaultSets   \* what may go wrong or come in between: sets of FaultKinds

FaultKinds == {"inspect", "start", "remove", "boot", "delete",  \* calls that fail
               "hibernate",         \* the user hibernates and wakes the pod
               "early",             \* a VM disappears before it is bound
               "stream", "loss"}    \* the event stream breaks, and loses a DELETED

ASSUME BoundsAssumption ==
    MaxUID \in Nat \ {0} /\ MaxVM \in Nat \ {0} /\ MaxNew \in Nat
ASSUME FaultsAssumption == FaultSets \subseteq SUBSET FaultKinds

VARIABLES
    faults,     \* what may go wrong, which never changes
    api,        \* the pod at the apiserver
    lastUID,    \* UIDs handed out so far
    vm,         \* vm[i]: the state of VM i in the runtime
    lastVM,     \* VM IDs handed out so far
    events,     \* VMs with an undelivered event in the stream
    tracked,    \* UID of p.pods[key]
    bound,      \* ID of p.vmsByPod[key]
    index,      \* ID of p.vmsByName[name]
    deleting,   \* p.deleting[key]
    hib,        \* p.hibernating[key]: absent, false, or true
    cooling,    \* VMs with an entry in p.lastRestart
    h,          \* the watch loop, and the deferred recheck of each VM
    op          \* the framework's worker

apivars == <<api, lastUID>>
runtime == <<vm, lastVM, events>>
tables == <<tracked, bound, index, cooling>>
vars == <<faults, apivars, runtime, tables, deleting, hib, h, op>>

UID == 0..MaxUID
ID == 0..MaxVM
VMs == 1..MaxVM
Watcher == 0            \* h[Watcher] is the watch loop, h[i] the recheck of VM i
Handlers == ID

NoPod == [uid |-> 0, term |-> FALSE]

\* A handler: the incarnation and the VM it matched; gone: it is on the path of
\* a VM not found rather than on the remove path.
HandlerPCs == {"off", "sleep", "look", "replay", "gate", "inspect", "cool", "start", "claim",
               "remove", "evict", "untrack", "finish", "settle", "exit"}
Off == [pc |-> "off", uid |-> 0, vm |-> 0, gone |-> FALSE]

\* The worker: the pod it was called with and the VM it works on.
OpPCs == {"idle", "adopt", "boot", "bind", "publish", "hibernate", "remove", "forget",
          "hibernated", "delete", "deletevm", "deleted"}
Idle == [pc |-> "idle", uid |-> 0, vm |-> 0, create |-> FALSE]

\* The types of the variables; a handler that goes beyond the match holds a pod
\* and a VM (handleVMGone returns when podForVMMatch finds none).
TypeOK ==
    /\ faults \in FaultSets
    /\ api \in [uid: UID, term: BOOLEAN]
    /\ lastUID \in UID
    /\ vm \in [VMs -> {"none", "running", "stopped", "gone"}]
    /\ lastVM \in ID
    /\ events \subseteq VMs
    /\ tracked \in UID
    /\ bound \in ID
    /\ index \in ID
    /\ deleting \in BOOLEAN
    /\ hib \in {"no", "yes", "vm gone"}
    /\ cooling \subseteq VMs
    /\ h \in [Handlers -> [pc: HandlerPCs, uid: UID, vm: ID, gone: BOOLEAN]]
    /\ \A a \in Handlers :
         h[a].pc \notin {"off", "sleep", "exit"} => h[a].uid # 0 /\ h[a].vm # 0
    /\ op \in [pc: OpPCs, uid: UID, vm: ID, create: BOOLEAN]

Init ==
    /\ faults \in FaultSets
    /\ api = NoPod
    /\ lastUID = 0
    /\ vm = [i \in VMs |-> "none"]
    /\ lastVM = 0
    /\ events = {}
    /\ tracked = 0
    /\ bound = 0
    /\ index = 0
    /\ deleting = FALSE
    /\ hib = "no"
    /\ cooling = {}
    /\ h = [a \in Handlers |-> Off]
    /\ op = Idle

May(fault) == fault \in faults
Present(i) == i # 0 /\ vm[i] \in {"running", "stopped"}

--------------------------------------------------------------------------------
(* Users, the runtime and its event stream.                                *)

ApiCreate ==
    /\ api.uid = 0
    /\ lastUID < MaxUID
    /\ lastUID + lastVM < MaxNew
    /\ lastUID' = lastUID + 1
    /\ api' = [uid |-> lastUID + 1, term |-> FALSE]
    /\ UNCHANGED <<runtime, tables, deleting, hib, h, op>>

ApiTerminate ==
    /\ api.uid # 0
    /\ ~api.term
    /\ api' = [api EXCEPT !.term = TRUE]
    /\ UNCHANGED <<lastUID, runtime, tables, deleting, hib, h, op>>

\* A force delete.
ApiRemove ==
    /\ api.uid # 0
    /\ api' = NoPod
    /\ UNCHANGED <<lastUID, runtime, tables, deleting, hib, h, op>>

VMStops(i) ==
    /\ vm[i] = "running"
    /\ vm' = [vm EXCEPT ![i] = "stopped"]
    /\ events' = events \cup {i}
    /\ UNCHANGED <<apivars, lastVM, tables, deleting, hib, h, op>>

\* Somebody removes the VM behind vk-cocoon's back.
VMDisappears(i) ==
    /\ Present(i)
    /\ i = bound \/ May("early")
    /\ vm' = [vm EXCEPT ![i] = "gone"]
    /\ events' = events \cup {i}
    /\ UNCHANGED <<apivars, lastVM, tables, deleting, hib, h, op>>

\* WatchEvents: a new stream opens with an ADDED event for every VM there is,
\* and only those that do not run are acted on.  A DELETED event the old stream
\* had not delivered is lost for good.
StreamRestarts ==
    /\ May("stream")
    /\ May("loss") \/ \A i \in events : Present(i)
    /\ events' = {i \in VMs : vm[i] = "stopped"}
    /\ UNCHANGED <<apivars, vm, lastVM, tables, deleting, hib, h, op>>

Environment ==
    \/ ApiCreate \/ ApiTerminate \/ ApiRemove
    \/ \E i \in VMs : VMStops(i) \/ VMDisappears(i)
    \/ StreamRestarts

--------------------------------------------------------------------------------
(* The tables.                                                             *)

\* dropVMLocked
DropVM ==
    /\ bound' = 0
    /\ index' = IF index = bound THEN 0 ELSE index
    /\ cooling' = cooling \ {bound}

\* Mutant: the pod goes and its VM stays in vmsByPod.
UntrackPodOnly == tracked' = 0 /\ UNCHANGED <<bound, index, cooling>>

\* untrackLocked
Untrack == tracked' = 0 /\ DropVM

\* supersededLocked
Superseded(uid) == tracked # 0 /\ tracked # uid

\* Mutant: the detached incarnation takes the name of its VM along.
DetachAndForget(uid, v) ==
    IF tracked = uid THEN Untrack ELSE UNCHANGED <<tracked, bound, index, cooling>>

\* detachIncarnation, outside a delete: v stays reachable by its name.
Detach(uid, v) ==
    IF tracked = uid
      THEN /\ tracked' = 0
           /\ bound' = 0
           /\ cooling' = cooling \ {bound}
           /\ index' = IF v # 0 THEN v ELSE IF index = bound THEN 0 ELSE index
      ELSE /\ index' = IF v # 0 /\ bound = 0 THEN v ELSE index
           /\ UNCHANGED <<tracked, bound, cooling>>

\* Runtime.Remove of VM i, whose DELETED event follows if it was there.
RemoveVM(i) ==
    /\ vm' = [vm EXCEPT ![i] = "gone"]
    /\ events' = IF Present(i) THEN events \cup {i} ELSE events
    /\ UNCHANGED lastVM

\* scheduleDeferredRecheck: one goroutine per VM.
Scheduled(hs, i) ==
    IF hs[i].pc = "off" THEN [hs EXCEPT ![i] = [Off EXCEPT !.pc = "sleep", !.vm = i]] ELSE hs

\* handleVMGone returns: the loop takes the next event; the recheck goes on when
\* the answer is true.
Returned(a, again) ==
    IF a = Watcher THEN Off
    ELSE [Off EXCEPT !.pc = IF again THEN "sleep" ELSE "exit", !.vm = a]
Return(a, again) == h' = [h EXCEPT ![a] = Returned(a, again)]
ReturnAndRecheck(a, i) == h' = Scheduled([h EXCEPT ![a] = Returned(a, TRUE)], i)
Step(a, pc) == h' = [h EXCEPT ![a].pc = pc]

--------------------------------------------------------------------------------
(* handleVMGone.                                                           *)

\* Mutant: no early return when nothing matches.
MatchedAnyway(a) == [Off EXCEPT !.pc = "gate", !.uid = tracked, !.vm = bound]

\* podForVMMatch by ID or name: every VM here has the pod's VM name.
Matched(a) ==
    IF tracked # 0 /\ bound # 0
      THEN [Off EXCEPT !.pc = "gate", !.uid = tracked, !.vm = bound]
      ELSE Returned(a, FALSE)

\* vmWatchLoop hands an event over.
TakeEvent(i) ==
    /\ h[Watcher].pc = "off"
    /\ i \in events
    /\ events' = events \ {i}
    /\ h' = [h EXCEPT ![Watcher] = Matched(Watcher)]
    /\ UNCHANGED <<apivars, vm, lastVM, tables, deleting, hib, op>>

\* The recheck found the VM stopped and replays the event.
Replay(a) ==
    /\ h[a].pc = "replay"
    /\ h' = [h EXCEPT ![a] = Matched(a)]
    /\ UNCHANGED <<apivars, runtime, tables, deleting, hib, op>>

\* Not while the pod hibernates, which is told, nor while it is being deleted.
Gate(a) ==
    /\ h[a].pc = "gate"
    /\ hib' = IF hib = "no" THEN hib ELSE "vm gone"
    /\ IF hib # "no" \/ deleting THEN Return(a, FALSE) ELSE Step(a, "inspect")
    /\ UNCHANGED <<apivars, runtime, tables, deleting, op>>

\* inspectWithRetry and the switch on its answer
Inspect(a) ==
    /\ h[a].pc = "inspect"
    /\ \/ vm[h[a].vm] = "gone" /\ h' = [h EXCEPT ![a].pc = "claim", ![a].gone = TRUE]
       \/ vm[h[a].vm] = "running" /\ Return(a, FALSE)
       \/ vm[h[a].vm] = "stopped" /\ Step(a, "cool")
    /\ UNCHANGED <<apivars, runtime, tables, deleting, hib, op>>

InspectFails(a) ==
    /\ h[a].pc = "inspect"
    /\ May("inspect")
    /\ ReturnAndRecheck(a, h[a].vm)
    /\ UNCHANGED <<apivars, runtime, tables, deleting, hib, op>>

\* One restart per cooldown: a VM found stopped again is removed, unless
\* restartCooldown has passed meanwhile, which it may or may not have.
Cooldown(a) ==
    /\ h[a].pc = "cool"
    /\ cooling' = cooling \cup {h[a].vm}
    /\ Step(a, "start") \/ (h[a].vm \in cooling /\ Step(a, "claim"))
    /\ UNCHANGED <<apivars, runtime, tracked, bound, index, deleting, hib, op>>

Start(a) ==
    /\ h[a].pc = "start"
    /\ Present(h[a].vm)
    /\ vm' = [vm EXCEPT ![h[a].vm] = "running"]
    /\ Return(a, FALSE)
    /\ UNCHANGED <<apivars, lastVM, events, tables, deleting, hib, op>>

StartFails(a) ==
    /\ h[a].pc = "start"
    /\ May("start") \/ ~Present(h[a].vm)
    /\ Step(a, "claim")
    /\ UNCHANGED <<apivars, runtime, tables, deleting, hib, op>>

--------------------------------------------------------------------------------
(* removeThenEvict and evictGoneIncarnation.                               *)

\* Mutant: the claim does not look at who else deletes.
ClaimsAnyway(a) ==
    tracked = h[a].uid /\ bound = h[a].vm

\* claimDeletingIncarnation
MayClaim(a) ==
    ~deleting /\ tracked = h[a].uid /\ bound = h[a].vm

Claim(a) ==
    /\ h[a].pc = "claim"
    /\ IF MayClaim(a)
         THEN /\ deleting' = TRUE
              /\ Step(a, IF h[a].gone THEN "evict" ELSE "remove")
         ELSE /\ UNCHANGED deleting
              /\ IF h[a].gone THEN Step(a, "settle") ELSE Return(a, FALSE)
    /\ UNCHANGED <<apivars, runtime, tables, hib, op>>

Remove(a) ==
    /\ h[a].pc = "remove"
    /\ RemoveVM(h[a].vm)
    /\ Step(a, "evict")
    /\ UNCHANGED <<apivars, tables, deleting, hib, op>>

\* Mutant: evict although the VM is still there.
EvictAnyway(a) ==
    /\ h[a].pc = "remove"
    /\ May("remove")
    /\ Step(a, "evict")
    /\ UNCHANGED <<apivars, runtime, tables, deleting, hib, op>>

\* The pod is kept for investigation.
RemoveFails(a) ==
    /\ h[a].pc = "remove"
    /\ May("remove")
    /\ deleting' = FALSE
    /\ Return(a, FALSE)
    /\ UNCHANGED <<apivars, runtime, tables, hib, op>>

\* evictPod deletes the pod under a UID precondition; a missing pod counts as
\* deleted, and of a replaced one the old incarnation is dropped all the same.
Evict(a) ==
    /\ h[a].pc = "evict"
    /\ api' = IF api.uid = h[a].uid THEN [api EXCEPT !.term = TRUE] ELSE api
    /\ Step(a, "untrack")
    /\ UNCHANGED <<lastUID, runtime, tables, deleting, hib, op>>

\* evictGoneIncarnation gives the claim up before its caller looks whether the
\* pod is still tracked, removeThenEvict afterwards.
Evicted(a) == IF h[a].gone THEN "finish" ELSE "settle"

EvictFails(a) ==
    /\ h[a].pc = "evict"
    /\ May("delete")
    /\ Step(a, Evicted(a))
    /\ UNCHANGED <<apivars, runtime, tables, deleting, hib, op>>

\* untrackIncarnation
UntrackIncarnation(a) ==
    /\ h[a].pc = "untrack"
    /\ IF tracked = h[a].uid THEN Untrack ELSE UNCHANGED tables
    /\ Step(a, Evicted(a))
    /\ UNCHANGED <<apivars, runtime, deleting, hib, op>>

\* finishDeleting
Finish(a) ==
    /\ h[a].pc = "finish"
    /\ deleting' = FALSE
    /\ Step(a, "settle")
    /\ UNCHANGED <<apivars, runtime, tables, hib, op>>

\* Mutant: an eviction that failed is not tried again.
SettleForGood(a) ==
    /\ h[a].pc = "settle"
    /\ Return(a, FALSE)
    /\ deleting' = (deleting /\ h[a].gone)
    /\ UNCHANGED <<apivars, runtime, tables, hib, op>>

\* The pod is still there: the recheck evicts it again.
Settle(a) ==
    /\ h[a].pc = "settle"
    /\ IF tracked = h[a].uid THEN ReturnAndRecheck(a, h[a].vm) ELSE Return(a, FALSE)
    /\ deleting' = (deleting /\ h[a].gone)
    /\ UNCHANGED <<apivars, runtime, tables, hib, op>>

--------------------------------------------------------------------------------
(* runDeferredRecheck of VM i.                                             *)

RecheckMatches(i) ==
    /\ h[i].pc = "sleep"
    /\ h' = [h EXCEPT ![i] =
               IF tracked # 0 /\ bound = i
                 THEN [@ EXCEPT !.pc = "look", !.uid = tracked] ELSE Returned(i, FALSE)]
    /\ UNCHANGED <<apivars, runtime, tables, deleting, hib, op>>

RecheckInspects(i) ==
    /\ h[i].pc = "look"
    /\ \/ vm[i] = "gone" /\ h' = [h EXCEPT ![i].pc = "claim", ![i].gone = TRUE]
       \/ vm[i] = "running" /\ Return(i, FALSE)
       \/ vm[i] = "stopped" /\ Step(i, "replay")
    /\ UNCHANGED <<apivars, runtime, tables, deleting, hib, op>>

\* The budget, 30 minutes, is over or it is not.
RecheckInspectFails(i) ==
    /\ h[i].pc = "look"
    /\ May("inspect")
    /\ Return(i, TRUE) \/ Step(i, "claim")
    /\ UNCHANGED <<apivars, runtime, tables, deleting, hib, op>>

\* The deferred delete of p.pendingRecheck[i]
RecheckExits(i) ==
    /\ h[i].pc = "exit"
    /\ h' = [h EXCEPT ![i] = Off]
    /\ UNCHANGED <<apivars, runtime, tables, deleting, hib, op>>

Handle(a) ==
    \/ Replay(a) \/ Gate(a) \/ Inspect(a) \/ InspectFails(a)
    \/ Cooldown(a) \/ Start(a) \/ StartFails(a)
    \/ Claim(a) \/ Remove(a) \/ RemoveFails(a)
    \/ Evict(a) \/ EvictFails(a) \/ UntrackIncarnation(a) \/ Finish(a) \/ Settle(a)

Recheck(i) ==
    RecheckMatches(i) \/ RecheckInspects(i) \/ RecheckInspectFails(i) \/ RecheckExits(i)

--------------------------------------------------------------------------------
(* The framework's worker.                                                 *)

Goto(pc) == op' = [op EXCEPT !.pc = pc]

\* The pod at the apiserver is the tracked one, and no delete is in flight.
Updatable ==
    op.pc = "idle" /\ api.uid # 0 /\ ~api.term /\ tracked = api.uid /\ ~deleting

\* CreatePod, also by way of an UpdatePod that finds another incarnation tracked
\* and detaches it: trackPodUnlessDeleting.
CreateStart ==
    /\ op.pc = "idle"
    /\ api.uid # 0
    /\ ~api.term
    /\ tracked # api.uid
    /\ ~deleting
    /\ tracked' = api.uid
    /\ bound' = 0
    /\ cooling' = cooling \ {bound}
    /\ index' = IF bound # 0 THEN bound ELSE index
    /\ op' = [Idle EXCEPT !.pc = "adopt", !.uid = api.uid, !.create = TRUE]
    /\ UNCHANGED <<apivars, runtime, deleting, hib, h>>

\* adoptableVM
CreateAdopts ==
    /\ op.pc = "adopt"
    /\ Present(index)
    /\ op' = [op EXCEPT !.pc = "bind", !.vm = index]
    /\ UNCHANGED <<apivars, runtime, tables, deleting, hib, h>>

CreateFindsNone ==
    /\ op.pc = "adopt"
    /\ ~Present(index)
    /\ index' = 0
    /\ Goto("boot")
    /\ UNCHANGED <<apivars, runtime, tracked, bound, cooling, deleting, hib, h>>

\* failCreate; a wake that fails leaves the pod tracked.
FailBringUp ==
    /\ tracked' = IF op.create /\ ~Superseded(op.uid) THEN 0 ELSE tracked
    /\ op' = Idle
    /\ UNCHANGED <<apivars, runtime, bound, index, cooling, deleting, hib, h>>

CreateInspectFails ==
    /\ op.pc = "adopt"
    /\ index # 0
    /\ May("inspect")
    /\ FailBringUp

\* bringUpVM or cloneFromHibernate: the name must be free in the runtime.
Boot ==
    /\ op.pc = "boot"
    /\ \A i \in VMs : ~Present(i)
    /\ lastVM < MaxVM
    /\ lastUID + lastVM < MaxNew
    /\ lastVM' = lastVM + 1
    /\ vm' = [vm EXCEPT ![lastVM + 1] = "running"]
    /\ op' = [op EXCEPT !.pc = "bind", !.vm = lastVM + 1]
    /\ UNCHANGED <<apivars, events, tables, deleting, hib, h>>

BootFails ==
    /\ op.pc = "boot"
    /\ May("boot") \/ \E i \in VMs : Present(i)
    /\ FailBringUp

\* trackPodIncarnation: bind, or index a VM that came too late.
Bind ==
    /\ op.pc = "bind"
    /\ index' = op.vm
    /\ IF deleting \/ Superseded(op.uid)
         THEN op' = Idle /\ UNCHANGED <<tracked, bound>>
         ELSE tracked' = op.uid /\ bound' = op.vm /\ Goto("publish")
    /\ UNCHANGED <<apivars, runtime, cooling, deleting, hib, h>>

\* applyVMRuntime; when the name belongs to another incarnation by now, bindRuntime
\* detaches this one.
Publish ==
    /\ op.pc = "publish"
    /\ IF (Superseded(op.uid) \/ api.uid \notin {0, op.uid}) /\ ~deleting
         THEN Detach(op.uid, op.vm) ELSE UNCHANGED tables
    /\ op' = Idle
    /\ UNCHANGED <<apivars, runtime, deleting, hib, h>>

\* UpdatePod: wake
WakeStart ==
    /\ Updatable
    /\ bound = 0
    /\ op' = [Idle EXCEPT !.pc = "boot", !.uid = tracked]
    /\ UNCHANGED <<apivars, runtime, tables, deleting, hib, h>>

\* UpdatePod: hibernate, startHibernate
HibernateStart ==
    /\ May("hibernate")
    /\ Updatable
    /\ bound # 0
    /\ hib' = "yes"
    /\ op' = [Idle EXCEPT !.pc = "hibernate", !.uid = tracked, !.vm = bound]
    /\ UNCHANGED <<apivars, runtime, tables, deleting, h>>

\* The snapshot holds the guest's memory: the VM must run.
HibernateSave ==
    /\ op.pc = "hibernate"
    /\ vm[op.vm] = "running"
    /\ Goto("remove")
    /\ UNCHANGED <<apivars, runtime, tables, deleting, hib, h>>

\* A VM that vanished since counts as removed.
HibernateRemove ==
    /\ op.pc = "remove"
    /\ RemoveVM(op.vm)
    /\ Goto("forget")
    /\ UNCHANGED <<apivars, tables, deleting, hib, h>>

HibernateFails ==
    /\ op.pc \in {"hibernate", "remove"}
    /\ Goto("hibernated")
    /\ UNCHANGED <<apivars, runtime, tables, deleting, hib, h>>

\* forgetVMOnly
HibernateForget ==
    /\ op.pc = "forget"
    /\ DropVM
    /\ Goto("hibernated")
    /\ UNCHANGED <<apivars, runtime, tracked, deleting, hib, h>>

\* finishHibernate: an event was turned away meanwhile, so look again.
HibernateFinish ==
    /\ op.pc = "hibernated"
    /\ h' = IF hib = "vm gone" THEN Scheduled(h, op.vm) ELSE h
    /\ hib' = "no"
    /\ op' = Idle
    /\ UNCHANGED <<apivars, runtime, tables, deleting>>

\* DeletePod of the tracked pod, terminating or gone, or of a pod whose creation
\* failed: claimDeleting.
DeleteStart ==
    /\ op.pc = "idle"
    /\ \/ api.uid # 0 /\ api.term /\ ~Superseded(api.uid)
       \/ tracked # 0 /\ api.uid = 0
    /\ ~deleting
    /\ deleting' = TRUE
    /\ op' = [Idle EXCEPT !.pc = IF bound = 0 THEN "delete" ELSE "deletevm",
                           !.uid = IF api.uid # 0 THEN api.uid ELSE tracked, !.vm = bound]
    /\ UNCHANGED <<apivars, runtime, tables, hib, h>>

\* deleteSuperseded: the framework removes a terminating pod that is not ours.
DeleteSuperseded ==
    /\ op.pc = "idle"
    /\ api.term
    /\ Superseded(api.uid)
    /\ api' = NoPod
    /\ UNCHANGED <<lastUID, runtime, tables, deleting, hib, h, op>>

DeleteVM ==
    /\ op.pc = "deletevm"
    /\ RemoveVM(op.vm)
    /\ Goto("delete")
    /\ UNCHANGED <<apivars, tables, deleting, hib, h>>

\* ErrDeleteKeptVM
DeleteVMFails ==
    /\ op.pc = "deletevm"
    /\ May("remove")
    /\ deleting' = FALSE
    /\ op' = Idle
    /\ UNCHANGED <<apivars, runtime, tables, hib, h>>

\* forgetPod, finishDeleting
DeleteForgets ==
    /\ op.pc = "delete"
    /\ Untrack
    /\ deleting' = FALSE
    /\ Goto("deleted")
    /\ UNCHANGED <<apivars, runtime, hib, h>>

\* DeletePod is done: the framework removes the pod object.
FrameworkRemovesPod ==
    /\ op.pc = "deleted"
    /\ api' = IF api.uid = op.uid THEN NoPod ELSE api
    /\ op' = Idle
    /\ UNCHANGED <<lastUID, runtime, tables, deleting, hib, h>>

Worker ==
    \/ CreateStart \/ CreateAdopts \/ CreateFindsNone \/ CreateInspectFails
    \/ Boot \/ BootFails \/ Bind \/ Publish
    \/ WakeStart
    \/ HibernateStart \/ HibernateSave \/ HibernateRemove \/ HibernateFails
    \/ HibernateForget \/ HibernateFinish
    \/ DeleteStart \/ DeleteSuperseded \/ DeleteVM \/ DeleteVMFails \/ DeleteForgets
    \/ FrameworkRemovesPod

--------------------------------------------------------------------------------
Next ==
    /\ \/ Environment
       \/ \E i \in VMs : TakeEvent(i)
       \/ \E a \in Handlers : Handle(a)
       \/ \E i \in VMs : Recheck(i)
       \/ Worker
    /\ UNCHANGED faults

Spec == Init /\ [][Next]_vars

\* Goroutines keep running, events are delivered, and the framework's worker
\* carries on what it began, creates a pod that is not tracked and deletes one that
\* is terminating or missing.  Inspects, removes and pod deletes that are tried for
\* ever succeed at some time.
Fairness ==
    /\ \A i \in VMs : WF_vars(TakeEvent(i) /\ UNCHANGED faults)
    /\ \A i \in VMs : WF_vars(Recheck(i) /\ UNCHANGED faults)
    /\ \A a \in Handlers : WF_vars(Handle(a) /\ UNCHANGED faults)
    /\ \A a \in Handlers : SF_vars(Inspect(a) /\ UNCHANGED faults)
    /\ \A a \in Handlers : SF_vars(Evict(a) /\ UNCHANGED faults)
    /\ \A i \in VMs : SF_vars(RecheckInspects(i) /\ UNCHANGED faults)
    /\ WF_vars(Worker /\ op.pc # "idle" /\ UNCHANGED faults)
    /\ WF_vars(CreateStart /\ UNCHANGED faults)
    /\ WF_vars(DeleteStart /\ UNCHANGED faults)
    /\ WF_vars(DeleteSuperseded /\ UNCHANGED faults)
    /\ SF_vars(DeleteVM /\ UNCHANGED faults)

FairSpec == Spec /\ Fairness

--------------------------------------------------------------------------------
(* Properties.                                                             *)

\* Who is between claiming the key's delete and giving the claim up.
Claimants ==
    {a \in Handlers : h[a].pc \in {"remove", "evict", "untrack", "finish"}
                      \/ (h[a].pc = "settle" /\ ~h[a].gone)}
WorkerClaims == op.pc \in {"delete", "deletevm"}

\* The claim of the key excludes: DeletePod, the watch loop and the rechecks are
\* never two at a time in removing or evicting the pod, and the claim is given up
\* by whoever took it (claimDeleting, claimDeletingIncarnation, finishDeleting).
ClaimIsExclusive ==
    /\ \A a, b \in Claimants : a = b
    /\ WorkerClaims => Claimants = {}
    /\ deleting <=> (WorkerClaims \/ Claimants # {})

\* The three tables agree: a VM is bound to the key only while a pod is tracked
\* there, it is the one its name leads to, and it was created in the runtime
\* (trackPodIncarnation, dropVMLocked, untrackLocked, detachIncarnation).
TablesAgree ==
    bound # 0 => tracked # 0 /\ index = bound /\ vm[bound] # "none"

\* A VM that exists can be found: it is bound to the pod, indexed by its name for
\* the next CreatePod to adopt, or in the hands of the worker (removeThenEvict
\* keeps the pod when the remove fails, detachIncarnation and trackPodIncarnation
\* index what they do not bind).
NoVMIsLost ==
    \A i \in VMs : Present(i) => i \in {bound, index} \/ (op.pc = "bind" /\ op.vm = i)

\* A pod is evicted only when its VM no longer exists: the pod the watcher deletes
\* has no VM that runs or could be started (handleVMGone, removeThenEvict).
EvictedHasNoVM ==
    [][\A a \in Handlers : h[a].pc = "evict" /\ h'[a].pc = "untrack" /\ api.uid = h[a].uid
          => ~Present(bound)]_vars

\* A VM that is gone takes its pod with it: the pod is evicted, deleted or gets
\* another VM, even if starts, removes and deletes fail on the way and the stream
\* breaks (handleVMGone, removeThenEvict, reconcileGoneVMs).
GoneIsEvicted ==
    faults \cap {"inspect", "hibernate", "early", "loss"} = {}
        => []<>~(tracked # 0 /\ bound # 0 /\ vm[bound] = "gone")

\* A pod whose hibernate has removed the VM is not evicted for it: the VM is
\* missing because the guest sleeps (handleVMGone's check of p.hibernating).
HibernatedIsKept ==
    [][\A a \in Handlers : h[a].pc = "evict" /\ h'[a].pc = "untrack" /\ api.uid = h[a].uid
          => ~(op.pc = "forget" /\ op.uid = h[a].uid /\ op.vm = h[a].vm)]_vars
================================================================================
