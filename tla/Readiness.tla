------------------------------- MODULE Readiness -------------------------------
(***************************************************************************)
(* How the Ready condition of a pod reaches the apiserver: the probe agent *)
(* of the key (probes/probes.go), the status derived from the bound VM, the*)
(* lifecycle state and the last probe result (status.go), the pushes of    *)
(* CreatePod, UpdatePod, the bring-up tails, the agent's onUpdate and the  *)
(* status reconciler (create.go, lifecycle.go, provider.go), and the       *)
(* framework's queue, which keeps the last status it was handed.  An       *)
(* eviction or DeletePod untracks the pod and forgets the agent in between.*)
(*                                                                         *)
(* One pod key of a managed pod.  A status is what GetPodStatus and the    *)
(* ends of evictPod and DeletePod tell apart: pending (no VM), not ready,  *)
(* ready, ended.                                                           *)
(***************************************************************************)
EXTENDS Naturals, FiniteSets

CONSTANTS
    Agents,     \* probe agents, reused once their goroutine has returned
    Setups      \* the instances checked

\* A setup bounds the incarnations, the VMs, how often a guest starts or stops
\* answering, and the agents that run at a time, and says what may go wrong or come
\* in between.
FaultKinds == {"boot",      \* a bring-up fails
               "noip",      \* a bring-up tail fails
               "patch",     \* a status patch of publishPodStatus fails
               "drop",      \* the framework gives up on a status
               "evict",     \* the watcher finds the VM gone
               "delete",    \* the watcher's pod delete or DeletePod fails
               "user",      \* the user deletes and recreates the pod
               "hibernate", \* the user hibernates and wakes it
               "restart",   \* vk-cocoon finds a pod of an earlier process
               "silent"}    \* no status is derived or pushed, the agents' part alone
ASSUME SetupsAssumption ==
    Setups \subseteq [uids: Nat \ {0}, vms: Nat \ {0}, flips: Nat,
                      agents: SUBSET Agents, faults: SUBSET FaultKinds]
ASSUME AgentsAssumption == "none" \notin Agents

FailureThreshold == 3       \* defaultFailureThreshold

VARIABLES
    setup,      \* the instance, which never changes
    api,        \* the pod at the apiserver and its published status
    lastUID,    \* UIDs handed out so far
    lastVM,     \* VM IDs handed out so far
    reach,      \* VMs that have an address and answer the probe
    flips,      \* how often that has changed
    tracked,    \* UID of p.pods[key]
    bound,      \* ID of p.vmsByPod[key]
    spare,      \* a VM a detached pod left in p.vmsByName
    life,       \* the lifecycle state of the tracked pod
    deleting,   \* p.deleting[key]
    agent,      \* Manager.agents[key]
    result,     \* Manager.results[key], and the VM that was probed
    ag,         \* the agents' goroutines
    slot,       \* the status the framework was handed last
    op,         \* the framework's worker: CreatePod, UpdatePod, startup
    tails,      \* bring-up tails that will publish Ready
    reaper,     \* the eviction or DeletePod that claimed the key
    rec         \* the status reconciler

world == <<lastUID, lastVM, reach, flips>>
tables == <<tracked, bound, spare, life>>
probes == <<agent, result, ag>>
vars == <<setup, api, world, tables, deleting, probes, slot, op, tails, reaper, rec>>

UID == 0..setup.uids
ID == 0..setup.vms
VMs == 1..setup.vms
Statuses == {"pending", "notready", "ready", "ended"}

NoPod == [uid |-> 0, term |-> FALSE, status |-> "pending"]
NoResult == [ready |-> FALSE, vm |-> 0]
NoPush == [uid |-> 0, status |-> "pending"]
Resting == [pc |-> "off", vm |-> 0, last |-> FALSE, fails |-> 0, uid |-> 0,
            status |-> "pending"]
\* then: what follows the first probe.  create: the call holds no pod lock.
Idle == [pc |-> "idle", uid |-> 0, vm |-> 0, then |-> "none", create |-> FALSE,
         status |-> "pending"]
\* push: the pod's last status is handed to the framework.
NoReaper == [pc |-> "off", uid |-> 0, evicts |-> FALSE, push |-> FALSE]
NoRec == [pc |-> "off", uid |-> 0, status |-> "pending"]

AgentRec == [pc: {"off", "first", "sleep", "probe", "update", "push"}, vm: ID,
             last: BOOLEAN, fails: 0..FailureThreshold - 1, uid: UID, status: Statuses]
OpRec == [pc: {"idle", "forget", "track", "bind", "patch", "detached", "start", "first",
               "stage", "publish", "push", "refresh", "remove", "asleep"},
          uid: UID, vm: ID, then: {"none", "clone", "boot", "ready", "owed"},
          create: BOOLEAN, status: Statuses]
TailRec == [uid: UID, vm: ID, pc: {"wait", "publish", "push"}, status: Statuses]
ReaperRec == [pc: {"off", "api", "untrack", "forget", "finish"}, uid: UID,
              evicts: BOOLEAN, push: BOOLEAN]

\* The types of the variables; an agent counts fewer failures than the threshold.
TypeOK ==
    /\ setup \in Setups
    /\ api \in [uid: UID, term: BOOLEAN, status: Statuses]
    /\ lastUID \in UID /\ lastVM \in ID
    /\ reach \subseteq VMs /\ flips \in 0..setup.flips
    /\ tracked \in UID /\ bound \in ID /\ spare \in ID
    /\ life \in {"creating", "ready", "failed", "asleep"}
    /\ deleting \in BOOLEAN
    /\ agent \in Agents \cup {"none"}
    /\ result \in [ready: BOOLEAN, vm: ID]
    /\ ag \in [Agents -> AgentRec]
    /\ slot \in [uid: UID, status: Statuses]
    /\ op \in OpRec
    /\ tails \subseteq TailRec
    /\ reaper \in ReaperRec
    /\ rec \in [pc: {"off", "push"}, uid: UID, status: Statuses]

May(fault) == fault \in setup.faults

\* vk-cocoon starts on a node without the pod, or finds pod and VM of an earlier
\* process and starts the probe (startup reconcile).
Init ==
    /\ setup \in Setups
    /\ \/ /\ api = NoPod /\ lastUID = 0 /\ lastVM = 0
          /\ tracked = 0 /\ bound = 0 /\ life = "creating" /\ op = Idle
       \/ /\ May("restart")
          /\ api \in [uid: {1}, term: {FALSE}, status: Statuses \ {"ended"}]
          /\ lastUID = 1 /\ lastVM = 1
          /\ tracked = 1 /\ bound = 1 /\ life \in {"creating", "ready", "failed"}
          /\ op = [Idle EXCEPT !.pc = "start", !.uid = 1, !.vm = 1, !.then = "owed"]
    /\ reach \in SUBSET (1..lastVM) /\ flips = 0 /\ spare = 0
    /\ deleting = FALSE
    /\ agent = "none" /\ result = NoResult /\ ag = [a \in Agents |-> Resting]
    /\ slot = NoPush /\ tails = {} /\ reaper = NoReaper /\ rec = NoRec
Starting == op.pc # "idle" /\ op.then = "owed" /\ ~op.create

--------------------------------------------------------------------------------
(* The user, the guests, and the framework's status queue.                 *)

ApiCreate ==
    /\ api.uid = 0
    /\ lastUID < setup.uids
    /\ lastUID' = lastUID + 1
    /\ api' = [NoPod EXCEPT !.uid = lastUID + 1]
    /\ UNCHANGED <<lastVM, reach, flips, tables, deleting, probes, slot, op, tails, reaper, rec>>

ApiTerminate ==
    /\ May("user")
    /\ api.uid # 0
    /\ ~api.term
    /\ api' = [api EXCEPT !.term = TRUE]
    /\ UNCHANGED <<world, tables, deleting, probes, slot, op, tails, reaper, rec>>

\* A force delete.
ApiRemove ==
    /\ May("user")
    /\ api.uid # 0
    /\ api' = NoPod
    /\ UNCHANGED <<world, tables, deleting, probes, slot, op, tails, reaper, rec>>

GuestFlips(i) ==
    /\ i <= lastVM
    /\ flips < setup.flips
    /\ flips' = flips + 1
    /\ reach' = IF i \in reach THEN reach \ {i} ELSE reach \cup {i}
    /\ UNCHANGED <<api, lastUID, lastVM, tables, deleting, probes, slot, op, tails, reaper, rec>>

\* The apiserver takes a status only for the UID it was made for.
Published(uid, status) ==
    IF api.uid = uid THEN [api EXCEPT !.status = status] ELSE api

Drain ==
    /\ slot # NoPush
    /\ api' = Published(slot.uid, slot.status)
    /\ slot' = NoPush
    /\ UNCHANGED <<world, tables, deleting, probes, op, tails, reaper, rec>>

DrainFails ==
    /\ May("drop")
    /\ slot # NoPush
    /\ slot' = NoPush
    /\ UNCHANGED <<api, world, tables, deleting, probes, op, tails, reaper, rec>>

--------------------------------------------------------------------------------
(* What the provider's operations share.                                   *)

\* GetPodStatus.
Derived ==
    IF bound = 0 \/ May("silent") THEN "pending"
    ELSE IF result.ready /\ life = "ready" THEN "ready"
    ELSE "notready"

\* refreshStatus leaves the status of an untracked pod alone.
Refreshed(status) == IF tracked = 0 /\ ~May("silent") THEN status ELSE Derived

notify(uid, status) ==
    slot' = IF May("silent") THEN slot ELSE [uid |-> uid, status |-> status]

supersededLocked(uid) == tracked # 0 /\ tracked # uid

Untrack == tracked' = 0 /\ bound' = 0 /\ life' = "creating"

\* Manager.Forget: a canceled agent returns at its next wait.
Forget == agent' = "none" /\ result' = NoResult /\ UNCHANGED ag

Owns(a) == agent = a
Answers(i) == i \in reach

\* Mutant: a canceled agent still writes its result.
setOwnedUnchecked(a) ==
    result' = [ready |-> Answers(ag[a].vm), vm |-> ag[a].vm]

\* Manager.setOwned, after a probe of the VM the agent looked up.
setOwned(a) ==
    result' = IF Owns(a) THEN [ready |-> Answers(ag[a].vm), vm |-> ag[a].vm] ELSE result

Tail(uid, i) == [uid |-> uid, vm |-> i, pc |-> "wait", status |-> "notready"]

--------------------------------------------------------------------------------
(* CreatePod and UpdatePod.                                                *)

HasVM == spare # 0 \/ lastVM < setup.vms        \* the bound of the model

\* trackPodUnlessDeleting and the Creating state.
Track(uid) ==
    /\ tracked' = uid
    /\ life' = "creating"
    /\ op' = [Idle EXCEPT !.pc = "bind", !.uid = uid, !.create = TRUE, !.status = "notready"]
    /\ UNCHANGED <<bound, spare>>

CreateStart ==
    /\ op.pc = "idle"
    /\ api.uid # 0 /\ ~api.term
    /\ tracked = 0
    /\ ~deleting
    /\ HasVM
    /\ Track(api.uid)
    /\ UNCHANGED <<api, world, deleting, probes, slot, tails, reaper, rec>>

\* UpdatePod for a new incarnation while the old one is tracked: detachIncarnation
\* keeps the VM for the adoption by name.
UpdateDetaches ==
    /\ op.pc = "idle"
    /\ api.uid # 0 /\ ~api.term
    /\ tracked \notin {0, api.uid}
    /\ ~deleting
    /\ bound # 0 \/ HasVM
    /\ Untrack
    /\ spare' = IF bound # 0 THEN bound ELSE spare
    /\ op' = [Idle EXCEPT !.pc = "forget", !.uid = api.uid, !.create = TRUE]
    /\ UNCHANGED <<api, world, deleting, probes, slot, tails, reaper, rec>>

UpdateForgets ==
    /\ op.pc = "forget"
    /\ Forget
    /\ op' = [op EXCEPT !.pc = "track"]
    /\ UNCHANGED <<api, world, tables, deleting, slot, tails, reaper, rec>>

UpdateCreates ==
    /\ op.pc = "track"
    /\ IF deleting THEN op' = Idle /\ UNCHANGED tables ELSE Track(op.uid)
    /\ UNCHANGED <<api, world, deleting, probes, slot, tails, reaper, rec>>

\* failCreate drops the pod; a failed wake keeps it.
BringUpFails ==
    /\ May("boot")
    /\ op.pc = "bind"
    /\ ~supersededLocked(op.uid)
    /\ life' = "failed"
    /\ tracked' = IF op.create THEN 0 ELSE tracked
    /\ op' = Idle
    /\ UNCHANGED <<api, world, bound, spare, deleting, probes, slot, tails, reaper, rec>>

\* trackPodIncarnation: a VM the pod may not have stays in the name index.
trackPodIncarnation(i) ==
    IF deleting \/ supersededLocked(op.uid)
    THEN /\ spare' = i
         /\ op' = Idle
         /\ UNCHANGED <<tracked, bound, life>>
    ELSE /\ tracked' = op.uid
         /\ bound' = i
         /\ spare' = 0
         /\ life' = IF tracked = 0 THEN "creating" ELSE life
         /\ \E then \in IF i = spare THEN {"ready", "owed"}
                        ELSE IF op.create THEN {"clone", "boot"} ELSE {"clone"} :
              op' = [op EXCEPT !.pc = "patch", !.vm = i, !.then = then]

\* bringUpVM makes a VM unless the name index has one to adopt.
Bind ==
    /\ op.pc = "bind"
    /\ IF spare # 0
       THEN trackPodIncarnation(spare) /\ UNCHANGED <<lastVM, reach>>
       ELSE /\ lastVM' = lastVM + 1
            /\ reach' = reach \cup {lastVM + 1}
            /\ trackPodIncarnation(lastVM + 1)
    /\ UNCHANGED <<api, lastUID, flips, deleting, probes, slot, tails, reaper, rec>>

\* applyVMRuntime: the apiserver refuses the annotations of another incarnation's
\* pod, and bindRuntime detaches it.  A clone's tail starts before the probe.
Patch ==
    /\ op.pc = "patch"
    /\ IF supersededLocked(op.uid) \/ api.uid \notin {0, op.uid}
       THEN /\ IF deleting \/ tracked # op.uid
               THEN op' = Idle /\ UNCHANGED tables
               ELSE /\ Untrack
                    /\ spare' = op.vm
                    /\ op' = [op EXCEPT !.pc = "detached"]
            /\ UNCHANGED tails
       ELSE /\ tails' = IF op.then = "clone" THEN tails \cup {Tail(op.uid, op.vm)} ELSE tails
            /\ op' = [op EXCEPT !.pc = "start"]
            /\ UNCHANGED tables
    /\ UNCHANGED <<api, world, deleting, probes, slot, reaper, rec>>

DetachForgets ==
    /\ op.pc = "detached"
    /\ Forget
    /\ op' = Idle
    /\ UNCHANGED <<api, world, tables, deleting, slot, tails, reaper, rec>>

\* Manager.Start replaces the agent of the key; its first probe looks up the VM.
Start ==
    /\ op.pc = "start"
    /\ \E a \in setup.agents :
         /\ ag[a].pc = "off"
         /\ a = CHOOSE free \in setup.agents : ag[free].pc = "off"
         /\ agent' = a
         /\ ag' = [ag EXCEPT ![a] = [Resting EXCEPT !.pc = "first", !.vm = bound]]
    /\ op' = [op EXCEPT !.pc = "first"]
    /\ UNCHANGED <<api, world, tables, result, deleting, slot, tails, reaper, rec>>

\* Mutant: the goroutine is started only for a guest that answers.
LaunchedReady(a) ==
    IF Owns(a) /\ Answers(ag[a].vm) THEN [Resting EXCEPT !.pc = "sleep", !.last = TRUE]
    ELSE Resting

\* The goroutine starts only if the agent still owns the key.
Launched(a) ==
    IF Owns(a) THEN [Resting EXCEPT !.pc = "sleep", !.last = Answers(ag[a].vm)] ELSE Resting

AfterFirstProbe ==
    CASE op.then \in {"clone", "boot"} -> "refresh"
      [] op.then = "ready" -> "stage"
      [] op.then = "owed" -> "idle"

First ==
    /\ op.pc = "first"
    /\ \E a \in Agents :
         /\ ag[a].pc = "first"
         /\ setOwned(a)
         /\ ag' = [ag EXCEPT ![a] = Launched(a)]
    /\ tails' = IF op.then = "owed" /\ (op.create \/ life = "creating")
                THEN tails \cup {Tail(op.uid, op.vm)} ELSE tails
    /\ op' = IF AfterFirstProbe = "idle" THEN Idle ELSE [op EXCEPT !.pc = AfterFirstProbe]
    /\ UNCHANGED <<api, world, tables, agent, deleting, slot, reaper, rec>>

\* markReadyPublished: Failed is sticky, and another incarnation is not touched.
Stage ==
    /\ op.pc = "stage"
    /\ IF supersededLocked(op.uid) \/ life = "failed"
       THEN op' = [op EXCEPT !.pc = "refresh"] /\ UNCHANGED life
       ELSE op' = [op EXCEPT !.pc = "publish"] /\ life' = "ready"
    /\ UNCHANGED <<api, world, tracked, bound, spare, deleting, probes, slot, tails, reaper, rec>>

\* refreshStatus and publishPodStatus: a patch that fails leaves the status to the
\* reconcilers.
Publish ==
    /\ op.pc = "publish"
    /\ \/ /\ api.uid = op.uid
          /\ api' = Published(op.uid, Refreshed(op.status))
          /\ op' = [op EXCEPT !.pc = "push", !.status = Refreshed(@)]
       \/ /\ api.uid # op.uid \/ May("patch")
          /\ op' = Idle
          /\ UNCHANGED api
    /\ UNCHANGED <<world, tables, deleting, probes, slot, tails, reaper, rec>>

\* publishReadyLifecycle's notify, after the flush of the lifecycle annotations.
Push ==
    /\ op.pc = "push"
    /\ notify(op.uid, op.status)
    /\ op' = Idle
    /\ UNCHANGED <<api, world, tables, deleting, probes, tails, reaper, rec>>

\* refreshAndNotify.  A boot's tail starts after it.
RefreshAndNotify ==
    /\ op.pc = "refresh"
    /\ notify(op.uid, Refreshed(op.status))
    /\ tails' = IF op.then = "boot" THEN tails \cup {Tail(op.uid, op.vm)} ELSE tails
    /\ op' = Idle
    /\ UNCHANGED <<api, world, tables, deleting, probes, reaper, rec>>

\* UpdatePod hibernates: the VM goes, then its row, then its agent.
HibernateStart ==
    /\ May("hibernate")
    /\ op.pc = "idle"
    /\ tracked # 0 /\ tracked = api.uid /\ ~api.term
    /\ bound # 0
    /\ ~deleting
    /\ life' = "asleep"
    /\ op' = [Idle EXCEPT !.pc = "remove", !.uid = api.uid, !.status = api.status]
    /\ UNCHANGED <<api, world, tracked, bound, spare, deleting, probes, slot, tails, reaper, rec>>

HibernateRemoves ==
    /\ op.pc = "remove"
    /\ bound' = 0
    /\ op' = [op EXCEPT !.pc = "asleep"]
    /\ UNCHANGED <<api, world, tracked, spare, life, deleting, probes, slot, tails, reaper, rec>>

HibernateForgets ==
    /\ op.pc = "asleep"
    /\ Forget
    /\ op' = [op EXCEPT !.pc = "refresh"]
    /\ UNCHANGED <<api, world, tables, deleting, slot, tails, reaper, rec>>

WakeStart ==
    /\ op.pc = "idle"
    /\ tracked # 0 /\ tracked = api.uid /\ ~api.term
    /\ bound = 0
    /\ ~deleting
    /\ HasVM
    /\ life' = "creating"
    /\ op' = [Idle EXCEPT !.pc = "bind", !.uid = api.uid, !.status = api.status]
    /\ UNCHANGED <<api, world, tracked, bound, spare, deleting, probes, slot, tails, reaper, rec>>

Operation ==
    \/ UpdateForgets \/ UpdateCreates \/ BringUpFails \/ Bind \/ Patch \/ DetachForgets
    \/ Start \/ First \/ Stage \/ Publish \/ Push \/ RefreshAndNotify
    \/ HibernateRemoves \/ HibernateForgets
Worker == CreateStart \/ UpdateDetaches \/ HibernateStart \/ WakeStart \/ Operation

--------------------------------------------------------------------------------
(* The bring-up tails.                                                     *)

\* setLifecycleStateForWake: not for another VM, nor for a pod asked to hibernate.
Settles(w) == tracked = w.uid /\ bound = w.vm /\ life \notin {"asleep", "failed"}

TailReady(w) ==
    /\ w.pc = "wait"
    /\ IF Settles(w)
       THEN life' = "ready" /\ tails' = (tails \ {w}) \cup {[w EXCEPT !.pc = "publish"]}
       ELSE tails' = tails \ {w} /\ UNCHANGED life
    /\ UNCHANGED <<api, world, tracked, bound, spare, deleting, probes, slot, op, reaper, rec>>

\* No address (setLifecycleStateForWake), or a fixup that failed, which is marked
\* on the pod whatever VM it has now.
TailFails(w) ==
    /\ May("noip")
    /\ w.pc = "wait"
    /\ tracked = w.uid
    /\ life' = "failed"
    /\ tails' = tails \ {w}
    /\ UNCHANGED <<api, world, tracked, bound, spare, deleting, probes, slot, op, reaper, rec>>

\* publishReadyLifecycle, as Publish and Push above.
TailPublishes(w) ==
    /\ w.pc = "publish"
    /\ \/ /\ api.uid = w.uid
          /\ api' = Published(w.uid, Refreshed(w.status))
          /\ tails' = (tails \ {w}) \cup {[w EXCEPT !.pc = "push", !.status = Refreshed(@)]}
       \/ /\ api.uid # w.uid \/ May("patch")
          /\ tails' = tails \ {w}
          /\ UNCHANGED api
    /\ UNCHANGED <<world, tables, deleting, probes, slot, op, reaper, rec>>

TailPushes(w) ==
    /\ w.pc = "push"
    /\ notify(w.uid, w.status)
    /\ tails' = tails \ {w}
    /\ UNCHANGED <<api, world, tables, deleting, probes, op, reaper, rec>>

ATail ==
    \E w \in tails :
        TailReady(w) \/ TailFails(w) \/ TailPublishes(w) \/ TailPushes(w)

--------------------------------------------------------------------------------
(* The agent's goroutine (Manager.run).                                    *)

\* SleepCtx ends the goroutine of a canceled agent; the probe looks up the VM.
Tick(a) ==
    /\ ag[a].pc = "sleep"
    /\ ag' = [ag EXCEPT ![a] = IF Owns(a) THEN [@ EXCEPT !.pc = "probe", !.vm = bound]
                               ELSE Resting]
    /\ UNCHANGED <<api, world, tables, deleting, agent, result, slot, op, tails, reaper, rec>>

\* Mutant: the failure count runs one past the threshold.
CountedLate(g, ready) ==
    CASE ready /\ ~g.last -> [g EXCEPT !.pc = "update", !.last = TRUE, !.fails = 0]
      [] ready /\ g.last -> [g EXCEPT !.pc = "sleep", !.fails = 0]
      [] ~ready /\ ~g.last -> [g EXCEPT !.pc = "sleep"]
      [] ~ready /\ g.last /\ g.fails < FailureThreshold
           -> [g EXCEPT !.pc = "sleep", !.fails = @ + 1]
      [] OTHER -> [g EXCEPT !.pc = "update", !.last = FALSE, !.fails = 0]

\* What the loop makes of a probe's answer: the first success and the third
\* failure in a row call onUpdate.
Counted(g, ready) ==
    CASE ready /\ ~g.last -> [g EXCEPT !.pc = "update", !.last = TRUE, !.fails = 0]
      [] ready /\ g.last -> [g EXCEPT !.pc = "sleep", !.fails = 0]
      [] ~ready /\ ~g.last -> [g EXCEPT !.pc = "sleep"]
      [] ~ready /\ g.last /\ g.fails + 1 < FailureThreshold
           -> [g EXCEPT !.pc = "sleep", !.fails = @ + 1]
      [] OTHER -> [g EXCEPT !.pc = "update", !.last = FALSE, !.fails = 0]

Probe(a) ==
    /\ ag[a].pc = "probe"
    /\ setOwned(a)
    /\ ag' = [ag EXCEPT ![a] = IF Owns(a) THEN [Counted(@, Answers(@.vm)) EXCEPT !.vm = 0]
                               ELSE Resting]
    /\ UNCHANGED <<api, world, tables, deleting, agent, slot, op, tails, reaper, rec>>

\* onUpdate (buildOnUpdate) gives up on an untracked pod, and on one whose endpoint
\* annotations the apiserver refuses.  It may be another incarnation's pod than the
\* one the agent was started for.
Update(a) ==
    /\ ag[a].pc = "update"
    /\ \/ /\ tracked # 0
          /\ ag' = [ag EXCEPT ![a] = [@ EXCEPT !.pc = "push", !.uid = tracked,
                                               !.status = Derived]]
       \/ /\ tracked = 0 \/ tracked # api.uid
          /\ ag' = [ag EXCEPT ![a] = [@ EXCEPT !.pc = "sleep"]]
    /\ UNCHANGED <<api, world, tables, deleting, agent, result, slot, op, tails, reaper, rec>>

UpdatePushes(a) ==
    /\ ag[a].pc = "push"
    /\ notify(ag[a].uid, ag[a].status)
    /\ ag' = [ag EXCEPT ![a] = [@ EXCEPT !.pc = "sleep", !.uid = 0, !.status = "pending"]]
    /\ UNCHANGED <<api, world, tables, deleting, agent, result, op, tails, reaper, rec>>

Run(a) == Tick(a) \/ Probe(a) \/ Update(a) \/ UpdatePushes(a)

--------------------------------------------------------------------------------
(* Evictions and DeletePod: both claim the key, drop the pod from the tables*)
(* and only then forget the agent.                                         *)

Hibernates == op.pc \in {"remove", "asleep"}

\* The watcher's claimDeletingIncarnation, for a VM that is gone.
EvictClaims ==
    /\ May("evict")
    /\ reaper = NoReaper
    /\ ~deleting /\ ~Starting /\ ~Hibernates
    /\ tracked # 0 /\ bound # 0
    /\ deleting' = TRUE
    /\ reaper' = [NoReaper EXCEPT !.pc = "api", !.uid = tracked, !.evicts = TRUE]
    /\ UNCHANGED <<api, world, tables, probes, slot, op, tails, rec>>

\* deletePodWithRetry carries the UID; a pod it cannot delete stays tracked.
EvictDeletes ==
    /\ reaper.pc = "api"
    /\ \/ /\ api' = IF api.uid = reaper.uid THEN NoPod ELSE api
          /\ reaper' = [reaper EXCEPT !.pc = "untrack",
                                      !.push = api.uid \in {0, reaper.uid}]
       \/ /\ May("delete")
          /\ reaper' = [reaper EXCEPT !.pc = "finish"]
          /\ UNCHANGED api
    /\ UNCHANGED <<world, tables, deleting, probes, slot, op, tails, rec>>

\* DeletePod waits for UpdatePod's pod lock; CreatePod takes none.
DeleteClaims ==
    /\ reaper = NoReaper
    /\ ~deleting /\ ~Starting
    /\ op.pc = "idle" \/ op.create
    /\ \E uid \in {tracked, api.uid} \ {0} :
         /\ ~supersededLocked(uid)
         /\ uid # api.uid \/ api.term
         /\ reaper' = [NoReaper EXCEPT !.pc = "untrack", !.uid = uid, !.push = bound # 0]
    /\ deleting' = TRUE
    /\ UNCHANGED <<api, world, tables, probes, slot, op, tails, rec>>

\* The save or the removal of the VM fails, or the pod is being resumed.
DeleteFails ==
    /\ May("delete")
    /\ reaper.pc = "untrack" /\ ~reaper.evicts
    /\ deleting' = FALSE
    /\ reaper' = NoReaper
    /\ UNCHANGED <<api, world, tables, probes, slot, op, tails, rec>>

\* untrackIncarnation, or forgetPod whichever pod is tracked.
ReaperUntracks ==
    /\ reaper.pc = "untrack"
    /\ IF tracked = reaper.uid \/ ~reaper.evicts
       THEN Untrack /\ reaper' = [reaper EXCEPT !.pc = "forget"]
       ELSE UNCHANGED <<tracked, bound, life>> /\ reaper' = [reaper EXCEPT !.pc = "finish"]
    /\ UNCHANGED <<api, world, spare, deleting, probes, slot, op, tails, rec>>

ReaperForgets ==
    /\ reaper.pc = "forget"
    /\ Forget
    /\ reaper' = [reaper EXCEPT !.pc = "finish"]
    /\ UNCHANGED <<api, world, tables, deleting, slot, op, tails, rec>>

\* The last status and finishDeleting; the framework then removes the pod that
\* DeletePod was called for.
ReaperFinishes ==
    /\ reaper.pc = "finish"
    /\ deleting' = FALSE
    /\ api' = IF api.uid = reaper.uid /\ ~reaper.evicts THEN NoPod ELSE api
    /\ IF reaper.push THEN notify(reaper.uid, "ended") ELSE UNCHANGED slot
    /\ reaper' = NoReaper
    /\ UNCHANGED <<world, tables, probes, op, tails, rec>>

Reaps == EvictDeletes \/ DeleteFails \/ ReaperUntracks \/ ReaperForgets \/ ReaperFinishes

--------------------------------------------------------------------------------
(* The status reconciler (reconcilePodStatuses), every 30 seconds.         *)

\* Mutant: only a status that was never published is pushed.
RecReadsUnpublished ==
    /\ rec = NoRec
    /\ ~Starting
    /\ tracked # 0 /\ tracked = api.uid
    /\ api.status = "pending" /\ Derived # "pending"
    /\ rec' = [pc |-> "push", uid |-> tracked, status |-> Derived]
    /\ UNCHANGED <<api, world, tables, deleting, probes, slot, op, tails, reaper>>

\* podStatusMatches compares the published status with the derived one.
RecReads ==
    /\ rec = NoRec
    /\ ~Starting
    /\ tracked # 0 /\ tracked = api.uid
    /\ api.status # Derived
    /\ rec' = [pc |-> "push", uid |-> tracked, status |-> Derived]
    /\ UNCHANGED <<api, world, tables, deleting, probes, slot, op, tails, reaper>>

RecPushes ==
    /\ rec.pc = "push"
    /\ \/ tracked = rec.uid /\ notify(rec.uid, rec.status)
       \/ ~(rec.uid = tracked /\ rec.uid = api.uid) /\ UNCHANGED slot
    /\ rec' = NoRec
    /\ UNCHANGED <<api, world, tables, deleting, probes, op, tails, reaper>>

Reconciler == RecReads \/ RecPushes

--------------------------------------------------------------------------------
Environment ==
    \/ ApiCreate \/ ApiTerminate \/ ApiRemove
    \/ \E i \in VMs : GuestFlips(i)
    \/ Drain \/ DrainFails

Next ==
    /\ \/ Environment
       \/ Worker
       \/ ATail
       \/ \E a \in Agents : Run(a)
       \/ EvictClaims \/ DeleteClaims \/ Reaps
       \/ Reconciler
    /\ UNCHANGED setup

Spec == Init /\ [][Next]_vars

\* Goroutines keep running, tickers keep ticking, and a status push that is tried
\* for ever succeeds at some time.  Users, guests, evictions and the framework's
\* calls owe nothing.
Fairness ==
    /\ WF_vars(Operation /\ UNCHANGED setup)
    /\ WF_vars(ATail /\ UNCHANGED setup)
    /\ \A a \in Agents : WF_vars(Run(a) /\ UNCHANGED setup)
    /\ WF_vars(Reaps /\ UNCHANGED setup)
    /\ WF_vars(Reconciler /\ UNCHANGED setup)
    /\ SF_vars(Drain /\ UNCHANGED setup)
FairSpec == Spec /\ Fairness

--------------------------------------------------------------------------------
(* Properties.                                                             *)

\* A Ready result of the key is about the VM the pod has now: no late probe and no
\* agent of an earlier VM or incarnation leaves its answer to the next one
\* (Manager.setOwned and Forget, against applyRuntime).
ResultIsCurrent == result.ready => bound \in {0, result.vm}

\* The current pod, once it has a VM, has an agent that probes it, whatever
\* evictions, deletes and detaches forget agents beside the bring-up (Start,
\* Forget, untrackIncarnation).
ProbedWhenBound ==
    tracked # 0 /\ tracked = api.uid /\ bound # 0 /\ op.pc = "idle"
        => agent # "none" /\ ag[agent].pc \in {"sleep", "probe", "update", "push"}

\* The apiserver ends up showing what is true of the pod, although pushes overtake
\* each other, replace each other in the framework's queue, or are dropped: pending
\* without a VM, Ready if the guest answers and the lifecycle is ready, else not
\* (Manager.run, buildOnUpdate, reconcilePodStatuses).
Truth ==
    IF bound = 0 THEN "pending"
    ELSE IF bound \in reach /\ life = "ready" THEN "ready"
    ELSE "notready"
StatusConverges ==
    ~May("silent") => <>[](tracked # 0 /\ tracked = api.uid => api.status = Truth)
================================================================================
