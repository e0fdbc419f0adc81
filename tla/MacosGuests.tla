------------------------------ MODULE MacosGuests ------------------------------
(***************************************************************************)
(* The QEMU guests of os=macos pods (provider/cocoon/macos.go).  The cocoon *)
(* runtime knows nothing of them: no event stream and no orphan scan sees   *)
(* them, so the pod's create, its delete, the delete hook of a failed create*)
(* and the repair the readiness probe makes when the process dies are all   *)
(* that ever looks after one.  They share the tables under p.mu; every call *)
(* of cocoon-macos is made without the lock, and the repair is detached: it *)
(* goes on after its probe agent was cancelled.                             *)
(*                                                                         *)
(* Each pod key has a VM name of its own, and its incarnations share it.    *)
(* UIDs and process IDs are numbered in the order they are handed out.      *)
(***************************************************************************)
EXTENDS Integers

CONSTANTS
    Keys,           \* pod keys
    MaxUID,         \* bound: pods created
    MaxCrashes,     \* bound: QEMU processes that die
    MaxPort,        \* macosVNCPortSpan: the VNC ports of the node are 1..MaxPort
    MaxRestarts,    \* bound: restarts of vk-cocoon
    Faults          \* what may go wrong, a subset of FaultKinds

FaultKinds == {"launch", "remove",  \* `vm run` or `vm start`, `vm rm` fails
               "record",            \* a failed `vm run` leaves a record behind
               "reinspect",         \* the inspect after a launch fails
               "inspect", "blind",  \* the inspect of a create, of a startup fails
               "hook",              \* the `vm rm` of the delete hook fails
               "force",             \* a pod is force deleted while it is created
               "crash"}             \* vk-cocoon restarts while a pod-less guest is left

ASSUME MacosAssumption ==
    /\ MaxUID \in Nat /\ MaxCrashes \in Nat /\ MaxPort \in Nat /\ MaxRestarts \in Nat
    /\ Faults \subseteq FaultKinds

VARIABLES
    api,        \* the pod of each key at the apiserver, with its vnc-port annotation
    lastUID,    \* UIDs handed out so far
    removed,    \* pods removed from the apiserver whose delete event is not handled yet
    guest,      \* the record and the process cocoon-macos has for each key
    lastPID,    \* process IDs handed out so far
    crashes,    \* processes that died so far
    pods,       \* UID of p.pods[key]
    pid,        \* process ID of p.vmsByPod[key]
    vnc,        \* p.macosVNC
    leftover,   \* p.macosLeftover
    deleting,   \* p.deleting
    agent,      \* incarnation whose probe agent is registered
    op,         \* the framework's worker and the delete hook of each key
    fix,        \* fix[k][u]: what the probe of incarnation u is doing to the guest
    starting,   \* keys the startup reconcile has yet to look at
    restarts    \* restarts of vk-cocoon so far

cluster == <<api, lastUID, removed>>
host == <<guest, lastPID, crashes>>
tables == <<pods, pid, vnc, leftover>>
restart == <<starting, restarts>>
vars == <<cluster, host, tables, deleting, agent, op, fix, restart>>

UID == 1..MaxUID
Ports == 1..MaxPort
NoVM == -1                  \* no entry in p.vmsByPod; 0: one without a record yet
Worker == "worker"
Hook == "hook"

NoPod == [uid |-> 0, term |-> FALSE, ran |-> FALSE, port |-> 0]
NoGuest == [state |-> "none", pid |-> 0, port |-> 0]
Guests == [state: {"none", "dead", "live"}, pid: Nat, port: 0..MaxPort]

\* rec: the record read last; port: the port of the launch
OpPCs == {"idle", "inspect", "run", "start", "reinspect", "bind", "publish", "fail",
          "claim", "rm", "forget", "gone"}
Idle == [pc |-> "idle", uid |-> 0, port |-> 0, rec |-> NoGuest]
FixPCs == {"idle", "backfill", "inspect", "start", "reinspect", "check", "update", "adopt"}
NoFix == [pc |-> "idle", rec |-> NoGuest]

\* The types of the variables.  A VM is bound to a key only while a pod is tracked
\* there, so createMacosPod never finds its VM tracked already: what is tracked is
\* updated, and an update for another incarnation detaches the tracked one first.
TypeOK ==
    /\ api \in [Keys -> [uid: 0..MaxUID, term: BOOLEAN, ran: BOOLEAN, port: 0..MaxPort]]
    /\ lastUID \in 0..MaxUID
    /\ removed \subseteq Keys \X UID
    /\ guest \in [Keys -> Guests]
    /\ lastPID \in Nat
    /\ crashes \in 0..MaxCrashes
    /\ pods \in [Keys -> 0..MaxUID]
    /\ pid \in [Keys -> Nat \cup {NoVM}]
    /\ vnc \in [Keys -> 0..MaxPort]
    /\ leftover \in [Keys -> 0..MaxUID]
    /\ deleting \in [Keys -> BOOLEAN]
    /\ agent \in [Keys -> 0..MaxUID]
    /\ op \in [{Worker, Hook} -> [Keys ->
                 [pc: OpPCs, uid: 0..MaxUID, port: 0..MaxPort, rec: Guests]]]
    /\ fix \in [Keys -> [UID -> [pc: FixPCs, rec: Guests]]]
    /\ starting \subseteq Keys
    /\ restarts \in 0..MaxRestarts
    /\ \A k \in Keys : pid[k] # NoVM => pods[k] # 0

Init ==
    /\ api = [k \in Keys |-> NoPod]
    /\ lastUID = 0
    /\ removed = {}
    /\ guest = [k \in Keys |-> NoGuest]
    /\ lastPID = 0
    /\ crashes = 0
    /\ pods = [k \in Keys |-> 0]
    /\ pid = [k \in Keys |-> NoVM]
    /\ vnc = [k \in Keys |-> 0]
    /\ leftover = [k \in Keys |-> 0]
    /\ deleting = [k \in Keys |-> FALSE]
    /\ agent = [k \in Keys |-> 0]
    /\ op = [a \in {Worker, Hook} |-> [k \in Keys |-> Idle]]
    /\ fix = [k \in Keys |-> [u \in UID |-> NoFix]]
    /\ starting = {}
    /\ restarts = 0

May(fault) == fault \in Faults
Up == starting = {}

--------------------------------------------------------------------------------
(* Users, the guests' processes, and cocoon-macos.                         *)

ApiCreate(k) ==
    /\ api[k].uid = 0
    /\ lastUID < MaxUID
    /\ lastUID' = lastUID + 1
    /\ api' = [api EXCEPT ![k] = [NoPod EXCEPT !.uid = lastUID + 1]]
    /\ UNCHANGED <<removed, host, tables, deleting, agent, op, fix, restart>>

ApiTerminate(k) ==
    /\ api[k].uid # 0
    /\ ~api[k].term
    /\ api' = [api EXCEPT ![k].term = TRUE]
    /\ UNCHANGED <<lastUID, removed, host, tables, deleting, agent, op, fix, restart>>

\* The pod leaves the apiserver, and its delete event is on the way.
ApiDrops(k) ==
    /\ api' = [api EXCEPT ![k] = NoPod]
    /\ removed' = removed \cup {<<k, api[k].uid>>}

\* A force delete, not while vk-cocoon is away.
ApiRemove(k) ==
    /\ api[k].uid # 0
    /\ Up
    /\ op[Worker][k].pc = "idle" \/ May("force")
    /\ ApiDrops(k)
    /\ UNCHANGED <<lastUID, host, tables, deleting, agent, op, fix, restart>>

\* The guest powers off or crashes; --exit-on-reboot makes a reboot one too.
GuestDies(k) ==
    /\ guest[k].state = "live"
    /\ crashes < MaxCrashes
    /\ crashes' = crashes + 1
    /\ guest' = [guest EXCEPT ![k].state = "dead"]
    /\ UNCHANGED <<cluster, lastPID, tables, deleting, agent, op, fix, restart>>

\* QEMU cannot bind a display that another process serves.
Free(port) == port = 0 \/ \A k \in Keys : guest[k].state = "live" => guest[k].port # port

\* `vm run` needs the name free, `vm start` a record without a process.
Launches(k, from, port) ==
    /\ guest[k].state = from
    /\ Free(port)
    /\ UNCHANGED crashes
    /\ lastPID' = lastPID + 1
    /\ guest' = [guest EXCEPT ![k] = [state |-> "live", pid |-> lastPID + 1, port |-> port]]

\* A launch fails because of its guest, of the display, or for reasons of its own.
LaunchFails(k, from, port) ==
    /\ guest[k].state # from \/ ~Free(port) \/ May("launch")
    /\ \/ UNCHANGED host
       \/ /\ May("record")
          /\ from = "none"
          /\ guest[k].state = "none"
          /\ guest' = [guest EXCEPT ![k].state = "dead"]
          /\ UNCHANGED <<lastPID, crashes>>

\* macosProcessAlive of the process the tables name
Alive(k) == guest[k].state = "live" /\ guest[k].pid = pid[k]

Environment ==
    \E k \in Keys : ApiCreate(k) \/ ApiTerminate(k) \/ ApiRemove(k) \/ GuestDies(k)

--------------------------------------------------------------------------------
(* The tables under p.mu.                                                  *)

Superseded(k, u) == pods[k] # 0 /\ pods[k] # u

\* untrackLocked and Probes.Forget: all but p.pods
Clear(k) ==
    /\ pid' = [pid EXCEPT ![k] = NoVM]
    /\ vnc' = [vnc EXCEPT ![k] = 0]
    /\ leftover' = [leftover EXCEPT ![k] = 0]
    /\ agent' = [agent EXCEPT ![k] = 0]

\* Mutant: the VM of a forgotten pod stays bound.
ForgetPodOnly(k) ==
    /\ pods' = [pods EXCEPT ![k] = 0]
    /\ UNCHANGED <<pid, vnc, leftover, agent>>

Forget(k) == Clear(k) /\ pods' = [pods EXCEPT ![k] = 0]

UsedPorts == {vnc[k] : k \in Keys} \ {0}

\* The first port of the range that no entry holds, if there is one.
FirstFree == {p \in Ports \ UsedPorts : \A q \in Ports \ UsedPorts : p <= q}

\* The port claimMacosVNCPort reserves; 0: there is none left.
ClaimMacosVNCPort(k, preferred) ==
    IF vnc[k] # 0 THEN vnc[k]
    ELSE IF preferred \in Ports \ UsedPorts THEN preferred
    ELSE IF FirstFree = {} THEN 0 ELSE CHOOSE p \in FirstFree : TRUE

\* The vnc-port annotation follows the table, fenced by the UID of the pod.
ReconcileRuntimeEndpoints(k, u, port) ==
    api' = IF u # 0 /\ api[k].uid = u /\ pid'[k] # NoVM
           THEN [api EXCEPT ![k].port = port] ELSE api

\* One pass of runStatusReconciler over the pod.
ReconcilePodStatus(k) ==
    /\ api[k].uid = pods[k]
    /\ UNCHANGED <<lastUID, removed, host, tables, deleting, agent, op, fix, restart>>
    /\ ReconcileRuntimeEndpoints(k, pods[k], vnc[k])

--------------------------------------------------------------------------------
(* CreatePod of a macOS pod, run by the framework's worker of the key.     *)

Work(k) == op[Worker][k]
Goto(a, k, pc) == op' = [op EXCEPT ![a][k].pc = pc]
Ends(a, k) == op' = [op EXCEPT ![a][k] = Idle]

\* The framework creates a pod it cannot find; for another incarnation's pod it
\* updates, and updatePod detaches that one first.
CreatePod(k) ==
    /\ Up
    /\ Work(k).pc = "idle"
    /\ api[k].uid \notin {0, pods[k]}
    /\ ~api[k].term
    /\ ~deleting[k]
    /\ IF pods[k] = 0 THEN UNCHANGED <<pid, vnc, leftover, agent>> ELSE Clear(k)
    /\ pods' = [pods EXCEPT ![k] = api[k].uid]
    /\ op' = [op EXCEPT ![Worker][k] = [Idle EXCEPT !.pc = "inspect", !.uid = api[k].uid]]
    /\ UNCHANGED <<cluster, host, deleting, fix, restart>>

\* A live guest is adopted with the display it serves, a dead one started, and one
\* without a record run, on a port reserved for it.
CreateInspect(k) ==
    /\ Work(k).pc = "inspect"
    /\ \E rec \in {guest[k]} \cup IF May("inspect") THEN {NoGuest} ELSE {} :
         LET preferred == IF api[k].uid = Work(k).uid THEN api[k].port ELSE 0
             port == IF rec.state = "live" THEN rec.port ELSE ClaimMacosVNCPort(k, preferred)
             next == CASE rec.state = "live" -> "bind"
                       [] rec.state = "dead" -> "start"
                       [] OTHER -> "run"
         IN /\ vnc' = [vnc EXCEPT ![k] = port]
            /\ op' = [op EXCEPT ![Worker][k] = [@ EXCEPT !.pc = next, !.port = port, !.rec = rec]]
    /\ UNCHANGED <<cluster, host, pods, pid, leftover, deleting, agent, fix, restart>>

NeededFor(pc) == IF pc = "run" THEN "none" ELSE "dead"

CreateLaunches(k) ==
    /\ Work(k).pc \in {"run", "start"}
    /\ Launches(k, NeededFor(Work(k).pc), Work(k).port)
    /\ Goto(Worker, k, "reinspect")
    /\ UNCHANGED <<cluster, tables, deleting, agent, fix, restart>>

CreateLaunchFails(k) ==
    /\ Work(k).pc \in {"run", "start"}
    /\ LaunchFails(k, NeededFor(Work(k).pc), Work(k).port)
    /\ Goto(Worker, k, "fail")
    /\ UNCHANGED <<cluster, tables, deleting, agent, fix, restart>>

CreateReinspect(k) ==
    /\ Work(k).pc = "reinspect"
    /\ \E rec \in {guest[k]} \cup IF May("reinspect") THEN {NoGuest} ELSE {} :
         op' = [op EXCEPT ![Worker][k] = [@ EXCEPT !.pc = "bind", !.rec = rec]]
    /\ UNCHANGED <<cluster, host, tables, deleting, agent, fix, restart>>

\* Mutant: the pod of a failed create is forgotten with its claim.
DropLeftover(k) ==
    /\ Work(k).pc = "fail"
    /\ pods' = [pods EXCEPT ![k] = 0]
    /\ vnc' = [vnc EXCEPT ![k] = 0]
    /\ leftover' = [leftover EXCEPT ![k] = 0]
    /\ Ends(Worker, k)
    /\ UNCHANGED <<cluster, host, pid, deleting, agent, fix, restart>>

\* failCreate keeps the port and remembers the pod unless cocoon-macos is sure that
\* nothing is left.
FailCreate(k) ==
    /\ Work(k).pc = "fail"
    /\ IF Superseded(k, Work(k).uid)
       THEN UNCHANGED tables
       ELSE /\ pods' = [pods EXCEPT ![k] = 0]
            /\ UNCHANGED pid
            /\ \/ /\ guest[k].state = "none"
                  /\ vnc' = [vnc EXCEPT ![k] = 0]
                  /\ leftover' = [leftover EXCEPT ![k] = 0]
               \/ /\ guest[k].state # "none" \/ May("inspect")
                  /\ leftover' = [leftover EXCEPT ![k] = Work(k).uid]
                  /\ UNCHANGED vnc
    /\ Ends(Worker, k)
    /\ UNCHANGED <<cluster, host, deleting, agent, fix, restart>>

\* bindRuntime tracks the guest unless another incarnation or a delete took the key.
CreateBind(k) ==
    /\ Work(k).pc = "bind"
    /\ IF deleting[k] \/ Superseded(k, Work(k).uid)
       THEN Ends(Worker, k) /\ UNCHANGED tables
       ELSE /\ pods' = [pods EXCEPT ![k] = Work(k).uid]
            /\ pid' = [pid EXCEPT ![k] = Work(k).rec.pid]
            /\ UNCHANGED <<vnc, leftover>>
            /\ Goto(Worker, k, "publish")
    /\ UNCHANGED <<cluster, host, deleting, agent, fix, restart>>

\* The annotations are published and the probe starts; a pod of the same name that
\* took this one's place makes it let go of the guest.
CreatePublish(k) ==
    /\ Work(k).pc = "publish"
    /\ IF api[k].uid \notin {0, Work(k).uid}
       THEN IF deleting[k] \/ pods[k] # Work(k).uid
            THEN UNCHANGED <<api, tables, agent>>
            ELSE Forget(k) /\ UNCHANGED api
       ELSE /\ UNCHANGED tables
            /\ api' = IF api[k].uid = 0 THEN api
                      ELSE [api EXCEPT ![k].port = vnc[k], ![k].ran = TRUE]
            /\ agent' = [agent EXCEPT ![k] = Work(k).uid]
    /\ Ends(Worker, k)
    /\ UNCHANGED <<lastUID, removed, host, deleting, fix, restart>>

Creates(k) ==
    \/ CreatePod(k) \/ CreateInspect(k) \/ CreateLaunches(k) \/ CreateLaunchFails(k)
    \/ CreateReinspect(k) \/ FailCreate(k) \/ CreateBind(k) \/ CreatePublish(k)

--------------------------------------------------------------------------------
(* DeletePod, run by the worker, or by the hook for a create that failed.   *)

\* The framework deletes a terminating pod that ran, and a tracked pod the apiserver
\* lost.
DeletePod(k) ==
    /\ Up
    /\ Work(k).pc = "idle"
    /\ \E u \in UID :
         /\ \/ u = api[k].uid /\ api[k].term /\ api[k].ran
            \/ u = pods[k] /\ api[k].uid = 0
         /\ op' = [op EXCEPT ![Worker][k] = [Idle EXCEPT !.pc = "claim", !.uid = u]]
    /\ UNCHANGED <<cluster, host, tables, deleting, agent, fix, restart>>

\* A terminating pod that never ran is removed without a DeletePod.
FrameworkRemoves(k) ==
    /\ Up
    /\ Work(k).pc = "idle"
    /\ api[k].uid # 0
    /\ api[k].term
    /\ ~api[k].ran
    /\ ApiDrops(k)
    /\ UNCHANGED <<lastUID, host, tables, deleting, agent, op, fix, restart>>

\* The informer's delete event reaches DeleteFailedMacosCreate.
DeleteFailedMacosCreate(k, u) ==
    /\ Up
    /\ <<k, u>> \in removed
    /\ op[Hook][k].pc = "idle"
    /\ removed' = removed \ {<<k, u>>}
    /\ op' = IF pods[k] = 0 /\ leftover[k] = u
             THEN [op EXCEPT ![Hook][k] = [Idle EXCEPT !.pc = "claim", !.uid = u]]
             ELSE op
    /\ UNCHANGED <<api, lastUID, host, tables, deleting, agent, fix, restart>>

\* podLock keeps one delete at a time; claimDeleting refuses a superseded pod, and
\* the framework then drops it from the apiserver as after any delete.
DeleteClaim(a, k) ==
    /\ op[a][k].pc = "claim"
    /\ ~deleting[k]
    /\ IF Superseded(k, op[a][k].uid)
       THEN Goto(a, k, "gone") /\ UNCHANGED deleting
       ELSE Goto(a, k, "rm") /\ deleting' = [deleting EXCEPT ![k] = TRUE]
    /\ UNCHANGED <<cluster, host, tables, agent, fix, restart>>

\* deleteMacosPod cancels the probe agent and removes the VM by its name.  A failed
\* removal keeps the pod tracked for the retry.
DeleteRemovesVM(a, k) ==
    /\ op[a][k].pc = "rm"
    /\ agent' = [agent EXCEPT ![k] = 0]
    /\ guest' = [guest EXCEPT ![k] = NoGuest]
    /\ Goto(a, k, "forget")
    /\ UNCHANGED <<cluster, lastPID, crashes, tables, deleting, fix, restart>>

\* Mutant: the pod of a VM that could not be removed is forgotten all the same.
ForgetAnyway(a, k) ==
    /\ op[a][k].pc = "rm"
    /\ May("remove")
    /\ agent' = [agent EXCEPT ![k] = 0]
    /\ Goto(a, k, "forget")
    /\ UNCHANGED <<cluster, host, tables, deleting, fix, restart>>

DeleteRemoveFails(a, k) ==
    /\ op[a][k].pc = "rm"
    /\ IF a = Hook THEN May("hook") ELSE May("remove")
    /\ agent' = [agent EXCEPT ![k] = 0]
    /\ deleting' = [deleting EXCEPT ![k] = FALSE]
    /\ Ends(a, k)
    /\ UNCHANGED <<cluster, host, tables, fix, restart>>

DeleteForgets(a, k) ==
    /\ op[a][k].pc = "forget"
    /\ Forget(k)
    /\ deleting' = [deleting EXCEPT ![k] = FALSE]
    /\ Goto(a, k, "gone")
    /\ UNCHANGED <<cluster, host, fix, restart>>

\* The framework removes a pod whose delete succeeded.
DeleteEnds(a, k) ==
    /\ op[a][k].pc = "gone"
    /\ IF a = Worker /\ api[k].uid = op[a][k].uid THEN ApiDrops(k) ELSE UNCHANGED <<api, removed>>
    /\ Ends(a, k)
    /\ UNCHANGED <<lastUID, host, tables, deleting, agent, fix, restart>>

Deletes(k) ==
    \/ DeletePod(k)
    \/ FrameworkRemoves(k)
    \/ \E u \in UID : DeleteFailedMacosCreate(k, u)
    \/ \E a \in {Worker, Hook} :
         \/ DeleteClaim(a, k) \/ DeleteRemovesVM(a, k) \/ DeleteRemoveFails(a, k)
         \/ DeleteForgets(a, k) \/ DeleteEnds(a, k)

--------------------------------------------------------------------------------
(* The probe of incarnation u repairs its guest.                           *)

FixGoto(k, u, pc, rec) == fix' = [fix EXCEPT ![k][u] = [pc |-> pc, rec |-> rec]]

\* A tick of a registered agent: a record never read is read, a dead process repaired.
Probe(k, u) ==
    /\ agent[k] = u
    /\ fix[k][u].pc = "idle"
    /\ pods[k] = u
    /\ \/ /\ pid[k] = 0
          /\ guest[k].state # "none"
          /\ FixGoto(k, u, "backfill", guest[k])
       \/ /\ pid[k] > 0
          /\ ~Alive(k)
          /\ FixGoto(k, u, "inspect", NoGuest)
    /\ UNCHANGED <<cluster, host, tables, deleting, agent, op, restart>>

\* The record goes to whatever VM the key has now: macosVMID is that of the name.
ProbeBackfills(k, u) ==
    /\ fix[k][u].pc = "backfill"
    /\ pid' = IF pid[k] = NoVM THEN pid ELSE [pid EXCEPT ![k] = fix[k][u].rec.pid]
    /\ FixGoto(k, u, "idle", NoGuest)
    /\ UNCHANGED <<cluster, host, pods, vnc, leftover, deleting, agent, op, restart>>

\* recoverMacosVM: a record that is live by now is adopted; the port of a restart is
\* the reserved one.
RecoverInspect(k, u) ==
    /\ fix[k][u].pc = "inspect"
    /\ \E rec \in {guest[k]} \cup IF May("reinspect") THEN {NoGuest} ELSE {} :
         IF rec.state = "live"
         THEN FixGoto(k, u, "check", rec)
         ELSE FixGoto(k, u, "start", [NoGuest EXCEPT !.port = vnc[k]])
    /\ UNCHANGED <<cluster, host, tables, deleting, agent, op, restart>>

RecoverStarts(k, u) ==
    /\ fix[k][u].pc = "start"
    /\ Launches(k, "dead", fix[k][u].rec.port)
    /\ FixGoto(k, u, "reinspect", NoGuest)
    /\ UNCHANGED <<cluster, tables, deleting, agent, op, restart>>

RecoverStartFails(k, u) ==
    /\ fix[k][u].pc = "start"
    /\ LaunchFails(k, "dead", fix[k][u].rec.port)
    /\ FixGoto(k, u, "idle", NoGuest)
    /\ UNCHANGED <<cluster, tables, deleting, agent, op, restart>>

RecoverReinspect(k, u) ==
    /\ fix[k][u].pc = "reinspect"
    /\ \E rec \in {guest[k]} \cup IF May("reinspect") THEN {NoGuest} ELSE {} :
         FixGoto(k, u, IF rec.state = "none" THEN "idle" ELSE "check", rec)
    /\ UNCHANGED <<cluster, host, tables, deleting, agent, op, restart>>

\* updateRecoveredMacosVM takes the lock three times: for the incarnation, for the
\* VM, for the port.
RecoverCheck(k, u) ==
    /\ fix[k][u].pc = "check"
    /\ IF pods[k] = u THEN FixGoto(k, u, "update", fix[k][u].rec)
                      ELSE FixGoto(k, u, "idle", NoGuest)
    /\ UNCHANGED <<cluster, host, tables, deleting, agent, op, restart>>

\* Mutant: the process ID of the restarted guest is not stored.
KeepPID(k, u) ==
    /\ fix[k][u].pc = "update"
    /\ FixGoto(k, u, IF pid[k] = NoVM THEN "idle" ELSE "adopt", fix[k][u].rec)
    /\ UNCHANGED <<cluster, host, tables, deleting, agent, op, restart>>

RecoverUpdate(k, u) ==
    /\ fix[k][u].pc = "update"
    /\ IF pid[k] = NoVM
       THEN FixGoto(k, u, "idle", NoGuest) /\ UNCHANGED pid
       ELSE FixGoto(k, u, "adopt", fix[k][u].rec)
            /\ pid' = [pid EXCEPT ![k] = fix[k][u].rec.pid]
    /\ UNCHANGED <<cluster, host, pods, vnc, leftover, deleting, agent, op, restart>>

RecoverAdoptsPort(k, u) ==
    /\ fix[k][u].pc = "adopt"
    /\ vnc' = [vnc EXCEPT ![k] = fix[k][u].rec.port]
    /\ UNCHANGED <<pods, pid, leftover>>
    /\ ReconcileRuntimeEndpoints(k, pods[k], fix[k][u].rec.port)
    /\ FixGoto(k, u, "idle", NoGuest)
    /\ UNCHANGED <<lastUID, removed, host, deleting, agent, op, restart>>

Repairs(k, u) ==
    \/ Probe(k, u) \/ ProbeBackfills(k, u) \/ RecoverInspect(k, u) \/ RecoverStarts(k, u)
    \/ RecoverStartFails(k, u) \/ RecoverReinspect(k, u) \/ RecoverCheck(k, u)
    \/ RecoverUpdate(k, u) \/ RecoverAdoptsPort(k, u)

--------------------------------------------------------------------------------
(* vk-cocoon restarts: its tables and goroutines are gone, and so are the   *)
(* delete events it had not handled.                                       *)

Restart ==
    /\ restarts < MaxRestarts
    /\ May("crash") \/ \A k \in Keys : guest[k].state # "none" => api[k].uid # 0
    /\ restarts' = restarts + 1
    /\ starting' = {k \in Keys : api[k].uid # 0}
    /\ removed' = {}
    /\ pods' = [k \in Keys |-> 0]
    /\ pid' = [k \in Keys |-> NoVM]
    /\ vnc' = [k \in Keys |-> 0]
    /\ leftover' = [k \in Keys |-> 0]
    /\ deleting' = [k \in Keys |-> FALSE]
    /\ agent' = [k \in Keys |-> 0]
    /\ op' = [a \in {Worker, Hook} |-> [k \in Keys |-> Idle]]
    /\ fix' = [k \in Keys |-> [u \in UID |-> NoFix]]
    /\ UNCHANGED <<api, lastUID, host>>

\* reconcileMacosPod adopts a live guest and leaves a dead one to CreatePod.
ReconcileMacosPod(k) ==
    /\ k \in starting
    /\ starting' = starting \ {k}
    /\ \E rec \in {guest[k]} \cup IF May("blind") THEN {NoGuest} ELSE {} :
         LET u == api[k].uid
         IN CASE rec.state = "live" ->
                   /\ pods' = [pods EXCEPT ![k] = u]
                   /\ pid' = [pid EXCEPT ![k] = rec.pid]
                   /\ vnc' = [vnc EXCEPT ![k] = rec.port]
                   /\ api' = [api EXCEPT ![k].port = rec.port, ![k].ran = TRUE]
                   /\ agent' = IF api[k].term THEN agent ELSE [agent EXCEPT ![k] = u]
                   /\ UNCHANGED leftover
              [] rec.state = "dead" ->
                   /\ leftover' = [leftover EXCEPT ![k] = u]
                   /\ UNCHANGED <<api, pods, pid, vnc, agent>>
              [] OTHER -> UNCHANGED <<api, tables, agent>>
    /\ UNCHANGED <<lastUID, removed, host, deleting, op, fix, restarts>>

--------------------------------------------------------------------------------

Next ==
    \/ Environment
    \/ Restart
    \/ \E k \in Keys :
         \/ Creates(k)
         \/ Deletes(k)
         \/ ReconcilePodStatus(k)
         \/ ReconcileMacosPod(k)
         \/ \E u \in UID : Repairs(k, u)

Spec == Init /\ [][Next]_vars

\* An inspect succeeds.
CreateSees(k) == CreateInspect(k) /\ op'[Worker][k].rec = guest[k]

RecoverSees(k, u) ==
    /\ RecoverInspect(k, u) \/ RecoverReinspect(k, u)
    /\ fix'[k][u].pc = "check"

\* Every worker, hook and probe goes on; a launch, a removal or an inspect that is
\* tried again and again succeeds at last.
Fairness ==
    \A k \in Keys :
        /\ WF_vars(Creates(k))
        /\ WF_vars(Deletes(k))
        /\ WF_vars(ReconcilePodStatus(k))
        /\ WF_vars(ReconcileMacosPod(k))
        /\ \A u \in UID : WF_vars(Repairs(k, u))
        /\ SF_vars(CreateSees(k)) /\ SF_vars(CreateLaunches(k))
        /\ \A a \in {Worker, Hook} : SF_vars(DeleteRemovesVM(a, k))
        /\ \A u \in UID : SF_vars(RecoverStarts(k, u)) /\ SF_vars(RecoverSees(k, u))

FairSpec == Spec /\ Fairness

--------------------------------------------------------------------------------
(* Properties.                                                             *)

\* A guest that cocoon-macos has a record of is looked after: its pod is tracked or
\* still at the apiserver, or a create, a delete or the hook works on it, or the
\* delete event that will find it in p.macosLeftover is on the way.  No orphan scan
\* sees QEMU guests, so failCreate, reconcileMacosPod and deleteMacosPod must between
\* them never drop the last trace of one.
NoGuestIsLost ==
    \A k \in Keys : guest[k].state # "none" =>
        \/ pods[k] # 0
        \/ api[k].uid # 0
        \/ <<k, leftover[k]>> \in removed
        \/ \E a \in {Worker, Hook} : op[a][k].pc # "idle"

\* The node agrees with the pod: the tables name the process that runs, and the
\* vnc-port annotation is the reserved port.
Settled(k) ==
    /\ ~api[k].term
    /\ pods[k] = api[k].uid
    /\ Alive(k)
    /\ api[k].port = vnc[k]

\* Once the pods change no more, every pod at the apiserver has a live guest that the
\* tables and the annotations describe: crashes, failed launches and inspects,
\* restarts of vk-cocoon, and the repair of an earlier incarnation that starts the
\* guest under its successor's create (recoverMacosVM), are all recovered from.
PodsSettle == \A k \in Keys : <>[](api[k].uid = 0 \/ Settled(k))

\* A guest does not outlive its pods: deleteMacosPod is retried until `vm rm`
\* succeeds, and a repair under way does not bring the guest back for good.
GuestGoesWithPod ==
    \A k \in Keys : <>[](api[k].uid = 0) => <>[](guest[k].state = "none")

\* claimMacosVNCPort: "reserves a node-unique VNC port for key".
PortsUnique ==
    \A k, j \in Keys : k # j /\ vnc[k] = vnc[j] => vnc[k] = 0

================================================================================
