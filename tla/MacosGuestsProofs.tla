--------------------------- MODULE MacosGuestsProofs ---------------------------
(***************************************************************************)
(* For every number of pod keys, incarnations, crashes of guests, VNC ports *)
(* and restarts: a VM is bound only where a pod is tracked, whatever fails; *)
(* and no QEMU guest is lost, as long as the four things that the code      *)
(* accepts as losses do not happen: a force delete of a pod that is being   *)
(* created, a failed inspect at startup, a failed `vm rm` of the delete     *)
(* hook, and a restart while a guest without a pod waits for it.            *)
(***************************************************************************)
EXTENDS MacosGuests, TLAPS

Losses == {"force", "blind", "hook", "crash"}

AnyPort == 0..MaxPort
PodRec == [uid: 0..MaxUID, term: BOOLEAN, ran: BOOLEAN, port: AnyPort]
GuestRec == [state: {"none", "dead", "live"}, pid: Nat, port: AnyPort]
OpRec == [pc: OpPCs, uid: 0..MaxUID, port: AnyPort, rec: GuestRec]
FixRec == [pc: FixPCs, rec: GuestRec]

\* The types of what the invariant speaks of.
Shape ==
    /\ api \in [Keys -> PodRec]
    /\ lastUID \in 0..MaxUID
    /\ removed \subseteq Keys \X (0..MaxUID)
    /\ guest \in [Keys -> GuestRec]
    /\ lastPID \in Nat
    /\ pods \in [Keys -> 0..MaxUID]
    /\ vnc \in [Keys -> AnyPort]
    /\ leftover \in [Keys -> 0..MaxUID]
    /\ deleting \in [Keys -> BOOLEAN]
    /\ op \in [{Worker, Hook} -> [Keys -> OpRec]]
    /\ fix \in [Keys -> [UID -> FixRec]]
    /\ starting \subseteq Keys

CreatePCs == {"inspect", "run", "start", "reinspect", "bind", "publish", "fail"}
HookPCs == {"idle", "claim", "rm", "forget", "gone"}
Removing(a, k) == op[a][k].pc \in {"rm", "forget"}

\* A create works for the pod that is tracked and at the apiserver, and no delete
\* runs beside it.
CreateOwnsKey(k) ==
    Work(k).pc \in CreatePCs =>
        /\ Work(k).uid # 0
        /\ pods[k] = Work(k).uid
        /\ api[k].uid = Work(k).uid
        /\ ~deleting[k]

\* What was removed from the apiserver is not there any more, and never again.
RemovedIsGone(k) ==
    /\ api[k].uid <= lastUID
    /\ \A u \in UID : <<k, u>> \in removed => u # api[k].uid /\ u <= lastUID
    /\ op[Hook][k].pc # "idle" =>
         op[Hook][k].uid # api[k].uid /\ op[Hook][k].uid # 0 /\ op[Hook][k].uid <= lastUID

\* One delete at a time, and a pod is forgotten after its guest.
DeleteIsExclusive(k) ==
    /\ op[Hook][k].pc \in HookPCs
    /\ \A a \in {Worker, Hook} : Removing(a, k) => deleting[k]
    /\ ~(Removing(Worker, k) /\ Removing(Hook, k))
    /\ \A a \in {Worker, Hook} : op[a][k].pc = "forget" => guest[k].state = "none"

\* The startup reconcile runs before the workers.
StartupIsFirst(k) ==
    /\ k \in starting => api[k].uid # 0
    /\ starting # {} => \A a \in {Worker, Hook} : op[a][k].pc = "idle"

\* Who will find the guest: a tracked pod, the startup reconcile, the pod that the
\* leftover was recorded for, its delete event, or the hook.
LookedAfter(k) ==
    guest[k].state # "none" =>
        \/ pods[k] # 0
        \/ k \in starting
        \/ leftover[k] # 0 /\ leftover[k] = api[k].uid
        \/ <<k, leftover[k]>> \in removed
        \/ op[Hook][k].pc \in {"claim", "rm"}

KeyInv(k) ==
    /\ CreateOwnsKey(k) /\ RemovedIsGone(k) /\ DeleteIsExclusive(k)
    /\ StartupIsFirst(k) /\ LookedAfter(k)

Inv == Shape /\ \A k \in Keys : KeyInv(k)

--------------------------------------------------------------------------------
(* The shape.                                                              *)

LEMMA Constants ==
    /\ 0 \in 0..MaxUID /\ 0 \in AnyPort
    /\ NoPod \in PodRec /\ NoPod.uid = 0
    /\ NoGuest \in GuestRec /\ NoGuest.state = "none"
    /\ Idle \in OpRec /\ Idle.pc = "idle"
    /\ NoFix \in FixRec
    /\ Worker # Hook
<1>1. 0 \in 0..MaxUID /\ 0 \in AnyPort
  BY MacosAssumption DEF AnyPort
<1>2. NoPod \in PodRec /\ NoPod.uid = 0
  BY <1>1 DEF NoPod, PodRec
<1>3. NoGuest \in GuestRec /\ NoGuest.state = "none"
  BY <1>1 DEF NoGuest, GuestRec
<1>4. Idle \in OpRec /\ Idle.pc = "idle"
  BY <1>1, <1>3 DEF Idle, OpRec, OpPCs
<1>5. NoFix \in FixRec
  BY <1>3, Zenon DEF NoFix, FixRec, FixPCs
<1> QED BY <1>1, <1>2, <1>3, <1>4, <1>5 DEF Worker, Hook

\* An actor takes a step on one key.
LEMMA OpStep ==
    ASSUME Shape, NEW a \in {Worker, Hook}, NEW k \in Keys, NEW r \in OpRec,
           op' = [op EXCEPT ![a][k] = r]
    PROVE  /\ op' \in [{Worker, Hook} -> [Keys -> OpRec]]
           /\ op'[a][k] = r
           /\ \A b \in {Worker, Hook}, j \in Keys : b # a \/ j # k => op'[b][j] = op[b][j]
BY Zenon DEF Shape

LEMMA OpGoto ==
    ASSUME Shape, NEW a \in {Worker, Hook}, NEW k \in Keys, NEW pc \in OpPCs, Goto(a, k, pc)
    PROVE  /\ op' \in [{Worker, Hook} -> [Keys -> OpRec]]
           /\ op'[a][k].pc = pc /\ op'[a][k].uid = op[a][k].uid
           /\ \A b \in {Worker, Hook}, j \in Keys : b # a \/ j # k => op'[b][j] = op[b][j]
<1> DEFINE r == [op[a][k] EXCEPT !.pc = pc]
<1>1. op[a][k] \in OpRec
  BY DEF Shape
<1>2. r \in OpRec /\ r.pc = pc /\ r.uid = op[a][k].uid
  BY <1>1 DEF OpRec
<1>3. op' = [op EXCEPT ![a][k] = r]
  BY Zenon DEF Goto
<1> HIDE DEF r
<1> QED BY <1>2, <1>3 DEF Shape

LEMMA OpEnds ==
    ASSUME Shape, NEW a \in {Worker, Hook}, NEW k \in Keys, Ends(a, k)
    PROVE  /\ op' \in [{Worker, Hook} -> [Keys -> OpRec]]
           /\ op'[a][k] = Idle
           /\ \A b \in {Worker, Hook}, j \in Keys : b # a \/ j # k => op'[b][j] = op[b][j]
BY Constants DEF Ends, Shape

LEMMA FixStep ==
    ASSUME Shape, NEW k \in Keys, NEW u \in UID, NEW pc \in FixPCs, NEW rec \in GuestRec,
           FixGoto(k, u, pc, rec)
    PROVE  fix' \in [Keys -> [UID -> FixRec]]
<1>1. [pc |-> pc, rec |-> rec] \in FixRec
  BY DEF FixRec
<1> QED BY <1>1 DEF Shape, FixGoto

\* claimMacosVNCPort hands out a port of the node or none.
LEMMA ClaimTyped ==
    ASSUME Shape, NEW k \in Keys, NEW preferred
    PROVE  ClaimMacosVNCPort(k, preferred) \in AnyPort
<1>1. vnc[k] \in AnyPort
  BY DEF Shape
<1>2. Ports \subseteq Nat /\ Ports \subseteq AnyPort /\ 0 \in AnyPort
  BY MacosAssumption DEF Ports, AnyPort
<1>3. CASE FirstFree = {}
  BY <1>1, <1>2, <1>3, Zenon DEF ClaimMacosVNCPort
<1>4. CASE FirstFree # {}
  <2>1. (CHOOSE p \in FirstFree : TRUE) \in Ports
    BY <1>4 DEF FirstFree
  <2> QED BY <1>1, <1>2, <2>1, Zenon DEF ClaimMacosVNCPort
<1> QED BY <1>3, <1>4

\* Facts about the host that every launch needs.
LEMMA DiesTyped ==
    ASSUME Shape, NEW k \in Keys
    PROVE  [guest EXCEPT ![k].state = "dead"] \in [Keys -> GuestRec]
<1>1. guest[k] \in GuestRec
  BY DEF Shape
<1>2. [guest[k] EXCEPT !.state = "dead"] \in GuestRec
  BY <1>1 DEF GuestRec
<1> QED BY <1>2 DEF Shape

LEMMA LaunchTyped ==
    ASSUME Shape, NEW k \in Keys, NEW from, NEW port \in AnyPort,
           Launches(k, from, port) \/ LaunchFails(k, from, port)
    PROVE  guest' \in [Keys -> GuestRec] /\ lastPID' \in Nat
<1>1. CASE Launches(k, from, port)
  <2>1. lastPID + 1 \in Nat
    BY DEF Shape
  <2>2. [state |-> "live", pid |-> lastPID + 1, port |-> port] \in GuestRec
    BY <2>1, Zenon DEF GuestRec
  <2> QED BY <1>1, <2>1, <2>2 DEF Shape, Launches
<1>2. CASE LaunchFails(k, from, port)
  BY <1>2, DiesTyped DEF Shape, LaunchFails, host
<1> QED BY <1>1, <1>2, Zenon

LEMMA DropTyped ==
    ASSUME Shape, NEW k \in Keys, ApiDrops(k)
    PROVE  api' \in [Keys -> PodRec] /\ removed' \subseteq Keys \X (0..MaxUID)
<1>1. api[k].uid \in 0..MaxUID
  BY DEF Shape, PodRec
<1> QED BY <1>1, Constants DEF Shape, ApiDrops

LEMMA ShapeEnvironment ==
    ASSUME Shape, NEW k \in Keys,
           ApiCreate(k) \/ ApiTerminate(k) \/ ApiRemove(k) \/ GuestDies(k)
    PROVE  Shape'
<1>1. CASE ApiCreate(k)
  <2>1. lastUID + 1 \in 0..MaxUID
    BY <1>1, MacosAssumption DEF Shape, ApiCreate
  <2>2. [NoPod EXCEPT !.uid = lastUID + 1] \in PodRec
    BY <2>1, Constants DEF PodRec
  <2> QED BY <1>1, <2>1, <2>2 DEF Shape, ApiCreate, host, tables, restart
<1>2. CASE ApiTerminate(k)
  <2>1. api' \in [Keys -> PodRec]
    <3>1. api \in [Keys -> PodRec] /\ api' = [api EXCEPT ![k] = [api[k] EXCEPT !.term = TRUE]]
      BY <1>2, Zenon DEF Shape, ApiTerminate
    <3>2. [api[k] EXCEPT !.term = TRUE] \in PodRec
      BY <3>1 DEF PodRec
    <3> QED BY <3>1, <3>2, Zenon
  <2> QED BY <1>2, <2>1 DEF Shape, ApiTerminate, host, tables, restart
<1>3. CASE ApiRemove(k)
  BY <1>3, DropTyped DEF Shape, ApiRemove, host, tables, restart
<1>4. CASE GuestDies(k)
  <2>1. guest' \in [Keys -> GuestRec]
    BY <1>4, DiesTyped DEF GuestDies
  <2> QED BY <1>4, <2>1 DEF Shape, GuestDies, cluster, tables, restart
<1> QED BY <1>1, <1>2, <1>3, <1>4

LEMMA EndpointsTyped ==
    ASSUME Shape, NEW k \in Keys, NEW u, NEW port \in AnyPort,
           ReconcileRuntimeEndpoints(k, u, port)
    PROVE  /\ api' \in [Keys -> PodRec]
           /\ \A j \in Keys : api'[j].uid = api[j].uid
<1>1. api \in [Keys -> PodRec] /\ api[k] \in PodRec
  BY DEF Shape
<1>2. CASE api' = api
  BY <1>1, <1>2
<1>3. CASE api' = [api EXCEPT ![k] = [api[k] EXCEPT !.port = port]]
  <2>1. [api[k] EXCEPT !.port = port] \in PodRec /\ [api[k] EXCEPT !.port = port].uid = api[k].uid
    BY <1>1 DEF PodRec
  <2> QED BY <1>1, <1>3, <2>1, Zenon
<1> QED BY <1>2, <1>3, Zenon DEF ReconcileRuntimeEndpoints

LEMMA ShapeReconcile ==
    ASSUME Shape, NEW k \in Keys, ReconcilePodStatus(k)
    PROVE  Shape'
<1>1. vnc[k] \in AnyPort
  BY DEF Shape
<1>2. api' \in [Keys -> PodRec]
  BY <1>1, EndpointsTyped DEF ReconcilePodStatus
<1> QED BY <1>2 DEF Shape, ReconcilePodStatus, host, tables, restart

LEMMA ClearTyped ==
    ASSUME Shape, NEW k \in Keys, Clear(k)
    PROVE  /\ vnc' \in [Keys -> AnyPort]
           /\ leftover' \in [Keys -> 0..MaxUID]
BY Constants DEF Shape, Clear

LEMMA ShapeRestart ==
    ASSUME Shape, Restart
    PROVE  Shape'
BY Constants DEF Shape, Restart, host

LEMMA ShapeReconcileMacosPod ==
    ASSUME Shape, NEW k \in Keys, ReconcileMacosPod(k)
    PROVE  Shape'
<1>1. PICK rec \in {guest[k], NoGuest} :
        LET u == api[k].uid
        IN CASE rec.state = "live" ->
                   /\ pods' = [pods EXCEPT ![k] = u]
                   /\ vnc' = [vnc EXCEPT ![k] = rec.port]
                   /\ api' = [api EXCEPT ![k].port = rec.port, ![k].ran = TRUE]
                   /\ UNCHANGED leftover
              [] rec.state = "dead" ->
                   /\ leftover' = [leftover EXCEPT ![k] = u]
                   /\ UNCHANGED <<api, pods, pid, vnc, agent>>
              [] OTHER -> UNCHANGED <<api, tables, agent>>
  BY DEF ReconcileMacosPod
<1>2. rec \in GuestRec /\ rec.port \in AnyPort /\ rec.state \in {"none", "dead", "live"}
  BY Constants DEF Shape, GuestRec
<1>3. api[k].uid \in 0..MaxUID
  BY DEF Shape, PodRec
<1>4. CASE rec.state = "live"
  <2>1. api' \in [Keys -> PodRec]
    <3>0. api[k] \in PodRec
      BY DEF Shape
    <3>1. [api[k] EXCEPT !.port = rec.port, !.ran = TRUE] \in PodRec
      BY <1>2, <3>0, Zenon DEF PodRec
    <3>2. api' = [api EXCEPT ![k] = [api[k] EXCEPT !.port = rec.port, !.ran = TRUE]]
      BY <1>1, <1>4, Zenon
    <3> QED BY <3>1, <3>2 DEF Shape
  <2> QED BY <1>1, <1>2, <1>3, <1>4, <2>1, Zenon DEF Shape, ReconcileMacosPod, host
<1>5. CASE rec.state = "dead"
  BY <1>1, <1>2, <1>3, <1>5, Zenon DEF Shape, ReconcileMacosPod, host
<1>6. CASE rec.state = "none"
  BY <1>1, <1>6 DEF Shape, ReconcileMacosPod, host, tables
<1> QED BY <1>2, <1>4, <1>5, <1>6

\* The step of CreateInspect, with its choices named.
LEMMA CreateInspectStep ==
    ASSUME Shape, NEW k \in Keys, CreateInspect(k)
    PROVE  \E r \in OpRec :
             /\ r.pc \in {"bind", "start", "run"}
             /\ r.uid = Work(k).uid
             /\ op' = [op EXCEPT ![Worker][k] = r]
             /\ vnc' = [vnc EXCEPT ![k] = r.port]
             /\ r.pc = "bind" \/ \E p : r.port = ClaimMacosVNCPort(k, p)
<1>1. PICK rec \in {guest[k], NoGuest} :
         LET preferred == IF api[k].uid = Work(k).uid THEN api[k].port ELSE 0
             port == IF rec.state = "live" THEN rec.port ELSE ClaimMacosVNCPort(k, preferred)
             next == CASE rec.state = "live" -> "bind"
                       [] rec.state = "dead" -> "start"
                       [] OTHER -> "run"
         IN /\ vnc' = [vnc EXCEPT ![k] = port]
            /\ op' = [op EXCEPT ![Worker][k] = [@ EXCEPT !.pc = next, !.port = port, !.rec = rec]]
  BY ZenonT(30) DEF CreateInspect
<1> DEFINE preferred == IF api[k].uid = Work(k).uid THEN api[k].port ELSE 0
           port == IF rec.state = "live" THEN rec.port ELSE ClaimMacosVNCPort(k, preferred)
           next == CASE rec.state = "live" -> "bind"
                     [] rec.state = "dead" -> "start"
                     [] OTHER -> "run"
           r == [op[Worker][k] EXCEPT !.pc = next, !.port = port, !.rec = rec]
<1>2. rec \in GuestRec /\ rec.port \in AnyPort
  BY Constants DEF Shape, GuestRec
<1>3. port \in AnyPort
  BY <1>2, ClaimTyped
<1>4. next \in {"bind", "start", "run"}
  OBVIOUS
<1>p. next = "bind" \/ port = ClaimMacosVNCPort(k, preferred)
  <2>1. CASE rec.state = "live"
    BY <2>1, Zenon
  <2>2. CASE rec.state # "live"
    BY <2>2, Zenon
  <2> QED BY <2>1, <2>2
<1>5. vnc' = [vnc EXCEPT ![k] = port] /\ op' = [op EXCEPT ![Worker][k] = r]
  BY <1>1
<1> HIDE DEF port, next
<1>6. op[Worker][k] \in OpRec
  BY DEF Shape
<1>7. r \in OpRec /\ r.pc = next /\ r.port = port /\ r.uid = Work(k).uid
  BY <1>2, <1>3, <1>4, <1>6, Zenon DEF OpRec, OpPCs, Work
<1> HIDE DEF r, preferred
<1> QED BY <1>4, <1>p, <1>5, <1>7, Zenon

LEMMA ShapeCreates ==
    ASSUME Shape, NEW k \in Keys, Creates(k)
    PROVE  Shape'
<1>0. op[Worker][k] \in OpRec /\ Work(k).uid \in 0..MaxUID /\ Work(k).port \in AnyPort
  BY DEF Shape, OpRec, Work
<1>1. CASE CreatePod(k)
  <2>1. api[k].uid \in 0..MaxUID
    BY DEF Shape, PodRec
  <2>2. [Idle EXCEPT !.pc = "inspect", !.uid = api[k].uid] \in OpRec
    BY <2>1, Constants, Zenon DEF OpRec, OpPCs
  <2>3. op' \in [{Worker, Hook} -> [Keys -> OpRec]]
    BY <1>1, <2>2 DEF Shape, CreatePod
  <2>4. vnc' \in [Keys -> AnyPort] /\ leftover' \in [Keys -> 0..MaxUID]
    BY <1>1, ClearTyped DEF Shape, CreatePod
  <2> QED BY <1>1, <2>1, <2>3, <2>4, Zenon DEF Shape, CreatePod, cluster, host, restart
<1>2. CASE CreateInspect(k)
  <2>1. PICK r \in OpRec : /\ op' = [op EXCEPT ![Worker][k] = r]
                           /\ vnc' = [vnc EXCEPT ![k] = r.port]
    BY <1>2, CreateInspectStep
  <2>2. r.port \in AnyPort
    BY DEF OpRec
  <2> QED BY <1>2, <2>1, <2>2 DEF Shape, CreateInspect, cluster, host, restart
<1>3. CASE CreateLaunches(k)
  <2>1. op' \in [{Worker, Hook} -> [Keys -> OpRec]]
    BY <1>3, OpGoto, Zenon DEF CreateLaunches, OpPCs
  <2>2. guest' \in [Keys -> GuestRec] /\ lastPID' \in Nat
    BY <1>0, <1>3, LaunchTyped DEF CreateLaunches
  <2> QED BY <1>3, <2>1, <2>2, Zenon DEF Shape, CreateLaunches, cluster, tables, restart
<1>4. CASE CreateLaunchFails(k)
  <2>1. op' \in [{Worker, Hook} -> [Keys -> OpRec]]
    BY <1>4, OpGoto, Zenon DEF CreateLaunchFails, OpPCs
  <2>2. guest' \in [Keys -> GuestRec] /\ lastPID' \in Nat
    BY <1>0, <1>4, LaunchTyped, Zenon DEF CreateLaunchFails
  <2> QED BY <1>4, <2>1, <2>2 DEF Shape, CreateLaunchFails, cluster, tables, restart
<1>5. CASE CreateReinspect(k)
  <2>1. PICK rec \in {guest[k], NoGuest} :
          op' = [op EXCEPT ![Worker][k] = [op[Worker][k] EXCEPT !.pc = "bind", !.rec = rec]]
    BY <1>5, Zenon DEF CreateReinspect
  <2>2. rec \in GuestRec
    BY Constants DEF Shape
  <2>3. [op[Worker][k] EXCEPT !.pc = "bind", !.rec = rec] \in OpRec
    BY <1>0, <2>2, Zenon DEF OpRec, OpPCs
  <2> QED BY <1>5, <2>1, <2>3 DEF Shape, CreateReinspect, cluster, host, tables, restart
<1>6. CASE FailCreate(k)
  <2>1. op' \in [{Worker, Hook} -> [Keys -> OpRec]]
    BY <1>6, OpEnds, Zenon DEF FailCreate
  <2>2. /\ pods' \in [Keys -> 0..MaxUID] /\ leftover' \in [Keys -> 0..MaxUID]
        /\ vnc' \in [Keys -> AnyPort]
    BY <1>0, <1>6, Constants, Zenon DEF Shape, FailCreate, tables
  <2> QED BY <1>6, <2>1, <2>2 DEF Shape, FailCreate, cluster, host, restart
<1>7. CASE CreateBind(k)
  <2>1. op' \in [{Worker, Hook} -> [Keys -> OpRec]]
    BY <1>7, OpEnds, OpGoto, Zenon DEF CreateBind, OpPCs
  <2>2. pods' \in [Keys -> 0..MaxUID] /\ UNCHANGED <<vnc, leftover>>
    BY <1>0, <1>7, Zenon DEF Shape, CreateBind, tables
  <2> QED BY <1>7, <2>1, <2>2 DEF Shape, CreateBind, cluster, host, restart
<1>8. CASE CreatePublish(k)
  <2>1. op' \in [{Worker, Hook} -> [Keys -> OpRec]]
    BY <1>8, OpEnds, Zenon DEF CreatePublish
  <2>2. [api[k] EXCEPT !.port = vnc[k], !.ran = TRUE] \in PodRec
    <3>1. api[k] \in PodRec /\ vnc[k] \in AnyPort
      BY DEF Shape
    <3> QED BY <3>1, Zenon DEF PodRec
  <2>3. \/ UNCHANGED api
        \/ api' = [api EXCEPT ![k] = [api[k] EXCEPT !.port = vnc[k], !.ran = TRUE]]
    BY <1>8, Zenon DEF CreatePublish
  <2>4. api' \in [Keys -> PodRec]
    BY <2>2, <2>3, Zenon DEF Shape
  <2>5. UNCHANGED tables \/ Forget(k)
    BY <1>8 DEF CreatePublish
  <2>6. /\ pods' \in [Keys -> 0..MaxUID] /\ leftover' \in [Keys -> 0..MaxUID]
        /\ vnc' \in [Keys -> AnyPort]
    BY <2>5, ClearTyped, Constants, Zenon DEF Shape, Forget, tables
  <2> QED BY <1>8, <2>1, <2>4, <2>6 DEF Shape, CreatePublish, host, restart
<1> QED BY <1>1, <1>2, <1>3, <1>4, <1>5, <1>6, <1>7, <1>8 DEF Creates

LEMMA ClaimOp ==
    ASSUME NEW u \in UID
    PROVE  LET r == [Idle EXCEPT !.pc = "claim", !.uid = u]
           IN r \in OpRec /\ r.pc = "claim" /\ r.uid = u
<1>1. u \in 0..MaxUID
  BY MacosAssumption DEF UID
<1> QED BY <1>1, Constants, Zenon DEF OpRec, OpPCs

LEMMA ShapeDeletes ==
    ASSUME Shape, NEW k \in Keys, Deletes(k)
    PROVE  Shape'
<1>1. CASE DeletePod(k)
  <2>1. PICK u \in UID :
          op' = [op EXCEPT ![Worker][k] = [Idle EXCEPT !.pc = "claim", !.uid = u]]
    BY <1>1, Zenon DEF DeletePod
  <2>2. [Idle EXCEPT !.pc = "claim", !.uid = u] \in OpRec
    BY ClaimOp, Zenon
  <2> QED BY <1>1, <2>1, <2>2 DEF Shape, DeletePod, cluster, host, tables, restart
<1>2. CASE FrameworkRemoves(k)
  BY <1>2, DropTyped DEF Shape, FrameworkRemoves, host, tables, restart
<1>3. ASSUME NEW u \in UID, DeleteFailedMacosCreate(k, u)
      PROVE  Shape'
  <2>1. [Idle EXCEPT !.pc = "claim", !.uid = u] \in OpRec
    BY ClaimOp, Zenon
  <2> QED BY <1>3, <2>1, Zenon DEF Shape, DeleteFailedMacosCreate, host, tables, restart
<1>4. ASSUME NEW a \in {Worker, Hook}, DeleteClaim(a, k)
      PROVE  Shape'
  <2>1. op' \in [{Worker, Hook} -> [Keys -> OpRec]]
    BY <1>4, OpGoto, Zenon DEF DeleteClaim, OpPCs
  <2> QED BY <1>4, <2>1, Zenon DEF Shape, DeleteClaim, cluster, host, tables, restart
<1>5. ASSUME NEW a \in {Worker, Hook}, DeleteRemovesVM(a, k)
      PROVE  Shape'
  <2>1. op' \in [{Worker, Hook} -> [Keys -> OpRec]]
    BY <1>5, OpGoto, Zenon DEF DeleteRemovesVM, OpPCs
  <2> QED BY <1>5, <2>1, Constants, Zenon DEF Shape, DeleteRemovesVM, cluster, tables, restart
<1>6. ASSUME NEW a \in {Worker, Hook}, DeleteRemoveFails(a, k)
      PROVE  Shape'
  <2>1. op' \in [{Worker, Hook} -> [Keys -> OpRec]]
    BY <1>6, OpEnds, Zenon DEF DeleteRemoveFails
  <2> QED BY <1>6, <2>1, Zenon DEF Shape, DeleteRemoveFails, cluster, host, tables, restart
<1>7. ASSUME NEW a \in {Worker, Hook}, DeleteForgets(a, k)
      PROVE  Shape'
  <2>1. op' \in [{Worker, Hook} -> [Keys -> OpRec]]
    BY <1>7, OpGoto, Zenon DEF DeleteForgets, OpPCs
  <2> QED BY <1>7, <2>1, ClearTyped, Constants, Zenon
          DEF Shape, DeleteForgets, Forget, cluster, host, restart
<1>8. ASSUME NEW a \in {Worker, Hook}, DeleteEnds(a, k)
      PROVE  Shape'
  <2>1. op' \in [{Worker, Hook} -> [Keys -> OpRec]]
    BY <1>8, OpEnds, Zenon DEF DeleteEnds
  <2>2. api' \in [Keys -> PodRec] /\ removed' \subseteq Keys \X (0..MaxUID)
    BY <1>8, DropTyped, Zenon DEF DeleteEnds, Shape
  <2> QED BY <1>8, <2>1, <2>2, Zenon DEF Shape, DeleteEnds, host, tables, restart
<1> QED BY <1>1, <1>2, <1>3, <1>4, <1>5, <1>6, <1>7, <1>8, Zenon DEF Deletes

LEMMA ShapeRepairs ==
    ASSUME Shape, NEW k \in Keys, NEW u \in UID, Repairs(k, u)
    PROVE  Shape'
<1>0. /\ fix[k][u] \in FixRec /\ fix[k][u].rec \in GuestRec /\ fix[k][u].rec.port \in AnyPort
      /\ guest[k] \in GuestRec /\ NoGuest \in GuestRec /\ vnc[k] \in AnyPort
  BY Constants DEF Shape, FixRec, GuestRec
<1> USE DEF FixPCs
<1>1. CASE Probe(k, u)
  BY <1>0, <1>1, FixStep, Zenon DEF Shape, Probe, cluster, host, tables, restart
<1>2. CASE ProbeBackfills(k, u)
  BY <1>0, <1>2, FixStep, Zenon DEF Shape, ProbeBackfills, cluster, host, restart
<1>3. CASE RecoverInspect(k, u)
  <2>1. [NoGuest EXCEPT !.port = vnc[k]] \in GuestRec
    BY <1>0 DEF GuestRec
  <2>2. fix' \in [Keys -> [UID -> FixRec]]
    BY <1>0, <1>3, <2>1, FixStep DEF RecoverInspect
  <2> QED BY <1>3, <2>2, Zenon DEF Shape, RecoverInspect, cluster, host, tables, restart
<1>4. CASE RecoverStarts(k, u)
  <2>1. guest' \in [Keys -> GuestRec] /\ lastPID' \in Nat
    BY <1>0, <1>4, LaunchTyped, Zenon DEF RecoverStarts
  <2>2. fix' \in [Keys -> [UID -> FixRec]]
    BY <1>0, <1>4, FixStep, Zenon DEF RecoverStarts
  <2> QED BY <1>4, <2>1, <2>2, Zenon DEF Shape, RecoverStarts, cluster, tables, restart
<1>5. CASE RecoverStartFails(k, u)
  <2>1. guest' \in [Keys -> GuestRec] /\ lastPID' \in Nat
    BY <1>0, <1>5, LaunchTyped, Zenon DEF RecoverStartFails
  <2>2. fix' \in [Keys -> [UID -> FixRec]]
    BY <1>0, <1>5, FixStep, Zenon DEF RecoverStartFails
  <2> QED BY <1>5, <2>1, <2>2, Zenon DEF Shape, RecoverStartFails, cluster, tables, restart
<1>6. CASE RecoverReinspect(k, u)
  <2>1. fix' \in [Keys -> [UID -> FixRec]]
    BY <1>0, <1>6, FixStep, Zenon DEF RecoverReinspect
  <2> QED BY <1>6, <2>1, Zenon DEF Shape, RecoverReinspect, cluster, host, tables, restart
<1>7. CASE RecoverCheck(k, u)
  <2>1. fix' \in [Keys -> [UID -> FixRec]]
    BY <1>0, <1>7, FixStep, Zenon DEF RecoverCheck
  <2> QED BY <1>7, <2>1, Zenon DEF Shape, RecoverCheck, cluster, host, tables, restart
<1>8. CASE RecoverUpdate(k, u)
  <2>1. fix' \in [Keys -> [UID -> FixRec]]
    BY <1>0, <1>8, FixStep, Zenon DEF RecoverUpdate
  <2> QED BY <1>8, <2>1, Zenon DEF Shape, RecoverUpdate, cluster, host, restart
<1>9. CASE RecoverAdoptsPort(k, u)
  <2>1. fix' \in [Keys -> [UID -> FixRec]]
    BY <1>0, <1>9, FixStep, Zenon DEF RecoverAdoptsPort
  <2>2. api' \in [Keys -> PodRec]
    BY <1>0, <1>9, EndpointsTyped DEF RecoverAdoptsPort
  <2> QED BY <1>0, <1>9, <2>1, <2>2, Zenon DEF Shape, RecoverAdoptsPort, host, restart
<1> QED BY <1>1, <1>2, <1>3, <1>4, <1>5, <1>6, <1>7, <1>8, <1>9, Zenon DEF Repairs

LEMMA ShapeNext ==
    ASSUME Shape, [Next]_vars
    PROVE  Shape'
<1>1. CASE UNCHANGED vars
  BY <1>1, Zenon DEF Shape, vars, cluster, host, tables, restart
<1>2. CASE Next
  BY <1>2, ShapeEnvironment, ShapeReconcile, ShapeRestart, ShapeReconcileMacosPod,
     ShapeCreates, ShapeDeletes, ShapeRepairs, Zenon DEF Next, Environment
<1> QED BY <1>1, <1>2, Zenon

--------------------------------------------------------------------------------
(* A VM is bound only where a pod is tracked, whatever fails.              *)

\* The types of what the shape leaves out.
Counts ==
    /\ removed \subseteq Keys \X UID
    /\ crashes \in 0..MaxCrashes
    /\ pid \in [Keys -> Nat \cup {NoVM}]
    /\ agent \in [Keys -> 0..MaxUID]
    /\ restarts \in 0..MaxRestarts

\* A worker works for a pod, and its create has no VM bound until its bind:
\* bindRuntime is the only step that binds one, the startup reconcile apart, which
\* runs before every create.
Unbound(k) ==
    /\ Work(k).pc # "idle" => Work(k).uid # 0
    /\ Work(k).pc \in CreatePCs \ {"publish"} => pid[k] = NoVM
Bound(k) == pid[k] # NoVM => pods[k] # 0
KeyTracks(k) == Bound(k) /\ Unbound(k) /\ StartupIsFirst(k)
Tracks == Shape /\ Counts /\ \A k \in Keys : KeyTracks(k)

\* What a step leaves alone when it binds nothing on key j.
Kept(j) ==
    /\ api'[j].uid = api[j].uid
    /\ pods'[j] = pods[j]
    /\ pid'[j] = pid[j] \/ (pid[j] # NoVM /\ pid'[j] # NoVM)
    /\ \A a \in {Worker, Hook} : op'[a][j].pc = op[a][j].pc /\ op'[a][j].uid = op[a][j].uid
    /\ j \in starting' => j \in starting
    /\ starting' # {} => starting # {}

LEMMA KeptKeepsTracks ==
    ASSUME Tracks, NEW j \in Keys, Kept(j)
    PROVE  KeyTracks(j)'
<1>1. Worker \in {Worker, Hook} /\ KeyTracks(j)
  BY DEF Tracks
<1>2. Bound(j)'
  BY <1>1, Zenon DEF KeyTracks, Kept, Bound
<1>3. Unbound(j)'
  BY <1>1, Zenon DEF KeyTracks, Kept, Unbound, Work
<1>4. StartupIsFirst(j)'
  BY <1>1 DEF KeyTracks, Kept, StartupIsFirst
<1> QED BY <1>2, <1>3, <1>4 DEF KeyTracks

LEMMA KeptStep ==
    ASSUME Tracks, Shape', Counts', NEW k \in Keys, \A j \in Keys \ {k} : Kept(j), KeyTracks(k)'
    PROVE  Tracks'
<1>1. ASSUME NEW j \in Keys PROVE KeyTracks(j)'
  <2>1. CASE j = k
    BY <2>1
  <2>2. CASE j # k
    BY <2>2, KeptKeepsTracks
  <2> QED BY <2>1, <2>2
<1> QED BY <1>1 DEF Tracks

LEMMA TracksEnvironment ==
    ASSUME Tracks, Shape', NEW k \in Keys,
           ApiCreate(k) \/ ApiTerminate(k) \/ ApiRemove(k) \/ GuestDies(k)
    PROVE  Tracks'
<1>0. Shape /\ Counts /\ KeyTracks(k) /\ api[k] \in PodRec /\ api[k].uid \in 0..MaxUID
  BY DEF Tracks, Shape, PodRec
<1>1. CASE ApiCreate(k)
  <2>1. Counts'
    BY <1>0, <1>1, Zenon DEF Counts, ApiCreate, host, tables, restart
  <2>2. \A j \in Keys \ {k} : Kept(j)
    BY <1>0, <1>1, Zenon DEF Kept, Shape, ApiCreate, host, tables, restart
  <2>3. api'[k].uid # 0
    BY <1>0, <1>1 DEF Shape, ApiCreate, NoPod
  <2>4. KeyTracks(k)'
    BY <1>0, <1>1, <2>3, Zenon
       DEF KeyTracks, Bound, Unbound, StartupIsFirst, Work, ApiCreate, host, tables, restart
  <2> QED BY <2>1, <2>2, <2>4, KeptStep, Zenon
<1>2. CASE ApiTerminate(k)
  <2>1. Counts'
    BY <1>0, <1>2 DEF Counts, ApiTerminate, host, tables, restart
  <2>2. \A j \in Keys : Kept(j)
    BY <1>0, <1>2, Zenon DEF Kept, Shape, PodRec, ApiTerminate, host, tables, restart
  <2> QED BY <2>1, <2>2, KeptKeepsTracks, KeptStep, Zenon
<1>3. CASE ApiRemove(k)
  <2>1. Counts'
    <3>1. <<k, api[k].uid>> \in Keys \X UID
      BY <1>0, <1>3 DEF ApiRemove, UID
    <3> QED BY <1>0, <1>3, <3>1, Zenon DEF Counts, ApiRemove, ApiDrops, host, tables, restart
  <2>2. \A j \in Keys \ {k} : Kept(j)
    BY <1>0, <1>3, Zenon DEF Kept, Shape, ApiRemove, ApiDrops, host, tables, restart
  <2>3. KeyTracks(k)'
    BY <1>0, <1>3, Zenon DEF KeyTracks, Bound, Unbound, StartupIsFirst, Work, Up,
                      ApiRemove, host, tables, restart
  <2> QED BY <2>1, <2>2, <2>3, KeptStep
<1>4. CASE GuestDies(k)
  <2>1. crashes' \in 0..MaxCrashes
    BY <1>0, <1>4, MacosAssumption DEF Counts, GuestDies
  <2>2. Counts'
    BY <1>0, <1>4, <2>1, Zenon DEF Counts, GuestDies, cluster, tables, restart
  <2>3. \A j \in Keys : Kept(j)
    BY <1>0, <1>4 DEF Kept, GuestDies, cluster, tables, restart
  <2> QED BY <2>2, <2>3, KeptKeepsTracks, KeptStep
<1> QED BY <1>1, <1>2, <1>3, <1>4, Zenon

\* A launch counts no crash.
LEMMA LaunchCounts ==
    ASSUME NEW k, NEW from, NEW port, Counts,
           Launches(k, from, port) \/ LaunchFails(k, from, port)
    PROVE  crashes' = crashes
BY DEF Launches, LaunchFails, host

LEMMA ClearCounts ==
    ASSUME Counts, NEW k \in Keys, Clear(k)
    PROVE  /\ pid' \in [Keys -> Nat \cup {NoVM}]
           /\ agent' \in [Keys -> 0..MaxUID]
           /\ pid'[k] = NoVM
           /\ \A j \in Keys \ {k} : pid'[j] = pid[j]
BY Constants, Zenon DEF Counts, Clear

\* A step of an actor that leaves the tables alone.
LEMMA TracksQuiet ==
    ASSUME Tracks, Shape', Counts', NEW k \in Keys, NEW a \in {Worker, Hook},
           UNCHANGED <<api, pods, pid, starting>>, starting = {},
           \A b \in {Worker, Hook}, j \in Keys : b # a \/ j # k => op'[b][j] = op[b][j],
           Unbound(k)'
    PROVE  Tracks'
<1>1. \A j \in Keys \ {k} : Kept(j)
  BY Zenon DEF Kept
<1>2. KeyTracks(k)'
  BY DEF Tracks, KeyTracks, Bound, StartupIsFirst
<1> QED BY <1>1, <1>2, KeptStep, Zenon

LEMMA TracksCreates ==
    ASSUME Tracks, Shape', NEW k \in Keys, Creates(k)
    PROVE  Tracks'
<1>0. /\ Shape /\ Counts /\ KeyTracks(k) /\ Bound(k) /\ Unbound(k) /\ StartupIsFirst(k)
      /\ Worker \in {Worker, Hook} /\ Worker # Hook
      /\ op[Worker][k] \in OpRec /\ Work(k).uid \in 0..MaxUID /\ Work(k).rec \in GuestRec
      /\ Work(k).rec.pid \in Nat
  BY Constants DEF Tracks, KeyTracks, Shape, OpRec, GuestRec, Work
<1>s. Work(k).pc # "idle" => starting = {}
  BY <1>0, Zenon DEF StartupIsFirst, Work
<1>1. CASE CreatePod(k)
  <2> DEFINE r == [Idle EXCEPT !.pc = "inspect", !.uid = api[k].uid]
  <2>1. r.pc = "inspect" /\ r.uid = api[k].uid /\ api[k].uid # 0
    BY <1>1, Constants DEF OpRec, CreatePod
  <2>2. op' = [op EXCEPT ![Worker][k] = r]
    BY <1>1, Zenon DEF CreatePod
  <2> HIDE DEF r
  <2>3. Counts' /\ pid'[k] = NoVM /\ \A j \in Keys \ {k} : pid'[j] = pid[j]
    <3>1. CASE pods[k] = 0
      BY <1>0, <1>1, <3>1, Zenon DEF Bound, Counts, CreatePod, cluster, host, restart
    <3>2. CASE pods[k] # 0
      BY <1>0, <1>1, <3>2, ClearCounts, Zenon DEF Counts, CreatePod, cluster, host, restart
    <3> QED BY <3>1, <3>2, Zenon
  <2>4. \A j \in Keys \ {k} : Kept(j)
    BY <1>0, <1>1, <2>2, <2>3 DEF Kept, Shape, CreatePod, cluster, restart
  <2>5. starting' = {} /\ op'[Worker][k] = r
    BY <1>0, <1>1, <2>2 DEF Shape, CreatePod, Up, restart
  <2>6. KeyTracks(k)'
    BY <2>1, <2>3, <2>5, Zenon DEF KeyTracks, Bound, Unbound, StartupIsFirst, Work
  <2> QED BY <2>3, <2>4, <2>6, KeptStep, Zenon
<1>2. CASE CreateInspect(k)
  <2>1. PICK r \in OpRec : op' = [op EXCEPT ![Worker][k] = r] /\ r.uid = Work(k).uid
    BY <1>0, <1>2, CreateInspectStep
  <2>2. Counts'
    BY <1>0, <1>2, Zenon DEF Counts, CreateInspect, cluster, host, restart
  <2>3. /\ op'[Worker][k] = r
        /\ \A b \in {Worker, Hook}, j \in Keys : b # Worker \/ j # k => op'[b][j] = op[b][j]
    BY <1>0, <2>1, OpStep, Zenon
  <2>4. Unbound(k)'
    BY <1>0, <1>2, <2>1, <2>3 DEF Unbound, CreatePCs, Work, CreateInspect
  <2> QED BY <1>0, <1>s, <1>2, <2>2, <2>3, <2>4, TracksQuiet, Zenon
             DEF CreateInspect, cluster, restart
<1>3. CASE CreateLaunches(k) \/ CreateLaunchFails(k)
  <2>1. Counts'
    BY <1>0, <1>3, LaunchCounts, Zenon
       DEF Counts, CreateLaunches, CreateLaunchFails, cluster, tables, restart
  <2>2. /\ op'[Worker][k].uid = op[Worker][k].uid
        /\ \A b \in {Worker, Hook}, j \in Keys : b # Worker \/ j # k => op'[b][j] = op[b][j]
    BY <1>0, <1>3, OpGoto, Zenon DEF CreateLaunches, CreateLaunchFails, OpPCs
  <2>3. Unbound(k)'
    BY <1>0, <1>3, <2>2, Zenon
       DEF Unbound, CreatePCs, Work, CreateLaunches, CreateLaunchFails, tables
  <2> QED BY <1>0, <1>s, <1>3, <2>1, <2>2, <2>3, TracksQuiet, Zenon
          DEF CreateLaunches, CreateLaunchFails, cluster, tables, restart
<1>4. CASE CreateReinspect(k)
  <2>1. PICK rec \in {guest[k], NoGuest} :
          op' = [op EXCEPT ![Worker][k] = [op[Worker][k] EXCEPT !.pc = "bind", !.rec = rec]]
    BY <1>4, Zenon DEF CreateReinspect
  <2> DEFINE r == [op[Worker][k] EXCEPT !.pc = "bind", !.rec = rec]
  <2>2. r.uid = Work(k).uid
    BY <1>0 DEF OpRec, Work
  <2>3. op' = [op EXCEPT ![Worker][k] = r]
    BY <2>1
  <2> HIDE DEF r
  <2>4. /\ op'[Worker][k] = r
        /\ \A b \in {Worker, Hook}, j \in Keys : b # Worker \/ j # k => op'[b][j] = op[b][j]
    BY <1>0, <2>3, Zenon DEF Shape
  <2>5. Counts'
    BY <1>0, <1>4, Zenon DEF Counts, CreateReinspect, cluster, host, tables, restart
  <2>6. Unbound(k)'
    BY <1>0, <1>4, <2>2, <2>4, Zenon DEF Unbound, CreatePCs, Work, CreateReinspect, tables
  <2> QED BY <1>0, <1>s, <1>4, <2>4, <2>5, <2>6, TracksQuiet, Zenon
          DEF CreateReinspect, cluster, tables, restart
<1>5. CASE FailCreate(k)
  <2>1. Counts' /\ UNCHANGED pid /\ pid[k] = NoVM
    BY <1>0, <1>5, Zenon
       DEF Counts, FailCreate, Unbound, CreatePCs, cluster, host, tables, restart
  <2>2. /\ op'[Worker][k] = Idle
        /\ \A b \in {Worker, Hook}, j \in Keys : b # Worker \/ j # k => op'[b][j] = op[b][j]
    BY <1>0, <1>5, OpEnds, Zenon DEF FailCreate
  <2>3. \A j \in Keys \ {k} : pods'[j] = pods[j]
    BY <1>0, <1>5, Zenon DEF FailCreate, Shape, tables
  <2>4. \A j \in Keys \ {k} : Kept(j)
    BY <1>5, <2>1, <2>2, <2>3, Zenon DEF Kept, FailCreate, cluster, restart
  <2>5. KeyTracks(k)'
    BY <1>0, <1>s, <1>5, <2>1, <2>2, Constants, Zenon
       DEF KeyTracks, Bound, Unbound, StartupIsFirst, CreatePCs, Work, FailCreate, cluster, restart
  <2> QED BY <2>1, <2>4, <2>5, KeptStep, Zenon
<1>6. CASE CreateBind(k)
  <2>1. CASE deleting[k] \/ Superseded(k, Work(k).uid)
    <3>1. Counts' /\ UNCHANGED tables /\ Ends(Worker, k)
      BY <1>0, <1>6, <2>1, Zenon DEF Counts, CreateBind, cluster, host, tables, restart
    <3>2. /\ op'[Worker][k] = Idle
          /\ \A b \in {Worker, Hook}, j \in Keys : b # Worker \/ j # k => op'[b][j] = op[b][j]
      BY <1>0, <3>1, OpEnds, Zenon
    <3>3. Unbound(k)'
      BY <3>2, Constants DEF Unbound, CreatePCs, Work
    <3> QED BY <1>0, <1>s, <1>6, <3>1, <3>2, <3>3, TracksQuiet, Zenon
            DEF CreateBind, cluster, tables, restart
  <2>2. CASE ~(deleting[k] \/ Superseded(k, Work(k).uid))
    <3>1. /\ pods' = [pods EXCEPT ![k] = Work(k).uid]
          /\ pid' = [pid EXCEPT ![k] = Work(k).rec.pid]
          /\ Goto(Worker, k, "publish") /\ Work(k).uid # 0
      BY <1>0, <1>6, <2>2, Zenon DEF CreateBind, Unbound, CreatePCs
    <3>2. Counts'
      BY <1>0, <1>6, <3>1, Zenon DEF Counts, CreateBind, cluster, host, restart
    <3>3. /\ op'[Worker][k].pc = "publish" /\ op'[Worker][k].uid = Work(k).uid
          /\ \A b \in {Worker, Hook}, j \in Keys : b # Worker \/ j # k => op'[b][j] = op[b][j]
      BY <1>0, <3>1, OpGoto, Zenon DEF OpPCs, Work
    <3>4. \A j \in Keys \ {k} : pods'[j] = pods[j] /\ pid'[j] = pid[j]
      BY <1>0, <3>1, Zenon DEF Shape, Counts
    <3>5. \A j \in Keys \ {k} : Kept(j)
      BY <1>6, <3>3, <3>4, Zenon DEF Kept, CreateBind, cluster, restart
    <3>6. pods'[k] # 0
      BY <1>0, <3>1, Zenon DEF Shape
    <3>7. KeyTracks(k)'
      BY <1>0, <1>s, <1>6, <3>1, <3>3, <3>6, Zenon
         DEF KeyTracks, Bound, Unbound, StartupIsFirst, Work, CreateBind, restart
    <3> QED BY <3>2, <3>5, <3>7, KeptStep, Zenon
  <2> QED BY <2>1, <2>2, Zenon
<1>7. CASE CreatePublish(k)
  <2>1. UNCHANGED tables \/ Forget(k)
    BY <1>7, Zenon DEF CreatePublish
  <2>2. agent' \in [Keys -> 0..MaxUID] /\ pid' \in [Keys -> Nat \cup {NoVM}]
    BY <1>0, <1>7, <2>1, ClearCounts DEF CreatePublish, Counts, Forget, tables
  <2>3. Counts'
    BY <1>0, <1>7, <2>2, Zenon DEF Counts, CreatePublish, host, restart
  <2>4. \A j \in Keys : api'[j].uid = api[j].uid
    BY <1>0, <1>7 DEF CreatePublish, Shape, PodRec
  <2>5. /\ op'[Worker][k] = Idle
        /\ \A b \in {Worker, Hook}, j \in Keys : b # Worker \/ j # k => op'[b][j] = op[b][j]
    BY <1>0, <1>7, OpEnds, Zenon DEF CreatePublish
  <2>6. \A j \in Keys \ {k} : pods'[j] = pods[j] /\ pid'[j] = pid[j]
    BY <1>0, <2>1, ClearCounts DEF Forget, Shape, tables
  <2>7. \A j \in Keys \ {k} : Kept(j)
    BY <1>7, <2>4, <2>5, <2>6, Zenon DEF Kept, CreatePublish, restart
  <2>8. pid'[k] = NoVM \/ (pid'[k] = pid[k] /\ pods'[k] = pods[k])
    BY <1>0, <2>1, ClearCounts, Zenon DEF Forget, tables
  <2>9. KeyTracks(k)'
    BY <1>0, <1>s, <1>7, <2>5, <2>8, Constants, Zenon
       DEF KeyTracks, Bound, Unbound, StartupIsFirst, CreatePCs, Work, CreatePublish, restart
  <2> QED BY <2>3, <2>7, <2>9, KeptStep, Zenon
<1> QED BY <1>1, <1>2, <1>3, <1>4, <1>5, <1>6, <1>7, Zenon DEF Creates

\* A pod leaves the apiserver once startup is over.
LEMMA TracksDrop ==
    ASSUME Tracks, Shape', NEW k \in Keys, ApiDrops(k), api[k].uid # 0, starting = {},
           UNCHANGED <<crashes, pods, pid, agent, starting, restarts>>,
           \A a \in {Worker, Hook}, j \in Keys : j # k => op'[a][j] = op[a][j],
           op'[Worker][k] = op[Worker][k] \/ op'[Worker][k] = Idle
    PROVE  Tracks'
<1>0. Shape /\ Counts /\ KeyTracks(k) /\ api[k].uid \in 0..MaxUID
  BY Zenon DEF Tracks, Shape, PodRec
<1>1. Counts'
  <2>1. <<k, api[k].uid>> \in Keys \X UID
    BY <1>0 DEF UID
  <2> QED BY <1>0, <2>1, Zenon DEF Counts, ApiDrops
<1>2. \A j \in Keys \ {k} : api'[j] = api[j]
  BY <1>0, Zenon DEF Shape, ApiDrops
<1>3. \A j \in Keys \ {k} : Kept(j)
  BY <1>2, Zenon DEF Kept
<1>4. KeyTracks(k)'
  BY <1>0, Constants, Zenon DEF KeyTracks, Bound, Unbound, StartupIsFirst, CreatePCs, Work
<1> QED BY <1>1, <1>3, <1>4, KeptStep, Zenon

LEMMA TracksDeletes ==
    ASSUME Tracks, Shape', NEW k \in Keys, Deletes(k)
    PROVE  Tracks'
<1>0. /\ Shape /\ Counts /\ KeyTracks(k) /\ Bound(k) /\ Unbound(k) /\ StartupIsFirst(k)
      /\ Worker \in {Worker, Hook} /\ Hook \in {Worker, Hook} /\ Worker # Hook
  BY Constants, Zenon DEF Tracks, KeyTracks
<1>s. \A a \in {Worker, Hook} : op[a][k].pc # "idle" => starting = {}
  BY <1>0 DEF StartupIsFirst
<1>1. CASE DeletePod(k)
  <2>1. PICK u \in UID :
          op' = [op EXCEPT ![Worker][k] = [Idle EXCEPT !.pc = "claim", !.uid = u]]
    BY <1>1, Zenon DEF DeletePod
  <2> DEFINE r == [Idle EXCEPT !.pc = "claim", !.uid = u]
  <2>2. r \in OpRec /\ r.pc = "claim" /\ r.uid = u /\ op' = [op EXCEPT ![Worker][k] = r]
    BY <2>1, ClaimOp, Zenon
  <2> HIDE DEF r
  <2>3. /\ op'[Worker][k] = r
        /\ \A b \in {Worker, Hook}, j \in Keys : b # Worker \/ j # k => op'[b][j] = op[b][j]
    BY <1>0, <2>2, OpStep, Zenon
  <2>4. Counts'
    BY <1>0, <1>1 DEF Counts, DeletePod, cluster, host, tables, restart
  <2>5. Unbound(k)'
    BY <2>2, <2>3 DEF Unbound, CreatePCs, Work, UID
  <2> QED BY <1>0, <1>1, <2>3, <2>4, <2>5, TracksQuiet, Zenon
             DEF DeletePod, Up, cluster, tables, restart
<1>2. CASE FrameworkRemoves(k)
  BY <1>0, <1>2, TracksDrop, Zenon DEF FrameworkRemoves, Up, host, tables, restart
<1>3. ASSUME NEW u \in UID, DeleteFailedMacosCreate(k, u)
      PROVE  Tracks'
  <2> DEFINE r == [Idle EXCEPT !.pc = "claim", !.uid = u]
  <2>1. r \in OpRec /\ r.pc = "claim"
    BY ClaimOp, Zenon
  <2>2. op' = op \/ op' = [op EXCEPT ![Hook][k] = r]
    BY <1>3, Zenon DEF DeleteFailedMacosCreate
  <2> HIDE DEF r
  <2>3. \A b \in {Worker, Hook}, j \in Keys : b # Hook \/ j # k => op'[b][j] = op[b][j]
    BY <1>0, <2>1, <2>2, OpStep
  <2>4. Counts'
    BY <1>0, <1>3 DEF Counts, DeleteFailedMacosCreate, host, tables, restart
  <2>5. Unbound(k)'
    BY <1>0, <1>3, <2>3, Zenon DEF Unbound, Work, DeleteFailedMacosCreate, tables
  <2> QED BY <1>0, <1>3, <2>3, <2>4, <2>5, TracksQuiet, Zenon
          DEF DeleteFailedMacosCreate, Up, tables, restart
<1>4. ASSUME NEW a \in {Worker, Hook}, DeleteClaim(a, k)
      PROVE  Tracks'
  <2>1. /\ op'[a][k].pc \in {"gone", "rm"} /\ op'[a][k].uid = op[a][k].uid
        /\ \A b \in {Worker, Hook}, j \in Keys : b # a \/ j # k => op'[b][j] = op[b][j]
    <3>1. Shape /\ "gone" \in OpPCs /\ "rm" \in OpPCs /\ (Goto(a, k, "gone") \/ Goto(a, k, "rm"))
      BY <1>0, <1>4, Zenon DEF DeleteClaim, OpPCs
    <3> QED BY <3>1, OpGoto
  <2>2. Counts'
    BY <1>0, <1>4, Zenon DEF Counts, DeleteClaim, cluster, host, tables, restart
  <2>3. Unbound(k)'
    BY <1>0, <1>4, <2>1 DEF Unbound, CreatePCs, Work, DeleteClaim, tables
  <2> QED BY <1>0, <1>s, <1>4, <2>1, <2>2, <2>3, TracksQuiet, Zenon
          DEF DeleteClaim, cluster, tables, restart
<1>5. ASSUME NEW a \in {Worker, Hook}, DeleteRemovesVM(a, k)
      PROVE  Tracks'
  <2>1. /\ op'[a][k].pc = "forget" /\ op'[a][k].uid = op[a][k].uid
        /\ \A b \in {Worker, Hook}, j \in Keys : b # a \/ j # k => op'[b][j] = op[b][j]
    <3>1. Shape /\ Goto(a, k, "forget") /\ "forget" \in OpPCs
      BY <1>0, <1>5, Zenon DEF DeleteRemovesVM, OpPCs
    <3> QED BY <3>1, OpGoto
  <2>2. Counts'
    BY <1>0, <1>5, Constants, Zenon DEF Counts, DeleteRemovesVM, cluster, tables, restart
  <2>3. Unbound(k)'
    BY <1>0, <1>5, <2>1, Zenon DEF Unbound, CreatePCs, Work, DeleteRemovesVM, tables
  <2> QED BY <1>0, <1>s, <1>5, <2>1, <2>2, <2>3, TracksQuiet, Zenon
          DEF DeleteRemovesVM, cluster, tables, restart
<1>6. ASSUME NEW a \in {Worker, Hook}, DeleteRemoveFails(a, k)
      PROVE  Tracks'
  <2>1. /\ op'[a][k] = Idle
        /\ \A b \in {Worker, Hook}, j \in Keys : b # a \/ j # k => op'[b][j] = op[b][j]
    BY <1>0, <1>6, OpEnds, Zenon DEF DeleteRemoveFails
  <2>2. Counts'
    BY <1>0, <1>6, Constants, Zenon
       DEF Counts, DeleteRemoveFails, cluster, host, tables, restart
  <2>3. Unbound(k)'
    BY <1>0, <1>6, <2>1, Constants, Zenon
       DEF Unbound, CreatePCs, Work, DeleteRemoveFails, tables
  <2> QED BY <1>0, <1>s, <1>6, <2>1, <2>2, <2>3, TracksQuiet, Zenon
          DEF DeleteRemoveFails, cluster, tables, restart
<1>7. ASSUME NEW a \in {Worker, Hook}, DeleteForgets(a, k)
      PROVE  Tracks'
  <2>1. /\ op'[a][k].pc = "gone" /\ op'[a][k].uid = op[a][k].uid
        /\ \A b \in {Worker, Hook}, j \in Keys : b # a \/ j # k => op'[b][j] = op[b][j]
    <3>1. Shape /\ Goto(a, k, "gone") /\ "gone" \in OpPCs
      BY <1>0, <1>7, Zenon DEF DeleteForgets, OpPCs
    <3> QED BY <3>1, OpGoto
  <2>2. Counts' /\ pid'[k] = NoVM /\ \A j \in Keys \ {k} : pid'[j] = pid[j]
    BY <1>0, <1>7, ClearCounts, Zenon DEF Counts, DeleteForgets, Forget, cluster, host, restart
  <2>3. \A j \in Keys \ {k} : pods'[j] = pods[j]
    BY <1>0, <1>7 DEF DeleteForgets, Forget, Shape
  <2>4. \A j \in Keys \ {k} : Kept(j)
    BY <1>7, <2>1, <2>2, <2>3, Zenon DEF Kept, DeleteForgets, cluster, restart
  <2>5. Unbound(k)'
    BY <1>0, <1>7, <2>1, <2>2, Zenon DEF Unbound, CreatePCs, Work, DeleteForgets
  <2>6. KeyTracks(k)'
    BY <1>0, <1>s, <1>7, <2>2, <2>5, Zenon
       DEF KeyTracks, Bound, StartupIsFirst, DeleteForgets, restart
  <2> QED BY <2>2, <2>4, <2>6, KeptStep, Zenon
<1>8. ASSUME NEW a \in {Worker, Hook}, DeleteEnds(a, k)
      PROVE  Tracks'
  <2>1. /\ op'[a][k] = Idle
        /\ \A b \in {Worker, Hook}, j \in Keys : b # a \/ j # k => op'[b][j] = op[b][j]
    BY <1>0, <1>8, OpEnds, Zenon DEF DeleteEnds
  <2>2. starting = {} /\ UNCHANGED <<crashes, pods, pid, agent, starting, restarts>>
    BY <1>s, <1>8, Zenon DEF DeleteEnds, host, tables, restart
  <2>3. CASE UNCHANGED <<api, removed>>
    <3>1. Counts'
      BY <1>0, <2>2, <2>3, Zenon DEF Counts
    <3>2. Unbound(k)'
      BY <1>0, <2>1, <2>2, Constants, Zenon DEF Unbound, CreatePCs, Work
    <3> QED BY <1>0, <2>1, <2>2, <2>3, <3>1, <3>2, TracksQuiet, Zenon
  <2>4. CASE ApiDrops(k) /\ api[k].uid # 0
    BY <1>0, <2>1, <2>2, <2>4, TracksDrop, Zenon
  <2>5. UNCHANGED <<api, removed>> \/ (ApiDrops(k) /\ api[k].uid = Work(k).uid /\ Work(k).pc = "gone")
    BY <1>8, Zenon DEF DeleteEnds, Work
  <2> QED BY <1>0, <2>3, <2>4, <2>5, Zenon DEF Unbound
<1> QED BY <1>1, <1>2, <1>3, <1>4, <1>5, <1>6, <1>7, <1>8, Zenon DEF Deletes

\* A step that touches no table of any key.
LEMMA TracksKept ==
    ASSUME Tracks, Shape', Counts', \A j \in Keys : Kept(j)
    PROVE  Tracks'
BY KeptKeepsTracks DEF Tracks

LEMMA TracksReconcile ==
    ASSUME Tracks, Shape', NEW k \in Keys, ReconcilePodStatus(k)
    PROVE  Tracks'
<1>0. Shape /\ Counts /\ vnc[k] \in AnyPort
  BY Zenon DEF Tracks, Shape
<1>1. \A j \in Keys : api'[j].uid = api[j].uid
  BY <1>0, EndpointsTyped, Zenon DEF ReconcilePodStatus
<1>2. Counts'
  BY <1>0, Zenon DEF Counts, ReconcilePodStatus, host, tables, restart
<1>3. \A j \in Keys : Kept(j)
  BY <1>1 DEF Kept, ReconcilePodStatus, tables, restart
<1> QED BY <1>2, <1>3, TracksKept, Zenon

LEMMA TracksReconcileMacosPod ==
    ASSUME Tracks, Shape', NEW k \in Keys, ReconcileMacosPod(k)
    PROVE  Tracks'
<1>0. /\ Shape /\ Counts /\ KeyTracks(k) /\ Bound(k) /\ StartupIsFirst(k)
      /\ api[k] \in PodRec /\ api[k].uid \in 0..MaxUID
      /\ Worker \in {Worker, Hook}
  BY Zenon DEF Tracks, KeyTracks, Shape, PodRec
<1>1. api[k].uid # 0 /\ \A a \in {Worker, Hook} : op[a][k].pc = "idle"
  BY <1>0 DEF ReconcileMacosPod, StartupIsFirst
<1>2. /\ starting' = starting \ {k}
      /\ UNCHANGED <<lastUID, removed, host, deleting, op, fix, restarts>>
  BY Zenon DEF ReconcileMacosPod
<1>3. PICK rec \in {guest[k], NoGuest} :
        \/ /\ pods' = [pods EXCEPT ![k] = api[k].uid]
           /\ pid' = [pid EXCEPT ![k] = rec.pid]
           /\ api' = [api EXCEPT ![k].port = rec.port, ![k].ran = TRUE]
           /\ agent' = IF api[k].term THEN agent ELSE [agent EXCEPT ![k] = api[k].uid]
        \/ UNCHANGED <<api, pods, pid, agent>>
  <2>1. PICK rec \in {guest[k], NoGuest} :
          CASE rec.state = "live" ->
                   /\ pods' = [pods EXCEPT ![k] = api[k].uid]
                   /\ pid' = [pid EXCEPT ![k] = rec.pid]
                   /\ vnc' = [vnc EXCEPT ![k] = rec.port]
                   /\ api' = [api EXCEPT ![k].port = rec.port, ![k].ran = TRUE]
                   /\ agent' = IF api[k].term THEN agent ELSE [agent EXCEPT ![k] = api[k].uid]
                   /\ UNCHANGED leftover
            [] rec.state = "dead" ->
                   /\ leftover' = [leftover EXCEPT ![k] = api[k].uid]
                   /\ UNCHANGED <<api, pods, pid, vnc, agent>>
            [] OTHER -> UNCHANGED <<api, tables, agent>>
    BY Zenon DEF ReconcileMacosPod
  <2> QED BY <2>1 DEF tables
<1>4. rec.pid \in Nat /\ rec \in GuestRec
  BY <1>0, Constants DEF Shape, GuestRec
<1>5. Counts'
  BY <1>0, <1>2, <1>3, <1>4, Zenon DEF Counts, host
<1>6. \A j \in Keys : api'[j].uid = api[j].uid
  BY <1>0, <1>3 DEF Shape, PodRec
<1>7. \A j \in Keys \ {k} : pods'[j] = pods[j] /\ pid'[j] = pid[j]
  BY <1>0, <1>3, Zenon DEF Shape, Counts
<1>8. \A j \in Keys \ {k} : Kept(j)
  BY <1>2, <1>6, <1>7 DEF Kept
<1>9. Bound(k)'
  BY <1>0, <1>1, <1>3, Zenon DEF Bound, Shape
<1>10. KeyTracks(k)'
  BY <1>0, <1>1, <1>2, <1>9 DEF KeyTracks, Unbound, StartupIsFirst, CreatePCs, Work
<1> QED BY <1>5, <1>8, <1>10, KeptStep, Zenon

LEMMA TracksRepairs ==
    ASSUME Tracks, Shape', NEW k \in Keys, NEW u \in UID, Repairs(k, u)
    PROVE  Tracks'
<1>0. /\ Shape /\ Counts /\ fix[k][u] \in FixRec /\ fix[k][u].rec \in GuestRec
      /\ fix[k][u].rec.pid \in Nat /\ fix[k][u].rec.port \in AnyPort
  BY DEF Tracks, Shape, FixRec, GuestRec
<1>1. UNCHANGED <<lastUID, removed, crashes, pods, agent, op, starting, restarts>>
  <2>1. CASE RecoverStarts(k, u) \/ RecoverStartFails(k, u)
    BY <1>0, <2>1, LaunchCounts, Zenon
       DEF RecoverStarts, RecoverStartFails, cluster, tables, restart
  <2>2. CASE ~(RecoverStarts(k, u) \/ RecoverStartFails(k, u))
    BY <2>2, Zenon
       DEF Repairs, Probe, ProbeBackfills, RecoverInspect, RecoverReinspect, RecoverCheck,
       RecoverUpdate, RecoverAdoptsPort, cluster, host, tables, restart
  <2> QED BY <2>1, <2>2, Zenon
<1>2. UNCHANGED pid \/ (pid[k] # NoVM /\ pid' = [pid EXCEPT ![k] = fix[k][u].rec.pid])
  BY Zenon DEF Repairs, Probe, ProbeBackfills, RecoverInspect, RecoverStarts, RecoverStartFails,
     RecoverReinspect, RecoverCheck, RecoverUpdate, RecoverAdoptsPort, tables
<1>3. UNCHANGED api \/ RecoverAdoptsPort(k, u)
  BY Zenon DEF Repairs, Probe, ProbeBackfills, RecoverInspect, RecoverStarts, RecoverStartFails,
     RecoverReinspect, RecoverCheck, RecoverUpdate, cluster
<1>4. \A j \in Keys : api'[j].uid = api[j].uid
  BY <1>0, <1>3, EndpointsTyped, Zenon DEF RecoverAdoptsPort
<1>5. fix[k][u].rec.pid # NoVM
  BY <1>0 DEF NoVM
<1>6. Counts'
  BY <1>0, <1>1, <1>2, Zenon DEF Counts
<1>7. \A j \in Keys : pid'[j] = pid[j] \/ (pid[j] # NoVM /\ pid'[j] # NoVM)
  BY <1>0, <1>2, <1>5, Zenon DEF Counts
<1>8. \A j \in Keys : Kept(j)
  BY <1>1, <1>4, <1>7, Zenon DEF Kept
<1> QED BY <1>6, <1>8, TracksKept, Zenon

LEMMA TracksRestart ==
    ASSUME Tracks, Shape', Restart
    PROVE  Tracks'
<1>0. Shape /\ Counts
  BY Zenon DEF Tracks
<1>1. restarts' \in 0..MaxRestarts
  BY <1>0, MacosAssumption DEF Counts, Restart
<1>2. Counts'
  BY <1>0, <1>1, Constants, Zenon DEF Counts, Restart, host
<1>3. ASSUME NEW k \in Keys PROVE KeyTracks(k)'
  <2>1. /\ pid'[k] = NoVM /\ \A a \in {Worker, Hook} : op'[a][k] = Idle
        /\ k \in starting' => api'[k].uid # 0
    BY DEF Restart
  <2> QED BY <2>1, Constants, Zenon
          DEF KeyTracks, Bound, Unbound, StartupIsFirst, CreatePCs, Work
<1> QED BY <1>2, <1>3 DEF Tracks

LEMMA TracksNext ==
    ASSUME Tracks, [Next]_vars
    PROVE  Tracks'
<1>0. Shape'
  BY ShapeNext DEF Tracks
<1>1. CASE UNCHANGED vars
  <2>1. Counts'
    BY <1>1, Zenon DEF Tracks, Counts, vars, cluster, host, tables, restart
  <2>2. \A j \in Keys : Kept(j)
    BY <1>1, Zenon DEF Kept, vars, cluster, tables, restart
  <2> QED BY <1>0, <2>1, <2>2, TracksKept, Zenon
<1>2. CASE Next
  BY <1>0, <1>2, TracksEnvironment, TracksRestart, TracksCreates, TracksDeletes,
     TracksReconcile, TracksReconcileMacosPod, TracksRepairs, Zenon DEF Next, Environment
<1> QED BY <1>1, <1>2

LEMMA TracksInit ==
    ASSUME Init
    PROVE  Tracks
<1>1. Shape
  BY Constants, MacosAssumption, Zenon DEF Init, Shape
<1>2. Counts
  BY Constants, MacosAssumption DEF Init, Counts
<1>3. ASSUME NEW k \in Keys PROVE KeyTracks(k)
  <2>1. /\ pid[k] = NoVM /\ starting = {} /\ \A a \in {Worker, Hook} : op[a][k] = Idle
    BY Zenon DEF Init
  <2> QED BY <2>1, Constants, Zenon
          DEF KeyTracks, Bound, Unbound, StartupIsFirst, CreatePCs, Work
<1> QED BY <1>1, <1>2, <1>3, Zenon DEF Tracks

LEMMA TracksImplies ==
    ASSUME Tracks
    PROVE  TypeOK
BY Zenon DEF Tracks, Shape, Counts, KeyTracks, Bound, TypeOK, PodRec, GuestRec, Guests, OpRec,
   FixRec, AnyPort

LEMMA TracksAlways == Spec => []Tracks
<1>1. Init => Tracks
  BY TracksInit, Zenon
<1>2. Tracks /\ [Next]_vars => Tracks'
  BY TracksNext
<1> QED BY <1>1, <1>2, PTL DEF Spec

\* TypeOK holds in every state of every instance, whatever fails: claimMacosVNCPort
\* hands out ports of the node only, and a VM is bound to a key only while a pod is
\* tracked there.  bindRuntime, the repairs' updates and reconcileMacosPod between
\* them never bind the guest of an untracked pod, and failCreate never forgets the pod
\* of a bound one, so createMacosPod's check for a VM already tracked is never met.
THEOREM TypeCorrect == Spec => []TypeOK
<1>1. Tracks => TypeOK
  BY TracksImplies
<1> QED BY <1>1, TracksAlways, PTL

\* createMacosPod never finds its VM tracked already, the case that macosAlreadyTracked
\* answers: when a create looks at its guest no VM is bound to the key, whatever was
\* bound before, whatever failed and whichever repair is still under way.
THEOREM CreateFindsNoVM == Spec => [](\A k \in Keys : Work(k).pc = "inspect" => pid[k] = NoVM)
<1>1. Tracks => \A k \in Keys : Work(k).pc = "inspect" => pid[k] = NoVM
  BY Zenon DEF Tracks, KeyTracks, Unbound, CreatePCs
<1> QED BY <1>1, TracksAlways, PTL

--------------------------------------------------------------------------------
(* VNC ports.                                                              *)

\* Key k takes over the display that a live guest serves (adoptMacosVNCPort).
AdoptsPort(k) ==
    \/ CreateInspect(k) /\ op'[Worker][k].pc = "bind"
    \/ ReconcileMacosPod(k)
    \/ \E u \in UID : RecoverAdoptsPort(k, u)

\* No adoption takes a port that another key has reserved by then: what would hold if
\* adoptMacosVNCPort looked at the other entries of p.macosVNC.
AdoptsUnheld ==
    \A k \in Keys : AdoptsPort(k) => \A j \in Keys \ {k} : vnc'[k] = vnc[j] => vnc'[k] = 0

\* What a step does to the ports that keeps them apart: at most one key gets a port,
\* and nobody else has it.
PortsApart ==
    \E k \in Keys : /\ \A j \in Keys \ {k} : vnc'[j] \in {0, vnc[j]}
                    /\ \/ vnc'[k] \in {0, vnc[k]}
                       \/ \A j \in Keys \ {k} : vnc'[k] = vnc[j] => vnc'[k] = 0

LEMMA ApartKeepsUnique ==
    ASSUME PortsUnique, PortsApart
    PROVE  PortsUnique'
<1>1. PICK k \in Keys : /\ \A j \in Keys \ {k} : vnc'[j] \in {0, vnc[j]}
                        /\ \/ vnc'[k] \in {0, vnc[k]}
                           \/ \A j \in Keys \ {k} : vnc'[k] = vnc[j] => vnc'[k] = 0
  BY Zenon DEF PortsApart
<1>2. ASSUME NEW i \in Keys, NEW j \in Keys, i # j, vnc'[i] = vnc'[j] PROVE vnc'[i] = 0
  <2>1. CASE i # k /\ j # k
    BY <1>1, <1>2, <2>1, Zenon DEF PortsUnique
  <2>2. CASE i = k
    BY <1>1, <1>2, <2>2, Zenon DEF PortsUnique
  <2>3. CASE j = k
    BY <1>1, <1>2, <2>3, Zenon DEF PortsUnique
  <2> QED BY <2>1, <2>2, <2>3
<1> QED BY <1>2, Zenon DEF PortsUnique

\* claimMacosVNCPort keeps the key's own port, or takes one that no entry holds.
LEMMA ClaimUnheld ==
    ASSUME NEW k \in Keys, NEW p
    PROVE  \/ ClaimMacosVNCPort(k, p) \in {0, vnc[k]}
           \/ \A j \in Keys : ClaimMacosVNCPort(k, p) # vnc[j]
<1>0. 0 \notin Ports
  BY MacosAssumption DEF Ports
<1>1. \A q \in Ports \ UsedPorts : \A j \in Keys : q # vnc[j]
  BY <1>0, Zenon DEF UsedPorts
<1>2. CASE vnc[k] # 0
  BY <1>2, Zenon DEF ClaimMacosVNCPort
<1>3. CASE vnc[k] = 0 /\ p \in Ports \ UsedPorts
  BY <1>1, <1>3, Zenon DEF ClaimMacosVNCPort
<1>4. CASE vnc[k] = 0 /\ p \notin Ports \ UsedPorts /\ FirstFree = {}
  BY <1>4, Zenon DEF ClaimMacosVNCPort
<1>5. CASE vnc[k] = 0 /\ p \notin Ports \ UsedPorts /\ FirstFree # {}
  <2> DEFINE first == CHOOSE q \in FirstFree : TRUE
  <2>1. first \in FirstFree
    BY <1>5, Zenon
  <2>2. ClaimMacosVNCPort(k, p) = first
    BY <1>5, Zenon DEF ClaimMacosVNCPort
  <2> HIDE DEF first
  <2>3. first \in Ports \ UsedPorts
    BY <2>1, Zenon DEF FirstFree
  <2> QED BY <1>1, <2>2, <2>3, Zenon
<1> QED BY <1>2, <1>3, <1>4, <1>5, Zenon

LEMMA ApartCreates ==
    ASSUME Shape, AdoptsUnheld, NEW k \in Keys, Creates(k)
    PROVE  PortsApart
<1>1. CASE vnc' = vnc \/ vnc' = [vnc EXCEPT ![k] = 0]
  BY <1>1, Zenon DEF PortsApart, Shape
<1>2. CASE CreateInspect(k)
  <2>1. PICK r \in OpRec : /\ op' = [op EXCEPT ![Worker][k] = r]
                           /\ vnc' = [vnc EXCEPT ![k] = r.port]
                           /\ r.pc = "bind" \/ \E p : r.port = ClaimMacosVNCPort(k, p)
    BY <1>2, CreateInspectStep, Zenon
  <2>2. vnc'[k] = r.port /\ \A j \in Keys \ {k} : vnc'[j] = vnc[j]
    BY <2>1, Zenon DEF Shape
  <2>3. CASE r.pc = "bind"
    <3>1. op'[Worker][k] = r
      BY <2>1, OpStep, Zenon
    <3>2. AdoptsPort(k)
      BY <1>2, <2>3, <3>1, Zenon DEF AdoptsPort
    <3> QED BY <2>2, <3>2, Zenon DEF AdoptsUnheld, PortsApart
  <2>4. ASSUME NEW p, r.port = ClaimMacosVNCPort(k, p) PROVE PortsApart
    <3>1. vnc'[k] \in {0, vnc[k]} \/ \A j \in Keys : vnc'[k] # vnc[j]
      BY <2>2, <2>4, ClaimUnheld, Zenon
    <3>2. CASE vnc'[k] \in {0, vnc[k]}
      BY <2>2, <3>2, Zenon DEF PortsApart
    <3>3. CASE \A j \in Keys : vnc'[k] # vnc[j]
      <4>1. \A j \in Keys \ {k} : vnc'[k] = vnc[j] => vnc'[k] = 0
        BY <3>3, Zenon
      <4>2. \A j \in Keys \ {k} : vnc'[j] \in {0, vnc[j]}
        BY <2>2, Zenon
      <4> QED BY <4>1, <4>2, Zenon DEF PortsApart
    <3> QED BY <3>1, <3>2, <3>3
  <2> QED BY <2>1, <2>3, <2>4, Zenon
<1>3. CASE CreatePod(k)
  BY <1>1, <1>3, Zenon DEF CreatePod, Clear
<1>4. CASE FailCreate(k)
  BY <1>1, <1>4, Zenon DEF FailCreate, tables
<1>5. CASE CreatePublish(k)
  BY <1>1, <1>5, Zenon DEF CreatePublish, Forget, Clear, tables
<1>6. CASE CreateLaunches(k) \/ CreateLaunchFails(k) \/ CreateReinspect(k)
  BY <1>1, <1>6, Zenon DEF CreateLaunches, CreateLaunchFails, CreateReinspect, tables
<1>7. CASE CreateBind(k)
  BY <1>1, <1>7, Zenon DEF CreateBind, tables
<1> QED BY <1>2, <1>3, <1>4, <1>5, <1>6, <1>7, Zenon DEF Creates

LEMMA ApartDeletes ==
    ASSUME Shape, NEW k \in Keys, Deletes(k)
    PROVE  PortsApart
<1>1. CASE vnc' = vnc \/ vnc' = [vnc EXCEPT ![k] = 0]
  BY <1>1, Zenon DEF PortsApart, Shape
<1>2. CASE \E a \in {Worker, Hook} : DeleteForgets(a, k)
  BY <1>1, <1>2, Zenon DEF DeleteForgets, Forget, Clear
<1>3. CASE DeletePod(k) \/ FrameworkRemoves(k) \/ \E u \in UID : DeleteFailedMacosCreate(k, u)
  BY <1>1, <1>3, Zenon DEF DeletePod, FrameworkRemoves, DeleteFailedMacosCreate, tables
<1>4. CASE \E a \in {Worker, Hook} :
             \/ DeleteClaim(a, k) \/ DeleteRemovesVM(a, k) \/ DeleteRemoveFails(a, k)
             \/ DeleteEnds(a, k)
  BY <1>1, <1>4, Zenon DEF DeleteClaim, DeleteRemovesVM, DeleteRemoveFails, DeleteEnds, tables
<1> QED BY <1>2, <1>3, <1>4, Zenon DEF Deletes

LEMMA ApartRepairs ==
    ASSUME Shape, AdoptsUnheld, NEW k \in Keys, NEW u \in UID, Repairs(k, u)
    PROVE  PortsApart
<1>1. CASE vnc' = vnc
  BY <1>1, Zenon DEF PortsApart
<1>2. CASE RecoverAdoptsPort(k, u)
  <2>1. AdoptsPort(k)
    BY <1>2, Zenon DEF AdoptsPort
  <2>2. \A j \in Keys \ {k} : vnc'[j] = vnc[j]
    BY <1>2, Zenon DEF RecoverAdoptsPort, Shape
  <2> QED BY <2>1, <2>2, Zenon DEF AdoptsUnheld, PortsApart
<1>3. CASE Probe(k, u) \/ ProbeBackfills(k, u) \/ RecoverInspect(k, u) \/ RecoverStarts(k, u)
  BY <1>1, <1>3, Zenon DEF Probe, ProbeBackfills, RecoverInspect, RecoverStarts, tables
<1>4. CASE \/ RecoverStartFails(k, u) \/ RecoverReinspect(k, u) \/ RecoverCheck(k, u)
           \/ RecoverUpdate(k, u)
  BY <1>1, <1>4, Zenon
     DEF RecoverStartFails, RecoverReinspect, RecoverCheck, RecoverUpdate, tables
<1> QED BY <1>2, <1>3, <1>4, Zenon DEF Repairs

\* claimMacosVNCPort is right, and adoptMacosVNCPort is the one way to two keys with one
\* port: in every behaviour in which no create, repair or startup reconcile adopts a
\* display another key has reserved, the ports in p.macosVNC are unique, whatever fails.
THEOREM PortsUniqueUnlessAdopted ==
    Spec /\ [][AdoptsUnheld]_vars => []PortsUnique
<1>1. Init => PortsUnique
  BY Zenon DEF Init, PortsUnique
<1>2. Tracks /\ PortsUnique /\ [Next]_vars /\ [AdoptsUnheld]_vars => PortsUnique'
  <2> SUFFICES ASSUME Tracks, PortsUnique, [Next]_vars, [AdoptsUnheld]_vars PROVE PortsUnique'
    OBVIOUS
  <2>0. Shape
    BY Zenon DEF Tracks
  <2>1. CASE vnc' = vnc
    BY <2>1, Zenon DEF PortsUnique
  <2>2. CASE UNCHANGED vars
    BY <2>1, <2>2, Zenon DEF vars, tables
  <2>3. CASE Environment
    BY <2>1, <2>3, Zenon
       DEF Environment, ApiCreate, ApiTerminate, ApiRemove, GuestDies, tables
  <2>4. CASE Restart
    BY <2>4, Zenon DEF Restart, PortsUnique
  <2>5. ASSUME NEW k \in Keys, AdoptsUnheld, Creates(k) \/ Deletes(k) PROVE PortsUnique'
    BY <2>0, <2>5, ApartCreates, ApartDeletes, ApartKeepsUnique, Zenon
  <2>6. ASSUME NEW k \in Keys, NEW u \in UID, AdoptsUnheld, Repairs(k, u) PROVE PortsUnique'
    BY <2>0, <2>6, ApartRepairs, ApartKeepsUnique, Zenon
  <2>7. ASSUME NEW k \in Keys, ReconcilePodStatus(k) PROVE PortsUnique'
    BY <2>1, <2>7, Zenon DEF ReconcilePodStatus, tables
  <2>8. ASSUME NEW k \in Keys, AdoptsUnheld, ReconcileMacosPod(k) PROVE PortsUnique'
    <3>1. AdoptsPort(k)
      BY <2>8, Zenon DEF AdoptsPort
    <3>2. \A j \in Keys \ {k} : vnc'[j] = vnc[j]
      BY <2>0, <2>8, Zenon DEF ReconcileMacosPod, Shape, tables
    <3>3. PortsApart
      BY <2>8, <3>1, <3>2, Zenon DEF AdoptsUnheld, PortsApart
    <3> QED BY <3>3, ApartKeepsUnique
  <2>9. Next \/ UNCHANGED vars
    BY Zenon
  <2>10. AdoptsUnheld \/ UNCHANGED vars
    BY Zenon
  <2> QED BY <2>2, <2>3, <2>4, <2>5, <2>6, <2>7, <2>8, <2>9, <2>10, Zenon DEF Next
<1> QED BY <1>1, <1>2, TracksAlways, PTL DEF Spec

--------------------------------------------------------------------------------
(* The invariant of a key.                                                 *)

\* What a step leaves alone when it does not concern key j.
Same(j) ==
    /\ api'[j].uid = api[j].uid
    /\ guest'[j].state = "none" <=> guest[j].state = "none"
    /\ pods'[j] = pods[j]
    /\ leftover'[j] = leftover[j]
    /\ deleting'[j] = deleting[j]
    /\ \A a \in {Worker, Hook} : op'[a][j].pc = op[a][j].pc /\ op'[a][j].uid = op[a][j].uid
    /\ \A u \in 0..MaxUID : <<j, u>> \in removed' <=> <<j, u>> \in removed
    /\ j \in starting' <=> j \in starting

\* What no step does.
Onward == lastUID <= lastUID' /\ (starting' # {} => starting # {})

Others(k) == \A j \in Keys \ {k} : Same(j)

\* The numbers of incarnations.
LEMMA UIDs ==
    UID \subseteq 0..MaxUID /\ 0 \notin UID
BY MacosAssumption DEF UID

LEMMA Unmoved ==
    ASSUME Shape, lastUID' = lastUID
    PROVE  lastUID <= lastUID' /\ 0 <= lastUID
BY DEF Shape

LEMMA SameKeepsInv ==
    ASSUME Shape, Shape', Onward, NEW j \in Keys, KeyInv(j), Same(j)
    PROVE  KeyInv(j)'
<1>0. /\ Worker \in {Worker, Hook} /\ Hook \in {Worker, Hook}
      /\ lastUID \in Int /\ lastUID' \in Int /\ api[j].uid \in 0..MaxUID
      /\ leftover[j] \in 0..MaxUID /\ op[Hook][j].uid \in 0..MaxUID
  BY DEF Shape, PodRec, OpRec
<1>1. CreateOwnsKey(j)'
  BY <1>0, Zenon DEF KeyInv, CreateOwnsKey, Same, Work
<1>2. RemovedIsGone(j)'
  <2>1. \A u \in 0..MaxUID : u <= lastUID => u <= lastUID'
    BY <1>0 DEF Onward
  <2> QED BY <1>0, <2>1, UIDs, Zenon DEF KeyInv, RemovedIsGone, Same
<1>3. DeleteIsExclusive(j)'
  BY <1>0, Zenon DEF KeyInv, DeleteIsExclusive, Removing, Same
<1>4. StartupIsFirst(j)'
  BY <1>0, Zenon DEF KeyInv, StartupIsFirst, Same, Onward
<1>5. LookedAfter(j)'
  BY <1>0, Zenon DEF KeyInv, LookedAfter, Same
<1> QED BY <1>1, <1>2, <1>3, <1>4, <1>5, Zenon DEF KeyInv

LEMMA KeyStep ==
    ASSUME Inv, Shape', Onward, NEW k \in Keys, Others(k), KeyInv(k)'
    PROVE  Inv'
<1>1. ASSUME NEW j \in Keys PROVE KeyInv(j)'
  <2>1. CASE j = k
    BY <2>1
  <2>2. CASE j # k
    BY <2>2, SameKeepsInv DEF Inv, Others
  <2> QED BY <2>1, <2>2
<1> QED BY <1>1 DEF Inv

LEMMA SameStep ==
    ASSUME Inv, Shape', Onward, NEW k \in Keys, Others(k), Same(k)
    PROVE  Inv'
BY KeyStep, SameKeepsInv, Zenon DEF Inv

\* A pod leaves the apiserver while no create runs for it.
LEMMA DropKeepsInv ==
    ASSUME Inv, Shape', NEW k \in Keys, ApiDrops(k), api[k].uid # 0, starting = {},
           Work(k).pc \notin CreatePCs,
           UNCHANGED <<lastUID, guest, pods, leftover, deleting, op, starting>>
    PROVE  Inv'
<1>0. Shape /\ KeyInv(k) /\ api[k].uid \in 0..MaxUID /\ lastUID \in 0..MaxUID
  BY Zenon DEF Inv, Shape, PodRec
<1>1. api'[k].uid = 0 /\ \A j \in Keys \ {k} : api'[j] = api[j]
  BY <1>0, Constants DEF ApiDrops, Shape
<1>2. removed' = removed \cup {<<k, api[k].uid>>}
  BY Zenon DEF ApiDrops
<1>3. Onward /\ Others(k)
  BY <1>0, <1>1, <1>2, Unmoved, Zenon DEF Onward, Others, Same
<1>4. CreateOwnsKey(k)'
  BY Zenon DEF CreateOwnsKey, Work
<1>5. RemovedIsGone(k)'
  BY <1>0, <1>1, <1>2, UIDs, Unmoved, Zenon DEF KeyInv, RemovedIsGone
<1>6. DeleteIsExclusive(k)'
  BY <1>0, Zenon DEF KeyInv, DeleteIsExclusive, Removing
<1>7. StartupIsFirst(k)'
  BY <1>0, Zenon DEF KeyInv, StartupIsFirst
<1>8. LookedAfter(k)'
  BY <1>0, <1>1, <1>2, Zenon DEF KeyInv, LookedAfter
<1>9. KeyInv(k)'
  BY <1>4, <1>5, <1>6, <1>7, <1>8, Zenon DEF KeyInv
<1> QED BY <1>3, <1>9, KeyStep, Zenon

LEMMA InvEnvironment ==
    ASSUME Inv, Losses \cap Faults = {}, NEW k \in Keys,
           ApiCreate(k) \/ ApiTerminate(k) \/ ApiRemove(k) \/ GuestDies(k)
    PROVE  Inv'
<1>0. Shape /\ KeyInv(k) /\ Shape' /\ api[k] \in PodRec /\ lastUID \in 0..MaxUID
  BY ShapeEnvironment, Zenon DEF Inv, Shape
<1>1. CASE ApiCreate(k)
  <2>1. Onward /\ Others(k)
    BY <1>0, <1>1, MacosAssumption
       DEF ApiCreate, Onward, Others, Same, Shape, host, tables, restart
  <2>2. api'[k].uid = lastUID + 1 /\ lastUID' = lastUID + 1 /\ api[k].uid = 0
    BY <1>0, <1>1, Constants, Zenon DEF ApiCreate, Shape, PodRec
  <2>3. UNCHANGED <<removed, guest, pods, leftover, deleting, op, starting>>
    BY <1>1, Zenon DEF ApiCreate, host, tables, restart
  <2>4. op[Hook][k].uid \in 0..MaxUID
    BY <1>0 DEF Shape, OpRec
  <2>5. KeyInv(k)'
    <3>1. CreateOwnsKey(k)'
      BY <1>0, <2>2, <2>3, Zenon DEF KeyInv, CreateOwnsKey, Work
    <3>2. RemovedIsGone(k)'
      <4>1. \A u \in 0..MaxUID : u <= lastUID => u # lastUID + 1 /\ u <= lastUID + 1
        BY <1>0
      <4>2. lastUID + 1 <= lastUID + 1
        BY <1>0
      <4> QED BY <1>0, <2>2, <2>3, <2>4, <4>1, <4>2, UIDs, Zenon DEF KeyInv, RemovedIsGone
    <3>3. DeleteIsExclusive(k)'
      BY <1>0, <2>3, Zenon DEF KeyInv, DeleteIsExclusive, Removing
    <3>4. StartupIsFirst(k)'
      BY <1>0, <2>2, <2>3, Zenon DEF KeyInv, StartupIsFirst
    <3>5. LookedAfter(k)'
      BY <1>0, <2>2, <2>3, Zenon DEF KeyInv, LookedAfter
    <3> QED BY <3>1, <3>2, <3>3, <3>4, <3>5, Zenon DEF KeyInv
  <2> QED BY <1>0, <2>1, <2>5, KeyStep, Zenon
<1>2. CASE ApiTerminate(k)
  <2>1. api'[k].uid = api[k].uid /\ \A j \in Keys \ {k} : api'[j] = api[j]
    BY <1>0, <1>2, Zenon DEF ApiTerminate, Shape, PodRec
  <2>2. Onward /\ Others(k) /\ Same(k)
    BY <1>0, <1>2, <2>1, Unmoved, Zenon
       DEF ApiTerminate, Onward, Others, Same, host, tables, restart
  <2> QED BY <1>0, <2>2, SameStep, Zenon
<1>3. CASE ApiRemove(k)
  <2>1. UNCHANGED <<lastUID, guest, pods, leftover, deleting, op, starting>>
        /\ starting = {} /\ Work(k).pc = "idle" /\ api[k].uid # 0 /\ ApiDrops(k)
    BY <1>3, Zenon DEF ApiRemove, host, tables, restart, Up, May, Losses, Work
  <2> QED BY <1>0, <2>1, DropKeepsInv, Zenon DEF CreatePCs
<1>4. CASE GuestDies(k)
  <2>1. guest'[k].state = "dead" /\ guest[k].state = "live"
        /\ \A j \in Keys \ {k} : guest'[j] = guest[j]
    BY <1>0, <1>4 DEF GuestDies, Shape, GuestRec
  <2>2. Onward /\ Others(k) /\ Same(k)
    BY <1>0, <1>4, <2>1, Unmoved, Zenon
       DEF GuestDies, Onward, Others, Same, cluster, tables, restart
  <2> QED BY <1>0, <2>2, SameStep
<1> QED BY <1>1, <1>2, <1>3, <1>4, Zenon

\* A create goes on to another of its steps.
LEMMA CreateGoesOn ==
    ASSUME Inv, Shape', NEW k \in Keys, Work(k).pc \in CreatePCs,
           op'[Worker][k].pc \in CreatePCs, op'[Worker][k].uid = Work(k).uid,
           \A b \in {Worker, Hook}, j \in Keys :
               b # Worker \/ j # k => op'[b][j] = op[b][j],
           \A j \in Keys \ {k} : guest'[j] = guest[j],
           \A j \in Keys : pods'[j] = pods[j] /\ api'[j].uid = api[j].uid,
           UNCHANGED <<lastUID, removed, leftover, deleting, starting>>
    PROVE  Inv'
<1>0. Shape /\ KeyInv(k) /\ lastUID \in 0..MaxUID /\ Worker # Hook
  BY Constants, Zenon DEF Inv, Shape
<1>1. Onward /\ Others(k)
  BY <1>0, Unmoved, Zenon DEF Onward, Others, Same
<1>2. pods[k] # 0 /\ pods[k] = Work(k).uid /\ api[k].uid = Work(k).uid /\ ~deleting[k]
  BY <1>0, Zenon DEF KeyInv, CreateOwnsKey
<1>3. op'[Hook][k] = op[Hook][k]
  BY <1>0, Zenon
<1>4. CreateOwnsKey(k)'
  BY <1>2, Zenon DEF CreateOwnsKey, Work
<1>5. RemovedIsGone(k)'
  BY <1>0, <1>3, Zenon DEF KeyInv, RemovedIsGone
<1>6. DeleteIsExclusive(k)'
  BY <1>0, <1>2, <1>3, Zenon DEF KeyInv, DeleteIsExclusive, Removing, CreatePCs
<1>7. StartupIsFirst(k)'
  BY <1>0, <1>3, Zenon DEF KeyInv, StartupIsFirst, CreatePCs, Work
<1>8. LookedAfter(k)'
  BY <1>2, Zenon DEF LookedAfter
<1>9. KeyInv(k)'
  BY <1>4, <1>5, <1>6, <1>7, <1>8, Zenon DEF KeyInv
<1> QED BY <1>1, <1>9, KeyStep, Zenon

\* A worker that is over leaves the key to whatever looks after it.
LEMMA WorkerEnds ==
    ASSUME Inv, Shape', NEW k \in Keys, op'[Worker][k] = Idle,
           \A b \in {Worker, Hook}, j \in Keys :
               b # Worker \/ j # k => op'[b][j] = op[b][j],
           \A j \in Keys : api'[j].uid = api[j].uid,
           UNCHANGED <<lastUID, removed, pods, leftover, guest, deleting, starting>>
    PROVE  Inv'
<1>0. Shape /\ KeyInv(k) /\ lastUID \in 0..MaxUID /\ Worker # Hook /\ Idle.pc = "idle"
  BY Constants, Zenon DEF Inv, Shape
<1>1. Onward /\ Others(k)
  BY <1>0, Unmoved, Zenon DEF Onward, Others, Same
<1>2. op'[Hook][k] = op[Hook][k] /\ op'[Worker][k].pc = "idle"
  BY <1>0, Zenon
<1>3. CreateOwnsKey(k)' /\ RemovedIsGone(k)' /\ LookedAfter(k)'
  BY <1>0, <1>2, Zenon DEF KeyInv, CreateOwnsKey, RemovedIsGone, LookedAfter, CreatePCs, Work
<1>4. DeleteIsExclusive(k)' /\ StartupIsFirst(k)'
  BY <1>0, <1>2, Zenon DEF KeyInv, DeleteIsExclusive, StartupIsFirst, Removing
<1>5. KeyInv(k)'
  BY <1>3, <1>4, Zenon DEF KeyInv
<1> QED BY <1>1, <1>5, KeyStep, Zenon

LEMMA InvCreatePod ==
    ASSUME Inv, NEW k \in Keys, CreatePod(k)
    PROVE  Inv'
<1> DEFINE r == [Idle EXCEPT !.pc = "inspect", !.uid = api[k].uid]
<1>0. Shape /\ KeyInv(k) /\ Shape' /\ Worker # Hook /\ api[k].uid \in 0..MaxUID
      /\ lastUID \in 0..MaxUID
  BY ShapeCreates, Constants, Zenon DEF Inv, Creates, Shape, PodRec
<1>1. r \in OpRec /\ r.pc = "inspect" /\ r.uid = api[k].uid
  BY <1>0, Constants, Zenon DEF OpRec, OpPCs
<1>2. op' = [op EXCEPT ![Worker][k] = r]
  BY Zenon DEF CreatePod
<1> HIDE DEF r
<1>3. /\ op'[Worker][k] = r
      /\ \A b \in {Worker, Hook}, j \in Keys : b # Worker \/ j # k => op'[b][j] = op[b][j]
  BY <1>0, <1>1, <1>2, Zenon DEF Shape
<1>4. /\ pods'[k] = api[k].uid /\ api[k].uid # 0 /\ ~deleting[k] /\ starting = {}
      /\ \A j \in Keys \ {k} : pods'[j] = pods[j] /\ leftover'[j] = leftover[j]
      /\ UNCHANGED <<api, lastUID, removed, guest, deleting, starting>>
  BY <1>0, Zenon DEF Shape, CreatePod, Clear, Up, cluster, host, restart
<1>5. Onward /\ Others(k)
  BY <1>0, <1>3, <1>4, Unmoved, Zenon DEF Onward, Others, Same
<1>6. op'[Hook][k] = op[Hook][k] /\ op'[Worker][k].pc = "inspect"
      /\ op'[Worker][k].uid = api[k].uid
  BY <1>0, <1>1, <1>3, Zenon
<1>7. CreateOwnsKey(k)'
  BY <1>4, <1>6 DEF CreateOwnsKey, Work
<1>8. RemovedIsGone(k)' /\ LookedAfter(k)' /\ StartupIsFirst(k)'
  BY <1>0, <1>4, <1>6, Zenon DEF KeyInv, RemovedIsGone, LookedAfter, StartupIsFirst
<1>9. DeleteIsExclusive(k)'
  BY <1>0, <1>4, <1>6, Zenon DEF KeyInv, DeleteIsExclusive, Removing
<1>10. KeyInv(k)'
  BY <1>7, <1>8, <1>9 DEF KeyInv
<1> QED BY <1>0, <1>5, <1>10, KeyStep, Zenon

LEMMA InvFailCreate ==
    ASSUME Inv, NEW k \in Keys, FailCreate(k)
    PROVE  Inv'
<1>0. Shape /\ KeyInv(k) /\ Shape' /\ Worker # Hook /\ Idle.pc = "idle" /\ lastUID \in 0..MaxUID
      /\ Work(k).uid \in 0..MaxUID
  BY ShapeCreates, Constants, Zenon DEF Inv, Creates, Shape, Work, OpRec
<1>1. pods[k] # 0 /\ pods[k] = Work(k).uid /\ api[k].uid = Work(k).uid
  BY <1>0, Zenon DEF FailCreate, KeyInv, CreateOwnsKey, CreatePCs
<1>2. ~Superseded(k, Work(k).uid)
  BY <1>1, Zenon DEF Superseded
<1>3. /\ op'[Worker][k] = Idle
      /\ \A b \in {Worker, Hook}, j \in Keys : b # Worker \/ j # k => op'[b][j] = op[b][j]
  BY <1>0, OpEnds, Zenon DEF FailCreate
<1>4. /\ \A j \in Keys \ {k} : pods'[j] = pods[j] /\ leftover'[j] = leftover[j]
      /\ UNCHANGED <<api, lastUID, removed, guest, deleting, starting>>
      /\ guest[k].state = "none" \/ leftover'[k] = Work(k).uid
  BY <1>0, <1>2 DEF FailCreate, Shape, cluster, host, restart
<1>5. Onward /\ Others(k)
  BY <1>0, <1>3, <1>4, Unmoved, Zenon DEF Onward, Others, Same
<1>6. op'[Hook][k] = op[Hook][k] /\ op'[Worker][k].pc = "idle"
  BY <1>0, <1>3, Zenon
<1>7. CreateOwnsKey(k)' /\ RemovedIsGone(k)'
  BY <1>0, <1>4, <1>6, Zenon DEF KeyInv, CreateOwnsKey, RemovedIsGone, CreatePCs, Work
<1>8. LookedAfter(k)'
  BY <1>1, <1>4, Zenon DEF LookedAfter
<1>9. DeleteIsExclusive(k)' /\ StartupIsFirst(k)'
  BY <1>0, <1>4, <1>6, Zenon DEF KeyInv, DeleteIsExclusive, StartupIsFirst, Removing
<1>10. KeyInv(k)'
  BY <1>7, <1>8, <1>9, Zenon DEF KeyInv
<1> QED BY <1>0, <1>5, <1>10, KeyStep, Zenon

LEMMA InvCreates ==
    ASSUME Inv, NEW k \in Keys, Creates(k)
    PROVE  Inv'
<1>0. Shape /\ KeyInv(k) /\ Shape' /\ Worker \in {Worker, Hook}
  BY ShapeCreates DEF Inv
<1>1. CASE CreatePod(k)
  BY <1>1, InvCreatePod, Zenon
<1>2. CASE CreateInspect(k)
  <2>1. PICK r \in OpRec : /\ r.pc \in {"bind", "start", "run"}
                           /\ r.uid = Work(k).uid
                           /\ op' = [op EXCEPT ![Worker][k] = r]
    BY <1>0, <1>2, CreateInspectStep, Zenon
  <2>2. /\ op'[Worker][k] = r
        /\ \A b \in {Worker, Hook}, j \in Keys : b # Worker \/ j # k => op'[b][j] = op[b][j]
    BY <1>0, <2>1, Zenon DEF Shape
  <2>3. /\ Work(k).pc = "inspect"
        /\ UNCHANGED <<api, lastUID, removed, guest, pods, leftover, deleting, starting>>
    BY <1>2, Zenon DEF CreateInspect, cluster, host, restart
  <2> QED BY <1>0, <2>1, <2>2, <2>3, CreateGoesOn, Zenon DEF CreatePCs
<1>3. CASE CreateLaunches(k)
  <2>1. /\ op'[Worker][k].pc = "reinspect" /\ op'[Worker][k].uid = Work(k).uid
        /\ \A b \in {Worker, Hook}, j \in Keys : b # Worker \/ j # k => op'[b][j] = op[b][j]
    BY <1>0, <1>3, OpGoto, Zenon DEF CreateLaunches, OpPCs, Work
  <2>2. /\ Work(k).pc \in CreatePCs
        /\ UNCHANGED <<api, lastUID, removed, pods, leftover, deleting, starting>>
    BY <1>3, Zenon DEF CreateLaunches, cluster, tables, restart, CreatePCs
  <2>3. \A j \in Keys \ {k} : guest'[j] = guest[j]
    BY <1>0, <1>3, Zenon DEF CreateLaunches, Launches, Shape
  <2> QED BY <1>0, <2>1, <2>2, <2>3, CreateGoesOn, Zenon DEF CreatePCs
<1>4. CASE CreateLaunchFails(k)
  <2>1. /\ op'[Worker][k].pc = "fail" /\ op'[Worker][k].uid = Work(k).uid
        /\ \A b \in {Worker, Hook}, j \in Keys : b # Worker \/ j # k => op'[b][j] = op[b][j]
    BY <1>0, <1>4, OpGoto, Zenon DEF CreateLaunchFails, OpPCs, Work
  <2>2. /\ Work(k).pc \in CreatePCs
        /\ UNCHANGED <<api, lastUID, removed, pods, leftover, deleting, starting>>
    BY <1>4 DEF CreateLaunchFails, cluster, tables, restart, CreatePCs
  <2>3. \A j \in Keys \ {k} : guest'[j] = guest[j]
    BY <1>0, <1>4, Zenon DEF CreateLaunchFails, LaunchFails, Shape, host
  <2> QED BY <1>0, <2>1, <2>2, <2>3, CreateGoesOn, Zenon DEF CreatePCs
<1>5. CASE CreateReinspect(k)
  <2>1. PICK rec \in {guest[k], NoGuest} :
          op' = [op EXCEPT ![Worker][k] = [op[Worker][k] EXCEPT !.pc = "bind", !.rec = rec]]
    BY <1>5, Zenon DEF CreateReinspect
  <2> DEFINE r == [op[Worker][k] EXCEPT !.pc = "bind", !.rec = rec]
  <2>2. r.pc = "bind" /\ r.uid = Work(k).uid
    <3>1. op[Worker][k] \in OpRec
      BY <1>0 DEF Shape
    <3> QED BY <3>1, Zenon DEF OpRec, Work
  <2> HIDE DEF r
  <2>3. /\ op'[Worker][k] = r
        /\ \A b \in {Worker, Hook}, j \in Keys : b # Worker \/ j # k => op'[b][j] = op[b][j]
    BY <1>0, <2>1 DEF Shape, r
  <2>4. /\ Work(k).pc = "reinspect"
        /\ UNCHANGED <<api, lastUID, removed, guest, pods, leftover, deleting, starting>>
    BY <1>5, Zenon DEF CreateReinspect, cluster, host, tables, restart
  <2> QED BY <1>0, <2>2, <2>3, <2>4, CreateGoesOn, Zenon DEF CreatePCs
<1>6. CASE FailCreate(k)
  BY <1>6, InvFailCreate
<1>7. CASE CreateBind(k)
  <2>1. /\ Work(k).pc = "bind" /\ pods[k] = Work(k).uid
        /\ ~deleting[k] /\ ~Superseded(k, Work(k).uid)
    BY <1>0, <1>7, Zenon DEF CreateBind, KeyInv, CreateOwnsKey, CreatePCs, Superseded
  <2>2. /\ op'[Worker][k].pc = "publish" /\ op'[Worker][k].uid = Work(k).uid
        /\ \A b \in {Worker, Hook}, j \in Keys : b # Worker \/ j # k => op'[b][j] = op[b][j]
    BY <1>0, <1>7, <2>1, OpGoto, Zenon DEF CreateBind, OpPCs, Work
  <2>3. /\ \A j \in Keys : pods'[j] = pods[j]
        /\ UNCHANGED <<api, lastUID, removed, guest, leftover, deleting, starting>>
    BY <1>0, <1>7, <2>1, Zenon DEF CreateBind, Shape, cluster, host, restart
  <2> QED BY <1>0, <2>1, <2>2, <2>3, CreateGoesOn, Zenon DEF CreatePCs
<1>8. CASE CreatePublish(k)
  <2>1. api[k].uid = Work(k).uid
    BY <1>0, <1>8, Zenon DEF CreatePublish, KeyInv, CreateOwnsKey, CreatePCs
  <2>2. /\ op'[Worker][k] = Idle
        /\ \A b \in {Worker, Hook}, j \in Keys : b # Worker \/ j # k => op'[b][j] = op[b][j]
    BY <1>0, <1>8, OpEnds, Zenon DEF CreatePublish
  <2>3. UNCHANGED <<lastUID, removed, guest, pods, leftover, deleting, starting>>
    BY <1>8, <2>1, Zenon DEF CreatePublish, host, tables, restart
  <2>4. \A j \in Keys : api'[j].uid = api[j].uid
    <3>1. \/ UNCHANGED api
          \/ api' = [api EXCEPT ![k] = [api[k] EXCEPT !.port = vnc[k], !.ran = TRUE]]
      BY <1>8, Zenon DEF CreatePublish
    <3>2. [api[k] EXCEPT !.port = vnc[k], !.ran = TRUE].uid = api[k].uid
      <4>1. api[k] \in PodRec
        BY <1>0, Zenon DEF Shape
      <4> QED BY <4>1, Zenon DEF PodRec
    <3> QED BY <1>0, <3>1, <3>2, Zenon DEF Shape
  <2> QED BY <1>0, <2>2, <2>3, <2>4, WorkerEnds, Zenon
<1> QED BY <1>1, <1>2, <1>3, <1>4, <1>5, <1>6, <1>7, <1>8 DEF Creates

LEMMA InvRepairs ==
    ASSUME Inv, NEW k \in Keys, NEW u \in UID, Repairs(k, u)
    PROVE  Inv'
<1>0. Shape /\ Shape' /\ lastUID \in 0..MaxUID
  BY ShapeRepairs, Zenon DEF Inv, Shape
<1>1. /\ UNCHANGED <<lastUID, removed, pods, leftover, deleting, op, starting>>
      /\ \A j \in Keys : api'[j].uid = api[j].uid
      /\ \A j \in Keys : guest'[j].state = "none" <=> guest[j].state = "none"
  <2>1. CASE RecoverAdoptsPort(k, u)
    <3>1. fix[k][u].rec.port \in AnyPort
      BY <1>0 DEF Shape, FixRec, GuestRec
    <3>2. \A j \in Keys : api'[j].uid = api[j].uid
      BY <1>0, <2>1, <3>1, EndpointsTyped, Zenon DEF RecoverAdoptsPort
    <3> QED BY <2>1, <3>2, Zenon DEF RecoverAdoptsPort, host, restart
  <2>2. CASE RecoverStarts(k, u)
    BY <1>0, <2>2, Zenon DEF RecoverStarts, Launches, Shape, cluster, tables, restart
  <2>3. CASE RecoverStartFails(k, u)
    BY <2>3, Zenon DEF RecoverStartFails, LaunchFails, host, cluster, tables, restart
  <2>4. CASE \/ Probe(k, u) \/ ProbeBackfills(k, u) \/ RecoverInspect(k, u)
             \/ RecoverReinspect(k, u) \/ RecoverCheck(k, u) \/ RecoverUpdate(k, u)
    BY <2>4, Zenon DEF Probe, ProbeBackfills, RecoverInspect, RecoverReinspect, RecoverCheck,
                RecoverUpdate, host, cluster, tables, restart
  <2> QED BY <2>1, <2>2, <2>3, <2>4, Zenon DEF Repairs
<1>2. Onward /\ Others(k) /\ Same(k)
  BY <1>0, <1>1, Unmoved, Zenon DEF Onward, Others, Same
<1> QED BY <1>0, <1>2, SameStep, Zenon

LEMMA InvDeletePod ==
    ASSUME Inv, NEW k \in Keys, DeletePod(k)
    PROVE  Inv'
<1>0. Shape /\ KeyInv(k) /\ Shape' /\ Worker # Hook /\ lastUID \in 0..MaxUID
  BY ShapeDeletes, Constants, Zenon DEF Inv, Deletes, Shape
<1>1. PICK u \in UID :
        op' = [op EXCEPT ![Worker][k] = [Idle EXCEPT !.pc = "claim", !.uid = u]]
  BY Zenon DEF DeletePod
<1>2. /\ op'[Worker][k].pc = "claim" /\ op'[Hook][k] = op[Hook][k]
      /\ \A b \in {Worker, Hook}, j \in Keys : b # Worker \/ j # k => op'[b][j] = op[b][j]
  BY <1>0, <1>1, ClaimOp, Zenon DEF Shape
<1>3. starting = {} /\ UNCHANGED <<api, lastUID, removed, guest, pods, leftover, deleting, starting>>
  BY DEF DeletePod, Up, cluster, host, tables, restart
<1>4. Onward /\ Others(k)
  BY <1>0, <1>2, <1>3, Unmoved, Zenon DEF Onward, Others, Same
<1>5. CreateOwnsKey(k)' /\ RemovedIsGone(k)' /\ LookedAfter(k)'
  BY <1>0, <1>2, <1>3, Zenon
     DEF KeyInv, CreateOwnsKey, RemovedIsGone, LookedAfter, CreatePCs, Work
<1>6. DeleteIsExclusive(k)' /\ StartupIsFirst(k)'
  BY <1>0, <1>2, <1>3, Zenon DEF KeyInv, DeleteIsExclusive, StartupIsFirst, Removing
<1>7. KeyInv(k)'
  BY <1>5, <1>6, Zenon DEF KeyInv
<1> QED BY <1>0, <1>4, <1>7, KeyStep, Zenon

LEMMA InvHook ==
    ASSUME Inv, NEW k \in Keys, NEW u \in UID, DeleteFailedMacosCreate(k, u)
    PROVE  Inv'
<1>a. Shape /\ KeyInv(k) /\ lastUID \in 0..MaxUID
  BY Zenon DEF Inv, Shape
<1>b. Shape'
  BY <1>a, ShapeDeletes, Zenon DEF Deletes
<1>c. u \in 0..MaxUID /\ u # 0
  BY MacosAssumption DEF UID
<1>0. Shape /\ KeyInv(k) /\ Shape' /\ Worker # Hook /\ lastUID \in 0..MaxUID
      /\ u \in 0..MaxUID /\ u # 0
  BY <1>a, <1>b, <1>c, Constants, Zenon
<1>1. /\ starting = {} /\ <<k, u>> \in removed /\ removed' = removed \ {<<k, u>>}
      /\ op[Hook][k].pc = "idle"
      /\ UNCHANGED <<api, lastUID, guest, pods, leftover, deleting, starting>>
  BY Zenon DEF DeleteFailedMacosCreate, Up, host, tables, restart
<1>2. u # api[k].uid /\ u <= lastUID
  BY <1>0, <1>1, Zenon DEF KeyInv, RemovedIsGone
<1>3. CASE pods[k] = 0 /\ leftover[k] = u
  <2>1. op' = [op EXCEPT ![Hook][k] = [Idle EXCEPT !.pc = "claim", !.uid = u]]
    BY <1>3, Zenon DEF DeleteFailedMacosCreate
  <2>2. /\ op'[Hook][k].pc = "claim" /\ op'[Hook][k].uid = u /\ op'[Worker][k] = op[Worker][k]
        /\ \A b \in {Worker, Hook}, j \in Keys : b # Hook \/ j # k => op'[b][j] = op[b][j]
    BY <1>0, <2>1, ClaimOp, Zenon DEF Shape
  <2>3. Onward /\ Others(k)
    BY <1>0, <1>1, <2>2, Unmoved, Zenon DEF Onward, Others, Same
  <2>4. CreateOwnsKey(k)' /\ RemovedIsGone(k)' /\ LookedAfter(k)'
    BY <1>0, <1>1, <1>2, <2>2, Zenon DEF KeyInv, CreateOwnsKey, RemovedIsGone, LookedAfter, Work
  <2>5. DeleteIsExclusive(k)' /\ StartupIsFirst(k)'
    BY <1>0, <1>1, <2>2, Zenon DEF KeyInv, DeleteIsExclusive, StartupIsFirst, Removing, HookPCs
  <2>6. KeyInv(k)'
    BY <2>4, <2>5, Zenon DEF KeyInv
  <2> QED BY <1>0, <2>3, <2>6, KeyStep, Zenon
<1>4. CASE ~(pods[k] = 0 /\ leftover[k] = u)
  <2>1. UNCHANGED op
    BY <1>4, Zenon DEF DeleteFailedMacosCreate
  <2>2. Onward /\ Others(k)
    BY <1>0, <1>1, <2>1, Unmoved, Zenon DEF Onward, Others, Same
  <2>3. CreateOwnsKey(k)' /\ RemovedIsGone(k)' /\ LookedAfter(k)'
    BY <1>0, <1>1, <1>4, <2>1, Zenon DEF KeyInv, CreateOwnsKey, RemovedIsGone, LookedAfter, Work
  <2>4. DeleteIsExclusive(k)' /\ StartupIsFirst(k)'
    BY <1>0, <1>1, <2>1, Zenon DEF KeyInv, DeleteIsExclusive, StartupIsFirst, Removing
  <2>5. KeyInv(k)'
    BY <2>3, <2>4 DEF KeyInv
  <2> QED BY <1>0, <2>2, <2>5, KeyStep
<1> QED BY <1>3, <1>4, Zenon

LEMMA InvDeleteClaim ==
    ASSUME Inv, NEW k \in Keys, NEW a \in {Worker, Hook}, DeleteClaim(a, k)
    PROVE  Inv'
<1>0. Shape /\ KeyInv(k) /\ Shape' /\ Worker # Hook /\ lastUID \in 0..MaxUID
      /\ Worker \in {Worker, Hook} /\ Hook \in {Worker, Hook}
  BY ShapeDeletes, Constants, Zenon DEF Inv, Deletes, Shape
<1>1. /\ op[a][k].pc = "claim" /\ ~deleting[k]
      /\ UNCHANGED <<api, lastUID, removed, guest, pods, leftover, starting>>
  BY Zenon DEF DeleteClaim, cluster, host, tables, restart
<1>c. "gone" \in OpPCs /\ "rm" \in OpPCs
  BY Zenon DEF OpPCs
<1>g. \/ Goto(a, k, "gone") /\ UNCHANGED deleting /\ pods[k] # 0
      \/ /\ Goto(a, k, "rm") /\ deleting' = [deleting EXCEPT ![k] = TRUE]
         /\ pods[k] \in {0, op[a][k].uid}
  BY Zenon DEF DeleteClaim, Superseded
<1>2. /\ op'[a][k].pc \in {"gone", "rm"} /\ op'[a][k].uid = op[a][k].uid
      /\ \A b \in {Worker, Hook}, j \in Keys : b # a \/ j # k => op'[b][j] = op[b][j]
  <2>1. Shape
    BY <1>0
  <2> QED BY <1>c, <1>g, <2>1, OpGoto
<1>3. /\ \A j \in Keys \ {k} : deleting'[j] = deleting[j]
      /\ op'[a][k].pc = "gone" => deleting'[k] = deleting[k] /\ pods[k] # 0
      /\ op'[a][k].pc = "rm" => deleting'[k] /\ pods[k] \in {0, op[a][k].uid}
  <2>1. Shape /\ deleting \in [Keys -> BOOLEAN]
    BY <1>0, Zenon DEF Shape
  <2>2. CASE Goto(a, k, "gone") /\ UNCHANGED deleting /\ pods[k] # 0
    <3>1. op'[a][k].pc = "gone"
      BY <1>c, <2>1, <2>2, OpGoto
    <3> QED BY <2>2, <3>1, Zenon
  <2>3. CASE /\ Goto(a, k, "rm") /\ deleting' = [deleting EXCEPT ![k] = TRUE]
             /\ pods[k] \in {0, op[a][k].uid}
    <3>1. op'[a][k].pc = "rm"
      BY <1>c, <2>1, <2>3, OpGoto
    <3> QED BY <2>1, <2>3, <3>1, Zenon
  <2> QED BY <1>g, <2>2, <2>3, Zenon
<1>4. starting = {}
  BY <1>0, <1>1, Zenon DEF KeyInv, StartupIsFirst
<1>5. Onward /\ Others(k)
  BY <1>0, <1>1, <1>2, <1>3, Unmoved, Zenon DEF Onward, Others, Same
<1>6. CreateOwnsKey(k)'
  <2>1. CASE a = Worker
    BY <1>2, <2>1 DEF CreateOwnsKey, CreatePCs, Work
  <2>2. CASE a = Hook
    BY <1>0, <1>1, <1>2, <1>3, <2>2, Zenon DEF KeyInv, CreateOwnsKey, RemovedIsGone, Work
  <2> QED BY <2>1, <2>2
<1>7. RemovedIsGone(k)'
  BY <1>0, <1>1, <1>2, Zenon DEF KeyInv, RemovedIsGone
<1>8. LookedAfter(k)'
  BY <1>0, <1>1, <1>2, <1>3, Zenon DEF KeyInv, LookedAfter
<1>9. DeleteIsExclusive(k)' /\ StartupIsFirst(k)'
  BY <1>0, <1>1, <1>2, <1>3, <1>4
     DEF KeyInv, DeleteIsExclusive, StartupIsFirst, Removing, HookPCs
<1>10. KeyInv(k)'
  BY <1>6, <1>7, <1>8, <1>9, Zenon DEF KeyInv
<1> QED BY <1>0, <1>5, <1>10, KeyStep, Zenon

LEMMA InvDeleteRemovesVM ==
    ASSUME Inv, NEW k \in Keys, NEW a \in {Worker, Hook}, DeleteRemovesVM(a, k)
    PROVE  Inv'
<1>0. Shape /\ KeyInv(k) /\ Shape' /\ Worker # Hook /\ lastUID \in 0..MaxUID
      /\ Worker \in {Worker, Hook} /\ Hook \in {Worker, Hook}
  BY ShapeDeletes, Constants, Zenon DEF Inv, Deletes, Shape
<1>1. /\ op[a][k].pc = "rm"
      /\ guest'[k].state = "none" /\ \A j \in Keys \ {k} : guest'[j] = guest[j]
      /\ UNCHANGED <<api, lastUID, removed, pods, leftover, deleting, starting>>
  BY <1>0, Constants, Zenon DEF DeleteRemovesVM, Shape, cluster, tables, restart
<1>2. /\ op'[a][k].pc = "forget" /\ op'[a][k].uid = op[a][k].uid
      /\ \A b \in {Worker, Hook}, j \in Keys : b # a \/ j # k => op'[b][j] = op[b][j]
  <2>1. Shape /\ Goto(a, k, "forget") /\ "forget" \in OpPCs
    BY <1>0, Zenon DEF DeleteRemovesVM, OpPCs
  <2> QED BY <2>1, OpGoto
<1>3. Onward /\ Others(k)
  BY <1>0, <1>1, <1>2, Unmoved, Zenon DEF Onward, Others, Same
<1>4. CreateOwnsKey(k)' /\ RemovedIsGone(k)' /\ LookedAfter(k)'
  BY <1>0, <1>1, <1>2, Zenon
     DEF KeyInv, CreateOwnsKey, RemovedIsGone, LookedAfter, CreatePCs, Work
<1>5. DeleteIsExclusive(k)' /\ StartupIsFirst(k)'
  BY <1>0, <1>1, <1>2, Zenon DEF KeyInv, DeleteIsExclusive, StartupIsFirst, Removing, HookPCs
<1>6. KeyInv(k)'
  BY <1>4, <1>5 DEF KeyInv
<1> QED BY <1>0, <1>3, <1>6, KeyStep, Zenon

LEMMA InvDeleteRemoveFails ==
    ASSUME Inv, Losses \cap Faults = {}, NEW k \in Keys, NEW a \in {Worker, Hook},
           DeleteRemoveFails(a, k)
    PROVE  Inv'
<1>0. Shape /\ KeyInv(k) /\ Shape' /\ Worker # Hook /\ lastUID \in 0..MaxUID
      /\ Worker \in {Worker, Hook} /\ Hook \in {Worker, Hook} /\ Idle.pc = "idle"
  BY ShapeDeletes, Constants, Zenon DEF Inv, Deletes, Shape
<1>1. a = Worker
  BY Zenon DEF DeleteRemoveFails, May, Losses
<1>2. /\ op[Worker][k].pc = "rm"
      /\ ~deleting'[k] /\ \A j \in Keys \ {k} : deleting'[j] = deleting[j]
      /\ UNCHANGED <<api, lastUID, removed, guest, pods, leftover, starting>>
  BY <1>0, <1>1, Zenon DEF DeleteRemoveFails, Shape, cluster, host, tables, restart
<1>3. /\ op'[Worker][k].pc = "idle" /\ op'[Hook][k] = op[Hook][k]
      /\ \A b \in {Worker, Hook}, j \in Keys : b # Worker \/ j # k => op'[b][j] = op[b][j]
  BY <1>0, <1>1, OpEnds, Zenon DEF DeleteRemoveFails
<1>4. Onward /\ Others(k)
  BY <1>0, <1>2, <1>3, Unmoved, Zenon DEF Onward, Others, Same
<1>5. CreateOwnsKey(k)' /\ RemovedIsGone(k)' /\ LookedAfter(k)'
  BY <1>0, <1>2, <1>3, Zenon
     DEF KeyInv, CreateOwnsKey, RemovedIsGone, LookedAfter, CreatePCs, Work
<1>6. DeleteIsExclusive(k)' /\ StartupIsFirst(k)'
  BY <1>0, <1>2, <1>3, Zenon DEF KeyInv, DeleteIsExclusive, StartupIsFirst, Removing
<1>7. KeyInv(k)'
  BY <1>5, <1>6, Zenon DEF KeyInv
<1> QED BY <1>0, <1>4, <1>7, KeyStep, Zenon

LEMMA InvDeleteForgets ==
    ASSUME Inv, NEW k \in Keys, NEW a \in {Worker, Hook}, DeleteForgets(a, k)
    PROVE  Inv'
<1>0. Shape /\ KeyInv(k) /\ Shape' /\ Worker # Hook /\ lastUID \in 0..MaxUID
      /\ Worker \in {Worker, Hook} /\ Hook \in {Worker, Hook}
  BY ShapeDeletes, Constants, Zenon DEF Inv, Deletes, Shape
<1>1. /\ op[a][k].pc = "forget"
      /\ \A j \in Keys \ {k} : /\ deleting'[j] = deleting[j]
                               /\ pods'[j] = pods[j]
                               /\ leftover'[j] = leftover[j]
      /\ ~deleting'[k]
      /\ UNCHANGED <<api, lastUID, removed, guest, starting>>
  BY <1>0, Zenon DEF DeleteForgets, Forget, Clear, Shape, cluster, host, restart
<1>2. /\ op'[a][k].pc = "gone" /\ op'[a][k].uid = op[a][k].uid
      /\ \A b \in {Worker, Hook}, j \in Keys : b # a \/ j # k => op'[b][j] = op[b][j]
  <2>1. Shape /\ Goto(a, k, "gone") /\ "gone" \in OpPCs
    BY <1>0, Zenon DEF DeleteForgets, OpPCs
  <2> QED BY <2>1, OpGoto
<1>3. guest[k].state = "none" /\ deleting[k]
  BY <1>0, <1>1, Zenon DEF KeyInv, DeleteIsExclusive, Removing
<1>4. Onward /\ Others(k)
  BY <1>0, <1>1, <1>2, Unmoved, Zenon DEF Onward, Others, Same
<1>5. CreateOwnsKey(k)'
  BY <1>0, <1>2, <1>3, Zenon DEF KeyInv, CreateOwnsKey, CreatePCs, Work
<1>6. RemovedIsGone(k)' /\ LookedAfter(k)'
  BY <1>0, <1>1, <1>2, <1>3, Zenon DEF KeyInv, RemovedIsGone, LookedAfter
<1>7. DeleteIsExclusive(k)'
  BY <1>0, <1>1, <1>2, <1>3, ZenonT(30) DEF KeyInv, DeleteIsExclusive, Removing, HookPCs
<1>9. StartupIsFirst(k)'
  BY <1>0, <1>1, <1>2, Zenon DEF KeyInv, StartupIsFirst
<1>8. KeyInv(k)'
  BY <1>5, <1>6, <1>7, <1>9, Zenon DEF KeyInv
<1> QED BY <1>0, <1>4, <1>8, KeyStep

LEMMA InvDeleteEnds ==
    ASSUME Inv, NEW k \in Keys, NEW a \in {Worker, Hook}, DeleteEnds(a, k)
    PROVE  Inv'
<1>0. Shape /\ KeyInv(k) /\ Shape' /\ Worker # Hook /\ lastUID \in 0..MaxUID
      /\ Worker \in {Worker, Hook} /\ Hook \in {Worker, Hook} /\ Idle.pc = "idle"
      /\ api[k].uid \in 0..MaxUID
  BY ShapeDeletes, Constants, Zenon DEF Inv, Deletes, Shape, PodRec
<1>1. /\ op[a][k].pc = "gone"
      /\ UNCHANGED <<lastUID, guest, pods, leftover, deleting, starting>>
  BY Zenon DEF DeleteEnds, host, tables, restart
<1>2. /\ op'[a][k].pc = "idle"
      /\ \A b \in {Worker, Hook}, j \in Keys : b # a \/ j # k => op'[b][j] = op[b][j]
  BY <1>0, OpEnds DEF DeleteEnds
<1>3. starting = {}
  BY <1>0, <1>1, Zenon DEF KeyInv, StartupIsFirst
<1>4. CASE a = Worker /\ api[k].uid = op[a][k].uid
  <2>1. api'[k].uid = 0 /\ \A j \in Keys \ {k} : api'[j] = api[j]
    BY <1>0, <1>4, Constants, Zenon DEF DeleteEnds, ApiDrops, Shape
  <2>2. removed' = removed \cup {<<k, api[k].uid>>}
    BY <1>4, Zenon DEF DeleteEnds, ApiDrops
  <2>3. op'[Hook][k] = op[Hook][k]
    BY <1>0, <1>2, <1>4, Zenon
  <2>4. Onward /\ Others(k)
    BY <1>0, <1>1, <1>2, <1>4, <2>1, <2>2, Unmoved, Zenon DEF Onward, Others, Same
  <2>5. CreateOwnsKey(k)' /\ LookedAfter(k)'
    BY <1>0, <1>1, <1>2, <1>4, <2>1, <2>2, <2>3, Zenon
       DEF KeyInv, CreateOwnsKey, LookedAfter, CreatePCs, Work
  <2>6. RemovedIsGone(k)'
    BY <1>0, <1>1, <2>1, <2>2, <2>3, UIDs, Unmoved, Zenon DEF KeyInv, RemovedIsGone
  <2>7. DeleteIsExclusive(k)' /\ StartupIsFirst(k)'
    BY <1>0, <1>1, <1>2, <1>3, <1>4, <2>3, Zenon
       DEF KeyInv, DeleteIsExclusive, StartupIsFirst, Removing
  <2>8. KeyInv(k)'
    BY <2>5, <2>6, <2>7, Zenon DEF KeyInv
  <2> QED BY <1>0, <2>4, <2>8, KeyStep, Zenon
<1>5. CASE ~(a = Worker /\ api[k].uid = op[a][k].uid)
  <2>1. UNCHANGED <<api, removed>>
    BY <1>5, Zenon DEF DeleteEnds
  <2>2. Onward /\ Others(k)
    BY <1>0, <1>1, <1>2, <2>1, Unmoved, Zenon DEF Onward, Others, Same
  <2>3. CreateOwnsKey(k)' /\ LookedAfter(k)'
    BY <1>0, <1>1, <1>2, <2>1, Zenon DEF KeyInv, CreateOwnsKey, LookedAfter, CreatePCs, Work
  <2>4. RemovedIsGone(k)'
    BY <1>0, <1>1, <1>2, <2>1, Zenon DEF KeyInv, RemovedIsGone
  <2>5. DeleteIsExclusive(k)' /\ StartupIsFirst(k)'
    BY <1>0, <1>1, <1>2, <1>3, Zenon
       DEF KeyInv, DeleteIsExclusive, StartupIsFirst, Removing, HookPCs
  <2>6. KeyInv(k)'
    BY <2>3, <2>4, <2>5 DEF KeyInv
  <2> QED BY <1>0, <2>2, <2>6, KeyStep, Zenon
<1> QED BY <1>4, <1>5

LEMMA InvDeletes ==
    ASSUME Inv, Losses \cap Faults = {}, NEW k \in Keys, Deletes(k)
    PROVE  Inv'
<1>1. CASE FrameworkRemoves(k)
  <2>1. Shape'
    BY <1>1, ShapeDeletes, Zenon DEF Inv, Deletes
  <2>2. UNCHANGED <<lastUID, guest, pods, leftover, deleting, op, starting>>
        /\ starting = {} /\ Work(k).pc = "idle" /\ api[k].uid # 0 /\ ApiDrops(k)
    BY <1>1 DEF FrameworkRemoves, host, tables, restart, Up
  <2> QED BY <2>1, <2>2, DropKeepsInv, Zenon DEF CreatePCs
<1>2. CASE DeletePod(k) \/ \E u \in UID : DeleteFailedMacosCreate(k, u)
  BY <1>2, InvDeletePod, InvHook, Zenon
<1>3. ASSUME NEW a \in {Worker, Hook},
             \/ DeleteClaim(a, k) \/ DeleteRemovesVM(a, k) \/ DeleteRemoveFails(a, k)
             \/ DeleteForgets(a, k) \/ DeleteEnds(a, k)
      PROVE  Inv'
  BY <1>3, InvDeleteClaim, InvDeleteRemovesVM, InvDeleteRemoveFails, InvDeleteForgets,
     InvDeleteEnds, Zenon
<1> QED BY <1>1, <1>2, <1>3 DEF Deletes

--------------------------------------------------------------------------------
(* The status reconciler, and the restart.                                 *)

LEMMA InvReconcile ==
    ASSUME Inv, NEW k \in Keys, ReconcilePodStatus(k)
    PROVE  Inv'
<1>1. Shape /\ Shape' /\ vnc[k] \in AnyPort /\ lastUID \in 0..MaxUID
  BY ShapeReconcile, Zenon DEF Inv, Shape
<1>2. \A j \in Keys : api'[j].uid = api[j].uid
  BY <1>1, EndpointsTyped, Zenon DEF ReconcilePodStatus
<1>3. Onward /\ Others(k) /\ Same(k)
  BY <1>1, <1>2, Unmoved, Zenon
     DEF ReconcilePodStatus, Onward, Others, Same, host, tables, restart
<1> QED BY <1>1, <1>3, SameStep, Zenon

\* A restart forgets all; every pod at the apiserver is reconciled before the
\* workers start.
LEMMA InvRestart ==
    ASSUME Inv, Losses \cap Faults = {}, Restart
    PROVE  Inv'
<1>1. Shape /\ Shape'
  BY ShapeRestart, Zenon DEF Inv
<1>2. \A k \in Keys : guest[k].state # "none" => api[k].uid # 0
  BY Zenon DEF Restart, May, Losses
<1>3. ASSUME NEW k \in Keys PROVE KeyInv(k)'
  <2>1. /\ guest' = guest /\ api' = api /\ lastUID' = lastUID /\ removed' = {}
        /\ starting' = {j \in Keys : api[j].uid # 0}
        /\ \A a \in {Worker, Hook} : op'[a][k].pc = "idle"
    BY Constants, Zenon DEF Restart, host
  <2>2. KeyInv(k) /\ Worker \in {Worker, Hook} /\ Hook \in {Worker, Hook}
    BY Zenon DEF Inv
  <2>3. CreateOwnsKey(k)' /\ LookedAfter(k)'
    BY <1>2, <2>1, <2>2, Zenon DEF CreateOwnsKey, LookedAfter, CreatePCs, Work
  <2>4. RemovedIsGone(k)'
    BY <2>1, <2>2, Zenon DEF KeyInv, RemovedIsGone
  <2>5. DeleteIsExclusive(k)' /\ StartupIsFirst(k)'
    BY <2>1, <2>2, Zenon DEF DeleteIsExclusive, StartupIsFirst, Removing, HookPCs
  <2> QED BY <2>3, <2>4, <2>5, Zenon DEF KeyInv
<1> QED BY <1>1, <1>3 DEF Inv

LEMMA InvReconcileMacosPod ==
    ASSUME Inv, Losses \cap Faults = {}, NEW k \in Keys, ReconcileMacosPod(k)
    PROVE  Inv'
<1>0. Shape /\ KeyInv(k) /\ Shape' /\ lastUID \in 0..MaxUID
      /\ Worker \in {Worker, Hook} /\ Hook \in {Worker, Hook}
  BY ShapeReconcileMacosPod, Zenon DEF Inv, Shape
<1>1. /\ k \in starting /\ starting' = starting \ {k}
      /\ UNCHANGED <<lastUID, removed, guest, deleting, op>>
  BY DEF ReconcileMacosPod, host
<1>2. api[k].uid # 0 /\ \A a \in {Worker, Hook} : op[a][k].pc = "idle"
  BY <1>0, <1>1, Zenon DEF KeyInv, StartupIsFirst
<1>3. guest[k].state \in {"none", "dead", "live"} /\ api[k] \in PodRec
  BY <1>0, Zenon DEF Shape, GuestRec
<1>4. /\ \A j \in Keys : api'[j].uid = api[j].uid
      /\ \A j \in Keys \ {k} : pods'[j] = pods[j] /\ leftover'[j] = leftover[j]
      /\ guest[k].state # "none" => pods'[k] # 0 \/ leftover'[k] = api[k].uid
  <2>1. ~May("blind")
    BY Zenon DEF May, Losses
  <2>2. CASE guest[k].state = "live"
    <3>1. /\ pods' = [pods EXCEPT ![k] = api[k].uid]
          /\ api' = [api EXCEPT ![k].port = guest[k].port, ![k].ran = TRUE]
          /\ UNCHANGED leftover
      BY <2>1, <2>2, Zenon DEF ReconcileMacosPod
    <3>2. \A j \in Keys : api'[j].uid = api[j].uid
      BY <1>0, <3>1, Zenon DEF Shape, PodRec
    <3> QED BY <1>0, <1>2, <3>1, <3>2, Zenon DEF Shape
  <2>3. CASE guest[k].state = "dead"
    BY <1>0, <2>1, <2>3, Zenon DEF ReconcileMacosPod, Shape
  <2>4. CASE guest[k].state = "none"
    BY <2>1, <2>4, Zenon DEF ReconcileMacosPod, tables
  <2> QED BY <1>3, <2>2, <2>3, <2>4, Zenon
<1>5. Onward /\ Others(k)
  BY <1>0, <1>1, <1>4, Unmoved, Zenon DEF Onward, Others, Same
<1>6. CreateOwnsKey(k)' /\ LookedAfter(k)'
  BY <1>0, <1>1, <1>2, <1>4, Zenon DEF CreateOwnsKey, LookedAfter, CreatePCs, Work
<1>7. RemovedIsGone(k)'
  BY <1>0, <1>1, <1>4, Zenon DEF KeyInv, RemovedIsGone
<1>8. DeleteIsExclusive(k)' /\ StartupIsFirst(k)'
  BY <1>0, <1>1, <1>2, <1>4, Zenon DEF KeyInv, DeleteIsExclusive, StartupIsFirst, Removing
<1>9. KeyInv(k)'
  BY <1>6, <1>7, <1>8 DEF KeyInv
<1> QED BY <1>0, <1>5, <1>9, KeyStep, Zenon

--------------------------------------------------------------------------------
(* The theorem.                                                            *)

LEMMA InvInit ==
    ASSUME Init
    PROVE  Inv
<1>1. Shape
  BY Constants, MacosAssumption, Zenon DEF Init, Shape
<1>2. ASSUME NEW k \in Keys PROVE KeyInv(k)
  <2>1. /\ api[k].uid = 0 /\ guest[k].state = "none" /\ removed = {} /\ starting = {}
        /\ lastUID = 0 /\ \A a \in {Worker, Hook} : op[a][k].pc = "idle"
    BY Constants, Zenon DEF Init
  <2> QED BY <2>1 DEF KeyInv, CreateOwnsKey, RemovedIsGone, DeleteIsExclusive,
         StartupIsFirst, LookedAfter, CreatePCs, HookPCs, Removing, Work
<1> QED BY <1>1, <1>2, Zenon DEF Inv

LEMMA InvNext ==
    ASSUME Inv, Losses \cap Faults = {}, [Next]_vars
    PROVE  Inv'
<1>1. CASE UNCHANGED vars
  <2>1. Shape'
    BY <1>1, ShapeNext, Zenon DEF Inv
  <2>2. Onward /\ \A j \in Keys : Same(j)
    BY <1>1 DEF Onward, Same, Inv, Shape, vars, cluster, host, tables, restart
  <2> QED BY <2>1, <2>2, SameKeepsInv, Zenon DEF Inv
<1>2. CASE Next
  BY <1>2, InvEnvironment, InvRestart, InvCreates, InvDeletes, InvReconcile,
     InvReconcileMacosPod, InvRepairs, Zenon DEF Next, Environment
<1> QED BY <1>1, <1>2, Zenon

LEMMA InvImplies ==
    ASSUME Inv
    PROVE  NoGuestIsLost
BY Zenon DEF Inv, KeyInv, LookedAfter, StartupIsFirst, NoGuestIsLost

\* NoGuestIsLost holds in every state of every instance in which none of the four
\* accepted losses happens: whatever launches, removals and inspects fail, whenever
\* guests die and however creates, deletes, the delete hook, probe repairs and
\* restarts interleave, failCreate, deleteMacosPod, DeleteFailedMacosCreate and
\* reconcileMacosPod leave nobody's guest behind.
THEOREM NoGuestIsLostAlways ==
    ASSUME Losses \cap Faults = {}
    PROVE  Spec => []NoGuestIsLost
<1>1. Init => Inv
  BY InvInit
<1>2. Inv /\ [Next]_vars => Inv'
  BY InvNext
<1>3. Inv => NoGuestIsLost
  BY InvImplies
<1> QED BY <1>1, <1>2, <1>3, PTL DEF Spec

================================================================================
