---------------------------- MODULE ReadinessProofs ----------------------------
(***************************************************************************)
(* For any number of incarnations, VMs and agents: type correctness of     *)
(* Readiness, and that a Ready result is about the pod's VM and a pod with *)
(* a VM is probed.                                                         *)
(***************************************************************************)
EXTENDS Readiness, TLAPS

Running == {"sleep", "probe", "update", "push"}

\* UIDs are handed out in order, and an operation is the tracked pod's own.
Names ==
    /\ api.uid \in {0, lastUID}
    /\ tracked <= lastUID /\ op.uid <= lastUID
    /\ op.pc \in {"forget", "track", "bind"} => op.uid # 0
    /\ op.pc \in {"patch", "start", "first"} => tracked \in {0, op.uid}

\* A bring-up that began has a VM to bind.
Room == op.pc \in {"forget", "track", "bind"} => HasVM

\* What the steps of the worker and of the reaper say of the tables.
Rows ==
    /\ deleting <=> reaper.pc # "off"
    /\ tracked = 0 => bound = 0
    /\ op.pc \in {"forget", "track", "bind", "detached", "asleep"} => bound = 0
    /\ reaper.pc = "forget" => bound = 0
    /\ op.pc \in {"patch", "start", "first"} => op.then # "none"

\* Somebody who dropped the row is about to forget the agent.
ForgetPending == op.pc \in {"forget", "detached", "asleep"} \/ reaper.pc = "forget"

\* The VM of a result or of a probe under way is the pod's, or the pod has none
\* and the result is about to be dropped.
Current(i) == i # 0 => i = bound \/ (bound = 0 /\ ForgetPending)
Fresh ==
    /\ result.ready => result.vm # 0 /\ Current(result.vm)
    /\ agent # "none" /\ ag[agent].pc \in {"first", "probe"} => Current(ag[agent].vm)

\* The pod's agent runs, unless the worker is about to start it or a newer
\* incarnation exists.
Probed ==
    /\ \A a \in Agents : ag[a].pc = "first" => op.pc = "first"
    /\ \A a, b \in Agents : ag[a].pc = "first" /\ ag[b].pc = "first" => a = b
    /\ op.pc = "first" /\ bound # 0 => agent # "none" /\ ag[agent].pc = "first"
    /\ bound # 0 /\ tracked = lastUID /\ op.pc \notin {"patch", "start", "first"}
          => agent # "none" /\ ag[agent].pc \in Running

Inv ==
    /\ TypeOK
    /\ Names
    /\ Room
    /\ Rows
    /\ Fresh
    /\ Probed

LEMMA SetupFacts ==
    ASSUME TypeOK
    PROVE  /\ setup.uids \in Nat /\ setup.vms \in Nat /\ setup.flips \in Nat
           /\ setup.agents \subseteq Agents
BY SetupsAssumption DEF TypeOK

LEMMA ConstantFacts ==
    ASSUME TypeOK
    PROVE  /\ NoPod \in [uid: UID, term: BOOLEAN, status: Statuses]
           /\ NoResult \in [ready: BOOLEAN, vm: ID]
           /\ NoPush \in [uid: UID, status: Statuses]
           /\ Resting \in AgentRec /\ Idle \in OpRec /\ NoReaper \in ReaperRec
           /\ NoRec \in [pc: {"off", "push"}, uid: UID, status: Statuses]
BY SetupFacts DEF UID, ID, Statuses, NoPod, NoResult, NoPush, Resting, Idle,
   NoReaper,
   NoRec, AgentRec, OpRec, ReaperRec, FailureThreshold

LEMMA InvInit == Init => Inv
<1> SUFFICES ASSUME Init PROVE Inv
  OBVIOUS
<1>1. /\ setup.uids \in Nat \ {0} /\ setup.vms \in Nat \ {0} /\ setup.flips \in Nat
      /\ setup \in Setups
  BY SetupsAssumption DEF Init
<1>2. /\ lastUID \in {0, 1} /\ lastVM = lastUID /\ tracked = lastUID /\ bound = lastUID
      /\ life \in {"creating", "ready", "failed"}
  BY Zenon DEF Init
<1>3. /\ reach \subseteq 1..lastVM /\ flips = 0 /\ spare = 0 /\ deleting = FALSE
      /\ agent = "none" /\ result = NoResult /\ ag = [a \in Agents |-> Resting]
      /\ slot = NoPush /\ tails = {} /\ reaper = NoReaper /\ rec = NoRec
  BY DEF Init
<1>4. api.uid = lastUID /\ api \in [uid: {0, 1}, term: BOOLEAN, status: Statuses]
  <2>1. CASE api = NoPod /\ lastUID = 0
    BY <2>1 DEF NoPod, Statuses
  <2>2. CASE api \in [uid: {1}, term: {FALSE}, status: Statuses \ {"ended"}] /\ lastUID = 1
    BY <2>2, Zenon
  <2> QED
    BY <2>1, <2>2, Zenon DEF Init
<1>5. /\ op \in OpRec /\ op.uid = lastUID /\ op.pc = IF lastUID = 0 THEN "idle" ELSE "start"
      /\ op.pc = "start" => op.then = "owed"
  <2>1. CASE op = Idle /\ lastUID = 0
    BY <1>1, <2>1 DEF Idle, OpRec, UID, ID, Statuses
  <2>2. CASE /\ op = [Idle EXCEPT !.pc = "start", !.uid = 1, !.vm = 1, !.then = "owed"]
             /\ lastUID = 1
    <3>1. 1 \in UID /\ 1 \in ID
      BY <1>1 DEF UID, ID
    <3>2. op = [pc |-> "start", uid |-> 1, vm |-> 1, then |-> "owed", create |-> FALSE,
                status |-> "pending"] /\ lastUID = 1
      BY <2>2, Zenon DEF Idle
    <3> QED
      BY <3>1, <3>2 DEF OpRec, Statuses
  <2> QED
    BY <2>1, <2>2, Zenon DEF Init
<1>6. TypeOK
  <2>1. api \in [uid: UID, term: BOOLEAN, status: Statuses]
    BY <1>1, <1>4 DEF UID
  <2>2. /\ lastUID \in UID /\ tracked \in UID /\ lastVM \in ID /\ bound \in ID
        /\ spare \in ID /\ flips \in 0..setup.flips
    BY <1>1, <1>2, <1>3 DEF UID, ID
  <2>3. reach \subseteq VMs
    BY <1>1, <1>2, <1>3 DEF VMs
  <2>4. ag \in [Agents -> AgentRec] /\ result \in [ready: BOOLEAN, vm: ID]
    BY <1>1, <1>3 DEF AgentRec, UID, ID, Statuses, Resting, NoResult,
       FailureThreshold
  <2>5. /\ slot \in [uid: UID, status: Statuses] /\ reaper \in ReaperRec
        /\ rec \in [pc: {"off", "push"}, uid: UID, status: Statuses]
    BY <1>1, <1>3 DEF ReaperRec, UID, Statuses, NoPush, NoReaper, NoRec
  <2> QED
    BY <1>1, <1>2, <1>3, <1>5, <2>1, <2>2, <2>3, <2>4, <2>5, Zenon DEF TypeOK
<1>7. Names /\ Room /\ Rows
  BY <1>2, <1>3, <1>4, <1>5 DEF Names, Room, Rows, NoReaper
<1>8. Fresh /\ Probed
  BY <1>2, <1>3, <1>5, AgentsAssumption DEF Fresh, Probed, NoResult, Resting
<1> QED
  BY <1>6, <1>7, <1>8 DEF Inv

LEMMA SameSets ==
    ASSUME UNCHANGED setup
    PROVE  /\ UID' = UID /\ ID' = ID /\ VMs' = VMs
           /\ AgentRec' = AgentRec /\ OpRec' = OpRec /\ TailRec' = TailRec
           /\ ReaperRec' = ReaperRec
BY DEF UID, ID, VMs, AgentRec, OpRec, TailRec, ReaperRec

LEMMA DerivedTyped ==
    /\ Derived \in Statuses
    /\ \A status \in Statuses : Refreshed(status) \in Statuses
BY DEF Derived, Refreshed, Statuses

LEMMA PublishedTyped ==
    ASSUME TypeOK, NEW uid, NEW status \in Statuses
    PROVE  /\ Published(uid, status) \in [uid: UID, term: BOOLEAN, status: Statuses]
           /\ Published(uid, status).uid = api.uid
BY DEF TypeOK, Published

LEMMA NotifyTyped ==
    ASSUME TypeOK, NEW uid \in UID, NEW status \in Statuses, notify(uid, status)
    PROVE  slot' \in [uid: UID, status: Statuses]
BY DEF TypeOK, notify

LEMMA TailTyped ==
    ASSUME NEW uid \in UID, NEW i \in ID
    PROVE  Tail(uid, i) \in TailRec
BY DEF Tail, TailRec, Statuses

\* Steps of the worker after which nothing of the tables or the agents is owed.
Quiet == {"idle", "stage", "publish", "push", "refresh", "remove"}

\* A step that leaves the tables and the agents alone.
LEMMA Frame ==
    ASSUME Inv, TypeOK', api'.uid \in {0, lastUID},
           UNCHANGED <<setup, lastUID, lastVM, tracked, bound, spare, probes>>,
           \/ op' = op
           \/ op.pc \in Quiet /\ op'.pc \in Quiet /\ op'.uid <= lastUID,
           \/ UNCHANGED <<reaper, deleting>>
           \/ /\ reaper.pc # "forget" /\ reaper'.pc # "forget"
              /\ deleting' <=> reaper'.pc # "off"
    PROVE  Inv'
<1>1. Names' /\ Room' /\ Rows'
  BY DEF Inv, Names, Room, HasVM, Rows, Quiet
<1>2. Fresh'
  BY DEF Inv, Fresh, Current, ForgetPending, Quiet, probes
<1>3. Probed'
  BY DEF Inv, Probed, Quiet, probes
<1> QED
  BY <1>1, <1>2, <1>3 DEF Inv

LEMMA OpMoves ==
    ASSUME TypeOK,
           NEW pc \in {"idle", "forget", "track", "bind", "patch", "detached", "start",
                       "first", "stage", "publish", "push", "refresh", "remove", "asleep"},
           NEW r, r = [op EXCEPT !.pc = pc]
    PROVE  r \in OpRec /\ r.pc = pc /\ r.uid = op.uid /\ r.then = op.then
BY Zenon DEF TypeOK, OpRec

\* What the fields of the actors' records are.
LEMMA Fields ==
    ASSUME TypeOK
    PROVE  /\ op.uid \in UID /\ op.vm \in ID /\ op.status \in Statuses
           /\ op.create \in BOOLEAN /\ op.then \in {"none", "clone", "boot", "ready", "owed"}
           /\ api.uid \in UID /\ api.status \in Statuses
           /\ \A w \in tails : w.uid \in UID /\ w.status \in Statuses
           /\ \A a \in Agents : /\ ag[a] \in AgentRec /\ ag[a].uid \in UID
                                /\ ag[a].vm \in ID /\ ag[a].status \in Statuses
           /\ reaper.uid \in UID /\ rec.uid \in UID /\ rec.status \in Statuses
           /\ slot.uid \in UID /\ slot.status \in Statuses
           /\ Idle.pc = "idle" /\ Idle.uid = 0 /\ 0 \in UID /\ 0 \in ID
BY SetupFacts DEF TypeOK, OpRec, TailRec, AgentRec, ReaperRec, Idle, UID, ID

--------------------------------------------------------------------------------
(* The steps that leave the tables and the agents alone.                   *)

LEMMA InvEnvironment ==
    ASSUME Inv, UNCHANGED setup,
           \/ ApiTerminate \/ ApiRemove \/ Drain \/ DrainFails
           \/ \E i \in VMs : GuestFlips(i)
    PROVE  Inv'
<1>0. TypeOK /\ api.uid \in {0, lastUID}
  BY Zenon DEF Inv, Names
<1> USE <1>0 DEF world, tables, probes
<1>1. CASE ApiTerminate
  <2>1. api' \in [uid: UID, term: BOOLEAN, status: Statuses] /\ api'.uid = api.uid
    BY <1>1, Zenon DEF ApiTerminate, TypeOK
  <2> QED
    BY <1>1, <2>1, SameSets, Frame DEF ApiTerminate, TypeOK
<1>2. CASE ApiRemove
  <2>1. NoPod.uid = 0
    BY DEF NoPod
  <2> QED
    BY <1>2, <2>1, ConstantFacts, SameSets, Frame DEF ApiRemove, TypeOK
<1>3. CASE Drain
  <2>1. /\ api' \in [uid: UID, term: BOOLEAN, status: Statuses] /\ api'.uid = api.uid
        /\ slot' \in [uid: UID, status: Statuses]
    BY <1>3, Fields, PublishedTyped, ConstantFacts DEF Drain
  <2> QED
    BY <1>3, <2>1, SameSets, Frame DEF Drain, TypeOK
<1>4. CASE DrainFails
  BY <1>4, ConstantFacts, SameSets, Frame DEF DrainFails, TypeOK
<1>5. CASE \E i \in VMs : GuestFlips(i)
  <2>1. reach' \subseteq VMs /\ flips' \in 0..setup.flips
    BY <1>5, SetupFacts DEF GuestFlips, TypeOK
  <2> QED
    BY <1>5, <2>1, SameSets, Frame DEF GuestFlips, TypeOK
<1> QED
  BY <1>1, <1>2, <1>3, <1>4, <1>5

LEMMA InvATail ==
    ASSUME Inv, UNCHANGED setup, ATail
    PROVE  Inv'
<1>0. TypeOK /\ api.uid \in {0, lastUID}
  BY DEF Inv, Names
<1>1. PICK w \in tails : TailReady(w) \/ TailFails(w) \/ TailPublishes(w) \/ TailPushes(w)
  BY DEF ATail
<1>2. /\ [w EXCEPT !.pc = "publish"] \in TailRec
      /\ [w EXCEPT !.pc = "push", !.status = Refreshed(@)] \in TailRec
  <2>1. w \in TailRec /\ [w EXCEPT !.pc = "publish"] \in TailRec
    BY <1>0 DEF TypeOK, TailRec
  <2>2. [w EXCEPT !.pc = "push"].status \in Statuses /\ [w EXCEPT !.pc = "push"] \in TailRec
    BY <2>1 DEF TailRec
  <2> QED
    BY <2>1, <2>2, DerivedTyped, Zenon DEF TailRec
<1> USE <1>0 DEF world, tables, probes
<1>3. CASE TailReady(w) \/ TailFails(w)
  <2>1. tails' \subseteq TailRec /\ life' \in {"creating", "ready", "failed", "asleep"}
    BY <1>2, <1>3 DEF TailReady, TailFails, TypeOK
  <2> QED
    BY <1>3, <2>1, SameSets, Frame DEF TailReady, TailFails, TypeOK
<1>4. CASE TailPublishes(w)
  <2>1. Refreshed(w.status) \in Statuses
    BY Fields, DerivedTyped
  <2>2. tails' \subseteq TailRec
    BY <1>2, <1>4 DEF TailPublishes, TypeOK
  <2>3. api' \in [uid: UID, term: BOOLEAN, status: Statuses] /\ api'.uid = api.uid
    BY <1>4, <2>1, PublishedTyped DEF TailPublishes, TypeOK
  <2> QED
    BY <1>4, <2>2, <2>3, SameSets, Frame DEF TailPublishes, TypeOK
<1>5. CASE TailPushes(w)
  <2>1. slot' \in [uid: UID, status: Statuses] /\ tails' \subseteq TailRec
    BY <1>5, Fields, NotifyTyped DEF TailPushes, TypeOK
  <2> QED
    BY <1>5, <2>1, SameSets, Frame DEF TailPushes, TypeOK
<1> QED
  BY <1>1, <1>3, <1>4, <1>5

LEMMA InvReconciler ==
    ASSUME Inv, UNCHANGED setup, Reconciler
    PROVE  Inv'
<1>0. TypeOK /\ api.uid \in {0, lastUID}
  BY DEF Inv, Names
<1> USE <1>0 DEF world, tables, probes
<1>1. CASE RecReads
  <2>1. rec' \in [pc: {"off", "push"}, uid: UID, status: Statuses]
    BY <1>1, DerivedTyped, Zenon DEF RecReads, TypeOK
  <2> QED
    BY <1>1, <2>1, SameSets, Frame DEF RecReads, TypeOK
<1>2. CASE RecPushes
  <2>1. slot' \in [uid: UID, status: Statuses]
    BY <1>2, Fields, NotifyTyped DEF RecPushes, TypeOK
  <2> QED
    BY <1>2, <2>1, ConstantFacts, SameSets, Frame DEF RecPushes, TypeOK
<1> QED
  BY <1>1, <1>2, Zenon DEF Reconciler

\* The worker's steps after the first probe, and the start of a hibernation.
LEMMA InvQuiet ==
    ASSUME Inv, UNCHANGED setup,
           Stage \/ Publish \/ Push \/ RefreshAndNotify \/ HibernateStart
    PROVE  Inv'
<1>0. /\ TypeOK /\ api.uid \in {0, lastUID} /\ op.uid <= lastUID
      /\ 0 <= lastUID /\ api.uid <= lastUID
  BY DEF Inv, Names, TypeOK, UID
<1> USE <1>0 DEF world, tables, probes, Quiet
<1>1. CASE Stage
  <2>1. /\ op.pc = "stage" /\ op' \in OpRec /\ op'.pc \in {"refresh", "publish"}
        /\ op'.uid = op.uid /\ life' \in {"creating", "ready", "failed", "asleep"}
    BY <1>1, OpMoves DEF Stage, TypeOK
  <2> QED
    BY <1>1, <2>1, SameSets, Frame, Zenon DEF Stage, TypeOK
<1>2. CASE Publish
  <2>1. Refreshed(op.status) \in Statuses
    BY Fields, DerivedTyped, Zenon
  <2>2. api' \in [uid: UID, term: BOOLEAN, status: Statuses] /\ api'.uid = api.uid
    BY <1>2, <2>1, PublishedTyped DEF Publish, TypeOK
  <2>3. /\ [op EXCEPT !.pc = "push", !.status = Refreshed(@)] \in OpRec
        /\ [op EXCEPT !.pc = "push", !.status = Refreshed(@)].pc = "push"
        /\ [op EXCEPT !.pc = "push", !.status = Refreshed(@)].uid = op.uid
    BY DerivedTyped, Zenon DEF TypeOK, OpRec
  <2>4. /\ op.pc = "publish" /\ op' \in OpRec /\ op'.pc \in {"idle", "push"}
        /\ op'.uid \in {0, op.uid}
    BY <1>2, <2>3, Fields, ConstantFacts, ZenonT(40) DEF Publish
  <2> QED
    BY <1>2, <2>2, <2>4, SameSets, Frame DEF Publish, TypeOK
<1>3. CASE Push
  <2>1. slot' \in [uid: UID, status: Statuses]
    BY <1>3, Fields, NotifyTyped DEF Push
  <2> QED
    BY <1>3, <2>1, Fields, ConstantFacts, SameSets, Frame DEF Push, TypeOK
<1>4. CASE RefreshAndNotify
  <2>1. slot' \in [uid: UID, status: Statuses]
    BY <1>4, Fields, DerivedTyped, NotifyTyped, Zenon DEF RefreshAndNotify
  <2>2. tails' \subseteq TailRec
    BY <1>4, Fields, TailTyped DEF RefreshAndNotify, TypeOK
  <2> QED
    BY <1>4, <2>1, <2>2, Fields, ConstantFacts, SameSets, Frame
       DEF RefreshAndNotify, TypeOK
<1>5. CASE HibernateStart
  <2>1. op' = [pc |-> "remove", uid |-> api.uid, vm |-> 0, then |-> "none",
               create |-> FALSE, status |-> api.status]
    BY <1>5, Zenon DEF HibernateStart, Idle
  <2>2. op' \in OpRec /\ op'.pc = "remove" /\ op'.uid = api.uid
    BY <2>1, Fields DEF OpRec
  <2> QED
    BY <1>5, <2>2, SameSets, Frame DEF HibernateStart, TypeOK
<1> QED
  BY <1>1, <1>2, <1>3, <1>4, <1>5, Zenon

\* The reaper's steps other than dropping the row and forgetting the agent.
LEMMA InvReaper ==
    ASSUME Inv, UNCHANGED setup,
           EvictClaims \/ EvictDeletes \/ DeleteClaims \/ DeleteFails \/ ReaperFinishes
    PROVE  Inv'
<1>0. /\ TypeOK /\ api.uid \in {0, lastUID} /\ (deleting <=> reaper.pc # "off")
      /\ NoReaper.pc = "off" /\ NoPod.uid = 0
  BY DEF Inv, Names, Rows, NoReaper, NoPod
<1> USE <1>0 DEF world, tables, probes
<1>1. CASE EvictClaims
  <2>1. reaper' = [pc |-> "api", uid |-> tracked, evicts |-> TRUE, push |-> FALSE]
    BY <1>1, Zenon DEF EvictClaims, NoReaper
  <2>2. reaper' \in ReaperRec /\ reaper'.pc = "api"
    BY <2>1 DEF TypeOK, ReaperRec
  <2> QED
    BY <1>1, <2>2, SameSets, Frame, Zenon DEF EvictClaims, TypeOK
<1>2. CASE EvictDeletes
  <2>1. api' \in [uid: UID, term: BOOLEAN, status: Statuses] /\ api'.uid \in {0, lastUID}
    BY <1>2, ConstantFacts DEF EvictDeletes, TypeOK
  <2>2. reaper' \in ReaperRec /\ reaper'.pc \in {"untrack", "finish"}
    <3>1. CASE reaper' = [reaper EXCEPT !.pc = "untrack",
                                        !.push = api.uid \in {0, reaper.uid}]
      <4>1. (api.uid \in {0, reaper.uid}) \in BOOLEAN
        OBVIOUS
      <4> QED
        BY <3>1, <4>1, Zenon DEF TypeOK, ReaperRec
    <3>2. CASE reaper' = [reaper EXCEPT !.pc = "finish"]
      <4>1. reaper \in ReaperRec
        BY Zenon DEF TypeOK
      <4> QED
        BY <3>2, <4>1, Zenon DEF ReaperRec
    <3> QED
      BY <1>2, <3>1, <3>2 DEF EvictDeletes
  <2> QED
    BY <1>2, <2>1, <2>2, SameSets, Frame DEF EvictDeletes, TypeOK
<1>3. CASE DeleteClaims
  <2>1. PICK uid \in {tracked, api.uid} \ {0} :
          reaper' = [NoReaper EXCEPT !.pc = "untrack", !.uid = uid, !.push = bound # 0]
    BY <1>3, Zenon DEF DeleteClaims
  <2>2. reaper' = [pc |-> "untrack", uid |-> uid, evicts |-> FALSE, push |-> bound # 0]
    BY <2>1, Zenon DEF NoReaper
  <2>3. uid \in UID
    BY Fields DEF TypeOK
  <2>4. reaper' \in ReaperRec /\ reaper'.pc = "untrack"
    BY <2>2, <2>3 DEF ReaperRec
  <2> QED
    BY <1>3, <2>4, SameSets, Frame, ZenonT(40) DEF DeleteClaims, TypeOK
<1>4. CASE DeleteFails
  BY <1>4, ConstantFacts, SameSets, Frame, ZenonT(40) DEF DeleteFails, TypeOK
<1>5. CASE ReaperFinishes
  <2>1. api' \in [uid: UID, term: BOOLEAN, status: Statuses] /\ api'.uid \in {0, lastUID}
    BY <1>5, ConstantFacts DEF ReaperFinishes, TypeOK
  <2>2. slot' \in [uid: UID, status: Statuses]
    BY <1>5, Fields, NotifyTyped DEF ReaperFinishes, TypeOK, Statuses
  <2> QED
    BY <1>5, <2>1, <2>2, ConstantFacts, SameSets, Frame, ZenonT(40) DEF ReaperFinishes, TypeOK
<1> QED
  BY <1>1, <1>2, <1>3, <1>4, <1>5

--------------------------------------------------------------------------------
(* The steps that write the tables.                                        *)

LEMMA InvApiCreate ==
    ASSUME Inv, ApiCreate, UNCHANGED setup
    PROVE  Inv'
<1> USE DEF Inv
<1>0. api' = [uid |-> lastUID + 1, term |-> FALSE, status |-> "pending"]
  BY ZenonT(40) DEF ApiCreate, NoPod
<1>1. /\ lastUID' = lastUID + 1 /\ lastUID \in Nat /\ lastUID + 1 \in UID
      /\ UNCHANGED <<lastVM, reach, flips, tables, deleting, probes, slot, op, tails,
                     reaper, rec>>
  BY SetupFacts DEF ApiCreate, TypeOK, UID
<1>2. TypeOK'
  BY <1>0, <1>1, SameSets, Zenon DEF TypeOK, Statuses, tables, probes
<1>3. Names' /\ Room' /\ Rows'
  BY <1>0, <1>1, Fields DEF TypeOK, UID, Names, Room, HasVM, Rows, tables
<1>4. Fresh' /\ Probed'
  BY <1>1, Fields DEF Fresh, Current, ForgetPending, Probed, Names, TypeOK, UID,
     tables, probes
<1> QED
  BY <1>2, <1>3, <1>4

\* A pod without a VM is tracked for a bring-up.
LEMMA InvTrack ==
    ASSUME Inv, NEW uid \in UID \ {0}, uid <= lastUID, Track(uid), bound = 0, HasVM,
           op.pc \in {"idle", "track"},
           UNCHANGED <<setup, api, world, deleting, probes, slot, tails, reaper, rec>>
    PROVE  Inv'
<1> USE DEF Inv
<1>1. op' = [pc |-> "bind", uid |-> uid, vm |-> 0, then |-> "none", create |-> TRUE,
             status |-> "notready"]
  BY Zenon DEF Track, Idle
<1>2. op' \in OpRec /\ op'.pc = "bind" /\ op'.uid = uid
  BY <1>1, Fields DEF OpRec, Statuses
<1>3. tracked' = uid /\ life' = "creating" /\ UNCHANGED <<bound, spare>>
  BY DEF Track
<1>4. TypeOK'
  BY <1>2, <1>3, SameSets DEF TypeOK, world, probes
<1>5. Names' /\ Room' /\ Rows'
  BY <1>2, <1>3 DEF Names, Room, HasVM, Rows, world
<1>6. Fresh' /\ Probed'
  BY <1>2, <1>3 DEF Fresh, Current, ForgetPending, Probed, probes
<1> QED
  BY <1>4, <1>5, <1>6

LEMMA InvCreateStart ==
    ASSUME Inv, CreateStart, UNCHANGED setup
    PROVE  Inv'
<1>1. api.uid \in UID \ {0} /\ api.uid <= lastUID /\ bound = 0
  BY Fields DEF Inv, Names, Rows, CreateStart, TypeOK, UID
<1> QED
  BY <1>1, InvTrack DEF CreateStart

LEMMA InvUpdateCreates ==
    ASSUME Inv, UpdateCreates, UNCHANGED setup
    PROVE  Inv'
<1>0. /\ op.pc = "track" /\ op.uid \in UID \ {0} /\ op.uid <= lastUID /\ bound = 0 /\ HasVM
      /\ 0 <= lastUID
  BY Fields DEF Inv, Names, Rows, Room, TypeOK, UpdateCreates, UID
<1>1. CASE deleting
  <2>1. /\ op'.pc = "idle" /\ op'.uid = 0
        /\ UNCHANGED <<api, world, tables, deleting, probes, slot, tails, reaper, rec>>
    BY <1>1, Fields, Zenon DEF Inv, UpdateCreates
  <2>2. TypeOK'
    BY <1>1, <2>1, ConstantFacts, SameSets
       DEF Inv, UpdateCreates, TypeOK, tables, world, probes
  <2>3. Names' /\ Room' /\ Rows'
    BY <1>0, <2>1, Zenon DEF Inv, Names, Room, Rows, tables, world
  <2>4. Fresh' /\ Probed'
    BY <1>0, <2>1 DEF Inv, Fresh, Current, ForgetPending, Probed, tables, probes
  <2> QED
    BY <2>2, <2>3, <2>4 DEF Inv
<1>2. CASE ~deleting
  BY <1>0, <1>2, InvTrack DEF UpdateCreates
<1> QED
  BY <1>1, <1>2

LEMMA InvUpdateDetaches ==
    ASSUME Inv, UpdateDetaches, UNCHANGED setup
    PROVE  Inv'
<1> USE DEF Inv
<1>1. op' = [pc |-> "forget", uid |-> api.uid, vm |-> 0, then |-> "none",
             create |-> TRUE, status |-> "pending"]
  BY Zenon DEF UpdateDetaches, Idle
<1>2. op' \in OpRec /\ op'.pc = "forget" /\ op'.uid = api.uid
  BY <1>1, Fields DEF OpRec, Statuses
<1>3. /\ tracked' = 0 /\ bound' = 0 /\ life' = "creating" /\ op.pc = "idle" /\ api.uid # 0
      /\ spare' \in ID /\ HasVM'
      /\ UNCHANGED <<api, world, deleting, probes, slot, tails, reaper, rec>>
  BY DEF UpdateDetaches, Untrack, HasVM, world, TypeOK
<1>4. TypeOK'
  BY <1>2, <1>3, Fields, SameSets DEF TypeOK, world, probes
<1>5. Names' /\ Room' /\ Rows'
  BY <1>2, <1>3, Fields DEF Names, Room, Rows, world, TypeOK, UID
<1>6. Fresh' /\ Probed'
  BY <1>2, <1>3 DEF Fresh, Current, ForgetPending, Probed, probes
<1> QED
  BY <1>4, <1>5, <1>6

LEMMA InvBringUpFails ==
    ASSUME Inv, BringUpFails, UNCHANGED setup
    PROVE  Inv'
<1> USE DEF Inv
<1>1. /\ op.pc = "bind" /\ bound = 0 /\ op' = Idle /\ life' = "failed"
      /\ tracked' \in {0, tracked}
      /\ UNCHANGED <<api, world, bound, spare, deleting, probes, slot, tails, reaper, rec>>
  BY Zenon DEF BringUpFails, Rows
<1>2. TypeOK'
  BY <1>1, ConstantFacts, Fields, SameSets DEF TypeOK, world, probes
<1>3. Names' /\ Room' /\ Rows'
  BY <1>1, Fields DEF Names, Room, Rows, world, TypeOK, UID
<1>4. Fresh' /\ Probed'
  BY <1>1, Fields DEF Fresh, Current, ForgetPending, Probed, probes
<1> QED
  BY <1>2, <1>3, <1>4

\* A bring-up binds its VM only while nothing is pending on the key: neither the
\* result nor a probe under way is about another VM.
LEMMA InvBind ==
    ASSUME Inv, Bind, UNCHANGED setup
    PROVE  Inv'
<1> USE DEF Inv
<1>0. /\ op.pc = "bind" /\ bound = 0 /\ HasVM /\ op.uid # 0
      /\ UNCHANGED <<api, lastUID, flips, deleting, probes, slot, tails, reaper, rec>>
  BY DEF Bind, Rows, Room, Names
<1>1. PICK i \in VMs : /\ trackPodIncarnation(i)
                       /\ lastVM' \in ID /\ reach' \subseteq VMs
  <2>1. CASE spare # 0
    <3>1. spare \in VMs
      BY <2>1, SetupFacts DEF TypeOK, ID, VMs
    <3> QED
      BY <2>1, <3>1, Zenon DEF Bind, TypeOK
  <2>2. CASE spare = 0
    <3>1. lastVM + 1 \in VMs /\ lastVM + 1 \in ID
      BY <1>0, <2>2, SetupFacts DEF HasVM, TypeOK, ID, VMs
    <3> QED
      BY <2>2, <3>1, Zenon DEF Bind, TypeOK
  <2> QED
    BY <2>1, <2>2
<1>2. i \in ID /\ i # 0
  BY SetupFacts DEF ID, VMs
<1>3. CASE deleting \/ supersededLocked(op.uid)
  <2>1. op' = Idle /\ spare' = i /\ UNCHANGED <<tracked, bound, life>>
    BY <1>1, <1>3, Zenon DEF trackPodIncarnation
  <2>2. TypeOK'
    BY <1>0, <1>1, <1>2, <2>1, ConstantFacts, SameSets, Zenon DEF TypeOK, probes
  <2>3. Names' /\ Room' /\ Rows'
    BY <1>0, <2>1, Fields DEF Names, Room, Rows, TypeOK, UID
  <2>4. Fresh' /\ Probed'
    BY <1>0, <2>1, Fields DEF Fresh, Current, ForgetPending, Probed, probes
  <2> QED
    BY <2>2, <2>3, <2>4, Zenon
<1>4. CASE ~(deleting \/ supersededLocked(op.uid))
  <2>1. /\ tracked' = op.uid /\ bound' = i /\ spare' = 0
        /\ life' \in {"creating", "ready", "failed", "asleep"}
    BY <1>1, <1>4, Zenon DEF trackPodIncarnation, TypeOK
  <2>2. PICK then \in {"ready", "owed", "clone", "boot"} :
          op' = [op EXCEPT !.pc = "patch", !.vm = i, !.then = then]
    BY <1>1, <1>4, Zenon DEF trackPodIncarnation
  <2>3. op' \in OpRec /\ op'.pc = "patch" /\ op'.uid = op.uid /\ op'.then # "none"
    BY <1>2, <2>2, ZenonT(40) DEF TypeOK, OpRec
  <2>4. TypeOK'
    BY <1>0, <1>1, <1>2, <2>1, <2>3, Fields, SameSets, Zenon DEF TypeOK, probes
  <2>5. reaper.pc # "forget"
    BY <1>4, Zenon DEF Rows
  <2>6. Names' /\ Room' /\ Rows'
    BY <1>0, <1>2, <2>1, <2>3, <2>5, Fields, Zenon DEF Names, Room, Rows
  <2>7. Fresh' /\ Probed'
    BY <1>0, <1>2, <2>1, <2>3, <2>5 DEF Fresh, Current, ForgetPending, Probed,
       probes
  <2> QED
    BY <2>4, <2>6, <2>7, Zenon
<1> QED
  BY <1>3, <1>4

LEMMA InvPatch ==
    ASSUME Inv, Patch, UNCHANGED setup
    PROVE  Inv'
<1> USE DEF Inv
<1>0. /\ op.pc = "patch" /\ tracked \in {0, op.uid} /\ op.then # "none"
      /\ UNCHANGED <<api, world, deleting, probes, slot, reaper, rec>>
  BY DEF Patch, Names, Rows
<1>1. tails' \subseteq TailRec
  BY Fields, TailTyped DEF Patch, TypeOK
<1>2. \/ /\ op' = Idle /\ UNCHANGED tables
         /\ tracked = 0 \/ tracked # lastUID
      \/ /\ tracked' = 0 /\ bound' = 0 /\ life' = "creating" /\ spare' = op.vm
         /\ op' = [op EXCEPT !.pc = "detached"]
      \/ /\ op' = [op EXCEPT !.pc = "start"] /\ UNCHANGED tables
  BY <1>0, Zenon DEF Patch, supersededLocked, Untrack, Names
<1>3. CASE op' = Idle /\ UNCHANGED tables /\ (tracked = 0 \/ tracked # lastUID)
  <2>1. TypeOK'
    BY <1>0, <1>1, <1>3, ConstantFacts, SameSets, Zenon DEF TypeOK, tables, world, probes
  <2>2. Names' /\ Room' /\ Rows'
    BY <1>0, <1>3, Fields DEF Names, Room, Rows, tables, world, TypeOK, UID
  <2>3. Fresh' /\ Probed'
    BY <1>0, <1>3, Fields DEF Fresh, Current, ForgetPending, Probed, Rows, tables,
       probes,
       world
  <2> QED
    BY <2>1, <2>2, <2>3
<1>4. CASE /\ tracked' = 0 /\ bound' = 0 /\ life' = "creating" /\ spare' = op.vm
           /\ op' = [op EXCEPT !.pc = "detached"]
  <2>0. op' \in OpRec /\ op'.pc = "detached" /\ op'.uid = op.uid
    BY <1>4, OpMoves
  <2>1. TypeOK'
    BY <1>0, <1>1, <1>4, <2>0, Fields, SameSets, Zenon DEF TypeOK, world, probes
  <2>2. Names' /\ Room' /\ Rows'
    BY <1>0, <1>4, <2>0, Fields DEF Names, Room, Rows, world, TypeOK, UID
  <2>3. Fresh' /\ Probed'
    BY <1>0, <1>4, <2>0 DEF Fresh, Current, ForgetPending, Probed, probes
  <2> QED
    BY <2>1, <2>2, <2>3
<1>5. CASE op' = [op EXCEPT !.pc = "start"] /\ UNCHANGED tables
  <2>0. op' \in OpRec /\ op'.pc = "start" /\ op'.uid = op.uid /\ op'.then = op.then
    BY <1>5, OpMoves
  <2>1. TypeOK'
    BY <1>0, <1>1, <1>5, <2>0, SameSets DEF TypeOK, tables, world, probes
  <2>2. Names' /\ Room' /\ Rows'
    BY <1>0, <1>5, <2>0 DEF Names, Room, Rows, tables, world
  <2>3. Fresh' /\ Probed'
    BY <1>0, <1>5, <2>0 DEF Fresh, Current, ForgetPending, Probed, tables, probes,
       world
  <2> QED
    BY <2>1, <2>2, <2>3
<1> QED
  BY <1>2, <1>3, <1>4, <1>5

LEMMA InvHibernateRemoves ==
    ASSUME Inv, HibernateRemoves, UNCHANGED setup
    PROVE  Inv'
<1> USE DEF Inv
<1>1. /\ bound' = 0 /\ op' \in OpRec /\ op'.pc = "asleep" /\ op'.uid = op.uid
      /\ UNCHANGED <<api, world, tracked, spare, life, deleting, probes, slot, tails, reaper,
                     rec>>
  BY OpMoves, Zenon DEF HibernateRemoves
<1>2. TypeOK'
  BY <1>1, Fields, SameSets, Zenon DEF TypeOK, world, probes
<1>3. Names' /\ Room' /\ Rows'
  BY <1>1, Zenon DEF Names, Room, Rows, world
<1>4. Fresh'
  BY <1>1, Zenon DEF Fresh, Current, ForgetPending, probes
<1>5. Probed'
  BY <1>1 DEF Probed, probes, HibernateRemoves
<1> QED
  BY <1>2, <1>3, <1>4, <1>5

LEMMA InvWakeStart ==
    ASSUME Inv, WakeStart, UNCHANGED setup
    PROVE  Inv'
<1> USE DEF Inv
<1>1. op' = [pc |-> "bind", uid |-> api.uid, vm |-> 0, then |-> "none",
             create |-> FALSE, status |-> api.status]
  BY ZenonT(40) DEF WakeStart, Idle
<1>2. op' \in OpRec /\ op'.pc = "bind" /\ op'.uid = api.uid
  BY <1>1, Fields DEF OpRec, Statuses
<1>3. /\ bound = 0 /\ life' = "creating" /\ op.pc = "idle" /\ api.uid # 0 /\ HasVM
      /\ UNCHANGED <<api, world, tracked, bound, spare, deleting, probes, slot, tails,
                     reaper, rec>>
  BY Zenon DEF WakeStart
<1>4. TypeOK'
  BY <1>2, <1>3, SameSets, Zenon DEF TypeOK, world, probes
<1>5. Names' /\ Room' /\ Rows'
  BY <1>2, <1>3, Fields DEF Names, Room, HasVM, Rows, world, TypeOK, UID
<1>6. Fresh' /\ Probed'
  BY <1>2, <1>3 DEF Fresh, Current, ForgetPending, Probed, probes
<1> QED
  BY <1>4, <1>5, <1>6

LEMMA InvReaperUntracks ==
    ASSUME Inv, ReaperUntracks, UNCHANGED setup
    PROVE  Inv'
<1> USE DEF Inv
<1>0. /\ reaper.pc = "untrack" /\ deleting
      /\ UNCHANGED <<api, world, spare, deleting, probes, slot, op, tails, rec>>
  BY DEF ReaperUntracks, Rows
<1>1. CASE tracked = reaper.uid \/ ~reaper.evicts
  <2>1. /\ tracked' = 0 /\ bound' = 0 /\ life' = "creating"
        /\ reaper' \in ReaperRec /\ reaper'.pc = "forget"
    BY <1>1, Zenon DEF ReaperUntracks, Untrack, TypeOK, ReaperRec
  <2>2. TypeOK'
    BY <1>0, <2>1, Fields, SameSets, Zenon DEF TypeOK, world, probes
  <2>3. Names' /\ Room' /\ Rows'
    BY <1>0, <2>1, Fields DEF Names, Room, HasVM, Rows, world, TypeOK, UID
  <2>4. Fresh' /\ Probed'
    BY <1>0, <2>1, Zenon DEF Fresh, Current, ForgetPending, Probed, probes
  <2> QED
    BY <2>2, <2>3, <2>4
<1>2. CASE ~(tracked = reaper.uid \/ ~reaper.evicts)
  <2>1. /\ UNCHANGED <<tracked, bound, life>>
        /\ reaper' \in ReaperRec /\ reaper'.pc = "finish"
    BY <1>2, Zenon DEF ReaperUntracks, TypeOK, ReaperRec
  <2>2. TypeOK'
    BY <1>0, <2>1, SameSets DEF TypeOK, world, probes
  <2> QED
    BY <1>0, <2>1, <2>2, Frame DEF Names, world
<1> QED
  BY <1>1, <1>2

\* Manager.Forget: nothing is left of the result, and nobody owns the key.
LEMMA InvForgets ==
    ASSUME Inv, UNCHANGED setup,
           UpdateForgets \/ DetachForgets \/ HibernateForgets \/ ReaperForgets
    PROVE  Inv'
<1> USE DEF Inv
<1>0. /\ agent' = "none" /\ result' = NoResult /\ UNCHANGED ag /\ bound = 0
      /\ ~NoResult.ready
      /\ UNCHANGED <<api, world, tables, deleting, slot, tails, rec>>
  BY Zenon DEF UpdateForgets, DetachForgets, HibernateForgets, ReaperForgets, Forget,
     NoResult,
     Rows
<1>1. /\ op' \in OpRec /\ op'.uid \in {0, op.uid}
      /\ \/ op' = op
         \/ op'.pc = "track" /\ op.pc = "forget" /\ op'.uid = op.uid
         \/ op'.pc \in {"idle", "refresh"} /\ op.pc # "first"
  BY OpMoves, Fields, ConstantFacts
     DEF UpdateForgets, DetachForgets, HibernateForgets, ReaperForgets, TypeOK
<1>2. \/ reaper' = reaper
      \/ reaper' = [reaper EXCEPT !.pc = "finish"] /\ reaper.pc = "forget"
  BY DEF UpdateForgets, DetachForgets, HibernateForgets, ReaperForgets
<1>3. /\ reaper' \in ReaperRec
      /\ \/ reaper' = reaper
         \/ reaper'.pc = "finish" /\ reaper.pc = "forget"
  BY <1>2, Zenon DEF TypeOK, ReaperRec
<1>4. TypeOK'
  BY <1>0, <1>1, <1>3, ConstantFacts, SameSets, Zenon DEF TypeOK, tables, world
<1>5. Names' /\ Room' /\ Rows'
  BY <1>0, <1>1, <1>3, Fields DEF Names, Room, HasVM, Rows, tables, world, TypeOK,
     UID
<1>6. Fresh'
  BY <1>0, <1>1, Zenon DEF Fresh
<1>7. Probed'
  BY <1>0, <1>1, Zenon DEF Probed, tables
<1> QED
  BY <1>4, <1>5, <1>6, <1>7

--------------------------------------------------------------------------------
(* The agents.                                                             *)

LEMMA InvStart ==
    ASSUME Inv, Start, UNCHANGED setup
    PROVE  Inv'
<1> USE DEF Inv
<1>1. PICK a \in setup.agents :
        /\ agent' = a
        /\ ag' = [ag EXCEPT ![a] = [Resting EXCEPT !.pc = "first", !.vm = bound]]
  BY Zenon DEF Start
<1>2. /\ op.pc = "start" /\ op' \in OpRec /\ op'.pc = "first" /\ op'.uid = op.uid
      /\ op'.then = op.then
      /\ UNCHANGED <<api, world, tables, result, deleting, slot, tails, reaper, rec>>
  BY OpMoves DEF Start
<1>3. a \in Agents /\ a # "none"
  BY SetupFacts, AgentsAssumption
<1>4. [Resting EXCEPT !.pc = "first", !.vm = bound] \in AgentRec
  BY ConstantFacts, ZenonT(40) DEF AgentRec, TypeOK
<1>5. /\ [Resting EXCEPT !.pc = "first", !.vm = bound].pc = "first"
      /\ [Resting EXCEPT !.pc = "first", !.vm = bound].vm = bound
  BY DEF Resting
<1>6. /\ ag' \in [Agents -> AgentRec] /\ ag'[a].pc = "first" /\ ag'[a].vm = bound
      /\ \A b \in Agents : b # a => ag'[b] = ag[b]
  BY <1>1, <1>3, <1>4, <1>5 DEF TypeOK
<1>7. TypeOK'
  <2>1. agent' \in Agents \cup {"none"}
    BY <1>1, <1>3, Zenon
  <2>2. UNCHANGED <<api, lastUID, lastVM, reach, flips, tracked, bound, spare, life, result,
                    deleting, slot, tails, reaper, rec>>
    BY <1>2, Zenon DEF tables, world
  <2> QED
    BY <1>2, <1>6, <2>1, <2>2, SameSets, ZenonT(40) DEF TypeOK
<1>8. Names' /\ Room' /\ Rows'
  BY <1>2 DEF Names, Room, Rows, tables, world
<1>9. Fresh'
  BY <1>1, <1>2, <1>6 DEF Fresh, Current, ForgetPending, tables
<1>10. Probed'
  BY <1>1, <1>2, <1>3, <1>6, Zenon DEF Probed, tables, world
<1> QED
  BY <1>7, <1>8, <1>9, <1>10

\* The result of a probe is about the VM that the pod has, or had until the row
\* was dropped.
LEMMA OwnResult ==
    ASSUME TypeOK, Fresh, NEW a \in Agents, ag[a].pc \in {"first", "probe"},
           setOwned(a)
    PROVE  /\ result' \in [ready: BOOLEAN, vm: ID]
           /\ result'.ready => result'.vm # 0 /\ Current(result'.vm)
<1>1. CASE agent = a
  <2>1. result' = [ready |-> ag[a].vm \in reach, vm |-> ag[a].vm]
    BY <1>1, Zenon DEF setOwned, Owns, Answers
  <2>2. ag[a].vm \in reach => ag[a].vm # 0
    <3>1. reach \subseteq VMs
      BY Zenon DEF TypeOK
    <3>2. 0 \notin VMs
      BY SMT DEF VMs
    <3> QED
      BY <3>1, <3>2, Zenon
  <2>3. a # "none" /\ Current(ag[a].vm)
    BY <1>1, AgentsAssumption, Zenon DEF Fresh
  <2>4. result' \in [ready: BOOLEAN, vm: ID]
    <3>1. ag[a].vm \in ID
      BY Fields, Zenon
    <3>2. (ag[a].vm \in reach) \in BOOLEAN
      BY SMT
    <3> QED
      BY <2>1, <3>1, <3>2, Zenon
  <2>5. result'.vm = ag[a].vm /\ (result'.ready => ag[a].vm \in reach)
    BY <2>1, Zenon
  <2> QED
    BY <2>2, <2>3, <2>4, <2>5, Zenon
<1>2. CASE agent # a
  BY <1>2 DEF setOwned, Owns, TypeOK, Fresh
<1> QED
  BY <1>1, <1>2, Zenon

LEMMA InvFirst ==
    ASSUME Inv, First, UNCHANGED setup
    PROVE  Inv'
<1> USE DEF Inv
<1>0. /\ op.pc = "first" /\ op.then # "none"
      /\ UNCHANGED <<api, world, tables, agent, deleting, slot, reaper, rec>>
  BY DEF First, Rows
<1>1. PICK a \in Agents : /\ ag[a].pc = "first" /\ setOwned(a)
                          /\ ag' = [ag EXCEPT ![a] = Launched(a)]
  BY Zenon DEF First
<1>2. op' \in OpRec /\ op'.pc \in {"idle", "stage", "refresh"} /\ op'.uid \in {0, op.uid}
  <2>1. AfterFirstProbe \in {"idle", "stage", "refresh"}
    BY <1>0, Fields DEF AfterFirstProbe
  <2> QED
    BY <2>1, OpMoves, Fields, ConstantFacts DEF First
<1>3. tails' \subseteq TailRec
  BY Fields, TailTyped DEF First, TypeOK
<1>4. Launched(a) \in AgentRec /\ Launched(a).pc \in {"sleep", "off"}
      /\ (agent = a => Launched(a).pc = "sleep")
  <2>1. [Resting EXCEPT !.pc = "sleep", !.last = Answers(ag[a].vm)].pc = "sleep"
    BY DEF Resting
  <2>2. Answers(ag[a].vm) \in BOOLEAN
    BY DEF Answers
  <2>3. [Resting EXCEPT !.pc = "sleep", !.last = Answers(ag[a].vm)] \in AgentRec
    BY <2>2, ConstantFacts, ZenonT(40) DEF AgentRec
  <2>4. Resting.pc = "off"
    BY Zenon DEF Resting
  <2> QED
    BY <2>1, <2>3, <2>4, ConstantFacts DEF Launched, Owns
<1>5. /\ ag' \in [Agents -> AgentRec] /\ ag'[a].pc \in {"sleep", "off"}
      /\ agent = a => ag'[a].pc = "sleep"
      /\ \A b \in Agents : b # a => ag'[b] = ag[b]
  BY <1>1, <1>4, Zenon DEF TypeOK
<1>6. TypeOK'
  <2>1. result' \in [ready: BOOLEAN, vm: ID]
    BY <1>1, OwnResult, Zenon
  <2> QED
    BY <1>0, <1>2, <1>3, <1>5, <2>1, SameSets, Zenon DEF TypeOK, tables, world
<1>7. Names' /\ Room' /\ Rows'
  <2>1. 0 <= lastUID
    BY DEF TypeOK, UID
  <2> QED
    BY <1>0, <1>2, <2>1, Zenon DEF Names, Room, Rows, tables, world
<1>8. Fresh'
  <2>1. result'.ready => result'.vm # 0 /\ Current(result'.vm)
    BY <1>1, OwnResult, Zenon
  <2>2. \A i : Current(i) => Current(i)'
    BY <1>0, <1>2, Zenon DEF Current, ForgetPending, tables
  <2> QED
    BY <1>0, <1>5, <2>1, <2>2, Zenon DEF Fresh, TypeOK
<1>9. Probed'
  <2>1. \A b \in Agents : ag'[b].pc # "first"
    BY <1>1, <1>5, Zenon DEF Probed
  <2>2. bound # 0 => agent = a
    BY <1>0, <1>1, Zenon DEF Probed, TypeOK
  <2> QED
    BY <1>0, <1>1, <1>2, <1>5, <2>1, <2>2, AgentsAssumption, Zenon DEF Probed, Running,
       tables, world
<1> QED
  BY <1>6, <1>7, <1>8, <1>9

\* A step of one agent that neither starts a first probe nor looks up a VM.
LEMMA InvAgent ==
    ASSUME Inv, NEW a \in Agents, ag[a].pc \in Running, ag'[a] \in AgentRec,
           ag' = [ag EXCEPT ![a] = ag'[a]],
           ag'[a].pc \in Running \/ (ag'[a].pc = "off" /\ agent # a),
           ag'[a].pc = "probe" => ag'[a].vm = bound,
           result' \in [ready: BOOLEAN, vm: ID],
           result'.ready => result'.vm # 0 /\ Current(result'.vm),
           slot' \in [uid: UID, status: Statuses],
           UNCHANGED <<setup, api, world, tables, deleting, agent, op, tails, reaper, rec>>
    PROVE  Inv'
<1> USE DEF Inv
<1>1. /\ ag' \in [Agents -> AgentRec]
      /\ \A b \in Agents : b # a => ag'[b] = ag[b]
  BY Zenon DEF TypeOK
<1>2. TypeOK'
  BY <1>1, SameSets, Zenon DEF TypeOK, tables, world
<1>3. Names' /\ Room' /\ Rows'
  BY Zenon DEF Names, Room, HasVM, Rows, tables, world
<1>4. \A i : Current(i) => Current(i)'
  BY Zenon DEF Current, ForgetPending, tables
<1>5. Fresh'
  BY <1>1, <1>4, AgentsAssumption, Zenon DEF Fresh, Current, Running, TypeOK, tables
<1>6. Probed'
  BY <1>1, AgentsAssumption DEF Probed, Running, TypeOK, tables, world
<1> QED
  BY <1>2, <1>3, <1>5, <1>6, Zenon

LEMMA InvTick ==
    ASSUME Inv, NEW a \in Agents, Tick(a), UNCHANGED setup
    PROVE  Inv'
<1>1. /\ ag[a].pc = "sleep" /\ ag[a] \in AgentRec /\ Resting \in AgentRec
      /\ bound \in ID /\ TypeOK
  BY Fields, ConstantFacts, Zenon DEF Inv, TypeOK, Tick
<1>2. CASE agent = a
  <2>1. /\ ag'[a] = [ag[a] EXCEPT !.pc = "probe", !.vm = bound]
        /\ ag' = [ag EXCEPT ![a] = ag'[a]]
    BY <1>1, <1>2 DEF Tick, Owns, TypeOK
  <2>2. ag'[a] \in AgentRec /\ ag'[a].pc = "probe" /\ ag'[a].vm = bound
    BY <1>1, <2>1, Zenon DEF AgentRec
  <2> QED
    BY <1>1, <2>1, <2>2, InvAgent, Zenon DEF Tick, Inv, TypeOK, Fresh, Running
<1>3. CASE agent # a
  <2>1. ag'[a] = Resting /\ ag' = [ag EXCEPT ![a] = ag'[a]] /\ Resting.pc = "off"
    BY <1>1, <1>3 DEF Tick, Owns, TypeOK, Resting
  <2> QED
    BY <1>1, <1>3, <2>1, InvAgent, Zenon DEF Tick, Inv, TypeOK, Fresh, Running
<1> QED
  BY <1>2, <1>3, Zenon

\* Fewer than FailureThreshold failures are ever counted.
LEMMA CountedTyped ==
    ASSUME TypeOK, NEW g \in AgentRec, NEW ready \in BOOLEAN
    PROVE  /\ [Counted(g, ready) EXCEPT !.vm = 0] \in AgentRec
           /\ [Counted(g, ready) EXCEPT !.vm = 0].pc \in {"sleep", "update"}
<1>0. /\ g.fails \in 0..FailureThreshold - 1 /\ 0 \in 0..FailureThreshold - 1
      /\ g.fails + 1 < FailureThreshold => g.fails + 1 \in 0..FailureThreshold - 1
  BY DEF AgentRec, FailureThreshold
<1>1. Counted(g, ready) \in AgentRec /\ Counted(g, ready).pc \in {"sleep", "update"}
  <2>1. CASE ready /\ ~g.last
    <3>1. Counted(g, ready) = [g EXCEPT !.pc = "update", !.last = TRUE, !.fails = 0]
      BY <2>1 DEF Counted
    <3> QED
      BY <1>0, <3>1, Zenon DEF AgentRec
  <2>2. CASE ready /\ g.last
    <3>1. Counted(g, ready) = [g EXCEPT !.pc = "sleep", !.fails = 0]
      BY <2>2 DEF Counted
    <3> QED
      BY <1>0, <3>1, Zenon DEF AgentRec
  <2>3. CASE ~ready /\ ~g.last
    <3>1. Counted(g, ready) = [g EXCEPT !.pc = "sleep"]
      BY <2>3 DEF Counted
    <3> QED
      BY <1>0, <3>1 DEF AgentRec
  <2>4. CASE ~ready /\ g.last /\ g.fails + 1 < FailureThreshold
    <3>1. Counted(g, ready) = [g EXCEPT !.pc = "sleep", !.fails = @ + 1]
      BY <2>4 DEF Counted
    <3> QED
      BY <1>0, <2>4, <3>1, Zenon DEF AgentRec
  <2>5. CASE ~ready /\ g.last /\ ~(g.fails + 1 < FailureThreshold)
    <3>1. Counted(g, ready) = [g EXCEPT !.pc = "update", !.last = FALSE, !.fails = 0]
      BY <2>5 DEF Counted
    <3> QED
      BY <1>0, <3>1, Zenon DEF AgentRec
  <2> QED
    BY <2>1, <2>2, <2>3, <2>4, <2>5 DEF AgentRec
<1> QED
  BY <1>1, Fields DEF AgentRec

LEMMA InvProbe ==
    ASSUME Inv, NEW a \in Agents, Probe(a), UNCHANGED setup
    PROVE  Inv'
<1>1. /\ ag[a].pc = "probe" /\ ag[a] \in AgentRec /\ Resting \in AgentRec
      /\ TypeOK /\ Fresh
  BY Fields, ConstantFacts DEF Inv, TypeOK, Probe
<1>2. /\ result' \in [ready: BOOLEAN, vm: ID]
      /\ result'.ready => result'.vm # 0 /\ Current(result'.vm)
  BY <1>1, OwnResult, Zenon DEF Probe
<1>3. CASE agent = a
  <2>1. Answers(ag[a].vm) \in BOOLEAN
    BY DEF Answers
  <2>2. /\ ag'[a] = [Counted(ag[a], Answers(ag[a].vm)) EXCEPT !.vm = 0]
        /\ ag' = [ag EXCEPT ![a] = ag'[a]]
    BY <1>1, <1>3 DEF Probe, Owns, TypeOK
  <2>3. ag'[a] \in AgentRec /\ ag'[a].pc \in {"sleep", "update"}
    BY <1>1, <2>1, <2>2, CountedTyped
  <2> QED
    BY <1>1, <1>2, <2>2, <2>3, InvAgent, Zenon DEF Probe, TypeOK, Running
<1>4. CASE agent # a
  <2>1. ag'[a] = Resting /\ ag' = [ag EXCEPT ![a] = ag'[a]] /\ Resting.pc = "off"
    BY <1>1, <1>4 DEF Probe, Owns, TypeOK, Resting
  <2> QED
    BY <1>1, <1>2, <1>4, <2>1, InvAgent, Zenon DEF Probe, TypeOK, Running
<1> QED
  BY <1>3, <1>4

LEMMA InvUpdate ==
    ASSUME Inv, NEW a \in Agents, Update(a) \/ UpdatePushes(a), UNCHANGED setup
    PROVE  Inv'
<1>1. /\ ag[a].pc \in {"update", "push"} /\ ag[a] \in AgentRec /\ TypeOK /\ Fresh
      /\ result \in [ready: BOOLEAN, vm: ID] /\ Derived \in Statuses
  BY Fields, DerivedTyped DEF Inv, TypeOK, Update, UpdatePushes
<1>2. /\ ag'[a] \in AgentRec /\ ag'[a].pc \in {"sleep", "push"}
      /\ ag' = [ag EXCEPT ![a] = ag'[a]]
  <2>1. CASE ag' = [ag EXCEPT ![a] = [@ EXCEPT !.pc = "push", !.uid = tracked,
                                               !.status = Derived]]
    BY <1>1, <2>1, Zenon DEF TypeOK, AgentRec
  <2>2. CASE ag' = [ag EXCEPT ![a] = [@ EXCEPT !.pc = "sleep"]]
    BY <1>1, <2>2, Zenon DEF TypeOK, AgentRec
  <2>3. CASE ag' = [ag EXCEPT ![a] = [@ EXCEPT !.pc = "sleep", !.uid = 0,
                                               !.status = "pending"]]
    BY <1>1, <2>3, Fields, ZenonT(40) DEF TypeOK, AgentRec, Statuses
  <2> QED
    BY <2>1, <2>2, <2>3 DEF Update, UpdatePushes
<1>3. slot' \in [uid: UID, status: Statuses]
  BY <1>1, Fields, NotifyTyped, Zenon DEF Update, UpdatePushes, TypeOK
<1> QED
  BY <1>1, <1>2, <1>3, InvAgent DEF Update, UpdatePushes, Fresh, Running

--------------------------------------------------------------------------------
(* The theorems.                                                           *)

LEMMA InvNext ==
    ASSUME Inv, [Next]_vars
    PROVE  Inv'
<1>1. CASE UNCHANGED vars
  <2>1. TypeOK'
    BY <1>1, SameSets, Zenon DEF Inv, TypeOK, vars, world, tables, probes
  <2> QED
    BY <1>1, <2>1, Frame, Zenon DEF Inv, Names, vars, world, tables, probes
<1>2. CASE Environment /\ UNCHANGED setup
  BY <1>2, InvApiCreate, InvEnvironment, Zenon DEF Environment
<1>3. CASE Worker /\ UNCHANGED setup
  BY <1>3, InvCreateStart, InvUpdateDetaches, InvWakeStart, InvUpdateCreates,
     InvBringUpFails, InvBind, InvPatch, InvStart, InvFirst, InvHibernateRemoves,
     InvForgets, InvQuiet, Zenon DEF Worker, Operation
<1>4. CASE ATail /\ UNCHANGED setup
  BY <1>4, InvATail, Zenon
<1>5. CASE (\E a \in Agents : Run(a)) /\ UNCHANGED setup
  BY <1>5, InvTick, InvProbe, InvUpdate, Zenon DEF Run
<1>6. CASE (EvictClaims \/ DeleteClaims \/ Reaps) /\ UNCHANGED setup
  BY <1>6, InvReaper, InvReaperUntracks, InvForgets DEF Reaps
<1>7. CASE Reconciler /\ UNCHANGED setup
  BY <1>7, InvReconciler
<1> QED
  BY <1>1, <1>2, <1>3, <1>4, <1>5, <1>6, <1>7, Zenon DEF Next

LEMMA InvAlways == Spec => []Inv
BY InvInit, InvNext, PTL DEF Spec

\* Types, and no agent ever counts FailureThreshold failures without reporting
\* (Manager.run).
THEOREM TypeCorrect == Spec => []TypeOK
<1>1. Inv => TypeOK
  BY DEF Inv
<1> QED
  BY <1>1, InvAlways, PTL

\* A Ready result is about the VM the pod has now, for any number of agents,
\* incarnations and VMs (Manager.setOwned and Forget, against applyRuntime).
THEOREM ResultIsCurrentAlways == Spec => []ResultIsCurrent
<1>1. Inv => ResultIsCurrent
  BY Zenon DEF Inv, Fresh, Current, ResultIsCurrent
<1> QED
  BY <1>1, InvAlways, PTL

\* The current pod, once it has a VM, has a running agent whatever evictions,
\* deletes and detaches forget beside its bring-up (Manager.Start and Forget).
THEOREM ProbedWhenBoundAlways == Spec => []ProbedWhenBound
<1>1. Inv => ProbedWhenBound
  BY DEF Inv, Names, Probed, Running, ProbedWhenBound
<1> QED
  BY <1>1, InvAlways, PTL
================================================================================
