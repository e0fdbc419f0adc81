----------------------------- MODULE BringUpProofs -----------------------------
(***************************************************************************)
(* For any number of incarnations, restarts and background boots, and      *)
(* whatever goes wrong: every VM is known to vk-cocoon once startup        *)
(* reconciliation is over.                                                 *)
(***************************************************************************)
EXTENDS BringUp, TLAPS

CreatePCs == {"await", "adopt", "clone", "cloning", "bind", "fail"}
Wanted == api.uid # 0 /\ ~api.term

--------------------------------------------------------------------------------
(* What holds whatever goes wrong.                                         *)

\* Every VM was made for a new pod or after a restart, and where one may still be
\* made, an ID is left.
Spare == lastVM < lastUID + restarts
Credit ==
    /\ lastVM <= lastUID + restarts
    /\ busy \/ boot.pc # "up" => Spare
    /\ vm.id = 0 /\ (Wanted \/ worker.pc \in {"await", "adopt", "clone"}) => Spare
    /\ worker.pc = "rm" /\ Wanted => Spare

\* The worker creates or deletes the pod that is tracked, and the pod's row is what
\* the step needs.
Working ==
    /\ vm.state = "none" <=> vm.id = 0
    /\ vm.owned => vm.id # 0
    /\ worker.pc \in CreatePCs => worker.uid # 0 /\ pods = worker.uid /\ bound = 0
    /\ worker.pc \in CreatePCs \ {"await"} => ~busy
    /\ worker.pc \in {"cloning", "bind"} => worker.id # 0 /\ vm.id = worker.id
    /\ worker.pc = "dispatch" =>
         worker.uid # 0 /\ pods = worker.uid /\ worker.id # 0 /\ bound = worker.id
    /\ worker.pc = "rm" => bound # 0
    /\ bound # 0 => vm.id = IF worker.pc = "forget" THEN 0 ELSE bound

\* Startup runs on empty tables, and knows the VM it listed or has it watched; a
\* create waits for the watcher.
Reconciling ==
    /\ boot.pc # "up" => worker.pc = "idle" /\ pods = 0 /\ bound = 0 /\ ~resumed /\ tails = {}
    /\ boot.pc \in {"list", "stale"} => ~busy
    /\ boot.pc = "stale" => boot.vm.id # 0 /\ vm.id = boot.vm.id
    /\ boot.pc = "adopt" =>
         IF boot.vm.id # 0 THEN ~busy /\ vm.id = boot.vm.id
         ELSE vm.id # 0 => vm.id \in {byName, abandoned} \/ (busy /\ watched = vm.id)
    /\ busy => /\ bound = 0 /\ tails = {}
               /\ worker.pc \in {"idle", "await", "forget", "gone"}

Base == TypeOK /\ Credit /\ Working /\ Reconciling /\ VMIsKnown

--------------------------------------------------------------------------------
(* Constants, and the operators the actions are built from.                *)

LEMMA Ranges ==
    /\ MaxUID \in Nat /\ MaxRestarts \in Nat /\ MaxVM \in Nat
    /\ 0 \in 0..MaxUID /\ 0 \in 0..MaxVM /\ 0 \in 0..MaxRestarts
    /\ \A i \in 0..MaxVM : i # 0 => i \in 1..MaxVM
    /\ \A i \in 1..MaxVM : i \in 0..MaxVM /\ i # 0
    /\ \A u \in 0..MaxUID : u # 0 => u \in UID
    /\ \A u \in UID : u \in 0..MaxUID /\ u # 0
BY BringUpAssumption DEF MaxVM, UID

LEMMA ConstantsTyped ==
    NoPod \in Pods /\ NoVM \in VMs /\ Idle \in WorkerRec /\ Up \in BootRec
<1>1. NoPod \in Pods /\ NoVM \in VMs
  BY Ranges DEF NoPod, Pods, NoVM, VMs, LifeStates, MarkStates
<1>2. Idle \in WorkerRec
  BY Ranges DEF Idle, WorkerRec, WorkerPCs
<1>3. Up \in BootRec
  BY <1>1 DEF Up, BootRec
<1> QED BY <1>1, <1>2, <1>3

\* A patch changes one annotation of the pod it is meant for, or none.
LEMMA PatchVMID ==
    ASSUME api \in Pods, NEW u, NEW v \in 0..MaxVM, Patch(u, "vmid", v)
    PROVE  /\ api' \in Pods
           /\ api'.uid = api.uid /\ api'.term = api.term
           /\ api'.life = api.life /\ api'.mark = api.mark
           /\ api'.vmid = api.vmid \/ (api.uid = u /\ api'.vmid = v)
           /\ api.uid # u => api' = api
<1>1. CASE api' = api
  BY <1>1
<1>2. CASE api' = [api EXCEPT !["vmid"] = v] /\ api.uid = u
  BY <1>2 DEF Pods
<1> QED BY <1>1, <1>2 DEF Patch

LEMMA PatchLife ==
    ASSUME api \in Pods, NEW u, NEW s \in LifeStates, Patch(u, "life", s)
    PROVE  /\ api' \in Pods
           /\ api'.uid = api.uid /\ api'.term = api.term
           /\ api'.vmid = api.vmid /\ api'.mark = api.mark
           /\ api'.life = api.life \/ (api.uid = u /\ api'.life = s)
           /\ api.uid # u => api' = api
<1>1. CASE api' = api
  BY <1>1
<1>2. CASE api' = [api EXCEPT !["life"] = s] /\ api.uid = u
  BY <1>2 DEF Pods
<1> QED BY <1>1, <1>2 DEF Patch

LEMMA PatchMark ==
    ASSUME api \in Pods, NEW u, NEW s \in MarkStates, Patch(u, "mark", s)
    PROVE  /\ api' \in Pods
           /\ api'.uid = api.uid /\ api'.term = api.term
           /\ api'.vmid = api.vmid /\ api'.life = api.life
           /\ api'.mark = api.mark \/ (api.uid = u /\ api'.mark = s)
           /\ api.uid # u => api' = api
<1>1. CASE api' = api
  BY <1>1
<1>2. CASE api' = [api EXCEPT !["mark"] = s] /\ api.uid = u
  BY <1>2 DEF Pods
<1> QED BY <1>1, <1>2 DEF Patch

LEMMA LifeIsSet ==
    ASSUME TypeOK, NEW u, NEW s \in LifeStates, SetLife(u, s)
    PROVE  /\ api' \in Pods /\ life' \in LifeStates
           /\ api'.uid = api.uid /\ api'.term = api.term
           /\ api'.vmid = api.vmid /\ api'.mark = api.mark
           /\ IF Superseded(u) THEN api' = api /\ life' = life ELSE life' = s
           /\ api'.life = api.life \/ (api.uid = u /\ api'.life = s)
           /\ api.uid # u => api' = api
BY PatchLife DEF SetLife, TypeOK

LEMMA MarkIsSet ==
    ASSUME TypeOK, NEW u, NEW s \in MarkStates, MarkPostCloneState(u, s)
    PROVE  /\ api' \in Pods /\ mark' \in MarkStates
           /\ api'.uid = api.uid /\ api'.term = api.term
           /\ api'.vmid = api.vmid /\ api'.life = api.life
           /\ Superseded(u) => api' = api /\ mark' = mark
           /\ api'.mark = api.mark \/ (api.uid = u /\ api'.mark = s)
           /\ api.uid # u => api' = api
BY PatchMark DEF MarkPostCloneState, TypeOK

LEMMA OwedTyped ==
    ASSUME kind \in Kinds, NEW p \in Pods, OwedOpFor(p) # "none"
    PROVE  OwedOpFor(p) \in TailPCs
<1>1. p.mark \in {"", "running", "done"}
  BY Zenon DEF OwedOpFor, Pods, MarkStates
<1> QED BY <1>1, Zenon DEF OwedOpFor, TailPCs, Kinds

LEMMA ResumeTyped ==
    ASSUME TypeOK, NEW u \in UID, NEW id \in 1..MaxVM, NEW op \in TailPCs, Resume(u, id, op)
    PROVE  /\ tails' \subseteq TailRec /\ resumed' \in BOOLEAN
           /\ \A t \in tails' : t \in tails
                \/ t = [pc |-> op, uid |-> u, id |-> id, claim |-> TRUE]
<1>1. [pc |-> op, uid |-> u, id |-> id, claim |-> TRUE] \in TailRec
  BY DEF TailRec
<1> QED BY <1>1, Zenon DEF Resume, TypeOK

LEMMA TailMoves ==
    ASSUME TypeOK, NEW t \in tails, NEW pc \in TailPCs, TailGoto(t, pc)
    PROVE  /\ tails' \subseteq TailRec
           /\ \A x \in tails' : x \in tails
                \/ x = [pc |-> pc, uid |-> t.uid, id |-> t.id, claim |-> t.claim]
<1>1. t \in TailRec
  BY DEF TypeOK
<1>2. [t EXCEPT !.pc = pc] = [pc |-> pc, uid |-> t.uid, id |-> t.id, claim |-> t.claim]
  BY <1>1 DEF TailRec
<1>3. [pc |-> pc, uid |-> t.uid, id |-> t.id, claim |-> t.claim] \in TailRec
  BY <1>1 DEF TailRec
<1> QED BY <1>2, <1>3 DEF TailGoto, TypeOK

LEMMA TailLeaves ==
    ASSUME TypeOK, NEW t \in tails, TailEnds(t)
    PROVE  tails' \subseteq tails /\ tails' \subseteq TailRec /\ resumed' \in BOOLEAN
<1>1. (resumed /\ ~t.claim) \in BOOLEAN
  OBVIOUS
<1> QED BY <1>1 DEF TailEnds, TypeOK

--------------------------------------------------------------------------------
(* Types.                                                                  *)

\* A VM ID is left for the VM that is about to be made.
LEMMA NextVM ==
    ASSUME Base, worker.pc = "clone", vm.state = "none"
    PROVE  lastVM + 1 \in 1..MaxVM
<1>1. lastVM < lastUID + restarts
  BY DEF Base, Credit, Working, Spare
<1>2. lastVM \in Nat /\ lastUID \in Nat /\ lastUID <= MaxUID /\ restarts \in Nat
        /\ restarts <= MaxRestarts
  BY Ranges DEF Base, TypeOK
<1> QED BY <1>1, <1>2, Ranges DEF MaxVM

LEMMA TypesOfEnvironment ==
    ASSUME Base, Environment \/ RepublishLife
    PROVE  TypeOK'
<1> USE DEF setup, cluster, host, tables, watcher, startup
<1>1. TypeOK
  BY DEF Base
<1>2. CASE ApiCreate
  <2>1. lastUID + 1 \in 0..MaxUID
    BY <1>1, <1>2, Ranges DEF TypeOK, ApiCreate
  <2>2. api' = [uid |-> lastUID + 1, term |-> FALSE, vmid |-> 0, life |-> "", mark |-> ""]
    BY <1>2, Zenon DEF ApiCreate, NoPod
  <2>3. api' \in Pods
    BY <2>1, <2>2, Ranges, Zenon DEF Pods, LifeStates, MarkStates
  <2> QED BY <1>1, <1>2, <2>1, <2>3 DEF TypeOK, ApiCreate
<1>3. CASE ApiTerminate
  <2>1. api' \in Pods
    BY <1>1, <1>3, Zenon DEF TypeOK, ApiTerminate, Pods
  <2> QED BY <1>1, <1>3, <2>1 DEF TypeOK, ApiTerminate
<1>4. CASE ApiRemove
  BY <1>1, <1>4, ConstantsTyped DEF TypeOK, ApiRemove
<1>5. CASE CloneAdvances
  <2>1. vm' \in VMs
    BY <1>1, <1>5, Zenon DEF TypeOK, CloneAdvances, VMs
  <2> QED BY <1>1, <1>5, <2>1 DEF TypeOK, CloneAdvances
<1>6. CASE RepublishLife
  <2>1. api' \in Pods
    BY <1>1, <1>6 DEF TypeOK, RepublishLife, Pods
  <2> QED BY <1>1, <1>6, <2>1 DEF TypeOK, RepublishLife
<1> QED BY <1>2, <1>3, <1>4, <1>5, <1>6 DEF Environment

LEMMA TypesOfCreate ==
    ASSUME Base,
           \/ CreatePod \/ AwaitBusyCreate \/ AdoptableVM \/ BringUpVM \/ BringUpFails
           \/ BroughtUp \/ ApplyRuntime \/ FailCreate \/ Dispatch
    PROVE  TypeOK'
<1> USE DEF setup, cluster, host, tables, watcher, startup
<1>1. TypeOK
  BY DEF Base
<1>2. worker \in WorkerRec /\ worker.uid \in 0..MaxUID /\ worker.id \in 0..MaxVM
  BY <1>1 DEF TypeOK, WorkerRec
<1>3. ASSUME NEW pc \in WorkerPCs, Goto(pc) PROVE worker' \in WorkerRec
  BY <1>2, <1>3 DEF Goto, WorkerRec
<1>4. CASE CreatePod
  <2>1. Patch(api.uid, "life", "creating") /\ "creating" \in LifeStates
    BY <1>4 DEF CreatePod, LifeStates
  <2>2. api' \in Pods
    BY <1>1, <2>1, PatchLife DEF TypeOK
  <2>3. api.uid \in 0..MaxUID /\ api.mark \in MarkStates
    BY <1>1 DEF TypeOK, Pods
  <2>4. worker' = [pc |-> "await", uid |-> api.uid, id |-> 0, fresh |-> FALSE]
    BY <1>4, Zenon DEF CreatePod, Idle
  <2>5. worker' \in WorkerRec
    BY <2>3, <2>4, Ranges DEF WorkerRec, WorkerPCs
  <2> QED BY <1>1, <1>4, <2>1, <2>2, <2>3, <2>5, Ranges DEF TypeOK, CreatePod
<1>5. CASE AwaitBusyCreate
  <2>1. worker' \in WorkerRec
    BY <1>3, <1>5 DEF AwaitBusyCreate, WorkerPCs
  <2> QED BY <1>1, <1>5, <2>1 DEF TypeOK, AwaitBusyCreate
<1>6. CASE AdoptableVM
  <2>1. [worker EXCEPT !.pc = "bind", !.id = byName] \in WorkerRec
    BY <1>1, <1>2, Zenon DEF WorkerRec, WorkerPCs, TypeOK
  <2>2. worker' \in WorkerRec
    BY <1>3, <1>6, <2>1 DEF AdoptableVM, WorkerPCs
  <2>3. byName' \in 0..MaxVM
    BY <1>1, <1>6, Ranges DEF TypeOK, AdoptableVM
  <2> QED BY <1>1, <1>6, <2>2, <2>3 DEF TypeOK, AdoptableVM
<1>7. CASE BringUpVM
  <2>1. lastVM + 1 \in 0..MaxVM
    BY <1>7, NextVM, Ranges DEF BringUpVM
  <2>2. worker' \in WorkerRec
    <3>1. worker' = [worker EXCEPT !.pc = "cloning", !.id = lastVM + 1, !.fresh = TRUE]
      BY <1>7 DEF BringUpVM
    <3> QED BY <1>2, <2>1, <3>1, Zenon DEF WorkerRec, WorkerPCs
  <2>3. vm' = [id |-> lastVM + 1, state |-> "creating", owned |-> TRUE, fixed |-> FALSE,
               sac |-> FALSE]
    BY <1>7, Zenon DEF BringUpVM, NoVM
  <2>4. vm' \in VMs
    BY <2>1, <2>3 DEF VMs
  <2> QED BY <1>1, <1>7, <2>1, <2>2, <2>4 DEF TypeOK, BringUpVM
<1>8. CASE BringUpFails
  <2>1. worker' \in WorkerRec
    BY <1>3, <1>8 DEF BringUpFails, WorkerPCs
  <2> QED BY <1>1, <1>8, <2>1 DEF TypeOK, BringUpFails
<1>9. CASE BroughtUp
  <2>1. worker' \in WorkerRec
    BY <1>3, <1>9, Zenon DEF BroughtUp, WorkerPCs
  <2> QED BY <1>1, <1>9, <2>1 DEF TypeOK, BroughtUp
<1>10. CASE ApplyRuntime
  <2>1. pods # 0
    BY <1>10, Zenon DEF Base, Working, ApplyRuntime, CreatePCs
  <2>2. api' \in Pods
    BY <1>1, <1>2, <1>10, PatchVMID, Zenon DEF ApplyRuntime, TypeOK
  <2>3. worker' \in WorkerRec
    BY <1>3, <1>10, ConstantsTyped, Zenon DEF ApplyRuntime, WorkerPCs
  <2>4. life' \in LifeStates /\ mark' \in MarkStates
    BY <1>1, <1>10, Zenon DEF ApplyRuntime, TypeOK, LifeStates, MarkStates
  <2> QED BY <1>1, <1>2, <1>10, <2>1, <2>2, <2>3, <2>4, Ranges, Zenon DEF TypeOK, ApplyRuntime
<1>11. CASE FailCreate
  <2>1. SetLife(worker.uid, "failed") /\ "failed" \in LifeStates
    BY <1>11 DEF FailCreate, LifeStates
  <2>2. api' \in Pods /\ life' \in LifeStates
    BY <1>1, <2>1, LifeIsSet
  <2>3. bound = 0
    BY <1>11 DEF Base, Working, FailCreate, CreatePCs
  <2> QED BY <1>1, <1>11, <2>2, <2>3, ConstantsTyped, Ranges DEF TypeOK, FailCreate
<1>12. CASE Dispatch
  <2> DEFINE pod == [NoPod EXCEPT !.life = "creating", !.mark = mark]
             tail == [pc |-> IF kind = "boot" THEN "ip" ELSE "mark",
                      uid |-> worker.uid, id |-> worker.id, claim |-> FALSE]
  <2>1. worker.uid \in UID /\ worker.id \in 1..MaxVM
    BY <1>2, <1>12, Ranges DEF Base, Working, Dispatch
  <2>2. pod \in Pods /\ tail \in TailRec
    <3>1. NoPod \in Pods /\ mark \in MarkStates /\ "creating" \in LifeStates
      BY <1>1, ConstantsTyped, Zenon DEF TypeOK, LifeStates
    <3>2. pod \in Pods
      BY <3>1, Zenon DEF Pods
    <3> QED BY <2>1, <3>2 DEF TailRec, TailPCs
  <2>3. "ready" \in LifeStates /\ "done" \in MarkStates
    BY DEF LifeStates, MarkStates
  <2>4. CASE ~worker.fresh
    <3> HIDE DEF pod, tail
    <3>1. /\ IF OwedOpFor(pod) = "none"
             THEN SetLife(worker.uid, "ready") /\ UNCHANGED <<resumed, tails>>
             ELSE Resume(worker.uid, worker.id, OwedOpFor(pod)) /\ UNCHANGED <<api, life>>
          /\ UNCHANGED mark
      BY <1>12, <2>4 DEF Dispatch, pod
    <3>2. api' \in Pods /\ life' \in LifeStates /\ tails' \subseteq TailRec /\ resumed' \in BOOLEAN
      <4>1. CASE OwedOpFor(pod) = "none"
        BY <1>1, <2>3, <3>1, <4>1, LifeIsSet DEF TypeOK
      <4>2. CASE OwedOpFor(pod) # "none"
        BY <1>1, <2>1, <2>2, <3>1, <4>2, OwedTyped, ResumeTyped DEF TypeOK
      <4> QED BY <4>1, <4>2
    <3> QED BY <1>1, <1>12, <3>1, <3>2, ConstantsTyped DEF TypeOK, Dispatch
  <2>5. CASE worker.fresh
    <3> HIDE DEF pod, tail
    <3>1. /\ tails' = tails \cup {tail}
          /\ IF kind = "boot" THEN mark' = "done" /\ Patch(worker.uid, "mark", "done")
             ELSE UNCHANGED <<api, mark>>
          /\ UNCHANGED <<life, resumed>>
      BY <1>12, <2>5, Zenon DEF Dispatch, tail
    <3>2. api' \in Pods /\ mark' \in MarkStates
      BY <1>1, <2>3, <3>1, PatchMark DEF TypeOK
    <3> QED BY <1>1, <1>12, <2>2, <3>1, <3>2, ConstantsTyped DEF TypeOK, Dispatch
  <2> QED BY <2>4, <2>5
<1> QED BY <1>4, <1>5, <1>6, <1>7, <1>8, <1>9, <1>10, <1>11, <1>12

LEMMA TypesOfDelete ==
    ASSUME Base,
           DeletePod \/ DeleteRemovesVM \/ DeleteRemoveFails \/ ForgetPod \/ DeleteEnds
    PROVE  TypeOK'
<1> USE DEF setup, cluster, host, tables, watcher, startup
<1>1. TypeOK
  BY DEF Base
<1>2. worker \in WorkerRec
  BY <1>1 DEF TypeOK
<1>3. ASSUME NEW pc \in WorkerPCs, Goto(pc) PROVE worker' \in WorkerRec
  BY <1>2, <1>3, Zenon DEF Goto, WorkerRec
<1>4. CASE DeletePod
  <2>1. PICK u \in UID :
          worker' = [Idle EXCEPT !.uid = u, !.pc = IF Superseded(u) THEN "gone"
                                                   ELSE IF bound # 0 THEN "rm" ELSE "forget"]
    BY <1>4, Zenon DEF DeletePod
  <2>2. PICK pc \in {"gone", "rm", "forget"} : worker' = [Idle EXCEPT !.uid = u, !.pc = pc]
    BY <2>1, Zenon
  <2>3. worker' = [pc |-> pc, uid |-> u, id |-> 0, fresh |-> FALSE]
    BY <2>2, Zenon DEF Idle
  <2>4. worker' \in WorkerRec
    BY <2>3, Ranges DEF WorkerRec, WorkerPCs
  <2> QED BY <1>1, <1>4, <2>4, Zenon DEF TypeOK, DeletePod
<1>5. CASE DeleteRemovesVM
  <2>1. worker' \in WorkerRec
    BY <1>3, <1>5 DEF DeleteRemovesVM, WorkerPCs
  <2>2. vm' \in VMs
    BY <1>1, <1>5, ConstantsTyped DEF TypeOK, DeleteRemovesVM
  <2> QED BY <1>1, <1>5, <2>1, <2>2 DEF TypeOK, DeleteRemovesVM
<1>6. CASE DeleteRemoveFails
  BY <1>1, <1>6, ConstantsTyped, Zenon DEF TypeOK, DeleteRemoveFails
<1>7. CASE ForgetPod
  <2>1. worker' \in WorkerRec
    BY <1>3, <1>7, Zenon DEF ForgetPod, WorkerPCs
  <2>2. life' \in LifeStates /\ mark' \in MarkStates
    BY <1>7, Zenon DEF ForgetPod, LifeStates, MarkStates
  <2> QED BY <1>1, <1>7, <2>1, <2>2, Ranges, Zenon DEF TypeOK, ForgetPod
<1>8. CASE DeleteEnds
  BY <1>1, <1>8, ConstantsTyped DEF TypeOK, DeleteEnds
<1> QED BY <1>4, <1>5, <1>6, <1>7, <1>8

LEMMA TypesOfTail ==
    ASSUME Base, NEW t \in tails, Tail(t)
    PROVE  TypeOK'
<1> USE DEF setup, cluster, host, tables, watcher, startup
<1>1. TypeOK
  BY DEF Base
<1>2. ASSUME NEW pc \in TailPCs, TailGoto(t, pc) PROVE tails' \subseteq TailRec
  BY <1>1, <1>2, TailMoves
<1>3. {"mark", "faillife", "exec", "done", "failmark", "sac", "ip", "lease"} \subseteq TailPCs
        /\ {"running", "done", "failed"} \subseteq MarkStates
        /\ {"ready", "failed"} \subseteq LifeStates
  BY DEF TailPCs, MarkStates, LifeStates
<1>4. CASE TailClassify(t)
  <2>1. tails' \subseteq TailRec
    BY <1>2, <1>3, <1>4 DEF TailClassify
  <2> QED BY <1>1, <1>4, <2>1 DEF TypeOK, TailClassify
<1>5. CASE TailMarks(t)
  <2>1. tails' \subseteq TailRec
    BY <1>2, <1>3, <1>5, Zenon DEF TailMarks
  <2>2. api' \in Pods /\ mark' \in MarkStates
    BY <1>1, <1>3, <1>5, MarkIsSet DEF TailMarks
  <2> QED BY <1>1, <1>5, <2>1, <2>2 DEF TypeOK, TailMarks
<1>6. CASE TailExecs(t) \/ TailSAC(t)
  <2>1. tails' \subseteq TailRec
    BY <1>2, <1>3, <1>6 DEF TailExecs, TailSAC
  <2>2. [vm EXCEPT !.fixed = TRUE] \in VMs /\ [vm EXCEPT !.sac = TRUE] \in VMs
    BY <1>1, Zenon DEF TypeOK, VMs
  <2>3. vm' \in VMs
    BY <1>1, <1>6, <2>2, Zenon DEF TypeOK, TailExecs, TailSAC
  <2> QED BY <1>1, <1>6, <2>1, <2>3 DEF TypeOK, TailExecs, TailSAC
<1>7. CASE TailDone(t)
  <2>1. tails' \subseteq TailRec
    BY <1>2, <1>3, <1>7, Zenon DEF TailDone
  <2>2. api' \in Pods /\ mark' \in MarkStates
    BY <1>1, <1>3, <1>7, MarkIsSet, Zenon DEF TailDone
  <2> QED BY <1>1, <1>7, <2>1, <2>2 DEF TypeOK, TailDone
<1>8. CASE TailIP(t)
  <2>1. tails' \subseteq TailRec /\ resumed' \in BOOLEAN
    BY <1>1, <1>2, <1>3, <1>8, TailLeaves, Zenon DEF TailIP, TypeOK
  <2> QED BY <1>1, <1>8, <2>1, Zenon DEF TypeOK, TailIP
<1>9. CASE TailLease(t)
  <2>1. tails' \subseteq TailRec /\ resumed' \in BOOLEAN
    BY <1>1, <1>9, TailLeaves DEF TailLease
  <2>2. api' \in Pods /\ life' \in LifeStates
    <3>1. CASE SetLife(t.uid, "ready") \/ SetLife(t.uid, "failed")
      BY <1>1, <1>3, <3>1, LifeIsSet
    <3>2. CASE UNCHANGED <<api, life>>
      BY <1>1, <3>2 DEF TypeOK
    <3> QED BY <1>9, <3>1, <3>2 DEF TailLease
  <2> QED BY <1>1, <1>9, <2>1, <2>2 DEF TypeOK, TailLease
<1>10. CASE TailFailMark(t)
  <2>1. tails' \subseteq TailRec
    BY <1>2, <1>3, <1>10, Zenon DEF TailFailMark
  <2>2. api' \in Pods /\ mark' \in MarkStates
    BY <1>1, <1>3, <1>10, MarkIsSet, Zenon DEF TailFailMark
  <2> QED BY <1>1, <1>10, <2>1, <2>2 DEF TypeOK, TailFailMark
<1>11. CASE TailFails(t)
  <2>1. tails' \subseteq TailRec /\ resumed' \in BOOLEAN
    BY <1>1, <1>11, TailLeaves, Zenon DEF TailFails
  <2>2. api' \in Pods /\ life' \in LifeStates
    BY <1>1, <1>3, <1>11, LifeIsSet DEF TailFails
  <2> QED BY <1>1, <1>11, <2>1, <2>2 DEF TypeOK, TailFails
<1> QED BY <1>4, <1>5, <1>6, <1>7, <1>8, <1>9, <1>10, <1>11 DEF Tail

LEMMA OrphanTyped ==
    ASSUME TypeOK, NEW id \in 0..MaxVM, HandleOrphan(id)
    PROVE  vm' \in VMs /\ byName' \in 0..MaxVM /\ abandoned' \in 0..MaxVM
BY ConstantsTyped DEF TypeOK, HandleOrphan

LEMMA TypesOfStartup ==
    ASSUME Base, Restart \/ Startup
    PROVE  TypeOK'
<1> USE DEF setup, cluster, host, tables, watcher, startup
<1>1. TypeOK
  BY DEF Base
<1>2. boot \in BootRec /\ boot.pod \in Pods /\ boot.vm \in VMs /\ boot.vm.id \in 0..MaxVM
        /\ boot.pod.uid \in 0..MaxUID
  BY <1>1 DEF TypeOK, BootRec, VMs, Pods
<1>3. CASE Restart
  <2>1. vm' \in VMs
    <3>1. [vm EXCEPT !.owned = FALSE] \in VMs
      BY <1>1, Zenon DEF TypeOK, VMs
    <3> QED BY <1>1, <1>3, <3>1, ConstantsTyped, Zenon DEF TypeOK, Restart
  <2>2. boot' \in BootRec
    BY <1>3, ConstantsTyped, Zenon DEF Restart, BootRec
  <2>3. restarts' \in 0..MaxRestarts
    <3>1. restarts' = restarts + 1 /\ restarts < MaxRestarts /\ restarts \in 0..MaxRestarts
      BY <1>1, <1>3, Zenon DEF TypeOK, Restart
    <3> QED BY <3>1, Ranges
  <2>4. life' \in LifeStates /\ mark' \in MarkStates
    BY <1>3, Zenon DEF Restart, LifeStates, MarkStates
  <2> QED BY <1>1, <1>3, <2>1, <2>2, <2>3, <2>4, ConstantsTyped, Ranges, Zenon
             DEF TypeOK, Restart
<1>4. CASE StartupList
  <2>1. boot' \in BootRec
    BY <1>1, <1>4 DEF TypeOK, StartupList, BootRec
  <2> QED BY <1>1, <1>4, <2>1 DEF TypeOK, StartupList
<1>5. CASE ReconcileStaleCreate
  <2>1. boot' = [boot EXCEPT !.pc = "adopt", !.vm = NoVM]
          \/ boot' = [boot EXCEPT !.pc = "adopt", !.vm = vm]
    BY <1>5 DEF ReconcileStaleCreate
  <2>2. boot' \in BootRec
    <3>1. vm \in VMs
      BY <1>1 DEF TypeOK
    <3> QED BY <1>2, <2>1, <3>1, ConstantsTyped, Zenon DEF BootRec
  <2>3. vm' \in VMs /\ busy' \in BOOLEAN /\ watched' \in 0..MaxVM /\ abandoned' = abandoned
    BY <1>1, <1>2, <1>5, ConstantsTyped, Zenon DEF TypeOK, ReconcileStaleCreate
  <2> QED BY <1>1, <1>5, <2>2, <2>3 DEF TypeOK, ReconcileStaleCreate
<1>6. CASE AdoptAtStartup
  <2> DEFINE pod == boot.pod
             id == boot.vm.id
             op == OwedOpFor(boot.pod)
             Matched == /\ pod.uid # 0 /\ id # 0
                        /\ pods' = pod.uid /\ bound' = id /\ byName' = id
                        /\ life' = pod.life /\ mark' = pod.mark
                        /\ IF pod.vmid = 0 THEN Patch(pod.uid, "vmid", id) ELSE UNCHANGED api
                        /\ IF op = "none" THEN UNCHANGED <<resumed, tails>>
                           ELSE Resume(pod.uid, id, op)
                        /\ UNCHANGED <<vm, abandoned>>
             Orphaned == /\ IF id = 0 THEN UNCHANGED <<vm, byName, abandoned>>
                            ELSE HandleOrphan(id)
                         /\ UNCHANGED <<api, pods, bound, life, mark, resumed, tails>>
  <2>1. Matched \/ Orphaned
    BY <1>6, Zenon DEF AdoptAtStartup
  <2>2. boot' \in BootRec /\ UNCHANGED <<kind, policy, lastUID, lastVM, busy, watched, worker, restarts>>
    BY <1>6, ConstantsTyped, Zenon DEF AdoptAtStartup
  <2>3. CASE Matched
    <3>1. pod.uid \in UID /\ id \in 1..MaxVM
      BY <1>2, <2>3, Ranges, Zenon
    <3>2. api' \in Pods
      BY <1>1, <1>2, <2>3, PatchVMID DEF TypeOK
    <3>3. tails' \subseteq TailRec /\ resumed' \in BOOLEAN
      <4>1. CASE op = "none"
        BY <1>1, <2>3, <4>1, Zenon DEF TypeOK
      <4>2. CASE op # "none"
        <5>1. op \in TailPCs
          BY <1>1, <1>2, <4>2, OwedTyped, Zenon DEF TypeOK
        <5> QED BY <1>1, <2>3, <3>1, <4>2, <5>1, ResumeTyped, Zenon
      <4> QED BY <4>1, <4>2, Zenon
    <3>4. life' \in LifeStates /\ mark' \in MarkStates
      BY <1>2, <2>3, Zenon DEF Pods
    <3> QED BY <1>1, <1>2, <2>2, <2>3, <3>1, <3>2, <3>3, <3>4, Ranges, Zenon DEF TypeOK
  <2>4. CASE Orphaned
    <3>1. vm' \in VMs /\ byName' \in 0..MaxVM /\ abandoned' \in 0..MaxVM
      BY <1>1, <1>2, <2>4, OrphanTyped DEF TypeOK
    <3> QED BY <1>1, <2>2, <2>4, <3>1, Zenon DEF TypeOK
  <2> QED BY <2>1, <2>3, <2>4
<1> QED BY <1>3, <1>4, <1>5, <1>6, Zenon DEF Startup

LEMMA TypesOfWatch ==
    ASSUME Base, Watch
    PROVE  TypeOK'
<1> USE DEF setup, cluster, host, tables, watcher, startup
<1>1. TypeOK
  BY Zenon DEF Base
<1>2. CASE WatcherCollects
  BY <1>1, <1>2, ConstantsTyped, Ranges, Zenon DEF TypeOK, WatcherCollects, WatcherEnds
<1>3. CASE SettleCommittedCreate
  <2>1. vm' \in VMs /\ byName' \in 0..MaxVM /\ abandoned' \in 0..MaxVM
    BY <1>1, <1>3, OrphanTyped DEF TypeOK, SettleCommittedCreate
  <2> QED BY <1>1, <1>3, <2>1, Ranges, Zenon DEF TypeOK, SettleCommittedCreate, WatcherEnds
<1>4. CASE WatcherGivesUp
  BY <1>1, <1>4, Ranges, Zenon DEF TypeOK, WatcherGivesUp, WatcherEnds
<1> QED BY <1>2, <1>3, <1>4 DEF Watch

LEMMA TypesOfNext ==
    ASSUME Base, [Next]_vars
    PROVE  TypeOK'
<1>1. CASE UNCHANGED vars
  BY <1>1 DEF Base, TypeOK, vars, setup, cluster, host, tables, watcher, startup
<1>2. CASE Next
  BY <1>2, TypesOfEnvironment, TypesOfCreate, TypesOfDelete, TypesOfTail, TypesOfStartup,
     TypesOfWatch DEF Next, Worker
<1> QED BY <1>1, <1>2

--------------------------------------------------------------------------------
(* What holds whatever goes wrong is kept.                                 *)

LEMMA WorkerMoves ==
    ASSUME TypeOK, NEW pc, Goto(pc)
    PROVE  /\ worker'.pc = pc /\ worker'.uid = worker.uid /\ worker'.id = worker.id
           /\ worker'.fresh = worker.fresh
BY DEF Goto, TypeOK, WorkerRec

LEMMA Bounds ==
    ASSUME TypeOK
    PROVE  /\ lastVM \in Nat /\ lastUID \in Nat /\ restarts \in Nat
           /\ vm.id \in Nat /\ bound \in Nat
BY Ranges DEF TypeOK, VMs

LEMMA BaseOfEnvironment ==
    ASSUME Base, Environment \/ RepublishLife
    PROVE  Base'
<1> USE DEF setup, cluster, host, tables, watcher, startup
<1>1. TypeOK /\ TypeOK'
  BY TypesOfEnvironment DEF Base
<1>2. Working /\ Reconciling /\ VMIsKnown /\ Credit
  BY DEF Base
<1>3. UNCHANGED <<lastVM, pods, bound, byName, resumed, busy, watched, abandoned, worker, tails,
                  boot, restarts>>
        /\ vm'.id = vm.id /\ (vm'.state = "none" <=> vm.state = "none")
        /\ (vm'.owned => vm.owned)
  <2>1. CASE CloneAdvances
    BY <1>1, <1>2, <2>1 DEF CloneAdvances, TypeOK, VMs, Working
  <2>2. CASE ApiCreate \/ ApiTerminate \/ ApiRemove \/ RepublishLife
    BY <2>2, Zenon DEF ApiCreate, ApiTerminate, ApiRemove, RepublishLife
  <2> QED BY <2>1, <2>2 DEF Environment
<1>4. Working' /\ Reconciling' /\ VMIsKnown'
  BY <1>2, <1>3 DEF Working, Reconciling, VMIsKnown
<1>5. Credit'
  <2>1. CASE ApiCreate
    <3>1. lastUID' = lastUID + 1
      BY <2>1 DEF ApiCreate
    <3>2. lastVM <= lastUID + restarts
      BY <1>2, Zenon DEF Credit
    <3> QED BY <1>1, <1>3, <3>1, <3>2, Bounds DEF Credit, Spare
  <2>2. CASE ApiTerminate \/ ApiRemove \/ CloneAdvances \/ RepublishLife
    <3>1. api.uid' \in {0, api.uid} /\ (api.uid' # 0 => api.term' \in {TRUE, api.term})
      <4>1. CASE ApiTerminate
        BY <1>1, <4>1 DEF ApiTerminate, TypeOK, Pods
      <4>2. CASE ApiRemove
        BY <4>2, Zenon DEF ApiRemove, NoPod
      <4>3. CASE CloneAdvances
        BY <4>3 DEF CloneAdvances
      <4>4. CASE RepublishLife
        BY <1>1, <4>4 DEF RepublishLife, TypeOK, Pods
      <4> QED BY <2>2, <4>1, <4>2, <4>3, <4>4, Zenon
    <3>2. lastUID' = lastUID
      BY <2>2 DEF ApiTerminate, ApiRemove, CloneAdvances, RepublishLife
    <3>3. Wanted' => Wanted
      BY <3>1, Zenon DEF Wanted
    <3> QED BY <1>2, <1>3, <3>2, <3>3, Zenon DEF Credit, Spare
  <2> QED BY <2>1, <2>2, Zenon DEF Environment
<1> QED BY <1>1, <1>4, <1>5 DEF Base

LEMMA BaseOfCreate ==
    ASSUME Base,
           \/ CreatePod \/ AwaitBusyCreate \/ AdoptableVM \/ BringUpVM \/ BringUpFails
           \/ BroughtUp \/ ApplyRuntime \/ FailCreate \/ Dispatch
    PROVE  Base'
<1> USE DEF setup, cluster, host, tables, watcher, startup
<1>1. TypeOK /\ TypeOK'
  BY TypesOfCreate DEF Base
<1>2. Working /\ Reconciling /\ VMIsKnown /\ Credit
  BY DEF Base
<1>3. boot.pc = "up" /\ UNCHANGED <<lastUID, boot, restarts, busy, watched, abandoned>>
  <2>1. worker.pc # "idle" => boot.pc = "up"
    BY <1>2 DEF Reconciling
  <2> QED BY <2>1, Zenon DEF CreatePod, AwaitBusyCreate, AdoptableVM, BringUpVM, BringUpFails,
                      BroughtUp, ApplyRuntime, FailCreate, Dispatch
<1>4. CASE CreatePod
  <2>1. Patch(api.uid, "life", "creating") /\ "creating" \in LifeStates
    BY <1>4 DEF CreatePod, LifeStates
  <2>2. api'.uid = api.uid /\ api'.term = api.term
    BY <1>1, <2>1, PatchLife DEF TypeOK
  <2>3. worker' = [pc |-> "await", uid |-> api.uid, id |-> 0, fresh |-> FALSE]
    BY <1>4, Zenon DEF CreatePod, Idle
  <2>4. /\ worker.pc = "idle" /\ api.uid # 0 /\ ~api.term
        /\ pods' = api.uid /\ bound' = 0 /\ byName' = IF bound # 0 THEN bound ELSE byName
        /\ UNCHANGED <<vm, lastVM, tails>>
    BY <1>4, Zenon DEF CreatePod
  <2>5. Working' /\ Reconciling' /\ VMIsKnown'
    BY <1>2, <1>3, <2>3, <2>4, Zenon DEF Working, Reconciling, VMIsKnown, CreatePCs
  <2>6. Credit'
    BY <1>2, <1>3, <2>2, <2>3, <2>4, Zenon DEF Credit, Spare, Wanted
  <2> QED BY <1>1, <2>5, <2>6, Zenon DEF Base
<1>5. CASE AwaitBusyCreate
  <2>1. /\ worker.pc = "await" /\ ~busy /\ worker'.pc = "adopt" /\ worker'.uid = worker.uid
        /\ UNCHANGED <<api, vm, lastVM, pods, bound, byName, tails>>
    BY <1>1, <1>5, WorkerMoves, Zenon DEF AwaitBusyCreate
  <2>2. Working' /\ Reconciling' /\ VMIsKnown'
    BY <1>2, <1>3, <2>1, Zenon DEF Working, Reconciling, VMIsKnown, CreatePCs
  <2>3. Credit'
    BY <1>2, <1>3, <2>1, Zenon DEF Credit, Spare, Wanted
  <2> QED BY <1>1, <2>2, <2>3 DEF Base
<1>6. CASE AdoptableVM
  <2>1. /\ worker.pc = "adopt" /\ worker'.uid = worker.uid
        /\ UNCHANGED <<api, vm, lastVM, pods, bound, tails>>
        /\ \/ /\ worker'.pc = "bind" /\ worker'.id = byName /\ vm.id = byName /\ byName # 0
              /\ byName' = byName
           \/ worker'.pc = "clone" /\ ~There(byName) /\ byName' = 0
           \/ worker'.pc = "fail" /\ byName' = byName
    <3>1. CASE worker' = [worker EXCEPT !.pc = "bind", !.id = byName] /\ byName # 0
                 /\ There(byName) /\ byName' = byName
      BY <1>1, <1>6, <3>1 DEF AdoptableVM, There, TypeOK, WorkerRec
    <3>2. CASE ~There(byName) /\ byName' = 0 /\ Goto("clone")
      BY <1>1, <1>6, <3>2, WorkerMoves DEF AdoptableVM
    <3>3. CASE byName' = byName /\ Goto("fail")
      BY <1>1, <1>6, <3>3, WorkerMoves, Zenon DEF AdoptableVM
    <3> QED BY <1>6, <3>1, <3>2, <3>3, Zenon DEF AdoptableVM
  <2>2. Working' /\ Reconciling' /\ VMIsKnown'
    BY <1>2, <1>3, <2>1, Zenon DEF Working, Reconciling, VMIsKnown, CreatePCs, There
  <2>3. Credit'
    BY <1>2, <1>3, <2>1, Zenon DEF Credit, Spare, Wanted
  <2> QED BY <1>1, <2>2, <2>3 DEF Base
<1>7. CASE BringUpVM
  <2>1. /\ worker'.pc = "cloning" /\ worker'.uid = worker.uid /\ worker'.id = lastVM + 1
        /\ worker.pc = "clone" /\ vm.state = "none" /\ lastVM' = lastVM + 1
        /\ UNCHANGED <<api, pods, bound, byName, tails>>
    BY <1>1, <1>7 DEF BringUpVM, TypeOK, WorkerRec
  <2>2. vm' = [id |-> lastVM + 1, state |-> "creating", owned |-> TRUE, fixed |-> FALSE,
               sac |-> FALSE]
    BY <1>7, Zenon DEF BringUpVM, NoVM
  <2>3. lastVM + 1 # 0
    BY <1>1, Bounds
  <2>4. Working' /\ Reconciling' /\ VMIsKnown'
    BY <1>2, <1>3, <2>1, <2>2, <2>3, Zenon DEF Working, Reconciling, VMIsKnown, CreatePCs
  <2>5. Credit'
    <3>1. lastVM < lastUID + restarts /\ ~busy
      BY <1>2, <2>1 DEF Credit, Spare, Working, CreatePCs
    <3>2. lastVM + 1 <= lastUID + restarts
      BY <1>1, <3>1, Bounds
    <3> QED BY <1>3, <2>1, <2>2, <2>3, <3>1, <3>2, Zenon DEF Credit
  <2> QED BY <1>1, <2>4, <2>5 DEF Base
<1>8. CASE BringUpFails \/ BroughtUp
  <2>1. /\ \/ worker.pc = "clone" /\ worker'.pc = "fail"
           \/ worker.pc = "cloning" /\ worker'.pc = "bind"
        /\ worker'.uid = worker.uid /\ worker'.id = worker.id
        /\ UNCHANGED <<api, vm, lastVM, pods, bound, byName, tails>>
    <3>1. CASE BringUpFails
      BY <1>1, <3>1, WorkerMoves, Zenon DEF BringUpFails
    <3>2. CASE BroughtUp
      BY <1>1, <3>2, WorkerMoves, Zenon DEF BroughtUp
    <3> QED BY <1>8, <3>1, <3>2, Zenon
  <2>2. Working' /\ Reconciling' /\ VMIsKnown'
    BY <1>2, <1>3, <2>1, Zenon DEF Working, Reconciling, VMIsKnown, CreatePCs
  <2>3. Credit'
    BY <1>2, <1>3, <2>1, Zenon DEF Credit, Spare, Wanted
  <2> QED BY <1>1, <2>2, <2>3 DEF Base
<1>9. CASE ApplyRuntime
  <2>1. api'.uid = api.uid /\ api'.term = api.term
    <3>1. worker.id \in 0..MaxVM
      BY <1>1, Zenon DEF TypeOK, WorkerRec
    <3> QED BY <1>1, <1>9, <3>1, PatchVMID, Zenon DEF ApplyRuntime, TypeOK
  <2>2. /\ worker.pc = "bind" /\ byName' = worker.id
        /\ UNCHANGED <<vm, lastVM, tails>>
        /\ \/ /\ worker'.pc = "dispatch" /\ worker'.uid = worker.uid /\ worker'.id = worker.id
              /\ bound' = worker.id /\ pods' = pods
           \/ worker'.pc = "idle" /\ bound' = 0
    <3>1. CASE Goto("dispatch") /\ bound' = worker.id /\ pods' = pods
      BY <1>1, <1>9, <3>1, WorkerMoves, Zenon DEF ApplyRuntime
    <3>2. CASE worker' = Idle /\ bound' = 0
      BY <1>9, <3>2, Zenon DEF ApplyRuntime, Idle
    <3> QED BY <1>9, <3>1, <3>2, Zenon DEF ApplyRuntime
  <2>3. worker.uid # 0 /\ pods = worker.uid /\ worker.id # 0 /\ vm.id = worker.id /\ ~busy
    BY <1>2, <2>2, Zenon DEF Working, CreatePCs
  <2>4. Working' /\ Reconciling' /\ VMIsKnown'
    BY <1>2, <1>3, <2>2, <2>3, Zenon DEF Working, Reconciling, VMIsKnown, CreatePCs
  <2>5. Credit'
    BY <1>2, <1>3, <2>1, <2>2, Zenon DEF Credit, Spare, Wanted
  <2> QED BY <1>1, <2>4, <2>5 DEF Base
<1>10. CASE FailCreate
  <2>1. SetLife(worker.uid, "failed") /\ "failed" \in LifeStates
    BY <1>10 DEF FailCreate, LifeStates
  <2>2. api'.uid = api.uid /\ api'.term = api.term
    BY <1>1, <2>1, LifeIsSet, Zenon
  <2>3. /\ worker.pc = "fail" /\ worker'.pc = "idle" /\ pods' = 0
        /\ UNCHANGED <<vm, lastVM, bound, byName, tails>>
    BY <1>10, Zenon DEF FailCreate, Idle
  <2>4. Working' /\ Reconciling' /\ VMIsKnown'
    BY <1>2, <1>3, <2>3, Zenon DEF Working, Reconciling, VMIsKnown, CreatePCs
  <2>5. Credit'
    BY <1>2, <1>3, <2>2, <2>3, Zenon DEF Credit, Spare, Wanted
  <2> QED BY <1>1, <2>4, <2>5 DEF Base
<1>11. CASE Dispatch
  <2>1. /\ worker.pc = "dispatch" /\ worker'.pc = "idle"
        /\ UNCHANGED <<vm, lastVM, pods, bound, byName>>
    BY <1>11, Zenon DEF Dispatch, Idle
  <2>2. api'.uid = api.uid /\ api'.term = api.term
    <3>1. "ready" \in LifeStates /\ "done" \in MarkStates
      BY DEF LifeStates, MarkStates
    <3>2. \/ SetLife(worker.uid, "ready") \/ UNCHANGED api
          \/ Patch(worker.uid, "mark", "done")
      BY <1>11 DEF Dispatch
    <3> QED BY <1>1, <3>1, <3>2, LifeIsSet, PatchMark DEF TypeOK
  <2>3. bound # 0
    BY <1>2, <2>1, Zenon DEF Working
  <2>4. Working' /\ Reconciling' /\ VMIsKnown'
    BY <1>2, <1>3, <2>1, <2>3, Zenon DEF Working, Reconciling, VMIsKnown, CreatePCs
  <2>5. Credit'
    BY <1>2, <1>3, <2>1, <2>2, Zenon DEF Credit, Spare, Wanted
  <2> QED BY <1>1, <2>4, <2>5 DEF Base
<1> QED BY <1>4, <1>5, <1>6, <1>7, <1>8, <1>9, <1>10, <1>11

LEMMA BaseOfDelete ==
    ASSUME Base,
           DeletePod \/ DeleteRemovesVM \/ DeleteRemoveFails \/ ForgetPod \/ DeleteEnds
    PROVE  Base'
<1> USE DEF setup, cluster, host, tables, watcher, startup
<1>1. TypeOK /\ TypeOK'
  BY TypesOfDelete DEF Base
<1>2. Working /\ Reconciling /\ VMIsKnown /\ Credit
  BY Zenon DEF Base
<1>3. boot.pc = "up" /\ UNCHANGED <<lastUID, lastVM, boot, restarts, busy, watched, abandoned, tails>>
  <2>1. worker.pc # "idle" => boot.pc = "up"
    BY <1>2, Zenon DEF Reconciling
  <2> QED BY <2>1, Zenon
             DEF DeletePod, DeleteRemovesVM, DeleteRemoveFails, ForgetPod, DeleteEnds
<1>4. CASE DeletePod
  <2>1. PICK u \in UID :
          /\ (u = api.uid /\ api.term) \/ (u = pods /\ api.uid = 0)
          /\ worker' = [Idle EXCEPT !.uid = u, !.pc = IF Superseded(u) THEN "gone"
                                                   ELSE IF bound # 0 THEN "rm" ELSE "forget"]
    BY <1>4, Zenon DEF DeletePod
  <2>2. worker'.pc = IF Superseded(u) THEN "gone" ELSE IF bound # 0 THEN "rm" ELSE "forget"
    BY <2>1, Zenon DEF Idle
  <2>3. worker.pc = "idle" /\ UNCHANGED <<api, vm, pods, bound, byName>>
    BY <1>4, Zenon DEF DeletePod
  <2>4. Working' /\ Reconciling' /\ VMIsKnown'
    BY <1>2, <1>3, <2>2, <2>3 DEF Working, Reconciling, VMIsKnown, CreatePCs
  <2>5. Credit'
    BY <1>2, <1>3, <2>1, <2>2, <2>3 DEF Credit, Spare, Wanted
  <2> QED BY <1>1, <2>4, <2>5, Zenon DEF Base
<1>5. CASE DeleteRemovesVM
  <2>1. worker.pc = "rm" /\ worker'.pc = "forget" /\ UNCHANGED <<api, pods, bound, byName>>
    BY <1>1, <1>5, WorkerMoves, Zenon DEF DeleteRemovesVM
  <2>2. vm' = NoVM /\ bound # 0
    BY <1>2, <1>5, <2>1, Zenon DEF DeleteRemovesVM, Working
  <2>3. Working' /\ Reconciling' /\ VMIsKnown'
    BY <1>2, <1>3, <2>1, <2>2, Zenon DEF Working, Reconciling, VMIsKnown, CreatePCs, NoVM
  <2>4. Credit'
    BY <1>2, <1>3, <2>1, <2>2, Zenon DEF Credit, Spare, Wanted
  <2> QED BY <1>1, <2>3, <2>4, Zenon DEF Base
<1>6. CASE DeleteRemoveFails
  <2>1. worker.pc = "rm" /\ worker'.pc = "idle" /\ UNCHANGED <<api, vm, pods, bound, byName>>
    BY <1>6, Zenon DEF DeleteRemoveFails, Idle
  <2>2. Working' /\ Reconciling' /\ VMIsKnown'
    BY <1>2, <1>3, <2>1, Zenon DEF Working, Reconciling, VMIsKnown, CreatePCs
  <2>3. Credit'
    BY <1>2, <1>3, <2>1, Zenon DEF Credit, Spare, Wanted
  <2> QED BY <1>1, <2>2, <2>3 DEF Base
<1>7. CASE ForgetPod
  <2>1. /\ worker.pc = "forget" /\ worker'.pc = "gone" /\ pods' = 0 /\ bound' = 0
        /\ byName' = IF byName = bound THEN 0 ELSE byName
        /\ UNCHANGED <<api, vm>>
    BY <1>1, <1>7, WorkerMoves, Zenon DEF ForgetPod
  <2>2. bound # 0 => vm.id = 0
    BY <1>2, <2>1, Zenon DEF Working
  <2>3. Working' /\ Reconciling' /\ VMIsKnown'
    BY <1>2, <1>3, <2>1, <2>2, Zenon DEF Working, Reconciling, VMIsKnown, CreatePCs
  <2>4. Credit'
    BY <1>2, <1>3, <2>1, Zenon DEF Credit, Spare, Wanted
  <2> QED BY <1>1, <2>3, <2>4 DEF Base
<1>8. CASE DeleteEnds
  <2>1. /\ worker.pc = "gone" /\ worker'.pc = "idle" /\ UNCHANGED <<vm, pods, bound, byName>>
        /\ api' = api \/ api' = NoPod
    BY <1>8, Zenon DEF DeleteEnds, Idle
  <2>2. Working' /\ Reconciling' /\ VMIsKnown'
    BY <1>2, <1>3, <2>1, Zenon DEF Working, Reconciling, VMIsKnown, CreatePCs
  <2>3. Credit'
    <3>1. NoPod.uid = 0
      BY DEF NoPod
    <3>2. Wanted' => Wanted
      BY <2>1, <3>1, Zenon DEF Wanted
    <3> QED BY <1>2, <1>3, <2>1, <3>2, Zenon DEF Credit, Spare
  <2> QED BY <1>1, <2>2, <2>3 DEF Base
<1> QED BY <1>4, <1>5, <1>6, <1>7, <1>8

\* A tail touches neither the worker nor the tables that say which VM is whose.
LEMMA TailShape ==
    ASSUME Base, NEW t \in tails, Tail(t)
    PROVE  /\ UNCHANGED <<kind, policy, lastUID, lastVM, pods, bound, byName, busy, watched,
                          abandoned, worker, boot, restarts>>
           /\ api'.uid = api.uid /\ api'.term = api.term /\ api'.vmid = api.vmid
           /\ vm'.id = vm.id /\ vm'.state = vm.state /\ vm'.owned = vm.owned
<1> USE DEF setup, cluster, host, tables, watcher, startup
<1>1. TypeOK
  BY DEF Base
<1>2. UNCHANGED <<kind, policy, lastUID, lastVM, pods, bound, byName, busy, watched, abandoned,
                  worker, boot, restarts>>
  BY Zenon DEF Tail, TailClassify, TailMarks, TailExecs, TailDone, TailSAC, TailIP, TailLease,
         TailFailMark, TailFails
<1>3. \/ UNCHANGED api
      \/ \E s \in {"running", "done", "failed"} : MarkPostCloneState(t.uid, s)
      \/ \E s \in {"ready", "failed"} : SetLife(t.uid, s)
  BY Zenon DEF Tail, TailClassify, TailMarks, TailExecs, TailDone, TailSAC, TailIP, TailLease,
         TailFailMark, TailFails
<1>4. api'.uid = api.uid /\ api'.term = api.term /\ api'.vmid = api.vmid
  BY <1>1, <1>3, MarkIsSet, LifeIsSet, Zenon DEF MarkStates, LifeStates
<1>5. UNCHANGED vm \/ vm' = [vm EXCEPT !.fixed = TRUE] \/ vm' = [vm EXCEPT !.sac = TRUE]
  BY DEF Tail, TailClassify, TailMarks, TailExecs, TailDone, TailSAC, TailIP, TailLease,
         TailFailMark, TailFails
<1>6. vm'.id = vm.id /\ vm'.state = vm.state /\ vm'.owned = vm.owned
  BY <1>1, <1>5 DEF TypeOK, VMs
<1> QED BY <1>2, <1>4, <1>6, Zenon

LEMMA BaseOfTail ==
    ASSUME Base, NEW t \in tails, Tail(t)
    PROVE  Base'
<1>1. TypeOK /\ TypeOK'
  BY TypesOfTail DEF Base
<1>2. Working /\ Reconciling /\ VMIsKnown /\ Credit
  BY Zenon DEF Base
<1>3. boot.pc = "up" /\ ~busy
  BY <1>2, Zenon DEF Reconciling
<1>4. Working' /\ Reconciling' /\ VMIsKnown'
  BY <1>2, <1>3, TailShape, Zenon DEF Working, Reconciling, VMIsKnown
<1>5. Credit'
  BY <1>2, TailShape, Zenon DEF Credit, Spare, Wanted
<1> QED BY <1>1, <1>4, <1>5 DEF Base

\* handleOrphan removes the VM, gives up on it, or indexes it.
LEMMA OrphanShape ==
    ASSUME NEW id, HandleOrphan(id)
    PROVE  \/ UNCHANGED <<byName, abandoned>> /\ vm' = IF vm.id = id THEN NoVM ELSE vm
           \/ UNCHANGED <<vm, byName>> /\ abandoned' = id
           \/ UNCHANGED <<vm, abandoned>> /\ byName' = id
BY DEF HandleOrphan

LEMMA BaseOfStartup ==
    ASSUME Base, Restart \/ Startup
    PROVE  Base'
<1> USE DEF setup, cluster, host, tables, watcher, startup
<1>1. TypeOK /\ TypeOK'
  BY TypesOfStartup DEF Base
<1>2. Working /\ Reconciling /\ VMIsKnown /\ Credit
  BY DEF Base
<1>3. CASE Restart
  <2>1. /\ worker'.pc = "idle" /\ pods' = 0 /\ bound' = 0 /\ resumed' = FALSE /\ busy' = FALSE
        /\ tails' = {} /\ restarts' = restarts + 1
        /\ UNCHANGED <<api, lastUID, lastVM>>
    BY <1>3, Zenon DEF Restart, Idle
  <2>2. boot'.pc = "list"
    BY <1>3, Zenon DEF Restart, Up
  <2>3. (vm'.state = "none" <=> vm'.id = 0) /\ (vm'.owned => vm'.id # 0)
    <3>1. CASE vm' = vm
      BY <1>2, <3>1 DEF Working
    <3>2. CASE vm' = [vm EXCEPT !.owned = FALSE]
      BY <1>1, <1>2, <3>2, Zenon DEF Working, TypeOK, VMs
    <3>3. CASE vm' = NoVM
      BY <3>3, Zenon DEF NoVM
    <3> QED BY <1>3, <3>1, <3>2, <3>3, Zenon DEF Restart
  <2>4. Working' /\ Reconciling' /\ VMIsKnown'
    BY <2>1, <2>2, <2>3, Zenon DEF Working, Reconciling, VMIsKnown, CreatePCs
  <2>5. Credit'
    <3>1. lastVM <= lastUID + restarts
      BY <1>2 DEF Credit
    <3> QED BY <1>1, <2>1, <3>1, Bounds DEF Credit, Spare
  <2> QED BY <1>1, <2>4, <2>5 DEF Base
<1>4. CASE StartupList
  <2>1. /\ boot.pc = "list" /\ boot'.pc = IF vm.state = "creating" THEN "stale" ELSE "adopt"
        /\ boot'.vm = vm
        /\ UNCHANGED <<api, lastUID, vm, lastVM, pods, bound, byName, resumed, busy, watched,
                       abandoned, worker, tails, restarts>>
    BY <1>4, Zenon DEF StartupList
  <2>2. Working' /\ Reconciling' /\ VMIsKnown'
    BY <1>2, <2>1, Zenon DEF Working, Reconciling, VMIsKnown, CreatePCs
  <2>3. Credit'
    BY <1>2, <2>1, Zenon DEF Credit, Spare, Wanted
  <2> QED BY <1>1, <2>2, <2>3 DEF Base
<1>5. CASE ReconcileStaleCreate
  <2>1. /\ boot.pc = "stale" /\ boot'.pc = "adopt"
        /\ UNCHANGED <<api, lastUID, lastVM, pods, bound, byName, resumed, worker, tails, restarts>>
        /\ \/ vm' = NoVM /\ boot'.vm = NoVM /\ UNCHANGED busy
           \/ UNCHANGED <<vm, busy>> /\ boot'.vm = vm
           \/ vm' = vm /\ boot'.vm = NoVM /\ busy' = TRUE /\ watched' = boot.vm.id
    <3>1. \A v : boot' = [boot EXCEPT !.pc = "adopt", !.vm = v] =>
             boot'.pc = "adopt" /\ boot'.vm = v
      BY <1>1, Zenon DEF TypeOK, BootRec
    <3> QED BY <1>5, <3>1, Zenon DEF ReconcileStaleCreate
  <2>2. boot.vm.id # 0 /\ vm.id = boot.vm.id /\ ~busy /\ worker.pc = "idle" /\ bound = 0
          /\ tails = {} /\ pods = 0 /\ ~resumed
    BY <1>2, <2>1, Zenon DEF Reconciling
  <2>3. NoVM.id = 0 /\ NoVM.state = "none" /\ ~NoVM.owned
    BY Zenon DEF NoVM
  <2>4. Working'
    BY <1>2, <2>1, <2>2, <2>3, Zenon DEF Working, CreatePCs
  <2>5. Reconciling' /\ VMIsKnown'
    BY <1>2, <2>1, <2>2, <2>3 DEF Reconciling, VMIsKnown
  <2>6. Credit'
    BY <1>2, <2>1, <2>2, Zenon DEF Credit, Spare
  <2> QED BY <1>1, <2>4, <2>5, <2>6, Zenon DEF Base
<1>6. CASE AdoptAtStartup
  <2> DEFINE id == boot.vm.id
  <2>1. /\ boot.pc = "adopt" /\ boot' = Up
        /\ UNCHANGED <<lastUID, lastVM, busy, watched, worker, restarts>>
    BY <1>6, Zenon DEF AdoptAtStartup
  <2>2. worker.pc = "idle" /\ pods = 0 /\ bound = 0 /\ tails = {}
    BY <1>2, <2>1, Zenon DEF Reconciling
  <2>3. boot'.pc = "up" /\ NoVM.id = 0 /\ NoVM.state = "none" /\ ~NoVM.owned
    BY <2>1, Zenon DEF Up, NoVM
  <2>4. \/ id # 0 /\ bound' = id /\ UNCHANGED <<vm, abandoned>>
        \/ /\ id = 0 /\ UNCHANGED <<vm, byName, abandoned, bound, tails>>
        \/ /\ id # 0 /\ HandleOrphan(id) /\ UNCHANGED <<bound, tails>>
    BY <1>6, Zenon DEF AdoptAtStartup
  <2>5. api'.uid = api.uid /\ api'.term = api.term
    <3>1. id \in 0..MaxVM
      BY <1>1, Zenon DEF TypeOK, BootRec, VMs
    <3>2. Patch(boot.pod.uid, "vmid", id) \/ UNCHANGED api
      BY <1>6, Zenon DEF AdoptAtStartup
    <3> QED BY <1>1, <3>1, <3>2, PatchVMID, Zenon DEF TypeOK
  <2>6. IF id # 0 THEN ~busy /\ vm.id = id
        ELSE vm.id # 0 => vm.id \in {byName, abandoned} \/ (busy /\ watched = vm.id)
    BY <1>2, <2>1, Zenon DEF Reconciling
  <2> HIDE DEF id
  <2>7. Working' /\ Reconciling' /\ VMIsKnown'
    <3>1. CASE id # 0 /\ bound' = id /\ UNCHANGED <<vm, abandoned>>
      BY <1>2, <2>1, <2>2, <2>3, <2>6, <3>1, Zenon
         DEF Working, Reconciling, VMIsKnown, CreatePCs
    <3>2. CASE id = 0 /\ UNCHANGED <<vm, byName, abandoned, bound, tails>>
      BY <1>2, <2>1, <2>2, <2>3, <2>6, <3>2, Zenon
         DEF Working, Reconciling, VMIsKnown, CreatePCs
    <3>3. CASE id # 0 /\ HandleOrphan(id) /\ UNCHANGED <<bound, tails>>
      BY <1>2, <2>1, <2>2, <2>3, <2>6, <3>3, OrphanShape, Zenon
         DEF Working, Reconciling, VMIsKnown, CreatePCs
    <3> QED BY <2>4, <3>1, <3>2, <3>3, Zenon
  <2>8. Credit'
    BY <1>2, <2>1, <2>2, <2>5, Zenon DEF Credit, Spare
  <2> QED BY <1>1, <2>7, <2>8 DEF Base
<1> QED BY <1>3, <1>4, <1>5, <1>6, Zenon DEF Startup

LEMMA BaseOfWatch ==
    ASSUME Base, Watch
    PROVE  Base'
<1> USE DEF setup, cluster, host, tables, watcher, startup
<1>1. TypeOK /\ TypeOK'
  BY TypesOfWatch DEF Base
<1>2. Working /\ Reconciling /\ VMIsKnown /\ Credit
  BY Zenon DEF Base
<1>3. /\ busy /\ busy' = FALSE
      /\ UNCHANGED <<api, lastUID, lastVM, pods, bound, resumed, worker, tails, boot, restarts>>
  BY Zenon DEF Watch, WatcherCollects, SettleCommittedCreate, WatcherGivesUp, WatcherEnds
<1>4. \/ ~There(watched) /\ UNCHANGED <<vm, byName, abandoned>>
      \/ There(watched) /\ vm' = NoVM /\ UNCHANGED <<byName, abandoned>>
      \/ There(watched) /\ vm' = vm /\ byName' = watched
      \/ There(watched) /\ vm' = vm /\ abandoned' = watched
  <2>1. CASE WatcherCollects
    BY <2>1, Zenon DEF WatcherCollects
  <2>2. CASE SettleCommittedCreate
    BY <2>2, OrphanShape, Zenon DEF SettleCommittedCreate, There
  <2>3. CASE WatcherGivesUp
    BY <2>3, Zenon DEF WatcherGivesUp
  <2> QED BY <2>1, <2>2, <2>3, Zenon DEF Watch
<1>5. bound = 0 /\ tails = {} /\ worker.pc \in {"idle", "await", "forget", "gone"}
        /\ boot.pc \in {"up", "adopt"} /\ (boot.pc = "adopt" => boot.vm.id = 0)
  BY <1>1, <1>2, <1>3, Zenon DEF Reconciling, TypeOK, BootRec
<1>6. NoVM.id = 0 /\ NoVM.state = "none" /\ ~NoVM.owned
  BY Zenon DEF NoVM
<1>7. Working'
  BY <1>2, <1>3, <1>4, <1>5, <1>6, Zenon DEF Working, CreatePCs
<1>8. Reconciling'
  BY <1>2, <1>3, <1>4, <1>5, <1>6, Zenon DEF Reconciling, There, Working
<1>9. VMIsKnown'
  BY <1>2, <1>3, <1>4, <1>5, <1>6, Zenon DEF VMIsKnown, There, Working
<1>10. Credit'
  BY <1>2, <1>3, <1>5 DEF Credit, Spare
<1> QED BY <1>1, <1>7, <1>8, <1>9, <1>10 DEF Base

LEMMA BaseAlways == Spec => []Base
<1>1. Init => Base
  <2> SUFFICES ASSUME Init PROVE Base
    BY Zenon
  <2>1. TypeOK
    <3>1. kind \in Kinds /\ policy \in Policies
      BY BringUpAssumption, Zenon DEF Init
    <3> QED BY <3>1, ConstantsTyped, Ranges, Zenon DEF Init, TypeOK, LifeStates, MarkStates
  <2>2. Working /\ Reconciling /\ VMIsKnown
    BY Zenon DEF Init, Working, Reconciling, VMIsKnown, NoVM, Idle, Up, CreatePCs
  <2>3. Credit
    <3>1. lastVM = 0 /\ lastUID = 0 /\ restarts = 0 /\ ~busy
      BY Zenon DEF Init
    <3>2. api.uid = 0 /\ worker.pc = "idle" /\ boot.pc = "up"
      BY Zenon DEF Init, NoPod, Idle, Up
    <3> QED BY <3>1, <3>2 DEF Credit, Wanted
  <2> QED BY <2>1, <2>2, <2>3 DEF Base
<1>2. Base /\ [Next]_vars => Base'
  <2> SUFFICES ASSUME Base, [Next]_vars PROVE Base'
    OBVIOUS
  <2>1. CASE UNCHANGED vars
    <3>1. UNCHANGED <<kind, policy, api, lastUID, vm, lastVM, pods, life, mark, bound, byName,
                      resumed, busy, watched, abandoned, worker, tails, boot, restarts>>
      BY <2>1, Zenon DEF vars, setup, cluster, host, tables, watcher, startup
    <3>2. TypeOK'
      BY <3>1, Zenon DEF Base, TypeOK
    <3>3. Credit'
      BY <3>1, Zenon DEF Base, Credit, Spare, Wanted
    <3>4. Working'
      BY <3>1, Zenon DEF Base, Working
    <3>5. Reconciling' /\ VMIsKnown'
      BY <3>1, Zenon DEF Base, Reconciling, VMIsKnown
    <3> QED BY <3>2, <3>3, <3>4, <3>5, Zenon DEF Base
  <2>2. CASE Next
    BY <2>2, BaseOfEnvironment, BaseOfCreate, BaseOfDelete, BaseOfTail, BaseOfStartup, BaseOfWatch
       DEF Next, Worker
  <2> QED BY <2>1, <2>2
<1> QED BY <1>1, <1>2, PTL DEF Spec

\* The types of the variables: no sequence of creates, deletes, restarts and faults
\* makes more VMs than there were pods and restarts, and only a tracked pod has a VM
\* bound (bringUpVM, failCreate, untrackLocked).
THEOREM TypeCorrect == Spec => []TypeOK
<1>1. Base => TypeOK
  BY DEF Base
<1> QED BY <1>1, BaseAlways, PTL

\* Once startup reconciliation is over, no VM of the name is out of reach of the
\* tables, of the watcher and of the running create, unless vk-cocoon logged that it
\* gave up on it: with any number of incarnations and restarts and whatever fails
\* (reconcileStaleCreates, settleCommittedCreate, handleOrphan, applyRuntime).
THEOREM VMIsKnownAlways == Spec => []VMIsKnown
<1>1. Base => VMIsKnown
  BY DEF Base
<1> QED BY <1>1, BaseAlways, PTL
================================================================================
