-------------------------- MODULE BringUpReadyProofs ---------------------------
(***************************************************************************)
(* For any number of incarnations, restarts and background boots: no pod   *)
(* is Ready before the fixup of its VM, and no VM that a live pod wants is *)
(* removed, unless a VM is lost while vk-cocoon is down.                   *)
(***************************************************************************)
EXTENDS BringUpProofs

\* The annotations of a pod, or a boot in the background, tell that the pod has had
\* a VM.
Touched(p) == p.vmid # 0 \/ p.mark # "" \/ p.life = "ready"
Booted == Touched(api) \/ \E t \in tails : t.uid = api.uid

Finished == vm.fixed /\ (kind = "windows" => vm.sac)

\* What annotations say of the VM is so.
Truthful(p) ==
    vm.id # 0 =>
        /\ Touched(p) => vm.state # "creating"
        /\ p.vmid \in {0, vm.id}
        /\ kind # "boot" /\ p.mark = "done" => vm.fixed
        /\ kind # "boot" /\ p.life = "ready" => Finished

\* Incarnations and VMs are numbered in order.
Order ==
    /\ api.uid \in {0, lastUID}
    /\ api.uid = 0 => api = NoPod
    /\ boot.pod.uid = 0 => boot.pod = NoPod
    /\ pods <= lastUID /\ worker.uid <= lastUID /\ boot.pod.uid <= lastUID
    /\ vm.id <= lastVM /\ byName <= lastVM
    /\ \A t \in tails : t.uid <= lastUID /\ t.id <= lastVM

\* The worker creates a pod that has had no VM, and deletes none that is wanted.
Owner ==
    /\ worker.pc \in CreatePCs => ~Booted
    /\ worker.pc \in CreatePCs \cup {"dispatch"} =>
         mark = "" /\ \A t \in tails : t.uid # worker.uid
    /\ worker.pc = "dispatch" => (Booted => api.uid = worker.uid)
    /\ worker.pc \in {"bind", "dispatch"} => vm.state # "creating"
    /\ worker.pc = "cloning" => vm.owned \/ vm.state # "creating"
    /\ worker.pc \in {"rm", "forget", "gone"} =>
         (api.uid = worker.uid => api.uid = 0 \/ api.term)
    /\ worker.pc \in {"rm", "forget"} => pods \in {0, worker.uid}
    /\ vm.id # 0 /\ vm.id \in {bound, byName} => vm.state # "creating"

\* A tail of the VM goes on from where the VM is.
TailInv(t) ==
    /\ t.id = vm.id =>
         /\ vm.state # "creating"
         /\ kind # "boot" /\ t.pc \in {"done", "sac", "ip", "lease"} => vm.fixed
         /\ kind # "boot" /\ t.pc \in {"ip", "lease"} => Finished
    /\ t.uid = api.uid => vm.id \in {0, t.id}

\* A pod that is wanted and has had a VM has it still, and is tracked with it.
Live ==
    Wanted /\ Booted =>
        /\ vm.id # 0
        /\ boot.pc = "up" => pods = api.uid /\ bound = vm.id

\* What startup listed is still so, or the pod has been replaced.
Listed ==
    /\ boot.pc = "stale" \/ busy => ~Booted
    /\ boot.pc = "stale" => ~Touched(boot.pod)
    /\ boot.pc \in {"stale", "adopt"} =>
         /\ Truthful(boot.pod)
         /\ IF boot.pod.uid = api.uid
            THEN /\ boot.pod.vmid = api.vmid /\ boot.pod.life = api.life
                 /\ boot.pod.mark = api.mark
            ELSE ~Booted
    /\ boot.pc = "adopt" /\ boot.vm.id # 0 => vm.state # "creating"
    /\ boot.pc = "adopt" /\ boot.vm.id = 0 /\ vm.id # 0 => ~Booted

ReadyIsBound == pods # 0 /\ life = "ready" => bound # 0

Inv ==
    /\ Base /\ Order /\ Owner /\ Live /\ Listed
    /\ Truthful(api)
    /\ \A t \in tails : TailInv(t)
    /\ ReadyIsBound /\ FixupBeforeReady

--------------------------------------------------------------------------------
(* What holds as long as no VM is lost is kept.                            *)

LEMMA TailFields ==
    ASSUME TypeOK, NEW t \in tails
    PROVE  t.uid \in UID /\ t.uid # 0 /\ t.id \in 1..MaxVM /\ t.id # 0 /\ t.uid \in Nat /\ t.id \in Nat
BY Ranges DEF TypeOK, TailRec, UID

LEMMA Ordered ==
    ASSUME TypeOK, Order
    PROVE  /\ api.uid <= lastUID /\ pods <= lastUID /\ worker.uid <= lastUID
           /\ boot.pod.uid <= lastUID /\ 0 <= lastUID
           /\ vm.id <= lastVM /\ byName <= lastVM /\ 0 <= lastVM
<1>1. lastUID \in Nat /\ lastVM \in Nat
  BY Bounds
<1>2. api.uid = 0 \/ api.uid = lastUID
  BY DEF Order
<1>3. api.uid <= lastUID /\ 0 <= lastUID /\ 0 <= lastVM
  BY <1>1, <1>2
<1> QED BY <1>3 DEF Order

LEMMA InvApi ==
    ASSUME Inv, ApiCreate \/ ApiTerminate \/ ApiRemove
    PROVE  Inv'
<1> USE DEF setup, cluster, host, tables, watcher, startup
<1>1. Base /\ Base' /\ TypeOK
  BY BaseOfEnvironment DEF Inv, Base, Environment
<1>2. UNCHANGED <<kind, policy, vm, lastVM, pods, life, mark, bound, byName, resumed, busy, watched,
                  abandoned, worker, tails, boot, restarts>>
  BY DEF ApiCreate, ApiTerminate, ApiRemove
<1>3. Order /\ Owner /\ Live /\ Listed /\ ReadyIsBound /\ FixupBeforeReady /\ Truthful(api)
        /\ \A t \in tails : TailInv(t)
  BY DEF Inv
<1>4. ReadyIsBound' /\ FixupBeforeReady'
  BY <1>2, <1>3 DEF ReadyIsBound, FixupBeforeReady
<1>5. CASE ApiCreate
  <2>1. api' = [uid |-> lastUID + 1, term |-> FALSE, vmid |-> 0, life |-> "", mark |-> ""]
          /\ lastUID' = lastUID + 1
    BY <1>5, Zenon DEF ApiCreate, NoPod
  <2>2. /\ lastUID \in Nat /\ pods \in Nat /\ worker.uid \in Nat /\ boot.pod.uid \in Nat
        /\ \A t \in tails : t.uid \in Nat
    BY <1>1, Ranges, TailFields DEF TypeOK, WorkerRec, BootRec, Pods
  <2>3. /\ \A t \in tails : t.uid <= lastUID
        /\ pods <= lastUID /\ worker.uid <= lastUID /\ boot.pod.uid <= lastUID
    BY <1>3 DEF Order
  <2>4. /\ \A t \in tails : t.uid # lastUID + 1
        /\ worker.uid # lastUID + 1 /\ boot.pod.uid # lastUID + 1 /\ lastUID + 1 # 0
    BY <2>2, <2>3
  <2>5. ~Booted'
    BY <1>2, <2>1, <2>4, Zenon DEF Booted, Touched
  <2>6. Order'
    <3>1. pods <= lastUID + 1 /\ worker.uid <= lastUID + 1 /\ boot.pod.uid <= lastUID + 1
            /\ \A t \in tails : t.uid <= lastUID + 1
      BY <2>2, <2>3
    <3> QED BY <1>2, <1>3, <2>1, <2>4, <3>1, Zenon DEF Order
  <2>7. Owner' /\ Live'
    BY <1>2, <1>3, <2>1, <2>4, <2>5, Zenon DEF Owner, Live
  <2>8. Listed'
    BY <1>2, <1>3, <2>1, <2>4, <2>5, Zenon DEF Listed, Touched, Truthful, Finished
  <2>9. Truthful(api)'
    BY <2>1, Zenon DEF Truthful, Touched
  <2>10. \A t \in tails' : TailInv(t)'
    BY <1>2, <1>3, <2>1, <2>4, Zenon DEF TailInv, Finished
  <2> QED BY <1>1, <1>4, <2>6, <2>7, <2>8, <2>9, <2>10 DEF Inv
<1>6. CASE ApiTerminate
  <2>1. /\ api'.uid = api.uid /\ api'.vmid = api.vmid /\ api'.life = api.life
        /\ api'.mark = api.mark /\ api'.term = TRUE /\ lastUID' = lastUID /\ api.uid # 0
    BY <1>1, <1>6 DEF ApiTerminate, TypeOK, Pods
  <2>2. Booted' <=> Booted
    BY <1>2, <2>1, Zenon DEF Booted, Touched
  <2>3. Order' /\ Owner' /\ Live'
    BY <1>2, <1>3, <2>1, <2>2, Zenon DEF Order, Owner, Live, Wanted
  <2>4. Listed'
    BY <1>2, <1>3, <2>1, <2>2, Zenon DEF Listed, Touched, Truthful, Finished
  <2>5. Truthful(api)'
    BY <1>2, <1>3, <2>1, Zenon DEF Truthful, Touched, Finished
  <2>6. \A t \in tails' : TailInv(t)'
    BY <1>2, <1>3, <2>1, Zenon DEF TailInv, Finished
  <2> QED BY <1>1, <1>4, <2>3, <2>4, <2>5, <2>6 DEF Inv
<1>7. CASE ApiRemove
  <2>1. api' = NoPod /\ lastUID' = lastUID
    BY <1>7 DEF ApiRemove
  <2>2. api'.uid = 0 /\ api'.vmid = 0 /\ api'.life = "" /\ api'.mark = ""
    BY <2>1, Zenon DEF NoPod
  <2>3. ~Booted'
    BY <1>1, <1>2, <2>2, TailFields, Zenon DEF Booted, Touched
  <2>4. Order' /\ Owner' /\ Live'
    BY <1>2, <1>3, <2>1, <2>2, <2>3, Zenon DEF Order, Owner, Live, Wanted
  <2>5. Listed'
    <3>1. boot.pc = "stale" \/ boot.pc = "adopt" => Truthful(boot.pod)'
      BY <1>2, <1>3, Zenon DEF Listed, Truthful, Touched, Finished
    <3>2. boot.pod.uid = 0 => boot.pod.vmid = 0 /\ boot.pod.life = "" /\ boot.pod.mark = ""
      <4>1. NoPod.vmid = 0 /\ NoPod.life = "" /\ NoPod.mark = ""
        BY DEF NoPod
      <4> QED BY <1>3, <4>1, Zenon DEF Order
    <3> QED BY <1>2, <1>3, <2>2, <2>3, <3>1, <3>2, Zenon DEF Listed, Touched
  <2>6. Truthful(api)'
    BY <2>2, Zenon DEF Truthful, Touched
  <2>7. \A t \in tails' : TailInv(t)'
    BY <1>1, <1>2, <1>3, <2>2, TailFields, Zenon DEF TailInv, Finished
  <2> QED BY <1>1, <1>4, <2>4, <2>5, <2>6, <2>7 DEF Inv
<1> QED BY <1>5, <1>6, <1>7

\* The subprocess of a clone never undoes what is known of its VM.
LEMMA InvClone ==
    ASSUME Inv, CloneAdvances
    PROVE  Inv'
<1> USE DEF setup, cluster, host, tables, watcher, startup
<1>1. Base /\ Base' /\ TypeOK
  BY BaseOfEnvironment DEF Inv, Base, Environment
<1>2. UNCHANGED <<kind, policy, api, lastUID, lastVM, pods, life, mark, bound, byName, resumed, busy,
                  watched, abandoned, worker, tails, boot, restarts>>
  BY DEF CloneAdvances
<1>3. Order /\ Owner /\ Live /\ Listed /\ ReadyIsBound /\ FixupBeforeReady /\ Truthful(api)
        /\ \A t \in tails : TailInv(t)
  BY DEF Inv
<1>4. /\ vm'.id = vm.id /\ vm'.fixed = vm.fixed /\ vm'.sac = vm.sac /\ vm'.state # "creating"
      /\ vm.id # 0
  <2>1. vm.owned /\ vm.id # 0
    BY <1>1 DEF CloneAdvances, Base, Working
  <2>2. CASE kind = "boot" /\ vm.state = "creating"
    BY <1>1, <2>1, <2>2, Zenon DEF CloneAdvances, TypeOK, VMs
  <2>3. CASE ~(kind = "boot" /\ vm.state = "creating")
    BY <1>1, <2>1, <2>3, Zenon DEF CloneAdvances, TypeOK, VMs
  <2> QED BY <2>2, <2>3
<1>5. Booted' <=> Booted
  BY <1>2 DEF Booted, Touched
<1>6. Finished' <=> Finished
  BY <1>2, <1>4, Zenon DEF Finished
<1>7. Order' /\ Owner' /\ Live'
  BY <1>2, <1>3, <1>4, <1>5, Zenon DEF Order, Owner, Live, Wanted
<1>8. Listed'
  BY <1>2, <1>3, <1>4, <1>5, <1>6, Zenon DEF Listed, Touched, Truthful
<1>9. Truthful(api)'
  BY <1>2, <1>3, <1>4, <1>6, Zenon DEF Truthful, Touched
<1>10. \A t \in tails' : TailInv(t)'
  BY <1>2, <1>3, <1>4, <1>6, Zenon DEF TailInv
<1>11. ReadyIsBound' /\ FixupBeforeReady'
  BY <1>2, <1>3, <1>4 DEF ReadyIsBound, FixupBeforeReady
<1> QED BY <1>1, <1>7, <1>8, <1>9, <1>10, <1>11 DEF Inv

\* The status reconciler publishes a Ready that was earned.
LEMMA InvRepublish ==
    ASSUME Inv, RepublishLife
    PROVE  Inv'
<1> USE DEF setup, cluster, host, tables, watcher, startup
<1>0. TypeOK /\ TypeOK'
  BY TypesOfNext DEF Inv, Base, Next
<1>1. Base /\ Order /\ Owner /\ Live /\ Listed /\ ReadyIsBound /\ FixupBeforeReady /\ Truthful(api)
        /\ \A t \in tails : TailInv(t)
  BY DEF Inv
<1>2. UNCHANGED <<kind, policy, vm, lastUID, lastVM, pods, life, mark, bound, byName, resumed, busy,
                  watched, abandoned, worker, tails, boot, restarts>>
  BY DEF RepublishLife
<1>3. /\ api'.uid = api.uid /\ api'.vmid = api.vmid /\ api'.mark = api.mark
      /\ api'.term = api.term /\ api'.life = life /\ api.uid = pods /\ pods # 0
  BY <1>0 DEF RepublishLife, TypeOK, Pods
<1>4. boot.pc = "up"
  BY <1>1, <1>3, Zenon DEF Base, Reconciling
<1>5. Base'
  BY <1>0, <1>1, <1>2, <1>3, Zenon
     DEF Base, Credit, Spare, Wanted, Working, Reconciling, VMIsKnown
<1>6. life = "ready" => bound # 0
  BY <1>1, <1>3, Zenon DEF ReadyIsBound
<1>7. life = "ready" /\ vm.id # 0 => vm.id = bound /\ worker.pc # "forget" /\ worker.pc \notin CreatePCs
  BY <1>1, <1>6, Zenon DEF Base, Working
<1>8. life = "ready" => worker.pc \notin CreatePCs /\ ~busy
  BY <1>1, <1>6, Zenon DEF Base, Working, Reconciling
<1>9. life = "ready" /\ Wanted => vm.id = bound /\ vm.id # 0
  <2>1. worker.pc = "forget" => pods \in {0, worker.uid}
    BY <1>1, Zenon DEF Owner
  <2>2. worker.pc = "forget" => ~Wanted
    BY <1>1, <1>3, <2>1, Zenon DEF Owner, Wanted
  <2> QED BY <1>1, <1>6, <2>2, Zenon DEF Base, Working
<1>10. Booted' => Booted \/ life = "ready"
  BY <1>2, <1>3, Zenon DEF Booted, Touched
<1>11. life = "ready" /\ vm.id # 0 => vm.state # "creating" /\ (kind # "boot" => Finished)
  BY <1>1, <1>3, <1>7, Zenon DEF Owner, FixupBeforeReady, Finished
<1>12. Order'
  BY <1>1, <1>2, <1>3, Zenon DEF Order
<1>13. Owner'
  <2>1. worker.pc = "dispatch" => api.uid = worker.uid
    BY <1>1, <1>3, Zenon DEF Base, Working
  <2>2. worker.pc \in CreatePCs => ~Booted'
    BY <1>1, <1>8, <1>10, Zenon DEF Owner
  <2> QED BY <1>1, <1>2, <1>3, <2>1, <2>2, Zenon DEF Owner
<1>14. Live'
  BY <1>1, <1>2, <1>3, <1>9, <1>10, Zenon DEF Live, Wanted
<1>15. Listed'
  BY <1>1, <1>2, <1>4, <1>8, <1>10, Zenon DEF Listed
<1>16. Truthful(api)'
  BY <1>1, <1>2, <1>3, <1>11, Zenon DEF Truthful, Touched, Finished
<1>17. \A t \in tails' : TailInv(t)'
  BY <1>1, <1>2, <1>3, Zenon DEF TailInv, Finished
<1>18. ReadyIsBound' /\ FixupBeforeReady'
  BY <1>1, <1>2, Zenon DEF ReadyIsBound, FixupBeforeReady
<1> QED BY <1>5, <1>12, <1>13, <1>14, <1>15, <1>16, <1>17, <1>18, Zenon DEF Inv

\* What a step of the worker that leaves pod, VM and tails alone has to keep.
LEMMA InvQuietWorker ==
    ASSUME Inv, Base', boot.pc = "up",
           UNCHANGED <<kind, api, lastUID, vm, lastVM, life, mark, bound, tails, boot, busy>>,
           pods' = pods, byName' \in {byName, 0},
           worker'.uid \in Nat /\ worker'.uid <= lastUID,
           Owner'
    PROVE  Inv'
<1>1. Base /\ Order /\ Live /\ Listed /\ ReadyIsBound /\ FixupBeforeReady /\ Truthful(api)
        /\ \A t \in tails : TailInv(t)
  BY DEF Inv
<1>2. 0 <= lastVM
  BY <1>1, Bounds DEF Base
<1>3. Order'
  BY <1>1, <1>2, Zenon DEF Order
<1>4. (Booted' <=> Booted) /\ (Truthful(api)' <=> Truthful(api))
  BY Zenon DEF Booted, Touched, Truthful, Finished
<1>5. Live' /\ Listed'
  BY <1>1, <1>4, Zenon DEF Live, Wanted, Listed
<1>6. \A t \in tails' : TailInv(t)'
  BY <1>1 DEF TailInv, Finished
<1>7. ReadyIsBound' /\ FixupBeforeReady'
  BY <1>1, Zenon DEF ReadyIsBound, FixupBeforeReady
<1> QED BY <1>1, <1>3, <1>4, <1>5, <1>6, <1>7, Zenon DEF Inv

LEMMA InvAdopt ==
    ASSUME Inv, AwaitBusyCreate \/ AdoptableVM \/ BringUpFails \/ BroughtUp
    PROVE  Inv'
<1> USE DEF setup, cluster, host, tables, watcher, startup
<1>1. Base /\ Base' /\ TypeOK /\ TypeOK'
  BY BaseOfCreate DEF Inv, Base
<1>2. UNCHANGED <<kind, api, lastUID, vm, lastVM, pods, life, mark, bound, tails, boot, busy>>
  BY Zenon DEF AwaitBusyCreate, AdoptableVM, BringUpFails, BroughtUp
<1>3. /\ worker.pc \in CreatePCs /\ worker'.uid = worker.uid /\ byName' \in {byName, 0}
      /\ \/ worker'.pc \in {"adopt", "clone", "fail"}
         \/ worker'.pc = "bind" /\ vm.id = byName /\ byName # 0
         \/ worker'.pc = "bind" /\ worker.pc = "cloning" /\ ~vm.owned
  <2>1. CASE AwaitBusyCreate
    BY <1>1, <2>1, WorkerMoves DEF AwaitBusyCreate, CreatePCs
  <2>2. CASE AdoptableVM
    <3>1. CASE worker' = [worker EXCEPT !.pc = "bind", !.id = byName] /\ byName # 0
                 /\ There(byName) /\ byName' = byName
      <4>1. worker'.pc = "bind" /\ worker'.uid = worker.uid
        BY <1>1, <3>1 DEF TypeOK, WorkerRec
      <4>2. worker.pc = "adopt" /\ vm.id = byName
        BY <2>2, <3>1 DEF AdoptableVM, There
      <4>3. worker.pc \in CreatePCs
        BY <4>2 DEF CreatePCs
      <4>4. byName' = byName /\ byName # 0
        BY <3>1
      <4> QED BY <4>1, <4>2, <4>3, <4>4
    <3>2. CASE byName' = 0 /\ Goto("clone")
      BY <1>1, <2>2, <3>2, WorkerMoves, Zenon DEF AdoptableVM, CreatePCs
    <3>3. CASE byName' = byName /\ Goto("fail")
      BY <1>1, <2>2, <3>3, WorkerMoves, Zenon DEF AdoptableVM, CreatePCs
    <3> QED BY <2>2, <3>1, <3>2, <3>3, Zenon DEF AdoptableVM
  <2>3. CASE BringUpFails
    BY <1>1, <2>3, WorkerMoves, Zenon DEF BringUpFails, CreatePCs
  <2>4. CASE BroughtUp
    BY <1>1, <2>4, WorkerMoves DEF BroughtUp, CreatePCs
  <2> QED BY <2>1, <2>2, <2>3, <2>4, Zenon
<1>4. Owner /\ Order
  BY Zenon DEF Inv
<1>5. ~Booted /\ ~Booted'
  BY <1>2, <1>3, <1>4, Zenon DEF Owner, Booted, Touched
<1>6. Owner'
  BY <1>2, <1>3, <1>4, <1>5, Zenon DEF Owner, CreatePCs
<1>7. worker'.uid \in Nat /\ worker'.uid <= lastUID
  BY <1>1, <1>3, <1>4, Ranges DEF Order, TypeOK, WorkerRec
<1>8. boot.pc = "up"
  BY <1>1, <1>3, Zenon DEF Base, Reconciling, CreatePCs
<1> QED BY <1>1, <1>2, <1>3, <1>6, <1>7, <1>8, InvQuietWorker, Zenon

\* A pod that is not tracked has had no VM.
LEMMA InvCreatePod ==
    ASSUME Inv, CreatePod
    PROVE  Inv'
<1> USE DEF setup, cluster, host, tables, watcher, startup
<1>1. Base /\ Base' /\ TypeOK
  BY BaseOfCreate DEF Inv, Base
<1>2. Order /\ Owner /\ Live /\ Listed /\ ReadyIsBound /\ FixupBeforeReady /\ Truthful(api)
        /\ \A t \in tails : TailInv(t)
  BY DEF Inv
<1>3. /\ boot.pc = "up" /\ worker.pc = "idle" /\ api.uid # 0 /\ api.uid # pods /\ ~api.term
      /\ pods' = api.uid /\ bound' = 0 /\ byName' = IF bound # 0 THEN bound ELSE byName
      /\ mark' = api.mark /\ life' = "creating"
      /\ UNCHANGED <<kind, lastUID, vm, lastVM, tails, boot, busy>>
  BY Zenon DEF CreatePod
<1>4. /\ api'.uid = api.uid /\ api'.term = api.term /\ api'.vmid = api.vmid /\ api'.mark = api.mark
      /\ api'.life \in {api.life, "creating"}
  <2>1. Patch(api.uid, "life", "creating") /\ "creating" \in LifeStates
    BY DEF CreatePod, LifeStates
  <2> QED BY <1>1, <2>1, PatchLife, Zenon DEF TypeOK
<1>5. worker' = [pc |-> "await", uid |-> api.uid, id |-> 0, fresh |-> FALSE]
  BY Zenon DEF CreatePod, Idle
<1>6. ~Booted
  BY <1>2, <1>3 DEF Live, Wanted
<1>7. ~Booted' /\ ~Touched(api)'
  BY <1>3, <1>4, <1>6, Zenon DEF Booted, Touched
<1>8. bound # 0 => vm.id = bound
  BY <1>1, <1>3 DEF Base, Working
<1>9. Order'
  <2>1. api.uid <= lastUID /\ 0 <= lastUID
    BY <1>1, <1>2, Ordered, Zenon
  <2> QED BY <1>2, <1>3, <1>4, <1>5, <1>8, <2>1 DEF Order
<1>10. Owner'
  <2>1. mark' = "" /\ \A t \in tails : t.uid # api.uid
    BY <1>3, <1>6, Zenon DEF Booted, Touched
  <2> QED BY <1>2, <1>3, <1>5, <1>7, <1>8, <2>1, Zenon DEF Owner, CreatePCs
<1>11. Live' /\ Listed'
  BY <1>2, <1>3, <1>7, Zenon DEF Live, Listed
<1>12. Truthful(api)'
  BY <1>7, Zenon DEF Truthful, Touched
<1>13. \A t \in tails' : TailInv(t)'
  BY <1>2, <1>3, <1>4, Zenon DEF TailInv, Finished
<1>14. ReadyIsBound' /\ FixupBeforeReady'
  BY <1>3, Zenon DEF ReadyIsBound, FixupBeforeReady
<1> QED BY <1>1, <1>9, <1>10, <1>11, <1>12, <1>13, <1>14, Zenon DEF Inv

\* The placeholder of a new VM has an ID that nothing names yet.
LEMMA InvBringUpVM ==
    ASSUME Inv, BringUpVM
    PROVE  Inv'
<1> USE DEF setup, cluster, host, tables, watcher, startup
<1>1. Base /\ Base' /\ TypeOK
  BY BaseOfCreate DEF Inv, Base
<1>2. Order /\ Owner /\ Live /\ Listed /\ ReadyIsBound /\ FixupBeforeReady /\ Truthful(api)
        /\ \A t \in tails : TailInv(t)
  BY DEF Inv
<1>3. /\ worker'.pc = "cloning" /\ worker'.uid = worker.uid /\ worker'.id = lastVM + 1
      /\ worker.pc = "clone" /\ lastVM' = lastVM + 1
      /\ UNCHANGED <<kind, api, lastUID, pods, life, mark, bound, byName, tails, boot, busy>>
  BY <1>1 DEF BringUpVM, TypeOK, WorkerRec
<1>4. vm' = [id |-> lastVM + 1, state |-> "creating", owned |-> TRUE, fixed |-> FALSE, sac |-> FALSE]
  BY Zenon DEF BringUpVM, NoVM
<1>5. boot.pc = "up" /\ ~busy /\ bound = 0
  BY <1>1, <1>3 DEF Base, Reconciling, Working, CreatePCs
<1>6. ~Booted /\ ~Booted'
  BY <1>2, <1>3, Zenon DEF Owner, CreatePCs, Booted, Touched
<1>7. /\ lastVM + 1 # 0 /\ byName # lastVM + 1 /\ byName <= lastVM + 1
      /\ \A t \in tails : t.id # lastVM + 1 /\ t.id <= lastVM + 1
  <2>1. byName \in Nat /\ lastVM \in Nat /\ \A t \in tails : t.id \in Nat
    BY <1>1, Ranges, TailFields, Bounds DEF TypeOK
  <2>2. byName <= lastVM /\ \A t \in tails : t.id <= lastVM
    BY <1>2 DEF Order
  <2> QED BY <2>1, <2>2
<1>8. lastVM + 1 <= lastVM + 1
  BY <1>1, Bounds
<1>9. Order'
  BY <1>2, <1>3, <1>4, <1>7, <1>8, Zenon DEF Order
<1>10. Owner'
  BY <1>2, <1>3, <1>4, <1>5, <1>6, <1>7, Zenon DEF Owner, CreatePCs
<1>11. Live' /\ Listed'
  BY <1>3, <1>5, <1>6, Zenon DEF Live, Listed
<1>12. Truthful(api)'
  BY <1>6, Zenon DEF Truthful, Booted, Touched
<1>13. \A t \in tails' : TailInv(t)'
  BY <1>3, <1>4, <1>6, <1>7, Zenon DEF TailInv, Booted
<1>14. ReadyIsBound' /\ FixupBeforeReady'
  BY <1>2, <1>3, <1>4, <1>5, <1>7, Zenon DEF ReadyIsBound, FixupBeforeReady
<1> QED BY <1>1, <1>9, <1>10, <1>11, <1>12, <1>13, <1>14 DEF Inv

\* The VM is bound to a pod that had none, or the pod has been replaced.
LEMMA InvApplyRuntime ==
    ASSUME Inv, ApplyRuntime
    PROVE  Inv'
<1> USE DEF setup, cluster, host, tables, watcher, startup
<1>1. Base /\ Base' /\ TypeOK
  BY BaseOfCreate, Zenon DEF Inv, Base
<1>2. Order /\ Owner /\ Live /\ Listed /\ ReadyIsBound /\ FixupBeforeReady /\ Truthful(api)
        /\ \A t \in tails : TailInv(t)
  BY DEF Inv
<1>3. /\ worker.pc = "bind" /\ byName' = worker.id
      /\ UNCHANGED <<kind, lastUID, vm, lastVM, tails, boot, busy>>
      /\ \/ /\ worker'.pc = "dispatch" /\ worker'.uid = worker.uid /\ bound' = worker.id
            /\ UNCHANGED <<pods, life, mark>>
            /\ Patch(worker.uid, "vmid", worker.id)
         \/ /\ worker'.pc = "idle" /\ worker'.uid = 0 /\ bound' = 0 /\ pods' = 0 /\ life' = ""
            /\ api' = api
  <2>1. CASE Goto("dispatch") /\ bound' = worker.id /\ UNCHANGED <<pods, life, mark>>
               /\ Patch(worker.uid, "vmid", worker.id)
    BY <1>1, <2>1, WorkerMoves, Zenon DEF ApplyRuntime
  <2>2. CASE worker' = Idle /\ bound' = 0 /\ pods' = 0 /\ life' = "" /\ api' = api
    BY <2>2, Zenon DEF ApplyRuntime, Idle
  <2> QED BY <2>1, <2>2, Zenon DEF ApplyRuntime
<1>4. /\ boot.pc = "up" /\ ~busy /\ bound = 0 /\ worker.uid # 0 /\ pods = worker.uid
      /\ worker.id # 0 /\ vm.id = worker.id
  BY <1>1, <1>3, Zenon DEF Base, Reconciling, Working, CreatePCs
<1>5. /\ ~Booted /\ vm.state # "creating" /\ mark = "" /\ life # "ready"
      /\ \A t \in tails : t.uid # worker.uid
  BY <1>2, <1>3, <1>4, Zenon DEF Owner, CreatePCs, ReadyIsBound
<1>6. /\ api'.uid = api.uid /\ api'.term = api.term /\ api'.life = api.life /\ api'.mark = api.mark
      /\ api'.vmid = 0 \/ (api.uid = worker.uid /\ api'.vmid = worker.id /\ pods' = pods /\ bound' = worker.id)
      /\ api'.uid = 0 => api' = api
  <2>1. worker.id \in 0..MaxVM
    BY <1>1, Zenon DEF TypeOK, WorkerRec
  <2>2. api.vmid = 0
    BY <1>5, Zenon DEF Booted, Touched
  <2> QED BY <1>1, <1>3, <1>4, <2>1, <2>2, PatchVMID, Zenon DEF TypeOK
<1>7. Booted' => api.uid = worker.uid /\ pods' = pods /\ bound' = worker.id /\ worker'.pc # "idle"
  <2>1. Booted' => api'.vmid # 0
    BY <1>3, <1>5, <1>6, Zenon DEF Booted, Touched
  <2>2. bound' = worker.id => worker'.pc # "idle"
    BY <1>3, <1>4, Zenon
  <2> QED BY <1>6, <2>1, <2>2, Zenon
<1>8. Order'
  <2>1. vm.id <= lastVM /\ 0 <= lastUID
    BY <1>1, <1>2, Bounds DEF Order
  <2> QED BY <1>2, <1>3, <1>4, <1>6, <2>1, Zenon DEF Order
<1>9. Owner'
  BY <1>3, <1>4, <1>5, <1>6, <1>7, Zenon DEF Owner, CreatePCs
<1>10. Live' /\ Listed'
  BY <1>3, <1>4, <1>6, <1>7, Zenon DEF Live, Listed
<1>11. Truthful(api)'
  BY <1>3, <1>4, <1>5, <1>6, Zenon DEF Truthful, Booted, Touched
<1>12. \A t \in tails' : TailInv(t)'
  BY <1>2, <1>3, <1>6, Zenon DEF TailInv, Finished
<1>13. ReadyIsBound' /\ FixupBeforeReady'
  BY <1>3, <1>5, Zenon DEF ReadyIsBound, FixupBeforeReady
<1> QED BY <1>1, <1>8, <1>9, <1>10, <1>11, <1>12, <1>13 DEF Inv

LEMMA InvFailCreate ==
    ASSUME Inv, FailCreate
    PROVE  Inv'
<1> USE DEF setup, cluster, host, tables, watcher, startup
<1>1. Base /\ Base' /\ TypeOK
  BY BaseOfCreate, Zenon DEF Inv, Base
<1>2. Order /\ Owner /\ Live /\ Listed /\ ReadyIsBound /\ FixupBeforeReady /\ Truthful(api)
        /\ \A t \in tails : TailInv(t)
  BY DEF Inv
<1>3. /\ worker.pc = "fail" /\ worker'.pc = "idle" /\ worker'.uid = 0 /\ pods' = 0
      /\ UNCHANGED <<kind, lastUID, vm, lastVM, bound, byName, tails, boot, busy>>
  BY Zenon DEF FailCreate, Idle
<1>4. /\ api'.uid = api.uid /\ api'.term = api.term /\ api'.vmid = api.vmid /\ api'.mark = api.mark
      /\ api'.life = api.life \/ (api.uid = worker.uid /\ api'.life = "failed")
      /\ api.uid # worker.uid => api' = api
  <2>1. SetLife(worker.uid, "failed") /\ "failed" \in LifeStates
    BY Zenon DEF FailCreate, LifeStates
  <2>2. api.uid # worker.uid => api' = api
    BY <2>1, Zenon DEF SetLife, Patch
  <2> QED BY <1>1, <2>1, <2>2, LifeIsSet, Zenon
<1>5. boot.pc = "up" /\ ~busy /\ worker.uid # 0 /\ bound = 0
  BY <1>1, <1>3, Zenon DEF Base, Reconciling, Working, CreatePCs
<1>6. ~Booted /\ ~Booted'
  BY <1>2, <1>3, <1>4, Zenon DEF Owner, CreatePCs, Booted, Touched
<1>7. Order'
  <2>1. 0 <= lastUID
    BY <1>1, Bounds
  <2> QED BY <1>2, <1>3, <1>4, <1>5, <2>1, Zenon DEF Order
<1>8. Owner' /\ Live' /\ Listed'
  BY <1>2, <1>3, <1>5, <1>6, Zenon DEF Owner, CreatePCs, Live, Listed
<1>9. Truthful(api)'
  BY <1>6, Zenon DEF Truthful, Booted, Touched
<1>10. \A t \in tails' : TailInv(t)'
  BY <1>2, <1>3, <1>4, Zenon DEF TailInv, Finished
<1>11. ReadyIsBound' /\ FixupBeforeReady'
  BY <1>3, Zenon DEF ReadyIsBound, FixupBeforeReady
<1> QED BY <1>1, <1>7, <1>8, <1>9, <1>10, <1>11, Zenon DEF Inv

\* The tail of a boot starts where nothing is owed for granted: an adopted VM's
\* marker is empty, as its pod has had no VM.
LEMMA InvDispatch ==
    ASSUME Inv, Dispatch
    PROVE  Inv'
<1> USE DEF setup, cluster, host, tables, watcher, startup
<1>1. Base /\ Base' /\ TypeOK
  BY BaseOfCreate DEF Inv, Base
<1>2. Order /\ Owner /\ Live /\ Listed /\ ReadyIsBound /\ FixupBeforeReady /\ Truthful(api)
        /\ \A t \in tails : TailInv(t)
  BY DEF Inv
<1>3. /\ worker.pc = "dispatch" /\ worker'.pc = "idle" /\ worker'.uid = 0
      /\ UNCHANGED <<kind, lastUID, vm, lastVM, pods, bound, byName, boot, busy>>
  BY Zenon DEF Dispatch, Idle
<1>4. /\ boot.pc = "up" /\ ~busy /\ worker.uid # 0 /\ pods = worker.uid /\ worker.id # 0
      /\ bound = worker.id /\ vm.id = worker.id
  BY <1>1, <1>3, Zenon DEF Base, Reconciling, Working, CreatePCs
<1>5. mark = "" /\ vm.state # "creating" /\ (Booted => api.uid = worker.uid)
  BY <1>2, <1>3, Zenon DEF Owner, CreatePCs
<1>6. OwedOpFor([NoPod EXCEPT !.life = "creating", !.mark = mark])
        \in (IF kind = "boot" THEN {"ip"} ELSE {"classify", "mark"})
  <2> DEFINE q == [NoPod EXCEPT !.life = "creating", !.mark = mark]
  <2>1. ~NoPod.term
    BY DEF NoPod
  <2>2. ~q.term /\ q.life = "creating" /\ q.mark = ""
    BY <1>5, <2>1, ConstantsTyped, Zenon DEF Pods
  <2> HIDE DEF q
  <2>3. OwedOpFor(q) \in (IF kind = "boot" THEN {"ip"} ELSE {"classify", "mark"})
    BY <1>1, <2>2, Zenon DEF OwedOpFor, TypeOK, Kinds
  <2> QED BY <2>3, Zenon DEF q
<1>7. /\ life' = life
      /\ \A t \in tails' : t \in tails \/
           (t.uid = worker.uid /\ t.id = worker.id
              /\ t.pc \in IF kind = "boot" THEN {"ip"} ELSE {"classify", "mark"})
      /\ UNCHANGED api \/ (kind = "boot" /\ Patch(worker.uid, "mark", "done"))
  <2> DEFINE op == OwedOpFor([NoPod EXCEPT !.life = "creating", !.mark = mark])
  <2>1. op # "none"
    BY <1>6
  <2> HIDE DEF op
  <2>2. \/ /\ op # "none" /\ Resume(worker.uid, worker.id, op) /\ UNCHANGED <<api, life>>
        \/ /\ tails' = tails \cup {[pc |-> IF kind = "boot" THEN "ip" ELSE "mark",
                                    uid |-> worker.uid, id |-> worker.id, claim |-> FALSE]}
           /\ life' = life
           /\ UNCHANGED api \/ (kind = "boot" /\ Patch(worker.uid, "mark", "done"))
    BY <2>1 DEF Dispatch, op
  <2>3. CASE Resume(worker.uid, worker.id, op) /\ UNCHANGED <<api, life>>
    BY <1>6, <2>3 DEF Resume, op
  <2>4. CASE /\ tails' = tails \cup {[pc |-> IF kind = "boot" THEN "ip" ELSE "mark",
                                      uid |-> worker.uid, id |-> worker.id, claim |-> FALSE]}
             /\ life' = life
             /\ UNCHANGED api \/ (kind = "boot" /\ Patch(worker.uid, "mark", "done"))
    BY <2>4
  <2> QED BY <2>2, <2>3, <2>4
<1>8. /\ api'.uid = api.uid /\ api'.term = api.term /\ api'.vmid = api.vmid /\ api'.life = api.life
      /\ api'.mark = api.mark \/ (kind = "boot" /\ api.uid = worker.uid)
      /\ api.uid # worker.uid => api' = api
  <2>1. "done" \in MarkStates
    BY Zenon DEF MarkStates
  <2> QED BY <1>1, <1>7, <2>1, PatchMark, Zenon DEF TypeOK
<1>9. Booted' => api.uid = worker.uid
  BY <1>5, <1>7, <1>8, Zenon DEF Booted, Touched
<1>10. Order'
  <2>1. worker.uid <= lastUID /\ worker.id <= lastVM /\ 0 <= lastUID
    BY <1>1, <1>2, <1>4, Ordered, Zenon
  <2> QED BY <1>2, <1>3, <1>4, <1>7, <1>8, <2>1, Zenon DEF Order
<1>11. Owner'
  BY <1>2, <1>3, <1>5, Zenon DEF Owner, CreatePCs
<1>12. Live' /\ Listed'
  BY <1>3, <1>4, <1>8, <1>9, Zenon DEF Live, Listed
<1>13. Truthful(api)'
  BY <1>2, <1>3, <1>5, <1>8, Zenon DEF Truthful, Touched, Finished
<1>14. \A t \in tails' : TailInv(t)'
  <2>1. SUFFICES ASSUME NEW t \in tails' PROVE TailInv(t)'
    BY Zenon
  <2>2. CASE t \in tails
    BY <1>2, <1>3, <1>8, <2>2, Zenon DEF TailInv, Finished
  <2>3. CASE /\ t.uid = worker.uid /\ t.id = worker.id
             /\ t.pc \in IF kind = "boot" THEN {"ip"} ELSE {"classify", "mark"}
    BY <1>3, <1>4, <1>5, <2>3, Zenon DEF TailInv
  <2> QED BY <1>7, <2>2, <2>3, Zenon
<1>15. ReadyIsBound' /\ FixupBeforeReady'
  BY <1>2, <1>3, <1>7, Zenon DEF ReadyIsBound, FixupBeforeReady
<1> QED BY <1>1, <1>10, <1>11, <1>12, <1>13, <1>14, <1>15 DEF Inv

\* A pod whose VM a delete removes is not wanted.
LEMMA InvDelete ==
    ASSUME Inv,
           DeletePod \/ DeleteRemovesVM \/ DeleteRemoveFails \/ ForgetPod \/ DeleteEnds
    PROVE  Inv'
<1> USE DEF setup, cluster, host, tables, watcher, startup
<1>1. Base /\ Base' /\ TypeOK /\ TypeOK'
  BY BaseOfDelete DEF Inv, Base
<1>2. Order /\ Owner /\ Live /\ Listed /\ ReadyIsBound /\ FixupBeforeReady /\ Truthful(api)
        /\ \A t \in tails : TailInv(t)
  BY Zenon DEF Inv
<1>3. boot.pc = "up" /\ UNCHANGED <<kind, lastUID, lastVM, boot, busy, tails>>
  <2>1. worker.pc # "idle" => boot.pc = "up"
    BY <1>1, Zenon DEF Base, Reconciling
  <2> QED BY <2>1, Zenon
             DEF DeletePod, DeleteRemovesVM, DeleteRemoveFails, ForgetPod, DeleteEnds
<1>4. Idle.pc = "idle" /\ Idle.uid = 0 /\ 0 \in Nat /\ 0 <= lastUID
  BY <1>1, Bounds DEF Idle
<1>5. CASE DeletePod
  <2>1. PICK u \in UID :
          /\ (u = api.uid /\ api.term) \/ (u = pods /\ api.uid = 0)
          /\ worker' = [Idle EXCEPT !.uid = u, !.pc = IF Superseded(u) THEN "gone"
                                                   ELSE IF bound # 0 THEN "rm" ELSE "forget"]
    BY <1>5, Zenon DEF DeletePod
  <2>2. /\ worker'.pc = IF Superseded(u) THEN "gone" ELSE IF bound # 0 THEN "rm" ELSE "forget"
        /\ worker'.uid = u
    BY <2>1, Zenon DEF Idle
  <2>3. UNCHANGED <<api, vm, pods, life, mark, bound, byName>>
    BY <1>5, Zenon DEF DeletePod
  <2>4. Owner'
    <3>1. worker'.pc \in {"rm", "forget", "gone"} /\ (worker'.pc # "gone" => pods \in {0, u})
      BY <2>2 DEF Superseded
    <3>2. api.uid = u => api.uid = 0 \/ api.term
      BY <2>1, Zenon
    <3> QED BY <1>2, <2>2, <2>3, <3>1, <3>2, Zenon DEF Owner, CreatePCs
  <2>5. u \in Nat /\ u <= lastUID
    BY <1>1, <1>2, <2>1, Ranges DEF Order, UID, TypeOK
  <2> QED BY <1>1, <1>3, <2>2, <2>3, <2>4, <2>5, InvQuietWorker, Zenon
<1>6. CASE DeleteRemoveFails
  <2>1. worker.pc = "rm" /\ worker' = Idle /\ UNCHANGED <<api, vm, pods, life, mark, bound, byName>>
    BY <1>6, Zenon DEF DeleteRemoveFails
  <2>2. Owner'
    BY <1>2, <1>4, <2>1, Zenon DEF Owner, CreatePCs
  <2> QED BY <1>1, <1>3, <1>4, <2>1, <2>2, InvQuietWorker, Zenon
<1>7. worker.pc \in {"rm", "forget"} => ~(Wanted /\ Booted)
  BY <1>2, <1>3, Zenon DEF Live, Owner, Wanted
<1>8. CASE DeleteRemovesVM
  <2>1. /\ worker.pc = "rm" /\ worker'.pc = "forget" /\ worker'.uid = worker.uid
        /\ UNCHANGED <<api, pods, life, mark, bound, byName>>
    BY <1>1, <1>8, WorkerMoves, Zenon DEF DeleteRemovesVM
  <2>2. vm' = NoVM /\ bound # 0
    BY <1>1, <1>8, <2>1, Zenon DEF DeleteRemovesVM, Base, Working
  <2>3. vm'.id = 0 /\ 0 <= lastVM
    BY <1>1, <2>2, Bounds DEF NoVM
  <2>4. Booted' <=> Booted
    BY <1>3, <2>1, Zenon DEF Booted, Touched
  <2>5. Order' /\ Owner' /\ Live' /\ Listed'
    BY <1>2, <1>3, <1>7, <2>1, <2>3, <2>4, Zenon
       DEF Order, Owner, CreatePCs, Live, Wanted, Listed
  <2>6. Truthful(api)' /\ \A t \in tails' : TailInv(t)'
    BY <1>1, <1>3, <2>3, TailFields, Zenon DEF Truthful, TailInv
  <2>7. ReadyIsBound' /\ FixupBeforeReady'
    BY <1>2, <2>1, <2>2, <2>3, Zenon DEF ReadyIsBound, FixupBeforeReady
  <2> QED BY <1>1, <2>5, <2>6, <2>7, Zenon DEF Inv
<1>9. CASE ForgetPod
  <2>1. /\ worker.pc = "forget" /\ worker'.pc = "gone" /\ worker'.uid = worker.uid
        /\ pods' = 0 /\ bound' = 0 /\ byName' \in {0, byName} /\ UNCHANGED <<api, vm>>
    BY <1>1, <1>9, WorkerMoves, Zenon DEF ForgetPod
  <2>2. Booted' <=> Booted
    BY <1>3, <2>1, Zenon DEF Booted, Touched
  <2>3. 0 <= lastVM
    BY <1>1, Bounds
  <2>4. Order'
    BY <1>2, <1>3, <1>4, <2>1, <2>3, Zenon DEF Order
  <2>5. Owner' /\ Live' /\ Listed'
    BY <1>2, <1>3, <1>7, <2>1, <2>2, Zenon DEF Owner, CreatePCs, Live, Wanted, Listed
  <2>6. Truthful(api)' /\ \A t \in tails' : TailInv(t)'
    BY <1>2, <1>3, <2>1, Zenon DEF Truthful, Touched, TailInv, Finished
  <2>7. ReadyIsBound' /\ FixupBeforeReady'
    BY <2>1, Zenon DEF ReadyIsBound, FixupBeforeReady
  <2> QED BY <1>1, <2>4, <2>5, <2>6, <2>7, Zenon DEF Inv
<1>10. CASE DeleteEnds
  <2>1. /\ worker.pc = "gone" /\ worker' = Idle
        /\ UNCHANGED <<vm, pods, life, mark, bound, byName>>
        /\ api' = api \/ api' = NoPod
    BY <1>10, Zenon DEF DeleteEnds
  <2>2. Owner'
    BY <1>2, <1>4, <2>1, Zenon DEF Owner, CreatePCs
  <2>3. CASE api' = api
    BY <1>1, <1>3, <1>4, <2>1, <2>2, <2>3, InvQuietWorker, Zenon
  <2>4. CASE api' = NoPod
    <3>1. api'.uid = 0 /\ api'.vmid = 0 /\ api'.life = "" /\ api'.mark = ""
      BY <2>4, Zenon DEF NoPod
    <3>2. ~Booted' /\ ~Touched(api)'
      BY <1>1, <1>3, <3>1, TailFields, Zenon DEF Booted, Touched
    <3>3. Order' /\ Live' /\ Listed'
      BY <1>2, <1>3, <1>4, <2>1, <2>4, <3>1, <3>2, Zenon DEF Order, Live, Listed
    <3>4. Truthful(api)'
      BY <3>1, Zenon DEF Truthful, Touched
    <3>5. \A t \in tails' : TailInv(t)'
      BY <1>1, <1>2, <1>3, <2>1, <3>1, TailFields, Zenon DEF TailInv, Finished
    <3>6. ReadyIsBound' /\ FixupBeforeReady'
      BY <1>2, <1>3, <2>1, Zenon DEF ReadyIsBound, FixupBeforeReady
    <3> QED BY <1>1, <2>2, <3>3, <3>4, <3>5, <3>6, Zenon DEF Inv
  <2> QED BY <2>1, <2>3, <2>4, Zenon
<1> QED BY <1>5, <1>6, <1>8, <1>9, <1>10, Zenon

\* What a tail does to the annotations, to the guest and to itself.
Advances(t, x) ==
    /\ x.uid = t.uid /\ x.id = t.id
    /\ x.pc \in {"done", "sac", "ip", "lease"} => t.pc \in {"done", "sac", "ip"} \/ vm'.fixed
    /\ x.pc \in {"ip", "lease"} =>
         \/ t.pc = "ip"
         \/ t.pc = "done" /\ kind # "windows"
         \/ t.pc = "sac" /\ vm'.sac

LEMMA TailAdvances ==
    ASSUME TypeOK, NEW t \in tails, NEW pc \in TailPCs, TailGoto(t, pc),
           pc \in {"done", "sac", "ip", "lease"} => t.pc \in {"done", "sac", "ip"} \/ vm'.fixed,
           pc \in {"ip", "lease"} =>
             \/ t.pc = "ip"
             \/ t.pc = "done" /\ kind # "windows"
             \/ t.pc = "sac" /\ vm'.sac
    PROVE  \A x \in tails' : x \in tails \/ Advances(t, x)
<1>1. SUFFICES ASSUME NEW x \in tails', x \notin tails PROVE Advances(t, x)
  BY Zenon
<1>2. x = [pc |-> pc, uid |-> t.uid, id |-> t.id, claim |-> t.claim]
  BY <1>1, TailMoves, Zenon
<1>3. x.pc = pc /\ x.uid = t.uid /\ x.id = t.id
  BY <1>2, Zenon
<1> QED BY <1>3, Zenon DEF Advances

TailEffect(t) ==
    /\ vm.fixed => vm'.fixed
    /\ vm.sac => vm'.sac
    /\ api' = api \/ api.uid = t.uid
    /\ mark' = mark \/ ~Superseded(t.uid)
    /\ \/ api'.mark \in {api.mark, "running", "failed"}
       \/ t.pc = "done" /\ api.uid = t.uid
    /\ \/ api'.life \in {api.life, "failed"}
       \/ t.pc = "lease" /\ api.uid = t.uid
    /\ life' \in {life, "failed"} \/ (t.pc = "lease" /\ bound = t.id /\ vm.state = "running")
    /\ \A x \in tails' : x \in tails \/ Advances(t, x)

LEMMA TailEffectOf ==
    ASSUME TypeOK, NEW t \in tails, Tail(t)
    PROVE  TailEffect(t)
<1> USE DEF setup, cluster, host, tables, watcher, startup
<1>1. CASE TailClassify(t) \/ TailIP(t)
  <2>1. UNCHANGED <<vm, api, mark, life>>
    BY <1>1, Zenon DEF TailClassify, TailIP
  <2>2. \A x \in tails' : x \in tails \/ Advances(t, x)
    <3>1. \/ tails' \subseteq tails
          \/ TailGoto(t, "mark") \/ TailGoto(t, "faillife")
          \/ t.pc = "ip" /\ TailGoto(t, "lease")
      BY <1>1, TailLeaves, Zenon DEF TailClassify, TailIP
    <3> QED BY <3>1, TailAdvances, Zenon DEF TailPCs
  <2> QED BY <2>1, <2>2, Zenon DEF TailEffect
<1>2. CASE TailMarks(t) \/ TailDone(t) \/ TailFailMark(t)
  <2>1. PICK s \in {"running", "done", "failed"} :
          /\ MarkPostCloneState(t.uid, s) /\ (s = "done" => t.pc = "done")
          /\ UNCHANGED <<vm, life>>
    BY <1>2, Zenon DEF TailMarks, TailDone, TailFailMark
  <2>2. \A x \in tails' : x \in tails \/ Advances(t, x)
    <3>1. \/ TailGoto(t, "exec") \/ TailGoto(t, "faillife")
          \/ t.pc = "done" /\ TailGoto(t, "sac")
          \/ t.pc = "done" /\ kind # "windows" /\ TailGoto(t, "ip")
      BY <1>2, Zenon DEF TailMarks, TailDone, TailFailMark
    <3> QED BY <3>1, TailAdvances, Zenon DEF TailPCs
  <2>3. /\ api'.life = api.life
        /\ Superseded(t.uid) => api' = api /\ mark' = mark
        /\ api'.mark = api.mark \/ (api.uid = t.uid /\ api'.mark = s)
    BY <2>1, MarkIsSet, Zenon DEF MarkStates
  <2>4. api' = api \/ api.uid = t.uid
    BY <2>1 DEF MarkPostCloneState, Patch
  <2> QED BY <2>1, <2>2, <2>3, <2>4, Zenon DEF TailEffect
<1>3. CASE TailExecs(t) \/ TailSAC(t)
  <2>1. /\ UNCHANGED <<api, mark, life>>
        /\ \/ UNCHANGED vm /\ TailGoto(t, "failmark")
           \/ vm' = [vm EXCEPT !.fixed = TRUE] /\ TailGoto(t, "done")
           \/ t.pc = "sac" /\ vm' = [vm EXCEPT !.sac = TRUE] /\ TailGoto(t, "ip")
    BY <1>3 DEF TailExecs, TailSAC
  <2>2. CASE UNCHANGED vm /\ TailGoto(t, "failmark")
    BY <2>1, <2>2, TailAdvances DEF TailPCs, TailEffect
  <2>3. CASE vm' = [vm EXCEPT !.fixed = TRUE] /\ TailGoto(t, "done")
    <3>1. vm'.fixed /\ vm'.sac = vm.sac
      BY <2>3 DEF TypeOK, VMs
    <3> QED BY <2>1, <2>3, <3>1, TailAdvances, Zenon DEF TailPCs, TailEffect
  <2>4. CASE t.pc = "sac" /\ vm' = [vm EXCEPT !.sac = TRUE] /\ TailGoto(t, "ip")
    <3>1. vm'.sac /\ vm'.fixed = vm.fixed
      BY <2>4, Zenon DEF TypeOK, VMs
    <3> QED BY <2>1, <2>4, <3>1, TailAdvances, Zenon DEF TailPCs, TailEffect
  <2> QED BY <2>1, <2>2, <2>3, <2>4, Zenon
<1>4. CASE TailLease(t) \/ TailFails(t)
  <2>1. UNCHANGED <<vm, mark>> /\ tails' \subseteq tails
    BY <1>4, TailLeaves, Zenon DEF TailLease, TailFails
  <2>2. \/ UNCHANGED <<api, life>>
        \/ SetLife(t.uid, "failed")
        \/ t.pc = "lease" /\ bound = t.id /\ vm.state = "running" /\ SetLife(t.uid, "ready")
    BY <1>4, Zenon DEF TailLease, TailFails
  <2>3. CASE UNCHANGED <<api, life>>
    BY <2>1, <2>3, Zenon DEF TailEffect
  <2>4. ASSUME NEW s \in {"ready", "failed"}, SetLife(t.uid, s)
        PROVE  /\ api' = api \/ api.uid = t.uid
               /\ api'.mark = api.mark
               /\ life' \in {life, s}
               /\ api'.life = api.life \/ (api.uid = t.uid /\ api'.life = s)
    <3>1. api' = api \/ api.uid = t.uid
      BY <2>4, Zenon DEF SetLife, Patch
    <3> QED BY <2>4, <3>1, LifeIsSet, Zenon DEF LifeStates
  <2>5. CASE SetLife(t.uid, "failed")
    BY <2>1, <2>4, <2>5, Zenon DEF TailEffect
  <2>6. CASE t.pc = "lease" /\ bound = t.id /\ vm.state = "running" /\ SetLife(t.uid, "ready")
    BY <2>1, <2>4, <2>6, Zenon DEF TailEffect
  <2> QED BY <2>2, <2>3, <2>5, <2>6, Zenon
<1> QED BY <1>1, <1>2, <1>3, <1>4, Zenon DEF Tail

\* A tail marks only the pod it boots, and Ready only a VM it has finished.
LEMMA InvTail ==
    ASSUME Inv, NEW t \in tails, Tail(t)
    PROVE  Inv'
<1>1. Base /\ Base' /\ TypeOK
  BY BaseOfTail DEF Inv, Base
<1>2. Order /\ Owner /\ Live /\ Listed /\ ReadyIsBound /\ FixupBeforeReady /\ Truthful(api)
        /\ \A x \in tails : TailInv(x)
  BY Zenon DEF Inv
<1>3. /\ UNCHANGED <<kind, policy, lastUID, lastVM, pods, bound, byName, busy, watched, abandoned,
                     worker, boot, restarts>>
      /\ api'.uid = api.uid /\ api'.term = api.term /\ api'.vmid = api.vmid
      /\ vm'.id = vm.id /\ vm'.state = vm.state /\ vm'.owned = vm.owned
  BY <1>1, TailShape, Zenon
<1>4. TailEffect(t)
  BY <1>1, TailEffectOf, Zenon
<1>5. boot.pc = "up" /\ ~busy
  BY <1>1, Zenon DEF Base, Reconciling
<1>6. \A x \in tails' : x \in tails \/ (x.uid = t.uid /\ x.id = t.id)
  BY <1>4, Zenon DEF TailEffect, Advances
<1>7. Booted' => Booted
  <2>1. api' = api \/ api.uid = t.uid
    BY <1>4, Zenon DEF TailEffect
  <2>2. CASE api.uid = t.uid
    BY <2>2, Zenon DEF Booted
  <2>3. CASE api' = api /\ api.uid # t.uid
    BY <1>6, <2>3, Zenon DEF Booted, Touched
  <2> QED BY <2>1, <2>2, <2>3, Zenon
<1>8. t.uid # 0 /\ t.id # 0
  BY <1>1, TailFields, Zenon
<1>9. Order'
  <2>1. api' = api \/ api.uid = t.uid
    BY <1>4 DEF TailEffect
  <2>2. api'.uid = 0 => api' = NoPod
    BY <1>2, <1>3, <1>8, <2>1, Zenon DEF Order
  <2> QED BY <1>2, <1>3, <1>6, <2>2, Zenon DEF Order
<1>10. Owner'
  <2>1. worker.pc \in CreatePCs \cup {"dispatch"} =>
          mark' = "" /\ \A x \in tails' : x.uid # worker.uid
    <3>1. SUFFICES ASSUME worker.pc \in CreatePCs \cup {"dispatch"}
                   PROVE  mark' = "" /\ \A x \in tails' : x.uid # worker.uid
      BY Zenon
    <3>2. mark = "" /\ \A x \in tails : x.uid # worker.uid
      BY <1>2, <3>1, Zenon DEF Owner
    <3>3. pods = worker.uid /\ worker.uid # 0
      BY <1>1, <3>1, Zenon DEF Base, Working
    <3>4. Superseded(t.uid)
      BY <3>2, <3>3, Zenon DEF Superseded
    <3> QED BY <1>4, <1>6, <3>2, <3>4, Zenon DEF TailEffect
  <2>2. worker.pc \in CreatePCs => ~Booted'
    BY <1>2, <1>7, Zenon DEF Owner
  <2> QED BY <1>2, <1>3, <1>7, <2>1, <2>2, Zenon DEF Owner
<1>11. Live' /\ Listed'
  BY <1>2, <1>3, <1>5, <1>7, Zenon DEF Live, Wanted, Listed
<1>12. TailInv(t) /\ (api.uid = t.uid => vm.id \in {0, t.id})
  BY <1>2, Zenon DEF TailInv
<1>13. (Finished => Finished') /\ (vm.fixed => vm'.fixed)
  BY <1>3, <1>4, Zenon DEF TailEffect, Finished
<1>14. Truthful(api)'
  <2>1. SUFFICES ASSUME vm.id # 0 PROVE Truthful(api)'
    BY <1>3, Zenon DEF Truthful
  <2>2. api.uid = t.uid => vm.id = t.id /\ vm.state # "creating"
    BY <1>12, <2>1, Zenon DEF TailInv
  <2>3. Touched(api)' => vm'.state # "creating"
    <3>1. CASE api.uid = t.uid
      BY <1>3, <2>2, <3>1, Zenon
    <3>2. CASE api' = api
      BY <1>2, <1>3, <2>1, <3>2, Zenon DEF Truthful, Touched
    <3> QED BY <1>4, <3>1, <3>2, Zenon DEF TailEffect
  <2>4. kind # "boot" /\ api'.mark = "done" => vm'.fixed
    <3>1. CASE api'.mark \in {api.mark, "running", "failed"}
      BY <1>2, <1>13, <2>1, <3>1, Zenon DEF Truthful
    <3>2. CASE t.pc = "done" /\ api.uid = t.uid
      BY <1>12, <1>13, <2>2, <3>2, Zenon DEF TailInv
    <3> QED BY <1>4, <3>1, <3>2, Zenon DEF TailEffect
  <2>5. kind # "boot" /\ api'.life = "ready" => Finished'
    <3>1. CASE api'.life \in {api.life, "failed"}
      BY <1>2, <1>13, <2>1, <3>1, Zenon DEF Truthful
    <3>2. CASE t.pc = "lease" /\ api.uid = t.uid
      BY <1>12, <1>13, <2>2, <3>2, Zenon DEF TailInv
    <3> QED BY <1>4, <3>1, <3>2, Zenon DEF TailEffect
  <2>6. api'.vmid \in {0, vm'.id}
    BY <1>2, <1>3, <2>1, Zenon DEF Truthful
  <2> QED BY <1>3, <2>3, <2>4, <2>5, <2>6, Zenon DEF Truthful
<1>15. \A x \in tails' : TailInv(x)'
  <2>1. SUFFICES ASSUME NEW x \in tails' PROVE TailInv(x)'
    BY Zenon
  <2>2. CASE x \in tails
    <3>1. TailInv(x)
      BY <1>2, <2>2, Zenon
    <3> QED BY <1>3, <1>13, <3>1, Zenon DEF TailInv
  <2>3. CASE Advances(t, x)
    <3>1. x.uid = api'.uid => vm'.id \in {0, x.id}
      BY <1>3, <1>12, <2>3, Zenon DEF Advances
    <3>2. ASSUME x.id = vm'.id
          PROVE  /\ vm'.state # "creating"
                 /\ kind # "boot" /\ x.pc \in {"done", "sac", "ip", "lease"} => vm'.fixed
      BY <1>3, <1>12, <1>13, <2>3, <3>2, Zenon DEF Advances, TailInv
    <3>3. ASSUME x.id = vm'.id, kind # "boot", x.pc \in {"ip", "lease"}
          PROVE  Finished'
      <4>1. vm'.fixed
        BY <3>2, <3>3, Zenon
      <4>2. kind = "windows" => vm'.sac
        BY <1>3, <1>4, <1>12, <2>3, <3>3, Zenon DEF Advances, TailInv, TailEffect, Finished
      <4> QED BY <1>3, <4>1, <4>2, Zenon DEF Finished
    <3> QED BY <1>3, <3>1, <3>2, <3>3, Zenon DEF TailInv
  <2> QED BY <1>4, <2>2, <2>3, Zenon DEF TailEffect
<1>16. ReadyIsBound'
  BY <1>2, <1>3, <1>4, <1>8, Zenon DEF ReadyIsBound, TailEffect
<1>17. FixupBeforeReady'
  <2>1. SUFFICES ASSUME pods # 0, life' = "ready", bound = vm.id, kind # "boot"
                 PROVE  Finished'
    BY <1>3, Zenon DEF FixupBeforeReady, Finished
  <2>2. CASE life = "ready"
    BY <1>2, <1>13, <2>1, <2>2, Zenon DEF FixupBeforeReady, Finished
  <2>3. CASE t.pc = "lease" /\ bound = t.id
    BY <1>12, <1>13, <2>1, <2>3, Zenon DEF TailInv
  <2> QED BY <1>4, <2>1, <2>2, <2>3, Zenon DEF TailEffect
<1> QED BY <1>1, <1>9, <1>10, <1>11, <1>14, <1>15, <1>16, <1>17, Zenon DEF Inv

LEMMA InvRestart ==
    ASSUME Inv, Restart, "lost" \notin Faults
    PROVE  Inv'
<1> USE DEF setup, cluster, host, tables, watcher, startup
<1>1. Base /\ Base' /\ TypeOK
  BY BaseOfStartup DEF Inv, Base
<1>2. Order /\ Live /\ Truthful(api)
  BY DEF Inv
<1>3. /\ worker' = Idle /\ pods' = 0 /\ bound' = 0 /\ byName' = 0 /\ busy' = FALSE /\ tails' = {}
      /\ boot' = [Up EXCEPT !.pc = "list"] /\ UNCHANGED <<kind, api, lastUID, lastVM>>
      /\ vm' = vm \/ vm' = [vm EXCEPT !.owned = FALSE]
  BY Zenon DEF Restart, May
<1>4. worker'.pc = "idle" /\ worker'.uid = 0 /\ boot'.pc = "list" /\ boot'.pod = NoPod
  BY <1>3 DEF Idle, Up
<1>5. vm'.id = vm.id /\ vm'.state = vm.state /\ vm'.fixed = vm.fixed /\ vm'.sac = vm.sac
  BY <1>1, <1>3, Zenon DEF TypeOK, VMs
<1>6. Booted' => Booted
  BY <1>3, Zenon DEF Booted, Touched
<1>7. Order'
  <2>1. 0 <= lastVM /\ 0 <= lastUID
    BY <1>1, Bounds
  <2>2. NoPod.uid = 0
    BY DEF NoPod
  <2> QED BY <1>2, <1>3, <1>4, <1>5, <2>1, <2>2, Zenon DEF Order
<1>8. Owner' /\ Live' /\ Listed'
  BY <1>2, <1>3, <1>4, <1>5, <1>6, Zenon DEF Owner, CreatePCs, Live, Wanted, Listed
<1>9. Truthful(api)'
  BY <1>2, <1>3, <1>5, Zenon DEF Truthful, Touched, Finished
<1>10. ReadyIsBound' /\ FixupBeforeReady' /\ \A t \in tails' : TailInv(t)'
  BY <1>3, Zenon DEF ReadyIsBound, FixupBeforeReady
<1> QED BY <1>1, <1>7, <1>8, <1>9, <1>10, Zenon DEF Inv

LEMMA InvStartupList ==
    ASSUME Inv, StartupList
    PROVE  Inv'
<1> USE DEF setup, cluster, host, tables, watcher, startup
<1>1. Base /\ Base' /\ TypeOK
  BY BaseOfStartup, Zenon DEF Inv, Base, Startup
<1>2. Order /\ Owner /\ Live /\ Listed /\ ReadyIsBound /\ FixupBeforeReady /\ Truthful(api)
        /\ \A t \in tails : TailInv(t)
  BY DEF Inv
<1>3. /\ boot.pc = "list" /\ boot'.pc = IF vm.state = "creating" THEN "stale" ELSE "adopt"
      /\ boot'.vm = vm /\ boot'.pod = api
      /\ UNCHANGED <<kind, api, lastUID, vm, lastVM, pods, life, mark, bound, byName, busy, worker, tails>>
  BY Zenon DEF StartupList
<1>4. tails = {} /\ ~busy /\ (vm.state = "creating" => vm.id # 0)
  BY <1>1, <1>3, Zenon DEF Base, Reconciling, Working
<1>5. vm.state = "creating" => ~Touched(api)
  BY <1>2, <1>4, Zenon DEF Truthful
<1>6. (Booted' <=> Touched(api)) /\ (Booted <=> Touched(api))
  BY <1>3, <1>4, Zenon DEF Booted, Touched
<1>7. Truthful(api)' /\ Truthful(boot.pod)'
  BY <1>2, <1>3, Zenon DEF Truthful, Touched, Finished
<1>8. Order'
  <2>1. api.uid <= lastUID
    BY <1>1, <1>2, Bounds DEF Order
  <2> QED BY <1>2, <1>3, <2>1, Zenon DEF Order
<1>9. Owner' /\ Live'
  BY <1>2, <1>3, <1>6, Zenon DEF Owner, Live, Wanted
<1>10. Listed'
  BY <1>3, <1>4, <1>5, <1>6, <1>7, Zenon DEF Listed, Touched
<1>11. ReadyIsBound' /\ FixupBeforeReady' /\ \A t \in tails' : TailInv(t)'
  BY <1>2, <1>3, <1>4, Zenon DEF ReadyIsBound, FixupBeforeReady
<1> QED BY <1>1, <1>7, <1>8, <1>9, <1>10, <1>11, Zenon DEF Inv

\* A pod whose VM was still being made has had none.
LEMMA InvStale ==
    ASSUME Inv, ReconcileStaleCreate
    PROVE  Inv'
<1> USE DEF setup, cluster, host, tables, watcher, startup
<1>1. Base /\ Base' /\ TypeOK
  BY BaseOfStartup, Zenon DEF Inv, Base, Startup
<1>2. Order /\ Owner /\ Live /\ Listed /\ ReadyIsBound /\ FixupBeforeReady /\ Truthful(api)
        /\ \A t \in tails : TailInv(t)
  BY DEF Inv
<1>3. /\ boot.pc = "stale" /\ boot'.pc = "adopt" /\ boot'.pod = boot.pod
      /\ UNCHANGED <<kind, api, lastUID, lastVM, pods, life, mark, bound, byName, worker, tails>>
      /\ \/ vm' = NoVM /\ boot'.vm = NoVM
         \/ vm' = vm /\ boot'.vm = vm /\ vm.state = "running"
         \/ vm' = vm /\ boot'.vm = NoVM
  <2>1. \A v : boot' = [boot EXCEPT !.pc = "adopt", !.vm = v] =>
          boot'.pc = "adopt" /\ boot'.vm = v /\ boot'.pod = boot.pod
    BY <1>1, Zenon DEF TypeOK, BootRec
  <2> QED BY <2>1, Zenon DEF ReconcileStaleCreate
<1>4. worker.pc = "idle" /\ pods = 0 /\ bound = 0 /\ tails = {}
  BY <1>1, <1>3, Zenon DEF Base, Reconciling
<1>5. ~Booted /\ ~Booted'
  BY <1>2, <1>3, Zenon DEF Listed, Booted, Touched
<1>6. NoVM.id = 0
  BY Zenon DEF NoVM
<1>7. \A p : Truthful(p) => (vm'.id # 0 =>
        /\ Touched(p) => vm'.state # "creating"
        /\ p.vmid \in {0, vm'.id}
        /\ kind # "boot" /\ p.mark = "done" => vm'.fixed
        /\ kind # "boot" /\ p.life = "ready" => Finished')
  BY <1>3, <1>6, Zenon DEF Truthful, Finished
<1>8. Truthful(api)' /\ Truthful(boot.pod)'
  BY <1>2, <1>3, <1>7, Zenon DEF Listed, Truthful, Touched
<1>9. Order'
  <2>1. 0 <= lastVM
    BY <1>1, Bounds
  <2> QED BY <1>2, <1>3, <1>6, <2>1, Zenon DEF Order
<1>10. Owner' /\ Live'
  BY <1>2, <1>3, <1>4, <1>5, <1>6, Zenon DEF Owner, CreatePCs, Live
<1>11. Listed'
  BY <1>2, <1>3, <1>5, <1>6, <1>8, Zenon DEF Listed
<1>12. ReadyIsBound' /\ FixupBeforeReady' /\ \A t \in tails' : TailInv(t)'
  BY <1>3, <1>4, Zenon DEF ReadyIsBound, FixupBeforeReady
<1> QED BY <1>1, <1>8, <1>9, <1>10, <1>11, <1>12 DEF Inv

\* A pod of the list that is wanted and has had its VM matches it.
LEMMA WantedMatches ==
    ASSUME Inv, boot.pc = "adopt", Wanted, boot.pod.uid = api.uid, boot.vm.id # 0
    PROVE  boot.pod.uid # 0 /\ boot.pod.vmid \in {0, boot.vm.id}
<1>1. vm.id = boot.vm.id
  BY Zenon DEF Inv, Base, Reconciling
<1>2. Truthful(boot.pod)
  BY Zenon DEF Inv, Listed
<1> QED BY <1>1, <1>2, Zenon DEF Truthful, Wanted

LEMMA InvAdoptMatched ==
    ASSUME Inv, AdoptAtStartup, bound' # 0
    PROVE  Inv'
<1> USE DEF setup, cluster, host, tables, watcher, startup
<1> DEFINE id == boot.vm.id
           pod == boot.pod
<1>1. Base /\ Base' /\ TypeOK
  BY BaseOfStartup, Zenon DEF Inv, Base, Startup
<1>2. Order /\ Owner /\ Live /\ Listed /\ Truthful(api)
  BY Zenon DEF Inv
<1>3. boot.pc = "adopt" /\ boot' = Up /\ UNCHANGED <<kind, lastUID, lastVM, busy, worker>>
  BY Zenon DEF AdoptAtStartup
<1>4. boot'.pc = "up" /\ boot'.pod = NoPod /\ NoPod.uid = 0
  BY <1>3, Zenon DEF Up, NoPod
<1>5. worker.pc = "idle" /\ pods = 0 /\ bound = 0 /\ tails = {}
  BY <1>1, <1>3, Zenon DEF Base, Reconciling
<1>6. /\ pod.uid # 0 /\ id # 0 /\ pod.vmid \in {0, id}
      /\ pods' = pod.uid /\ bound' = id /\ byName' = id /\ life' = pod.life /\ mark' = pod.mark
      /\ Patch(pod.uid, "vmid", id) \/ UNCHANGED api
      /\ vm' = vm
      /\ \/ UNCHANGED tails
         \/ OwedOpFor(pod) # "none" /\ Resume(pod.uid, id, OwedOpFor(pod))
  BY <1>5, Zenon DEF AdoptAtStartup
<1>7. ~busy /\ vm.id = id
  BY <1>1, <1>3, <1>6, Zenon DEF Base, Reconciling
<1>8. Truthful(pod) /\ vm.state # "creating"
  BY <1>2, <1>3, <1>6, Zenon DEF Listed
<1>9. pod \in Pods /\ id \in 0..MaxVM
  BY <1>1, Zenon DEF TypeOK, BootRec, VMs
<1>10. /\ api'.uid = api.uid /\ api'.term = api.term /\ api'.life = api.life /\ api'.mark = api.mark
       /\ api'.vmid = api.vmid \/ (api.uid = pod.uid /\ api'.vmid = id)
       /\ api.uid # pod.uid => api' = api
  BY <1>1, <1>6, <1>9, PatchVMID, Zenon DEF TypeOK
<1>11. ASSUME NEW t \in tails'
       PROVE  /\ t.uid = pod.uid /\ t.id = id /\ t.pc = OwedOpFor(pod) /\ t.pc # "none"
  <2>1. tails' = {} \/ (Resume(pod.uid, id, OwedOpFor(pod)) /\ OwedOpFor(pod) # "none")
    BY <1>5, <1>6, Zenon
  <2>2. tails' \subseteq {[pc |-> OwedOpFor(pod), uid |-> pod.uid, id |-> id, claim |-> TRUE]}
    BY <1>5, <2>1, Zenon DEF Resume
  <2> QED BY <1>11, <2>1, <2>2
<1> HIDE DEF id, pod
<1>12. api.uid # pod.uid => ~Booted'
  <2>1. api.uid # pod.uid => ~Booted
    BY <1>2, <1>3, Zenon DEF Listed, pod
  <2> QED BY <1>10, <1>11, <2>1, Zenon DEF Booted, Touched
<1>13. Order'
  <2>1. pod.uid <= lastUID /\ 0 <= lastUID /\ vm.id <= lastVM
    BY <1>1, <1>2, Ordered, Zenon DEF pod
  <2>2. api'.uid = 0 => api' = NoPod
    BY <1>2, <1>6, <1>10, Zenon DEF Order
  <2>3. \A t \in tails' : t.uid <= lastUID /\ t.id <= lastVM
    BY <1>7, <1>11, <2>1, Zenon
  <2> QED BY <1>2, <1>3, <1>4, <1>6, <1>7, <1>10, <2>1, <2>2, <2>3, Zenon DEF Order
<1>14. Owner'
  BY <1>3, <1>5, <1>6, <1>8, Zenon DEF Owner, CreatePCs
<1>15. Live' /\ Listed'
  BY <1>3, <1>4, <1>6, <1>7, <1>10, <1>12, Zenon DEF Live, Listed
<1>16. Truthful(api)'
  BY <1>2, <1>3, <1>6, <1>7, <1>8, <1>10, Zenon DEF Truthful, Touched, Finished
<1>17. \A t \in tails' : TailInv(t)'
  <2>1. SUFFICES ASSUME NEW t \in tails' PROVE TailInv(t)'
    OBVIOUS
  <2>2. /\ kind # "boot" /\ t.pc \in {"done", "sac", "ip", "lease"} => pod.mark = "done"
        /\ kind # "boot" /\ t.pc \in {"ip", "lease"} => kind # "windows"
    <3>1. pod.mark \in {"", "running", "done"} /\ kind \in Kinds
      BY <1>1, <1>9, <1>11, Zenon DEF OwedOpFor, Pods, MarkStates, TypeOK
    <3> QED BY <1>11, <3>1, Zenon DEF OwedOpFor, Kinds
  <2>3. vm.fixed \/ kind = "boot" \/ pod.mark # "done"
    BY <1>6, <1>7, <1>8, Zenon DEF Truthful
  <2> QED BY <1>3, <1>6, <1>7, <1>8, <1>11, <2>2, <2>3, Zenon DEF TailInv, Finished
<1>18. ReadyIsBound' /\ FixupBeforeReady'
  BY <1>3, <1>6, <1>7, <1>8, Zenon DEF ReadyIsBound, FixupBeforeReady, Truthful, Finished
<1> QED BY <1>1, <1>13, <1>14, <1>15, <1>16, <1>17, <1>18, Zenon DEF Inv

LEMMA InvAdoptOrphan ==
    ASSUME Inv, AdoptAtStartup, bound' = 0
    PROVE  Inv'
<1> USE DEF setup, cluster, host, tables, watcher, startup
<1> DEFINE id == boot.vm.id
<1>1. Base /\ Base' /\ TypeOK
  BY BaseOfStartup DEF Inv, Base, Startup
<1>2. Order /\ Owner /\ Live /\ Listed /\ Truthful(api)
  BY Zenon DEF Inv
<1>3. boot.pc = "adopt" /\ boot' = Up /\ UNCHANGED <<kind, lastUID, lastVM, busy, worker>>
  BY Zenon DEF AdoptAtStartup
<1>4. boot'.pc = "up" /\ boot'.pod = NoPod /\ NoPod.uid = 0 /\ NoVM.id = 0
  BY <1>3, Zenon DEF Up, NoPod, NoVM
<1>5. worker.pc = "idle" /\ pods = 0 /\ bound = 0 /\ tails = {}
  BY <1>1, <1>3, Zenon DEF Base, Reconciling
<1>6. /\ UNCHANGED <<api, pods, life, mark, tails>>
      /\ \/ id = 0 /\ UNCHANGED <<vm, byName>>
         \/ id # 0 /\ HandleOrphan(id)
      /\ boot.pod.uid # 0 /\ id # 0 /\ boot.pod.vmid \in {0, id} => api.uid \notin {0, boot.pod.uid}
  BY Zenon DEF AdoptAtStartup
<1>7. \/ vm' = vm /\ byName' \in {byName, id}
      \/ vm' = NoVM /\ byName' = byName
  BY <1>6, OrphanShape, Zenon
<1>8. id # 0 => vm.state # "creating" /\ vm.id = id /\ ~busy
  BY <1>1, <1>2, <1>3, Zenon DEF Listed, Base, Reconciling
<1>9. ~(Wanted /\ Booted)
  <2>1. SUFFICES ASSUME Wanted, Booted PROVE FALSE
    BY Zenon
  <2>2. vm.id # 0 /\ boot.pod.uid = api.uid
    BY <1>2, <1>3, <2>1, Zenon DEF Live, Listed
  <2>3. id # 0
    BY <1>2, <1>3, <2>1, <2>2, Zenon DEF Listed
  <2> QED BY <1>3, <1>6, <2>1, <2>2, <2>3, WantedMatches, Zenon
<1>10. Booted' <=> Booted
  BY <1>6, Zenon DEF Booted, Touched
<1> HIDE DEF id
<1>11. Order'
  <2>1. 0 <= lastUID /\ 0 <= lastVM /\ (byName' = id => id <= lastVM)
    BY <1>1, <1>2, <1>8, Bounds DEF Order
  <2> QED BY <1>2, <1>3, <1>4, <1>5, <1>6, <1>7, <2>1, Zenon DEF Order
<1>12. Owner'
  BY <1>2, <1>3, <1>4, <1>5, <1>6, <1>7, <1>8, Zenon DEF Owner, CreatePCs
<1>13. Live' /\ Listed'
  BY <1>2, <1>3, <1>4, <1>6, <1>9, <1>10, Zenon DEF Live, Wanted, Listed
<1>14. Truthful(api)'
  BY <1>2, <1>3, <1>4, <1>6, <1>7, Zenon DEF Truthful, Touched, Finished
<1>15. ReadyIsBound' /\ FixupBeforeReady' /\ \A t \in tails' : TailInv(t)'
  BY <1>5, <1>6, Zenon DEF ReadyIsBound, FixupBeforeReady
<1> QED BY <1>1, <1>11, <1>12, <1>13, <1>14, <1>15, Zenon DEF Inv

LEMMA InvWatch ==
    ASSUME Inv, Watch
    PROVE  Inv'
<1> USE DEF setup, cluster, host, tables, watcher, startup
<1>1. Base /\ Base' /\ TypeOK
  BY BaseOfWatch DEF Inv, Base
<1>2. Order /\ Owner /\ Live /\ Listed /\ ReadyIsBound /\ Truthful(api)
  BY Zenon DEF Inv
<1>3. /\ busy /\ busy' = FALSE
      /\ UNCHANGED <<kind, api, lastUID, lastVM, pods, life, mark, bound, worker, tails, boot>>
  BY Zenon DEF Watch, WatcherCollects, SettleCommittedCreate, WatcherGivesUp, WatcherEnds
<1>4. \/ UNCHANGED <<vm, byName>>
      \/ vm' = NoVM /\ byName' = byName
      \/ There(watched) /\ vm.state = "running" /\ vm' = vm /\ byName' = watched
  <2>1. CASE WatcherCollects
    BY <2>1, Zenon DEF WatcherCollects
  <2>2. CASE SettleCommittedCreate
    BY <2>2, OrphanShape, Zenon DEF SettleCommittedCreate, There
  <2>3. CASE WatcherGivesUp
    BY <2>3, Zenon DEF WatcherGivesUp
  <2> QED BY <2>1, <2>2, <2>3, Zenon DEF Watch
<1>5. bound = 0 /\ tails = {} /\ worker.pc \in {"idle", "await", "forget", "gone"}
        /\ boot.pc # "stale"
  BY <1>1, <1>3, Zenon DEF Base, Reconciling
<1>6. ~Booted /\ ~Booted'
  BY <1>2, <1>3, Zenon DEF Listed, Booted, Touched
<1>7. NoVM.id = 0
  BY DEF NoVM
<1>8. \A p : Truthful(p) => (vm'.id # 0 =>
        /\ Touched(p) => vm'.state # "creating"
        /\ p.vmid \in {0, vm'.id}
        /\ kind # "boot" /\ p.mark = "done" => vm'.fixed
        /\ kind # "boot" /\ p.life = "ready" => Finished')
  BY <1>3, <1>4, <1>7, Zenon DEF Truthful, Finished
<1>9. Truthful(api)' /\ (boot.pc = "adopt" => Truthful(boot.pod)')
  BY <1>2, <1>3, <1>8, Zenon DEF Listed, Truthful, Touched
<1>10. Order'
  <2>1. 0 <= lastVM /\ (There(watched) => watched <= lastVM)
    BY <1>1, <1>2, Bounds DEF Order, There
  <2> QED BY <1>2, <1>3, <1>4, <1>7, <2>1, Zenon DEF Order
<1>11. Owner'
  BY <1>2, <1>3, <1>4, <1>5, <1>6, <1>7, Zenon DEF Owner, CreatePCs, There
<1>12. Live'
  BY <1>6, Zenon DEF Live
<1>13. Listed'
  <2>1. boot.pc = "adopt" => boot.vm.id = 0
    BY <1>1, <1>3, Zenon DEF Base, Reconciling
  <2> QED BY <1>2, <1>3, <1>5, <1>6, <1>9, <2>1, Zenon DEF Listed
<1>14. ReadyIsBound' /\ FixupBeforeReady' /\ \A t \in tails' : TailInv(t)'
  BY <1>2, <1>3, <1>5, Zenon DEF ReadyIsBound, FixupBeforeReady
<1> QED BY <1>1, <1>9, <1>10, <1>11, <1>12, <1>13, <1>14, Zenon DEF Inv

LEMMA InvAlways ==
    ASSUME "lost" \notin Faults
    PROVE  Spec => []Inv
<1>1. Spec => []Base
  BY BaseAlways
<1>2. Init /\ Base => Inv
  <2> SUFFICES ASSUME Init, Base PROVE Inv
    BY Zenon
  <2>1. /\ api = NoPod /\ lastUID = 0 /\ lastVM = 0 /\ pods = 0 /\ bound = 0 /\ byName = 0 /\ ~busy
        /\ vm.id = 0 /\ worker.pc = "idle" /\ worker.uid = 0 /\ tails = {} /\ boot.pc = "up"
        /\ boot.pod = NoPod
    BY Zenon DEF Init, NoVM, Idle, Up
  <2>2. api.uid = 0 /\ boot.pod.uid = 0
    <3>1. NoPod.uid = 0
      BY Zenon DEF NoPod
    <3> QED BY <2>1, <3>1, Zenon
  <2>3. ~Booted
    BY <2>1, Zenon DEF Booted, Touched, NoPod
  <2>4. Order
    BY <2>1, <2>2 DEF Order
  <2>6. Owner
    BY <2>1, <2>2, <2>3, Zenon DEF Owner, CreatePCs
  <2>7. Live /\ Listed
    BY <2>1, <2>3, Zenon DEF Live, Listed
  <2>5. Truthful(api) /\ ReadyIsBound /\ FixupBeforeReady /\ \A t \in tails : TailInv(t)
    BY <2>1, Zenon DEF Truthful, ReadyIsBound, FixupBeforeReady
  <2> QED BY <2>4, <2>5, <2>6, <2>7, Zenon DEF Inv
<1>3. Inv /\ Base' /\ [Next]_vars => Inv'
  <2> SUFFICES ASSUME Inv, Base', [Next]_vars PROVE Inv'
    BY Zenon
  <2>1. CASE UNCHANGED vars
    <3>1. UNCHANGED <<kind, api, lastUID, vm, lastVM, pods, life, mark, bound, byName, busy, worker,
                      tails, boot>>
      BY <2>1, Zenon DEF vars, setup, cluster, host, tables, watcher, startup
    <3>2. (Booted' <=> Booted) /\ (Finished' <=> Finished)
      BY <3>1, Zenon DEF Booted, Touched, Finished
    <3>3. (Truthful(api)' <=> Truthful(api)) /\ (Truthful(boot.pod)' <=> Truthful(boot.pod))
      BY <3>1, <3>2, Zenon DEF Truthful, Touched
    <3>4. Order' /\ Owner' /\ Live'
      BY <3>1, <3>2 DEF Inv, Order, Owner, Live, Wanted
    <3>6. Listed'
      BY <3>1, <3>2, <3>3, Zenon DEF Inv, Listed, Touched
    <3>5. ReadyIsBound' /\ FixupBeforeReady' /\ \A t \in tails' : TailInv(t)'
      BY <3>1, <3>2, Zenon DEF Inv, ReadyIsBound, FixupBeforeReady, TailInv
    <3> QED BY <3>3, <3>4, <3>5, <3>6, Zenon DEF Inv
  <2>2. CASE Environment \/ RepublishLife
    BY <2>2, InvApi, InvClone, InvRepublish, Zenon DEF Environment
  <2>3. CASE Worker
    BY <2>3, InvCreatePod, InvAdopt, InvBringUpVM, InvApplyRuntime, InvFailCreate, InvDispatch,
       InvDelete, Zenon DEF Worker
  <2>4. CASE \E t \in tails : Tail(t)
    BY <2>4, InvTail, Zenon
  <2>5. CASE Restart
    BY <2>5, InvRestart, Zenon
  <2>6. CASE Startup
    BY <2>6, InvStartupList, InvStale, InvAdoptMatched, InvAdoptOrphan, Zenon DEF Startup
  <2>7. CASE Watch
    BY <2>7, InvWatch
  <2> QED BY <2>1, <2>2, <2>3, <2>4, <2>5, <2>6, <2>7, Zenon DEF Next
<1> QED BY <1>1, <1>2, <1>3, PTL DEF Spec

\* A pod is never Ready on a clone whose fixup (and, on Windows, SAC pass) did not
\* finish inside the guest, with any number of incarnations and restarts and whatever
\* fails, as long as no VM is lost while vk-cocoon is down: owedOpFor resumes a boot
\* from its marker, and without the loss a marker is never older than the VM.
THEOREM FixupBeforeReadyAlways ==
    ASSUME "lost" \notin Faults
    PROVE  Spec => []FixupBeforeReady
<1>1. Inv => FixupBeforeReady
  BY Zenon DEF Inv
<1> QED BY <1>1, InvAlways, PTL

LEMMA WantedVMIsKeptStep ==
    ASSUME Inv, Next, vm.state = "running", vm' = NoVM, UNCHANGED restarts
    PROVE  \/ worker.pc = "rm"
           \/ api.uid = 0
           \/ api.term
           \/ boot.pc = "adopt" /\ boot.pod.uid # api.uid
<1> USE DEF setup, cluster, host, tables, watcher, startup
<1>1. Base /\ TypeOK
  BY DEF Inv, Base
<1>2. vm.id # 0 /\ vm'.id = 0 /\ vm' # vm
  <2>1. vm.id # 0
    BY <1>1, Zenon DEF Base, Working
  <2>2. vm'.id = 0
    BY Zenon DEF NoVM
  <2> QED BY <2>1, <2>2, Zenon
<1>3. CASE Environment \/ RepublishLife
  <2>1. vm' = vm \/ vm'.id = vm.id
    BY <1>1, <1>3, Zenon
       DEF Environment, ApiCreate, ApiTerminate, ApiRemove, CloneAdvances, RepublishLife,
                      TypeOK, VMs
  <2> QED BY <1>2, <2>1, Zenon
<1>4. CASE Worker
  <2>1. worker.pc = "rm" \/ vm' = vm \/ vm'.id = lastVM + 1
    BY <1>4, Zenon
       DEF Worker, CreatePod, AwaitBusyCreate, AdoptableVM, BringUpVM, BringUpFails, BroughtUp,
                ApplyRuntime, FailCreate, Dispatch, DeletePod, DeleteRemovesVM, DeleteRemoveFails,
                ForgetPod, DeleteEnds, NoVM
  <2>2. lastVM + 1 # 0
    BY <1>1, Bounds
  <2> QED BY <1>2, <2>1, <2>2
<1>5. CASE \E t \in tails : Tail(t)
  BY <1>1, <1>2, <1>5, TailShape, Zenon
<1>6. CASE Restart
  <2>1. restarts \in Nat /\ restarts' = restarts + 1
    BY <1>1, <1>6, Bounds, Zenon DEF Restart
  <2> QED BY <2>1
<1>7. CASE StartupList
  BY <1>2, <1>7 DEF StartupList
<1>8. CASE ReconcileStaleCreate
  <2>1. boot.pc = "stale" /\ vm.id = boot.vm.id
    BY <1>1, <1>8, Zenon DEF ReconcileStaleCreate, Base, Reconciling
  <2> QED BY <1>2, <1>8, <2>1, Zenon DEF ReconcileStaleCreate, There, Collectable
<1>9. CASE AdoptAtStartup
  <2>1. SUFFICES ASSUME Wanted, boot.pod.uid = api.uid PROVE FALSE
    BY <1>1, <1>9, Zenon DEF AdoptAtStartup, Wanted
  <2>2. /\ boot.pc = "adopt" /\ boot.vm.id # 0
        /\ boot.pod.uid # 0 /\ boot.pod.vmid \in {0, boot.vm.id} => api.uid \notin {0, boot.pod.uid}
    BY <1>2, <1>9, Zenon DEF AdoptAtStartup
  <2> QED BY <2>1, <2>2, WantedMatches, Zenon
<1>10. CASE Watch
  <2>1. CASE WatcherCollects
    BY <1>2, <2>1, Zenon DEF WatcherCollects, There, Collectable
  <2>2. CASE SettleCommittedCreate
    BY <1>2, <2>2, Zenon DEF SettleCommittedCreate
  <2>3. CASE WatcherGivesUp
    BY <1>2, <2>3 DEF WatcherGivesUp
  <2> QED BY <1>10, <2>1, <2>2, <2>3, Zenon DEF Watch
<1> QED BY <1>3, <1>4, <1>5, <1>6, <1>7, <1>8, <1>9, <1>10, Zenon DEF Next, Startup

\* A VM that runs is removed only by the delete of its pod or when no live pod that
\* startup reconciliation could see wants its name, with any number of incarnations and
\* restarts, as long as no VM is lost while vk-cocoon is down (handleOrphan and its
\* callers in adoption and settleCommittedCreate; reconcile-stale-create).
THEOREM WantedVMIsKeptAlways ==
    ASSUME "lost" \notin Faults
    PROVE  Spec => WantedVMIsKept
<1>1. Inv /\ [Next]_vars =>
        [vm.state = "running" /\ vm' = NoVM /\ UNCHANGED restarts =>
           \/ worker.pc = "rm"
           \/ api.uid = 0
           \/ api.term
           \/ boot.pc = "adopt" /\ boot.pod.uid # api.uid]_vars
  BY WantedVMIsKeptStep
<1> QED BY <1>1, InvAlways, PTL DEF Spec, WantedVMIsKept

\* A pod that is not being deleted and has had a VM has it still, and once startup
\* reconciliation is over it is tracked and bound to it: no failed create, orphan policy,
\* watcher or restart takes the VM or the binding away, as long as no VM is lost while
\* vk-cocoon is down (adoption in StartupReconcile, CreatePod's adopt branch, bindRuntime).
THEOREM BootedPodHasVM ==
    ASSUME "lost" \notin Faults
    PROVE  Spec => []Live
<1>1. Inv => Live
  BY Zenon DEF Inv
<1> QED BY <1>1, InvAlways, PTL

\* What the annotations at the apiserver say of the VM is so: the VM ID is its ID, a
\* finished marker and a Ready are about this VM and not about an earlier one, so that a
\* restart may rely on them to skip the fixup, as long as no VM is lost while vk-cocoon is
\* down (markPostCloneState, owedOpFor).
THEOREM AnnotationsTellTheTruth ==
    ASSUME "lost" \notin Faults
    PROVE  Spec => []Truthful(api)
<1>1. Inv => Truthful(api)
  BY Zenon DEF Inv
<1> QED BY <1>1, InvAlways, PTL

================================================================================
