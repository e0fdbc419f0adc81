--------------------------- MODULE HibernationProofs ---------------------------
(***************************************************************************)
(* Hibernation implements GuestState on any number of nodes, whatever the  *)
(* bounds: the theorems about Hibernation, and the inductive invariant     *)
(* they rest on.                                                           *)
(***************************************************************************)
EXTENDS Hibernation, FiniteSetTheorems, TLAPS

\* Annotations always reach the pod, and a removal that reports an error has
\* left its VM alone.
Reliable(s) == {"patch", "halfremove"} \cap s.faults = {}

\* The deployments that keep their promise.  With a registry a VM is not gone
\* after a removal that failed (its tag is compensated); orphans are destroyed,
\* and a pod moves between nodes, only where the VM ID on the pod can be relied
\* on; and a pod that moves needs the registry.
Sound(s) ==
    /\ s.registry => "halfremove" \notin s.faults
    /\ s.destroy /\ "crash" \in s.faults => Reliable(s)
    /\ \/ \E n \in Nodes : s.nodes = {n}
       \/ s.registry /\ Reliable(s)

Saving == {"save", "push", "clear", "remove", "compensate", "rollback", "forget"}
Starting == {"evidence", "resolve", "clone", "boot", "bind"}
Deleting == {"delsave", "delvm", "delsnap", "deleted"}

\* Where things are: the pod and the VMs are on nodes of the deployment, and
\* only one of these has a VM.
Places ==
    /\ Exists => Here \in setup.nodes
    /\ \A n \in Nodes : vm[n].id # 0 => n \in setup.nodes
    /\ \A m, n \in Nodes : vm[m].id # 0 /\ vm[n].id # 0 => m = n

\* What the step of an operation says of the tables.
Tables ==
    /\ op.pc # "idle" => Exists
    /\ ~Exists => bound = 0
    /\ bound # 0 => tracked
    /\ op.pc \in Starting => bound = 0 /\ tracked
    /\ op.pc \in {"down", "deleted"} => bound = 0
    /\ op.pc \in Saving \cup {"delsave", "delvm"} => bound # 0
    /\ op.pc \in Saving => pod.lc = "hibernating"
    /\ op.pc \in Deleting => pod.term # "no"
    /\ op.pc = "down" => May("crash")
    /\ op.pc = "delsave" => HasRegistry

\* What the step of an operation says of the VM.
Machines ==
    /\ op.pc \in {"push", "clear", "remove"} => vm[Here].id = bound
    /\ op.pc = "bind" => vm[Here].id # 0
    /\ op.pc = "forget" => vm[Here].id = 0
    /\ May("halfremove") \/ bound = 0 \/ op.pc \in {"forget", "delsnap"}
          \/ vm[Here].id = bound

\* Versions come from the clock.
Versions ==
    /\ \A n \in Nodes : vm[n].ver <= clock /\ snap[n] <= clock
    /\ \A n \in Nodes : vm[n].id # 0 => vm[n].ver # 0
    /\ tag <= clock /\ op.ver <= clock /\ owed <= clock

\* Where the version is that is about to be owed.
Saved ==
    /\ op.pc \in {"push", "clear", "remove"} =>
        /\ op.ver # 0 /\ op.ver <= vm[Here].ver
        /\ ~HasRegistry => snap[Here] = op.ver
    /\ op.pc = "push" => snap[Here] \in {0, op.ver}
    /\ op.pc \in {"clear", "remove"} /\ HasRegistry => tag = op.ver

\* Where the version is that is owed, and that a wake is about to use.
Owed ==
    /\ \A n \in Nodes : vm[n].id # 0 => owed = 0
    /\ pod.lc = "ready" => owed = 0
    /\ owed # 0 => IF HasRegistry THEN tag = owed ELSE \A n \in setup.nodes : snap[n] = owed
    /\ ~HasRegistry => tag = 0 /\ \A n \in Nodes : ~rec[n].stale
    /\ op.pc = "boot" => owed = 0
    /\ op.pc = "clone" /\ op.local => snap[Here] = 0 \/ owed \in {0, snap[Here]}
    /\ op.pc = "clone" /\ ~op.local => op.ver # 0 /\ owed \in {0, op.ver}

\* With reliable annotations the pod's VM is known by its ID or has no ID yet.
Known ==
    Reliable(setup) =>
        /\ \A n \in Nodes : vm[n].id # 0 => n = Here
        /\ Exists => vm[Here].id \in {0, bound} \/ op.pc \in {"bind", "down"}
        /\ Exists /\ op.pc \in {"delsnap", "deleted"} => vm[Here].id = 0
        /\ Exists => \/ pod.vmid \in {0, vm[Here].id}
                     \/ /\ pod.term # "no" /\ vm[Here].id = 0
                        /\ op.pc \notin Starting
        /\ op.pc \in {"remove", "compensate"} => pod.vmid = 0

Inv ==
    /\ TypeOK
    /\ Sound(setup)
    /\ Places
    /\ Tables
    /\ Machines
    /\ Versions
    /\ Saved
    /\ Owed
    /\ Known

--------------------------------------------------------------------------------
(* Facts about the constants.                                              *)

LEMMA SetupFacts ==
    ASSUME TypeOK
    PROVE  /\ setup.nodes \subseteq Nodes
           /\ setup.nodes # {}
           /\ setup.vers \in 1..MaxVer
           /\ setup.vms \in 1..MaxVM
           /\ setup.registry \in BOOLEAN
           /\ setup.destroy \in BOOLEAN
BY SetupsAssumption DEF TypeOK

LEMMA ConstantFacts ==
    /\ NoPod \in Pod
    /\ NoVM \in [id: ID, ver: Ver]
    /\ Idle \in Op
    /\ [Idle EXCEPT !.pc = "down"] \in Op
    /\ NotReclaiming \in [ver: Ver, stale: BOOLEAN]
<1>0. 0 \in Ver /\ 0 \in ID
  BY BoundsAssumption DEF Ver, ID
<1>1. NoPod \in Pod
  BY <1>0 DEF NoPod, Pod, None, LifecycleStates
<1>2. NoVM \in [id: ID, ver: Ver]
  BY <1>0 DEF NoVM
<1>3. Idle \in Op /\ [Idle EXCEPT !.pc = "down"] \in Op
  BY <1>0, Zenon DEF Idle, Op, PCs
<1>4. NotReclaiming \in [ver: Ver, stale: BOOLEAN]
  BY <1>0 DEF NotReclaiming
<1> QED
  BY <1>1, <1>2, <1>3, <1>4, Zenon

LEMMA InvInit ==
    ASSUME \A s \in Setups : Sound(s), Init
    PROVE  Inv
<1>1. TypeOK
  <2>1. 0 \in Ver /\ 0 \in ID /\ 1 \in 1..MaxVer
    BY BoundsAssumption DEF Ver, ID
  <2>2. tracked \in BOOLEAN
    BY Zenon DEF Init
  <2> QED
    BY <2>1, <2>2, ConstantFacts DEF Init, TypeOK
<1>2. Sound(setup)
  BY DEF Init
<1>3. Places /\ Tables /\ Machines
  BY Zenon DEF Init, Places, Tables, Machines, NoPod, Idle, NoVM, None, Exists, Starting,
     Saving, Deleting
<1>v. Versions
  BY BoundsAssumption DEF Init, Versions, Idle, NoVM
<1>4. Saved /\ Owed /\ Known
  BY Zenon DEF Init, Saved, Owed, Known, NoPod, Idle, NoVM, None, Exists, NotReclaiming
<1> QED
  BY <1>1, <1>2, <1>3, <1>v, <1>4 DEF Inv

LEMMA ClockFacts ==
    ASSUME Inv
    PROVE  clock \in Nat /\ 0 <= clock /\ tag <= clock /\ owed <= clock
BY BoundsAssumption DEF Inv, TypeOK, Versions, Ver

\* A step that drops local snapshots, or saves the VM's version in one, leaves no
\* snapshot newer than the clock.
LEMMA SnapsKnown ==
    ASSUME Inv, vm' = vm, clock' = clock,
           \A m \in Nodes : snap'[m] \in {0, snap[m], vm[m].ver}
    PROVE  \A m \in Nodes : vm'[m].ver <= clock' /\ snap'[m] <= clock'
BY ClockFacts, Zenon DEF Inv, Versions

--------------------------------------------------------------------------------
(* Every step keeps the invariant.                                         *)

LEMMA InvOperatorCreatesPod ==
    ASSUME Inv, NEW n \in setup.nodes, NEW marked \in BOOLEAN,
           OperatorCreatesPod(n, marked), UNCHANGED setup
    PROVE  Inv'
<1> USE NodesAssumption, BoundsAssumption, SetupFacts DEF Inv, Goto, May, Here,
     Exists, HasRegistry, DestroyOrphans, stores, tables, history, NoPod,
     OperatorCreatesPod
<1>1. TypeOK'
  <2>1. pod' \in Pod
    BY ConstantFacts, Zenon DEF TypeOK, Pod, LifecycleStates, ID, None
  <2> QED
    BY <2>1, Zenon DEF TypeOK
<1>2. Sound(setup)'
  OBVIOUS
<1>3. Places'
  BY DEF Places
<1>4. Tables'
  BY Zenon DEF Tables, Starting, Saving, Deleting
<1>5. Machines'
  BY DEF TypeOK, Pod, Op, None, Machines, NoVM, Ver, Tables
<1>6. Versions'
  BY Zenon DEF Versions
<1>7. Saved'
  BY Zenon DEF TypeOK, Pod, Op, None, NoVM, Ver, ID, Saved, Starting, Saving, Reliable,
     Machines, Tables, Owed
<1>8. Owed'
  BY Zenon DEF TypeOK, Pod, Op, None, NoVM, Ver, ID, Owed, Starting, Saving, Reliable,
     Tables, Machines, Saved, Places
<1>9. Known'
  BY DEF TypeOK, Pod, Op, None, Known, Starting, Reliable, NoVM, Ver, Tables,
     Machines
<1> QED
  BY <1>1, <1>2, <1>3, <1>4, <1>5, <1>6, <1>7, <1>8, <1>9, Zenon

LEMMA InvOperatorDeletesPod ==
    ASSUME Inv, NEW term \in {"keep", "drop"}, OperatorDeletesPod(term),
           UNCHANGED setup
    PROVE  Inv'
<1> USE NodesAssumption, BoundsAssumption, SetupFacts DEF Inv, Goto, May, Here,
     Exists, HasRegistry, DestroyOrphans, stores, tables, history,
     OperatorDeletesPod
<1>0. pod.node \in Nodes
  BY DEF Tables, TypeOK, Pod, None
<1>1. TypeOK'
  <2>1. pod' \in Pod
    BY <1>0, ConstantFacts, Zenon DEF TypeOK, Pod, LifecycleStates, ID, None
  <2> QED
    BY <2>1, Zenon DEF TypeOK
<1>2. Sound(setup)'
  OBVIOUS
<1>3. Places'
  BY DEF Places
<1>4. Tables'
  BY DEF Tables, Starting, Saving, Deleting
<1>5. Machines'
  BY DEF Machines
<1>6. Versions'
  BY DEF Versions
<1>7. Saved'
  BY DEF Saved
<1>8. Owed'
  BY DEF Owed
<1>9. Known'
  BY DEF Known, Starting
<1> QED
  BY <1>1, <1>2, <1>3, <1>4, <1>5, <1>6, <1>7, <1>8, <1>9, Zenon

LEMMA InvGuestRuns ==
    ASSUME Inv, NEW n \in Nodes, GuestRuns(n), UNCHANGED setup
    PROVE  Inv'
<1> USE NodesAssumption, BoundsAssumption, SetupFacts DEF Inv, Goto, May, Here,
     Exists, HasRegistry, DestroyOrphans, stores, tables, history, GuestRuns
<1>1. TypeOK'
  <2>1. clock' \in 1..MaxVer
    BY ConstantFacts DEF TypeOK, Ver
  <2>2. vm' \in [Nodes -> [id: ID, ver: Ver]]
    BY ConstantFacts DEF TypeOK, ID, Ver, NoVM
  <2> QED
    BY <2>1, <2>2, Zenon DEF TypeOK
<1>2. Sound(setup)'
  OBVIOUS
<1>3. Places'
  BY DEF Places
<1>4. Tables'
  BY DEF Tables, Starting, Saving, Deleting
<1>5. Machines'
  BY DEF Machines
<1>6. Versions'
  BY DEF TypeOK, Pod, Op, None, Versions, NoVM, Ver
<1>7. Saved'
  BY <1>1 DEF TypeOK, Pod, Op, Ver, ID, None, NoVM, Starting, Saving, Deleting,
     Sound, Reliable, Places, Tables, Machines, Versions, Saved, Owed
<1>8. Owed'
  BY Zenon DEF Owed
<1>9. Known'
  BY DEF Known, Starting
<1> QED
  BY <1>1, <1>2, <1>3, <1>4, <1>5, <1>6, <1>7, <1>8, <1>9, Zenon

LEMMA InvOperatorTogglesHibernate ==
    ASSUME Inv, OperatorTogglesHibernate, UNCHANGED setup
    PROVE  Inv'
<1> USE NodesAssumption, BoundsAssumption, SetupFacts DEF Inv, Goto, May, Here,
     Exists, HasRegistry, DestroyOrphans, stores, tables, history,
     OperatorTogglesHibernate
<1>0. pod.node \in Nodes
  BY DEF Tables, TypeOK, Pod, None
<1>1. TypeOK'
  <2>1. pod' \in Pod
    BY <1>0, ConstantFacts, Zenon DEF TypeOK, Pod, LifecycleStates, ID, None
  <2> QED
    BY <2>1, Zenon DEF TypeOK
<1>2. Sound(setup)'
  OBVIOUS
<1>3. Places'
  BY DEF Places
<1>4. Tables'
  BY DEF Tables, Starting, Saving, Deleting
<1>5. Machines'
  BY DEF Machines
<1>6. Versions'
  BY DEF Versions
<1>7. Saved'
  BY DEF Saved
<1>8. Owed'
  BY DEF Owed
<1>9. Known'
  BY DEF Known, Starting
<1> QED
  BY <1>1, <1>2, <1>3, <1>4, <1>5, <1>6, <1>7, <1>8, <1>9, Zenon

LEMMA InvOperatorDropsTag ==
    ASSUME Inv, OperatorDropsTag, UNCHANGED setup
    PROVE  Inv'
<1> USE NodesAssumption, BoundsAssumption, SetupFacts DEF Inv, Goto, May, Here,
     Exists, HasRegistry, DestroyOrphans, stores, tables, history, OperatorDropsTag
<1>0. pod.node \in Nodes
  BY Zenon DEF Tables, TypeOK, Pod, None
<1>1. TypeOK'
  <2>1. tag' \in Ver
    BY <1>0, ConstantFacts DEF TypeOK, Ver
  <2> QED
    BY <2>1, Zenon DEF TypeOK
<1>2. Sound(setup)'
  OBVIOUS
<1>3. Places'
  BY Zenon DEF Places
<1>4. Tables'
  BY Zenon DEF Tables, Starting, Saving, Deleting
<1>5. Machines'
  BY Zenon DEF Machines
<1>6. Versions'
  BY DEF TypeOK, Pod, Op, Versions
<1>7. Saved'
  BY <1>0, Zenon DEF TypeOK, Pod, Op, None, NoVM, Ver, ID, Saved, Starting, Saving,
     Reliable, Machines, Tables, Owed
<1>8. Owed'
  BY Zenon DEF Owed
<1>9. Known'
  BY DEF Known, Starting
<1> QED
  BY <1>1, <1>2, <1>3, <1>4, <1>5, <1>6, <1>7, <1>8, <1>9, Zenon

LEMMA InvOperatorDiscards ==
    ASSUME Inv, OperatorDiscards, UNCHANGED setup
    PROVE  Inv'
<1> USE NodesAssumption, BoundsAssumption, SetupFacts DEF Inv, Goto, May, Here,
     Exists, HasRegistry, DestroyOrphans, stores, tables, history, OperatorDiscards
<1>1. TypeOK'
  <2>1. tag' \in Ver
    BY ConstantFacts DEF TypeOK, Ver
  <2>2. owed' \in Ver
    BY ConstantFacts DEF TypeOK, Ver, Op
  <2> QED
    BY <2>1, <2>2, Zenon DEF TypeOK
<1>2. Sound(setup)'
  BY Zenon
<1>3. Places'
  BY Zenon DEF Places
<1>4. Tables'
  BY Zenon DEF Tables, Starting, Saving, Deleting
<1>5. Machines'
  BY Zenon DEF Machines
<1>6. Versions'
  BY DEF TypeOK, Pod, Op, Versions
<1>7. Saved'
  BY Zenon DEF TypeOK, Pod, Op, None, NoVM, Ver, ID, Saved, Starting, Saving, Reliable,
     Machines, Tables, Owed
<1>8. Owed'
  BY Zenon DEF Owed
<1>9. Known'
  BY DEF Known, Starting
<1> QED
  BY <1>1, <1>2, <1>3, <1>4, <1>5, <1>6, <1>7, <1>8, <1>9, Zenon

LEMMA InvHibernateStart ==
    ASSUME Inv, HibernateStart, UNCHANGED setup
    PROVE  Inv'
<1> USE NodesAssumption, BoundsAssumption, SetupFacts DEF Inv, Goto, May, Here,
     Exists, HasRegistry, DestroyOrphans, stores, tables, history, Free,
     HibernateStart
<1>0. pod.node \in Nodes
  BY Zenon DEF Tables, TypeOK, Pod, None
<1>1. TypeOK'
  BY Zenon DEF TypeOK, Pod, Op, PCs, Ver, ID, LifecycleStates, None, NoVM
<1>2. Sound(setup)'
  OBVIOUS
<1>3. Places'
  BY DEF Places
<1>4. Tables'
  BY DEF Tables, Starting, Saving, Deleting
<1>5. Machines'
  BY DEF Machines
<1>6. Versions'
  BY DEF Versions
<1>7. Saved'
  BY DEF Saved
<1>8. Owed'
  BY DEF Owed
<1>9. Known'
  BY DEF Known, Starting
<1> QED
  BY <1>1, <1>2, <1>3, <1>4, <1>5, <1>6, <1>7, <1>8, <1>9, Zenon

LEMMA InvHibernatePrepareFails ==
    ASSUME Inv, HibernatePrepareFails, UNCHANGED setup
    PROVE  Inv'
<1> USE NodesAssumption, BoundsAssumption, SetupFacts DEF Inv, Goto, May, Here,
     Exists, HasRegistry, DestroyOrphans, stores, tables, history, FailHibernate,
     Idle, HibernatePrepareFails
<1>0. pod.node \in Nodes
  BY Zenon DEF Tables, TypeOK, Pod, None
<1>1. TypeOK'
  <2>1. pod' \in Pod
    BY <1>0, ConstantFacts, Zenon DEF TypeOK, Pod, LifecycleStates, ID, None
  <2>2. op' \in Op
    BY <1>0, ConstantFacts, Zenon DEF TypeOK, Op, PCs, Ver
  <2> QED
    BY <2>1, <2>2, Zenon DEF TypeOK
<1>2. Sound(setup)'
  BY Zenon
<1>3. Places'
  BY Zenon DEF TypeOK, Pod, Op, Places
<1>4. Tables'
  BY Zenon DEF TypeOK, Pod, Op, Tables, Starting, Saving, Deleting
<1>5. Machines'
  BY Zenon DEF TypeOK, Pod, Op, Machines
<1>6. Versions'
  <2>1. \A m \in Nodes : vm'[m].ver <= clock' /\ snap'[m] <= clock'
    BY <1>0, Zenon DEF TypeOK, Ver, Versions
  <2>2. \A m \in Nodes : vm'[m].id # 0 => vm'[m].ver # 0
    BY Zenon DEF TypeOK, Versions
  <2>3. tag' <= clock' /\ op'.ver <= clock' /\ owed' <= clock'
    <3>1. op'.ver = 0
      BY Zenon
    <3>2. tag' = tag /\ owed' = owed /\ clock' = clock
      BY Zenon
    <3> QED
      BY ClockFacts, <3>1, <3>2, Zenon
  <2> QED
    BY <2>1, <2>2, <2>3, Zenon DEF Versions
<1>7. Saved'
  BY Zenon DEF Saved
<1>8. Owed'
  BY Zenon DEF TypeOK, Pod, Op, Owed
<1>9. Known'
  BY Zenon DEF TypeOK, Pod, Op, Known, Starting, Reliable
<1> QED
  BY <1>1, <1>2, <1>3, <1>4, <1>5, <1>6, <1>7, <1>8, <1>9, Zenon

LEMMA InvHibernateSave ==
    ASSUME Inv, HibernateSave, UNCHANGED setup
    PROVE  Inv'
<1> USE NodesAssumption, BoundsAssumption, SetupFacts DEF Inv, Goto, May, Here,
     Exists, HasRegistry, DestroyOrphans, stores, tables, history, HibernateSave
<1>0. pod.node \in Nodes
  BY Zenon DEF Tables, TypeOK, Pod, None
<1>1. TypeOK'
  <2>1. snap' \in [Nodes -> Ver]
    BY <1>0, ConstantFacts, Zenon DEF TypeOK, Ver
  <2>2. op' \in Op
    BY <1>0, ConstantFacts, Zenon DEF TypeOK, Op, PCs, Ver, ID
  <2> QED
    BY <2>1, <2>2, Zenon DEF TypeOK
<1>2. Sound(setup)'
  OBVIOUS
<1>3. Places'
  BY DEF Places
<1>4. Tables'
  BY DEF Tables, Starting, Saving, Deleting
<1>5. Machines'
  BY DEF Machines
<1>6. Versions'
  BY <1>0 DEF TypeOK, Pod, Op, None, Versions, NoVM, Ver
<1>7. Saved'
  BY <1>0, <1>1 DEF TypeOK, Pod, Op, Ver, ID, None, NoVM, Starting, Saving,
     Deleting, Sound, Reliable, Places, Tables, Machines, Versions, Saved, Owed
<1>8. Owed'
  BY <1>0, Zenon DEF TypeOK, Pod, Op, None, NoVM, Ver, ID, Owed, Starting, Saving,
     Reliable, Tables, Machines, Saved, Places
<1>9. Known'
  BY DEF Known, Starting
<1> QED
  BY <1>1, <1>2, <1>3, <1>4, <1>5, <1>6, <1>7, <1>8, <1>9, Zenon

LEMMA InvHibernateSaveFails ==
    ASSUME Inv, HibernateSaveFails, UNCHANGED setup
    PROVE  Inv'
<1> USE NodesAssumption, BoundsAssumption, SetupFacts DEF Inv, Goto, May, Here,
     Exists, HasRegistry, DestroyOrphans, stores, tables, history,
     HibernateSaveFails
<1>0. pod.node \in Nodes
  BY Zenon DEF Tables, TypeOK, Pod, None
<1>1. TypeOK'
  <2>1. snap' \in [Nodes -> Ver]
    <3>1. 0 \in Ver
      BY SMT DEF Ver
    <3> QED
      BY <1>0, <3>1, Zenon DEF TypeOK
  <2>2. op' \in Op
    BY <1>0, ConstantFacts, Zenon DEF TypeOK, Op, PCs, Ver
  <2> QED
    BY <2>1, <2>2, Zenon DEF TypeOK
<1>2. Sound(setup)'
  OBVIOUS
<1>3. Places'
  BY DEF Places
<1>4. Tables'
  BY DEF Tables, Starting, Saving, Deleting
<1>5. Machines'
  BY DEF Machines
<1>6. Versions'
  <2>1. \A m \in Nodes : vm'[m].ver <= clock' /\ snap'[m] <= clock'
    <3>1. vm' = vm /\ clock' = clock
      BY Zenon
    <3>2. \A m \in Nodes : snap'[m] \in {0, snap[m], vm[m].ver}
      BY <1>0, Zenon DEF TypeOK
    <3> QED
      BY <3>1, <3>2, SnapsKnown, Zenon
  <2>2. \A m \in Nodes : vm'[m].id # 0 => vm'[m].ver # 0
    BY DEF TypeOK, Versions
  <2>3. tag' <= clock' /\ op'.ver <= clock' /\ owed' <= clock'
    BY DEF TypeOK, Op, Ver, Versions
  <2> QED
    BY <2>1, <2>2, <2>3, Zenon DEF Versions
<1>7. Saved'
  BY DEF Saved
<1>8. Owed'
  BY <1>0, Zenon DEF TypeOK, Pod, Op, None, NoVM, Ver, ID, Owed, Starting, Saving,
     Reliable, Tables, Machines, Saved, Places
<1>9. Known'
  BY DEF Known, Starting
<1> QED
  BY <1>1, <1>2, <1>3, <1>4, <1>5, <1>6, <1>7, <1>8, <1>9, Zenon

LEMMA InvHibernatePush ==
    ASSUME Inv, HibernatePush, UNCHANGED setup
    PROVE  Inv'
<1> USE NodesAssumption, BoundsAssumption, SetupFacts DEF Inv, Goto, May, Here,
     Exists, HasRegistry, DestroyOrphans, stores, tables, history, HibernatePush
<1>0. pod.node \in Nodes
  BY Zenon DEF Tables, TypeOK, Pod, None
<1>1. TypeOK'
  <2>1. tag' \in Ver
    BY <1>0, ConstantFacts DEF TypeOK, Ver
  <2>2. op' \in Op
    BY <1>0, ConstantFacts, Zenon DEF TypeOK, Op, PCs, Ver
  <2> QED
    BY <2>1, <2>2, Zenon DEF TypeOK
<1>2. Sound(setup)'
  OBVIOUS
<1>3. Places'
  BY DEF Places
<1>4. Tables'
  BY ZenonT(60) DEF TypeOK, Pod, Op, Tables, Starting, Saving, Deleting
<1>5. Machines'
  BY Zenon DEF TypeOK, Pod, Op, Machines
<1>6. Versions'
  BY <1>0, Zenon DEF TypeOK, Pod, Op, None, Versions, NoVM, Ver
<1>7. Saved'
  BY Zenon DEF TypeOK, Pod, Op, Saved
<1>8. Owed'
  BY <1>0, Zenon DEF TypeOK, Pod, Op, None, NoVM, Ver, ID, Owed, Starting, Saving,
     Reliable, Tables, Machines, Saved, Places
<1>9. Known'
  BY DEF TypeOK, Pod, Op, Known, Starting, Reliable
<1> QED
  BY <1>1, <1>2, <1>3, <1>4, <1>5, <1>6, <1>7, <1>8, <1>9, Zenon

LEMMA InvHibernatePushFails ==
    ASSUME Inv, HibernatePushFails, UNCHANGED setup
    PROVE  Inv'
<1> USE NodesAssumption, BoundsAssumption, SetupFacts DEF Inv, Goto, May, Here,
     Exists, HasRegistry, DestroyOrphans, stores, tables, history,
     HibernatePushFails
<1>0. pod.node \in Nodes
  BY Zenon DEF Tables, TypeOK, Pod, None
<1>1. TypeOK'
  <2>1. tag' \in Ver
    BY <1>0, ConstantFacts DEF TypeOK, Ver
  <2>2. op' \in Op
    BY <1>0, ConstantFacts, Zenon DEF TypeOK, Op, PCs, Ver
  <2> QED
    BY <2>1, <2>2, Zenon DEF TypeOK
<1>2. Sound(setup)'
  OBVIOUS
<1>3. Places'
  BY DEF Places
<1>4. Tables'
  BY DEF Tables, Starting, Saving, Deleting
<1>5. Machines'
  BY DEF Machines
<1>6. Versions'
  BY <1>0, Zenon DEF TypeOK, Pod, Op, None, Versions, NoVM, Ver
<1>7. Saved'
  BY DEF Saved
<1>8. Owed'
  BY <1>0, Zenon DEF TypeOK, Pod, Op, None, NoVM, Ver, ID, Owed, Starting, Saving,
     Reliable, Tables, Machines, Saved, Places
<1>9. Known'
  BY DEF Known, Starting
<1> QED
  BY <1>1, <1>2, <1>3, <1>4, <1>5, <1>6, <1>7, <1>8, <1>9, Zenon

LEMMA InvHibernateClear ==
    ASSUME Inv, HibernateClear, UNCHANGED setup
    PROVE  Inv'
<1> USE NodesAssumption, BoundsAssumption, SetupFacts DEF Inv, Goto, May, Here,
     Exists, HasRegistry, DestroyOrphans, stores, tables, history, ClearVMID,
     HibernateClear
<1>0. pod.node \in Nodes
  BY DEF Tables, TypeOK, Pod, None
<1>1. TypeOK'
  <2>1. pod' \in Pod
    <3>1. pod.vmid \in ID /\ bound \in ID /\ 0 \in ID /\ vm[pod.node].id \in ID
      BY <1>0 DEF TypeOK, Pod, ID
    <3> QED
      BY <3>1, Zenon DEF TypeOK, Pod, LifecycleStates
  <2>2. op' \in Op
    BY <1>0, ConstantFacts, Zenon DEF TypeOK, Op, PCs, Ver
  <2> QED
    BY <2>1, <2>2, Zenon DEF TypeOK
<1>2. Sound(setup)'
  OBVIOUS
<1>3. Places'
  BY DEF TypeOK, Pod, Op, Places
<1>4. Tables'
  BY DEF TypeOK, Pod, Op, Tables, Starting, Saving, Deleting
<1>5. Machines'
  BY Zenon DEF TypeOK, Pod, Op, Machines
<1>6. Versions'
  BY DEF Versions
<1>7. Saved'
  BY Zenon DEF TypeOK, Pod, Op, Saved
<1>8. Owed'
  BY DEF TypeOK, Pod, Op, Owed
<1>9. Known'
  BY DEF TypeOK, Pod, Op, Known, Starting, Reliable
<1> QED
  BY <1>1, <1>2, <1>3, <1>4, <1>5, <1>6, <1>7, <1>8, <1>9, Zenon

LEMMA InvHibernateRemove ==
    ASSUME Inv, HibernateRemove, UNCHANGED setup
    PROVE  Inv'
<1> USE NodesAssumption, BoundsAssumption, SetupFacts DEF Inv, Goto, May, Here,
     Exists, HasRegistry, DestroyOrphans, stores, tables, history, HibernateRemove
<1>0. pod.node \in Nodes
  BY Zenon DEF Tables, TypeOK, Pod, None
<1>1. TypeOK'
  <2>1. vm' \in [Nodes -> [id: ID, ver: Ver]]
    BY <1>0, ConstantFacts, Zenon DEF TypeOK, ID, Ver, NoVM
  <2>2. owed' \in Ver
    BY <1>0, ConstantFacts, Zenon DEF TypeOK, Ver, Op
  <2>3. op' \in Op
    BY <1>0, ConstantFacts, Zenon DEF TypeOK, Op, PCs, Ver
  <2> QED
    BY <2>1, <2>2, <2>3, Zenon DEF TypeOK
<1>2. Sound(setup)'
  OBVIOUS
<1>3. Places'
  BY <1>0 DEF TypeOK, Pod, Op, None, Places, NoVM, Ver
<1>4. Tables'
  BY DEF Tables, Starting, Saving, Deleting
<1>5. Machines'
  BY <1>0 DEF TypeOK, Pod, Op, None, Machines, NoVM, Ver, Tables
<1>6. Versions'
  BY <1>0 DEF TypeOK, Pod, Op, None, Versions, NoVM, Ver
<1>7. Saved'
  BY DEF Saved
<1>8. Owed'
  BY <1>0, <1>1 DEF TypeOK, Pod, Op, Ver, ID, None, NoVM, Starting, Saving,
     Deleting, Sound, Reliable, Places, Tables, Machines, Versions, Saved, Owed,
     Known
<1>9. Known'
  BY <1>0, Zenon DEF TypeOK, Pod, Op, None, Known, Starting, Reliable, NoVM, Ver, Tables,
     Machines
<1> QED
  BY <1>1, <1>2, <1>3, <1>4, <1>5, <1>6, <1>7, <1>8, <1>9

LEMMA InvHibernateRemoveFails ==
    ASSUME Inv, HibernateRemoveFails, UNCHANGED setup
    PROVE  Inv'
<1> USE NodesAssumption, BoundsAssumption, SetupFacts DEF Inv, Goto, May, Here,
     Exists, HasRegistry, DestroyOrphans, stores, tables, history,
     HibernateRemoveFails
<1>0. pod.node \in Nodes
  BY Zenon DEF Tables, TypeOK, Pod, None
<1>1. TypeOK'
  BY ZenonT(60) DEF TypeOK, Pod, Op, PCs, Ver, ID, LifecycleStates, None, NoVM
<1>2. Sound(setup)'
  OBVIOUS
<1>3. Places'
  BY DEF Places
<1>4. Tables'
  BY DEF Tables, Starting, Saving, Deleting
<1>5. Machines'
  BY DEF Machines
<1>6. Versions'
  BY DEF Versions
<1>7. Saved'
  BY DEF Saved
<1>8. Owed'
  BY DEF Owed
<1>9. Known'
  BY DEF Known, Starting
<1> QED
  BY <1>1, <1>2, <1>3, <1>4, <1>5, <1>6, <1>7, <1>8, <1>9, Zenon

LEMMA InvHibernateRemoveHalfFails ==
    ASSUME Inv, HibernateRemoveHalfFails, UNCHANGED setup
    PROVE  Inv'
<1> USE NodesAssumption, BoundsAssumption, SetupFacts DEF Inv, Goto, May, Here,
     Exists, HasRegistry, DestroyOrphans, stores, tables, history,
     HibernateRemoveHalfFails
<1>0. pod.node \in Nodes
  BY Zenon DEF Tables, TypeOK, Pod, None
<1>1. TypeOK'
  <2>1. vm' \in [Nodes -> [id: ID, ver: Ver]]
    BY <1>0, ConstantFacts, Zenon DEF TypeOK, ID, Ver, NoVM
  <2>2. owed' \in Ver
    BY <1>0, ConstantFacts, Zenon DEF TypeOK, Ver, Op
  <2>3. op' \in Op
    BY <1>0, ConstantFacts, Zenon DEF TypeOK, Op, PCs, Ver
  <2> QED
    BY <2>1, <2>2, <2>3, Zenon DEF TypeOK
<1>2. Sound(setup)'
  OBVIOUS
<1>3. Places'
  BY <1>0 DEF TypeOK, Pod, Op, None, Places, NoVM, Ver
<1>4. Tables'
  BY DEF Tables, Starting, Saving, Deleting
<1>5. Machines'
  BY DEF Machines
<1>6. Versions'
  BY <1>0 DEF TypeOK, Pod, Op, None, Versions, NoVM, Ver
<1>7. Saved'
  BY DEF Saved
<1>8. Owed'
  BY <1>0, <1>1 DEF TypeOK, Pod, Op, Ver, ID, None, NoVM, Starting, Saving,
     Deleting, Sound, Reliable, Places, Tables, Machines, Versions, Saved, Owed,
     Known
<1>9. Known'
  BY DEF TypeOK, Pod, Op, Known, Starting, Reliable
<1> QED
  BY <1>1, <1>2, <1>3, <1>4, <1>5, <1>6, <1>7, <1>8, <1>9

LEMMA InvHibernateCompensate ==
    ASSUME Inv, HibernateCompensate, UNCHANGED setup
    PROVE  Inv'
<1> USE NodesAssumption, BoundsAssumption, SetupFacts DEF Inv, Goto, May, Here,
     Exists, HasRegistry, DestroyOrphans, stores, tables, history,
     HibernateCompensate
<1>0. pod.node \in Nodes
  BY Zenon DEF Tables, TypeOK, Pod, None
<1>1. TypeOK'
  <2>1. tag' \in Ver
    BY <1>0, ConstantFacts DEF TypeOK, Ver
  <2>2. op' \in Op
    BY <1>0, ConstantFacts, Zenon DEF TypeOK, Op, PCs, Ver
  <2> QED
    BY <2>1, <2>2, Zenon DEF TypeOK
<1>2. Sound(setup)'
  OBVIOUS
<1>3. Places'
  BY DEF Places
<1>4. Tables'
  BY DEF Tables, Starting, Saving, Deleting
<1>5. Machines'
  BY DEF Machines
<1>6. Versions'
  BY DEF TypeOK, Pod, Op, Versions
<1>7. Saved'
  BY DEF Saved
<1>8. Owed'
  BY <1>0, <1>1, Zenon DEF TypeOK, Pod, Op, Ver, ID, None, NoVM, Starting, Saving,
     Deleting, Sound, Reliable, Places, Tables, Machines, Versions, Saved, Owed,
     Known
<1>9. Known'
  BY DEF Known, Starting
<1> QED
  BY <1>1, <1>2, <1>3, <1>4, <1>5, <1>6, <1>7, <1>8, <1>9, Zenon

LEMMA InvHibernateRollback ==
    ASSUME Inv, HibernateRollback, UNCHANGED setup
    PROVE  Inv'
<1> USE NodesAssumption, BoundsAssumption, SetupFacts DEF Inv, Goto, May, Here,
     Exists, HasRegistry, DestroyOrphans, stores, tables, history, Idle,
     HibernateRollback
<1>0. pod.node \in Nodes
  BY Zenon DEF Tables, TypeOK, Pod, None
<1>1. TypeOK'
  <2>1. pod' \in Pod
    <3>1. pod.vmid \in ID /\ bound \in ID /\ 0 \in ID /\ vm[pod.node].id \in ID
      BY <1>0 DEF TypeOK, Pod, ID
    <3> QED
      BY <3>1, ZenonT(60) DEF TypeOK, Pod, LifecycleStates
  <2>2. op' \in Op
    BY <1>0, ConstantFacts DEF TypeOK, Op, PCs, Ver
  <2> QED
    BY <2>1, <2>2, Zenon DEF TypeOK
<1>2. Sound(setup)'
  OBVIOUS
<1>3. Places'
  BY DEF Places
<1>4. Tables'
  BY DEF Tables, Starting, Saving, Deleting
<1>5. Machines'
  BY DEF Machines
<1>6. Versions'
  BY DEF TypeOK, Pod, Op, Versions
<1>7. Saved'
  BY DEF Saved
<1>8. Owed'
  BY DEF Owed
<1>9. Known'
  BY <1>0 DEF TypeOK, Pod, Op, None, Known, Starting, Reliable, NoVM, Ver, Tables,
     Machines
<1> QED
  BY <1>1, <1>2, <1>3, <1>4, <1>5, <1>6, <1>7, <1>8, <1>9, Zenon

LEMMA InvHibernateForget ==
    ASSUME Inv, HibernateForget, UNCHANGED setup
    PROVE  Inv'
<1> USE NodesAssumption, BoundsAssumption, SetupFacts DEF Inv, Goto, May, Here,
     Exists, HasRegistry, DestroyOrphans, stores, tables, history, Idle,
     HibernateForget
<1>0. pod.node \in Nodes
  BY Zenon DEF Tables, TypeOK, Pod, None
<1>1. TypeOK'
  <2>1. pod' \in Pod
    <3>1. PICK vmid \in {0, pod.vmid} :
            pod' = [pod EXCEPT !.vmid = vmid, !.lc = "hibernated"]
      BY Zenon
    <3>2. vmid \in ID
      BY DEF TypeOK, Pod, ID
    <3> QED
      BY <3>1, <3>2, Zenon DEF TypeOK, Pod, LifecycleStates
  <2>2. bound' \in ID
    BY <1>0, ConstantFacts DEF TypeOK, ID
  <2>3. op' \in Op
    BY <1>0, ConstantFacts DEF TypeOK, Op, PCs, Ver
  <2> QED
    BY <2>1, <2>2, <2>3, Zenon DEF TypeOK
<1>2. Sound(setup)'
  OBVIOUS
<1>3. Places'
  BY DEF Places
<1>4. Tables'
  BY DEF Tables, Starting, Saving, Deleting
<1>5. Machines'
  BY Zenon DEF Machines
<1>6. Versions'
  BY DEF TypeOK, Pod, Op, Versions
<1>7. Saved'
  BY Zenon DEF Saved
<1>8. Owed'
  BY DEF Owed
<1>9. Known'
  BY <1>0 DEF TypeOK, Pod, Op, None, Known, Starting, Reliable, NoVM, Ver, Tables,
     Machines
<1> QED
  BY <1>1, <1>2, <1>3, <1>4, <1>5, <1>6, <1>7, <1>8, <1>9, Zenon

LEMMA InvLift ==
    ASSUME Inv, Lift, UNCHANGED setup
    PROVE  Inv'
<1> USE NodesAssumption, BoundsAssumption, SetupFacts DEF Inv, Goto, May, Here,
     Exists, HasRegistry, DestroyOrphans, stores, tables, history, Free, Lift
<1>0. pod.node \in Nodes
  BY Zenon DEF Tables, TypeOK, Pod, None
<1>1. TypeOK'
  BY Zenon DEF TypeOK, Pod, Op, PCs, Ver, ID, LifecycleStates, None, NoVM
<1>2. Sound(setup)'
  BY Zenon
<1>3. Places'
  BY Zenon DEF TypeOK, Pod, Op, Places
<1>4. Tables'
  BY Zenon DEF TypeOK, Pod, Op, Tables, Starting, Saving, Deleting
<1>5. Machines'
  BY Zenon DEF TypeOK, Pod, Op, Machines
<1>6. Versions'
  BY Zenon DEF Versions
<1>7. Saved'
  BY Zenon DEF Saved
<1>8. Owed'
  BY Zenon DEF TypeOK, Pod, Op, Owed
<1>9. Known'
  BY Zenon DEF TypeOK, Pod, Op, Known, Starting, Reliable
<1> QED
  BY <1>1, <1>2, <1>3, <1>4, <1>5, <1>6, <1>7, <1>8, <1>9, Zenon

LEMMA InvWakeStart ==
    ASSUME Inv, WakeStart, UNCHANGED setup
    PROVE  Inv'
<1> USE NodesAssumption, BoundsAssumption, SetupFacts DEF Inv, Goto, May, Here,
     Exists, HasRegistry, DestroyOrphans, stores, tables, history, Free, WakeStart
<1>0. pod.node \in Nodes
  BY Zenon DEF Tables, TypeOK, Pod, None
<1>1. TypeOK'
  <2>1. pod' \in Pod
    <3>1. pod.vmid \in ID /\ bound \in ID /\ 0 \in ID /\ vm[pod.node].id \in ID
      BY <1>0 DEF TypeOK, Pod, ID
    <3> QED
      BY <3>1, ZenonT(60) DEF TypeOK, Pod, LifecycleStates
  <2>2. op' \in Op
    BY <1>0, ConstantFacts, Zenon DEF TypeOK, Op, PCs, Ver
  <2> QED
    BY <2>1, <2>2, Zenon DEF TypeOK
<1>2. Sound(setup)'
  OBVIOUS
<1>3. Places'
  BY DEF Places
<1>4. Tables'
  BY DEF Tables, Starting, Saving, Deleting
<1>5. Machines'
  BY DEF Machines
<1>6. Versions'
  BY DEF Versions
<1>7. Saved'
  BY DEF Saved
<1>8. Owed'
  BY DEF Owed
<1>9. Known'
  BY DEF Known, Starting
<1> QED
  BY <1>1, <1>2, <1>3, <1>4, <1>5, <1>6, <1>7, <1>8, <1>9, Zenon

LEMMA InvCreateStart ==
    ASSUME Inv, CreateStart, UNCHANGED setup
    PROVE  Inv'
<1> USE NodesAssumption, BoundsAssumption, SetupFacts DEF Inv, Goto, May, Here,
     Exists, HasRegistry, DestroyOrphans, stores, tables, history, Free, CreateStart
<1>0. pod.node \in Nodes
  BY Zenon DEF Tables, TypeOK, Pod, None
<1>1. TypeOK'
  BY Zenon DEF TypeOK, Pod, Op, PCs, Ver, ID, LifecycleStates, None, NoVM
<1>2. Sound(setup)'
  OBVIOUS
<1>3. Places'
  BY DEF Places
<1>4. Tables'
  BY DEF Tables, Starting, Saving, Deleting
<1>5. Machines'
  BY DEF Machines
<1>6. Versions'
  BY DEF Versions
<1>7. Saved'
  BY DEF Saved
<1>8. Owed'
  BY DEF Owed
<1>9. Known'
  BY DEF Known, Starting
<1> QED
  BY <1>1, <1>2, <1>3, <1>4, <1>5, <1>6, <1>7, <1>8, <1>9, Zenon

LEMMA InvCreateAdopts ==
    ASSUME Inv, CreateAdopts, UNCHANGED setup
    PROVE  Inv'
<1> USE NodesAssumption, BoundsAssumption, SetupFacts DEF Inv, Goto, May, Here,
     Exists, HasRegistry, DestroyOrphans, stores, tables, history, CreateAdopts
<1>0. pod.node \in Nodes
  BY Zenon DEF Tables, TypeOK, Pod, None
<1>1. TypeOK'
  BY ZenonT(60) DEF TypeOK, Pod, Op, PCs, Ver, ID, LifecycleStates, None, NoVM
<1>2. Sound(setup)'
  OBVIOUS
<1>3. Places'
  BY DEF Places
<1>4. Tables'
  BY DEF Tables, Starting, Saving, Deleting
<1>5. Machines'
  BY DEF Machines
<1>6. Versions'
  BY DEF Versions
<1>7. Saved'
  BY DEF Saved
<1>8. Owed'
  BY DEF Owed
<1>9. Known'
  BY DEF Known, Starting
<1> QED
  BY <1>1, <1>2, <1>3, <1>4, <1>5, <1>6, <1>7, <1>8, <1>9, Zenon

LEMMA InvCreateDecides ==
    ASSUME Inv, CreateDecides, UNCHANGED setup
    PROVE  Inv'
<1> USE NodesAssumption, BoundsAssumption, SetupFacts DEF Inv, Goto, May, Here,
     Exists, HasRegistry, DestroyOrphans, stores, tables, history, Evidence,
     CreateDecides
<1>0. pod.node \in Nodes
  BY Zenon DEF Tables, TypeOK, Pod, None
<1>1. TypeOK'
  <2>1. index' \in [Nodes -> ID]
    BY <1>0, ConstantFacts DEF TypeOK, ID
  <2>2. op' \in Op
    BY <1>0, ConstantFacts, Zenon DEF TypeOK, Op, PCs, Ver
  <2> QED
    BY <2>1, <2>2, Zenon DEF TypeOK
<1>2. Sound(setup)'
  OBVIOUS
<1>3. Places'
  BY DEF Places
<1>4. Tables'
  BY DEF Tables, Starting, Saving, Deleting
<1>5. Machines'
  BY DEF Machines
<1>6. Versions'
  BY DEF Versions
<1>7. Saved'
  BY DEF Saved
<1>8. Owed'
  BY <1>0, Zenon DEF TypeOK, Pod, Op, None, NoVM, Ver, ID, Owed, Starting, Saving,
     Reliable, Tables, Machines, Saved, Places
<1>9. Known'
  BY DEF Known, Starting
<1> QED
  BY <1>1, <1>2, <1>3, <1>4, <1>5, <1>6, <1>7, <1>8, <1>9, Zenon

LEMMA InvCreateDecideFails ==
    ASSUME Inv, CreateDecideFails, UNCHANGED setup
    PROVE  Inv'
<1> USE NodesAssumption, BoundsAssumption, SetupFacts DEF Inv, Goto, May, Here,
     Exists, HasRegistry, DestroyOrphans, stores, tables, history, FailBringUp,
     Idle, CreateDecideFails
<1>0. pod.node \in Nodes
  BY Zenon DEF Tables, TypeOK, Pod, None
<1>1. TypeOK'
  <2>1. pod' \in Pod
    BY <1>0, ConstantFacts, Zenon DEF TypeOK, Pod, LifecycleStates, ID, None
  <2>2. tracked' \in BOOLEAN
    BY <1>0, ConstantFacts, Zenon DEF TypeOK, Op
  <2>3. op' \in Op
    BY <1>0, ConstantFacts, Zenon DEF TypeOK, Op, PCs, Ver
  <2> QED
    BY <2>1, <2>2, <2>3, Zenon DEF TypeOK
<1>2. Sound(setup)'
  OBVIOUS
<1>3. Places'
  BY DEF Places
<1>4. Tables'
  BY Zenon DEF Tables, Starting, Saving, Deleting
<1>5. Machines'
  BY DEF Machines
<1>6. Versions'
  BY DEF TypeOK, Pod, Op, Versions
<1>7. Saved'
  BY Zenon DEF Saved
<1>8. Owed'
  BY DEF Owed
<1>9. Known'
  BY DEF Known, Starting
<1> QED
  BY <1>1, <1>2, <1>3, <1>4, <1>5, <1>6, <1>7, <1>8, <1>9, Zenon

LEMMA InvResolveWakeSource ==
    ASSUME Inv, ResolveWakeSource, UNCHANGED setup
    PROVE  Inv'
<1> USE NodesAssumption, BoundsAssumption, SetupFacts DEF Inv, Goto, May, Here,
     Exists, HasRegistry, DestroyOrphans, stores, tables, history, LocalIsCurrent,
     ResolveWakeSource
<1>0. pod.node \in Nodes
  BY Zenon DEF Tables, TypeOK, Pod, None
<1>s. /\ pod.node \in setup.nodes
      /\ op.pc = "resolve"
      /\ op'.pc = "clone"
      /\ ~setup.registry => snap' = snap
      /\ \A m \in Nodes : snap'[m] \in {0, snap[m]}
  <2>1. ~setup.registry => tag = 0
    BY Zenon DEF Owed
  <2>2. pod.node \in setup.nodes
    BY <1>0, Zenon DEF Places, None
  <2>3. op.pc = "resolve" /\ op'.pc = "clone"
    BY Zenon DEF TypeOK, Op
  <2>4. ~setup.registry => snap' = snap
    BY <2>1
  <2>5. \A m \in Nodes : snap'[m] \in {0, snap[m]}
    <3>1. snap' \in {snap, [snap EXCEPT ![pod.node] = 0]}
      OBVIOUS
    <3> QED
      BY <3>1 DEF TypeOK
  <2> QED
    BY <2>2, <2>3, <2>4, <2>5, Zenon
<1>1. TypeOK'
  <2>1. op' \in Op
    BY <1>0, ConstantFacts, ZenonT(60) DEF TypeOK, Op, PCs, Ver
  <2>2. snap' \in [Nodes -> Ver]
    <3>1. 0 \in Ver
      BY SMT DEF Ver
    <3>2. snap \in [Nodes -> Ver] /\ snap' \in {snap, [snap EXCEPT ![pod.node] = 0]}
      BY Zenon DEF TypeOK
    <3> QED
      BY <1>0, <3>1, <3>2, Zenon
  <2> QED
    BY <2>1, <2>2 DEF TypeOK
<1>2. Sound(setup)'
  OBVIOUS
<1>3. Places'
  BY DEF Places
<1>4. Tables'
  BY <1>s DEF Tables, Starting, Saving, Deleting
<1>5. Machines'
  BY <1>s DEF Machines
<1>6. Versions'
  <2>1. \A m \in Nodes : vm'[m].ver <= clock' /\ snap'[m] <= clock'
    <3>1. vm' = vm /\ clock' = clock
      BY Zenon
    <3>2. \A m \in Nodes : snap'[m] \in {0, snap[m], vm[m].ver}
      BY <1>0, Zenon DEF TypeOK
    <3> QED
      BY <3>1, <3>2, SnapsKnown, Zenon
  <2>2. \A m \in Nodes : vm'[m].id # 0 => vm'[m].ver # 0
    BY DEF TypeOK, Versions
  <2>3. tag' <= clock' /\ op'.ver <= clock' /\ owed' <= clock'
    BY Zenon DEF TypeOK, Op, Ver, Versions
  <2> QED
    BY <2>1, <2>2, <2>3, Zenon DEF Versions
<1>7. Saved'
  BY <1>s DEF Saved
<1>8. Owed'
  <2>1. owed # 0 => IF setup.registry THEN tag = owed
                    ELSE \A m \in setup.nodes : snap'[m] = owed
    BY <1>s, Zenon DEF Owed
  <2>2. op'.local => snap'[pod.node] = 0 \/ owed \in {0, snap'[pod.node]}
    <3>1. CASE LocalIsCurrent
      BY <1>0, <1>s, <3>1, Zenon DEF Owed
    <3>2. CASE ~LocalIsCurrent
      BY <1>0, <3>2, Zenon DEF TypeOK
    <3> QED
      BY <3>1, <3>2, Zenon
  <2>3. ~op'.local => op'.ver # 0 /\ owed \in {0, op'.ver}
    <3>1. ~op'.local => tag # 0 /\ op'.ver = tag
      BY Zenon DEF TypeOK, Op
    <3> QED
      BY <3>1, Zenon DEF Owed
  <2> QED
    BY <1>s, <2>1, <2>2, <2>3 DEF Owed
<1>9. Known'
  BY ZenonT(60) DEF TypeOK, Pod, Op, Known, Starting, Reliable
<1> QED
  BY <1>1, <1>2, <1>3, <1>4, <1>5, <1>6, <1>7, <1>8, <1>9, Zenon

LEMMA InvResolveWakeSourceFails ==
    ASSUME Inv, ResolveWakeSourceFails, UNCHANGED setup
    PROVE  Inv'
<1> USE NodesAssumption, BoundsAssumption, SetupFacts DEF Inv, Goto, May, Here,
     Exists, HasRegistry, DestroyOrphans, stores, tables, history, LocalIsCurrent,
     FailBringUp, Idle, ResolveWakeSourceFails
<1>0. pod.node \in Nodes
  BY DEF Tables, TypeOK, Pod, None
<1>1. TypeOK'
  <2>1. snap' \in [Nodes -> Ver]
    <3>1. 0 \in Ver
      BY SMT DEF Ver
    <3> QED
      BY <1>0, <3>1, Zenon DEF TypeOK
  <2>2. pod' \in Pod
    BY <1>0, ConstantFacts, Zenon DEF TypeOK, Pod, LifecycleStates, ID, None
  <2>3. tracked' \in BOOLEAN
    BY <1>0, ConstantFacts, Zenon DEF TypeOK, Op
  <2>4. op' \in Op
    BY <1>0, ConstantFacts, Zenon DEF TypeOK, Op, PCs, Ver
  <2> QED
    BY <2>1, <2>2, <2>3, <2>4, Zenon DEF TypeOK
<1>2. Sound(setup)'
  BY Zenon
<1>3. Places'
  BY DEF Places
<1>4. Tables'
  BY Zenon DEF Tables, Starting, Saving, Deleting
<1>5. Machines'
  BY DEF Machines
<1>6. Versions'
  <2>1. \A m \in Nodes : vm'[m].ver <= clock' /\ snap'[m] <= clock'
    <3>1. vm' = vm /\ clock' = clock
      BY Zenon
    <3>2. \A m \in Nodes : snap'[m] \in {0, snap[m], vm[m].ver}
      BY <1>0, Zenon DEF TypeOK
    <3> QED
      BY <3>1, <3>2, SnapsKnown, Zenon
  <2>2. \A m \in Nodes : vm'[m].id # 0 => vm'[m].ver # 0
    BY Zenon DEF TypeOK, Versions
  <2>3. tag' <= clock' /\ op'.ver <= clock' /\ owed' <= clock'
    BY DEF TypeOK, Op, Ver, Versions
  <2> QED
    BY <2>1, <2>2, <2>3, Zenon DEF Versions
<1>7. Saved'
  BY Zenon DEF Saved
<1>8. Owed'
  BY Zenon DEF TypeOK, Pod, Op, Owed
<1>9. Known'
  BY DEF Known, Starting
<1> QED
  BY <1>1, <1>2, <1>3, <1>4, <1>5, <1>6, <1>7, <1>8, <1>9

LEMMA InvClone ==
    ASSUME Inv, Clone, UNCHANGED setup
    PROVE  Inv'
<1> USE NodesAssumption, BoundsAssumption, SetupFacts DEF Inv, Goto, May, Here,
     Exists, HasRegistry, DestroyOrphans, stores, tables, history, StartVM, Clone
<1>0. pod.node \in Nodes
  BY Zenon DEF Tables, TypeOK, Pod, None
<1>1. TypeOK'
  <2>1. lastVM' \in ID
    BY DEF TypeOK, ID
  <2>2. vm' \in [Nodes -> [id: ID, ver: Ver]]
    <3>1. lastVM + 1 \in ID
      BY DEF TypeOK, ID
    <3>2. op.ver \in Ver /\ snap[pod.node] \in Ver
      BY <1>0, Zenon DEF TypeOK, Op
    <3> QED
      BY <1>0, <3>1, <3>2, Zenon DEF TypeOK
  <2>3. owed' \in Ver
    BY <1>0, ConstantFacts DEF TypeOK, Ver, Op
  <2>4. op' \in Op
    BY <1>0, ConstantFacts, Zenon DEF TypeOK, Op, PCs, Ver, ID
  <2> QED
    BY <2>1, <2>2, <2>3, <2>4, Zenon DEF TypeOK
<1>2. Sound(setup)'
  OBVIOUS
<1>3. Places'
  <2>1. \A m \in Nodes : vm[m].id = 0
    <3>1. pod.node \in setup.nodes
      BY <1>0 DEF Places, None
    <3>2. CASE \E m \in Nodes : setup.nodes = {m}
      BY <3>1, <3>2 DEF Places
    <3>3. CASE Reliable(setup)
      BY <3>3, Zenon DEF Known
    <3> QED
      BY <3>2, <3>3 DEF Sound
  <2> QED
    BY <1>0, <2>1 DEF TypeOK, Places, None
<1>4. Tables'
  BY DEF Tables, Starting, Saving, Deleting
<1>5. Machines'
  BY <1>0 DEF TypeOK, Pod, Op, None, NoVM, Ver, ID, Machines, Starting, Saving,
     Reliable, Tables, Places
<1>6. Versions'
  <2>1. \A m \in Nodes : vm'[m].ver <= clock' /\ snap'[m] <= clock'
    BY <1>0, Zenon DEF TypeOK, Op, Ver, Versions
  <2>2. \A m \in Nodes : vm'[m].id # 0 => vm'[m].ver # 0
    BY <1>0, Zenon DEF TypeOK, Op, Ver, Versions, Owed
  <2>3. tag' <= clock' /\ op'.ver <= clock' /\ owed' <= clock'
    BY DEF TypeOK, Op, Ver, Versions
  <2> QED
    BY <2>1, <2>2, <2>3, Zenon DEF Versions
<1>7. Saved'
  BY DEF Saved
<1>8. Owed'
  BY DEF Owed
<1>9. Known'
  BY DEF Known, Starting
<1> QED
  BY <1>1, <1>2, <1>3, <1>4, <1>5, <1>6, <1>7, <1>8, <1>9, Zenon

LEMMA InvBoot ==
    ASSUME Inv, Boot, UNCHANGED setup
    PROVE  Inv'
<1> USE NodesAssumption, BoundsAssumption, SetupFacts DEF Inv, Goto, May, Here,
     Exists, HasRegistry, DestroyOrphans, stores, tables, history, StartVM, Boot
<1>0. pod.node \in Nodes
  BY Zenon DEF Tables, TypeOK, Pod, None
<1>1. TypeOK'
  <2>1. lastVM' \in ID
    BY DEF TypeOK, ID
  <2>2. vm' \in [Nodes -> [id: ID, ver: Ver]]
    BY <1>0, ConstantFacts DEF TypeOK, ID, Ver, NoVM
  <2>3. owed' \in Ver
    BY <1>0, ConstantFacts DEF TypeOK, Ver, Op
  <2>4. op' \in Op
    BY <1>0, ConstantFacts, Zenon DEF TypeOK, Op, PCs, Ver, ID
  <2> QED
    BY <2>1, <2>2, <2>3, <2>4, Zenon DEF TypeOK
<1>2. Sound(setup)'
  OBVIOUS
<1>3. Places'
  <2>1. \A m \in Nodes : vm[m].id = 0
    <3>1. pod.node \in setup.nodes
      BY <1>0, Zenon DEF Places, None
    <3>2. CASE \E m \in Nodes : setup.nodes = {m}
      BY <3>1, <3>2 DEF Places
    <3>3. CASE Reliable(setup)
      BY <3>3, Zenon DEF Known
    <3> QED
      BY <3>2, <3>3, Zenon DEF Sound
  <2> QED
    BY <1>0, <2>1 DEF TypeOK, Places, None
<1>4. Tables'
  BY DEF Tables, Starting, Saving, Deleting
<1>5. Machines'
  BY <1>0 DEF TypeOK, Pod, Op, None, NoVM, Ver, ID, Machines, Starting, Saving,
     Reliable, Tables, Places
<1>6. Versions'
  BY DEF TypeOK, Pod, Op, Versions
<1>7. Saved'
  BY DEF Saved
<1>8. Owed'
  BY DEF Owed
<1>9. Known'
  BY DEF Known, Starting
<1> QED
  BY <1>1, <1>2, <1>3, <1>4, <1>5, <1>6, <1>7, <1>8, <1>9, Zenon

LEMMA InvStartVMFails ==
    ASSUME Inv, StartVMFails, UNCHANGED setup
    PROVE  Inv'
<1> USE NodesAssumption, BoundsAssumption, SetupFacts DEF Inv, Goto, May, Here,
     Exists, HasRegistry, DestroyOrphans, stores, tables, history, FailBringUp,
     Idle, StartVMFails
<1>0. pod.node \in Nodes
  BY Zenon DEF Tables, TypeOK, Pod, None
<1>1. TypeOK'
  <2>1. pod' \in Pod
    BY <1>0, ConstantFacts, Zenon DEF TypeOK, Pod, LifecycleStates, ID, None
  <2>2. tracked' \in BOOLEAN
    BY <1>0, ConstantFacts, Zenon DEF TypeOK, Op
  <2>3. op' \in Op
    BY <1>0, ConstantFacts, Zenon DEF TypeOK, Op, PCs, Ver
  <2> QED
    BY <2>1, <2>2, <2>3, Zenon DEF TypeOK
<1>2. Sound(setup)'
  BY Zenon
<1>3. Places'
  BY DEF Places
<1>4. Tables'
  BY Zenon DEF Tables, Starting, Saving, Deleting
<1>5. Machines'
  BY DEF Machines
<1>6. Versions'
  BY DEF TypeOK, Pod, Op, Versions
<1>7. Saved'
  BY Zenon DEF Saved
<1>8. Owed'
  BY DEF Owed
<1>9. Known'
  BY DEF Known, Starting
<1> QED
  BY <1>1, <1>2, <1>3, <1>4, <1>5, <1>6, <1>7, <1>8, <1>9, Zenon

LEMMA InvBind ==
    ASSUME Inv, Bind, UNCHANGED setup
    PROVE  Inv'
<1> USE NodesAssumption, BoundsAssumption, SetupFacts DEF Inv, Goto, May, Here,
     Exists, HasRegistry, DestroyOrphans, stores, tables, history, Idle, Bind
<1>0. pod.node \in Nodes
  BY Zenon DEF Tables, TypeOK, Pod, None
<1>1. TypeOK'
  <2>1. bound' \in ID
    BY <1>0, ConstantFacts, Zenon DEF TypeOK, ID
  <2>2. index' \in [Nodes -> ID]
    BY <1>0, ConstantFacts DEF TypeOK, ID
  <2>3. pod' \in Pod
    <3>1. pod.vmid \in ID /\ bound \in ID /\ 0 \in ID /\ vm[pod.node].id \in ID
      BY <1>0 DEF TypeOK, Pod, ID
    <3> QED
      BY <3>1, Zenon DEF TypeOK, Pod, LifecycleStates
  <2>4. op' \in Op
    BY <1>0, ConstantFacts DEF TypeOK, Op, PCs, Ver
  <2> QED
    BY <2>1, <2>2, <2>3, <2>4, Zenon DEF TypeOK
<1>2. Sound(setup)'
  BY Zenon
<1>3. Places'
  BY DEF Places
<1>4. Tables'
  <2>1. vm[pod.node].id # 0 /\ bound' = vm[pod.node].id /\ op'.pc = "idle"
    BY Zenon DEF Machines
  <2>2. pod'.node = pod.node
    BY Zenon DEF TypeOK, Pod
  <2>3. tracked'
    BY Zenon DEF Tables, Starting
  <2> QED
    BY <1>0, <2>1, <2>2, <2>3, NodesAssumption, Zenon DEF Tables, Starting, Saving,
       Deleting, None
<1>5. Machines'
  BY DEF Machines
<1>6. Versions'
  BY DEF TypeOK, Pod, Op, Versions
<1>7. Saved'
  BY Zenon DEF Saved
<1>8. Owed'
  BY DEF Owed
<1>9. Known'
  BY DEF Known, Starting
<1> QED
  BY <1>1, <1>2, <1>3, <1>4, <1>5, <1>6, <1>7, <1>8, <1>9, Zenon

LEMMA InvMarkReady ==
    ASSUME Inv, MarkReady, UNCHANGED setup
    PROVE  Inv'
<1> USE NodesAssumption, BoundsAssumption, SetupFacts DEF Inv, Goto, May, Here,
     Exists, HasRegistry, DestroyOrphans, stores, tables, history, MarkReady
<1>0. pod.node \in Nodes
  BY Zenon DEF Tables, TypeOK, Pod, None
<1>1. TypeOK'
  BY Zenon DEF TypeOK, Pod, Op, PCs, Ver, ID, LifecycleStates, None, NoVM
<1>2. Sound(setup)'
  OBVIOUS
<1>3. Places'
  BY DEF Places
<1>4. Tables'
  BY DEF Tables, Starting, Saving, Deleting
<1>5. Machines'
  BY DEF Machines
<1>6. Versions'
  BY DEF Versions
<1>7. Saved'
  BY Zenon DEF Saved
<1>8. Owed'
  BY Zenon DEF TypeOK, Pod, Op, Owed
<1>9. Known'
  BY DEF Known, Starting
<1> QED
  BY <1>1, <1>2, <1>3, <1>4, <1>5, <1>6, <1>7, <1>8, <1>9, Zenon

LEMMA InvDeleteSave ==
    ASSUME Inv, DeleteSave, UNCHANGED setup
    PROVE  Inv'
<1> USE NodesAssumption, BoundsAssumption, SetupFacts DEF Inv, Goto, May, Here,
     Exists, HasRegistry, DestroyOrphans, stores, tables, history, DeleteSave
<1>0. pod.node \in Nodes
  BY Zenon DEF Tables, TypeOK, Pod, None
<1>1. TypeOK'
  <2>1. snap' \in [Nodes -> Ver]
    BY <1>0, ConstantFacts, Zenon DEF TypeOK, Ver
  <2>2. op' \in Op
    BY <1>0, ConstantFacts, Zenon DEF TypeOK, Op, PCs, Ver
  <2> QED
    BY <2>1, <2>2, Zenon DEF TypeOK
<1>2. Sound(setup)'
  OBVIOUS
<1>3. Places'
  BY DEF Places
<1>4. Tables'
  BY DEF Tables, Starting, Saving, Deleting
<1>5. Machines'
  BY DEF Machines
<1>6. Versions'
  BY DEF TypeOK, Pod, Op, Versions
<1>7. Saved'
  BY DEF Saved
<1>8. Owed'
  BY <1>0, Zenon DEF TypeOK, Pod, Op, None, NoVM, Ver, ID, Owed, Starting, Saving,
     Reliable, Tables, Machines, Saved, Places
<1>9. Known'
  BY DEF Known, Starting
<1> QED
  BY <1>1, <1>2, <1>3, <1>4, <1>5, <1>6, <1>7, <1>8, <1>9, Zenon

LEMMA InvDeleteFails ==
    ASSUME Inv, DeleteFails, UNCHANGED setup
    PROVE  Inv'
<1> USE NodesAssumption, BoundsAssumption, SetupFacts DEF Inv, Goto, May, Here,
     Exists, HasRegistry, DestroyOrphans, stores, tables, history, Idle, DeleteFails
<1>0. pod.node \in Nodes
  BY Zenon DEF Tables, TypeOK, Pod, None
<1>1. TypeOK'
  <2>1. snap' \in [Nodes -> Ver]
    <3>1. vm[pod.node].ver \in Ver /\ 0 \in Ver
      BY <1>0 DEF TypeOK, Ver
    <3> QED
      BY <1>0, <3>1, Zenon DEF TypeOK
  <2>2. op' \in Op
    BY <1>0, ConstantFacts, Zenon DEF TypeOK, Op, PCs, Ver
  <2> QED
    BY <2>1, <2>2, Zenon DEF TypeOK
<1>2. Sound(setup)'
  BY Zenon
<1>3. Places'
  BY Zenon DEF Places
<1>4. Tables'
  BY Zenon DEF Tables, Starting, Saving, Deleting
<1>5. Machines'
  BY Zenon DEF Machines
<1>6. Versions'
  <2>1. \A m \in Nodes : vm'[m].ver <= clock' /\ snap'[m] <= clock'
    <3>1. vm' = vm /\ clock' = clock
      BY Zenon
    <3>2. \A m \in Nodes : snap'[m] \in {0, snap[m], vm[m].ver}
      BY <1>0, Zenon DEF TypeOK
    <3> QED
      BY <3>1, <3>2, SnapsKnown, Zenon
  <2>2. \A m \in Nodes : vm'[m].id # 0 => vm'[m].ver # 0
    BY DEF TypeOK, Versions
  <2>3. tag' <= clock' /\ op'.ver <= clock' /\ owed' <= clock'
    BY DEF TypeOK, Op, Ver, Versions
  <2> QED
    BY <2>1, <2>2, <2>3, Zenon DEF Versions
<1>7. Saved'
  BY Zenon DEF Saved
<1>8. Owed'
  BY <1>0, Zenon DEF TypeOK, Pod, Op, None, NoVM, Ver, ID, Owed, Starting, Saving,
     Reliable, Tables, Machines, Saved, Places
<1>9. Known'
  BY DEF Known, Starting
<1> QED
  BY <1>1, <1>2, <1>3, <1>4, <1>5, <1>6, <1>7, <1>8, <1>9, Zenon

LEMMA InvDeleteVM ==
    ASSUME Inv, DeleteVM, UNCHANGED setup
    PROVE  Inv'
<1> USE NodesAssumption, BoundsAssumption, SetupFacts DEF Inv, Goto, May, Here,
     Exists, HasRegistry, DestroyOrphans, stores, tables, history, DeleteVM
<1>0. pod.node \in Nodes
  BY Zenon DEF Tables, TypeOK, Pod, None
<1>1. TypeOK'
  <2>1. vm' \in [Nodes -> [id: ID, ver: Ver]]
    BY <1>0, ConstantFacts, Zenon DEF TypeOK, ID, Ver, NoVM
  <2>2. op' \in Op
    BY <1>0, ConstantFacts, Zenon DEF TypeOK, Op, PCs, Ver
  <2> QED
    BY <2>1, <2>2, Zenon DEF TypeOK
<1>2. Sound(setup)'
  OBVIOUS
<1>3. Places'
  BY <1>0 DEF TypeOK, Pod, Op, None, Places, NoVM, Ver
<1>4. Tables'
  BY DEF Tables, Starting, Saving, Deleting
<1>5. Machines'
  BY DEF Machines
<1>6. Versions'
  BY <1>0 DEF TypeOK, Pod, Op, None, Versions, NoVM, Ver
<1>7. Saved'
  BY DEF Saved
<1>8. Owed'
  BY <1>0, Zenon DEF TypeOK, Pod, Op, None, Owed, NoVM, Ver, Machines, Saved
<1>9. Known'
  BY <1>0, <1>1, ZenonT(60) DEF TypeOK, Pod, Op, Ver, ID, None, NoVM, Starting, Saving,
     Deleting, Sound, Reliable, Places, Tables, Machines, Owed, Known
<1> QED
  BY <1>1, <1>2, <1>3, <1>4, <1>5, <1>6, <1>7, <1>8, <1>9, Zenon

LEMMA InvDeleteForgets ==
    ASSUME Inv, DeleteForgets, UNCHANGED setup
    PROVE  Inv'
<1> USE NodesAssumption, BoundsAssumption, SetupFacts DEF Inv, Goto, May, Here,
     Exists, HasRegistry, DestroyOrphans, stores, tables, history, DeleteForgets
<1>0. pod.node \in Nodes
  BY Zenon DEF Tables, TypeOK, Pod, None
<1>1. TypeOK'
  <2>1. snap' \in [Nodes -> Ver]
    <3>1. 0 \in Ver
      BY SMT DEF Ver
    <3> QED
      BY <1>0, <3>1, Zenon DEF TypeOK
  <2>2. owed' \in Ver
    BY <1>0, ConstantFacts DEF TypeOK, Ver, Op
  <2>3. tracked' \in BOOLEAN
    BY <1>0, ConstantFacts, Zenon DEF TypeOK, Op
  <2>4. bound' \in ID
    BY <1>0, ConstantFacts DEF TypeOK, ID
  <2>5. op' \in Op
    BY <1>0, ConstantFacts, Zenon DEF TypeOK, Op, PCs, Ver
  <2> QED
    BY <2>1, <2>2, <2>3, <2>4, <2>5, Zenon DEF TypeOK
<1>2. Sound(setup)'
  BY Zenon
<1>3. Places'
  BY Zenon DEF Places
<1>4. Tables'
  BY DEF Tables, Starting, Saving, Deleting
<1>5. Machines'
  BY DEF Machines
<1>6. Versions'
  <2>1. \A m \in Nodes : snap'[m] <= clock
    <3>1. snap' \in {snap, [snap EXCEPT ![pod.node] = 0]}
      BY Zenon
    <3>2. \A m \in Nodes : snap'[m] \in {snap[m], 0}
      BY <3>1, Zenon DEF TypeOK
    <3> QED
      BY <3>2 DEF TypeOK, Versions
  <2>2. owed' <= clock
    BY DEF TypeOK, Versions
  <2>3. op'.ver = op.ver
    BY Zenon DEF TypeOK, Op
  <2> QED
    BY <2>1, <2>2, <2>3, Zenon DEF Versions
<1>7. Saved'
  BY DEF Saved
<1>8. Owed'
  BY DEF Owed
<1>9. Known'
  BY DEF Known, Starting
<1> QED
  BY <1>1, <1>2, <1>3, <1>4, <1>5, <1>6, <1>7, <1>8, <1>9, Zenon

LEMMA InvFrameworkRemovesPod ==
    ASSUME Inv, FrameworkRemovesPod, UNCHANGED setup
    PROVE  Inv'
<1> USE NodesAssumption, BoundsAssumption, SetupFacts DEF Inv, Goto, May, Here,
     Exists, HasRegistry, DestroyOrphans, stores, tables, history, Idle, NoPod,
     FrameworkRemovesPod
<1>0. pod.node \in Nodes
  BY Zenon DEF Tables, TypeOK, Pod, None
<1>1. TypeOK'
  <2>1. pod' \in Pod
    BY <1>0, ConstantFacts, Zenon DEF TypeOK, Pod, LifecycleStates, ID, None
  <2>2. op' \in Op
    BY <1>0, ConstantFacts, Zenon DEF TypeOK, Op, PCs, Ver
  <2> QED
    BY <2>1, <2>2, Zenon DEF TypeOK
<1>2. Sound(setup)'
  BY Zenon
<1>3. Places'
  BY Zenon DEF Places
<1>4. Tables'
  BY Zenon DEF Tables, Starting, Saving, Deleting
<1>5. Machines'
  BY <1>0, Zenon DEF TypeOK, Pod, Op, None, Machines, NoVM, Ver, Tables
<1>6. Versions'
  <2>1. \A m \in Nodes : vm'[m].ver <= clock' /\ snap'[m] <= clock'
    BY <1>0, Zenon DEF TypeOK, Ver, Versions
  <2>2. \A m \in Nodes : vm'[m].id # 0 => vm'[m].ver # 0
    BY Zenon DEF TypeOK, Versions
  <2>3. tag' <= clock' /\ op'.ver <= clock' /\ owed' <= clock'
    <3>1. op'.ver = 0
      BY Zenon
    <3>2. tag' = tag /\ owed' = owed /\ clock' = clock
      BY Zenon
    <3> QED
      BY ClockFacts, <3>1, <3>2, Zenon
  <2> QED
    BY <2>1, <2>2, <2>3, Zenon DEF Versions
<1>7. Saved'
  BY Zenon DEF Saved
<1>8. Owed'
  BY Zenon DEF Owed
<1>9. Known'
  BY Zenon DEF Known, Starting
<1> QED
  BY <1>1, <1>2, <1>3, <1>4, <1>5, <1>6, <1>7, <1>8, <1>9, Zenon

LEMMA InvEvictGone ==
    ASSUME Inv, EvictGone, UNCHANGED setup
    PROVE  Inv'
<1> USE NodesAssumption, BoundsAssumption, SetupFacts DEF Inv, Goto, May, Here,
     Exists, HasRegistry, DestroyOrphans, stores, tables, history, Free, EvictGone
<1>0. pod.node \in Nodes
  BY Zenon DEF Tables, TypeOK, Pod, None
<1>1. TypeOK'
  <2>1. pod' \in Pod
    BY <1>0, ConstantFacts, Zenon DEF TypeOK, Pod, LifecycleStates, ID, None
  <2>2. tracked' \in BOOLEAN
    BY <1>0, ConstantFacts, Zenon DEF TypeOK, Op
  <2>3. bound' \in ID
    BY <1>0, ConstantFacts DEF TypeOK, ID
  <2> QED
    BY <2>1, <2>2, <2>3, Zenon DEF TypeOK
<1>2. Sound(setup)'
  OBVIOUS
<1>3. Places'
  BY DEF Places
<1>4. Tables'
  BY DEF Tables, Starting, Saving, Deleting
<1>5. Machines'
  BY DEF Machines
<1>6. Versions'
  BY DEF Versions
<1>7. Saved'
  BY Zenon DEF Saved
<1>8. Owed'
  BY DEF Owed
<1>9. Known'
  BY DEF Known, Starting
<1> QED
  BY <1>1, <1>2, <1>3, <1>4, <1>5, <1>6, <1>7, <1>8, <1>9, Zenon

LEMMA InvCrash ==
    ASSUME Inv, Crash, UNCHANGED setup
    PROVE  Inv'
<1> USE NodesAssumption, BoundsAssumption, SetupFacts DEF Inv, Goto, May, Here,
     Exists, HasRegistry, DestroyOrphans, stores, tables, history, Idle,
     NotReclaiming, Crash
<1>0. pod.node \in Nodes
  BY Zenon DEF Tables, TypeOK, Pod, None
<1>1. TypeOK'
  <2>1. op' \in Op
    BY <1>0, ConstantFacts, Zenon DEF TypeOK, Op, PCs, Ver
  <2>2. tracked' \in BOOLEAN
    BY <1>0, ConstantFacts, Zenon DEF TypeOK, Op
  <2>3. bound' \in ID
    BY <1>0, ConstantFacts DEF TypeOK, ID
  <2>4. index' \in [Nodes -> ID]
    BY <1>0, ConstantFacts DEF TypeOK, ID
  <2>5. rec' \in [Nodes -> [ver: Ver, stale: BOOLEAN]]
    BY <1>0, ConstantFacts DEF TypeOK, Ver
  <2> QED
    BY <2>1, <2>2, <2>3, <2>4, <2>5, Zenon DEF TypeOK
<1>2. Sound(setup)'
  BY Zenon
<1>3. Places'
  BY Zenon DEF Places
<1>4. Tables'
  BY Zenon DEF Tables, Starting, Saving, Deleting
<1>5. Machines'
  BY Zenon DEF Machines
<1>6. Versions'
  BY DEF TypeOK, Pod, Op, Versions
<1>7. Saved'
  BY Zenon DEF Saved
<1>8. Owed'
  BY DEF Owed
<1>9. Known'
  BY DEF Known, Starting
<1> QED
  BY <1>1, <1>2, <1>3, <1>4, <1>5, <1>6, <1>7, <1>8, <1>9, Zenon

\* Where orphans are destroyed, the pod's VM is never taken for one.
LEMMA StartupDestroysNothing ==
    ASSUME Inv, Startup
    PROVE  vm' = vm
<1>1. CASE vm[pod.node].id = 0 \/ Matched # 0 \/ ~DestroyOrphans
  BY <1>1, Zenon DEF Startup, HandleOrphan, Here
<1>2. CASE vm[pod.node].id # 0 /\ Matched = 0 /\ DestroyOrphans
  <2>1. Reliable(setup) /\ Exists
    BY <1>2, Zenon DEF Startup, Inv, Sound, Tables, DestroyOrphans, May
  <2>2. pod.vmid \in {0, vm[pod.node].id}
    BY <1>2, <2>1, Zenon DEF Inv, Known, Here
  <2> QED
    BY <1>2, <2>2, Zenon DEF Matched, Here
<1> QED
  BY <1>1, <1>2, Zenon

LEMMA InvStartup ==
    ASSUME Inv, Startup, UNCHANGED setup
    PROVE  Inv'
<1> USE NodesAssumption, BoundsAssumption, SetupFacts DEF Inv, Goto, May, Here,
     Exists, HasRegistry, DestroyOrphans, stores, tables, history, Idle, Matched,
     StartupAnnotations, HandleOrphan, Startup
<1>0. pod.node \in Nodes
  BY Zenon DEF Tables, TypeOK, Pod, None
<1>s. /\ op.pc = "down" /\ bound = 0 /\ pod.node \in setup.nodes
      /\ op'.pc = "idle" /\ op'.ver = 0
      /\ bound' = Matched
      /\ tracked' = (Matched # 0 \/ pod.want)
  BY <1>0, Zenon DEF Tables, Places, None
<1>m. Matched \in {0, vm[pod.node].id} /\ Matched \in ID
  BY <1>0 DEF TypeOK, ID
<1>p. PICK vmid \in {Matched, pod.vmid}, lc \in {pod.lc, "creating"} :
        /\ pod' = [pod EXCEPT !.vmid = vmid, !.lc = lc]
        /\ ~May("patch") /\ (Matched # 0 \/ pod.want) => vmid = Matched
  BY Zenon
<1>f. pod'.node = pod.node /\ pod'.term = pod.term /\ pod'.lc = lc /\ pod'.vmid = vmid
  BY <1>p, Zenon DEF TypeOK, Pod
<1>v. vm' = vm
  BY StartupDestroysNothing, Zenon
<1>i. index' \in {index, [index EXCEPT ![pod.node] = vm[pod.node].id]}
  BY Zenon
<1>1. TypeOK'
  <2>1. op' \in Op
    BY ConstantFacts, Zenon
  <2>2. pod' \in Pod
    BY <1>p, <1>m, Zenon DEF TypeOK, Pod, LifecycleStates
  <2>3. tracked' \in BOOLEAN
    BY <1>s, Zenon
  <2>4. index' \in [Nodes -> ID]
    BY <1>0, <1>i, Zenon DEF TypeOK
  <2> QED
    BY <2>1, <2>2, <2>3, <2>4, <1>s, <1>m, <1>v, Zenon DEF TypeOK
<1>2. Sound(setup)'
  BY Zenon
<1>3. Places'
  BY <1>f, <1>v, Zenon DEF Places
<1>4. Tables'
  BY <1>0, <1>s, <1>f, Zenon DEF Tables, Starting, Saving, Deleting, None
<1>5. Machines'
  BY <1>s, <1>m, <1>f, <1>v, ZenonT(60) DEF Machines
<1>6. Versions'
  BY <1>s, <1>v DEF TypeOK, Ver, Versions
<1>7. Saved'
  BY <1>s, Zenon DEF Saved
<1>8. Owed'
  BY <1>s, <1>p, <1>f, <1>v, Zenon DEF Owed
<1>9. Known'
  BY <1>0, <1>s, <1>m, <1>p, <1>f, <1>v, Zenon DEF Known, Reliable, Starting, None
<1> QED
  BY <1>1, <1>2, <1>3, <1>4, <1>5, <1>6, <1>7, <1>8, <1>9, Zenon

LEMMA InvDeleteStart ==
    ASSUME Inv, NEW snapshot \in BOOLEAN, DeleteStart(snapshot), UNCHANGED setup
    PROVE  Inv'
<1> USE NodesAssumption, BoundsAssumption, SetupFacts DEF Inv, Goto, May, Here,
     Exists, HasRegistry, DestroyOrphans, stores, tables, history, DeleteStart
<1>0. pod.node \in Nodes
  BY Zenon DEF Tables, TypeOK, Pod, None
<1>1. TypeOK'
  BY ZenonT(60) DEF TypeOK, Pod, Op, PCs, Ver, ID, LifecycleStates, None, NoVM
<1>2. Sound(setup)'
  OBVIOUS
<1>3. Places'
  BY DEF Places
<1>4. Tables'
  BY DEF Tables, Starting, Saving, Deleting
<1>5. Machines'
  BY DEF Machines
<1>6. Versions'
  BY DEF Versions
<1>7. Saved'
  BY DEF Saved
<1>8. Owed'
  BY DEF Owed
<1>9. Known'
  BY DEF Known, Starting
<1> QED
  BY <1>1, <1>2, <1>3, <1>4, <1>5, <1>6, <1>7, <1>8, <1>9, Zenon

LEMMA InvReclaimList ==
    ASSUME Inv, NEW n \in Nodes, ReclaimList(n), UNCHANGED setup
    PROVE  Inv'
<1> USE NodesAssumption, BoundsAssumption, SetupFacts DEF Inv, Goto, May, Here,
     Exists, HasRegistry, DestroyOrphans, stores, tables, history, NotReclaiming,
     ReclaimList
<1>1. TypeOK'
  <2>1. rec' \in [Nodes -> [ver: Ver, stale: BOOLEAN]]
    BY ConstantFacts, Zenon DEF TypeOK, Ver
  <2> QED
    BY <2>1, Zenon DEF TypeOK
<1>2. Sound(setup)'
  OBVIOUS
<1>3. Places'
  BY DEF Places
<1>4. Tables'
  BY DEF Tables, Starting, Saving, Deleting
<1>5. Machines'
  BY DEF Machines
<1>6. Versions'
  BY DEF Versions
<1>7. Saved'
  BY DEF Saved
<1>8. Owed'
  BY DEF Owed
<1>9. Known'
  BY Zenon DEF Known, Starting
<1> QED
  BY <1>1, <1>2, <1>3, <1>4, <1>5, <1>6, <1>7, <1>8, <1>9, Zenon

LEMMA InvReclaimVerify ==
    ASSUME Inv, NEW n \in Nodes, ReclaimVerify(n), UNCHANGED setup
    PROVE  Inv'
<1> USE NodesAssumption, BoundsAssumption, SetupFacts DEF Inv, Goto, May, Here,
     Exists, HasRegistry, DestroyOrphans, stores, tables, history, NotReclaiming,
     ReclaimVerify
<1>1. TypeOK'
  <2>1. rec' \in [Nodes -> [ver: Ver, stale: BOOLEAN]]
    <3>1. rec[n] \in [ver: Ver, stale: BOOLEAN]
      BY DEF TypeOK
    <3>2. [rec[n] EXCEPT !.stale = TRUE] \in [ver: Ver, stale: BOOLEAN]
      BY <3>1, Zenon
    <3>3. [ver |-> 0, stale |-> FALSE] \in [ver: Ver, stale: BOOLEAN]
      BY ConstantFacts
    <3>4. \E r \in [ver: Ver, stale: BOOLEAN] : rec' = [rec EXCEPT ![n] = r]
      BY <3>2, <3>3, Zenon DEF TypeOK
    <3> QED
      BY <3>4, Zenon DEF TypeOK
  <2> QED
    BY <2>1, Zenon DEF TypeOK
<1>2. Sound(setup)'
  OBVIOUS
<1>3. Places'
  BY DEF Places
<1>4. Tables'
  BY DEF Tables, Starting, Saving, Deleting
<1>5. Machines'
  BY Zenon DEF Machines
<1>6. Versions'
  BY Zenon DEF Versions
<1>7. Saved'
  BY Zenon DEF Saved
<1>8. Owed'
  <2>1. ~setup.registry => \A m \in Nodes : ~rec'[m].stale
    BY DEF TypeOK, Owed
  <2> QED
    BY <2>1, Zenon DEF Owed
<1>9. Known'
  BY Zenon DEF Known, Starting
<1> QED
  BY <1>1, <1>2, <1>3, <1>4, <1>5, <1>6, <1>7, <1>8, <1>9, Zenon

LEMMA InvReclaimRemove ==
    ASSUME Inv, NEW n \in Nodes, ReclaimRemove(n), UNCHANGED setup
    PROVE  Inv'
<1> USE NodesAssumption, BoundsAssumption, SetupFacts DEF Inv, Goto, May, Here,
     Exists, HasRegistry, DestroyOrphans, stores, tables, history, NotReclaiming,
     ReclaimRemove
<1>1. TypeOK'
  <2>1. snap' \in [Nodes -> Ver]
    BY ConstantFacts, Zenon DEF TypeOK, Ver
  <2>2. rec' \in [Nodes -> [ver: Ver, stale: BOOLEAN]]
    BY ConstantFacts, Zenon DEF TypeOK, Ver
  <2> QED
    BY <2>1, <2>2, Zenon DEF TypeOK
<1>2. Sound(setup)'
  BY Zenon
<1>3. Places'
  BY Zenon DEF Places
<1>4. Tables'
  BY Zenon DEF Tables, Starting, Saving, Deleting
<1>5. Machines'
  BY Zenon DEF Machines
<1>6. Versions'
  BY DEF TypeOK, Pod, Op, Versions
<1>7. Saved'
  BY Zenon DEF TypeOK, Pod, Op, None, NoVM, Ver, ID, Saved, Starting, Saving, Reliable,
     Machines, Tables, Owed
<1>8. Owed'
  BY DEF TypeOK, Ver, Owed, Saved, Reliable, Versions
<1>9. Known'
  BY Zenon DEF Known, Starting
<1> QED
  BY <1>1, <1>2, <1>3, <1>4, <1>5, <1>6, <1>7, <1>8, <1>9, Zenon

LEMMA InvNext ==
    ASSUME Inv, [Next]_vars
    PROVE  Inv'
<1>1. CASE Environment /\ UNCHANGED setup
  BY <1>1, InvOperatorCreatesPod, InvOperatorTogglesHibernate,
     InvOperatorDeletesPod,
     InvOperatorDropsTag, InvOperatorDiscards, InvGuestRuns, Zenon DEF Environment
<1>2. CASE Hibernate /\ UNCHANGED setup
  BY <1>2, InvHibernateStart, InvHibernatePrepareFails, InvHibernateSave,
     InvHibernateSaveFails, InvHibernatePush, InvHibernatePushFails, InvHibernateClear,
     InvHibernateRemove, InvHibernateRemoveFails, InvHibernateRemoveHalfFails,
     InvHibernateCompensate, InvHibernateRollback, InvHibernateForget, Zenon DEF Hibernate
<1>3. CASE Lift /\ UNCHANGED setup
  BY <1>3, InvLift, Zenon
<1>4. CASE BringUp /\ UNCHANGED setup
  BY <1>4, InvWakeStart, InvCreateStart, InvCreateAdopts, InvCreateDecides,
     InvCreateDecideFails, InvResolveWakeSource, InvResolveWakeSourceFails, InvClone,
     InvBoot, InvStartVMFails, InvBind, InvMarkReady, Zenon DEF BringUp
<1>5. CASE Delete /\ UNCHANGED setup
  BY <1>5, InvDeleteStart, InvDeleteSave, InvDeleteFails, InvDeleteVM,
     InvDeleteForgets,
     InvFrameworkRemovesPod, InvEvictGone, Zenon DEF Delete
<1>6. CASE (\E n \in Nodes : Reclaim(n)) /\ UNCHANGED setup
  BY <1>6, InvReclaimList, InvReclaimVerify, InvReclaimRemove, Zenon DEF Reclaim
<1>7. CASE (Crash \/ Startup) /\ UNCHANGED setup
  BY <1>7, InvCrash, InvStartup, Zenon
<1>8. CASE UNCHANGED vars
  <2> USE <1>8 DEF vars, stores, tables, history, Inv, Exists, Here, May, HasRegistry
  <2>1. TypeOK' /\ Places' /\ Machines' /\ Versions'
    BY Zenon DEF TypeOK, Places, Machines, Versions
  <2>2. Tables' /\ Saved'
    BY Zenon DEF Tables, Saved, Starting, Saving, Deleting
  <2>3. Owed' /\ Known'
    BY Zenon DEF Owed, Known, Starting
  <2> QED
    BY <2>1, <2>2, <2>3, Zenon DEF Sound
<1> QED
  BY <1>1, <1>2, <1>3, <1>4, <1>5, <1>6, <1>7, <1>8, Zenon DEF Next

--------------------------------------------------------------------------------
(* The guest of GuestState, before and after a step.                       *)

LEMMA GuestIsLive ==
    ASSUME NEW n \in Nodes, vm[n].id # 0, \A m \in Nodes : vm[m].id # 0 => m = n
    PROVE  GuestMode = "live" /\ GuestVer = vm[n].ver
<1>1. (CHOOSE m \in Nodes : vm[m].id # 0) = n
  BY Zenon
<1> QED
  BY <1>1, Zenon DEF GuestMode, GuestVer, GuestLives

LEMMA GuestIsLiveNext ==
    ASSUME NEW n \in Nodes, vm'[n].id # 0, \A m \in Nodes : vm'[m].id # 0 => m = n
    PROVE  GuestMode' = "live" /\ GuestVer' = vm'[n].ver
<1>1. (CHOOSE m \in Nodes : vm'[m].id # 0) = n
  BY Zenon
<1> QED
  BY <1>1, Zenon DEF GuestMode, GuestVer, GuestLives

LEMMA GuestIsNotLive ==
    ASSUME \A m \in Nodes : vm[m].id = 0
    PROVE  GuestMode = (IF owed # 0 THEN "asleep" ELSE "absent") /\ GuestVer = owed
BY Zenon DEF GuestMode, GuestVer, GuestLives

LEMMA GuestIsNotLiveNext ==
    ASSUME \A m \in Nodes : vm'[m].id = 0
    PROVE  GuestMode' = (IF owed' # 0 THEN "asleep" ELSE "absent") /\ GuestVer' = owed'
BY DEF GuestMode, GuestVer, GuestLives

\* A step that leaves the VMs and what is owed alone at most changes who holds
\* the guest.
LEMMA GuestHeld ==
    ASSUME UNCHANGED <<vm, owed>>
    PROVE  [Guest!Next]_(Guest!gvars)
<1>1. UNCHANGED <<GuestMode, GuestVer>>
  BY DEF GuestMode, GuestVer, GuestLives
<1>2. CASE (Exists /\ pod.term = "no")' = (Exists /\ pod.term = "no")
  BY <1>1, <1>2, Zenon DEF Guest!gvars
<1>3. CASE (Exists /\ pod.term = "no")' = ~(Exists /\ pod.term = "no")
  BY <1>1, <1>3, Zenon DEF Guest!Next, Guest!Hold
<1> QED
  BY <1>2, <1>3, Zenon

LEMMA InvFacts ==
    ASSUME Inv
    PROVE  /\ clock \in 1..MaxVer /\ owed \in 0..MaxVer
           /\ \A n \in Nodes : vm[n].ver \in 0..clock
           /\ vm \in [Nodes -> [id: ID, ver: Ver]]
           /\ setup.vers \in 1..MaxVer
           /\ op.pc # "idle" => pod.node \in setup.nodes /\ pod.node \in Nodes
BY SetupFacts, BoundsAssumption
DEF Inv, TypeOK, Versions, Ver, Places, Tables, Exists, Here, Pod, None

LEMMA GuestOfDiscards ==
    ASSUME Inv, OperatorDiscards
    PROVE  [Guest!Next]_(Guest!gvars)
<1>1. UNCHANGED <<vm, pod>> /\ owed' = 0 /\ ~Exists
  BY DEF OperatorDiscards
<1>2. CASE owed = 0
  BY <1>1, <1>2, GuestHeld, Zenon
<1>3. CASE owed # 0
  <2>1. \A m \in Nodes : vm[m].id = 0 /\ vm'[m].id = 0
    BY <1>1, <1>3, Zenon DEF Inv, Owed
  <2>2. GuestMode = "asleep" /\ GuestMode' = "absent" /\ GuestVer' = 0
    BY <1>1, <1>3, <2>1, GuestIsNotLive, GuestIsNotLiveNext, Zenon
  <2>3. Guest!Discard
    BY <1>1, <2>2, Zenon DEF Guest!Discard, Exists
  <2> QED
    BY <2>3, Zenon DEF Guest!Next
<1> QED
  BY <1>2, <1>3, Zenon

LEMMA GuestOfGuestRuns ==
    ASSUME Inv, NEW n \in Nodes, GuestRuns(n)
    PROVE  [Guest!Next]_(Guest!gvars)
<1>1. vm[n].id # 0 /\ \A m \in Nodes : vm[m].id # 0 => m = n
  BY DEF GuestRuns, Inv, Places
<1>2. vm'[n].id = vm[n].id /\ vm'[n].ver = clock + 1
  BY InvFacts DEF GuestRuns
<1>3. \A m \in Nodes : vm'[m].id = vm[m].id
  BY InvFacts, Zenon DEF GuestRuns
<1>4. GuestMode = "live" /\ GuestVer = vm[n].ver
  BY <1>1, GuestIsLive, Zenon
<1>5. GuestMode' = "live" /\ GuestVer' = clock + 1
  BY <1>1, <1>2, <1>3, GuestIsLiveNext, Zenon
<1>6. clock + 1 \in (vm[n].ver + 1)..MaxVer
  BY InvFacts, BoundsAssumption DEF GuestRuns
<1>7. UNCHANGED pod
  BY Zenon DEF GuestRuns
<1>8. Guest!Run
  BY <1>4, <1>5, <1>6, <1>7, Zenon DEF Guest!Run, Exists
<1> QED
  BY <1>8 DEF Guest!Next

\* Hibernate takes the VM away when its version is safe.
LEMMA GuestOfRemove ==
    ASSUME Inv, HibernateRemove \/ HibernateRemoveHalfFails
    PROVE  [Guest!Next]_(Guest!gvars)
<1> DEFINE h == pod.node
<1>1. op.pc = "remove" /\ UNCHANGED pod /\ owed' = op.ver /\ vm' = [vm EXCEPT ![h] = NoVM]
  BY Zenon DEF HibernateRemove, HibernateRemoveHalfFails, Here
<1>2. h \in Nodes /\ vm[h].id # 0 /\ op.ver # 0 /\ op.ver <= vm[h].ver /\ op.ver \in Nat
  <2>1. h \in Nodes
    BY <1>1, InvFacts, Zenon
  <2>2. vm[h].id = bound /\ bound # 0
    BY <1>1, Zenon DEF Inv, Machines, Tables, Saving, Here
  <2>3. op.ver # 0 /\ op.ver <= vm[h].ver
    BY <1>1, Zenon DEF Inv, Saved, Here
  <2>4. op.ver \in Nat
    BY DEF Inv, TypeOK, Op, Ver
  <2> QED
    BY <2>1, <2>2, <2>3, <2>4, Zenon
<1>3. \A m \in Nodes : vm[m].id # 0 => m = h
  BY <1>2, Zenon DEF Inv, Places
<1>4. GuestMode = "live" /\ GuestVer = vm[h].ver
  BY <1>2, <1>3, GuestIsLive, Zenon
<1>5. \A m \in Nodes : vm'[m].id = 0
  BY <1>1, <1>2, <1>3, InvFacts, Zenon DEF NoVM
<1>6. GuestMode' = "asleep" /\ GuestVer' = op.ver
  BY <1>1, <1>2, <1>5, GuestIsNotLiveNext, Zenon
<1>7. op.ver \in 1..vm[h].ver
  BY <1>2, InvFacts
<1>8. Guest!Sleep
  BY <1>1, <1>4, <1>6, <1>7, Zenon DEF Guest!Sleep, Exists
<1> QED
  BY <1>8, Zenon DEF Guest!Next

\* A new VM has the version that is owed, if one is.
LEMMA GuestOfStartVM ==
    ASSUME Inv, NEW ver \in 1..MaxVer, StartVM(ver), op.pc # "idle",
           owed \in {0, ver}
    PROVE  [Guest!Next]_(Guest!gvars)
<1> DEFINE h == pod.node
<1>1. /\ h \in setup.nodes /\ h \in Nodes /\ vm[h].id = 0 /\ UNCHANGED pod
      /\ vm' = [vm EXCEPT ![h] = [id |-> lastVM + 1, ver |-> ver]]
  BY InvFacts, Zenon DEF StartVM, Here
<1>2. \A m \in Nodes : vm[m].id = 0
  <2>1. CASE \E m \in Nodes : setup.nodes = {m}
    BY <1>1, <2>1, Zenon DEF Inv, Places
  <2>2. CASE Reliable(setup)
    BY <1>1, <2>2, Zenon DEF Inv, Known, Here
  <2> QED
    BY <2>1, <2>2, Zenon DEF Inv, Sound
<1>3. lastVM + 1 # 0
  BY DEF Inv, TypeOK, ID
<1>4. vm'[h].id # 0 /\ vm'[h].ver = ver /\ \A m \in Nodes : vm'[m].id # 0 => m = h
  BY <1>1, <1>2, <1>3, InvFacts, Zenon
<1>5. GuestMode' = "live" /\ GuestVer' = ver
  BY <1>1, <1>4, GuestIsLiveNext, Zenon
<1>6. CASE owed = 0
  <2>1. GuestMode = "absent"
    BY <1>2, <1>6, GuestIsNotLive, Zenon
  <2>2. Guest!Boot
    BY <1>1, <1>5, <2>1, Zenon DEF Guest!Boot, Exists
  <2> QED
    BY <2>2, Zenon DEF Guest!Next
<1>7. CASE owed # 0
  <2>1. GuestMode = "asleep" /\ GuestVer = ver
    BY <1>2, <1>7, GuestIsNotLive, Zenon
  <2>2. Guest!Wake
    BY <1>1, <1>5, <2>1, Zenon DEF Guest!Wake, Exists
  <2> QED
    BY <2>2, Zenon DEF Guest!Next
<1> QED
  BY <1>6, <1>7, Zenon

LEMMA GuestOfBringUp ==
    ASSUME Inv, Clone \/ Boot
    PROVE  [Guest!Next]_(Guest!gvars)
<1>1. CASE Boot
  <2>1. op.pc = "boot" /\ owed = 0 /\ StartVM(1)
    BY <1>1, Zenon DEF Boot, Inv, Owed
  <2>2. 1 \in 1..MaxVer
    BY BoundsAssumption
  <2> QED
    BY <2>1, <2>2, GuestOfStartVM, Zenon
<1>2. CASE Clone
  <2> DEFINE ver == IF op.local THEN snap[pod.node] ELSE op.ver
  <2>1. op.pc = "clone" /\ StartVM(ver) /\ pod.node \in Nodes
    BY <1>2, InvFacts, Zenon DEF Clone, Here
  <2>2. ver \in 1..MaxVer
    <3>1. ver \in 0..MaxVer
      BY <2>1, Zenon DEF Inv, TypeOK, Op, Ver
    <3>2. ver # 0
      BY <1>2, <2>1, Zenon DEF Clone, Inv, Owed, Here
    <3> QED
      BY <3>1, <3>2, BoundsAssumption
  <2>3. owed \in {0, ver}
    BY <1>2, <2>1, Zenon DEF Clone, Inv, Owed, Here
  <2> HIDE DEF ver
  <2> QED
    BY <2>1, <2>2, <2>3, GuestOfStartVM, Zenon
<1> QED
  BY <1>1, <1>2, Zenon

\* Only the VM of a pod that is being deleted is given up.
LEMMA GuestOfDeleteVM ==
    ASSUME Inv, DeleteVM
    PROVE  [Guest!Next]_(Guest!gvars)
<1> DEFINE h == pod.node
<1>1. op.pc = "delvm" /\ UNCHANGED <<pod, owed>> /\ h \in Nodes /\ pod.term # "no"
  BY InvFacts, Zenon DEF DeleteVM, history, Inv, Tables, Deleting
<1>2. CASE vm[h].id # bound
  <2>1. vm' = vm
    BY <1>1, <1>2, InvFacts, Zenon DEF DeleteVM, Here
  <2> QED
    BY <1>1, <2>1, GuestHeld, Zenon
<1>3. CASE vm[h].id = bound
  <2>1. vm[h].id # 0 /\ owed = 0
    BY <1>1, <1>3, Zenon DEF Inv, Tables, Owed
  <2>2. \A m \in Nodes : vm[m].id # 0 => m = h
    BY <1>1, <2>1, Zenon DEF Inv, Places
  <2>3. vm' = [vm EXCEPT ![h] = NoVM]
    BY <1>1, <1>3, InvFacts, Zenon DEF DeleteVM, Here
  <2>4. \A m \in Nodes : vm'[m].id = 0
    BY <1>1, <2>2, <2>3, InvFacts, Zenon DEF NoVM
  <2>5. GuestMode = "live"
    BY <1>1, <2>1, <2>2, GuestIsLive, Zenon
  <2>6. GuestMode' = "absent" /\ GuestVer' = 0
    BY <1>1, <2>1, <2>4, GuestIsNotLiveNext, Zenon
  <2>7. Guest!Discard
    BY <1>1, <2>5, <2>6, Zenon DEF Guest!Discard, Exists
  <2> QED
    BY <2>7 DEF Guest!Next
<1> QED
  BY <1>2, <1>3, Zenon

LEMMA GuestOfDeleteForgets ==
    ASSUME Inv, DeleteForgets
    PROVE  [Guest!Next]_(Guest!gvars)
<1>1. UNCHANGED <<pod, vm>> /\ owed' \in {0, owed} /\ pod.term # "no"
  BY DEF DeleteForgets
<1>2. CASE owed' = owed
  BY <1>1, <1>2, GuestHeld, Zenon
<1>3. CASE owed' = 0 /\ owed # 0
  <2>1. \A m \in Nodes : vm[m].id = 0 /\ vm'[m].id = 0
    BY <1>1, <1>3, Zenon DEF Inv, Owed
  <2>2. GuestMode = "asleep" /\ GuestMode' = "absent" /\ GuestVer' = 0
    BY <1>3, <2>1, GuestIsNotLive, GuestIsNotLiveNext, Zenon
  <2>3. Guest!Discard
    BY <1>1, <2>2, Zenon DEF Guest!Discard, Exists
  <2> QED
    BY <2>3 DEF Guest!Next
<1> QED
  BY <1>1, <1>2, <1>3, Zenon

LEMMA GuestOfNext ==
    ASSUME Inv, [Next]_vars
    PROVE  [Guest!Next]_(Guest!gvars)
<1> USE GuestHeld DEF stores, history
<1>1. CASE Environment
  <2>1. CASE OperatorDiscards
    BY <2>1, GuestOfDiscards, Zenon
  <2>2. CASE \E n \in Nodes : GuestRuns(n)
    BY <2>2, GuestOfGuestRuns, Zenon
  <2> QED
    BY <1>1, <2>1, <2>2, Zenon DEF Environment, OperatorCreatesPod,
       OperatorTogglesHibernate,
       OperatorDeletesPod, OperatorDropsTag
<1>2. CASE Hibernate
  <2>1. CASE HibernateRemove \/ HibernateRemoveHalfFails
    BY <2>1, GuestOfRemove
  <2> QED
    BY <1>2, <2>1, Zenon DEF Hibernate, HibernateStart, HibernatePrepareFails,
       HibernateSave,
       HibernateSaveFails, HibernatePush, HibernatePushFails, HibernateClear,
       HibernateRemoveFails, HibernateCompensate, HibernateRollback, HibernateForget
<1>3. CASE Lift
  BY <1>3, Zenon DEF Lift
<1>4. CASE BringUp
  <2>1. CASE Clone \/ Boot
    BY <2>1, GuestOfBringUp
  <2> QED
    BY <1>4, <2>1, Zenon DEF BringUp, WakeStart, CreateStart, CreateAdopts, CreateDecides,
       CreateDecideFails, ResolveWakeSource, ResolveWakeSourceFails, StartVMFails, Bind,
       MarkReady
<1>5. CASE Delete
  <2>1. CASE DeleteVM
    BY <2>1, GuestOfDeleteVM
  <2>2. CASE DeleteForgets
    BY <2>2, GuestOfDeleteForgets
  <2> QED
    BY <1>5, <2>1, <2>2, Zenon DEF Delete, DeleteStart, DeleteSave, DeleteFails,
       FrameworkRemovesPod, EvictGone
<1>6. CASE \E n \in Nodes : Reclaim(n)
  BY <1>6, Zenon DEF Reclaim, ReclaimList, ReclaimVerify, ReclaimRemove
<1>7. CASE Crash
  BY <1>7, Zenon DEF Crash
<1>8. CASE Startup
  <2>1. owed' = owed
    BY <1>8, Zenon DEF Startup
  <2> QED
    BY <1>8, <2>1, StartupDestroysNothing, Zenon
<1>9. CASE UNCHANGED vars
  BY <1>9 DEF vars
<1> QED
  BY <1>1, <1>2, <1>3, <1>4, <1>5, <1>6, <1>7, <1>8, <1>9, Zenon DEF Next

--------------------------------------------------------------------------------
(* The theorems.                                                           *)

LEMMA InvAlways ==
    ASSUME \A s \in Setups : Sound(s)
    PROVE  Spec => []Inv
<1>1. Init => Inv
  BY InvInit, Zenon
<1>2. Inv /\ [Next]_vars => Inv'
  BY InvNext
<1> QED
  BY <1>1, <1>2, PTL DEF Spec

\* Every actor leaves the tables, the records and the images well formed, on any
\* number of nodes (the types of Hibernation's variables).
THEOREM TypeCorrect ==
    ASSUME \A s \in Setups : Sound(s)
    PROVE  Spec => []TypeOK
<1>1. Inv => TypeOK
  BY DEF Inv
<1> QED
  BY <1>1, InvAlways, PTL

\* At most one node runs a VM with the name, however many nodes the pod moves
\* between and wherever the processes die: DeletePod removes the VM before the
\* pod object goes, and a restarted vk-cocoon finds the VM that is on its node.
THEOREM OneVMAlways ==
    ASSUME \A s \in Setups : Sound(s)
    PROVE  Spec => []OneVM
<1>1. Inv => OneVM
  <2> SUFFICES ASSUME Inv PROVE OneVM
    BY Zenon
  <2> DEFINE S == {n \in Nodes : vm[n].id # 0}
  <2>1. CASE S = {}
    BY <2>1, FS_EmptySet DEF OneVM
  <2>2. CASE S # {}
    <3>1. PICK n \in S : TRUE
      BY <2>2, Zenon
    <3>2. S = {n}
      BY <3>1, Zenon DEF Inv, Places
    <3>3. Cardinality(S) = 1
      BY <3>2, FS_Singleton, Zenon
    <3> QED
      BY <3>3 DEF OneVM
  <2> QED
    BY <2>1, <2>2, Zenon
<1> QED
  BY <1>1, InvAlways, PTL

\* The version whose VM hibernate removed can be restored at every moment, on
\* any number of nodes: the tag holds it, or the snapshot of the only node.
THEOREM OwedIsRecoverableAlways ==
    ASSUME \A s \in Setups : Sound(s)
    PROVE  Spec => []OwedIsRecoverable
<1>1. Inv => OwedIsRecoverable
  <2> SUFFICES ASSUME Inv PROVE OwedIsRecoverable
    OBVIOUS
  <2>1. setup.nodes # {} /\ setup.nodes \subseteq Nodes
    BY SetupFacts DEF Inv
  <2> QED
    BY <2>1 DEF Inv, Owed, OwedIsRecoverable, HasRegistry
<1> QED
  BY <1>1, InvAlways, PTL

\* Hibernation implements GuestState: no interleaving of hibernate, wake, create,
\* delete, the reclaimer and restarts loses the state of a guest that its user
\* still holds, or brings an older one back.
THEOREM GuestStateKeptAlways ==
    ASSUME \A s \in Setups : Sound(s)
    PROVE  Spec => GuestStateKept
<1>1. Init => Guest!Init
  <2> SUFFICES ASSUME Init PROVE Guest!Init
    BY Zenon
  <2>1. \A m \in Nodes : vm[m].id = 0
    BY Zenon DEF Init, NoVM
  <2>2. GuestMode = "absent" /\ GuestVer = 0
    BY <2>1, GuestIsNotLive, Zenon DEF Init
  <2>3. ~Exists
    BY Zenon DEF Init, NoPod, Exists
  <2> QED
    BY <2>2, <2>3 DEF Guest!Init
<1>2. Inv /\ [Next]_vars => [Guest!Next]_(Guest!gvars)
  BY GuestOfNext
<1> QED
  BY <1>1, <1>2, InvAlways, PTL DEF Spec, GuestStateKept, Guest!Spec
================================================================================
