---------------------------- MODULE VMWatcherProofs ----------------------------
(***************************************************************************)
(* The claim of a key excludes, the tables agree, no VM is lost and no pod  *)
(* is evicted under its VM: for any number of incarnations, VMs and         *)
(* rechecks, whatever fails.                                                *)
(***************************************************************************)
EXTENDS VMWatcher, TLAPS

VMTable == [VMs -> {"none", "running", "stopped", "gone"}]
HandlerRec == [pc: HandlerPCs, uid: UID, vm: ID, gone: BOOLEAN]
OpRec == [pc: OpPCs, uid: UID, vm: ID, create: BOOLEAN]

Types ==
    /\ api \in [uid: UID, term: BOOLEAN]
    /\ lastUID \in UID
    /\ vm \in VMTable
    /\ lastVM \in ID
    /\ tracked \in UID
    /\ bound \in ID
    /\ index \in ID
    /\ h \in [Handlers -> HandlerRec]
    /\ op \in OpRec

\* Handler a is between taking the claim of the key and giving it up.
Holds(a) ==
    \/ h[a].pc \in {"remove", "evict", "untrack", "finish"}
    \/ h[a].pc = "settle" /\ ~h[a].gone

Exclusive ==
    /\ \A a, b \in Handlers : Holds(a) /\ Holds(b) => a = b
    /\ WorkerClaims => \A a \in Handlers : ~Holds(a)
    /\ deleting <=> (WorkerClaims \/ \E a \in Handlers : Holds(a))

\* VM IDs are handed out in order, and a name has one VM at a time.
OneVM ==
    /\ \A i \in VMs : i > lastVM => vm[i] = "none"
    /\ \A i, j \in VMs : Present(i) /\ Present(j) => i = j

BringUpPCs == {"adopt", "boot", "bind"}
HibernatePCs == {"hibernate", "remove", "forget", "hibernated"}
Existing(i) == i \in VMs /\ vm[i] # "none"

\* A handler knows its VM; once it has decided that the VM is gone it is; and while it
\* holds the claim the key is bound to that VM or to none, and no create runs.
HandlerInv(a) ==
    /\ h[a].pc \notin {"off", "sleep", "exit"} => h[a].uid # 0 /\ Existing(h[a].vm)
    /\ h[a].pc \in {"sleep", "look"} => h[a].vm = a
    /\ h[a].gone => h[a].pc \in {"claim", "evict", "untrack", "finish", "settle"}
    /\ h[a].gone \/ h[a].pc \in {"evict", "untrack"} => vm[h[a].vm] = "gone"
    /\ h[a].pc = "finish" => h[a].gone
    /\ h[a].pc \in {"remove", "evict", "untrack"} =>
         bound \in {0, h[a].vm} /\ op.pc \notin BringUpPCs

\* The worker: nothing is bound while it brings a VM up, and what it removes is what
\* is bound.
WorkerInv ==
    /\ op.pc \in BringUpPCs => bound = 0 /\ op.uid # 0
    /\ op.pc \in {"bind", "publish", "deletevm"} \cup HibernatePCs => Existing(op.vm)
    /\ op.pc = "bind" => \A i \in VMs : Present(i) => i = op.vm
    /\ op.pc = "publish" => index \in {0, op.vm}
    /\ op.pc \in {"publish"} \cup HibernatePCs => bound \in {0, op.vm}
    /\ op.pc = "forget" => vm[op.vm] = "gone"
    /\ op.pc = "deletevm" => bound = op.vm
    /\ op.pc = "delete" => ~Present(bound)

Inv ==
    /\ Types /\ Exclusive /\ OneVM /\ WorkerInv /\ TablesAgree /\ NoVMIsLost
    /\ \A a \in Handlers : HandlerInv(a)

--------------------------------------------------------------------------------
(* Handlers.                                                               *)

\* A handler that is not, or not yet, at work on a VM.
Rests(a) ==
    /\ h[a].pc \in {"off", "sleep", "exit"}
    /\ ~h[a].gone
    /\ h[a].pc = "sleep" => h[a].vm = a

\* What a step of handler a leaves of the others: a recheck may be scheduled.
OthersGoOn(a) ==
    \A b \in Handlers \ {a} : h'[b] = h[b] \/ (h[b].pc = "off" /\ Rests(b)')

LEMMA Constants ==
    /\ 0 \in UID /\ 0 \in ID /\ Watcher \in Handlers
    /\ Off \in HandlerRec /\ Idle \in OpRec
    /\ VMs \subseteq ID \ {0} /\ ID = VMs \cup {0} /\ Handlers = ID
<1>1. 0 \in UID /\ 0 \in ID /\ Watcher \in Handlers
  BY BoundsAssumption DEF UID, ID, Watcher, Handlers
<1>2. VMs \subseteq ID \ {0} /\ ID = VMs \cup {0} /\ Handlers = ID
  BY BoundsAssumption DEF ID, VMs, Handlers
<1>3. Off \in HandlerRec
  BY <1>1 DEF Off, HandlerRec, HandlerPCs
<1>4. Idle \in OpRec
  BY <1>1 DEF Idle, OpRec, OpPCs
<1> QED BY <1>1, <1>2, <1>3, <1>4

LEMMA HandlerSteps ==
    ASSUME Types, NEW a \in Handlers, NEW pc \in HandlerPCs, Step(a, pc)
    PROVE  /\ h' \in [Handlers -> HandlerRec]
           /\ h'[a].pc = pc /\ h'[a].uid = h[a].uid /\ h'[a].vm = h[a].vm
           /\ h'[a].gone = h[a].gone
           /\ OthersGoOn(a)
<1> DEFINE r == [h[a] EXCEPT !.pc = pc]
<1>1. h[a] \in HandlerRec
  BY DEF Types
<1>2. /\ r \in HandlerRec /\ r.pc = pc
      /\ r.uid = h[a].uid /\ r.vm = h[a].vm /\ r.gone = h[a].gone
  BY <1>1 DEF HandlerRec
<1>3. h' = [h EXCEPT ![a] = r]
  BY DEF Step
<1> HIDE DEF r
<1> QED BY <1>2, <1>3 DEF Types, OthersGoOn

LEMMA HandlerSeesGone ==
    ASSUME Types, NEW a \in Handlers, h' = [h EXCEPT ![a].pc = "claim", ![a].gone = TRUE]
    PROVE  /\ h' \in [Handlers -> HandlerRec]
           /\ h'[a].pc = "claim" /\ h'[a].uid = h[a].uid /\ h'[a].vm = h[a].vm
           /\ h'[a].gone
           /\ OthersGoOn(a)
<1> DEFINE r == [h[a] EXCEPT !.pc = "claim", !.gone = TRUE]
<1>1. h[a] \in HandlerRec
  BY DEF Types
<1>2. /\ r \in HandlerRec /\ r.pc = "claim"
      /\ r.uid = h[a].uid /\ r.vm = h[a].vm /\ r.gone
  BY <1>1, Zenon DEF HandlerRec, HandlerPCs
<1>3. h' = [h EXCEPT ![a] = r]
  BY <1>1, Zenon DEF Types
<1> HIDE DEF r
<1> QED BY <1>2, <1>3, Zenon DEF Types, OthersGoOn

LEMMA ReturnedTyped ==
    ASSUME NEW a \in Handlers, NEW again \in BOOLEAN
    PROVE  /\ Returned(a, again) \in HandlerRec
           /\ Returned(a, again).pc \in {"off", "sleep", "exit"}
           /\ ~Returned(a, again).gone
           /\ Returned(a, again).pc = "sleep" => Returned(a, again).vm = a
           /\ a = Watcher \/ Returned(a, again).pc # "off"
BY Constants, Zenon DEF Returned, Off, HandlerRec, HandlerPCs

LEMMA HandlerReturns ==
    ASSUME Types, NEW a \in Handlers, NEW again \in BOOLEAN, Return(a, again)
    PROVE  h' \in [Handlers -> HandlerRec] /\ Rests(a)' /\ OthersGoOn(a)
BY ReturnedTyped DEF Return, Types, Rests, OthersGoOn

LEMMA HandlerReschedules ==
    ASSUME Types, NEW a \in Handlers, NEW i \in VMs, ReturnAndRecheck(a, i)
    PROVE  h' \in [Handlers -> HandlerRec] /\ Rests(a)' /\ OthersGoOn(a)
<1> DEFINE hs == [h EXCEPT ![a] = Returned(a, TRUE)]
           s == [Off EXCEPT !.pc = "sleep", !.vm = i]
<1>1. /\ hs \in [Handlers -> HandlerRec] /\ hs[a] = Returned(a, TRUE)
      /\ \A b \in Handlers \ {a} : hs[b] = h[b]
  BY ReturnedTyped, Zenon DEF Types
<1>2. i \in Handlers /\ i # Watcher
  BY Constants DEF Watcher
<1>3. s \in HandlerRec /\ s.pc = "sleep" /\ s.vm = i /\ ~s.gone
  BY <1>2, Constants, Zenon DEF Off, HandlerRec, HandlerPCs
<1>4. h' = IF hs[i].pc = "off" THEN [hs EXCEPT ![i] = s] ELSE hs
  BY DEF ReturnAndRecheck, Scheduled
<1> HIDE DEF hs, s
<1>5. CASE hs[i].pc = "off"
  <2>1. i # a
    BY <1>1, <1>2, <1>5, ReturnedTyped, Zenon
  <2>2. h' = [hs EXCEPT ![i] = s] /\ h[i].pc = "off"
    BY <1>1, <1>2, <1>4, <1>5, <2>1
  <2> QED BY <1>1, <1>2, <1>3, <2>1, <2>2, ReturnedTyped, Zenon DEF Rests, OthersGoOn
<1>6. CASE hs[i].pc # "off"
  BY <1>1, <1>4, <1>6, ReturnedTyped, Zenon DEF Rests, OthersGoOn
<1> QED BY <1>5, <1>6

--------------------------------------------------------------------------------
(* The runtime, and the claim.                                             *)

\* No VM is created, and none comes back.
VMsFade ==
    /\ lastVM' = lastVM
    /\ \A i \in VMs : /\ vm'[i] = "none" <=> vm[i] = "none"
                      /\ vm[i] = "gone" => vm'[i] = "gone"

LEMMA FadingVMs ==
    ASSUME Types, Types', OneVM, VMsFade
    PROVE  /\ OneVM'
           /\ \A i \in VMs : Present(i)' => Present(i)
           /\ \A i : Existing(i) => Existing(i)'
<1>1. \A i \in VMs : Present(i)' => Present(i)
  BY DEF Types, VMsFade, Present, VMTable
<1>2. \A i : Existing(i) => Existing(i)'
  BY DEF VMsFade, Existing
<1>3. OneVM'
  BY <1>1 DEF OneVM, VMsFade
<1> QED BY <1>1, <1>2, <1>3

LEMMA SameVMsFade ==
    ASSUME UNCHANGED <<vm, lastVM>>
    PROVE  VMsFade
BY DEF VMsFade

LEMMA StoppingFades ==
    ASSUME Types, NEW i \in VMs, NEW s \in {"running", "stopped"}, Present(i),
           vm' = [vm EXCEPT ![i] = s], UNCHANGED lastVM
    PROVE  VMsFade
BY DEF Types, VMsFade, Present

LEMMA RemovingFades ==
    ASSUME Types, NEW i, Existing(i), vm' = [vm EXCEPT ![i] = "gone"], UNCHANGED lastVM
    PROVE  VMsFade /\ vm'[i] = "gone" /\ ~Present(i)'
BY DEF Types, VMsFade, Existing, Present, VMTable

LEMMA ClaimSame ==
    ASSUME Exclusive, \A b \in Handlers : Holds(b)' <=> Holds(b),
           WorkerClaims' <=> WorkerClaims, deleting' <=> deleting
    PROVE  Exclusive'
BY DEF Exclusive

LEMMA ClaimTaken ==
    ASSUME Exclusive, NEW a \in Handlers, ~deleting, deleting' = TRUE, Holds(a)',
           \A b \in Handlers \ {a} : Holds(b)' <=> Holds(b), ~WorkerClaims'
    PROVE  Exclusive'
BY DEF Exclusive

LEMMA ClaimGiven ==
    ASSUME Exclusive, NEW a \in Handlers, deleting' = FALSE, Holds(a), ~Holds(a)',
           \A b \in Handlers \ {a} : Holds(b)' <=> Holds(b), WorkerClaims' <=> WorkerClaims
    PROVE  Exclusive'
BY DEF Exclusive

LEMMA OthersHold ==
    ASSUME Types, NEW a \in Handlers, OthersGoOn(a)
    PROVE  \A b \in Handlers \ {a} : Holds(b)' <=> Holds(b)
BY DEF OthersGoOn, Holds, Rests

\* A handler steps; it leaves the tables alone.
LEMMA HandlerStep ==
    ASSUME Inv, Types', NEW a \in Handlers, OthersGoOn(a), HandlerInv(a)', Exclusive',
           VMsFade, UNCHANGED <<tracked, bound, index, op>>
    PROVE  Inv'
<1>1. OneVM' /\ (\A i \in VMs : Present(i)' => Present(i)) /\ \A i : Existing(i) => Existing(i)'
  BY FadingVMs DEF Inv
<1>2. TablesAgree' /\ NoVMIsLost'
  <2>1. bound \in ID /\ TablesAgree /\ NoVMIsLost
    BY DEF Inv, Types
  <2>2. bound # 0 => bound \in VMs
    BY <2>1, Constants
  <2> QED BY <1>1, <2>1, <2>2 DEF TablesAgree, NoVMIsLost, VMsFade
<1>3. WorkerInv'
  <2>1. bound \in ID /\ WorkerInv /\ (bound # 0 => bound \in VMs) /\ ~Present(0)'
    BY Constants DEF Inv, Types, Present
  <2>2. ~Present(bound) => ~Present(bound)'
    BY <1>1, <2>1
  <2>3. op.pc = "forget" => vm'[op.vm] = "gone"
    BY <2>1 DEF WorkerInv, VMsFade, HibernatePCs, Existing
  <2> QED BY <1>1, <2>1, <2>2, <2>3 DEF WorkerInv
<1>4. ASSUME NEW b \in Handlers PROVE HandlerInv(b)'
  <2>1. CASE b = a
    BY <2>1
  <2>2. CASE b # a /\ h'[b] = h[b]
    <3>1. HandlerInv(b)
      BY DEF Inv
    <3>2. h[b].vm \in VMs => (vm[h[b].vm] = "gone" => vm'[h[b].vm] = "gone")
      BY Zenon DEF VMsFade
    <3>3. h[b].gone \/ h[b].pc \in {"evict", "untrack"} => h[b].vm \in VMs
      BY <3>1, Zenon DEF HandlerInv, Existing
    <3> QED BY <1>1, <2>2, <3>1, <3>2, <3>3 DEF HandlerInv
  <2>3. CASE b # a /\ Rests(b)'
    BY <2>3 DEF HandlerInv, Rests
  <2> QED BY <2>1, <2>2, <2>3 DEF OthersGoOn
<1> QED BY <1>1, <1>2, <1>3, <1>4 DEF Inv

\* A handler that stops working has nothing to keep.
LEMMA RestKeepsInv ==
    ASSUME Inv, Types', NEW a \in Handlers, OthersGoOn(a), Rests(a)', ~Holds(a), VMsFade,
           UNCHANGED <<tracked, bound, index, op, deleting>>
    PROVE  Inv'
<1>1. HandlerInv(a)' /\ ~Holds(a)'
  BY DEF HandlerInv, Rests, Holds
<1>2. \A b \in Handlers : Holds(b)' <=> Holds(b)
  BY <1>1, OthersHold DEF Inv
<1>3. Exclusive'
  BY <1>2, ClaimSame DEF Inv, WorkerClaims
<1> QED BY <1>1, <1>3, HandlerStep, Zenon

--------------------------------------------------------------------------------
(* handleVMGone up to the claim.                                           *)

\* A step between two points at which handler a does not hold the claim.
LEMMA FreeStep ==
    ASSUME Inv, Types', NEW a \in Handlers, OthersGoOn(a), HandlerInv(a)',
           Holds(a)' <=> Holds(a), VMsFade, UNCHANGED <<tracked, bound, index, op, deleting>>
    PROVE  Inv'
<1>1. \A b \in Handlers : Holds(b)' <=> Holds(b)
  BY OthersHold DEF Inv
<1>2. Exclusive'
  BY <1>1, ClaimSame DEF Inv, WorkerClaims
<1> QED BY <1>2, HandlerStep

LEMMA InvMatch ==
    ASSUME Inv, NEW a \in Handlers, h[a].pc \in {"off", "replay"},
           h' = [h EXCEPT ![a] = Matched(a)],
           UNCHANGED <<apivars, vm, lastVM, tables, deleting, op>>
    PROVE  Inv'
<1>1. Types /\ UNCHANGED <<api, lastUID, tracked, bound, index>> /\ VMsFade /\ ~Holds(a)
  BY SameVMsFade DEF Inv, apivars, tables, Holds
<1>2. CASE tracked # 0 /\ bound # 0
  <2> DEFINE r == [Off EXCEPT !.pc = "gate", !.uid = tracked, !.vm = bound]
  <2>1. /\ r \in HandlerRec /\ r.pc = "gate" /\ r.uid = tracked /\ r.vm = bound
        /\ r.gone = FALSE
    BY <1>1, Constants, Zenon DEF Types, Off, HandlerRec, HandlerPCs
  <2>2. h' = [h EXCEPT ![a] = r]
    BY <1>2 DEF Matched
  <2> HIDE DEF r
  <2>3. h' \in [Handlers -> HandlerRec] /\ h'[a] = r /\ OthersGoOn(a)
    BY <1>1, <2>1, <2>2 DEF Types, OthersGoOn
  <2>4. Types'
    BY <1>1, <2>3 DEF Types
  <2>5. Existing(bound)'
    BY <1>1, <1>2, Constants DEF Inv, Types, TablesAgree, Existing
  <2>6. HandlerInv(a)' /\ ~Holds(a)'
    BY <1>1, <1>2, <2>1, <2>3, <2>5 DEF HandlerInv, Holds
  <2> QED BY <1>1, <2>3, <2>4, <2>6, FreeStep
<1>3. CASE ~(tracked # 0 /\ bound # 0)
  <2>1. Return(a, FALSE)
    BY <1>3, Zenon DEF Matched, Return
  <2>2. h' \in [Handlers -> HandlerRec] /\ Rests(a)' /\ OthersGoOn(a)
    BY <1>1, <2>1, HandlerReturns, Zenon
  <2>3. Types'
    BY <1>1, <2>2 DEF Types
  <2> QED BY <1>1, <2>2, <2>3, RestKeepsInv
<1> QED BY <1>2, <1>3

\* A handler comes to rest, or goes on to another point before the claim.
LEMMA InvGoesOn ==
    ASSUME Inv, NEW a \in Handlers, ~Holds(a), VMsFade,
           vm' \in VMTable,
           UNCHANGED <<api, lastUID, tracked, bound, index, op, deleting>>,
           h[a].pc \notin {"off", "sleep", "exit"}, ~h[a].gone,
           \/ Return(a, FALSE) \/ Return(a, TRUE) \/ ReturnAndRecheck(a, h[a].vm)
           \/ \E pc \in {"inspect", "cool", "start", "claim", "replay"} : Step(a, pc)
    PROVE  Inv'
<1>1. Types /\ lastVM' = lastVM /\ HandlerInv(a) /\ h[a].vm \in VMs
  BY DEF Inv, VMsFade, HandlerInv, Existing
<1>2. CASE Return(a, FALSE) \/ Return(a, TRUE) \/ ReturnAndRecheck(a, h[a].vm)
  <2>1. h' \in [Handlers -> HandlerRec] /\ Rests(a)' /\ OthersGoOn(a)
    BY <1>1, <1>2, HandlerReturns, HandlerReschedules, Zenon
  <2>2. Types'
    BY <1>1, <2>1 DEF Types
  <2> QED BY <2>1, <2>2, RestKeepsInv
<1>3. ASSUME NEW pc \in {"inspect", "cool", "start", "claim", "replay"}, Step(a, pc)
      PROVE  Inv'
  <2>1. /\ h' \in [Handlers -> HandlerRec]
        /\ h'[a].pc = pc /\ h'[a].uid = h[a].uid /\ h'[a].vm = h[a].vm
        /\ h'[a].gone = h[a].gone
        /\ OthersGoOn(a)
    BY <1>1, <1>3, HandlerSteps DEF HandlerPCs
  <2>2. Types'
    BY <1>1, <2>1 DEF Types
  <2>3. h[a].vm \in VMs /\ vm'[h[a].vm] # "none"
    BY <1>1 DEF HandlerInv, Existing, VMsFade
  <2>4. HandlerInv(a)' /\ ~Holds(a)'
    BY <1>1, <2>1, <2>3 DEF HandlerInv, Holds, Existing
  <2> QED BY <2>1, <2>2, <2>4, FreeStep
<1> QED BY <1>2, <1>3, Zenon

\* The VM is not there any more.
LEMMA InvSeesGone ==
    ASSUME Inv, NEW a \in Handlers, h[a].pc \in {"inspect", "look"},
           vm[h[a].vm] = "gone", h' = [h EXCEPT ![a].pc = "claim", ![a].gone = TRUE],
           UNCHANGED <<apivars, vm, lastVM, tables, deleting, op>>
    PROVE  Inv'
<1>1. Types /\ UNCHANGED <<api, lastUID, tracked, bound, index>> /\ VMsFade /\ ~Holds(a)
      /\ HandlerInv(a)
  BY SameVMsFade DEF Inv, apivars, tables, Holds
<1>2. /\ h' \in [Handlers -> HandlerRec]
      /\ h'[a].pc = "claim" /\ h'[a].uid = h[a].uid /\ h'[a].vm = h[a].vm
      /\ h'[a].gone
      /\ OthersGoOn(a)
  BY <1>1, HandlerSeesGone, Zenon
<1>3. Types'
  BY <1>1, <1>2 DEF Types
<1>4. HandlerInv(a)' /\ ~Holds(a)'
  BY <1>1, <1>2 DEF HandlerInv, Holds, Existing
<1> QED BY <1>1, <1>2, <1>3, <1>4, FreeStep

--------------------------------------------------------------------------------
(* removeThenEvict and evictGoneIncarnation.                               *)

LEMMA InvClaim ==
    ASSUME Inv, NEW a \in Handlers, Claim(a)
    PROVE  Inv'
<1>1. /\ Types /\ VMsFade /\ ~Holds(a) /\ HandlerInv(a) /\ Exclusive /\ WorkerInv
      /\ h[a].pc = "claim" /\ h[a].gone \in BOOLEAN /\ h[a].vm \in VMs
      /\ UNCHANGED <<api, lastUID, vm, lastVM, tracked, bound, index, op>>
  BY SameVMsFade
     DEF Inv, Claim, apivars, runtime, tables, Holds, Types, HandlerRec, HandlerInv, Existing
<1>2. CASE MayClaim(a)
  <2>1. ~deleting /\ deleting' = TRUE /\ bound = h[a].vm
    BY <1>2 DEF Claim, MayClaim
  <2>2. /\ h' \in [Handlers -> HandlerRec] /\ OthersGoOn(a)
        /\ h'[a].pc = (IF h[a].gone THEN "evict" ELSE "remove")
        /\ h'[a].uid = h[a].uid /\ h'[a].vm = h[a].vm /\ h'[a].gone = h[a].gone
    BY <1>1, <1>2, HandlerSteps DEF Claim, HandlerPCs
  <2>3. Types'
    BY <1>1, <2>2, Zenon DEF Types
  <2>4. op.pc \notin BringUpPCs /\ ~WorkerClaims
    BY <1>1, <2>1, Constants, Zenon DEF WorkerInv, Exclusive
  <2>5. HandlerInv(a)' /\ Holds(a)'
    BY <1>1, <2>1, <2>2, <2>4, Zenon DEF HandlerInv, Holds, Existing
  <2>6. Exclusive'
    BY <1>1, <2>1, <2>2, <2>4, <2>5, ClaimTaken, OthersHold, Zenon DEF WorkerClaims
  <2> QED BY <1>1, <2>2, <2>3, <2>5, <2>6, HandlerStep
<1>3. CASE ~MayClaim(a) /\ h[a].gone
  <2>1. /\ h' \in [Handlers -> HandlerRec] /\ OthersGoOn(a) /\ h'[a].pc = "settle"
        /\ h'[a].uid = h[a].uid /\ h'[a].vm = h[a].vm /\ h'[a].gone = h[a].gone
        /\ UNCHANGED deleting
    BY <1>1, <1>3, HandlerSteps, Zenon DEF Claim, HandlerPCs
  <2>2. Types'
    BY <1>1, <2>1, Zenon DEF Types
  <2>3. HandlerInv(a)' /\ ~Holds(a)'
    BY <1>1, <1>3, <2>1, Zenon DEF HandlerInv, Holds, Existing
  <2> QED BY <1>1, <2>1, <2>2, <2>3, FreeStep, Zenon
<1>4. CASE ~MayClaim(a) /\ ~h[a].gone
  <2>1. Return(a, FALSE) /\ UNCHANGED deleting
    BY <1>4, Zenon DEF Claim
  <2>2. vm' \in VMTable
    BY <1>1 DEF Types
  <2> QED BY <1>1, <1>4, <2>1, <2>2, InvGoesOn, Zenon
<1> QED BY <1>2, <1>3, <1>4

LEMMA InvRemove ==
    ASSUME Inv, NEW a \in Handlers, Remove(a)
    PROVE  Inv'
<1>1. /\ Types /\ HandlerInv(a) /\ h[a].pc = "remove" /\ Existing(h[a].vm)
      /\ vm' = [vm EXCEPT ![h[a].vm] = "gone"]
      /\ UNCHANGED <<api, lastUID, lastVM, tracked, bound, index, op, deleting>>
  BY Zenon DEF Inv, Remove, RemoveVM, apivars, tables, HandlerInv
<1>2. /\ h' \in [Handlers -> HandlerRec] /\ OthersGoOn(a) /\ h'[a].pc = "evict"
      /\ h'[a].uid = h[a].uid /\ h'[a].vm = h[a].vm /\ h'[a].gone = h[a].gone
  BY <1>1, HandlerSteps, Zenon DEF Remove, HandlerPCs
<1>3. VMsFade /\ vm'[h[a].vm] = "gone"
  BY <1>1, RemovingFades, Zenon
<1>4. Types'
  BY <1>1, <1>2 DEF Types, Existing, VMTable
<1>5. HandlerInv(a)' /\ Holds(a)' /\ Holds(a)
  BY <1>1, <1>2, <1>3 DEF HandlerInv, Holds, Existing
<1> QED BY <1>1, <1>2, <1>3, <1>4, <1>5, FreeStep

LEMMA InvRemoveFails ==
    ASSUME Inv, NEW a \in Handlers, RemoveFails(a)
    PROVE  Inv'
<1>1. /\ Types /\ Exclusive /\ VMsFade /\ Holds(a) /\ deleting' = FALSE
      /\ UNCHANGED <<api, lastUID, vm, lastVM, tracked, bound, index, op>>
  BY SameVMsFade DEF Inv, RemoveFails, apivars, runtime, tables, Holds
<1>2. h' \in [Handlers -> HandlerRec] /\ Rests(a)' /\ OthersGoOn(a)
  BY <1>1, HandlerReturns, Zenon DEF RemoveFails
<1>3. Types'
  BY <1>1, <1>2 DEF Types
<1>4. HandlerInv(a)' /\ ~Holds(a)'
  BY <1>2 DEF HandlerInv, Rests, Holds
<1>5. Exclusive'
  BY <1>1, <1>2, <1>4, ClaimGiven, OthersHold, Zenon DEF WorkerClaims
<1> QED BY <1>1, <1>2, <1>3, <1>4, <1>5, HandlerStep

LEMMA InvEvict ==
    ASSUME Inv, NEW a \in Handlers, Evict(a) \/ EvictFails(a)
    PROVE  Inv'
<1>1. /\ Types /\ HandlerInv(a) /\ VMsFade /\ h[a].pc = "evict"
      /\ UNCHANGED <<lastUID, vm, lastVM, tracked, bound, index, op, deleting>>
  BY SameVMsFade DEF Inv, Evict, EvictFails, apivars, runtime, tables
<1>2. api' \in [uid: UID, term: BOOLEAN]
  BY <1>1, Zenon DEF Evict, EvictFails, apivars, Types
<1>3. PICK pc \in {"untrack", "finish", "settle"} :
        /\ Step(a, pc)
        /\ pc = "finish" => h[a].gone
        /\ pc = "settle" => ~h[a].gone
  BY DEF Evict, EvictFails, Evicted
<1>4. /\ h' \in [Handlers -> HandlerRec] /\ OthersGoOn(a) /\ h'[a].pc = pc
      /\ h'[a].uid = h[a].uid /\ h'[a].vm = h[a].vm /\ h'[a].gone = h[a].gone
  BY <1>1, <1>3, HandlerSteps DEF HandlerPCs
<1>5. Types'
  BY <1>1, <1>2, <1>4 DEF Types
<1>6. HandlerInv(a)' /\ Holds(a)' /\ Holds(a)
  BY <1>1, <1>3, <1>4 DEF HandlerInv, Holds, Existing
<1> QED BY <1>1, <1>4, <1>5, <1>6, FreeStep

LEMMA InvUntrack ==
    ASSUME Inv, NEW a \in Handlers, UntrackIncarnation(a)
    PROVE  Inv'
<1>1. /\ Types /\ Exclusive /\ OneVM /\ HandlerInv(a) /\ h[a].pc = "untrack" /\ Holds(a)
      /\ WorkerInv /\ TablesAgree /\ NoVMIsLost /\ VMsFade
      /\ UNCHANGED <<api, lastUID, vm, lastVM, op, deleting>>
  BY SameVMsFade DEF Inv, UntrackIncarnation, apivars, runtime, Holds
<1>2. PICK pc \in {"finish", "settle"} :
        Step(a, pc) /\ (pc = "finish" => h[a].gone) /\ (pc = "settle" => ~h[a].gone)
  BY Zenon DEF UntrackIncarnation, Evicted
<1>3. /\ h' \in [Handlers -> HandlerRec] /\ OthersGoOn(a) /\ h'[a].pc = pc
      /\ h'[a].uid = h[a].uid /\ h'[a].vm = h[a].vm /\ h'[a].gone = h[a].gone
  BY <1>1, <1>2, HandlerSteps, Zenon DEF HandlerPCs
<1>4. HandlerInv(a)' /\ Holds(a)'
  BY <1>1, <1>2, <1>3, Zenon DEF HandlerInv, Holds, Existing
<1>5. CASE tracked # h[a].uid
  <2>1. UNCHANGED <<tracked, bound, index>>
    BY <1>5, Zenon DEF UntrackIncarnation, tables
  <2>2. Types'
    BY <1>1, <1>3, <2>1 DEF Types
  <2> QED BY <1>1, <1>3, <1>4, <2>1, <2>2, FreeStep, Zenon
<1>6. CASE tracked = h[a].uid
  <2>1. tracked' = 0 /\ bound' = 0 /\ index' = IF index = bound THEN 0 ELSE index
    BY <1>6, Zenon DEF UntrackIncarnation, Untrack, DropVM
  <2>2. Types'
    BY <1>1, <1>3, <2>1, Constants, Zenon DEF Types
  <2>3. op.pc \notin BringUpPCs /\ ~WorkerClaims /\ ~Present(bound)
    BY <1>1, Zenon DEF HandlerInv, Exclusive, Present
  <2>4. Exclusive'
    <3>1. \A b \in Handlers : Holds(b)' <=> Holds(b)
      BY <1>1, <1>3, <1>4, OthersHold, Zenon
    <3> QED BY <1>1, <3>1, ClaimSame, Zenon DEF WorkerClaims
  <2>5. OneVM' /\ TablesAgree'
    BY <1>1, <2>1, <2>2, FadingVMs, Zenon DEF TablesAgree
  <2>6. NoVMIsLost'
    BY <1>1, <2>1, <2>3, Zenon DEF NoVMIsLost, Present, BringUpPCs
  <2>7. WorkerInv'
    BY <1>1, <2>1, <2>3, Zenon DEF WorkerInv, WorkerClaims, Present, Existing, BringUpPCs
  <2>8. ASSUME NEW b \in Handlers PROVE HandlerInv(b)'
    <3>1. CASE b = a
      BY <1>4, <3>1, Zenon
    <3>2. CASE b # a /\ h'[b] = h[b]
      BY <1>1, <2>1, <3>2, Zenon DEF Inv, HandlerInv, Existing
    <3>3. CASE b # a /\ Rests(b)'
      BY <3>3, Zenon DEF HandlerInv, Rests
    <3> QED BY <1>3, <3>1, <3>2, <3>3 DEF OthersGoOn
  <2> QED BY <2>2, <2>4, <2>5, <2>6, <2>7, <2>8, Zenon DEF Inv
<1> QED BY <1>5, <1>6

LEMMA InvFinish ==
    ASSUME Inv, NEW a \in Handlers, Finish(a)
    PROVE  Inv'
<1>1. /\ Types /\ Exclusive /\ HandlerInv(a) /\ VMsFade /\ Holds(a) /\ deleting' = FALSE
      /\ h[a].pc = "finish" /\ h[a].gone
      /\ UNCHANGED <<api, lastUID, vm, lastVM, tracked, bound, index, op>>
  BY SameVMsFade, Zenon DEF Inv, Finish, apivars, runtime, tables, Holds, HandlerInv
<1>2. /\ h' \in [Handlers -> HandlerRec] /\ OthersGoOn(a) /\ h'[a].pc = "settle"
      /\ h'[a].uid = h[a].uid /\ h'[a].vm = h[a].vm /\ h'[a].gone = h[a].gone
  BY <1>1, HandlerSteps, Zenon DEF Finish, HandlerPCs
<1>3. Types'
  BY <1>1, <1>2 DEF Types
<1>4. HandlerInv(a)' /\ ~Holds(a)'
  BY <1>1, <1>2 DEF HandlerInv, Holds, Existing
<1>5. Exclusive'
  BY <1>1, <1>2, <1>4, ClaimGiven, OthersHold, Zenon DEF WorkerClaims
<1> QED BY <1>1, <1>2, <1>3, <1>4, <1>5, HandlerStep, Zenon

LEMMA InvSettle ==
    ASSUME Inv, NEW a \in Handlers, Settle(a)
    PROVE  Inv'
<1>1. /\ Types /\ Exclusive /\ HandlerInv(a) /\ VMsFade
      /\ h[a].pc = "settle" /\ h[a].vm \in VMs
      /\ UNCHANGED <<api, lastUID, vm, lastVM, tracked, bound, index, op>>
  BY SameVMsFade DEF Inv, Settle, apivars, runtime, tables, HandlerInv, Existing
<1>2. h' \in [Handlers -> HandlerRec] /\ Rests(a)' /\ OthersGoOn(a)
  BY <1>1, HandlerReturns, HandlerReschedules, Zenon DEF Settle
<1>3. Types'
  BY <1>1, <1>2 DEF Types
<1>4. HandlerInv(a)' /\ ~Holds(a)'
  BY <1>2 DEF HandlerInv, Rests, Holds
<1>5. CASE h[a].gone
  <2>1. ~Holds(a) /\ (deleting' <=> deleting)
    BY <1>1, <1>5, Zenon DEF Holds, Settle
  <2>2. \A b \in Handlers : Holds(b)' <=> Holds(b)
    BY <1>1, <1>2, <1>4, <2>1, OthersHold
  <2>3. Exclusive'
    BY <1>1, <2>1, <2>2, ClaimSame DEF WorkerClaims
  <2> QED BY <1>1, <1>2, <1>3, <1>4, <2>3, HandlerStep
<1>6. CASE ~h[a].gone
  <2>1. Holds(a) /\ deleting' = FALSE
    BY <1>1, <1>6, Zenon DEF Holds, Settle
  <2>2. Exclusive'
    BY <1>1, <1>2, <1>4, <2>1, ClaimGiven, OthersHold, Zenon DEF WorkerClaims
  <2> QED BY <1>1, <1>2, <1>3, <1>4, <2>2, HandlerStep
<1> QED BY <1>5, <1>6

LEMMA InvHandle ==
    ASSUME Inv, NEW a \in Handlers, Handle(a)
    PROVE  Inv'
<1>0. Types /\ HandlerInv(a) /\ vm \in VMTable
  BY DEF Inv, Types
<1>1. CASE Replay(a)
  BY <1>1, InvMatch, Zenon DEF Replay, runtime
<1>2. CASE Gate(a) \/ (Inspect(a) /\ vm[h[a].vm] # "gone") \/ InspectFails(a) \/ Cooldown(a)
             \/ StartFails(a)
  <2>1. /\ UNCHANGED <<api, lastUID, vm, lastVM, tracked, bound, index, op, deleting>>
        /\ h[a].pc \in {"gate", "inspect", "cool", "start"}
    BY <1>2, Zenon
       DEF Gate, Inspect, InspectFails, Cooldown, StartFails, apivars, runtime, tables
  <2>2. \/ Return(a, FALSE) \/ Return(a, TRUE) \/ ReturnAndRecheck(a, h[a].vm)
        \/ \E pc \in {"inspect", "cool", "start", "claim", "replay"} : Step(a, pc)
    BY <1>2, Zenon DEF Gate, Inspect, InspectFails, Cooldown, StartFails
  <2>3. ~Holds(a) /\ VMsFade /\ ~h[a].gone
    BY <1>0, <2>1, SameVMsFade DEF Holds, HandlerInv
  <2> QED BY <1>0, <2>1, <2>2, <2>3, InvGoesOn, Zenon
<1>3. CASE Inspect(a) /\ vm[h[a].vm] = "gone"
  <2>1. /\ h[a].pc = "inspect" /\ h' = [h EXCEPT ![a].pc = "claim", ![a].gone = TRUE]
        /\ UNCHANGED <<apivars, vm, lastVM, tables, deleting, op>>
    BY <1>3 DEF Inspect, runtime
  <2> QED BY <1>3, <2>1, InvSeesGone, Zenon
<1>4. CASE Start(a)
  <2>1. /\ UNCHANGED <<api, lastUID, lastVM, tracked, bound, index, op, deleting>>
        /\ h[a].pc = "start" /\ Return(a, FALSE) /\ Present(h[a].vm)
        /\ vm' = [vm EXCEPT ![h[a].vm] = "running"]
    BY <1>4, Zenon DEF Start, apivars, tables
  <2>2. ~Holds(a) /\ ~h[a].gone /\ h[a].vm \in VMs
    BY <1>0, <2>1 DEF Holds, HandlerInv, Existing
  <2>3. VMsFade
    BY <1>0, <2>1, <2>2, StoppingFades, Zenon
  <2>4. vm' \in VMTable
    BY <1>0, <2>1, <2>2 DEF VMTable
  <2> QED BY <2>1, <2>2, <2>3, <2>4, InvGoesOn, Zenon
<1>5. CASE Claim(a) \/ Remove(a) \/ RemoveFails(a) \/ Evict(a) \/ EvictFails(a)
             \/ UntrackIncarnation(a) \/ Finish(a) \/ Settle(a)
  BY <1>5, InvClaim, InvRemove, InvRemoveFails, InvEvict, InvUntrack, InvFinish, InvSettle
<1> QED BY <1>1, <1>2, <1>3, <1>4, <1>5 DEF Handle

LEMMA InvRecheck ==
    ASSUME Inv, NEW i \in VMs, Recheck(i)
    PROVE  Inv'
<1>0. /\ Types /\ HandlerInv(i) /\ vm \in VMTable
      /\ i \in Handlers /\ TablesAgree
  BY Constants DEF Inv, Types
<1>1. /\ UNCHANGED <<apivars, vm, lastVM, tables, deleting, op>>
      /\ UNCHANGED <<api, lastUID, tracked, bound, index>> /\ VMsFade
      /\ h[i].pc \in {"sleep", "look", "exit"} /\ ~Holds(i) /\ ~h[i].gone
  BY <1>0, SameVMsFade, Zenon DEF Recheck, RecheckMatches, RecheckInspects, RecheckInspectFails,
     RecheckExits, apivars, runtime, tables, Holds, HandlerInv
<1>2. CASE RecheckMatches(i) /\ tracked # 0 /\ bound = i
  <2> DEFINE r == [h[i] EXCEPT !.pc = "look", !.uid = tracked]
  <2>1. h[i] \in HandlerRec /\ h[i].pc = "sleep" /\ tracked \in UID
    BY <1>0, <1>2 DEF Types, RecheckMatches
  <2>2. /\ r \in HandlerRec /\ r.pc = "look" /\ r.uid = tracked /\ r.vm = h[i].vm
        /\ r.gone = h[i].gone
    BY <2>1, Zenon DEF HandlerRec, HandlerPCs
  <2>3. h' = [h EXCEPT ![i] = r]
    BY <1>2 DEF RecheckMatches
  <2> HIDE DEF r
  <2>4. h' \in [Handlers -> HandlerRec] /\ h'[i] = r /\ OthersGoOn(i)
    BY <1>0, <2>2, <2>3 DEF Types, OthersGoOn
  <2>5. Types'
    BY <1>1, <1>0, <2>4 DEF Types
  <2>6. h[i].vm = i /\ vm[i] # "none"
    BY <1>0, <1>2, <2>1, Constants DEF HandlerInv, TablesAgree
  <2>7. HandlerInv(i)' /\ ~Holds(i)'
    BY <1>0, <1>1, <1>2, <2>2, <2>4, <2>6, Zenon DEF HandlerInv, Holds, Existing
  <2> QED BY <1>0, <1>1, <2>4, <2>5, <2>7, FreeStep
<1>3. CASE RecheckMatches(i) /\ ~(tracked # 0 /\ bound = i)
  <2>1. Return(i, FALSE)
    BY <1>3, Zenon DEF RecheckMatches, Return
  <2>2. h' \in [Handlers -> HandlerRec] /\ Rests(i)' /\ OthersGoOn(i)
    BY <1>0, <2>1, HandlerReturns, Zenon
  <2>3. Types'
    BY <1>0, <1>1, <2>2 DEF Types
  <2> QED BY <1>0, <1>1, <2>2, <2>3, RestKeepsInv, Zenon
<1>4. CASE RecheckInspects(i) /\ vm[i] = "gone"
  <2>1. h[i].pc = "look" /\ h' = [h EXCEPT ![i].pc = "claim", ![i].gone = TRUE]
    BY <1>4 DEF RecheckInspects
  <2>2. h[i].vm = i
    BY <1>0, <2>1 DEF HandlerInv
  <2> QED BY <1>0, <1>1, <1>4, <2>1, <2>2, InvSeesGone, Zenon
<1>5. CASE (RecheckInspects(i) /\ vm[i] # "gone") \/ RecheckInspectFails(i)
  <2>1. \/ Return(i, FALSE) \/ Return(i, TRUE) \/ ReturnAndRecheck(i, h[i].vm)
        \/ \E pc \in {"inspect", "cool", "start", "claim", "replay"} : Step(i, pc)
    BY <1>5, Zenon DEF RecheckInspects, RecheckInspectFails
  <2>2. h[i].pc = "look"
    BY <1>5, Zenon DEF RecheckInspects, RecheckInspectFails
  <2> QED BY <1>0, <1>1, <2>1, <2>2, InvGoesOn, Zenon
<1>6. CASE RecheckExits(i)
  <2>1. h' = [h EXCEPT ![i] = Off] /\ Off.pc = "off" /\ ~Off.gone
    BY <1>6, Zenon DEF RecheckExits, Off
  <2>2. h' \in [Handlers -> HandlerRec] /\ Rests(i)' /\ OthersGoOn(i)
    BY <1>0, <2>1, Constants, Zenon DEF Types, Rests, OthersGoOn
  <2>3. Types'
    BY <1>0, <1>1, <2>2 DEF Types
  <2> QED BY <1>0, <1>1, <2>2, <2>3, RestKeepsInv
<1> QED BY <1>2, <1>3, <1>4, <1>5, <1>6 DEF Recheck

\* What users and the runtime do.
LEMMA InvEnvironment ==
    ASSUME Inv, Environment
    PROVE  Inv'
<1>0. /\ Types /\ Watcher \in Handlers /\ HandlerInv(Watcher) /\ BoundsAssumption
      /\ vm \in VMTable
  BY Constants, BoundsAssumption DEF Inv, Types
<1>1. UNCHANGED <<lastVM, tracked, bound, index, op, deleting, h>>
  BY Zenon DEF Environment, ApiCreate, ApiTerminate, ApiRemove, VMStops, VMDisappears,
     StreamRestarts, apivars, runtime, tables
<1>2. api' \in [uid: UID, term: BOOLEAN] /\ lastUID' \in UID
  <2>1. CASE ApiCreate
    BY <1>0, <2>1, BoundsAssumption DEF ApiCreate, Types, UID
  <2>2. CASE ApiTerminate
    BY <1>0, <2>2, Zenon DEF ApiTerminate, Types
  <2>3. CASE ApiRemove
    BY <1>0, <2>3, Constants DEF ApiRemove, NoPod, Types
  <2>4. CASE UNCHANGED apivars
    BY <1>0, <2>4 DEF apivars, Types
  <2> QED BY <2>1, <2>2, <2>3, <2>4, Zenon
             DEF Environment, VMStops, VMDisappears, StreamRestarts
<1>3. VMsFade /\ vm' \in VMTable
  <2>1. CASE UNCHANGED vm
    BY <1>0, <1>1, <2>1, SameVMsFade
  <2>2. ASSUME NEW i \in VMs, VMStops(i)
        PROVE  VMsFade /\ vm' \in VMTable
    BY <1>0, <1>1, <2>2 DEF VMStops, VMsFade, VMTable
  <2>3. ASSUME NEW i \in VMs, VMDisappears(i)
        PROVE  VMsFade /\ vm' \in VMTable
    BY <1>0, <1>1, <2>3 DEF VMDisappears, VMsFade, Present, VMTable
  <2> QED BY <2>1, <2>2, <2>3
          DEF Environment, ApiCreate, ApiTerminate, ApiRemove, StreamRestarts, runtime
<1>4. Types' /\ OthersGoOn(Watcher)
  BY <1>0, <1>1, <1>2, <1>3 DEF Types, OthersGoOn
<1>5. Holds(Watcher)' <=> Holds(Watcher)
  BY <1>1 DEF Holds
<1>6. HandlerInv(Watcher)'
  BY <1>0, <1>1, <1>3 DEF HandlerInv, Existing, VMsFade
<1> QED BY <1>0, <1>1, <1>3, <1>4, <1>5, <1>6, FreeStep, Zenon

--------------------------------------------------------------------------------
(* The framework's worker.                                                 *)

LEMMA GotoTyped ==
    ASSUME Types, NEW pc \in OpPCs, Goto(pc)
    PROVE  /\ op' \in OpRec /\ op'.pc = pc
           /\ op'.uid = op.uid /\ op'.vm = op.vm
BY Zenon DEF Types, OpRec, Goto

\* What the worker may do to the handlers: a create begins only when the key is not
\* claimed, and a claimed key is bound to nothing new.
LEMMA WorkerStep ==
    ASSUME Inv, Types', OneVM', Exclusive', WorkerInv', TablesAgree', NoVMIsLost',
           \A b \in Handlers : h'[b] = h[b] \/ Rests(b)',
           \A i \in VMs : vm[i] # "none" => vm'[i] # "none",
           \A i \in VMs : vm[i] = "gone" => vm'[i] = "gone",
           \/ op.pc \in BringUpPCs \/ ~deleting
           \/ bound' \in {0, bound} /\ op'.pc \notin BringUpPCs
    PROVE  Inv'
<1>1. ASSUME NEW b \in Handlers PROVE HandlerInv(b)'
  <2>1. HandlerInv(b) /\ Exclusive
    BY Zenon DEF Inv
  <2>2. CASE Rests(b)'
    BY <2>2, Zenon DEF HandlerInv, Rests
  <2>3. CASE h'[b] = h[b]
    <3>1. h[b].pc \in {"remove", "evict", "untrack"} =>
            bound' \in {0, h[b].vm} /\ op'.pc \notin BringUpPCs
      BY <2>1, Zenon DEF HandlerInv, Exclusive, Holds
    <3>2. h[b].gone => h[b].vm \in VMs
      BY <2>1 DEF HandlerInv, Existing
    <3> QED BY <2>1, <2>3, <3>1, <3>2, Zenon DEF HandlerInv, Existing
  <2> QED BY <2>2, <2>3, Zenon
<1> QED BY <1>1, Zenon DEF Inv

LEMMA TablesKept ==
    ASSUME Inv, Types', VMsFade, op.pc # "bind", UNCHANGED <<tracked, bound, index>>
    PROVE  TablesAgree' /\ NoVMIsLost'
<1>1. \A i \in VMs : Present(i)' => Present(i)
  BY FadingVMs, Zenon DEF Inv
<1>2. bound # 0 => bound \in VMs
  BY Constants, Zenon DEF Inv, Types
<1> QED BY <1>1, <1>2 DEF Inv, TablesAgree, NoVMIsLost, VMsFade

\* The worker goes on without a change of the tables or of the claim.
LEMMA WorkerGoesOn ==
    ASSUME Inv, Types', VMsFade, WorkerInv', op.pc # "bind",
           WorkerClaims' <=> WorkerClaims,
           op'.pc \in BringUpPCs => op.pc \in BringUpPCs \/ ~deleting,
           UNCHANGED <<tracked, bound, index, deleting, h>>
    PROVE  Inv'
<1>1. OneVM' /\ TablesAgree' /\ NoVMIsLost'
  BY FadingVMs, TablesKept, Zenon DEF Inv
<1>2. Exclusive'
  BY ClaimSame, Zenon DEF Inv, Holds
<1> QED BY <1>1, <1>2, WorkerStep, Zenon DEF VMsFade

LEMMA IdleWorker ==
    ASSUME op' = Idle
    PROVE  WorkerInv' /\ ~WorkerClaims' /\ op'.pc = "idle"
BY Zenon DEF Idle, WorkerInv, WorkerClaims, BringUpPCs, HibernatePCs

LEMMA InvCreateStart ==
    ASSUME Inv, CreateStart
    PROVE  Inv'
<1>1. /\ Types /\ Exclusive /\ OneVM /\ TablesAgree /\ NoVMIsLost /\ VMsFade
      /\ op.pc = "idle" /\ api.uid # 0 /\ api.uid \in UID /\ ~deleting
      /\ tracked' = api.uid /\ bound' = 0 /\ index' = IF bound # 0 THEN bound ELSE index
      /\ UNCHANGED <<api, lastUID, vm, lastVM, deleting, h>>
  BY SameVMsFade DEF Inv, CreateStart, Types, apivars, runtime
<1>2. op' \in OpRec /\ op'.pc = "adopt" /\ op'.uid = api.uid
  BY <1>1, Constants, Zenon DEF CreateStart, Idle, OpRec, OpPCs
<1>3. Types'
  BY <1>1, <1>2, Constants DEF Types
<1>4. OneVM'
  BY <1>1, <1>3, FadingVMs
<1>5. TablesAgree' /\ NoVMIsLost'
  BY <1>1 DEF TablesAgree, NoVMIsLost, Present
<1>6. WorkerInv'
  BY <1>1, <1>2 DEF WorkerInv, HibernatePCs
<1>7. Exclusive'
  BY <1>1, <1>2, ClaimSame DEF Holds, WorkerClaims
<1> QED BY <1>1, <1>3, <1>4, <1>5, <1>6, <1>7, WorkerStep

LEMMA InvCreateAdopts ==
    ASSUME Inv, CreateAdopts
    PROVE  Inv'
<1>1. /\ Types /\ WorkerInv /\ OneVM /\ VMsFade /\ op.pc = "adopt" /\ Present(index)
      /\ UNCHANGED <<api, lastUID, vm, lastVM, tracked, bound, index, deleting, h>>
  BY SameVMsFade DEF Inv, CreateAdopts, apivars, runtime, tables
<1>2. index \in VMs
  BY <1>1, Constants DEF Types, Present
<1>3. op' \in OpRec /\ op'.pc = "bind" /\ op'.uid = op.uid /\ op'.vm = index
  BY <1>1, Zenon DEF CreateAdopts, Types, OpRec, OpPCs
<1>4. Types'
  BY <1>1, <1>3 DEF Types
<1>5. WorkerInv'
  BY <1>1, <1>2, <1>3 DEF WorkerInv, BringUpPCs, HibernatePCs, Existing, Present, OneVM
<1>6. WorkerClaims' <=> WorkerClaims
  BY <1>1, <1>3 DEF WorkerClaims
<1> QED BY <1>1, <1>4, <1>5, <1>6, WorkerGoesOn DEF BringUpPCs

LEMMA InvCreateFindsNone ==
    ASSUME Inv, CreateFindsNone
    PROVE  Inv'
<1>1. /\ Types /\ Exclusive /\ WorkerInv /\ OneVM /\ NoVMIsLost /\ VMsFade
      /\ op.pc = "adopt" /\ ~Present(index) /\ index' = 0
      /\ UNCHANGED <<api, lastUID, vm, lastVM, tracked, bound, deleting, h>>
  BY SameVMsFade DEF Inv, CreateFindsNone, apivars, runtime
<1>2. op' \in OpRec /\ op'.pc = "boot" /\ op'.uid = op.uid
  BY <1>1, GotoTyped, Zenon DEF CreateFindsNone, OpPCs
<1>3. Types'
  BY <1>1, <1>2, Constants, Zenon DEF Types
<1>4. bound = 0 /\ op.uid # 0
  BY <1>1, Zenon DEF WorkerInv, BringUpPCs
<1>5. OneVM' /\ TablesAgree' /\ NoVMIsLost'
  BY <1>1, <1>3, <1>4, FadingVMs, Zenon DEF TablesAgree, NoVMIsLost, Present
<1>6. WorkerInv' /\ Exclusive'
  BY <1>1, <1>2, <1>4, ClaimSame, Zenon DEF WorkerInv, HibernatePCs, Holds, WorkerClaims
<1> QED BY <1>1, <1>3, <1>5, <1>6, WorkerStep DEF BringUpPCs

LEMMA InvFailBringUp ==
    ASSUME Inv, op.pc \in {"adopt", "boot"}, FailBringUp
    PROVE  Inv'
<1>1. /\ Types /\ Exclusive /\ WorkerInv /\ OneVM /\ NoVMIsLost /\ VMsFade
      /\ op' = Idle /\ tracked' \in {0, tracked}
      /\ UNCHANGED <<api, lastUID, vm, lastVM, bound, index, deleting, h>>
  BY SameVMsFade, Zenon DEF Inv, FailBringUp, apivars, runtime
<1>2. Types' /\ bound = 0
  BY <1>1, Constants, Zenon DEF Types, WorkerInv, BringUpPCs
<1>3. OneVM' /\ TablesAgree' /\ NoVMIsLost'
  BY <1>1, <1>2, FadingVMs, Zenon DEF TablesAgree, NoVMIsLost, Present
<1>4. WorkerInv' /\ Exclusive'
  BY <1>1, IdleWorker, ClaimSame DEF Holds, WorkerClaims
<1> QED BY <1>1, <1>2, <1>3, <1>4, WorkerStep, Zenon DEF BringUpPCs

LEMMA InvBoot ==
    ASSUME Inv, Boot
    PROVE  Inv'
<1>1. /\ Types /\ Exclusive /\ WorkerInv /\ OneVM /\ op.pc = "boot" /\ lastVM \in ID
      /\ (\A i \in VMs : ~Present(i)) /\ lastVM < MaxVM
      /\ lastVM' = lastVM + 1 /\ vm' = [vm EXCEPT ![lastVM + 1] = "running"]
      /\ op' = [op EXCEPT !.pc = "bind", !.vm = lastVM + 1]
      /\ UNCHANGED <<api, lastUID, tracked, bound, index, deleting, h>>
  BY DEF Inv, Types, Boot, apivars, tables
<1>2. lastVM + 1 \in VMs /\ lastVM + 1 \in ID /\ lastVM \in Nat /\ VMs \subseteq Nat
  BY <1>1, BoundsAssumption DEF ID, VMs
<1>3. vm[lastVM + 1] = "none"
  BY <1>1, <1>2 DEF OneVM
<1>4. /\ op' \in OpRec /\ op'.pc = "bind" /\ op'.uid = op.uid /\ op'.vm = lastVM + 1
  BY <1>1, <1>2, Zenon DEF Types, OpRec, OpPCs
<1>5. /\ vm' \in VMTable /\ vm'[lastVM + 1] = "running"
      /\ \A i \in VMs \ {lastVM + 1} : vm'[i] = vm[i]
  BY <1>1, <1>2 DEF Types, VMTable
<1>6. Types'
  BY <1>1, <1>2, <1>4, <1>5 DEF Types
<1>7. \A i \in VMs : Present(i)' => i = lastVM + 1
  BY <1>1, <1>5 DEF Present
<1>8. OneVM'
  BY <1>1, <1>2, <1>5, <1>7 DEF OneVM
<1>9. bound = 0 /\ op.uid # 0
  BY <1>1 DEF WorkerInv, BringUpPCs
<1>10. TablesAgree' /\ NoVMIsLost'
  BY <1>1, <1>4, <1>7, <1>9 DEF TablesAgree, NoVMIsLost
<1>11. WorkerInv'
  BY <1>1, <1>2, <1>4, <1>5, <1>7, <1>9 DEF WorkerInv, BringUpPCs, HibernatePCs, Existing
<1>12. Exclusive'
  BY <1>1, <1>4, ClaimSame DEF Holds, WorkerClaims
<1> QED BY <1>1, <1>3, <1>5, <1>6, <1>8, <1>10, <1>11, <1>12, WorkerStep, Zenon DEF BringUpPCs

LEMMA InvBind ==
    ASSUME Inv, Bind
    PROVE  Inv'
<1>1. /\ Types /\ Exclusive /\ WorkerInv /\ OneVM /\ VMsFade /\ op.pc = "bind"
      /\ index' = op.vm
      /\ UNCHANGED <<api, lastUID, vm, lastVM, deleting, h>>
  BY SameVMsFade DEF Inv, Bind, apivars, runtime
<1>2. /\ bound = 0 /\ op.uid # 0 /\ op.uid \in UID /\ op.vm \in VMs /\ op.vm \in ID
      /\ vm[op.vm] # "none" /\ \A i \in VMs : Present(i) => i = op.vm
  BY <1>1 DEF WorkerInv, BringUpPCs, Existing, Types, OpRec
<1>3. CASE deleting \/ Superseded(op.uid)
  <2>1. op' = Idle /\ UNCHANGED <<tracked, bound>>
    BY <1>3, Zenon DEF Bind
  <2>2. Types'
    BY <1>1, <1>2, <2>1, Constants, Zenon DEF Types
  <2>3. OneVM' /\ TablesAgree' /\ NoVMIsLost'
    BY <1>1, <1>2, <2>1, <2>2, FadingVMs, Zenon DEF TablesAgree, NoVMIsLost, Present
  <2>4. WorkerInv' /\ Exclusive'
    BY <1>1, <2>1, IdleWorker, ClaimSame, Zenon DEF Holds, WorkerClaims
  <2> QED BY <1>1, <2>2, <2>3, <2>4, WorkerStep, Zenon DEF BringUpPCs
<1>4. CASE ~(deleting \/ Superseded(op.uid))
  <2>1. tracked' = op.uid /\ bound' = op.vm /\ Goto("publish")
    BY <1>4, Zenon DEF Bind
  <2>2. op' \in OpRec /\ op'.pc = "publish" /\ op'.uid = op.uid /\ op'.vm = op.vm
    BY <1>1, <2>1, GotoTyped, Zenon DEF OpPCs
  <2>3. Types'
    BY <1>1, <1>2, <2>1, <2>2, Zenon DEF Types
  <2>4. OneVM' /\ TablesAgree' /\ NoVMIsLost'
    BY <1>1, <1>2, <2>1, <2>3, FadingVMs, Zenon DEF TablesAgree, NoVMIsLost, Present
  <2>5. WorkerInv'
    BY <1>1, <1>2, <2>1, <2>2, Zenon DEF WorkerInv, BringUpPCs, HibernatePCs, Existing
  <2>6. Exclusive'
    BY <1>1, <2>2, ClaimSame, Zenon DEF Holds, WorkerClaims
  <2> QED BY <1>1, <2>3, <2>4, <2>5, <2>6, WorkerStep, Zenon DEF BringUpPCs
<1> QED BY <1>3, <1>4

LEMMA InvPublish ==
    ASSUME Inv, Publish
    PROVE  Inv'
<1>1. /\ Types /\ Exclusive /\ WorkerInv /\ OneVM /\ TablesAgree /\ NoVMIsLost /\ VMsFade
      /\ op.pc = "publish" /\ op' = Idle
      /\ UNCHANGED <<api, lastUID, vm, lastVM, deleting, h>>
  BY SameVMsFade, Zenon DEF Inv, Publish, apivars, runtime
<1>2. /\ op.vm \in VMs /\ op.vm # 0 /\ op.vm \in ID
      /\ index \in {0, op.vm} /\ bound \in {0, op.vm} /\ 0 \in UID /\ 0 \in ID
  BY <1>1, Constants, Zenon DEF WorkerInv, Existing
<1>3. \/ UNCHANGED <<tracked, bound, index>>
      \/ tracked' = 0 /\ bound' = 0 /\ index' = op.vm
      \/ bound = 0 /\ bound' = 0 /\ tracked' = tracked /\ index' = op.vm
  BY <1>2, Zenon DEF Publish, Detach, tables
<1>4. Types'
  BY <1>1, <1>2, <1>3, Constants, Zenon DEF Types
<1>5. \A i \in VMs : Present(i) => i = op.vm
  BY <1>1, <1>2, Constants, Zenon DEF NoVMIsLost
<1>6. TablesAgree'
  BY <1>1, <1>3, Zenon DEF TablesAgree
<1>7. NoVMIsLost'
  <2>1. \A i \in VMs : Present(i)' => Present(i)
    BY <1>1, Zenon DEF Present
  <2> QED BY <1>1, <1>3, <1>5, <2>1, Zenon DEF NoVMIsLost
<1>8. OneVM' /\ WorkerInv' /\ Exclusive' /\ op'.pc \notin BringUpPCs
  BY <1>1, <1>4, FadingVMs, IdleWorker, ClaimSame, Zenon DEF Holds, WorkerClaims, BringUpPCs
<1> QED BY <1>1, <1>3, <1>4, <1>6, <1>7, <1>8, WorkerStep, Zenon

LEMMA InvWakeStart ==
    ASSUME Inv, WakeStart
    PROVE  Inv'
<1>1. /\ Types /\ VMsFade /\ op.pc = "idle" /\ ~deleting /\ bound = 0
      /\ tracked # 0 /\ tracked \in UID
      /\ UNCHANGED <<api, lastUID, vm, lastVM, tracked, bound, index, deleting, h>>
  BY SameVMsFade DEF Inv, Types, WakeStart, Updatable, apivars, runtime, tables
<1>2. op' \in OpRec /\ op'.pc = "boot" /\ op'.uid = tracked
  BY <1>1, Constants, Zenon DEF WakeStart, Idle, OpRec, OpPCs
<1>3. Types'
  BY <1>1, <1>2 DEF Types
<1>4. WorkerInv' /\ (WorkerClaims' <=> WorkerClaims)
  BY <1>1, <1>2 DEF WorkerInv, HibernatePCs, WorkerClaims
<1> QED BY <1>1, <1>3, <1>4, WorkerGoesOn

LEMMA InvHibernateStart ==
    ASSUME Inv, HibernateStart
    PROVE  Inv'
<1>1. /\ Types /\ VMsFade /\ op.pc = "idle" /\ bound # 0 /\ bound \in ID /\ tracked \in UID
      /\ UNCHANGED <<api, lastUID, vm, lastVM, tracked, bound, index, deleting, h>>
  BY SameVMsFade DEF Inv, Types, HibernateStart, Updatable, apivars, runtime, tables
<1>2. op' \in OpRec /\ op'.pc = "hibernate" /\ op'.vm = bound
  BY <1>1, Constants, Zenon DEF HibernateStart, Idle, OpRec, OpPCs
<1>3. Types'
  BY <1>1, <1>2 DEF Types
<1>4. bound \in VMs /\ vm[bound] # "none"
  BY <1>1, Constants DEF Inv, TablesAgree
<1>5. WorkerInv' /\ (WorkerClaims' <=> WorkerClaims)
  BY <1>1, <1>2, <1>4 DEF WorkerInv, BringUpPCs, HibernatePCs, WorkerClaims, Existing
<1> QED BY <1>1, <1>2, <1>3, <1>5, WorkerGoesOn DEF BringUpPCs

LEMMA InvHibernates ==
    ASSUME Inv, HibernateSave \/ HibernateFails
    PROVE  Inv'
<1>1. /\ Types /\ WorkerInv /\ VMsFade /\ op.pc \in {"hibernate", "remove"}
      /\ UNCHANGED <<api, lastUID, vm, lastVM, tracked, bound, index, deleting, h>>
  BY SameVMsFade, Zenon DEF Inv, HibernateSave, HibernateFails, apivars, runtime, tables
<1>2. op' \in OpRec /\ op'.pc \in {"remove", "hibernated"} /\ op'.vm = op.vm
  BY <1>1, GotoTyped, Zenon DEF HibernateSave, HibernateFails, OpPCs
<1>3. Types'
  BY <1>1, <1>2, Zenon DEF Types
<1>4. WorkerInv' /\ (WorkerClaims' <=> WorkerClaims)
  BY <1>1, <1>2, Zenon DEF WorkerInv, BringUpPCs, HibernatePCs, WorkerClaims, Existing
<1> QED BY <1>1, <1>2, <1>3, <1>4, WorkerGoesOn, Zenon DEF BringUpPCs

\* The worker removes its VM, to hibernate or to delete the pod.
LEMMA InvRemoves ==
    ASSUME Inv, HibernateRemove \/ DeleteVM
    PROVE  Inv'
<1>1. /\ Types /\ WorkerInv /\ vm' = [vm EXCEPT ![op.vm] = "gone"]
      /\ UNCHANGED <<api, lastUID, lastVM, tracked, bound, index, deleting, h>>
  BY Zenon DEF Inv, HibernateRemove, DeleteVM, RemoveVM, apivars, tables
<1>2. /\ op' \in OpRec /\ op'.vm = op.vm
      /\ \/ op.pc = "remove" /\ op'.pc = "forget"
         \/ op.pc = "deletevm" /\ op'.pc = "delete"
  BY <1>1, GotoTyped, Zenon DEF HibernateRemove, DeleteVM, OpPCs
<1>3. Existing(op.vm)
  BY <1>1, <1>2, Zenon DEF WorkerInv, HibernatePCs
<1>4. VMsFade /\ vm'[op.vm] = "gone" /\ op.vm \in VMs
  BY <1>1, <1>3, RemovingFades, Zenon DEF Existing
<1>5. vm' \in VMTable
  BY <1>1, <1>4 DEF Types, VMTable
<1>6. Types'
  BY <1>1, <1>2, <1>5 DEF Types
<1>7. WorkerInv' /\ (WorkerClaims' <=> WorkerClaims)
  BY <1>1, <1>2, <1>4 DEF WorkerInv, BringUpPCs, HibernatePCs, WorkerClaims, Existing, Present
<1> QED BY <1>1, <1>2, <1>4, <1>6, <1>7, WorkerGoesOn, Zenon DEF BringUpPCs

LEMMA InvHibernateForget ==
    ASSUME Inv, HibernateForget
    PROVE  Inv'
<1>1. /\ Types /\ Exclusive /\ WorkerInv /\ OneVM /\ NoVMIsLost /\ VMsFade
      /\ op.pc = "forget" /\ bound' = 0 /\ index' = IF index = bound THEN 0 ELSE index
      /\ UNCHANGED <<api, lastUID, vm, lastVM, tracked, deleting, h>>
  BY SameVMsFade, Zenon DEF Inv, HibernateForget, DropVM, apivars, runtime
<1>2. op' \in OpRec /\ op'.pc = "hibernated" /\ op'.vm = op.vm
  BY <1>1, GotoTyped, Zenon DEF HibernateForget, OpPCs
<1>3. Types'
  BY <1>1, <1>2, Constants, Zenon DEF Types
<1>4. ~Present(bound)
  BY <1>1, Zenon DEF WorkerInv, HibernatePCs, Present
<1>5. OneVM' /\ TablesAgree' /\ NoVMIsLost'
  BY <1>1, <1>3, <1>4, FadingVMs, Zenon DEF TablesAgree, NoVMIsLost, Present
<1>6. WorkerInv' /\ Exclusive'
  BY <1>1, <1>2, ClaimSame, Zenon
     DEF WorkerInv, BringUpPCs, HibernatePCs, Existing, Holds, WorkerClaims
<1> QED BY <1>1, <1>2, <1>3, <1>5, <1>6, WorkerStep, Zenon DEF BringUpPCs

LEMMA InvHibernateFinish ==
    ASSUME Inv, HibernateFinish
    PROVE  Inv'
<1>1. /\ Types /\ Exclusive /\ WorkerInv /\ VMsFade /\ op.pc = "hibernated" /\ op' = Idle
      /\ UNCHANGED <<api, lastUID, vm, lastVM, tracked, bound, index, deleting>>
  BY SameVMsFade, Zenon DEF Inv, HibernateFinish, apivars, runtime, tables
<1>2. op.vm \in VMs /\ op.vm \in Handlers /\ op.vm \in ID
  BY <1>1, Constants, Zenon DEF WorkerInv, HibernatePCs, Existing
<1>3. /\ h' \in [Handlers -> HandlerRec]
      /\ \A b \in Handlers : h'[b] = h[b] \/ (h[b].pc = "off" /\ Rests(b)')
  <2> DEFINE s == [Off EXCEPT !.pc = "sleep", !.vm = op.vm]
  <2>1. s \in HandlerRec /\ s.pc = "sleep" /\ s.vm = op.vm /\ ~s.gone
    BY <1>2, Constants, Zenon DEF Off, HandlerRec, HandlerPCs
  <2>2. h' = h \/ (h[op.vm].pc = "off" /\ h' = [h EXCEPT ![op.vm] = s])
    BY Zenon DEF HibernateFinish, Scheduled
  <2> HIDE DEF s
  <2> QED BY <1>1, <1>2, <2>1, <2>2 DEF Types, Rests
<1>4. Types'
  BY <1>1, <1>3, Constants DEF Types
<1>5. OneVM' /\ TablesAgree' /\ NoVMIsLost'
  BY <1>1, <1>4, FadingVMs, TablesKept DEF Inv
<1>6. \A b \in Handlers : Holds(b)' <=> Holds(b)
  BY <1>3 DEF Holds, Rests
<1>7. WorkerInv' /\ Exclusive' /\ op'.pc \notin BringUpPCs
  BY <1>1, <1>6, IdleWorker, ClaimSame DEF WorkerClaims, BringUpPCs
<1> QED BY <1>1, <1>3, <1>4, <1>5, <1>7, WorkerStep, Zenon

LEMMA InvDeleteStart ==
    ASSUME Inv, DeleteStart
    PROVE  Inv'
<1>1. /\ Types /\ Exclusive /\ VMsFade /\ op.pc = "idle" /\ ~deleting /\ deleting' = TRUE
      /\ bound \in ID /\ tracked \in UID /\ api.uid \in UID
      /\ UNCHANGED <<api, lastUID, vm, lastVM, tracked, bound, index, h>>
  BY SameVMsFade DEF Inv, Types, DeleteStart, apivars, runtime, tables
<1>2. /\ op' \in OpRec /\ op'.pc = (IF bound = 0 THEN "delete" ELSE "deletevm")
      /\ op'.vm = bound
  BY <1>1, Constants, Zenon DEF DeleteStart, Idle, OpRec, OpPCs
<1>3. Types'
  BY <1>1, <1>2 DEF Types
<1>4. OneVM' /\ TablesAgree' /\ NoVMIsLost'
  BY <1>1, <1>3, FadingVMs, TablesKept DEF Inv
<1>5. bound # 0 => bound \in VMs /\ vm[bound] # "none"
  BY <1>1, Constants DEF Inv, TablesAgree
<1>6. WorkerInv'
  BY <1>1, <1>2, <1>5 DEF WorkerInv, BringUpPCs, HibernatePCs, Existing, Present
<1>7. Exclusive'
  BY <1>1, <1>2 DEF Exclusive, Holds, WorkerClaims
<1> QED BY <1>1, <1>3, <1>4, <1>6, <1>7, WorkerStep, Zenon

LEMMA InvDeleteVMFails ==
    ASSUME Inv, DeleteVMFails
    PROVE  Inv'
<1>1. /\ Types /\ Exclusive /\ VMsFade /\ op.pc = "deletevm" /\ op' = Idle
      /\ deleting' = FALSE
      /\ UNCHANGED <<api, lastUID, vm, lastVM, tracked, bound, index, h>>
  BY SameVMsFade, Zenon DEF Inv, DeleteVMFails, apivars, runtime, tables
<1>2. Types'
  BY <1>1, Constants, Zenon DEF Types
<1>3. OneVM' /\ TablesAgree' /\ NoVMIsLost'
  BY <1>1, <1>2, FadingVMs, TablesKept, Zenon DEF Inv
<1>4. WorkerInv' /\ ~WorkerClaims' /\ op'.pc \notin BringUpPCs
  BY <1>1, IdleWorker, Zenon DEF BringUpPCs
<1>5. Exclusive'
  BY <1>1, <1>4, Zenon DEF Exclusive, Holds, WorkerClaims
<1> QED BY <1>1, <1>2, <1>3, <1>4, <1>5, WorkerStep, Zenon

LEMMA InvDeleteForgets ==
    ASSUME Inv, DeleteForgets
    PROVE  Inv'
<1>1. /\ Types /\ Exclusive /\ WorkerInv /\ OneVM /\ NoVMIsLost /\ VMsFade
      /\ op.pc = "delete" /\ deleting' = FALSE
      /\ tracked' = 0 /\ bound' = 0 /\ index' = IF index = bound THEN 0 ELSE index
      /\ UNCHANGED <<api, lastUID, vm, lastVM, h>>
  BY SameVMsFade, Zenon DEF Inv, DeleteForgets, Untrack, DropVM, apivars, runtime
<1>2. op' \in OpRec /\ op'.pc = "deleted"
  BY <1>1, GotoTyped, Zenon DEF DeleteForgets, OpPCs
<1>3. Types'
  BY <1>1, <1>2, Constants, Zenon DEF Types
<1>4. ~Present(bound)
  BY <1>1, Zenon DEF WorkerInv
<1>5. OneVM' /\ TablesAgree' /\ NoVMIsLost'
  BY <1>1, <1>3, <1>4, FadingVMs, Zenon DEF TablesAgree, NoVMIsLost, Present
<1>6. WorkerInv' /\ Exclusive'
  BY <1>1, <1>2, Zenon DEF WorkerInv, BringUpPCs, HibernatePCs, Exclusive, Holds, WorkerClaims
<1> QED BY <1>1, <1>2, <1>3, <1>5, <1>6, WorkerStep, Zenon DEF BringUpPCs

\* The framework takes the pod off the apiserver.
LEMMA InvDropsPod ==
    ASSUME Inv, DeleteSuperseded \/ FrameworkRemovesPod
    PROVE  Inv'
<1>1. /\ Types /\ WorkerInv /\ VMsFade /\ op' \in {op, Idle}
      /\ op.pc \in {"idle", "deleted"}
      /\ api' \in {api, NoPod}
      /\ UNCHANGED <<lastUID, vm, lastVM, tracked, bound, index, deleting, h>>
  BY SameVMsFade, Zenon DEF Inv, DeleteSuperseded, FrameworkRemovesPod, runtime, tables
<1>2. Types'
  <2>1. NoPod \in [uid: UID, term: BOOLEAN]
    BY Constants, Zenon DEF NoPod
  <2>2. op' \in OpRec /\ api' \in [uid: UID, term: BOOLEAN]
    BY <1>1, <2>1, Constants, Zenon DEF Types
  <2> QED BY <1>1, <2>2, Zenon DEF Types
<1>3. op'.pc \in {"idle", "deleted"}
  BY <1>1 DEF Idle
<1>4. WorkerInv' /\ (WorkerClaims' <=> WorkerClaims)
  BY <1>1, <1>3 DEF WorkerInv, BringUpPCs, HibernatePCs, WorkerClaims
<1> QED BY <1>1, <1>2, <1>3, <1>4, WorkerGoesOn, Zenon DEF BringUpPCs

LEMMA InvWorker ==
    ASSUME Inv, Worker
    PROVE  Inv'
<1>1. CASE CreateInspectFails \/ BootFails
  <2>1. op.pc \in {"adopt", "boot"} /\ FailBringUp
    BY <1>1 DEF CreateInspectFails, BootFails
  <2> QED BY <2>1, InvFailBringUp
<1>2. CASE CreateStart \/ CreateAdopts \/ CreateFindsNone \/ Boot \/ Bind \/ Publish
             \/ WakeStart
  BY <1>2, InvCreateStart, InvCreateAdopts, InvCreateFindsNone, InvBoot, InvBind, InvPublish,
     InvWakeStart, Zenon
<1>3. CASE HibernateStart \/ HibernateSave \/ HibernateRemove \/ HibernateFails
             \/ HibernateForget \/ HibernateFinish
  BY <1>3, InvHibernateStart, InvHibernates, InvRemoves, InvHibernateForget,
     InvHibernateFinish, Zenon
<1>4. CASE DeleteStart \/ DeleteSuperseded \/ DeleteVM \/ DeleteVMFails \/ DeleteForgets
             \/ FrameworkRemovesPod
  BY <1>4, InvDeleteStart, InvDropsPod, InvRemoves, InvDeleteVMFails, InvDeleteForgets, Zenon
<1> QED BY <1>1, <1>2, <1>3, <1>4 DEF Worker

--------------------------------------------------------------------------------
(* The theorems.                                                           *)

LEMMA InvInit ==
    ASSUME Init
    PROVE  Inv
<1>1. Types
  BY Constants, Zenon DEF Init, Types, NoPod, VMTable
<1>2. /\ tracked = 0 /\ bound = 0 /\ index = 0 /\ op.pc = "idle" /\ ~deleting
      /\ (\A i \in VMs : vm[i] = "none") /\ \A i \in VMs : ~Present(i)
  BY Zenon DEF Init, Idle, Present
<1>3. \A a \in Handlers : Rests(a) /\ ~Holds(a)
  BY Zenon DEF Init, Off, Rests, Holds
<1>4. OneVM /\ WorkerInv /\ TablesAgree /\ NoVMIsLost
  BY <1>2, Zenon DEF OneVM, WorkerInv, BringUpPCs, HibernatePCs, TablesAgree, NoVMIsLost
<1>5. Exclusive
  BY <1>2, <1>3, Zenon DEF Exclusive, WorkerClaims
<1>6. \A a \in Handlers : HandlerInv(a)
  BY <1>3, Zenon DEF HandlerInv, Rests
<1> QED BY <1>1, <1>4, <1>5, <1>6, Zenon DEF Inv

LEMMA InvNext ==
    ASSUME Inv, [Next]_vars
    PROVE  Inv'
<1>1. CASE UNCHANGED vars
  <2>1. UNCHANGED <<api, lastUID, vm, lastVM, tracked, bound, index, deleting, h, op>>
    BY <1>1 DEF vars, apivars, runtime, tables
  <2>2. Types'
    BY <2>1, Zenon DEF Inv, Types
  <2>3. Exclusive'
    BY <2>1, Zenon DEF Inv, Exclusive, Holds, WorkerClaims
  <2>4. OneVM'
    BY <2>1, Zenon DEF Inv, OneVM, Present
  <2>5. WorkerInv'
    BY <2>1, Zenon DEF Inv, WorkerInv, Present, Existing
  <2>6. TablesAgree'
    BY <2>1, Zenon DEF Inv, TablesAgree
  <2>7. NoVMIsLost'
    BY <2>1, Zenon DEF Inv, NoVMIsLost, Existing, Present
  <2>8. ASSUME NEW a \in Handlers PROVE HandlerInv(a)'
    BY <2>1, Zenon DEF Inv, HandlerInv, Existing
  <2> QED BY <2>2, <2>3, <2>4, <2>5, <2>6, <2>7, <2>8, Zenon DEF Inv
<1>2. ASSUME NEW i \in VMs, TakeEvent(i) PROVE Inv'
  <2>1. Watcher \in Handlers
    BY Constants, Zenon
  <2> QED BY <1>2, <2>1, InvMatch, Zenon DEF TakeEvent
<1>3. CASE Environment \/ (\E a \in Handlers : Handle(a)) \/ (\E i \in VMs : Recheck(i))
             \/ Worker
  BY <1>3, InvEnvironment, InvHandle, InvRecheck, InvWorker
<1> QED BY <1>1, <1>2, <1>3, Zenon DEF Next

LEMMA InvAlways == Spec => []Inv
<1>1. Init => Inv
  BY InvInit
<1>2. Inv /\ [Next]_vars => Inv'
  BY InvNext
<1> QED BY <1>1, <1>2, PTL DEF Spec

\* The claim of the key excludes for any number of rechecks running beside the watch
\* loop and DeletePod (claimDeleting, claimDeletingIncarnation, finishDeleting).
THEOREM ClaimIsExclusiveAlways == Spec => []ClaimIsExclusive
<1>1. Inv => ClaimIsExclusive
  BY Zenon DEF Inv, Exclusive, Holds, ClaimIsExclusive, Claimants
<1> QED BY <1>1, InvAlways, PTL

\* p.pods, p.vmsByPod and p.vmsByName agree after every step of every actor
\* (trackPodIncarnation, dropVMLocked, untrackLocked, detachIncarnation).
THEOREM TablesAgreeAlways == Spec => []TablesAgree
<1>1. Inv => TablesAgree
  BY DEF Inv
<1> QED BY <1>1, InvAlways, PTL

\* No VM of the key is ever out of reach of the tables and of the worker, with any
\* number of incarnations and VMs (removeThenEvict, detachIncarnation,
\* trackPodIncarnation).
THEOREM NoVMIsLostAlways == Spec => []NoVMIsLost
<1>1. Inv => NoVMIsLost
  BY DEF Inv
<1> QED BY <1>1, InvAlways, PTL

\* Neither the watch loop nor a recheck ever evicts a pod whose VM exists
\* (handleVMGone, removeThenEvict, evictGoneIncarnation).
THEOREM EvictedHasNoVMAlways == Spec => EvictedHasNoVM
<1> DEFINE Evicts ==
      \A a \in Handlers : h[a].pc = "evict" /\ h'[a].pc = "untrack" /\ api.uid = h[a].uid
          => ~Present(bound)
<1>1. Inv /\ [Next]_vars => [Evicts]_vars
  BY DEF Inv, HandlerInv, Present
<1> QED BY <1>1, InvAlways, PTL DEF Spec, EvictedHasNoVM

--------------------------------------------------------------------------------
(* Evictions and hibernates.                                               *)

\* A handler takes the claim only while no hibernate of the pod runs: what the claim
\* would ensure if claimDeletingIncarnation read p.hibernating.
ClaimHeedsHibernate == \A a \in Handlers : Claim(a) /\ MayClaim(a) => hib = "no"

Awake == op.pc \in HibernatePCs => hib # "no" /\ ~deleting

LEMMA AwakeHandle ==
    ASSUME Awake, ClaimHeedsHibernate, NEW a \in Handlers, Handle(a)
    PROVE  Awake'
<1>1. CASE Claim(a)
  <2>1. CASE MayClaim(a)
    <3>1. hib = "no"
      BY <1>1, <2>1, Zenon DEF ClaimHeedsHibernate
    <3> QED BY <1>1, <3>1, Zenon DEF Awake, Claim
  <2>2. CASE ~MayClaim(a)
    BY <1>1, <2>2, Zenon DEF Awake, Claim
  <2> QED BY <2>1, <2>2
<1>2. CASE Gate(a)
  BY <1>2, Zenon DEF Awake, Gate
<1>3. CASE RemoveFails(a) \/ Finish(a) \/ Settle(a)
  BY <1>3, Zenon DEF Awake, RemoveFails, Finish, Settle
<1>4. CASE \/ Replay(a) \/ Inspect(a) \/ InspectFails(a) \/ Cooldown(a) \/ Start(a)
           \/ StartFails(a) \/ Remove(a) \/ Evict(a) \/ EvictFails(a) \/ UntrackIncarnation(a)
  BY <1>4, Zenon DEF Awake, Replay, Inspect, InspectFails, Cooldown, Start, StartFails, Remove,
              Evict, EvictFails, UntrackIncarnation
<1> QED BY <1>1, <1>2, <1>3, <1>4, Zenon DEF Handle

LEMMA AwakeWorker ==
    ASSUME Types, Awake, Worker
    PROVE  Awake'
<1>1. CASE HibernateStart
  BY <1>1, Zenon DEF Awake, HibernateStart, Updatable
<1>2. CASE HibernateSave \/ HibernateRemove \/ HibernateFails \/ HibernateForget
  BY <1>2, Zenon DEF Awake, HibernateSave, HibernateRemove, HibernateFails, HibernateForget,
              Goto, HibernatePCs
<1>3. ASSUME op'.pc \notin HibernatePCs PROVE Awake'
  BY <1>3, Zenon DEF Awake
<1>4. CASE DeleteSuperseded
  BY <1>4, Zenon DEF Awake, DeleteSuperseded
<1>5. CASE \/ CreateInspectFails \/ BootFails \/ Publish \/ HibernateFinish \/ DeleteVMFails
           \/ FrameworkRemovesPod
  <2>1. op' = Idle
    BY <1>5, Zenon DEF CreateInspectFails, BootFails, FailBringUp, Publish, HibernateFinish,
                DeleteVMFails, FrameworkRemovesPod
  <2> QED BY <1>3, <2>1, Zenon DEF Idle, HibernatePCs
<1>6. CASE CreateFindsNone \/ DeleteVM \/ DeleteForgets
  <2>1. op'.pc \in {"boot", "delete", "deleted"}
    BY <1>6, Zenon DEF Types, OpRec, CreateFindsNone, DeleteVM, DeleteForgets, Goto
  <2> QED BY <1>3, <2>1, Zenon DEF HibernatePCs
<1>7. CASE Bind
  <2>1. op'.pc \in {"idle", "publish"}
    <3>1. op \in OpRec
      BY Zenon DEF Types
    <3>2. CASE op' = Idle
      BY <3>2, Zenon DEF Idle
    <3>3. CASE Goto("publish")
      BY <3>1, <3>3, Zenon DEF OpRec, Goto
    <3> QED BY <1>7, <3>2, <3>3, Zenon DEF Bind
  <2> QED BY <1>3, <2>1, Zenon DEF HibernatePCs
<1>8. CASE CreateStart \/ CreateAdopts \/ Boot \/ WakeStart \/ DeleteStart
  <2>1. op'.pc \in {"adopt", "bind", "boot", "delete", "deletevm"}
    BY <1>8, Zenon
       DEF Types, OpRec, Idle, CreateStart, CreateAdopts, Boot, WakeStart, DeleteStart
  <2> QED BY <1>3, <2>1, Zenon DEF HibernatePCs
<1> QED BY <1>1, <1>2, <1>4, <1>5, <1>6, <1>7, <1>8, Zenon DEF Worker

\* The one way in which a pod is evicted for the VM its own hibernate removed: a handler
\* takes the claim while the hibernate runs (claimDeletingIncarnation, startHibernate).
\* In every behaviour in which no claim is taken then, hibernated pods are kept, whatever
\* was checked or scheduled before the hibernate began.
THEOREM HibernatedIsKeptUnlessClaimed ==
    Spec /\ [][ClaimHeedsHibernate]_vars => HibernatedIsKept
<1> DEFINE Evicts ==
      \A a \in Handlers : h[a].pc = "evict" /\ h'[a].pc = "untrack" /\ api.uid = h[a].uid
          => ~(op.pc = "forget" /\ op.uid = h[a].uid /\ op.vm = h[a].vm)
<1>1. Init => Awake
  <2>1. Init => op = Idle
    BY Zenon DEF Init
  <2>2. Idle.pc \notin HibernatePCs
    BY Zenon DEF Idle, HibernatePCs
  <2> QED BY <2>1, <2>2, Zenon DEF Awake
<1>2. Inv /\ Awake /\ [Next]_vars /\ [ClaimHeedsHibernate]_vars => Awake'
  <2> SUFFICES ASSUME Inv, Awake, [Next]_vars, [ClaimHeedsHibernate]_vars PROVE Awake'
    OBVIOUS
  <2>1. CASE UNCHANGED vars
    BY <2>1, Zenon DEF Awake, vars
  <2>2. ASSUME NEW a \in Handlers, Handle(a), ClaimHeedsHibernate PROVE Awake'
    BY <2>2, AwakeHandle
  <2>3. CASE Environment
    BY <2>3, Zenon DEF Awake, Environment, ApiCreate, ApiTerminate, ApiRemove, VMStops,
                VMDisappears, StreamRestarts
  <2>4. ASSUME NEW i \in VMs, TakeEvent(i) PROVE Awake'
    BY <2>4, Zenon DEF Awake, TakeEvent
  <2>5. ASSUME NEW i \in VMs, Recheck(i) PROVE Awake'
    BY <2>5, Zenon DEF Awake, Recheck, RecheckMatches, RecheckInspects, RecheckInspectFails,
                RecheckExits
  <2>6. CASE Worker
    BY <2>6, AwakeWorker, Zenon DEF Inv
  <2> QED BY <2>1, <2>2, <2>3, <2>4, <2>5, <2>6, Zenon DEF Next
<1>3. Inv /\ Awake => Evicts
  <2> SUFFICES ASSUME Inv, Awake, NEW a \in Handlers, h[a].pc = "evict" PROVE op.pc # "forget"
    BY Zenon
  <2>1. Holds(a)
    BY Zenon DEF Holds
  <2>2. deleting
    BY <2>1, Zenon DEF Inv, Exclusive
  <2> QED BY <2>2, Zenon DEF Awake, HibernatePCs
<1>4. Inv /\ Awake => [Evicts]_vars
  BY <1>3
<1> QED BY <1>1, <1>2, <1>4, InvAlways, PTL DEF Spec, HibernatedIsKept

--------------------------------------------------------------------------------
(* The variables the invariant does not speak of.                          *)

Rest ==
    /\ faults \in FaultSets
    /\ events \subseteq VMs
    /\ deleting \in BOOLEAN
    /\ hib \in {"no", "yes", "vm gone"}
    /\ cooling \subseteq VMs

LEMMA RestEnvironment ==
    ASSUME Rest, Environment, UNCHANGED faults
    PROVE  Rest'
BY Zenon DEF Rest, Environment, ApiCreate, ApiTerminate, ApiRemove, VMStops, VMDisappears,
       StreamRestarts, runtime, tables

LEMMA RestHandle ==
    ASSUME Inv, Rest, NEW a \in Handlers, Handle(a), UNCHANGED faults
    PROVE  Rest'
<1>1. h[a].pc = "cool" => h[a].vm \in VMs
  BY Zenon DEF Inv, HandlerInv, Existing
<1>2. h[a].pc = "remove" => h[a].vm \in VMs
  BY Zenon DEF Inv, HandlerInv, Existing
<1>3. CASE Remove(a)
  BY <1>2, <1>3, Zenon DEF Rest, Remove, RemoveVM, tables
<1>4. CASE Cooldown(a)
  BY <1>1, <1>4, Zenon DEF Rest, Cooldown, runtime
<1>5. CASE UntrackIncarnation(a)
  BY <1>5, Zenon DEF Rest, UntrackIncarnation, Untrack, DropVM, runtime, tables
<1>6. CASE Gate(a)
  BY <1>6, Zenon DEF Rest, Gate, runtime, tables
<1>7. CASE Claim(a) \/ RemoveFails(a) \/ Finish(a)
  BY <1>7, Zenon DEF Rest, Claim, RemoveFails, Finish, runtime, tables
<1>8. CASE Settle(a)
  <2>1. (deleting /\ h[a].gone) \in BOOLEAN
    BY Zenon
  <2>2. deleting' \in BOOLEAN
    BY <1>8, <2>1, Zenon DEF Settle
  <2> QED BY <1>8, <2>2, Zenon DEF Rest, Settle, runtime, tables
<1>9. CASE \/ Replay(a) \/ Inspect(a) \/ InspectFails(a) \/ Start(a) \/ StartFails(a)
           \/ Evict(a) \/ EvictFails(a)
  BY <1>9, Zenon DEF Rest, Replay, Inspect, InspectFails, Start, StartFails, Evict, EvictFails,
              runtime, tables
<1> QED BY <1>3, <1>4, <1>5, <1>6, <1>7, <1>8, <1>9, Zenon DEF Handle

LEMMA RestWorker ==
    ASSUME Inv, Rest, Worker, UNCHANGED faults
    PROVE  Rest'
<1>1. op.pc \in {"remove", "deletevm"} => op.vm \in VMs
  BY Zenon DEF Inv, WorkerInv, Existing, HibernatePCs
<1>2. CASE HibernateRemove \/ DeleteVM
  BY <1>1, <1>2, Zenon DEF Rest, HibernateRemove, DeleteVM, RemoveVM, tables
<1>3. CASE CreateStart \/ HibernateForget \/ DeleteForgets \/ Publish
  BY <1>3, Zenon
     DEF Rest, CreateStart, HibernateForget, DeleteForgets, Publish, Detach, Untrack,
              DropVM, runtime, tables
<1>4. CASE \/ CreateAdopts \/ CreateFindsNone \/ CreateInspectFails \/ Boot \/ BootFails
           \/ Bind \/ WakeStart
  BY <1>4, Zenon DEF Rest, CreateAdopts, CreateFindsNone, CreateInspectFails, Boot, BootFails,
              Bind, WakeStart, FailBringUp, runtime, tables
<1>5. CASE HibernateStart \/ HibernateSave \/ HibernateFails \/ HibernateFinish
  BY <1>5, Zenon DEF Rest, HibernateStart, HibernateSave, HibernateFails, HibernateFinish,
              runtime, tables
<1>6. CASE DeleteStart \/ DeleteSuperseded \/ DeleteVMFails \/ FrameworkRemovesPod
  BY <1>6, Zenon DEF Rest, DeleteStart, DeleteSuperseded, DeleteVMFails, FrameworkRemovesPod,
              runtime, tables
<1> QED BY <1>2, <1>3, <1>4, <1>5, <1>6, Zenon DEF Worker

\* The types of the variables, and that a handler beyond the match holds a pod and a
\* VM (handleVMGone, podForVMMatch), with any number of VMs and whatever fails.
THEOREM TypeCorrect == Spec => []TypeOK
<1>1. Init => Rest
  BY Zenon DEF Init, Rest
<1>2. Inv /\ Rest /\ [Next]_vars => Rest'
  <2> SUFFICES ASSUME Inv, Rest, [Next]_vars PROVE Rest'
    OBVIOUS
  <2>1. CASE UNCHANGED vars
    BY <2>1, Zenon DEF Rest, vars, runtime, tables
  <2>2. CASE Next
    <3>1. faults' = faults
      BY <2>2 DEF Next
    <3>2. ASSUME NEW i \in VMs, TakeEvent(i) PROVE Rest'
      BY <3>1, <3>2, Zenon DEF Rest, TakeEvent, tables
    <3>3. ASSUME NEW i \in VMs, Recheck(i) PROVE Rest'
      BY <3>1, <3>3, Zenon
         DEF Rest, Recheck, RecheckMatches, RecheckInspects, RecheckInspectFails,
                  RecheckExits, runtime, tables
    <3> QED BY <2>2, <3>1, <3>2, <3>3, RestEnvironment, RestHandle, RestWorker DEF Next
  <2> QED BY <2>1, <2>2
<1>3. Inv /\ Rest => TypeOK
  <2> SUFFICES ASSUME Inv, Rest PROVE TypeOK
    BY Zenon
  <2>1. \A a \in Handlers :
          h[a].pc \notin {"off", "sleep", "exit"} => h[a].uid # 0 /\ h[a].vm # 0
    BY DEF Inv, HandlerInv, Existing, VMs
  <2> QED BY <2>1, Zenon DEF Inv, Types, Rest, TypeOK, VMTable, HandlerRec, OpRec
<1> QED BY <1>1, <1>2, <1>3, InvAlways, PTL DEF Spec
================================================================================
