--------------------------- MODULE WireGUIOrphans ---------------------------
(***************************************************************************)
(* Peers whose device is gone are removed, a peer carries the address of   *)
(* its device, and the handlers, the reconciliation and the crashes        *)
(* together implement DataPlane.                                           *)
(*                                                                         *)
(* Where requests for a device overlap a peer may be left behind, so the   *)
(* invariant has to say which overlaps the bookkeeping of contended sees:  *)
(* every two tasks that are ahead of a command for the same key, every     *)
(* creation that meets the deletion of its owner, and every task that is   *)
(* ahead of a command during startup.  For all other keys the row outlives *)
(* the tasks that add its peer, and a task that deletes the row removes    *)
(* the peer.                                                               *)
(***************************************************************************)
EXTENDS WireGUIPeers

\* The keys a task is ahead of a command for.
Mine(j) == Inserts(j) \cup Knows(j)

Removed(k) == \E t \in Tasks : k \in Removes(task[t])

\* A task that is about to add a peer has seen the row committed, and it is there
\* still.
AddsInv == \A t \in Tasks : \A k \in Adds(task[t]) : Live(k) \/ k \in contended

\* Two tasks ahead of commands for one key contend.
SharedInv == \A s, t \in Tasks : s # t =>
               \A k \in Mine(task[s]) : k \in Mine(task[t]) => k \in contended

\* So does a creation under way when its owner is deleted ...
InsertInv == \A s, t \in Tasks :
               At(s, "insert") /\ At(t, "cascade") /\ task[s].row.owner = task[t].user =>
                 task[s].row.key \in contended

\* ... or committed after the owner's devices were read.
LeftInv == \A t \in Tasks : At(t, "cascade") =>
             \A q \in devices : q.owner = task[t].user =>
               q.key \in KeysOf(task[t].queue) \cup contended

\* A task ahead of a command during startup contends with it.
StartupInv == phase = "startup" => \A t \in Tasks : Mine(task[t]) \subseteq contended

\* What reconcile() is about to add is in the database.
MissingInv == \A k \in Missing : Live(k) \/ k \in contended

\* Only the deletion of a user has a queue of devices, and it goes through all of it.
DeletePCs == {"cascade", "remove_peer", "relay_subnets", "interface_routes", "routes"}
WorkInv ==
  /\ \A t \in Tasks : task[t].queue # {} => task[t].op = "delete_user" /\ task[t].pc \in DeletePCs
  /\ task[Boot].pc \notin {"db_devices", "db_rules", "add_missing", "remove_orphans"} => Gone = {}

\* From the dump of the interface on, every peer without a device is accounted for.
OrphanCover ==
  phase \in {"startup", "up"} /\ task[Boot].pc # "get_peers" =>
    \A k \in peers : \/ ~BeforeRead /\ (Live(k) \/ Removed(k))
                     \/ k \in Gone \cup faulted \cup contended

OrphanInv ==
  AddsInv /\ SharedInv /\ InsertInv /\ LeftInv /\ StartupInv /\ MissingInv /\ WorkInv /\ OrphanCover

LEMMA MineAhead ==
  ASSUME TypeInv, NEW t \in Procs, NEW k \in Mine(task[t])
  PROVE  Ahead(t, k)
<1>1. Held(task[t])
  BY TaskType
<1>2. CASE k \in KeysOf(task[t].queue)
  BY <1>2 DEF KeysOf, Ahead
<1>3. CASE /\ task[t].pc \in {"insert", "refresh", "add_peer", "remove_peer", "save", "delete_row"}
           /\ k = task[t].row.key
  <2>1. task[t].row \in DeviceRow
    BY <1>1, <1>3 DEF Held, RowPCs
  <2> QED
    BY <1>3, <2>1, EventBridgeAssumption DEF Ahead, PeerPCs
<1> QED
  BY <1>2, <1>3 DEF Mine, Knows, Inserts, Adds, Removes, Holds

-----------------------------------------------------------------------------
(* What a step of a task must do to keep the invariant *)

LEMMA BootQueue ==
  ASSUME TypeInv, ControlInv, task[Boot].queue # {} \/ Gone # {}, PeerInv, WorkInv
  PROVE  phase = "startup"
BY DEF PeerInv, QueueInv, WorkInv, ControlInv, Booting, At

LEMMA OrphanEffect ==
  ASSUME TypeInv, ControlInv, PeerInv, OrphanInv, NEW t \in Tasks, Alone(t),
         UNCHANGED <<phase, contended>>,
         task'[t].pc \notin {"insert", "cascade"},
         Mine(task'[t]) \subseteq Mine(task[t]),
         \A k \in Adds(task'[t]) : Live(k)' \/ k \in contended,
         \A k : Live(k) => \/ Live(k)' \/ k \in contended
                           \/ k \in Mine(task[t]) /\ k \in Removes(task'[t]),
         \A q \in devices' : \/ \E p \in devices : p.key = q.key /\ p.owner = q.owner
                             \/ At(t, "insert") /\ q = task[t].row,
         \A k \in peers' : k \in peers \/ k \in Adds(task[t]),
         \A k \in peers' : k \in Removes(task[t]) \/ k \in faulted =>
                  k \in Removes(task'[t]) \/ k \in faulted' \/ k \in Adds(task[t]),
         task'[t].queue # {} => task'[t].op = "delete_user" /\ task'[t].pc \in DeletePCs
  PROVE  OrphanInv'
<1>1. t \in Procs /\ UNCHANGED task[Boot] /\ \A s \in Tasks \ {t} : task'[s] = task[s]
  BY EventBridgeAssumption DEF Alone, Procs
<1>2. UNCHANGED <<Missing, Gone, BeforeRead>>
  BY <1>1 DEF Missing, Gone, BeforeRead
<1>3. AddsInv'
  <2> SUFFICES ASSUME NEW s \in Tasks \ {t}, NEW k \in Adds(task[s])
               PROVE  Live(k)' \/ k \in contended
    BY <1>1 DEF AddsInv
  <2>1. Live(k) \/ k \in contended
    BY DEF OrphanInv, AddsInv
  <2>2. k \in Mine(task[s])
    BY DEF Mine, Knows
  <2>3. k \in Mine(task[t]) => k \in contended
    BY <2>2 DEF OrphanInv, SharedInv
  <2> QED BY <2>1, <2>3
<1>4. SharedInv'
  BY <1>1 DEF OrphanInv, SharedInv
<1>5. InsertInv'
  BY <1>1 DEF OrphanInv, InsertInv, At
<1>6. LeftInv'
  <2> SUFFICES ASSUME NEW s \in Tasks \ {t}, At(s, "cascade"),
                      NEW q \in devices', q.owner = task[s].user
               PROVE  q.key \in KeysOf(task[s].queue) \cup contended
    BY <1>1 DEF LeftInv, At
  <2>1. CASE \E p \in devices : p.key = q.key /\ p.owner = q.owner
    BY <2>1 DEF OrphanInv, LeftInv
  <2>2. CASE At(t, "insert") /\ q = task[t].row
    BY <2>2 DEF OrphanInv, InsertInv
  <2> QED BY <2>1, <2>2
<1>7. StartupInv'
  BY <1>1 DEF OrphanInv, StartupInv
<1>8. MissingInv'
  <2> SUFFICES ASSUME NEW k \in Missing PROVE Live(k)' \/ k \in contended
    BY <1>2 DEF MissingInv
  <2>1. Live(k) \/ k \in contended
    BY DEF OrphanInv, MissingInv
  <2>2. phase = "startup"
    <3>1. task[Boot].queue # {} BY DEF Missing, KeysOf
    <3> QED BY <3>1, BootQueue DEF OrphanInv
  <2>3. k \in Mine(task[t]) => k \in contended
    BY <2>2 DEF OrphanInv, StartupInv
  <2> QED BY <2>1, <2>3
<1>9. WorkInv'
  BY <1>1, <1>2 DEF OrphanInv, WorkInv
<1>10. OrphanCover'
  <2> SUFFICES ASSUME phase \in {"startup", "up"}, task[Boot].pc # "get_peers", NEW k \in peers'
               PROVE  \/ ~BeforeRead /\ (Live(k)' \/ Removed(k)')
                      \/ k \in Gone \/ k \in faulted' \/ k \in contended
    BY <1>1, <1>2 DEF OrphanCover
  <2>1. BeforeRead => \A q \in Mine(task[t]) : q \in contended
    <3>1. BeforeRead => phase = "startup"
      BY DEF BeforeRead, ControlInv, Booting, At
    <3> QED BY <3>1 DEF OrphanInv, StartupInv
  <2>2. Live(k) => Live(k)' \/ Removed(k)' \/ k \in contended
    BY DEF Removed
  <2>3. CASE k \in Adds(task[t])
    <3>1. Live(k) \/ k \in contended BY <2>3 DEF OrphanInv, AddsInv
    <3>2. k \in Mine(task[t]) BY <2>3 DEF Mine, Knows
    <3> QED BY <2>1, <2>2, <3>1, <3>2
  <2>4. CASE k \in peers /\ k \notin Adds(task[t])
    <3>1. \/ ~BeforeRead /\ (Live(k) \/ Removed(k))
          \/ k \in Gone \/ k \in faulted \/ k \in contended
      BY <2>4 DEF OrphanInv, OrphanCover
    <3>2. CASE ~BeforeRead /\ Removed(k)
      BY <2>4, <3>2, <1>1 DEF Removed
    <3>3. CASE k \in faulted
      <4>1. k \in Removes(task'[t]) \/ k \in faulted' BY <2>4, <3>3
      <4>2. k \in Removes(task'[t]) => k \in Mine(task[t])
        BY DEF Mine, Knows
      <4> QED BY <2>1, <4>1, <4>2 DEF Removed
    <3> QED BY <2>2, <3>1, <3>2, <3>3
  <2> QED BY <2>3, <2>4
<1> QED
  BY <1>3, <1>4, <1>5, <1>6, <1>7, <1>8, <1>9, <1>10 DEF OrphanInv

-----------------------------------------------------------------------------
(* Steps that touch neither devices nor peers *)

LEMMA StepContended ==
  ASSUME NEW t \in Procs, Step(t)
  PROVE  UNCHANGED contended
BY DEF Step, SharedStep, Insert, Refresh, Save, DeleteRow, Cascade, RefreshRule,
       AbandonCreate, AddPeerStep, AddUserChainStep, AddJumpsStep, RemovePeerStep,
       RelaySubnetsStep, ReadRules, ReadDevices, InterfaceRoutes, RouteAdd, RouteDel,
       ListChains, NftBatch, ghosts

LEMMA NoQueue ==
  ASSUME OrphanInv, NEW t \in Tasks, task[t].pc \notin DeletePCs \/ task[t].op # "delete_user"
  PROVE  task[t].queue = {}
BY DEF OrphanInv, WorkInv

\* What is known of the keys of a task that went on quietly.
LEMMA QuietKeys ==
  ASSUME NEW t \in Procs, NEW queue, Quietly(t, queue)
  PROVE  /\ Inserts(task'[t]) = {} /\ Adds(task'[t]) = {} /\ Holds(task'[t]) = {}
         /\ Mine(task'[t]) \subseteq KeysOf(queue)
         /\ task'[t].pc \notin {"insert", "cascade"}
BY DEF Quietly, Mine, Knows, Inserts, Adds, Removes, Holds, KeyPCs

\* t keeps the queue of devices whose peers it is to remove.
Keeps(t, queue) ==
  /\ KeysOf(queue) \subseteq Removes(task'[t])
  /\ task'[t].queue # {} => task'[t].op = "delete_user" /\ task'[t].pc \in DeletePCs

LEMMA QuietOrphans ==
  ASSUME TypeInv, ControlInv, PeerInv, OrphanInv, NEW t \in Tasks, QuietlyAlone(t),
         Keeps(t, task[t].queue), UNCHANGED contended
  PROVE  OrphanInv'
<1>1. t \in Procs /\ Alone(t) /\ UNCHANGED phase
  BY DEF QuietlyAlone, Procs
<1>2. /\ Adds(task'[t]) = {} /\ Mine(task'[t]) \subseteq KeysOf(task[t].queue)
      /\ task'[t].pc \notin {"insert", "cascade"}
  BY <1>1, QuietKeys DEF QuietlyAlone
<1>3. Removes(task[t]) = KeysOf(task[t].queue) /\ Removes(task[t]) \subseteq Removes(task'[t])
  BY DEF QuietlyAlone, Keeps, Removes, KeyPCs
<1>4. Mine(task'[t]) \subseteq Mine(task[t])
  BY <1>2, <1>3 DEF Mine, Knows
<1>5. UNCHANGED <<devices, peers>> /\ \A k : Live(k)' <=> Live(k)
  BY DEF QuietlyAlone, Live
<1>6. peers \subseteq Devices
  BY DEF TypeInv, TypeOK, WgTypeOK
<1>7. \A k \in peers : k \in faulted => k \in faulted'
  BY <1>6 DEF QuietlyAlone
<1> QED
  BY <1>1, <1>2, <1>3, <1>4, <1>5, <1>7, OrphanEffect DEF Keeps

\* A step of a task without a queue.
LEMMA EmptyOrphans ==
  ASSUME TypeInv, ControlInv, PeerInv, OrphanInv, NEW t \in Tasks, QuietlyAlone(t),
         task[t].queue = {}, UNCHANGED contended
  PROVE  OrphanInv'
<1>1. Keeps(t, task[t].queue)
  BY DEF QuietlyAlone, Quietly, Keeps, KeysOf
<1> QED
  BY <1>1, QuietOrphans

LEMMA NextDeviceKeeps ==
  ASSUME TypeInv, NEW t \in Procs, NEW j \in Job, NextDevice(t, j),
         j.queue # {} => j.op = "delete_user"
  PROVE  Keeps(t, j.queue)
<1> DEFINE k(r) == [j EXCEPT !.pc = "remove_peer", !.row = r, !.queue = j.queue \ {r}]
<1>1. ASSUME NEW r \in j.queue, Become(t, k(r))
      PROVE  Keeps(t, j.queue)
  <2>1. /\ k(r).pc = "remove_peer" /\ k(r).row = r /\ k(r).queue = j.queue \ {r}
        /\ k(r).op = j.op
    BY DEF Job
  <2>2. task'[t] = k(r)
    BY <1>1, BecomeMoves
  <2> HIDE DEF k
  <2> QED BY <2>1, <2>2, <1>1 DEF Keeps, Removes, KeysOf, DeletePCs
<1>2. CASE j.queue = {} /\ Finish(t)
  BY <1>2, FinishContinues DEF Keeps, KeysOf, Idle
<1> QED
  BY <1>1, <1>2 DEF NextDevice

LEMMA RoutesLeftKeeps ==
  ASSUME TypeInv, NEW t \in Procs, NEW j \in Job, RoutesLeft(t, j), j.op # "boot",
         j.queue # {} => j.op = "delete_user"
  PROVE  Keeps(t, j.queue)
<1>1. CASE Become(t, [j EXCEPT !.pc = "routes"])
  <2> DEFINE k == [j EXCEPT !.pc = "routes"]
  <2>1. k.queue = j.queue /\ k.pc = "routes" /\ k.op = j.op BY DEF Job
  <2>2. task'[t] = k BY <1>1, BecomeMoves
  <2> HIDE DEF k
  <2> QED BY <2>1, <2>2 DEF Keeps, Removes, DeletePCs
<1>2. CASE NextDevice(t, j)
  BY <1>2, NextDeviceKeeps
<1>3. CASE j.queue = {}
  <2>1. Quietly(t, j.queue)
    BY RoutesLeftQuietly
  <2> QED BY <1>3, <2>1 DEF Quietly, Keeps, KeysOf
<1> QED
  BY <1>1, <1>2, <1>3 DEF RoutesLeft, AfterRoutes

LEMMA RoutesStepsOrphans ==
  ASSUME TypeInv, ControlInv, PeerInv, OrphanInv, NEW t \in Tasks,
         InterfaceRoutes(t) \/ RouteAdd(t) \/ RouteDel(t)
  PROVE  OrphanInv'
<1>1. t \in Procs /\ task[t].op # "boot" /\ Step(t)
  BY DEF ControlInv, Serve, Procs, Step, SharedStep
<1>2. QuietlyAlone(t) /\ UNCHANGED contended
  BY <1>1, RoutesQuietly, StepContended
<1>3. PICK j \in Job : j.op = task[t].op /\ j.queue = task[t].queue /\ RoutesLeft(t, j)
  BY <1>1, InterfaceRoutesPlan, RouteAddPlan, RouteDelPlan
<1>4. j.queue # {} => j.op = "delete_user"
  BY <1>3 DEF OrphanInv, WorkInv
<1>5. Keeps(t, task[t].queue)
  BY <1>1, <1>3, <1>4, RoutesLeftKeeps
<1> QED
  BY <1>2, <1>5, QuietOrphans

LEMMA RelaySubnetsStepOrphans ==
  ASSUME TypeInv, ControlInv, PeerInv, OrphanInv, NEW t \in Tasks, RelaySubnetsStep(t)
  PROVE  OrphanInv'
<1> DEFINE k == [task[t] EXCEPT !.pc = "interface_routes", !.want = RelaySubnets]
<1>1. t \in Procs /\ task[t].op # "boot" /\ Step(t) /\ task[t] \in Job
  BY TaskType DEF ControlInv, Serve, Procs, Step
<1>2. QuietlyAlone(t) /\ UNCHANGED contended
  BY <1>1, PolicyQuietly, StepContended
<1>3. k.pc = "interface_routes" /\ k.queue = task[t].queue /\ k.op = task[t].op
  BY <1>1 DEF Job
<1>4. task'[t] = k
  BY <1>1, BecomeMoves DEF RelaySubnetsStep
<1> HIDE DEF k
<1>5. Keeps(t, task[t].queue)
  BY <1>3, <1>4 DEF Keeps, Removes, DeletePCs, OrphanInv, WorkInv
<1> QED
  BY <1>2, <1>5, QuietOrphans

LEMMA PolicyStepsOrphans ==
  ASSUME TypeInv, ControlInv, PeerInv, OrphanInv, NEW t \in Tasks,
         \/ AddUserChainStep(t) \/ AddJumpsStep(t) \/ RefreshRule(t)
         \/ ReadRules(t) \/ ReadDevices(t) \/ ListChains(t) \/ NftBatch(t)
  PROVE  OrphanInv'
<1>1. t \in Procs /\ task[t].op # "boot" /\ Step(t)
  BY DEF ControlInv, Serve, Procs, Step, SharedStep
<1>2. QuietlyAlone(t) /\ UNCHANGED contended
  BY <1>1, PolicyQuietly, StepContended
<1>3. task[t].pc \notin DeletePCs
  BY DEF AddUserChainStep, AddJumpsStep, RefreshRule, ReadRules, ReadDevices, ListChains,
         NftBatch, At, DeletePCs
<1> QED
  BY <1>2, <1>3, NoQueue, EmptyOrphans

-----------------------------------------------------------------------------
(* Steps on devices and peers *)

LEMMA StepFacts ==
  ASSUME TypeInv, ControlInv, NEW t \in Tasks, Step(t)
  PROVE  /\ t \in Procs /\ task[t] \in Job /\ Alone(t) /\ UNCHANGED <<phase, contended>>
         /\ task[t].op # "boot"
BY StepAlone, StepContended DEF ControlInv, Serve

LEMMA FinishMine ==
  ASSUME TypeInv, NEW t \in Procs, Finish(t)
  PROVE  /\ Mine(task'[t]) = {} /\ Adds(task'[t]) = {} /\ task'[t].pc = "idle"
         /\ task'[t].queue = {}
BY FinishContinues DEF Idle, Mine, Knows, Inserts, Adds, Removes, Holds, KeysOf

\* A step of a task that holds one key and has no queue, and neither removes a row
\* nor lets go of an orphan.
LEMMA HoldingOrphans ==
  ASSUME TypeInv, ControlInv, PeerInv, OrphanInv, NEW t \in Tasks, Alone(t),
         UNCHANGED <<phase, contended>>,
         task[t].pc \in {"insert", "refresh", "save", "add_peer"}, task[t].queue = {},
         task'[t].pc \notin {"insert", "cascade"}, task'[t].queue = {},
         Mine(task'[t]) \subseteq Mine(task[t]),
         \A k \in Adds(task'[t]) : Live(k)',
         \A k : Live(k) => Live(k)',
         \A q \in devices' : \/ \E p \in devices : p.key = q.key /\ p.owner = q.owner
                             \/ At(t, "insert") /\ q = task[t].row,
         \A k \in peers' : k \in peers \/ k \in Adds(task[t]),
         \A k \in faulted : k \in faulted' \/ k \in Adds(task[t])
  PROVE  OrphanInv'
<1>1. Removes(task[t]) = {}
  BY DEF Removes, KeysOf
<1> QED
  BY <1>1, OrphanEffect

LEMMA InsertOrphans ==
  ASSUME TypeInv, ControlInv, PeerInv, OrphanInv, NEW t \in Tasks, Insert(t)
  PROVE  OrphanInv'
<1> DEFINE row == task[t].row
<1>1. t \in Procs /\ task[t] \in Job /\ Alone(t) /\ UNCHANGED <<phase, contended>>
  BY StepFacts DEF Step
<1>2. task[t].pc = "insert" /\ task[t].queue = {} /\ UNCHANGED <<peers, faulted>>
  BY NoQueue DEF Insert, At, DeletePCs, wgVars, ghosts
<1>3. CASE Finish(t) /\ UNCHANGED dbVars
  <2>1. UNCHANGED devices /\ \A k : Live(k)' <=> Live(k)
    BY <1>3 DEF dbVars, Live
  <2> QED
    BY <1>1, <1>2, <1>3, <2>1, FinishMine, HoldingOrphans
<1>4. CASE InsertDevice(row) /\ Goto(t, "refresh")
  <2>1. task'[t].pc = "refresh" /\ task'[t].row = row /\ task'[t].queue = {}
    BY <1>1, <1>2, <1>4, GotoContinues
  <2>2. /\ Adds(task'[t]) = {row.key} /\ Mine(task'[t]) = {row.key}
        /\ Mine(task[t]) = {row.key}
    BY <1>2, <2>1 DEF Mine, Knows, Inserts, Adds, Removes, Holds, KeysOf
  <2>3. \A k : Live(k)' <=> Live(k) \/ k = row.key
    BY <1>4 DEF InsertDevice, Live
  <2>4. \A q \in devices' : \/ \E p \in devices : p.key = q.key /\ p.owner = q.owner
                            \/ At(t, "insert") /\ q = task[t].row
    <3>1. \A q \in devices' : q \in devices \/ q = row
      BY <1>4 DEF InsertDevice
    <3> QED BY <1>2, <3>1 DEF At
  <2> QED
    BY <1>1, <1>2, <2>1, <2>2, <2>3, <2>4, HoldingOrphans
<1> QED
  BY <1>3, <1>4 DEF Insert

LEMMA RefreshOrphans ==
  ASSUME TypeInv, ControlInv, PeerInv, OrphanInv, NEW t \in Tasks, Refresh(t)
  PROVE  OrphanInv'
<1>1. t \in Procs /\ task[t] \in Job /\ Alone(t) /\ UNCHANGED <<phase, contended>>
  BY StepFacts DEF Step
<1>2. /\ task[t].pc = "refresh" /\ task[t].queue = {} /\ UNCHANGED <<devices, peers, faulted>>
      /\ \A k : Live(k)' <=> Live(k)
  BY NoQueue DEF Refresh, At, DeletePCs, dbVars, wgVars, ghosts, Live
<1>3. CASE Finish(t)
  BY <1>1, <1>2, <1>3, FinishMine, HoldingOrphans
<1>4. ASSUME NEW r \in devices, r.key = task[t].row.key,
             Become(t, [task[t] EXCEPT !.pc = "add_peer", !.row = r])
      PROVE  OrphanInv'
  <2> DEFINE j == [task[t] EXCEPT !.pc = "add_peer", !.row = r]
  <2>1. j.pc = "add_peer" /\ j.row = r /\ j.queue = {}
    BY <1>1, <1>2 DEF Job
  <2>2. task'[t] = j
    BY <1>1, <1>4, BecomeMoves
  <2> HIDE DEF j
  <2>3. Adds(task'[t]) = {r.key} /\ Mine(task'[t]) = {r.key} /\ Mine(task[t]) = {r.key}
    BY <1>2, <1>4, <2>1, <2>2 DEF Mine, Knows, Inserts, Adds, Removes, Holds, KeysOf
  <2>4. Live(r.key)
    BY DEF Live
  <2> QED
    BY <1>1, <1>2, <2>1, <2>2, <2>3, <2>4, HoldingOrphans
<1> QED
  BY <1>3, <1>4 DEF Refresh

LEMMA AbandonCreateOrphans ==
  ASSUME TypeInv, ControlInv, PeerInv, OrphanInv, NEW t \in Tasks, AbandonCreate(t)
  PROVE  OrphanInv'
<1>1. t \in Procs /\ Alone(t) /\ UNCHANGED <<phase, contended>> /\ Finish(t)
  BY StepFacts DEF Step, AbandonCreate
<1>2. /\ task[t].pc = "add_peer" /\ task[t].queue = {} /\ UNCHANGED <<devices, peers>>
      /\ \A k : Live(k)' <=> Live(k)
  BY NoQueue DEF AbandonCreate, At, DeletePCs, dbVars, wgVars, Live
<1>3. \A k \in faulted : k \in faulted'
  BY DEF AbandonCreate, Fails
<1> QED
  BY <1>1, <1>2, <1>3, FinishMine, HoldingOrphans

\* wg set peer: the row is there, or requests overlapped.
LEMMA AddPeerStepOrphans ==
  ASSUME TypeInv, ControlInv, PeerInv, OrphanInv, NEW t \in Tasks, AddPeerStep(t)
  PROVE  OrphanInv'
<1> DEFINE row == task[t].row
<1>1. t \in Procs /\ Alone(t) /\ UNCHANGED <<phase, contended>>
  BY StepFacts DEF Step
<1>2. /\ task[t].pc = "add_peer" /\ task[t].queue = {} /\ UNCHANGED devices
      /\ \A k : Live(k)' <=> Live(k)
  BY NoQueue DEF AddPeerStep, At, DeletePCs, dbVars, Live
<1>3. Adds(task[t]) = {row.key}
  BY <1>2 DEF Adds
<1>4. /\ Mine(task'[t]) = {} /\ Adds(task'[t]) = {} /\ task'[t].queue = {}
      /\ task'[t].pc \notin {"insert", "cascade"}
  <2>1. Quietly(t, task[t].queue) /\ KeysOf(task[t].queue) = {}
    BY <1>1, <1>2, AddPeerQuietly DEF KeysOf
  <2>2. task'[t].queue = {}
    BY <2>1 DEF Quietly, KeysOf
  <2> QED BY <1>1, <2>1, <2>2, QuietKeys
<1>5. /\ \A k \in peers' : k \in peers \/ k = row.key
      /\ \A k \in faulted : k \in faulted' \/ k = row.key
  BY DEF AddPeerStep, AddPeer, Succeeds, Fails, wgVars
<1> QED
  BY <1>1, <1>2, <1>3, <1>4, <1>5, HoldingOrphans

LEMMA SaveLive ==
  ASSUME TypeInv, NEW t \in Tasks, Save(t)
  PROVE  Shrinks /\ \A k : Live(k)' <=> Live(k)
<1>1. CASE UNCHANGED dbVars
  BY <1>1 DEF dbVars, Shrinks, Live
<1>2. CASE UpdateNets(task[t].row.key, task[t].want)
  <2>1. \A r \in devices : LET q == [r EXCEPT !.nets = task[t].want]
                           IN  q.key = r.key /\ q.owner = r.owner
    BY DEF TypeInv, TypeOK, DbTypeOK, DeviceRow
  <2>2. Shrinks /\ \A k : Live(k) => Live(k)'
    BY <1>2, <2>1 DEF UpdateNets, Shrinks, Live
  <2> QED BY <2>2, ShrinksLive
<1> QED BY <1>1, <1>2 DEF Save

LEMMA SaveOrphans ==
  ASSUME TypeInv, ControlInv, PeerInv, OrphanInv, NEW t \in Tasks, Save(t)
  PROVE  OrphanInv'
<1> DEFINE row == task[t].row
           j == [task[t] EXCEPT !.pc = "refresh", !.want = {}]
<1>1. t \in Procs /\ task[t] \in Job /\ Alone(t) /\ UNCHANGED <<phase, contended>>
  BY StepFacts DEF Step
<1>2. task[t].pc = "save" /\ task[t].queue = {} /\ UNCHANGED <<peers, faulted>>
  BY NoQueue DEF Save, At, DeletePCs, wgVars, ghosts
<1>3. Shrinks /\ \A k : Live(k)' <=> Live(k)
  BY SaveLive
<1>4. CASE Finish(t)
  BY <1>1, <1>2, <1>3, <1>4, FinishMine, HoldingOrphans DEF Shrinks
<1>5. CASE Live(row.key) /\ Become(t, j)
  <2>1. j.pc = "refresh" /\ j.row = row /\ j.queue = {}
    BY <1>1, <1>2 DEF Job
  <2>2. task'[t] = j
    BY <1>1, <1>5, BecomeMoves
  <2> HIDE DEF j
  <2>3. Adds(task'[t]) = {row.key} /\ Mine(task'[t]) = {row.key} /\ Mine(task[t]) = {row.key}
    BY <1>2, <2>1, <2>2 DEF Mine, Knows, Inserts, Adds, Removes, Holds, KeysOf
  <2> QED
    BY <1>1, <1>2, <1>3, <1>5, <2>1, <2>2, <2>3, HoldingOrphans DEF Shrinks
<1> QED
  BY <1>4, <1>5 DEF Save

\* The row goes, and the peer is next.
LEMMA DeleteRowOrphans ==
  ASSUME TypeInv, ControlInv, PeerInv, OrphanInv, NEW t \in Tasks, DeleteRow(t)
  PROVE  OrphanInv'
<1> DEFINE row == task[t].row
<1>1. t \in Procs /\ task[t] \in Job /\ Alone(t) /\ UNCHANGED <<phase, contended>>
  BY StepFacts DEF Step
<1>2. task[t].pc = "delete_row" /\ task[t].queue = {} /\ UNCHANGED <<peers, faulted>>
  BY NoQueue DEF DeleteRow, DeleteDevice, At, DeletePCs, wgVars, ghosts
<1>3. task'[t].pc = "remove_peer" /\ task'[t].row = row /\ task'[t].queue = {}
  BY <1>1, <1>2, GotoContinues DEF DeleteRow
<1>4. /\ Adds(task'[t]) = {} /\ Removes(task'[t]) = {row.key} /\ Mine(task'[t]) = {row.key}
      /\ Mine(task[t]) = {row.key} /\ Removes(task[t]) = {} /\ Adds(task[t]) = {}
  BY <1>2, <1>3 DEF Mine, Knows, Inserts, Adds, Removes, Holds, KeysOf
<1>5. /\ \A k : Live(k) => Live(k)' \/ k = row.key
      /\ \A q \in devices' : q \in devices
  BY DEF DeleteRow, DeleteDevice, Live
<1> QED
  BY <1>1, <1>2, <1>3, <1>4, <1>5, OrphanEffect

\* The rows of the user's devices go, and their peers are next; a device that was
\* not among those read is contended.
LEMMA CascadeOrphans ==
  ASSUME TypeInv, ControlInv, PeerInv, OrphanInv, NEW t \in Tasks, Cascade(t)
  PROVE  OrphanInv'
<1> DEFINE queue == task[t].queue
<1>1. t \in Procs /\ task[t] \in Job /\ Alone(t) /\ UNCHANGED <<phase, contended>>
  BY StepFacts DEF Step
<1>2. task[t].pc = "cascade" /\ UNCHANGED <<peers, faulted>>
  BY DEF Cascade, DeleteUser, At, wgVars, ghosts
<1>3. Quietly(t, queue) /\ Keeps(t, queue)
  <2>1. queue # {} => task[t].op = "delete_user"
    BY DEF OrphanInv, WorkInv
  <2> QED
    BY <1>1, <2>1, NextDeviceQuietly, NextDeviceKeeps DEF Cascade
<1>4. /\ Adds(task'[t]) = {} /\ Mine(task'[t]) \subseteq KeysOf(queue)
      /\ task'[t].pc \notin {"insert", "cascade"}
  BY <1>1, <1>3, QuietKeys
<1>5. /\ Mine(task[t]) = KeysOf(queue) /\ Removes(task[t]) = {} /\ Adds(task[t]) = {}
  BY <1>2 DEF Mine, Knows, Inserts, Adds, Removes, Holds
<1>6. \A q \in devices' : q \in devices
  BY DEF Cascade, DeleteUser
<1>7. ASSUME NEW k, Live(k)
      PROVE  Live(k)' \/ k \in contended \/ k \in KeysOf(queue)
  <2>1. PICK q \in devices : q.key = k
    BY <1>7 DEF Live
  <2>2. CASE q.owner = task[t].user
    BY <1>2, <2>1, <2>2 DEF OrphanInv, LeftInv, At
  <2>3. CASE q.owner # task[t].user
    BY <2>1, <2>3 DEF Cascade, DeleteUser, Live
  <2> QED BY <2>2, <2>3
<1>8. \A k \in KeysOf(queue) : k \in Removes(task'[t])
  BY <1>3 DEF Keeps
<1>9. task'[t].queue # {} => task'[t].op = "delete_user" /\ task'[t].pc \in DeletePCs
  BY <1>3 DEF Keeps
<1> QED
  BY <1>1, <1>2, <1>4, <1>5, <1>6, <1>7, <1>8, <1>9, OrphanEffect

\* wg set peer remove: the orphan is gone, or the command failed.
LEMMA RemovePeerStepOrphans ==
  ASSUME TypeInv, ControlInv, PeerInv, OrphanInv, NEW t \in Tasks, RemovePeerStep(t)
  PROVE  OrphanInv'
<1> DEFINE row == task[t].row
           queue == task[t].queue
<1>1. t \in Procs /\ task[t] \in Job /\ Alone(t) /\ UNCHANGED <<phase, contended>>
  BY StepFacts DEF Step
<1>2. /\ task[t].pc = "remove_peer" /\ UNCHANGED devices /\ \A k : Live(k)' <=> Live(k)
  BY DEF RemovePeerStep, At, dbVars, Live
<1>3. Keeps(t, queue)
  <2>1. queue # {} => task[t].op = "delete_user"
    BY DEF OrphanInv, WorkInv
  <2>2. CASE Goto(t, "relay_subnets")
    <3>1. /\ task'[t].pc = "relay_subnets" /\ task'[t].queue = queue
          /\ task'[t].op = task[t].op
      BY <1>1, <2>2, GotoContinues
    <3> QED BY <2>1, <3>1 DEF Keeps, Removes, DeletePCs
  <2>3. CASE NextDevice(t, task[t])
    BY <1>1, <2>1, <2>3, NextDeviceKeeps
  <2> QED BY <2>2, <2>3 DEF RemovePeerStep
<1>4. /\ Adds(task'[t]) = {} /\ Mine(task'[t]) \subseteq KeysOf(queue)
      /\ task'[t].pc \notin {"insert", "cascade"}
  BY <1>1, RemovePeerQuietly, QuietKeys
<1>5. /\ Removes(task[t]) = {row.key} \cup KeysOf(queue) /\ Adds(task[t]) = {}
      /\ KeysOf(queue) \subseteq Mine(task[t])
  BY <1>2 DEF Mine, Knows, Adds, Removes
<1>6. \A k \in peers' : /\ k \in peers
                        /\ k \in faulted => k \in faulted'
                        /\ k = row.key => k \in faulted'
  BY DEF RemovePeerStep, RemovePeer, Succeeds, Fails, wgVars
<1>7. \A k \in KeysOf(queue) : k \in Removes(task'[t])
  BY <1>3 DEF Keeps
<1>8. task'[t].queue # {} => task'[t].op = "delete_user" /\ task'[t].pc \in DeletePCs
  BY <1>3 DEF Keeps
<1> QED
  BY <1>1, <1>2, <1>4, <1>5, <1>6, <1>7, <1>8, OrphanEffect

-----------------------------------------------------------------------------
(* Starting an operation *)

\* A new operation contends with those that are ahead of a command for its keys.
LEMMA BeginOrphans ==
  ASSUME TypeInv, ControlInv, PeerInv, OrphanInv, NEW t \in Tasks, At(t, "idle"),
         NEW j, Become(t, j), UNCHANGED <<phase, devices, peers, faulted>>,
         contended \subseteq contended',
         Adds(j) = {}, j.queue # {} => j.op = "delete_user" /\ j.pc = "cascade",
         phase = "startup" => Mine(j) \subseteq contended',
         \A s \in Tasks \ {t} : \A k \in Mine(j) : k \in Mine(task[s]) => k \in contended',
         \A s \in Tasks \ {t} :
           /\ j.pc = "insert" /\ At(s, "cascade") /\ task[s].user = j.row.owner =>
                j.row.key \in contended'
           /\ j.pc = "cascade" /\ At(s, "insert") /\ task[s].row.owner = j.user =>
                task[s].row.key \in contended',
         j.pc = "cascade" => RowsOf(j.user) \subseteq j.queue
  PROVE  OrphanInv'
<1>1. t \in Procs /\ Alone(t) /\ task'[t] = j
  BY BecomeMoves DEF Procs
<1>2. UNCHANGED task[Boot] /\ \A s \in Tasks \ {t} : task'[s] = task[s]
  BY <1>1, EventBridgeAssumption DEF Alone, Procs
<1>3. UNCHANGED <<Missing, Gone, BeforeRead>> /\ \A k : Live(k)' <=> Live(k)
  BY <1>2 DEF Missing, Gone, BeforeRead, Live
<1>4. AddsInv'
  BY <1>1, <1>2, <1>3 DEF OrphanInv, AddsInv
<1>5. SharedInv'
  BY <1>1, <1>2 DEF OrphanInv, SharedInv
<1>6. InsertInv'
  BY <1>1, <1>2 DEF OrphanInv, InsertInv, At
<1>7. LeftInv'
  BY <1>1, <1>2 DEF OrphanInv, LeftInv, At, KeysOf, RowsOf
<1>8. StartupInv'
  BY <1>1, <1>2 DEF OrphanInv, StartupInv
<1>9. MissingInv'
  BY <1>3 DEF OrphanInv, MissingInv
<1>10. WorkInv'
  BY <1>1, <1>2, <1>3 DEF OrphanInv, WorkInv, DeletePCs
<1>11. OrphanCover'
  <2>1. Removes(task[t]) = {}
    BY NoQueue DEF At, Removes, KeysOf, DeletePCs
  <2>2. \A k : Removed(k) => Removed(k)'
    BY <1>2, <2>1 DEF Removed
  <2> QED
    BY <1>2, <1>3, <2>2 DEF OrphanInv, OrphanCover
<1> QED
  BY <1>4, <1>5, <1>6, <1>7, <1>8, <1>9, <1>10, <1>11 DEF OrphanInv

LEMMA StartCreateOrphans ==
  ASSUME TypeInv, ControlInv, PeerInv, OrphanInv, NEW t \in Tasks, StartCreate(t)
  PROVE  OrphanInv'
<1> DEFINE row(k, u, a, n) == [key |-> k, owner |-> u, ip |-> a, nets |-> n]
           j(r) == [Idle EXCEPT !.pc = "insert", !.op = "create", !.row = r]
<1>1. PICK k, r : /\ k \in Devices \ born
                  /\ r.key = k
                  /\ Become(t, j(r))
                  /\ contended' = IF \/ phase = "startup"
                                     \/ \E s \in Tasks : At(s, "cascade") /\ task[s].user = r.owner
                                  THEN contended \cup {k} ELSE contended
  <2>1. PICK k \in Devices \ born, u \in users, a \in Addresses \ UsedIps, n \in SUBSET Subnets :
          /\ Become(t, j(row(k, u, a, n)))
          /\ contended' = IF \/ phase = "startup"
                             \/ \E s \in Tasks : At(s, "cascade") /\ task[s].user = u
                          THEN contended \cup {k} ELSE contended
    BY DEF StartCreate
  <2>2. row(k, u, a, n).key = k /\ row(k, u, a, n).owner = u
    OBVIOUS
  <2> HIDE DEF row, j
  <2> QED BY <2>1, <2>2
<1>2. j(r).pc = "insert" /\ j(r).row = r /\ j(r).queue = {}
  BY DEF Idle
<1>3. At(t, "idle") /\ UNCHANGED <<phase, devices, peers, faulted>>
  BY DEF StartCreate, CanStart, wgVars
<1> HIDE DEF j
<1>4. Mine(j(r)) = {k} /\ Adds(j(r)) = {}
  BY <1>1, <1>2 DEF Mine, Knows, Inserts, Adds, Removes, Holds, KeysOf
<1>5. \A s \in Tasks : k \notin Mine(task[s])
  BY <1>1 DEF PeerInv, BornInv, Known, Mine
<1> QED
  BY <1>1, <1>2, <1>3, <1>4, <1>5, BeginOrphans

\* What Contends adds for the keys of a new operation.
LEMMA ContendsOrphans ==
  ASSUME TypeInv, NEW K, Contends(K)
  PROVE  /\ contended \subseteq contended'
         /\ phase = "startup" => K \subseteq contended'
         /\ \A s \in Tasks : \A k \in K : k \in Mine(task[s]) => k \in contended'
BY MineAhead DEF Contends, Procs

LEMMA StartUpdateOrphans ==
  ASSUME TypeInv, ControlInv, PeerInv, OrphanInv, NEW t \in Tasks, StartUpdate(t)
  PROVE  OrphanInv'
<1> DEFINE j(r, n) == [Idle EXCEPT !.pc = "save", !.op = "update", !.row = r, !.want = n]
<1>1. PICK r \in devices, n \in SUBSET Subnets : Become(t, j(r, n)) /\ Contends({r.key})
  BY DEF StartUpdate
<1>2. j(r, n).pc = "save" /\ j(r, n).row = r /\ j(r, n).queue = {}
  BY DEF Idle
<1>3. At(t, "idle") /\ UNCHANGED <<phase, devices, peers, faulted>>
  BY DEF StartUpdate, CanStart, dbVars, wgVars
<1> HIDE DEF j
<1>4. Mine(j(r, n)) = {r.key} /\ Adds(j(r, n)) = {}
  BY <1>2 DEF Mine, Knows, Inserts, Adds, Removes, Holds, KeysOf
<1> QED
  BY <1>1, <1>2, <1>3, <1>4, ContendsOrphans, BeginOrphans

LEMMA StartDeleteOrphans ==
  ASSUME TypeInv, ControlInv, PeerInv, OrphanInv, NEW t \in Tasks, StartDelete(t)
  PROVE  OrphanInv'
<1> DEFINE j(r) == [Idle EXCEPT !.pc = "delete_row", !.op = "delete", !.row = r]
<1>1. PICK r \in devices : Become(t, j(r)) /\ Contends({r.key})
  BY DEF StartDelete
<1>2. j(r).pc = "delete_row" /\ j(r).row = r /\ j(r).queue = {}
  BY DEF Idle
<1>3. At(t, "idle") /\ UNCHANGED <<phase, devices, peers, faulted>>
  BY DEF StartDelete, CanStart, dbVars, wgVars
<1> HIDE DEF j
<1>4. Mine(j(r)) = {r.key} /\ Adds(j(r)) = {}
  BY <1>2 DEF Mine, Knows, Inserts, Adds, Removes, Holds, KeysOf
<1> QED
  BY <1>1, <1>2, <1>3, <1>4, ContendsOrphans, BeginOrphans

LEMMA StartDeleteUserOrphans ==
  ASSUME TypeInv, ControlInv, PeerInv, OrphanInv, NEW t \in Tasks, StartDeleteUser(t)
  PROVE  OrphanInv'
<1> DEFINE j(u) == [Idle EXCEPT !.pc = "cascade", !.op = "delete_user", !.user = u,
                      !.queue = RowsOf(u)]
           inserting(u) == {k \in Devices : \E s \in Tasks : /\ At(s, "insert")
                                                             /\ task[s].row.owner = u
                                                             /\ task[s].row.key = k}
<1>1. PICK u \in users : Become(t, j(u)) /\ Contends({r.key : r \in RowsOf(u)} \cup inserting(u))
  BY DEF StartDeleteUser
<1>2. /\ j(u).pc = "cascade" /\ j(u).user = u /\ j(u).queue = RowsOf(u)
      /\ j(u).op = "delete_user"
  BY DEF Idle
<1>3. At(t, "idle") /\ UNCHANGED <<phase, devices, peers, faulted>>
  BY DEF StartDeleteUser, CanStart, dbVars, wgVars
<1>4. ASSUME NEW s \in Tasks, At(s, "insert"), task[s].row.owner = u
      PROVE  task[s].row.key \in contended'
  <2>1. s \in Procs /\ task[s].row \in DeviceRow
    BY <1>4, TaskType DEF Held, RowPCs, At, Procs
  <2>2. task[s].row.key \in inserting(u) /\ task[s].row.key \in Mine(task[s])
    BY <1>4, <2>1 DEF DeviceRow, Mine, Inserts, At
  <2> HIDE DEF inserting, j
  <2> QED BY <1>1, <2>2, ContendsOrphans
<1> HIDE DEF j, inserting
<1>5. Mine(j(u)) = {r.key : r \in RowsOf(u)} /\ Adds(j(u)) = {}
  BY <1>2 DEF Mine, Knows, Inserts, Adds, Removes, Holds, KeysOf
<1>6. /\ contended \subseteq contended'
      /\ phase = "startup" => Mine(j(u)) \subseteq contended'
      /\ \A s \in Tasks : \A k \in Mine(j(u)) : k \in Mine(task[s]) => k \in contended'
  BY <1>1, <1>5, ContendsOrphans
<1> QED
  BY <1>1, <1>2, <1>3, <1>4, <1>5, <1>6, BeginOrphans

LEMMA SameOrphans ==
  OrphanInv /\ UNCHANGED <<task, phase, devices, peers, faulted, contended>> => OrphanInv'
BY DEF OrphanInv, AddsInv, SharedInv, InsertInv, LeftInv, StartupInv, MissingInv, WorkInv,
       OrphanCover, Removed, Missing, Gone, BeforeRead, Live, At

LEMMA StartRuleOrphans ==
  ASSUME TypeInv, ControlInv, PeerInv, OrphanInv, NEW t \in Tasks,
         CreateRule(t) \/ UpdateRuleFromPage(t) \/ DeleteRuleRow(t) \/ ReorderRules(t)
  PROVE  OrphanInv'
<1>1. CASE UNCHANGED task
  BY <1>1, RuleBegins, SameOrphans
<1>2. ASSUME NEW j, Become(t, j), j.queue = {}, j.pc \notin KeyPCs
      PROVE  OrphanInv'
  <2>1. Mine(j) = {} /\ Adds(j) = {} /\ j.pc \notin {"insert", "cascade"}
    BY <1>2 DEF Mine, Knows, Inserts, Adds, Removes, Holds, KeysOf, KeyPCs
  <2> QED BY <1>2, <2>1, RuleBegins, BeginOrphans
<1> QED
  BY <1>1, <1>2, RuleBegins

-----------------------------------------------------------------------------
(* reconcile() *)

LEMMA BootOrphans ==
  ASSUME OrphanInv, Alone(Boot), phase = "startup", UNCHANGED <<devices, contended>>,
         \A k \in Missing' : Live(k) \/ k \in contended,
         task'[Boot].pc \notin {"db_devices", "db_rules", "add_missing", "remove_orphans"} =>
           Gone' = {},
         \A k \in peers' : \/ ~BeforeRead' /\ (Live(k) \/ Removed(k))
                           \/ k \in Gone' \/ k \in faulted' \/ k \in contended
  PROVE  OrphanInv'
<1>1. \A t \in Tasks : task'[t] = task[t]
  BY EventBridgeAssumption DEF Alone, Procs
<1>2. \A k : (Live(k)' <=> Live(k)) /\ (Removed(k)' <=> Removed(k))
  BY <1>1 DEF Live, Removed
<1>3. AddsInv' /\ SharedInv' /\ StartupInv' /\ MissingInv'
  BY <1>1, <1>2 DEF OrphanInv, AddsInv, SharedInv, StartupInv, MissingInv
<1>4. InsertInv' /\ LeftInv'
  BY <1>1 DEF OrphanInv, InsertInv, LeftInv, At
<1>5. WorkInv' /\ OrphanCover'
  BY <1>1, <1>2 DEF OrphanInv, WorkInv, OrphanCover
<1> QED
  BY <1>3, <1>4, <1>5 DEF OrphanInv

LEMMA GetPeersOrphans ==
  ASSUME TypeInv, ControlInv, PeerInv, OrphanInv, GetPeers
  PROVE  OrphanInv'
<1> DEFINE j == [task[Boot] EXCEPT !.pc = "db_devices", !.gone = peers]
<1>1. task[Boot] \in Job /\ task[Boot].pc = "get_peers" /\ phase = "startup"
  BY BootAt DEF GetPeers, At
<1>2. UNCHANGED <<devices, contended, peers>> /\ task[Boot].queue = {}
  BY <1>1 DEF GetPeers, dbVars, wgVars, PeerInv, QueueInv
<1>3. CASE Become(Boot, j)
  <2>1. j.pc = "db_devices" /\ j.queue = {} /\ j.gone = peers BY <1>1, <1>2 DEF Job
  <2>2. task'[Boot] = j /\ Alone(Boot) BY <1>3, BootType, BecomeMoves
  <2> HIDE DEF j
  <2>3. Missing' = {} /\ Gone' = peers
    BY <2>1, <2>2 DEF Missing, Gone, KeysOf
  <2> QED BY <1>1, <1>2, <2>1, <2>2, <2>3, BootOrphans
<1>4. CASE Goto(Boot, "db_devices") /\ Fails(peers)
  <2>1. task'[Boot].pc = "db_devices" /\ task'[Boot].queue = {} /\ Alone(Boot)
    BY <1>2, <1>4, BootType, GotoContinues DEF Continues
  <2>2. Missing' = {} /\ \A k \in peers : k \in faulted'
    BY <1>4, <2>1 DEF Missing, KeysOf, Fails
  <2> QED BY <1>1, <1>2, <2>1, <2>2, BootOrphans
<1> QED
  BY <1>3, <1>4 DEF GetPeers

LEMMA ReadAllDevicesOrphans ==
  ASSUME TypeInv, ControlInv, PeerInv, OrphanInv, ReadAllDevices
  PROVE  OrphanInv'
<1> DEFINE seen == task[Boot].gone
           j(w, e, x) == [task[Boot] EXCEPT !.pc = "db_rules", !.queue = MissingPeers(seen),
                            !.gone = OrphanPeers(seen), !.want = w, !.entries = e, !.jumps = x]
<1>1. task[Boot] \in Job /\ task[Boot].pc = "db_devices" /\ phase = "startup"
  BY BootAt DEF ReadAllDevices, At
<1>2. UNCHANGED <<devices, peers, faulted, contended>>
  BY DEF ReadAllDevices, dbVars, wgVars, ghosts
<1>3. /\ Alone(Boot) /\ task'[Boot].pc = "db_rules"
      /\ task'[Boot].queue = MissingPeers(seen) /\ task'[Boot].gone = OrphanPeers(seen)
  <2>1. PICK w, e, x : Become(Boot, j(w, e, x)) BY DEF ReadAllDevices
  <2>2. /\ j(w, e, x).pc = "db_rules" /\ j(w, e, x).queue = MissingPeers(seen)
        /\ j(w, e, x).gone = OrphanPeers(seen)
    BY <1>1 DEF Job
  <2>3. task'[Boot] = j(w, e, x) /\ Alone(Boot) BY <2>1, BootType, BecomeMoves
  <2> HIDE DEF j
  <2> QED BY <2>2, <2>3
<1>4. Missing' = KeysOf(MissingPeers(seen)) /\ Gone' = OrphanPeers(seen) /\ ~BeforeRead'
  BY <1>3 DEF Missing, Gone, KeysOf, BeforeRead
<1>5. \A k \in Missing' : Live(k)
  BY <1>4 DEF MissingPeers, KeysOf, Live
<1>6. \A k \in seen : Live(k) \/ k \in Gone'
  BY <1>4 DEF OrphanPeers, LiveKeys, Live
<1>7. \A k \in peers : k \in seen \/ k \in faulted \/ k \in contended
  BY <1>1 DEF OrphanInv, OrphanCover, BeforeRead, Gone
<1> QED
  BY <1>1, <1>2, <1>3, <1>4, <1>5, <1>6, <1>7, BootOrphans

LEMMA ReadAllRulesOrphans ==
  ASSUME TypeInv, ControlInv, PeerInv, OrphanInv, ReadAllRules
  PROVE  OrphanInv'
<1> DEFINE j(e, b) == [task[Boot] EXCEPT !.pc = "add_missing", !.entries = e, !.bodies = b]
<1>1. task[Boot] \in Job /\ task[Boot].pc = "db_rules" /\ phase = "startup"
  BY BootAt DEF ReadAllRules, At
<1>2. UNCHANGED <<devices, peers, faulted, contended>>
  BY DEF ReadAllRules, dbVars, wgVars, ghosts
<1>3. PICK e, b : Become(Boot, j(e, b))
  BY DEF ReadAllRules
<1>4. /\ j(e, b).pc = "add_missing" /\ j(e, b).queue = task[Boot].queue
      /\ j(e, b).gone = task[Boot].gone
  BY <1>1 DEF Job
<1>5. task'[Boot] = j(e, b) /\ Alone(Boot)
  BY <1>3, BootType, BecomeMoves
<1> HIDE DEF j
<1>6. UNCHANGED <<Missing, Gone>> /\ ~BeforeRead /\ ~BeforeRead'
  BY <1>1, <1>4, <1>5 DEF Missing, Gone, BeforeRead
<1> QED
  BY <1>1, <1>2, <1>4, <1>5, <1>6, BootOrphans DEF OrphanInv, MissingInv, OrphanCover

LEMMA AddMissingPeerOrphans ==
  ASSUME TypeInv, ControlInv, PeerInv, OrphanInv, AddMissingPeer
  PROVE  OrphanInv'
<1> DEFINE j(r) == [task[Boot] EXCEPT !.queue = @ \ {r}]
<1>1. task[Boot] \in Job /\ task[Boot].pc = "add_missing" /\ phase = "startup" /\ ~BeforeRead
  BY BootAt DEF AddMissingPeer, At, BeforeRead
<1>2. UNCHANGED <<devices, contended>>
  BY DEF AddMissingPeer, dbVars
<1>3. \A k \in peers : \/ Live(k) \/ Removed(k)
                       \/ k \in Gone \/ k \in faulted \/ k \in contended
  BY <1>1 DEF OrphanInv, OrphanCover
<1>4. CASE task[Boot].queue = {} /\ Goto(Boot, "remove_orphans") /\ UNCHANGED <<wgVars, faulted>>
  <2>1. /\ task'[Boot].pc = "remove_orphans" /\ Alone(Boot)
        /\ task'[Boot].queue = {} /\ task'[Boot].gone = task[Boot].gone
    BY <1>4, BootType, GotoContinues DEF Continues
  <2>2. Missing' = {} /\ Gone' = Gone /\ ~BeforeRead'
    BY <2>1 DEF Missing, Gone, KeysOf, BeforeRead
  <2> QED
    BY <1>1, <1>2, <1>3, <1>4, <2>1, <2>2, BootOrphans DEF wgVars
<1>5. ASSUME NEW r \in task[Boot].queue,
             \/ AddPeer(r.key, AllowedIps(r)) /\ Succeeds({r.key})
             \/ UNCHANGED wgVars /\ Fails({r.key}),
             Become(Boot, j(r))
      PROVE  OrphanInv'
  <2>1. j(r).pc = "add_missing" /\ j(r).queue = task[Boot].queue \ {r}
        /\ j(r).gone = task[Boot].gone
    BY <1>1 DEF Job
  <2>2. task'[Boot] = j(r) /\ Alone(Boot)
    BY <1>5, BootType, BecomeMoves
  <2> HIDE DEF j
  <2>3. /\ \A k \in peers' : k \in peers \/ k = r.key
        /\ \A k \in faulted : k \in faulted' \/ k = r.key
    BY <1>5 DEF AddPeer, Succeeds, Fails, wgVars
  <2>4. r.key \in Missing /\ (\A k \in Missing' : k \in Missing) /\ Gone' = Gone /\ ~BeforeRead'
    BY <2>1, <2>2, <1>5 DEF Missing, Gone, KeysOf, BeforeRead
  <2>5. \A k \in Missing : Live(k) \/ k \in contended
    BY DEF OrphanInv, MissingInv
  <2> QED
    BY <1>1, <1>2, <1>3, <2>1, <2>2, <2>3, <2>4, <2>5, BootOrphans
<1> QED
  BY <1>4, <1>5 DEF AddMissingPeer

LEMMA RemoveOrphanPeerOrphans ==
  ASSUME TypeInv, ControlInv, PeerInv, OrphanInv, RemoveOrphanPeer
  PROVE  OrphanInv'
<1> DEFINE j(k) == [task[Boot] EXCEPT !.gone = @ \ {k}]
<1>1. task[Boot] \in Job /\ task[Boot].pc = "remove_orphans" /\ phase = "startup" /\ ~BeforeRead
  BY BootAt DEF RemoveOrphanPeer, At, BeforeRead
<1>2. UNCHANGED <<devices, contended>> /\ task[Boot].queue = {}
  BY <1>1 DEF RemoveOrphanPeer, dbVars, PeerInv, QueueInv
<1>3. \A k \in peers : \/ Live(k) \/ Removed(k)
                       \/ k \in Gone \/ k \in faulted \/ k \in contended
  BY <1>1 DEF OrphanInv, OrphanCover
<1>4. CASE task[Boot].gone = {} /\ Goto(Boot, "list_chains") /\ UNCHANGED <<wgVars, faulted>>
  <2>1. /\ task'[Boot].pc = "list_chains" /\ Alone(Boot)
        /\ task'[Boot].queue = {} /\ task'[Boot].gone = {}
    BY <1>2, <1>4, BootType, GotoContinues DEF Continues
  <2>2. Missing' = {} /\ Gone' = {} /\ Gone = {} /\ ~BeforeRead'
    BY <1>4, <2>1 DEF Missing, Gone, KeysOf, BeforeRead
  <2> QED
    BY <1>1, <1>2, <1>3, <1>4, <2>1, <2>2, BootOrphans DEF wgVars
<1>5. ASSUME NEW k \in task[Boot].gone,
             \/ RemovePeer(k) /\ Succeeds({k})
             \/ UNCHANGED wgVars /\ Fails({k}),
             Become(Boot, j(k))
      PROVE  OrphanInv'
  <2>1. j(k).pc = "remove_orphans" /\ j(k).queue = {} /\ j(k).gone = task[Boot].gone \ {k}
    BY <1>1, <1>2 DEF Job
  <2>2. task'[Boot] = j(k) /\ Alone(Boot)
    BY <1>5, BootType, BecomeMoves
  <2> HIDE DEF j
  <2>3. \A q \in peers' : /\ q \in peers
                          /\ q \in faulted => q \in faulted'
                          /\ q = k => q \in faulted'
    BY <1>5 DEF RemovePeer, Succeeds, Fails, wgVars
  <2>4. Missing' = {} /\ Gone' = Gone \ {k} /\ ~BeforeRead'
    BY <2>1, <2>2 DEF Missing, Gone, KeysOf, BeforeRead
  <2> QED
    BY <1>1, <1>2, <1>3, <2>1, <2>2, <2>3, <2>4, BootOrphans
<1> QED
  BY <1>4, <1>5 DEF RemoveOrphanPeer

LEMMA BootSharedStepOrphans ==
  ASSUME TypeInv, ControlInv, PeerInv, OrphanInv, SharedStep(Boot)
  PROVE  OrphanInv'
<1>1. /\ phase = "startup" /\ UNCHANGED <<devices, peers, contended>> /\ Alone(Boot)
      /\ task[Boot].pc \in {"interface_routes", "routes", "list_chains", "nft_batch"}
      /\ \A k \in Devices : k \in faulted => k \in faulted'
  BY BootSharedQuietly, BootType, StepContended DEF Step
<1>2. Missing' = {} /\ Gone' = {} /\ Gone = {} /\ ~BeforeRead /\ ~BeforeRead'
  <2>1. Gone = {}
    BY <1>1 DEF OrphanInv, WorkInv
  <2> QED BY <2>1, BootSharedQuietly DEF Missing, Gone, KeysOf, BeforeRead
<1>3. \A k \in peers : k \in faulted => k \in faulted'
  BY <1>1 DEF TypeInv, TypeOK, WgTypeOK
<1> QED
  BY <1>1, <1>2, <1>3, BootOrphans DEF OrphanInv, OrphanCover, BeforeRead

\* Whatever was under way is lost, and startup looks at every peer again.
LEMMA CrashOrphans ==
  ASSUME Crash
  PROVE  OrphanInv'
<1>1. \A t \in Tasks : task'[t] = Idle
  BY DEF Crash, Procs
<1>2. task'[Boot] = Idle /\ phase' = "down"
  BY BootType DEF Crash
<1>3. Adds(Idle) = {} /\ Mine(Idle) = {} /\ Idle.pc = "idle" /\ Idle.queue = {} /\ Idle.gone = {}
  BY DEF Idle, Mine, Knows, Inserts, Adds, Removes, Holds, KeysOf
<1>4. Missing' = {} /\ Gone' = {}
  BY <1>2, <1>3 DEF Missing, Gone, KeysOf
<1>5. AddsInv' /\ SharedInv' /\ StartupInv' /\ MissingInv' /\ WorkInv' /\ OrphanCover'
  BY <1>1, <1>2, <1>3, <1>4
  DEF AddsInv, SharedInv, StartupInv, MissingInv, WorkInv, OrphanCover
<1>6. InsertInv' /\ LeftInv'
  BY <1>1, <1>3 DEF InsertInv, LeftInv, At
<1> QED
  BY <1>5, <1>6 DEF OrphanInv

\* Nothing is under way, and no peer has to be accounted for.
LEMMA StartupFailsOrphans ==
  ASSUME TypeInv, ControlInv, PeerInv, OrphanInv, StartupFails
  PROVE  OrphanInv'
<1>1. phase = "down" /\ phase' \notin {"startup", "up"} /\ UNCHANGED <<task, devices>>
  BY DEF StartupFails, dbVars
<1>2. \A t \in Tasks : task[t].pc = "idle" /\ task[t].queue = {}
  BY <1>1, NoQueue DEF ControlInv, Down, At, DeletePCs
<1>3. \A t \in Tasks : Adds(task[t]) = {} /\ Mine(task[t]) = {}
  BY <1>2 DEF Mine, Knows, Inserts, Adds, Removes, Holds, KeysOf
<1>4. task[Boot].pc = "idle" /\ Missing = {} /\ Gone = {}
  BY <1>1 DEF ControlInv, Booting, At, PeerInv, QueueInv, Missing, KeysOf, OrphanInv, WorkInv
<1>5. UNCHANGED <<Missing, Gone>>
  BY <1>1 DEF Missing, Gone
<1>6. AddsInv' /\ SharedInv' /\ StartupInv' /\ MissingInv' /\ WorkInv' /\ OrphanCover'
  BY <1>1, <1>2, <1>3, <1>4, <1>5
  DEF AddsInv, SharedInv, StartupInv, MissingInv, WorkInv, OrphanCover
<1>7. InsertInv' /\ LeftInv'
  BY <1>1, <1>2 DEF InsertInv, LeftInv, At
<1> QED
  BY <1>6, <1>7 DEF OrphanInv

LEMMA RestartOrphans ==
  ASSUME TypeInv, ControlInv, OrphanInv, Restart
  PROVE  OrphanInv'
<1> DEFINE j == [Idle EXCEPT !.pc = "get_peers", !.op = "boot"]
<1>1. j.pc = "get_peers" /\ j.queue = {} /\ j.gone = {}
  BY DEF Idle
<1>2. task'[Boot] = j /\ Alone(Boot)
  BY BootType, BecomeMoves DEF Restart, Become
<1> HIDE DEF j
<1>3. \A t \in Tasks : task'[t] = task[t] /\ task[t].pc = "idle" /\ task[t].queue = {}
  <2>1. \A t \in Tasks : task'[t] = task[t]
    BY <1>2, EventBridgeAssumption DEF Alone, Procs
  <2>2. \A t \in Tasks : At(t, "idle")
    BY DEF Restart, ControlInv, Down
  <2> QED BY <2>1, <2>2, NoQueue DEF At, DeletePCs
<1>4. \A t \in Tasks : Adds(task'[t]) = {} /\ Mine(task'[t]) = {}
  BY <1>3 DEF Mine, Knows, Inserts, Adds, Removes, Holds, KeysOf
<1>5. Missing' = {} /\ Gone' = {}
  BY <1>1, <1>2 DEF Missing, Gone, KeysOf
<1>6. AddsInv' /\ SharedInv' /\ StartupInv' /\ MissingInv' /\ WorkInv' /\ OrphanCover'
  BY <1>1, <1>2, <1>3, <1>4, <1>5
  DEF AddsInv, SharedInv, StartupInv, MissingInv, WorkInv, OrphanCover
<1>7. InsertInv' /\ LeftInv'
  BY <1>3 DEF InsertInv, LeftInv, At
<1> QED
  BY <1>6, <1>7 DEF OrphanInv

-----------------------------------------------------------------------------
(* No orphans *)

LEMMA OrphanInit == Init => OrphanInv
BY BootType
   DEF Init, DbInit, OrphanInv, AddsInv, SharedInv, InsertInv, LeftInv, StartupInv, MissingInv,
       WorkInv, OrphanCover, Missing, Gone, KeysOf, Mine, Knows, Inserts, Adds, Removes, Holds,
       Idle, Procs, At

LEMMA OrphanNext ==
  TypeInv /\ ControlInv /\ PeerInv /\ OrphanInv /\ [Next]_allVars => OrphanInv'
<1> SUFFICES ASSUME TypeInv, ControlInv, PeerInv, OrphanInv, [Next]_allVars PROVE OrphanInv'
  OBVIOUS
<1>1. ASSUME NEW t \in Tasks, Start(t) PROVE OrphanInv'
  BY <1>1, StartCreateOrphans, StartUpdateOrphans, StartDeleteOrphans, StartDeleteUserOrphans,
     StartRuleOrphans
  DEF Start
<1>2. CASE UpdateRuleFromApi
  BY <1>2, SameOrphans DEF UpdateRuleFromApi, UpdateRule, wgVars, taskVars, ghosts
<1>3. ASSUME NEW t \in Tasks, Step(t) PROVE OrphanInv'
  BY <1>3, InsertOrphans, RefreshOrphans, SaveOrphans, DeleteRowOrphans, CascadeOrphans,
     AbandonCreateOrphans, AddPeerStepOrphans, RemovePeerStepOrphans, RelaySubnetsStepOrphans,
     PolicyStepsOrphans, RoutesStepsOrphans
  DEF Step, SharedStep
<1>4. CASE Crash
  BY <1>4, CrashOrphans
<1>5. CASE Restart
  BY <1>5, RestartOrphans
<1>6. CASE BootStep
  BY <1>6, GetPeersOrphans, ReadAllDevicesOrphans, ReadAllRulesOrphans, AddMissingPeerOrphans,
     RemoveOrphanPeerOrphans, BootSharedStepOrphans
  DEF BootStep
<1>7. CASE StartupFails
  BY <1>7, StartupFailsOrphans
<1>8. CASE UNCHANGED allVars
  BY <1>8, SameOrphans DEF allVars, vars, dbVars, wgVars, taskVars, ghosts
<1> QED
  BY <1>1, <1>2, <1>3, <1>4, <1>5, <1>6, <1>7, <1>8 DEF Next, TaskStep

\* Once startup is over it has nothing left to remove.
LEMMA OrphansCovered == TypeInv /\ ControlInv /\ OrphanInv => NoOrphanPeers
<1> SUFFICES ASSUME TypeInv, ControlInv, OrphanInv, phase = "up", NEW k \in peers
             PROVE  Live(k) \/ RemovePending(k) \/ k \in faulted \cup contended
  BY DEF NoOrphanPeers
<1>1. task[Boot].pc = "idle"
  BY DEF ControlInv, Booting, At
<1>2. Gone = {}
  BY <1>1 DEF OrphanInv, WorkInv
<1>3. Live(k) \/ Removed(k) \/ k \in faulted \/ k \in contended
  BY <1>1, <1>2 DEF OrphanInv, OrphanCover
<1>4. Removed(k) => RemovePending(k)
  BY DEF Removed, Removes, RemovePending, At, KeysOf
<1> QED
  BY <1>3, <1>4

\* However many operations are under way, wherever the process dies and however it
\* is restarted: once the system is up, a peer whose device is gone is about to be
\* removed, unless the wg command failed or requests for that very device
\* overlapped (on_device_deleted, delete_user_and_cleanup, reconcile).
THEOREM NoOrphans == Spec => []NoOrphanPeers
BY TypeInit, TypeNext, ControlInit, ControlNext, PeerInit, PeerNext, OrphanInit, OrphanNext,
   OrphansCovered, PTL DEF Spec

-----------------------------------------------------------------------------
(* The refinement *)

\* The keys that were generated and wait for their INSERT.
Inserting(k) == \E t \in Tasks : k \in Inserts(task[t])

RetiredMeans == \A k : k \in Retired <=> k \in born /\ ~Live(k) /\ ~Inserting(k)

LEMMA RetiredKeys == TypeInv => RetiredMeans
<1> SUFFICES ASSUME TypeInv PROVE RetiredMeans
  OBVIOUS
<1>1. \A k : k \in LiveKeys <=> Live(k)
  BY DEF LiveKeys, Live
<1>2. \A k \in Devices : (\E t \in Tasks : At(t, "insert") /\ task[t].row.key = k) <=> Inserting(k)
  BY DEF Inserting, Inserts, At
<1>3. born \subseteq Devices
  BY DEF TypeInv, TypeOK, DbTypeOK
<1> QED
  BY <1>1, <1>2, <1>3 DEF Retired, RetiredMeans

\* Keys are retired with their devices.
LEMMA PlaneShrinks ==
  ASSUME TypeInv, TypeInv', PeerInv, UNCHANGED born,
         \A k : Inserting(k)' <=> Inserting(k), \A k : Live(k)' => Live(k)
  PROVE  LET K == LiveKeys \ LiveKeys'
         IN  /\ K \in SUBSET Devices /\ K \cap Retired = {}
             /\ LiveKeys' = LiveKeys \ K /\ Retired' = Retired \cup K
<1> DEFINE K == LiveKeys \ LiveKeys'
<1>1. /\ \A k : k \in LiveKeys <=> Live(k)
      /\ \A k : k \in LiveKeys' <=> Live(k)'
  BY DEF LiveKeys, Live
<1>2. \A k : Live(k) => k \in Devices
  BY DEF Live, TypeInv, TypeOK, DbTypeOK, DeviceRow
<1>3. \A k : Live(k) => k \in born /\ ~Inserting(k)
  BY <1>2 DEF PeerInv, BornInv, Known, Inserting
<1>4. \A k : k \in Retired <=> k \in born /\ ~Live(k) /\ ~Inserting(k)
  BY RetiredKeys DEF RetiredMeans
<1>5. \A k : k \in Retired' <=> k \in born' /\ ~Live(k)' /\ ~Inserting(k)'
  <2>1. RetiredMeans'
    BY RetiredKeys, PTL
  <2> QED BY <2>1 DEF RetiredMeans
<1>6. \A k : k \in Retired' <=> k \in Retired \/ k \in K
  BY <1>1, <1>3, <1>4, <1>5
<1> QED
  BY <1>1, <1>2, <1>4, <1>6


LEMMA PlaneStill ==
  ASSUME TypeInv, TypeInv', UNCHANGED <<born, peers, contended>>,
         \A k : Inserting(k)' <=> Inserting(k), \A k : Live(k)' <=> Live(k)
  PROVE  UNCHANGED Plane!planeVars
<1>1. UNCHANGED LiveKeys
  <2>1. /\ \A k : k \in LiveKeys <=> Live(k)
        /\ \A k : k \in LiveKeys' <=> Live(k)'
    BY DEF LiveKeys, Live
  <2> QED BY <2>1
<1>2. UNCHANGED Retired
  <2>1. RetiredMeans /\ RetiredMeans'
    BY RetiredKeys, PTL
  <2> QED BY <2>1 DEF RetiredMeans
<1> QED
  BY <1>1, <1>2 DEF Plane!planeVars

\* Only StartCreate and Insert change who waits for an INSERT.
LEMMA StepInserting ==
  ASSUME TypeInv, ControlInv, NEW t \in Tasks, Step(t), ~Insert(t)
  PROVE  \A k : Inserting(k)' <=> Inserting(k)
<1>1. t \in Procs /\ task[t] \in Job /\ Alone(t) /\ task[t].op # "boot"
  BY StepFacts
<1>2. ASSUME task[t].pc # "insert", task'[t].pc # "insert"
      PROVE  \A k : Inserting(k)' <=> Inserting(k)
  <2>1. Inserts(task[t]) = {} /\ Inserts(task'[t]) = {}
    BY <1>2 DEF Inserts
  <2>2. \A s \in Tasks \ {t} : task'[s] = task[s]
    BY <1>1 DEF Alone, Procs
  <2> QED BY <2>1, <2>2 DEF Inserting
<1>3. ASSUME NEW queue, task[t].pc # "insert", Quietly(t, queue)
      PROVE  \A k : Inserting(k)' <=> Inserting(k)
  BY <1>1, <1>2, <1>3, QuietKeys
<1>4. CASE \/ AddUserChainStep(t) \/ AddJumpsStep(t) \/ RelaySubnetsStep(t) \/ RefreshRule(t)
           \/ ReadRules(t) \/ ReadDevices(t) \/ ListChains(t) \/ NftBatch(t)
           \/ InterfaceRoutes(t) \/ RouteAdd(t) \/ RouteDel(t)
  <2>1. QuietlyAlone(t)
    BY <1>1, <1>4, PolicyQuietly, RoutesQuietly
  <2> QED BY <2>1, <1>3 DEF QuietlyAlone, KeyPCs
<1>5. CASE AddPeerStep(t) \/ RemovePeerStep(t)
  <2>1. task[t].pc # "insert"
    BY <1>5 DEF AddPeerStep, RemovePeerStep, At
  <2> QED BY <2>1, <1>1, <1>3, <1>5, AddPeerQuietly, RemovePeerQuietly
<1>6. CASE Cascade(t)
  <2>1. Quietly(t, task[t].queue) /\ task[t].pc # "insert"
    BY <1>1, <1>6, NextDeviceQuietly DEF Cascade, At
  <2> QED BY <2>1, <1>3
<1>7. CASE DeleteRow(t)
  BY <1>1, <1>2, <1>7, GotoContinues DEF DeleteRow, At
<1>8. CASE Finish(t) /\ task[t].pc # "insert"
  BY <1>1, <1>2, <1>8, FinishMine
<1>9. CASE Refresh(t)
  <2>1. ASSUME NEW r, Become(t, [task[t] EXCEPT !.pc = "add_peer", !.row = r])
        PROVE  task'[t].pc # "insert"
    <3> DEFINE j == [task[t] EXCEPT !.pc = "add_peer", !.row = r]
    <3>1. j.pc = "add_peer" /\ task'[t] = j BY <1>1, <2>1, BecomeMoves DEF Job
    <3> HIDE DEF j
    <3> QED BY <3>1
  <2> QED BY <2>1, <1>2, <1>8, <1>9 DEF Refresh, At
<1>10. CASE Save(t)
  <2>1. ASSUME Become(t, [task[t] EXCEPT !.pc = "refresh", !.want = {}])
        PROVE  task'[t].pc # "insert"
    <3> DEFINE j == [task[t] EXCEPT !.pc = "refresh", !.want = {}]
    <3>1. j.pc = "refresh" /\ task'[t] = j BY <1>1, <2>1, BecomeMoves DEF Job
    <3> HIDE DEF j
    <3> QED BY <3>1
  <2> QED BY <2>1, <1>2, <1>8, <1>10 DEF Save, At
<1>11. CASE AbandonCreate(t)
  BY <1>8, <1>11 DEF AbandonCreate, At
<1> QED
  BY <1>4, <1>5, <1>6, <1>7, <1>9, <1>10, <1>11 DEF Step, SharedStep


PlaneStep == [Plane!Next]_(Plane!planeVars)

LEMMA LiveKeysAre == \A k : k \in LiveKeys <=> Live(k)
BY DEF LiveKeys, Live

\* add_peer reaches a device that exists, or one that requests overlapped on.
LEMMA ConnectPlane ==
  ASSUME TypeInv, TypeInv', NEW k \in Devices, Live(k) \/ k \in contended,
         peers' = peers \cup {k}, UNCHANGED <<devices, born, contended>>,
         \A q : Inserting(q)' <=> Inserting(q)
  PROVE  PlaneStep
<1>1. UNCHANGED <<LiveKeys, Retired>>
  <2>1. /\ \A q : q \in LiveKeys <=> Live(q)
        /\ \A q : q \in LiveKeys' <=> Live(q)'
        /\ \A q : Live(q)' <=> Live(q)
    BY DEF LiveKeys, Live
  <2>2. RetiredMeans /\ RetiredMeans'
    BY RetiredKeys, PTL
  <2> QED BY <2>1, <2>2 DEF RetiredMeans
<1>2. Plane!Connect(k)
  BY <1>1, LiveKeysAre DEF Plane!Connect
<1> QED
  BY <1>2 DEF PlaneStep, Plane!Next

\* remove_peer reaches a key whose device is gone for good.
LEMMA DisconnectPlane ==
  ASSUME TypeInv, TypeInv', PeerInv, NEW k \in Devices, Known(k), ~Live(k),
         peers' = peers \ {k}, UNCHANGED <<devices, born, contended>>,
         \A q : Inserting(q)' <=> Inserting(q)
  PROVE  PlaneStep
<1>1. UNCHANGED <<LiveKeys, Retired>>
  <2>1. /\ \A q : q \in LiveKeys <=> Live(q)
        /\ \A q : q \in LiveKeys' <=> Live(q)'
        /\ \A q : Live(q)' <=> Live(q)
    BY DEF LiveKeys, Live
  <2>2. RetiredMeans /\ RetiredMeans'
    BY RetiredKeys, PTL
  <2> QED BY <2>1, <2>2 DEF RetiredMeans
<1>2. k \in Retired
  <2>1. k \in born /\ ~Inserting(k)
    BY DEF PeerInv, BornInv, Inserting
  <2> QED BY <2>1, RetiredKeys DEF RetiredMeans
<1>3. Plane!Disconnect(k)
  BY <1>1, <1>2 DEF Plane!Disconnect
<1> QED
  BY <1>3 DEF PlaneStep, Plane!Next

\* Rows go: their keys are retired.
LEMMA RetirePlane ==
  ASSUME TypeInv, TypeInv', PeerInv, UNCHANGED <<born, peers, contended>>,
         \A k : Inserting(k)' <=> Inserting(k), \A k : Live(k)' => Live(k)
  PROVE  PlaneStep
<1> DEFINE K == LiveKeys \ LiveKeys'
<1>1. /\ K \in SUBSET Devices /\ K \cap Retired = {}
      /\ LiveKeys' = LiveKeys \ K /\ Retired' = Retired \cup K
  BY PlaneShrinks
<1>2. Plane!Retire(K)
  <2> HIDE DEF K
  <2> QED BY <1>1 DEF Plane!Retire
<1> QED
  BY <1>1, <1>2 DEF PlaneStep, Plane!Next

LEMMA InsertPlane ==
  ASSUME TypeInv, TypeInv', ControlInv, PeerInv, NEW t \in Tasks, Insert(t)
  PROVE  PlaneStep
<1> DEFINE k == task[t].row.key
<1>1. t \in Procs /\ task[t] \in Job /\ Alone(t) /\ UNCHANGED <<phase, contended>>
  BY StepFacts DEF Step
<1>2. task[t].pc = "insert" /\ UNCHANGED <<born, peers>> /\ Inserts(task[t]) = {k}
  BY DEF Insert, InsertDevice, At, dbVars, wgVars, Inserts
<1>3. k \in Devices
  <2>1. task[t].row \in DeviceRow BY <1>1, <1>2, TaskType DEF Held, RowPCs
  <2> QED BY <2>1 DEF DeviceRow
<1>4. k \in born /\ ~Live(k) /\ \A s \in Tasks \ {t} : k \notin Inserts(task[s])
  BY <1>2 DEF PeerInv, BornInv, Known
<1>5. Inserts(task'[t]) = {}
  <2>1. task'[t].pc # "insert"
    BY <1>1, FinishMine, GotoContinues DEF Insert
  <2> QED BY <2>1 DEF Inserts
<1>6. \A q : Inserting(q)' <=> Inserting(q) /\ q # k
  <2>1. \A s \in Tasks \ {t} : task'[s] = task[s]
    BY <1>1 DEF Alone, Procs
  <2> QED BY <2>1, <1>2, <1>4, <1>5 DEF Inserting
<1>7. Inserting(k)
  BY <1>2 DEF Inserting
<1>8. RetiredMeans /\ RetiredMeans' /\ \A q : q \in LiveKeys' <=> Live(q)'
  <2>1. RetiredMeans /\ RetiredMeans'
    BY RetiredKeys, PTL
  <2> QED BY <2>1 DEF LiveKeys, Live
<1> HIDE DEF k
<1>9. CASE UNCHANGED dbVars
  <2>1. (\A q : Live(q)' <=> Live(q)) /\ UNCHANGED LiveKeys
    BY <1>9 DEF dbVars, Live, LiveKeys
  <2>2. Retired' = Retired \cup {k} /\ k \notin Retired
    BY <1>2, <1>4, <1>6, <1>7, <1>8, <2>1 DEF RetiredMeans
  <2>3. Plane!Retire({k})
    BY <1>1, <1>2, <1>4, <2>1, <2>2, LiveKeysAre DEF Plane!Retire
  <2> QED BY <1>3, <2>3 DEF PlaneStep, Plane!Next
<1>10. CASE InsertDevice(task[t].row)
  <2>1. \A q : Live(q)' <=> Live(q) \/ q = k
    BY <1>10 DEF InsertDevice, Live, k
  <2>2. LiveKeys' = LiveKeys \cup {k}
    BY <1>8, <2>1, LiveKeysAre
  <2>3. Retired' = Retired /\ k \notin Retired
    BY <1>2, <1>4, <1>6, <1>7, <1>8, <2>1 DEF RetiredMeans
  <2>4. Plane!Register(k)
    BY <1>1, <1>2, <1>4, <2>2, <2>3, LiveKeysAre DEF Plane!Register
  <2> QED BY <1>3, <2>4 DEF PlaneStep, Plane!Next
<1> QED
  BY <1>9, <1>10 DEF Insert

LEMMA AddPeerStepPlane ==
  ASSUME TypeInv, TypeInv', ControlInv, OrphanInv, NEW t \in Tasks, AddPeerStep(t)
  PROVE  PlaneStep
<1> DEFINE k == task[t].row.key
<1>1. t \in Procs /\ UNCHANGED <<devices, born, contended>> /\ task[t].pc = "add_peer"
  BY StepFacts DEF AddPeerStep, At, dbVars, Procs
<1>2. k \in Devices /\ Adds(task[t]) = {k}
  <2>1. task[t].row \in DeviceRow BY <1>1, TaskType DEF Held, RowPCs
  <2> QED BY <1>1, <2>1 DEF DeviceRow, Adds
<1>3. Live(k) \/ k \in contended
  BY <1>2 DEF OrphanInv, AddsInv
<1>4. \A q : Inserting(q)' <=> Inserting(q)
  <2>1. ~Insert(t) BY <1>1 DEF Insert, At
  <2> QED BY <2>1, StepInserting DEF Step
<1>5. CASE peers' = peers \cup {k}
  BY <1>1, <1>2, <1>3, <1>4, <1>5, ConnectPlane
<1>6. CASE UNCHANGED peers
  BY <1>1, <1>4, <1>6, PlaneStill DEF Live, PlaneStep
<1> QED
  BY <1>5, <1>6 DEF AddPeerStep, AddPeer, wgVars

LEMMA RemovePeerStepPlane ==
  ASSUME TypeInv, TypeInv', ControlInv, PeerInv, NEW t \in Tasks, RemovePeerStep(t)
  PROVE  PlaneStep
<1> DEFINE k == task[t].row.key
<1>1. t \in Procs /\ UNCHANGED <<devices, born, contended>> /\ task[t].pc = "remove_peer"
  BY StepFacts DEF RemovePeerStep, At, dbVars, Procs
<1>2. k \in Devices /\ k \in Removes(task[t])
  <2>1. task[t].row \in DeviceRow BY <1>1, TaskType DEF Held, RowPCs
  <2> QED BY <1>1, <2>1 DEF DeviceRow, Removes
<1>3. Known(k) /\ ~Live(k)
  BY <1>2 DEF PeerInv, RemovesInv, Known, Knows
<1>4. \A q : Inserting(q)' <=> Inserting(q)
  <2>1. ~Insert(t) BY <1>1 DEF Insert, At
  <2> QED BY <2>1, StepInserting DEF Step
<1>5. CASE peers' = peers \ {k}
  BY <1>1, <1>2, <1>3, <1>4, <1>5, DisconnectPlane
<1>6. CASE UNCHANGED peers
  BY <1>1, <1>4, <1>6, PlaneStill DEF Live, PlaneStep
<1> QED
  BY <1>5, <1>6 DEF RemovePeerStep, RemovePeer, wgVars

LEMMA StepPlane ==
  ASSUME TypeInv, TypeInv', ControlInv, PeerInv, OrphanInv, NEW t \in Tasks, Step(t)
  PROVE  PlaneStep
<1>1. CASE Insert(t)
  BY <1>1, InsertPlane
<1>2. CASE AddPeerStep(t)
  BY <1>2, AddPeerStepPlane
<1>3. CASE RemovePeerStep(t)
  BY <1>3, RemovePeerStepPlane
<1>4. CASE ~Insert(t) /\ ~AddPeerStep(t) /\ ~RemovePeerStep(t)
  <2>1. UNCHANGED contended /\ \A k : Inserting(k)' <=> Inserting(k)
    BY <1>4, StepFacts, StepInserting
  <2>2. UNCHANGED <<born, peers>>
    BY <1>4
    DEF Step, SharedStep, Refresh, Save, UpdateNets, DeleteRow, DeleteDevice, Cascade,
        DeleteUser, RefreshRule, AbandonCreate, AddUserChainStep, AddJumpsStep,
        RelaySubnetsStep, ReadRules, ReadDevices, InterfaceRoutes, RouteAdd, RouteDel,
        AddRoute, RemoveRoute, ListChains, NftBatch, dbVars, wgVars
  <2>3. \A k : Live(k)' => Live(k)
    <3>1. CASE Save(t)
      BY <3>1, SaveLive
    <3>2. CASE DeleteRow(t) \/ Cascade(t)
      BY <3>2 DEF DeleteRow, DeleteDevice, Cascade, DeleteUser, Live
    <3>3. CASE ~Save(t) /\ ~DeleteRow(t) /\ ~Cascade(t)
      <4>1. UNCHANGED devices
        BY <1>4, <3>3
        DEF Step, SharedStep, Refresh, RefreshRule, AbandonCreate, AddUserChainStep,
            AddJumpsStep, RelaySubnetsStep, ReadRules, ReadDevices, InterfaceRoutes,
            RouteAdd, RouteDel, ListChains, NftBatch, dbVars
      <4> QED BY <4>1 DEF Live
    <3> QED BY <3>1, <3>2, <3>3
  <2> QED BY <2>1, <2>2, <2>3, RetirePlane
<1> QED
  BY <1>1, <1>2, <1>3, <1>4

\* Requests begin: they overlap on some keys, and a key generated for an INSERT is
\* no device's yet.
LEMMA OverlapPlane ==
  ASSUME TypeInv, TypeInv', UNCHANGED <<devices, peers>>,
         \A k \in contended : k \in contended',
         \A k : k \in born' /\ ~Inserting(k)' <=> k \in born /\ ~Inserting(k)
  PROVE  PlaneStep
<1> DEFINE K == contended' \ contended
<1>1. K \in SUBSET Devices /\ contended' = contended \cup K
  BY DEF TypeInv, TypeOK, TaskTypeOK
<1>2. UNCHANGED <<LiveKeys, Retired>>
  <2>1. RetiredMeans /\ RetiredMeans'
    BY RetiredKeys, PTL
  <2>2. \A k : Live(k)' <=> Live(k)
    BY DEF Live
  <2> QED BY <2>1, <2>2 DEF RetiredMeans, LiveKeys
<1> HIDE DEF K
<1>3. Plane!Overlap(K)
  BY <1>1, <1>2 DEF Plane!Overlap
<1> QED
  BY <1>1, <1>3 DEF PlaneStep, Plane!Next

\* An idle task begins with job j.
LEMMA BeginPlane ==
  ASSUME TypeInv, TypeInv', NEW t \in Tasks, At(t, "idle"), NEW j, Become(t, j),
         j.pc # "insert", UNCHANGED <<devices, born, peers>>,
         \A k \in contended : k \in contended'
  PROVE  PlaneStep
<1>1. t \in Procs /\ task'[t] = j /\ Alone(t)
  BY BecomeMoves DEF Procs
<1>2. \A s \in Tasks \ {t} : task'[s] = task[s]
  BY <1>1 DEF Alone, Procs
<1>3. Inserts(task[t]) = {} /\ Inserts(task'[t]) = {}
  BY <1>1 DEF Inserts, At
<1>4. \A k : Inserting(k)' <=> Inserting(k)
  BY <1>2, <1>3 DEF Inserting
<1> QED
  BY <1>4, OverlapPlane

LEMMA StartCreatePlane ==
  ASSUME TypeInv, TypeInv', PeerInv, NEW t \in Tasks, StartCreate(t)
  PROVE  PlaneStep
<1> DEFINE row(k, u, a, n) == [key |-> k, owner |-> u, ip |-> a, nets |-> n]
           j(r) == [Idle EXCEPT !.pc = "insert", !.op = "create", !.row = r]
<1>1. PICK k, r : /\ k \in Devices \ born
                  /\ r.key = k
                  /\ Become(t, j(r))
                  /\ born' = born \cup {k}
                  /\ contended' \in {contended, contended \cup {k}}
  <2>1. PICK k \in Devices \ born, u \in users, a \in Addresses \ UsedIps, n \in SUBSET Subnets :
          /\ Become(t, j(row(k, u, a, n)))
          /\ born' = born \cup {k}
          /\ contended' \in {contended, contended \cup {k}}
    BY DEF StartCreate
  <2>2. row(k, u, a, n).key = k
    OBVIOUS
  <2> HIDE DEF row, j
  <2> QED BY <2>1, <2>2
<1>2. j(r).pc = "insert" /\ j(r).row = r
  BY DEF Idle
<1>3. At(t, "idle") /\ UNCHANGED <<devices, peers>>
  BY DEF StartCreate, CanStart, wgVars
<1> HIDE DEF j
<1>4. task'[t] = j(r) /\ \A s \in Tasks \ {t} : task'[s] = task[s]
  BY <1>1, BecomeMoves DEF Alone, Procs
<1>5. Inserts(task[t]) = {} /\ Inserts(task'[t]) = {k}
  BY <1>1, <1>2, <1>3, <1>4 DEF Inserts, At
<1>6. \A q : Inserting(q)' <=> Inserting(q) \/ q = k
  BY <1>4, <1>5 DEF Inserting
<1> QED
  BY <1>1, <1>3, <1>6, OverlapPlane

LEMMA StartPlane ==
  ASSUME TypeInv, TypeInv', PeerInv, NEW t \in Tasks, Start(t)
  PROVE  PlaneStep
<1>1. CASE StartCreate(t)
  BY <1>1, StartCreatePlane
<1>2. CASE StartUpdate(t)
  <2> DEFINE j(r, n) == [Idle EXCEPT !.pc = "save", !.op = "update", !.row = r, !.want = n]
  <2>1. PICK r \in devices, n \in SUBSET Subnets : Become(t, j(r, n)) /\ Contends({r.key})
    BY <1>2 DEF StartUpdate
  <2>2. j(r, n).pc # "insert"
    BY DEF Idle
  <2>3. At(t, "idle") /\ UNCHANGED <<devices, born, peers>>
    BY <1>2 DEF StartUpdate, CanStart, dbVars, wgVars
  <2> HIDE DEF j
  <2> QED BY <2>1, <2>2, <2>3, ContendsOrphans, BeginPlane
<1>3. CASE StartDelete(t)
  <2> DEFINE j(r) == [Idle EXCEPT !.pc = "delete_row", !.op = "delete", !.row = r]
  <2>1. PICK r \in devices : Become(t, j(r)) /\ Contends({r.key})
    BY <1>3 DEF StartDelete
  <2>2. j(r).pc # "insert"
    BY DEF Idle
  <2>3. At(t, "idle") /\ UNCHANGED <<devices, born, peers>>
    BY <1>3 DEF StartDelete, CanStart, dbVars, wgVars
  <2> HIDE DEF j
  <2> QED BY <2>1, <2>2, <2>3, ContendsOrphans, BeginPlane
<1>4. CASE StartDeleteUser(t)
  <2> DEFINE j(u) == [Idle EXCEPT !.pc = "cascade", !.op = "delete_user", !.user = u,
                        !.queue = RowsOf(u)]
  <2>1. PICK u, K : Become(t, j(u)) /\ Contends(K)
    BY <1>4 DEF StartDeleteUser
  <2>2. j(u).pc # "insert"
    BY DEF Idle
  <2>3. At(t, "idle") /\ UNCHANGED <<devices, born, peers>>
    BY <1>4 DEF StartDeleteUser, CanStart, dbVars, wgVars
  <2> HIDE DEF j
  <2> QED BY <2>1, <2>2, <2>3, ContendsOrphans, BeginPlane
<1>5. CASE CreateRule(t) \/ UpdateRuleFromPage(t) \/ DeleteRuleRow(t) \/ ReorderRules(t)
  <2>1. CASE UNCHANGED task
    BY <1>5, <2>1, RuleBegins, OverlapPlane DEF Inserting
  <2>2. ASSUME NEW j, Become(t, j), j.pc \notin KeyPCs
        PROVE  PlaneStep
    BY <1>5, <2>2, RuleBegins, BeginPlane DEF KeyPCs
  <2> QED BY <1>5, <2>1, <2>2, RuleBegins
<1> QED
  BY <1>1, <1>2, <1>3, <1>4, <1>5 DEF Start

\* Startup has no key of its own that waits for an INSERT.
LEMMA BootInserting ==
  ASSUME Alone(Boot)
  PROVE  \A k : Inserting(k)' <=> Inserting(k)
<1>1. \A t \in Tasks : task'[t] = task[t]
  BY EventBridgeAssumption DEF Alone, Procs
<1> QED
  BY <1>1 DEF Inserting

LEMMA BootQuietPlane ==
  ASSUME TypeInv, TypeInv', Alone(Boot), UNCHANGED <<devices, born, peers, contended>>
  PROVE  PlaneStep
BY BootInserting, PlaneStill DEF PlaneStep, Live

LEMMA BootPlane ==
  ASSUME TypeInv, TypeInv', ControlInv, PeerInv, OrphanInv, BootStep
  PROVE  PlaneStep
<1>1. CASE GetPeers \/ ReadAllDevices \/ ReadAllRules
  <2>1. Alone(Boot)
    BY <1>1, BootType, BecomeMoves DEF GetPeers, ReadAllDevices, ReadAllRules, Goto
  <2>2. UNCHANGED <<devices, born, peers, contended>>
    BY <1>1 DEF GetPeers, ReadAllDevices, ReadAllRules, dbVars, wgVars, ghosts
  <2> QED BY <2>1, <2>2, BootQuietPlane
<1>2. CASE AddMissingPeer
  <2>1. task[Boot] \in Job /\ Alone(Boot)
    BY <1>2, BootAt, BootType, BecomeMoves DEF AddMissingPeer, At, Goto
  <2>2. UNCHANGED <<devices, born, contended>>
    BY <1>2 DEF AddMissingPeer, dbVars
  <2>3. CASE UNCHANGED peers
    BY <2>1, <2>2, <2>3, BootQuietPlane
  <2>4. ASSUME NEW r \in task[Boot].queue, AddPeer(r.key, AllowedIps(r))
        PROVE  PlaneStep
    <3>1. r.key \in Devices
      BY <2>1 DEF Job, DeviceRow
    <3>2. Live(r.key) \/ r.key \in contended
      BY DEF OrphanInv, MissingInv, Missing, KeysOf
    <3>3. peers' = peers \cup {r.key}
      BY <2>4 DEF AddPeer
    <3> QED BY <2>1, <2>2, <3>1, <3>2, <3>3, BootInserting, ConnectPlane
  <2> QED BY <1>2, <2>3, <2>4 DEF AddMissingPeer, wgVars
<1>3. CASE RemoveOrphanPeer
  <2>1. task[Boot] \in Job /\ Alone(Boot) /\ ~BeforeRead
    BY <1>3, BootAt, BootType, BecomeMoves DEF RemoveOrphanPeer, At, Goto, BeforeRead
  <2>2. UNCHANGED <<devices, born, contended>>
    BY <1>3 DEF RemoveOrphanPeer, dbVars
  <2>3. CASE UNCHANGED peers
    BY <2>1, <2>2, <2>3, BootQuietPlane
  <2>4. ASSUME NEW k \in task[Boot].gone, RemovePeer(k)
        PROVE  PlaneStep
    <3>1. k \in Devices
      BY <2>1 DEF Job
    <3>2. Known(k) /\ ~Live(k)
      BY <2>1 DEF Known, Gone, PeerInv, RemovesInv
    <3>3. peers' = peers \ {k}
      BY <2>4 DEF RemovePeer
    <3> QED BY <2>1, <2>2, <3>1, <3>2, <3>3, BootInserting, DisconnectPlane
  <2> QED BY <1>3, <2>3, <2>4 DEF RemoveOrphanPeer, wgVars
<1>4. CASE SharedStep(Boot)
  <2>1. UNCHANGED contended
    BY <1>4, BootType, StepContended DEF Step
  <2> QED BY <1>4, <2>1, BootSharedQuietly, BootQuietPlane
<1> QED
  BY <1>1, <1>2, <1>3, <1>4 DEF BootStep

\* The keys that wait for their INSERT will never be a device's.
LEMMA CrashPlane ==
  ASSUME TypeInv, TypeInv', PeerInv, Crash
  PROVE  PlaneStep
<1> DEFINE K == {k \in Devices : Inserting(k)}
<1>1. UNCHANGED <<devices, born, contended>> /\ peers' \in {peers, {}}
  BY DEF Crash, dbVars, wgVars, ghosts
<1>2. \A k : ~Inserting(k)'
  <2>1. \A t \in Tasks : task'[t].pc = "idle"
    BY DEF Crash, Procs, Idle
  <2> QED BY <2>1 DEF Inserting, Inserts
<1>3. \A k : Live(k)' <=> Live(k)
  BY <1>1 DEF Live
<1>4. \A k : Inserting(k) => k \in born /\ ~Live(k)
  BY DEF Inserting, PeerInv, BornInv, Known
<1>5. RetiredMeans /\ RetiredMeans'
  BY RetiredKeys, PTL
<1>6. born \subseteq Devices
  BY DEF TypeInv, TypeOK, DbTypeOK
<1>7. /\ K \cap (LiveKeys \cup Retired) = {}
      /\ Retired' = Retired \cup K /\ UNCHANGED LiveKeys
  <2>1. UNCHANGED LiveKeys
    BY <1>1 DEF LiveKeys
  <2>2. \A k : k \in Retired' <=> k \in Retired \/ k \in K
    BY <1>1, <1>2, <1>3, <1>4, <1>5, <1>6 DEF RetiredMeans
  <2>3. \A k \in K : k \notin LiveKeys /\ k \notin Retired
    BY <1>4, <1>5, LiveKeysAre DEF RetiredMeans
  <2> QED BY <2>1, <2>2, <2>3
<1> HIDE DEF K
<1>8. Plane!Die(K)
  BY <1>1, <1>7 DEF Plane!Die
<1>9. K \in SUBSET Devices
  BY DEF K
<1> QED
  BY <1>8, <1>9 DEF PlaneStep, Plane!Next

LEMMA StartupFailsPlane ==
  ASSUME TypeInv, TypeInv', StartupFails
  PROVE  PlaneStep
<1>1. UNCHANGED <<devices, born, peers, task>> /\ contended' = {}
  BY DEF StartupFails, ConfigureInterface, dbVars, wgVars
<1>2. UNCHANGED <<LiveKeys, Retired>>
  BY <1>1 DEF LiveKeys, Retired, At
<1>3. Plane!Start
  BY <1>1, <1>2 DEF Plane!Start
<1> QED
  BY <1>3 DEF PlaneStep, Plane!Next

LEMMA RestartPlane ==
  ASSUME TypeInv, TypeInv', Restart
  PROVE  PlaneStep
<1>1. UNCHANGED <<devices, born, peers>> /\ contended' = {}
  BY DEF Restart, ConfigureInterface, dbVars
<1>2. Alone(Boot)
  BY BootType, BecomeMoves DEF Restart, Become
<1>3. UNCHANGED <<LiveKeys, Retired>>
  <2>1. RetiredMeans /\ RetiredMeans'
    BY RetiredKeys, PTL
  <2>2. \A k : Live(k)' <=> Live(k)
    BY <1>1 DEF Live
  <2> QED BY <1>1, <1>2, <2>1, <2>2, BootInserting DEF RetiredMeans, LiveKeys
<1>4. Plane!Start
  BY <1>1, <1>3 DEF Plane!Start
<1> QED
  BY <1>4 DEF PlaneStep, Plane!Next

LEMMA PlaneInit == Init => Plane!Init
BY DEF Init, DbInit, Plane!Init, LiveKeys, Retired

LEMMA PlaneNext ==
  ASSUME TypeInv, TypeInv', ControlInv, PeerInv, OrphanInv, [Next]_allVars
  PROVE  PlaneStep
<1>1. ASSUME NEW t \in Tasks, Start(t) PROVE PlaneStep
  BY <1>1, StartPlane
<1>2. CASE UpdateRuleFromApi \/ UNCHANGED allVars
  <2>1. UNCHANGED <<devices, born, peers, contended, task>>
    BY <1>2
    DEF UpdateRuleFromApi, UpdateRule, allVars, vars, dbVars, wgVars, taskVars, ghosts
  <2> QED BY <2>1, PlaneStill DEF PlaneStep, Inserting, Live
<1>3. ASSUME NEW t \in Tasks, Step(t) PROVE PlaneStep
  BY <1>3, StepPlane
<1>4. CASE Crash
  BY <1>4, CrashPlane
<1>5. CASE Restart
  BY <1>5, RestartPlane
<1>6. CASE BootStep
  BY <1>6, BootPlane
<1>7. CASE StartupFails
  BY <1>7, StartupFailsPlane
<1> QED
  BY <1>1, <1>2, <1>3, <1>4, <1>5, <1>6, <1>7 DEF Next, TaskStep

\* Whatever handlers, reconciliation and crashes overlap, the data plane keeps the
\* promise of DataPlane: a key registers once and is retired for good; remove_peer
\* reaches only keys whose device is gone; and add_peer reaches a key whose device
\* is gone only when requests for that device overlapped (on_device_created,
\* on_device_deleted, delete_user_and_cleanup, reconcile).
THEOREM DataPlaneImplemented == Spec => ImplementsDataPlane
<1>1. TypeInv /\ ControlInv /\ PeerInv /\ OrphanInv /\ [Next]_allVars /\ TypeInv'
        => PlaneStep
  BY PlaneNext
<1> QED
  BY <1>1, TypeInit, TypeNext, ControlInit, ControlNext, PeerInit, PeerNext, OrphanInit,
     OrphanNext, PlaneInit, PTL
  DEF Spec, ImplementsDataPlane, Plane!Spec, PlaneStep

-----------------------------------------------------------------------------
(* Addresses                                                                *)
(*                                                                          *)
(* As long as the process was not restarted and no requests overlapped on a *)
(* device, add_peer is called with the address that the row in the table    *)
(* has, and that address is no other device's.                              *)

\* One address per device, one device per address (the column is unique).
IpInv == \A p, q \in devices : p.ip = q.ip <=> p.key = q.key

\* A row about to be added has the address of the row in the table.
HeldInv == \A t \in Tasks : At(t, "add_peer") =>
             \A q \in devices : q.key = task[t].row.key => q.ip = task[t].row.ip

\* A device is created before the first startup is over only under contention.
FirstInv ==
  crashes = 0 /\ (phase = "down" \/ (phase = "startup" /\ contended = {})) => devices = {}

CarrierInv ==
  crashes = 0 /\ contended = {} =>
    \A r \in devices : r.key \in peers =>
      r.key \in faulted \/ Added(r.key) \/ carrier[r.ip] = r.key

AddressInv == IpInv /\ HeldInv /\ FirstInv /\ CarrierInv

\* No device appears, and none changes its address.
Stays == \A q \in devices' : \E p \in devices : p.key = q.key /\ p.ip = q.ip

\* A step of a task that neither inserts a row nor touches a peer.
LEMMA AddressEffect ==
  ASSUME TypeInv, AddressInv, NEW t \in Tasks, Alone(t), Stays,
         UNCHANGED <<phase, crashes, peers, carrier>>,
         \A k \in contended : k \in contended',
         \A k \in Devices : k \in faulted => k \in faulted',
         \A k \in Adds(task[t]) : k \in Adds(task'[t]) \/ ~Live(k)' \/ k \in faulted',
         task'[t].pc = "add_peer" =>
           \A q \in devices' : q.key = task'[t].row.key => q.ip = task'[t].row.ip
  PROVE  AddressInv'
<1>1. \A s \in Tasks \ {t} : task'[s] = task[s]
  BY DEF Alone, Procs
<1>2. IpInv'
  BY DEF AddressInv, IpInv, Stays
<1>3. HeldInv'
  BY <1>1 DEF AddressInv, HeldInv, Stays, At
<1>4. FirstInv'
  BY DEF AddressInv, FirstInv, Stays
<1>5. CarrierInv'
  <2> SUFFICES ASSUME crashes = 0, contended = {}, NEW q \in devices', q.key \in peers
               PROVE  q.key \in faulted' \/ Added(q.key)' \/ carrier[q.ip] = q.key
    BY DEF CarrierInv
  <2>1. PICK p \in devices : p.key = q.key /\ p.ip = q.ip
    BY DEF Stays
  <2>2. q.key \in faulted \/ Added(q.key) \/ carrier[q.ip] = q.key
    BY <2>1 DEF AddressInv, CarrierInv
  <2>3. q.key \in Devices /\ Live(q.key)'
    BY <2>1 DEF TypeInv, TypeOK, DbTypeOK, DeviceRow, Live
  <2>4. Added(q.key) => Added(q.key)' \/ q.key \in faulted'
    BY <1>1, <2>3 DEF Added
  <2> QED BY <2>2, <2>3, <2>4
<1> QED
  BY <1>2, <1>3, <1>4, <1>5 DEF AddressInv

\* An idle task begins, or a step leaves keys and rows alone.
LEMMA BeginAddress ==
  ASSUME TypeInv, AddressInv, NEW t \in Tasks, At(t, "idle"), NEW j, Become(t, j),
         j.pc # "add_peer", UNCHANGED <<phase, crashes, devices, peers, carrier, faulted>>,
         \A k \in contended : k \in contended'
  PROVE  AddressInv'
<1>1. t \in Procs /\ task'[t] = j /\ Alone(t)
  BY BecomeMoves DEF Procs
<1>2. Adds(task[t]) = {} /\ Stays
  BY DEF Adds, At, Stays
<1> QED
  BY <1>1, <1>2, AddressEffect

LEMMA QuietAddress ==
  ASSUME TypeInv, AddressInv, NEW t \in Tasks, QuietlyAlone(t),
         UNCHANGED <<crashes, carrier, contended>>
  PROVE  AddressInv'
<1>1. Adds(task[t]) = {} /\ task'[t].pc # "add_peer" /\ Stays
  BY DEF QuietlyAlone, Quietly, Adds, KeyPCs, Stays
<1> QED
  BY <1>1, AddressEffect DEF QuietlyAlone

LEMMA SameAddress ==
  AddressInv /\ UNCHANGED <<task, phase, crashes, devices, peers, carrier, faulted, contended>>
    => AddressInv'
BY DEF AddressInv, IpInv, HeldInv, FirstInv, CarrierInv, Added, At

LEMMA StartAddress ==
  ASSUME TypeInv, AddressInv, NEW t \in Tasks, Start(t), UNCHANGED crashes
  PROVE  AddressInv'
<1>1. CASE StartCreate(t)
  <2> DEFINE j(r) == [Idle EXCEPT !.pc = "insert", !.op = "create", !.row = r]
  <2>1. (\E r : Become(t, j(r))) /\ \A k \in contended : k \in contended'
    BY <1>1 DEF StartCreate
  <2>2. \A r : j(r).pc # "add_peer"
    BY DEF Idle
  <2>3. At(t, "idle") /\ UNCHANGED <<phase, devices, peers, carrier, faulted>>
    BY <1>1 DEF StartCreate, CanStart, wgVars
  <2> HIDE DEF j
  <2> QED BY <2>1, <2>2, <2>3, BeginAddress
<1>2. CASE StartUpdate(t)
  <2> DEFINE j(r, n) == [Idle EXCEPT !.pc = "save", !.op = "update", !.row = r, !.want = n]
  <2>1. PICK r, n : Become(t, j(r, n)) /\ Contends({r.key})
    BY <1>2 DEF StartUpdate
  <2>2. j(r, n).pc # "add_peer"
    BY DEF Idle
  <2>3. At(t, "idle") /\ UNCHANGED <<phase, devices, peers, carrier, faulted>>
    BY <1>2 DEF StartUpdate, CanStart, dbVars, wgVars
  <2> HIDE DEF j
  <2> QED BY <2>1, <2>2, <2>3, ContendsOrphans, BeginAddress
<1>3. CASE StartDelete(t)
  <2> DEFINE j(r) == [Idle EXCEPT !.pc = "delete_row", !.op = "delete", !.row = r]
  <2>1. PICK r : Become(t, j(r)) /\ Contends({r.key})
    BY <1>3 DEF StartDelete
  <2>2. j(r).pc # "add_peer"
    BY DEF Idle
  <2>3. At(t, "idle") /\ UNCHANGED <<phase, devices, peers, carrier, faulted>>
    BY <1>3 DEF StartDelete, CanStart, dbVars, wgVars
  <2> HIDE DEF j
  <2> QED BY <2>1, <2>2, <2>3, ContendsOrphans, BeginAddress
<1>4. CASE StartDeleteUser(t)
  <2> DEFINE j(u) == [Idle EXCEPT !.pc = "cascade", !.op = "delete_user", !.user = u,
                        !.queue = RowsOf(u)]
  <2>1. PICK u, K : Become(t, j(u)) /\ Contends(K)
    BY <1>4 DEF StartDeleteUser
  <2>2. j(u).pc # "add_peer"
    BY DEF Idle
  <2>3. At(t, "idle") /\ UNCHANGED <<phase, devices, peers, carrier, faulted>>
    BY <1>4 DEF StartDeleteUser, CanStart, dbVars, wgVars
  <2> HIDE DEF j
  <2> QED BY <2>1, <2>2, <2>3, ContendsOrphans, BeginAddress
<1>5. CASE CreateRule(t) \/ UpdateRuleFromPage(t) \/ DeleteRuleRow(t) \/ ReorderRules(t)
  <2>1. UNCHANGED carrier
    BY <1>5 DEF CreateRule, UpdateRuleFromPage, DeleteRuleRow, ReorderRules, wgVars
  <2>2. CASE UNCHANGED task
    BY <1>5, <2>1, <2>2, RuleBegins, SameAddress
  <2>3. ASSUME NEW j, Become(t, j), j.pc \notin KeyPCs
        PROVE  AddressInv'
    BY <1>5, <2>1, <2>3, RuleBegins, BeginAddress DEF KeyPCs
  <2> QED BY <1>5, <2>2, <2>3, RuleBegins
<1> QED
  BY <1>1, <1>2, <1>3, <1>4, <1>5 DEF Start

\* The address of a new device is free and its key is new to everybody.
LEMMA InsertAddress ==
  ASSUME TypeInv, ControlInv, PeerInv, OrphanInv, AddressInv, NEW t \in Tasks, Insert(t),
         UNCHANGED crashes
  PROVE  AddressInv'
<1> DEFINE row == task[t].row
<1>1. t \in Procs /\ Alone(t) /\ UNCHANGED <<phase, contended>>
  BY StepFacts DEF Step
<1>2. /\ task[t].pc = "insert" /\ UNCHANGED <<peers, carrier, faulted>>
      /\ Adds(task[t]) = {} /\ row.key \in Inserts(task[t]) /\ row.key \in Mine(task[t])
  BY DEF Insert, At, wgVars, ghosts, Adds, Inserts, Mine
<1>3. ~Known(row.key)
  BY <1>2 DEF PeerInv, BornInv
<1>4. CASE Finish(t) /\ UNCHANGED dbVars
  <2>1. task'[t].pc # "add_peer" /\ Stays
    BY <1>1, <1>4, FinishMine DEF dbVars, Stays
  <2> QED BY <1>1, <1>2, <2>1, AddressEffect
<1>5. CASE CanInsertDevice(row) /\ InsertDevice(row) /\ Goto(t, "refresh")
  <2>1. /\ task'[t].pc = "refresh" /\ task'[t].row = row
        /\ \A s \in Tasks \ {t} : task'[s] = task[s]
    BY <1>1, <1>5, GotoContinues DEF Alone, Procs
  <2>2. /\ \A q \in devices' : q \in devices \/ q = row
        /\ \A q \in devices : q.ip # row.ip /\ q.key # row.key
    BY <1>3, <1>5 DEF InsertDevice, CanInsertDevice, UsedIps, Known, Live
  <2>3. IpInv'
    BY <2>2 DEF AddressInv, IpInv
  <2>4. HeldInv'
    <3> SUFFICES ASSUME NEW s \in Tasks \ {t}, task[s].pc = "add_peer",
                        NEW q \in devices', q.key = task[s].row.key
                 PROVE  q.ip = task[s].row.ip
      BY <2>1 DEF HeldInv, At
    <3>1. q # row
      BY <1>3 DEF Known, Knows, Adds
    <3> QED BY <2>2, <3>1 DEF AddressInv, HeldInv, At
  <2>5. FirstInv'
    <3>1. phase # "down"
      BY <1>2 DEF ControlInv, Down, At
    <3>2. phase = "startup" => contended # {}
      BY <1>2 DEF OrphanInv, StartupInv
    <3> QED BY <1>1, <3>1, <3>2 DEF FirstInv
  <2>6. CarrierInv'
    <3>1. \A k : Added(k) => Added(k)'
      BY <1>2, <2>1 DEF Added
    <3>2. row.key \notin peers
      BY <1>3 DEF Known
    <3> QED BY <1>1, <1>2, <2>2, <3>1, <3>2 DEF AddressInv, CarrierInv
  <2> QED BY <2>3, <2>4, <2>5, <2>6 DEF AddressInv
<1> QED
  BY <1>4, <1>5 DEF Insert

\* wg set peer gives the device its own address and takes no other device's.
LEMMA AddPeerStepAddress ==
  ASSUME TypeInv, ControlInv, OrphanInv, AddressInv, NEW t \in Tasks, AddPeerStep(t),
         UNCHANGED crashes
  PROVE  AddressInv'
<1> DEFINE row == task[t].row
<1>1. t \in Procs /\ Alone(t) /\ UNCHANGED <<phase, contended>>
  BY StepFacts DEF Step
<1>2. /\ task[t].pc = "add_peer" /\ UNCHANGED devices /\ Adds(task[t]) = {row.key}
      /\ Stays
  BY DEF AddPeerStep, At, dbVars, Adds, Stays
<1>3. task'[t].pc # "add_peer" /\ row \in DeviceRow
  BY <1>1, <1>2, AddPeerQuietly, TaskType DEF KeyPCs, Held, RowPCs
<1>4. \A s \in Tasks \ {t} : task'[s] = task[s]
  BY <1>1 DEF Alone, Procs
<1>5. IpInv' /\ HeldInv' /\ FirstInv'
  BY <1>1, <1>2, <1>3, <1>4 DEF AddressInv, IpInv, HeldInv, FirstInv, At
<1>6. CarrierInv'
  <2> SUFFICES ASSUME crashes = 0, contended = {}, NEW r \in devices, r.key \in peers'
               PROVE  r.key \in faulted' \/ Added(r.key)' \/ carrier'[r.ip] = r.key
    BY <1>1, <1>2 DEF CarrierInv
  <2>1. r \in DeviceRow /\ carrier \in [Carried -> Devices \cup {Nobody}]
    BY DEF TypeInv, TypeOK, DbTypeOK, WgTypeOK
  <2>2. r.ip \in Carried /\ r.ip \notin row.nets
    BY <1>3, <2>1, DatabaseAssumption DEF DeviceRow, Carried
  <2>3. r.key = row.key <=> r.ip = row.ip
    <3>1. Live(row.key)
      BY <1>2 DEF OrphanInv, AddsInv
    <3>2. PICK p \in devices : p.key = row.key /\ p.ip = row.ip
      BY <1>2, <3>1 DEF Live, AddressInv, HeldInv, At
    <3> QED BY <3>2 DEF AddressInv, IpInv
  <2>4. r.key # row.key =>
          /\ r.key \in peers /\ (r.key \in faulted => r.key \in faulted')
          /\ Added(r.key) => Added(r.key)'
    BY <1>2, <1>4 DEF AddPeerStep, AddPeer, wgVars, Succeeds, Fails, Added
  <2>5. CASE AddPeer(row.key, AllowedIps(row))
    <3>1. r.key = row.key => carrier'[r.ip] = r.key
      BY <2>2, <2>3, <2>5 DEF AddPeer, AllowedIps
    <3>2. r.key # row.key /\ carrier[r.ip] = r.key => carrier'[r.ip] = r.key
      BY <2>2, <2>3, <2>5 DEF AddPeer, AllowedIps
    <3> QED BY <2>4, <3>1, <3>2 DEF AddressInv, CarrierInv
  <2>6. CASE UNCHANGED wgVars /\ Fails({row.key})
    BY <2>4, <2>6 DEF AddressInv, CarrierInv, wgVars, Fails
  <2> QED BY <2>5, <2>6 DEF AddPeerStep
<1> QED
  BY <1>5, <1>6 DEF AddressInv

\* wg set peer remove takes only what a device that is gone carried.
LEMMA RemovePeerStepAddress ==
  ASSUME TypeInv, ControlInv, PeerInv, AddressInv, NEW t \in Tasks, RemovePeerStep(t),
         UNCHANGED crashes
  PROVE  AddressInv'
<1> DEFINE k == task[t].row.key
<1>1. t \in Procs /\ Alone(t) /\ UNCHANGED <<phase, contended>>
  BY StepFacts DEF Step
<1>2. task[t].pc = "remove_peer" /\ UNCHANGED devices /\ Adds(task[t]) = {}
  BY DEF RemovePeerStep, At, dbVars, Adds
<1>3. task'[t].pc # "add_peer"
  BY <1>1, RemovePeerQuietly DEF Quietly, KeyPCs
<1>4. \A s \in Tasks \ {t} : task'[s] = task[s]
  BY <1>1 DEF Alone, Procs
<1>5. IpInv' /\ HeldInv' /\ FirstInv'
  BY <1>1, <1>2, <1>3, <1>4 DEF AddressInv, IpInv, HeldInv, FirstInv, At
<1>6. CarrierInv'
  <2> SUFFICES ASSUME crashes = 0, contended = {}, NEW r \in devices, r.key \in peers'
               PROVE  r.key \in faulted' \/ Added(r.key)' \/ carrier'[r.ip] = r.key
    BY <1>1, <1>2 DEF CarrierInv
  <2>1. r \in DeviceRow /\ carrier \in [Carried -> Devices \cup {Nobody}]
    BY DEF TypeInv, TypeOK, DbTypeOK, WgTypeOK
  <2>2. r.ip \in Carried
    BY <2>1 DEF DeviceRow, Carried
  <2>3. r.key # k
    <3>1. k \in Removes(task[t]) BY <1>2 DEF Removes
    <3> QED BY <3>1 DEF PeerInv, RemovesInv, Live
  <2>4. /\ r.key \in peers /\ (r.key \in faulted => r.key \in faulted')
        /\ Added(r.key) => Added(r.key)'
        /\ carrier[r.ip] = r.key => carrier'[r.ip] = r.key
    BY <1>2, <1>4, <2>2, <2>3
    DEF RemovePeerStep, RemovePeer, wgVars, Succeeds, Fails, Added
  <2> QED BY <2>4 DEF AddressInv, CarrierInv
<1> QED
  BY <1>5, <1>6 DEF AddressInv

\* Rows keep their addresses, and refresh takes the address from the table.
LEMMA RowStepsAddress ==
  ASSUME TypeInv, ControlInv, AddressInv, NEW t \in Tasks, UNCHANGED crashes,
         Refresh(t) \/ Save(t) \/ DeleteRow(t) \/ Cascade(t) \/ AbandonCreate(t)
  PROVE  AddressInv'
<1>1. t \in Procs /\ task[t] \in Job /\ Alone(t) /\ UNCHANGED <<phase, contended>>
  BY StepFacts DEF Step
<1>2. UNCHANGED <<peers, carrier>> /\ \A k \in faulted : k \in faulted'
  BY DEF Refresh, Save, DeleteRow, Cascade, AbandonCreate, wgVars, ghosts, Fails
<1>3. Stays
  <2>1. CASE Save(t)
    <3> DEFINE k == task[t].row.key
               saved(r) == [r EXCEPT !.nets = task[t].want]
    <3>1. \A r \in devices : saved(r).key = r.key /\ saved(r).ip = r.ip
      BY DEF TypeInv, TypeOK, DbTypeOK, DeviceRow
    <3>2. \/ UNCHANGED devices
          \/ devices' = {IF r.key = k THEN saved(r) ELSE r : r \in devices}
      BY <2>1 DEF Save, UpdateNets, dbVars
    <3> HIDE DEF k, saved
    <3> QED BY <3>1, <3>2 DEF Stays
  <2>2. CASE ~Save(t)
    BY <2>2 DEF Refresh, DeleteRow, DeleteDevice, Cascade, DeleteUser, AbandonCreate,
                dbVars, Stays
  <2> QED BY <2>1, <2>2
<1>4. CASE Refresh(t)
  <2>1. Adds(task[t]) = {task[t].row.key} /\ UNCHANGED devices
    BY <1>4 DEF Refresh, At, Adds, dbVars
  <2>2. CASE ~Live(task[t].row.key) /\ Finish(t)
    <3>1. task'[t].pc # "add_peer"
      BY <1>1, <2>2, FinishMine
    <3>2. \A k \in Adds(task[t]) : ~Live(k)'
      BY <2>1, <2>2 DEF Live
    <3> QED BY <1>1, <1>2, <1>3, <3>1, <3>2, AddressEffect
  <2>3. ASSUME NEW r \in devices, r.key = task[t].row.key,
               Become(t, [task[t] EXCEPT !.pc = "add_peer", !.row = r])
        PROVE  AddressInv'
    <3> DEFINE j == [task[t] EXCEPT !.pc = "add_peer", !.row = r]
    <3>1. task'[t] = j /\ j.pc = "add_peer" /\ j.row = r
      <4>1. task'[t] = j BY <1>1, <2>3, BecomeMoves
      <4> QED BY <1>1, <4>1 DEF Job
    <3> HIDE DEF j
    <3>2. Adds(task'[t]) = Adds(task[t])
      BY <2>1, <2>3, <3>1 DEF Adds
    <3>3. \A q \in devices : q.key = r.key => q.ip = r.ip
      BY DEF AddressInv, IpInv
    <3> QED BY <1>1, <1>2, <1>3, <2>1, <3>1, <3>2, <3>3, AddressEffect
  <2> QED BY <1>4, <2>2, <2>3 DEF Refresh
<1>5. CASE Save(t)
  <2> DEFINE j == [task[t] EXCEPT !.pc = "refresh", !.want = {}]
  <2>1. Adds(task[t]) = {} BY <1>5 DEF Save, At, Adds
  <2>2. j.pc # "add_peer" BY <1>1 DEF Job
  <2>3. task'[t].pc # "add_peer"
    BY <1>1, <1>5, <2>2, BecomeMoves, FinishMine DEF Save
  <2> QED BY <1>1, <1>2, <1>3, <2>1, <2>3, AddressEffect
<1>6. CASE DeleteRow(t) \/ Cascade(t)
  <2>1. Adds(task[t]) = {} BY <1>6 DEF DeleteRow, Cascade, At, Adds
  <2>2. task'[t].pc # "add_peer"
    BY <1>1, <1>6, GotoContinues, NextDeviceQuietly DEF DeleteRow, Cascade, Quietly, KeyPCs
  <2> QED BY <1>1, <1>2, <1>3, <2>1, <2>2, AddressEffect
<1>7. CASE AbandonCreate(t)
  <2>1. Adds(task[t]) = {task[t].row.key} /\ task[t].row.key \in faulted' /\ Finish(t)
    BY <1>7 DEF AbandonCreate, At, Adds, Fails
  <2>2. task'[t].pc # "add_peer"
    BY <1>1, <2>1, FinishMine
  <2> QED BY <1>1, <1>2, <1>3, <2>1, <2>2, AddressEffect
<1> QED
  BY <1>4, <1>5, <1>6, <1>7

LEMMA StepAddress ==
  ASSUME TypeInv, ControlInv, PeerInv, OrphanInv, AddressInv, NEW t \in Tasks, Step(t),
         UNCHANGED crashes
  PROVE  AddressInv'
<1>1. task[t].op # "boot" /\ UNCHANGED contended
  BY StepFacts
<1>2. CASE \/ AddUserChainStep(t) \/ AddJumpsStep(t) \/ RelaySubnetsStep(t) \/ RefreshRule(t)
           \/ ReadRules(t) \/ ReadDevices(t) \/ ListChains(t) \/ NftBatch(t)
  <2>1. QuietlyAlone(t) BY <1>1, <1>2, PolicyQuietly
  <2>2. UNCHANGED carrier
    BY <1>2 DEF AddUserChainStep, AddJumpsStep, RelaySubnetsStep, RefreshRule, ReadRules,
                ReadDevices, ListChains, NftBatch, wgVars
  <2> QED BY <1>1, <2>1, <2>2, QuietAddress
<1>3. CASE InterfaceRoutes(t) \/ RouteAdd(t) \/ RouteDel(t)
  <2>1. QuietlyAlone(t) BY <1>1, <1>3, RoutesQuietly
  <2>2. UNCHANGED carrier
    BY <1>3 DEF InterfaceRoutes, RouteAdd, RouteDel, AddRoute, RemoveRoute, wgVars
  <2> QED BY <1>1, <2>1, <2>2, QuietAddress
<1> QED
  BY <1>2, <1>3, InsertAddress, AddPeerStepAddress, RemovePeerStepAddress, RowStepsAddress
  DEF Step, SharedStep

\* During the first startup there is nothing yet, unless requests contend with it.
LEMMA BootAddress ==
  ASSUME TypeInv, ControlInv, PeerInv, AddressInv, BootStep
  PROVE  AddressInv'
<1>1. /\ phase = "startup" /\ phase' \in {"startup", "up"} /\ Alone(Boot)
      /\ UNCHANGED <<devices, contended, crashes>>
  <2>1. CASE SharedStep(Boot) /\ UNCHANGED crashes
    <3>1. UNCHANGED contended
      BY <2>1, BootType, StepContended DEF Step
    <3>2. phase' \in {phase, "up"}
      BY <2>1 DEF SharedStep, InterfaceRoutes, RouteAdd, RouteDel, RoutesLeft, AfterRoutes,
                    ListChains, NftBatch
    <3>3. UNCHANGED devices /\ Alone(Boot) /\ phase = "startup"
      BY <2>1, BootSharedQuietly
    <3> QED BY <2>1, <3>1, <3>2, <3>3
  <2>2. CASE GetPeers \/ ReadAllDevices \/ ReadAllRules \/ AddMissingPeer \/ RemoveOrphanPeer
    <3>1. phase = "startup"
      BY <2>2, BootAt DEF GetPeers, ReadAllDevices, ReadAllRules, AddMissingPeer,
                          RemoveOrphanPeer, At
    <3>2. UNCHANGED <<phase, devices, contended, crashes>>
      BY <2>2 DEF GetPeers, ReadAllDevices, ReadAllRules, AddMissingPeer,
                  RemoveOrphanPeer, dbVars, ghosts
    <3>3. Alone(Boot)
      BY <2>2, BootType, BecomeMoves
      DEF GetPeers, ReadAllDevices, ReadAllRules, AddMissingPeer, RemoveOrphanPeer, Goto
    <3> QED BY <3>1, <3>2, <3>3
  <2> QED BY <2>1, <2>2 DEF BootStep
<1>2. \A t \in Tasks : task'[t] = task[t]
  BY <1>1, EventBridgeAssumption DEF Alone, Procs
<1> QED
  BY <1>1, <1>2 DEF AddressInv, IpInv, HeldInv, FirstInv, CarrierInv, At

LEMMA CrashAddress ==
  ASSUME TypeInv, AddressInv, Crash
  PROVE  AddressInv'
<1>1. UNCHANGED devices /\ crashes' # 0
  BY WireGUIAssumption DEF Crash, dbVars, TypeInv, TypeOK
<1>2. \A t \in Tasks : task'[t].pc = "idle"
  BY DEF Crash, Procs, Idle
<1> QED
  BY <1>1, <1>2 DEF AddressInv, IpInv, HeldInv, FirstInv, CarrierInv, At

LEMMA StartupFailsAddress ==
  ASSUME TypeInv, AddressInv, StartupFails
  PROVE  AddressInv'
<1>1. UNCHANGED <<devices, task>> /\ crashes' # 0
  BY WireGUIAssumption DEF StartupFails, dbVars, TypeInv, TypeOK
<1> QED
  BY <1>1 DEF AddressInv, IpInv, HeldInv, FirstInv, CarrierInv, At

LEMMA RestartAddress ==
  ASSUME TypeInv, AddressInv, Restart
  PROVE  AddressInv'
<1>1. phase = "down" /\ UNCHANGED <<devices, crashes>> /\ Alone(Boot)
  BY BootType, BecomeMoves DEF Restart, Become, dbVars
<1>2. \A t \in Tasks : task'[t] = task[t]
  BY <1>1, EventBridgeAssumption DEF Alone, Procs
<1>3. IpInv' /\ HeldInv'
  BY <1>1, <1>2 DEF AddressInv, IpInv, HeldInv, At
<1>4. crashes' = 0 => devices' = {}
  BY <1>1 DEF AddressInv, FirstInv
<1>5. FirstInv' /\ CarrierInv'
  BY <1>4 DEF FirstInv, CarrierInv
<1> QED
  BY <1>3, <1>5 DEF AddressInv

LEMMA AddressInit == Init => AddressInv
BY DEF Init, DbInit, AddressInv, IpInv, HeldInv, FirstInv, CarrierInv

LEMMA AddressNext ==
  TypeInv /\ ControlInv /\ PeerInv /\ OrphanInv /\ AddressInv /\ [Next]_allVars => AddressInv'
<1> SUFFICES ASSUME TypeInv, ControlInv, PeerInv, OrphanInv, AddressInv, [Next]_allVars
             PROVE  AddressInv'
  OBVIOUS
<1>1. ASSUME NEW t \in Tasks, Start(t) /\ UNCHANGED crashes PROVE AddressInv'
  BY <1>1, StartAddress
<1>2. CASE (UpdateRuleFromApi /\ UNCHANGED crashes) \/ UNCHANGED allVars
  BY <1>2, SameAddress
  DEF UpdateRuleFromApi, UpdateRule, allVars, vars, dbVars, wgVars, taskVars, ghosts
<1>3. ASSUME NEW t \in Tasks, TaskStep(t) PROVE AddressInv'
  BY <1>3, StepAddress DEF TaskStep
<1>4. CASE Crash
  BY <1>4, CrashAddress
<1>5. CASE StartupFails
  BY <1>5, StartupFailsAddress
<1>6. CASE Restart
  BY <1>6, RestartAddress
<1>7. CASE BootStep
  BY <1>7, BootAddress
<1> QED
  BY <1>1, <1>2, <1>3, <1>4, <1>5, <1>6, <1>7 DEF Next

LEMMA AddressesCarried == TypeInv /\ AddressInv => OwnAddressCarried
BY DEF AddressInv, CarrierInv, OwnAddressCarried, Added, Adds, AddPending

\* For any number of devices, addresses and overlapping operations on different
\* devices: until the first restart, and as long as no requests overlapped on one
\* device, a device that is a peer carries its own tunnel address, also when the
\* address was another device's before (AllowedIPs of add_peer, remove_peer, the
\* unique constraint of models/device.py).
THEOREM AddressesAreCarried == Spec => []OwnAddressCarried
BY TypeInit, TypeNext, ControlInit, ControlNext, PeerInit, PeerNext, OrphanInit, OrphanNext,
   AddressInit, AddressNext, AddressesCarried, PTL DEF Spec

=============================================================================
