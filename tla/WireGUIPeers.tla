---------------------------- MODULE WireGUIPeers ----------------------------
(***************************************************************************)
(* Every device in the database is a WireGuard peer once the system is up. *)
(*                                                                         *)
(* LiveDevicesHavePeers alone is not inductive.  What makes it true is     *)
(* that no command that removes a peer is ever pending for a device that   *)
(* exists: a removal is issued only after the row is gone, and a key that  *)
(* is gone never comes back, because a key that waits for its INSERT is    *)
(* new to everybody but the request that generated it.  PeerInv says so in *)
(* terms of the keys each task is about to insert, add, remove, or delete. *)
(***************************************************************************)
EXTENDS WireGUITypes

KeysOf(rows) == {r.key : r \in rows}

\* What a task is about to do with a key: INSERT its row ...
Inserts(j) == IF j.pc = "insert" THEN {j.row.key} ELSE {}
\* ... add its peer, the row being committed ...
Adds(j)    == IF j.pc \in {"refresh", "add_peer"} THEN {j.row.key} ELSE {}
\* ... remove its peer, the row being gone ...
Removes(j) == (IF j.pc = "remove_peer" THEN {j.row.key} ELSE {}) \cup
              (IF j.pc # "cascade" THEN KeysOf(j.queue) ELSE {})
\* ... or update or delete its row.
Holds(j)   == (IF j.pc \in {"save", "delete_row"} THEN {j.row.key} ELSE {}) \cup
              (IF j.pc = "cascade" THEN KeysOf(j.queue) ELSE {})

Knows(j)   == Adds(j) \cup Removes(j) \cup Holds(j)

\* The peers reconcile() has yet to add, and to remove.
Missing == KeysOf(task[Boot].queue)
Gone    == task[Boot].gone

\* reconcile() has not yet read the devices.
BeforeRead == task[Boot].pc \in {"get_peers", "db_devices"}

\* A key the system has met since its INSERT.
Known(k) == \/ Live(k) \/ k \in peers \/ k \in Missing \/ k \in Gone
            \/ \E t \in Tasks : k \in Knows(task[t])

Added(k) == \E t \in Tasks : k \in Adds(task[t])

\* Every key in use was generated, and one that waits for its INSERT is known
\* to nobody else.
BornInv ==
  /\ \A k \in Devices : Known(k) => k \in born
  /\ \A t \in Tasks : \A k \in Inserts(task[t]) :
       /\ k \in born
       /\ ~Known(k)
       /\ \A s \in Tasks \ {t} : k \notin Inserts(task[s])

\* No removal is pending for a device that exists.
RemovesInv ==
  /\ \A t \in Tasks : \A k \in Removes(task[t]) : ~Live(k)
  /\ ~BeforeRead => \A k \in Gone : ~Live(k)

\* Between the dump of the interface and the query, an existing peer stays.
SeenInv == BeforeRead => \A k \in Gone : Live(k) => k \in peers

\* The cascade of a user's deletion takes every device that was read before it.
CascadeInv ==
  \A t \in Tasks : At(t, "cascade") =>
    \A r \in task[t].queue, q \in devices : q.key = r.key => q.owner = task[t].user

\* A device has one owner.
OwnerInv == \A p, q \in devices : p.key = q.key => p.owner = q.owner

QueueInv == task[Boot].pc \notin {"db_rules", "add_missing"} => task[Boot].queue = {}

\* From the query of reconcile() on, no device is forgotten.
CoverInv ==
  phase \in {"startup", "up"} /\ ~BeforeRead =>
    \A k \in Devices : Live(k) => k \in peers \/ k \in faulted \/ Added(k) \/ k \in Missing

PeerInv ==
  BornInv /\ RemovesInv /\ SeenInv /\ CascadeInv /\ OwnerInv /\ QueueInv /\ CoverInv

-----------------------------------------------------------------------------
(* What a step of a task must do to keep the invariant *)

\* No device appears, and none changes hands.
Shrinks == \A q \in devices' : \E p \in devices : p.key = q.key /\ p.owner = q.owner

LEMMA ShrinksLive ==
  ASSUME Shrinks, NEW k, Live(k)'
  PROVE  Live(k)
BY DEF Shrinks, Live

LEMMA TaskEffect ==
  ASSUME PeerInv, NEW t \in Tasks, Alone(t), UNCHANGED <<phase, born>>, Shrinks,
         \A k \in peers' : k \in peers \/ k \in Knows(task[t]),
         \A k \in peers : Live(k)' => k \in peers',
         \A k \in Devices : Live(k)' /\ (k \in faulted \/ k \in Adds(task[t])) =>
                  k \in peers' \/ k \in faulted' \/ k \in Adds(task'[t]),
         Inserts(task'[t]) = {},
         \A k \in Knows(task'[t]) : k \in Knows(task[t]) \/ Live(k),
         \A k \in Removes(task'[t]) : ~Live(k)',
         task'[t].pc = "cascade" =>
           \A r \in task'[t].queue, q \in devices' : q.key = r.key => q.owner = task'[t].user
  PROVE  PeerInv'
<1>1. t \in Procs /\ UNCHANGED task[Boot] /\ \A s \in Tasks \ {t} : task'[s] = task[s]
  BY EventBridgeAssumption DEF Alone, Procs
<1>2. UNCHANGED <<Missing, Gone, BeforeRead>>
  BY <1>1 DEF Missing, Gone, BeforeRead
<1>3. ASSUME NEW k, Known(k)'
      PROVE  Known(k)
  <2>1. CASE \E s \in Tasks : k \in Knows(task'[s])
    BY <2>1, <1>1 DEF Known
  <2>2. CASE Live(k)'
    BY <2>2, ShrinksLive DEF Known
  <2>3. CASE k \in peers'
    BY <2>3 DEF Known
  <2> QED
    BY <1>2, <1>3, <2>1, <2>2, <2>3 DEF Known
<1>4. BornInv'
  BY <1>1, <1>3 DEF PeerInv, BornInv
<1>5. RemovesInv'
  BY <1>1, <1>2, ShrinksLive DEF PeerInv, RemovesInv
<1>6. SeenInv'
  BY <1>1, <1>2, ShrinksLive DEF PeerInv, SeenInv, At
<1>7. CascadeInv'
  <2> SUFFICES ASSUME NEW s \in Tasks, task'[s].pc = "cascade",
                      NEW r \in task'[s].queue, NEW q \in devices', q.key = r.key
               PROVE  q.owner = task'[s].user
    BY DEF CascadeInv, At
  <2>1. CASE s = t
    BY <2>1
  <2>2. CASE s # t
    BY <2>2, <1>1 DEF PeerInv, CascadeInv, At, Shrinks
  <2> QED BY <2>1, <2>2
<1>8. QueueInv'
  BY <1>1 DEF PeerInv, QueueInv
<1>9. CoverInv'
  <2> SUFFICES ASSUME phase \in {"startup", "up"}, ~BeforeRead, NEW k \in Devices, Live(k)'
               PROVE  k \in peers' \/ k \in faulted' \/ Added(k)' \/ k \in Missing
    BY <1>2 DEF CoverInv
  <2>1. k \in peers \/ k \in faulted \/ Added(k) \/ k \in Missing
    BY ShrinksLive DEF PeerInv, CoverInv
  <2>2. CASE Added(k) /\ k \notin Adds(task[t])
    BY <2>2, <1>1 DEF Added
  <2>3. CASE k \in faulted \/ k \in Adds(task[t])
    BY <2>3 DEF Added
  <2> QED
    BY <2>1, <2>2, <2>3 DEF Added
<1>10. OwnerInv'
  BY DEF PeerInv, OwnerInv, Shrinks
<1> QED
  BY <1>4, <1>5, <1>6, <1>7, <1>8, <1>9, <1>10 DEF PeerInv

LEMMA SamePeers ==
  PeerInv /\ UNCHANGED <<task, phase, devices, born, peers, faulted>> => PeerInv'
BY DEF PeerInv, BornInv, RemovesInv, SeenInv, CascadeInv, OwnerInv, QueueInv, CoverInv,
       Known, Added, Missing, Gone, BeforeRead, Live, At

-----------------------------------------------------------------------------
(* Steps that touch neither devices nor peers *)

\* Where a task is about to do something with the key of the row it holds.
KeyPCs == {"insert", "refresh", "save", "delete_row", "cascade", "add_peer", "remove_peer"}

\* t goes where no key is handled, or to the next device of the queue it had.
Quietly(t, queue) ==
  /\ KeysOf(task'[t].queue) \subseteq KeysOf(queue)
  /\ task'[t].pc \notin KeyPCs \/ /\ task'[t].pc = "remove_peer"
                                  /\ task'[t].row.key \in KeysOf(queue)

\* So does a step that leaves devices, peers and what is known of the keys alone.
QuietlyAlone(t) ==
  /\ Alone(t)
  /\ task[t].pc \notin KeyPCs /\ Quietly(t, task[t].queue)
  /\ UNCHANGED <<phase, devices, born, peers>>
  /\ \A k \in Devices : k \in faulted => k \in faulted'

LEMMA QuietStep ==
  ASSUME PeerInv, NEW t \in Tasks, QuietlyAlone(t)
  PROVE  PeerInv'
<1> USE DEF QuietlyAlone
<1>1. Adds(task[t]) = {} /\ Removes(task[t]) = KeysOf(task[t].queue)
  BY DEF Adds, Removes, KeyPCs
<1>2. /\ Inserts(task'[t]) = {} /\ Holds(task'[t]) = {} /\ Adds(task'[t]) = {}
      /\ Removes(task'[t]) \subseteq Removes(task[t])
  BY <1>1 DEF Quietly, Inserts, Holds, Adds, Removes, KeyPCs
<1>3. Shrinks /\ \A k : Live(k)' <=> Live(k)
  BY DEF Shrinks, Live
<1>4. \A k \in Removes(task'[t]) : ~Live(k)'
  BY <1>2, <1>3 DEF PeerInv, RemovesInv
<1>5. \A k \in Knows(task'[t]) : k \in Knows(task[t])
  BY <1>2 DEF Knows
<1>6. task'[t].pc # "cascade"
  BY DEF Quietly, KeyPCs
<1> QED
  BY <1>1, <1>2, <1>3, <1>4, <1>5, <1>6, TaskEffect

LEMMA FinishQuietly ==
  ASSUME TypeInv, NEW t \in Procs, NEW queue, Finish(t)
  PROVE  Quietly(t, queue)
<1>1. task'[t] = Idle
  BY FinishContinues
<1>2. Idle.pc \notin KeyPCs /\ Idle.queue = {}
  BY DEF Idle, KeyPCs
<1> QED
  BY <1>1, <1>2 DEF Quietly, KeysOf

LEMMA NextDeviceQuietly ==
  ASSUME TypeInv, NEW t \in Procs, NEW j \in Job, NextDevice(t, j)
  PROVE  Quietly(t, j.queue)
<1> DEFINE k(r) == [j EXCEPT !.pc = "remove_peer", !.row = r, !.queue = j.queue \ {r}]
<1>1. ASSUME NEW r \in j.queue, Become(t, k(r))
      PROVE  Quietly(t, j.queue)
  <2>1. k(r).pc = "remove_peer" /\ k(r).row = r /\ k(r).queue = j.queue \ {r}
    BY DEF Job
  <2>2. task'[t] = k(r)
    BY <1>1, BecomeMoves
  <2> HIDE DEF k
  <2> QED BY <2>1, <2>2 DEF Quietly, KeysOf
<1> QED
  BY <1>1, FinishQuietly DEF NextDevice

LEMMA RoutesLeftQuietly ==
  ASSUME TypeInv, NEW t \in Procs, NEW j \in Job, RoutesLeft(t, j)
  PROVE  Quietly(t, j.queue)
<1>1. ASSUME NEW k, Become(t, k), k.queue = j.queue, k.pc \notin KeyPCs
      PROVE  Quietly(t, j.queue)
  <2>1. task'[t] = k BY <1>1, BecomeMoves
  <2> QED BY <1>1, <2>1 DEF Quietly, KeysOf
<1>2. CASE Become(t, [j EXCEPT !.pc = "routes"])
  <2> DEFINE k == [j EXCEPT !.pc = "routes"]
  <2>1. k.queue = j.queue /\ k.pc \notin KeyPCs BY DEF Job, KeyPCs
  <2> QED BY <1>2, <2>1, <1>1
<1>3. CASE Become(t, [j EXCEPT !.pc = "add_user_chain"])
  <2> DEFINE k == [j EXCEPT !.pc = "add_user_chain"]
  <2>1. k.queue = j.queue /\ k.pc \notin KeyPCs BY DEF Job, KeyPCs
  <2> QED BY <1>3, <2>1, <1>1
<1>4. CASE Become(t, [j EXCEPT !.pc = "read_rules", !.user = j.row.owner])
  <2> DEFINE k == [j EXCEPT !.pc = "read_rules", !.user = j.row.owner]
  <2>1. k.queue = j.queue /\ k.pc \notin KeyPCs BY DEF Job, KeyPCs
  <2> QED BY <1>4, <2>1, <1>1
<1>5. CASE Finish(t) \/ NextDevice(t, j)
  BY <1>5, FinishQuietly, NextDeviceQuietly
<1> QED
  BY <1>2, <1>3, <1>4, <1>5 DEF RoutesLeft, AfterRoutes

\* Commands that work on subnets and chains say nothing of keys.
LEMMA KeysStayFaulted ==
  ASSUME TypeInv, NEW x \in SUBSET (Subnets \cup Users), Succeeds(x) \/ Fails(x)
  PROVE  \A k \in Devices : k \in faulted => k \in faulted'
BY DatabaseAssumption DEF Succeeds, Fails

LEMMA RoutesQuietly ==
  ASSUME TypeInv, NEW t \in Tasks, task[t].op # "boot",
         InterfaceRoutes(t) \/ RouteAdd(t) \/ RouteDel(t)
  PROVE  QuietlyAlone(t)
<1>1. t \in Procs /\ task[t] \in Job
  BY TaskType DEF Procs
<1>2. Quietly(t, task[t].queue)
  BY <1>1, InterfaceRoutesPlan, RouteAddPlan, RouteDelPlan, RoutesLeftQuietly
<1>3. Alone(t) /\ UNCHANGED phase
  BY <1>1, RoutesStepsContinue DEF Continues
<1>4. task[t].pc \notin KeyPCs
  BY DEF InterfaceRoutes, RouteAdd, RouteDel, At, KeyPCs
<1>5. UNCHANGED <<devices, born, peers>>
  BY DEF InterfaceRoutes, RouteAdd, RouteDel, AddRoute, RemoveRoute, dbVars, wgVars
<1>6. \A k \in Devices : k \in faulted => k \in faulted'
  <2>1. CASE InterfaceRoutes(t)
    BY <2>1 DEF InterfaceRoutes, Fails
  <2>2. CASE RouteAdd(t)
    <3>1. PICK s \in task[t].add : Succeeds({s}) \/ Fails({s}) BY <2>2 DEF RouteAdd
    <3>2. {s} \in SUBSET (Subnets \cup Users) BY <1>1 DEF Job
    <3> QED BY <3>1, <3>2, KeysStayFaulted
  <2>3. CASE RouteDel(t)
    <3>1. PICK s \in task[t].drop : Succeeds({s}) \/ Fails({s}) BY <2>3 DEF RouteDel
    <3>2. {s} \in SUBSET (Subnets \cup Users) BY <1>1 DEF Job
    <3> QED BY <3>1, <3>2, KeysStayFaulted
  <2> QED BY <2>1, <2>2, <2>3
<1> QED
  BY <1>2, <1>3, <1>4, <1>5, <1>6 DEF QuietlyAlone

\* The steps on jumps, chains and rules, and reading the relay subnets.
LEMMA PolicyQuietly ==
  ASSUME TypeInv, NEW t \in Tasks, task[t].op # "boot",
         \/ AddUserChainStep(t) \/ AddJumpsStep(t) \/ RelaySubnetsStep(t) \/ RefreshRule(t)
         \/ ReadRules(t) \/ ReadDevices(t) \/ ListChains(t) \/ NftBatch(t)
  PROVE  QuietlyAlone(t)
<1>1. t \in Procs /\ task[t] \in Job /\ Step(t)
  BY TaskType DEF Procs, Step, SharedStep
<1>2. Alone(t) /\ UNCHANGED phase
  BY <1>1, StepContinues DEF Continues
<1>3. /\ task[t].pc \notin KeyPCs
      /\ UNCHANGED <<devices, born, peers>>
  BY DEF AddUserChainStep, AddJumpsStep, RelaySubnetsStep, RefreshRule, ReadRules,
         ReadDevices, ListChains, NftBatch, At, KeyPCs, dbVars, wgVars
<1>4. \A k \in Devices : k \in faulted => k \in faulted'
  <2>1. CASE AddUserChainStep(t) \/ AddJumpsStep(t) \/ ListChains(t)
    BY <2>1 DEF AddUserChainStep, AddJumpsStep, ListChains, Fails
  <2>2. CASE NftBatch(t)
    <3>1. task[t].entries \cup task[t].orphans \in SUBSET (Subnets \cup Users)
      BY <1>1 DEF Job
    <3> QED BY <2>2, <3>1, KeysStayFaulted DEF NftBatch
  <2>3. CASE RelaySubnetsStep(t) \/ RefreshRule(t) \/ ReadRules(t) \/ ReadDevices(t)
    BY <2>3 DEF RelaySubnetsStep, RefreshRule, ReadRules, ReadDevices, ghosts
  <2> QED BY <2>1, <2>2, <2>3
<1>5. ASSUME NEW k, Become(t, k), k.queue = task[t].queue, k.pc \notin KeyPCs
      PROVE  Quietly(t, task[t].queue)
  <2>1. task'[t] = k BY <1>1, <1>5, BecomeMoves
  <2> QED BY <1>5, <2>1 DEF Quietly, KeysOf
<1>6. ASSUME NEW pc, Goto(t, pc), pc \notin KeyPCs
      PROVE  Quietly(t, task[t].queue)
  BY <1>1, <1>6, GotoContinues DEF Quietly, KeysOf
<1>7. Quietly(t, task[t].queue)
  <2>1. CASE AddUserChainStep(t) \/ AddJumpsStep(t)
    BY <1>1, <1>6, <2>1, FinishQuietly DEF AddUserChainStep, AddJumpsStep, KeyPCs
  <2>2. CASE NftBatch(t)
    BY <1>1, <2>2, FinishQuietly DEF NftBatch
  <2>3. CASE RelaySubnetsStep(t)
    <3> DEFINE k == [task[t] EXCEPT !.pc = "interface_routes", !.want = RelaySubnets]
    <3>1. k.queue = task[t].queue /\ k.pc \notin KeyPCs BY <1>1 DEF Job, KeyPCs
    <3> QED BY <2>3, <3>1, <1>5 DEF RelaySubnetsStep
  <2>4. CASE RefreshRule(t)
    <3> DEFINE k(r) == [task[t] EXCEPT !.pc = "read_rules", !.user = r.user, !.rule = 0]
    <3>1. ASSUME NEW r PROVE k(r).queue = task[t].queue /\ k(r).pc \notin KeyPCs
      BY <1>1 DEF Job, KeyPCs
    <3>2. Finish(t) \/ \E r : Become(t, k(r)) BY <2>4 DEF RefreshRule
    <3> QED BY <1>1, <3>1, <3>2, <1>5, FinishQuietly
  <2>5. CASE ReadRules(t)
    <3> DEFINE k(e, b) == [task[t] EXCEPT !.pc = "read_devices", !.row = NoRow,
                                          !.entries = e, !.bodies = b]
    <3>1. ASSUME NEW e, NEW b PROVE k(e, b).queue = task[t].queue /\ k(e, b).pc \notin KeyPCs
      BY <1>1 DEF Job, KeyPCs
    <3>2. \E e, b : Become(t, k(e, b)) BY <2>5 DEF ReadRules
    <3> QED BY <3>1, <3>2, <1>5
  <2>6. CASE ReadDevices(t)
    <3> DEFINE k(x) == [task[t] EXCEPT !.pc = "list_chains", !.jumps = x]
    <3>1. ASSUME NEW x PROVE k(x).queue = task[t].queue /\ k(x).pc \notin KeyPCs
      BY <1>1 DEF Job, KeyPCs
    <3>2. \E x : Become(t, k(x)) BY <2>6 DEF ReadDevices
    <3> QED BY <3>1, <3>2, <1>5
  <2>7. CASE ListChains(t)
    <3> DEFINE k(x) == [task[t] EXCEPT !.pc = "nft_batch", !.orphans = x]
    <3>1. ASSUME NEW x PROVE k(x).queue = task[t].queue /\ k(x).pc \notin KeyPCs
      BY <1>1 DEF Job, KeyPCs
    <3>2. \E x : Become(t, k(x)) BY <2>7 DEF ListChains
    <3> QED BY <3>1, <3>2, <1>5
  <2> QED BY <2>1, <2>2, <2>3, <2>4, <2>5, <2>6, <2>7
<1> QED
  BY <1>2, <1>3, <1>4, <1>7 DEF QuietlyAlone

-----------------------------------------------------------------------------
(* Steps on devices and peers *)

LEMMA FinishKeys ==
  ASSUME TypeInv, NEW t \in Procs, Finish(t)
  PROVE  /\ task'[t].pc = "idle"
         /\ Inserts(task'[t]) = {} /\ Knows(task'[t]) = {} /\ Removes(task'[t]) = {}
BY FinishContinues DEF Idle, Inserts, Knows, Adds, Removes, Holds, KeysOf

LEMMA StepAlone ==
  ASSUME TypeInv, ControlInv, NEW t \in Tasks, Step(t)
  PROVE  t \in Procs /\ task[t] \in Job /\ Alone(t) /\ UNCHANGED phase
BY TaskType, StepContinues DEF ControlInv, Serve, Continues, Procs

\* The row is gone: only a device that no longer exists loses its add_peer.
LEMMA RefreshPeers ==
  ASSUME TypeInv, ControlInv, PeerInv, NEW t \in Tasks, Refresh(t)
  PROVE  PeerInv'
<1>1. t \in Procs /\ task[t] \in Job /\ Alone(t) /\ UNCHANGED phase
  BY StepAlone DEF Step
<1>2. UNCHANGED <<devices, born, peers, faulted>> /\ task[t].pc = "refresh"
  BY DEF Refresh, dbVars, wgVars, ghosts, At
<1>3. Shrinks /\ \A k : Live(k)' <=> Live(k)
  BY <1>2 DEF Shrinks, Live
<1>4. Adds(task[t]) = {task[t].row.key} /\ Removes(task[t]) = KeysOf(task[t].queue)
  BY <1>2 DEF Adds, Removes
<1>5. CASE Finish(t) /\ ~Live(task[t].row.key)
  BY <1>1, <1>2, <1>3, <1>4, <1>5, FinishKeys, TaskEffect
<1>6. ASSUME NEW r \in devices, r.key = task[t].row.key,
             Become(t, [task[t] EXCEPT !.pc = "add_peer", !.row = r])
      PROVE  PeerInv'
  <2> DEFINE j == [task[t] EXCEPT !.pc = "add_peer", !.row = r]
  <2>0. task'[t] = j /\ j.pc = "add_peer" /\ j.row = r /\ j.queue = task[t].queue
    <3>1. task'[t] = j BY <1>1, <1>6, BecomeMoves
    <3> QED BY <1>1, <3>1 DEF Job
  <2> HIDE DEF j
  <2>1. task'[t].pc = "add_peer" /\ task'[t].row = r /\ task'[t].queue = task[t].queue
    BY <2>0
  <2>2. /\ Inserts(task'[t]) = {} /\ Adds(task'[t]) = Adds(task[t])
        /\ Removes(task'[t]) = Removes(task[t]) /\ Holds(task'[t]) = {}
    BY <1>2, <1>4, <1>6, <2>1 DEF Inserts, Adds, Removes, Holds, KeysOf
  <2>3. \A k \in Removes(task'[t]) : ~Live(k)'
    BY <1>3, <2>2 DEF PeerInv, RemovesInv
  <2>4. \A k \in Knows(task'[t]) : k \in Knows(task[t])
    BY <2>2 DEF Knows
  <2> QED
    BY <1>1, <1>2, <1>3, <2>1, <2>2, <2>3, <2>4, TaskEffect
<1> QED
  BY <1>5, <1>6 DEF Refresh

\* The page fails: the device it does not add is accounted for.
LEMMA AbandonCreatePeers ==
  ASSUME TypeInv, ControlInv, PeerInv, NEW t \in Tasks, AbandonCreate(t)
  PROVE  PeerInv'
<1>1. t \in Procs /\ Alone(t) /\ UNCHANGED phase
  BY StepAlone DEF Step
<1>2. UNCHANGED <<devices, born, peers>> /\ Adds(task[t]) = {task[t].row.key} /\ Finish(t)
  BY DEF AbandonCreate, dbVars, wgVars, At, Adds
<1>3. Shrinks /\ \A k : Live(k)' <=> Live(k)
  BY <1>2 DEF Shrinks, Live
<1>4. \A k : k \in faulted \/ k \in Adds(task[t]) => k \in faulted'
  BY <1>2 DEF AbandonCreate, Fails
<1> QED
  BY <1>1, <1>2, <1>3, <1>4, FinishKeys, TaskEffect

\* A key is inserted only by the request that generated it, and goes on to be added.
LEMMA InsertPeers ==
  ASSUME TypeInv, ControlInv, PeerInv, NEW t \in Tasks, Insert(t)
  PROVE  PeerInv'
<1> DEFINE row == task[t].row
<1>1. t \in Procs /\ task[t] \in Job /\ Alone(t) /\ UNCHANGED phase
  BY StepAlone DEF Step
<1>2. UNCHANGED <<born, peers, faulted>> /\ task[t].pc = "insert"
  BY DEF Insert, InsertDevice, dbVars, wgVars, ghosts, At
<1>3. Adds(task[t]) = {} /\ Removes(task[t]) = KeysOf(task[t].queue)
      /\ Inserts(task[t]) = {row.key}
  BY <1>2 DEF Adds, Removes, Inserts
<1>4. CASE Finish(t) /\ UNCHANGED dbVars
  <2>1. UNCHANGED devices /\ Shrinks /\ \A k : Live(k)' <=> Live(k)
    BY <1>4 DEF dbVars, Shrinks, Live
  <2> QED
    BY <1>1, <1>2, <1>3, <1>4, <2>1, FinishKeys, TaskEffect
<1>5. CASE InsertDevice(row) /\ Goto(t, "refresh")
  <2>1. /\ task'[t].pc = "refresh" /\ task'[t].row = row
        /\ task'[t].queue = task[t].queue
    BY <1>1, <1>5, GotoContinues
  <2>2. /\ Inserts(task'[t]) = {} /\ Adds(task'[t]) = {row.key}
        /\ Removes(task'[t]) = Removes(task[t]) /\ Holds(task'[t]) = {}
    BY <1>3, <2>1 DEF Inserts, Adds, Removes, Holds, KeysOf
  <2>3. \A k : Live(k)' <=> Live(k) \/ k = row.key
    BY <1>5 DEF InsertDevice, Live
  <2>4. UNCHANGED task[Boot] /\ \A s \in Tasks \ {t} : task'[s] = task[s]
    BY <1>1, EventBridgeAssumption DEF Alone, Procs
  <2>5. UNCHANGED <<Missing, Gone, BeforeRead>>
    BY <2>4 DEF Missing, Gone, BeforeRead
  <2>6. /\ row.key \in born /\ ~Known(row.key)
        /\ \A s \in Tasks \ {t} : row.key \notin Inserts(task[s])
    BY <1>3 DEF PeerInv, BornInv
  <2>7. \A k : Known(k)' => Known(k) \/ k = row.key
    BY <1>2, <2>2, <2>3, <2>4, <2>5 DEF Known, Knows
  <2>8. BornInv'
    BY <1>2, <2>2, <2>4, <2>6, <2>7 DEF PeerInv, BornInv
  <2>9. RemovesInv'
    <3>1. \A s \in Tasks : Removes(task'[s]) = Removes(task[s])
      BY <2>2, <2>4
    <3>2. \A s \in Tasks : row.key \notin Removes(task[s])
      BY <2>6 DEF Known, Knows
    <3>3. row.key \notin Gone
      BY <2>6 DEF Known
    <3> QED
      BY <2>3, <2>5, <3>1, <3>2, <3>3 DEF PeerInv, RemovesInv
  <2>10. SeenInv'
    <3>1. row.key \notin Gone
      BY <2>6 DEF Known
    <3> QED
      BY <1>2, <2>3, <2>4, <2>5, <3>1 DEF PeerInv, SeenInv, At
  <2>11. CascadeInv'
    <3> SUFFICES ASSUME NEW s \in Tasks, task'[s].pc = "cascade",
                        NEW r \in task'[s].queue, NEW q \in devices', q.key = r.key
                 PROVE  q.owner = task'[s].user
      BY DEF CascadeInv, At
    <3>1. s # t /\ task'[s] = task[s]
      BY <2>1, <2>4
    <3>2. r.key \in Knows(task[s])
      BY <3>1 DEF Knows, Holds, KeysOf
    <3>3. q # row
      BY <2>6, <3>2 DEF Known
    <3> QED
      BY <1>5, <3>1, <3>3 DEF InsertDevice, PeerInv, CascadeInv, At
  <2>12. QueueInv'
    BY <2>4 DEF PeerInv, QueueInv
  <2>13. CoverInv'
    <3> SUFFICES ASSUME phase \in {"startup", "up"}, ~BeforeRead, NEW k \in Devices, Live(k)'
                 PROVE  k \in peers \/ k \in faulted \/ Added(k)' \/ k \in Missing
      BY <1>1, <1>2, <2>5 DEF CoverInv
    <3>1. CASE k = row.key
      BY <3>1, <2>2 DEF Added
    <3>2. CASE Live(k)
      <4>1. k \in peers \/ k \in faulted \/ Added(k) \/ k \in Missing
        BY <3>2 DEF PeerInv, CoverInv
      <4>2. Added(k) => Added(k)'
        BY <1>3, <2>4 DEF Added
      <4> QED BY <4>1, <4>2
    <3> QED BY <2>3, <3>1, <3>2
  <2>14. OwnerInv'
    <3>1. \A q \in devices : q.key # row.key
      BY <2>6 DEF Known, Live
    <3> QED BY <1>5, <3>1 DEF InsertDevice, PeerInv, OwnerInv
  <2> QED
    BY <2>8, <2>9, <2>10, <2>11, <2>12, <2>13, <2>14 DEF PeerInv
<1> QED
  BY <1>4, <1>5 DEF Insert

\* After add_peer no key is at hand.
LEMMA AddPeerQuietly ==
  ASSUME TypeInv, NEW t \in Procs, AddPeerStep(t)
  PROVE  Quietly(t, task[t].queue) /\ task'[t].pc \notin KeyPCs
<1> DEFINE j == [task[t] EXCEPT !.pc = "routes", !.add = task[t].row.nets]
<1>1. task[t] \in Job
  BY TaskType
<1>2. Goto(t, "relay_subnets") \/ Goto(t, "add_user_chain") \/ Become(t, j)
  BY DEF AddPeerStep, Goto
<1>3. CASE Become(t, j)
  <2>1. j.queue = task[t].queue /\ j.pc \notin KeyPCs BY <1>1 DEF Job, KeyPCs
  <2>2. task'[t] = j BY <1>3, BecomeMoves
  <2> HIDE DEF j
  <2> QED BY <2>1, <2>2 DEF Quietly, KeysOf
<1>4. CASE Goto(t, "relay_subnets") \/ Goto(t, "add_user_chain")
  BY <1>4, GotoContinues DEF Quietly, KeyPCs, KeysOf
<1> QED
  BY <1>2, <1>3, <1>4

\* wg set peer: the peer is there afterwards, or the command failed.
LEMMA AddPeerStepPeers ==
  ASSUME TypeInv, ControlInv, PeerInv, NEW t \in Tasks, AddPeerStep(t)
  PROVE  PeerInv'
<1> DEFINE row == task[t].row
<1>1. t \in Procs /\ task[t] \in Job /\ Alone(t) /\ UNCHANGED phase
  BY StepAlone DEF Step
<1>2. UNCHANGED <<devices, born>> /\ task[t].pc = "add_peer"
  BY DEF AddPeerStep, dbVars, At
<1>3. Adds(task[t]) = {row.key} /\ Removes(task[t]) = KeysOf(task[t].queue)
  BY <1>2 DEF Adds, Removes
<1>4. Shrinks /\ \A k : Live(k)' <=> Live(k)
  BY <1>2 DEF Shrinks, Live
<1>5. Quietly(t, task[t].queue) /\ task'[t].pc \notin KeyPCs
  BY <1>1, AddPeerQuietly
<1>6. /\ Inserts(task'[t]) = {} /\ Adds(task'[t]) = {} /\ Holds(task'[t]) = {}
      /\ Removes(task'[t]) \subseteq Removes(task[t])
  BY <1>3, <1>5 DEF Quietly, Inserts, Adds, Removes, Holds, KeyPCs
<1>7. \A k \in Removes(task'[t]) : ~Live(k)'
  BY <1>4, <1>6 DEF PeerInv, RemovesInv
<1>8. \A k \in Knows(task'[t]) : k \in Knows(task[t])
  BY <1>6 DEF Knows
<1>9. /\ \A k \in peers : k \in peers'
      /\ \A k \in peers' : k \in peers \/ k = row.key
      /\ \A k : k \in faulted \/ k = row.key => k \in peers' \/ k \in faulted'
  BY DEF AddPeerStep, AddPeer, Succeeds, Fails, wgVars
<1>10. row.key \in Knows(task[t]) /\ task'[t].pc # "cascade"
  BY <1>3, <1>5 DEF Knows, KeyPCs
<1> QED
  BY <1>1, <1>2, <1>3, <1>4, <1>6, <1>7, <1>8, <1>9, <1>10, TaskEffect

\* The commit of an edit: no device appears, none goes.
LEMMA SavePeers ==
  ASSUME TypeInv, ControlInv, PeerInv, NEW t \in Tasks, Save(t)
  PROVE  PeerInv'
<1> DEFINE row == task[t].row
           j == [task[t] EXCEPT !.pc = "refresh", !.want = {}]
<1>1. t \in Procs /\ task[t] \in Job /\ Alone(t) /\ UNCHANGED phase
  BY StepAlone DEF Step
<1>2. UNCHANGED <<born, peers, faulted>> /\ task[t].pc = "save"
  BY DEF Save, UpdateNets, dbVars, wgVars, ghosts, At
<1>3. /\ Adds(task[t]) = {} /\ Removes(task[t]) = KeysOf(task[t].queue)
      /\ row.key \in Knows(task[t])
  BY <1>2 DEF Adds, Removes, Holds, Knows
<1>4. Shrinks /\ \A k : Live(k)' => Live(k)
  <2>1. CASE UNCHANGED dbVars
    BY <2>1 DEF dbVars, Shrinks, Live
  <2>2. CASE UpdateNets(row.key, task[t].want)
    <3>1. \A r \in devices : LET q == [r EXCEPT !.nets = task[t].want]
                             IN  q.key = r.key /\ q.owner = r.owner
      BY DEF TypeInv, TypeOK, DbTypeOK, DeviceRow
    <3>2. Shrinks
      BY <2>2, <3>1 DEF UpdateNets, Shrinks
    <3> QED BY <3>2, ShrinksLive
  <2> QED BY <2>1, <2>2 DEF Save
<1>5. CASE Finish(t)
  BY <1>1, <1>2, <1>3, <1>4, <1>5, FinishKeys, TaskEffect
<1>6. CASE Become(t, j)
  <2>1. j.pc = "refresh" /\ j.row = row /\ j.queue = task[t].queue
    BY <1>1 DEF Job
  <2>2. task'[t] = j
    BY <1>1, <1>6, BecomeMoves
  <2> HIDE DEF j
  <2>3. /\ Inserts(task'[t]) = {} /\ Adds(task'[t]) = {row.key} /\ Holds(task'[t]) = {}
        /\ Removes(task'[t]) = Removes(task[t])
    BY <1>3, <2>1, <2>2 DEF Inserts, Adds, Removes, Holds, KeysOf
  <2>4. \A k \in Removes(task'[t]) : ~Live(k)'
    BY <1>4, <2>3 DEF PeerInv, RemovesInv
  <2>5. \A k \in Knows(task'[t]) : k \in Knows(task[t])
    BY <1>3, <2>3 DEF Knows
  <2> QED
    BY <1>1, <1>2, <1>3, <1>4, <2>1, <2>2, <2>3, <2>4, <2>5, TaskEffect
<1> QED
  BY <1>5, <1>6 DEF Save

\* The row goes before its peer.
LEMMA DeleteRowPeers ==
  ASSUME TypeInv, ControlInv, PeerInv, NEW t \in Tasks, DeleteRow(t)
  PROVE  PeerInv'
<1> DEFINE row == task[t].row
<1>1. t \in Procs /\ task[t] \in Job /\ Alone(t) /\ UNCHANGED phase
  BY StepAlone DEF Step
<1>2. UNCHANGED <<born, peers, faulted>> /\ task[t].pc = "delete_row"
  BY DEF DeleteRow, DeleteDevice, wgVars, ghosts, At
<1>3. /\ Adds(task[t]) = {} /\ Removes(task[t]) = KeysOf(task[t].queue)
      /\ row.key \in Knows(task[t])
  BY <1>2 DEF Adds, Removes, Holds, Knows
<1>4. Shrinks /\ \A k : Live(k)' => Live(k) /\ k # row.key
  BY DEF DeleteRow, DeleteDevice, Shrinks, Live
<1>5. /\ task'[t].pc = "remove_peer" /\ task'[t].row = row
      /\ task'[t].queue = task[t].queue
  BY <1>1, GotoContinues DEF DeleteRow
<1>6. /\ Inserts(task'[t]) = {} /\ Adds(task'[t]) = {} /\ Holds(task'[t]) = {}
      /\ Removes(task'[t]) = Removes(task[t]) \cup {row.key}
  BY <1>3, <1>5 DEF Inserts, Adds, Removes, Holds, KeysOf
<1>7. \A k \in Removes(task'[t]) : ~Live(k)'
  BY <1>4, <1>6 DEF PeerInv, RemovesInv
<1>8. \A k \in Knows(task'[t]) : k \in Knows(task[t])
  BY <1>3, <1>6 DEF Knows
<1> QED
  BY <1>1, <1>2, <1>3, <1>4, <1>5, <1>6, <1>7, <1>8, TaskEffect

\* The rows of a user's devices go before their peers.
LEMMA CascadePeers ==
  ASSUME TypeInv, ControlInv, PeerInv, NEW t \in Tasks, Cascade(t)
  PROVE  PeerInv'
<1>1. t \in Procs /\ task[t] \in Job /\ Alone(t) /\ UNCHANGED phase
  BY StepAlone DEF Step
<1>2. UNCHANGED <<born, peers, faulted>> /\ task[t].pc = "cascade"
  BY DEF Cascade, DeleteUser, wgVars, ghosts, At
<1>3. Adds(task[t]) = {} /\ Holds(task[t]) = KeysOf(task[t].queue)
  BY <1>2 DEF Adds, Holds
<1>4. Shrinks /\ \A k : Live(k)' => Live(k)
  BY DEF Cascade, DeleteUser, Shrinks, Live
<1>5. Quietly(t, task[t].queue)
  BY <1>1, NextDeviceQuietly DEF Cascade
<1>6. /\ Inserts(task'[t]) = {} /\ Adds(task'[t]) = {} /\ Holds(task'[t]) = {}
      /\ Removes(task'[t]) \subseteq KeysOf(task[t].queue)
      /\ task'[t].pc # "cascade"
  BY <1>5 DEF Quietly, Inserts, Adds, Removes, Holds, KeyPCs
<1>7. \A k \in Removes(task'[t]) : ~Live(k)'
  <2> SUFFICES ASSUME NEW r \in task[t].queue, NEW q \in devices', q.key = r.key
               PROVE  FALSE
    BY <1>6 DEF KeysOf, Live
  <2>1. q \in devices /\ q.owner # task[t].user
    BY DEF Cascade, DeleteUser
  <2> QED
    BY <1>2, <2>1 DEF PeerInv, CascadeInv, At
<1>8. \A k \in Knows(task'[t]) : k \in Knows(task[t])
  BY <1>3, <1>6 DEF Knows
<1> QED
  BY <1>1, <1>2, <1>3, <1>4, <1>6, <1>7, <1>8, TaskEffect

\* After remove_peer the next device of the queue is at hand, or none.
LEMMA RemovePeerQuietly ==
  ASSUME TypeInv, NEW t \in Procs, RemovePeerStep(t)
  PROVE  Quietly(t, task[t].queue)
<1>1. CASE Goto(t, "relay_subnets")
  BY <1>1, GotoContinues DEF Quietly, KeyPCs, KeysOf
<1>2. CASE NextDevice(t, task[t])
  BY <1>2, TaskType, NextDeviceQuietly
<1> QED BY <1>1, <1>2 DEF RemovePeerStep

\* wg set peer remove: only a peer whose device is gone is hit.
LEMMA RemovePeerStepPeers ==
  ASSUME TypeInv, ControlInv, PeerInv, NEW t \in Tasks, RemovePeerStep(t)
  PROVE  PeerInv'
<1> DEFINE row == task[t].row
<1>1. t \in Procs /\ task[t] \in Job /\ Alone(t) /\ UNCHANGED phase
  BY StepAlone DEF Step
<1>2. UNCHANGED <<devices, born>> /\ task[t].pc = "remove_peer"
  BY DEF RemovePeerStep, dbVars, At
<1>3. /\ Adds(task[t]) = {} /\ KeysOf(task[t].queue) \subseteq Removes(task[t])
      /\ row.key \in Removes(task[t])
  BY <1>2 DEF Adds, Removes
<1>4. Shrinks /\ \A k : Live(k)' <=> Live(k)
  BY <1>2 DEF Shrinks, Live
<1>5. Quietly(t, task[t].queue)
  BY <1>1, RemovePeerQuietly
<1>6. /\ Inserts(task'[t]) = {} /\ Adds(task'[t]) = {} /\ Holds(task'[t]) = {}
      /\ Removes(task'[t]) \subseteq Removes(task[t])
      /\ task'[t].pc # "cascade"
  BY <1>3, <1>5 DEF Quietly, Inserts, Adds, Removes, Holds, KeyPCs
<1>7. \A k \in Removes(task[t]) : ~Live(k)
  BY DEF PeerInv, RemovesInv
<1>8. \A k \in Removes(task'[t]) : ~Live(k)'
  BY <1>4, <1>6, <1>7
<1>9. \A k \in Knows(task'[t]) : k \in Knows(task[t])
  BY <1>6 DEF Knows
<1>10. /\ \A k \in peers' : k \in peers
       /\ \A k \in peers : k \in peers' \/ k = row.key
       /\ \A k \in faulted : k \in faulted' \/ k = row.key
  BY DEF RemovePeerStep, RemovePeer, Succeeds, Fails, wgVars
<1>11. ~Live(row.key)
  BY <1>3, <1>7
<1> QED
  BY <1>1, <1>2, <1>3, <1>4, <1>6, <1>8, <1>9, <1>10, <1>11, TaskEffect

-----------------------------------------------------------------------------
(* Starting an operation *)

\* A new operation takes hold of existing devices only.
LEMMA BeginEffect ==
  ASSUME TypeInv, PeerInv, NEW t \in Tasks, At(t, "idle"), NEW j, Become(t, j),
         UNCHANGED <<phase, devices, born, peers, faulted>>,
         Inserts(j) = {}, Adds(j) = {}, Removes(j) = {},
         \A k \in Holds(j) : Live(k),
         j.pc = "cascade" => \A r \in j.queue, q \in devices : q.key = r.key => q.owner = j.user
  PROVE  PeerInv'
<1>1. t \in Procs /\ Alone(t) /\ task'[t] = j
  BY BecomeMoves DEF Procs
<1>2. Adds(task[t]) = {}
  BY DEF At, Adds
<1>3. Shrinks /\ \A k : Live(k)' <=> Live(k)
  BY DEF Shrinks, Live
<1>4. \A k \in Knows(task'[t]) : Live(k)
  BY <1>1 DEF Knows
<1> QED
  BY <1>1, <1>2, <1>3, <1>4, TaskEffect

LEMMA StartUpdatePeers ==
  ASSUME TypeInv, PeerInv, NEW t \in Tasks, StartUpdate(t)
  PROVE  PeerInv'
<1> DEFINE j(r, n) == [Idle EXCEPT !.pc = "save", !.op = "update", !.row = r, !.want = n]
<1>1. PICK r \in devices, n \in SUBSET Subnets : Become(t, j(r, n))
  BY DEF StartUpdate
<1>2. j(r, n).pc = "save" /\ j(r, n).row = r /\ j(r, n).queue = {}
  BY DEF Idle
<1>3. At(t, "idle") /\ UNCHANGED <<phase, devices, born, peers, faulted>>
  BY DEF StartUpdate, CanStart, dbVars, wgVars
<1> HIDE DEF j
<1>4. /\ Inserts(j(r, n)) = {} /\ Adds(j(r, n)) = {} /\ Removes(j(r, n)) = {}
      /\ Holds(j(r, n)) = {r.key}
  BY <1>2 DEF Inserts, Adds, Removes, Holds, KeysOf
<1>5. \A k \in Holds(j(r, n)) : Live(k)
  BY <1>4 DEF Live
<1> QED
  BY <1>1, <1>2, <1>3, <1>4, <1>5, BeginEffect

LEMMA StartDeletePeers ==
  ASSUME TypeInv, PeerInv, NEW t \in Tasks, StartDelete(t)
  PROVE  PeerInv'
<1> DEFINE j(r) == [Idle EXCEPT !.pc = "delete_row", !.op = "delete", !.row = r]
<1>1. PICK r \in devices : Become(t, j(r))
  BY DEF StartDelete
<1>2. j(r).pc = "delete_row" /\ j(r).row = r /\ j(r).queue = {}
  BY DEF Idle
<1>3. At(t, "idle") /\ UNCHANGED <<phase, devices, born, peers, faulted>>
  BY DEF StartDelete, CanStart, dbVars, wgVars
<1> HIDE DEF j
<1>4. /\ Inserts(j(r)) = {} /\ Adds(j(r)) = {} /\ Removes(j(r)) = {}
      /\ Holds(j(r)) = {r.key}
  BY <1>2 DEF Inserts, Adds, Removes, Holds, KeysOf
<1>5. \A k \in Holds(j(r)) : Live(k)
  BY <1>4 DEF Live
<1> QED
  BY <1>1, <1>2, <1>3, <1>4, <1>5, BeginEffect

LEMMA StartDeleteUserPeers ==
  ASSUME TypeInv, PeerInv, NEW t \in Tasks, StartDeleteUser(t)
  PROVE  PeerInv'
<1> DEFINE j(u) == [Idle EXCEPT !.pc = "cascade", !.op = "delete_user", !.user = u,
                      !.queue = RowsOf(u)]
<1>1. PICK u \in users : Become(t, j(u))
  BY DEF StartDeleteUser
<1>2. j(u).pc = "cascade" /\ j(u).user = u /\ j(u).queue = RowsOf(u)
  BY DEF Idle
<1>3. At(t, "idle") /\ UNCHANGED <<phase, devices, born, peers, faulted>>
  BY DEF StartDeleteUser, CanStart, dbVars, wgVars
<1> HIDE DEF j
<1>4. /\ Inserts(j(u)) = {} /\ Adds(j(u)) = {} /\ Removes(j(u)) = {}
      /\ Holds(j(u)) = KeysOf(RowsOf(u))
  BY <1>2 DEF Inserts, Adds, Removes, Holds, KeysOf
<1>5. \A k \in Holds(j(u)) : Live(k)
  BY <1>4 DEF Live, KeysOf, RowsOf
<1>6. \A r \in j(u).queue, q \in devices : q.key = r.key => q.owner = j(u).user
  BY <1>2 DEF RowsOf, PeerInv, OwnerInv
<1> QED
  BY <1>1, <1>2, <1>3, <1>4, <1>5, <1>6, BeginEffect

\* Operations on rules know no keys.
LEMMA RuleBegins ==
  ASSUME NEW t \in Tasks,
         CreateRule(t) \/ UpdateRuleFromPage(t) \/ DeleteRuleRow(t) \/ ReorderRules(t)
  PROVE  /\ At(t, "idle") /\ UNCHANGED <<phase, devices, born, peers, faulted, contended>>
         /\ UNCHANGED task \/ \E j : Become(t, j) /\ j.queue = {} /\ j.pc \notin KeyPCs
<1>1. At(t, "idle") /\ UNCHANGED <<phase, devices, born, peers, faulted, contended>>
  BY DEF CreateRule, InsertRule, UpdateRuleFromPage, UpdateRule, DeleteRuleRow, DeleteRule,
         ReorderRules, CanStart, wgVars, ghosts
<1>2. CASE CreateRule(t)
  <2> DEFINE j == [Idle EXCEPT !.pc = "refresh_rule", !.op = "rule_create", !.rule = nextRule]
  <2>1. j.queue = {} /\ j.pc \notin KeyPCs BY DEF Idle, KeyPCs
  <2>2. Become(t, j) BY <1>2 DEF CreateRule
  <2> QED BY <1>1, <2>1, <2>2
<1>3. CASE UpdateRuleFromPage(t)
  <2> DEFINE j(r) == [Idle EXCEPT !.pc = "refresh_rule", !.op = "rule_update", !.rule = r.id]
  <2>1. ASSUME NEW r PROVE j(r).queue = {} /\ j(r).pc \notin KeyPCs BY DEF Idle, KeyPCs
  <2>2. \E r : Become(t, j(r)) BY <1>3 DEF UpdateRuleFromPage
  <2> QED BY <1>1, <2>1, <2>2
<1>4. CASE DeleteRuleRow(t) \/ ReorderRules(t)
  <2> DEFINE j(op, u) == [Idle EXCEPT !.pc = "read_rules", !.op = op, !.user = u]
  <2>1. ASSUME NEW op, NEW u PROVE j(op, u).queue = {} /\ j(op, u).pc \notin KeyPCs
    BY DEF Idle, KeyPCs
  <2>2. UNCHANGED task \/ \E op, u : Become(t, j(op, u))
    BY <1>4 DEF DeleteRuleRow, ReorderRules, TellOwner
  <2> QED BY <1>1, <2>1, <2>2
<1> QED
  BY <1>2, <1>3, <1>4

LEMMA StartRulePeers ==
  ASSUME TypeInv, PeerInv, NEW t \in Tasks,
         CreateRule(t) \/ UpdateRuleFromPage(t) \/ DeleteRuleRow(t) \/ ReorderRules(t)
  PROVE  PeerInv'
<1>1. CASE UNCHANGED task
  BY <1>1, RuleBegins, SamePeers
<1>2. ASSUME NEW j, Become(t, j), j.queue = {}, j.pc \notin KeyPCs
      PROVE  PeerInv'
  <2>1. Inserts(j) = {} /\ Adds(j) = {} /\ Removes(j) = {} /\ Holds(j) = {} /\ j.pc # "cascade"
    BY <1>2 DEF Inserts, Adds, Removes, Holds, KeysOf, KeyPCs
  <2> QED BY <1>2, <2>1, RuleBegins, BeginEffect
<1> QED
  BY <1>1, <1>2, RuleBegins

\* The key of a new device is known to nobody.
LEMMA StartCreatePeers ==
  ASSUME TypeInv, PeerInv, NEW t \in Tasks, StartCreate(t)
  PROVE  PeerInv'
<1> DEFINE row(k, u, a, n) == [key |-> k, owner |-> u, ip |-> a, nets |-> n]
           j(r) == [Idle EXCEPT !.pc = "insert", !.op = "create", !.row = r]
<1>1. PICK k, r : /\ k \in Devices \ born
                  /\ r.key = k
                  /\ Become(t, j(r))
                  /\ born' = born \cup {k}
  <2>1. PICK k \in Devices \ born, u \in users, a \in Addresses \ UsedIps, n \in SUBSET Subnets :
          Become(t, j(row(k, u, a, n))) /\ born' = born \cup {k}
    BY DEF StartCreate
  <2>2. row(k, u, a, n).key = k
    OBVIOUS
  <2> HIDE DEF row, j
  <2> QED BY <2>1, <2>2
<1>2. j(r).pc = "insert" /\ j(r).row = r /\ j(r).queue = {}
  BY DEF Idle
<1>3. task[t].pc = "idle" /\ UNCHANGED <<phase, devices, peers, faulted>>
  BY DEF StartCreate, CanStart, At, wgVars
<1> HIDE DEF j
<1>4. /\ Inserts(j(r)) = {k} /\ Adds(j(r)) = {} /\ Removes(j(r)) = {} /\ Holds(j(r)) = {}
  BY <1>1, <1>2 DEF Inserts, Adds, Removes, Holds, KeysOf
<1>5. t \in Procs /\ Alone(t) /\ task'[t] = j(r)
  BY <1>1, BecomeMoves DEF Procs
<1>6. UNCHANGED task[Boot] /\ \A s \in Tasks \ {t} : task'[s] = task[s]
  BY <1>5, EventBridgeAssumption DEF Alone, Procs
<1>7. UNCHANGED <<Missing, Gone, BeforeRead>> /\ \A q : Live(q)' <=> Live(q)
  BY <1>3, <1>6 DEF Missing, Gone, BeforeRead, Live
<1>8. Knows(task'[t]) = {} /\ Adds(task[t]) = {} /\ Inserts(task'[t]) = {k}
      /\ Removes(task'[t]) = {} /\ Inserts(task[t]) = {}
  BY <1>3, <1>4, <1>5 DEF Knows, Adds, Inserts
<1>9. \A q : Known(q)' => Known(q)
  BY <1>3, <1>6, <1>7, <1>8 DEF Known
<1>10. BornInv'
  <2>1. ~Known(k) /\ \A s \in Tasks : k \notin Inserts(task[s])
    BY <1>1 DEF PeerInv, BornInv
  <2> QED
    BY <1>1, <1>6, <1>8, <1>9, <2>1 DEF PeerInv, BornInv
<1>11. RemovesInv'
  BY <1>6, <1>7, <1>8 DEF PeerInv, RemovesInv
<1>12. SeenInv' /\ QueueInv' /\ OwnerInv'
  BY <1>3, <1>6, <1>7 DEF PeerInv, SeenInv, QueueInv, OwnerInv, At
<1>13. CascadeInv'
  BY <1>2, <1>3, <1>5, <1>6 DEF PeerInv, CascadeInv, At
<1>14. CoverInv'
  <2>1. \A q : Added(q) => Added(q)'
    BY <1>6, <1>8 DEF Added
  <2> QED
    BY <1>3, <1>7, <2>1 DEF PeerInv, CoverInv
<1> QED
  BY <1>10, <1>11, <1>12, <1>13, <1>14 DEF PeerInv

-----------------------------------------------------------------------------
(* Startup *)

LEMMA BootEffect ==
  ASSUME PeerInv, Alone(Boot), UNCHANGED <<devices, born>>,
         \A k \in peers' : k \in peers \/ k \in Missing,
         \A k \in Missing' : k \in Missing \/ Live(k),
         \A k \in Gone' : k \in Gone \/ k \in peers,
         ~BeforeRead' => \A k \in Gone' : ~Live(k),
         BeforeRead' => \A k \in Gone' : Live(k) => k \in peers',
         task'[Boot].pc \notin {"db_rules", "add_missing"} => task'[Boot].queue = {},
         ~BeforeRead' => \A k \in Devices : Live(k) =>
            k \in peers' \/ k \in faulted' \/ Added(k) \/ k \in Missing'
  PROVE  PeerInv'
<1>1. \A t \in Tasks : task'[t] = task[t]
  BY EventBridgeAssumption DEF Alone, Procs
<1>2. \A k : (Live(k)' <=> Live(k)) /\ (Added(k)' <=> Added(k))
  BY <1>1 DEF Live, Added
<1>3. \A k : Known(k)' => Known(k)
  BY <1>1, <1>2 DEF Known
<1>4. BornInv'
  BY <1>1, <1>3 DEF PeerInv, BornInv
<1>5. RemovesInv'
  BY <1>1, <1>2 DEF PeerInv, RemovesInv
<1>6. SeenInv' /\ QueueInv' /\ OwnerInv'
  BY <1>2 DEF PeerInv, SeenInv, QueueInv, OwnerInv, At
<1>7. CascadeInv'
  BY <1>1 DEF PeerInv, CascadeInv, At
<1>8. CoverInv'
  BY <1>2 DEF CoverInv
<1> QED
  BY <1>4, <1>5, <1>6, <1>7, <1>8 DEF PeerInv

\* Steps of startup on rules, chains and routes.
LEMMA BootQuietly ==
  ASSUME TypeInv, ControlInv, PeerInv, Alone(Boot), phase = "startup",
         UNCHANGED <<devices, born, peers>>, ~BeforeRead, ~BeforeRead',
         \A k \in Devices : k \in faulted => k \in faulted',
         \/ task'[Boot].queue = {} /\ task[Boot].pc \notin {"db_rules", "add_missing"}
         \/ task'[Boot].queue = task[Boot].queue /\ task'[Boot].pc \in {"db_rules", "add_missing"},
         task'[Boot].gone \subseteq task[Boot].gone
  PROVE  PeerInv'
<1>1. KeysOf(task'[Boot].queue) = KeysOf(task[Boot].queue)
  BY DEF PeerInv, QueueInv, KeysOf
<1>2. Missing' = Missing /\ Gone' \subseteq Gone
  BY <1>1 DEF Missing, Gone
<1>3. \A k \in Gone : ~Live(k)
  BY DEF PeerInv, RemovesInv
<1>4. \A k \in Devices : Live(k) =>
            k \in peers' \/ k \in faulted' \/ Added(k) \/ k \in Missing'
  BY <1>2 DEF PeerInv, CoverInv
<1>5. task'[Boot].pc \notin {"db_rules", "add_missing"} => task'[Boot].queue = {}
  OBVIOUS
<1> QED
  BY <1>2, <1>3, <1>4, <1>5, BootEffect

LEMMA BootAt ==
  ASSUME TypeInv, ControlInv, ~At(Boot, "idle")
  PROVE  phase = "startup" /\ task[Boot] \in Job /\ task[Boot].op = "boot"
BY BootType, TaskType DEF ControlInv, Booting

LEMMA GetPeersPeers ==
  ASSUME TypeInv, ControlInv, PeerInv, GetPeers
  PROVE  PeerInv'
<1> DEFINE j == [task[Boot] EXCEPT !.pc = "db_devices", !.gone = peers]
<1>1. task[Boot] \in Job /\ task[Boot].pc = "get_peers"
  BY BootAt DEF GetPeers, At
<1>2. UNCHANGED <<devices, born, peers>>
  BY DEF GetPeers, dbVars, wgVars
<1>3. task[Boot].queue = {}
  BY <1>1 DEF PeerInv, QueueInv
<1>4. /\ Alone(Boot) /\ task'[Boot].pc = "db_devices" /\ task'[Boot].queue = {}
      /\ \A k \in task'[Boot].gone : k \in task[Boot].gone \/ k \in peers
      /\ task'[Boot].gone = peers \/ task'[Boot].gone = task[Boot].gone
  <2>1. CASE Become(Boot, j)
    <3>1. j.pc = "db_devices" /\ j.queue = {} /\ j.gone = peers BY <1>1, <1>3 DEF Job
    <3>2. task'[Boot] = j /\ Alone(Boot) BY <2>1, BootType, BecomeMoves
    <3> HIDE DEF j
    <3> QED BY <3>1, <3>2
  <2>2. CASE Goto(Boot, "db_devices")
    BY <2>2, <1>3, BootType, GotoContinues DEF Continues
  <2> QED BY <2>1, <2>2 DEF GetPeers
<1> QED
  BY <1>1, <1>2, <1>3, <1>4, BootEffect
  DEF PeerInv, SeenInv, Missing, Gone, BeforeRead, KeysOf

LEMMA ReadAllDevicesPeers ==
  ASSUME TypeInv, ControlInv, PeerInv, ReadAllDevices
  PROVE  PeerInv'
<1> DEFINE seen == task[Boot].gone
           j(w, e, x) == [task[Boot] EXCEPT !.pc = "db_rules", !.queue = MissingPeers(seen),
                            !.gone = OrphanPeers(seen), !.want = w, !.entries = e, !.jumps = x]
<1>1. task[Boot] \in Job /\ task[Boot].pc = "db_devices"
  BY BootAt DEF ReadAllDevices, At
<1>2. UNCHANGED <<devices, born, peers, faulted>>
  BY DEF ReadAllDevices, dbVars, wgVars, ghosts
<1>3. /\ Alone(Boot) /\ task'[Boot].pc = "db_rules"
      /\ task'[Boot].queue = MissingPeers(seen) /\ task'[Boot].gone = OrphanPeers(seen)
  <2>1. PICK w, e, x : Become(Boot, j(w, e, x)) BY DEF ReadAllDevices
  <2>2. /\ j(w, e, x).pc = "db_rules" /\ j(w, e, x).queue = MissingPeers(seen)
        /\ j(w, e, x).gone = OrphanPeers(seen)
    BY <1>1 DEF Job
  <2>3. task'[Boot] = j(w, e, x) /\ Alone(Boot) BY <2>1, BootType, BecomeMoves
  <2> HIDE DEF j
  <2> QED BY <2>2, <2>3
<1>4. \A k \in seen : Live(k) => k \in peers
  BY <1>1 DEF PeerInv, SeenInv, BeforeRead, Gone
<1>5. Missing' = KeysOf(MissingPeers(seen)) /\ Gone' = OrphanPeers(seen)
  BY <1>3 DEF Missing, Gone, KeysOf
<1>6. \A k \in Gone' : k \in Gone /\ ~Live(k)
  BY <1>5 DEF OrphanPeers, LiveKeys, Live, Gone
<1>7. \A k \in Missing' : Live(k)
  BY <1>5 DEF MissingPeers, KeysOf, Live
<1>8. \A k \in Devices : Live(k) => k \in peers \/ k \in Missing'
  BY <1>4, <1>5 DEF MissingPeers, KeysOf, Live
<1> QED
  BY <1>2, <1>3, <1>6, <1>7, <1>8, BootEffect

LEMMA ReadAllRulesPeers ==
  ASSUME TypeInv, ControlInv, PeerInv, ReadAllRules
  PROVE  PeerInv'
<1> DEFINE j(e, b) == [task[Boot] EXCEPT !.pc = "add_missing", !.entries = e, !.bodies = b]
<1>1. task[Boot] \in Job /\ task[Boot].pc = "db_rules" /\ phase = "startup"
  BY BootAt DEF ReadAllRules, At
<1>2. UNCHANGED <<devices, born, peers, faulted>>
  BY DEF ReadAllRules, dbVars, wgVars, ghosts
<1>3. PICK e, b : Become(Boot, j(e, b))
  BY DEF ReadAllRules
<1>4. /\ j(e, b).pc = "add_missing" /\ j(e, b).queue = task[Boot].queue
      /\ j(e, b).gone = task[Boot].gone
  BY <1>1 DEF Job
<1>5. task'[Boot] = j(e, b) /\ Alone(Boot)
  BY <1>3, BootType, BecomeMoves
<1> HIDE DEF j
<1> QED
  BY <1>1, <1>2, <1>4, <1>5, BootQuietly DEF BeforeRead

LEMMA AddMissingPeerPeers ==
  ASSUME TypeInv, ControlInv, PeerInv, AddMissingPeer
  PROVE  PeerInv'
<1> DEFINE j(r) == [task[Boot] EXCEPT !.queue = @ \ {r}]
<1>1. task[Boot] \in Job /\ task[Boot].pc = "add_missing" /\ phase = "startup"
  BY BootAt DEF AddMissingPeer, At
<1>2. UNCHANGED <<devices, born>>
  BY DEF AddMissingPeer, dbVars
<1>3. CASE task[Boot].queue = {} /\ Goto(Boot, "remove_orphans") /\ UNCHANGED <<wgVars, faulted>>
  <2>1. /\ task'[Boot].pc = "remove_orphans" /\ Alone(Boot)
        /\ task'[Boot].queue = {} /\ task'[Boot].gone = task[Boot].gone
    BY <1>3, BootType, GotoContinues DEF Continues
  <2>2. Missing' = {} /\ Missing = {} /\ Gone' = Gone
    BY <1>3, <2>1 DEF Missing, Gone, KeysOf
  <2> QED
    BY <1>1, <1>2, <1>3, <2>1, <2>2, BootEffect
    DEF wgVars, BeforeRead, PeerInv, RemovesInv, CoverInv
<1>4. ASSUME NEW r \in task[Boot].queue,
             \/ AddPeer(r.key, AllowedIps(r)) /\ Succeeds({r.key})
             \/ UNCHANGED wgVars /\ Fails({r.key}),
             Become(Boot, j(r))
      PROVE  PeerInv'
  <2>1. j(r).pc = "add_missing" /\ j(r).queue = task[Boot].queue \ {r}
        /\ j(r).gone = task[Boot].gone
    BY <1>1 DEF Job
  <2>2. task'[Boot] = j(r) /\ Alone(Boot)
    BY <1>4, BootType, BecomeMoves
  <2> HIDE DEF j
  <2>3. /\ \A k \in peers : k \in peers'
        /\ \A k \in peers' : k \in peers \/ k = r.key
        /\ \A k : k \in faulted \/ k = r.key => k \in peers' \/ k \in faulted'
    BY <1>4 DEF AddPeer, Succeeds, Fails, wgVars
  <2>4. r.key \in Missing /\ (\A k \in Missing' : k \in Missing)
        /\ (\A k \in Missing : k \in Missing' \/ k = r.key) /\ Gone' = Gone
    BY <2>1, <2>2, <1>4 DEF Missing, Gone, KeysOf
  <2> QED
    BY <1>1, <1>2, <2>1, <2>2, <2>3, <2>4, BootEffect
    DEF BeforeRead, PeerInv, RemovesInv, CoverInv
<1> QED
  BY <1>3, <1>4 DEF AddMissingPeer

LEMMA RemoveOrphanPeerPeers ==
  ASSUME TypeInv, ControlInv, PeerInv, RemoveOrphanPeer
  PROVE  PeerInv'
<1> DEFINE j(k) == [task[Boot] EXCEPT !.gone = @ \ {k}]
<1>1. task[Boot] \in Job /\ task[Boot].pc = "remove_orphans" /\ phase = "startup"
  BY BootAt DEF RemoveOrphanPeer, At
<1>2. UNCHANGED <<devices, born>> /\ task[Boot].queue = {} /\ ~BeforeRead
  BY <1>1 DEF RemoveOrphanPeer, dbVars, PeerInv, QueueInv, BeforeRead
<1>3. CASE Goto(Boot, "list_chains") /\ UNCHANGED <<wgVars, faulted>>
  <2>1. /\ task'[Boot].pc = "list_chains" /\ Alone(Boot)
        /\ task'[Boot].queue = {} /\ task'[Boot].gone = task[Boot].gone
    BY <1>2, <1>3, BootType, GotoContinues DEF Continues
  <2> QED
    BY <1>1, <1>2, <1>3, <2>1, BootQuietly DEF wgVars, BeforeRead
<1>4. ASSUME NEW k \in task[Boot].gone,
             \/ RemovePeer(k) /\ Succeeds({k})
             \/ UNCHANGED wgVars /\ Fails({k}),
             Become(Boot, j(k))
      PROVE  PeerInv'
  <2>1. j(k).pc = "remove_orphans" /\ j(k).queue = {} /\ j(k).gone = task[Boot].gone \ {k}
    BY <1>1, <1>2 DEF Job
  <2>2. task'[Boot] = j(k) /\ Alone(Boot)
    BY <1>4, BootType, BecomeMoves
  <2> HIDE DEF j
  <2>3. /\ \A q \in peers' : q \in peers
        /\ \A q \in peers : q \in peers' \/ q = k
        /\ \A q \in faulted : q \in faulted' \/ q = k
    BY <1>4 DEF RemovePeer, Succeeds, Fails, wgVars
  <2>4. Missing' = {} /\ Missing = {} /\ Gone' \subseteq Gone /\ k \in Gone
    BY <2>1, <2>2, <1>2, <1>4 DEF Missing, Gone, KeysOf
  <2>5. \A q \in Gone : ~Live(q)
    BY <1>2 DEF PeerInv, RemovesInv
  <2>6. \A q \in Devices : Live(q) => q \in peers \/ q \in faulted \/ Added(q)
    BY <1>1, <1>2, <2>4 DEF PeerInv, CoverInv
  <2> QED
    BY <1>2, <2>1, <2>2, <2>3, <2>4, <2>5, <2>6, BootEffect DEF BeforeRead
<1> QED
  BY <1>3, <1>4 DEF RemoveOrphanPeer

LEMMA BootRoutesLeft ==
  ASSUME TypeInv, NEW j \in Job, j.op = "boot", j.queue = {}, RoutesLeft(Boot, j)
  PROVE  /\ Alone(Boot) /\ task'[Boot].pc \in {"routes", "idle"}
         /\ task'[Boot].queue = {} /\ task'[Boot].gone \subseteq j.gone
<1>1. CASE Become(Boot, [j EXCEPT !.pc = "routes"])
  <2> DEFINE k == [j EXCEPT !.pc = "routes"]
  <2>1. k.pc = "routes" /\ k.queue = {} /\ k.gone = j.gone BY DEF Job
  <2>2. task'[Boot] = k /\ Alone(Boot) BY <1>1, BootType, BecomeMoves
  <2> HIDE DEF k
  <2> QED BY <2>1, <2>2
<1>2. CASE Finish(Boot)
  BY <1>2, BootType, FinishContinues DEF Continues, Idle
<1> QED
  BY <1>1, <1>2 DEF RoutesLeft, AfterRoutes

LEMMA BootSharedQuietly ==
  ASSUME TypeInv, ControlInv, PeerInv, SharedStep(Boot)
  PROVE  /\ phase = "startup" /\ UNCHANGED <<devices, born, peers>>
         /\ task[Boot].pc \in {"interface_routes", "routes", "list_chains", "nft_batch"}
         /\ task[Boot].queue = {} /\ task'[Boot].queue = {}
         /\ task'[Boot].gone \subseteq task[Boot].gone
         /\ Alone(Boot) /\ task'[Boot].pc \notin {"get_peers", "db_devices"}
         /\ \A k \in Devices : k \in faulted => k \in faulted'
<1> USE BootType
<1>1. /\ phase = "startup" /\ task[Boot] \in Job /\ task[Boot].op = "boot"
      /\ task[Boot].pc \in {"interface_routes", "routes", "list_chains", "nft_batch"}
  <2>1. task[Boot].pc \in {"interface_routes", "routes", "list_chains", "nft_batch"}
    BY DEF SharedStep, InterfaceRoutes, RouteAdd, RouteDel, ListChains, NftBatch, At
  <2> QED BY <2>1, BootAt DEF At
<1>2. task[Boot].queue = {}
  BY <1>1 DEF PeerInv, QueueInv
<1>3. UNCHANGED <<devices, born, peers>>
  BY DEF SharedStep, InterfaceRoutes, RouteAdd, RouteDel, ListChains, NftBatch,
         AddRoute, RemoveRoute, dbVars, wgVars
<1>4. \A k \in Devices : k \in faulted => k \in faulted'
  <2>1. CASE InterfaceRoutes(Boot)
    BY <2>1 DEF InterfaceRoutes, Fails
  <2>2. CASE RouteAdd(Boot)
    <3>1. PICK s \in task[Boot].add : Succeeds({s}) \/ Fails({s}) BY <2>2 DEF RouteAdd
    <3>2. {s} \in SUBSET (Subnets \cup Users) BY <1>1 DEF Job
    <3> QED BY <3>1, <3>2, KeysStayFaulted
  <2>3. CASE RouteDel(Boot)
    <3>1. PICK s \in task[Boot].drop : Succeeds({s}) \/ Fails({s}) BY <2>3 DEF RouteDel
    <3>2. {s} \in SUBSET (Subnets \cup Users) BY <1>1 DEF Job
    <3> QED BY <3>1, <3>2, KeysStayFaulted
  <2>4. CASE ListChains(Boot)
    BY <2>4 DEF ListChains, Fails
  <2>5. CASE NftBatch(Boot)
    <3>1. task[Boot].entries \cup task[Boot].orphans \in SUBSET (Subnets \cup Users)
      BY <1>1 DEF Job
    <3> QED BY <2>5, <3>1, KeysStayFaulted DEF NftBatch
  <2> QED BY <2>1, <2>2, <2>3, <2>4, <2>5 DEF SharedStep
<1>5. /\ Alone(Boot) /\ task'[Boot].queue = {} /\ task'[Boot].gone \subseteq task[Boot].gone
      /\ task'[Boot].pc \notin {"get_peers", "db_devices"}
  <2>1. CASE InterfaceRoutes(Boot) \/ RouteAdd(Boot) \/ RouteDel(Boot)
    BY <1>1, <1>2, <2>1, InterfaceRoutesPlan, RouteAddPlan, RouteDelPlan, BootRoutesLeft
  <2>2. CASE ListChains(Boot)
    <3> DEFINE k(x) == [task[Boot] EXCEPT !.pc = "nft_batch", !.orphans = x]
    <3>1. ASSUME NEW x
          PROVE  k(x).pc = "nft_batch" /\ k(x).queue = {} /\ k(x).gone = task[Boot].gone
      BY <1>1, <1>2 DEF Job
    <3>2. ASSUME NEW x, Become(Boot, k(x))
          PROVE  task'[Boot] = k(x) /\ Alone(Boot)
      BY <3>2, BecomeMoves
    <3>3. \E x : Become(Boot, k(x)) BY <2>2 DEF ListChains
    <3> HIDE DEF k
    <3> QED BY <3>1, <3>2, <3>3
  <2>3. CASE NftBatch(Boot)
    <3> DEFINE k(w) == [Idle EXCEPT !.pc = "interface_routes", !.op = "boot", !.want = w]
    <3>1. ASSUME NEW w
          PROVE  k(w).pc = "interface_routes" /\ k(w).queue = {} /\ k(w).gone = {}
      BY DEF Idle
    <3>2. Become(Boot, k(task[Boot].want))
      BY <1>1, <2>3 DEF NftBatch
    <3>3. task'[Boot] = k(task[Boot].want) /\ Alone(Boot)
      BY <3>2, BecomeMoves
    <3> HIDE DEF k
    <3> QED BY <3>1, <3>3
  <2> QED BY <2>1, <2>2, <2>3 DEF SharedStep
<1> QED
  BY <1>1, <1>2, <1>3, <1>4, <1>5

LEMMA BootSharedStepPeers ==
  ASSUME TypeInv, ControlInv, PeerInv, SharedStep(Boot)
  PROVE  PeerInv'
BY BootSharedQuietly, BootQuietly DEF BeforeRead

\* A crash takes every task with it; what is left is known from the database and
\* the interface.
LEMMA CrashPeers ==
  ASSUME TypeInv, PeerInv, Crash
  PROVE  PeerInv'
<1>1. \A t \in Procs : task'[t] = Idle
  BY DEF Crash
<1>2. /\ Inserts(Idle) = {} /\ Knows(Idle) = {} /\ Removes(Idle) = {} /\ Adds(Idle) = {}
      /\ Idle.pc = "idle" /\ Idle.queue = {} /\ Idle.gone = {}
  BY DEF Idle, Inserts, Knows, Adds, Removes, Holds, KeysOf
<1>3. UNCHANGED <<devices, born>> /\ peers' \subseteq peers /\ phase' = "down"
  BY DEF Crash, dbVars, wgVars
<1>4. Missing' = {} /\ Gone' = {} /\ ~BeforeRead' /\ (\A k : Live(k)' <=> Live(k))
  BY <1>1, <1>2, <1>3, BootType DEF Missing, Gone, BeforeRead, KeysOf, Live
<1>5. \A t \in Tasks : task'[t] = Idle
  BY <1>1 DEF Procs
<1>6. \A k : Known(k)' => Known(k)
  BY <1>2, <1>3, <1>4, <1>5 DEF Known
<1>7. BornInv' /\ RemovesInv' /\ SeenInv' /\ CoverInv'
  BY <1>2, <1>3, <1>4, <1>5, <1>6 DEF PeerInv, BornInv, RemovesInv, SeenInv, CoverInv
<1>8. CascadeInv' /\ OwnerInv' /\ QueueInv'
  BY <1>1, <1>2, <1>3, <1>5, BootType DEF PeerInv, CascadeInv, OwnerInv, QueueInv, At
<1> QED
  BY <1>7, <1>8 DEF PeerInv

LEMMA StartupFailsPeers ==
  ASSUME TypeInv, ControlInv, PeerInv, StartupFails
  PROVE  PeerInv'
<1>1. UNCHANGED <<task, devices, born, peers>> /\ phase' \notin {"startup", "up"}
  BY DEF StartupFails, ConfigureInterface, dbVars, wgVars
<1> QED
  BY <1>1 DEF PeerInv, BornInv, RemovesInv, SeenInv, CascadeInv, OwnerInv, QueueInv, CoverInv,
              Known, Missing, Gone, BeforeRead, Live, At

LEMMA RestartPeers ==
  ASSUME TypeInv, ControlInv, PeerInv, Restart
  PROVE  PeerInv'
<1> DEFINE j == [Idle EXCEPT !.pc = "get_peers", !.op = "boot"]
<1>1. j.pc = "get_peers" /\ j.queue = {} /\ j.gone = {}
  BY DEF Idle
<1>2. task'[Boot] = j /\ Alone(Boot)
  BY BootType, BecomeMoves DEF Restart, Become
<1>3. UNCHANGED <<devices, born, peers>>
  BY DEF Restart, ConfigureInterface, dbVars
<1> HIDE DEF j
<1>4. Missing' = {} /\ Gone' = {} /\ BeforeRead'
  BY <1>1, <1>2 DEF Missing, Gone, BeforeRead, KeysOf
<1> QED
  BY <1>1, <1>2, <1>3, <1>4, BootEffect

-----------------------------------------------------------------------------
(* The theorem *)

LEMMA PeerInit == Init => PeerInv
BY BootType
   DEF Init, DbInit, PeerInv, BornInv, RemovesInv, SeenInv, CascadeInv, OwnerInv, QueueInv,
       CoverInv, Known, Live, Missing, Gone, BeforeRead, KeysOf, Knows, Inserts, Adds,
       Removes, Holds, Idle, Procs, At

LEMMA PeerNext == TypeInv /\ ControlInv /\ PeerInv /\ [Next]_allVars => PeerInv'
<1> SUFFICES ASSUME TypeInv, ControlInv, PeerInv, [Next]_allVars PROVE PeerInv'
  OBVIOUS
<1>1. ASSUME NEW t \in Tasks, Start(t) PROVE PeerInv'
  BY <1>1, StartCreatePeers, StartUpdatePeers, StartDeletePeers, StartDeleteUserPeers,
     StartRulePeers
  DEF Start
<1>2. CASE UpdateRuleFromApi
  BY <1>2, SamePeers DEF UpdateRuleFromApi, UpdateRule, wgVars, taskVars, ghosts
<1>3. ASSUME NEW t \in Tasks, Step(t) PROVE PeerInv'
  <2>1. task[t].op # "boot"
    BY DEF ControlInv, Serve
  <2> QED
    BY <1>3, <2>1, InsertPeers, RefreshPeers, SavePeers, DeleteRowPeers, CascadePeers,
       AbandonCreatePeers, AddPeerStepPeers, RemovePeerStepPeers, PolicyQuietly,
       RoutesQuietly, QuietStep
    DEF Step, SharedStep
<1>4. CASE Crash
  BY <1>4, CrashPeers
<1>5. CASE Restart
  BY <1>5, RestartPeers
<1>6. CASE BootStep
  BY <1>6, GetPeersPeers, ReadAllDevicesPeers, ReadAllRulesPeers, AddMissingPeerPeers,
     RemoveOrphanPeerPeers, BootSharedStepPeers
  DEF BootStep
<1>7. CASE StartupFails
  BY <1>7, StartupFailsPeers
<1>8. CASE UNCHANGED allVars
  BY <1>8, SamePeers DEF allVars, vars, dbVars, wgVars, taskVars, ghosts
<1> QED
  BY <1>1, <1>2, <1>3, <1>4, <1>5, <1>6, <1>7, <1>8 DEF Next, TaskStep

\* Once startup is over nothing is missing, and whoever is about to add a peer is
\* at refresh or add_peer.
LEMMA PeersCovered == TypeInv /\ ControlInv /\ PeerInv => LiveDevicesHavePeers
<1> SUFFICES ASSUME TypeInv, ControlInv, PeerInv, phase = "up", NEW r \in devices
             PROVE  r.key \in peers \cup faulted \/ AddPending(r.key)
  BY DEF LiveDevicesHavePeers
<1>1. r.key \in Devices /\ Live(r.key)
  BY DEF TypeInv, TypeOK, DbTypeOK, DeviceRow, Live
<1>2. task[Boot].pc = "idle"
  BY DEF ControlInv, Booting, At
<1>3. ~BeforeRead /\ Missing = {}
  BY <1>2 DEF BeforeRead, PeerInv, QueueInv, Missing, KeysOf
<1>4. r.key \in peers \/ r.key \in faulted \/ Added(r.key)
  BY <1>1, <1>3 DEF PeerInv, CoverInv
<1>5. Added(r.key) => AddPending(r.key)
  BY DEF Added, Adds, AddPending
<1> QED
  BY <1>4, <1>5

\* However many operations overlap, wherever the process dies and however it is
\* restarted, and whether or not requests are served during startup: every device
\* in the database is a WireGuard peer once the system is up, unless its add_peer
\* is still to come or failed.  In particular no remove_peer ever hits a device
\* that still exists (on_device_created, on_device_deleted,
\* delete_user_and_cleanup, reconcile).
THEOREM LivePeers == Spec => []LiveDevicesHavePeers
BY TypeInit, TypeNext, ControlInit, ControlNext, PeerInit, PeerNext, PeersCovered, PTL DEF Spec

=============================================================================
