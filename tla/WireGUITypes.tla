---------------------------- MODULE WireGUITypes ----------------------------
(***************************************************************************)
(* Type correctness of WireGUI; who runs when: no task is under way while  *)
(* the process is down, and the startup task is under way exactly during   *)
(* startup; and what follows for the tunnel network: no synchronisation of *)
(* relay routes can ever remove its route.                                 *)
(*                                                                         *)
(* TypeOK is not inductive by itself: a handler uses the owner and the     *)
(* subnets of the row it holds, so the row must really be one wherever it  *)
(* is used.  RowsHeld says at which points of a handler that is so.        *)
(***************************************************************************)
EXTENDS WireGUI, TLAPS

\* Where a task holds a device row.
RowPCs == {"insert", "refresh", "save", "delete_row", "add_peer", "remove_peer",
           "add_user_chain", "add_jumps", "relay_subnets"}

Held(j) ==
  /\ j.pc \in RowPCs => j.row \in DeviceRow
  /\ j.pc \in {"interface_routes", "routes"} /\ j.op # "boot" => j.row \in DeviceRow
  /\ j.pc = "read_rules" => j.user \in Users

RowsHeld == \A t \in Procs : Held(task[t])

TypeInv == TypeOK /\ RowsHeld

-----------------------------------------------------------------------------
(* The parts of the state *)

LEMMA IdleType == Idle \in Job /\ Held(Idle)
BY DatabaseAssumption, EventBridgeAssumption
   DEF Idle, Job, PCs, NoRules, Chain, AllOps, Held, RowPCs

\* The chain made of any set of rules has their expressions in its places.
LEMMA OrderedType ==
  ASSUME NEW rows \in SUBSET RuleRow
  PROVE  Ordered(rows) \in Chain
<1>1. ASSUME NEW i \in Places, \E r \in rows : Place(r, rows) = i
      PROVE  (CHOOSE r \in rows : Place(r, rows) = i).expr \in Exprs
  BY <1>1 DEF RuleRow
<1> QED BY <1>1 DEF Ordered, Chain

LEMMA JumpsType ==
  ASSUME NEW rows \in SUBSET DeviceRow
  PROVE  JumpsFor(rows) \subseteq (Addresses \cup Subnets) \X Users
BY DEF JumpsFor, AllowedIps, DeviceRow

LEMMA RelaySubnetsType ==
  ASSUME DbTypeOK
  PROVE  RelaySubnets \subseteq Subnets
BY DEF RelaySubnets, DbTypeOK, DeviceRow

LEMMA RoutesToRemoveType ==
  ASSUME NEW want \in SUBSET Subnets, NEW actual \in SUBSET (Subnets \cup {TunnelNet})
  PROVE  RoutesToRemove(want, actual) \subseteq Subnets
BY DEF RoutesToRemove

LEMMA DbSame  == DbTypeOK /\ UNCHANGED dbVars => DbTypeOK'
BY DEF DbTypeOK, dbVars

LEMMA WgSame  == WgTypeOK /\ UNCHANGED wgVars => WgTypeOK'
BY DEF WgTypeOK, wgVars

LEMMA NftSame == NftTypeOK /\ UNCHANGED nftVars => NftTypeOK'
BY DEF NftTypeOK, nftVars

LEMMA AddPeerType ==
  ASSUME WgTypeOK, NEW k \in Devices, NEW ips, AddPeer(k, ips)
  PROVE  WgTypeOK'
BY DEF WgTypeOK, AddPeer, Carried

LEMMA RemovePeerType ==
  ASSUME WgTypeOK, NEW k \in Devices, RemovePeer(k)
  PROVE  WgTypeOK'
BY DEF WgTypeOK, RemovePeer, Carried

Ghosts == Devices \cup Subnets \cup Users

LEMMA CommandType ==
  ASSUME TaskTypeOK, NEW x \in SUBSET Ghosts, Succeeds(x) \/ Fails(x)
  PROVE  faults' \in 0..MaxFaults /\ faulted' \subseteq Ghosts
BY EventBridgeAssumption DEF TaskTypeOK, Succeeds, Fails, Ghosts

\* What a task that goes from one step to the next leaves of TaskTypeOK to show.
LEMMA BecomeType ==
  ASSUME TypeInv, NEW t \in Procs, NEW j, j \in Job, Held(j), Become(t, j)
  PROVE  task' \in [Procs -> Job] /\ RowsHeld'
BY DEF TypeInv, TypeOK, TaskTypeOK, Become, RowsHeld

LEMMA TaskType ==
  ASSUME TypeInv, NEW t \in Procs
  PROVE  task[t] \in Job /\ Held(task[t])
BY DEF TypeInv, TypeOK, TaskTypeOK, RowsHeld

LEMMA GotoType ==
  ASSUME TypeInv, NEW t \in Procs, NEW pc \in PCs, Goto(t, pc),
         pc \in RowPCs \cup {"interface_routes", "routes"} => task[t].row \in DeviceRow,
         pc = "read_rules" => task[t].user \in Users
  PROVE  task' \in [Procs -> Job] /\ RowsHeld'
<1> DEFINE j == [task[t] EXCEPT !.pc = pc]
<1>1. task[t] \in Job BY TaskType
<1>2. j \in Job BY <1>1 DEF Job
<1>3. j.pc = pc /\ j.row = task[t].row /\ j.user = task[t].user BY <1>1 DEF Job
<1>4. Held(j) BY <1>3 DEF Held
<1> QED BY <1>2, <1>4, BecomeType DEF Goto

LEMMA FinishType ==
  ASSUME TypeInv, NEW t \in Procs, Finish(t)
  PROVE  task' \in [Procs -> Job] /\ RowsHeld'
BY IdleType, BecomeType DEF Finish

-----------------------------------------------------------------------------
(* Creating a device *)

LEMMA StartCreateType ==
  ASSUME TypeInv, NEW t \in Procs, StartCreate(t), UNCHANGED crashes
  PROVE  TypeInv'
<1> DEFINE row(k, u, a, n) == [key |-> k, owner |-> u, ip |-> a, nets |-> n]
           j(r) == [Idle EXCEPT !.pc = "insert", !.op = "create", !.row = r]
<1>1. PICK k \in Devices \ born, u \in users, a \in Addresses \ UsedIps, n \in SUBSET Subnets :
        /\ Become(t, j(row(k, u, a, n)))
        /\ born' = born \cup {k}
        /\ contended' \subseteq contended \cup {k}
  BY DEF StartCreate
<1>2. row(k, u, a, n) \in DeviceRow
  BY DEF TypeInv, TypeOK, DbTypeOK, DeviceRow
<1>3. ASSUME NEW r \in DeviceRow
      PROVE  j(r) \in Job /\ Held(j(r))
  <2>1. j(r) \in Job BY IdleType DEF Job, PCs, AllOps
  <2>2. j(r).pc = "insert" /\ j(r).row = r BY IdleType DEF Job
  <2> QED BY <2>1, <2>2 DEF Held
<1>4. task' \in [Procs -> Job] /\ RowsHeld'
  BY <1>1, <1>2, <1>3, BecomeType
<1>5. DbTypeOK' /\ contended' \subseteq Devices
  BY <1>1 DEF StartCreate, TypeInv, TypeOK, DbTypeOK, TaskTypeOK
<1> QED
  BY <1>4, <1>5, WgSame, NftSame DEF StartCreate, TypeInv, TypeOK, TaskTypeOK

LEMMA ChangesType ==
  ASSUME TypeInv, NEW U \in SUBSET (Users \cup {Global}), NEW told, Changes(U, told)
  PROVE  lagging' \subseteq Users
BY DEF Changes, TypeInv, TypeOK, TaskTypeOK

LEMMA InsertType ==
  ASSUME TypeInv, NEW t \in Procs, Insert(t), UNCHANGED crashes
  PROVE  TypeInv'
<1>1. task[t].row \in DeviceRow
  BY TaskType DEF Insert, At, Held, RowPCs
<1>2. DbTypeOK'
  BY <1>1, DbSame DEF TypeInv, TypeOK, Insert, InsertDevice, DbTypeOK
<1>3. task' \in [Procs -> Job] /\ RowsHeld'
  BY <1>1, FinishType, GotoType DEF Insert, PCs
<1>4. {task[t].row.owner} \subseteq Users \cup {Global}
  BY <1>1 DEF DeviceRow
<1>5. lagging' \subseteq Users
  BY <1>4, ChangesType DEF Insert, TypeInv, TypeOK, TaskTypeOK
<1> QED
  BY <1>2, <1>3, <1>5, WgSame, NftSame DEF TypeInv, TypeOK, TaskTypeOK, Insert

LEMMA RefreshType ==
  ASSUME TypeInv, NEW t \in Procs, Refresh(t), UNCHANGED crashes
  PROVE  TypeInv'
<1> DEFINE j(r) == [task[t] EXCEPT !.pc = "add_peer", !.row = r]
<1>1. ASSUME NEW r \in devices
      PROVE  j(r) \in Job /\ Held(j(r))
  <2>1. task[t] \in Job /\ r \in DeviceRow
    BY TaskType DEF TypeInv, TypeOK, DbTypeOK
  <2>2. j(r) \in Job BY <2>1 DEF Job, PCs
  <2>3. j(r).pc = "add_peer" /\ j(r).row = r BY <2>1 DEF Job
  <2> QED BY <2>1, <2>2, <2>3 DEF Held
<1>2. task' \in [Procs -> Job] /\ RowsHeld'
  BY <1>1, FinishType, BecomeType DEF Refresh
<1> QED
  BY <1>2, DbSame, WgSame, NftSame DEF TypeInv, TypeOK, TaskTypeOK, Refresh, ghosts

LEMMA AbandonCreateType ==
  ASSUME TypeInv, NEW t \in Procs, AbandonCreate(t), UNCHANGED crashes
  PROVE  TypeInv'
<1>1. task[t].row \in DeviceRow
  BY TaskType DEF AbandonCreate, At, Held, RowPCs
<1>2. {task[t].row.key, task[t].row.owner} \cup task[t].row.nets \in SUBSET Ghosts
  BY <1>1 DEF DeviceRow, Ghosts
<1>3. faults' \in 0..MaxFaults /\ faulted' \subseteq Ghosts
  BY <1>2, CommandType DEF AbandonCreate, TypeInv, TypeOK
<1>4. task' \in [Procs -> Job] /\ RowsHeld'
  BY FinishType DEF AbandonCreate
<1> QED
  BY <1>3, <1>4, DbSame, WgSame, NftSame
  DEF TypeInv, TypeOK, TaskTypeOK, AbandonCreate, Ghosts

LEMMA AddPeerStepType ==
  ASSUME TypeInv, NEW t \in Procs, AddPeerStep(t), UNCHANGED crashes
  PROVE  TypeInv'
<1> DEFINE row == task[t].row
           j == [task[t] EXCEPT !.pc = "routes", !.add = row.nets]
<1>1. row \in DeviceRow /\ task[t] \in Job
  BY TaskType DEF AddPeerStep, At, Held, RowPCs
<1>2. row.key \in Devices /\ row.nets \subseteq Subnets
  BY <1>1 DEF DeviceRow
<1>3. j \in Job /\ Held(j)
  BY <1>1, <1>2 DEF Job, PCs, Held
<1>4. Goto(t, "relay_subnets") \/ Goto(t, "add_user_chain") \/ Become(t, j)
  BY DEF AddPeerStep, Goto
<1>5. task' \in [Procs -> Job] /\ RowsHeld'
  <2>1. CASE Become(t, j)
    BY <2>1, <1>3, BecomeType
  <2>2. CASE Goto(t, "relay_subnets")
    BY <2>2, <1>1, GotoType DEF PCs
  <2>3. CASE Goto(t, "add_user_chain")
    BY <2>3, <1>1, GotoType DEF PCs
  <2> QED
    BY <2>1, <2>2, <2>3, <1>4
<1>6. WgTypeOK'
  BY <1>2, AddPeerType, WgSame DEF AddPeerStep, TypeInv, TypeOK
<1>7. {row.key} \in SUBSET Ghosts
  BY <1>2 DEF Ghosts
<1>8. faults' \in 0..MaxFaults /\ faulted' \subseteq Ghosts
  BY <1>7, CommandType DEF AddPeerStep, TypeInv, TypeOK
<1> QED
  BY <1>5, <1>6, <1>8, DbSame, NftSame
  DEF TypeInv, TypeOK, TaskTypeOK, AddPeerStep, Ghosts

LEMMA AddUserChainStepType ==
  ASSUME TypeInv, NEW t \in Procs, AddUserChainStep(t), UNCHANGED crashes
  PROVE  TypeInv'
<1>1. task[t].row \in DeviceRow
  BY TaskType DEF AddUserChainStep, At, Held, RowPCs
<1>2. task[t].row.owner \in Users /\ {task[t].row.owner} \in SUBSET Ghosts
  BY <1>1 DEF DeviceRow, Ghosts
<1>3. task' \in [Procs -> Job] /\ RowsHeld'
  BY <1>1, FinishType, GotoType DEF AddUserChainStep, PCs
<1>4. NftTypeOK'
  BY <1>2, NftSame DEF AddUserChainStep, AddUserChain, TypeInv, TypeOK, NftTypeOK
<1>5. faults' \in 0..MaxFaults /\ faulted' \subseteq Ghosts
  BY <1>2, CommandType DEF AddUserChainStep, TypeInv, TypeOK, TaskTypeOK, Ghosts
<1> QED
  BY <1>3, <1>4, <1>5, DbSame, WgSame
  DEF TypeInv, TypeOK, TaskTypeOK, AddUserChainStep, Ghosts

LEMMA AddJumpsStepType ==
  ASSUME TypeInv, NEW t \in Procs, AddJumpsStep(t), UNCHANGED crashes
  PROVE  TypeInv'
<1>1. task[t].row \in DeviceRow
  BY TaskType DEF AddJumpsStep, At, Held, RowPCs
<1>2. {task[t].row.owner} \in SUBSET Ghosts
  BY <1>1 DEF DeviceRow, Ghosts
<1>3. task' \in [Procs -> Job] /\ RowsHeld'
  BY FinishType DEF AddJumpsStep
<1>4. NftTypeOK'
  BY <1>1, NftSame, JumpsType
  DEF AddJumpsStep, AddDeviceJumps, TypeInv, TypeOK, NftTypeOK
<1>5. faults' \in 0..MaxFaults /\ faulted' \subseteq Ghosts
  BY <1>2, CommandType DEF AddJumpsStep, TypeInv, TypeOK, TaskTypeOK, Ghosts
<1> QED
  BY <1>3, <1>4, <1>5, DbSame, WgSame
  DEF TypeInv, TypeOK, TaskTypeOK, AddJumpsStep, Ghosts

-----------------------------------------------------------------------------
(* Editing and deleting devices, deleting users *)

LEMMA StartUpdateType ==
  ASSUME TypeInv, NEW t \in Procs, StartUpdate(t), UNCHANGED crashes
  PROVE  TypeInv'
<1> DEFINE j(r, n) == [Idle EXCEPT !.pc = "save", !.op = "update", !.row = r, !.want = n]
<1>1. ASSUME NEW r \in devices, NEW n \in SUBSET Subnets
      PROVE  r \in DeviceRow /\ j(r, n) \in Job /\ Held(j(r, n))
  <2>1. r \in DeviceRow BY DEF TypeInv, TypeOK, DbTypeOK
  <2>2. j(r, n) \in Job BY <2>1, IdleType DEF Job, PCs, AllOps
  <2>3. j(r, n).pc = "save" /\ j(r, n).row = r BY IdleType DEF Job
  <2> QED BY <2>1, <2>2, <2>3 DEF Held
<1>2. PICK r \in devices, n \in SUBSET Subnets : Become(t, j(r, n)) /\ Contends({r.key})
  BY DEF StartUpdate
<1>3. task' \in [Procs -> Job] /\ RowsHeld'
  BY <1>1, <1>2, BecomeType
<1>4. contended' \subseteq Devices
  BY <1>1, <1>2 DEF Contends, TypeInv, TypeOK, TaskTypeOK, DeviceRow
<1> QED
  BY <1>3, <1>4, DbSame, WgSame, NftSame DEF StartUpdate, TypeInv, TypeOK, TaskTypeOK

LEMMA SaveType ==
  ASSUME TypeInv, NEW t \in Procs, Save(t), UNCHANGED crashes
  PROVE  TypeInv'
<1> DEFINE j == task[t]
           k == [j EXCEPT !.pc = "refresh", !.want = {}]
<1>1. j \in Job /\ j.row \in DeviceRow
  BY TaskType DEF Save, At, Held, RowPCs
<1>2. k \in Job /\ Held(k)
  BY <1>1 DEF Job, PCs, Held
<1>3. task' \in [Procs -> Job] /\ RowsHeld'
  BY <1>2, FinishType, BecomeType DEF Save
<1>4. j.want \subseteq Subnets
  BY <1>1 DEF Job
<1>5. ASSUME UpdateNets(j.row.key, j.want)
      PROVE  DbTypeOK'
  <2>1. ASSUME NEW r \in DeviceRow
        PROVE  [r EXCEPT !.nets = j.want] \in DeviceRow
    BY <1>4 DEF DeviceRow
  <2> QED
    BY <1>5, <2>1 DEF UpdateNets, TypeInv, TypeOK, DbTypeOK
<1>6. DbTypeOK'
  BY <1>5, DbSame DEF Save, TypeInv, TypeOK
<1>7. {j.row.owner} \subseteq Users \cup {Global}
  BY <1>1 DEF DeviceRow
<1>8. lagging' \subseteq Users
  BY <1>7, ChangesType DEF Save, TypeInv, TypeOK, TaskTypeOK
<1> QED
  BY <1>3, <1>6, <1>8, WgSame, NftSame DEF TypeInv, TypeOK, TaskTypeOK, Save

LEMMA StartDeleteType ==
  ASSUME TypeInv, NEW t \in Procs, StartDelete(t), UNCHANGED crashes
  PROVE  TypeInv'
<1> DEFINE j(r) == [Idle EXCEPT !.pc = "delete_row", !.op = "delete", !.row = r]
<1>1. ASSUME NEW r \in devices
      PROVE  r \in DeviceRow /\ j(r) \in Job /\ Held(j(r))
  <2>1. r \in DeviceRow BY DEF TypeInv, TypeOK, DbTypeOK
  <2>2. j(r) \in Job BY <2>1, IdleType DEF Job, PCs, AllOps
  <2>3. j(r).pc = "delete_row" /\ j(r).row = r BY IdleType DEF Job
  <2> QED BY <2>1, <2>2, <2>3 DEF Held
<1>2. PICK r \in devices : Become(t, j(r)) /\ Contends({r.key})
  BY DEF StartDelete
<1>3. task' \in [Procs -> Job] /\ RowsHeld'
  BY <1>1, <1>2, BecomeType
<1>4. contended' \subseteq Devices
  BY <1>1, <1>2 DEF Contends, TypeInv, TypeOK, TaskTypeOK, DeviceRow
<1> QED
  BY <1>3, <1>4, DbSame, WgSame, NftSame DEF StartDelete, TypeInv, TypeOK, TaskTypeOK

LEMMA DeleteRowType ==
  ASSUME TypeInv, NEW t \in Procs, DeleteRow(t), UNCHANGED crashes
  PROVE  TypeInv'
<1>1. task[t].row \in DeviceRow
  BY TaskType DEF DeleteRow, At, Held, RowPCs
<1>2. task' \in [Procs -> Job] /\ RowsHeld'
  BY <1>1, GotoType DEF DeleteRow, PCs
<1>3. DbTypeOK'
  BY DEF DeleteRow, DeleteDevice, TypeInv, TypeOK, DbTypeOK
<1> QED
  BY <1>2, <1>3, WgSame, NftSame DEF TypeInv, TypeOK, TaskTypeOK, DeleteRow, ghosts

LEMMA StartDeleteUserType ==
  ASSUME TypeInv, NEW t \in Procs, StartDeleteUser(t), UNCHANGED crashes
  PROVE  TypeInv'
<1> DEFINE j(u) == [Idle EXCEPT !.pc = "cascade", !.op = "delete_user", !.user = u,
                      !.queue = RowsOf(u)]
<1>1. ASSUME NEW u \in users
      PROVE  RowsOf(u) \subseteq DeviceRow /\ j(u) \in Job /\ Held(j(u))
  <2>1. RowsOf(u) \subseteq DeviceRow /\ u \in Users
    BY DEF TypeInv, TypeOK, DbTypeOK, RowsOf
  <2>2. j(u) \in Job BY <2>1, IdleType DEF Job, PCs, AllOps
  <2>3. j(u).pc = "cascade" BY IdleType DEF Job
  <2> QED BY <2>1, <2>2, <2>3 DEF Held, RowPCs
<1>2. PICK u \in users :
        /\ Become(t, j(u))
        /\ Contends({r.key : r \in RowsOf(u)} \cup
                    {k \in Devices : \E s \in Tasks : /\ At(s, "insert")
                                                      /\ task[s].row.owner = u
                                                      /\ task[s].row.key = k})
  BY DEF StartDeleteUser
<1>3. task' \in [Procs -> Job] /\ RowsHeld'
  BY <1>1, <1>2, BecomeType
<1>4. contended' \subseteq Devices
  BY <1>1, <1>2 DEF Contends, TypeInv, TypeOK, TaskTypeOK, DeviceRow
<1> QED
  BY <1>3, <1>4, DbSame, WgSame, NftSame DEF StartDeleteUser, TypeInv, TypeOK, TaskTypeOK

LEMMA NextDeviceType ==
  ASSUME TypeInv, NEW t \in Procs, NEW j \in Job, NextDevice(t, j)
  PROVE  task' \in [Procs -> Job] /\ RowsHeld'
<1>1. ASSUME NEW r \in j.queue
      PROVE  LET k == [j EXCEPT !.pc = "remove_peer", !.row = r, !.queue = j.queue \ {r}]
             IN  k \in Job /\ Held(k)
  <2>1. r \in DeviceRow /\ j.queue \ {r} \subseteq DeviceRow
    BY DEF Job
  <2> DEFINE k == [j EXCEPT !.pc = "remove_peer", !.row = r, !.queue = j.queue \ {r}]
  <2>2. k \in Job BY <2>1 DEF Job, PCs
  <2>3. k.pc = "remove_peer" /\ k.row = r BY DEF Job
  <2> QED BY <2>1, <2>2, <2>3 DEF Held
<1> QED
  BY <1>1, FinishType, BecomeType DEF NextDevice

LEMMA CascadeType ==
  ASSUME TypeInv, NEW t \in Procs, Cascade(t), UNCHANGED crashes
  PROVE  TypeInv'
<1>1. task' \in [Procs -> Job] /\ RowsHeld'
  BY TaskType, NextDeviceType DEF Cascade
<1>2. DbTypeOK'
  BY DEF Cascade, DeleteUser, TypeInv, TypeOK, DbTypeOK
<1> QED
  BY <1>1, <1>2, WgSame, NftSame DEF TypeInv, TypeOK, TaskTypeOK, Cascade, ghosts

LEMMA RemovePeerStepType ==
  ASSUME TypeInv, NEW t \in Procs, RemovePeerStep(t), UNCHANGED crashes
  PROVE  TypeInv'
<1>1. task[t] \in Job /\ task[t].row \in DeviceRow
  BY TaskType DEF RemovePeerStep, At, Held, RowPCs
<1>2. task[t].row.key \in Devices /\ {task[t].row.key} \in SUBSET Ghosts
  BY <1>1 DEF DeviceRow, Ghosts
<1>3. task' \in [Procs -> Job] /\ RowsHeld'
  BY <1>1, GotoType, NextDeviceType DEF RemovePeerStep, PCs
<1>4. WgTypeOK'
  BY <1>2, RemovePeerType, WgSame DEF RemovePeerStep, TypeInv, TypeOK
<1>5. faults' \in 0..MaxFaults /\ faulted' \subseteq Ghosts
  BY <1>2, CommandType DEF RemovePeerStep, TypeInv, TypeOK
<1> QED
  BY <1>3, <1>4, <1>5, DbSame, NftSame
  DEF TypeInv, TypeOK, TaskTypeOK, RemovePeerStep, Ghosts

-----------------------------------------------------------------------------
(* sync_routes *)

LEMMA RelaySubnetsStepType ==
  ASSUME TypeInv, NEW t \in Procs, RelaySubnetsStep(t), UNCHANGED crashes
  PROVE  TypeInv'
<1> DEFINE j == [task[t] EXCEPT !.pc = "interface_routes", !.want = RelaySubnets]
<1>1. task[t] \in Job /\ task[t].row \in DeviceRow
  BY TaskType DEF RelaySubnetsStep, At, Held, RowPCs
<1>2. RelaySubnets \subseteq Subnets
  BY RelaySubnetsType DEF TypeInv, TypeOK
<1>3. j \in Job /\ Held(j)
  BY <1>1, <1>2 DEF Job, PCs, Held
<1>4. task' \in [Procs -> Job] /\ RowsHeld'
  BY <1>3, BecomeType DEF RelaySubnetsStep
<1> QED
  BY <1>4, DbSame, WgSame, NftSame DEF TypeInv, TypeOK, TaskTypeOK, RelaySubnetsStep, ghosts

LEMMA AfterRoutesType ==
  ASSUME TypeInv, NEW t \in Procs, NEW j \in Job, AfterRoutes(t, j),
         j.op # "boot" => j.row \in DeviceRow
  PROVE  task' \in [Procs -> Job] /\ RowsHeld' /\ phase' \in {"down", "startup", "up", "unready"}
<1>1. CASE j.op = "create"
  <2> DEFINE k == [j EXCEPT !.pc = "add_user_chain"]
  <2>1. k \in Job /\ Held(k) BY <1>1 DEF Job, PCs, Held
  <2> QED
    BY <1>1, <2>1, BecomeType DEF AfterRoutes, TypeInv, TypeOK, TaskTypeOK
<1>2. CASE j.op = "update"
  <2> DEFINE k == [j EXCEPT !.pc = "read_rules", !.user = j.row.owner]
  <2>1. j.row.owner \in Users BY <1>2 DEF DeviceRow
  <2>2. k \in Job /\ Held(k) BY <2>1 DEF Job, PCs, Held, RowPCs
  <2> QED
    BY <1>2, <2>2, BecomeType DEF AfterRoutes, TypeInv, TypeOK, TaskTypeOK
<1>3. CASE j.op = "boot"
  BY <1>3, FinishType DEF AfterRoutes
<1>4. CASE j.op \notin {"create", "update", "boot"}
  BY <1>4, NextDeviceType DEF AfterRoutes, TypeInv, TypeOK, TaskTypeOK
<1> QED
  BY <1>1, <1>2, <1>3, <1>4

LEMMA RoutesLeftType ==
  ASSUME TypeInv, NEW t \in Procs, NEW j \in Job, RoutesLeft(t, j),
         j.op # "boot" => j.row \in DeviceRow
  PROVE  task' \in [Procs -> Job] /\ RowsHeld' /\ phase' \in {"down", "startup", "up", "unready"}
<1> DEFINE k == [j EXCEPT !.pc = "routes"]
<1>1. k \in Job /\ Held(k) BY DEF Job, PCs, Held, RowPCs
<1> QED
  BY <1>1, AfterRoutesType, BecomeType DEF RoutesLeft, TypeInv, TypeOK, TaskTypeOK

LEMMA InterfaceRoutesType ==
  ASSUME TypeInv, NEW t \in Procs, InterfaceRoutes(t), UNCHANGED crashes
  PROVE  TypeInv'
<1> DEFINE j == task[t]
           Plan(actual) == [j EXCEPT !.want = {},
                                     !.add  = RoutesToAdd(j.want, actual),
                                     !.drop = RoutesToRemove(j.want, actual)]
<1>1. j \in Job /\ (j.op # "boot" => j.row \in DeviceRow)
  BY TaskType DEF InterfaceRoutes, At, Held
<1>2. j.want \in SUBSET Subnets /\ routes \in SUBSET (Subnets \cup {TunnelNet})
  BY <1>1 DEF Job, TypeInv, TypeOK, WgTypeOK
<1>3. ASSUME NEW actual \in SUBSET (Subnets \cup {TunnelNet})
      PROVE  /\ Plan(actual) \in Job
             /\ Plan(actual).op # "boot" => Plan(actual).row \in DeviceRow
             /\ RoutesToRemove(j.want, actual) \in SUBSET Ghosts
  <2>1. RoutesToAdd(j.want, actual) \subseteq Subnets BY <1>2 DEF RoutesToAdd
  <2>2. RoutesToRemove(j.want, actual) \subseteq Subnets BY <1>2, RoutesToRemoveType
  <2> QED
    BY <1>1, <2>1, <2>2 DEF Job, Ghosts
<1>4. task' \in [Procs -> Job] /\ RowsHeld' /\ phase' \in {"down", "startup", "up", "unready"}
  BY <1>2, <1>3, RoutesLeftType DEF InterfaceRoutes
<1>5. faults' \in 0..MaxFaults /\ faulted' \subseteq Ghosts
  BY <1>2, <1>3, CommandType DEF InterfaceRoutes, TypeInv, TypeOK, TaskTypeOK, Ghosts
<1> QED
  BY <1>4, <1>5, DbSame, WgSame, NftSame
  DEF TypeInv, TypeOK, TaskTypeOK, InterfaceRoutes, Ghosts

LEMMA RouteAddType ==
  ASSUME TypeInv, NEW t \in Procs, RouteAdd(t), UNCHANGED crashes
  PROVE  TypeInv'
<1> DEFINE j == task[t]
           k(s) == [j EXCEPT !.add = @ \ {s}]
<1>1. j \in Job /\ (j.op # "boot" => j.row \in DeviceRow)
  BY TaskType DEF RouteAdd, At, Held
<1>2. PICK s \in j.add : /\ \/ AddRoute(s) /\ Succeeds({s})
                            \/ UNCHANGED wgVars /\ Fails({s})
                         /\ RoutesLeft(t, k(s))
  BY DEF RouteAdd
<1>3. s \in Subnets /\ k(s) \in Job /\ (k(s).op # "boot" => k(s).row \in DeviceRow)
  BY <1>1 DEF Job
<1>4. task' \in [Procs -> Job] /\ RowsHeld' /\ phase' \in {"down", "startup", "up", "unready"}
  BY <1>2, <1>3, RoutesLeftType
<1>5. {s} \in SUBSET Ghosts
  BY <1>3 DEF Ghosts
<1>6. faults' \in 0..MaxFaults /\ faulted' \subseteq Ghosts
  BY <1>2, <1>5, CommandType DEF TypeInv, TypeOK
<1>7. WgTypeOK'
  BY <1>2, <1>3, WgSame DEF AddRoute, TypeInv, TypeOK, WgTypeOK
<1> QED
  BY <1>4, <1>6, <1>7, DbSame, NftSame DEF TypeInv, TypeOK, TaskTypeOK, RouteAdd, Ghosts

LEMMA RouteDelType ==
  ASSUME TypeInv, NEW t \in Procs, RouteDel(t), UNCHANGED crashes
  PROVE  TypeInv'
<1> DEFINE j == task[t]
           k(s) == [j EXCEPT !.drop = @ \ {s}]
<1>1. j \in Job /\ (j.op # "boot" => j.row \in DeviceRow)
  BY TaskType DEF RouteDel, At, Held
<1>2. PICK s \in j.drop : /\ \/ RemoveRoute(s) /\ Succeeds({s})
                             \/ UNCHANGED wgVars /\ Fails({s})
                          /\ RoutesLeft(t, k(s))
  BY DEF RouteDel
<1>3. s \in Subnets /\ k(s) \in Job /\ (k(s).op # "boot" => k(s).row \in DeviceRow)
  BY <1>1 DEF Job
<1>4. task' \in [Procs -> Job] /\ RowsHeld' /\ phase' \in {"down", "startup", "up", "unready"}
  BY <1>2, <1>3, RoutesLeftType
<1>5. {s} \in SUBSET Ghosts
  BY <1>3 DEF Ghosts
<1>6. faults' \in 0..MaxFaults /\ faulted' \subseteq Ghosts
  BY <1>2, <1>5, CommandType DEF TypeInv, TypeOK
<1>7. WgTypeOK'
  BY <1>2, WgSame DEF RemoveRoute, TypeInv, TypeOK, WgTypeOK
<1> QED
  BY <1>4, <1>6, <1>7, DbSame, NftSame DEF TypeInv, TypeOK, TaskTypeOK, RouteDel, Ghosts

-----------------------------------------------------------------------------
(* Rules *)

LEMMA CreateRuleType ==
  ASSUME TypeInv, NEW t \in Procs, CreateRule(t), UNCHANGED crashes
  PROVE  TypeInv'
<1> DEFINE j(n) == [Idle EXCEPT !.pc = "refresh_rule", !.op = "rule_create", !.rule = n]
<1>1. PICK o \in RuleOwners \cap (users \cup {Global}), p \in Priorities, e \in Exprs :
        InsertRule(o, p, e) /\ Changes({o}, {o})
  BY DEF CreateRule
<1>2. nextRule \in 0..MaxRules /\ nextRule \in 1..MaxRules /\ MaxRules \in Nat
  BY DatabaseAssumption DEF CreateRule, TypeInv, TypeOK, DbTypeOK
<1>3. ASSUME NEW n \in 0..MaxRules
      PROVE  j(n) \in Job /\ Held(j(n))
  <2>1. j(n) \in Job BY IdleType DEF Job, PCs, AllOps
  <2>2. j(n).pc = "refresh_rule" BY IdleType DEF Job
  <2> QED BY <2>1, <2>2 DEF Held, RowPCs
<1>4. task' \in [Procs -> Job] /\ RowsHeld'
  BY <1>2, <1>3, BecomeType DEF CreateRule
<1>5. o \in Users \cup {Global}
  BY EventBridgeAssumption
<1>6. DbTypeOK'
  BY <1>1, <1>2, <1>5 DEF InsertRule, TypeInv, TypeOK, DbTypeOK, RuleRow
<1>7. lagging' \subseteq Users
  <2>1. {o} \subseteq Users \cup {Global} BY <1>5
  <2> QED BY <1>1, <2>1, ChangesType
<1> QED
  BY <1>4, <1>6, <1>7, WgSame, NftSame DEF TypeInv, TypeOK, TaskTypeOK, CreateRule

LEMMA UpdateRuleType ==
  ASSUME DbTypeOK, NEW r \in rules, NEW o \in Users \cup {Global},
         NEW p \in Priorities, NEW e \in Exprs, UpdateRule(r, o, p, e)
  PROVE  DbTypeOK'
BY DEF UpdateRule, DbTypeOK, RuleRow

LEMMA UpdateRuleFromPageType ==
  ASSUME TypeInv, NEW t \in Procs, UpdateRuleFromPage(t), UNCHANGED crashes
  PROVE  TypeInv'
<1> DEFINE j(r) == [Idle EXCEPT !.pc = "refresh_rule", !.op = "rule_update", !.rule = r.id]
<1>1. PICK r \in rules, o \in RuleOwners \cap (users \cup {Global}),
           p \in Priorities, e \in Exprs :
        UpdateRule(r, o, p, e) /\ Become(t, j(r)) /\ Changes({r.user, o}, {o})
  BY DEF UpdateRuleFromPage
<1>2. r.id \in 0..MaxRules
  BY DatabaseAssumption DEF TypeInv, TypeOK, DbTypeOK, RuleRow
<1>3. j(r) \in Job /\ Held(j(r))
  <2>1. j(r) \in Job BY <1>2, IdleType DEF Job, PCs, AllOps
  <2>2. j(r).pc = "refresh_rule" BY IdleType DEF Job
  <2> QED BY <2>1, <2>2 DEF Held, RowPCs
<1>4. task' \in [Procs -> Job] /\ RowsHeld'
  BY <1>1, <1>3, BecomeType
<1>5. DbTypeOK'
  BY <1>1, UpdateRuleType, EventBridgeAssumption DEF TypeInv, TypeOK
<1>6. lagging' \subseteq Users
  <2>1. {r.user, o} \subseteq Users \cup {Global}
    BY EventBridgeAssumption DEF TypeInv, TypeOK, DbTypeOK, RuleRow
  <2> QED BY <1>1, <2>1, ChangesType
<1> QED
  BY <1>4, <1>5, <1>6, WgSame, NftSame
  DEF TypeInv, TypeOK, TaskTypeOK, UpdateRuleFromPage

LEMMA UpdateRuleFromApiType ==
  ASSUME TypeInv, UpdateRuleFromApi, UNCHANGED crashes
  PROVE  TypeInv'
<1>1. PICK r \in rules, o \in RuleOwners \cap (users \cup {Global}),
           p \in Priorities, e \in Exprs :
        UpdateRule(r, o, p, e) /\ Changes({r.user, o}, {})
  BY DEF UpdateRuleFromApi
<1>2. o \in Users \cup {Global} /\ {r.user, o} \subseteq Users \cup {Global}
  BY EventBridgeAssumption DEF TypeInv, TypeOK, DbTypeOK, RuleRow
<1>3. DbTypeOK'
  BY <1>1, <1>2, UpdateRuleType DEF TypeInv, TypeOK
<1>4. lagging' \subseteq Users
  BY <1>1, <1>2, ChangesType
<1> QED
  BY <1>3, <1>4, WgSame, NftSame
  DEF TypeInv, TypeOK, TaskTypeOK, UpdateRuleFromApi, taskVars, RowsHeld

LEMMA RefreshRuleType ==
  ASSUME TypeInv, NEW t \in Procs, RefreshRule(t), UNCHANGED crashes
  PROVE  TypeInv'
<1> DEFINE j(r) == [task[t] EXCEPT !.pc = "read_rules", !.user = r.user, !.rule = 0]
<1>1. ASSUME NEW r \in rules, r.user # Global
      PROVE  j(r) \in Job /\ Held(j(r))
  <2>1. r.user \in Users BY <1>1 DEF TypeInv, TypeOK, DbTypeOK, RuleRow
  <2>2. task[t] \in Job /\ 0 \in 0..MaxRules BY TaskType, DatabaseAssumption
  <2>3. j(r) \in Job BY <2>1, <2>2 DEF Job, PCs
  <2>4. j(r).pc = "read_rules" /\ j(r).user = r.user BY <2>2 DEF Job
  <2> QED BY <2>1, <2>3, <2>4 DEF Held, RowPCs
<1>2. task' \in [Procs -> Job] /\ RowsHeld'
  BY <1>1, FinishType, BecomeType DEF RefreshRule
<1> QED
  BY <1>2, DbSame, WgSame, NftSame DEF TypeInv, TypeOK, TaskTypeOK, RefreshRule, ghosts

LEMMA TellOwnerType ==
  ASSUME TypeInv, NEW t \in Procs, NEW op \in AllOps, NEW u \in Users \cup {Global},
         TellOwner(t, op, u)
  PROVE  task' \in [Procs -> Job] /\ RowsHeld'
<1> DEFINE j == [Idle EXCEPT !.pc = "read_rules", !.op = op, !.user = u]
<1>1. CASE u = Global
  BY <1>1 DEF TellOwner, TypeInv, TypeOK, TaskTypeOK, RowsHeld
<1>2. CASE u # Global
  <2>1. j \in Job BY IdleType DEF Job, PCs
  <2>2. j.pc = "read_rules" /\ j.user = u BY IdleType DEF Job
  <2>3. j \in Job /\ Held(j) BY <1>2, <2>1, <2>2 DEF Held, RowPCs
  <2> QED BY <1>2, <2>3, BecomeType DEF TellOwner
<1> QED
  BY <1>1, <1>2

LEMMA DeleteRuleRowType ==
  ASSUME TypeInv, NEW t \in Procs, DeleteRuleRow(t), UNCHANGED crashes
  PROVE  TypeInv'
<1>1. PICK r \in rules : /\ DeleteRule(r)
                       /\ TellOwner(t, "rule_delete", r.user)
                       /\ Changes({r.user}, {r.user})
  BY DEF DeleteRuleRow
<1>2. r.user \in Users \cup {Global} /\ {r.user} \subseteq Users \cup {Global}
  BY DEF TypeInv, TypeOK, DbTypeOK, RuleRow
<1>3. task' \in [Procs -> Job] /\ RowsHeld'
  BY <1>1, <1>2, TellOwnerType DEF AllOps
<1>4. DbTypeOK'
  BY <1>1 DEF DeleteRule, TypeInv, TypeOK, DbTypeOK
<1>5. lagging' \subseteq Users
  BY <1>1, <1>2, ChangesType
<1> QED
  BY <1>3, <1>4, <1>5, WgSame, NftSame DEF TypeInv, TypeOK, TaskTypeOK, DeleteRuleRow

LEMMA ReorderRulesType ==
  ASSUME TypeInv, NEW t \in Procs, ReorderRules(t), UNCHANGED crashes
  PROVE  TypeInv'
<1>1. PICK u \in users :
        /\ \E prio \in [RulesOf(u) -> Priorities] :
             rules' = (rules \ RulesOf(u)) \cup
                      {[r EXCEPT !.priority = prio[r]] : r \in RulesOf(u)}
        /\ \E filter \in Users \cup {Global} :
             TellOwner(t, "reorder", filter) /\ Changes({u}, {filter})
  BY DEF ReorderRules
<1>2. {u} \subseteq Users \cup {Global}
  BY DEF TypeInv, TypeOK, DbTypeOK
<1>3. PICK filter \in Users \cup {Global} :
        TellOwner(t, "reorder", filter) /\ Changes({u}, {filter})
  BY <1>1
<1>4. task' \in [Procs -> Job] /\ RowsHeld'
  BY <1>3, TellOwnerType DEF AllOps
<1>5. rules' \subseteq RuleRow
  BY <1>1 DEF TypeInv, TypeOK, DbTypeOK, RuleRow, RulesOf
<1>6. lagging' \subseteq Users
  BY <1>2, <1>3, ChangesType
<1> QED
  BY <1>4, <1>5, <1>6, WgSame, NftSame
  DEF TypeInv, TypeOK, DbTypeOK, TaskTypeOK, ReorderRules

-----------------------------------------------------------------------------
(* _rebuild_user_chain and rebuild_all_rules *)

LEMMA ReadRulesType ==
  ASSUME TypeInv, NEW t \in Procs, ReadRules(t), UNCHANGED crashes
  PROVE  TypeInv'
<1> DEFINE u == task[t].user
           b == [NoRules EXCEPT ![u] = Ordered(RulesOf(u))]
           j == [task[t] EXCEPT !.pc = "read_devices", !.row = NoRow, !.entries = {u},
                                !.bodies = b]
<1>1. task[t] \in Job /\ u \in Users
  BY TaskType DEF ReadRules, At, Held
<1>2. RulesOf(u) \subseteq RuleRow
  BY DEF TypeInv, TypeOK, DbTypeOK, RulesOf
<1>3. b \in [Users -> Chain]
  <2>1. Ordered(RulesOf(u)) \in Chain BY <1>2, OrderedType
  <2>2. NoRules \in [Users -> Chain] BY DEF NoRules, Chain
  <2> QED BY <2>1, <2>2
<1>4. j \in Job /\ Held(j)
  <2>1. j \in Job BY <1>1, <1>3 DEF Job, PCs
  <2>2. j.pc = "read_devices" BY <1>1 DEF Job
  <2> QED BY <2>1, <2>2 DEF Held, RowPCs
<1>5. task' \in [Procs -> Job] /\ RowsHeld'
  BY <1>4, BecomeType DEF ReadRules
<1>6. lagging' \subseteq Users
  BY DEF ReadRules, TypeInv, TypeOK, TaskTypeOK
<1> QED
  BY <1>5, <1>6, DbSame, WgSame, NftSame DEF TypeInv, TypeOK, TaskTypeOK, ReadRules

LEMMA ReadDevicesType ==
  ASSUME TypeInv, NEW t \in Procs, ReadDevices(t), UNCHANGED crashes
  PROVE  TypeInv'
<1> DEFINE rows == RowsOf(task[t].user)
           j == [task[t] EXCEPT !.pc = "list_chains", !.jumps = JumpsFor(rows)]
<1>1. rows \subseteq DeviceRow
  BY DEF TypeInv, TypeOK, DbTypeOK, RowsOf
<1>2. task[t] \in Job /\ JumpsFor(rows) \subseteq (Addresses \cup Subnets) \X Users
  BY <1>1, TaskType, JumpsType
<1>3. j \in Job /\ Held(j)
  <2>1. j \in Job BY <1>2 DEF Job, PCs
  <2>2. j.pc = "list_chains" BY <1>2 DEF Job
  <2> QED BY <2>1, <2>2 DEF Held, RowPCs
<1>4. task' \in [Procs -> Job] /\ RowsHeld'
  BY <1>3, BecomeType DEF ReadDevices
<1> QED
  BY <1>4, DbSame, WgSame, NftSame DEF TypeInv, TypeOK, TaskTypeOK, ReadDevices, ghosts

LEMMA ListChainsType ==
  ASSUME TypeInv, NEW t \in Procs, ListChains(t), UNCHANGED crashes
  PROVE  TypeInv'
<1> DEFINE found == chains \ task[t].entries
           j(drop) == [task[t] EXCEPT !.pc = "nft_batch", !.orphans = drop]
<1>1. task[t] \in Job /\ found \subseteq Users
  BY TaskType DEF TypeInv, TypeOK, NftTypeOK
<1>2. ASSUME NEW drop \in SUBSET Users PROVE j(drop) \in Job /\ Held(j(drop))
  <2>1. j(drop) \in Job BY <1>1 DEF Job, PCs
  <2>2. j(drop).pc = "nft_batch" BY <1>1 DEF Job
  <2> QED BY <2>1, <2>2 DEF Held, RowPCs
<1>3. task' \in [Procs -> Job] /\ RowsHeld'
  <2>1. PICK drop \in SUBSET Users : Become(t, j(drop))
    BY <1>1 DEF ListChains
  <2> QED BY <1>2, <2>1, BecomeType
<1>4. found \in SUBSET Ghosts
  BY <1>1 DEF Ghosts
<1>5. faults' \in 0..MaxFaults /\ faulted' \subseteq Ghosts
  BY <1>4, CommandType DEF ListChains, TypeInv, TypeOK, TaskTypeOK, Ghosts
<1> QED
  BY <1>3, <1>5, DbSame, WgSame, NftSame DEF TypeInv, TypeOK, TaskTypeOK, ListChains, Ghosts

LEMMA NftBatchType ==
  ASSUME TypeInv, NEW t \in Procs, NftBatch(t), UNCHANGED crashes
  PROVE  TypeInv'
<1> DEFINE j == task[t]
           k(w) == [Idle EXCEPT !.pc = "interface_routes", !.op = "boot", !.want = w]
<1>1. j \in Job /\ j.want \in SUBSET Subnets
  BY TaskType DEF Job
<1>2. ASSUME NEW w \in SUBSET Subnets
      PROVE  k(w) \in Job /\ Held(k(w))
  <2>1. k(w) \in Job BY IdleType DEF Job, PCs
  <2>2. k(w).pc = "interface_routes" /\ k(w).op = "boot" BY IdleType DEF Job
  <2> QED BY <2>1, <2>2 DEF Held, RowPCs
<1>3. Finish(t) \/ Become(t, k(j.want))
  BY DEF NftBatch
<1>4. task' \in [Procs -> Job] /\ RowsHeld'
  BY <1>1, <1>2, <1>3, FinishType, BecomeType
<1>5. j.entries \subseteq Users /\ j.orphans \subseteq Users /\ j.bodies \in [Users -> Chain]
      /\ j.jumps \subseteq (Addresses \cup Subnets) \X Users
  BY <1>1 DEF Job
<1>6. j.entries \cup j.orphans \in SUBSET Ghosts
  BY <1>5 DEF Ghosts
<1>7. NftTypeOK'
  <2>1. ASSUME RebuildAllRules(j.entries, j.bodies, j.jumps, j.orphans)
        PROVE  NftTypeOK'
    <3>1. NoRules \in [Users -> Chain] BY DEF NoRules, Chain
    <3> QED
      BY <1>5, <2>1, <3>1 DEF RebuildAllRules, TypeInv, TypeOK, NftTypeOK
  <2> QED
    BY <2>1, NftSame DEF NftBatch, TypeInv, TypeOK
<1>8. faults' \in 0..MaxFaults /\ faulted' \subseteq Ghosts
  BY <1>6, CommandType DEF NftBatch, TypeInv, TypeOK, TaskTypeOK, Ghosts
<1>9. lagging' \subseteq Users
  BY <1>5 DEF NftBatch, Dropped, TypeInv, TypeOK, TaskTypeOK
<1> QED
  BY <1>4, <1>7, <1>8, <1>9, DbSame, WgSame
  DEF TypeInv, TypeOK, TaskTypeOK, NftBatch, Ghosts

-----------------------------------------------------------------------------
(* Crash, restart and reconcile() *)

LEMMA BootType == Boot \in Procs
BY DEF Procs

LEMMA CrashType ==
  ASSUME TypeInv, Crash
  PROVE  TypeInv'
<1>1. crashes' \in 0..MaxCrashes
  BY WireGUIAssumption DEF Crash, TypeInv, TypeOK
<1>2. task' \in [Procs -> Job] /\ RowsHeld'
  BY IdleType DEF Crash, RowsHeld
<1>3. WgTypeOK'
  BY WgSame DEF Crash, NoCarrier, TypeInv, TypeOK, WgTypeOK
<1>4. NftTypeOK'
  <2>1. NoRules \in [Users -> Chain] BY DEF NoRules, Chain
  <2> QED BY <2>1, NftSame DEF Crash, TypeInv, TypeOK, NftTypeOK
<1> QED
  BY <1>1, <1>2, <1>3, <1>4, DbSame DEF TypeInv, TypeOK, TaskTypeOK, Crash, ghosts

LEMMA RestartType ==
  ASSUME TypeInv, Restart
  PROVE  TypeInv'
<1> DEFINE j == [Idle EXCEPT !.pc = "get_peers", !.op = "boot"]
<1>1. j \in Job /\ Held(j)
  <2>1. j \in Job BY IdleType DEF Job, PCs
  <2>2. j.pc = "get_peers" BY IdleType DEF Job
  <2> QED BY <2>1, <2>2 DEF Held, RowPCs
<1>2. task' \in [Procs -> Job] /\ RowsHeld'
  BY <1>1, BootType, BecomeType DEF Restart, Become
<1>3. WgTypeOK'
  BY DEF Restart, ConfigureInterface, TypeInv, TypeOK, WgTypeOK
<1> QED
  BY <1>2, <1>3, DbSame, NftSame DEF TypeInv, TypeOK, TaskTypeOK, Restart

LEMMA StartupFailsType ==
  ASSUME TypeInv, StartupFails
  PROVE  TypeInv'
<1>1. crashes' \in 0..MaxCrashes
  BY WireGUIAssumption DEF StartupFails, TypeInv, TypeOK
<1>2. WgTypeOK'
  BY WgSame DEF StartupFails, ConfigureInterface, TypeInv, TypeOK, WgTypeOK
<1>3. phase' \in {"down", "startup", "up", "unready"}
  BY DEF StartupFails
<1> QED
  BY <1>1, <1>2, <1>3, DbSame, NftSame
  DEF TypeInv, TypeOK, TaskTypeOK, StartupFails, RowsHeld

LEMMA GetPeersType ==
  ASSUME TypeInv, GetPeers
  PROVE  TypeInv'
<1> DEFINE j(seen) == [task[Boot] EXCEPT !.pc = "db_devices", !.gone = seen]
<1>1. task[Boot] \in Job /\ peers \in SUBSET Devices /\ peers \in SUBSET Ghosts
  BY BootType, TaskType DEF TypeInv, TypeOK, WgTypeOK, Ghosts
<1>2. ASSUME NEW seen \in SUBSET Devices
      PROVE  j(seen) \in Job /\ Held(j(seen))
  <2>1. j(seen) \in Job
    BY <1>1 DEF Job, PCs
  <2>2. j(seen).pc = "db_devices" BY <1>1 DEF Job
  <2> QED BY <2>1, <2>2 DEF Held, RowPCs
<1>3. task' \in [Procs -> Job] /\ RowsHeld'
  BY <1>1, <1>2, BootType, GotoType, BecomeType DEF GetPeers, PCs, RowPCs
<1>4. faults' \in 0..MaxFaults /\ faulted' \subseteq Ghosts
  BY <1>1, CommandType DEF GetPeers, TypeInv, TypeOK, TaskTypeOK, Ghosts
<1> QED
  BY <1>3, <1>4, DbSame, WgSame, NftSame DEF TypeInv, TypeOK, TaskTypeOK, GetPeers, Ghosts

LEMMA ReadAllDevicesType ==
  ASSUME TypeInv, ReadAllDevices
  PROVE  TypeInv'
<1> DEFINE seen == task[Boot].gone
           owners == {r.owner : r \in devices}
           j == [task[Boot] EXCEPT !.pc      = "db_rules",
                                   !.queue   = MissingPeers(seen),
                                   !.gone    = OrphanPeers(seen),
                                   !.want    = RelaySubnets,
                                   !.entries = owners,
                                   !.jumps   = JumpsFor(devices)]
<1>1. task[Boot] \in Job /\ devices \subseteq DeviceRow
  BY BootType, TaskType DEF TypeInv, TypeOK, DbTypeOK
<1>2. MissingPeers(seen) \subseteq DeviceRow /\ OrphanPeers(seen) \subseteq Devices
  BY <1>1 DEF MissingPeers, OrphanPeers, Job
<1>3. owners \subseteq Users /\ RelaySubnets \subseteq Subnets
  BY <1>1, RelaySubnetsType DEF DeviceRow, TypeInv, TypeOK
<1>4. JumpsFor(devices) \subseteq (Addresses \cup Subnets) \X Users
  BY <1>1, JumpsType
<1>5. j \in Job
  <2> HIDE DEF owners
  <2> QED BY <1>1, <1>2, <1>3, <1>4 DEF Job, PCs
<1>6. Held(j)
  BY <1>1 DEF Job, Held, RowPCs
<1>7. task' \in [Procs -> Job] /\ RowsHeld'
  BY <1>5, <1>6, BootType, BecomeType DEF ReadAllDevices
<1> QED
  BY <1>7, DbSame, WgSame, NftSame DEF TypeInv, TypeOK, TaskTypeOK, ReadAllDevices, ghosts

LEMMA ReadAllRulesType ==
  ASSUME TypeInv, ReadAllRules
  PROVE  TypeInv'
<1> DEFINE owners == task[Boot].entries \cup {r.user : r \in OwnedRules}
           b == [u \in Users |-> Ordered(RulesOf(u))]
           j == [task[Boot] EXCEPT !.pc = "add_missing", !.entries = owners, !.bodies = b]
<1>1. task[Boot] \in Job
  BY BootType, TaskType
<1>2. owners \subseteq Users
  BY <1>1 DEF OwnedRules, TypeInv, TypeOK, DbTypeOK, RuleRow, Job
<1>3. b \in [Users -> Chain]
  BY OrderedType DEF RulesOf, TypeInv, TypeOK, DbTypeOK
<1>4. j \in Job
  <2> HIDE DEF owners, b
  <2> QED BY <1>1, <1>2, <1>3 DEF Job, PCs
<1>5. Held(j)
  BY <1>1 DEF Job, Held, RowPCs
<1>6. task' \in [Procs -> Job] /\ RowsHeld'
  BY <1>4, <1>5, BootType, BecomeType DEF ReadAllRules
<1> QED
  BY <1>6, DbSame, WgSame, NftSame DEF TypeInv, TypeOK, TaskTypeOK, ReadAllRules, ghosts

LEMMA AddMissingPeerType ==
  ASSUME TypeInv, AddMissingPeer
  PROVE  TypeInv'
<1> DEFINE j(r) == [task[Boot] EXCEPT !.queue = @ \ {r}]
<1>1. task[Boot] \in Job /\ (At(Boot, "add_missing") => Held(task[Boot]))
  BY BootType, TaskType
<1>2. CASE Goto(Boot, "remove_orphans") /\ UNCHANGED <<wgVars, faults, faulted>>
  <2>1. task' \in [Procs -> Job] /\ RowsHeld'
    BY <1>2, BootType, GotoType DEF PCs, RowPCs
  <2> QED
    BY <2>1, <1>2, DbSame, WgSame, NftSame DEF TypeInv, TypeOK, TaskTypeOK, AddMissingPeer
<1>3. ASSUME NEW r \in task[Boot].queue,
             \/ AddPeer(r.key, AllowedIps(r)) /\ Succeeds({r.key})
             \/ UNCHANGED wgVars /\ Fails({r.key}),
             Become(Boot, j(r))
      PROVE  TypeInv'
  <2>1. r.key \in Devices /\ {r.key} \in SUBSET Ghosts
    BY <1>1 DEF Job, DeviceRow, Ghosts
  <2>2. j(r) \in Job /\ Held(j(r))
    BY <1>1 DEF Job, Held, RowPCs, AddMissingPeer, At
  <2>3. task' \in [Procs -> Job] /\ RowsHeld'
    BY <1>3, <2>2, BootType, BecomeType
  <2>4. WgTypeOK'
    BY <1>3, <2>1, AddPeerType, WgSame DEF TypeInv, TypeOK
  <2>5. faults' \in 0..MaxFaults /\ faulted' \subseteq Ghosts
    BY <1>3, <2>1, CommandType DEF TypeInv, TypeOK
  <2> QED
    BY <2>3, <2>4, <2>5, DbSame, NftSame DEF TypeInv, TypeOK, TaskTypeOK, AddMissingPeer, Ghosts
<1> QED
  BY <1>2, <1>3 DEF AddMissingPeer

LEMMA RemoveOrphanPeerType ==
  ASSUME TypeInv, RemoveOrphanPeer
  PROVE  TypeInv'
<1> DEFINE j(k) == [task[Boot] EXCEPT !.gone = @ \ {k}]
<1>1. task[Boot] \in Job
  BY BootType, TaskType
<1>2. CASE Goto(Boot, "list_chains") /\ UNCHANGED <<wgVars, faults, faulted>>
  <2>1. task' \in [Procs -> Job] /\ RowsHeld'
    BY <1>2, BootType, GotoType DEF PCs, RowPCs
  <2> QED
    BY <2>1, <1>2, DbSame, WgSame, NftSame DEF TypeInv, TypeOK, TaskTypeOK, RemoveOrphanPeer
<1>3. ASSUME NEW k \in task[Boot].gone,
             \/ RemovePeer(k) /\ Succeeds({k})
             \/ UNCHANGED wgVars /\ Fails({k}),
             Become(Boot, j(k))
      PROVE  TypeInv'
  <2>1. k \in Devices /\ {k} \in SUBSET Ghosts
    BY <1>1 DEF Job, Ghosts
  <2>2. j(k) \in Job /\ Held(j(k))
    BY <1>1 DEF Job, Held, RowPCs, RemoveOrphanPeer, At
  <2>3. task' \in [Procs -> Job] /\ RowsHeld'
    BY <1>3, <2>2, BootType, BecomeType
  <2>4. WgTypeOK'
    BY <1>3, <2>1, RemovePeerType, WgSame DEF TypeInv, TypeOK
  <2>5. faults' \in 0..MaxFaults /\ faulted' \subseteq Ghosts
    BY <1>3, <2>1, CommandType DEF TypeInv, TypeOK
  <2> QED
    BY <2>3, <2>4, <2>5, DbSame, NftSame DEF TypeInv, TypeOK, TaskTypeOK, RemoveOrphanPeer, Ghosts
<1> QED
  BY <1>2, <1>3 DEF RemoveOrphanPeer

-----------------------------------------------------------------------------
(* Type correctness *)

LEMMA TypeInit == Init => TypeInv
<1> SUFFICES ASSUME Init PROVE TypeInv
  OBVIOUS
<1>1. DbTypeOK
  <2>1. 1 \in 1..(MaxRules + 1) BY DatabaseAssumption
  <2> QED BY <2>1 DEF Init, DbInit, DbTypeOK
<1>2. WgTypeOK
  BY DEF Init, NoCarrier, WgTypeOK
<1>3. NftTypeOK
  BY DEF Init, NftTypeOK, NoRules, Chain
<1>4. TaskTypeOK
  BY IdleType, EventBridgeAssumption DEF Init, TaskTypeOK
<1>5. RowsHeld
  BY IdleType DEF Init, RowsHeld
<1>6. crashes \in 0..MaxCrashes
  BY WireGUIAssumption DEF Init
<1> QED
  BY <1>1, <1>2, <1>3, <1>4, <1>5, <1>6 DEF TypeInv, TypeOK

LEMMA StartType ==
  ASSUME TypeInv, NEW t \in Procs, Start(t), UNCHANGED crashes
  PROVE  TypeInv'
BY StartCreateType, StartUpdateType, StartDeleteType, StartDeleteUserType, CreateRuleType,
   UpdateRuleFromPageType, DeleteRuleRowType, ReorderRulesType
   DEF Start

LEMMA SharedStepType ==
  ASSUME TypeInv, NEW t \in Procs, SharedStep(t), UNCHANGED crashes
  PROVE  TypeInv'
BY InterfaceRoutesType, RouteAddType, RouteDelType, ListChainsType, NftBatchType
   DEF SharedStep

LEMMA StepType ==
  ASSUME TypeInv, NEW t \in Procs, Step(t), UNCHANGED crashes
  PROVE  TypeInv'
BY InsertType, RefreshType, SaveType, DeleteRowType, CascadeType, RefreshRuleType,
   AbandonCreateType, AddPeerStepType, AddUserChainStepType, AddJumpsStepType,
   RemovePeerStepType, RelaySubnetsStepType, ReadRulesType, ReadDevicesType, SharedStepType
   DEF Step

LEMMA BootStepType ==
  ASSUME TypeInv, BootStep
  PROVE  TypeInv'
BY BootType, GetPeersType, ReadAllDevicesType, ReadAllRulesType, AddMissingPeerType,
   RemoveOrphanPeerType, SharedStepType
   DEF BootStep

LEMMA TypeNext == TypeInv /\ [Next]_allVars => TypeInv'
<1> SUFFICES ASSUME TypeInv, [Next]_allVars PROVE TypeInv'
  OBVIOUS
<1>1. ASSUME NEW t \in Tasks, Start(t), UNCHANGED crashes PROVE TypeInv'
  BY <1>1, StartType DEF Procs
<1>2. CASE UpdateRuleFromApi /\ UNCHANGED crashes
  BY <1>2, UpdateRuleFromApiType
<1>3. ASSUME NEW t \in Tasks, TaskStep(t) PROVE TypeInv'
  BY <1>3, StepType DEF Procs, TaskStep
<1>4. CASE Crash
  BY <1>4, CrashType
<1>5. CASE StartupFails
  BY <1>5, StartupFailsType
<1>6. CASE Restart
  BY <1>6, RestartType
<1>7. CASE BootStep
  BY <1>7, BootStepType
<1>8. CASE UNCHANGED allVars
  BY <1>8, DbSame, WgSame, NftSame
  DEF allVars, vars, taskVars, ghosts, TypeInv, TypeOK, TaskTypeOK, RowsHeld
<1> QED
  BY <1>1, <1>2, <1>3, <1>4, <1>5, <1>6, <1>7, <1>8 DEF Next

\* Every variable, and every field of every task's local state, keeps its type,
\* and a handler that uses the row it holds really holds one (services/events.py:
\* device.user_id and device.allowed_ips are never read from nothing).
THEOREM TypeCorrect == Spec => [](TypeOK /\ RowsHeld)
<1>1. TypeInv => TypeOK /\ RowsHeld
  BY DEF TypeInv
<1> QED
  BY <1>1, TypeInit, TypeNext, PTL DEF Spec

-----------------------------------------------------------------------------
(* Who runs when *)

\* Where the startup task can be.
BootPCs == {"get_peers", "db_devices", "db_rules", "add_missing", "remove_orphans",
            "list_chains", "nft_batch", "interface_routes", "routes"}

Down    == phase = "down" => \A t \in Tasks : At(t, "idle")
Booting == IF phase = "startup"
           THEN task[Boot].pc \in BootPCs /\ task[Boot].op = "boot"
           ELSE At(Boot, "idle")
Serve   == \A t \in Tasks : task[t].op # "boot"

ControlInv == Down /\ Booting /\ Serve /\ TunnelRouteKept

-----------------------------------------------------------------------------
(* What a step of one task does to the tasks *)

\* Only t moves.
Alone(t) == \A s \in Procs \ {t} : task'[s] = task[s]

LEMMA BecomeMoves ==
  ASSUME TypeInv, NEW t \in Procs, NEW j, Become(t, j)
  PROVE  task'[t] = j /\ Alone(t)
BY DEF TypeInv, TypeOK, TaskTypeOK, Become, Alone

\* t moves on with its operation, or ends.
Continues(t) == Alone(t) /\ task'[t].op \in {task[t].op, "none"}

LEMMA BecomeContinues ==
  ASSUME TypeInv, NEW t \in Procs, NEW j, Become(t, j), j.op \in {task[t].op, "none"}
  PROVE  Continues(t)
BY BecomeMoves DEF Continues

LEMMA GotoContinues ==
  ASSUME TypeInv, NEW t \in Procs, NEW pc, Goto(t, pc)
  PROVE  /\ Continues(t) /\ task'[t].op = task[t].op /\ task'[t].pc = pc
         /\ task'[t].queue = task[t].queue /\ task'[t].gone = task[t].gone
         /\ task'[t].row = task[t].row /\ task'[t].user = task[t].user
<1>1. task[t] \in Job
  BY TaskType
<1> QED
  BY <1>1, BecomeMoves DEF Goto, Continues, Job

LEMMA FinishContinues ==
  ASSUME TypeInv, NEW t \in Procs, Finish(t)
  PROVE  Continues(t) /\ task'[t] = Idle
BY BecomeMoves DEF Finish, Continues, Idle

LEMMA NextDeviceContinues ==
  ASSUME TypeInv, NEW t \in Procs, NEW j \in Job, j.op = task[t].op, NextDevice(t, j)
  PROVE  Continues(t)
<1>1. ASSUME NEW r \in j.queue
      PROVE  [j EXCEPT !.pc = "remove_peer", !.row = r, !.queue = j.queue \ {r}].op = j.op
  BY DEF Job
<1> QED
  BY <1>1, FinishContinues, BecomeMoves DEF NextDevice, Continues

LEMMA RoutesLeftContinues ==
  ASSUME TypeInv, NEW t \in Procs, NEW j \in Job, j.op = task[t].op, RoutesLeft(t, j)
  PROVE  /\ Continues(t)
         /\ j.op # "boot" => UNCHANGED phase
         /\ j.op = "boot" => \/ task'[t] = Idle /\ phase' = "up"
                             \/ /\ task'[t].pc = "routes" /\ task'[t].op = "boot"
                                /\ UNCHANGED phase
<1>1. CASE Become(t, [j EXCEPT !.pc = "routes"]) /\ UNCHANGED phase
  <2>1. [j EXCEPT !.pc = "routes"].op = j.op /\ [j EXCEPT !.pc = "routes"].pc = "routes"
    BY DEF Job
  <2> QED BY <1>1, <2>1, BecomeMoves DEF Continues
<1>2. CASE AfterRoutes(t, j)
  <2>1. CASE j.op = "create"
    <3>1. [j EXCEPT !.pc = "add_user_chain"].op = j.op BY DEF Job
    <3> QED BY <1>2, <2>1, <3>1, BecomeMoves DEF AfterRoutes, Continues
  <2>2. CASE j.op = "update"
    <3>1. [j EXCEPT !.pc = "read_rules", !.user = j.row.owner].op = j.op BY DEF Job
    <3> QED BY <1>2, <2>2, <3>1, BecomeMoves DEF AfterRoutes, Continues
  <2>3. CASE j.op = "boot"
    BY <1>2, <2>3, FinishContinues DEF AfterRoutes
  <2>4. CASE j.op \notin {"create", "update", "boot"}
    BY <1>2, <2>4, NextDeviceContinues DEF AfterRoutes
  <2> QED BY <2>1, <2>2, <2>3, <2>4
<1> QED
  BY <1>1, <1>2 DEF RoutesLeft

LEMMA InterfaceRoutesPlan ==
  ASSUME TypeInv, NEW t \in Procs, InterfaceRoutes(t)
  PROVE  \E j \in Job : /\ j.op = task[t].op /\ j.queue = task[t].queue
                        /\ j.gone = task[t].gone /\ RoutesLeft(t, j)
<1> DEFINE j == task[t]
           Plan(actual) == [j EXCEPT !.want = {},
                                     !.add  = RoutesToAdd(j.want, actual),
                                     !.drop = RoutesToRemove(j.want, actual)]
<1>1. j \in Job
  BY TaskType
<1>2. j.want \in SUBSET Subnets /\ routes \in SUBSET (Subnets \cup {TunnelNet})
  BY <1>1 DEF Job, TypeInv, TypeOK, WgTypeOK
<1>3. ASSUME NEW actual \in SUBSET (Subnets \cup {TunnelNet})
      PROVE  /\ Plan(actual) \in Job
             /\ Plan(actual).op = j.op
             /\ Plan(actual).queue = j.queue
             /\ Plan(actual).gone = j.gone
  <2>1. RoutesToAdd(j.want, actual) \subseteq Subnets BY <1>2 DEF RoutesToAdd
  <2>2. RoutesToRemove(j.want, actual) \subseteq Subnets BY <1>2, RoutesToRemoveType
  <2> QED
    BY <1>1, <2>1, <2>2 DEF Job
<1>4. PICK actual \in SUBSET (Subnets \cup {TunnelNet}) : RoutesLeft(t, Plan(actual))
  <2>1. \A missed : routes \ missed \in SUBSET (Subnets \cup {TunnelNet})
    BY <1>2
  <2> QED
    BY <1>2, <2>1 DEF InterfaceRoutes
<1> QED
  BY <1>3, <1>4

LEMMA RouteAddPlan ==
  ASSUME TypeInv, NEW t \in Procs, RouteAdd(t)
  PROVE  \E j \in Job : /\ j.op = task[t].op /\ j.queue = task[t].queue
                        /\ j.gone = task[t].gone /\ RoutesLeft(t, j)
<1>1. task[t] \in Job
  BY TaskType
<1>2. PICK s \in task[t].add : RoutesLeft(t, [task[t] EXCEPT !.add = @ \ {s}])
  BY DEF RouteAdd
<1> DEFINE j == [task[t] EXCEPT !.add = @ \ {s}]
<1>3. j \in Job /\ j.op = task[t].op /\ j.queue = task[t].queue /\ j.gone = task[t].gone
  BY <1>1 DEF Job
<1> QED
  BY <1>2, <1>3

LEMMA RouteDelPlan ==
  ASSUME TypeInv, NEW t \in Procs, RouteDel(t)
  PROVE  \E j \in Job : /\ j.op = task[t].op /\ j.queue = task[t].queue
                        /\ j.gone = task[t].gone /\ RoutesLeft(t, j)
<1>1. task[t] \in Job
  BY TaskType
<1>2. PICK s \in task[t].drop : RoutesLeft(t, [task[t] EXCEPT !.drop = @ \ {s}])
  BY DEF RouteDel
<1> DEFINE j == [task[t] EXCEPT !.drop = @ \ {s}]
<1>3. j \in Job /\ j.op = task[t].op /\ j.queue = task[t].queue /\ j.gone = task[t].gone
  BY <1>1 DEF Job
<1> QED
  BY <1>2, <1>3

-----------------------------------------------------------------------------
(* The invariant *)

LEMMA TaskKeepsControl ==
  ASSUME TypeInv, ControlInv, NEW t \in Tasks, Alone(t), task'[t].op # "boot",
         phase # "down", UNCHANGED phase,
         phase \in {"startup", "up"} => TunnelNet \in routes'
  PROVE  ControlInv'
<1>1. UNCHANGED task[Boot]
  BY EventBridgeAssumption DEF Alone, Procs
<1>2. Serve'
  BY DEF ControlInv, Serve, Alone, Procs
<1> QED
  BY <1>1, <1>2 DEF ControlInv, Down, Booting, TunnelRouteKept, At

LEMMA StartControl ==
  ASSUME TypeInv, ControlInv, NEW t \in Tasks, Start(t)
  PROVE  ControlInv'
<1>1. phase # "down" /\ UNCHANGED phase /\ UNCHANGED routes
  BY DEF Start, StartCreate, StartUpdate, StartDelete, StartDeleteUser, CreateRule,
         UpdateRuleFromPage, DeleteRuleRow, ReorderRules, CanStart, Serving, wgVars
<1>2. phase \in {"startup", "up"} => TunnelNet \in routes'
  BY <1>1 DEF ControlInv, TunnelRouteKept
<1>3. ASSUME NEW j, Become(t, j), j.op # "boot"
      PROVE  ControlInv'
  BY <1>1, <1>2, <1>3, BecomeMoves, TaskKeepsControl DEF Procs
<1>4. CASE StartCreate(t)
  <2> DEFINE j(r) == [Idle EXCEPT !.pc = "insert", !.op = "create", !.row = r]
  <2>1. \E r : Become(t, j(r))
    BY <1>4 DEF StartCreate
  <2>2. \A r : j(r).op # "boot"
    BY DEF Idle
  <2> QED BY <2>1, <2>2, <1>3
<1>5. CASE StartUpdate(t)
  <2> DEFINE j(r, n) == [Idle EXCEPT !.pc = "save", !.op = "update", !.row = r, !.want = n]
  <2>1. \E r, n : Become(t, j(r, n))
    BY <1>5 DEF StartUpdate
  <2>2. \A r, n : j(r, n).op # "boot"
    BY DEF Idle
  <2> QED BY <2>1, <2>2, <1>3
<1>6. CASE StartDelete(t)
  <2> DEFINE j(r) == [Idle EXCEPT !.pc = "delete_row", !.op = "delete", !.row = r]
  <2>1. \E r : Become(t, j(r))
    BY <1>6 DEF StartDelete
  <2>2. \A r : j(r).op # "boot"
    BY DEF Idle
  <2> QED BY <2>1, <2>2, <1>3
<1>7. CASE StartDeleteUser(t)
  <2> DEFINE j(u) == [Idle EXCEPT !.pc = "cascade", !.op = "delete_user", !.user = u,
                        !.queue = RowsOf(u)]
  <2>1. \E u : Become(t, j(u))
    BY <1>7 DEF StartDeleteUser
  <2>2. \A u : j(u).op # "boot"
    BY DEF Idle
  <2> QED BY <2>1, <2>2, <1>3
<1>8. CASE CreateRule(t)
  <2> DEFINE j == [Idle EXCEPT !.pc = "refresh_rule", !.op = "rule_create", !.rule = nextRule]
  <2>1. Become(t, j)
    BY <1>8 DEF CreateRule
  <2>2. j.op # "boot"
    BY DEF Idle
  <2> QED BY <2>1, <2>2, <1>3
<1>9. CASE UpdateRuleFromPage(t)
  <2> DEFINE j(r) == [Idle EXCEPT !.pc = "refresh_rule", !.op = "rule_update", !.rule = r.id]
  <2>1. \E r : Become(t, j(r))
    BY <1>9 DEF UpdateRuleFromPage
  <2>2. \A r : j(r).op # "boot"
    BY DEF Idle
  <2> QED BY <2>1, <2>2, <1>3
<1>10. ASSUME NEW op \in AllOps, NEW u, TellOwner(t, op, u)
       PROVE  ControlInv'
  <2> DEFINE j == [Idle EXCEPT !.pc = "read_rules", !.op = op, !.user = u]
  <2>1. UNCHANGED task \/ Become(t, j)
    BY <1>10 DEF TellOwner
  <2>2. j.op # "boot"
    BY DEF Idle, AllOps
  <2>3. CASE UNCHANGED task
    BY <1>1, <1>2, <2>3 DEF ControlInv, Down, Booting, Serve, TunnelRouteKept, At
  <2> QED BY <2>1, <2>2, <2>3, <1>3
<1>11. CASE DeleteRuleRow(t) \/ ReorderRules(t)
  <2>1. \E u : TellOwner(t, "rule_delete", u) \/ TellOwner(t, "reorder", u)
    BY <1>11 DEF DeleteRuleRow, ReorderRules
  <2> QED BY <2>1, <1>10 DEF AllOps
<1> QED
  BY <1>4, <1>5, <1>6, <1>7, <1>8, <1>9, <1>11 DEF Start

\* A step of t leaves the phase alone and goes on with the same operation.
LEMMA RoutesStepsContinue ==
  ASSUME TypeInv, NEW t \in Procs, task[t].op # "boot",
         InterfaceRoutes(t) \/ RouteAdd(t) \/ RouteDel(t)
  PROVE  Continues(t) /\ UNCHANGED phase
BY InterfaceRoutesPlan, RouteAddPlan, RouteDelPlan, RoutesLeftContinues

LEMMA StepContinues ==
  ASSUME TypeInv, NEW t \in Procs, task[t].op # "boot", Step(t)
  PROVE  Continues(t) /\ UNCHANGED phase
<1> USE TaskType
<1>1. CASE Insert(t) \/ AddUserChainStep(t) \/ AddJumpsStep(t) \/ DeleteRow(t)
  BY <1>1, FinishContinues, GotoContinues
  DEF Insert, AddUserChainStep, AddJumpsStep, DeleteRow
<1>2. CASE AbandonCreate(t)
  BY <1>2, FinishContinues DEF AbandonCreate
<1>3. CASE Refresh(t)
  <2>1. ASSUME NEW r PROVE [task[t] EXCEPT !.pc = "add_peer", !.row = r].op = task[t].op
    BY DEF Job
  <2> QED BY <1>3, <2>1, FinishContinues, BecomeMoves DEF Refresh, Continues
<1>4. CASE Save(t)
  <2>1. [task[t] EXCEPT !.pc = "refresh", !.want = {}].op = task[t].op
    BY DEF Job
  <2> QED BY <1>4, <2>1, FinishContinues, BecomeMoves DEF Save, Continues
<1>5. CASE AddPeerStep(t)
  <2> DEFINE j == [task[t] EXCEPT !.pc = "routes", !.add = task[t].row.nets]
  <2>1. j.op = task[t].op
    BY DEF Job
  <2>2. Goto(t, "relay_subnets") \/ Goto(t, "add_user_chain") \/ Become(t, j)
    BY <1>5 DEF AddPeerStep, Goto
  <2>3. UNCHANGED phase
    BY <1>5 DEF AddPeerStep
  <2> QED BY <2>1, <2>2, <2>3, GotoContinues, BecomeContinues
<1>6. CASE Cascade(t)
  BY <1>6, NextDeviceContinues DEF Cascade
<1>7. CASE RemovePeerStep(t)
  BY <1>7, NextDeviceContinues, GotoContinues DEF RemovePeerStep
<1>8. CASE RelaySubnetsStep(t)
  <2>1. [task[t] EXCEPT !.pc = "interface_routes", !.want = RelaySubnets].op = task[t].op
    BY DEF Job
  <2> QED BY <1>8, <2>1, BecomeMoves DEF RelaySubnetsStep, Continues
<1>9. CASE RefreshRule(t)
  <2> DEFINE j(r) == [task[t] EXCEPT !.pc = "read_rules", !.user = r.user, !.rule = 0]
  <2>1. ASSUME NEW r PROVE j(r).op = task[t].op
    BY DEF Job
  <2>2. (Finish(t) \/ \E r : Become(t, j(r))) /\ UNCHANGED phase
    BY <1>9 DEF RefreshRule
  <2> QED BY <2>1, <2>2, FinishContinues, BecomeContinues
<1>10. CASE ReadRules(t)
  <2> DEFINE j(e, b) == [task[t] EXCEPT !.pc = "read_devices", !.row = NoRow, !.entries = e,
                                        !.bodies = b]
  <2>1. ASSUME NEW e, NEW b PROVE j(e, b).op = task[t].op
    BY DEF Job
  <2>2. (\E e, b : Become(t, j(e, b))) /\ UNCHANGED phase
    BY <1>10 DEF ReadRules
  <2> QED BY <2>1, <2>2, BecomeContinues
<1>11. CASE ReadDevices(t)
  <2>1. ASSUME NEW x
        PROVE  [task[t] EXCEPT !.pc = "list_chains", !.jumps = x].op = task[t].op
    BY DEF Job
  <2> QED BY <1>11, <2>1, BecomeMoves DEF ReadDevices, Continues
<1>12. CASE ListChains(t)
  <2> DEFINE j(x) == [task[t] EXCEPT !.pc = "nft_batch", !.orphans = x]
  <2>1. ASSUME NEW x PROVE j(x).op = task[t].op
    BY DEF Job
  <2>2. (\E x : Become(t, j(x))) /\ UNCHANGED phase
    BY <1>12 DEF ListChains
  <2> QED BY <2>1, <2>2, BecomeContinues
<1>13. CASE NftBatch(t)
  BY <1>13, FinishContinues DEF NftBatch
<1>14. CASE InterfaceRoutes(t) \/ RouteAdd(t) \/ RouteDel(t)
  BY <1>14, RoutesStepsContinue
<1> QED
  BY <1>1, <1>2, <1>3, <1>4, <1>5, <1>6, <1>7, <1>8, <1>9, <1>10, <1>11, <1>12, <1>13, <1>14
  DEF Step, SharedStep

\* Only two steps change the routes, and the one that removes a route removes a
\* relay subnet.
LEMMA StepKeepsTunnel ==
  ASSUME TypeInv, NEW t \in Procs, Step(t), TunnelNet \in routes
  PROVE  TunnelNet \in routes'
<1>1. CASE RouteDel(t)
  <2>1. PICK s \in task[t].drop : RemoveRoute(s) \/ UNCHANGED wgVars
    BY <1>1 DEF RouteDel
  <2>2. s \in Subnets
    BY TaskType DEF Job
  <2> QED
    BY <2>1, <2>2, WireGuardAssumption DEF RemoveRoute, wgVars
<1>2. CASE RouteAdd(t)
  BY <1>2 DEF RouteAdd, AddRoute, wgVars
<1>3. CASE ~RouteDel(t) /\ ~RouteAdd(t)
  <2>1. UNCHANGED routes
    BY <1>3 DEF Step, SharedStep, Insert, Refresh, Save, DeleteRow, Cascade, RefreshRule,
                AbandonCreate, AddPeerStep, AddPeer, AddUserChainStep, AddJumpsStep,
                RemovePeerStep, RemovePeer, RelaySubnetsStep, ReadRules, ReadDevices,
                InterfaceRoutes, ListChains, NftBatch, wgVars
  <2> QED BY <2>1
<1> QED
  BY <1>1, <1>2, <1>3

LEMMA StepNotIdle ==
  ASSUME NEW t \in Procs, Step(t)
  PROVE  ~At(t, "idle")
BY DEF Step, SharedStep, Insert, Refresh, Save, DeleteRow, Cascade, RefreshRule,
       AbandonCreate, AddPeerStep, AddUserChainStep, AddJumpsStep, RemovePeerStep,
       RelaySubnetsStep, ReadRules, ReadDevices, InterfaceRoutes, RouteAdd, RouteDel,
       ListChains, NftBatch, At

LEMMA TaskStepControl ==
  ASSUME TypeInv, ControlInv, NEW t \in Tasks, Step(t)
  PROVE  ControlInv'
<1>1. t \in Procs /\ task[t].op # "boot" /\ phase # "down"
  BY StepNotIdle DEF ControlInv, Down, Serve, Procs
<1>2. Continues(t) /\ UNCHANGED phase
  BY <1>1, StepContinues
<1>3. phase \in {"startup", "up"} => TunnelNet \in routes'
  BY <1>1, StepKeepsTunnel DEF ControlInv, TunnelRouteKept
<1>4. task'[t].op # "boot"
  BY <1>1, <1>2 DEF Continues
<1> QED
  BY <1>1, <1>2, <1>3, <1>4, TaskKeepsControl DEF Continues

LEMMA BootKeepsControl ==
  ASSUME TypeInv, ControlInv, phase = "startup", Alone(Boot), TunnelNet \in routes',
         \/ /\ task'[Boot].pc \in BootPCs /\ task'[Boot].op = "boot"
            /\ UNCHANGED phase
         \/ task'[Boot] = Idle /\ phase' = "up"
  PROVE  ControlInv'
<1>1. \A t \in Tasks : task'[t] = task[t]
  BY EventBridgeAssumption DEF Alone, Procs
<1> QED
  BY <1>1 DEF ControlInv, Down, Booting, Serve, TunnelRouteKept, At, Idle

\* The steps of reconcile() that only the startup task has.
LEMMA ReconcileStepControl ==
  ASSUME TypeInv, ControlInv,
         GetPeers \/ ReadAllDevices \/ ReadAllRules \/ AddMissingPeer \/ RemoveOrphanPeer
  PROVE  ControlInv'
<1> USE BootType
<1>1. task[Boot] \in Job
  BY TaskType
<1>2. phase = "startup" /\ task[Boot].op = "boot" /\ TunnelNet \in routes
  BY DEF ControlInv, Booting, TunnelRouteKept, GetPeers, ReadAllDevices, ReadAllRules,
         AddMissingPeer, RemoveOrphanPeer, At
<1>3. TunnelNet \in routes' /\ UNCHANGED phase
  BY <1>2 DEF GetPeers, ReadAllDevices, ReadAllRules, AddMissingPeer, AddPeer,
              RemoveOrphanPeer, RemovePeer, wgVars
<1>4. ASSUME NEW pc \in BootPCs, Goto(Boot, pc)
      PROVE  ControlInv'
  BY <1>2, <1>3, <1>4, GotoContinues, BootKeepsControl DEF Continues
<1>5. ASSUME NEW j, Become(Boot, j), j.pc \in BootPCs, j.op = "boot"
      PROVE  ControlInv'
  BY <1>2, <1>3, <1>5, BecomeMoves, BootKeepsControl
<1>6. CASE GetPeers
  <2> DEFINE j == [task[Boot] EXCEPT !.pc = "db_devices", !.gone = peers]
  <2>1. j.pc \in BootPCs /\ j.op = "boot"
    BY <1>1, <1>2 DEF Job, BootPCs
  <2>2. Goto(Boot, "db_devices") \/ Become(Boot, j)
    BY <1>6 DEF GetPeers
  <2> QED BY <2>1, <2>2, <1>4, <1>5 DEF BootPCs
<1>7. CASE ReadAllDevices
  <2> DEFINE j(q, g, w, e, x) == [task[Boot] EXCEPT !.pc = "db_rules", !.queue = q, !.gone = g,
                                    !.want = w, !.entries = e, !.jumps = x]
  <2>1. ASSUME NEW q, NEW g, NEW w, NEW e, NEW x
        PROVE  j(q, g, w, e, x).pc \in BootPCs /\ j(q, g, w, e, x).op = "boot"
    BY <1>1, <1>2 DEF Job, BootPCs
  <2>2. PICK q, g, w, e, x : Become(Boot, j(q, g, w, e, x))
    BY <1>7 DEF ReadAllDevices
  <2>3. j(q, g, w, e, x).pc \in BootPCs /\ j(q, g, w, e, x).op = "boot"
    BY <2>1
  <2> HIDE DEF j
  <2> QED BY <2>2, <2>3, <1>5
<1>8. CASE ReadAllRules
  <2> DEFINE j(e, b) == [task[Boot] EXCEPT !.pc = "add_missing", !.entries = e, !.bodies = b]
  <2>1. ASSUME NEW e, NEW b
        PROVE  j(e, b).pc \in BootPCs /\ j(e, b).op = "boot"
    BY <1>1, <1>2 DEF Job, BootPCs
  <2>2. \E e, b : Become(Boot, j(e, b))
    BY <1>8 DEF ReadAllRules
  <2> QED BY <2>1, <2>2, <1>5
<1>9. CASE AddMissingPeer
  <2> DEFINE j(r) == [task[Boot] EXCEPT !.queue = @ \ {r}]
  <2>1. ASSUME NEW r
        PROVE  j(r).pc \in BootPCs /\ j(r).op = "boot"
    BY <1>1, <1>2, <1>9 DEF Job, BootPCs, AddMissingPeer, At
  <2>2. Goto(Boot, "remove_orphans") \/ \E r : Become(Boot, j(r))
    BY <1>9 DEF AddMissingPeer
  <2> QED BY <2>1, <2>2, <1>4, <1>5 DEF BootPCs
<1>10. CASE RemoveOrphanPeer
  <2> DEFINE j(k) == [task[Boot] EXCEPT !.gone = @ \ {k}]
  <2>1. ASSUME NEW k
        PROVE  j(k).pc \in BootPCs /\ j(k).op = "boot"
    BY <1>1, <1>2, <1>10 DEF Job, BootPCs, RemoveOrphanPeer, At
  <2>2. Goto(Boot, "list_chains") \/ \E k : Become(Boot, j(k))
    BY <1>10 DEF RemoveOrphanPeer
  <2> QED BY <2>1, <2>2, <1>4, <1>5 DEF BootPCs
<1> QED
  BY <1>6, <1>7, <1>8, <1>9, <1>10

\* The steps the startup task shares with the others.
LEMMA BootSharedStepControl ==
  ASSUME TypeInv, ControlInv, SharedStep(Boot)
  PROVE  ControlInv'
<1> USE BootType
<1>1. task[Boot] \in Job
  BY TaskType
<1>2. phase = "startup" /\ task[Boot].op = "boot" /\ TunnelNet \in routes
  BY DEF ControlInv, Booting, TunnelRouteKept, SharedStep, InterfaceRoutes, RouteAdd,
         RouteDel, ListChains, NftBatch, At
<1>3. TunnelNet \in routes'
  BY <1>2, StepKeepsTunnel DEF Step
<1>4. CASE InterfaceRoutes(Boot) \/ RouteAdd(Boot) \/ RouteDel(Boot)
  <2>1. PICK j \in Job : j.op = "boot" /\ RoutesLeft(Boot, j)
    BY <1>2, <1>4, InterfaceRoutesPlan, RouteAddPlan, RouteDelPlan
  <2>2. Continues(Boot) /\ (\/ task'[Boot] = Idle /\ phase' = "up"
                            \/ /\ task'[Boot].pc = "routes" /\ task'[Boot].op = "boot"
                               /\ UNCHANGED phase)
    BY <1>2, <2>1, RoutesLeftContinues
  <2> QED BY <1>2, <1>3, <2>2, BootKeepsControl DEF Continues, BootPCs
<1>5. CASE ListChains(Boot)
  <2> DEFINE j(x) == [task[Boot] EXCEPT !.pc = "nft_batch", !.orphans = x]
  <2>1. ASSUME NEW x PROVE j(x).op = "boot" /\ j(x).pc \in BootPCs
    BY <1>1, <1>2 DEF Job, BootPCs
  <2>2. (\E x : Become(Boot, j(x))) /\ UNCHANGED phase
    BY <1>5 DEF ListChains
  <2> QED BY <1>2, <1>3, <2>1, <2>2, BecomeMoves, BootKeepsControl
<1>6. CASE NftBatch(Boot)
  <2> DEFINE j(w) == [Idle EXCEPT !.pc = "interface_routes", !.op = "boot", !.want = w]
  <2>1. ASSUME NEW w PROVE j(w).op = "boot" /\ j(w).pc \in BootPCs
    BY DEF Idle, BootPCs
  <2>2. (\E w : Become(Boot, j(w))) /\ UNCHANGED phase
    BY <1>2, <1>6 DEF NftBatch
  <2> QED BY <1>2, <1>3, <2>1, <2>2, BecomeMoves, BootKeepsControl
<1> QED
  BY <1>4, <1>5, <1>6 DEF SharedStep

LEMMA ControlInit == Init => ControlInv
BY EventBridgeAssumption
   DEF Init, ControlInv, Down, Booting, Serve, TunnelRouteKept, At, Idle, Procs

LEMMA ControlNext == TypeInv /\ ControlInv /\ [Next]_allVars => ControlInv'
<1> SUFFICES ASSUME TypeInv, ControlInv, [Next]_allVars PROVE ControlInv'
  OBVIOUS
<1>1. ASSUME NEW t \in Tasks, Start(t) PROVE ControlInv'
  BY <1>1, StartControl
<1>2. CASE UpdateRuleFromApi
  BY <1>2 DEF UpdateRuleFromApi, taskVars, wgVars,
              ControlInv, Down, Booting, Serve, TunnelRouteKept, At
<1>3. ASSUME NEW t \in Tasks, TaskStep(t) PROVE ControlInv'
  BY <1>3, TaskStepControl DEF TaskStep
<1>4. CASE Crash
  BY <1>4, EventBridgeAssumption
  DEF Crash, ControlInv, Down, Booting, Serve, TunnelRouteKept, At, Idle, Procs
<1>5. CASE Restart
  <2> DEFINE j == [Idle EXCEPT !.pc = "get_peers", !.op = "boot"]
  <2>1. j.pc \in BootPCs /\ j.op = "boot"
    BY DEF Idle, BootPCs
  <2>2. task'[Boot] = j /\ Alone(Boot)
    BY <1>5, BootType, BecomeMoves DEF Restart, Become
  <2>3. \A t \in Tasks : task'[t] = task[t]
    BY <2>2, EventBridgeAssumption DEF Alone, Procs
  <2>4. TunnelNet \in routes' /\ phase' = "startup"
    BY <1>5 DEF Restart, ConfigureInterface
  <2> QED
    BY <2>1, <2>2, <2>3, <2>4 DEF ControlInv, Down, Booting, Serve, TunnelRouteKept, At
<1>6. CASE BootStep
  BY <1>6, ReconcileStepControl, BootSharedStepControl DEF BootStep
<1>7. CASE StartupFails
  BY <1>7 DEF StartupFails, ControlInv, Down, Booting, Serve, TunnelRouteKept, At
<1>8. CASE UNCHANGED allVars
  BY <1>8 DEF allVars, vars, taskVars, wgVars,
              ControlInv, Down, Booting, Serve, TunnelRouteKept, At
<1> QED
  BY <1>1, <1>2, <1>3, <1>4, <1>5, <1>6, <1>7, <1>8 DEF Next

\* Nothing runs while the process is down, and requests alone never run
\* reconcile()'s steps (main.py startup).
THEOREM Control == Spec => [](Down /\ Booting /\ Serve)
<1>1. ControlInv => Down /\ Booting /\ Serve
  BY DEF ControlInv
<1> QED
  BY <1>1, TypeInit, TypeNext, ControlInit, ControlNext, PTL DEF Spec

\* Whatever operations overlap, however stale what sync_routes read, and whichever
\* commands fail, the tunnel network stays routed while the process is up
\* (sync_routes: the subnets it prunes never include the interface's own).
THEOREM TunnelRoute == Spec => []TunnelRouteKept
<1>1. ControlInv => TunnelRouteKept
  BY DEF ControlInv
<1> QED
  BY <1>1, TypeInit, TypeNext, ControlInit, ControlNext, PTL DEF Spec

=============================================================================
