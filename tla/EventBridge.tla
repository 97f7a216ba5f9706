---------------------------- MODULE EventBridge -----------------------------
(***************************************************************************)
(* The operations of the admin pages, the user pages and the REST API that *)
(* change devices, rules and users, and the event bridge                   *)
(* (services/events.py, services/users.py) that carries each change to     *)
(* WireGuard and nftables.                                                 *)
(*                                                                         *)
(* The program is one asyncio process: a task runs alone until it awaits a *)
(* database statement or a command (wg, ip, nft), so one action below is   *)
(* what a task does up to and including one awaited effect, and tasks      *)
(* interleave between actions.  The startup reconciliation is the task     *)
(* Boot; its own steps are in WireGUI, it shares sync_routes and           *)
(* rebuild_all_rules with the others.                                      *)
(*                                                                         *)
(* WireGuard is enabled (wg_enabled), so no handler returns at its first   *)
(* line.                                                                   *)
(***************************************************************************)
EXTENDS WireGuard, Nftables

CONSTANTS Tasks,        \* asyncio tasks that can be under way at once
          Boot,         \* the startup task
          NoRow,        \* a task that holds no device row
          Ops,          \* the operations users perform in this instance
          RuleOwners,   \* owners a rule may be given: users, or Global
          MaxFaults,    \* bound: commands that fail
          ServeWhileStarting  \* may requests be served before startup() returns?

AllOps == {"create", "update", "delete", "delete_user", "rule_create", "rule_update",
           "rule_update_api", "rule_delete", "reorder"}

ASSUME EventBridgeAssumption ==
  /\ Boot \notin Tasks
  /\ NoRow \notin DeviceRow
  /\ Ops \subseteq AllOps
  /\ RuleOwners \subseteq Users \cup {Global}
  /\ MaxFaults \in Nat
  /\ ServeWhileStarting \in BOOLEAN

VARIABLES task,         \* local state of each task
          phase,        \* "down", "startup" (startup() is running), "up", or
                        \* "unready" (startup() failed and requests are served)
          faults,       \* commands that have failed so far
          faulted,      \* ghost: keys, subnets and users whose last command failed or was skipped
          contended,    \* ghost: keys for which two operations were under way at
                        \* once since the last start
          lagging       \* ghost: users whose chain or jumps were left behind since the
                        \* last rebuild of their chain began

taskVars == <<task, phase>>
ghosts   == <<faulted, contended, lagging>>
vars     == <<dbVars, wgVars, nftVars, taskVars, faults, ghosts>>

Procs == Tasks \cup {Boot}

-----------------------------------------------------------------------------
(* Local state of a task *)

PCs == {"idle",
        \* database statements of the handlers
        "insert", "refresh", "save", "delete_row", "cascade", "refresh_rule",
        \* on_device_created, on_device_updated, on_device_deleted
        "add_peer", "remove_peer", "add_user_chain", "add_jumps", "relay_subnets",
        \* sync_routes, add_routes, remove_routes
        "interface_routes", "routes",
        \* _rebuild_user_chain, rebuild_all_rules
        "read_rules", "read_devices", "list_chains", "nft_batch",
        \* reconcile
        "get_peers", "db_devices", "db_rules", "add_missing", "remove_orphans"}

Job == [pc      : PCs,
        op      : AllOps \cup {"none", "boot"},
        user    : Users \cup {Global},       \* whose chain, or which user, it works on
        rule    : 0..MaxRules,               \* the rule it inserted or updated
        row     : DeviceRow \cup {NoRow},    \* the device row it holds
        queue   : SUBSET DeviceRow,          \* device rows it has yet to handle
        gone    : SUBSET Devices,            \* keys Boot saw, then keys it must remove
        want    : SUBSET Subnets,            \* relay subnets expected or entered
        add     : SUBSET Subnets,            \* routes it has yet to add
        drop    : SUBSET Subnets,            \* routes it has yet to remove
        entries : SUBSET Users,              \* users whose chains it rebuilds
        bodies  : [Users -> Chain],          \* rules it read for them
        jumps   : SUBSET ((Addresses \cup Subnets) \X Users),
        orphans : SUBSET Users]              \* chains it found and will delete

Idle == [pc |-> "idle", op |-> "none", user |-> Global, rule |-> 0, row |-> NoRow,
         queue |-> {}, gone |-> {}, want |-> {}, add |-> {}, drop |-> {},
         entries |-> {}, bodies |-> NoRules, jumps |-> {}, orphans |-> {}]

TaskTypeOK ==
  /\ task \in [Procs -> Job]
  /\ phase \in {"down", "startup", "up", "unready"}
  /\ faults \in 0..MaxFaults
  /\ faulted \subseteq Devices \cup Subnets \cup Users
  /\ contended \subseteq Devices
  /\ lagging \subseteq Users

At(t, pc)     == task[t].pc = pc
Become(t, j)  == task' = [task EXCEPT ![t] = j]
Goto(t, pc)   == Become(t, [task[t] EXCEPT !.pc = pc])
Finish(t)     == Become(t, Idle)

\* A command that succeeds for x, and one that fails for x: failures are caught
\* and logged by the handlers, which go on.
Succeeds(x) == faulted' = faulted \ x /\ UNCHANGED faults
Fails(x)    == faults < MaxFaults /\ faults' = faults + 1 /\ faulted' = faulted \cup x

Serving == phase \in {"up", "unready"} \/ (ServeWhileStarting /\ phase = "startup")
CanStart(t, op) == At(t, "idle") /\ Serving /\ op \in Ops

\* A command for the peer of k is still ahead of task t.
PeerPCs == {"insert", "refresh", "save", "delete_row", "cascade", "add_peer", "remove_peer"}
Ahead(t, k) ==
  \/ /\ task[t].pc \in PeerPCs
     /\ task[t].row # NoRow
     /\ task[t].row.key = k
  \/ \E r \in task[t].queue : r.key = k

\* Starting an operation on the keys K contends with the tasks that are still
\* ahead of a command for one of them, and with startup.
Contends(K) ==
  contended' = contended \cup
    IF phase = "startup" THEN K ELSE {k \in K : \E t \in Tasks : Ahead(t, k)}

\* Task t rebuilds the chain of u; it has already read u's rules for it.
RebuildPCs == {"read_rules", "read_devices", "list_chains", "nft_batch"}
Rebuilds(t, u)    == task[t].pc \in RebuildPCs /\ task[t].user = u
HasReadFor(t, u)  == Rebuilds(t, u) /\ ~At(t, "read_rules")

\* A commit that changes what the chains and jumps of the users in U should be,
\* and that leads to a rebuild, or to jumps, for those told.  Rebuilds that have
\* already read write what was there before.
Changes(U, told) ==
  lagging' = lagging \cup
    {u \in U \ {Global} : u \notin told \/ \E t \in Tasks : HasReadFor(t, u)}

-----------------------------------------------------------------------------
(* Create a device: POST /devices and the two create_device pages.  The     *)
(* pages show the client's configuration first and only then run            *)
(* on_device_created in a task of its own.                                  *)

StartCreate(t) ==
  /\ CanStart(t, "create")
  /\ \E k \in Devices \ born, u \in users, a \in Addresses \ UsedIps, n \in SUBSET Subnets :
       /\ Become(t, [Idle EXCEPT !.pc = "insert", !.op = "create",
                       !.row = [key |-> k, owner |-> u, ip |-> a, nets |-> n]])
       /\ born' = born \cup {k}
       /\ contended' = IF \/ phase = "startup"
                          \/ \E s \in Tasks : At(s, "cascade") /\ task[s].user = u
                       THEN contended \cup {k} ELSE contended
  /\ UNCHANGED <<users, devices, rules, nextRule, wgVars, nftVars, phase, faults, faulted, lagging>>

\* The commit; an IntegrityError (owner gone, address taken) ends the request.
Insert(t) ==
  /\ At(t, "insert")
  /\ IF CanInsertDevice(task[t].row)
     THEN /\ InsertDevice(task[t].row) /\ Goto(t, "refresh")
          /\ Changes({task[t].row.owner}, {task[t].row.owner})
     ELSE Finish(t) /\ UNCHANGED <<dbVars, lagging>>
  /\ UNCHANGED <<wgVars, nftVars, phase, faults, faulted, contended>>

\* session.refresh reads the row again; it raises when the row is gone.
Refresh(t) ==
  /\ At(t, "refresh")
  /\ \/ \E r \in devices :
          /\ r.key = task[t].row.key
          /\ Become(t, [task[t] EXCEPT !.pc = "add_peer", !.row = r])
     \/ ~Live(task[t].row.key) /\ Finish(t)
  /\ UNCHANGED <<dbVars, wgVars, nftVars, phase, faults, ghosts>>

\* The page fails after the commit, while it builds or shows the client's
\* configuration: on_device_created is never called.
AbandonCreate(t) ==
  LET row == task[t].row IN
  /\ At(t, "add_peer")
  /\ task[t].op = "create"
  /\ Fails({row.key, row.owner} \cup row.nets)
  /\ Finish(t)
  /\ UNCHANGED <<dbVars, wgVars, nftVars, phase, contended, lagging>>

\* First step of on_device_created and on_device_updated.
AddPeerStep(t) ==
  LET row == task[t].row IN
  /\ At(t, "add_peer")
  /\ \/ AddPeer(row.key, AllowedIps(row)) /\ Succeeds({row.key})
     \/ UNCHANGED wgVars /\ Fails({row.key})
  /\ Become(t, IF task[t].op = "update"
               THEN [task[t] EXCEPT !.pc = "relay_subnets"]
               ELSE IF row.nets = {}
               THEN [task[t] EXCEPT !.pc = "add_user_chain"]
               ELSE [task[t] EXCEPT !.pc = "routes", !.add = row.nets])
  /\ UNCHANGED <<dbVars, nftVars, phase, contended, lagging>>

\* When the chain cannot be added the jumps are not added either: one try for both.
AddUserChainStep(t) ==
  LET u == task[t].row.owner IN
  /\ At(t, "add_user_chain")
  /\ \/ AddUserChain(u) /\ Goto(t, "add_jumps") /\ UNCHANGED <<faults, faulted>>
     \/ UNCHANGED nftVars /\ Finish(t) /\ Fails({u})
  /\ UNCHANGED <<dbVars, wgVars, phase, contended, lagging>>

AddJumpsStep(t) ==
  LET row == task[t].row IN
  /\ At(t, "add_jumps")
  /\ \/ /\ CanJump(row.owner)
        /\ AddDeviceJumps(row)
        /\ UNCHANGED <<faults, faulted>>
     \/ ~CanJump(row.owner) /\ UNCHANGED <<nftVars, faults, faulted>>
     \/ UNCHANGED nftVars /\ Fails({row.owner})
  /\ Finish(t)
  /\ UNCHANGED <<dbVars, wgVars, phase, contended, lagging>>

-----------------------------------------------------------------------------
(* Edit a device: PUT /devices and the save_edit pages.  Only the admin     *)
(* page edits the relay subnets; the others leave them as they are.         *)

StartUpdate(t) ==
  /\ CanStart(t, "update")
  /\ \E r \in devices, n \in SUBSET Subnets :
       /\ Become(t, [Idle EXCEPT !.pc = "save", !.op = "update", !.row = r, !.want = n])
       /\ Contends({r.key})
  /\ UNCHANGED <<dbVars, wgVars, nftVars, phase, faults, faulted, lagging>>

\* The commit writes the columns that differ from the row loaded; it raises
\* StaleDataError when the row is gone.
Save(t) ==
  LET j == task[t] IN
  /\ At(t, "save")
  /\ \/ ~Live(j.row.key) /\ Finish(t) /\ UNCHANGED <<dbVars, lagging>>
     \/ /\ Live(j.row.key)
        /\ IF j.want = j.row.nets THEN UNCHANGED dbVars ELSE UpdateNets(j.row.key, j.want)
        /\ Become(t, [j EXCEPT !.pc = "refresh", !.want = {}])
        /\ Changes({j.row.owner}, {j.row.owner})
  /\ UNCHANGED <<wgVars, nftVars, phase, faults, faulted, contended>>

-----------------------------------------------------------------------------
(* Delete a device, and delete a user with all devices                      *)

StartDelete(t) ==
  /\ CanStart(t, "delete")
  /\ \E r \in devices :
       /\ Become(t, [Idle EXCEPT !.pc = "delete_row", !.op = "delete", !.row = r])
       /\ Contends({r.key})
  /\ UNCHANGED <<dbVars, wgVars, nftVars, phase, faults, faulted, lagging>>

\* The commit; deleting a row that is already gone only warns.
DeleteRow(t) ==
  /\ At(t, "delete_row")
  /\ DeleteDevice(task[t].row.key)
  /\ Goto(t, "remove_peer")
  /\ UNCHANGED <<wgVars, nftVars, phase, faults, ghosts>>

\* delete_user_and_cleanup: the devices are read before the user is deleted.
StartDeleteUser(t) ==
  /\ CanStart(t, "delete_user")
  /\ \E u \in users :
       /\ Become(t, [Idle EXCEPT !.pc = "cascade", !.op = "delete_user", !.user = u,
                       !.queue = RowsOf(u)])
       /\ Contends({r.key : r \in RowsOf(u)} \cup
                   {k \in Devices : \E s \in Tasks : /\ At(s, "insert")
                                                     /\ task[s].row.owner = u
                                                     /\ task[s].row.key = k})
  /\ UNCHANGED <<dbVars, wgVars, nftVars, phase, faults, faulted, lagging>>

\* Mutant: the devices are looked up after the delete, which finds none.
NextDevice_NoneLeft(t, j) == Finish(t)

\* Go on with the next device of the queue, or end.
NextDevice(t, j) ==
  \/ j.queue = {} /\ Finish(t)
  \/ \E r \in j.queue :
       Become(t, [j EXCEPT !.pc = "remove_peer", !.row = r, !.queue = j.queue \ {r}])

Cascade(t) ==
  /\ At(t, "cascade")
  /\ DeleteUser(task[t].user)
  /\ NextDevice(t, task[t])
  /\ UNCHANGED <<wgVars, nftVars, phase, faults, ghosts>>

\* First step of on_device_deleted; routes are synced only when the row held
\* relay subnets.
RemovePeerStep(t) ==
  LET row == task[t].row IN
  /\ At(t, "remove_peer")
  /\ \/ RemovePeer(row.key) /\ Succeeds({row.key})
     \/ UNCHANGED wgVars /\ Fails({row.key})
  /\ IF row.nets # {} THEN Goto(t, "relay_subnets") ELSE NextDevice(t, task[t])
  /\ UNCHANGED <<dbVars, nftVars, phase, contended, lagging>>

-----------------------------------------------------------------------------
(* sync_routes                                                              *)

\* Mutant: the subnets of the device at hand are expected to stay.
RelaySubnetsStep_OwnOnly(t) ==
  /\ At(t, "relay_subnets")
  /\ Become(t, [task[t] EXCEPT !.pc = "interface_routes", !.want = task[t].row.nets])
  /\ UNCHANGED <<dbVars, wgVars, nftVars, phase, faults, ghosts>>

\* The expected subnets: the union over the devices now in the table.
RelaySubnetsStep(t) ==
  /\ At(t, "relay_subnets")
  /\ Become(t, [task[t] EXCEPT !.pc = "interface_routes", !.want = RelaySubnets])
  /\ UNCHANGED <<dbVars, wgVars, nftVars, phase, faults, ghosts>>

\* What each caller does once its routes are dealt with.
AfterRoutes(t, j) ==
  CASE j.op = "create" -> Become(t, [j EXCEPT !.pc = "add_user_chain"]) /\ UNCHANGED phase
    [] j.op = "update" -> /\ Become(t, [j EXCEPT !.pc = "read_rules", !.user = j.row.owner])
                          /\ UNCHANGED phase
    [] j.op = "boot"   -> Finish(t) /\ phase' = "up"
    [] OTHER           -> NextDevice(t, j) /\ UNCHANGED phase

RoutesLeft(t, j) ==
  IF j.add = {} /\ j.drop = {}
  THEN AfterRoutes(t, j)
  ELSE Become(t, [j EXCEPT !.pc = "routes"]) /\ UNCHANGED phase

\* The actual routes, listed by two commands, for IPv4 and for IPv6 (one step
\* here).  The routes that a failed command does not list are missed, and those
\* among them that should go are left.
InterfaceRoutes(t) ==
  LET j == task[t]
      Plan(actual) == [j EXCEPT !.want = {},
                                !.add  = RoutesToAdd(j.want, actual),
                                !.drop = RoutesToRemove(j.want, actual)]
  IN
  /\ At(t, "interface_routes")
  /\ \/ RoutesLeft(t, Plan(routes)) /\ UNCHANGED <<faults, faulted>>
     \/ \E missed \in SUBSET routes :
          RoutesLeft(t, Plan(routes \ missed)) /\ Fails(RoutesToRemove(j.want, missed))
  /\ UNCHANGED <<dbVars, wgVars, nftVars, contended, lagging>>

\* One ip route add per subnet, then one ip route del per orphan.
RouteAdd(t) ==
  /\ At(t, "routes")
  /\ \E s \in task[t].add :
       /\ \/ AddRoute(s) /\ Succeeds({s})
          \/ UNCHANGED wgVars /\ Fails({s})
       /\ RoutesLeft(t, [task[t] EXCEPT !.add = @ \ {s}])
  /\ UNCHANGED <<dbVars, nftVars, contended, lagging>>

RouteDel(t) ==
  /\ At(t, "routes")
  /\ task[t].add = {}
  /\ \E s \in task[t].drop :
       /\ \/ RemoveRoute(s) /\ Succeeds({s})
          \/ UNCHANGED wgVars /\ Fails({s})
       /\ RoutesLeft(t, [task[t] EXCEPT !.drop = @ \ {s}])
  /\ UNCHANGED <<dbVars, nftVars, contended, lagging>>

-----------------------------------------------------------------------------
(* Rules: the REST API and the rules page.  Every change but the API's      *)
(* update fires an event; an event of a global rule does nothing.           *)

CreateRule(t) ==
  /\ CanStart(t, "rule_create")
  /\ nextRule <= MaxRules
  /\ \E o \in RuleOwners \cap (users \cup {Global}), p \in Priorities, e \in Exprs :
       /\ InsertRule(o, p, e)
       /\ Become(t, [Idle EXCEPT !.pc = "refresh_rule", !.op = "rule_create",
                       !.rule = nextRule])
       /\ Changes({o}, {o})
  /\ UNCHANGED <<wgVars, nftVars, phase, faults, faulted, contended>>

\* The save_edit of the rules page, which may also give the rule another owner;
\* the former one is not told.
UpdateRuleFromPage(t) ==
  /\ CanStart(t, "rule_update")
  /\ \E r \in rules, o \in RuleOwners \cap (users \cup {Global}), p \in Priorities, e \in Exprs :
       /\ UpdateRule(r, o, p, e)
       /\ Become(t, [Idle EXCEPT !.pc = "refresh_rule", !.op = "rule_update", !.rule = r.id])
       /\ Changes({r.user, o}, {o})
  /\ UNCHANGED <<wgVars, nftVars, phase, faults, faulted, contended>>

\* PUT /rules sets every field that was sent, the owner among them, commits and
\* returns.
UpdateRuleFromApi ==
  /\ Serving /\ "rule_update_api" \in Ops
  /\ \E r \in rules, o \in RuleOwners \cap (users \cup {Global}), p \in Priorities, e \in Exprs :
       UpdateRule(r, o, p, e) /\ Changes({r.user, o}, {})
  /\ UNCHANGED <<wgVars, nftVars, taskVars, faults, faulted, contended>>

\* session.refresh, then on_rule_created or on_rule_updated.
RefreshRule(t) ==
  /\ At(t, "refresh_rule")
  /\ \/ \E r \in rules :
          /\ r.id = task[t].rule
          /\ IF r.user = Global THEN Finish(t)
             ELSE Become(t, [task[t] EXCEPT !.pc = "read_rules", !.user = r.user, !.rule = 0])
     \/ (\A r \in rules : r.id # task[t].rule) /\ Finish(t)
  /\ UNCHANGED <<dbVars, wgVars, nftVars, phase, faults, ghosts>>

\* Mutant: only owners that have a device are told.
TellOwner_OfDevice(t, op, u) ==
  IF u = Global \/ RowsOf(u) = {} THEN UNCHANGED task
  ELSE Become(t, [Idle EXCEPT !.pc = "read_rules", !.op = op, !.user = u])

\* The event for the owner of rules that have changed.
TellOwner(t, op, u) ==
  IF u = Global THEN UNCHANGED task
  ELSE Become(t, [Idle EXCEPT !.pc = "read_rules", !.op = op, !.user = u])

DeleteRuleRow(t) ==
  /\ CanStart(t, "rule_delete")
  /\ \E r \in rules :
       DeleteRule(r) /\ TellOwner(t, "rule_delete", r.user) /\ Changes({r.user}, {r.user})
  /\ UNCHANGED <<wgVars, nftVars, phase, faults, faulted, contended>>

\* Dragging one of a user's rules before another: the priorities of all of them
\* are assigned anew, each different.  Then the page's filter is read again: it
\* may name another of the users the page has loaded by now, or nobody.
ReorderRules(t) ==
  /\ CanStart(t, "reorder")
  /\ \E u \in users :
       /\ Cardinality(RulesOf(u)) > 1
       /\ \E prio \in [RulesOf(u) -> Priorities] :
            /\ \A r, s \in RulesOf(u) : r # s => prio[r] # prio[s]
            /\ rules' = (rules \ RulesOf(u)) \cup
                        {[r EXCEPT !.priority = prio[r]] : r \in RulesOf(u)}
       /\ \E filter \in Users \cup {Global} :
            TellOwner(t, "reorder", filter) /\ Changes({u}, {filter})
  /\ UNCHANGED <<users, devices, born, nextRule, wgVars, nftVars, phase, faults, faulted, contended>>

-----------------------------------------------------------------------------
(* _rebuild_user_chain and rebuild_all_rules                                *)

ReadRules(t) ==
  LET u == task[t].user IN
  /\ At(t, "read_rules")
  /\ Become(t, [task[t] EXCEPT !.pc = "read_devices", !.row = NoRow, !.entries = {u},
                  !.bodies = [NoRules EXCEPT ![u] = Ordered(RulesOf(u))]])
  /\ lagging' = lagging \ {v \in {u} : \A s \in Tasks : ~HasReadFor(s, v)}
  /\ UNCHANGED <<dbVars, wgVars, nftVars, phase, faults, faulted, contended>>

ReadDevices(t) ==
  /\ At(t, "read_devices")
  /\ Become(t, [task[t] EXCEPT !.pc = "list_chains", !.jumps = JumpsFor(RowsOf(task[t].user))])
  /\ UNCHANGED <<dbVars, wgVars, nftVars, phase, faults, ghosts>>

\* Chains found that are not among the entries are orphans; when the table
\* cannot be listed none is found.
ListChains(t) ==
  LET found       == chains \ task[t].entries
      Batch(drop) == Become(t, [task[t] EXCEPT !.pc = "nft_batch", !.orphans = drop])
  IN
  /\ At(t, "list_chains")
  /\ \/ Batch(found) /\ UNCHANGED <<faults, faulted>>
     \/ Batch({}) /\ Fails(found)
  /\ UNCHANGED <<dbVars, wgVars, nftVars, phase, contended, lagging>>

\* The others a batch of one user's chain leaves without jumps, and perhaps
\* without a chain, and whose own rebuild is not under way.
Dropped(t) ==
  {u \in Users \ task[t].entries :
     t # Boot /\ RowsOf(u) \cup RulesOf(u) # {} /\ \A s \in Tasks : ~Rebuilds(s, u)}

\* The atomic batch.  A failure, of the command or because an orphan is gone
\* already, leaves the table as it was and is only logged.
NftBatch(t) ==
  LET j == task[t] IN
  /\ At(t, "nft_batch")
  /\ \/ /\ CanRebuild(j.orphans)
        /\ RebuildAllRules(j.entries, j.bodies, j.jumps, j.orphans)
        /\ Succeeds(j.entries \cup j.orphans)
        /\ lagging' = lagging \cup Dropped(t)
     \/ /\ ~CanRebuild(j.orphans)
        /\ lagging' = lagging \cup j.entries
        /\ UNCHANGED <<nftVars, faults, faulted>>
     \/ UNCHANGED <<nftVars, lagging>> /\ Fails(j.entries \cup j.orphans)
  /\ IF j.op = "boot"
     THEN Become(t, [Idle EXCEPT !.pc = "interface_routes", !.op = "boot", !.want = j.want])
     ELSE Finish(t)
  /\ UNCHANGED <<dbVars, wgVars, phase, contended>>

-----------------------------------------------------------------------------

\* A user or an API client starts an operation.
Start(t) ==
  \/ StartCreate(t) \/ StartUpdate(t) \/ StartDelete(t) \/ StartDeleteUser(t)
  \/ CreateRule(t) \/ UpdateRuleFromPage(t) \/ DeleteRuleRow(t) \/ ReorderRules(t)

\* The event loop resumes a task at its await.
SharedStep(t) ==
  \/ InterfaceRoutes(t) \/ RouteAdd(t) \/ RouteDel(t) \/ ListChains(t) \/ NftBatch(t)

Step(t) ==
  \/ Insert(t) \/ Refresh(t) \/ Save(t) \/ DeleteRow(t) \/ Cascade(t) \/ RefreshRule(t)
  \/ AbandonCreate(t) \/ AddPeerStep(t) \/ AddUserChainStep(t) \/ AddJumpsStep(t)
  \/ RemovePeerStep(t) \/ RelaySubnetsStep(t) \/ ReadRules(t) \/ ReadDevices(t)
  \/ SharedStep(t)

=============================================================================
