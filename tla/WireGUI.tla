------------------------------ MODULE WireGUI -------------------------------
(***************************************************************************)
(* The whole data plane: the operations and the event bridge of            *)
(* EventBridge, the startup sequence (main.py startup(),                   *)
(* tasks/reconcile.py), and the process dying and being started again      *)
(* (compose.prod.yml: restart: unless-stopped).  The database survives a   *)
(* crash.  WireGuard, routes and nftables survive it too when only the     *)
(* process dies, and are lost when its network namespace goes with it.     *)
(***************************************************************************)
EXTENDS EventBridge

CONSTANTS MaxCrashes    \* bound: times the process dies or does not start

ASSUME WireGUIAssumption == MaxCrashes \in Nat

VARIABLES crashes       \* times the process has died or has not started

allVars == <<vars, crashes>>

TypeOK ==
  /\ DbTypeOK
  /\ WgTypeOK
  /\ NftTypeOK
  /\ TaskTypeOK
  /\ crashes \in 0..MaxCrashes

\* A first installation: nothing is configured and the process is not running.
Init ==
  /\ DbInit
  /\ peers = {} /\ carrier = NoCarrier /\ routes = {}
  /\ chains = {} /\ body = NoRules /\ forward = {}
  /\ task = [t \in Procs |-> Idle]
  /\ phase = "down"
  /\ faults = 0 /\ faulted = {} /\ contended = {} /\ lagging = {}
  /\ crashes = 0

-----------------------------------------------------------------------------
(* Crash and restart *)

\* The process dies: every task is lost wherever it was.
Crash ==
  /\ phase # "down" /\ crashes < MaxCrashes
  /\ crashes' = crashes + 1
  /\ phase' = "down"
  /\ task' = [t \in Procs |-> Idle]
  /\ \/ UNCHANGED <<wgVars, nftVars>>
     \/ /\ peers' = {} /\ carrier' = NoCarrier /\ routes' = {}
        /\ chains' = {} /\ body' = NoRules /\ forward' = {}
  /\ UNCHANGED <<dbVars, faults, ghosts>>

\* A command before reconcile() fails and ends startup(): the process ends, too,
\* or it goes on to serve requests with whatever earlier runs left.
StartupFails ==
  /\ phase = "down" /\ crashes < MaxCrashes
  /\ crashes' = crashes + 1
  /\ phase' = IF ServeWhileStarting THEN "unready" ELSE "down"
  /\ ConfigureInterface \/ UNCHANGED wgVars
  /\ faulted' = {} /\ contended' = {} /\ lagging' = {}
  /\ UNCHANGED <<dbVars, nftVars, task, faults>>

\* startup() up to reconcile(): the interface is configured and the base tables
\* exist.  What earlier runs left out of step is for reconcile() to repair.
Restart ==
  /\ phase = "down"
  /\ phase' = "startup"
  /\ ConfigureInterface
  /\ task' = [task EXCEPT ![Boot] = [Idle EXCEPT !.pc = "get_peers", !.op = "boot"]]
  /\ faulted' = {} /\ contended' = {} /\ lagging' = {}
  /\ UNCHANGED <<dbVars, nftVars, faults, crashes>>

-----------------------------------------------------------------------------
(* reconcile() *)

\* The peers WireGuard has; none when the interface cannot be dumped.
GetPeers ==
  /\ At(Boot, "get_peers")
  /\ \/ /\ Become(Boot, [task[Boot] EXCEPT !.pc = "db_devices", !.gone = peers])
        /\ UNCHANGED <<faults, faulted>>
     \/ Goto(Boot, "db_devices") /\ Fails(peers)
  /\ UNCHANGED <<dbVars, wgVars, nftVars, phase, contended, lagging, crashes>>

\* Mutants: nothing is missing; nothing, or everything, is an orphan.
MissingPeers_None(seen) == {}
OrphanPeers_None(seen)  == {}
OrphanPeers_All(seen)   == seen

\* to_add and to_remove, from the keys seen on the interface.
MissingPeers(seen) == {r \in devices : r.key \notin seen}
OrphanPeers(seen)  == seen \ LiveKeys

\* The devices: missing peers, orphaned peers, and what the firewall and the
\* routes will be rebuilt from.
ReadAllDevices ==
  LET seen == task[Boot].gone IN
  /\ At(Boot, "db_devices")
  /\ Become(Boot, [task[Boot] EXCEPT
       !.pc      = "db_rules",
       !.queue   = MissingPeers(seen),
       !.gone    = OrphanPeers(seen),
       !.want    = RelaySubnets,
       !.entries = {r.owner : r \in devices},
       !.jumps   = JumpsFor(devices)])
  /\ UNCHANGED <<dbVars, wgVars, nftVars, phase, faults, ghosts, crashes>>

\* Mutant: global rules get an entry too.
OwnedRules_All == rules

\* Global rules belong to no entry.
OwnedRules == {r \in rules : r.user # Global}

\* The rules.
ReadAllRules ==
  /\ At(Boot, "db_rules")
  /\ Become(Boot, [task[Boot] EXCEPT
       !.pc      = "add_missing",
       !.entries = @ \cup {r.user : r \in OwnedRules},
       !.bodies  = [u \in Users |-> Ordered(RulesOf(u))]])
  /\ UNCHANGED <<dbVars, wgVars, nftVars, phase, faults, ghosts, crashes>>

AddMissingPeer ==
  /\ At(Boot, "add_missing")
  /\ \/ /\ task[Boot].queue = {}
        /\ Goto(Boot, "remove_orphans")
        /\ UNCHANGED <<wgVars, faults, faulted>>
     \/ \E r \in task[Boot].queue :
          /\ \/ AddPeer(r.key, AllowedIps(r)) /\ Succeeds({r.key})
             \/ UNCHANGED wgVars /\ Fails({r.key})
          /\ Become(Boot, [task[Boot] EXCEPT !.queue = @ \ {r}])
  /\ UNCHANGED <<dbVars, nftVars, phase, contended, lagging, crashes>>

RemoveOrphanPeer ==
  /\ At(Boot, "remove_orphans")
  /\ \/ /\ task[Boot].gone = {}
        /\ Goto(Boot, "list_chains")
        /\ UNCHANGED <<wgVars, faults, faulted>>
     \/ \E k \in task[Boot].gone :
          /\ \/ RemovePeer(k) /\ Succeeds({k})
             \/ UNCHANGED wgVars /\ Fails({k})
          /\ Become(Boot, [task[Boot] EXCEPT !.gone = @ \ {k}])
  /\ UNCHANGED <<dbVars, nftVars, phase, contended, lagging, crashes>>

\* The firewall is rebuilt and the routes are synced as in EventBridge.
BootStep ==
  \/ GetPeers \/ ReadAllDevices \/ ReadAllRules \/ AddMissingPeer \/ RemoveOrphanPeer
  \/ SharedStep(Boot) /\ UNCHANGED crashes

-----------------------------------------------------------------------------

TaskStep(t) == Step(t) /\ UNCHANGED crashes

Next ==
  \/ \E t \in Tasks : Start(t) /\ UNCHANGED crashes
  \/ UpdateRuleFromApi /\ UNCHANGED crashes
  \/ \E t \in Tasks : TaskStep(t)
  \/ Crash
  \/ StartupFails
  \/ Restart
  \/ BootStep

Spec == Init /\ [][Next]_allVars

\* The event loop resumes every task whose await is done, every command ends,
\* and the container runtime starts the process again.  Nobody has to start an
\* operation, and nothing has to fail.
Fairness ==
  /\ \A t \in Tasks : WF_allVars(TaskStep(t))
  /\ WF_allVars(BootStep)
  /\ WF_allVars(Restart)

FairSpec == Spec /\ Fairness

-----------------------------------------------------------------------------
(* What the data plane promises                                             *)

\* A command that adds, or removes, the peer of k is still to come.
AddPending(k)    == \E t \in Tasks : /\ task[t].pc \in {"refresh", "add_peer"}
                                     /\ task[t].row.key = k
RemovePending(k) == \E t \in Tasks : \/ At(t, "remove_peer") /\ task[t].row.key = k
                                     \/ \E r \in task[t].queue : r.key = k

AllIdle == \A t \in Tasks : At(t, "idle")

\* Once the system is up, every device in the database is a WireGuard peer,
\* unless its creation has not reached add_peer yet or its last wg command
\* failed.  Whatever operations overlap, crash and restart, no remove_peer ever
\* hits a device that still exists (on_device_created, on_device_deleted,
\* delete_user_and_cleanup, reconcile).
LiveDevicesHavePeers ==
  phase = "up" => \A r \in devices : r.key \in peers \cup faulted \/ AddPending(r.key)

\* Once the system is up, a peer whose device is gone from the database is about
\* to be removed, unless the wg command failed or two operations on that device
\* overlapped (on_device_deleted, delete_user_and_cleanup, reconcile after a
\* crash between the commit and remove_peer).
NoOrphanPeers ==
  phase = "up" => \A k \in peers : Live(k) \/ RemovePending(k) \/ k \in faulted \cup contended

\* As long as the process was not restarted (startup does not repair allowed-ips)
\* and no two operations overlapped on a device, a device that is a peer carries
\* its own tunnel address: an address freed by a deletion and given to a new
\* device meanwhile is never left with the old peer, nor with none
\* (AllowedIPs of add_peer, remove_peer, allocate_ipv4).
OwnAddressCarried ==
  phase = "up" /\ crashes = 0 /\ contended = {} =>
    \A r \in devices : \/ r.key \notin peers \ faulted
                       \/ AddPending(r.key)
                       \/ carrier[r.ip] = r.key

\* Keys that are no longer, or never will be, those of a device.
Retired == born \ (LiveKeys \cup {k \in Devices : \E t \in Tasks : /\ At(t, "insert")
                                                                  /\ task[t].row.key = k})

Plane == INSTANCE DataPlane WITH Keys <- Devices, registered <- LiveKeys, retired <- Retired,
                                 connected <- peers, excused <- contended

\* The handlers, the reconciliation and the crashes together implement the
\* promise of DataPlane: a key registers once; remove_peer reaches only keys
\* whose device is gone; and add_peer reaches a key whose device is gone only
\* when requests for that device overlapped (on_device_created,
\* on_device_deleted, delete_user_and_cleanup, reconcile).
ImplementsDataPlane == Plane!Spec

\* The tunnel networks are never touched by the synchronisation of relay routes,
\* whatever it read and however stale (sync_routes).
TunnelRouteKept == phase \in {"startup", "up"} => TunnelNet \in routes

\* When operations come one at a time, the relay routes between two of them are
\* those of the devices in the database (add_routes, sync_routes).
RoutesFollowDatabase ==
  phase = "up" /\ AllIdle => \A s \in Subnets \ faulted : s \in routes <=> s \in RelaySubnets

\* A chain holds the expressions of a set of rules, lowest priority first, and
\* oldest first among equals.
InOrder(chain, rows) ==
  LET n == Cardinality(rows) IN
  /\ \E s \in [1..n -> rows] :
       /\ \A i, j \in 1..n : i < j =>
            \/ s[i].priority < s[j].priority
            \/ s[i].priority = s[j].priority /\ s[i].id < s[j].id
       /\ \A i \in 1..n : chain[i] = s[i].expr
  /\ \A i \in Places : i > n => chain[i] = NoRule

\* A task is about to write the chain or the jumps of u.
PolicyDue(u) ==
  \E t \in Tasks :
    \/ Rebuilds(t, u)
    \/ At(t, "refresh_rule") /\ \E r \in RulesOf(u) : r.id = task[t].rule
    \/ /\ task[t].op \in {"create", "update"}
       /\ task[t].pc \notin {"insert", "save"} \cup RebuildPCs
       /\ task[t].row.owner = u

\* Whatever operations of whichever users overlap, a user's devices are sent to
\* the user's chain, and the chain holds the user's rules in order of priority,
\* unless a task for this user is on its way or its command failed.  The code
\* leaves a user behind in these ways only: a change that tells nobody, a change
\* overtaken by a rebuild that has read before it, another user's rebuild, and a
\* batch refused because a chain was gone (on_device_created, on_device_updated,
\* _rebuild_user_chain, rebuild_all_rules).
PolicyFollowsDatabase ==
  phase = "up" =>
    \A u \in users \ (faulted \cup lagging) :
      \/ PolicyDue(u)
      \/ /\ InOrder(body[u], RulesOf(u))
         /\ JumpsFor(RowsOf(u)) \subseteq forward
         /\ RowsOf(u) = {} \/ u \in chains

\* A jump leads to a chain that exists, and a chain made anew starts empty: no
\* batch leaves a jump to a chain that another has deleted meanwhile, and none is
\* refused for deleting a chain in use (add_device_jump_rule, rebuild_all_rules).
JumpsLeadToChains ==
  /\ \A x \in forward : x[2] \in chains
  /\ \A u \in Users \ chains : body[u] = NoRules[u]

\* The kernel state reconcile() leaves behind.
Reconciled ==
  LET owners == {r.owner : r \in devices} \cup {r.user : r \in rules} IN
  /\ peers = LiveKeys
  /\ routes = RelaySubnets \cup {TunnelNet}
  /\ chains = owners \ {Global}
  /\ \A u \in chains : InOrder(body[u], RulesOf(u))
  /\ forward = JumpsFor(devices)

\* However the process died, in the middle of whatever operations, a startup in
\* which no command failed leaves peers, routes and user chains exactly as the
\* database has them (reconcile, _reconcile_firewall, _reconcile_routes).
StartupReconciles ==
  [][phase = "startup" /\ phase' = "up" /\ faulted' = {} => Reconciled']_allVars

\* Every device in the database becomes a peer, also when the process dies
\* between the commit and add_peer, unless it is deleted or wg fails.
EveryDeviceConnects ==
  \A k \in Devices : Live(k) ~> (k \in peers \cup faulted \/ ~Live(k))

\* Every peer whose device is gone is removed, also when the process dies between
\* the commit and remove_peer, unless wg fails or operations on it overlapped.
EveryOrphanGoes ==
  \A k \in Devices : (k \in peers /\ ~Live(k)) ~> (k \notin peers \/ k \in faulted \cup contended)

-----------------------------------------------------------------------------
(* What comments and docstrings say that the code does not do               *)

\* "Flush and rebuild a single user's firewall chain": the rebuild of one user's
\* chain leaves the chains of the other users alone (_rebuild_user_chain).
RebuildTouchesOneUser ==
  [][\A t \in Tasks : At(t, "nft_batch") /\ ~At(t, "nft_batch")' =>
       \A v \in chains \ task[t].entries : v \in chains' /\ body'[v] = body[v]]_allVars

\* Every address or subnet of a device is carried by a device that has it.
AllCarried == \A r \in devices : \A s \in AllowedIps(r) :
                 \E q \in devices : s \in AllowedIps(q) /\ carrier[s] = q.key

\* "ensure WireGuard and firewall state matches the database": a startup in which
\* no command failed leaves the allowed-ips of the peers as the database has
\* them (reconcile).
StartupRestoresAllowedIps ==
  [][phase = "startup" /\ phase' = "up" /\ faulted' = {} => AllCarried']_allVars

=============================================================================
