------------------------------ MODULE Database ------------------------------
(***************************************************************************)
(* The three tables the data plane is derived from: users, devices and     *)
(* rules (models/user.py, models/device.py, models/rule.py), and what one  *)
(* committed statement does to them.  A table is a set of rows.            *)
(*                                                                         *)
(* A device row keeps its public key, its owner, its tunnel address (the   *)
(* IPv4 and the IPv6 address of a device are allocated together and never  *)
(* change, so one address stands for both) and its relay subnets.  A rule  *)
(* row keeps its owner, its priority and its nftables expression; its      *)
(* number is the order of insertion (inserted_at).                         *)
(***************************************************************************)
EXTENDS Naturals, FiniteSets

CONSTANTS Users,        \* accounts that exist when the system is first started
          Devices,      \* WireGuard public keys: a device is known by its key
          Addresses,    \* tunnel addresses the allocator can hand out
          Subnets,      \* relay subnets an administrator may give a device
          Exprs,        \* nftables rule expressions
          Priorities,   \* priorities a rule may have
          MaxRules,     \* bound: rules ever inserted
          Global        \* the owner of a rule whose user_id is None

ASSUME DatabaseAssumption ==
  /\ Users # {}
  /\ Global \notin Users
  /\ MaxRules \in Nat
  /\ Priorities \subseteq Nat
  /\ Addresses \cap Subnets = {}
  /\ Devices \cap (Subnets \cup Users) = {}
  /\ Subnets \cap Users = {}

VARIABLES users,        \* the users table
          devices,      \* the devices table
          rules,        \* the rules table
          born,         \* public keys generated so far: generate_keypair never repeats one
          nextRule      \* number of the next rule inserted

dbVars == <<users, devices, rules, born, nextRule>>

DeviceRow == [key: Devices, owner: Users, ip: Addresses, nets: SUBSET Subnets]
RuleRow   == [id: 1..MaxRules, user: Users \cup {Global},
              priority: Priorities, expr: Exprs]

DbTypeOK ==
  /\ users \subseteq Users
  /\ devices \subseteq DeviceRow
  /\ rules \subseteq RuleRow
  /\ born \subseteq Devices
  /\ nextRule \in 1..(MaxRules + 1)

DbInit ==
  /\ users = Users
  /\ devices = {}
  /\ rules = {}
  /\ born = {}
  /\ nextRule = 1

-----------------------------------------------------------------------------
(* Queries *)

Live(k)        == \E r \in devices : r.key = k
LiveKeys       == {r.key : r \in devices}
RowsOf(u)      == {r \in devices : r.owner = u}
UsedIps        == {r.ip : r \in devices}
RelaySubnets   == UNION {r.nets : r \in devices}
RulesOf(o)     == {r \in rules : r.user = o}

\* Mutant: the relay subnets replace the tunnel address.
AllowedIps_NetsInstead(r) == IF r.nets = {} THEN {r.ip} ELSE r.nets

\* What a peer may send from, and what is matched to jump to its owner's chain:
\* its tunnel addresses and the subnets it relays.
AllowedIps(r)  == {r.ip} \cup r.nets

-----------------------------------------------------------------------------
(* Statements *)

\* INSERT of a device: the owner must exist (foreign key) and the tunnel
\* address must be free (unique).  The key is always fresh.
CanInsertDevice(r) ==
  /\ r.owner \in users
  /\ r.ip \notin UsedIps

InsertDevice(r) ==
  /\ devices' = devices \cup {r}
  /\ UNCHANGED <<users, rules, born, nextRule>>

\* UPDATE of the relay subnets of one device.
UpdateNets(k, nets) ==
  /\ devices' = {IF r.key = k THEN [r EXCEPT !.nets = nets] ELSE r : r \in devices}
  /\ UNCHANGED <<users, rules, born, nextRule>>

DeleteDevice(k) ==
  /\ devices' = {r \in devices : r.key # k}
  /\ UNCHANGED <<users, rules, born, nextRule>>

\* DELETE of a user: ON DELETE CASCADE takes the user's devices and rules along.
DeleteUser(u) ==
  /\ users' = users \ {u}
  /\ devices' = {r \in devices : r.owner # u}
  /\ rules' = {r \in rules : r.user # u}
  /\ UNCHANGED <<born, nextRule>>

InsertRule(owner, priority, expr) ==
  /\ rules' = rules \cup {[id |-> nextRule, user |-> owner,
                           priority |-> priority, expr |-> expr]}
  /\ nextRule' = nextRule + 1
  /\ UNCHANGED <<users, devices, born>>

UpdateRule(rule, owner, priority, expr) ==
  /\ rules' = (rules \ {rule}) \cup {[rule EXCEPT !.user = owner, !.priority = priority,
                                                  !.expr = expr]}
  /\ UNCHANGED <<users, devices, born, nextRule>>

DeleteRule(rule) ==
  /\ rules' = rules \ {rule}
  /\ UNCHANGED <<users, devices, born, nextRule>>

=============================================================================
