-------------------------- MODULE WireGUIReconcile ---------------------------
(***************************************************************************)
(* What startup and the operations that follow leave behind: peers,        *)
(* routes, chains and jumps as the database has them.                      *)
(*                                                                         *)
(* A startup runs alone (nothing is served before it is over), so what it  *)
(* has read stays true, and StartInv follows it from command to command:   *)
(* at every step, what is still out of step with the database is what it   *)
(* has yet to do, or a command on it failed.  RouteInv says the same of    *)
(* the routes for a single task that serves one operation after the other. *)
(* NftInv and PolicyInv hold whatever overlaps.  A batch jumps only to     *)
(* chains it fills, so no jump leads to a chain that is gone.  And the     *)
(* chain and jumps of a user that has not been left behind are right, or   *)
(* some task has yet to write them, and has read what they should be.      *)
(***************************************************************************)
EXTENDS WireGUIOrphans, FiniteSetTheorems, FunctionTheorems

-----------------------------------------------------------------------------
(* The chain of a set of rules *)

Distinct(rows) == \A r, s \in rows : r.id = s.id => r = s

\* The rules evaluated before r, and r itself.
UpTo(r, rows) == {q \in rows : q.priority < r.priority \/
                               (q.priority = r.priority /\ q.id <= r.id)}

\* There are no more rules than places.
LEMMA RulesFit ==
  ASSUME NEW rows \in SUBSET RuleRow, Distinct(rows)
  PROVE  IsFiniteSet(rows) /\ Cardinality(rows) \in Nat /\ Cardinality(rows) <= MaxRules
<1> DEFINE number == [r \in rows |-> r.id]
<1>1. number \in Injection(rows, 1..MaxRules)
  BY Fun_IsInj DEF Distinct, RuleRow
<1>2. IsFiniteSet(1..MaxRules) /\ Cardinality(1..MaxRules) = MaxRules
  BY FS_Interval, DatabaseAssumption
<1>3. IsFiniteSet(rows) /\ Cardinality(rows) <= Cardinality(1..MaxRules)
  BY <1>1, <1>2, FS_Injection
<1> QED
  BY <1>2, <1>3, FS_CardinalityType

LEMMA RuleNumbers ==
  ASSUME NEW rows \in SUBSET RuleRow
  PROVE  \A r \in rows : r.id \in Nat /\ r.priority \in Nat
<1> TAKE r \in rows
<1>1. r \in RuleRow
  OBVIOUS
<1>2. r.id \in 1..MaxRules /\ r.priority \in Priorities
  BY <1>1 DEF RuleRow
<1>3. Priorities \subseteq Nat /\ 1..MaxRules \subseteq Nat
  BY DatabaseAssumption
<1> QED
  BY <1>2, <1>3

\* Every rule has a place, and of two rules the one evaluated first has the lower.
LEMMA PlacesOrdered ==
  ASSUME NEW rows \in SUBSET RuleRow, Distinct(rows)
  PROVE  /\ \A r \in rows : Place(r, rows) \in 1..Cardinality(rows)
         /\ \A q, r \in rows : q \in UpTo(r, rows) /\ q # r => Place(q, rows) < Place(r, rows)
<1>0. \A r \in rows : r.id \in Nat /\ r.priority \in Nat
  BY RuleNumbers
<1>1. \A r \in rows : /\ IsFiniteSet(UpTo(r, rows)) /\ Place(r, rows) = Cardinality(UpTo(r, rows))
                      /\ Place(r, rows) \in Nat /\ Place(r, rows) <= Cardinality(rows)
  <2> TAKE r \in rows
  <2>1. UpTo(r, rows) \in SUBSET rows /\ Place(r, rows) = Cardinality(UpTo(r, rows))
    BY DEF Place, UpTo
  <2> QED
    BY <2>1, RulesFit, FS_Subset, FS_CardinalityType
<1>2. \A r \in rows : Place(r, rows) # 0
  <2> TAKE r \in rows
  <2>1. r \in UpTo(r, rows)
    BY <1>0 DEF UpTo
  <2> QED
    BY <1>1, <2>1, FS_EmptySet
<1>3. ASSUME NEW q \in rows, NEW r \in rows, q \in UpTo(r, rows), q # r
      PROVE  Place(q, rows) < Place(r, rows)
  <2>1. UpTo(q, rows) \subseteq UpTo(r, rows)
    BY <1>0, <1>3 DEF UpTo
  <2>2. r \in UpTo(r, rows) /\ r \notin UpTo(q, rows)
    BY <1>0, <1>3 DEF Distinct, UpTo
  <2>3. /\ Cardinality(UpTo(q, rows)) <= Cardinality(UpTo(r, rows))
        /\ Cardinality(UpTo(q, rows)) # Cardinality(UpTo(r, rows))
    BY <1>1, <2>1, <2>2, FS_Subset
  <2> QED
    BY <1>1, <2>3
<1>4. Cardinality(rows) \in Nat
  BY RulesFit
<1>5. \A r \in rows : Place(r, rows) \in 1..Cardinality(rows)
  BY <1>1, <1>2, <1>4
<1> QED
  BY <1>3, <1>5

\* The rules fill the places from the first on, in order of priority and age.
LEMMA OrderedInOrder ==
  ASSUME NEW rows \in SUBSET RuleRow, Distinct(rows)
  PROVE  InOrder(Ordered(rows), rows)
<1> DEFINE n     == Cardinality(rows)
           place == [r \in rows |-> Place(r, rows)]
           at    == [i \in 1..n |-> CHOOSE r \in rows : Place(r, rows) = i]
<1>0. IsFiniteSet(rows) /\ n \in Nat /\ n <= MaxRules
  BY RulesFit
<1>1. \A r \in rows : r.id \in Nat /\ r.priority \in Nat
  BY RuleNumbers
<1>2. \A q, r \in rows : q # r => q \in UpTo(r, rows) \/ r \in UpTo(q, rows)
  BY <1>1 DEF UpTo
<1>3. \A r \in rows : Place(r, rows) \in 1..n
  BY PlacesOrdered
<1>4. \A q, r \in rows : q \in UpTo(r, rows) /\ q # r => Place(q, rows) < Place(r, rows)
  BY PlacesOrdered
<1>5. \A i \in 1..n : \E r \in rows : Place(r, rows) = i
  <2>1. place \in [rows -> 1..n]
    BY <1>3
  <2>2. \A q, r \in rows : place[q] = place[r] => q = r
    <3> TAKE q, r \in rows
    <3> HAVE place[q] = place[r]
    <3>1. Place(q, rows) = Place(r, rows) /\ Place(q, rows) \in 1..n
      BY <1>3
    <3> QED
      BY <1>0, <1>2, <1>4, <3>1
  <2>3. place \in Injection(rows, 1..n)
    BY <2>1, <2>2, Fun_IsInj
  <2>4. IsFiniteSet(1..n) /\ Cardinality(1..n) = n
    BY <1>0, FS_Interval
  <2>5. place \in Surjection(rows, 1..n)
    BY <2>3, <2>4, FS_Injection
  <2>6. \A i \in 1..n : \E r \in rows : place[r] = i
    <3> HIDE DEF place
    <3> QED BY <2>5 DEF Surjection
  <2> QED
    BY <2>6
<1>6. \A i \in 1..n : at[i] \in rows /\ Place(at[i], rows) = i
  BY <1>5
<1>7. \A i, j \in 1..n : i < j =>
        \/ at[i].priority < at[j].priority
        \/ at[i].priority = at[j].priority /\ at[i].id < at[j].id
  <2> TAKE i, j \in 1..n
  <2> HAVE i < j
  <2>1. at[i] \in rows /\ at[j] \in rows /\ Place(at[i], rows) = i /\ Place(at[j], rows) = j
    BY <1>6
  <2>2. at[j] \notin UpTo(at[i], rows)
    BY <1>0, <1>4, <2>1
  <2> HIDE DEF at
  <2> QED
    BY <1>1, <2>1, <2>2 DEF UpTo
<1>8. \A i \in 1..n : Ordered(rows)[i] = at[i].expr
  <2> TAKE i \in 1..n
  <2>1. i \in Places
    BY <1>0, DatabaseAssumption DEF Places
  <2>2. \E r \in rows : Place(r, rows) = i
    BY <1>5
  <2>3. Ordered(rows)[i] = (CHOOSE r \in rows : Place(r, rows) = i).expr
    BY <2>1, <2>2 DEF Ordered
  <2> QED
    BY <2>3
<1>9. \A i \in Places : i > n => Ordered(rows)[i] = NoRule
  <2> TAKE i \in Places
  <2> HAVE i > n
  <2>1. ~ \E r \in rows : Place(r, rows) = i
    BY <1>0, <1>3 DEF Places
  <2> QED
    BY <2>1 DEF Ordered
<1> HIDE DEF at
<1>10. at \in [1..n -> rows]
  BY <1>5 DEF at
<1> QED
  BY <1>7, <1>8, <1>9, <1>10 DEF InOrder

\* A user without rules has an empty chain.
LEMMA OrderedNone == Ordered({}) = [i \in Places |-> NoRule]
  BY DEF Ordered

-----------------------------------------------------------------------------
(* The database *)

\* A key is one device's, a number one rule's, and a device's owner exists.
KeyInv   == \A p, q \in devices : p.key = q.key => p = q
RuleInv  == Distinct(rules) /\ \A r \in rules : r.id < nextRule
TableInv == KeyInv /\ RuleInv

\* Steps that keep every row, or take some.
LEMMA FewerTable ==
  ASSUME TableInv, devices' \subseteq devices, rules' \subseteq rules, UNCHANGED nextRule
  PROVE  TableInv'
BY DEF TableInv, KeyInv, RuleInv, Distinct

\* A new device has a key that no device has.
LEMMA InsertTable ==
  ASSUME TypeInv, PeerInv, TableInv, NEW t \in Tasks, Insert(t)
  PROVE  TableInv'
<1> DEFINE row == task[t].row
<1>1. CASE UNCHANGED dbVars
  BY <1>1, FewerTable DEF dbVars
<1>2. CASE InsertDevice(row)
  <2>1. row.key \in Inserts(task[t])
    BY DEF Inserts, Insert, At
  <2>2. ~Live(row.key)
    BY <2>1 DEF PeerInv, BornInv, Known
  <2>3. \A q \in devices : q.key # row.key
    BY <2>2 DEF Live
  <2> QED
    BY <1>2, <2>3 DEF InsertDevice, TableInv, KeyInv, RuleInv
<1> QED
  BY <1>1, <1>2 DEF Insert

LEMMA SaveTable ==
  ASSUME TypeInv, TableInv, NEW t \in Tasks, Save(t)
  PROVE  TableInv'
<1> DEFINE k == task[t].row.key
           n == task[t].want
<1>1. CASE UNCHANGED dbVars
  BY <1>1, FewerTable DEF dbVars
<1>2. CASE UpdateNets(k, n)
  <2>1. \A r \in devices : [r EXCEPT !.nets = n].key = r.key
    BY DEF TypeInv, TypeOK, DbTypeOK, DeviceRow
  <2>2. \A p \in devices' : \E r \in devices :
          r.key = p.key /\ p = IF r.key = k THEN [r EXCEPT !.nets = n] ELSE r
    BY <1>2, <2>1 DEF UpdateNets
  <2>3. KeyInv'
    BY <2>2 DEF TableInv, KeyInv
  <2> QED
    BY <1>2, <2>3 DEF UpdateNets, TableInv, RuleInv
<1> QED
  BY <1>1, <1>2 DEF Save

LEMMA UpdateRuleTable ==
  ASSUME TypeInv, TableInv, NEW r \in rules, NEW o, NEW p, NEW e, UpdateRule(r, o, p, e)
  PROVE  TableInv'
<1> DEFINE s == [r EXCEPT !.user = o, !.priority = p, !.expr = e]
<1>1. s.id = r.id
  BY DEF TypeInv, TypeOK, DbTypeOK, RuleRow
<1> QED
  BY <1>1 DEF UpdateRule, TableInv, KeyInv, RuleInv, Distinct

\* A new rule has the next number.
LEMMA CreateRuleTable ==
  ASSUME TypeInv, TableInv, NEW t \in Tasks, CreateRule(t)
  PROVE  TableInv'
<1>1. PICK o, p, e : InsertRule(o, p, e)
  BY DEF CreateRule
<1>2. nextRule \in Nat /\ \A r \in rules : r.id \in Nat /\ r.id < nextRule
  BY RuleNumbers, DatabaseAssumption DEF TypeInv, TypeOK, DbTypeOK, TableInv, RuleInv
<1> DEFINE s == [id |-> nextRule, user |-> o, priority |-> p, expr |-> e]
<1>3. s.id = nextRule /\ rules' = rules \cup {s} /\ nextRule' = nextRule + 1 /\ UNCHANGED devices
  BY <1>1 DEF InsertRule
<1> HIDE DEF s
<1>4. Distinct(rules)' /\ \A r \in rules' : r.id < nextRule'
  BY <1>2, <1>3 DEF TableInv, RuleInv, Distinct
<1> QED
  BY <1>3, <1>4 DEF TableInv, KeyInv, RuleInv

\* Reordering assigns priorities and nothing else.
LEMMA ReorderRulesTable ==
  ASSUME TypeInv, TableInv, NEW t \in Tasks, ReorderRules(t)
  PROVE  TableInv'
<1>1. PICK u \in users :
        \E prio \in [RulesOf(u) -> Priorities] :
          rules' = (rules \ RulesOf(u)) \cup {[r EXCEPT !.priority = prio[r]] : r \in RulesOf(u)}
  BY DEF ReorderRules
<1> PICK prio \in [RulesOf(u) -> Priorities] :
      rules' = (rules \ RulesOf(u)) \cup {[r EXCEPT !.priority = prio[r]] : r \in RulesOf(u)}
  BY <1>1
<1>2. \A r \in rules : [r EXCEPT !.priority = prio[r]].id = r.id
  BY DEF TypeInv, TypeOK, DbTypeOK, RuleRow
<1>3. \A s \in rules' : \E r \in rules :
        r.id = s.id /\ s = IF r \in RulesOf(u) THEN [r EXCEPT !.priority = prio[r]] ELSE r
  BY <1>2 DEF RulesOf
<1>4. Distinct(rules)' /\ \A r \in rules' : r.id < nextRule'
  BY <1>3 DEF TableInv, RuleInv, Distinct, ReorderRules
<1> QED
  BY <1>4 DEF TableInv, KeyInv, RuleInv, ReorderRules

LEMMA StartTable ==
  ASSUME TypeInv, TableInv, NEW t \in Tasks, Start(t)
  PROVE  TableInv'
<1>1. CASE UpdateRuleFromPage(t)
  <2>1. PICK r \in rules, o \in RuleOwners, p \in Priorities, e \in Exprs : UpdateRule(r, o, p, e)
    BY <1>1 DEF UpdateRuleFromPage
  <2> QED
    BY <2>1, UpdateRuleTable
<1>2. CASE DeleteRuleRow(t)
  BY <1>2, FewerTable DEF DeleteRuleRow, DeleteRule
<1>3. CASE StartCreate(t) \/ StartUpdate(t) \/ StartDelete(t) \/ StartDeleteUser(t)
  BY <1>3, FewerTable DEF StartCreate, StartUpdate, StartDelete, StartDeleteUser, dbVars
<1> QED
  BY <1>1, <1>2, <1>3, CreateRuleTable, ReorderRulesTable DEF Start

\* Where a task commits nothing.
LEMMA CommitsNothing ==
  ASSUME NEW t, \/ Refresh(t) \/ RefreshRule(t) \/ AbandonCreate(t) \/ AddPeerStep(t)
                \/ AddUserChainStep(t) \/ AddJumpsStep(t) \/ RemovePeerStep(t)
                \/ RelaySubnetsStep(t) \/ ReadRules(t) \/ ReadDevices(t) \/ SharedStep(t)
  PROVE  UNCHANGED dbVars
BY DEF Refresh, RefreshRule, AbandonCreate, AddPeerStep, AddUserChainStep, AddJumpsStep,
       RemovePeerStep, RelaySubnetsStep, ReadRules, ReadDevices, SharedStep,
       InterfaceRoutes, RouteAdd, RouteDel, ListChains, NftBatch

LEMMA StepTable ==
  ASSUME TypeInv, PeerInv, TableInv, NEW t \in Tasks, Step(t)
  PROVE  TableInv'
<1>1. CASE DeleteRow(t) \/ Cascade(t)
  BY <1>1, FewerTable DEF DeleteRow, DeleteDevice, Cascade, DeleteUser
<1>2. CASE UNCHANGED dbVars
  BY <1>2, FewerTable DEF dbVars
<1> QED
  BY <1>1, <1>2, InsertTable, SaveTable, CommitsNothing DEF Step

\* Startup reads.
LEMMA BootReads ==
  ASSUME BootStep
  PROVE  UNCHANGED dbVars
BY CommitsNothing DEF BootStep, GetPeers, ReadAllDevices, ReadAllRules, AddMissingPeer,
                      RemoveOrphanPeer

LEMMA TableInit == Init => TableInv
BY DEF Init, DbInit, TableInv, KeyInv, RuleInv, Distinct

LEMMA TableNext == TypeInv /\ PeerInv /\ TableInv /\ [Next]_allVars => TableInv'
<1> SUFFICES ASSUME TypeInv, PeerInv, TableInv, [Next]_allVars PROVE TableInv'
  OBVIOUS
<1>1. CASE UpdateRuleFromApi
  <2>1. PICK r \in rules, o \in RuleOwners, p \in Priorities, e \in Exprs : UpdateRule(r, o, p, e)
    BY <1>1 DEF UpdateRuleFromApi
  <2> QED
    BY <2>1, UpdateRuleTable
<1>2. CASE Crash \/ StartupFails \/ Restart \/ BootStep \/ UNCHANGED allVars
  BY <1>2, BootReads, FewerTable DEF Crash, StartupFails, Restart, allVars, vars, dbVars
<1> QED
  BY <1>1, <1>2, StartTable, StepTable DEF Next, TaskStep

-----------------------------------------------------------------------------
(* Where a step takes its task *)

\* What a task keeps while it works on its routes and chains.
Alike(k, j) == k.op = j.op /\ k.user = j.user /\ k.row = j.row /\ k.queue = j.queue

\* To the next device of the queue, or to an end.
Onward(k, j) ==
  \/ j.queue = {} /\ k = Idle
  \/ \E r \in j.queue : /\ k.pc = "remove_peer" /\ k.op = j.op /\ k.user = j.user
                        /\ k.row = r /\ k.queue = j.queue \ {r}

LEMMA NextDeviceMoves ==
  ASSUME TypeInv, NEW t \in Procs, NEW j \in Job, NextDevice(t, j)
  PROVE  Alone(t) /\ Onward(task'[t], j)
<1>1. CASE j.queue = {} /\ Finish(t)
  BY <1>1, FinishContinues DEF Continues, Onward
<1>2. ASSUME NEW r \in j.queue,
             Become(t, [j EXCEPT !.pc = "remove_peer", !.row = r, !.queue = j.queue \ {r}])
      PROVE  Alone(t) /\ Onward(task'[t], j)
  <2> DEFINE k == [j EXCEPT !.pc = "remove_peer", !.row = r, !.queue = j.queue \ {r}]
  <2>1. /\ k.pc = "remove_peer" /\ k.op = j.op /\ k.user = j.user
        /\ k.row = r /\ k.queue = j.queue \ {r}
    BY DEF Job
  <2>2. task'[t] = k /\ Alone(t)
    BY <1>2, BecomeMoves
  <2> HIDE DEF k
  <2> QED
    BY <2>1, <2>2 DEF Onward
<1> QED
  BY <1>1, <1>2 DEF NextDevice

\* What follows the synchronisation of routes, by the operation.
Through(k, j) ==
  \/ j.op = "create" /\ k.pc = "add_user_chain" /\ Alike(k, j)
  \/ /\ j.op = "update" /\ k.pc = "read_rules" /\ k.op = j.op /\ k.user = j.row.owner
     /\ k.row = j.row /\ k.queue = j.queue
  \/ j.op = "boot" /\ k = Idle
  \/ j.op \notin {"create", "update", "boot"} /\ Onward(k, j)

LEMMA AfterRoutesMoves ==
  ASSUME TypeInv, NEW t \in Procs, NEW j \in Job, AfterRoutes(t, j)
  PROVE  Alone(t) /\ Through(task'[t], j)
<1>1. CASE j.op = "create"
  <2> DEFINE k == [j EXCEPT !.pc = "add_user_chain"]
  <2>1. k.pc = "add_user_chain" /\ Alike(k, j)
    BY DEF Job, Alike
  <2>2. task'[t] = k /\ Alone(t)
    BY <1>1, BecomeMoves DEF AfterRoutes
  <2> QED
    BY <1>1, <2>1, <2>2 DEF Through
<1>2. CASE j.op = "update"
  <2> DEFINE k == [j EXCEPT !.pc = "read_rules", !.user = j.row.owner]
  <2>1. /\ k.pc = "read_rules" /\ k.op = j.op /\ k.user = j.row.owner
        /\ k.row = j.row /\ k.queue = j.queue
    BY DEF Job
  <2>2. task'[t] = k /\ Alone(t)
    BY <1>2, BecomeMoves DEF AfterRoutes
  <2> QED
    BY <1>2, <2>1, <2>2 DEF Through
<1>3. CASE j.op = "boot"
  BY <1>3, FinishContinues DEF AfterRoutes, Continues, Through
<1>4. CASE j.op \notin {"create", "update", "boot"}
  BY <1>4, NextDeviceMoves DEF AfterRoutes, Through
<1> QED
  BY <1>1, <1>2, <1>3, <1>4

LEMMA RoutesLeftMoves ==
  ASSUME TypeInv, NEW t \in Procs, NEW j \in Job, RoutesLeft(t, j)
  PROVE  /\ Alone(t)
         /\ \/ j.add = {} /\ j.drop = {} /\ Through(task'[t], j)
            \/ /\ task'[t].pc = "routes" /\ Alike(task'[t], j)
               /\ task'[t].add = j.add /\ task'[t].drop = j.drop
<1>1. CASE j.add = {} /\ j.drop = {}
  BY <1>1, AfterRoutesMoves DEF RoutesLeft
<1>2. CASE ~(j.add = {} /\ j.drop = {})
  <2> DEFINE k == [j EXCEPT !.pc = "routes"]
  <2>1. k.pc = "routes" /\ Alike(k, j) /\ k.add = j.add /\ k.drop = j.drop
    BY DEF Job, Alike
  <2>2. task'[t] = k /\ Alone(t)
    BY <1>2, BecomeMoves DEF RoutesLeft
  <2> QED
    BY <2>1, <2>2
<1> QED
  BY <1>1, <1>2

\* What is planned from the routes that were listed.
LEMMA InterfaceRoutesMoves ==
  ASSUME TypeInv, NEW t \in Procs, InterfaceRoutes(t)
  PROVE  \E j \in Job, missed \in SUBSET routes :
           /\ RoutesLeft(t, j) /\ Alike(j, task[t])
           /\ j.add = task[t].want \ (routes \ missed)
           /\ j.drop = ((routes \ missed) \ task[t].want) \ {TunnelNet}
           /\ faulted' = faulted \cup ((missed \ task[t].want) \ {TunnelNet})
<1> DEFINE i == task[t]
           Plan(actual) == [i EXCEPT !.want = {},
                                     !.add  = RoutesToAdd(i.want, actual),
                                     !.drop = RoutesToRemove(i.want, actual)]
<1>1. i \in Job
  BY TaskType
<1>2. i.want \in SUBSET Subnets /\ routes \in SUBSET (Subnets \cup {TunnelNet})
  BY <1>1 DEF Job, TypeInv, TypeOK, WgTypeOK
<1>3. ASSUME NEW actual \in SUBSET (Subnets \cup {TunnelNet})
      PROVE  /\ Plan(actual) \in Job /\ Alike(Plan(actual), i)
             /\ Plan(actual).add = i.want \ actual
             /\ Plan(actual).drop = (actual \ i.want) \ {TunnelNet}
  BY <1>1, <1>2, RoutesToRemoveType DEF Job, RoutesToAdd, RoutesToRemove, Alike
<1>4. PICK missed \in SUBSET routes :
        /\ RoutesLeft(t, Plan(routes \ missed))
        /\ faulted' = faulted \cup ((missed \ i.want) \ {TunnelNet})
  <2>1. CASE RoutesLeft(t, Plan(routes)) /\ UNCHANGED faulted
    <3>1. routes \ {} = routes /\ (({} \ i.want) \ {TunnelNet}) = {}
      OBVIOUS
    <3> QED
      BY <2>1, <3>1
  <2>2. ASSUME NEW missed \in SUBSET routes,
               RoutesLeft(t, Plan(routes \ missed)), Fails(RoutesToRemove(i.want, missed))
        PROVE  /\ RoutesLeft(t, Plan(routes \ missed))
               /\ faulted' = faulted \cup ((missed \ i.want) \ {TunnelNet})
    BY <2>2 DEF Fails, RoutesToRemove
  <2> QED
    BY <2>1, <2>2 DEF InterfaceRoutes
<1>5. routes \ missed \in SUBSET (Subnets \cup {TunnelNet})
  BY <1>2
<1> HIDE DEF Plan
<1> QED
  BY <1>3, <1>4, <1>5

\* One route added, or one command that failed.
LEMMA RouteAddMoves ==
  ASSUME TypeInv, NEW t \in Procs, RouteAdd(t)
  PROVE  \E s \in task[t].add, j \in Job :
           /\ RoutesLeft(t, j) /\ Alike(j, task[t])
           /\ j.add = task[t].add \ {s} /\ j.drop = task[t].drop
           /\ \/ routes' = routes \cup {s} /\ faulted' = faulted \ {s}
              \/ UNCHANGED routes /\ faulted' = faulted \cup {s}
<1>1. PICK s \in task[t].add :
        /\ \/ AddRoute(s) /\ Succeeds({s})
           \/ UNCHANGED wgVars /\ Fails({s})
        /\ RoutesLeft(t, [task[t] EXCEPT !.add = @ \ {s}])
  BY DEF RouteAdd
<1> DEFINE j == [task[t] EXCEPT !.add = @ \ {s}]
<1>2. task[t] \in Job
  BY TaskType
<1>3. j \in Job /\ Alike(j, task[t]) /\ j.add = task[t].add \ {s} /\ j.drop = task[t].drop
  BY <1>2 DEF Job, Alike
<1>4. \/ routes' = routes \cup {s} /\ faulted' = faulted \ {s}
      \/ UNCHANGED routes /\ faulted' = faulted \cup {s}
  BY <1>1 DEF AddRoute, Succeeds, Fails, wgVars
<1> HIDE DEF j
<1>5. RoutesLeft(t, j)
  BY <1>1 DEF j
<1> QED
  BY <1>3, <1>4, <1>5

\* One orphaned route removed, or one command that failed.
LEMMA RouteDelMoves ==
  ASSUME TypeInv, NEW t \in Procs, RouteDel(t)
  PROVE  /\ task[t].add = {}
         /\ \E s \in task[t].drop, j \in Job :
              /\ RoutesLeft(t, j) /\ Alike(j, task[t])
              /\ j.add = {} /\ j.drop = task[t].drop \ {s}
              /\ \/ routes' = routes \ {s} /\ faulted' = faulted \ {s}
                 \/ UNCHANGED routes /\ faulted' = faulted \cup {s}
<1>1. PICK s \in task[t].drop :
        /\ \/ RemoveRoute(s) /\ Succeeds({s})
           \/ UNCHANGED wgVars /\ Fails({s})
        /\ RoutesLeft(t, [task[t] EXCEPT !.drop = @ \ {s}])
  BY DEF RouteDel
<1> DEFINE j == [task[t] EXCEPT !.drop = @ \ {s}]
<1>2. task[t] \in Job /\ task[t].add = {}
  BY TaskType DEF RouteDel
<1>3. j \in Job /\ Alike(j, task[t]) /\ j.add = {} /\ j.drop = task[t].drop \ {s}
  BY <1>2 DEF Job, Alike
<1>4. \/ routes' = routes \ {s} /\ faulted' = faulted \ {s}
      \/ UNCHANGED routes /\ faulted' = faulted \cup {s}
  BY <1>1 DEF RemoveRoute, Succeeds, Fails, wgVars
<1> HIDE DEF j
<1>5. RoutesLeft(t, j)
  BY <1>1 DEF j
<1> QED
  BY <1>2, <1>3, <1>4, <1>5

-----------------------------------------------------------------------------
(* The firewall *)

\* Where a task holds jumps for the entries it has collected, or rules and no
\* jumps yet.
JumpPCs  == {"db_rules", "add_missing", "remove_orphans", "list_chains", "nft_batch"}
BatchPCs == JumpPCs \cup {"read_devices"}

\* A jump leads to a chain that exists, and a chain that does not exist is empty.
JumpInv == \A x \in forward : x[2] \in chains
BodyInv == \A u \in Users \ chains : body[u] = NoRules[u]

\* A batch jumps to the chains it fills, and deletes none of them.
BatchAt(j) ==
  /\ j.pc = "read_devices" => j.entries = {j.user}
  /\ j.pc \in JumpPCs => \A x \in j.jumps : x[2] \in j.entries
  /\ j.pc = "nft_batch" => j.entries \cap j.orphans = {}
BatchInv == \A t \in Procs : BatchAt(task[t])

NftInv == JumpInv /\ BodyInv /\ BatchInv

LEMMA AwayAt ==
  ASSUME NEW j, j.pc \notin BatchPCs
  PROVE  BatchAt(j)
BY DEF BatchAt, BatchPCs, JumpPCs

LEMMA RoutesLeftAway ==
  ASSUME TypeInv, NEW t \in Procs, NEW j \in Job, RoutesLeft(t, j)
  PROVE  task'[t].pc \notin BatchPCs
BY RoutesLeftMoves DEF Through, Onward, Idle, BatchPCs, JumpPCs

\* Only reading rules, devices and chains leads a task towards a batch.
LEMMA StepAway ==
  ASSUME TypeInv, NEW t \in Procs, Step(t), ~ReadRules(t), ~ReadDevices(t), ~ListChains(t)
  PROVE  task'[t].pc \notin BatchPCs
<1>0. task[t] \in Job
  BY TaskType
<1>1. ASSUME Finish(t) PROVE task'[t].pc \notin BatchPCs
  BY <1>1, FinishContinues DEF Idle, BatchPCs, JumpPCs
<1>2. ASSUME NEW pc, Goto(t, pc), pc \notin BatchPCs PROVE task'[t].pc \notin BatchPCs
  BY <1>2, GotoContinues
<1>3. ASSUME NEW j, Become(t, j), j.pc \notin BatchPCs PROVE task'[t].pc \notin BatchPCs
  BY <1>3, BecomeMoves
<1>4. ASSUME NextDevice(t, task[t]) PROVE task'[t].pc \notin BatchPCs
  BY <1>0, <1>4, NextDeviceMoves DEF Onward, Idle, BatchPCs, JumpPCs
<1>5. CASE Insert(t) \/ DeleteRow(t) \/ AbandonCreate(t) \/ AddUserChainStep(t) \/ AddJumpsStep(t)
  BY <1>1, <1>2, <1>5
  DEF Insert, DeleteRow, AbandonCreate, AddUserChainStep, AddJumpsStep, BatchPCs, JumpPCs
<1>6. CASE Cascade(t) \/ RemovePeerStep(t)
  BY <1>2, <1>4, <1>6 DEF Cascade, RemovePeerStep, BatchPCs, JumpPCs
<1>7. CASE Refresh(t)
  <2>1. \A r : [task[t] EXCEPT !.pc = "add_peer", !.row = r].pc \notin BatchPCs
    BY <1>0 DEF Job, BatchPCs, JumpPCs
  <2> QED
    BY <1>1, <1>3, <1>7, <2>1 DEF Refresh
<1>8. CASE Save(t)
  <2>1. [task[t] EXCEPT !.pc = "refresh", !.want = {}].pc \notin BatchPCs
    BY <1>0 DEF Job, BatchPCs, JumpPCs
  <2> QED
    BY <1>1, <1>3, <1>8, <2>1 DEF Save
<1>9. CASE AddPeerStep(t)
  <2>1. /\ [task[t] EXCEPT !.pc = "relay_subnets"].pc \notin BatchPCs
        /\ [task[t] EXCEPT !.pc = "add_user_chain"].pc \notin BatchPCs
        /\ \A n : [task[t] EXCEPT !.pc = "routes", !.add = n].pc \notin BatchPCs
    BY <1>0 DEF Job, BatchPCs, JumpPCs
  <2> QED
    BY <1>3, <1>9, <2>1 DEF AddPeerStep
<1>10. CASE RelaySubnetsStep(t)
  <2>1. [task[t] EXCEPT !.pc = "interface_routes", !.want = RelaySubnets].pc \notin BatchPCs
    BY <1>0 DEF Job, BatchPCs, JumpPCs
  <2> QED
    BY <1>3, <1>10, <2>1 DEF RelaySubnetsStep
<1>11. CASE RefreshRule(t)
  <2>1. \A r : [task[t] EXCEPT !.pc = "read_rules", !.user = r.user, !.rule = 0].pc \notin BatchPCs
    BY <1>0 DEF Job, BatchPCs, JumpPCs
  <2> QED
    BY <1>1, <1>3, <1>11, <2>1 DEF RefreshRule
<1>12. CASE NftBatch(t)
  <2>1. [Idle EXCEPT !.pc = "interface_routes", !.op = "boot", !.want = task[t].want].pc
          \notin BatchPCs
    BY DEF Idle, BatchPCs, JumpPCs
  <2> QED
    BY <1>1, <1>3, <1>12, <2>1 DEF NftBatch
<1>13. CASE InterfaceRoutes(t) \/ RouteAdd(t) \/ RouteDel(t)
  BY <1>13, InterfaceRoutesMoves, RouteAddMoves, RouteDelMoves, RoutesLeftAway
<1> QED
  BY <1>5, <1>6, <1>7, <1>8, <1>9, <1>10, <1>11, <1>12, <1>13 DEF Step, SharedStep

\* The jumps for a set of devices lead to their owners' chains.
LEMMA JumpsLead == \A rows : \A x \in JumpsFor(rows) : \E r \in rows : x[2] = r.owner
BY DEF JumpsFor

LEMMA ReadRulesMoves ==
  ASSUME TypeInv, NEW t \in Procs, ReadRules(t)
  PROVE  LET u == task[t].user IN
         /\ task'[t].pc = "read_devices" /\ task'[t].op = task[t].op
         /\ task'[t].user = u /\ task'[t].entries = {u} /\ task'[t].queue = task[t].queue
         /\ u \in Users /\ task'[t].bodies[u] = Ordered(RulesOf(u))
<1> DEFINE u == task[t].user
           b == [NoRules EXCEPT ![u] = Ordered(RulesOf(u))]
           j == [task[t] EXCEPT !.pc = "read_devices", !.row = NoRow, !.entries = {u},
                                !.bodies = b]
<1>1. task[t] \in Job /\ u \in Users
  BY TaskType DEF ReadRules, At, Held
<1>2. task'[t] = j
  BY BecomeMoves DEF ReadRules
<1>3. /\ j.pc = "read_devices" /\ j.op = task[t].op /\ j.user = u /\ j.entries = {u}
      /\ j.queue = task[t].queue /\ j.bodies = b
  BY <1>1 DEF Job
<1>4. b[u] = Ordered(RulesOf(u))
  BY <1>1 DEF NoRules
<1> HIDE DEF j, b
<1> QED
  BY <1>1, <1>2, <1>3, <1>4

LEMMA ReadDevicesMoves ==
  ASSUME TypeInv, NEW t \in Procs, ReadDevices(t)
  PROVE  /\ task'[t].pc = "list_chains" /\ Alike(task'[t], task[t])
         /\ task'[t].entries = task[t].entries /\ task'[t].bodies = task[t].bodies
         /\ task'[t].jumps = JumpsFor(RowsOf(task[t].user))
<1> DEFINE j == [task[t] EXCEPT !.pc = "list_chains", !.jumps = JumpsFor(RowsOf(task[t].user))]
<1>1. task[t] \in Job
  BY TaskType
<1>2. task'[t] = j
  BY BecomeMoves DEF ReadDevices
<1>3. /\ j.pc = "list_chains" /\ Alike(j, task[t]) /\ j.entries = task[t].entries
      /\ j.bodies = task[t].bodies /\ j.jumps = JumpsFor(RowsOf(task[t].user))
  BY <1>1 DEF Job, Alike
<1> QED
  BY <1>2, <1>3

LEMMA ListChainsMoves ==
  ASSUME TypeInv, NEW t \in Procs, ListChains(t)
  PROVE  /\ task'[t].pc = "nft_batch" /\ Alike(task'[t], task[t])
         /\ task'[t].entries = task[t].entries /\ task'[t].bodies = task[t].bodies
         /\ task'[t].jumps = task[t].jumps /\ task'[t].want = task[t].want
         /\ \/ task'[t].orphans = chains \ task[t].entries /\ UNCHANGED faulted
            \/ task'[t].orphans = {} /\ faulted' = faulted \cup (chains \ task[t].entries)
<1> DEFINE j(drop) == [task[t] EXCEPT !.pc = "nft_batch", !.orphans = drop]
<1>1. task[t] \in Job
  BY TaskType
<1>2. ASSUME NEW drop, Become(t, j(drop))
      PROVE  /\ task'[t].pc = "nft_batch" /\ Alike(task'[t], task[t])
             /\ task'[t].entries = task[t].entries /\ task'[t].bodies = task[t].bodies
             /\ task'[t].jumps = task[t].jumps /\ task'[t].want = task[t].want
             /\ task'[t].orphans = drop
  <2>1. task'[t] = j(drop)
    BY <1>2, BecomeMoves
  <2> QED
    BY <1>1, <2>1 DEF Job, Alike
<1>3. \/ Become(t, j(chains \ task[t].entries)) /\ UNCHANGED faulted
      \/ Become(t, j({})) /\ faulted' = faulted \cup (chains \ task[t].entries)
  BY DEF ListChains, Fails
<1> HIDE DEF j
<1> QED
  BY <1>2, <1>3

\* What a batch leaves when it takes effect, and when it does not.
LEMMA NftBatchMoves ==
  ASSUME TypeInv, NEW t \in Procs, NftBatch(t)
  PROVE  LET j == task[t] IN
         /\ Alone(t) /\ UNCHANGED phase
         /\ j.op # "boot" => task'[t] = Idle
         /\ j.op = "boot" => /\ task'[t].pc = "interface_routes" /\ task'[t].op = "boot"
                             /\ task'[t].want = j.want
         /\ \/ /\ j.orphans \subseteq chains
               /\ RebuildAllRules(j.entries, j.bodies, j.jumps, j.orphans)
               /\ faulted' = faulted \ (j.entries \cup j.orphans)
            \/ ~(j.orphans \subseteq chains) /\ UNCHANGED <<nftVars, faulted>>
            \/ UNCHANGED nftVars /\ faulted' = faulted \cup (j.entries \cup j.orphans)
<1> DEFINE j == task[t]
           k == [Idle EXCEPT !.pc = "interface_routes", !.op = "boot", !.want = j.want]
<1>1. CASE j.op = "boot"
  <2>1. k.pc = "interface_routes" /\ k.op = "boot" /\ k.want = j.want
    BY DEF Idle
  <2>2. Become(t, k)
    BY <1>1 DEF NftBatch
  <2>3. task'[t] = k /\ Alone(t)
    BY <2>2, BecomeMoves
  <2> HIDE DEF k
  <2> QED
    BY <1>1, <2>1, <2>3 DEF NftBatch, CanRebuild, Succeeds, Fails
<1>2. CASE j.op # "boot"
  BY <1>2, FinishContinues DEF Continues, NftBatch, CanRebuild, Succeeds, Fails
<1> QED
  BY <1>1, <1>2

\* A step that leaves the table and the other tasks alone.
LEMMA TableKeptNft ==
  ASSUME NftInv, NEW t \in Procs, Alone(t), UNCHANGED nftVars, BatchAt(task'[t])
  PROVE  NftInv'
BY DEF NftInv, JumpInv, BodyInv, BatchInv, Alone, nftVars

\* Each step of a task leads to a batch of the same kind.
LEMMA StepBatch ==
  ASSUME TypeInv, NftInv, NEW t \in Procs, Step(t)
  PROVE  BatchAt(task'[t])
<1>1. CASE ReadRules(t)
  <2>1. task'[t].pc = "read_devices" /\ task'[t].entries = {task'[t].user}
    BY <1>1, ReadRulesMoves
  <2> QED
    BY <2>1 DEF BatchAt, JumpPCs
<1>2. CASE ReadDevices(t)
  <2>1. task[t].pc = "read_devices" /\ BatchAt(task[t])
    BY <1>2 DEF ReadDevices, At, NftInv, BatchInv
  <2>2. /\ task'[t].pc = "list_chains" /\ task'[t].entries = {task[t].user}
        /\ task'[t].jumps = JumpsFor(RowsOf(task[t].user))
    BY <1>2, <2>1, ReadDevicesMoves DEF BatchAt
  <2>3. \A x \in JumpsFor(RowsOf(task[t].user)) : x[2] = task[t].user
    BY JumpsLead DEF RowsOf
  <2> QED
    BY <2>2, <2>3 DEF BatchAt
<1>3. CASE ListChains(t)
  <2>1. task[t].pc = "list_chains" /\ BatchAt(task[t])
    BY <1>3 DEF ListChains, At, NftInv, BatchInv
  <2>2. /\ task'[t].pc = "nft_batch" /\ task'[t].entries \cap task'[t].orphans = {}
        /\ task'[t].entries = task[t].entries /\ task'[t].jumps = task[t].jumps
    BY <1>3, ListChainsMoves
  <2> QED
    BY <2>1, <2>2 DEF BatchAt, JumpPCs
<1> QED
  BY <1>1, <1>2, <1>3, StepAway, AwayAt

\* Three steps change the table.
LEMMA StepNft ==
  ASSUME TypeInv, NftInv, NEW t \in Procs, Alone(t), Step(t)
  PROVE  NftInv'
<1>1. BatchInv'
  BY StepBatch DEF NftInv, BatchInv, Alone
<1>2. CASE AddUserChainStep(t)
  <2>1. UNCHANGED nftVars \/ AddUserChain(task[t].row.owner)
    BY <1>2 DEF AddUserChainStep
  <2> QED
    BY <1>1, <2>1 DEF AddUserChain, nftVars, NftInv, JumpInv, BodyInv
<1>3. CASE AddJumpsStep(t)
  <2>1. UNCHANGED nftVars \/ (CanJump(task[t].row.owner) /\ AddDeviceJumps(task[t].row))
    BY <1>3 DEF AddJumpsStep
  <2>2. \A x \in JumpsFor({task[t].row}) : x[2] = task[t].row.owner
    BY JumpsLead
  <2> QED
    BY <1>1, <2>1, <2>2 DEF CanJump, AddDeviceJumps, nftVars, NftInv, JumpInv, BodyInv
<1>4. CASE NftBatch(t)
  <2> DEFINE j == task[t]
  <2>1. /\ \A x \in j.jumps : x[2] \in j.entries
        /\ j.entries \cap j.orphans = {}
    BY <1>4 DEF NftBatch, At, NftInv, BatchInv, BatchAt, JumpPCs
  <2>2. CASE UNCHANGED nftVars
    BY <1>1, <2>2 DEF nftVars, NftInv, JumpInv, BodyInv
  <2>3. CASE RebuildAllRules(j.entries, j.bodies, j.jumps, j.orphans)
    BY <1>1, <2>1, <2>3 DEF RebuildAllRules, NftInv, JumpInv, BodyInv
  <2> QED
    BY <1>4, <2>2, <2>3, NftBatchMoves
<1>5. CASE UNCHANGED nftVars
  BY <1>1, <1>5 DEF nftVars, NftInv, JumpInv, BodyInv
<1>6. UNCHANGED nftVars \/ AddUserChainStep(t) \/ AddJumpsStep(t) \/ NftBatch(t)
  BY DEF Step, SharedStep, Insert, Refresh, Save, DeleteRow, Cascade, RefreshRule, AbandonCreate,
         AddPeerStep, RemovePeerStep, RelaySubnetsStep, ReadRules, ReadDevices,
         InterfaceRoutes, RouteAdd, RouteDel, ListChains
<1> QED
  BY <1>2, <1>3, <1>4, <1>5, <1>6

\* Operations begin with the database.
LEMMA StartAway ==
  ASSUME TypeInv, NEW t \in Procs, Start(t)
  PROVE  /\ UNCHANGED <<wgVars, nftVars, phase, faulted>>
         /\ UNCHANGED task \/ (Alone(t) /\ task'[t].pc \notin BatchPCs)
<1>1. UNCHANGED <<wgVars, nftVars, phase, faulted>>
  BY DEF Start, StartCreate, StartUpdate, StartDelete, StartDeleteUser, CreateRule,
         UpdateRuleFromPage, DeleteRuleRow, ReorderRules, ghosts
<1>2. ASSUME NEW j, Become(t, j), j.pc \notin BatchPCs
      PROVE  Alone(t) /\ task'[t].pc \notin BatchPCs
  BY <1>2, BecomeMoves
<1>3. CASE StartCreate(t)
  <2>1. PICK r : Become(t, [Idle EXCEPT !.pc = "insert", !.op = "create", !.row = r])
    BY <1>3 DEF StartCreate
  <2>2. [Idle EXCEPT !.pc = "insert", !.op = "create", !.row = r].pc \notin BatchPCs
    BY DEF Idle, BatchPCs, JumpPCs
  <2> QED
    BY <1>1, <1>2, <2>1, <2>2
<1>4. CASE StartUpdate(t)
  <2>1. PICK r, n : Become(t, [Idle EXCEPT !.pc = "save", !.op = "update", !.row = r, !.want = n])
    BY <1>4 DEF StartUpdate
  <2>2. [Idle EXCEPT !.pc = "save", !.op = "update", !.row = r, !.want = n].pc \notin BatchPCs
    BY DEF Idle, BatchPCs, JumpPCs
  <2> QED
    BY <1>1, <1>2, <2>1, <2>2
<1>5. CASE StartDelete(t)
  <2>1. PICK r : Become(t, [Idle EXCEPT !.pc = "delete_row", !.op = "delete", !.row = r])
    BY <1>5 DEF StartDelete
  <2>2. [Idle EXCEPT !.pc = "delete_row", !.op = "delete", !.row = r].pc \notin BatchPCs
    BY DEF Idle, BatchPCs, JumpPCs
  <2> QED
    BY <1>1, <1>2, <2>1, <2>2
<1>6. CASE StartDeleteUser(t)
  <2>1. PICK u, q : Become(t, [Idle EXCEPT !.pc = "cascade", !.op = "delete_user", !.user = u,
                                           !.queue = q])
    BY <1>6 DEF StartDeleteUser
  <2>2. [Idle EXCEPT !.pc = "cascade", !.op = "delete_user", !.user = u, !.queue = q].pc
          \notin BatchPCs
    BY DEF Idle, BatchPCs, JumpPCs
  <2> QED
    BY <1>1, <1>2, <2>1, <2>2
<1>7. CASE CreateRule(t) \/ UpdateRuleFromPage(t)
  <2>1. PICK o, i : Become(t, [Idle EXCEPT !.pc = "refresh_rule", !.op = o, !.rule = i])
    BY <1>7 DEF CreateRule, UpdateRuleFromPage
  <2>2. [Idle EXCEPT !.pc = "refresh_rule", !.op = o, !.rule = i].pc \notin BatchPCs
    BY DEF Idle, BatchPCs, JumpPCs
  <2> QED
    BY <1>1, <1>2, <2>1, <2>2
<1>8. CASE DeleteRuleRow(t) \/ ReorderRules(t)
  <2>1. \/ UNCHANGED task
        \/ \E o, u : Become(t, [Idle EXCEPT !.pc = "read_rules", !.op = o, !.user = u])
    BY <1>8 DEF DeleteRuleRow, ReorderRules, TellOwner
  <2>2. \A o, u : [Idle EXCEPT !.pc = "read_rules", !.op = o, !.user = u].pc \notin BatchPCs
    BY DEF Idle, BatchPCs, JumpPCs
  <2> QED
    BY <1>1, <1>2, <2>1, <2>2
<1> QED
  BY <1>3, <1>4, <1>5, <1>6, <1>7, <1>8 DEF Start

LEMMA StartNft ==
  ASSUME TypeInv, NftInv, NEW t \in Procs, Start(t)
  PROVE  NftInv'
<1>1. CASE UNCHANGED task
  BY <1>1, StartAway DEF NftInv, JumpInv, BodyInv, BatchInv, nftVars
<1>2. CASE Alone(t) /\ task'[t].pc \notin BatchPCs
  BY <1>2, StartAway, AwayAt, TableKeptNft
<1> QED
  BY <1>1, <1>2, StartAway

\* What startup has collected for the firewall and the routes.
Collected(k, j) ==
  k.want = j.want /\ k.entries = j.entries /\ k.bodies = j.bodies /\ k.jumps = j.jumps

LEMMA GetPeersMoves ==
  ASSUME TypeInv, GetPeers
  PROVE  Alone(Boot) /\ task'[Boot].pc = "db_devices"
<1> DEFINE j == [task[Boot] EXCEPT !.pc = "db_devices", !.gone = peers]
<1>1. task[Boot] \in Job
  BY TaskType, BootType
<1>2. j.pc = "db_devices"
  BY <1>1 DEF Job
<1>3. Become(Boot, j) \/ Goto(Boot, "db_devices")
  BY DEF GetPeers
<1> HIDE DEF j
<1> QED
  BY <1>2, <1>3, BootType, BecomeMoves, GotoContinues DEF Continues

LEMMA ReadAllDevicesMoves ==
  ASSUME TypeInv, ReadAllDevices
  PROVE  /\ Alone(Boot) /\ task'[Boot].pc = "db_rules"
         /\ task'[Boot].want = RelaySubnets /\ task'[Boot].jumps = JumpsFor(devices)
         /\ task'[Boot].entries = {r.owner : r \in devices}
<1> DEFINE k(q, g) == [task[Boot] EXCEPT !.pc = "db_rules", !.queue = q, !.gone = g,
                         !.want = RelaySubnets, !.entries = {r.owner : r \in devices},
                         !.jumps = JumpsFor(devices)]
<1>1. task[Boot] \in Job
  BY TaskType, BootType
<1>2. \A q, g : /\ k(q, g).pc = "db_rules" /\ k(q, g).want = RelaySubnets
                /\ k(q, g).jumps = JumpsFor(devices)
                /\ k(q, g).entries = {r.owner : r \in devices}
  BY <1>1 DEF Job
<1>3. PICK q, g : Become(Boot, k(q, g))
  BY DEF ReadAllDevices
<1>4. task'[Boot] = k(q, g) /\ Alone(Boot)
  BY <1>3, BootType, BecomeMoves
<1> HIDE DEF k
<1> QED
  BY <1>2, <1>4

LEMMA ReadAllRulesMoves ==
  ASSUME TypeInv, ReadAllRules
  PROVE  /\ Alone(Boot) /\ task'[Boot].pc = "add_missing"
         /\ task'[Boot].want = task[Boot].want /\ task'[Boot].jumps = task[Boot].jumps
         /\ task'[Boot].entries = task[Boot].entries \cup {r.user : r \in OwnedRules}
         /\ task'[Boot].bodies = [u \in Users |-> Ordered(RulesOf(u))]
<1> DEFINE bodies == [u \in Users |-> Ordered(RulesOf(u))]
           owners == {r.user : r \in OwnedRules}
           k == [task[Boot] EXCEPT !.pc = "add_missing", !.entries = @ \cup owners,
                                   !.bodies = bodies]
<1>1. task[Boot] \in Job
  BY TaskType, BootType
<1>2. /\ k.pc = "add_missing" /\ k.want = task[Boot].want /\ k.jumps = task[Boot].jumps
      /\ k.entries = task[Boot].entries \cup owners /\ k.bodies = bodies
  <2> HIDE DEF bodies, owners
  <2> QED
    BY <1>1 DEF Job
<1>3. task'[Boot] = k /\ Alone(Boot)
  BY BootType, BecomeMoves DEF ReadAllRules
<1> HIDE DEF k
<1> QED
  BY <1>2, <1>3

LEMMA PeerCommandsMove ==
  ASSUME TypeInv, AddMissingPeer \/ RemoveOrphanPeer
  PROVE  /\ Alone(Boot) /\ Collected(task'[Boot], task[Boot])
         /\ task[Boot].pc \in {"add_missing", "remove_orphans"}
         /\ task'[Boot].pc \in {"add_missing", "remove_orphans", "list_chains"}
<1>1. task[Boot] \in Job /\ Boot \in Procs
  BY TaskType, BootType
<1>2. ASSUME NEW pc, Goto(Boot, pc)
      PROVE  Alone(Boot) /\ Collected(task'[Boot], task[Boot]) /\ task'[Boot].pc = pc
  <2> DEFINE k == [task[Boot] EXCEPT !.pc = pc]
  <2>1. k.pc = pc /\ Collected(k, task[Boot])
    BY <1>1 DEF Job, Collected
  <2>2. task'[Boot] = k /\ Alone(Boot)
    BY <1>1, <1>2, BecomeMoves DEF Goto
  <2> QED
    BY <2>1, <2>2
<1>3. ASSUME NEW r, Become(Boot, [task[Boot] EXCEPT !.queue = @ \ {r}])
      PROVE  Alone(Boot) /\ Collected(task'[Boot], task[Boot]) /\ task'[Boot].pc = task[Boot].pc
  <2> DEFINE k == [task[Boot] EXCEPT !.queue = @ \ {r}]
  <2>1. k.pc = task[Boot].pc /\ Collected(k, task[Boot])
    BY <1>1 DEF Job, Collected
  <2>2. task'[Boot] = k /\ Alone(Boot)
    BY <1>1, <1>3, BecomeMoves
  <2> QED
    BY <2>1, <2>2
<1>4. ASSUME NEW r, Become(Boot, [task[Boot] EXCEPT !.gone = @ \ {r}])
      PROVE  Alone(Boot) /\ Collected(task'[Boot], task[Boot]) /\ task'[Boot].pc = task[Boot].pc
  <2> DEFINE k == [task[Boot] EXCEPT !.gone = @ \ {r}]
  <2>1. k.pc = task[Boot].pc /\ Collected(k, task[Boot])
    BY <1>1 DEF Job, Collected
  <2>2. task'[Boot] = k /\ Alone(Boot)
    BY <1>1, <1>4, BecomeMoves
  <2> QED
    BY <2>1, <2>2
<1>5. CASE AddMissingPeer
  <2>1. At(Boot, "add_missing") /\ (\/ Goto(Boot, "remove_orphans")
                                    \/ \E r : Become(Boot, [task[Boot] EXCEPT !.queue = @ \ {r}]))
    BY <1>5 DEF AddMissingPeer
  <2> QED
    BY <1>2, <1>3, <2>1 DEF At
<1>6. CASE RemoveOrphanPeer
  <2>1. At(Boot, "remove_orphans") /\ (\/ Goto(Boot, "list_chains")
                                       \/ \E r : Become(Boot, [task[Boot] EXCEPT !.gone = @ \ {r}]))
    BY <1>6 DEF RemoveOrphanPeer
  <2> QED
    BY <1>2, <1>4, <2>1 DEF At
<1> QED
  BY <1>5, <1>6

LEMMA BootNft ==
  ASSUME TypeInv, ControlInv, PeerInv, NftInv, BootStep
  PROVE  NftInv'
<1>1. CASE GetPeers
  <2>1. UNCHANGED nftVars /\ task'[Boot].pc \notin BatchPCs
    BY <1>1, GetPeersMoves DEF GetPeers, BatchPCs, JumpPCs
  <2> QED
    BY <1>1, <2>1, GetPeersMoves, BootType, AwayAt, TableKeptNft
<1>2. CASE ReadAllDevices
  <2>1. \A x \in task'[Boot].jumps : x[2] \in task'[Boot].entries
    BY <1>2, ReadAllDevicesMoves, JumpsLead
  <2>2. BatchAt(task'[Boot]) /\ UNCHANGED nftVars
    BY <1>2, <2>1, ReadAllDevicesMoves DEF BatchAt, ReadAllDevices
  <2> QED
    BY <1>2, <2>2, ReadAllDevicesMoves, BootType, TableKeptNft
<1>3. CASE ReadAllRules
  <2>1. \A x \in task[Boot].jumps : x[2] \in task[Boot].entries
    BY <1>3, BootType DEF ReadAllRules, At, NftInv, BatchInv, BatchAt, JumpPCs
  <2>2. BatchAt(task'[Boot]) /\ UNCHANGED nftVars
    BY <1>3, <2>1, ReadAllRulesMoves DEF BatchAt, ReadAllRules
  <2> QED
    BY <1>3, <2>2, ReadAllRulesMoves, BootType, TableKeptNft
<1>4. CASE AddMissingPeer \/ RemoveOrphanPeer
  <2>1. \A x \in task[Boot].jumps : x[2] \in task[Boot].entries
    BY <1>4, PeerCommandsMove, BootType DEF NftInv, BatchInv, BatchAt, JumpPCs
  <2>2. BatchAt(task'[Boot]) /\ UNCHANGED nftVars
    BY <1>4, <2>1, PeerCommandsMove DEF BatchAt, Collected, AddMissingPeer, RemoveOrphanPeer
  <2> QED
    BY <1>4, <2>2, PeerCommandsMove, BootType, TableKeptNft
<1>5. CASE SharedStep(Boot)
  <2>1. Alone(Boot) /\ Step(Boot)
    BY <1>5, BootSharedQuietly DEF Step
  <2> QED
    BY <2>1, BootType, StepNft
<1> QED
  BY <1>1, <1>2, <1>3, <1>4, <1>5 DEF BootStep

LEMMA NftInit == Init => NftInv
BY AwayAt DEF Init, NftInv, JumpInv, BodyInv, BatchInv, Idle, BatchPCs, JumpPCs

LEMMA NftNext == TypeInv /\ ControlInv /\ PeerInv /\ NftInv /\ [Next]_allVars => NftInv'
<1> SUFFICES ASSUME TypeInv, ControlInv, PeerInv, NftInv, [Next]_allVars PROVE NftInv'
  OBVIOUS
<1>1. ASSUME NEW t \in Tasks, Start(t) PROVE NftInv'
  BY <1>1, StartNft DEF Procs
<1>2. ASSUME NEW t \in Tasks, Step(t) PROVE NftInv'
  BY <1>2, StepAlone, StepNft
<1>3. CASE UpdateRuleFromApi \/ StartupFails \/ UNCHANGED allVars
  BY <1>3 DEF UpdateRuleFromApi, StartupFails, allVars, vars, taskVars, nftVars, NftInv, JumpInv,
              BodyInv, BatchInv
<1>4. CASE Crash
  <2>1. BatchInv'
    <3>1. \A t \in Procs : task'[t] = Idle
      BY <1>4 DEF Crash
    <3>2. BatchAt(Idle)
      BY AwayAt DEF Idle, BatchPCs, JumpPCs
    <3> QED
      BY <3>1, <3>2 DEF BatchInv
  <2>2. CASE UNCHANGED nftVars
    BY <2>1, <2>2 DEF nftVars, NftInv, JumpInv, BodyInv
  <2>3. CASE chains' = {} /\ body' = NoRules /\ forward' = {}
    BY <2>1, <2>3 DEF NftInv, JumpInv, BodyInv
  <2> QED
    BY <1>4, <2>2, <2>3 DEF Crash
<1>5. CASE Restart
  <2> DEFINE j == [Idle EXCEPT !.pc = "get_peers", !.op = "boot"]
  <2>1. task'[Boot] = j /\ Alone(Boot)
    BY <1>5, BootType, BecomeMoves DEF Restart, Become
  <2>2. j.pc \notin BatchPCs
    BY DEF Idle, BatchPCs, JumpPCs
  <2> HIDE DEF j
  <2> QED
    BY <1>5, <2>1, <2>2, BootType, AwayAt, TableKeptNft DEF Restart
<1>6. CASE BootStep
  BY <1>6, BootNft
<1> QED
  BY <1>1, <1>2, <1>3, <1>4, <1>5, <1>6 DEF Next, TaskStep

-----------------------------------------------------------------------------
(* Synchronising the routes while the devices stay as they are *)

\* The routes are those of the devices, except for what is to be added or dropped.
OnTrack(add, drop) ==
  \A s \in Subnets \ faulted :
    /\ s \in RelaySubnets /\ s \notin routes => s \in add
    /\ s \in routes /\ s \notin RelaySubnets => s \in drop

Planned(add, drop) ==
  OnTrack(add, drop) /\ add \subseteq RelaySubnets /\ drop \cap RelaySubnets = {}

UsersKeepFaults == \A u \in Users : u \in faulted' <=> u \in faulted

\* What was read is what the devices are.
PlanKnown(j) ==
  /\ j.pc = "interface_routes" => j.want = RelaySubnets
  /\ j.pc = "routes" => Planned(j.add, j.drop)

LEMMA RelaySubnetsAre == TypeInv => RelaySubnets \subseteq Subnets
BY RelaySubnetsType DEF TypeInv, TypeOK

LEMMA InterfaceRoutesPlanned ==
  ASSUME TypeInv, NEW t \in Procs, PlanKnown(task[t]), InterfaceRoutes(t)
  PROVE  \E j \in Job : /\ RoutesLeft(t, j) /\ Alike(j, task[t])
                        /\ Planned(j.add, j.drop)' /\ UsersKeepFaults
<1>1. task[t].want = RelaySubnets
  BY DEF PlanKnown, InterfaceRoutes, At
<1>2. UNCHANGED <<RelaySubnets, routes>>
  BY DEF InterfaceRoutes, dbVars, wgVars, RelaySubnets
<1>3. PICK j \in Job, missed \in SUBSET routes :
        /\ RoutesLeft(t, j) /\ Alike(j, task[t])
        /\ j.add = RelaySubnets \ (routes \ missed)
        /\ j.drop = ((routes \ missed) \ RelaySubnets) \ {TunnelNet}
        /\ faulted' = faulted \cup ((missed \ RelaySubnets) \ {TunnelNet})
  BY <1>1, InterfaceRoutesMoves
<1>4. TunnelNet \notin Subnets /\ routes \subseteq Subnets \cup {TunnelNet}
      /\ Subnets \cap Users = {}
  BY WireGuardAssumption, DatabaseAssumption DEF TypeInv, TypeOK, WgTypeOK
<1>5. UsersKeepFaults
  BY <1>3, <1>4 DEF UsersKeepFaults
<1>6. Planned(j.add, j.drop)'
  BY <1>2, <1>3, <1>4 DEF Planned, OnTrack
<1> QED
  BY <1>3, <1>5, <1>6

LEMMA RouteAddPlanned ==
  ASSUME TypeInv, NEW t \in Procs, PlanKnown(task[t]), RouteAdd(t)
  PROVE  \E j \in Job : /\ RoutesLeft(t, j) /\ Alike(j, task[t])
                        /\ Planned(j.add, j.drop)' /\ UsersKeepFaults
<1> DEFINE add  == task[t].add
           drop == task[t].drop
<1>1. Planned(add, drop)
  BY DEF PlanKnown, RouteAdd, At
<1>2. UNCHANGED RelaySubnets
  BY DEF RouteAdd, dbVars, RelaySubnets
<1>3. PICK s \in add, j \in Job :
        /\ RoutesLeft(t, j) /\ Alike(j, task[t]) /\ j.add = add \ {s} /\ j.drop = drop
        /\ \/ routes' = routes \cup {s} /\ faulted' = faulted \ {s}
           \/ UNCHANGED routes /\ faulted' = faulted \cup {s}
  BY RouteAddMoves
<1>4. s \in RelaySubnets /\ s \notin Users
  BY <1>1, RelaySubnetsAre, DatabaseAssumption DEF Planned
<1>5. UsersKeepFaults
  BY <1>3, <1>4 DEF UsersKeepFaults
<1>6. Planned(j.add, j.drop)'
  BY <1>1, <1>2, <1>3, <1>4 DEF Planned, OnTrack
<1> QED
  BY <1>3, <1>5, <1>6

LEMMA RouteDelPlanned ==
  ASSUME TypeInv, NEW t \in Procs, PlanKnown(task[t]), RouteDel(t)
  PROVE  \E j \in Job : /\ RoutesLeft(t, j) /\ Alike(j, task[t])
                        /\ Planned(j.add, j.drop)' /\ UsersKeepFaults
<1> DEFINE drop == task[t].drop
<1>1. Planned({}, drop) /\ drop \subseteq Subnets
  BY TaskType DEF PlanKnown, RouteDel, At, Job
<1>2. UNCHANGED RelaySubnets
  BY DEF RouteDel, dbVars, RelaySubnets
<1>3. PICK s \in drop, j \in Job :
        /\ RoutesLeft(t, j) /\ Alike(j, task[t]) /\ j.add = {} /\ j.drop = drop \ {s}
        /\ \/ routes' = routes \ {s} /\ faulted' = faulted \ {s}
           \/ UNCHANGED routes /\ faulted' = faulted \cup {s}
  BY RouteDelMoves
<1>4. s \notin RelaySubnets /\ s \notin Users
  BY <1>1, DatabaseAssumption DEF Planned
<1>5. UsersKeepFaults
  BY <1>3, <1>4 DEF UsersKeepFaults
<1>6. Planned(j.add, j.drop)'
  BY <1>1, <1>2, <1>3, <1>4 DEF Planned, OnTrack
<1> QED
  BY <1>3, <1>5, <1>6

LEMMA RoutesStepPlanned ==
  ASSUME TypeInv, NEW t \in Procs, PlanKnown(task[t]),
         InterfaceRoutes(t) \/ RouteAdd(t) \/ RouteDel(t)
  PROVE  /\ UNCHANGED <<dbVars, nftVars>> /\ UsersKeepFaults
         /\ \E j \in Job : RoutesLeft(t, j) /\ Alike(j, task[t]) /\ Planned(j.add, j.drop)'
<1>1. UNCHANGED <<dbVars, nftVars>>
  BY DEF InterfaceRoutes, RouteAdd, RouteDel
<1> QED
  BY <1>1, InterfaceRoutesPlanned, RouteAddPlanned, RouteDelPlanned

-----------------------------------------------------------------------------
(* Startup, when requests are served only after it *)

Quiet == /\ phase # "unready"
         /\ phase # "up" => \A t \in Tasks : At(t, "idle")
Fresh == phase = "startup" => contended = {}

Owners == {r.owner : r \in devices} \cup {r.user : r \in OwnedRules}

\* The chains and jumps are those of the database, except where the batch failed.
ChainsRebuilt ==
  \A u \in Users \ faulted : /\ u \in chains <=> u \in Owners
                             /\ body[u] = Ordered(RulesOf(u))
JumpsRebuilt ==
  /\ Users \cap faulted = {} => forward = JumpsFor(devices)
  /\ \A r \in devices : r.owner \in faulted \/ JumpsFor({r}) \subseteq forward

\* What startup has read, and what it has done, at each of its steps.
BootRead(j) ==
  /\ j.pc \in JumpPCs =>
       /\ j.want = RelaySubnets /\ j.jumps = JumpsFor(devices)
       /\ {r.owner : r \in devices} \subseteq j.entries /\ j.entries \subseteq Owners
  /\ j.pc \in JumpPCs \ {"db_rules"} =>
       /\ j.entries = Owners
       /\ j.bodies = [u \in Users |-> Ordered(RulesOf(u))]
  /\ j.pc = "nft_batch" => /\ j.orphans \subseteq chains
                           /\ chains \ j.entries \subseteq j.orphans \cup faulted

BootDone(j) ==
  j.pc \in {"interface_routes", "routes"} => ChainsRebuilt /\ JumpsRebuilt /\ PlanKnown(j)

BootInv == phase = "startup" => BootRead(task[Boot]) /\ BootDone(task[Boot])

StartInv == Quiet /\ Fresh /\ BootInv

\* Reading what a database that does not change holds.
LEMMA ReadsStay ==
  ASSUME UNCHANGED dbVars
  PROVE  /\ UNCHANGED <<RelaySubnets, Owners, JumpsFor(devices), LiveKeys>>
         /\ \A u : UNCHANGED RulesOf(u)
         /\ UNCHANGED [u \in Users |-> Ordered(RulesOf(u))]
BY DEF dbVars, RelaySubnets, Owners, OwnedRules, JumpsFor, LiveKeys, RulesOf

LEMMA BootReadsAlone ==
  ASSUME TypeInv, ControlInv, StartInv, phase = "startup", UNCHANGED dbVars,
         BootRead(task[Boot]),
         \/ GetPeers \/ ReadAllDevices \/ ReadAllRules \/ AddMissingPeer \/ RemoveOrphanPeer
         \/ ListChains(Boot)
  PROVE  BootRead(task[Boot])' /\ BootDone(task[Boot])'
<1> DEFINE j == task[Boot]
           k == task'[Boot]
<1>0. /\ UNCHANGED <<RelaySubnets, Owners, JumpsFor(devices)>>
      /\ UNCHANGED [u \in Users |-> Ordered(RulesOf(u))]
      /\ UNCHANGED {r.owner : r \in devices}
  BY ReadsStay DEF dbVars
<1>1. CASE GetPeers
  BY <1>1, GetPeersMoves DEF BootRead, BootDone, JumpPCs
<1>2. CASE ReadAllDevices
  BY <1>0, <1>2, ReadAllDevicesMoves DEF BootRead, BootDone, JumpPCs, Owners
<1>3. CASE ReadAllRules
  <2>1. j.pc = "db_rules"
    BY <1>3 DEF ReadAllRules, At
  <2>2. /\ k.pc = "add_missing" /\ k.want = RelaySubnets /\ k.jumps = JumpsFor(devices)
        /\ k.entries = Owners /\ k.bodies = [u \in Users |-> Ordered(RulesOf(u))]
    BY <1>3, <2>1, ReadAllRulesMoves DEF BootRead, JumpPCs, Owners
  <2> QED
    BY <1>0, <2>2 DEF BootRead, BootDone, JumpPCs, Owners
<1>4. CASE AddMissingPeer \/ RemoveOrphanPeer
  <2>1. /\ j.pc \in {"add_missing", "remove_orphans"}
        /\ k.pc \in {"add_missing", "remove_orphans", "list_chains"}
        /\ k.want = j.want /\ k.entries = j.entries /\ k.bodies = j.bodies /\ k.jumps = j.jumps
    BY <1>4, PeerCommandsMove DEF Collected
  <2> QED
    BY <1>0, <2>1 DEF BootRead, BootDone, JumpPCs
<1>5. CASE ListChains(Boot)
  <2>1. /\ j.pc = "list_chains" /\ k.pc = "nft_batch"
        /\ k.want = j.want /\ k.entries = j.entries /\ k.bodies = j.bodies /\ k.jumps = j.jumps
        /\ \/ k.orphans = chains \ j.entries /\ UNCHANGED faulted
           \/ k.orphans = {} /\ faulted' = faulted \cup (chains \ j.entries)
    BY <1>5, BootType, ListChainsMoves DEF ListChains, At
  <2>2. UNCHANGED chains
    BY <1>5 DEF ListChains, nftVars
  <2> QED
    BY <1>0, <2>1, <2>2 DEF BootRead, BootDone, JumpPCs
<1> QED
  BY <1>1, <1>2, <1>3, <1>4, <1>5

LEMMA OwnersAre ==
  ASSUME TypeInv
  PROVE  /\ Owners \subseteq Users
         /\ \A u \in Users \ Owners : RulesOf(u) = {}
         /\ \A r \in devices : r.owner \in Owners
<1>1. \A r \in devices : r.owner \in Users
  BY DEF TypeInv, TypeOK, DbTypeOK, DeviceRow
<1>2. \A r \in rules : r.user \in Users \cup {Global}
  BY DEF TypeInv, TypeOK, DbTypeOK, RuleRow
<1>3. Owners \subseteq Users
  BY <1>1, <1>2 DEF Owners, OwnedRules
<1>4. \A u \in Users \ Owners : RulesOf(u) = {}
  BY DatabaseAssumption DEF Owners, OwnedRules, RulesOf
<1> QED
  BY <1>3, <1>4 DEF Owners

\* The batch rebuilds the chains and the jumps, or everybody's chain is accounted
\* for.
LEMMA BootBatch ==
  ASSUME TypeInv, NftInv, BootRead(task[Boot]), NftBatch(Boot)
  PROVE  ChainsRebuilt' /\ JumpsRebuilt'
<1> DEFINE j == task[Boot]
<1>1. /\ j.entries = Owners /\ j.jumps = JumpsFor(devices)
      /\ j.bodies = [u \in Users |-> Ordered(RulesOf(u))]
      /\ j.orphans \subseteq chains /\ chains \ Owners \subseteq j.orphans \cup faulted
      /\ j.pc = "nft_batch"
  BY DEF BootRead, NftBatch, At, JumpPCs
<1>2. Owners \cap j.orphans = {}
  BY <1>1, BootType DEF NftInv, BatchInv, BatchAt
<1>3. /\ UNCHANGED <<Owners, JumpsFor(devices)>> /\ \A u : UNCHANGED RulesOf(u)
  BY ReadsStay DEF NftBatch
<1>4. \A u \in Users \ Owners : Ordered(RulesOf(u)) = NoRules[u]
  BY OwnersAre, OrderedNone DEF NoRules
<1>5. \A u \in Users \ chains : body[u] = NoRules[u]
  BY DEF NftInv, BodyInv
<1>6. chains \subseteq Users /\ Owners \subseteq Users
  BY OwnersAre DEF TypeInv, TypeOK, NftTypeOK
<1>7. CASE /\ RebuildAllRules(j.entries, j.bodies, j.jumps, j.orphans)
           /\ faulted' = faulted \ (j.entries \cup j.orphans)
  <2>1. /\ chains' = (chains \cup Owners) \ j.orphans /\ forward' = JumpsFor(devices)
        /\ \A u \in Users : body'[u] = IF u \in Owners THEN Ordered(RulesOf(u))
                                       ELSE IF u \in j.orphans THEN NoRules[u] ELSE body[u]
    BY <1>1, <1>7 DEF RebuildAllRules
  <2>2. ASSUME NEW u \in Users, u \notin faulted'
        PROVE  (u \in chains' <=> u \in Owners) /\ body'[u] = Ordered(RulesOf(u))
    <3>1. CASE u \in Owners
      BY <1>2, <2>1, <3>1
    <3>2. CASE u \notin Owners
      <4>1. u \notin chains'
        BY <1>1, <1>7, <2>1, <2>2, <3>2
      <4>2. u \in j.orphans \/ u \notin chains
        BY <2>1, <4>1
      <4> QED
        BY <1>4, <1>5, <2>1, <3>2, <4>1, <4>2
    <3> QED
      BY <3>1, <3>2
  <2>3. \A r \in devices : JumpsFor({r}) \subseteq JumpsFor(devices)
    BY DEF JumpsFor
  <2> QED
    BY <1>3, <2>1, <2>2, <2>3 DEF ChainsRebuilt, JumpsRebuilt, NftBatch, dbVars, JumpsFor
<1>8. CASE UNCHANGED nftVars /\ faulted' = faulted \cup (j.entries \cup j.orphans)
  <2>1. \A u \in Users \ faulted' : u \notin Owners /\ u \notin chains
    BY <1>1, <1>8
  <2>2. ChainsRebuilt'
    BY <1>3, <1>4, <1>5, <1>8, <2>1 DEF ChainsRebuilt, nftVars
  <2>3. JumpsRebuilt'
    <3>1. ASSUME Users \cap faulted' = {} PROVE forward = {} /\ JumpsFor(devices) = {}
      <4>1. Owners = {} /\ chains = {}
        BY <1>6, <2>1, <3>1
      <4>2. devices = {}
        BY <4>1, OwnersAre
      <4> QED
        BY <4>1, <4>2 DEF NftInv, JumpInv, JumpsFor
    <3>2. \A r \in devices : r.owner \in faulted'
      BY <1>1, <1>8, OwnersAre
    <3> QED
      BY <1>3, <1>8, <3>1, <3>2 DEF JumpsRebuilt, NftBatch, dbVars, nftVars
  <2> QED
    BY <2>2, <2>3
<1> QED
  BY <1>1, <1>7, <1>8, BootType, NftBatchMoves

\* Synchronising routes says nothing of chains.
LEMMA RebuiltStays ==
  ASSUME TypeInv, ChainsRebuilt, JumpsRebuilt, UNCHANGED <<dbVars, nftVars>>, UsersKeepFaults
  PROVE  ChainsRebuilt' /\ JumpsRebuilt'
<1>1. \A r \in devices : r.owner \in Users
  BY DEF TypeInv, TypeOK, DbTypeOK, DeviceRow
<1>2. ChainsRebuilt'
  BY ReadsStay DEF ChainsRebuilt, nftVars, UsersKeepFaults
<1>3. JumpsRebuilt'
  BY <1>1 DEF JumpsRebuilt, JumpsFor, dbVars, nftVars, UsersKeepFaults
<1> QED
  BY <1>2, <1>3

\* Startup goes on with the routes, or it is over and they are those of the devices.
LEMMA BootRoutes ==
  ASSUME TypeInv, ControlInv, BootDone(task[Boot]),
         InterfaceRoutes(Boot) \/ RouteAdd(Boot) \/ RouteDel(Boot)
  PROVE  /\ ChainsRebuilt' /\ JumpsRebuilt'
         /\ \/ task'[Boot].pc = "routes" /\ PlanKnown(task[Boot])'
            \/ task'[Boot] = Idle /\ phase' = "up" /\ OnTrack({}, {})'
<1>1. task[Boot].pc \in {"interface_routes", "routes"} /\ task[Boot].op = "boot"
  BY BootAt DEF InterfaceRoutes, RouteAdd, RouteDel, At
<1>2. ChainsRebuilt /\ JumpsRebuilt /\ PlanKnown(task[Boot])
  BY <1>1 DEF BootDone
<1>3. UNCHANGED <<dbVars, nftVars>> /\ UsersKeepFaults
  BY <1>2, BootType, RoutesStepPlanned
<1>4. PICK j \in Job : RoutesLeft(Boot, j) /\ Alike(j, task[Boot]) /\ Planned(j.add, j.drop)'
  BY <1>2, BootType, RoutesStepPlanned
<1>5. j.op = "boot"
  BY <1>1, <1>4 DEF Alike
<1>6. \/ task'[Boot] = Idle /\ phase' = "up"
      \/ task'[Boot].pc = "routes" /\ UNCHANGED phase
  BY <1>1, <1>4, <1>5, BootType, RoutesLeftContinues
<1>7. CASE task'[Boot].pc = "routes"
  <2>1. task'[Boot].add = j.add /\ task'[Boot].drop = j.drop
    BY <1>4, <1>5, <1>7, BootType, RoutesLeftMoves DEF Through, Idle
  <2>2. PlanKnown(task[Boot])'
    BY <1>4, <1>7, <2>1 DEF PlanKnown
  <2> QED
    BY <1>2, <1>3, <1>7, <2>2, RebuiltStays
<1>8. CASE task'[Boot] = Idle /\ phase' = "up"
  <2>1. j.add = {} /\ j.drop = {}
    BY <1>4, <1>8, BootType, RoutesLeftMoves DEF Idle
  <2> QED
    BY <1>2, <1>3, <1>4, <1>8, <2>1, RebuiltStays DEF Planned
<1> QED
  BY <1>6, <1>7, <1>8

LEMMA StartInit == Init => StartInv
BY DEF Init, StartInv, Quiet, Fresh, BootInv, Procs, Idle, At

\* Startup goes on, or is over.
LEMMA BootPhase ==
  ASSUME TypeInv, ControlInv, BootStep
  PROVE  phase = "startup" /\ phase' \in {"startup", "up"}
<1> USE BootType
<1>1. phase = "startup" /\ task[Boot].op = "boot" /\ task[Boot] \in Job
  BY BootAt, TaskType DEF BootStep, GetPeers, ReadAllDevices, ReadAllRules, AddMissingPeer,
     RemoveOrphanPeer, SharedStep, InterfaceRoutes, RouteAdd, RouteDel, ListChains, NftBatch, At
<1>2. CASE InterfaceRoutes(Boot) \/ RouteAdd(Boot) \/ RouteDel(Boot)
  BY <1>1, <1>2, InterfaceRoutesPlan, RouteAddPlan, RouteDelPlan, RoutesLeftContinues
<1>3. CASE ~(InterfaceRoutes(Boot) \/ RouteAdd(Boot) \/ RouteDel(Boot))
  BY <1>1, <1>3 DEF BootStep, SharedStep, GetPeers, ReadAllDevices, ReadAllRules, AddMissingPeer,
     RemoveOrphanPeer, ListChains, NftBatch
<1> QED
  BY <1>2, <1>3

\* What runs during startup, and what may end it.
LEMMA StartNext ==
  ASSUME ~ServeWhileStarting, TypeInv, ControlInv, PeerInv, NftInv, StartInv, [Next]_allVars
  PROVE  StartInv'
<1>1. ASSUME NEW t \in Tasks, Start(t) PROVE StartInv'
  <2>1. phase = "up" /\ UNCHANGED phase
    BY <1>1, StartAway DEF Start, StartCreate, StartUpdate, StartDelete, StartDeleteUser,
         CreateRule, UpdateRuleFromPage, DeleteRuleRow, ReorderRules, CanStart, Serving,
         StartInv, Quiet
  <2> QED
    BY <2>1 DEF StartInv, Quiet, Fresh, BootInv
<1>2. CASE UpdateRuleFromApi
  <2>1. phase = "up" /\ UNCHANGED phase
    BY <1>2 DEF UpdateRuleFromApi, Serving, taskVars, StartInv, Quiet
  <2> QED
    BY <2>1 DEF StartInv, Quiet, Fresh, BootInv
<1>3. ASSUME NEW t \in Tasks, Step(t) PROVE StartInv'
  <2>1. phase = "up" /\ UNCHANGED phase
    BY <1>3, StepNotIdle, StepAlone DEF StartInv, Quiet, Procs
  <2> QED
    BY <2>1 DEF StartInv, Quiet, Fresh, BootInv
<1>4. CASE Crash
  <2>1. phase' = "down" /\ \A t \in Tasks : task'[t] = Idle
    BY <1>4 DEF Crash, Procs
  <2> QED
    BY <2>1 DEF StartInv, Quiet, Fresh, BootInv, Idle, At
<1>5. CASE Restart
  <2> DEFINE j == [Idle EXCEPT !.pc = "get_peers", !.op = "boot"]
  <2>1. task'[Boot] = j /\ Alone(Boot)
    BY <1>5, BootType, BecomeMoves DEF Restart, Become
  <2>2. j.pc = "get_peers"
    BY DEF Idle
  <2> HIDE DEF j
  <2>3. BootRead(task[Boot])' /\ BootDone(task[Boot])'
    BY <2>1, <2>2 DEF BootRead, BootDone, JumpPCs
  <2>4. \A t \in Tasks : task'[t] = task[t]
    BY <2>1, EventBridgeAssumption DEF Alone, Procs
  <2> QED
    BY <1>5, <2>3, <2>4 DEF Restart, StartInv, Quiet, Fresh, BootInv, At
<1>6. CASE BootStep
  <2>1. phase = "startup" /\ UNCHANGED <<dbVars, contended>>
    BY <1>6, BootAt, BootReads DEF BootStep, GetPeers, ReadAllDevices, ReadAllRules, AddMissingPeer,
         RemoveOrphanPeer, SharedStep, InterfaceRoutes, RouteAdd, RouteDel, ListChains, NftBatch,
         At, ghosts
  <2>2. BootRead(task[Boot]) /\ BootDone(task[Boot])
    BY <2>1 DEF StartInv, BootInv
  <2>3. Alone(Boot)
    BY <1>6, GetPeersMoves, ReadAllDevicesMoves, ReadAllRulesMoves, PeerCommandsMove,
       BootSharedQuietly DEF BootStep
  <2>4. Quiet' /\ Fresh'
    BY <1>6, <2>1, <2>3, BootPhase, EventBridgeAssumption
    DEF StartInv, Quiet, Fresh, Alone, Procs, At
  <2>5. BootInv'
    <3>1. CASE NftBatch(Boot)
      <4>1. task'[Boot].pc = "interface_routes" /\ task'[Boot].want = task[Boot].want
        BY <3>1, BootType, BootAt, NftBatchMoves DEF NftBatch, At
      <4>2. task[Boot].want = RelaySubnets
        BY <2>2, <3>1 DEF BootRead, NftBatch, At, JumpPCs
      <4>3. ChainsRebuilt' /\ JumpsRebuilt'
        BY <2>2, <3>1, BootBatch
      <4> QED
        BY <2>1, <4>1, <4>2, <4>3, ReadsStay DEF BootInv, BootRead, BootDone, PlanKnown, JumpPCs
    <3>2. CASE InterfaceRoutes(Boot) \/ RouteAdd(Boot) \/ RouteDel(Boot)
      BY <2>2, <3>2, BootRoutes DEF BootInv, BootRead, BootDone, JumpPCs
    <3> QED
      BY <1>6, <2>1, <2>2, <3>1, <3>2, BootReadsAlone DEF BootStep, SharedStep, BootInv
  <2> QED
    BY <2>4, <2>5 DEF StartInv
<1>7. CASE StartupFails
  BY <1>7 DEF StartupFails, StartInv, Quiet, Fresh, BootInv, At
<1>8. CASE UNCHANGED allVars
  BY <1>8 DEF allVars, vars, dbVars, wgVars, nftVars, taskVars, ghosts, StartInv, Quiet, Fresh, BootInv,
       BootRead, BootDone, PlanKnown, Planned, OnTrack, ChainsRebuilt, JumpsRebuilt, RelaySubnets,
       Owners, OwnedRules, JumpsFor, RulesOf, At
<1> QED
  BY <1>1, <1>2, <1>3, <1>4, <1>5, <1>6, <1>7, <1>8 DEF Next, TaskStep

\* Every peer is a device's, and every device is a peer, when startup is over and
\* nothing else is under way.
LEMMA PeersReconciled ==
  ASSUME TypeInv, ControlInv, PeerInv, OrphanInv, phase = "up", AllIdle,
         contended = {}, faulted = {}
  PROVE  peers = LiveKeys
<1>1. task[Boot].pc = "idle" /\ ~BeforeRead
  BY DEF ControlInv, Booting, At, BeforeRead
<1>2. Missing = {} /\ Gone = {}
  BY <1>1 DEF PeerInv, QueueInv, OrphanInv, WorkInv, Missing, KeysOf
<1>3. \A t \in Tasks : task[t].pc = "idle" /\ task[t].queue = {}
  BY DEF AllIdle, At, OrphanInv, WorkInv, DeletePCs
<1>4. \A k : ~Added(k) /\ ~Removed(k)
  BY <1>3 DEF Added, Adds, Removed, Removes, KeysOf
<1>5. \A k \in Devices : Live(k) => k \in peers
  BY <1>1, <1>2, <1>4 DEF PeerInv, CoverInv
<1>6. \A k \in peers : Live(k)
  BY <1>1, <1>2, <1>4 DEF OrphanInv, OrphanCover
<1>7. \A k \in LiveKeys : k \in Devices
  BY DEF LiveKeys, TypeInv, TypeOK, DbTypeOK, DeviceRow
<1> QED
  BY <1>5, <1>6, <1>7, LiveKeysAre

\* The routes, once the tunnel network is counted.
LEMMA RoutesReconciled ==
  ASSUME TypeInv, ControlInv, phase = "up", OnTrack({}, {}), faulted = {}
  PROVE  routes = RelaySubnets \cup {TunnelNet}
<1>1. TunnelNet \in routes
  BY DEF ControlInv, TunnelRouteKept
<1>2. routes \subseteq Subnets \cup {TunnelNet} /\ RelaySubnets \subseteq Subnets
  BY RelaySubnetsAre DEF TypeInv, TypeOK, WgTypeOK
<1>3. \A s \in Subnets : s \in RelaySubnets <=> s \in routes
  BY DEF OnTrack
<1> QED
  BY <1>1, <1>2, <1>3

LEMMA ChainsReconciled ==
  ASSUME TypeInv, TableInv, ChainsRebuilt, faulted = {}
  PROVE  /\ chains = ({r.owner : r \in devices} \cup {r.user : r \in rules}) \ {Global}
         /\ \A u \in chains : InOrder(body[u], RulesOf(u))
<1>1. chains \subseteq Users /\ Owners \subseteq Users
  BY OwnersAre DEF TypeInv, TypeOK, NftTypeOK
<1>2. \A u \in Users : (u \in chains <=> u \in Owners) /\ body[u] = Ordered(RulesOf(u))
  BY DEF ChainsRebuilt
<1>3. chains = Owners
  BY <1>1, <1>2
<1>4. Owners = ({r.owner : r \in devices} \cup {r.user : r \in rules}) \ {Global}
  BY <1>1, DatabaseAssumption DEF Owners, OwnedRules
<1>5. \A u : RulesOf(u) \in SUBSET RuleRow /\ Distinct(RulesOf(u))
  BY DEF RulesOf, TypeInv, TypeOK, DbTypeOK, TableInv, RuleInv, Distinct
<1> QED
  BY <1>1, <1>2, <1>3, <1>4, <1>5, OrderedInOrder

\* The step that ends startup.
LEMMA StartupEnds ==
  ASSUME TypeInv, ControlInv, StartInv, [Next]_allVars, phase = "startup", phase' = "up"
  PROVE  /\ ChainsRebuilt' /\ JumpsRebuilt' /\ OnTrack({}, {})'
         /\ AllIdle' /\ contended' = {}
<1>1. BootRead(task[Boot]) /\ BootDone(task[Boot]) /\ contended = {}
  BY DEF StartInv, BootInv, Fresh
<1>2. \A t \in Tasks : task[t].pc = "idle"
  BY DEF StartInv, Quiet, At
<1>3. InterfaceRoutes(Boot) \/ RouteAdd(Boot) \/ RouteDel(Boot)
  <2>1. ~UNCHANGED phase
    OBVIOUS
  <2>2. \A t \in Tasks : ~Start(t) /\ ~Step(t)
    BY <2>1, StartAway, StepAlone DEF Procs
  <2>3. ~UpdateRuleFromApi /\ ~Crash /\ ~StartupFails /\ ~Restart /\ ~UNCHANGED allVars
    BY <2>1 DEF UpdateRuleFromApi, Crash, StartupFails, Restart, allVars, vars, taskVars
  <2>4. BootStep
    BY <2>2, <2>3 DEF Next, TaskStep
  <2>5. ~ListChains(Boot) /\ ~NftBatch(Boot)
    BY <2>1, BootType, NftBatchMoves DEF ListChains
  <2> QED
    BY <2>1, <2>4, <2>5 DEF BootStep, SharedStep, GetPeers, ReadAllDevices, ReadAllRules,
                           AddMissingPeer, RemoveOrphanPeer
<1>4. PICK j \in Job : j.op = "boot" /\ RoutesLeft(Boot, j)
  BY <1>3, BootType, BootAt, InterfaceRoutesPlan, RouteAddPlan, RouteDelPlan
  DEF InterfaceRoutes, RouteAdd, RouteDel, At
<1>5. task'[Boot] = Idle /\ Alone(Boot)
  BY <1>3, <1>4, BootType, BootAt, RoutesLeftMoves, RoutesLeftContinues
  DEF InterfaceRoutes, RouteAdd, RouteDel, At
<1>6. ChainsRebuilt' /\ JumpsRebuilt' /\ OnTrack({}, {})'
  BY <1>1, <1>3, <1>5, BootRoutes DEF Idle
<1>7. AllIdle'
  BY <1>2, <1>5, EventBridgeAssumption DEF AllIdle, At, Alone, Procs
<1>8. contended' = {}
  BY <1>1, <1>3 DEF InterfaceRoutes, RouteAdd, RouteDel
<1> QED
  BY <1>6, <1>7, <1>8

\* Together: what is left when startup is over.
LEMMA LeftReconciled ==
  TypeInv /\ ControlInv /\ PeerInv /\ OrphanInv /\ TableInv /\ phase = "up" /\ faulted = {}
    /\ ChainsRebuilt /\ JumpsRebuilt /\ OnTrack({}, {}) /\ AllIdle /\ contended = {}
  => Reconciled
BY PeersReconciled, RoutesReconciled, ChainsReconciled DEF JumpsRebuilt, Reconciled

LEMMA StartupLeaves ==
  TypeInv /\ ControlInv /\ StartInv /\ [Next]_allVars
    /\ (TypeInv /\ ControlInv /\ PeerInv /\ OrphanInv /\ TableInv)'
  => [phase = "startup" /\ phase' = "up" /\ faulted' = {} => Reconciled']_allVars
<1>1. TypeInv /\ ControlInv /\ StartInv /\ [Next]_allVars /\ phase = "startup" /\ phase' = "up"
      => (ChainsRebuilt /\ JumpsRebuilt /\ OnTrack({}, {}) /\ AllIdle /\ contended = {})'
  BY StartupEnds
<1>2. (TypeInv /\ ControlInv /\ PeerInv /\ OrphanInv /\ TableInv /\ phase = "up" /\ faulted = {}
        /\ ChainsRebuilt /\ JumpsRebuilt /\ OnTrack({}, {}) /\ AllIdle /\ contended = {}
       => Reconciled)'
  BY LeftReconciled, PTL
<1> QED
  BY <1>1, <1>2

\* However the process died, in the middle of whatever operations, and however
\* often wg, ip or nft failed before: a startup in which no command failed leaves
\* peers, routes, user chains and jumps exactly as the database has them, the
\* chains in order of priority (reconcile, _reconcile_firewall,
\* _reconcile_routes; main.py serves no request before startup() returns).
THEOREM StartupRebuilds ==
  ASSUME ~ServeWhileStarting
  PROVE  Spec => StartupReconciles
<1>1. Init => TypeInv /\ ControlInv /\ PeerInv /\ OrphanInv /\ TableInv /\ NftInv /\ StartInv
  BY TypeInit, ControlInit, PeerInit, OrphanInit, TableInit, NftInit, StartInit
<1>2. TypeInv /\ ControlInv /\ PeerInv /\ OrphanInv /\ TableInv /\ NftInv /\ StartInv
        /\ [Next]_allVars
      => (TypeInv /\ ControlInv /\ PeerInv /\ OrphanInv /\ TableInv /\ NftInv /\ StartInv)'
  BY TypeNext, ControlNext, PeerNext, OrphanNext, TableNext, NftNext, StartNext
<1>3. TypeInv /\ ControlInv /\ StartInv /\ [Next]_allVars
        /\ (TypeInv /\ ControlInv /\ PeerInv /\ OrphanInv /\ TableInv)'
      => [phase = "startup" /\ phase' = "up" /\ faulted' = {} => Reconciled']_allVars
  BY StartupLeaves
<1> QED
  BY <1>1, <1>2, <1>3, PTL DEF Spec, StartupReconciles

-----------------------------------------------------------------------------
(* Where an operation begins, and where its steps lead *)

\* Which operation takes a task where.
OpAt(j) ==
  /\ j.pc \in {"insert", "add_user_chain", "add_jumps"} => j.op = "create"
  /\ j.pc \in {"refresh", "add_peer"} => j.op \in {"create", "update"}
  /\ j.pc = "save" => j.op = "update"
  /\ j.pc \in {"delete_row", "cascade", "remove_peer"} => j.op \in {"delete", "delete_user"}
  /\ j.pc \in {"relay_subnets", "interface_routes", "routes"} =>
       j.op \in {"create", "update", "delete", "delete_user"}

\* The rows an operation begins with.
Begins(k) ==
  \/ k.pc = "insert" /\ k.op = "create" /\ k.drop = {}
  \/ k.pc = "save" /\ k.op = "update"
  \/ k.pc = "delete_row" /\ k.op = "delete" /\ k.row \in devices /\ k.queue = {}
  \/ k.pc = "cascade" /\ k.op = "delete_user" /\ k.queue = RowsOf(k.user)

\* An operation on a rule has committed it when it begins.
BeginsRule(k) ==
  \/ k.pc = "refresh_rule" /\ \E r \in rules' : r.id = k.rule
  \/ k.pc = "read_rules"
  \/ k.pc = "idle"

LEMMA StartMoves ==
  ASSUME TypeInv, NEW t \in Procs,
         StartCreate(t) \/ StartUpdate(t) \/ StartDelete(t) \/ StartDeleteUser(t)
  PROVE  /\ At(t, "idle") /\ UNCHANGED <<users, devices, rules>>
         /\ Begins(task'[t])
<1>1. CASE StartCreate(t)
  <2>1. PICK r : Become(t, [Idle EXCEPT !.pc = "insert", !.op = "create", !.row = r])
    BY <1>1 DEF StartCreate
  <2> DEFINE k == [Idle EXCEPT !.pc = "insert", !.op = "create", !.row = r]
  <2>2. k.pc = "insert" /\ k.op = "create" /\ k.drop = {}
    BY DEF Idle
  <2>3. task'[t] = k
    BY <2>1, BecomeMoves
  <2> HIDE DEF k
  <2> QED
    BY <1>1, <2>2, <2>3 DEF StartCreate, CanStart, Begins
<1>2. CASE StartUpdate(t)
  <2>1. PICK r, n : Become(t, [Idle EXCEPT !.pc = "save", !.op = "update", !.row = r, !.want = n])
    BY <1>2 DEF StartUpdate
  <2> DEFINE k == [Idle EXCEPT !.pc = "save", !.op = "update", !.row = r, !.want = n]
  <2>2. k.pc = "save" /\ k.op = "update"
    BY DEF Idle
  <2>3. task'[t] = k
    BY <2>1, BecomeMoves
  <2> HIDE DEF k
  <2> QED
    BY <1>2, <2>2, <2>3 DEF StartUpdate, CanStart, Begins, dbVars
<1>3. CASE StartDelete(t)
  <2>1. PICK r \in devices : Become(t, [Idle EXCEPT !.pc = "delete_row", !.op = "delete", !.row = r])
    BY <1>3 DEF StartDelete
  <2> DEFINE k == [Idle EXCEPT !.pc = "delete_row", !.op = "delete", !.row = r]
  <2>2. k.pc = "delete_row" /\ k.op = "delete" /\ k.row = r /\ k.queue = {}
    BY DEF Idle
  <2>3. task'[t] = k
    BY <2>1, BecomeMoves
  <2> HIDE DEF k
  <2> QED
    BY <1>3, <2>2, <2>3 DEF StartDelete, CanStart, Begins, dbVars
<1>4. CASE StartDeleteUser(t)
  <2>1. PICK u : Become(t, [Idle EXCEPT !.pc = "cascade", !.op = "delete_user", !.user = u,
                                        !.queue = RowsOf(u)])
    BY <1>4 DEF StartDeleteUser
  <2> DEFINE q == RowsOf(u)
             k == [Idle EXCEPT !.pc = "cascade", !.op = "delete_user", !.user = u, !.queue = q]
  <2>2. k.pc = "cascade" /\ k.op = "delete_user" /\ k.user = u /\ k.queue = q
    <3> HIDE DEF q
    <3> QED
      BY DEF Idle
  <2>3. task'[t] = k
    BY <2>1, BecomeMoves
  <2> HIDE DEF k
  <2> QED
    BY <1>4, <2>2, <2>3 DEF StartDeleteUser, CanStart, Begins, dbVars
<1> QED
  BY <1>1, <1>2, <1>3, <1>4

LEMMA StartRuleMoves ==
  ASSUME TypeInv, NEW t \in Procs,
         CreateRule(t) \/ UpdateRuleFromPage(t) \/ DeleteRuleRow(t) \/ ReorderRules(t)
  PROVE  /\ At(t, "idle") /\ UNCHANGED <<users, devices>>
         /\ BeginsRule(task'[t])
<1>1. ASSUME NEW o, NEW i, NEW u, Become(t, [Idle EXCEPT !.pc = "refresh_rule", !.op = o, !.rule = i])
      PROVE  task'[t].pc = "refresh_rule" /\ task'[t].rule = i
  <2> DEFINE k == [Idle EXCEPT !.pc = "refresh_rule", !.op = o, !.rule = i]
  <2>1. k.pc = "refresh_rule" /\ k.rule = i
    BY DEF Idle
  <2> QED
    BY <1>1, <2>1, BecomeMoves
<1>2. ASSUME NEW o, NEW u, Become(t, [Idle EXCEPT !.pc = "read_rules", !.op = o, !.user = u])
      PROVE  task'[t].pc = "read_rules"
  <2> DEFINE k == [Idle EXCEPT !.pc = "read_rules", !.op = o, !.user = u]
  <2>1. k.pc = "read_rules"
    BY DEF Idle
  <2> QED
    BY <1>2, <2>1, BecomeMoves
<1>3. CASE CreateRule(t)
  <2>1. PICK o \in RuleOwners, p \in Priorities, e \in Exprs :
          /\ InsertRule(o, p, e)
          /\ Become(t, [Idle EXCEPT !.pc = "refresh_rule", !.op = "rule_create", !.rule = nextRule])
    BY <1>3 DEF CreateRule
  <2> DEFINE new == [id |-> nextRule, user |-> o, priority |-> p, expr |-> e]
  <2>2. rules' = rules \cup {new} /\ UNCHANGED <<users, devices>>
    BY <2>1 DEF InsertRule
  <2>3. new.id = nextRule /\ new.user = o
    OBVIOUS
  <2> HIDE DEF new
  <2> QED
    BY <1>1, <1>3, <2>1, <2>2, <2>3 DEF CreateRule, CanStart, BeginsRule
<1>4. CASE UpdateRuleFromPage(t)
  <2>1. PICK r \in rules, o \in RuleOwners, p \in Priorities, e \in Exprs :
          /\ UpdateRule(r, o, p, e)
          /\ Become(t, [Idle EXCEPT !.pc = "refresh_rule", !.op = "rule_update", !.rule = r.id])
    BY <1>4 DEF UpdateRuleFromPage
  <2> DEFINE new == [r EXCEPT !.user = o, !.priority = p, !.expr = e]
  <2>2. rules' = (rules \ {r}) \cup {new} /\ UNCHANGED <<users, devices>>
    BY <2>1 DEF UpdateRule
  <2>3. r \in RuleRow
    BY DEF TypeInv, TypeOK, DbTypeOK
  <2>4. new.id = r.id /\ new.user = o
    BY <2>3 DEF RuleRow
  <2> HIDE DEF new
  <2> QED
    BY <1>1, <1>4, <2>1, <2>2, <2>4 DEF UpdateRuleFromPage, CanStart, BeginsRule
<1>5. CASE DeleteRuleRow(t)
  <2>1. PICK r \in rules : DeleteRule(r) /\ TellOwner(t, "rule_delete", r.user)
    BY <1>5 DEF DeleteRuleRow
  <2>2. At(t, "idle")
    BY <1>5 DEF DeleteRuleRow, CanStart
  <2> QED
    BY <1>2, <2>1, <2>2 DEF DeleteRule, TellOwner, BeginsRule, At
<1>6. CASE ReorderRules(t)
  <2>1. PICK filter : TellOwner(t, "reorder", filter)
    BY <1>6 DEF ReorderRules
  <2>2. At(t, "idle") /\ UNCHANGED <<users, devices>>
    BY <1>6 DEF ReorderRules, CanStart
  <2> QED
    BY <1>2, <2>1, <2>2 DEF TellOwner, BeginsRule, At
<1> QED
  BY <1>3, <1>4, <1>5, <1>6

\* The commits.
LEMMA InsertMoves ==
  ASSUME TypeInv, NEW t \in Procs, Insert(t)
  PROVE  \/ /\ CanInsertDevice(task[t].row) /\ InsertDevice(task[t].row)
            /\ task'[t].pc = "refresh" /\ Alike(task'[t], task[t])
            /\ task'[t].drop = task[t].drop
         \/ UNCHANGED dbVars /\ task'[t] = Idle
<1>1. CASE InsertDevice(task[t].row) /\ Goto(t, "refresh") /\ CanInsertDevice(task[t].row)
  <2> DEFINE k == [task[t] EXCEPT !.pc = "refresh"]
  <2>1. k.pc = "refresh" /\ Alike(k, task[t]) /\ k.drop = task[t].drop
    BY TaskType DEF Job, Alike
  <2>2. task'[t] = k
    BY <1>1, BecomeMoves DEF Goto
  <2> HIDE DEF k
  <2> QED
    BY <1>1, <2>1, <2>2
<1>2. CASE Finish(t) /\ UNCHANGED dbVars
  BY <1>2, FinishContinues
<1> QED
  BY <1>1, <1>2 DEF Insert

LEMMA SaveMoves ==
  ASSUME TypeInv, NEW t \in Procs, Save(t)
  PROVE  \/ UNCHANGED dbVars /\ task'[t] = Idle
         \/ /\ task'[t].pc = "refresh" /\ Alike(task'[t], task[t])
            /\ \E r \in devices' : r.key = task[t].row.key
            /\ Shrinks /\ UNCHANGED <<users, rules>>
<1>1. CASE Finish(t) /\ UNCHANGED dbVars
  BY <1>1, FinishContinues
<1> DEFINE i == task[t]
           k == [i EXCEPT !.pc = "refresh", !.want = {}]
<1>2. CASE /\ Live(i.row.key) /\ Become(t, k)
           /\ \/ UNCHANGED dbVars
              \/ UpdateNets(i.row.key, i.want)
  <2>1. k.pc = "refresh" /\ Alike(k, i)
    BY TaskType DEF Job, Alike
  <2>2. task'[t] = k
    BY <1>2, BecomeMoves
  <2>3. (\E r \in devices' : r.key = i.row.key) /\ Shrinks /\ UNCHANGED <<users, rules>>
    <3>1. CASE UNCHANGED dbVars
      BY <1>2, <2>2, <3>1 DEF dbVars, Live, Shrinks
    <3>2. CASE UpdateNets(i.row.key, i.want)
      <4> DEFINE new(r) == IF r.key = i.row.key THEN [r EXCEPT !.nets = i.want] ELSE r
      <4>1. \A r \in devices : new(r).key = r.key /\ new(r).owner = r.owner
        BY DEF TypeInv, TypeOK, DbTypeOK, DeviceRow
      <4>2. devices' = {new(r) : r \in devices} /\ UNCHANGED <<users, rules>>
        BY <3>2 DEF UpdateNets
      <4> HIDE DEF new
      <4>3. PICK r \in devices : r.key = i.row.key
        BY <1>2 DEF Live
      <4>4. new(r) \in devices' /\ new(r).key = i.row.key
        BY <4>1, <4>2, <4>3
      <4> QED
        BY <4>1, <4>2, <4>4 DEF Shrinks
    <3> QED
      BY <1>2, <3>1, <3>2
  <2> HIDE DEF k
  <2> QED
    BY <2>1, <2>2, <2>3
<1> QED
  BY <1>1, <1>2 DEF Save

LEMMA DeleteRowMoves ==
  ASSUME TypeInv, NEW t \in Procs, DeleteRow(t)
  PROVE  /\ DeleteDevice(task[t].row.key)
         /\ task'[t].pc = "remove_peer" /\ Alike(task'[t], task[t])
BY GotoContinues DEF DeleteRow, Alike

LEMMA CascadeMoves ==
  ASSUME TypeInv, NEW t \in Procs, Cascade(t)
  PROVE  DeleteUser(task[t].user) /\ Onward(task'[t], task[t])
BY TaskType, NextDeviceMoves DEF Cascade

\* Commands on peers.
LEMMA RefreshMoves ==
  ASSUME TypeInv, NEW t \in Procs, Refresh(t)
  PROVE  \/ ~Live(task[t].row.key) /\ task'[t] = Idle
         \/ /\ task'[t].pc = "add_peer" /\ task'[t].op = task[t].op
            /\ task'[t].row \in devices /\ task'[t].row.key = task[t].row.key
            /\ task'[t].drop = task[t].drop
<1>1. CASE ~Live(task[t].row.key) /\ Finish(t)
  BY <1>1, FinishContinues
<1>2. ASSUME NEW r \in devices, r.key = task[t].row.key,
             Become(t, [task[t] EXCEPT !.pc = "add_peer", !.row = r])
      PROVE  /\ task'[t].pc = "add_peer" /\ task'[t].op = task[t].op
             /\ task'[t].row \in devices /\ task'[t].row.key = task[t].row.key
             /\ task'[t].drop = task[t].drop
  <2> DEFINE k == [task[t] EXCEPT !.pc = "add_peer", !.row = r]
  <2>1. /\ k.pc = "add_peer" /\ k.op = task[t].op /\ k.row = r
        /\ k.drop = task[t].drop
    BY TaskType DEF Job
  <2>2. task'[t] = k
    BY <1>2, BecomeMoves
  <2> HIDE DEF k
  <2> QED
    BY <1>2, <2>1, <2>2
<1> QED
  BY <1>1, <1>2 DEF Refresh

LEMMA AddPeerMoves ==
  ASSUME TypeInv, NEW t \in Procs, AddPeerStep(t)
  PROVE  LET j == task[t]
             k == task'[t]
         IN
         /\ UNCHANGED <<dbVars, nftVars, routes>>
         /\ faulted' \in {faulted \cup {j.row.key}, faulted \ {j.row.key}}
         /\ k.op = j.op /\ k.row = j.row
         /\ \/ j.op = "update" /\ k.pc = "relay_subnets"
            \/ j.op # "update" /\ j.row.nets = {} /\ k.pc = "add_user_chain"
            \/ /\ j.op # "update" /\ k.pc = "routes"
               /\ k.add = j.row.nets /\ k.drop = j.drop
<1> DEFINE j == task[t]
           r == [j EXCEPT !.pc = "relay_subnets"]
           c == [j EXCEPT !.pc = "add_user_chain"]
           n == j.row.nets
           s == [j EXCEPT !.pc = "routes", !.add = n]
<1>1. /\ UNCHANGED <<dbVars, nftVars, routes>>
      /\ faulted' \in {faulted \cup {j.row.key}, faulted \ {j.row.key}}
  BY DEF AddPeerStep, AddPeer, Succeeds, Fails, wgVars
<1>2. /\ r.pc = "relay_subnets" /\ r.op = j.op /\ r.row = j.row
      /\ c.pc = "add_user_chain" /\ c.op = j.op /\ c.row = j.row
      /\ s.pc = "routes" /\ s.op = j.op /\ s.row = j.row /\ s.add = n /\ s.drop = j.drop
  <2> HIDE DEF n
  <2> QED
    BY TaskType DEF Job
<1>3. Become(t, IF j.op = "update" THEN r ELSE IF n = {} THEN c ELSE s)
  BY DEF AddPeerStep
<1>4. task'[t] = IF j.op = "update" THEN r ELSE IF n = {} THEN c ELSE s
  <2> HIDE DEF r, c, s
  <2> QED
    BY <1>3, BecomeMoves
<1> HIDE DEF r, c, s
<1> QED
  BY <1>1, <1>2, <1>4

LEMMA AbandonMoves ==
  ASSUME TypeInv, NEW t \in Procs, AbandonCreate(t)
  PROVE  /\ UNCHANGED <<dbVars, nftVars, routes>> /\ task'[t] = Idle
         /\ faulted' = faulted \cup {task[t].row.key, task[t].row.owner} \cup task[t].row.nets
BY FinishContinues DEF AbandonCreate, Fails, wgVars

LEMMA RemovePeerMoves ==
  ASSUME TypeInv, NEW t \in Procs, RemovePeerStep(t)
  PROVE  /\ UNCHANGED <<dbVars, nftVars, routes>>
         /\ faulted' \in {faulted \cup {task[t].row.key}, faulted \ {task[t].row.key}}
         /\ \/ task'[t].pc = "relay_subnets" /\ task'[t].op = task[t].op
            \/ task[t].row.nets = {} /\ Onward(task'[t], task[t])
<1>1. UNCHANGED <<dbVars, nftVars, routes>>
  BY DEF RemovePeerStep, RemovePeer, wgVars
<1>2. faulted' \in {faulted \cup {task[t].row.key}, faulted \ {task[t].row.key}}
  BY DEF RemovePeerStep, Succeeds, Fails
<1>3. \/ Goto(t, "relay_subnets")
      \/ task[t].row.nets = {} /\ NextDevice(t, task[t])
  BY DEF RemovePeerStep
<1> QED
  BY <1>1, <1>2, <1>3, TaskType, GotoContinues, NextDeviceMoves

LEMMA RelaySubnetsMoves ==
  ASSUME TypeInv, NEW t \in Procs, RelaySubnetsStep(t)
  PROVE  /\ UNCHANGED <<dbVars, wgVars, nftVars, faulted>>
         /\ task'[t].pc = "interface_routes" /\ Alike(task'[t], task[t])
         /\ task'[t].want = RelaySubnets
<1> DEFINE w == RelaySubnets
           k == [task[t] EXCEPT !.pc = "interface_routes", !.want = w]
<1>1. k.pc = "interface_routes" /\ Alike(k, task[t]) /\ k.want = w
  <2> HIDE DEF w
  <2> QED
    BY TaskType DEF Job, Alike
<1>2. task'[t] = k
  BY BecomeMoves DEF RelaySubnetsStep
<1> HIDE DEF k
<1> QED
  BY <1>1, <1>2 DEF RelaySubnetsStep, ghosts

\* Jumps and rules.
LEMMA AddUserChainMoves ==
  ASSUME TypeInv, NEW t \in Procs, AddUserChainStep(t)
  PROVE  /\ UNCHANGED <<dbVars, wgVars>>
         /\ \/ /\ AddUserChain(task[t].row.owner) /\ UNCHANGED faulted
               /\ task'[t].pc = "add_jumps" /\ Alike(task'[t], task[t])
            \/ /\ UNCHANGED nftVars /\ faulted' = faulted \cup {task[t].row.owner}
               /\ task'[t] = Idle
BY GotoContinues, FinishContinues DEF AddUserChainStep, Fails, Alike

LEMMA AddJumpsMoves ==
  ASSUME TypeInv, NEW t \in Procs, AddJumpsStep(t)
  PROVE  LET row == task[t].row IN
         /\ UNCHANGED <<dbVars, wgVars>> /\ task'[t] = Idle
         /\ \/ AddDeviceJumps(row) /\ UNCHANGED faulted
            \/ row.owner \notin chains /\ UNCHANGED <<nftVars, faulted>>
            \/ UNCHANGED nftVars /\ faulted' = faulted \cup {row.owner}
BY FinishContinues DEF AddJumpsStep, Fails, CanJump

LEMMA RefreshRuleMoves ==
  ASSUME TypeInv, NEW t \in Procs, RefreshRule(t)
  PROVE  /\ UNCHANGED <<dbVars, wgVars, nftVars, faulted>>
         /\ \/ task'[t].pc = "read_rules"
            \/ /\ task'[t] = Idle
               /\ \A r \in rules : r.id = task[t].rule =>
                    \E q \in rules : q.id = task[t].rule /\ q.user = Global
<1>1. ASSUME NEW r, Become(t, [task[t] EXCEPT !.pc = "read_rules", !.user = r.user, !.rule = 0])
      PROVE  task'[t].pc = "read_rules"
  <2> DEFINE k == [task[t] EXCEPT !.pc = "read_rules", !.user = r.user, !.rule = 0]
  <2>1. k.pc = "read_rules"
    BY TaskType DEF Job
  <2> QED
    BY <1>1, <2>1, BecomeMoves
<1> QED
  BY <1>1, FinishContinues DEF RefreshRule, ghosts

-----------------------------------------------------------------------------
(* One operation at a time: the routes *)

OneAtATime == \E t : Tasks = {t}

NetsOf(rows) == UNION {r.nets : r \in rows}

\* Where nothing is left to do for the routes.
SettledPCs == {"idle", "insert", "save", "delete_row", "cascade", "refresh_rule", "add_user_chain",
               "add_jumps", "read_rules", "read_devices", "list_chains", "nft_batch"}

\* What is left to do for the routes, wherever a task is.
RouteAt(j) ==
  /\ OpAt(j) /\ PlanKnown(j)
  /\ j.pc \in SettledPCs => OnTrack({}, {})
  /\ j.pc \in {"insert", "refresh", "add_peer"} /\ j.op = "create" => j.drop = {}
  /\ j.pc \in {"refresh", "add_peer"} /\ j.op = "create" =>
       j.row \in devices /\ OnTrack(j.row.nets, {})
  /\ j.pc = "refresh" => Live(j.row.key)
  /\ j.pc = "delete_row" => j.row \in devices /\ j.queue = {}
  /\ j.pc = "cascade" => j.queue = RowsOf(j.user)
  /\ j.pc = "remove_peer" => OnTrack({}, j.row.nets \cup NetsOf(j.queue))

RouteInv == phase = "up" => \A t \in Tasks : RouteAt(task[t])

\* The subnets whose last command failed stay known.
SubnetsKeepFaults == \A s \in Subnets : s \in faulted => s \in faulted'

LEMMA TrackStays ==
  ASSUME UNCHANGED <<devices, routes>>, SubnetsKeepFaults,
         NEW add, NEW drop, OnTrack(add, drop)
  PROVE  OnTrack(add, drop)'
BY DEF OnTrack, RelaySubnets, SubnetsKeepFaults

\* A step from where nothing is left to do to where nothing is.
LEMMA SettledStays ==
  ASSUME NEW t, task[t].pc \in SettledPCs, RouteAt(task[t]),
         UNCHANGED <<devices, routes>>, SubnetsKeepFaults,
         task'[t].pc \in SettledPCs \ {"delete_row", "cascade", "insert"},
         OpAt(task'[t])
  PROVE  RouteAt(task[t])'
<1>1. OnTrack({}, {})'
  BY TrackStays DEF RouteAt
<1> QED
  BY <1>1 DEF RouteAt, OpAt, PlanKnown, SettledPCs

LEMMA SettledIdle ==
  ASSUME NEW t, task'[t] = Idle, OnTrack({}, {})'
  PROVE  RouteAt(task[t])'
BY DEF RouteAt, OpAt, PlanKnown, SettledPCs, Idle

LEMMA StartSettled ==
  ASSUME TypeInv, NEW t \in Procs, Start(t), RouteAt(task[t])
  PROVE  RouteAt(task[t])'
<1>1. UNCHANGED <<devices, routes, faulted>>
  BY StartAway, StartMoves, StartRuleMoves DEF Start, wgVars
<1>2. At(t, "idle")
  BY StartMoves, StartRuleMoves DEF Start
<1>3. OnTrack({}, {})'
  BY <1>1, <1>2, TrackStays DEF RouteAt, SettledPCs, At, SubnetsKeepFaults
<1>4. CASE Begins(task'[t])
  BY <1>1, <1>3, <1>4 DEF Begins, RouteAt, OpAt, PlanKnown, SettledPCs, RowsOf
<1>5. CASE BeginsRule(task'[t])
  BY <1>3, <1>5 DEF BeginsRule, RouteAt, OpAt, PlanKnown, SettledPCs
<1> QED
  BY <1>4, <1>5, StartMoves, StartRuleMoves DEF Start

\* Commands on keys and users say nothing of subnets.
LEMMA SubnetsStay ==
  ASSUME NEW x \in SUBSET (Devices \cup Users), faulted' = faulted \ x \/ faulted' = faulted \cup x
  PROVE  SubnetsKeepFaults
BY DatabaseAssumption DEF SubnetsKeepFaults

\* Steps that have nothing to do with routes.
LEMMA PolicyStepSettled ==
  ASSUME TypeInv, NEW t \in Procs, task[t].op # "boot", RouteAt(task[t]),
         \/ AddUserChainStep(t) \/ AddJumpsStep(t) \/ RefreshRule(t) \/ ReadRules(t)
         \/ ReadDevices(t) \/ ListChains(t) \/ NftBatch(t)
  PROVE  RouteAt(task[t])'
<1>0. task[t] \in Job /\ Held(task[t]) /\ chains \subseteq Users
  BY TaskType DEF TypeInv, TypeOK, NftTypeOK
<1>1. CASE AddUserChainStep(t)
  <2>1. task[t].pc = "add_user_chain" /\ task[t].row.owner \in Users
    BY <1>0, <1>1 DEF AddUserChainStep, At, Held, RowPCs, DeviceRow
  <2>2. UNCHANGED <<devices, routes>> /\ SubnetsKeepFaults
    BY <1>1, <2>1, AddUserChainMoves DEF SubnetsKeepFaults, dbVars, wgVars
  <2>3. OpAt(task'[t]) /\ task'[t].pc \in {"add_jumps", "idle"}
    BY <1>1, <2>1, AddUserChainMoves DEF RouteAt, OpAt, Alike, Idle
  <2> QED
    BY <2>1, <2>2, <2>3, SettledStays DEF SettledPCs
<1>2. CASE AddJumpsStep(t)
  <2>1. UNCHANGED <<devices, routes>> /\ SubnetsKeepFaults
    BY <1>2, AddJumpsMoves DEF SubnetsKeepFaults, dbVars, wgVars
  <2>2. OnTrack({}, {})'
    BY <1>2, <2>1, TrackStays DEF RouteAt, SettledPCs, AddJumpsStep, At
  <2> QED
    BY <1>2, <2>2, AddJumpsMoves, SettledIdle
<1>3. CASE RefreshRule(t) \/ ReadRules(t) \/ ReadDevices(t)
  <2>1. UNCHANGED <<devices, routes, faulted>> /\ task[t].pc \in SettledPCs
    BY <1>3 DEF RefreshRule, ReadRules, ReadDevices, At, SettledPCs, dbVars, wgVars, ghosts
  <2>2. task'[t].pc \in {"read_rules", "read_devices", "list_chains", "idle"}
    BY <1>3, RefreshRuleMoves, ReadRulesMoves, ReadDevicesMoves DEF Idle
  <2> QED
    BY <2>1, <2>2, SettledStays DEF SettledPCs, OpAt, SubnetsKeepFaults
<1>4. CASE ListChains(t)
  <2>1. UNCHANGED <<devices, routes>> /\ task[t].pc \in SettledPCs
    BY <1>4 DEF ListChains, At, SettledPCs, dbVars, wgVars
  <2>2. SubnetsKeepFaults /\ task'[t].pc = "nft_batch"
    BY <1>4, ListChainsMoves DEF SubnetsKeepFaults
  <2> QED
    BY <2>1, <2>2, SettledStays DEF SettledPCs, OpAt
<1>5. CASE NftBatch(t)
  <2>1. UNCHANGED <<devices, routes>> /\ task[t].pc \in SettledPCs
    BY <1>5 DEF NftBatch, At, SettledPCs, dbVars, wgVars
  <2>2. task[t].entries \cup task[t].orphans \subseteq Users
    BY <1>0 DEF Job
  <2>3. SubnetsKeepFaults /\ task'[t] = Idle
    BY <1>5, <2>2, NftBatchMoves, DatabaseAssumption DEF SubnetsKeepFaults
  <2>4. OnTrack({}, {})'
    BY <2>1, <2>3, TrackStays DEF RouteAt
  <2> QED
    BY <2>3, <2>4, SettledIdle
<1> QED
  BY <1>1, <1>2, <1>3, <1>4, <1>5

LEMMA NetsAre ==
  /\ \A s : s \in RelaySubnets <=> \E r \in devices : s \in r.nets
  /\ \A s : s \in RelaySubnets' <=> \E r \in devices' : s \in r.nets
  /\ \A rows : \A s : s \in NetsOf(rows) <=> \E r \in rows : s \in r.nets
BY DEF RelaySubnets, NetsOf

\* On to the next device of the queue: the routes of those that are left remain.
LEMMA OnwardSettled ==
  ASSUME NEW t, NEW j, Onward(task'[t], j), j.op \in {"delete", "delete_user"},
         OnTrack({}, NetsOf(j.queue))'
  PROVE  RouteAt(task[t])'
<1>1. CASE j.queue = {} /\ task'[t] = Idle
  <2>1. NetsOf(j.queue) = {}
    BY <1>1 DEF NetsOf
  <2> QED
    BY <1>1, <2>1, SettledIdle
<1>2. ASSUME NEW r \in j.queue, task'[t].pc = "remove_peer", task'[t].op = j.op,
             task'[t].row = r, task'[t].queue = j.queue \ {r}
      PROVE  RouteAt(task[t])'
  <2>1. r.nets \cup NetsOf(j.queue \ {r}) = NetsOf(j.queue)
    BY NetsAre
  <2> QED
    BY <1>2, <2>1 DEF RouteAt, OpAt, PlanKnown, SettledPCs
<1> QED
  BY <1>1, <1>2 DEF Onward

LEMMA InsertSettled ==
  ASSUME TypeInv, NEW t \in Procs, Insert(t), RouteAt(task[t])
  PROVE  RouteAt(task[t])'
<1>1. /\ task[t].pc = "insert" /\ task[t].op = "create" /\ task[t].drop = {}
      /\ OnTrack({}, {}) /\ UNCHANGED <<routes, faulted>>
  BY DEF Insert, At, RouteAt, OpAt, SettledPCs, wgVars, ghosts
<1>2. CASE /\ InsertDevice(task[t].row) /\ task'[t].pc = "refresh"
           /\ Alike(task'[t], task[t]) /\ task'[t].drop = task[t].drop
  <2> PICK n : n = task[t].row.nets
    OBVIOUS
  <2>1. devices' = devices \cup {task[t].row}
    BY <1>2 DEF InsertDevice
  <2>2. \A s : s \in RelaySubnets' <=> s \in RelaySubnets \/ s \in n
    BY <2>1, NetsAre
  <2>3. OnTrack(n, {})'
    BY <1>1, <2>2 DEF OnTrack
  <2>4. task'[t].row = task[t].row /\ task'[t].op = "create"
    BY <1>1, <1>2 DEF Alike
  <2> QED
    BY <1>1, <1>2, <2>1, <2>3, <2>4 DEF RouteAt, OpAt, PlanKnown, SettledPCs, Live
<1>3. CASE UNCHANGED dbVars /\ task'[t] = Idle
  <2>1. OnTrack({}, {})'
    BY <1>1, <1>3, TrackStays DEF dbVars, SubnetsKeepFaults
  <2> QED
    BY <1>3, <2>1, SettledIdle
<1> QED
  BY <1>2, <1>3, InsertMoves

LEMMA RefreshSettled ==
  ASSUME TypeInv, TableInv, NEW t \in Procs, Refresh(t), RouteAt(task[t])
  PROVE  RouteAt(task[t])'
<1>1. /\ task[t].pc = "refresh" /\ UNCHANGED <<devices, routes, faulted>>
  BY DEF Refresh, At, dbVars, wgVars, ghosts
<1>2. Live(task[t].row.key) /\ task[t].op \in {"create", "update"}
  BY <1>1 DEF RouteAt, OpAt
<1>3. /\ task'[t].pc = "add_peer" /\ task'[t].op = task[t].op
      /\ task'[t].row \in devices /\ task'[t].row.key = task[t].row.key
      /\ task'[t].drop = task[t].drop
  BY <1>2, RefreshMoves
<1>4. CASE task[t].op = "create"
  <2> PICK r : r = task[t].row
    OBVIOUS
  <2>1. r \in devices /\ OnTrack(r.nets, {}) /\ task[t].drop = {}
    BY <1>1, <1>4 DEF RouteAt
  <2>2. task'[t].row = r
    BY <1>3, <2>1 DEF TableInv, KeyInv
  <2>3. OnTrack(r.nets, {})'
    BY <1>1, <2>1, TrackStays DEF SubnetsKeepFaults
  <2> QED
    BY <1>1, <1>3, <1>4, <2>1, <2>2, <2>3 DEF RouteAt, OpAt, PlanKnown, SettledPCs
<1>5. CASE task[t].op = "update"
  BY <1>3, <1>5 DEF RouteAt, OpAt, PlanKnown, SettledPCs
<1> QED
  BY <1>2, <1>4, <1>5

LEMMA SaveSettled ==
  ASSUME TypeInv, NEW t \in Procs, Save(t), RouteAt(task[t])
  PROVE  RouteAt(task[t])'
<1>1. /\ task[t].pc = "save" /\ task[t].op = "update"
      /\ OnTrack({}, {}) /\ UNCHANGED <<routes, faulted>>
  BY DEF Save, At, RouteAt, OpAt, SettledPCs, wgVars, ghosts
<1>2. CASE UNCHANGED dbVars /\ task'[t] = Idle
  <2>1. OnTrack({}, {})'
    BY <1>1, <1>2, TrackStays DEF dbVars, SubnetsKeepFaults
  <2> QED
    BY <1>2, <2>1, SettledIdle
<1>3. CASE /\ task'[t].pc = "refresh" /\ Alike(task'[t], task[t])
           /\ \E r \in devices' : r.key = task[t].row.key
  <2>1. task'[t].op = "update" /\ task'[t].row = task[t].row
    BY <1>1, <1>3 DEF Alike
  <2> QED
    BY <1>3, <2>1 DEF RouteAt, OpAt, PlanKnown, SettledPCs, Live
<1> QED
  BY <1>2, <1>3, SaveMoves

LEMMA DeleteRowSettled ==
  ASSUME TypeInv, TableInv, NEW t \in Procs, DeleteRow(t), RouteAt(task[t])
  PROVE  RouteAt(task[t])'
<1> PICK r : r = task[t].row
  OBVIOUS
<1>1. /\ r \in devices /\ task[t].queue = {} /\ task[t].op \in {"delete", "delete_user"}
      /\ OnTrack({}, {}) /\ UNCHANGED <<routes, faulted>>
  BY DEF DeleteRow, At, RouteAt, OpAt, SettledPCs, wgVars, ghosts
<1>2. devices' = devices \ {r}
  BY <1>1, DeleteRowMoves DEF DeleteDevice, TableInv, KeyInv
<1>3. OnTrack({}, r.nets \cup NetsOf({}))'
  <2>1. \A s : s \in RelaySubnets => s \in RelaySubnets' \/ s \in r.nets
    BY <1>2, NetsAre
  <2>2. \A s : s \in RelaySubnets' => s \in RelaySubnets
    BY <1>2, NetsAre
  <2> QED
    BY <1>1, <2>1, <2>2 DEF OnTrack
<1>4. /\ task'[t].pc = "remove_peer" /\ task'[t].op = task[t].op
      /\ task'[t].row = r /\ task'[t].queue = {}
  BY <1>1, DeleteRowMoves DEF Alike
<1> QED
  BY <1>1, <1>3, <1>4 DEF RouteAt, OpAt, PlanKnown, SettledPCs

LEMMA CascadeSettled ==
  ASSUME TypeInv, NEW t \in Procs, Cascade(t), RouteAt(task[t])
  PROVE  RouteAt(task[t])'
<1> PICK j : j = task[t]
  OBVIOUS
<1>1. /\ j.queue = RowsOf(j.user) /\ j.op \in {"delete", "delete_user"}
      /\ OnTrack({}, {}) /\ UNCHANGED <<routes, faulted>>
  BY DEF Cascade, At, RouteAt, OpAt, SettledPCs, wgVars, ghosts
<1>2. devices' = devices \ RowsOf(j.user) /\ Onward(task'[t], j)
  BY CascadeMoves DEF DeleteUser, RowsOf
<1>3. OnTrack({}, NetsOf(j.queue))'
  <2>1. \A s : s \in RelaySubnets => s \in RelaySubnets' \/ s \in NetsOf(j.queue)
    BY <1>1, <1>2, NetsAre
  <2>2. \A s : s \in RelaySubnets' => s \in RelaySubnets
    BY <1>2, NetsAre
  <2> QED
    BY <1>1, <2>1, <2>2 DEF OnTrack
<1> QED
  BY <1>1, <1>2, <1>3, OnwardSettled

LEMMA AbandonSettled ==
  ASSUME TypeInv, NEW t \in Procs, AbandonCreate(t), RouteAt(task[t])
  PROVE  RouteAt(task[t])'
<1> PICK n : n = task[t].row.nets
  OBVIOUS
<1>1. OnTrack(n, {})
  BY DEF AbandonCreate, At, RouteAt
<1>2. UNCHANGED <<RelaySubnets, routes>> /\ faulted \cup n \subseteq faulted'
  BY AbandonMoves DEF dbVars, RelaySubnets
<1>3. OnTrack({}, {})'
  BY <1>1, <1>2 DEF OnTrack
<1> QED
  BY <1>3, AbandonMoves, SettledIdle

LEMMA AddPeerSettled ==
  ASSUME TypeInv, NEW t \in Procs, AddPeerStep(t), RouteAt(task[t])
  PROVE  RouteAt(task[t])'
<1> PICK j : j = task[t]
  OBVIOUS
<1>1. j.pc = "add_peer" /\ j.op \in {"create", "update"} /\ j.row.key \in Devices
  BY TaskType DEF AddPeerStep, At, RouteAt, OpAt, Held, RowPCs, DeviceRow
<1>2. UNCHANGED <<devices, routes>> /\ SubnetsKeepFaults
  <2>1. faulted' \in {faulted \cup {j.row.key}, faulted \ {j.row.key}}
    BY AddPeerMoves
  <2> QED
    BY <1>1, <2>1, AddPeerMoves, SubnetsStay DEF dbVars
<1>3. CASE j.op = "update" /\ task'[t].pc = "relay_subnets" /\ task'[t].op = j.op
  BY <1>3 DEF RouteAt, OpAt, PlanKnown, SettledPCs
<1>4. CASE j.op = "create"
  <2>1. j.row \in devices /\ OnTrack(j.row.nets, {}) /\ j.drop = {}
    BY <1>1, <1>4 DEF RouteAt
  <2>2. OnTrack(j.row.nets, {})' /\ j.row.nets \subseteq RelaySubnets'
    BY <1>2, <2>1, TrackStays, NetsAre
  <2>3. CASE j.row.nets = {} /\ task'[t].pc = "add_user_chain" /\ task'[t].op = j.op
    BY <1>4, <2>2, <2>3 DEF RouteAt, OpAt, PlanKnown, SettledPCs
  <2>4. CASE /\ task'[t].pc = "routes" /\ task'[t].op = j.op
             /\ task'[t].add = j.row.nets /\ task'[t].drop = j.drop
    <3>1. Planned(j.row.nets, {})'
      BY <2>2 DEF Planned
    <3> QED
      BY <1>4, <2>1, <2>4, <3>1 DEF RouteAt, OpAt, PlanKnown, SettledPCs
  <2> QED
    BY <1>4, <2>3, <2>4, AddPeerMoves
<1> QED
  BY <1>1, <1>3, <1>4, AddPeerMoves

LEMMA RemovePeerSettled ==
  ASSUME TypeInv, NEW t \in Procs, RemovePeerStep(t), RouteAt(task[t])
  PROVE  RouteAt(task[t])'
<1> PICK j : j = task[t]
  OBVIOUS
<1>1. /\ j.op \in {"delete", "delete_user"} /\ j.row.key \in Devices
      /\ OnTrack({}, j.row.nets \cup NetsOf(j.queue))
  BY TaskType DEF RemovePeerStep, At, RouteAt, OpAt, Held, RowPCs, DeviceRow
<1>2. UNCHANGED <<devices, routes>> /\ SubnetsKeepFaults
  <2>1. faulted' \in {faulted \cup {j.row.key}, faulted \ {j.row.key}}
    BY RemovePeerMoves
  <2>2. SubnetsKeepFaults
    <3>1. {j.row.key} \in SUBSET (Devices \cup Users)
      BY <1>1
    <3>2. \/ faulted' = faulted \ {j.row.key}
          \/ faulted' = faulted \cup {j.row.key}
      BY <2>1
    <3> QED
      BY <3>1, <3>2, SubnetsStay
  <2>3. UNCHANGED <<devices, routes>>
    BY RemovePeerMoves DEF dbVars
  <2> QED
    BY <2>2, <2>3
<1>3. OnTrack({}, j.row.nets \cup NetsOf(j.queue))'
  BY <1>1, <1>2, TrackStays
<1>4. CASE task'[t].pc = "relay_subnets" /\ task'[t].op = j.op
  BY <1>1, <1>4 DEF RouteAt, OpAt, PlanKnown, SettledPCs
<1>5. CASE j.row.nets = {} /\ Onward(task'[t], j)
  <2>1. j.row.nets \cup NetsOf(j.queue) = NetsOf(j.queue)
    BY <1>5
  <2> QED
    BY <1>1, <1>3, <1>5, <2>1, OnwardSettled
<1> QED
  BY <1>4, <1>5, RemovePeerMoves

LEMMA RelaySubnetsSettled ==
  ASSUME TypeInv, NEW t \in Procs, RelaySubnetsStep(t), RouteAt(task[t])
  PROVE  RouteAt(task[t])'
<1>1. task'[t].op \in {"create", "update", "delete", "delete_user"}
  BY RelaySubnetsMoves DEF RelaySubnetsStep, At, RouteAt, OpAt, Alike
<1>2. task'[t].pc = "interface_routes" /\ task'[t].want = RelaySubnets'
  BY RelaySubnetsMoves DEF dbVars, RelaySubnets
<1> QED
  BY <1>1, <1>2 DEF RouteAt, OpAt, PlanKnown, SettledPCs

LEMMA RoutesSettled ==
  ASSUME TypeInv, NEW t \in Procs, RouteAt(task[t]),
         InterfaceRoutes(t) \/ RouteAdd(t) \/ RouteDel(t)
  PROVE  RouteAt(task[t])'
<1>1. PICK j \in Job : RoutesLeft(t, j) /\ Alike(j, task[t]) /\ Planned(j.add, j.drop)'
  BY RoutesStepPlanned DEF RouteAt
<1>2. j.op \in {"create", "update", "delete", "delete_user"}
  BY <1>1 DEF InterfaceRoutes, RouteAdd, RouteDel, At, RouteAt, OpAt, Alike
<1>3. CASE /\ task'[t].pc = "routes" /\ Alike(task'[t], j)
           /\ task'[t].add = j.add /\ task'[t].drop = j.drop
  BY <1>1, <1>2, <1>3 DEF RouteAt, OpAt, PlanKnown, SettledPCs, Alike
<1>4. CASE j.add = {} /\ j.drop = {} /\ Through(task'[t], j)
  <2>1. OnTrack({}, {})'
    BY <1>1, <1>4 DEF Planned
  <2>2. CASE j.op \in {"create", "update"}
    BY <1>4, <2>1, <2>2 DEF Through, Alike, RouteAt, OpAt, PlanKnown, SettledPCs
  <2>3. CASE j.op \in {"delete", "delete_user"}
    <3>1. OnTrack({}, NetsOf(j.queue))'
      BY <2>1 DEF OnTrack
    <3> QED
      BY <1>4, <2>3, <3>1, OnwardSettled DEF Through
  <2> QED
    BY <1>2, <2>2, <2>3
<1> QED
  BY <1>1, <1>3, <1>4, RoutesLeftMoves

LEMMA StepSettled ==
  ASSUME TypeInv, TableInv, NEW t \in Procs, task[t].op # "boot", Step(t), RouteAt(task[t])
  PROVE  RouteAt(task[t])'
BY InsertSettled, RefreshSettled, SaveSettled, DeleteRowSettled, CascadeSettled, AbandonSettled,
   AddPeerSettled, RemovePeerSettled, RelaySubnetsSettled, RoutesSettled, PolicyStepSettled
DEF Step, SharedStep

\* The only way up is through startup.
LEMMA NeverFromDown ==
  ASSUME TypeInv, ControlInv, StartInv, [Next]_allVars, phase \notin {"startup", "up"}
  PROVE  phase' # "up"
<1>0. phase = "down"
  BY DEF StartInv, Quiet, TypeInv, TypeOK, TaskTypeOK
<1>1. \A t \in Tasks : ~Start(t) /\ ~Step(t)
  BY <1>0, StepNotIdle DEF ControlInv, Down, Procs, Start, StartCreate, StartUpdate, StartDelete,
     StartDeleteUser, CreateRule, UpdateRuleFromPage, DeleteRuleRow, ReorderRules, CanStart, Serving
<1>2. ~BootStep /\ ~UpdateRuleFromApi
  BY <1>0, BootAt DEF UpdateRuleFromApi, Serving, BootStep, GetPeers, ReadAllDevices, ReadAllRules,
     AddMissingPeer, RemoveOrphanPeer, SharedStep, InterfaceRoutes, RouteAdd, RouteDel,
     ListChains, NftBatch, At
<1> QED
  BY <1>1, <1>2 DEF Next, TaskStep, Crash, StartupFails, Restart, allVars, vars, taskVars

LEMMA RouteNext ==
  ASSUME OneAtATime, ~ServeWhileStarting, TypeInv, ControlInv, TableInv, StartInv, RouteInv,
         [Next]_allVars
  PROVE  RouteInv'
<1> SUFFICES ASSUME phase' = "up", NEW t \in Tasks, Tasks = {t} PROVE RouteAt(task[t])'
  BY DEF OneAtATime, RouteInv
<1>0. t \in Procs /\ task[t].op # "boot"
  BY DEF ControlInv, Serve, Procs
<1>1. CASE phase = "startup"
  BY <1>1, StartupEnds, SettledIdle DEF AllIdle, At, RouteAt, OpAt, PlanKnown, SettledPCs
<1>2. CASE phase = "up"
  <2>1. RouteAt(task[t])
    BY <1>2 DEF RouteInv
  <2>2. CASE Start(t)
    BY <1>0, <2>1, <2>2, StartSettled
  <2>3. CASE Step(t)
    BY <1>0, <2>1, <2>3, StepSettled
  <2>4. CASE UpdateRuleFromApi \/ UNCHANGED allVars
    <3>1. UNCHANGED <<devices, routes, faulted, task[t]>>
      BY <2>4 DEF UpdateRuleFromApi, UpdateRule, allVars, vars, dbVars, wgVars, taskVars, ghosts
    <3>2. UNCHANGED RelaySubnets /\ \A k : UNCHANGED <<Live(k), RowsOf(k)>>
      BY <3>1 DEF RelaySubnets, Live, RowsOf
    <3> QED
      BY <2>1, <3>1, <3>2 DEF RouteAt, PlanKnown, Planned, OnTrack, OpAt
  <2>5. ~Crash /\ ~StartupFails /\ ~Restart /\ ~BootStep
    BY <1>2, BootAt DEF Crash, StartupFails, Restart, BootStep, GetPeers, ReadAllDevices, ReadAllRules,
         AddMissingPeer, RemoveOrphanPeer, SharedStep, InterfaceRoutes, RouteAdd, RouteDel,
         ListChains, NftBatch, At
  <2> QED
    BY <2>2, <2>3, <2>4, <2>5 DEF Next, TaskStep
<1>3. CASE phase \notin {"startup", "up"}
  BY <1>3, NeverFromDown
<1> QED
  BY <1>1, <1>2, <1>3 DEF TypeInv, TypeOK, TaskTypeOK

\* When operations come one at a time, the relay routes between two of them are
\* those of the devices in the database, except where a command failed or the
\* routes could not be listed: whatever was created, edited or deleted before, and
\* wherever the process died (add_routes, sync_routes, _reconcile_routes).
THEOREM RoutesFollow ==
  ASSUME OneAtATime, ~ServeWhileStarting
  PROVE  Spec => []RoutesFollowDatabase
<1>1. Init => TypeInv /\ ControlInv /\ PeerInv /\ TableInv /\ NftInv /\ StartInv /\ RouteInv
  BY TypeInit, ControlInit, PeerInit, TableInit, NftInit, StartInit DEF Init, RouteInv
<1>2. TypeInv /\ ControlInv /\ PeerInv /\ TableInv /\ NftInv /\ StartInv /\ RouteInv
        /\ [Next]_allVars
      => (TypeInv /\ ControlInv /\ PeerInv /\ TableInv /\ NftInv /\ StartInv /\ RouteInv)'
  BY TypeNext, ControlNext, PeerNext, TableNext, NftNext, StartNext, RouteNext
<1>3. RouteInv => RoutesFollowDatabase
  BY DEF OneAtATime, RouteInv, RoutesFollowDatabase, AllIdle, At, RouteAt, SettledPCs, OnTrack
<1> QED
  BY <1>1, <1>2, <1>3, PTL DEF Spec
-----------------------------------------------------------------------------
(* Whatever overlaps: who holds the row of which device *)

SyncPCs == {"relay_subnets", "interface_routes", "routes"}

\* Where a task holds the row of a device that it creates or edits.
HoldPCs     == {"save", "refresh", "add_peer", "add_user_chain", "add_jumps"} \cup SyncPCs
HoldsRow(j) == j.op \in {"create", "update"} /\ j.pc \in HoldPCs

\* The device, while it exists, is that owner's; a rebuild is of one user's chain.
HolderAt(j) ==
  /\ j.pc = "insert" => j.op = "create"
  /\ j.pc = "save" => j.op = "update"
  /\ j.pc \in {"delete_row", "cascade", "remove_peer"} => j.op \notin {"create", "update"}
  /\ j.pc \in {"add_user_chain", "add_jumps"} => j.op # "update"
  /\ HoldsRow(j) => /\ j.row.key \in born
                    /\ \A q \in devices : q.key = j.row.key => q.owner = j.row.owner
  /\ j.pc \in {"read_devices", "list_chains", "nft_batch"} => j.entries = {j.user}

\* Nobody holds the row of a device that is yet to be inserted.
Unshared == \A s, t \in Tasks : At(s, "insert") /\ HoldsRow(task[t]) =>
                                  task[s].row.key # task[t].row.key

HolderInv == Unshared /\ \A t \in Tasks : HolderAt(task[t])

\* A step that takes up no row but the one it held.
LEMMA HolderKept ==
  ASSUME HolderInv, NEW t \in Tasks, Alone(t), Shrinks, UNCHANGED born,
         task'[t].pc \notin {"insert", "save"},
         task'[t].pc \in {"delete_row", "cascade", "remove_peer"} =>
           task'[t].op \notin {"create", "update"},
         task'[t].pc \in {"add_user_chain", "add_jumps"} => task'[t].op # "update",
         task'[t].pc \in {"read_devices", "list_chains", "nft_batch"} =>
           task'[t].entries = {task'[t].user},
         HoldsRow(task'[t]) =>
           HoldsRow(task[t]) /\ task'[t].row.key = task[t].row.key
                             /\ task'[t].row.owner = task[t].row.owner
  PROVE  HolderInv'
<1>1. \A s \in Tasks \ {t} : task'[s] = task[s]
  BY DEF Alone, Procs
<1>2. ASSUME NEW j, HolderAt(j), HoldsRow(j)
      PROVE  \A q \in devices' : q.key = j.row.key => q.owner = j.row.owner
  BY <1>2 DEF HolderAt, Shrinks
<1>3. \A s \in Tasks \ {t} : HolderAt(task[s])'
  BY <1>1, <1>2 DEF HolderInv, HolderAt, HoldsRow
<1>4. HolderAt(task[t])'
  BY <1>2 DEF HolderInv, HolderAt, HoldsRow
<1>5. Unshared'
  BY <1>1 DEF HolderInv, Unshared, At
<1> QED
  BY <1>3, <1>4, <1>5 DEF HolderInv

LEMMA ShrinksSame ==
  ASSUME UNCHANGED devices
  PROVE  Shrinks
BY DEF Shrinks

\* A new key is held by nobody; the row to edit is the table's.
LEMMA StartHolder ==
  ASSUME TypeInv, PeerInv, TableInv, HolderInv, NEW t \in Tasks, Start(t)
  PROVE  HolderInv'
<1>0. t \in Procs /\ UNCHANGED devices
  BY StartMoves, StartRuleMoves DEF Start, Procs
<1>1. CASE StartCreate(t)
  <2>1. PICK k \in Devices \ born :
          \E r : /\ r.key = k /\ born' = born \cup {k}
                 /\ Become(t, [Idle EXCEPT !.pc = "insert", !.op = "create", !.row = r])
    BY <1>1 DEF StartCreate
  <2> PICK r : /\ r.key = k /\ born' = born \cup {k}
               /\ Become(t, [Idle EXCEPT !.pc = "insert", !.op = "create", !.row = r])
    BY <2>1
  <2> DEFINE j == [Idle EXCEPT !.pc = "insert", !.op = "create", !.row = r]
  <2>2. j.pc = "insert" /\ j.op = "create" /\ j.row = r
    BY DEF Idle
  <2>3. task'[t] = j /\ Alone(t)
    BY <1>0, <2>1, BecomeMoves
  <2> HIDE DEF j
  <2>4. \A s \in Tasks \ {t} : task'[s] = task[s]
    BY <2>3 DEF Alone, Procs
  <2>5. ~HoldsRow(task'[t]) /\ HolderAt(task[t])'
    BY <2>2, <2>3 DEF HoldsRow, HoldPCs, SyncPCs, HolderAt
  <2>6. \A s \in Tasks \ {t} : HolderAt(task[s])' /\ (HoldsRow(task[s]) => task[s].row.key # k)
    BY <1>0, <2>1, <2>4 DEF HolderInv, HolderAt, HoldsRow
  <2>7. Unshared'
    BY <2>1, <2>2, <2>3, <2>4, <2>5, <2>6 DEF HolderInv, Unshared, At
  <2> QED
    BY <2>5, <2>6, <2>7 DEF HolderInv
<1>2. CASE StartUpdate(t)
  <2>1. PICK r \in devices :
          \E n : Become(t, [Idle EXCEPT !.pc = "save", !.op = "update", !.row = r, !.want = n])
    BY <1>2 DEF StartUpdate
  <2> PICK n : Become(t, [Idle EXCEPT !.pc = "save", !.op = "update", !.row = r, !.want = n])
    BY <2>1
  <2> DEFINE j == [Idle EXCEPT !.pc = "save", !.op = "update", !.row = r, !.want = n]
  <2>2. j.pc = "save" /\ j.op = "update" /\ j.row = r
    BY DEF Idle
  <2>3. task'[t] = j /\ Alone(t)
    BY <1>0, <2>1, BecomeMoves
  <2> HIDE DEF j
  <2>4. (\A s \in Tasks \ {t} : task'[s] = task[s]) /\ UNCHANGED born
    BY <1>2, <2>3 DEF Alone, Procs, StartUpdate, dbVars
  <2>5. r.key \in Devices /\ Live(r.key)
    BY DEF Live, TypeInv, TypeOK, DbTypeOK, DeviceRow
  <2>6. r.key \in born /\ \A s \in Tasks : At(s, "insert") => task[s].row.key # r.key
    BY <2>5 DEF PeerInv, BornInv, Known, Inserts, At
  <2>7. HolderAt(task[t])'
    BY <1>0, <2>2, <2>3, <2>4, <2>6 DEF HolderAt, TableInv, KeyInv
  <2>8. \A s \in Tasks \ {t} : HolderAt(task[s])'
    BY <1>0, <2>4 DEF HolderInv, HolderAt, HoldsRow
  <2>9. Unshared'
    BY <2>2, <2>3, <2>4, <2>6 DEF HolderInv, Unshared, At
  <2> QED
    BY <2>7, <2>8, <2>9 DEF HolderInv
<1>3. CASE ~StartCreate(t) /\ ~StartUpdate(t)
  <2>1. UNCHANGED born
    BY <1>3 DEF Start, StartDelete, StartDeleteUser, CreateRule, UpdateRuleFromPage,
         DeleteRuleRow, ReorderRules, dbVars, InsertRule, UpdateRule, DeleteRule
  <2>2. CASE UNCHANGED task
    BY <1>0, <2>1, <2>2 DEF HolderInv, HolderAt, HoldsRow, Unshared, At
  <2>3. CASE Alone(t) /\ task'[t].pc \notin BatchPCs
    <3>1. ASSUME StartDelete(t) PROVE task'[t].pc = "delete_row" /\ task'[t].op = "delete"
      <4>1. PICK r : Become(t, [Idle EXCEPT !.pc = "delete_row", !.op = "delete", !.row = r])
        BY <3>1 DEF StartDelete
      <4> DEFINE j == [Idle EXCEPT !.pc = "delete_row", !.op = "delete", !.row = r]
      <4>2. j.pc = "delete_row" /\ j.op = "delete"
        BY DEF Idle
      <4> HIDE DEF j
      <4> QED
        BY <1>0, <4>1, <4>2, BecomeMoves DEF j
    <3>2. ASSUME StartDeleteUser(t) PROVE task'[t].pc = "cascade" /\ task'[t].op = "delete_user"
      <4>1. PICK u, q : Become(t, [Idle EXCEPT !.pc = "cascade", !.op = "delete_user", !.user = u,
                                               !.queue = q])
        BY <3>2 DEF StartDeleteUser
      <4> DEFINE j == [Idle EXCEPT !.pc = "cascade", !.op = "delete_user", !.user = u, !.queue = q]
      <4>2. j.pc = "cascade" /\ j.op = "delete_user"
        BY DEF Idle
      <4> HIDE DEF j
      <4> QED
        BY <1>0, <4>1, <4>2, BecomeMoves DEF j
    <3>3. \/ task'[t].pc \in {"refresh_rule", "read_rules", "idle"}
          \/ task'[t].pc \in {"delete_row", "cascade"} /\ task'[t].op \in {"delete", "delete_user"}
      BY <1>0, <1>3, <3>1, <3>2, StartRuleMoves DEF Start, BeginsRule
    <3> QED
      BY <1>0, <2>1, <2>3, <3>3, HolderKept, ShrinksSame DEF HoldsRow, HoldPCs, SyncPCs
  <2> QED
    BY <1>0, <2>2, <2>3, StartAway
<1> QED
  BY <1>1, <1>2, <1>3

LEMMA InsertHolder ==
  ASSUME TypeInv, PeerInv, TableInv, HolderInv, NEW t \in Tasks, Alone(t), Insert(t)
  PROVE  HolderInv'
<1> DEFINE row == task[t].row
<1>0. t \in Procs /\ task[t].pc = "insert" /\ task[t].op = "create"
  BY DEF Insert, At, Procs, HolderInv, HolderAt
<1>1. CASE UNCHANGED dbVars /\ task'[t] = Idle
  BY <1>1, HolderKept, ShrinksSame DEF dbVars, Idle, HoldsRow
<1>2. CASE InsertDevice(row) /\ task'[t].pc = "refresh" /\ Alike(task'[t], task[t])
  <2>1. \A s \in Tasks \ {t} : task'[s] = task[s]
    BY DEF Alone, Procs
  <2>2. row.key \in Inserts(task[t])
    BY <1>0 DEF Inserts
  <2>3. /\ row.key \in born /\ ~Live(row.key)
        /\ \A s \in Tasks \ {t} : At(s, "insert") => task[s].row.key # row.key
    BY <2>2 DEF PeerInv, BornInv, Known, Inserts, At
  <2>4. devices' = devices \cup {row} /\ UNCHANGED born
    BY <1>2 DEF InsertDevice
  <2>5. \A s \in Tasks \ {t} : HoldsRow(task[s]) => task[s].row.key # row.key
    BY <1>0 DEF HolderInv, Unshared, At
  <2>6. task'[t].row = row /\ task'[t].op = "create" /\ task'[t].pc = "refresh"
    BY <1>0, <1>2 DEF Alike
  <2>7. \A q \in devices : q.key # row.key
    BY <2>3 DEF Live
  <2>8. HolderAt(task[t])'
    BY <2>3, <2>4, <2>6, <2>7 DEF HolderAt
  <2>9. \A s \in Tasks \ {t} : HolderAt(task[s])'
    BY <2>1, <2>4, <2>5 DEF HolderInv, HolderAt, HoldsRow
  <2>10. Unshared'
    BY <2>1, <2>3, <2>6 DEF HolderInv, Unshared, At
  <2> QED
    BY <2>8, <2>9, <2>10 DEF HolderInv
<1> QED
  BY <1>0, <1>1, <1>2, InsertMoves

\* What a task at its routes goes on with: the row it held, or another device's.
LEMMA SyncOnward ==
  ASSUME TypeInv, NEW t \in Procs, task[t].op # "boot",
         InterfaceRoutes(t) \/ RouteAdd(t) \/ RouteDel(t)
  PROVE  /\ UNCHANGED <<dbVars, nftVars, contended, lagging>>
         /\ \A u \in Users : u \in faulted' <=> u \in faulted
         /\ task[t].pc \in SyncPCs
         /\ \/ /\ task'[t].pc \in {"routes", "add_user_chain"} /\ Alike(task'[t], task[t])
               /\ task'[t].pc = "add_user_chain" => task[t].op = "create"
            \/ /\ task'[t].pc = "read_rules" /\ task[t].op = "update"
               /\ task'[t].user = task[t].row.owner
            \/ /\ task'[t].pc \in {"remove_peer", "idle"} /\ task[t].op \notin {"create", "update"}
               /\ task'[t].op \in {task[t].op, "none"}
<1>1. UNCHANGED <<dbVars, nftVars, contended, lagging>> /\ task[t].pc \in SyncPCs
  BY DEF InterfaceRoutes, RouteAdd, RouteDel, At, SyncPCs
<1>2. TunnelNet \notin Subnets /\ Subnets \cap Users = {}
      /\ routes \subseteq Subnets \cup {TunnelNet}
  BY WireGuardAssumption, DatabaseAssumption DEF TypeInv, TypeOK, WgTypeOK
<1>3. \E j \in Job : /\ RoutesLeft(t, j) /\ Alike(j, task[t])
                     /\ \A u \in Users : u \in faulted' <=> u \in faulted
  <2>1. CASE InterfaceRoutes(t)
    <3>1. PICK j \in Job, missed \in SUBSET routes :
            /\ RoutesLeft(t, j) /\ Alike(j, task[t])
            /\ faulted' = faulted \cup ((missed \ task[t].want) \ {TunnelNet})
      BY <2>1, InterfaceRoutesMoves
    <3>2. \A u \in Users : u \in faulted' <=> u \in faulted
      BY <1>2, <3>1
    <3> QED
      BY <3>1, <3>2
  <2>2. CASE RouteAdd(t)
    <3>1. PICK s \in task[t].add, j \in Job :
            /\ RoutesLeft(t, j) /\ Alike(j, task[t])
            /\ faulted' \in {faulted \ {s}, faulted \cup {s}}
      BY <2>2, RouteAddMoves
    <3>2. s \in Subnets
      BY TaskType DEF Job
    <3> QED
      BY <1>2, <3>1, <3>2
  <2>3. CASE RouteDel(t)
    <3>1. PICK s \in task[t].drop, j \in Job :
            /\ RoutesLeft(t, j) /\ Alike(j, task[t])
            /\ faulted' \in {faulted \ {s}, faulted \cup {s}}
      BY <2>3, RouteDelMoves
    <3>2. s \in Subnets
      BY TaskType DEF Job
    <3> QED
      BY <1>2, <3>1, <3>2
  <2> QED
    BY <2>1, <2>2, <2>3
<1>4. PICK j \in Job : /\ RoutesLeft(t, j) /\ Alike(j, task[t])
                       /\ \A u \in Users : u \in faulted' <=> u \in faulted
  BY <1>3
<1>5. Through(task'[t], j) \/ (task'[t].pc = "routes" /\ Alike(task'[t], j))
  BY <1>4, RoutesLeftMoves
<1> QED
  BY <1>1, <1>4, <1>5 DEF Through, Onward, Alike, Idle

\* Where a task goes with the row it holds.
LEMMA StepHolder ==
  ASSUME TypeInv, ControlInv, PeerInv, TableInv, NftInv, HolderInv, NEW t \in Tasks, Alone(t), Step(t)
  PROVE  HolderInv'
<1>0. t \in Procs /\ task[t].op # "boot" /\ HolderAt(task[t])
  BY DEF Procs, ControlInv, Serve, HolderInv
<1>1. ASSUME UNCHANGED born, Shrinks, task'[t].pc \notin BatchPCs \cup {"insert", "save"},
             task'[t].pc \in {"delete_row", "cascade", "remove_peer"} =>
               task'[t].op \notin {"create", "update"},
             task'[t].pc \in {"add_user_chain", "add_jumps"} => task'[t].op # "update",
             HoldsRow(task'[t]) =>
               HoldsRow(task[t]) /\ task'[t].row.key = task[t].row.key
                                 /\ task'[t].row.owner = task[t].row.owner
      PROVE  HolderInv'
  BY <1>1, HolderKept DEF BatchPCs, JumpPCs
<1>2. CASE Save(t)
  <2>1. UNCHANGED born
    BY <1>2 DEF Save, dbVars, UpdateNets
  <2>2. Shrinks /\ (task'[t] = Idle \/ (task'[t].pc = "refresh" /\ Alike(task'[t], task[t])))
    BY <1>0, <1>2, SaveMoves, ShrinksSame DEF dbVars
  <2>3. HoldsRow(task[t])
    BY <1>0, <1>2 DEF HolderAt, HoldsRow, HoldPCs, Save, At
  <2> QED
    BY <1>1, <2>1, <2>2, <2>3 DEF Alike, Idle, HoldsRow, BatchPCs, JumpPCs
<1>3. CASE DeleteRow(t)
  <2>1. /\ UNCHANGED born /\ Shrinks /\ task'[t].pc = "remove_peer"
        /\ task'[t].op = task[t].op /\ task[t].pc = "delete_row"
    BY <1>0, <1>3, DeleteRowMoves DEF DeleteDevice, Shrinks, Alike, DeleteRow, At
  <2> QED
    BY <1>0, <1>1, <2>1 DEF HolderAt, HoldsRow, HoldPCs, SyncPCs, BatchPCs, JumpPCs
<1>4. CASE Cascade(t)
  <2>1. /\ UNCHANGED born /\ Shrinks /\ task'[t].pc \in {"remove_peer", "idle"}
        /\ task'[t].op \in {task[t].op, "none"} /\ task[t].pc = "cascade"
    BY <1>0, <1>4, CascadeMoves DEF DeleteUser, Shrinks, Onward, Idle, Cascade, At
  <2> QED
    BY <1>0, <1>1, <2>1 DEF HolderAt, HoldsRow, HoldPCs, SyncPCs, BatchPCs, JumpPCs
<1>5. CASE ~Insert(t) /\ ~Save(t) /\ ~DeleteRow(t) /\ ~Cascade(t)
  <2>0. UNCHANGED born /\ Shrinks
    BY <1>5, CommitsNothing, ShrinksSame DEF Step, dbVars
  <2>1. CASE Refresh(t)
    <3>1. task[t].pc = "refresh"
      BY <2>1 DEF Refresh, At
    <3>2. CASE task'[t] = Idle
      BY <1>1, <2>0, <3>2 DEF Idle, HoldsRow, BatchPCs, JumpPCs
    <3>3. CASE /\ task'[t].pc = "add_peer" /\ task'[t].op = task[t].op
               /\ task'[t].row \in devices /\ task'[t].row.key = task[t].row.key
      <4>1. HoldsRow(task'[t]) => HoldsRow(task[t])
        BY <3>1, <3>3 DEF HoldsRow, HoldPCs
      <4>2. HoldsRow(task[t]) => task'[t].row.owner = task[t].row.owner
        BY <1>0, <3>3 DEF HolderAt
      <4> QED
        BY <1>1, <2>0, <3>3, <4>1, <4>2 DEF BatchPCs, JumpPCs
    <3> QED
      BY <1>0, <2>1, <3>2, <3>3, RefreshMoves
  <2>2. CASE AbandonCreate(t) \/ AddJumpsStep(t) \/ NftBatch(t)
    <3>1. task'[t] = Idle
      BY <1>0, <2>2, AbandonMoves, AddJumpsMoves, NftBatchMoves
    <3> QED
      BY <1>1, <2>0, <3>1 DEF Idle, HoldsRow, BatchPCs, JumpPCs
  <2>3. CASE AddPeerStep(t)
    <3>1. /\ task[t].pc = "add_peer" /\ task'[t].op = task[t].op /\ task'[t].row = task[t].row
          /\ task'[t].pc \in {"relay_subnets", "add_user_chain", "routes"}
          /\ task'[t].pc = "add_user_chain" => task'[t].op # "update"
      BY <1>0, <2>3, AddPeerMoves DEF AddPeerStep, At
    <3> QED
      BY <1>1, <2>0, <3>1 DEF HoldsRow, HoldPCs, BatchPCs, JumpPCs
  <2>4. CASE AddUserChainStep(t)
    <3>1. /\ task[t].pc = "add_user_chain"
          /\ task'[t] = Idle \/ (task'[t].pc = "add_jumps" /\ Alike(task'[t], task[t]))
      BY <1>0, <2>4, AddUserChainMoves DEF AddUserChainStep, At
    <3> QED
      BY <1>0, <1>1, <2>0, <3>1 DEF HolderAt, Idle, Alike, HoldsRow, HoldPCs, BatchPCs, JumpPCs
  <2>5. CASE RemovePeerStep(t)
    <3>1. /\ task[t].pc = "remove_peer"
          /\ \/ task'[t].pc = "relay_subnets" /\ task'[t].op = task[t].op
             \/ task'[t].pc \in {"remove_peer", "idle"} /\ task'[t].op \in {task[t].op, "none"}
      BY <1>0, <2>5, RemovePeerMoves DEF RemovePeerStep, At, Onward, Idle
    <3>2. task[t].op \notin {"create", "update"}
      BY <1>0, <3>1 DEF HolderAt
    <3> QED
      BY <1>1, <2>0, <3>1, <3>2 DEF HoldsRow, HoldPCs, SyncPCs, BatchPCs, JumpPCs
  <2>6. CASE RelaySubnetsStep(t)
    <3>1. /\ task[t].pc = "relay_subnets" /\ task'[t].pc = "interface_routes"
          /\ Alike(task'[t], task[t])
      BY <1>0, <2>6, RelaySubnetsMoves DEF RelaySubnetsStep, At
    <3> QED
      BY <1>1, <2>0, <3>1 DEF Alike, HoldsRow, HoldPCs, SyncPCs, BatchPCs, JumpPCs
  <2>7. CASE InterfaceRoutes(t) \/ RouteAdd(t) \/ RouteDel(t)
    <3>1. HoldsRow(task'[t]) => HoldsRow(task[t]) /\ Alike(task'[t], task[t])
      BY <1>0, <2>7, SyncOnward DEF Alike, HoldsRow, HoldPCs, SyncPCs
    <3>2. /\ task'[t].pc \notin BatchPCs \cup {"insert", "save", "delete_row", "cascade"}
          /\ task'[t].pc = "remove_peer" => task'[t].op \notin {"create", "update"}
          /\ task'[t].pc \in {"add_user_chain", "add_jumps"} => task'[t].op # "update"
      BY <1>0, <2>7, SyncOnward DEF Alike, BatchPCs, JumpPCs
    <3> QED
      BY <1>1, <2>0, <3>1, <3>2 DEF Alike
  <2>8. CASE RefreshRule(t)
    <3>1. task'[t].pc \in {"read_rules", "idle"}
      BY <1>0, <2>8, RefreshRuleMoves DEF Idle
    <3> QED
      BY <1>1, <2>0, <3>1 DEF HoldsRow, HoldPCs, SyncPCs, BatchPCs, JumpPCs
  <2>9. CASE ReadRules(t) \/ ReadDevices(t) \/ ListChains(t)
    <3>1. /\ task'[t].pc \in {"read_devices", "list_chains", "nft_batch"}
          /\ task'[t].entries = {task'[t].user}
      BY <1>0, <2>9, ReadRulesMoves, ReadDevicesMoves, ListChainsMoves
      DEF HolderAt, Alike, ReadDevices, ListChains, At
    <3> QED
      BY <2>0, <3>1, HolderKept DEF HoldsRow, HoldPCs, SyncPCs
  <2> QED
    BY <1>0, <2>1, <2>2, <2>3, <2>4, <2>5, <2>6, <2>7, <2>8, <2>9, <1>5 DEF Step, SharedStep
<1> QED
  BY <1>2, <1>3, <1>4, <1>5, InsertHolder

LEMMA HolderInit == Init => HolderInv
BY DEF Init, HolderInv, HolderAt, Unshared, Idle, HoldsRow, Procs, At

LEMMA HolderNext ==
  TypeInv /\ ControlInv /\ PeerInv /\ TableInv /\ NftInv /\ HolderInv /\ [Next]_allVars => HolderInv'
<1> SUFFICES ASSUME TypeInv, ControlInv, PeerInv, TableInv, NftInv, HolderInv, [Next]_allVars
             PROVE  HolderInv'
  OBVIOUS
<1>1. ASSUME NEW t \in Tasks, Step(t) PROVE HolderInv'
  BY <1>1, StepAlone, StepHolder DEF Procs
<1>2. ASSUME UNCHANGED <<devices, born>>, \A t \in Tasks : task'[t] = task[t]
      PROVE  HolderInv'
  BY <1>2 DEF HolderInv, HolderAt, Unshared, HoldsRow, At
<1>3. CASE UpdateRuleFromApi \/ StartupFails \/ Restart \/ UNCHANGED allVars
  <2>1. UNCHANGED <<devices, born>>
    BY <1>3 DEF UpdateRuleFromApi, UpdateRule, StartupFails, Restart, allVars, vars, dbVars
  <2>2. UNCHANGED task \/ (Alone(Boot) /\ Restart)
    BY <1>3, BootType, BecomeMoves
    DEF UpdateRuleFromApi, StartupFails, Restart, Become, allVars, vars, taskVars
  <2> QED
    BY <1>2, <2>1, <2>2, EventBridgeAssumption DEF Alone, Procs
<1>4. CASE BootStep
  <2>1. Alone(Boot) /\ UNCHANGED dbVars
    BY <1>4, BootReads, GetPeersMoves, ReadAllDevicesMoves, ReadAllRulesMoves, PeerCommandsMove,
       BootSharedQuietly DEF BootStep
  <2> QED
    BY <1>2, <2>1, EventBridgeAssumption DEF Alone, Procs, dbVars
<1>5. CASE Crash
  <2>1. \A t \in Tasks : task'[t] = Idle
    BY <1>5 DEF Crash, Procs
  <2> QED
    BY <2>1 DEF HolderInv, HolderAt, Unshared, Idle, HoldsRow, At
<1> QED
  BY <1>1, <1>3, <1>4, <1>5, StartHolder DEF Next, TaskStep

-----------------------------------------------------------------------------
(* Whatever overlaps: chains and jumps follow the database *)

\* A task is about to write the chain of u, or the jumps of a device.
RulesDueBy(j, u) ==
  \/ j.pc \in RebuildPCs /\ j.user = u
  \/ j.pc = "refresh_rule" /\ \E r \in RulesOf(u) : r.id = j.rule
JumpsDueBy(j, r) ==
  \/ j.pc \in RebuildPCs /\ j.user = r.owner
  \/ /\ HoldsRow(j) /\ j.pc # "save" /\ j.row.key = r.key
     /\ j.op = "update" \/ j.pc = "refresh" \/ j.row = r
RulesDue(u) == \E t \in Tasks : RulesDueBy(task[t], u)
JumpsDue(r) == \E t \in Tasks : JumpsDueBy(task[t], r)
Rebuilding(u) == \E t \in Tasks : Rebuilds(t, u)

Jumped(r) == r.owner \in chains /\ JumpsFor({r}) \subseteq forward

\* The users nobody has left behind.
Tracked == users \ (faulted \cup lagging)

RulesKept == \A u \in Tracked : RulesDue(u) \/ body[u] = Ordered(RulesOf(u))
JumpsKept == \A r \in devices : r.owner \in Tracked => JumpsDue(r) \/ Jumped(r)

\* A rebuild that nothing has overtaken has read what is there.
ReadAt(j) ==
  j.user \in users \ lagging =>
    /\ j.pc \in {"read_devices", "list_chains", "nft_batch"} =>
         j.bodies[j.user] = Ordered(RulesOf(j.user))
    /\ j.pc \in {"list_chains", "nft_batch"} => JumpsFor(RowsOf(j.user)) \subseteq j.jumps

\* The chain that a new device's jumps will lead to is there, or comes back.
ChainAt(j) ==
  HoldsRow(j) /\ j.pc = "add_jumps" /\ Live(j.row.key) /\ j.row.owner \in Tracked =>
    j.row.owner \in chains \/ Rebuilding(j.row.owner)

Policy    == RulesKept /\ JumpsKept /\ \A t \in Tasks : ReadAt(task[t]) /\ ChainAt(task[t])
PolicyInv == phase = "up" => Policy

\* A step that changes neither rules nor rows, and takes nothing back, of a task
\* that goes on with what it has to write, or has written it.
LEMMA PolicyKept ==
  ASSUME TypeInv, Policy, NEW t \in Tasks, Alone(t),
         users' \subseteq users, devices' \subseteq devices, \A u \in users' : UNCHANGED RulesOf(u),
         chains \subseteq chains', forward \subseteq forward', UNCHANGED body,
         \A u \in Users : u \in faulted => u \in faulted', lagging \subseteq lagging',
         \A u \in Tracked' : RulesDueBy(task[t], u) => RulesDue(u)',
         \A r \in devices' : r.owner \in Tracked' /\ JumpsDueBy(task[t], r) =>
                               JumpsDue(r)' \/ Jumped(r)',
         \A u : Rebuilds(t, u) => Rebuilds(t, u)',
         ReadAt(task[t])', ChainAt(task[t])'
  PROVE  Policy'
<1>1. \A s \in Tasks \ {t} : task'[s] = task[s]
  BY DEF Alone, Procs
<1>2. Tracked' \subseteq Tracked /\ Tracked \subseteq Users
  BY DEF Tracked, TypeInv, TypeOK, DbTypeOK
<1>3. \A u : Rebuilding(u) => Rebuilding(u)'
  BY <1>1 DEF Rebuilding, Rebuilds
<1>4. RulesKept'
  <2> SUFFICES ASSUME NEW u \in Tracked', ~RulesDue(u)' PROVE body'[u] = Ordered(RulesOf(u)')
    BY DEF RulesKept
  <2>1. UNCHANGED RulesOf(u)
    BY DEF Tracked
  <2>2. ~RulesDue(u)
    BY <1>1, <2>1 DEF RulesDue, RulesDueBy
  <2> QED
    BY <1>2, <2>1, <2>2 DEF Policy, RulesKept
<1>5. JumpsKept'
  <2> SUFFICES ASSUME NEW r \in devices', r.owner \in Tracked', ~JumpsDue(r)' PROVE Jumped(r)'
    BY DEF JumpsKept
  <2>1. CASE JumpsDue(r)
    BY <1>1, <2>1 DEF JumpsDue, JumpsDueBy
  <2>2. CASE ~JumpsDue(r)
    BY <1>2, <2>2 DEF Policy, JumpsKept, Jumped
  <2> QED
    BY <2>1, <2>2
<1>6. ASSUME NEW s \in Tasks, s # t PROVE ReadAt(task[s])' /\ ChainAt(task[s])'
  <2>1. ReadAt(task[s]) /\ ChainAt(task[s]) /\ task'[s] = task[s]
    BY <1>1, <1>6 DEF Policy
  <2>2. ReadAt(task[s])'
    <3> SUFFICES ASSUME NEW u \in users', u \notin lagging', task[s].user = u
                 PROVE  ReadAt(task[s])'
      BY <2>1 DEF ReadAt
    <3>1. UNCHANGED RulesOf(u)
      OBVIOUS
    <3>2. JumpsFor(RowsOf(u))' \subseteq JumpsFor(RowsOf(u))
      BY DEF JumpsFor, RowsOf
    <3> QED
      BY <2>1, <3>1, <3>2 DEF ReadAt
  <2>3. ChainAt(task[s])'
    BY <1>2, <1>3, <2>1 DEF ChainAt, Live
  <2> QED
    BY <2>2, <2>3
<1> QED
  BY <1>4, <1>5, <1>6 DEF Policy

\* A task that rebuilds no chain, and will not before it has read the rules.
LEMMA PolicyCalm ==
  ASSUME TypeInv, Policy, NEW t \in Tasks, Alone(t),
         users' \subseteq users, devices' \subseteq devices, \A u \in users' : UNCHANGED RulesOf(u),
         chains \subseteq chains', forward \subseteq forward', UNCHANGED body,
         \A u \in Users : u \in faulted => u \in faulted', lagging \subseteq lagging',
         task[t].pc \notin RebuildPCs \cup {"refresh_rule"},
         task'[t].pc \notin BatchPCs,
         task'[t].pc = "add_jumps" => task'[t].row.owner \in chains',
         \A r \in devices' : r.owner \in Tracked' /\ JumpsDueBy(task[t], r) =>
                               JumpsDue(r)' \/ Jumped(r)'
  PROVE  Policy'
<1>1. \A u \in Tracked' : ~RulesDueBy(task[t], u)
  BY DEF RulesDueBy
<1>2. \A u : ~Rebuilds(t, u)
  BY DEF Rebuilds
<1>3. ReadAt(task[t])' /\ ChainAt(task[t])'
  BY DEF ReadAt, ChainAt, BatchPCs, JumpPCs
<1> QED
  BY <1>1, <1>2, <1>3, PolicyKept

\* A commit of one device, whose key only the committing task handles; it goes on
\* to write the device's jumps.
LEMMA PolicyCommit ==
  ASSUME TypeInv, Policy, NEW t \in Tasks, Alone(t), NEW k, NEW o \in Users,
         UNCHANGED <<users, rules, nftVars, faulted>>, Changes({o}, {o}),
         \A q \in devices' : q \in devices \/ (q.key = k /\ q.owner = o),
         \A s \in Tasks \ {t} : HoldsRow(task[s]) /\ task[s].row.key = k => Live(k),
         task[t].pc \in {"insert", "save"},
         task'[t].pc = "refresh", HoldsRow(task'[t]), task'[t].row.key = k
  PROVE  Policy'
<1>1. \A s \in Tasks \ {t} : task'[s] = task[s]
  BY DEF Alone, Procs
<1>2. o # Global
  BY DatabaseAssumption
<1>3. lagging \subseteq lagging' /\ (o \notin lagging' => \A s \in Tasks : ~HasReadFor(s, o))
  BY <1>2 DEF Changes
<1>4. Tracked' \subseteq Tracked /\ UNCHANGED body /\ UNCHANGED chains /\ UNCHANGED forward
  BY <1>3 DEF Tracked, nftVars
<1>5. \A u : UNCHANGED RulesOf(u)
  BY DEF RulesOf
<1>6. \A u : Rebuilding(u) => Rebuilding(u)'
  BY <1>1 DEF Rebuilding, Rebuilds, RebuildPCs
<1>7. RulesKept'
  <2> SUFFICES ASSUME NEW u \in Tracked', ~RulesDue(u)' PROVE body'[u] = Ordered(RulesOf(u)')
    BY DEF RulesKept
  <2>1. ~RulesDue(u)
    BY <1>1, <1>5 DEF RulesDue, RulesDueBy, RebuildPCs
  <2> QED
    BY <1>4, <1>5, <2>1 DEF Policy, RulesKept
<1>8. JumpsKept'
  <2> SUFFICES ASSUME NEW r \in devices', r.owner \in Tracked', ~JumpsDue(r)' PROVE Jumped(r)'
    BY DEF JumpsKept
  <2>1. r.key # k
    BY DEF JumpsDue, JumpsDueBy
  <2>2. r \in devices /\ ~JumpsDue(r)
    BY <1>1, <2>1 DEF JumpsDue, JumpsDueBy, RebuildPCs, HoldsRow, HoldPCs, SyncPCs
  <2> QED
    BY <1>4, <2>2 DEF Policy, JumpsKept, Jumped
<1>9. ASSUME NEW s \in Tasks, s # t PROVE ReadAt(task[s])' /\ ChainAt(task[s])'
  <2>1. ReadAt(task[s]) /\ ChainAt(task[s]) /\ task'[s] = task[s]
    BY <1>1, <1>9 DEF Policy
  <2>2. ReadAt(task[s])'
    <3> SUFFICES ASSUME NEW u \in users', u \notin lagging', task[s].user = u,
                        task[s].pc \in {"read_devices", "list_chains", "nft_batch"}
                 PROVE  ReadAt(task[s])'
      BY <2>1 DEF ReadAt
    <3>1. HasReadFor(s, u)
      BY DEF HasReadFor, Rebuilds, RebuildPCs, At
    <3>2. u # o
      BY <1>3, <3>1
    <3>3. RowsOf(u)' \subseteq RowsOf(u)
      BY <3>2 DEF RowsOf
    <3>4. JumpsFor(RowsOf(u))' \subseteq JumpsFor(RowsOf(u))
      BY <3>3 DEF JumpsFor
    <3> QED
      BY <1>3, <1>5, <2>1, <3>4 DEF ReadAt
  <2>3. ChainAt(task[s])'
    <3>1. \A x : Live(x)' => Live(x) \/ x = k
      BY DEF Live
    <3>2. HoldsRow(task[s]) /\ Live(task[s].row.key)' => Live(task[s].row.key)
      BY <1>9, <2>1, <3>1
    <3> QED
      BY <1>4, <1>6, <2>1, <3>2 DEF ChainAt, HoldsRow
  <2> QED
    BY <2>2, <2>3
<1>10. ReadAt(task[t])' /\ ChainAt(task[t])'
  BY DEF ReadAt, ChainAt
<1> QED
  BY <1>7, <1>8, <1>9, <1>10 DEF Policy

\* A commit that changes the rules of the users in U, those told have their chain
\* rebuilt.
LEMMA PolicyRules ==
  ASSUME TypeInv, Policy, NEW U, NEW told, Changes(U, told),
         UNCHANGED <<users, devices, nftVars, faulted>>,
         \A u \in Users \ U : UNCHANGED RulesOf(u),
         \A u \in Users \cap U \cap told : RulesDue(u)',
         \A s \in Tasks : \/ task'[s] = task[s]
                          \/ task[s].pc = "idle" /\ task'[s].pc \notin BatchPCs \cup HoldPCs
  PROVE  Policy'
<1>1. \A u \in Users \cap U : u \notin lagging' =>
        u \notin lagging /\ RulesDue(u)' /\ \A s \in Tasks : ~HasReadFor(s, u)
  BY DatabaseAssumption DEF Changes
<1>2. /\ Tracked' \subseteq Tracked /\ Tracked \subseteq Users /\ lagging \subseteq lagging'
      /\ UNCHANGED body /\ UNCHANGED chains /\ UNCHANGED forward
  BY DEF Tracked, nftVars, Changes, TypeInv, TypeOK, DbTypeOK
<1>3. \A u : Rebuilding(u) => Rebuilding(u)'
  <2> TAKE u
  <2> HAVE Rebuilding(u)
  <2>1. PICK s \in Tasks : Rebuilds(s, u)
    BY DEF Rebuilding
  <2>2. task'[s] = task[s]
    BY <2>1 DEF Rebuilds, RebuildPCs
  <2> QED
    BY <2>1, <2>2 DEF Rebuilding, Rebuilds
<1>4. RulesKept'
  <2> SUFFICES ASSUME NEW u \in Tracked', ~RulesDue(u)' PROVE body'[u] = Ordered(RulesOf(u)')
    BY DEF RulesKept
  <2>1. u \in Users \ U
    BY <1>1, <1>2 DEF Tracked
  <2>2. ~RulesDue(u)
    BY <2>1 DEF RulesDue, RulesDueBy, RebuildPCs
  <2> QED
    BY <1>2, <2>1, <2>2 DEF Policy, RulesKept
<1>5. JumpsKept'
  <2> SUFFICES ASSUME NEW r \in devices', r.owner \in Tracked', ~JumpsDue(r)' PROVE Jumped(r)'
    BY DEF JumpsKept
  <2>1. ~JumpsDue(r)
    BY DEF JumpsDue, JumpsDueBy, RebuildPCs, HoldsRow, HoldPCs, SyncPCs
  <2> QED
    BY <1>2, <2>1 DEF Policy, JumpsKept, Jumped
<1>6. ASSUME NEW s \in Tasks PROVE ReadAt(task[s])' /\ ChainAt(task[s])'
  <2>1. CASE task'[s].pc \notin BatchPCs \cup HoldPCs
    BY <2>1 DEF ReadAt, ChainAt, HoldsRow, BatchPCs, JumpPCs
  <2>2. CASE task'[s] = task[s]
    <3>1. ReadAt(task[s]) /\ ChainAt(task[s])
      BY DEF Policy
    <3>2. ReadAt(task[s])'
      <4> SUFFICES ASSUME NEW u \in users', u \notin lagging', task[s].user = u,
                          task[s].pc \in {"read_devices", "list_chains", "nft_batch"}
                   PROVE  ReadAt(task[s])'
        BY <2>2, <3>1 DEF ReadAt
      <4>1. HasReadFor(s, u) /\ u \in Users
        BY DEF HasReadFor, Rebuilds, RebuildPCs, At, TypeInv, TypeOK, DbTypeOK
      <4>2. UNCHANGED RulesOf(u)
        BY <1>1, <4>1
      <4>3. UNCHANGED JumpsFor(RowsOf(u))
        BY DEF JumpsFor, RowsOf
      <4> QED
        BY <1>2, <2>2, <3>1, <4>2, <4>3 DEF ReadAt
    <3>3. ChainAt(task[s])'
      BY <1>2, <1>3, <2>2, <3>1 DEF ChainAt, Live
    <3> QED
      BY <3>2, <3>3
  <2> QED
    BY <2>1, <2>2
<1> QED
  BY <1>4, <1>5, <1>6 DEF Policy

\* The ways in which a rebuild is announced.
LEMMA Tells ==
  ASSUME TypeInv, NEW t \in Tasks, NEW op, NEW u \in Users, TellOwner(t, op, u)
  PROVE  RulesDue(u)'
<1> DEFINE j == [Idle EXCEPT !.pc = "read_rules", !.op = op, !.user = u]
<1>1. j.pc = "read_rules" /\ j.user = u
  BY DEF Idle
<1>2. Become(t, j)
  BY DatabaseAssumption DEF TellOwner
<1>3. task'[t] = j
  BY <1>2, BecomeMoves DEF Procs
<1> HIDE DEF j
<1> QED
  BY <1>1, <1>3 DEF RulesDue, RulesDueBy, RebuildPCs

LEMMA Announces ==
  ASSUME TypeInv, NEW t \in Tasks, NEW op, NEW r \in rules',
         Become(t, [Idle EXCEPT !.pc = "refresh_rule", !.op = op, !.rule = r.id])
  PROVE  RulesDue(r.user)'
<1> DEFINE i == r.id
           j == [Idle EXCEPT !.pc = "refresh_rule", !.op = op, !.rule = i]
<1>1. j.pc = "refresh_rule" /\ j.rule = i
  <2> HIDE DEF i
  <2> QED
    BY DEF Idle
<1>2. task'[t] = j
  BY BecomeMoves DEF Procs
<1>3. r \in RulesOf(r.user)'
  BY DEF RulesOf
<1> HIDE DEF j
<1> QED
  BY <1>1, <1>2, <1>3 DEF RulesDue, RulesDueBy

\* Where operations on rules begin.
LEMMA RuleOpens ==
  ASSUME TypeInv, NEW t \in Tasks,
         CreateRule(t) \/ UpdateRuleFromPage(t) \/ DeleteRuleRow(t) \/ ReorderRules(t)
  PROVE  /\ UNCHANGED <<users, devices, nftVars, faulted>>
         /\ \A s \in Tasks : \/ task'[s] = task[s]
                             \/ task[s].pc = "idle" /\ task'[s].pc \notin BatchPCs \cup HoldPCs
<1>1. t \in Procs /\ Start(t)
  BY DEF Procs, Start
<1>2. task[t].pc = "idle" /\ task'[t].pc \notin HoldPCs /\ UNCHANGED <<users, devices>>
  BY <1>1, StartRuleMoves DEF At, BeginsRule, HoldPCs, SyncPCs
<1> QED
  BY <1>1, <1>2, StartAway DEF Alone, Procs

LEMMA RulePolicy ==
  ASSUME TypeInv, Policy, NEW t \in Tasks,
         CreateRule(t) \/ UpdateRuleFromPage(t) \/ DeleteRuleRow(t) \/ ReorderRules(t)
  PROVE  Policy'
<1>1. CASE CreateRule(t)
  <2>1. PICK o \in RuleOwners, p \in Priorities, e \in Exprs :
          /\ InsertRule(o, p, e) /\ Changes({o}, {o})
          /\ Become(t, [Idle EXCEPT !.pc = "refresh_rule", !.op = "rule_create", !.rule = nextRule])
    BY <1>1 DEF CreateRule
  <2> DEFINE new == [id |-> nextRule, user |-> o, priority |-> p, expr |-> e]
  <2>2. rules' = rules \cup {new} /\ new.id = nextRule /\ new.user = o
    BY <2>1 DEF InsertRule
  <2> HIDE DEF new
  <2>3. RulesDue(o)'
    BY <2>1, <2>2, Announces
  <2>4. \A u \in Users \ {o} : UNCHANGED RulesOf(u)
    BY <2>2 DEF RulesOf
  <2> QED
    BY <1>1, <2>1, <2>3, <2>4, RuleOpens, PolicyRules
<1>2. CASE UpdateRuleFromPage(t)
  <2>1. PICK r \in rules, o \in RuleOwners, p \in Priorities, e \in Exprs :
          /\ UpdateRule(r, o, p, e) /\ Changes({r.user, o}, {o})
          /\ Become(t, [Idle EXCEPT !.pc = "refresh_rule", !.op = "rule_update", !.rule = r.id])
    BY <1>2 DEF UpdateRuleFromPage
  <2> DEFINE new == [r EXCEPT !.user = o, !.priority = p, !.expr = e]
  <2>2. rules' = (rules \ {r}) \cup {new}
    BY <2>1 DEF UpdateRule
  <2>3. new.id = r.id /\ new.user = o
    BY DEF TypeInv, TypeOK, DbTypeOK, RuleRow
  <2> HIDE DEF new
  <2>4. RulesDue(o)'
    BY <2>1, <2>2, <2>3, Announces
  <2>5. \A u \in Users \ {r.user, o} : UNCHANGED RulesOf(u)
    BY <2>2, <2>3 DEF RulesOf
  <2> QED
    BY <1>2, <2>1, <2>4, <2>5, RuleOpens, PolicyRules
<1>3. CASE DeleteRuleRow(t)
  <2>1. PICK r \in rules : /\ DeleteRule(r) /\ Changes({r.user}, {r.user})
                           /\ TellOwner(t, "rule_delete", r.user)
    BY <1>3 DEF DeleteRuleRow
  <2>2. \A u \in Users \cap {r.user} : RulesDue(u)'
    BY <2>1, Tells
  <2>3. \A u \in Users \ {r.user} : UNCHANGED RulesOf(u)
    BY <2>1 DEF DeleteRule, RulesOf
  <2> QED
    BY <1>3, <2>1, <2>2, <2>3, RuleOpens, PolicyRules
<1>4. CASE ReorderRules(t)
  <2>1. PICK u \in users :
          /\ \E prio : rules' = (rules \ RulesOf(u)) \cup
                                {[r EXCEPT !.priority = prio[r]] : r \in RulesOf(u)}
          /\ \E filter \in Users \cup {Global} :
               TellOwner(t, "reorder", filter) /\ Changes({u}, {filter})
    BY <1>4 DEF ReorderRules
  <2>2. PICK filter \in Users \cup {Global} :
          TellOwner(t, "reorder", filter) /\ Changes({u}, {filter})
    BY <2>1
  <2>3. PICK prio : rules' = (rules \ RulesOf(u)) \cup
                             {[r EXCEPT !.priority = prio[r]] : r \in RulesOf(u)}
    BY <2>1
  <2>4. \A r \in RulesOf(u) : [r EXCEPT !.priority = prio[r]].user = u
    BY DEF RulesOf, TypeInv, TypeOK, DbTypeOK, RuleRow
  <2>5. \A v \in Users \ {u} : UNCHANGED RulesOf(v)
    <3> DEFINE new(r) == [r EXCEPT !.priority = prio[r]]
    <3>1. \A r \in RulesOf(u) : new(r).user = u
      BY <2>4
    <3>2. rules' = (rules \ RulesOf(u)) \cup {new(r) : r \in RulesOf(u)}
      BY <2>3
    <3> HIDE DEF new
    <3> QED
      BY <3>1, <3>2 DEF RulesOf
  <2>6. \A v \in Users \cap {filter} : RulesDue(v)'
    BY <2>2, Tells
  <2> QED
    BY <1>4, <2>2, <2>5, <2>6, RuleOpens, PolicyRules
<1> QED
  BY <1>1, <1>2, <1>3, <1>4

LEMMA ApiPolicy ==
  ASSUME TypeInv, Policy, UpdateRuleFromApi
  PROVE  Policy'
<1>1. PICK r \in rules, o \in RuleOwners, p \in Priorities, e \in Exprs :
        UpdateRule(r, o, p, e) /\ Changes({r.user, o}, {})
  BY DEF UpdateRuleFromApi
<1> DEFINE new == [r EXCEPT !.user = o, !.priority = p, !.expr = e]
<1>2. rules' = (rules \ {r}) \cup {new} /\ UNCHANGED <<users, devices>>
  BY <1>1 DEF UpdateRule
<1>3. new.user = o
  BY DEF TypeInv, TypeOK, DbTypeOK, RuleRow
<1> HIDE DEF new
<1>4. \A u \in Users \ {r.user, o} : UNCHANGED RulesOf(u)
  BY <1>2, <1>3 DEF RulesOf
<1> QED
  BY <1>1, <1>2, <1>4, PolicyRules DEF UpdateRuleFromApi, taskVars

\* Operations on devices begin with a statement.
LEMMA BeginPolicy ==
  ASSUME TypeInv, Policy, NEW t \in Tasks,
         StartCreate(t) \/ StartUpdate(t) \/ StartDelete(t) \/ StartDeleteUser(t)
  PROVE  Policy'
<1>1. t \in Procs /\ Start(t)
  BY DEF Procs, Start
<1>2. /\ task[t].pc = "idle" /\ UNCHANGED <<users, devices, rules>>
      /\ task'[t].pc \notin BatchPCs \cup {"idle", "add_jumps"}
  BY <1>1, StartMoves, StartAway DEF At, Begins, BatchPCs, JumpPCs
<1>3. Alone(t) /\ UNCHANGED <<nftVars, faulted>>
  BY <1>1, <1>2, StartAway
<1>4. UNCHANGED lagging
  BY DEF StartCreate, StartUpdate, StartDelete, StartDeleteUser
<1>5. \A r : ~JumpsDueBy(task[t], r)
  BY <1>2 DEF JumpsDueBy, RebuildPCs, HoldsRow, HoldPCs, SyncPCs
<1> QED
  BY <1>2, <1>3, <1>4, <1>5, PolicyCalm DEF nftVars, RulesOf, RebuildPCs

LEMMA StartPolicy ==
  ASSUME TypeInv, Policy, NEW t \in Tasks, Start(t)
  PROVE  Policy'
BY RulePolicy, BeginPolicy DEF Start

LEMMA InsertPolicy ==
  ASSUME TypeInv, PeerInv, HolderInv, Policy, NEW t \in Tasks, Alone(t), Insert(t)
  PROVE  Policy'
<1> DEFINE row == task[t].row
<1>0. t \in Procs /\ task[t].pc = "insert" /\ task[t].op = "create"
  BY DEF Insert, At, Procs, HolderInv, HolderAt
<1>1. row.owner \in Users
  BY <1>0, TaskType DEF Held, RowPCs, DeviceRow
<1>2. UNCHANGED <<nftVars, faulted>>
  BY DEF Insert
<1>3. CASE Finish(t) /\ UNCHANGED <<dbVars, lagging>>
  <2>1. task'[t] = Idle
    BY <1>0, <1>3, FinishContinues
  <2>2. \A r : ~JumpsDueBy(task[t], r)
    BY <1>0 DEF JumpsDueBy, RebuildPCs, HoldsRow, HoldPCs, SyncPCs
  <2> QED
    BY <1>0, <1>2, <1>3, <2>1, <2>2, PolicyCalm
    DEF Idle, BatchPCs, JumpPCs, RebuildPCs, dbVars, nftVars, RulesOf
<1>4. CASE InsertDevice(row) /\ Goto(t, "refresh") /\ Changes({row.owner}, {row.owner})
  <2>1. task'[t].pc = "refresh" /\ task'[t].op = "create" /\ task'[t].row = row
    BY <1>0, <1>4, GotoContinues
  <2>2. UNCHANGED <<users, rules>> /\ devices' = devices \cup {row}
    BY <1>4 DEF InsertDevice
  <2>3. \A s \in Tasks \ {t} : HoldsRow(task[s]) => task[s].row.key # row.key
    BY <1>0 DEF HolderInv, Unshared, At
  <2>4. HoldsRow(task'[t])
    BY <2>1 DEF HoldsRow, HoldPCs
  <2> QED
    BY <1>0, <1>1, <1>2, <1>4, <2>1, <2>2, <2>3, <2>4, PolicyCommit
<1> QED
  BY <1>3, <1>4 DEF Insert

LEMMA SavePolicy ==
  ASSUME TypeInv, PeerInv, HolderInv, Policy, NEW t \in Tasks, Alone(t), Save(t)
  PROVE  Policy'
<1> DEFINE row == task[t].row
<1>0. t \in Procs /\ task[t].pc = "save" /\ task[t].op = "update" /\ HoldsRow(task[t])
  BY DEF Save, At, Procs, HolderInv, HolderAt, HoldsRow, HoldPCs
<1>1. row.owner \in Users
  BY <1>0, TaskType DEF Held, RowPCs, DeviceRow
<1>2. UNCHANGED <<nftVars, faulted>>
  BY DEF Save
<1>3. CASE Finish(t) /\ UNCHANGED <<dbVars, lagging>>
  <2>1. task'[t] = Idle
    BY <1>0, <1>3, FinishContinues
  <2>2. \A r : ~JumpsDueBy(task[t], r)
    BY <1>0 DEF JumpsDueBy, RebuildPCs
  <2> QED
    BY <1>0, <1>2, <1>3, <2>1, <2>2, PolicyCalm
    DEF Idle, BatchPCs, JumpPCs, RebuildPCs, dbVars, nftVars, RulesOf
<1>4. CASE ~(Finish(t) /\ UNCHANGED <<dbVars, lagging>>)
  <2> DEFINE k == [task[t] EXCEPT !.pc = "refresh", !.want = {}]
  <2>1. /\ Live(row.key) /\ Become(t, k) /\ Changes({row.owner}, {row.owner})
        /\ UNCHANGED dbVars \/ UpdateNets(row.key, task[t].want)
    BY <1>4 DEF Save
  <2>2. k.pc = "refresh" /\ k.op = "update" /\ k.row = row
    BY <1>0, TaskType DEF Job
  <2>3. task'[t] = k
    BY <1>0, <2>1, BecomeMoves
  <2> HIDE DEF k
  <2>4. HoldsRow(task'[t])
    BY <2>2, <2>3 DEF HoldsRow, HoldPCs
  <2>5. UNCHANGED <<users, rules>>
    BY <2>1 DEF dbVars, UpdateNets
  <2>6. \A q \in devices' : q \in devices \/ (q.key = row.key /\ q.owner = row.owner)
    <3>1. CASE UNCHANGED dbVars
      BY <3>1 DEF dbVars
    <3>2. CASE UpdateNets(row.key, task[t].want)
      <4> DEFINE new(r) == [r EXCEPT !.nets = task[t].want]
      <4>1. \A r \in devices : new(r).key = r.key /\ new(r).owner = r.owner
        BY DEF TypeInv, TypeOK, DbTypeOK, DeviceRow
      <4>2. devices' = {IF r.key = row.key THEN new(r) ELSE r : r \in devices}
        BY <3>2 DEF UpdateNets
      <4> HIDE DEF new
      <4>3. \A r \in devices : r.key = row.key => r.owner = row.owner
        BY <1>0 DEF HolderInv, HolderAt
      <4> QED
        BY <4>1, <4>2, <4>3
    <3> QED
      BY <2>1, <3>1, <3>2
  <2> QED
    BY <1>0, <1>1, <1>2, <2>1, <2>2, <2>3, <2>4, <2>5, <2>6, PolicyCommit
<1> QED
  BY <1>3, <1>4

\* Rows that go.
LEMMA DeletePolicy ==
  ASSUME TypeInv, Policy, NEW t \in Tasks, Alone(t), DeleteRow(t) \/ Cascade(t)
  PROVE  Policy'
<1>0. t \in Procs /\ task[t].pc \in {"delete_row", "cascade"}
  BY DEF Procs, DeleteRow, Cascade, At
<1>1. UNCHANGED <<nftVars, faulted, lagging>>
  BY DEF DeleteRow, Cascade, ghosts
<1>2. \A r : ~JumpsDueBy(task[t], r)
  BY <1>0 DEF JumpsDueBy, RebuildPCs, HoldsRow, HoldPCs, SyncPCs
<1>3. task'[t].pc \in {"remove_peer", "idle"}
  BY <1>0, DeleteRowMoves, CascadeMoves DEF Onward, Idle
<1>4. devices' \subseteq devices /\ users' \subseteq users /\ \A u \in users' : UNCHANGED RulesOf(u)
  BY DEF DeleteRow, DeleteDevice, Cascade, DeleteUser, RulesOf
<1> QED
  BY <1>0, <1>1, <1>2, <1>3, <1>4, PolicyCalm DEF BatchPCs, JumpPCs, RebuildPCs, nftVars

\* Steps of which the chains and jumps know nothing: what t had to write it still
\* has to, or its owner is excused.
LEMMA PolicyQuiet ==
  ASSUME TypeInv, Policy, NEW t \in Tasks, Alone(t), UNCHANGED <<dbVars, nftVars, lagging>>,
         \A u \in Users : u \in faulted => u \in faulted',
         task[t].pc \notin RebuildPCs \cup {"refresh_rule"},
         task'[t].pc \notin BatchPCs \cup {"add_jumps"},
         \A r \in devices : r.owner \in Tracked' /\ JumpsDueBy(task[t], r) =>
                              JumpsDueBy(task'[t], r)
  PROVE  Policy'
<1>1. \A u : UNCHANGED RulesOf(u)
  BY DEF dbVars, RulesOf
<1>2. \A r \in devices' : r.owner \in Tracked' /\ JumpsDueBy(task[t], r) =>
                            JumpsDue(r)' \/ Jumped(r)'
  BY DEF JumpsDue, dbVars
<1> QED
  BY <1>1, <1>2, PolicyCalm DEF dbVars, nftVars

LEMMA PeerPolicy ==
  ASSUME TypeInv, TableInv, HolderInv, Policy, NEW t \in Tasks, Alone(t),
         Refresh(t) \/ AbandonCreate(t) \/ AddPeerStep(t) \/ RemovePeerStep(t)
         \/ RelaySubnetsStep(t)
  PROVE  Policy'
<1>0. t \in Procs /\ HolderAt(task[t])
  BY DEF Procs, HolderInv
<1>1. UNCHANGED <<dbVars, nftVars, lagging>>
  BY DEF Refresh, AbandonCreate, AddPeerStep, RemovePeerStep, RelaySubnetsStep, ghosts
<1>2. CASE Refresh(t)
  <2>1. task[t].pc = "refresh" /\ UNCHANGED faulted
    BY <1>2 DEF Refresh, At, ghosts
  <2>2. CASE ~Live(task[t].row.key) /\ task'[t] = Idle
    <3>1. \A r \in devices : ~JumpsDueBy(task[t], r)
      BY <2>1, <2>2 DEF JumpsDueBy, RebuildPCs, Live
    <3> QED
      BY <1>1, <2>1, <2>2, <3>1, PolicyQuiet DEF Idle, BatchPCs, JumpPCs, RebuildPCs
  <2>3. CASE /\ task'[t].pc = "add_peer" /\ task'[t].op = task[t].op
             /\ task'[t].row \in devices /\ task'[t].row.key = task[t].row.key
    <3>1. \A r \in devices : r.key = task[t].row.key => r = task'[t].row
      BY <2>3 DEF TableInv, KeyInv
    <3>2. \A r \in devices : JumpsDueBy(task[t], r) => JumpsDueBy(task'[t], r)
      BY <2>1, <2>3, <3>1 DEF JumpsDueBy, RebuildPCs, HoldsRow, HoldPCs
    <3> QED
      BY <1>1, <2>1, <2>3, <3>2, PolicyQuiet DEF BatchPCs, JumpPCs, RebuildPCs
  <2> QED
    BY <1>0, <1>2, <2>2, <2>3, RefreshMoves
<1>3. CASE AbandonCreate(t)
  <2>1. /\ task[t].pc = "add_peer" /\ task'[t] = Idle /\ task[t].op = "create"
        /\ task[t].row.owner \in faulted' /\ faulted \subseteq faulted'
    BY <1>0, <1>3, AbandonMoves DEF AbandonCreate, At
  <2>2. \A r : JumpsDueBy(task[t], r) => r.owner \notin Tracked'
    BY <2>1 DEF JumpsDueBy, RebuildPCs, Tracked
  <2> QED
    BY <1>1, <2>1, <2>2, PolicyQuiet DEF Idle, BatchPCs, JumpPCs, RebuildPCs
<1>4. CASE AddPeerStep(t)
  <2>1. /\ task[t].pc = "add_peer" /\ task'[t].op = task[t].op /\ task'[t].row = task[t].row
        /\ task'[t].pc \in {"relay_subnets", "add_user_chain", "routes"}
        /\ faulted' \in {faulted \cup {task[t].row.key}, faulted \ {task[t].row.key}}
    BY <1>0, <1>4, AddPeerMoves DEF AddPeerStep, At
  <2>2. task[t].row.key \notin Users
    BY <1>0, <2>1, TaskType, DatabaseAssumption DEF Held, RowPCs, DeviceRow
  <2>3. \A r : JumpsDueBy(task[t], r) => JumpsDueBy(task'[t], r)
    BY <2>1 DEF JumpsDueBy, RebuildPCs, HoldsRow, HoldPCs, SyncPCs
  <2> QED
    BY <1>1, <2>1, <2>2, <2>3, PolicyQuiet DEF BatchPCs, JumpPCs, RebuildPCs
<1>5. CASE RemovePeerStep(t)
  <2>1. /\ task[t].pc = "remove_peer" /\ task'[t].pc \in {"relay_subnets", "remove_peer", "idle"}
        /\ faulted' \in {faulted \cup {task[t].row.key}, faulted \ {task[t].row.key}}
    BY <1>0, <1>5, RemovePeerMoves DEF RemovePeerStep, At, Onward, Idle
  <2>2. task[t].row.key \notin Users
    BY <1>0, <2>1, TaskType, DatabaseAssumption DEF Held, RowPCs, DeviceRow
  <2>3. \A r : ~JumpsDueBy(task[t], r)
    BY <2>1 DEF JumpsDueBy, RebuildPCs, HoldsRow, HoldPCs, SyncPCs
  <2> QED
    BY <1>1, <2>1, <2>2, <2>3, PolicyQuiet DEF BatchPCs, JumpPCs, RebuildPCs
<1>6. CASE RelaySubnetsStep(t)
  <2>1. /\ task[t].pc = "relay_subnets" /\ task'[t].pc = "interface_routes"
        /\ Alike(task'[t], task[t]) /\ UNCHANGED faulted
    BY <1>0, <1>6, RelaySubnetsMoves DEF RelaySubnetsStep, At
  <2>2. \A r : JumpsDueBy(task[t], r) => JumpsDueBy(task'[t], r)
    BY <2>1 DEF JumpsDueBy, RebuildPCs, HoldsRow, HoldPCs, SyncPCs, Alike
  <2> QED
    BY <1>1, <2>1, <2>2, PolicyQuiet DEF BatchPCs, JumpPCs, RebuildPCs
<1> QED
  BY <1>2, <1>3, <1>4, <1>5, <1>6

LEMMA SyncPolicy ==
  ASSUME TypeInv, ControlInv, HolderInv, Policy, NEW t \in Tasks, Alone(t),
         InterfaceRoutes(t) \/ RouteAdd(t) \/ RouteDel(t)
  PROVE  Policy'
<1>0. t \in Procs /\ HolderAt(task[t]) /\ task[t].op # "boot"
  BY DEF Procs, HolderInv, ControlInv, Serve
<1>1. /\ UNCHANGED <<dbVars, nftVars, lagging>> /\ task[t].pc \in SyncPCs
      /\ \A u \in Users : u \in faulted => u \in faulted'
      /\ task'[t].pc \in {"routes", "add_user_chain", "read_rules", "remove_peer", "idle"}
  BY <1>0, SyncOnward
<1>2. \A r \in devices : JumpsDueBy(task[t], r) => JumpsDueBy(task'[t], r)
  <2> TAKE r \in devices
  <2> HAVE JumpsDueBy(task[t], r)
  <2>1. HoldsRow(task[t]) /\ task[t].row.key = r.key /\ (task[t].op = "update" \/ task[t].row = r)
    BY <1>1 DEF JumpsDueBy, RebuildPCs, SyncPCs
  <2>2. CASE task'[t].pc \in {"routes", "add_user_chain"} /\ Alike(task'[t], task[t])
    BY <2>1, <2>2 DEF JumpsDueBy, HoldsRow, HoldPCs, SyncPCs, Alike
  <2>3. CASE task'[t].pc = "read_rules" /\ task'[t].user = task[t].row.owner
    BY <1>0, <2>1, <2>3 DEF JumpsDueBy, RebuildPCs, HolderAt
  <2>4. task[t].op \in {"create", "update"}
    BY <2>1 DEF HoldsRow
  <2> QED
    BY <1>0, <2>2, <2>3, <2>4, SyncOnward
<1> QED
  BY <1>1, <1>2, PolicyQuiet DEF BatchPCs, JumpPCs, RebuildPCs, SyncPCs

LEMMA ChainPolicy ==
  ASSUME TypeInv, HolderInv, Policy, NEW t \in Tasks, Alone(t), AddUserChainStep(t)
  PROVE  Policy'
<1> DEFINE row == task[t].row
<1>0. t \in Procs /\ task[t].pc = "add_user_chain"
  BY DEF Procs, AddUserChainStep, At
<1>1. UNCHANGED <<dbVars, lagging>>
  BY DEF AddUserChainStep
<1>2. \A u : UNCHANGED RulesOf(u)
  BY <1>1 DEF dbVars, RulesOf
<1>3. CASE /\ AddUserChain(row.owner) /\ UNCHANGED faulted
           /\ task'[t].pc = "add_jumps" /\ Alike(task'[t], task[t])
  <2>1. \A r : JumpsDueBy(task[t], r) => JumpsDueBy(task'[t], r)
    BY <1>0, <1>3 DEF JumpsDueBy, RebuildPCs, HoldsRow, HoldPCs, Alike
  <2> QED
    BY <1>0, <1>1, <1>2, <1>3, <2>1, PolicyCalm
    DEF AddUserChain, Alike, BatchPCs, JumpPCs, RebuildPCs, dbVars, JumpsDue
<1>4. CASE /\ UNCHANGED nftVars /\ faulted' = faulted \cup {row.owner} /\ task'[t] = Idle
  <2>1. \A r \in devices : JumpsDueBy(task[t], r) => r.owner \notin Tracked'
    BY <1>0, <1>4 DEF JumpsDueBy, RebuildPCs, Tracked, HolderAt, HolderInv
  <2> QED
    BY <1>0, <1>1, <1>4, <2>1, PolicyQuiet DEF Idle, BatchPCs, JumpPCs, RebuildPCs
<1> QED
  BY <1>0, <1>3, <1>4, AddUserChainMoves

\* The jumps are made, unless the chain is gone: then it is being rebuilt.
LEMMA JumpPolicy ==
  ASSUME TypeInv, HolderInv, Policy, NEW t \in Tasks, Alone(t), AddJumpsStep(t)
  PROVE  Policy'
<1> DEFINE row == task[t].row
<1>0. t \in Procs /\ task[t].pc = "add_jumps"
  BY DEF Procs, AddJumpsStep, At
<1>1. UNCHANGED <<dbVars, lagging>> /\ task'[t] = Idle
  BY <1>0, AddJumpsMoves DEF AddJumpsStep
<1>2. \A u : UNCHANGED RulesOf(u)
  BY <1>1 DEF dbVars, RulesOf
<1>3. \A r : JumpsDueBy(task[t], r) => r = row /\ HoldsRow(task[t])
  BY <1>0 DEF JumpsDueBy, RebuildPCs, HolderInv, HolderAt
<1>4. CASE UNCHANGED nftVars /\ faulted' = faulted \cup {row.owner}
  <2>1. \A r : JumpsDueBy(task[t], r) => r.owner \notin Tracked'
    BY <1>3, <1>4 DEF Tracked
  <2> QED
    BY <1>0, <1>1, <1>4, <2>1, PolicyQuiet DEF Idle, BatchPCs, JumpPCs, RebuildPCs
<1>5. CASE CanJump(row.owner) /\ AddDeviceJumps(row) /\ UNCHANGED faulted
  <2>1. \A r : JumpsDueBy(task[t], r) => Jumped(r)'
    BY <1>3, <1>5 DEF Jumped, CanJump, AddDeviceJumps, JumpsFor
  <2> QED
    BY <1>0, <1>1, <1>2, <1>5, <2>1, PolicyCalm
    DEF Idle, BatchPCs, JumpPCs, RebuildPCs, AddDeviceJumps, dbVars
<1>6. CASE ~CanJump(row.owner) /\ UNCHANGED <<nftVars, faulted>>
  <2>1. ASSUME NEW r \in devices, r.owner \in Tracked', JumpsDueBy(task[t], r)
        PROVE  JumpsDue(r)'
    <3>1. r = row /\ HoldsRow(task[t]) /\ Live(row.key)
      BY <1>3, <2>1 DEF Live
    <3>2. row.owner \in Tracked
      BY <1>1, <1>6, <2>1, <3>1 DEF Tracked, dbVars
    <3>3. PICK s \in Tasks : Rebuilds(s, row.owner)
      BY <1>0, <1>6, <3>1, <3>2 DEF Policy, ChainAt, CanJump, Rebuilding
    <3>4. s # t /\ task'[s] = task[s]
      BY <1>0, <3>3 DEF Rebuilds, RebuildPCs, Alone, Procs
    <3> QED
      BY <3>1, <3>3, <3>4 DEF JumpsDue, JumpsDueBy, Rebuilds
  <2> QED
    BY <1>0, <1>1, <1>2, <1>6, <2>1, PolicyCalm
    DEF Idle, BatchPCs, JumpPCs, RebuildPCs, dbVars, nftVars
<1> QED
  BY <1>4, <1>5, <1>6 DEF AddJumpsStep, Fails

LEMMA RefreshRulePolicy ==
  ASSUME TypeInv, TableInv, Policy, NEW t \in Tasks, Alone(t), RefreshRule(t)
  PROVE  Policy'
<1>0. t \in Procs /\ task[t].pc = "refresh_rule"
  BY DEF Procs, RefreshRule, At
<1>1. UNCHANGED <<dbVars, nftVars, faulted, lagging>>
  BY DEF RefreshRule, ghosts
<1>2. \A u : UNCHANGED RulesOf(u)
  BY <1>1 DEF dbVars, RulesOf
<1>3. /\ task'[t].pc \in {"read_rules", "idle"}
      /\ \A r \in rules : r.id = task[t].rule /\ r.user # Global =>
           task'[t].pc = "read_rules" /\ task'[t].user = r.user
  <2>1. \A p, q \in rules : p.id = q.id => p = q
    BY DEF TableInv, RuleInv, Distinct
  <2>2. CASE Finish(t) /\ \A r \in rules : r.id = task[t].rule => r.user = Global
    BY <1>0, <2>2, FinishContinues DEF Idle
  <2>3. ASSUME NEW r \in rules, r.id = task[t].rule,
               Become(t, [task[t] EXCEPT !.pc = "read_rules", !.user = r.user, !.rule = 0])
        PROVE  task'[t].pc = "read_rules" /\ task'[t].user = r.user
    <3> DEFINE u == r.user
               k == [task[t] EXCEPT !.pc = "read_rules", !.user = u, !.rule = 0]
    <3>1. k.pc = "read_rules" /\ k.user = u
      <4> HIDE DEF u
      <4> QED
        BY <1>0, TaskType DEF Job
    <3>2. task'[t] = k
      BY <1>0, <2>3, BecomeMoves
    <3> HIDE DEF k
    <3> QED
      BY <3>1, <3>2
  <2>4. \/ Finish(t) /\ \A r \in rules : r.id = task[t].rule => r.user = Global
        \/ \E r \in rules : r.id = task[t].rule /\
             Become(t, [task[t] EXCEPT !.pc = "read_rules", !.user = r.user, !.rule = 0])
    BY <2>1 DEF RefreshRule
  <2> QED
    BY <2>1, <2>2, <2>3, <2>4 DEF Idle
<1>4. \A u \in Users : RulesDueBy(task[t], u) => RulesDue(u)'
  BY <1>0, <1>3, DatabaseAssumption DEF RulesDueBy, RulesDue, RebuildPCs, RulesOf
<1>5. \A r : ~JumpsDueBy(task[t], r)
  BY <1>0 DEF JumpsDueBy, RebuildPCs, HoldsRow, HoldPCs, SyncPCs
<1>6. ReadAt(task[t])' /\ ChainAt(task[t])'
  BY <1>3 DEF ReadAt, ChainAt
<1>7. Tracked' \subseteq Users
  BY <1>1 DEF Tracked, TypeInv, TypeOK, DbTypeOK, dbVars
<1> QED
  BY <1>0, <1>1, <1>2, <1>4, <1>5, <1>6, <1>7, PolicyKept
  DEF dbVars, nftVars, RulesDue, Rebuilds, RebuildPCs
\* A rebuild begins anew for a user left behind, once no other rebuild of the
\* user's chain has read what was there before.
LEMMA ReadRulesPolicy ==
  ASSUME TypeInv, Policy, NEW t \in Tasks, Alone(t), ReadRules(t)
  PROVE  Policy'
<1> DEFINE u == task[t].user
<1>0. t \in Procs /\ task[t].pc = "read_rules"
  BY DEF Procs, ReadRules, At
<1>1. /\ UNCHANGED <<dbVars, nftVars, faulted>>
      /\ lagging' = lagging \ {v \in {u} : \A s \in Tasks : ~HasReadFor(s, v)}
  BY DEF ReadRules
<1>2. /\ task'[t].pc = "read_devices" /\ task'[t].user = u /\ task'[t].entries = {u}
      /\ task'[t].bodies[u] = Ordered(RulesOf(u))
  BY <1>0, ReadRulesMoves
<1>3. \A v : UNCHANGED <<RulesOf(v), RowsOf(v)>>
  BY <1>1 DEF dbVars, RulesOf, RowsOf
<1>4. \A s \in Tasks \ {t} : task'[s] = task[s]
  BY DEF Alone, Procs
<1>5. Tracked' \ {u} \subseteq Tracked
  BY <1>1 DEF Tracked, dbVars
<1>6. \A v : v = u \/ Rebuilding(v) => Rebuilding(v)'
  BY <1>0, <1>2, <1>4 DEF Rebuilding, Rebuilds, RebuildPCs
<1>7. RulesKept'
  <2> SUFFICES ASSUME NEW v \in Tracked', ~RulesDue(v)' PROVE body'[v] = Ordered(RulesOf(v)')
    BY DEF RulesKept
  <2>1. v # u /\ v \in Tracked
    BY <1>2, <1>5 DEF RulesDue, RulesDueBy, RebuildPCs
  <2>2. ~RulesDue(v)
    BY <1>0, <1>3, <1>4, <2>1 DEF RulesDue, RulesDueBy
  <2> QED
    BY <1>1, <1>3, <2>1, <2>2 DEF Policy, RulesKept, nftVars
<1>8. JumpsKept'
  <2> SUFFICES ASSUME NEW r \in devices', r.owner \in Tracked', ~JumpsDue(r)' PROVE Jumped(r)'
    BY DEF JumpsKept
  <2>1. r \in devices /\ r.owner # u /\ r.owner \in Tracked
    BY <1>1, <1>2, <1>5 DEF JumpsDue, JumpsDueBy, RebuildPCs, dbVars
  <2>2. ~JumpsDue(r)
    BY <1>0, <1>4, <2>1 DEF JumpsDue, JumpsDueBy, HoldsRow, HoldPCs, SyncPCs
  <2> QED
    BY <1>1, <2>1, <2>2 DEF Policy, JumpsKept, Jumped, nftVars
<1>9. ASSUME NEW s \in Tasks, s # t PROVE ReadAt(task[s])' /\ ChainAt(task[s])'
  <2>1. ReadAt(task[s]) /\ ChainAt(task[s]) /\ task'[s] = task[s]
    BY <1>4, <1>9 DEF Policy
  <2>2. ReadAt(task[s])'
    <3> SUFFICES ASSUME NEW v \in users', v \notin lagging', task[s].user = v,
                        task[s].pc \in {"read_devices", "list_chains", "nft_batch"}
                 PROVE  ReadAt(task[s])'
      BY <2>1 DEF ReadAt
    <3>1. HasReadFor(s, v)
      BY DEF HasReadFor, Rebuilds, RebuildPCs, At
    <3>2. v \in users \ lagging
      BY <1>1, <3>1 DEF dbVars
    <3> QED
      BY <1>3, <2>1, <3>2 DEF ReadAt
  <2>3. ChainAt(task[s])'
    <3> SUFFICES ASSUME NEW v \in Tracked', v = task[s].row.owner, ~Rebuilding(v)',
                        HoldsRow(task[s]), task[s].pc = "add_jumps", Live(task[s].row.key)
                 PROVE  v \in chains
      BY <1>1, <2>1 DEF ChainAt, Live, nftVars, dbVars
    <3>1. v \in Tracked /\ ~Rebuilding(v)
      BY <1>5, <1>6
    <3> QED
      BY <2>1, <3>1 DEF ChainAt
  <2> QED
    BY <2>2, <2>3
<1>10. ReadAt(task[t])' /\ ChainAt(task[t])'
  BY <1>2, <1>3 DEF ReadAt, ChainAt
<1> QED
  BY <1>7, <1>8, <1>9, <1>10 DEF Policy

\* Reading goes on to what will be written.
LEMMA ReadPolicy ==
  ASSUME TypeInv, HolderInv, Policy, NEW t \in Tasks, Alone(t), ReadDevices(t) \/ ListChains(t)
  PROVE  Policy'
<1>0. t \in Procs /\ task[t].pc \in {"read_devices", "list_chains"} /\ ReadAt(task[t])
  BY DEF Procs, ReadDevices, ListChains, At, Policy
<1>1. UNCHANGED <<dbVars, nftVars, lagging>>
  BY DEF ReadDevices, ListChains, ghosts
<1>2. \A v : UNCHANGED <<RulesOf(v), RowsOf(v)>>
  BY <1>1 DEF dbVars, RulesOf, RowsOf
<1>3. faulted \subseteq faulted'
  BY <1>0, ListChainsMoves DEF ReadDevices, ghosts
<1>4. /\ task'[t].pc \in {"list_chains", "nft_batch"} /\ task'[t].user = task[t].user
      /\ task'[t].bodies = task[t].bodies
  BY <1>0, ReadDevicesMoves, ListChainsMoves DEF Alike
<1>5. task'[t].jumps = JumpsFor(RowsOf(task[t].user))
        \/ (task[t].pc = "list_chains" /\ task'[t].jumps = task[t].jumps)
  <2>1. CASE ReadDevices(t)
    BY <1>0, <2>1, ReadDevicesMoves
  <2>2. CASE ListChains(t)
    <3>1. task[t].pc = "list_chains"
      BY <2>2 DEF ListChains, At
    <3> QED
      BY <1>0, <2>2, <3>1, ListChainsMoves
  <2> QED
    BY <2>1, <2>2
<1>6. \A v : Rebuilds(t, v) => Rebuilds(t, v)'
  BY <1>4 DEF Rebuilds, RebuildPCs
<1>7. /\ \A v \in Tracked' : RulesDueBy(task[t], v) => RulesDue(v)'
      /\ \A r \in devices' : JumpsDueBy(task[t], r) => JumpsDue(r)'
  BY <1>0, <1>4 DEF RulesDueBy, JumpsDueBy, RulesDue, JumpsDue, RebuildPCs, HoldsRow, HoldPCs, SyncPCs
<1>8. ReadAt(task[t])'
  BY <1>0, <1>1, <1>2, <1>4, <1>5 DEF ReadAt, dbVars
<1>9. ChainAt(task[t])'
  BY <1>4 DEF ChainAt
<1> QED
  BY <1>1, <1>2, <1>3, <1>6, <1>7, <1>8, <1>9, PolicyKept DEF dbVars, nftVars

\* The batch writes its own user's chain and jumps; others lose theirs, but are
\* dropped for it, have nothing to lose, or are being rebuilt.
LEMMA BatchPolicy ==
  ASSUME TypeInv, ControlInv, NftInv, HolderInv, Policy, NEW t \in Tasks, Alone(t), NftBatch(t)
  PROVE  Policy'
<1> DEFINE j == task[t]
           u == j.user
<1>0. /\ t \in Procs /\ t # Boot /\ j.pc = "nft_batch" /\ j.op # "boot"
      /\ j.entries = {u} /\ u \in Users /\ u \notin j.orphans /\ ReadAt(j)
  <2>1. t \in Procs /\ t # Boot /\ j.pc = "nft_batch" /\ j.op # "boot" /\ ReadAt(j)
    BY EventBridgeAssumption DEF Procs, NftBatch, At, ControlInv, Serve, Policy
  <2>2. j.entries = {u} /\ j.entries \cap j.orphans = {}
    BY <2>1 DEF HolderInv, HolderAt, NftInv, BatchInv, BatchAt
  <2>3. j.entries \subseteq Users
    BY <2>1, TaskType DEF Job
  <2> QED
    BY <2>1, <2>2, <2>3
<1>1. UNCHANGED dbVars /\ task'[t] = Idle
  <2>1. UNCHANGED dbVars
    BY DEF NftBatch
  <2>2. task'[t] = Idle
    BY <1>0, NftBatchMoves
  <2> QED
    BY <2>1, <2>2
<1>2. \A v : UNCHANGED <<RulesOf(v), RowsOf(v)>>
  BY <1>1 DEF dbVars, RulesOf, RowsOf
<1>3. \A s \in Tasks \ {t} : task'[s] = task[s]
  BY DEF Alone, Procs
<1>4. \A v \in Users \ {u} : Rebuilding(v) => Rebuilding(v)'
  BY <1>0, <1>3 DEF Rebuilding, Rebuilds
<1>5. Tracked' \subseteq Users /\ lagging \subseteq lagging'
  BY <1>1 DEF Tracked, TypeInv, TypeOK, DbTypeOK, dbVars, NftBatch
<1>6. \A s \in Tasks \ {t} : ReadAt(task[s])'
  BY <1>1, <1>2, <1>3, <1>5 DEF Policy, ReadAt, dbVars
<1>7. ReadAt(task[t])' /\ ChainAt(task[t])'
  BY <1>1 DEF Idle, ReadAt, ChainAt
<1>8. CASE UNCHANGED nftVars /\ Tracked' \subseteq Tracked \ {u}
  <2>1. RulesKept'
    <3> SUFFICES ASSUME NEW v \in Tracked', ~RulesDue(v)' PROVE body'[v] = Ordered(RulesOf(v)')
      BY DEF RulesKept
    <3>1. ~RulesDue(v)
      BY <1>0, <1>2, <1>3, <1>8 DEF RulesDue, RulesDueBy
    <3> QED
      BY <1>2, <1>8, <3>1 DEF Policy, RulesKept, nftVars
  <2>2. JumpsKept'
    <3> SUFFICES ASSUME NEW r \in devices', r.owner \in Tracked', ~JumpsDue(r)' PROVE Jumped(r)'
      BY DEF JumpsKept
    <3>1. r \in devices /\ ~JumpsDue(r)
      BY <1>0, <1>1, <1>3, <1>8 DEF JumpsDue, JumpsDueBy, HoldsRow, HoldPCs, SyncPCs, dbVars
    <3> QED
      BY <1>8, <3>1 DEF Policy, JumpsKept, Jumped, nftVars
  <2>3. \A s \in Tasks \ {t} : ChainAt(task[s])'
    BY <1>1, <1>3, <1>4, <1>5, <1>8 DEF Policy, ChainAt, Live, nftVars, dbVars
  <2> QED
    BY <1>6, <1>7, <2>1, <2>2, <2>3 DEF Policy
<1>9. CASE /\ RebuildAllRules(j.entries, j.bodies, j.jumps, j.orphans)
           /\ faulted' = faulted \ (j.entries \cup j.orphans)
           /\ lagging' = lagging \cup Dropped(t)
  <2>1. ASSUME NEW v \in Users \ {u}, v \notin lagging'
        PROVE  RowsOf(v) \cup RulesOf(v) = {} \/ Rebuilding(v)'
    <3>1. RowsOf(v) \cup RulesOf(v) = {} \/ Rebuilding(v)
      BY <1>0, <1>9, <2>1 DEF Dropped, Rebuilding
    <3> QED
      BY <1>4, <3>1
  <2>2. u \in chains' /\ forward' = j.jumps
    BY <1>0, <1>9 DEF RebuildAllRules
  <2>3. RulesKept'
    <3> SUFFICES ASSUME NEW v \in Tracked', ~RulesDue(v)' PROVE body'[v] = Ordered(RulesOf(v))
      BY <1>2 DEF RulesKept
    <3>1. v \in Users /\ v \in users \ lagging /\ v \notin lagging' /\ v \notin faulted'
      BY <1>1, <1>5 DEF Tracked, dbVars
    <3>2. CASE v = u
      BY <1>0, <1>9, <3>1, <3>2 DEF RebuildAllRules, ReadAt
    <3>3. CASE v # u
      <4>1. ~Rebuilding(v)'
        BY DEF RulesDue, RulesDueBy, Rebuilding, Rebuilds
      <4>2. RulesOf(v) = {}
        BY <2>1, <3>1, <3>3, <4>1
      <4>3. CASE v \in j.orphans
        BY <1>0, <1>9, <3>1, <3>3, <4>2, <4>3, OrderedNone DEF RebuildAllRules, NoRules
      <4>4. CASE v \notin j.orphans
        <5>1. v \in Tracked
          BY <1>0, <1>9, <3>1, <3>3, <4>4 DEF Tracked
        <5>2. ~RulesDue(v)
          BY <1>0, <1>2, <1>3, <3>3 DEF RulesDue, RulesDueBy
        <5> QED
          BY <1>0, <1>9, <3>1, <3>3, <4>4, <5>1, <5>2 DEF RebuildAllRules, Policy, RulesKept
      <4> QED
        BY <4>3, <4>4
    <3> QED
      BY <3>2, <3>3
  <2>4. JumpsKept'
    <3> SUFFICES ASSUME NEW r \in devices', r.owner \in Tracked', ~JumpsDue(r)' PROVE Jumped(r)'
      BY DEF JumpsKept
    <3>1. r \in devices /\ r \in RowsOf(r.owner)
      BY <1>1 DEF RowsOf, dbVars
    <3>2. r.owner \in Users /\ r.owner \in users \ lagging /\ r.owner \notin lagging'
      BY <1>1, <1>5 DEF Tracked, dbVars
    <3>3. r.owner = u
      <4>1. ~Rebuilding(r.owner)'
        BY DEF JumpsDue, JumpsDueBy, Rebuilding, Rebuilds
      <4> QED
        BY <2>1, <3>1, <3>2, <4>1
    <3>4. JumpsFor({r}) \subseteq JumpsFor(RowsOf(u))
      BY <3>1, <3>3 DEF JumpsFor
    <3> QED
      BY <1>0, <2>2, <3>2, <3>3, <3>4 DEF Jumped, ReadAt
  <2>5. ASSUME NEW s \in Tasks, s # t PROVE ChainAt(task[s])'
    <3> SUFFICES ASSUME NEW v \in Tracked', v = task[s].row.owner, v # u, HoldsRow(task[s]),
                        Live(task[s].row.key)
                 PROVE  Rebuilding(v)'
      BY <1>1, <1>3, <2>2, <2>5 DEF ChainAt, Live, dbVars
    <3>1. RowsOf(v) # {}
      BY DEF HolderInv, HolderAt, Live, RowsOf
    <3>2. v \in Users \ {u} /\ v \notin lagging'
      BY <1>5 DEF Tracked
    <3> QED
      BY <2>1, <3>1, <3>2
  <2> QED
    BY <1>6, <1>7, <2>3, <2>4, <2>5 DEF Policy
<1>10. \/ /\ RebuildAllRules(j.entries, j.bodies, j.jumps, j.orphans)
          /\ faulted' = faulted \ (j.entries \cup j.orphans)
          /\ lagging' = lagging \cup Dropped(t)
       \/ UNCHANGED <<nftVars, faulted>> /\ lagging' = lagging \cup j.entries
       \/ UNCHANGED <<nftVars, lagging>> /\ faulted' = faulted \cup (j.entries \cup j.orphans)
  BY DEF NftBatch, Succeeds, Fails
<1> QED
  BY <1>0, <1>1, <1>8, <1>9, <1>10 DEF Tracked, dbVars
LEMMA StepPolicy ==
  ASSUME TypeInv, ControlInv, PeerInv, TableInv, NftInv, HolderInv, Policy, NEW t \in Tasks, Step(t)
  PROVE  Policy'
<1>1. Alone(t)
  BY StepAlone
<1> QED
  BY <1>1, InsertPolicy, SavePolicy, DeletePolicy, PeerPolicy, SyncPolicy, ChainPolicy, JumpPolicy,
     RefreshRulePolicy, ReadRulesPolicy, ReadPolicy, BatchPolicy
  DEF Step, SharedStep

\* Startup leaves what the database has, and no task.
LEMMA StartupPolicy ==
  ASSUME TypeInv, ControlInv, StartInv, [Next]_allVars, phase = "startup", phase' = "up"
  PROVE  Policy'
<1>1. ChainsRebuilt' /\ JumpsRebuilt' /\ \A t \in Tasks : task'[t].pc = "idle"
  BY StartupEnds DEF AllIdle, At
<1>2. TypeInv'
  BY TypeNext
<1>3. Tracked' \subseteq Users /\ Tracked' \cap faulted' = {}
  BY <1>2 DEF Tracked, TypeInv, TypeOK, DbTypeOK
<1>4. RulesKept'
  BY <1>1, <1>3 DEF ChainsRebuilt, RulesKept
<1>5. \A r \in devices' : r.owner \in Owners'
  BY DEF Owners
<1>6. JumpsKept'
  BY <1>1, <1>3, <1>5 DEF ChainsRebuilt, JumpsRebuilt, JumpsKept, Jumped
<1> QED
  BY <1>1, <1>4, <1>6 DEF Policy, ReadAt, ChainAt

LEMMA PolicyNext ==
  ASSUME ~ServeWhileStarting, TypeInv, ControlInv, PeerInv, TableInv, NftInv, StartInv, HolderInv,
         PolicyInv, [Next]_allVars
  PROVE  PolicyInv'
<1> SUFFICES ASSUME phase' = "up" PROVE Policy'
  BY DEF PolicyInv
<1>1. CASE phase = "startup"
  BY <1>1, StartupPolicy
<1>2. CASE phase = "up"
  <2>1. Policy
    BY <1>2 DEF PolicyInv
  <2>2. CASE UNCHANGED allVars
    <3>1. /\ \A u : UNCHANGED <<RulesOf(u), RowsOf(u)>>
          /\ UNCHANGED <<users, devices, chains, forward, body, task, Tracked, lagging>>
      BY <2>2 DEF allVars, vars, dbVars, nftVars, taskVars, ghosts, RulesOf, RowsOf, Tracked
    <3>2. RulesKept'
      BY <2>1, <3>1 DEF Policy, RulesKept, RulesDue, RulesDueBy
    <3>3. JumpsKept'
      BY <2>1, <3>1 DEF Policy, JumpsKept, JumpsDue, JumpsDueBy, Jumped
    <3>4. \A t \in Tasks : ReadAt(task[t])' /\ ChainAt(task[t])'
      BY <2>1, <3>1 DEF Policy, ReadAt, ChainAt, Rebuilding, Rebuilds, Live
    <3> QED
      BY <3>2, <3>3, <3>4 DEF Policy
  <2>3. ~Crash /\ ~StartupFails /\ ~Restart
    BY <1>2 DEF Crash, StartupFails, Restart
  <2>4. task[Boot].pc = "idle"
    BY <1>2, BootAt DEF At
  <2>5. ~BootStep
    BY <2>4 DEF BootStep, GetPeers, ReadAllDevices, ReadAllRules, AddMissingPeer, RemoveOrphanPeer,
       SharedStep, InterfaceRoutes, RouteAdd, RouteDel, ListChains, NftBatch, At
  <2> QED
    BY <2>1, <2>2, <2>3, <2>5, StartPolicy, StepPolicy, ApiPolicy DEF Next, TaskStep
<1>3. CASE phase \notin {"startup", "up"}
  BY <1>3, NeverFromDown
<1> QED
  BY <1>1, <1>2, <1>3

\* A task that has something to write is one the property waits for.
LEMMA PolicyCovered ==
  ASSUME TypeInv, TableInv, HolderInv, PolicyInv
  PROVE  PolicyFollowsDatabase
<1> SUFFICES ASSUME Policy, NEW u \in Tracked, ~PolicyDue(u)
             PROVE  /\ InOrder(body[u], RulesOf(u))
                    /\ JumpsFor(RowsOf(u)) \subseteq forward
                    /\ RowsOf(u) = {} \/ u \in chains
  BY DEF PolicyInv, PolicyFollowsDatabase, Tracked
<1>1. ~RulesDue(u)
  BY DEF RulesDue, RulesDueBy, PolicyDue, Rebuilds, At
<1>2. InOrder(body[u], RulesOf(u))
  <2>1. RulesOf(u) \in SUBSET RuleRow /\ Distinct(RulesOf(u))
    BY DEF RulesOf, TableInv, RuleInv, Distinct, TypeInv, TypeOK, DbTypeOK
  <2> QED
    BY <1>1, <2>1, OrderedInOrder DEF Policy, RulesKept
<1>3. \A r \in RowsOf(u) : r \in devices /\ r.owner = u
  BY DEF RowsOf
<1>4. ASSUME NEW r \in RowsOf(u) PROVE Jumped(r)
  <2> SUFFICES ASSUME JumpsDue(r) PROVE FALSE
    BY <1>3 DEF Policy, JumpsKept
  <2>1. PICK t \in Tasks : JumpsDueBy(task[t], r)
    BY DEF JumpsDue
  <2>2. ~(task[t].pc \in RebuildPCs /\ task[t].user = u)
    BY DEF PolicyDue, Rebuilds
  <2>3. HoldsRow(task[t]) /\ task[t].pc # "save" /\ task[t].row.key = r.key
    BY <1>3, <2>1, <2>2 DEF JumpsDueBy
  <2>4. task[t].row.owner = u
    BY <1>3, <2>3 DEF HolderInv, HolderAt
  <2> QED
    BY <2>3, <2>4 DEF PolicyDue, HoldsRow, HoldPCs, SyncPCs, RebuildPCs
<1>5. JumpsFor(RowsOf(u)) \subseteq forward
  BY <1>4 DEF Jumped, JumpsFor
<1>6. RowsOf(u) = {} \/ u \in chains
  BY <1>3, <1>4 DEF Jumped
<1> QED
  BY <1>2, <1>5, <1>6

\* Whatever operations of however many users overlap, commands fail and the process
\* dies, a user's devices are sent to the user's chain and the chain holds the
\* user's rules in order, unless a task is about to write them or the code has left
\* the user behind in one of the ways that lagging counts.  In particular nothing
\* else is lost: not by a rebuild that reads rules and devices in two statements,
\* not by a device added between the two, not by the jumps of a device made while
\* its chain is being deleted (on_device_created, on_device_updated,
\* _rebuild_user_chain, rebuild_all_rules, _reconcile_firewall).
THEOREM PolicyFollows ==
  ASSUME ~ServeWhileStarting
  PROVE  Spec => []PolicyFollowsDatabase
<1> DEFINE Inv == /\ TypeInv /\ ControlInv /\ PeerInv /\ TableInv /\ NftInv /\ StartInv
                  /\ HolderInv /\ PolicyInv
<1>1. Init => Inv
  BY TypeInit, ControlInit, PeerInit, TableInit, NftInit, StartInit, HolderInit DEF Init, PolicyInv
<1>2. Inv /\ [Next]_allVars => Inv'
  BY TypeNext, ControlNext, PeerNext, TableNext, NftNext, StartNext, HolderNext, PolicyNext
<1>3. Inv => PolicyFollowsDatabase
  BY PolicyCovered
<1> QED
  BY <1>1, <1>2, <1>3, PTL DEF Spec

-----------------------------------------------------------------------------
(* Whatever overlaps: chains and jumps *)

\* A jump leads to a chain that exists and a chain that is gone holds no rule,
\* however many rebuilds overlap, fail or act on chains and devices they listed
\* long before: nobody's batch deletes a chain that a jump it leaves in place leads
\* to (add_user_chain, add_device_jump_rule, rebuild_all_rules).
THEOREM ChainsHold == Spec => []JumpsLeadToChains
<1>1. Init => TypeInv /\ ControlInv /\ PeerInv /\ NftInv
  BY TypeInit, ControlInit, PeerInit, NftInit
<1>2. TypeInv /\ ControlInv /\ PeerInv /\ NftInv /\ [Next]_allVars
      => (TypeInv /\ ControlInv /\ PeerInv /\ NftInv)'
  BY TypeNext, ControlNext, PeerNext, NftNext
<1>3. NftInv => JumpsLeadToChains
  BY DEF NftInv, JumpInv, BodyInv, JumpsLeadToChains
<1> QED
  BY <1>1, <1>2, <1>3, PTL DEF Spec

=============================================================================
