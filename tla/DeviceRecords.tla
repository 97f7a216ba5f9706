--------------------------- MODULE DeviceRecords ----------------------------
(***************************************************************************)
(* The rows of the devices table and everybody who writes them: the pages  *)
(* and the API that create a device and allocate its tunnel addresses      *)
(* (utils/network.py), the forms that edit it, the deletions, and the      *)
(* poller that copies WireGuard's counters into it (tasks/stats.py, or     *)
(* collector.py in a process of its own).                                  *)
(*                                                                         *)
(* A creation reads the IPv4 addresses in use, then the IPv6 addresses,    *)
(* then commits; an edit and a poll load rows, then commit.  Only the      *)
(* unique constraints and SQLAlchemy's habit of writing only the columns   *)
(* that were changed stand between them.  One column stands for the        *)
(* settings a form edits and one for the counters a poll writes.           *)
(*                                                                         *)
(* The kernel counts for as long as a key is a peer of the interface, and  *)
(* from zero again when the peer was removed or the interface made anew.   *)
(***************************************************************************)
EXTENDS Integers, FiniteSets

CONSTANTS Keys,         \* public keys
          Creators,     \* requests that create devices
          Editors,      \* requests that edit devices
          Settings,     \* values of the settings a form edits
          V4Networks,   \* values wg_ipv4_network may be given: [base, size]
          V6Network,    \* wg_ipv6_network
          MaxTraffic,   \* bound: what a peer's counter reaches
          MaxRestarts,  \* bound: restarts of the process
          NoKey         \* no key

ASSUME DeviceRecordsAssumption ==
  /\ V4Networks \cup {V6Network} \subseteq [base : Nat, size : Nat \ {0}]
  /\ V4Networks # {} /\ Settings # {}
  /\ NoKey \notin Keys
  /\ MaxTraffic \in Nat /\ MaxRestarts \in Nat

VARIABLES rows,         \* the devices table: a row for each key in it
          born,         \* keys generated so far
          v4Network,    \* wg_ipv4_network, from the environment of this start
          networks,     \* ghost: the values v4Network has had so far
          creator,      \* what each creation has found so far
          editor,       \* what each edit has loaded
          poll,         \* what the poll under way has read
          sent,         \* the kernel's counter of each peer there is
          restarts

vars == <<rows, born, v4Network, networks, creator, editor, poll, sent, restarts>>

-----------------------------------------------------------------------------
(* Addresses: a network is the base..base + size - 1 of its addresses       *)

Network(net) == net.base..(net.base + net.size - 1)
Server(net)  == net.base + 1

\* Mutant: the pool ends one address after the network.
Pool_PastEnd(net) == (net.base + 2)..(net.base + net.size)

\* Neither the network address, nor the server's, nor the broadcast address.
Pool(net) == (net.base + 2)..(net.base + net.size - 2)

\* Mutant: the last address is never handed out.
Exhausted_OneEarly(net, used) == Cardinality(used) + 1 >= Cardinality(Pool(net))

\* No usable host, or as many addresses in use as there are in the pool.
Exhausted(net, used) == Cardinality(used) >= Cardinality(Pool(net))

UsedV4 == {rows[k].v4 : k \in DOMAIN rows}
UsedV6 == {rows[k].v6 : k \in DOMAIN rows}

V4Addresses == UNION {Network(net) : net \in V4Networks}
Row == [v4 : V4Addresses, v6 : Network(V6Network), setting : Settings, rx : 0..MaxTraffic]

Tables == UNION {[K -> Row] : K \in SUBSET Keys}
Counts == UNION {[K -> 0..MaxTraffic] : K \in SUBSET Keys}

Creation  == [pc : {"idle", "v6", "commit"}, key : Keys \cup {NoKey},
              v4 : V4Addresses \cup {0}, v6 : Network(V6Network) \cup {0}]
PollState == [pc : {"sleep", "select", "commit"}, seen : Counts, loaded : Tables]

NoCreation == [pc |-> "idle", key |-> NoKey, v4 |-> 0, v6 |-> 0]
NoPoll     == [pc |-> "sleep", seen |-> <<>>, loaded |-> <<>>]

\* What an edit has loaded is a table with at most one row.
NoEdit     == [loaded |-> <<>>, setting |-> CHOOSE s \in Settings : TRUE]

TypeOK ==
  /\ rows \in Tables
  /\ DOMAIN rows \subseteq born /\ born \subseteq Keys
  /\ v4Network \in networks /\ networks \subseteq V4Networks
  /\ creator \in [Creators -> Creation]
  /\ editor \in [Editors -> [loaded : Tables, setting : Settings]]
  /\ \A e \in Editors : Cardinality(DOMAIN editor[e].loaded) <= 1
  /\ poll \in PollState
  /\ sent \in Counts
  /\ restarts \in 0..MaxRestarts

Init ==
  /\ rows = <<>>
  /\ born = {}
  /\ v4Network \in V4Networks /\ networks = {v4Network}
  /\ creator = [c \in Creators |-> NoCreation]
  /\ editor = [e \in Editors |-> NoEdit]
  /\ poll = NoPoll
  /\ sent = <<>>
  /\ restarts = 0

-----------------------------------------------------------------------------
(* Creating a device *)

\* The key is generated and an IPv4 address drawn among those not in use; the
\* request fails when there is none.
AllocateV4(c) ==
  /\ creator[c].pc = "idle"
  /\ \E k \in Keys \ born :
       /\ born' = born \cup {k}
       /\ \/ /\ ~Exhausted(v4Network, UsedV4)
             /\ \E a \in Pool(v4Network) \ UsedV4 :
                  creator' = [creator EXCEPT ![c] = [pc |-> "v6", key |-> k, v4 |-> a, v6 |-> 0]]
          \/ Exhausted(v4Network, UsedV4) /\ UNCHANGED creator
  /\ UNCHANGED <<rows, v4Network, networks, editor, poll, sent, restarts>>

AllocateV6(c) ==
  /\ creator[c].pc = "v6"
  /\ \/ /\ ~Exhausted(V6Network, UsedV6)
        /\ \E a \in Pool(V6Network) \ UsedV6 :
             creator' = [creator EXCEPT ![c].pc = "commit", ![c].v6 = a]
     \/ /\ Exhausted(V6Network, UsedV6)
        /\ creator' = [creator EXCEPT ![c] = NoCreation]
  /\ UNCHANGED <<rows, born, v4Network, networks, editor, poll, sent, restarts>>

\* Mutant: only the IPv4 address is unique.
Unique_V4Only(v4, v6) == v4 \notin UsedV4

\* The unique constraints of the table.
Unique(v4, v6) == v4 \notin UsedV4 /\ v6 \notin UsedV6

\* The commit; an IntegrityError ends the request.
Insert(c) ==
  LET j == creator[c] IN
  /\ j.pc = "commit"
  /\ \/ /\ Unique(j.v4, j.v6)
        /\ \E s \in Settings :
             rows' = [k \in DOMAIN rows \cup {j.key} |->
                        IF k = j.key THEN [v4 |-> j.v4, v6 |-> j.v6, setting |-> s, rx |-> 0]
                        ELSE rows[k]]
     \/ ~Unique(j.v4, j.v6) /\ UNCHANGED rows
  /\ creator' = [creator EXCEPT ![c] = NoCreation]
  /\ UNCHANGED <<born, v4Network, networks, editor, poll, sent, restarts>>

-----------------------------------------------------------------------------
(* Loading rows, changing them and committing                               *)

\* Mutant: the whole row is written.
Flush_WholeRow(loaded, mine, now) == mine

\* The columns that differ from what was loaded are written over the row that
\* is there now.
Flush(loaded, mine, now) ==
  [col \in DOMAIN now |-> IF mine[col] = loaded[col] THEN now[col] ELSE mine[col]]

\* The UPDATE of a row that is gone raises StaleDataError and nothing is
\* committed; a row that was not changed is not updated.
Flushable(loaded, mine) == \A k \in DOMAIN loaded : mine[k] # loaded[k] => k \in DOMAIN rows

Commit(loaded, mine) ==
  rows' = [k \in DOMAIN rows |-> IF k \in DOMAIN loaded
                                 THEN Flush(loaded[k], mine[k], rows[k]) ELSE rows[k]]

\* A form, filled in some time ago, is saved: the row is loaded.  (A form that
\* changes nothing writes nothing.)
LoadForEdit(e) ==
  /\ editor[e] = NoEdit
  /\ \E k \in DOMAIN rows : \E s \in Settings \ {rows[k].setting} :
       editor' = [editor EXCEPT ![e] = [loaded |-> [l \in {k} |-> rows[k]], setting |-> s]]
  /\ UNCHANGED <<rows, born, v4Network, networks, creator, poll, sent, restarts>>

\* The row as the form has it.
Edited(e) == [k \in DOMAIN editor[e].loaded |->
                [editor[e].loaded[k] EXCEPT !.setting = editor[e].setting]]

SaveEdit(e) ==
  /\ editor[e].loaded # <<>>
  /\ IF Flushable(editor[e].loaded, Edited(e)) THEN Commit(editor[e].loaded, Edited(e))
                                               ELSE UNCHANGED rows
  /\ editor' = [editor EXCEPT ![e] = NoEdit]
  /\ UNCHANGED <<born, v4Network, networks, creator, poll, sent, restarts>>

\* The row goes and the peer after it: a dump made in between shows what one
\* made before the deletion does.
Delete(k) ==
  /\ k \in DOMAIN rows
  /\ rows' = [l \in DOMAIN rows \ {k} |-> rows[l]]
  /\ sent' = [l \in DOMAIN sent \ {k} |-> sent[l]]
  /\ UNCHANGED <<born, v4Network, networks, creator, editor, poll, restarts>>

-----------------------------------------------------------------------------
(* The statistics *)

\* The key of a device becomes a peer (on_device_created, an edit, a command
\* that failed before).
Connect(k) ==
  /\ k \in DOMAIN rows \ DOMAIN sent
  /\ sent' = [l \in DOMAIN sent \cup {k} |-> IF l = k THEN 0 ELSE sent[l]]
  /\ UNCHANGED <<rows, born, v4Network, networks, creator, editor, poll, restarts>>

\* The peer of a device is removed: its user's VPN session is over, or the
\* interface is gone.
Disconnect(k) ==
  /\ k \in DOMAIN sent
  /\ sent' = [l \in DOMAIN sent \ {k} |-> sent[l]]
  /\ UNCHANGED <<rows, born, v4Network, networks, creator, editor, poll, restarts>>

Traffic(k) ==
  /\ k \in DOMAIN sent /\ sent[k] < MaxTraffic
  /\ sent' = [sent EXCEPT ![k] = @ + 1]
  /\ UNCHANGED <<rows, born, v4Network, networks, creator, editor, poll, restarts>>

\* The dump of the interface; without peers, or when the dump fails, the poll is
\* over.
PollPeers ==
  /\ poll.pc = "sleep" /\ DOMAIN sent # {}
  /\ poll' = [poll EXCEPT !.pc = "select", !.seen = sent]
  /\ UNCHANGED <<rows, born, v4Network, networks, creator, editor, sent, restarts>>

\* A device deleted since the dump is passed over.
PollSelect ==
  LET found == DOMAIN poll.seen \cap DOMAIN rows IN
  /\ poll.pc = "select"
  /\ poll' = IF found = {} THEN NoPoll
             ELSE [poll EXCEPT !.pc = "commit", !.loaded = [k \in found |-> rows[k]]]
  /\ UNCHANGED <<rows, born, v4Network, networks, creator, editor, sent, restarts>>

\* The loaded rows with the counters read from WireGuard.
Polled == [k \in DOMAIN poll.loaded |-> [poll.loaded[k] EXCEPT !.rx = poll.seen[k]]]

\* Mutant: the loop does not survive an error.
PollCommit_Fatal ==
  /\ poll.pc = "commit"
  /\ Flushable(poll.loaded, Polled)
  /\ Commit(poll.loaded, Polled)
  /\ poll' = NoPoll
  /\ UNCHANGED <<born, v4Network, networks, creator, editor, sent, restarts>>

\* One commit for all devices; an error loses the whole poll, is logged and the
\* loop goes on.
PollCommit ==
  /\ poll.pc = "commit"
  /\ IF Flushable(poll.loaded, Polled) THEN Commit(poll.loaded, Polled) ELSE UNCHANGED rows
  /\ poll' = NoPoll
  /\ UNCHANGED <<born, v4Network, networks, creator, editor, sent, restarts>>

-----------------------------------------------------------------------------

\* The process is started anew, maybe with another network, and reconciles the
\* peers with the devices; the interface was kept, or lost with its counts.
Restart ==
  /\ restarts < MaxRestarts
  /\ restarts' = restarts + 1
  /\ v4Network' \in V4Networks /\ networks' = networks \cup {v4Network'}
  /\ creator' = [c \in Creators |-> NoCreation]
  /\ editor' = [e \in Editors |-> NoEdit]
  /\ poll' = NoPoll
  /\ \E kept \in {DOMAIN sent, {}} :
       sent' = [k \in DOMAIN rows |-> IF k \in kept THEN sent[k] ELSE 0]
  /\ UNCHANGED <<rows, born>>

Poll == PollPeers \/ PollSelect \/ PollCommit

Next ==
  \/ \E c \in Creators : AllocateV4(c) \/ AllocateV6(c) \/ Insert(c)
  \/ \E e \in Editors : LoadForEdit(e) \/ SaveEdit(e)
  \/ \E k \in Keys : Delete(k) \/ Connect(k) \/ Disconnect(k) \/ Traffic(k)
  \/ Poll
  \/ Restart

Spec == Init /\ [][Next]_vars

\* The loop polls for ever; nobody has to create, edit or delete anything.
FairSpec == Spec /\ WF_vars(Poll)

-----------------------------------------------------------------------------

\* However creations interleave and the network is changed between two starts,
\* no two devices share a tunnel address: two requests that draw the same one
\* cannot both commit.  And none has the address the server has now, unless the
\* device was given it under another network, of which the present one may be a
\* part (allocate_ipv4, allocate_ipv6, _server_addresses, the unique constraints
\* of models/device.py).
NoSharedAddress ==
  /\ \A k, l \in DOMAIN rows : k # l => rows[k].v4 # rows[l].v4 /\ rows[k].v6 # rows[l].v6
  /\ \A k \in DOMAIN rows :
       /\ rows[k].v6 # Server(V6Network)
       /\ rows[k].v4 = Server(v4Network) =>
            \E net \in networks \ {v4Network} : rows[k].v4 \in Pool(net)

KeepsColumns ==
  /\ \A k \in DOMAIN rows \cap DOMAIN rows' :
       /\ rows'[k].rx # rows[k].rx => /\ poll.pc = "commit" /\ k \in DOMAIN poll.loaded
                                      /\ poll' = NoPoll
       /\ rows'[k].setting # rows[k].setting =>
            \E e \in Editors : /\ k \in DOMAIN editor[e].loaded /\ editor'[e] = NoEdit
                               /\ editor[e].setting = rows'[k].setting
  /\ poll.pc = "commit" /\ poll' = NoPoll /\ UNCHANGED restarts
       /\ DOMAIN poll.loaded \subseteq DOMAIN rows =>
          \A k \in DOMAIN poll.loaded : rows'[k].rx = poll.seen[k]

\* No update is lost: an edit never takes the counters back to what it loaded,
\* nor does a poll take back an edit that was saved meanwhile.  The settings
\* change only to what the form of an edit says, the counters change only in the
\* commit of a poll, and when none of its devices was deleted meanwhile, that
\* commit leaves each as the kernel showed it, also when the kernel had begun
\* again from zero (save_edit, _update_stats, _update_db).
NoLostColumn == [][KeepsColumns]_vars

Connected(k) == k \in DOMAIN rows /\ k \in DOMAIN sent

\* What the kernel has counted for a device is in the table in the end, as long as
\* the device is a peer and its count does not start again: a poll that fails as a
\* whole because one device was deleted is made up for by a later one (stats_loop,
\* collector.run).
TrafficIsRecorded ==
  \A k \in Keys : \A n \in 1..MaxTraffic :
    (Connected(k) /\ sent[k] >= n) ~> (Connected(k) => sent[k] < n \/ rows[k].rx >= n)

\* However many creations are under way, the error "No available addresses in
\* {network}" is true as long as the process has always run with this network:
\* every address of the pool is a device's (_find_available_v4).
RefusedOnlyWhenFull ==
  [][born' # born /\ creator' = creator /\ networks = {v4Network} =>
       Pool(v4Network) \subseteq UsedV4]_vars

=============================================================================
