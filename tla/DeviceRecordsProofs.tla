------------------------- MODULE DeviceRecordsProofs -------------------------
(***************************************************************************)
(* For any networks, keys, requests and amount of traffic: no two devices  *)
(* share an address, no update of a row is lost, and a creation is refused *)
(* for want of an address only when there is none.                         *)
(*                                                                         *)
(* Drawn says that a creation under way has a key of its own and addresses *)
(* of the present pools; Placed that each device's IPv4 address is of the  *)
(* pool of some network the process has run with; Loaded that nobody but   *)
(* the poll changes the counters of the rows a poll has loaded.            *)
(***************************************************************************)
EXTENDS DeviceRecords, FiniteSetTheorems, TLAPS

Drawn ==
  \A c \in Creators : creator[c].pc # "idle" =>
    /\ creator[c].key \in born \ (DOMAIN rows \cup DOMAIN poll.loaded)
    /\ \A d \in Creators \ {c} : creator[d].pc # "idle" => creator[d].key # creator[c].key
    /\ creator[c].v4 \in Pool(v4Network)
    /\ creator[c].pc = "commit" => creator[c].v6 \in Pool(V6Network)

Placed ==
  \A k \in DOMAIN rows : /\ \E net \in networks : rows[k].v4 \in Pool(net)
                         /\ rows[k].v6 \in Pool(V6Network)

Distinct ==
  \A k, l \in DOMAIN rows : k # l => rows[k].v4 # rows[l].v4 /\ rows[k].v6 # rows[l].v6

Loaded ==
  /\ DOMAIN poll.loaded \subseteq DOMAIN poll.seen /\ DOMAIN poll.loaded \subseteq born
  /\ poll.pc # "commit" => DOMAIN poll.loaded = {}
  /\ \A k \in DOMAIN poll.loaded \cap DOMAIN rows : poll.loaded[k].rx = rows[k].rx

RecordsInv ==
  /\ TypeOK
  /\ Placed /\ Distinct
  /\ Drawn /\ Loaded

-----------------------------------------------------------------------------
(* Tables and addresses *)

\* A table is a function from keys to rows.
LEMMA TableType ==
  ASSUME NEW T
  PROVE  T \in Tables <=> /\ DOMAIN T \subseteq Keys
                          /\ T = [k \in DOMAIN T |-> T[k]]
                          /\ \A k \in DOMAIN T : T[k] \in Row
BY DEF Tables

LEMMA CountsType ==
  ASSUME NEW T
  PROVE  T \in Counts <=> /\ DOMAIN T \subseteq Keys
                          /\ T = [k \in DOMAIN T |-> T[k]]
                          /\ \A k \in DOMAIN T : T[k] \in 0..MaxTraffic
BY DEF Counts

LEMMA NoRows == <<>> \in Tables /\ <<>> \in Counts /\ DOMAIN <<>> = {} /\ IsFiniteSet({})
<1>1. DOMAIN <<>> = {} /\ <<>> = [k \in {} |-> k]
  OBVIOUS
<1> QED
  BY <1>1, TableType, CountsType, FS_EmptySet

\* The pool leaves out the network's own address and the server's.
LEMMA PoolInNetwork ==
  ASSUME NEW net \in V4Networks \cup {V6Network}, NEW a \in Pool(net)
  PROVE  a \in Network(net) \ {Server(net)}
BY DeviceRecordsAssumption DEF Pool, Network, Server

LEMMA V4InType ==
  ASSUME NEW net \in V4Networks, NEW a \in Pool(net)
  PROVE  a \in V4Addresses
BY PoolInNetwork DEF V4Addresses

\* When as many addresses of a pool are in use as it has, all of them are.
LEMMA FullPool ==
  ASSUME NEW net \in V4Networks, UsedV4 \subseteq Pool(net), Exhausted(net, UsedV4)
  PROVE  Pool(net) \subseteq UsedV4
<1>1. net.base + 2 \in Int /\ net.base + net.size - 2 \in Int
  BY DeviceRecordsAssumption
<1>2. IsFiniteSet(Pool(net))
  BY <1>1, FS_Interval DEF Pool
<1>3. /\ Cardinality(UsedV4) <= Cardinality(Pool(net))
      /\ Cardinality(UsedV4) = Cardinality(Pool(net)) => UsedV4 = Pool(net)
      /\ Cardinality(UsedV4) \in Nat /\ Cardinality(Pool(net)) \in Nat
  BY <1>2, FS_Subset, FS_CardinalityType
<1> QED
  BY <1>3 DEF Exhausted

-----------------------------------------------------------------------------
(* Commits *)

\* What a commit does to the rows when only settings and counters were changed.
LEMMA CommitEffect ==
  ASSUME rows \in Tables, NEW loaded \in Tables, NEW mine \in Tables,
         DOMAIN mine = DOMAIN loaded,
         \A k \in DOMAIN loaded : mine[k].v4 = loaded[k].v4 /\ mine[k].v6 = loaded[k].v6,
         Commit(loaded, mine)
  PROVE  /\ rows' \in Tables
         /\ DOMAIN rows' = DOMAIN rows
         /\ \A k \in DOMAIN rows :
              /\ rows'[k].v4 = rows[k].v4 /\ rows'[k].v6 = rows[k].v6
              /\ \/ rows'[k].setting = rows[k].setting
                 \/ /\ k \in DOMAIN loaded
                    /\ mine[k].setting # loaded[k].setting
                    /\ rows'[k].setting = mine[k].setting
              /\ \/ rows'[k].rx = rows[k].rx
                 \/ /\ k \in DOMAIN loaded
                    /\ mine[k].rx # loaded[k].rx
                    /\ rows'[k].rx = mine[k].rx
<1>1. DOMAIN rows' = DOMAIN rows /\ rows' = [k \in DOMAIN rows' |-> rows'[k]]
  BY DEF Commit
<1>2. ASSUME NEW k \in DOMAIN rows, k \notin DOMAIN loaded
      PROVE  rows'[k] = rows[k]
  BY <1>2 DEF Commit
<1>3. ASSUME NEW k \in DOMAIN rows, k \in DOMAIN loaded
      PROVE  /\ rows'[k] \in Row
             /\ rows'[k].v4 = rows[k].v4 /\ rows'[k].v6 = rows[k].v6
             /\ rows'[k].setting = IF mine[k].setting = loaded[k].setting
                                   THEN rows[k].setting ELSE mine[k].setting
             /\ rows'[k].rx = IF mine[k].rx = loaded[k].rx THEN rows[k].rx ELSE mine[k].rx
  <2>1. rows[k] \in Row /\ loaded[k] \in Row /\ mine[k] \in Row
    BY <1>3, TableType
  <2>2. rows'[k] = Flush(loaded[k], mine[k], rows[k])
    BY <1>3 DEF Commit
  <2>3. DOMAIN rows[k] = {"v4", "v6", "setting", "rx"}
    BY <2>1 DEF Row
  <2>4. rows'[k] = [col \in {"v4", "v6", "setting", "rx"} |->
                      IF mine[k][col] = loaded[k][col] THEN rows[k][col] ELSE mine[k][col]]
    BY <2>2, <2>3 DEF Flush
  <2>5. /\ rows'[k].v4 = rows[k].v4 /\ rows'[k].v6 = rows[k].v6
        /\ rows'[k].setting = IF mine[k].setting = loaded[k].setting
                              THEN rows[k].setting ELSE mine[k].setting
        /\ rows'[k].rx = IF mine[k].rx = loaded[k].rx THEN rows[k].rx ELSE mine[k].rx
    BY <1>3, <2>4
  <2>6. rows'[k] = [v4 |-> rows'[k].v4, v6 |-> rows'[k].v6,
                    setting |-> rows'[k].setting, rx |-> rows'[k].rx]
    BY <2>4
  <2>7. /\ rows'[k].v4 \in V4Addresses /\ rows'[k].v6 \in Network(V6Network)
        /\ rows'[k].setting \in Settings /\ rows'[k].rx \in 0..MaxTraffic
    BY <2>1, <2>5 DEF Row
  <2> QED
    BY <2>5, <2>6, <2>7 DEF Row
<1>4. rows' \in Tables
  BY <1>1, <1>2, <1>3, TableType
<1> QED
  BY <1>1, <1>2, <1>3, <1>4

\* A row saved by a form, or by a poll, keeps its addresses.
LEMMA EditedType ==
  ASSUME TypeOK, NEW e \in Editors
  PROVE  /\ editor[e].loaded \in Tables /\ Edited(e) \in Tables
         /\ DOMAIN Edited(e) = DOMAIN editor[e].loaded
         /\ \A k \in DOMAIN editor[e].loaded :
              /\ Edited(e)[k].v4 = editor[e].loaded[k].v4
              /\ Edited(e)[k].v6 = editor[e].loaded[k].v6
              /\ Edited(e)[k].rx = editor[e].loaded[k].rx
              /\ Edited(e)[k].setting = editor[e].setting
<1>1. editor[e].loaded \in Tables /\ editor[e].setting \in Settings
  BY DEF TypeOK
<1>2. \A k \in DOMAIN editor[e].loaded : editor[e].loaded[k] \in Row
  BY <1>1, TableType
<1>3. \A k \in DOMAIN editor[e].loaded :
        /\ Edited(e)[k] = [editor[e].loaded[k] EXCEPT !.setting = editor[e].setting]
        /\ Edited(e)[k] \in Row
  BY <1>1, <1>2 DEF Edited, Row
<1>4. /\ DOMAIN Edited(e) = DOMAIN editor[e].loaded
      /\ Edited(e) = [k \in DOMAIN Edited(e) |-> Edited(e)[k]]
  BY DEF Edited
<1>5. Edited(e) \in Tables
  BY <1>1, <1>3, <1>4, TableType
<1> QED
  BY <1>1, <1>2, <1>3, <1>4, <1>5 DEF Row

LEMMA PolledType ==
  ASSUME TypeOK, Loaded
  PROVE  /\ poll.loaded \in Tables /\ Polled \in Tables
         /\ DOMAIN Polled = DOMAIN poll.loaded
         /\ \A k \in DOMAIN poll.loaded :
              /\ Polled[k].v4 = poll.loaded[k].v4
              /\ Polled[k].v6 = poll.loaded[k].v6
              /\ Polled[k].setting = poll.loaded[k].setting
              /\ Polled[k].rx = poll.seen[k]
<1>1. poll.loaded \in Tables /\ poll.seen \in Counts
  BY DEF TypeOK, PollState
<1>2. \A k \in DOMAIN poll.loaded : poll.loaded[k] \in Row /\ poll.seen[k] \in 0..MaxTraffic
  BY <1>1, TableType, CountsType DEF Loaded
<1>3. \A k \in DOMAIN poll.loaded :
        /\ Polled[k] = [poll.loaded[k] EXCEPT !.rx = poll.seen[k]]
        /\ Polled[k] \in Row
  BY <1>1, <1>2 DEF Polled, Row
<1>4. /\ DOMAIN Polled = DOMAIN poll.loaded
      /\ Polled = [k \in DOMAIN Polled |-> Polled[k]]
  BY DEF Polled
<1>5. Polled \in Tables
  BY <1>1, <1>3, <1>4, TableType
<1> QED
  BY <1>1, <1>2, <1>3, <1>4, <1>5 DEF Row

-----------------------------------------------------------------------------
(* The steps *)

\* Steps that leave the table alone keep what is said of it.
LEMMA RowsUnchanged ==
  ASSUME RecordsInv, UNCHANGED rows,
         \A net \in networks : net \in networks'
  PROVE  Placed' /\ Distinct'
BY DEF RecordsInv, Placed, Distinct

LEMMA CreatorType ==
  ASSUME TypeOK, NEW c \in Creators
  PROVE  creator[c] \in Creation
BY DEF TypeOK

LEMMA NoCreationType ==
  NoCreation \in Creation
BY DEF NoCreation, Creation

LEMMA NoEditType ==
  NoEdit \in [loaded : Tables, setting : Settings] /\ Cardinality(DOMAIN NoEdit.loaded) <= 1
<1>1. NoEdit.loaded = <<>> /\ Cardinality(DOMAIN NoEdit.loaded) = 0
  BY NoRows, FS_EmptySet DEF NoEdit
<1>2. NoEdit.setting \in Settings
  BY DeviceRecordsAssumption DEF NoEdit
<1> QED
  BY <1>1, <1>2, NoRows DEF NoEdit

LEMMA NoPollType ==
  NoPoll \in PollState
BY NoRows DEF NoPoll, PollState

LEMMA RecordsInit == Init => RecordsInv
<1> SUFFICES ASSUME Init PROVE RecordsInv
  OBVIOUS
<1>1. DOMAIN rows = {} /\ rows \in Tables
  BY NoRows DEF Init
<1>2. TypeOK
  BY <1>1, NoRows, NoCreationType, NoEditType, NoPollType, DeviceRecordsAssumption DEF Init, TypeOK
<1>3. Placed /\ Distinct
  BY <1>1 DEF Placed, Distinct
<1>4. Drawn
  BY DEF Init, Drawn, NoCreation
<1>5. Loaded
  BY <1>1, NoRows DEF Init, Loaded, NoPoll
<1> QED
  BY <1>2, <1>3, <1>4, <1>5 DEF RecordsInv

LEMMA AllocateV4Inv ==
  ASSUME RecordsInv, NEW c \in Creators, AllocateV4(c)
  PROVE  RecordsInv'
<1> USE DEF RecordsInv
<1>1. PICK k \in Keys \ born :
        /\ born' = born \cup {k}
        /\ \/ /\ ~Exhausted(v4Network, UsedV4)
              /\ \E a \in Pool(v4Network) \ UsedV4 :
                   creator' = [creator EXCEPT ![c] = [pc |-> "v6", key |-> k, v4 |-> a, v6 |-> 0]]
           \/ Exhausted(v4Network, UsedV4) /\ UNCHANGED creator
  BY DEF AllocateV4
<1>2. UNCHANGED <<rows, v4Network, networks, editor, poll, sent, restarts>>
  BY DEF AllocateV4
<1>3. v4Network \in V4Networks
  BY DEF TypeOK
<1>4. CASE UNCHANGED creator
  <2>1. TypeOK'
    BY <1>1, <1>2, <1>4 DEF TypeOK
  <2>2. Drawn' /\ Loaded'
    BY <1>1, <1>2, <1>4 DEF Drawn, Loaded
  <2> QED
    BY <1>2, <2>1, <2>2, RowsUnchanged
<1>5. ASSUME NEW a \in Pool(v4Network),
             creator' = [creator EXCEPT ![c] = [pc |-> "v6", key |-> k, v4 |-> a, v6 |-> 0]]
      PROVE  RecordsInv'
  <2>1. a \in V4Addresses
    BY <1>3, V4InType
  <2>2. creator' \in [Creators -> Creation]
    BY <1>5, <2>1 DEF TypeOK, Creation
  <2>3. TypeOK'
    BY <1>1, <1>2, <2>2 DEF TypeOK
  <2>4. creator'[c] = [pc |-> "v6", key |-> k, v4 |-> a, v6 |-> 0]
        /\ \A d \in Creators \ {c} : creator'[d] = creator[d]
    BY <1>5 DEF TypeOK
  <2>5. k \notin born /\ DOMAIN rows \subseteq born
    BY DEF TypeOK
  <2>6. Drawn'
    BY <1>1, <1>2, <2>4, <2>5 DEF Drawn, Loaded
  <2>7. Loaded'
    BY <1>1, <1>2 DEF Loaded
  <2> QED
    BY <1>2, <2>3, <2>6, <2>7, RowsUnchanged
<1> QED
  BY <1>1, <1>4, <1>5

LEMMA AllocateV6Inv ==
  ASSUME RecordsInv, NEW c \in Creators, AllocateV6(c)
  PROVE  RecordsInv'
<1> USE DEF RecordsInv
<1>1. UNCHANGED <<rows, born, v4Network, networks, editor, poll, sent, restarts>> /\ creator[c].pc = "v6"
  BY DEF AllocateV6
<1>2. Loaded'
  BY <1>1 DEF Loaded
<1>3. \A d \in Creators \ {c} : creator'[d] = creator[d]
  BY DEF AllocateV6, TypeOK
<1>4. CASE creator' = [creator EXCEPT ![c] = NoCreation]
  <2>1. TypeOK'
    BY <1>1, <1>4, NoCreationType DEF TypeOK
  <2>2. creator'[c] = NoCreation
    BY <1>4 DEF TypeOK
  <2>3. Drawn'
    BY <1>1, <1>3, <2>2 DEF Drawn, NoCreation
  <2> QED
    BY <1>1, <1>2, <2>1, <2>3, RowsUnchanged
<1>5. ASSUME NEW a \in Pool(V6Network),
             creator' = [creator EXCEPT ![c].pc = "commit", ![c].v6 = a]
      PROVE  RecordsInv'
  <2>1. a \in Network(V6Network)
    BY PoolInNetwork
  <2>2. creator[c] \in Creation
    BY CreatorType
  <2>3. creator'[c] = [creator[c] EXCEPT !.pc = "commit", !.v6 = a]
    BY <1>5 DEF TypeOK
  <2>4. /\ creator'[c] \in Creation
        /\ creator'[c].pc = "commit" /\ creator'[c].v6 = a
        /\ creator'[c].key = creator[c].key /\ creator'[c].v4 = creator[c].v4
    BY <2>1, <2>2, <2>3 DEF Creation
  <2>6. creator' = [creator EXCEPT ![c] = creator'[c]]
    BY <1>5 DEF TypeOK
  <2>7. creator' \in [Creators -> Creation]
    BY <2>4, <2>6 DEF TypeOK
  <2>8. TypeOK'
    BY <1>1, <2>7 DEF TypeOK
  <2>5. Drawn'
    BY <1>1, <1>3, <2>4 DEF Drawn
  <2> QED
    BY <1>1, <1>2, <2>5, <2>8, RowsUnchanged
<1> QED
  BY <1>4, <1>5 DEF AllocateV6

LEMMA InsertInv ==
  ASSUME RecordsInv, NEW c \in Creators, Insert(c)
  PROVE  RecordsInv'
<1> USE DEF RecordsInv
<1> DEFINE j == creator[c]
<1>1. UNCHANGED <<born, v4Network, networks, editor, poll, sent, restarts>> /\ j.pc = "commit"
      /\ creator' = [creator EXCEPT ![c] = NoCreation]
  BY DEF Insert
<1>2. creator'[c] = NoCreation /\ \A d \in Creators \ {c} : creator'[d] = creator[d]
  BY <1>1 DEF TypeOK
<1>3. /\ j.key \in born \ DOMAIN rows /\ j.v6 \in Pool(V6Network)
      /\ \A d \in Creators \ {c} : creator[d].pc # "idle" => creator[d].key # j.key
  BY <1>1 DEF Drawn
<1>4. v4Network \in networks /\ networks \subseteq V4Networks /\ j.v4 \in Pool(v4Network)
  BY <1>1 DEF TypeOK, Drawn
<1>5. j.v6 \in Network(V6Network) /\ j.v4 \in V4Addresses
  BY <1>3, <1>4, PoolInNetwork, V4InType
<1>6. CASE UNCHANGED rows
  <2>1. TypeOK'
    BY <1>1, <1>6, NoCreationType DEF TypeOK
  <2>2. Drawn'
    BY <1>1, <1>2, <1>6 DEF Drawn, NoCreation
  <2>3. Loaded'
    BY <1>1, <1>6 DEF Loaded
  <2> QED
    BY <1>1, <1>6, <2>1, <2>2, <2>3, RowsUnchanged
<1>7. ASSUME Unique(j.v4, j.v6), NEW s \in Settings,
             rows' = [k \in DOMAIN rows \cup {j.key} |->
                        IF k = j.key THEN [v4 |-> j.v4, v6 |-> j.v6, setting |-> s, rx |-> 0]
                        ELSE rows[k]]
      PROVE  RecordsInv'
  <2>1. /\ DOMAIN rows' = DOMAIN rows \cup {j.key}
        /\ rows'[j.key] = [v4 |-> j.v4, v6 |-> j.v6, setting |-> s, rx |-> 0]
        /\ \A k \in DOMAIN rows : rows'[k] = rows[k]
    BY <1>3, <1>7
  <2>2. [v4 |-> j.v4, v6 |-> j.v6, setting |-> s, rx |-> 0] \in Row
    BY <1>5, DeviceRecordsAssumption DEF Row
  <2>3. /\ DOMAIN rows \subseteq Keys /\ j.key \in Keys
        /\ \A k \in DOMAIN rows : rows[k] \in Row
    BY <1>3, TableType DEF TypeOK
  <2>4. rows' = [k \in DOMAIN rows' |-> rows'[k]]
    BY <1>7
  <2>5. rows' \in Tables
    BY <2>1, <2>2, <2>3, <2>4, TableType
  <2>6. TypeOK'
    BY <1>1, <1>3, <2>1, <2>5, NoCreationType DEF TypeOK
  <2>7. Drawn'
    BY <1>1, <1>2, <1>3, <2>1 DEF Drawn, NoCreation
  <2>8. \A k \in DOMAIN rows : rows[k].v4 # j.v4 /\ rows[k].v6 # j.v6
    BY <1>7 DEF Unique, UsedV4, UsedV6
  <2>9. Placed' /\ Distinct'
    BY <1>1, <1>3, <1>4, <2>1, <2>8 DEF Placed, Distinct
  <2>10. j.key \notin DOMAIN poll.loaded
    BY <1>1 DEF Drawn
  <2>11. Loaded'
    BY <1>1, <2>1, <2>10 DEF Loaded
  <2> QED
    BY <2>6, <2>7, <2>9, <2>11
<1> QED
  BY <1>6, <1>7 DEF Insert

LEMMA LoadForEditInv ==
  ASSUME RecordsInv, NEW e \in Editors, LoadForEdit(e)
  PROVE  RecordsInv'
<1> USE DEF RecordsInv
<1>1. PICK k \in DOMAIN rows, s \in Settings :
        editor' = [editor EXCEPT ![e] = [loaded |-> [l \in {k} |-> rows[k]], setting |-> s]]
  BY DEF LoadForEdit
<1>2. UNCHANGED <<rows, born, v4Network, networks, creator, poll, sent, restarts>>
  BY DEF LoadForEdit
<1> DEFINE T == [l \in {k} |-> rows[k]]
<1>3. DOMAIN T = {k} /\ T = [l \in DOMAIN T |-> T[l]] /\ \A l \in DOMAIN T : T[l] = rows[k]
  OBVIOUS
<1>4. k \in Keys /\ rows[k] \in Row
  BY TableType DEF TypeOK
<1>5. T \in Tables
  BY <1>3, <1>4, TableType
<1>6. Cardinality(DOMAIN T) <= 1
  <2>1. Cardinality({k}) = 1
    BY FS_Singleton
  <2> QED
    BY <1>3, <2>1
<1> HIDE DEF T
<1>7. editor' = [editor EXCEPT ![e] = [loaded |-> T, setting |-> s]]
  BY <1>1 DEF T
<1>8. /\ editor' \in [Editors -> [loaded : Tables, setting : Settings]]
      /\ \A d \in Editors : Cardinality(DOMAIN editor'[d].loaded) <= 1
  BY <1>5, <1>6, <1>7 DEF TypeOK
<1>9. TypeOK'
  BY <1>2, <1>8 DEF TypeOK
<1>10. Drawn' /\ Loaded'
  BY <1>2 DEF Drawn, Loaded
<1> QED
  BY <1>2, <1>9, <1>10, RowsUnchanged

\* A commit that keeps the addresses keeps what is said of the table.
LEMMA CommitInv ==
  ASSUME RecordsInv, UNCHANGED <<born, networks>>,
         rows' \in Tables, DOMAIN rows' = DOMAIN rows,
         \A k \in DOMAIN rows : rows'[k].v4 = rows[k].v4 /\ rows'[k].v6 = rows[k].v6
  PROVE  /\ rows' \in Tables /\ DOMAIN rows' \subseteq born' /\ born' \subseteq Keys
         /\ Placed' /\ Distinct'
BY DEF RecordsInv, TypeOK, Placed, Distinct

LEMMA SaveEditRows ==
  ASSUME RecordsInv, NEW e \in Editors, SaveEdit(e)
  PROVE  /\ rows' \in Tables /\ DOMAIN rows' = DOMAIN rows
         /\ \A k \in DOMAIN rows :
              /\ rows'[k].v4 = rows[k].v4 /\ rows'[k].v6 = rows[k].v6
              /\ rows'[k].rx = rows[k].rx
              /\ \/ rows'[k].setting = rows[k].setting
                 \/ k \in DOMAIN editor[e].loaded /\ rows'[k].setting = editor[e].setting
<1>1. CASE UNCHANGED rows
  BY <1>1 DEF RecordsInv, TypeOK
<1>2. CASE Commit(editor[e].loaded, Edited(e))
  <2>1. rows \in Tables
    BY DEF RecordsInv, TypeOK
  <2>2. /\ editor[e].loaded \in Tables /\ Edited(e) \in Tables
        /\ DOMAIN Edited(e) = DOMAIN editor[e].loaded
        /\ \A k \in DOMAIN editor[e].loaded :
             /\ Edited(e)[k].v4 = editor[e].loaded[k].v4
             /\ Edited(e)[k].v6 = editor[e].loaded[k].v6
             /\ Edited(e)[k].rx = editor[e].loaded[k].rx
             /\ Edited(e)[k].setting = editor[e].setting
    BY EditedType DEF RecordsInv
  <2>3. \A k \in DOMAIN editor[e].loaded : /\ Edited(e)[k].v4 = editor[e].loaded[k].v4
                                           /\ Edited(e)[k].v6 = editor[e].loaded[k].v6
    BY <2>2
  <2> QED
    BY <1>2, <2>1, <2>2, <2>3, CommitEffect
<1> QED
  BY <1>1, <1>2 DEF SaveEdit

LEMMA PollCommitRows ==
  ASSUME RecordsInv, PollCommit
  PROVE  /\ rows' \in Tables /\ DOMAIN rows' = DOMAIN rows
         /\ \A k \in DOMAIN rows :
              /\ rows'[k].v4 = rows[k].v4 /\ rows'[k].v6 = rows[k].v6
              /\ rows'[k].setting = rows[k].setting
              /\ \/ rows'[k].rx = rows[k].rx
                 \/ k \in DOMAIN poll.loaded /\ rows'[k].rx = poll.seen[k]
<1>1. CASE UNCHANGED rows
  BY <1>1 DEF RecordsInv, TypeOK
<1>2. CASE Commit(poll.loaded, Polled)
  <2>1. rows \in Tables /\ DOMAIN poll.loaded \subseteq DOMAIN poll.seen
    BY DEF RecordsInv, TypeOK, Loaded
  <2>2. /\ poll.loaded \in Tables /\ Polled \in Tables
        /\ DOMAIN Polled = DOMAIN poll.loaded
        /\ \A k \in DOMAIN poll.loaded :
             /\ Polled[k].v4 = poll.loaded[k].v4
             /\ Polled[k].v6 = poll.loaded[k].v6
             /\ Polled[k].setting = poll.loaded[k].setting
             /\ Polled[k].rx = poll.seen[k]
    BY PolledType DEF RecordsInv
  <2>3. \A k \in DOMAIN poll.loaded : /\ Polled[k].v4 = poll.loaded[k].v4
                                      /\ Polled[k].v6 = poll.loaded[k].v6
    BY <2>2
  <2> QED
    BY <1>2, <2>1, <2>2, <2>3, CommitEffect
<1> QED
  BY <1>1, <1>2 DEF PollCommit

LEMMA SaveEditInv ==
  ASSUME RecordsInv, NEW e \in Editors, SaveEdit(e)
  PROVE  RecordsInv'
<1> USE DEF RecordsInv
<1>1. /\ UNCHANGED <<born, v4Network, networks, creator, poll, sent, restarts>>
      /\ editor' = [editor EXCEPT ![e] = NoEdit]
  BY DEF SaveEdit
<1>2. rows' \in Tables /\ DOMAIN rows' \subseteq born' /\ born' \subseteq Keys
      /\ Placed' /\ Distinct'
  BY <1>1, SaveEditRows, CommitInv
<1>3. TypeOK'
  BY <1>1, <1>2, NoEditType DEF TypeOK
<1>4. Drawn' /\ Loaded'
  BY <1>1, SaveEditRows DEF Drawn, Loaded
<1> QED
  BY <1>2, <1>3, <1>4

LEMMA PollCommitInv ==
  ASSUME RecordsInv, PollCommit
  PROVE  RecordsInv'
<1> USE DEF RecordsInv
<1>1. UNCHANGED <<born, v4Network, networks, creator, editor, sent, restarts>> /\ poll' = NoPoll
  BY DEF PollCommit
<1>2. rows' \in Tables /\ DOMAIN rows' \subseteq born' /\ born' \subseteq Keys
      /\ Placed' /\ Distinct'
  BY <1>1, PollCommitRows, CommitInv
<1>3. TypeOK'
  BY <1>1, <1>2, NoPollType DEF TypeOK
<1>5. DOMAIN poll'.seen = {} /\ DOMAIN poll'.loaded = {}
  BY <1>1, NoRows DEF NoPoll
<1>4. Drawn'
  BY <1>1, <1>5, PollCommitRows DEF Drawn
<1>6. Loaded'
  BY <1>1, <1>5 DEF Loaded
<1> QED
  BY <1>2, <1>3, <1>4, <1>6

\* Counts of fewer peers, or of one peer more, or another count of a peer.
LEMMA CountsChange ==
  ASSUME sent \in Counts, NEW k \in Keys
  PROVE  /\ [l \in DOMAIN sent \ {k} |-> sent[l]] \in Counts
         /\ [l \in DOMAIN sent \cup {k} |-> IF l = k THEN 0 ELSE sent[l]] \in Counts
         /\ \A n \in 0..MaxTraffic : [sent EXCEPT ![k] = n] \in Counts
<1>1. DOMAIN sent \subseteq Keys /\ \A l \in DOMAIN sent : sent[l] \in 0..MaxTraffic
  BY CountsType
<1>2. 0 \in 0..MaxTraffic
  BY DeviceRecordsAssumption
<1>3. ASSUME NEW K \in SUBSET Keys, NEW f \in [K -> 0..MaxTraffic]
      PROVE  f \in Counts
  BY DEF Counts
<1>4. [l \in DOMAIN sent \ {k} |-> sent[l]] \in [DOMAIN sent \ {k} -> 0..MaxTraffic]
  BY <1>1
<1>5. [l \in DOMAIN sent \cup {k} |-> IF l = k THEN 0 ELSE sent[l]]
        \in [DOMAIN sent \cup {k} -> 0..MaxTraffic]
  BY <1>1, <1>2
<1>6. sent \in [DOMAIN sent -> 0..MaxTraffic]
  BY <1>1, CountsType
<1>7. \A n \in 0..MaxTraffic : [sent EXCEPT ![k] = n] \in [DOMAIN sent -> 0..MaxTraffic]
  BY <1>6
<1>8. DOMAIN sent \ {k} \in SUBSET Keys /\ DOMAIN sent \cup {k} \in SUBSET Keys
  BY <1>1
<1>9. [l \in DOMAIN sent \ {k} |-> sent[l]] \in Counts
  BY <1>3, <1>4, <1>8
<1>10. [l \in DOMAIN sent \cup {k} |-> IF l = k THEN 0 ELSE sent[l]] \in Counts
  BY <1>3, <1>5, <1>8
<1> QED
  BY <1>1, <1>3, <1>7, <1>9, <1>10

LEMMA DeleteInv ==
  ASSUME RecordsInv, NEW k \in Keys, Delete(k)
  PROVE  RecordsInv'
<1> USE DEF RecordsInv
<1>1. UNCHANGED <<born, v4Network, networks, creator, editor, poll, restarts>>
  BY DEF Delete
<1>2. /\ DOMAIN rows' = DOMAIN rows \ {k} /\ rows' = [l \in DOMAIN rows' |-> rows'[l]]
      /\ \A l \in DOMAIN rows' : rows'[l] = rows[l]
  BY DEF Delete
<1>3. rows' \in Tables
  BY <1>2, TableType DEF TypeOK
<1>4. sent' \in Counts
  BY CountsChange DEF Delete, TypeOK
<1>5. TypeOK'
  BY <1>1, <1>2, <1>3, <1>4 DEF TypeOK
<1>6. Placed' /\ Distinct' /\ Drawn' /\ Loaded'
  BY <1>1, <1>2 DEF Placed, Distinct, Drawn, Loaded
<1> QED
  BY <1>5, <1>6

LEMMA PeersInv ==
  ASSUME RecordsInv, NEW k \in Keys, Connect(k) \/ Disconnect(k) \/ Traffic(k)
  PROVE  RecordsInv'
<1> USE DEF RecordsInv
<1>1. UNCHANGED <<rows, born, v4Network, networks, creator, editor, poll, restarts>>
  BY DEF Connect, Disconnect, Traffic
<1>2. sent \in Counts
  BY DEF TypeOK
<1>3. CASE Traffic(k)
  <2>1. sent[k] \in 0..MaxTraffic /\ sent[k] < MaxTraffic
    BY <1>2, <1>3, CountsType DEF Traffic
  <2>2. sent[k] + 1 \in 0..MaxTraffic
    BY <2>1, DeviceRecordsAssumption
  <2> QED
    BY <1>1, <1>2, <1>3, <2>2, CountsChange, RowsUnchanged DEF Traffic, TypeOK, Drawn, Loaded
<1>4. CASE Connect(k)
  BY <1>1, <1>2, <1>4, CountsChange, RowsUnchanged DEF Connect, TypeOK, Drawn, Loaded
<1>5. CASE Disconnect(k)
  BY <1>1, <1>2, <1>5, CountsChange, RowsUnchanged DEF Disconnect, TypeOK, Drawn, Loaded
<1> QED
  BY <1>3, <1>4, <1>5

LEMMA PollReadsInv ==
  ASSUME RecordsInv, PollPeers \/ PollSelect
  PROVE  RecordsInv'
<1> USE DEF RecordsInv
<1>1. UNCHANGED <<rows, born, v4Network, networks, creator, editor, sent, restarts>>
  BY DEF PollPeers, PollSelect
<1>2. rows \in Tables /\ sent \in Counts /\ poll \in PollState /\ DOMAIN rows \subseteq born
  BY DEF TypeOK
<1>3. \A k \in DOMAIN rows : k \in Keys /\ rows[k] \in Row
  BY <1>2, TableType
<1>4. CASE PollPeers
  <2>1. poll' = [poll EXCEPT !.pc = "select", !.seen = sent] /\ poll.pc = "sleep"
    BY <1>4 DEF PollPeers
  <2>2. poll' \in PollState /\ poll'.loaded = poll.loaded /\ poll'.pc = "select"
    BY <1>2, <2>1 DEF PollState
  <2>3. DOMAIN poll.loaded = {}
    BY <2>1 DEF Loaded
  <2>4. Loaded' /\ Drawn'
    BY <1>1, <2>2, <2>3 DEF Loaded, Drawn
  <2> QED
    BY <1>1, <2>2, <2>4, RowsUnchanged DEF TypeOK
<1>5. CASE PollSelect
  <2> DEFINE found == DOMAIN poll.seen \cap DOMAIN rows
             L == [k \in found |-> rows[k]]
  <2>1. DOMAIN L = found /\ L = [k \in DOMAIN L |-> L[k]] /\ \A k \in DOMAIN L : L[k] = rows[k]
    OBVIOUS
  <2>2. L \in Tables
    BY <1>3, <2>1, TableType
  <2> HIDE DEF L
  <2>3. CASE poll' = NoPoll
    <3>1. DOMAIN poll'.seen = {} /\ DOMAIN poll'.loaded = {}
      BY <2>3, NoRows DEF NoPoll
    <3>2. Loaded' /\ Drawn'
      BY <1>1, <3>1 DEF Loaded, Drawn
    <3> QED
      BY <1>1, <2>3, <3>2, NoPollType, RowsUnchanged DEF TypeOK
  <2>4. CASE poll' = [poll EXCEPT !.pc = "commit", !.loaded = L]
    <3>1. poll' \in PollState
          /\ poll'.seen = poll.seen /\ poll'.loaded = L /\ poll'.pc = "commit"
      BY <1>2, <2>2, <2>4 DEF PollState
    <3>2. Loaded'
      BY <1>1, <1>2, <2>1, <3>1 DEF Loaded
    <3>3. Drawn'
      BY <1>1, <2>1, <3>1 DEF Drawn
    <3> QED
      BY <1>1, <3>1, <3>2, <3>3, RowsUnchanged DEF TypeOK
  <2> QED
    BY <1>5, <2>3, <2>4 DEF PollSelect, L
<1> QED
  BY <1>4, <1>5

LEMMA RestartInv ==
  ASSUME RecordsInv, Restart
  PROVE  RecordsInv'
<1> USE DEF RecordsInv
<1>1. UNCHANGED <<rows, born>> /\ poll' = NoPoll
      /\ creator' = [c \in Creators |-> NoCreation] /\ editor' = [e \in Editors |-> NoEdit]
      /\ v4Network' \in V4Networks /\ networks' = networks \cup {v4Network'}
      /\ restarts' \in 0..MaxRestarts
  BY DeviceRecordsAssumption DEF Restart, TypeOK
<1>2. sent' \in Counts
  <2>1. PICK kept \in {DOMAIN sent, {}} :
          sent' = [k \in DOMAIN rows |-> IF k \in kept THEN sent[k] ELSE 0]
    BY DEF Restart
  <2>2. DOMAIN rows \subseteq Keys /\ \A k \in DOMAIN sent : sent[k] \in 0..MaxTraffic
    BY TableType, CountsType DEF TypeOK
  <2>3. sent' \in [DOMAIN rows -> 0..MaxTraffic]
    BY <2>1, <2>2, DeviceRecordsAssumption
  <2> QED
    BY <2>2, <2>3 DEF Counts
<1>3. TypeOK'
  BY <1>1, <1>2, NoPollType, NoEditType, NoCreationType DEF TypeOK
<1>4. Drawn'
  BY <1>1 DEF Drawn, NoCreation
<1>5. DOMAIN poll'.seen = {} /\ DOMAIN poll'.loaded = {}
  BY <1>1, NoRows DEF NoPoll
<1>6. Loaded'
  BY <1>1, <1>5 DEF Loaded
<1> QED
  BY <1>1, <1>3, <1>4, <1>6, RowsUnchanged

-----------------------------------------------------------------------------

LEMMA RecordsNext ==
  ASSUME RecordsInv, [Next]_vars
  PROVE  RecordsInv'
<1>1. CASE UNCHANGED vars
  BY <1>1 DEF vars, RecordsInv, TypeOK, Placed, Distinct, Drawn, Loaded
<1>2. CASE Next
  BY <1>2, AllocateV4Inv, AllocateV6Inv, InsertInv, LoadForEditInv, SaveEditInv, DeleteInv,
     PeersInv, PollReadsInv, PollCommitInv, RestartInv DEF Next, Poll
<1> QED
  BY <1>1, <1>2

LEMMA RecordsAlways == Spec => []RecordsInv
BY RecordsInit, RecordsNext, PTL DEF Spec

\* Rows, requests and polls have their types, whatever the networks.
THEOREM RecordsTyped == Spec => []TypeOK
<1>1. RecordsInv => TypeOK
  BY DEF RecordsInv
<1> QED
  BY <1>1, RecordsAlways, PTL

\* No two devices ever share a tunnel address, and none has the server's but one
\* that was given it under another network (allocate_ipv4, allocate_ipv6,
\* _server_addresses, the unique constraints of the table).
THEOREM AddressesUnique == Spec => []NoSharedAddress
<1>1. RecordsInv => NoSharedAddress
  <2> SUFFICES ASSUME RecordsInv PROVE NoSharedAddress
    OBVIOUS
  <2>1. Server(V6Network) \notin Pool(V6Network) /\ Server(v4Network) \notin Pool(v4Network)
    BY PoolInNetwork DEF RecordsInv, TypeOK
  <2> QED
    BY <2>1 DEF RecordsInv, Placed, Distinct, NoSharedAddress
<1> QED
  BY <1>1, RecordsAlways, PTL

\* Only the commit of a poll changes counters, only a saved form the settings.
LEMMA ColumnChanges ==
  ASSUME RecordsInv, [Next]_vars,
         NEW k \in DOMAIN rows, k \in DOMAIN rows'
  PROVE  /\ rows'[k].rx # rows[k].rx => /\ poll.pc = "commit" /\ k \in DOMAIN poll.loaded
                                         /\ poll' = NoPoll
         /\ rows'[k].setting # rows[k].setting =>
              \E e \in Editors : /\ k \in DOMAIN editor[e].loaded
                                 /\ editor'[e] = NoEdit
                                 /\ editor[e].setting = rows'[k].setting
<1>1. CASE rows'[k] = rows[k]
  BY <1>1
<1>2. ASSUME NEW e \in Editors, SaveEdit(e)
      PROVE  /\ rows'[k].rx = rows[k].rx
             /\ rows'[k].setting # rows[k].setting =>
                  /\ k \in DOMAIN editor[e].loaded /\ editor'[e] = NoEdit
                  /\ editor[e].setting = rows'[k].setting
  <2>1. editor'[e] = NoEdit
    BY <1>2 DEF SaveEdit, RecordsInv, TypeOK
  <2> QED
    BY <1>2, <2>1, SaveEditRows
<1>3. CASE PollCommit
  <2>1. poll.pc = "commit" /\ poll' = NoPoll
    BY <1>3 DEF PollCommit
  <2> QED
    BY <1>3, <2>1, PollCommitRows
<1>4. ASSUME NEW c \in Creators, Insert(c)
      PROVE  rows'[k] = rows[k]
  <2>1. creator[c].key \notin DOMAIN rows
    BY <1>4 DEF Insert, RecordsInv, Drawn
  <2> QED
    BY <1>4, <2>1 DEF Insert
<1>5. ASSUME NEW l \in Keys, Delete(l)
      PROVE  rows'[k] = rows[k]
  BY <1>5 DEF Delete
<1>6. CASE UNCHANGED rows
  BY <1>1, <1>6
<1>7. \/ UNCHANGED rows
      \/ \E c \in Creators : Insert(c)
      \/ \E e \in Editors : SaveEdit(e)
      \/ \E l \in Keys : Delete(l)
      \/ PollCommit
  BY DEF Next, vars, AllocateV4, AllocateV6, LoadForEdit, Connect, Disconnect, Traffic, Poll,
         PollPeers, PollSelect, Restart
<1> QED
  BY <1>1, <1>2, <1>3, <1>4, <1>5, <1>6, <1>7

\* A poll none of whose devices was deleted writes every count it has read.
LEMMA PollWrites ==
  ASSUME RecordsInv, [Next]_vars,
         poll.pc = "commit", poll' = NoPoll, UNCHANGED restarts,
         DOMAIN poll.loaded \subseteq DOMAIN rows,
         NEW k \in DOMAIN poll.loaded
  PROVE  rows'[k].rx = poll.seen[k]
<1>1. poll' # poll
  BY DEF NoPoll
<1>2. PollCommit
  <2>1. ~Restart
    BY DEF Restart, RecordsInv, TypeOK
  <2> QED
    BY <1>1, <2>1 DEF Next, vars, AllocateV4, AllocateV6, Insert, LoadForEdit, SaveEdit, Delete,
       Connect, Disconnect, Traffic, Poll, PollPeers, PollSelect
<1>3. Commit(poll.loaded, Polled)
  BY <1>2 DEF PollCommit, Flushable
<1>4. /\ poll.loaded \in Tables /\ rows \in Tables
      /\ Polled[k].rx = poll.seen[k] /\ poll.loaded[k].rx = rows[k].rx
  BY PolledType DEF RecordsInv, TypeOK, Loaded
<1>5. rows'[k] = Flush(poll.loaded[k], Polled[k], rows[k])
  BY <1>3 DEF Commit
<1>6. DOMAIN rows[k] = {"v4", "v6", "setting", "rx"}
  BY <1>4, TableType DEF Row
<1>7. rows'[k].rx = IF Polled[k].rx = poll.loaded[k].rx THEN rows[k].rx ELSE Polled[k].rx
  BY <1>5, <1>6 DEF Flush
<1> QED
  BY <1>4, <1>7

\* Edits and polls, however stale what they loaded, write only their own columns,
\* and what a poll has read is not lost.
THEOREM ColumnsKept == Spec => NoLostColumn
<1>1. RecordsInv /\ [Next]_vars => [KeepsColumns]_vars
  BY ColumnChanges, PollWrites DEF KeepsColumns
<1> QED
  BY <1>1, RecordsAlways, PTL DEF Spec, NoLostColumn

\* As long as the process has known one network, a creation that ends without an
\* address found all of the pool in use.
THEOREM RefusedWhenFull == Spec => RefusedOnlyWhenFull
<1>1. RecordsInv /\ [Next]_vars =>
        [born' # born /\ creator' = creator /\ networks = {v4Network} =>
           Pool(v4Network) \subseteq UsedV4]_vars
  <2> SUFFICES ASSUME RecordsInv, Next, born' # born, creator' = creator,
                      networks = {v4Network}
               PROVE  Pool(v4Network) \subseteq UsedV4
    OBVIOUS
  <2>1. PICK c \in Creators : AllocateV4(c)
    BY DEF Next, AllocateV6, Insert, LoadForEdit, SaveEdit, Delete, Connect, Disconnect, Traffic,
           Poll, PollPeers, PollSelect, PollCommit, Restart
  <2>2. CASE Exhausted(v4Network, UsedV4)
    <3>1. v4Network \in V4Networks /\ UsedV4 \subseteq Pool(v4Network)
      BY DEF RecordsInv, TypeOK, Placed, UsedV4
    <3> QED
      BY <2>2, <3>1, FullPool
  <2>3. CASE ~Exhausted(v4Network, UsedV4)
    <3>1. PICK k, a : creator' = [creator EXCEPT ![c] = [pc |-> "v6", key |-> k, v4 |-> a, v6 |-> 0]]
      BY <2>1, <2>3 DEF AllocateV4
    <3>2. creator'[c].pc = "v6" /\ creator[c].pc = "idle"
      BY <2>1, <3>1 DEF AllocateV4, RecordsInv, TypeOK
    <3> QED
      BY <3>2
  <2> QED
    BY <2>2, <2>3
<1> QED
  BY <1>1, RecordsAlways, PTL DEF Spec, RefusedOnlyWhenFull

=============================================================================
