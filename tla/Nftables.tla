------------------------------ MODULE Nftables ------------------------------
(***************************************************************************)
(* The wiregui nftables table, as the batches issued by                    *)
(* services/firewall.py see it: one chain per user holding that user's     *)
(* filter rules, and the jumps of the forward chain, each sending the      *)
(* traffic of one source to one user's chain.  A batch is atomic: when one *)
(* of its commands fails, none of them takes effect.  The jumps are a set: *)
(* their order, and duplicates, are abstracted.  The order matters where   *)
(* the jump of a deleted device remains beside that of the device that was *)
(* given its address, of which no property speaks.  Two users whose UUIDs  *)
(* share their first 12 digits would share a chain; chains are named here  *)
(* by the user.                                                            *)
(***************************************************************************)
EXTENDS Database, Functions

CONSTANTS NoRule        \* the places of a chain after its last rule

ASSUME NftablesAssumption == NoRule \notin Exprs

VARIABLES chains,       \* users that have a chain
          body,         \* what each user's chain holds at each place, in order of evaluation
          forward       \* <<source, user>>: the jumps of the forward chain

nftVars == <<chains, body, forward>>

\* A chain has a place for every rule.
Places  == 1..MaxRules
Chain   == [Places -> Exprs \cup {NoRule}]
NoRules == [u \in Users |-> [i \in Places |-> NoRule]]

NftTypeOK ==
  /\ chains \subseteq Users
  /\ body \in [Users -> Chain]
  /\ forward \subseteq (Addresses \cup Subnets) \X Users

\* Mutant: in order of insertion.
Place_ByAge(r, rows) == Cardinality({q \in rows : q.id <= r.id})

\* The place of a rule among a set of rule rows, ORDER BY priority, inserted_at.
Place(r, rows) ==
  Cardinality({q \in rows : q.priority < r.priority \/
                            (q.priority = r.priority /\ q.id <= r.id)})

\* The chain that a set of rule rows makes.
Ordered(rows) ==
  [i \in Places |-> IF \E r \in rows : Place(r, rows) = i
                    THEN (CHOOSE r \in rows : Place(r, rows) = i).expr
                    ELSE NoRule]

\* The jumps that send the traffic of a set of device rows to their owners' chains.
JumpsFor(rows) == UNION {AllowedIps(r) \X {r.owner} : r \in rows}

\* add chain: no error when the chain exists.
AddUserChain(u) ==
  /\ chains' = chains \cup {u}
  /\ UNCHANGED <<body, forward>>

\* add rule ... jump: the kernel refuses a jump to a chain that does not exist.
CanJump(u) == u \in chains

AddDeviceJumps(row) ==
  /\ forward' = forward \cup JumpsFor({row})
  /\ UNCHANGED <<chains, body>>

\* Mutant: the forward chain is not flushed.
RebuildAllRules_KeepsJumps(entries, bodies, jumps, orphans) ==
  /\ chains' = (chains \cup entries) \ orphans
  /\ body' = [u \in Users |-> IF u \in entries THEN bodies[u]
                              ELSE IF u \in orphans THEN NoRules[u]
                              ELSE body[u]]
  /\ forward' = forward \cup jumps

\* The batch of rebuild_all_rules for the users in entries: their chains are
\* created, flushed and refilled, the forward chain is flushed and refilled with
\* the jumps given, and the orphaned chains are flushed and deleted.  Flushing a
\* chain that no longer exists fails the batch.
CanRebuild(orphans) == orphans \subseteq chains

RebuildAllRules(entries, bodies, jumps, orphans) ==
  /\ chains' = (chains \cup entries) \ orphans
  /\ body' = [u \in Users |-> IF u \in entries THEN bodies[u]
                              ELSE IF u \in orphans THEN NoRules[u]
                              ELSE body[u]]
  /\ forward' = jumps

=============================================================================
