----------------------------- MODULE MCWireGUI ------------------------------
(***************************************************************************)
(* Small instances of WireGUI for TLC.                                     *)
(***************************************************************************)
EXTENDS WireGUI, TLC

MCPriorities  == 1..2
MCOnePriority == {1}

\* Users, keys, addresses and tasks are interchangeable.
MCSymmetry == Permutations(Users) \cup Permutations(Devices) \cup
              Permutations(Addresses) \cup Permutations(Tasks)

DeviceOps   == {"create", "update", "delete", "delete_user"}
RuleOps     == {"rule_create", "rule_update", "rule_delete", "reorder"}
SerialOps   == DeviceOps \cup RuleOps
StartupOps  == {"create", "delete", "delete_user", "rule_create", "rule_delete", "rule_update_api"}
LivenessOps == {"create", "update", "delete", "rule_create"}
=============================================================================
