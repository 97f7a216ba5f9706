-------------------------- MODULE MCDeviceRecords ---------------------------
(***************************************************************************)
(* Small networks for TLC: five addresses with a pool of two, and four of  *)
(* these (a /30) with a pool of one, whose server has an address that a    *)
(* device may have been given under the larger network.                    *)
(***************************************************************************)
EXTENDS DeviceRecords, TLC

MCV4Networks == {[base |-> 0, size |-> 5], [base |-> 1, size |-> 4]}
MCV6Network  == [base |-> 0, size |-> 5]
=============================================================================
