---------------------------- MODULE MCSensorDelivery ----------------------------
(* Small instances of SensorDelivery for TLC. *)
EXTENDS SensorDelivery, TLC

BatchSymmetry == Permutations(BatchIds)
================================================================================
