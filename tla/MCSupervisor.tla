---------------------------- MODULE MCSupervisor ----------------------------
(***************************************************************************)
(* Small configurations of nulld.  The services are a part of              *)
(* builtin_services (cage needs the others), with the restart policies a   *)
(* configuration file can give.                                            *)
(***************************************************************************)
EXTENDS Supervisor, TLC

BuiltinNeeds ==
  [s \in Services |-> IF s = "cage" THEN Services \ {"cage"} ELSE {}]

MixedPolicies ==
  [s \in Services |-> CASE s = "cage"   -> "on-failure"
                        [] s = "egress" -> "always"
                        [] OTHER        -> "never"]

(* Pids are only compared for equality, so they are interchangeable. *)
PidSymmetry == Permutations(Pids)
=============================================================================
