---------------------------- MODULE MCLifecycle ----------------------------
(* DaemonLifecycle with two process ids: the process that crashes and the  *)
(* failed start that gets as far as the task event can have different      *)
(* ones, so seven failures happen without a reused id; and every start may *)
(* also reuse an id whose worker names are still there.                    *)
EXTENDS DaemonLifecycle
=============================================================================
