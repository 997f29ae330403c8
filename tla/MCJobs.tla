------------------------------- MODULE MCJobs -------------------------------
(* The components with a scheduled job, for TLC: a behaviour of the run is a *)
(* behaviour of one of them, the `desk`, under the fairness of its job.      *)
EXTENDS Kitchen, TerminalPushes, WebhookWatch

VARIABLE desk

JobsInit ==
  /\ KitchenInit /\ PushInit /\ WatchInit
  /\ desk \in {"kitchen", "terminal", "webhooks"}
  /\ desk # "kitchen" => kds
  /\ desk # "terminal" => bill.base = Issued

JobsNext ==
  /\ UNCHANGED desk
  /\ \/ desk = "kitchen" /\ KitchenNext /\ UNCHANGED <<pushVars, watchVars>>
     \/ desk = "terminal" /\ PushNext /\ UNCHANGED <<kitchenVars, watchVars>>
     \/ desk = "webhooks" /\ WatchNext /\ UNCHANGED <<kitchenVars, pushVars>>

(* The jobs of the kitchen and of the terminal find nothing to do while their component rests;  *)
(* the watch of the webhooks always lists, so its fairness is that of the desk it has.          *)
JobsFairness ==
  KitchenFairness /\ PushFairness /\ WF_watchVars(desk = "webhooks" /\ Reconcile)

JobsSpec == JobsInit /\ [][JobsNext]_<<desk, kitchenVars, pushVars, watchVars>> /\ JobsFairness

(* All rows, calls and passes have their types. *)
JobsTypesOK == KitchenTypeOK /\ PushTypeOK /\ WatchTypeOK

=============================================================================
