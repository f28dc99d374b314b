---------------------------- MODULE OrderStates -----------------------------
(***************************************************************************)
(* The order statuses and the transition matrix of OrderStateMachine       *)
(* (core/state_machine.py).                                                *)
(***************************************************************************)

OrderStatus == {"CREATED", "SUBMITTED", "PARTIALLY_FILLED",
                "FILLED", "CANCELLED", "REJECTED"}

AllowedTransitions ==
     {<<"CREATED", s>> : s \in {"SUBMITTED", "REJECTED"}}
  \cup {<<"SUBMITTED", s>> :
          s \in {"FILLED", "PARTIALLY_FILLED", "CANCELLED", "REJECTED"}}
  \cup {<<"PARTIALLY_FILLED", s>> :
          s \in {"FILLED", "PARTIALLY_FILLED", "CANCELLED"}}

CanTransition(from, to) == <<from, to>> \in AllowedTransitions

(* The statuses in which the broker still works an order. *)
Open == {"SUBMITTED", "PARTIALLY_FILLED"}
=============================================================================
