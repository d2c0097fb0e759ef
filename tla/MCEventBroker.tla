--------------------------- MODULE MCEventBroker ---------------------------
(* Two clients, two publishers of two events each, channels of two events. *)
EXTENDS EventBroker
=============================================================================
