-------------------------------- MODULE MCDaemon --------------------------------
(* Two daemons and a probe: one starts while the other one ends.            *)
EXTENDS Daemon
=================================================================================
