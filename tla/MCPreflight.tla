---------------------------- MODULE MCPreflight ----------------------------
(* Preflight for TLC. *)
EXTENDS Preflight

Native(host) == [docker |-> FALSE, linux |-> TRUE, host |-> host, box |-> {}, container |-> "none"]
Docker(box, container) ==
    [docker |-> TRUE, linux |-> TRUE, host |-> {"gzip"}, box |-> box, container |-> container]

(* One that passes, and one for every way to fail. *)
MCServers == {Native({"dump", "client", "gzip"}), Native({"dump", "client"}),
              Docker({"dump"}, "running"), Docker({"dump", "client"}, "exited")}
============================================================================
