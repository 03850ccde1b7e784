---------------------------- MODULE MCMqttExport ----------------------------
(***************************************************************************)
(* Scenarios of MqttExport: two entities of the same name, and firmwares   *)
(* that have their entities at other indexes or of another kind.           *)
(***************************************************************************)
EXTENDS MqttExport

E(name, kind) == [name |-> name, kind |-> kind]

MCScenarios ==
  <<\* the connection drops, the broker restarts, publishes fail
    [schemas |-> {<<E("a", "switch"), E("a", "fan")>>}, joins |-> 2, states |-> 1, faults |-> 2,
     events |-> {"offline", "evict", "drop", "broker restart"},
     failures |-> {"bridge", "remote diag", "device", "config", "state 1", "state 2",
                   "slow start", "slow entities"}],
    \* a remote whose session had ended comes back with another firmware
    [schemas |-> {<<E("a", "switch"), E("b", "sensor")>>, <<E("b", "fan"), E("a", "switch")>>},
     joins |-> 2, states |-> 1, faults |-> 2,
     events |-> {"reflash", "repeat", "timeout", "evict", "drop"},
     failures |-> {"config", "device", "state 1"}]>>
=============================================================================
