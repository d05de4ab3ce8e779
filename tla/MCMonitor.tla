------------------------------ MODULE MCMonitor ------------------------------
(* Instances of Monitor for TLC.  The names follow the shipped unit: node1 with *)
(* its peer node2, a loopback endpoint and the virtual address.                 *)
EXTENDS Monitor

MCUnset == [m \in Metrics |-> [l \in Levels |-> Unset]]
\* README.md's own example: only the critical CPU limit is lowered
MCCpuCrit60 == [MCUnset EXCEPT !["cpu"]["crit"] = 60]

MCLoopback == {"localhost", "127.0.0.1"}
MCUrlHost ==
  [own |-> "n1", peer |-> "n2", slo |-> "127.0.0.1", vip |-> "v", blank |-> NoHost]
MCOwnAddrs == {"n1", "127.0.0.1"}
MCVips == {"v"}

Own == <<"own">>
MCEndpoints == <<"own", "peer", "slo", "vip">>
WithBlank == Append(MCEndpoints, "blank")
PeerAndVip == <<"peer", "vip">>
NoList == <<>>

NginxList == <<"nginx">>
SshNginx == <<"ssh", "nginx">>
MCUnits == {"nginx", "health-monitor", "cron"}
MCUnitStates ==
  {<<"loaded", "active">>, <<"loaded", "activating">>, <<"loaded", "failed">>,
   <<"loaded", "inactive">>, <<"not-found", "inactive">>}

\* A quiet host
Quiet ==
  [cpu |-> 0, mem |-> 0, used |-> [m \in Mounts |-> 0], iowait |-> 0,
   swapping |-> FALSE, load1 |-> 0,
   unit |-> [u \in Units |-> <<"loaded", "active">>],
   clock |-> TRUE, up |-> [n \in Endpoints |-> TRUE], holds |-> Vips,
   journal |-> {}, reboot |-> FALSE]
MCStart == {Quiet}
=============================================================================
