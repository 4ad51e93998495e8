--------------------------- MODULE MCArpService ---------------------------
(* Small instances of the ARP service and the echo daemon: two hosts and a *)
(* gateway beside the controller.                                          *)
EXTENDS ArpService, TLC

CONSTANTS t1, t2, A, B, S, x, g, s, nil, none

MCThreads == {t1, t2}
MCMacs == {A, B, S}
MCIps == {x, g, s}
MCGateways == {g}
MCTableWork == {"insert", "remove", "lookup", "clear", "create", "age"}
MCPingWork == {"ping", "arp_packet", "echo_packet"}
MCShutdownWork == {"ping", "echo_packet", "shutdown"}
MCPacketWork == {"arp_packet", "ip_packet", "age", "remove"}
MCWorkloads == {MCTableWork, MCPingWork, MCShutdownWork, MCPacketWork}
Symmetry == Permutations(MCThreads) \union Permutations({A, B})

=============================================================================
