------------------------------ MODULE NetBuild ------------------------------
(***************************************************************************)
(* The packet builders of net_proto.c against the capacity of the caller's *)
(* buffer: what each one tests before it writes, the DHCP message option   *)
(* by option and the DNS query label by label. Contents are left out, and  *)
(* so are null arguments; the state is how far the buffer is written.      *)
(***************************************************************************)
EXTENDS Integers

CONSTANTS Capacities,     \* sizes of the caller's buffer
          PayloadLengths, \* lengths of the caller's payload
          LabelLengths,   \* lengths of the labels of the host name
          MaxLabels       \* bound on the labels of the host name

\* Lengths are not negative.
LengthsAssumption == Capacities \cup PayloadLengths \cup LabelLengths \subseteq Nat

VARIABLES at,       \* what is being built, or "done"
          capacity,
          out,      \* bytes of the buffer written so far, from its start
          labels,   \* labels written
          result    \* length returned, 0 for a refusal
vars == <<at, capacity, out, labels, result>>

Return(n) == at' = "done" /\ result' = n

Write(n) == out' = out + n

\* A builder that tests once, writes header and payload, and returns the sum.
Once(fits, n) ==
    /\ at = "start"
    /\ IF fits THEN out' = n /\ Return(n) ELSE Return(0) /\ UNCHANGED out
    /\ UNCHANGED <<capacity, labels>>

josh_eth_build(payload) ==
    Once(payload <= capacity /\ capacity - payload >= 14, 14 + payload)

josh_arp_build_ethernet_ipv4(operation) ==
    Once(capacity >= 28 /\ operation \in {1, 2}, 28)

josh_ipv4_build(payload) ==
    Once(payload <= 65515 /\ capacity >= 20 + payload, 20 + payload)

josh_udp_build_ipv4(payload) ==
    Once(payload <= 65527 /\ capacity >= 8 + payload, 8 + payload)

-----------------------------------------------------------------------------
\* dhcp_build_base: fixed part and message type after one test; a discover has
\* no further options, a request has two.
DhcpBase ==
    /\ at = "start"
    /\ IF capacity < 256 THEN Return(0) /\ UNCHANGED out
       ELSE Write(243) /\ at' \in {"requested_ip", "parameters"} /\ UNCHANGED result
    /\ UNCHANGED <<capacity, labels>>

\* One address option, tested on its own; then the next part. After the first
\* test of 256 bytes this refusal cannot happen: 243 + 6 + 6 = 255.
DhcpAddress(from, next) ==
    /\ at = from
    /\ IF out + 6 > capacity THEN Return(0) /\ UNCHANGED out
       ELSE Write(6) /\ at' = next /\ UNCHANGED result
    /\ UNCHANGED <<capacity, labels>>

\* The parameter list and the end marker.
DhcpParameters ==
    /\ at = "parameters"
    /\ IF out + 8 > capacity THEN Return(0) /\ UNCHANGED out
       ELSE Write(8) /\ Return(out + 8)
    /\ UNCHANGED <<capacity, labels>>

-----------------------------------------------------------------------------
\* josh_dns_build_a_query: the header.
DnsHeader ==
    /\ at = "start"
    /\ IF capacity < 17 THEN Return(0) /\ UNCHANGED out
       ELSE Write(12) /\ at' = "label" /\ UNCHANGED result
    /\ UNCHANGED <<capacity, labels>>

\* A faulty variant: the test forgets the zero byte after the last label.
LabelFitsWithoutRoot(n) == out + 1 + n + 4 <= capacity

\* The label, and what follows the last one, still fit.
LabelFits(n) == out + 1 + n + 5 <= capacity

\* One turn of the loop: an empty or overlong label or one that does not fit is
\* refused; after the last one come the root, the type and the class.
DnsLabel ==
    /\ at = "label"
    /\ \E n \in LabelLengths, final \in BOOLEAN :
          IF n = 0 \/ n > 63 \/ ~LabelFits(n)
          THEN Return(0) /\ UNCHANGED <<out, labels>>
          ELSE /\ final \/ labels + 1 < MaxLabels
               /\ labels' = labels + 1
               /\ IF final THEN Write(1 + n + 5) /\ Return(out + 1 + n + 5)
                  ELSE Write(1 + n) /\ UNCHANGED <<at, result>>
    /\ UNCHANGED capacity

-----------------------------------------------------------------------------
Init ==
    /\ at = "start" /\ capacity \in Capacities
    /\ out = 0 /\ labels = 0 /\ result = 0

Next ==
    \/ \E p \in PayloadLengths : josh_eth_build(p) \/ josh_ipv4_build(p) \/ josh_udp_build_ipv4(p)
    \/ \E operation \in 0 .. 3 : josh_arp_build_ethernet_ipv4(operation)
    \/ DhcpBase
    \/ DhcpAddress("requested_ip", "server_id") \/ DhcpAddress("server_id", "parameters")
    \/ DhcpParameters
    \/ DnsHeader \/ DnsLabel

Spec == Init /\ [][Next]_vars

-----------------------------------------------------------------------------
(* Properties. *)

\* No builder ever writes past the buffer, not even one that gives up half way,
\* and the length it returns is exactly what it has written.
WritesFit ==
    /\ out <= capacity
    /\ at = "done" /\ result # 0 => result = out
=============================================================================
