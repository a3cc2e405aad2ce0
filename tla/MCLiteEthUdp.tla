---------------------------- MODULE MCLiteEthUdp ----------------------------
(* The datagram path on a link with the DTLS server and one other host. *)
EXTENDS LiteEthUdp

CONSTANT other

MCHosts == {Remote, other}

\* Every kind of frame; ARP replies from both hosts.
MCArrivals == {<<"arp_reply", Remote>>, <<"arp_reply", other>>,
               <<"arp_request", Remote>>, <<"udp", Remote>>,
               <<"icmp_echo", other>>, <<"other", other>>}
=============================================================================
