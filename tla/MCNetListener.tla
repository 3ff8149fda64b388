----------------------------- MODULE MCNetListener -----------------------------
(* Instances of NetListener for TLC: a packet for every outcome of parsing. *)
EXTENDS NetListener

\* Frames of 60 bytes in one buffer.
Tcp == [size |-> 60, len |-> 60, ip |-> TRUE, v4 |-> TRUE, ihl |-> 5, proto |-> IPPROTO_TCP,
        addrs |-> 1, later |-> FALSE, fixed |-> 80, behind |-> 80, mapped |-> 3, placed |-> TRUE]
Udp == [Tcp EXCEPT !.proto = IPPROTO_UDP, !.addrs = 2, !.fixed = 53, !.behind = 53]

\* With IP options, and the second fragment of a packet, which has no TCP header.
TcpOpts  == [Tcp EXCEPT !.ihl = 6, !.fixed = 7]
Fragment == [Tcp EXCEPT !.addrs = 3, !.later = TRUE, !.fixed = 9, !.behind = 9]

\* Cut in the UDP header, in the TCP header, in the IP header, in the Ethernet header.
UdpShort == [Udp EXCEPT !.size = 40, !.len = 40]
TcpShort == [Tcp EXCEPT !.size = 50, !.len = 50]
Short    == [Tcp EXCEPT !.size = 20, !.len = 20]
Tiny     == [Tcp EXCEPT !.size = 8, !.len = 8, !.ip = FALSE, !.mapped = 0]

\* Not IP, not version 4, and the two at once as far as one can see.
Arp   == [Tcp EXCEPT !.ip = FALSE, !.v4 = FALSE, !.proto = 0]
NotV4 == [Tcp EXCEPT !.v4 = FALSE]
Odd   == [Tcp EXCEPT !.ip = FALSE, !.proto = 9, !.addrs = 4, !.placed = FALSE]

\* Partly outside the linear buffer: behind all headers, and from the TCP header on.
Paged(p)    == [p EXCEPT !.size = 100]
TcpPaged    == [Paged(Tcp) EXCEPT !.len = 50]

\* The place of the transport header cannot be read.
UdpLost == [Udp EXCEPT !.mapped = 2, !.placed = FALSE]

Call(who, file, readable) ==
    [Tcp EXCEPT !.addrs = who, !.fixed = file, !.behind = file,
                !.mapped = IF readable THEN 3 ELSE 0]

ByHook == [xdp        |-> {Tcp, TcpOpts, Fragment, UdpShort, Short, Arp},
           tc         |-> {Paged(TcpOpts), TcpPaged, Fragment, NotV4, Tiny},
           tracepoint |-> {Paged(Tcp), TcpShort, UdpLost, Tiny, Arp, Odd},
           execve     |-> {Call(1, 5, TRUE), Call(2, 6, FALSE)}]
===============================================================================
