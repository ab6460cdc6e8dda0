--------------------------- MODULE MCProxyServer ---------------------------
(* The proxy server for TLC: the connections are interchangeable.          *)
EXTENDS ProxyServer, TLC

Symmetry == Permutations(Conns)
=============================================================================
