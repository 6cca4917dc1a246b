--------------------------- MODULE MCSocksServer ---------------------------
EXTENDS SocksServer
CONSTANTS c1, c2
TheClients == {c1, c2}
Named == {c2}
ConfsOfOne == {{"connect"}, {"bind"}}
=============================================================================
