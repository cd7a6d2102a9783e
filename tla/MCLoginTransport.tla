-------------------------- MODULE MCLoginTransport --------------------------
\* A counter of range 8 reduced by 5, so that an id comes back after three
\* calls, and enough calls to wrap the counter.  v1 is the bundled version, v2
\* another that works and v3 one that does not answer its health check.
\* Two sessions, one route host and the config.json way round behind it.
EXTENDS LoginTransport

CONSTANTS c1, c2, v1, v2, v3, s1, s2

MCClients == {c1, c2}
MCVersions == {v1, v2, v3}
MCHealthy == {v1, v2}
MCSessions == {s1, s2}
MCPinned == {s2}
MCHosts == <<"route", "config">>
=============================================================================
