-------------------------- MODULE MCGuestPrograms ---------------------------
\* Two guests.  Command lines with one program each, and command lines with the
\* other stages of init, where one guest may be in a later stage than the other.
EXTENDS GuestPrograms

CONSTANTS nodeA, nodeB

TheGuests     == {nodeA, nodeB}
TheClients    == {nodeA}
TheScript     == <<"ECHO", "CRC32">>
TheIndex      == [g \in TheGuests |-> IF g = nodeA THEN 0 ELSE 1]
TheBoots      == {{"bizmsg"}, {"urma_dp"}, {"chat"}, {"rpc"}, {"tcp"}, {"rdma"}, {"obmm"},
                  {"rpc", "probe", "hold"}, {"tcp", "probe", "probe_uio"},
                  {"probe", "run_demo"}}

=============================================================================
