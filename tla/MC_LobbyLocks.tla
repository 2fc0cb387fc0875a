--------------------------- MODULE MC_LobbyLocks ---------------------------
(* LobbyLocks for TLC: two rooms, three threads, with and without the      *)
(* handler that runs when a client disconnects.                            *)
EXTENDS LobbyLocks, TLC

TwoRooms == {"room 1", "room 2"}

WhileConnected == AllHandlers \ {"removeClient"}

Interchangeable == Permutations(Threads)
=============================================================================
