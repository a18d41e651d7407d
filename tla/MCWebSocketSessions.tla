------------------------ MODULE MCWebSocketSessions ------------------------
(* WebSocketSessions on a small instance: one connection, since they share nothing. *)
EXTENDS WebSocketSessions, TLC
CONSTANT c1
MCClients == {c1}
MCPaths == {"/", "/other"}
MCpath == "/"
MCCodes == {1000, 4999}
==============================================================================
