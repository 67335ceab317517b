-------------------------- MODULE MCWebSocketClient --------------------------
(* A finite instance of WebSocketClient; its tasks are interchangeable.      *)
EXTENDS WebSocketClient, TLC

AnyTask == Permutations(Tasks)
=============================================================================
