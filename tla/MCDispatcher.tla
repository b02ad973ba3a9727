---------------------------- MODULE MCDispatcher ----------------------------
(* Dispatcher with three of the seventeen AsyncTasks keys: node_info (a   *)
(* fetch that connect() issues), channels (the list every channel         *)
(* mutation refetches) and open_channel (a validated channel mutation),   *)
(* polled in the order of app.rs poll_tasks.                              *)
EXTENDS Dispatcher

CONSTANTS NodeInfo, Channels, OpenChannel

MCKeys == {NodeInfo, Channels, OpenChannel}
MCPollOrder == <<NodeInfo, Channels, OpenChannel>>
MCFetchKeys == {NodeInfo, Channels}
MCRefetchKeys == {OpenChannel}
MCValidatedKeys == {OpenChannel}
=============================================================================
