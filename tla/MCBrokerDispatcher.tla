------------------------ MODULE MCBrokerDispatcher ------------------------
(* A broker with one operation, whose stream and cancellation compete for  *)
(* the observation lock and for the row, or with two, which compete for    *)
(* the only stream and, in one lane, for their turn.                       *)
EXTENDS BrokerDispatcher

CONSTANTS o1, o2, l1, l2, h1, h2

MCPeerTask == [op \in Op |-> IF op = o1 THEN h1 ELSE h2]
=============================================================================
