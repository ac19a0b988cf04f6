-------------------------- MODULE MCWebhookStream --------------------------
(* Instances of WebhookStream for TLC.                                      *)
EXTENDS WebhookStream

\* However many clients there are, they are finitely many.
ASSUME FiniteCalls == IsFiniteSet(RPC)

\* Every stream_start takes an id, and every start is a call of the action.
Protocol ==
  INSTANCE StreamProtocol WITH
    ResponseIds <- 1 .. MaxCalls * Cardinality(RPC),
    hushed <- graceful,
    gone <- [r \in RPC |-> Gone(r)]

\* The handlers, tasks and queues together show each client the protocol of
\* StreamProtocol: responses under fresh ids, chunks only inside an open
\* response and in order, one closing event, an empty result only after a
\* barge-in, only the closing event once a barge-in is served, and nothing
\* after a disconnect (grpc_server.py:244-258, 330-425, 492-529).
ImplementsProtocol == Protocol!Spec

=============================================================================
