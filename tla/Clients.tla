------------------------------- MODULE Clients -------------------------------
(***************************************************************************)
(* The two ends of a transaction's way to the mempool inside a node: the   *)
(* transaction client that a component calls and the forwarder that its    *)
(* transactions leave through.  They share no state; what a component may  *)
(* rely on is what both promise.                                           *)
(***************************************************************************)
EXTENDS TransactionClient, Forwarder

ClientsSpec == ClientSpec /\ ForwarderSpec

\* A client gets the result that happened, and a forwarder with a committee that answers
\* finds it within its retries.
ClientsInv == ClientInv /\ ForwarderInv
=============================================================================
