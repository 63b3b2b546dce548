------------------------------ MODULE MCSafety -------------------------------
(***************************************************************************)
(* The components about which only safety is stated, and the transaction   *)
(* client and the shutdown with larger instances than their liveness       *)
(* allows, for TLC.  They share no state, so that a behaviour runs one of  *)
(* them, chosen at the start, and leaves the others alone: their state     *)
(* spaces add up instead of being multiplied.                              *)
(***************************************************************************)
EXTENDS Ledger, EpochTables, Atomo, Handshake, Clients, ProofStream, Shutdown, TLC

VARIABLE focus  \* the component that runs

CONSTANTS m1, m2, m3, m4

Components ==
    {"ledger", "tables", "atomo", "handshake", "client", "forwarder", "stream",
     "shutdown"}

Leave(c) ==
    /\ c # "ledger" => UNCHANGED ledgerVars
    /\ c # "tables" => UNCHANGED tableVars
    /\ c # "atomo" => UNCHANGED atomoVars
    /\ c # "handshake" => UNCHANGED handshakeVars
    /\ c # "client" => UNCHANGED clientVars
    /\ c # "forwarder" => UNCHANGED forwarderVars
    /\ c # "stream" => UNCHANGED streamVars
    /\ c # "shutdown" => UNCHANGED shutdownVars
    /\ UNCHANGED focus

\* A component that does not run has one initial state.
SafetyInit ==
    /\ focus \in Components
    /\ LedgerInit
    /\ focus # "ledger" => node_info[CHOOSE n \in GenesisNodes : TRUE].owner = ServiceOwner
    /\ EpochTablesInit
    /\ AtomoInit
    /\ focus # "atomo" => ~enable_iter /\ \A k \in Keys : persistence[k] = None
    /\ HandshakeInit
    /\ ClientInit
    /\ ForwarderInit
    /\ focus # "forwarder" => valid
    /\ StreamInit
    /\ focus # "stream" => num_blocks = 1 /\ ~collect
    /\ ShutdownInit

SafetyNext ==
    \/ focus = "ledger" /\ LedgerNext /\ Leave("ledger")
    \/ focus = "tables" /\ EpochTablesNext /\ Leave("tables")
    \/ focus = "atomo" /\ AtomoNext /\ Leave("atomo")
    \/ focus = "handshake" /\ HandshakeNext /\ Leave("handshake")
    \/ focus = "client" /\ ClientNext /\ Leave("client")
    \/ focus = "forwarder" /\ ForwarderNext /\ Leave("forwarder")
    \/ focus = "stream" /\ StreamNext /\ Leave("stream")
    \/ focus = "shutdown" /\ ShutdownNext /\ Leave("shutdown")

safetyVars == <<focus, ledgerVars, tableVars, atomoVars, handshakeVars,
                clientVars, forwarderVars, streamVars, shutdownVars>>

SafetySpec == SafetyInit /\ [][SafetyNext]_safetyVars

-----------------------------------------------------------------------------
\* Genesis nodes with more than the minimum stake.
EqualStake == [n \in GenesisNodes |-> 4]

\* Every bridge transaction is of the same block.
SameBlock == [r \in Receipts |-> 5]

\* This node joins the committee of the second epoch; the third one is larger.
ThreeCommittees == <<{m1, m2, m3}, {m1, Me}, {m3, m4, Me, m2}>>

\* Calls of the transaction client differ only by name.
RunnerSymmetry == Permutations(Runners)
=============================================================================
