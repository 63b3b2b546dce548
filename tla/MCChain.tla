------------------------------- MODULE MCChain -------------------------------
(***************************************************************************)
(* The components that bring transactions and state to the chain and back, *)
(* and the shutdown all tasks wait for, for TLC, with the fairness of      *)
(* their tasks.  They share no state: a behaviour runs one of them, chosen *)
(* at the start.                                                           *)
(***************************************************************************)
EXTENDS Signer, TransactionClient, Checkpointer, Syncronizer, ValidatorExecution,
        Shutdown, TLC

VARIABLE focus  \* the component that runs

CONSTANTS n1, n2, n3, n4, v1, v2

Components == {"signer", "client", "checkpointer", "syncronizer", "validators",
               "shutdown"}

Leave(c) ==
    /\ c # "signer" => UNCHANGED signerVars
    /\ c # "client" => UNCHANGED clientVars
    /\ c # "checkpointer" => UNCHANGED ckptVars
    /\ c # "syncronizer" => UNCHANGED syncVars
    /\ c # "validators" => UNCHANGED validatorVars
    /\ c # "shutdown" => UNCHANGED shutdownVars
    /\ UNCHANGED focus

\* A component that does not run has one initial state.
ChainInit ==
    /\ focus \in Components
    /\ SignerInit
    /\ ClientInit
    /\ CkptInit
    /\ SyncInit
    /\ focus # "syncronizer" => \A b \in Bootstraps : boot_epoch[b] = 0
    /\ ValidatorInit
    /\ ShutdownInit

ChainNext ==
    \/ focus = "signer" /\ SignerNext /\ Leave("signer")
    \/ focus = "client" /\ ClientNext /\ Leave("client")
    \/ focus = "checkpointer" /\ CkptNext /\ Leave("checkpointer")
    \/ focus = "syncronizer" /\ SyncNext /\ Leave("syncronizer")
    \/ focus = "validators" /\ ValidatorNext /\ Leave("validators")
    \/ focus = "shutdown" /\ ShutdownNext /\ Leave("shutdown")

chainVars == <<focus, signerVars, clientVars, ckptVars, syncVars, validatorVars,
               shutdownVars>>

ChainSpec == ChainInit /\ [][ChainNext]_chainVars

\* The fairness of each component, while it runs.
FairChainSpec ==
    /\ ChainSpec
    /\ WF_signerVars(focus = "signer" /\ OtherBlock)
    /\ WF_signerVars(focus = "signer" /\ query_nonce)
    /\ WF_signerVars(focus = "signer" /\ SyncSome)
    /\ SF_signerVars(focus = "signer" /\ \E nonce \in queried : AllSent(nonce))
    /\ WF_signerVars(focus = "signer" /\ ExecuteSome)
    /\ \A r \in Runners : WF_clientVars(focus = "client" /\ RunnerStep(r))
    /\ WF_clientVars(focus = "client" /\ SyncNonce)
    /\ WF_ckptVars(focus = "checkpointer" /\ handle_epoch_changed)
    /\ WF_ckptVars(focus = "checkpointer" /\ SendAttestation)
    /\ \A n \in Attesters \ DivergedAttesters, e \in CkptEpochs :
         WF_ckptVars(/\ focus = "checkpointer" /\ attestations[e][n] = NoRoot
                     /\ Arrives(n, e, "true"))
    /\ WF_syncVars(focus = "syncronizer" /\ TrySync)
    /\ \A b \in Bootstraps : WF_syncVars(focus = "syncronizer" /\ Reconnect(b))
    /\ \A v \in Validators :
         /\ WF_validatorVars(focus = "validators" /\ TaskStep(v))
         /\ WF_validatorVars(focus = "validators" /\ HandleConsensusOutput(v))
         /\ WF_validatorVars(focus = "validators" /\ ValidatorStep(v))
    /\ \A s \in Signals :
         /\ WF_shutdownVars(focus = "shutdown" /\ PollWoken(s))
         /\ WF_shutdownVars(focus = "shutdown" /\ signal[s].st = "ready" /\ DropSignal(s))
         /\ WF_shutdownVars(focus = "shutdown" /\ WakeCompletion(s))
    /\ WF_shutdownVars(focus = "shutdown" /\ TriggerStep)
    /\ WF_shutdownVars(focus = "shutdown" /\ PollCompletion)

-----------------------------------------------------------------------------
\* One node leaves the active set and comes back.
ThreeEpochs == <<{n1, n2, n3, n4}, {n1, n2, n3}, {n1, n2, n3, n4}>>

\* An era change within epoch 0, then an epoch change.
EraThenEpoch == 0 :> 0 @@ 1 :> 0 @@ 2 :> 1

\* Narwhal orders one sub-dag after the one that ends the session.
EndsEarly == 0 :> 2 @@ 1 :> 1 @@ 2 :> 3

\* v2 is not on the committee of the new epoch.
SecondLeaves == 0 :> {v1, v2} @@ 1 :> {v1, v2} @@ 2 :> {v1}

\* Both stay.
AllMembers == [s \in Sessions |-> {v1, v2}]

\* Every call of execute_transaction ends, with a receipt or an error, unless the
\* blocks that keep coming without its receipt never let its timeout run out.
CallsEnd == focus = "client" => RunnersEnd

\* Every member of the first committee gets to the end of the first session,
\* also when it crashes on the way and narwhal repeats its output.
FirstSessionEnds == focus = "validators" => SessionEnds
=============================================================================
