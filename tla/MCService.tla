----------------------------- MODULE MCService -----------------------------
(***************************************************************************)
(* Instances of the services of a node around the consensus engine: the    *)
(* loop that drives it, block production, and block synchronization.  They *)
(* share no state and are explored one at a time: part says which one      *)
(* moves, the others stay as they started.                                 *)
(***************************************************************************)
EXTENDS ConsensusLoop, BlockProducer, BlockSync, TLC

VARIABLE part

Init ==
  /\ part \in {"loop", "producer", "sync"}
  /\ LoopInit /\ ProducerInit /\ SyncInit
  /\ part # "producer" => DOMAIN banks = {Root}

LoopStep ==
  part = "loop" /\ LoopNext /\ UNCHANGED <<part, producerVars, blockSyncVars>>
ProducerStep ==
  part = "producer" /\ ProducerNext /\ UNCHANGED <<part, loopVars, blockSyncVars>>
SyncStep ==
  part = "sync" /\ SyncNext /\ UNCHANGED <<part, loopVars, producerVars>>

Next == LoopStep \/ ProducerStep \/ SyncStep

\* The fairness of the part that moves.
Spec ==
  /\ Init /\ [][Next]_<<part, loopVars, producerVars, blockSyncVars>>
  /\ part = "loop" => LoopFairness
  /\ part = "sync" => SyncFairness

\* The types of the loop, of the banks and of the requests.
ServicesTypeOK == LoopTypeOK /\ ProducerTypeOK /\ SyncTypeOK

-----------------------------------------------------------------------------
\* Batches of one, two and three transactions, and a ledger of a chain of slots
\* with a fork at slot 1.
MCBatches == {<<"t1">>, <<"t2", "t3">>, <<"t4", "t5", "t6">>}
MCLedger == 1 :> 0 @@ 2 :> 1 @@ 3 :> 1
MCStartup == {{0}, {0, 1}}
============================================================================
