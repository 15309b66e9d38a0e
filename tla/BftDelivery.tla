----------------------------- MODULE BftDelivery -----------------------------
(***************************************************************************)
(* BftConsensus over a good network: every broadcast reaches every node,   *)
(* the sender included, exactly once, and no timer expires first.  Votes   *)
(* of a node may overtake each other and the votes of other nodes, but a   *)
(* round's proposal is handled before the votes that follow it.            *)
(***************************************************************************)
EXTENDS BftConsensus

VARIABLE inbox   \* inbox[n]: messages broadcast and not yet handled by n

deliveryVars == <<vars, inbox>>

DeliveryInit ==
  /\ Init
  /\ inbox = [n \in Honest |-> msgs]

\* The proposal of the vote's round has been handled.
AfterProposal(n, m) ==
  m.type # "Proposal" =>
    ~ \E p \in inbox[n] :
        p.type = "Proposal" /\ p.height = m.height /\ p.round = m.round

\* The loop of node n takes m from its channel.
Deliver(n, m) ==
  /\ AfterProposal(n, m)
  /\ Receive(n, m)
  /\ inbox' = [k \in Honest |->
                 (inbox[k] \ (IF k = n THEN {m} ELSE {})) \cup (msgs' \ msgs)]

Handle(n) == \E m \in inbox[n] : Deliver(n, m)

DeliveryNext == \E n \in Honest : Handle(n)

\* What is waiting in the channel of node n (MaxHeight bounds the run).
Waiting(n) == {m \in inbox[n] : m.height <= MaxHeight}

\* The thread of each node keeps taking messages from its channel, and it is
\* faster than the others fill it: again and again the channel is empty.  A
\* waiting message can always be handled, so this is weak fairness of Handle(n)
\* as long as the number of messages is finite.
Fairness == \A n \in Honest : []<>(Waiting(n) = {})

DeliverySpec == DeliveryInit /\ [][DeliveryNext]_deliveryVars /\ Fairness

-----------------------------------------------------------------------------
\* With every validator honest, on a good network, every node commits the first
\* height, although only the arrival of a precommit makes the engine look for a
\* quorum of them.
EveryNodeCommits ==
  \A n \in Honest : <>(\E c \in committed[n] : c.height = StartHeight)
=============================================================================
