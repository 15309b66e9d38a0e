---------------------------- MODULE BftConsensus ----------------------------
(***************************************************************************)
(* The consensus service of a set of validators: each runs the loop of     *)
(* core/src/consensus_service.rs around a BftAdapter (bft_adapter.rs) that *)
(* owns a ConsensusEngine, a timeout scheduler and a block producer.       *)
(*                                                                         *)
(* One step of a node is one turn of its loop: either one message from its *)
(* channel is handled (and, if that commits a block, the next height is    *)
(* started), or its timer has expired and check_timeouts runs.             *)
(*                                                                         *)
(* The network is outside the code.  msgs holds every message an honest    *)
(* node ever broadcast; any of them may reach any node, its sender         *)
(* included, at any time, again and again, or never.  A faulty node may    *)
(* send any message under its own identity.                                *)
(***************************************************************************)
EXTENDS ConsensusEngine

VARIABLES
  eng,         \* eng[n]: the engine of node n
  timer,       \* timer[n]: step of the armed timeout, "none" when cancelled
  committed,   \* committed[n]: the CommittedBlocks node n executed
  msgs,        \* messages broadcast by the honest nodes
  collector    \* collector[n]: the evidence collector of its engine

vars == <<eng, timer, committed, msgs, collector>>

-----------------------------------------------------------------------------
\* Whatever the faulty nodes may send: any vote, and any proposal in the
\* rounds that are theirs (all others are dropped unread).
FaultyMsgs ==
  {m \in VoteMsgs : m.voter \in Faulty /\ m.hash \in FaultyHashes} \cup
  {m \in ProposalMsgs :
     /\ m.proposer \in Faulty
     /\ m.proposer = ProposerForRound(m.height, m.round)
     /\ m.block \in FaultyHashes
     /\ m.validRound \in FaultyClaims}

Sent == msgs \cup FaultyMsgs

\* A block's hash covers its proposer and its creation time, so create_block
\* never makes a block that was proposed before.  Blocks are only compared for
\* equality: which of the unused names a new block gets makes no difference.
NewBlocks ==
  LET unused == Blocks \ {m.block : m \in {p \in msgs : p.type = "Proposal"}}
  IN  IF unused = {} THEN {} ELSE {CHOOSE b \in unused : TRUE}

\* produce_block: always a new block, announced with the engine's valid_round.
ProduceBlock(e, n, block) == Proposal(e.height, e.round, block, n, e.validRound)

\* What a node may broadcast on entering a round: a proposal if it is the
\* proposer, nothing otherwise.
Proposals(e, n, blocks) ==
  IF n \in Validators /\ n = ProposerForRound(e.height, e.round)
  THEN {{ProduceBlock(e, n, b)} : b \in blocks}
  ELSE {{}}

-----------------------------------------------------------------------------
\* Every node has run start_height(start_height).
Init ==
  /\ eng = [n \in Honest |-> StartNewHeight(StartHeight)]
  /\ collector = [n \in Honest |-> PruneFor(NewCollector, StartHeight)]
  /\ timer = [n \in Honest |-> "Propose"]
  /\ committed = [n \in Honest |-> {}]
  /\ LET first == CHOOSE b \in Blocks : TRUE
     IN  msgs = UNION {UNION Proposals(eng[n], n, {first}) : n \in Honest}

\* A turn of the loop that commits nothing.
Continue(n, r, step) ==
  /\ r.commits = {}
  /\ eng' = [eng EXCEPT ![n] = r.eng]
  /\ timer' = [timer EXCEPT ![n] = step]
  /\ msgs' = msgs \cup r.out
  /\ UNCHANGED committed

\* A proposal re-arms the timer for Prevote once the engine is that far, also
\* when the engine dropped the proposal.
ReceiveProposal(n, m) ==
  LET r == OnProposal(eng[n], n, m)
  IN  /\ m.type = "Proposal"
      /\ Continue(n, r, IF StepOrd[r.eng.step] >= StepOrd["Prevote"]
                        THEN "Prevote" ELSE timer[n])
      /\ UNCHANGED collector

\* Mutant: the Precommit timeout armed by every prevote.
ReceivePrevoteArmsEarly(n, m) ==
  LET r == OnPrevote(eng[n], n, m)
  IN  /\ m.type = "Prevote"
      /\ Continue(n, r, "Precommit")
      /\ collector' = [collector EXCEPT ![n] = Observe(eng[n], @, m)]

ReceivePrevote(n, m) ==
  LET r == OnPrevote(eng[n], n, m)
  IN  /\ m.type = "Prevote"
      /\ Continue(n, r, IF StepOrd[r.eng.step] >= StepOrd["Precommit"]
                        THEN "Precommit" ELSE timer[n])
      /\ collector' = [collector EXCEPT ![n] = Observe(eng[n], @, m)]

ReceivePrecommit(n, m) ==
  /\ m.type = "Precommit"
  /\ Continue(n, OnPrecommit(eng[n], n, m), timer[n])
  /\ collector' = [collector EXCEPT ![n] = Observe(eng[n], @, m)]

\* A precommit that commits: process_engine_output executes the block, then
\* the loop starts the next height and, if it is the proposer, proposes.
CommitAndAdvance(n, m) ==
  LET r    == OnPrecommit(eng[n], n, m)
      next == StartNewHeight(eng[n].height + 1)
  IN  /\ m.type = "Precommit"
      /\ r.commits # {}
      /\ committed' = [committed EXCEPT ![n] = @ \cup r.commits]
      /\ eng' = [eng EXCEPT ![n] = next]
      /\ collector' = [collector EXCEPT ![n] =
                         PruneFor(Observe(eng[n], @, m), next.height)]
      /\ timer' = [timer EXCEPT ![n] = "Propose"]
      /\ \E p \in Proposals(next, n, NewBlocks) : msgs' = msgs \cup p

\* check_timeouts with an expired timer: the step the engine is left in decides
\* the next timeout; entering a round (step Propose) also proposes.
CheckTimeouts(n) ==
  LET r == OnTimeout(eng[n], n, timer[n])
  IN  /\ timer[n] # "none"
      /\ timer[n] = "Precommit" => eng[n].round < MaxRound
      /\ eng' = [eng EXCEPT ![n] = r.eng]
      /\ timer' = [timer EXCEPT ![n] =
           CASE r.eng.step = "Commit" -> "none"
             [] r.eng.step = "NewRound" -> timer[n]
             [] OTHER -> r.eng.step]
      /\ \E p \in IF r.eng.step = "Propose" THEN Proposals(r.eng, n, NewBlocks) ELSE {{}} :
           msgs' = msgs \cup r.out \cup p
      /\ UNCHANGED <<collector, committed>>

\* MaxHeight bounds the run: what belongs to later heights is not delivered
\* and the timers of later heights do not expire.
Receive(n, m) ==
  /\ m.height <= MaxHeight
  /\ \/ ReceiveProposal(n, m)
     \/ ReceivePrevote(n, m)
     \/ ReceivePrecommit(n, m)
     \/ CommitAndAdvance(n, m)

Expire(n) == eng[n].height <= MaxHeight /\ CheckTimeouts(n)

Next ==
  \E n \in Honest :
    \/ \E m \in Sent : Receive(n, m)
    \/ Expire(n)

Spec == Init /\ [][Next]_vars

-----------------------------------------------------------------------------
(***************************************************************************)
(* Properties.                                                             *)
(***************************************************************************)
VoteMaps == [Nodes -> Hashes \cup {NoVote}]

Collectors ==
  [votes : SUBSET VoteMsgs, evidence : SUBSET [first : VoteMsgs, second : VoteMsgs],
   minHeight : Nat]

Engines ==
  [height : Heights, round : Rounds, step : Steps,
   lockedValue : Hashes, lockedRound : Rounds \cup {NoRound},
   validValue : Hashes, validRound : Rounds \cup {NoRound},
   prevotes : VoteMaps, precommits : VoteMaps, proposal : Hashes,
   sentPrevote : BOOLEAN, sentPrecommit : BOOLEAN]

CommittedBlocks ==
  [height : Heights, round : Rounds, block : Blocks, signers : SUBSET Nodes]

\* Type invariant: the engines, timers, committed blocks and messages have the
\* types of the structs they model.
TypeOK ==
  /\ eng \in [Honest -> Engines]
  /\ collector \in [Honest -> Collectors]
  /\ timer \in [Honest -> {"none", "Propose", "Prevote", "Precommit"}]
  /\ committed \in [Honest -> SUBSET CommittedBlocks]
  /\ msgs \subseteq Messages

\* An engine never signs two different votes of one kind for one height and
\* round, whatever it is sent: the sent flags, cleared only with the round, are
\* enough even though steps move backwards on late or repeated proposals.
NoEquivocation ==
  \A m1, m2 \in msgs :
    /\ m1.type \in {"Prevote", "Precommit"}
    /\ m2.type = m1.type
    /\ SameKey(m1, m2)
    => m1.hash = m2.hash

\* The collector never holds evidence against an honest node, although votes
\* arrive late, twice and out of order.
EvidenceSound ==
  \A n \in Honest : \A d \in collector[n].evidence : d.first.voter \in Faulty

\* Overwriting a vote leaves a trace: a vote of another node that counts in the
\* current round is the first one its voter was seen to cast, or the collector
\* holds evidence of the difference.
OverwriteRecorded ==
  \A n \in Honest : \A v \in Nodes \ {n} : \A type \in {"Prevote", "Precommit"} :
    LET e    == eng[n]
        hash == IF type = "Prevote" THEN e.prevotes[v] ELSE e.precommits[v]
        vote == MakeVote(type, e, v, hash)
    IN  hash # NoVote =>
          \/ vote \in collector[n].votes
          \/ \E d \in collector[n].evidence : d.second = vote

\* The voters of a block (or nil) in a round, by a set of messages.
VotersIn(S, type, height, round, hash) ==
  {v \in Nodes : Vote(type, height, round, hash, v) \in S}

\* A quorum of prevotes for one block.
Polka(S, height, round, block) ==
  VotersIn(S, "Prevote", height, round, block) \in Quorums

\* An engine is locked only on a block that a quorum prevoted in the round of
\* the lock, and it precommits a block only after such a polka.
PolkaJustified ==
  /\ \A n \in Honest :
       LET e == eng[n]
       IN  e.lockedValue # Nil =>
             Polka(Sent, e.height, e.lockedRound, e.lockedValue)
  /\ \A m \in msgs :
       m.type = "Precommit" /\ m.hash # Nil =>
         Polka(Sent, m.height, m.round, m.hash)

\* A node that has precommitted a block stays locked on it, or has moved its
\* lock to a later polka: a lock is never older than the node's precommits.
LockCoversPrecommits ==
  \A m \in msgs :
    /\ m.type = "Precommit"
    /\ m.hash # Nil
    /\ m.height = eng[m.voter].height
    => \/ m.round < eng[m.voter].lockedRound
       \/ m.round = eng[m.voter].lockedRound /\ m.hash = eng[m.voter].lockedValue

\* A committed block carries the precommits of a quorum, all of which were
\* really sent for this block, height and round.
CommitCertified ==
  \A n \in Honest : \A c \in committed[n] :
    /\ c.signers \in Quorums
    /\ c.signers \subseteq VotersIn(Sent, "Precommit", c.height, c.round, c.block)

\* Two nodes that commit in the same round of a height commit the same block,
\* also when faulty validators propose and vote twice.
RoundAgreement ==
  \A n1, n2 \in Honest : \A c1 \in committed[n1], c2 \in committed[n2] :
    c1.height = c2.height /\ c1.round = c2.round => c1.block = c2.block

\* A proposal that claims a valid_round in which its block had no polka, or
\* which was not over when it was made.
FalseClaim(m) ==
  /\ m.type = "Proposal"
  /\ m.validRound # NoRound
  /\ \/ m.validRound >= m.round
     \/ ~ Polka(Sent, m.height, m.validRound, m.block)

\* The lock is enough for agreement across rounds as long as proposals tell the
\* truth: two nodes commit different blocks at one height only if a proposal of
\* that height claimed a polka, at or after the earlier commit, that never was.
ConflictNeedsFalseClaim ==
  \A n1, n2 \in Honest : \A c1 \in committed[n1], c2 \in committed[n2] :
    c1.height = c2.height /\ c1.round <= c2.round /\ c1.block # c2.block =>
      \E m \in Sent :
        /\ FalseClaim(m)
        /\ m.height = c1.height
        /\ m.round > c1.round /\ m.round <= c2.round
        /\ m.validRound >= c1.round

\* docs/consensus-bft.md, Commit: "If 2/3+ precommits for a specific block hash:
\* The block is committed with deterministic finality".  An engine that holds its
\* proposal and a quorum of precommits for it does not give up the round.
CertificateCommits ==
  [][\A n \in Honest :
       eng[n].proposal \in QuorumHashes(eng[n].precommits) /\ eng'[n].round # eng[n].round =>
         eng'[n].height > eng[n].height]_vars

\* Does not hold. docs/consensus-bft.md, Leader Selection, Properties:
\* "Rotation: Different heights/rounds select different proposers."  After a
\* failed round the next round of the height has another proposer.
Rotation ==
  \A n \in Honest :
    eng[n].round > 0 =>
      ProposerForRound(eng[n].height, eng[n].round)
        # ProposerForRound(eng[n].height, eng[n].round - 1)

\* lib.rs, Key Properties: "No two conflicting blocks can be committed at the
\* same height, as long as less than 1/3 of stake is Byzantine."
Agreement ==
  \A n1, n2 \in Honest : \A c1 \in committed[n1], c2 \in committed[n2] :
    c1.height = c2.height => c1.block = c2.block

\* The loop always has a timeout armed, and never one for a later step than the
\* engine is in: an expired timer therefore moves the engine on, step by step,
\* and no sequence of messages leaves a node waiting for messages only.
TimerArmed ==
  \A n \in Honest :
    timer[n] # "none" /\ StepOrd[timer[n]] <= StepOrd[eng[n].step]

\* A node's position (height, round) never goes back, and within a round it
\* keeps the votes it has sent.
Progresses ==
  [][\A n \in Honest :
       LET e == eng[n]
           f == eng'[n]
       IN  \/ f.height = e.height + 1
           \/ f.height = e.height /\ f.round > e.round
           \/ /\ f.height = e.height /\ f.round = e.round
              /\ e.sentPrevote => f.sentPrevote
              /\ e.sentPrecommit => f.sentPrecommit]_vars
=============================================================================
