--------------------------- MODULE ConsensusEngine ---------------------------
(***************************************************************************)
(* The ConsensusEngine of consensus-bft (engine.rs, types.rs).  The engine *)
(* is a deterministic state machine without I/O, so each of its handlers   *)
(* is an operator from an engine state, and the message or timeout it is   *)
(* given, to the new state and the EngineOutput.  BftConsensus holds the   *)
(* engines of the running validators in a variable and calls these.        *)
(***************************************************************************)
EXTENDS ValidatorSet, Evidence

CONSTANTS
  Blocks,       \* the blocks that may be proposed; a block stands for its hash
  Nil,          \* Option::None of a hash: nil vote, no lock, no proposal
  FaultyHashes, \* bound: what the faulty nodes vote for and propose
  FaultyClaims, \* bound: the valid_round their proposals claim
  NoVote,       \* no entry in a vote map
  StartHeight,  \* the height every node starts at
  MaxHeight,    \* bound: last height decided in a run
  MaxRound      \* bound: last round of a height

ASSUME BoundsAssumption ==
  /\ StartHeight \in Nat
  /\ MaxHeight \in Nat
  /\ StartHeight <= MaxHeight
  /\ MaxRound \in Nat

Heights == StartHeight .. (MaxHeight + 1)
Rounds == 0 .. MaxRound
NoRound == -1   \* Option::None of a round

ASSUME MarkersAssumption ==
  /\ Blocks # {}
  /\ Nil \notin Blocks /\ NoVote \notin Blocks /\ Nil # NoVote
  /\ FaultyHashes \subseteq Blocks \cup {Nil}
  /\ FaultyClaims \subseteq Rounds \cup {NoRound}

Hashes == Blocks \cup {Nil}

ProposalMsgs ==
  [type : {"Proposal"}, height : Heights, round : Rounds, block : Blocks,
   proposer : Nodes, validRound : Rounds \cup {NoRound}]

VoteMsgs ==
  [type : {"Prevote", "Precommit"}, height : Heights, round : Rounds,
   hash : Hashes, voter : Nodes]

Messages == ProposalMsgs \cup VoteMsgs

Vote(type, height, round, hash, voter) ==
  [type |-> type, height |-> height, round |-> round, hash |-> hash, voter |-> voter]

Proposal(height, round, block, proposer, validRound) ==
  [type |-> "Proposal", height |-> height, round |-> round, block |-> block,
   proposer |-> proposer, validRound |-> validRound]

\* ConsensusStep and its order.
StepOrd == [NewRound |-> 0, Propose |-> 1, Prevote |-> 2, Precommit |-> 3, Commit |-> 4]
Steps == {"NewRound", "Propose", "Prevote", "Precommit", "Commit"}

-----------------------------------------------------------------------------
(***************************************************************************)
(* The engine's state: ConsensusState and the two sent flags.  Its third   *)
(* part, the evidence collector, is a value of its own here: no handler    *)
(* ever reads it.                                                          *)
(***************************************************************************)
EmptyVotes == [v \in Nodes |-> NoVote]

\* ConsensusState::new, with cleared flags.
NewState(height) ==
  [height |-> height, round |-> 0, step |-> "NewRound",
   lockedValue |-> Nil, lockedRound |-> NoRound,
   validValue |-> Nil, validRound |-> NoRound,
   prevotes |-> EmptyVotes, precommits |-> EmptyVotes, proposal |-> Nil,
   sentPrevote |-> FALSE, sentPrecommit |-> FALSE]

\* Mutant: the prevotes of the round that is left still count.
AdvanceRoundKeepsPrevotes(e, round) ==
  [e EXCEPT !.round = round, !.step = "NewRound", !.precommits = EmptyVotes,
            !.proposal = Nil, !.sentPrevote = FALSE, !.sentPrecommit = FALSE]

\* advance_round, with the two flags its callers clear after it.
AdvanceRound(e, round) ==
  [e EXCEPT !.round = round, !.step = "NewRound",
            !.prevotes = EmptyVotes, !.precommits = EmptyVotes,
            !.proposal = Nil, !.sentPrevote = FALSE, !.sentPrecommit = FALSE]

\* start_round
StartRound(e, round) == [AdvanceRound(e, round) EXCEPT !.step = "Propose"]

\* start_new_height: a new state in round 0; the collector is pruned.
StartNewHeight(height) == StartRound(NewState(height), 0)
PruneFor(c, height) ==
  Prune(c, IF height < EvidenceWindow THEN 0 ELSE height - EvidenceWindow)

-----------------------------------------------------------------------------
(***************************************************************************)
(* EngineOutput: messages to broadcast and at most one committed block.    *)
(***************************************************************************)
Output(e, msgs, commits) == [eng |-> e, out |-> msgs, commits |-> commits]
Silent(e) == Output(e, {}, {})

\* make_prevote, make_precommit
MakeVote(type, e, n, hash) == Vote(type, e.height, e.round, hash, n)

\* Voters of a vote map for one value; voters of any value.
VotersFor(votes, hash) == {v \in Nodes : votes[v] = hash}
Voted(votes) == {v \in Nodes : votes[v] # NoVote}

\* Mutant: a quorum of missing votes is a quorum for a block.
QuorumHashesOfAny(votes) ==
  {votes[v] : v \in {u \in Nodes : VotersFor(votes, votes[u]) \in Quorums}}

\* find_quorum_prevote_hash, find_quorum_precommit_hash: the blocks with a
\* quorum.  A quorum holds more than half of the stake, so there is at most one
\* and the order in which the code walks its hash map does not matter.
QuorumHashes(votes) ==
  {votes[v] : v \in {u \in Nodes :
     votes[u] \in Blocks /\ VotersFor(votes, votes[u]) \in Quorums}}

\* Mutant: the flag is set and never tested.
SendPrecommitAgain(e, n, hash) ==
  Output([e EXCEPT !.sentPrecommit = TRUE, !.precommits[n] = hash],
         {MakeVote("Precommit", e, n, hash)}, {})

\* Sends our precommit, once per round.
SendPrecommit(e, n, hash) ==
  IF e.sentPrecommit
  THEN Silent(e)
  ELSE Output([e EXCEPT !.sentPrecommit = TRUE, !.precommits[n] = hash],
              {MakeVote("Precommit", e, n, hash)}, {})

\* Mutant: a polka moves the valid value and not the lock.
TryAdvanceNoLock(e, n) ==
  LET polka == QuorumHashes(e.prevotes)
      hash  == CHOOSE h \in polka : TRUE
      toPrecommit == [e EXCEPT !.step = "Precommit"]
  IN  CASE polka # {} ->
             SendPrecommit([toPrecommit EXCEPT !.validValue = hash, !.validRound = e.round],
                           n, hash)
        [] /\ polka = {}
           /\ Voted(e.prevotes) \in Quorums
           /\ StepOrd[e.step] < StepOrd["Precommit"] ->
             SendPrecommit(toPrecommit, n, Nil)
        [] OTHER -> Silent(e)

\* try_advance_from_prevotes
TryAdvance(e, n) ==
  LET polka == QuorumHashes(e.prevotes)
      hash  == CHOOSE h \in polka : TRUE
      toPrecommit == [e EXCEPT !.step = "Precommit"]
  IN  CASE polka # {} ->
             SendPrecommit(
               [toPrecommit EXCEPT !.validValue = hash, !.validRound = e.round,
                                   !.lockedValue = hash, !.lockedRound = e.round],
               n, hash)
        [] /\ polka = {}
           /\ Voted(e.prevotes) \in Quorums
           /\ StepOrd[e.step] < StepOrd["Precommit"] ->
             SendPrecommit(toPrecommit, n, Nil)
        [] OTHER -> Silent(e)

\* Mutant: the lock is never consulted.
DeterminePrevoteUnlocked(e, block, validRound) == block

\* determine_prevote: a locked engine leaves its lock for a proposal that
\* claims a polka at or after the round of the lock.
DeterminePrevote(e, block, validRound) ==
  IF \/ e.lockedValue = Nil
     \/ e.lockedValue = block
     \/ /\ validRound # NoRound
        /\ e.lockedRound # NoRound
        /\ validRound >= e.lockedRound
  THEN block
  ELSE Nil

-----------------------------------------------------------------------------
\* on_proposal, the checks that drop the message.
AcceptsProposal(e, m) ==
  /\ m.height = e.height
  /\ m.round >= e.round
  /\ m.proposer = ProposerForRound(m.height, m.round)
  /\ m.proposer \in Validators

\* on_proposal
OnProposal(e, n, m) ==
  LET jumped == IF m.round > e.round THEN AdvanceRound(e, m.round) ELSE e
      vote   == DeterminePrevote(jumped, m.block, m.validRound)
      stored == [jumped EXCEPT !.proposal = m.block, !.step = "Prevote"]
      voted  == [stored EXCEPT !.sentPrevote = TRUE, !.prevotes[n] = vote]
      next   == TryAdvance(voted, n)
  IN  CASE ~AcceptsProposal(e, m) -> Silent(e)
        [] AcceptsProposal(e, m) /\ jumped.sentPrevote -> Silent(stored)
        [] OTHER -> Output(next.eng, {MakeVote("Prevote", voted, n, vote)} \cup next.out, {})

\* on_prevote and on_precommit show the collector every vote of the current
\* height, and only then drop those that do not count: of another round, or of
\* a node outside the set.
Observe(e, c, m) == IF m.height = e.height THEN CheckAndRecord(c, m) ELSE c

CountsVote(e, m) ==
  m.height = e.height /\ m.round = e.round /\ m.voter \in Validators

\* Mutant: a prevote is counted, but only our own makes us look for a polka.
OnPrevoteCountsOnly(e, n, m) ==
  IF CountsVote(e, m)
  THEN Silent([e EXCEPT !.prevotes[m.voter] = m.hash])
  ELSE Silent(e)

\* on_prevote
OnPrevote(e, n, m) ==
  IF CountsVote(e, m)
  THEN TryAdvance([e EXCEPT !.prevotes[m.voter] = m.hash], n)
  ELSE Silent(e)

\* Mutant: a quorum for any block commits the stored proposal.
TryCommitAnyHash(e) ==
  IF e.proposal # Nil /\ QuorumHashes(e.precommits) # {}
  THEN Output([e EXCEPT !.step = "Commit"], {},
              {[height |-> e.height, round |-> e.round, block |-> e.proposal,
                signers |-> VotersFor(e.precommits,
                                      CHOOSE h \in QuorumHashes(e.precommits) : TRUE)]})
  ELSE Silent(e)

\* try_commit
TryCommit(e) ==
  IF e.proposal # Nil /\ e.proposal \in QuorumHashes(e.precommits)
  THEN Output([e EXCEPT !.step = "Commit"], {},
              {[height |-> e.height, round |-> e.round, block |-> e.proposal,
                signers |-> VotersFor(e.precommits, e.proposal)]})
  ELSE Silent(e)

\* on_precommit
OnPrecommit(e, n, m) ==
  IF CountsVote(e, m)
  THEN TryCommit([e EXCEPT !.precommits[m.voter] = m.hash])
  ELSE Silent(e)

\* on_timeout for the step whose timer expired.
OnTimeout(e, n, step) ==
  CASE step = "Propose" /\ StepOrd[e.step] <= StepOrd["Propose"] ->
         LET moved == [e EXCEPT !.step = "Prevote"]
         IN  IF e.sentPrevote
             THEN Silent(moved)
             ELSE Output([moved EXCEPT !.sentPrevote = TRUE, !.prevotes[n] = Nil],
                         {MakeVote("Prevote", e, n, Nil)}, {})
    [] step = "Prevote" /\ StepOrd[e.step] <= StepOrd["Prevote"] ->
         SendPrecommit([e EXCEPT !.step = "Precommit"], n, Nil)
    [] step = "Precommit" -> Silent(StartRound(e, e.round + 1))
    [] OTHER -> Silent(e)
=============================================================================
