----------------------------- MODULE Governance -----------------------------
(***************************************************************************)
(* The governance program (programs/governance/src/processor.rs): one      *)
(* configuration, the proposal accounts and the vote records.  An          *)
(* instruction that returns an error changes nothing: the runtime discards *)
(* the account data a failed instruction has already written.              *)
(* Left out: the title, the description hash, who signed a vote, and what  *)
(* an executed proposal would do (the code only logs it).                  *)
(***************************************************************************)
EXTENDS Integers, FiniteSets, Sums

CONSTANTS Signers,        \* authority, emergency multisig, others
          Authorities,    \* the keys InitializeGovernance may name as authority
          Proposals,      \* proposal accounts
          Records,        \* vote record accounts
          Stakes,         \* passive stake accounts
          Amount, Weight, \* their principal and vote_weight_bps
          Settings,       \* the values InitializeGovernance and UpdateConfig get
          Bps,            \* BPS_DENOMINATOR
          EmergencyPass,  \* EMERGENCY_UNLOCK_PASS_THRESHOLD_BPS
          GovU64Max, MaxEpoch

ASSUME GovernanceAssumption ==
  /\ Authorities \subseteq Signers
  /\ Amount \in [Stakes -> Nat] /\ Weight \in [Stakes -> Nat]
  /\ Settings \subseteq [threshold: Nat, period: Nat, quorum: Nat, pass: Nat,
                         veto: Nat, timelock: Nat, emergency: Signers]
  /\ Bps \in Nat \ {0} /\ EmergencyPass \in 1..Bps
  /\ GovU64Max \in Nat /\ MaxEpoch \in Nat
  /\ IsFiniteSet(Records)

VARIABLES config,     \* GovernanceConfig
          proposals,  \* Proposal, per proposal account
          records,    \* VoteRecord, per record account
          epoch,      \* the clock sysvar
          refused,    \* the proposal whose tally failed in the last step, and how
          passedAt    \* history, per proposal: the epoch of its passing tally, or 0

govVars == <<config, proposals, records, epoch, refused, passedAt>>

VoteChoices == {"For", "Against", "Abstain", "Veto"}
Types == {"EmergencyUnlock", "Other"}
Final == {"Executed", "Cancelled", "Vetoed", "Rejected", "Expired"}
Unset == "none"

NoConfig == [ready |-> FALSE, active |-> FALSE, authority |-> Unset,
             settings |-> Unset, nextId |-> 0]
NoProposal == [status |-> Unset]
NoRecord == [proposal |-> Unset]
NoRefusal == [proposal |-> Unset, as |-> Unset]

-----------------------------------------------------------------------------
(* Arithmetic of the tally.                                                *)

\* voting_power_from_passive_stake_data: no power without a weight, nor when
\* the product does not fit.
Power(s) == (Amount[s] * Weight[s]) \div Bps
HasPower(s) == Weight[s] > 0 /\ Power(s) <= GovU64Max

Total(p) == p.votes["For"] + p.votes["Against"] + p.votes["Abstain"] + p.votes["Veto"]
Decisive(p) == p.votes["For"] + p.votes["Against"]
Share(part, whole) == (part * Bps) \div whole

Valid(s) ==
  /\ s.quorum \in 1..Bps /\ s.pass \in 1..Bps /\ s.veto \in 1..Bps
  /\ s.period > 0

\* Mutant: every type of proposal passes at the configured threshold.
PassThresholdOrdinary(p) == config.settings.pass
PassThreshold(p) ==
  IF p.type = "EmergencyUnlock" THEN EmergencyPass ELSE config.settings.pass

VetoReached(p) == Share(p.votes["Veto"], Total(p)) >= config.settings.veto

\* What ExecuteProposal finds when it counts the votes of a proposal whose
\* voting period is over: the status it assigns.
Outcome(p) ==
  CASE Total(p) = 0 -> "Expired"
    [] Total(p) > 0 /\ VetoReached(p) -> "Vetoed"
    [] Total(p) > 0 /\ ~VetoReached(p) /\
         (Decisive(p) = 0 \/ Share(p.votes["For"], Decisive(p)) < PassThreshold(p))
           -> "Rejected"
    [] OTHER -> "Timelocked"

-----------------------------------------------------------------------------
GovInit ==
  /\ config = NoConfig
  /\ proposals = [p \in Proposals |-> NoProposal]
  /\ records = [r \in Records |-> NoRecord]
  /\ epoch = 0
  /\ refused = NoRefusal
  /\ passedAt = [p \in Proposals |-> 0]

InitializeGovernance(authority, settings) ==
  /\ ~config.ready /\ Valid(settings)
  /\ config' = [ready |-> TRUE, active |-> FALSE, authority |-> authority,
                settings |-> settings, nextId |-> 0]
  /\ refused' = NoRefusal
  /\ UNCHANGED <<proposals, records, epoch, passedAt>>

\* The proposal CreateProposal writes.
NewProposal(who, type) ==
  [status |-> IF config.active THEN "Active" ELSE "Timelocked",
   id |-> config.nextId, proposer |-> who, type |-> type,
   ends |-> epoch + config.settings.period,
   execution |-> epoch + config.settings.period + config.settings.timelock,
   votes |-> [c \in VoteChoices |-> 0]]

MayPropose(who, stake) ==
  IF config.active
    THEN HasPower(stake) /\ Power(stake) >= config.settings.threshold
    ELSE who = config.authority

CreateProposal(p, who, stake, type) ==
  /\ config.ready /\ MayPropose(who, stake) /\ proposals[p] = NoProposal
  /\ config.nextId + 1 <= GovU64Max
  /\ epoch + config.settings.period + config.settings.timelock <= GovU64Max
  /\ proposals' = [proposals EXCEPT ![p] = NewProposal(who, type)]
  /\ config' = [config EXCEPT !.nextId = @ + 1]
  /\ refused' = NoRefusal
  /\ UNCHANGED <<records, epoch, passedAt>>

\* Mutant: the weight added to the tally is the principal, unweighted.
CastVotePrincipal(p, stake, r, choice) ==
  /\ config.active /\ proposals[p].status = "Active" /\ epoch < proposals[p].ends
  /\ records[r] = NoRecord /\ HasPower(stake) /\ Power(stake) > 0
  /\ proposals' = [proposals EXCEPT ![p].votes[choice] = @ + Amount[stake]]
  /\ records' = [records EXCEPT
       ![r] = [proposal |-> p, vote |-> choice, weight |-> Power(stake)]]
  /\ refused' = NoRefusal
  /\ UNCHANGED <<config, epoch, passedAt>>

\* Mutant: the additions to the tally are not checked.
CastVoteUnchecked(p, stake, r, choice) ==
  /\ config.active /\ proposals[p].status = "Active" /\ epoch < proposals[p].ends
  /\ records[r] = NoRecord /\ HasPower(stake) /\ Power(stake) > 0
  /\ proposals' = [proposals EXCEPT ![p].votes[choice] = @ + Power(stake)]
  /\ records' = [records EXCEPT
       ![r] = [proposal |-> p, vote |-> choice, weight |-> Power(stake)]]
  /\ refused' = NoRefusal
  /\ UNCHANGED <<config, epoch, passedAt>>

CastVote(p, stake, r, choice) ==
  /\ config.active
  /\ proposals[p].status = "Active" /\ epoch < proposals[p].ends
  /\ records[r] = NoRecord
  /\ HasPower(stake) /\ Power(stake) > 0
  /\ proposals[p].votes[choice] + Power(stake) <= GovU64Max
  /\ proposals' = [proposals EXCEPT ![p].votes[choice] = @ + Power(stake)]
  /\ records' = [records EXCEPT
       ![r] = [proposal |-> p, vote |-> choice, weight |-> Power(stake)]]
  /\ refused' = NoRefusal
  /\ UNCHANGED <<config, epoch, passedAt>>

MayExecute(p, who) ==
  /\ config.ready /\ proposals[p] # NoProposal
  /\ config.active \/ who = config.authority

\* ExecuteProposal on a proposal that is still Active counts the votes.  Every
\* outcome but Timelocked is saved and then returned as an error, so the
\* runtime drops it.
CountVotes(p, who) ==
  LET outcome == Outcome(proposals[p])
  IN /\ MayExecute(p, who) /\ config.active
     /\ proposals[p].status = "Active" /\ epoch >= proposals[p].ends
     /\ Total(proposals[p]) <= GovU64Max
     /\ IF outcome = "Timelocked"
          THEN /\ proposals' = [proposals EXCEPT ![p].status = outcome]
               /\ passedAt' = [passedAt EXCEPT ![p] = epoch]
               /\ refused' = NoRefusal
          ELSE /\ refused' = [proposal |-> p, as |-> outcome]
               /\ UNCHANGED <<proposals, passedAt>>
     /\ UNCHANGED <<config, records, epoch>>

\* ExecuteProposal on a proposal that waits out its timelock.
Execute(p, who) ==
  /\ MayExecute(p, who)
  /\ proposals[p].status = "Timelocked" /\ epoch >= proposals[p].execution
  /\ proposals' = [proposals EXCEPT ![p].status = "Executed"]
  /\ refused' = NoRefusal
  /\ UNCHANGED <<config, records, epoch, passedAt>>

CancelProposal(p, who) ==
  /\ config.ready /\ who = config.settings.emergency
  /\ proposals[p].status \in {"Active", "Timelocked"}
  /\ proposals' = [proposals EXCEPT ![p].status = "Cancelled"]
  /\ refused' = NoRefusal
  /\ UNCHANGED <<config, records, epoch, passedAt>>

VetoProposal(p) ==
  /\ config.ready /\ proposals[p].status \in {"Active", "Timelocked"}
  /\ Total(proposals[p]) \in 1..GovU64Max /\ VetoReached(proposals[p])
  /\ proposals' = [proposals EXCEPT ![p].status = "Vetoed"]
  /\ refused' = NoRefusal
  /\ UNCHANGED <<config, records, epoch, passedAt>>

ActivateGovernance(who) ==
  /\ config.ready /\ who = config.authority /\ ~config.active
  /\ config' = [config EXCEPT !.active = TRUE]
  /\ refused' = NoRefusal
  /\ UNCHANGED <<proposals, records, epoch, passedAt>>

UpdateConfig(who, settings) ==
  /\ config.ready /\ who = config.authority /\ Valid(settings)
  /\ config' = [config EXCEPT !.settings = settings]
  /\ refused' = NoRefusal
  /\ UNCHANGED <<proposals, records, epoch, passedAt>>

NextEpoch ==
  /\ epoch < MaxEpoch
  /\ epoch' = epoch + 1
  /\ refused' = NoRefusal
  /\ UNCHANGED <<config, proposals, records, passedAt>>

GovNext ==
  \/ \E a \in Authorities, s \in Settings : InitializeGovernance(a, s)
  \/ \E p \in Proposals, a \in Signers, s \in Stakes, t \in Types : CreateProposal(p, a, s, t)
  \/ \E p \in Proposals, s \in Stakes, r \in Records, c \in VoteChoices : CastVote(p, s, r, c)
  \/ \E p \in Proposals, a \in Signers :
       CountVotes(p, a) \/ Execute(p, a) \/ CancelProposal(p, a)
  \/ \E p \in Proposals : VetoProposal(p)
  \/ \E a \in Signers : ActivateGovernance(a)
  \/ \E a \in Signers, s \in Settings : UpdateConfig(a, s)
  \/ NextEpoch

GovSpec == GovInit /\ [][GovNext]_govVars

-----------------------------------------------------------------------------
(* Properties.                                                             *)

Open == {p \in Proposals : proposals[p] # NoProposal}

ProposalType ==
  [status: {"Active", "Timelocked"} \cup Final, id: Nat, proposer: Signers, type: Types,
   ends: Nat, execution: Nat, votes: [VoteChoices -> 0..GovU64Max]]

\* The shape of the accounts: every tally fits a u64 although CastVote adds
\* weights that were computed from u128 products.
GovTypeOK ==
  /\ config = NoConfig \/ config \in [ready: {TRUE}, active: BOOLEAN, authority: Signers,
                                      settings: {s \in Settings : Valid(s)}, nextId: 0..GovU64Max]
  /\ proposals \in [Proposals -> {NoProposal} \cup ProposalType]
  /\ epoch \in Nat

\* What a proposal that reached the timelock owes it to.
Justified(x) ==
  x.status \in {"Timelocked", "Executed"} =>
    /\ \/ x.proposer = config.authority /\ Total(x) = 0
       \/ /\ epoch >= x.ends /\ Decisive(x) > 0
          /\ LET share == Share(x.votes["For"], Decisive(x))
             IN IF x.type = "EmergencyUnlock"
                  THEN share >= EmergencyPass
                  ELSE \E s \in Settings : Valid(s) /\ share >= s.pass
    /\ x.status = "Executed" => epoch >= x.execution

\* Whatever UpdateConfig does while proposals are open, a proposal reaches the
\* timelock in two ways only: the authority created it before governance was
\* active, or its voting period is over and enough of the decisive votes were
\* in favour: 80% for an EmergencyUnlock, a threshold some valid configuration
\* asks for otherwise.  And none is executed before its execution epoch.
PassedByVoteOrAuthority == \A p \in Proposals : Justified(proposals[p])

\* Proposals keep distinct ids, all below the counter of the configuration,
\* whatever mix of the authority and of stakers created them.
IdsAreUnique ==
  \A p \in Open :
    /\ proposals[p].id < config.nextId
    /\ \A q \in Open : proposals[p].id = proposals[q].id => p = q

\* The votes of choice c for proposal p.
Ballots(p, c) ==
  {r \in Records : records[r] # NoRecord /\ records[r].proposal = p /\ records[r].vote = c}

\* The four tallies of a proposal are exactly the weights of the vote records
\* that name it, so that no vote is counted twice, lost, or counted for
\* another proposal or choice (process_cast_vote saves the two separately).
TalliesMatchRecords ==
  \A p \in Open, c \in VoteChoices :
    proposals[p].votes[c] =
      SumOver([r \in Ballots(p, c) |-> records[r].weight], Ballots(p, c))

\* A decision is final.  No instruction touches a proposal that was executed,
\* cancelled or vetoed, and no vote is counted once the voting period is over
\* or the proposal has left Active.
DecisionsAreFinal ==
  [][\A p \in Open :
       /\ proposals[p].status \in Final => proposals'[p] = proposals[p]
       /\ proposals[p].status # "Active" \/ epoch >= proposals[p].ends
            => proposals'[p].votes = proposals[p].votes]_govVars

\* Does not hold. state.rs says of Rejected: "Voting ended and the proposal
\* failed to meet thresholds."  ExecuteProposal assigns it to such a proposal,
\* and then fails.
RejectionIsRecorded ==
  refused.as = "Rejected" => proposals[refused.proposal].status = "Rejected"

\* Does not hold. state.rs says of timelock_epochs: "Epochs to wait after a
\* proposal passes before it can be executed."
TimelockFollowsPassing ==
  [][\A p \in Proposals :
       /\ proposals[p].status = "Timelocked" /\ proposals'[p].status = "Executed"
       /\ passedAt[p] > 0
       => epoch >= passedAt[p] + (proposals[p].execution - proposals[p].ends)]_govVars
=============================================================================
