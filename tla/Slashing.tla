------------------------------ MODULE Slashing ------------------------------
(***************************************************************************)
(* Jailing and banning of validators (runtime/src/slashing.rs) over the    *)
(* banks of one node, and the active set the leader schedule is drawn from *)
(* (trv1_active_set.rs, leader_schedule_utils.rs).                         *)
(*                                                                         *)
(* Every bank holds the same Arc<RwLock<SlashingState>> (bank.rs), so there*)
(* is one status map for all forks; the offline check runs when a bank is  *)
(* created in a later epoch than its parent.  A node rebuilt from a        *)
(* snapshot starts with an empty map.                                      *)
(***************************************************************************)
EXTENDS Saturating, FiniteSets

CONSTANTS Validators,
          Stake,             \* Stake[v]: stake of node v over its vote accounts
          Cap,               \* ACTIVE_VALIDATOR_CAP
          MaxOffenses,       \* offenses that lead to a ban (3)
          FirstEpochs,       \* epochs of a first-offense or offline jail (4)
          SecondEpochs,      \* epochs of a second-offense jail (15)
          OfflineThreshold,  \* slots without a vote before automatic jail
          SlotsPerEpoch,
          VoteSets,          \* which validators' votes may land in one bank
          Slashable,         \* validators the caller may slash or unjail
          JailDurations,     \* durations the caller may pass to jail_validator
          MaxSkew,           \* a bank further behind, in epochs, has been pruned
          MaxSlot, MaxBanks

ASSUME SlashingAssumption ==
  /\ Validators \subseteq Nat /\ IsFiniteSet(Validators)
  /\ MaxOffenses \in Nat /\ FirstEpochs \in Nat /\ SecondEpochs \in Nat
  /\ FirstEpochs + MaxSkew <= SecondEpochs /\ MaxOffenses = 3
  /\ SlotsPerEpoch \in Nat \ {0} /\ OfflineThreshold \in Nat
  /\ MaxSkew \in Nat /\ MaxSlot \in Nat /\ MaxBanks \in Nat /\ Cap \in Nat
  /\ Stake \in [Validators -> Nat] /\ Slashable \subseteq Validators
  /\ VoteSets \subseteq SUBSET Validators
  /\ JailDurations \subseteq {"First", "Second", "Permanent", "Offline"}

VARIABLES status,     \* SlashingState::jail_statuses; absent means default
          banks,      \* the live banks
          sentence,   \* history since the start: latest release epoch imposed
          banned      \* history since the start: validators banned

slashingVars == <<status, banks, sentence, banned>>

Epoch(b) == b.slot \div SlotsPerEpoch

DefaultStatus ==
  [jailed |-> FALSE, until |-> 0, offenses |-> 0, permanent |-> FALSE]

\* Mutant: a bug that forgets the mark that makes a ban permanent.
ApplyJailForgets(s, duration, epoch) ==
  [s EXCEPT !.jailed = TRUE,
            !.until = epoch + (IF duration = "Second" THEN SecondEpochs ELSE FirstEpochs)]

\* apply_jail on one status.
ApplyJail(s, duration, epoch) ==
  IF duration = "Permanent"
  THEN [s EXCEPT !.jailed = TRUE, !.permanent = TRUE]
  ELSE [s EXCEPT !.jailed = TRUE,
                 !.until = epoch + (IF duration = "Second" THEN SecondEpochs
                                    ELSE FirstEpochs)]

\* The jail duration slash_validator chooses for an offense count.
DurationFor(offenses) ==
  IF offenses >= MaxOffenses THEN "Permanent"
  ELSE IF offenses >= 2 THEN "Second" ELSE "First"

\* is_jailed_or_banned and jailed_set.
Excluded(s) == s.jailed \/ s.permanent
JailedSet == {v \in Validators : Excluded(status[v])}

\* check_offline_validators for one validator (last_seen_slot, which nothing
\* reads, is left out).
CheckOffline(s, lastVote, slot, epoch) ==
  IF ~Excluded(s) /\ SatSub(slot, lastVote) > OfflineThreshold
  THEN ApplyJail(s, "Offline", epoch) ELSE s

\* The order of ActiveValidatorSet::compute: by stake, ties by key.  Validators
\* are numbered in key order.
RanksBefore(v, w) == Stake[v] > Stake[w] \/ (Stake[v] = Stake[w] /\ v < w)

\* Mutant: a bug in which a jailed validator still takes up one of the Cap places.
ActiveGivenJailedCount(jailed) ==
  LET staked == {v \in Validators : Stake[v] > 0}
  IN {v \in staked \ jailed : Cardinality({w \in staked : RanksBefore(w, v)}) < Cap}

\* ActiveValidatorSet::compute: skip the jailed and take the first Cap.
ActiveGiven(jailed) ==
  LET eligible == {v \in Validators : Stake[v] > 0 /\ v \notin jailed}
  IN {v \in eligible : Cardinality({w \in eligible : RanksBefore(w, v)}) < Cap}

\* The validators that leader_schedule may give slots to.
Active == ActiveGiven(JailedSet)

Genesis == [slot |-> 0, votes |-> [v \in Validators |-> 0], jailed |-> {}]

SlashingInit ==
  /\ status = [v \in Validators |-> DefaultStatus]
  /\ banks = {Genesis}
  /\ sentence = [v \in Validators |-> 0]
  /\ banned = {}

\* Bank::new_from_parent, with process_new_epoch when the epoch changes; then
\* the votes that land in the new bank.  The field jailed collects what the chain
\* of a bank has jailed while the node runs.
SlashingFromParent(p, slot, voters) ==
  LET epoch == slot \div SlotsPerEpoch
      boundary == epoch > Epoch(p)
      offline == {v \in Validators : boundary /\ SatSub(slot, p.votes[v]) > OfflineThreshold}
      child == [slot |-> slot,
                votes |-> [v \in Validators |-> IF v \in voters THEN p.slot ELSE p.votes[v]],
                jailed |-> p.jailed \cup offline]
  IN /\ slot > p.slot /\ Cardinality(banks) < MaxBanks
     /\ status' = IF boundary
                  THEN [v \in Validators |->
                          CheckOffline(status[v], p.votes[v], slot, epoch)]
                  ELSE status
     /\ banks' = {b \in banks \cup {child} : Epoch(b) + MaxSkew >= epoch}
     /\ UNCHANGED <<sentence, banned>>

\* Old banks are dropped once a newer one is rooted.
Prune(b) ==
  /\ b \in banks /\ \E c \in banks : c.slot > b.slot
  /\ banks' = banks \ {b}
  /\ UNCHANGED <<status, sentence, banned>>

\* slash_validator, by a caller working on bank b.
Slash(b, v) ==
  /\ ~status[v].permanent
  /\ LET n == status[v].offenses + 1
         s == ApplyJail([status[v] EXCEPT !.offenses = n], DurationFor(n), Epoch(b))
     IN /\ status' = [status EXCEPT ![v] = s]
        /\ sentence' = [sentence EXCEPT ![v] =
             LET release == Epoch(b) + (IF n >= 2 THEN SecondEpochs ELSE FirstEpochs)
             IN IF release > @ THEN release ELSE @]
        /\ banned' = IF n >= MaxOffenses THEN banned \cup {v} ELSE banned
  /\ UNCHANGED banks

\* jail_validator.
Jail(b, v, duration) ==
  /\ status' = [status EXCEPT ![v] = ApplyJail(@, duration, Epoch(b))]
  /\ banned' = IF duration = "Permanent" THEN banned \cup {v} ELSE banned
  /\ UNCHANGED <<banks, sentence>>

\* Mutant: a bug that releases a validator one epoch early.
UnjailEarly(b, v) ==
  /\ ~status[v].permanent /\ Epoch(b) + 1 >= status[v].until
  /\ status' = [status EXCEPT ![v].jailed = FALSE]
  /\ UNCHANGED <<banks, sentence, banned>>

\* unjail_validator, when it succeeds.
Unjail(b, v) ==
  /\ ~status[v].permanent /\ Epoch(b) >= status[v].until
  /\ status' = [status EXCEPT ![v].jailed = FALSE]
  /\ UNCHANGED <<banks, sentence, banned>>

\* The node is rebuilt from a snapshot of one of its banks.
SlashingFromSnapshot(b) ==
  /\ status' = [v \in Validators |-> DefaultStatus]
  /\ banks' = {[b EXCEPT !.jailed = {}]}
  /\ sentence' = [v \in Validators |-> 0]
  /\ banned' = {}

SlashingNext ==
  \/ \E p \in banks, slot \in 1..MaxSlot, voters \in VoteSets : SlashingFromParent(p, slot, voters)
  \/ \E b \in banks : Prune(b)
  \/ \E b \in banks, v \in Slashable : Slash(b, v) \/ Unjail(b, v)
  \/ \E b \in banks, v \in Slashable, d \in JailDurations : Jail(b, v, d)
  \/ \E b \in banks : SlashingFromSnapshot(b)

SlashingSpec == SlashingInit /\ [][SlashingNext]_slashingVars

-----------------------------------------------------------------------------
Statuses == [jailed : BOOLEAN, until : Nat, offenses : 0..MaxOffenses, permanent : BOOLEAN]

\* The shape of the slashing state: offences stop being counted at
\* max_offenses (slash_validator refuses a banned validator).
SlashingTypeOK ==
  /\ status \in [Validators -> Statuses]
  /\ banks \subseteq [slot : Nat, votes : [Validators -> Nat], jailed : SUBSET Validators]
  /\ sentence \in [Validators -> Nat] /\ banned \subseteq Validators
  /\ banks # {}

\* While the node runs a ban holds for good: a banned validator, or one with
\* max_offenses offenses, is never in the active set again, whatever is then
\* jailed, unjailed or slashed on any fork (slash_validator, apply_jail).
BannedNeverActive ==
  \A v \in Validators :
    (v \in banned \/ status[v].offenses >= MaxOffenses) => v \notin Active

\* Does not hold. What ValidatorJailStatus::permanently_banned promises: "If
\* true the validator can never re-enter the active set", a rebuild of the node
\* included.
BanIsForever == [][\A v \in Validators : status[v].permanent => v \notin Active']_slashingVars

\* A jail sentence is served in full: an offender is out of the active set until
\* some bank has reached the release epoch (unjail_validator).
SentenceServed ==
  \A v \in Validators :
    v \in Active => \E b \in banks : sentence[v] <= Epoch(b)

\* The active set is the Cap most staked of the validators that are not jailed,
\* whatever was jailed in the meantime (ActiveValidatorSet::compute).
ActiveSetIsTop ==
  /\ Cardinality(Active) <= Cap
  /\ \A v \in Active, w \in Validators \ Active :
       w \notin JailedSet => Stake[w] <= Stake[v]
  /\ \A w \in Validators : (Stake[w] > 0 /\ w \notin JailedSet /\ w \notin Active)
                             => Cardinality(Active) = Cap

\* Does not hold. What slashing.rs says of the state: it is kept "as part of
\* Bank".  So, once all live banks are in one epoch, the validators a bank's
\* leader schedule leaves out are those that its own chain has jailed.  (Stated
\* for a node on which nobody calls slash_validator or jail_validator.)
JailStateIsPerBank ==
  \A b \in banks :
    (\A c \in banks : Epoch(c) = Epoch(b)) => JailedSet = b.jailed
=============================================================================
