---------------------------- MODULE PassiveStake ----------------------------
(***************************************************************************)
(* The passive-stake program (programs/passive-stake/src/processor.rs): the*)
(* five instructions over positions held in program-owned accounts, under  *)
(* the SVM's rules (ProgramRuntime).  Account arguments are the ones the   *)
(* instruction documentation lists, each in its place.                     *)
(***************************************************************************)
EXTENDS ProgramRuntime

CONSTANTS Wallets,      \* accounts that may be a position's authority
          WalletOwner,  \* WalletOwner[w]: the program that owns wallet w
          Positions,    \* addresses of position accounts
          Tiers,        \* the lock tiers
          LockDays,     \* LockDays[t]: days of tier t (0 for none and permanent)
          RewardBps, PenaltyBps,  \* per tier
          PassiveBps, EpochsPerYear,
          Rate,         \* validator_reward_rate
          LockAmounts,  \* amounts a caller may lock
          Deposits,     \* rent a position account may be created with
          WalletFunds, RewardPool, PassiveU64Max,
          MaxDay

ASSUME PassiveStakeAssumption ==
  /\ RentMinimum \in Nat \ {0} /\ PassiveBps \in Nat \ {0} /\ EpochsPerYear \in Nat \ {0}
  /\ LockAmounts \subseteq Nat /\ Deposits \subseteq Nat /\ Rate \in Nat
  /\ {"none", "permanent"} \subseteq Tiers
  /\ LockDays \in [Tiers -> Nat] /\ RewardBps \in [Tiers -> Nat]
  /\ PenaltyBps \in [Tiers \ {"permanent"} -> 0..PassiveBps]
  /\ WalletFunds \in Nat /\ RewardPool \in Nat /\ PassiveU64Max \in Nat /\ MaxDay \in Nat
  /\ Cardinality(Wallets) * WalletFunds + RewardPool <= PassiveU64Max
  /\ IsFiniteSet(Wallets) /\ IsFiniteSet(Positions) /\ Wallets \cap Positions = {}

VARIABLES stakeAccounts,  \* the wallets, the positions, the reward pool
          day,            \* Clock: one epoch per day
          opened,         \* history: the epoch a position was opened in
          claimed         \* history: rewards paid out of a position

passiveVars == <<stakeAccounts, day, opened, claimed>>

PassiveProgram == "passive-stake"
Pool == "pool"

\* The pool is an account of its own, and no lock is so short of a penalty that it
\* rounds to nothing on a principal that makes an account rent exempt.
ASSUME PassiveAccountsAssumption ==
  /\ Pool \notin Wallets \cup Positions
  /\ WalletOwner \in [Wallets -> {SystemProgram, PassiveProgram}]
  /\ LockDays["none"] = 0
  /\ \A t \in Tiers \ {"permanent"} :
       LockDays[t] > 0 => PenaltyBps[t] * RentMinimum >= PassiveBps

NoStake == [open |-> FALSE, authority |-> Pool, amount |-> 0, tier |-> "none",
            lockEnd |-> 0, unclaimed |-> 0, lastEpoch |-> 0]

Position(k) == stakeAccounts[k].data

RewardPerEpoch(amount, tier) ==
  (amount * Rate * RewardBps[tier]) \div (PassiveBps * PassiveBps * EpochsPerYear)

\* early_unlock_penalty_bps_for_tier applied to a principal.
Penalty(s) == (s.amount * PenaltyBps[s.tier]) \div PassiveBps

Closed(accs, k) == [accs EXCEPT ![k] = [owner |-> @.owner, lamports |-> 0, data |-> NoStake]]

PassiveInit ==
  /\ stakeAccounts = [k \in Wallets \cup Positions \cup {Pool} |->
       [owner |-> IF k \in Wallets THEN WalletOwner[k]
                  ELSE IF k = Pool THEN PassiveProgram ELSE SystemProgram,
        lamports |-> IF k \in Wallets THEN WalletFunds
                     ELSE IF k = Pool THEN RewardPool ELSE 0,
        data |-> NoStake]]
  /\ day = 0
  /\ opened = [k \in Positions |-> 0]
  /\ claimed = [k \in Positions |-> 0]

\* One transaction: the system program creates the account with its rent, paid by
\* payer, then InitializePassiveStake moves the principal from w.
Created(payer, k, rent) ==
  [Paid(stakeAccounts, payer, -rent) EXCEPT ![k] =
     [owner |-> PassiveProgram, lamports |-> rent, data |-> @.data]]

Initialized(accs, w, k, tier, amount) ==
  Written(Paid(Paid(accs, w, -amount), k, amount), k,
          [open |-> TRUE, authority |-> w, amount |-> amount, tier |-> tier,
           lockEnd |-> IF LockDays[tier] = 0 THEN 0 ELSE day + LockDays[tier],
           unclaimed |-> 0, lastEpoch |-> day])

InitializePassiveStake(payer, w, k, rent, tier, amount) ==
  /\ stakeAccounts[k].lamports = 0
  /\ stakeAccounts[payer].owner = SystemProgram /\ stakeAccounts[payer].lamports >= rent
  /\ LET fresh == Created(payer, k, rent)
         new == Initialized(fresh, w, k, tier, amount)
     IN /\ amount > 0 /\ fresh[w].lamports >= amount
        /\ Allowed(PassiveProgram, fresh, new)
        /\ stakeAccounts' = Swept(new, NoStake)
  /\ opened' = [opened EXCEPT ![k] = day]
  /\ claimed' = [claimed EXCEPT ![k] = 0]
  /\ UNCHANGED day

\* Mutant: a bug that pays rewards out of the position's own lamports.
ClaimRewardsFromPrincipal(w, k) ==
  /\ Position(k).open /\ Position(k).authority = w /\ Position(k).unclaimed > 0
  /\ stakeAccounts' = [Paid(Paid(stakeAccounts, k, -Position(k).unclaimed), w, Position(k).unclaimed)
                    EXCEPT ![k].data.unclaimed = 0]
  /\ claimed' = [claimed EXCEPT ![k] = @ + Position(k).unclaimed]
  /\ UNCHANGED <<day, opened>>

ClaimRewards(w, k) ==
  LET s == Position(k)
      new == Written(Paid(Paid(stakeAccounts, Pool, -s.unclaimed), w, s.unclaimed),
                     k, [s EXCEPT !.unclaimed = 0])
  IN /\ s.open /\ s.authority = w /\ s.unclaimed > 0
     /\ stakeAccounts[Pool].lamports >= s.unclaimed
     /\ Allowed(PassiveProgram, stakeAccounts, new)
     /\ stakeAccounts' = Swept(new, NoStake)
     /\ claimed' = [claimed EXCEPT ![k] = @ + s.unclaimed]
     /\ UNCHANGED <<day, opened>>

\* Mutant: a bug that forgets to compare the lock's end with the clock.
UnlockableIgnoresClock(w, k) ==
  Position(k).open /\ Position(k).authority = w /\ Position(k).tier # "permanent"

\* The conditions Unlock checks.
Unlockable(w, k) ==
  /\ Position(k).open /\ Position(k).authority = w /\ Position(k).tier # "permanent"
  /\ Position(k).tier = "none" \/ day >= Position(k).lockEnd

\* What Unlock writes: all lamports leave the position, the principal arrives.
Unlocked(w, k) == Paid(Closed(stakeAccounts, k), w, Position(k).amount)

Unlock(w, k) ==
  /\ Unlockable(w, k)
  /\ Allowed(PassiveProgram, stakeAccounts, Unlocked(w, k))
  /\ stakeAccounts' = Swept(Unlocked(w, k), NoStake)
  /\ UNCHANGED <<day, opened, claimed>>

\* The conditions EarlyUnlock checks, and what it writes.
EarlyUnlockable(w, k) ==
  Position(k).open /\ Position(k).authority = w /\ Position(k).tier # "permanent"

EarlyUnlocked(w, k) ==
  Paid(Closed(stakeAccounts, k), w, Position(k).amount - Penalty(Position(k)))

EarlyUnlock(w, k) ==
  /\ EarlyUnlockable(w, k)
  /\ Allowed(PassiveProgram, stakeAccounts, EarlyUnlocked(w, k))
  /\ stakeAccounts' = Swept(EarlyUnlocked(w, k), NoStake)
  /\ UNCHANGED <<day, opened, claimed>>

\* Mutant: a bug that leaves last_reward_epoch behind.
CalculateEpochRewardsAgain(k) ==
  /\ Position(k).open /\ day > Position(k).lastEpoch
  /\ stakeAccounts' = [stakeAccounts EXCEPT ![k].data.unclaimed =
       @ + RewardPerEpoch(Position(k).amount, Position(k).tier)
           * (day - Position(k).lastEpoch)]
  /\ UNCHANGED <<day, opened, claimed>>

\* CalculateEpochRewards by the crank, which passes the current epoch and rate as
\* documented; rewards saturate at u64::MAX and the instruction fails when the
\* sum of unclaimed rewards overflows.
CalculateEpochRewards(k) ==
  LET s == Position(k)
      new == RewardPerEpoch(s.amount, s.tier) * (day - s.lastEpoch)
      total == s.unclaimed + (IF new > PassiveU64Max THEN PassiveU64Max ELSE new)
  IN /\ s.open /\ day > s.lastEpoch /\ total <= PassiveU64Max
     /\ stakeAccounts' =
          Written(stakeAccounts, k, [s EXCEPT !.unclaimed = total, !.lastEpoch = day])
     /\ UNCHANGED <<day, opened, claimed>>

NextDay == day < MaxDay /\ day' = day + 1 /\ UNCHANGED <<stakeAccounts, opened, claimed>>

PassiveNext ==
  \/ \E payer, w \in Wallets, k \in Positions, rent \in Deposits, t \in Tiers, a \in LockAmounts :
       InitializePassiveStake(payer, w, k, rent, t, a)
  \/ \E w \in Wallets, k \in Positions : ClaimRewards(w, k)
  \/ \E w \in Wallets, k \in Positions : Unlock(w, k)
  \/ \E w \in Wallets, k \in Positions : EarlyUnlock(w, k)
  \/ \E k \in Positions : CalculateEpochRewards(k)
  \/ NextDay

PassiveSpec == PassiveInit /\ [][PassiveNext]_passiveVars

-----------------------------------------------------------------------------
\* The shape of the accounts: balances fit a u64, and an account belongs to the
\* program exactly while it holds a position (closing it drains it, and the
\* runtime sweeps what is empty).
PassiveTypeOK ==
  /\ \A k \in DOMAIN stakeAccounts :
       /\ stakeAccounts[k].lamports \in 0..PassiveU64Max
       /\ stakeAccounts[k].owner \in {SystemProgram, PassiveProgram}
       /\ k \in Positions => (stakeAccounts[k].owner = PassiveProgram <=> Position(k).open)
       /\ Position(k).unclaimed \in 0..PassiveU64Max
  /\ day \in 0..MaxDay

\* Every open position is backed: its account holds the principal, it is rent
\* exempt, and no lamport was made or lost along the way (initialize, claim,
\* unlock and early unlock together with the runtime's checks).
PrincipalBacked ==
  /\ \A k \in Positions : Position(k).open =>
       /\ stakeAccounts[k].lamports >= Position(k).amount
       /\ stakeAccounts[k].lamports >= RentMinimum
       /\ stakeAccounts[k].owner = PassiveProgram
  /\ Lamports(stakeAccounts) = Cardinality(Wallets) * WalletFunds + RewardPool

\* Every epoch of a position is rewarded exactly once, however often the crank
\* runs and the owner claims (CalculateEpochRewards, ClaimRewards).
RewardsAccrueOnce ==
  \A k \in Positions : Position(k).open =>
    Position(k).unclaimed + claimed[k] =
      RewardPerEpoch(Position(k).amount, Position(k).tier)
        * (Position(k).lastEpoch - opened[k])

\* A timed lock is closed only once it has ended and a permanent one never is
\* (Unlock, EarlyUnlock and the runtime's balance check).
LockHeld ==
  [][\A k \in Positions :
       (Position(k).open /\ ~Position(k)'.open) =>
         Position(k).tier # "permanent" /\ day >= Position(k).lockEnd]_passiveVars

\* Does not hold. What instruction.rs says of Unlock: it "Returns the full
\* principal to the authority" once the lock has expired.
UnlockReturnsPrincipal ==
  \A w \in Wallets, k \in Positions :
    Unlockable(w, k) => Allowed(PassiveProgram, stakeAccounts, Unlocked(w, k))

\* Does not hold. What instruction.rs says of EarlyUnlock: "A penalty
\* (percentage of principal) is burned; the remainder is returned."
EarlyUnlockReturnsRemainder ==
  \A w \in Wallets, k \in Positions :
    EarlyUnlockable(w, k) => Allowed(PassiveProgram, stakeAccounts, EarlyUnlocked(w, k))
=============================================================================
