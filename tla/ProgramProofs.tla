---------------------------- MODULE ProgramProofs ---------------------------
(***************************************************************************)
(* Proofs about the programs that pay: the passive stake, the treasury and *)
(* the developer rewards, for any accounts, amounts and settings.          *)
(***************************************************************************)
EXTENDS PassiveStake, Treasury, DeveloperRewards, CommonProofs

\* How a leaf is tried: Zenon for a second, which is cheap, then the SMT solver
\* and Zenon in turn, and the SMT solver once more with more time.
USE ZenonT(1), SMT, Zenon, Z3T(20)

-----------------------------------------------------------------------------
(* The runtime's operations on accounts.                                   *)

\* Accounts at the addresses K, owned by the system or by program P, with data of D.
Account(P, D) == [owner : {SystemProgram, P}, lamports : Int, data : D]
Accounts(K, P, D) == [K -> Account(P, D)]

\* An account that is gone.
Empty(none) == [owner |-> SystemProgram, lamports |-> 0, data |-> none]

\* new is old with n lamports more at k, and nothing else changed.
Credited(old, new, K, k, n) ==
  /\ new[k].lamports = old[k].lamports + n
  /\ \A j \in K : /\ new[j].owner = old[j].owner
                  /\ new[j].data = old[j].data
                  /\ j # k => new[j].lamports = old[j].lamports

\* new is old with the accounts that hold nothing gone.
Tidied(old, new, K, none) ==
  \A j \in K : new[j] = IF old[j].lamports = 0 THEN Empty(none) ELSE old[j]

\* Paid changes one balance and nothing else.
LEMMA PaidAccounts ==
  ASSUME NEW K, NEW P, NEW D, NEW a \in Accounts(K, P, D), NEW k \in K, NEW n \in Int
  PROVE  Paid(a, k, n) \in Accounts(K, P, D) /\ Credited(a, Paid(a, k, n), K, k, n)
BY SMT DEF Accounts, Account, Paid, Credited

\* Sweeping keeps every balance, and the accounts that hold lamports as they were.
LEMMA SweptAccounts ==
  ASSUME NEW K, NEW P, NEW D, NEW a \in Accounts(K, P, D), NEW none \in D
  PROVE  Swept(a, none) \in Accounts(K, P, D) /\ Tidied(a, Swept(a, none), K, none)
<1>1. DOMAIN a = K /\ \A j \in K : a[j] \in Account(P, D)
  BY DEF Accounts
<1>2. Empty(none) \in Account(P, D)
  BY SMT DEF Account, Empty
<1>3. Swept(a, none) = [j \in K |-> IF a[j].lamports = 0 THEN Empty(none) ELSE a[j]]
  BY <1>1 DEF Swept, Empty
<1>4. Swept(a, none) \in Accounts(K, P, D)
  BY <1>1, <1>2, <1>3 DEF Accounts
<1>5. Tidied(a, Swept(a, none), K, none)
  BY <1>3 DEF Tidied
<1> QED
  BY <1>4, <1>5

\* Tidying keeps every balance.
LEMMA TidiedBalances ==
  ASSUME NEW K, NEW old, NEW new, NEW none, Tidied(old, new, K, none)
  PROVE  \A j \in K : new[j].lamports = old[j].lamports
BY SMT DEF Tidied, Empty

\* Writing data changes nothing else.
LEMMA WrittenAccounts ==
  ASSUME NEW K, NEW P, NEW D, NEW a \in Accounts(K, P, D), NEW k \in K, NEW d \in D
  PROVE  /\ Written(a, k, d) \in Accounts(K, P, D)
         /\ \A j \in K : j # k => Written(a, k, d)[j] = a[j]
         /\ Written(a, k, d)[k]
              = [owner |-> a[k].owner, lamports |-> a[k].lamports, data |-> d]
BY DEF Accounts, Account, Written

\* When one balance changes, so does the sum, by the difference.
LEMMA LamportsChange ==
  ASSUME NEW K, IsFiniteSet(K), NEW P, NEW D, NEW a \in Accounts(K, P, D),
         NEW b \in Accounts(K, P, D), NEW k \in K,
         \A j \in K : j # k => b[j].lamports = a[j].lamports
  PROVE  /\ Lamports(a) \in Int
         /\ Lamports(b) = Lamports(a) - a[k].lamports + b[k].lamports
<1> DEFINE f == [j \in K |-> a[j].lamports]
           g == [j \in K |-> b[j].lamports]
<1>1. DOMAIN a = K /\ DOMAIN b = K
  BY DEF Accounts
<1>2. (\A j \in K : f[j] \in Int) /\ (\A j \in K : g[j] \in Int)
  BY DEF Accounts, Account
<1>3. \A j \in K \ {k} : g[j] = f[j]
  OBVIOUS
<1>4. Lamports(a) = SumOver(f, K) /\ Lamports(b) = SumOver(g, K)
  BY <1>1 DEF Lamports
<1>5. f[k] = a[k].lamports /\ g[k] = b[k].lamports
  OBVIOUS
<1> HIDE DEF f, g
<1>6. SumOver(g, K) = SumOver(f, K) - f[k] + g[k]
  BY ONLY <1>2, <1>3, IsFiniteSet(K), k \in K, SumChange
<1>7. SumOver(f, K) \in Int
  BY <1>2, SumType
<1> QED
  BY <1>4, <1>5, <1>6, <1>7

-----------------------------------------------------------------------------
(* Passive stake.  Held is what every instruction leaves at a position's   *)
(* address: an open position, or nothing at all.                           *)

StakeKeys == Wallets \cup Positions \cup {Pool}
StakeData ==
  [open : BOOLEAN, authority : Wallets \cup {Pool}, amount : Nat, tier : Tiers,
   lockEnd : Nat, unclaimed : Nat, lastEpoch : Nat]
StakeLedger == Accounts(StakeKeys, PassiveProgram, StakeData)
StakeTotal == Cardinality(Wallets) * WalletFunds + RewardPool

Held(account, since, now) ==
  \/ account = Empty(NoStake)
  \/ /\ account.data.open
     /\ account.owner = PassiveProgram
     /\ account.lamports >= account.data.amount /\ account.lamports >= RentMinimum
     /\ account.data.amount \in LockAmounts
     /\ account.data.unclaimed <= PassiveU64Max
     /\ since <= account.data.lastEpoch /\ account.data.lastEpoch <= now
     /\ LockDays[account.data.tier] = 0 => account.data.lockEnd = 0

\* A wallet or the pool.
Outside(account) == account.lamports \in Nat /\ account.data = NoStake

StakeInv ==
  /\ stakeAccounts \in StakeLedger
  /\ day \in 0..MaxDay
  /\ opened \in [Positions -> Nat] /\ claimed \in [Positions -> Nat]
  /\ \A k \in Positions : Held(stakeAccounts[k], opened[k], day)
  /\ \A k \in Wallets \cup {Pool} : Outside(stakeAccounts[k])
  /\ Lamports(stakeAccounts) = StakeTotal

\* new is old with another account at k, and wallets and pool that still balance.
Replaced(old, new, k, account) ==
  /\ new \in StakeLedger
  /\ \A j \in Positions : new[j] = IF j = k THEN account ELSE old[j]
  /\ \A j \in Wallets \cup {Pool} : Outside(new[j])
  /\ Lamports(new) = Lamports(old)

LEMMA StakeKeysFinite == IsFiniteSet(StakeKeys)
<1>1. IsFiniteSet(Wallets) /\ IsFiniteSet(Positions) /\ IsFiniteSet({Pool})
  BY PassiveStakeAssumption, FS_Singleton
<1>2. IsFiniteSet(Wallets \cup Positions)
  BY <1>1, FS_Union
<1> QED
  BY <1>1, <1>2, FS_Union DEF StakeKeys

LEMMA NoStakeTyped == NoStake \in StakeData /\ ~NoStake.open
BY PassiveStakeAssumption DEF NoStake, StakeData

LEMMA EmptyTyped == /\ Empty(NoStake) \in Account(PassiveProgram, StakeData)
                    /\ Empty(NoStake).lamports = 0 /\ Empty(NoStake).data = NoStake
                    /\ Empty(NoStake).owner = SystemProgram
BY NoStakeTyped DEF Empty, Account

\* Replacing a held position by another keeps the invariant.
LEMMA Replacing ==
  ASSUME StakeInv, NEW k \in Positions, NEW account,
         Replaced(stakeAccounts, stakeAccounts', k, account),
         Held(account, opened'[k], day), day' = day,
         opened' \in [Positions -> Nat], claimed' \in [Positions -> Nat],
         \A j \in Positions : j # k => opened'[j] = opened[j]
  PROVE  StakeInv'
<1>1. \A j \in Positions : Held(stakeAccounts'[j], opened'[j], day)
  <2> SUFFICES ASSUME NEW j \in Positions PROVE Held(stakeAccounts'[j], opened'[j], day)
    OBVIOUS
  <2>1. CASE j = k
    BY <2>1 DEF Replaced
  <2>2. CASE j # k
    <3>1. stakeAccounts'[j] = stakeAccounts[j] /\ opened'[j] = opened[j]
      BY <2>2 DEF Replaced
    <3>2. Held(stakeAccounts[j], opened[j], day)
      BY DEF StakeInv
    <3> QED
      BY <3>1, <3>2
  <2> QED
    BY <2>1, <2>2
<1>2. \A j \in Positions : Held(stakeAccounts[j], opened[j], day)'
  BY <1>1
<1>3. \A j \in Wallets \cup {Pool} : Outside(stakeAccounts[j])'
  BY DEF Replaced
<1>4. Lamports(stakeAccounts') = StakeTotal
  BY DEF Replaced, StakeInv
<1> QED
  BY <1>2, <1>3, <1>4 DEF StakeInv, Replaced

\* What Swept makes of a held position or an account outside.
LEMMA SweptHeld ==
  ASSUME NEW p, NEW e, NEW n, Held(p, e, n)
  PROVE  (IF p.lamports = 0 THEN Empty(NoStake) ELSE p) = p
BY SMT, EmptyTyped, PassiveStakeAssumption DEF Held

LEMMA SweptOutside ==
  ASSUME NEW p, Outside(p)
  PROVE  Outside(IF p.lamports = 0 THEN Empty(NoStake) ELSE p)
BY EmptyTyped DEF Outside

\* Sweeping does not change the lamports in existence.
LEMMA LamportsSwept ==
  ASSUME NEW a \in StakeLedger
  PROVE  Lamports(Swept(a, NoStake)) = Lamports(a)
<1> DEFINE b == Swept(a, NoStake)
<1>1. b \in StakeLedger /\ Tidied(a, b, StakeKeys, NoStake)
  BY NoStakeTyped, SweptAccounts DEF StakeLedger
<1>2. \A j \in StakeKeys : b[j].lamports = a[j].lamports
  BY SMT, <1>1, TidiedBalances
<1>3. Pool \in StakeKeys /\ a[Pool].lamports \in Int
  BY DEF StakeKeys, StakeLedger, Accounts, Account
<1> HIDE DEF b
<1>4. /\ Lamports(a) \in Int
      /\ Lamports(b) = Lamports(a) - a[Pool].lamports + b[Pool].lamports
  BY SMT, <1>1, <1>2, <1>3, StakeKeysFinite, LamportsChange DEF StakeLedger
<1>5. Lamports(b) = Lamports(a)
  BY SMT, <1>2, <1>3, <1>4
<1> QED
  BY <1>5 DEF b

\* An instruction that touches one position and the accounts outside.
LEMMA SweptReplaces ==
  ASSUME StakeInv, NEW new \in StakeLedger, NEW k \in Positions,
         \A j \in Positions : j # k => new[j] = stakeAccounts[j],
         \A j \in Wallets \cup {Pool} : Outside(new[j]),
         Lamports(new) = Lamports(stakeAccounts)
  PROVE  Replaced(stakeAccounts, Swept(new, NoStake), k,
                  IF new[k].lamports = 0 THEN Empty(NoStake) ELSE new[k])
<1> DEFINE b == Swept(new, NoStake)
<1>1. b \in StakeLedger /\ Tidied(new, b, StakeKeys, NoStake)
  BY NoStakeTyped, SweptAccounts DEF StakeLedger
<1>2. Lamports(b) = Lamports(stakeAccounts)
  BY LamportsSwept
<1> HIDE DEF b
<1>3. \A j \in StakeKeys : b[j] = IF new[j].lamports = 0 THEN Empty(NoStake) ELSE new[j]
  BY <1>1 DEF Tidied
<1>4. ASSUME NEW j \in Positions, j # k PROVE b[j] = stakeAccounts[j]
  <2>1. Held(new[j], opened[j], day) /\ new[j] = stakeAccounts[j]
    BY <1>4 DEF StakeInv
  <2>2. b[j] = IF new[j].lamports = 0 THEN Empty(NoStake) ELSE new[j]
    BY <1>3 DEF StakeKeys
  <2> QED
    BY Zenon, <2>1, <2>2, SweptHeld
<1>5. ASSUME NEW j \in Wallets \cup {Pool} PROVE Outside(b[j])
  <2>1. b[j] = IF new[j].lamports = 0 THEN Empty(NoStake) ELSE new[j]
    BY <1>3 DEF StakeKeys
  <2> QED
    BY Zenon, <2>1, SweptOutside
<1>6. b[k] = IF new[k].lamports = 0 THEN Empty(NoStake) ELSE new[k]
  BY <1>3 DEF StakeKeys
<1>7. Replaced(stakeAccounts, b, k, b[k])
  BY <1>1, <1>2, <1>4, <1>5 DEF Replaced
<1>8. Replaced(stakeAccounts, b, k, IF new[k].lamports = 0 THEN Empty(NoStake) ELSE new[k])
  BY Zenon, <1>6, <1>7
<1> QED
  BY <1>8 DEF b

\* Wallets, positions and the pool are different accounts.
LEMMA StakeKeysDiffer ==
  /\ \A w \in Wallets : w \notin Positions /\ w # Pool
  /\ \A k \in Positions : k \notin Wallets /\ k # Pool
  /\ Wallets \subseteq StakeKeys /\ Positions \subseteq StakeKeys /\ Pool \in StakeKeys
BY PassiveStakeAssumption, PassiveAccountsAssumption DEF StakeKeys

\* Adding lamports changes the sum by as much.
LEMMA LamportsPaid ==
  ASSUME NEW a \in StakeLedger, NEW k \in StakeKeys, NEW n \in Int
  PROVE  Lamports(a) \in Int /\ Lamports(Paid(a, k, n)) = Lamports(a) + n
<1> DEFINE b == Paid(a, k, n)
<1>1. b \in StakeLedger /\ Credited(a, b, StakeKeys, k, n)
  BY PaidAccounts DEF StakeLedger
<1> HIDE DEF b
<1>2. b[k].lamports = a[k].lamports + n /\ a[k].lamports \in Int
      /\ \A j \in StakeKeys : j # k => b[j].lamports = a[j].lamports
  BY <1>1 DEF Credited, StakeLedger, Accounts, Account
<1>3. /\ Lamports(a) \in Int
      /\ Lamports(b) = Lamports(a) - a[k].lamports + b[k].lamports
  BY SMT, <1>1, <1>2, StakeKeysFinite, LamportsChange DEF StakeLedger
<1>4. Lamports(b) = Lamports(a) + n
  BY <1>2, <1>3
<1> QED
  BY <1>3, <1>4 DEF b

\* Unlock and EarlyUnlock, which drain a position and pay n to its authority: the
\* runtime lets that pass only when n is all the position held.
LEMMA Closing ==
  ASSUME StakeInv, NEW w \in Wallets, NEW k \in Positions, NEW n \in Int, Position(k).open,
         Allowed(PassiveProgram, stakeAccounts, Paid(Closed(stakeAccounts, k), w, n)),
         stakeAccounts' = Swept(Paid(Closed(stakeAccounts, k), w, n), NoStake)
  PROVE  /\ Replaced(stakeAccounts, stakeAccounts', k, Empty(NoStake))
         /\ stakeAccounts[k].lamports = n
<1> DEFINE a == stakeAccounts
           b == Closed(a, k)
           c == Paid(b, w, n)
<1>1. a \in StakeLedger /\ a[k].lamports \in Int /\ k \in StakeKeys /\ w \in StakeKeys
      /\ w # k /\ w # Pool /\ k # Pool /\ a[w].lamports \in Nat
  BY StakeKeysDiffer DEF StakeInv, StakeLedger, Accounts, Account, Outside
<1>2. /\ b \in StakeLedger
      /\ b[k].lamports = 0 /\ b[k].data = NoStake
      /\ \A j \in StakeKeys : j # k => b[j] = a[j]
  BY <1>1, NoStakeTyped DEF StakeLedger, Accounts, Account, Closed
<1> HIDE DEF b
<1>3. c \in StakeLedger /\ Credited(b, c, StakeKeys, w, n)
  BY <1>1, <1>2, PaidAccounts DEF StakeLedger
<1>4. Lamports(a) \in Int /\ Lamports(b) = Lamports(a) - a[k].lamports + b[k].lamports
  <2>1. \A j \in StakeKeys : j # k => b[j].lamports = a[j].lamports
    BY <1>2
  <2> HIDE DEF a
  <2> QED
    BY ONLY <1>1, <1>2, <2>1, StakeKeysFinite, LamportsChange DEF StakeLedger
<1>5. Lamports(c) = Lamports(b) + n /\ Lamports(b) \in Int
  BY <1>1, <1>2, LamportsPaid
<1>6. Lamports(c) = Lamports(a)
  BY DEF Allowed, b
<1>7. a[k].lamports = n
  <2>1. b[k].lamports = 0 /\ a[k].lamports \in Int
    BY <1>1, <1>2
  <2>2. \A x, y, u, z \in Int : y = x - u + 0 /\ z = y + n /\ z = x => u = n
    BY SMT
  <2>3. Lamports(b) = Lamports(a) - a[k].lamports + 0
    BY <1>4, <2>1
  <2> QED
    BY ONLY n \in Int, <1>4, <1>5, <1>6, <2>1, <2>2, <2>3
<1>8. n \in Nat
  <2>1. Held(a[k], opened[k], day) /\ a[k] # Empty(NoStake)
    BY EmptyTyped, NoStakeTyped DEF StakeInv, Position
  <2> QED
    BY SMT, <1>7, <2>1, PassiveStakeAssumption DEF Held
<1> HIDE DEF c
<1>9. /\ c[w].lamports = b[w].lamports + n
      /\ \A j \in StakeKeys : j # w => c[j].lamports = b[j].lamports
      /\ \A j \in StakeKeys : c[j].data = b[j].data
      /\ \A j \in StakeKeys : c[j].owner = b[j].owner
  BY <1>3 DEF Credited
<1>10. ASSUME NEW j \in Positions, j # k PROVE c[j] = a[j]
  <2>1. j \in StakeKeys /\ j # w
    BY StakeKeysDiffer
  <2>2. b[j] = a[j]
    BY <1>2, <1>10, <2>1
  <2>3. c[j].owner = b[j].owner /\ c[j].data = b[j].data /\ c[j].lamports = b[j].lamports
    BY <1>9, <2>1
  <2>4. c[j] \in Account(PassiveProgram, StakeData) /\ b[j] \in Account(PassiveProgram, StakeData)
    BY <1>2, <1>3, <2>1 DEF StakeLedger, Accounts
  <2> QED
    BY SMT, <2>2, <2>3, <2>4 DEF Account
<1>11. ASSUME NEW j \in Wallets \cup {Pool} PROVE Outside(c[j])
  <2>1. j \in StakeKeys /\ j # k /\ Outside(a[j])
    BY StakeKeysDiffer DEF StakeInv
  <2>2. b[j] = a[j]
    BY <1>2, <2>1
  <2>3. c[j].data = NoStake
    BY <1>9, <2>1, <2>2 DEF Outside
  <2>4. c[j].lamports \in Nat
    BY SMT, <1>8, <1>9, <2>1, <2>2 DEF Outside
  <2> QED
    BY <2>3, <2>4 DEF Outside
<1>12. c[k].lamports = 0
  BY <1>1, <1>2, <1>9
<1>13. Replaced(a, Swept(c, NoStake), k,
                IF c[k].lamports = 0 THEN Empty(NoStake) ELSE c[k])
  BY <1>3, <1>6, <1>10, <1>11, SweptReplaces
<1>14. Replaced(a, Swept(c, NoStake), k, Empty(NoStake))
  BY Zenon, <1>12, <1>13
<1> QED
  BY <1>7, <1>14 DEF b, c

\* One account is paid, the others stay as they are.
LEMMA PaidOne ==
  ASSUME NEW a \in StakeLedger, NEW k \in StakeKeys, NEW n \in Int
  PROVE  /\ Paid(a, k, n) \in StakeLedger
         /\ \A j \in StakeKeys : j # k => Paid(a, k, n)[j] = a[j]
         /\ Paid(a, k, n)[k].lamports = a[k].lamports + n
         /\ Paid(a, k, n)[k].owner = a[k].owner /\ Paid(a, k, n)[k].data = a[k].data
         /\ a[k].lamports \in Int
BY SMT DEF StakeLedger, Accounts, Account, Paid

\* Payments to accounts outside.
LEMMA PaidOutside ==
  ASSUME NEW a \in StakeLedger, NEW w \in Wallets \cup {Pool}, NEW n \in Int,
         \A j \in Wallets \cup {Pool} : Outside(a[j]), a[w].lamports + n >= 0
  PROVE  \A j \in Wallets \cup {Pool} : Outside(Paid(a, w, n)[j])
<1> SUFFICES ASSUME NEW j \in Wallets \cup {Pool} PROVE Outside(Paid(a, w, n)[j])
  OBVIOUS
<1>1. w \in StakeKeys /\ j \in StakeKeys
  BY StakeKeysDiffer
<1>2. CASE j # w
  BY <1>1, <1>2, PaidOne
<1>3. CASE j = w
  <2>1. Outside(a[w])
    OBVIOUS
  <2>2. Paid(a, w, n)[w].lamports = a[w].lamports + n /\ Paid(a, w, n)[w].data = a[w].data
    BY <1>1, PaidOne
  <2> QED
    BY SMT, <1>3, <2>1, <2>2 DEF Outside
<1> QED
  BY <1>2, <1>3

\* ClaimRewards pays from the pool and touches nothing of the position but its
\* unclaimed rewards.
LEMMA Claiming ==
  ASSUME StakeInv, NEW w \in Wallets, NEW k \in Positions, ClaimRewards(w, k)
  PROVE  Replaced(stakeAccounts, stakeAccounts', k,
           [owner |-> stakeAccounts[k].owner, lamports |-> stakeAccounts[k].lamports,
            data |-> [Position(k) EXCEPT !.unclaimed = 0]])
<1> DEFINE a == stakeAccounts
           s == Position(k)
           n == s.unclaimed
           b == Paid(a, Pool, -n)
           c == Paid(b, w, n)
           t == [s EXCEPT !.unclaimed = 0]
           new == Written(c, k, t)
<1>1. a \in StakeLedger /\ k \in StakeKeys /\ w \in StakeKeys /\ Pool \in StakeKeys
      /\ w # k /\ w # Pool /\ k # Pool
  BY StakeKeysDiffer DEF StakeInv
<1>2. s \in StakeData /\ a[k] \in Account(PassiveProgram, StakeData)
  BY <1>1 DEF StakeLedger, Accounts, Account, Position
<1>3. n \in Nat /\ n \in Int /\ -n \in Int /\ t \in StakeData
  BY SMT, <1>2 DEF StakeData
<1>4. /\ s.open /\ a[Pool].lamports >= n
      /\ Allowed(PassiveProgram, a, new) /\ stakeAccounts' = Swept(new, NoStake)
  BY DEF ClaimRewards
<1> HIDE DEF s, n, t, b, c, new
<1>5. /\ b \in StakeLedger
      /\ \A j \in StakeKeys : j # Pool => b[j] = a[j]
      /\ b[Pool].lamports = a[Pool].lamports + (-n)
      /\ \A j \in Wallets \cup {Pool} : Outside(b[j])
  <2>1. \A j \in Wallets \cup {Pool} : Outside(a[j])
    BY DEF StakeInv
  <2>2. a[Pool].lamports + (-n) >= 0
    BY SMT, <1>3, <1>4, <2>1 DEF Outside
  <2>3. b \in StakeLedger /\ (\A j \in StakeKeys : j # Pool => b[j] = a[j])
        /\ b[Pool].lamports = a[Pool].lamports + (-n)
    BY SMT, <1>1, <1>3, PaidOne DEF b
  <2>4. Pool \in Wallets \cup {Pool}
    OBVIOUS
  <2>5. \A j \in Wallets \cup {Pool} : Outside(b[j])
    BY <1>1, <1>3, <2>1, <2>2, <2>4, PaidOutside DEF b
  <2> QED
    BY <2>3, <2>5
<1>6. /\ c \in StakeLedger
      /\ \A j \in StakeKeys : j # w => c[j] = b[j]
      /\ \A j \in Wallets \cup {Pool} : Outside(c[j])
  <2>1. b[w].lamports + n >= 0
    BY <1>3, <1>5 DEF Outside
  <2>2. b \in StakeLedger /\ w \in StakeKeys /\ n \in Int
    BY <1>1, <1>3, <1>5
  <2>3. w \in Wallets \cup {Pool}
    OBVIOUS
  <2>5. c \in StakeLedger /\ (\A j \in StakeKeys : j # w => c[j] = b[j])
    BY <2>2, PaidOne DEF c
  <2>4. \A j \in Wallets \cup {Pool} : Outside(c[j])
    BY <1>3, <1>5, <2>1, <2>3, PaidOutside DEF c
  <2> QED
    BY <2>4, <2>5
<1>7. /\ new \in StakeLedger
      /\ \A j \in StakeKeys : j # k => new[j] = c[j]
      /\ new[k] = [owner |-> c[k].owner, lamports |-> c[k].lamports, data |-> t]
  BY <1>1, <1>3, <1>6, WrittenAccounts DEF StakeLedger, new
<1>8. c[k] = a[k]
  BY <1>1, <1>5, <1>6
<1>9. a[k].lamports # 0
  <2>1. Held(a[k], opened[k], day) /\ a[k] # Empty(NoStake)
    BY <1>4, EmptyTyped, NoStakeTyped DEF StakeInv, Position, s
  <2> QED
    BY <2>1, PassiveStakeAssumption DEF Held
<1>10. Lamports(new) = Lamports(a)
  BY <1>4 DEF Allowed
<1>11. \A j \in Positions : j # k => new[j] = a[j]
  BY <1>5, <1>6, <1>7, StakeKeysDiffer
<1>12. \A j \in Wallets \cup {Pool} : Outside(new[j])
  BY <1>6, <1>7, StakeKeysDiffer
<1>13. Replaced(a, Swept(new, NoStake), k,
                IF new[k].lamports = 0 THEN Empty(NoStake) ELSE new[k])
  BY <1>7, <1>10, <1>11, <1>12, SweptReplaces
<1>14. new[k].lamports = a[k].lamports
       /\ new[k] = [owner |-> a[k].owner, lamports |-> a[k].lamports, data |-> t]
  BY <1>7, <1>8
<1>15. Replaced(a, Swept(new, NoStake), k, new[k])
  BY Zenon, <1>9, <1>13, <1>14
<1> QED
  BY Zenon, <1>4, <1>14, <1>15 DEF s, t

\* CalculateEpochRewards writes the position and moves no lamports.
LEMMA Accruing ==
  ASSUME StakeInv, NEW k \in Positions, NEW t \in StakeData,
         stakeAccounts' = Written(stakeAccounts, k, t)
  PROVE  Replaced(stakeAccounts, stakeAccounts', k,
           [owner |-> stakeAccounts[k].owner, lamports |-> stakeAccounts[k].lamports,
            data |-> t])
<1> DEFINE a == stakeAccounts
           new == Written(a, k, t)
<1>1. a \in StakeLedger /\ k \in StakeKeys
  BY StakeKeysDiffer DEF StakeInv
<1>2. /\ new \in StakeLedger
      /\ \A j \in StakeKeys : j # k => new[j] = a[j]
      /\ new[k] = [owner |-> a[k].owner, lamports |-> a[k].lamports, data |-> t]
  BY SMT, <1>1, WrittenAccounts DEF StakeLedger
<1> HIDE DEF new
<1>3. Lamports(new) = Lamports(a)
  <2>1. (\A j \in StakeKeys : j # k => new[j].lamports = a[j].lamports)
        /\ new[k].lamports = a[k].lamports /\ a[k].lamports \in Int
    BY <1>1, <1>2 DEF StakeLedger, Accounts, Account
  <2>2. Lamports(a) \in Int /\ Lamports(new) = Lamports(a) - a[k].lamports + new[k].lamports
    BY ONLY <1>1, <1>2, <2>1, StakeKeysFinite, LamportsChange DEF StakeLedger
  <2> QED
    BY SMT, <2>1, <2>2
<1>4. \A j \in Wallets \cup {Pool} : Outside(new[j])
  <2> SUFFICES ASSUME NEW j \in Wallets \cup {Pool} PROVE Outside(new[j])
    OBVIOUS
  <2>1. j \in StakeKeys /\ j # k
    BY StakeKeysDiffer
  <2>2. Outside(a[j])
    BY DEF StakeInv
  <2> QED
    BY <1>2, <2>1, <2>2
<1>5. \A j \in Positions : new[j] = IF j = k THEN new[k] ELSE a[j]
  BY <1>2, StakeKeysDiffer
<1>6. Replaced(a, new, k, new[k])
  BY <1>2, <1>3, <1>4, <1>5 DEF Replaced
<1> QED
  BY Zenon, <1>2, <1>6 DEF new

\* InitializePassiveStake: the principal is in the new account, which the runtime
\* accepts only when it is rent exempt.
LEMMA Opening ==
  ASSUME StakeInv, NEW payer \in Wallets, NEW w \in Wallets, NEW k \in Positions,
         NEW rent \in Deposits, NEW tier \in Tiers, NEW amount \in LockAmounts,
         InitializePassiveStake(payer, w, k, rent, tier, amount)
  PROVE  /\ rent + amount >= RentMinimum
         /\ stakeAccounts[k] = Empty(NoStake)
         /\ Replaced(stakeAccounts, stakeAccounts', k,
              [owner |-> PassiveProgram, lamports |-> rent + amount,
               data |-> [open |-> TRUE, authority |-> w, amount |-> amount, tier |-> tier,
                         lockEnd |-> IF LockDays[tier] = 0 THEN 0 ELSE day + LockDays[tier],
                         unclaimed |-> 0, lastEpoch |-> day]])
<1> DEFINE a == stakeAccounts
           s == [open |-> TRUE, authority |-> w, amount |-> amount, tier |-> tier,
                 lockEnd |-> IF LockDays[tier] = 0 THEN 0 ELSE day + LockDays[tier],
                 unclaimed |-> 0, lastEpoch |-> day]
           b == Paid(a, payer, -rent)
           fresh == Created(payer, k, rent)
           c == Paid(fresh, w, -amount)
           d == Paid(c, k, amount)
           new == Written(d, k, s)
<1>1. a \in StakeLedger /\ k \in StakeKeys /\ w \in StakeKeys /\ payer \in StakeKeys
      /\ w # k /\ payer # k
  BY StakeKeysDiffer DEF StakeInv
<1>2. rent \in Nat /\ amount \in Nat /\ -rent \in Int /\ -amount \in Int
      /\ rent \in Int /\ amount \in Int
  BY SMT, PassiveStakeAssumption
<1>3. s \in StakeData
  <2>1. day \in Nat /\ LockDays[tier] \in Nat
    BY SMT, PassiveStakeAssumption DEF StakeInv
  <2> QED
    BY SMT, <1>2, <2>1 DEF StakeData
<1>4. /\ a[k].lamports = 0 /\ a[payer].lamports >= rent
      /\ amount > 0 /\ fresh[w].lamports >= amount
      /\ Allowed(PassiveProgram, fresh, new)
      /\ stakeAccounts' = Swept(new, NoStake)
  BY DEF InitializePassiveStake, Initialized
<1>5. a[k] = Empty(NoStake)
  <2>1. Held(a[k], opened[k], day)
    BY DEF StakeInv
  <2> QED
    BY <1>4, <2>1, PassiveStakeAssumption DEF Held
<1> HIDE DEF s, b, c, d, new
<1>6. /\ b \in StakeLedger
      /\ \A j \in StakeKeys : j # payer => b[j] = a[j]
      /\ \A j \in Wallets \cup {Pool} : Outside(b[j])
      /\ Lamports(b) = Lamports(a) + (-rent) /\ Lamports(a) \in Int
  <2>1. \A j \in Wallets \cup {Pool} : Outside(a[j])
    BY DEF StakeInv
  <2>2. a[payer].lamports + (-rent) >= 0
    BY <1>2, <1>4, <2>1 DEF Outside
  <2>4. a \in StakeLedger /\ payer \in StakeKeys /\ -rent \in Int /\ payer \in Wallets \cup {Pool}
    BY <1>1, <1>2
  <2> HIDE DEF a
  <2>3. Lamports(b) = Lamports(a) + (-rent) /\ Lamports(a) \in Int
    BY ONLY <2>4, LamportsPaid DEF b
  <2>5. b \in StakeLedger /\ \A j \in StakeKeys : j # payer => b[j] = a[j]
    BY ONLY <2>4, PaidOne DEF b
  <2>6. \A j \in Wallets \cup {Pool} : Outside(b[j])
    BY ONLY <2>1, <2>2, <2>4, PaidOutside DEF b
  <2>7. b \in StakeLedger
    BY <2>5
  <2> QED
    BY <2>3, <2>5, <2>6, <2>7
<1>7. /\ fresh \in StakeLedger
      /\ \A j \in StakeKeys : j # k => fresh[j] = b[j]
      /\ fresh[k].owner = PassiveProgram /\ fresh[k].lamports = rent
  BY <1>1, <1>2, <1>6 DEF StakeLedger, Accounts, Account, Created, b
<1> HIDE DEF fresh
<1>8. b[k].lamports = 0
  BY <1>1, <1>4, <1>6
<1>9. Lamports(fresh) = Lamports(a) /\ Lamports(b) \in Int
  <2>1. \A j \in StakeKeys : j # k => fresh[j].lamports = b[j].lamports
    BY <1>7
  <2>2. Lamports(b) \in Int /\ Lamports(fresh) = Lamports(b) - b[k].lamports + fresh[k].lamports
    BY ONLY <1>1, <1>6, <1>7, <2>1, StakeKeysFinite, LamportsChange DEF StakeLedger
  <2>3. Lamports(fresh) = Lamports(b) - 0 + rent
    BY <1>7, <1>8, <2>2
  <2>4. \A x, y, z \in Int : y = x + (-rent) /\ z = y - 0 + rent => z = x
    BY SMT, <1>2
  <2>5. Lamports(b) - 0 + rent \in Int
    BY SMT, <1>2, <2>2
  <2>6. Lamports(fresh) \in Int /\ Lamports(b) = Lamports(a) + (-rent)
        /\ Lamports(a) \in Int /\ Lamports(b) \in Int
    BY <1>6, <2>2, <2>3, <2>5
  <2> HIDE DEF a
  <2> QED
    BY ONLY <2>3, <2>4, <2>6
<1>10. \A j \in Wallets \cup {Pool} : Outside(fresh[j])
  <2> SUFFICES ASSUME NEW j \in Wallets \cup {Pool} PROVE Outside(fresh[j])
    OBVIOUS
  <2>1. j \in StakeKeys /\ j # k
    BY StakeKeysDiffer
  <2>2. fresh[j] = b[j]
    BY <1>7, <2>1
  <2> QED
    BY <1>6, <2>2
<1>11. /\ c \in StakeLedger
       /\ \A j \in StakeKeys : j # w => c[j] = fresh[j]
       /\ \A j \in Wallets \cup {Pool} : Outside(c[j])
  <2>1. fresh[w].lamports + (-amount) >= 0
    BY SMT, <1>2, <1>4, <1>10 DEF Outside
  <2>2. /\ c \in StakeLedger
        /\ \A j \in StakeKeys : j # w => c[j] = fresh[j]
    <3>1. fresh \in StakeLedger /\ w \in StakeKeys /\ -amount \in Int
      BY <1>1, <1>2, <1>7
    <3> QED
      BY ONLY <3>1, PaidOne DEF c
  <2>3. w \in Wallets \cup {Pool}
    OBVIOUS
  <2>4. \A j \in Wallets \cup {Pool} : Outside(c[j])
    BY ONLY <1>2, <1>7, <1>10, <2>1, <2>3, PaidOutside DEF c
  <2> QED
    BY <2>2, <2>4
<1>12. /\ d \in StakeLedger
       /\ \A j \in StakeKeys : j # k => d[j] = c[j]
       /\ d[k].lamports = c[k].lamports + amount /\ d[k].owner = c[k].owner
  <2>1. c \in StakeLedger /\ k \in StakeKeys /\ amount \in Int
    BY <1>1, <1>2, <1>11
  <2> QED
    BY ONLY <2>1, PaidOne DEF d
<1>13. /\ new \in StakeLedger
       /\ \A j \in StakeKeys : j # k => new[j] = d[j]
       /\ new[k] = [owner |-> d[k].owner, lamports |-> d[k].lamports, data |-> s]
  BY SMT, <1>1, <1>3, <1>12, WrittenAccounts DEF StakeLedger, new
<1>14. c[k] = fresh[k]
  BY <1>1, <1>11
<1>15. new[k] = [owner |-> PassiveProgram, lamports |-> rent + amount, data |-> s]
  BY <1>7, <1>12, <1>13, <1>14
<1>16. Lamports(new) = Lamports(a)
  BY <1>4, <1>9 DEF Allowed
<1>17. \A j \in Positions : j # k => new[j] = a[j]
  <2> SUFFICES ASSUME NEW j \in Positions, j # k PROVE new[j] = a[j]
    OBVIOUS
  <2>1. j \in StakeKeys /\ j # w /\ j # payer
    BY StakeKeysDiffer
  <2> QED
    BY SMT, <1>6, <1>7, <1>11, <1>12, <1>13, <2>1
<1>18. \A j \in Wallets \cup {Pool} : Outside(new[j])
  BY <1>11, <1>12, <1>13, StakeKeysDiffer
<1>19. rent + amount >= RentMinimum /\ new[k].lamports # 0
  <2>1. DOMAIN fresh = StakeKeys
    BY <1>7 DEF StakeLedger, Accounts
  <2>2. new[k].lamports # fresh[k].lamports =>
          new[k].lamports = 0 \/ new[k].lamports >= RentMinimum
    BY <1>1, <1>4, <2>1 DEF Allowed
  <2>3. new[k].lamports = rent + amount
    BY SMT, <1>15
  <2>4. fresh[k].lamports = rent
    BY <1>7
  <2>5. rent + amount # rent /\ rent + amount # 0
    BY <1>2, <1>4
  <2> QED
    BY <2>2, <2>3, <2>4, <2>5
<1>20. Replaced(a, Swept(new, NoStake), k,
                IF new[k].lamports = 0 THEN Empty(NoStake) ELSE new[k])
  BY <1>13, <1>16, <1>17, <1>18, SweptReplaces
<1>21. Replaced(a, Swept(new, NoStake), k, new[k])
  BY Zenon, <1>19, <1>20
<1> QED
  BY Zenon, <1>4, <1>5, <1>15, <1>19, <1>21 DEF s

\* The data ClaimRewards and CalculateEpochRewards write.
LEMMA AccruedData ==
  ASSUME NEW s \in StakeData, NEW u \in Nat, NEW e \in Nat
  PROVE  /\ [s EXCEPT !.unclaimed = u, !.lastEpoch = e] \in StakeData
         /\ [s EXCEPT !.unclaimed = u, !.lastEpoch = e] =
              [open |-> s.open, authority |-> s.authority, amount |-> s.amount,
               tier |-> s.tier, lockEnd |-> s.lockEnd, unclaimed |-> u, lastEpoch |-> e]
         /\ [s EXCEPT !.unclaimed = u] =
              [open |-> s.open, authority |-> s.authority, amount |-> s.amount,
               tier |-> s.tier, lockEnd |-> s.lockEnd, unclaimed |-> u,
               lastEpoch |-> s.lastEpoch]
<1> DEFINE t == [s EXCEPT !.unclaimed = u, !.lastEpoch = e]
           r == [open |-> s.open, authority |-> s.authority, amount |-> s.amount,
                 tier |-> s.tier, lockEnd |-> s.lockEnd, unclaimed |-> u, lastEpoch |-> e]
<1>1. t = r
  <2> DEFINE q == [s EXCEPT !.unclaimed = u]
  <2>1. q = [open |-> s.open, authority |-> s.authority, amount |-> s.amount,
             tier |-> s.tier, lockEnd |-> s.lockEnd, unclaimed |-> u, lastEpoch |-> s.lastEpoch]
    BY SMT DEF StakeData
  <2>2. t = [q EXCEPT !.lastEpoch = e]
    OBVIOUS
  <2> HIDE DEF q, t
  <2>3. [q EXCEPT !.lastEpoch = e] = r
    BY SMT, <2>1
  <2> QED
    BY <2>2, <2>3
<1>2. r \in StakeData
  BY DEF StakeData
<1>3. [s EXCEPT !.unclaimed = u] =
        [open |-> s.open, authority |-> s.authority, amount |-> s.amount,
         tier |-> s.tier, lockEnd |-> s.lockEnd, unclaimed |-> u, lastEpoch |-> s.lastEpoch]
  BY SMT DEF StakeData
<1> HIDE DEF t, r
<1>4. t \in StakeData
  BY <1>1, <1>2
<1> QED
  BY <1>1, <1>3, <1>4 DEF t, r

\* A held position with new rewards is held.
LEMMA HeldAccrued ==
  ASSUME NEW p \in Account(PassiveProgram, StakeData), NEW e, NEW n, Held(p, e, n), p.data.open,
         NEW u \in 0..PassiveU64Max, NEW d \in Nat, e <= d, d <= n
  PROVE  Held([owner |-> p.owner, lamports |-> p.lamports,
               data |-> [open |-> p.data.open, authority |-> p.data.authority,
                         amount |-> p.data.amount, tier |-> p.data.tier,
                         lockEnd |-> p.data.lockEnd, unclaimed |-> u, lastEpoch |-> d]], e, n)
<1>1. p # Empty(NoStake)
  BY EmptyTyped, NoStakeTyped
<1> QED
  BY <1>1 DEF Held

LEMMA StakeInitial == PassiveInit => StakeInv
<1> SUFFICES ASSUME PassiveInit PROVE StakeInv
  OBVIOUS
<1>1. stakeAccounts \in StakeLedger
  BY SMT, PassiveStakeAssumption, PassiveAccountsAssumption, NoStakeTyped
    DEF PassiveInit, StakeLedger, StakeKeys, Accounts, Account
<1>2. /\ \A k \in Positions : Held(stakeAccounts[k], opened[k], day)
      /\ \A k \in Wallets \cup {Pool} : Outside(stakeAccounts[k])
  <2>1. \A k \in Positions : stakeAccounts[k] = Empty(NoStake)
    BY StakeKeysDiffer DEF PassiveInit, Empty
  <2>2. \A k \in Wallets \cup {Pool} : Outside(stakeAccounts[k])
    BY PassiveStakeAssumption DEF PassiveInit, Outside
  <2> QED
    BY <2>1, <2>2 DEF Held
<1>3. Lamports(stakeAccounts) = StakeTotal
  <2> DEFINE f == [k \in DOMAIN stakeAccounts |-> stakeAccounts[k].lamports]
             WP == Wallets \cup Positions
  <2>1. DOMAIN stakeAccounts = StakeKeys
    BY <1>1 DEF StakeLedger, Accounts
  <2>2. \A k \in StakeKeys :
          f[k] = IF k \in Wallets THEN WalletFunds ELSE IF k = Pool THEN RewardPool ELSE 0
    BY <2>1 DEF PassiveInit
  <2>3. Lamports(stakeAccounts) = SumOver(f, StakeKeys)
    BY <2>1 DEF Lamports
  <2> HIDE DEF f
  <2>4. IsFiniteSet(Wallets) /\ IsFiniteSet(Positions) /\ Wallets \cap Positions = {}
    BY PassiveStakeAssumption
  <2>5. (\A k \in Wallets : f[k] = WalletFunds) /\ (\A k \in Positions : f[k] = 0)
        /\ f[Pool] = RewardPool
    BY <2>2, StakeKeysDiffer
  <2>6. WalletFunds \in Int /\ 0 \in Int /\ RewardPool \in Int
    BY SMT, PassiveStakeAssumption
  <2>7. SumOver(f, Wallets) = Cardinality(Wallets) * WalletFunds
    BY ONLY <2>4, <2>5, <2>6, SumConstant
  <2>8. SumOver(f, Positions) = Cardinality(Positions) * 0
    BY ONLY <2>4, <2>5, <2>6, SumConstant
  <2>9. SumOver(f, Positions) = 0
    BY SMT, <2>4, <2>8, FS_CardinalityType
  <2>10. \A k \in WP : f[k] \in Int
    BY <2>5, <2>6
  <2>11. SumOver(f, WP) = SumOver(f, Wallets) + SumOver(f, Positions)
    BY ONLY <2>4, <2>10, SumDisjoint
  <2>12. IsFiniteSet(WP) /\ Pool \notin WP /\ f[Pool] \in Int
    BY <2>4, <2>5, <2>6, StakeKeysDiffer, FS_Union
  <2> HIDE DEF WP
  <2>13. SumOver(f, WP \cup {Pool}) = SumOver(f, WP) + f[Pool]
    BY ONLY <2>10, <2>12, SumAdd
  <2>14. StakeKeys = WP \cup {Pool}
    BY DEF StakeKeys, WP
  <2>15. SumOver(f, Wallets) \in Int
    <3>1. \A k \in Wallets : f[k] \in Int
      BY <2>5, <2>6
    <3> QED
      BY ONLY <2>4, <3>1, SumType
  <2>16. SumOver(f, StakeKeys) = SumOver(f, Wallets) + RewardPool
    BY SMT, <2>5, <2>6, <2>9, <2>11, <2>13, <2>14, <2>15
  <2> QED
    BY ONLY <2>3, <2>7, <2>16 DEF StakeTotal
<1>4. day \in 0..MaxDay /\ opened \in [Positions -> Nat] /\ claimed \in [Positions -> Nat]
  BY SMT, PassiveStakeAssumption DEF PassiveInit
<1> QED
  BY <1>1, <1>2, <1>3, <1>4 DEF StakeInv

\* What CalculateEpochRewards adds to a position: one reward for each epoch since
\* the last, and never more than a u64.
EpochRewards(s) == RewardPerEpoch(s.amount, s.tier) * (day - s.lastEpoch)
Accrual(s) == s.unclaimed + (IF EpochRewards(s) > PassiveU64Max THEN PassiveU64Max ELSE EpochRewards(s))

LEMMA AccrualTyped ==
  ASSUME StakeInv, NEW s \in StakeData, day > s.lastEpoch
  PROVE  Accrual(s) \in Nat /\ EpochRewards(s) \in Nat
<1>1. RewardPerEpoch(s.amount, s.tier) \in Nat
  <2>1. s.amount \in Nat /\ Rate \in Nat /\ RewardBps[s.tier] \in Nat
        /\ PassiveBps \in Nat \ {0} /\ EpochsPerYear \in Nat \ {0}
    BY PassiveStakeAssumption DEF StakeData
  <2>2. \A x, y, z \in Nat : x * y * z \in Nat
    BY SMT
  <2>3. \A x, y \in Nat \ {0} : x * x * y \in Nat \ {0}
    BY SMT
  <2>4. \A x \in Nat, y \in Nat \ {0} : x \div y \in Nat
    BY SMT
  <2> QED
    BY <2>1, <2>2, <2>3, <2>4 DEF RewardPerEpoch
<1>2. day - s.lastEpoch \in Nat
  BY SMT, PassiveStakeAssumption DEF StakeInv, StakeData
<1>3. \A x, y \in Nat : x * y \in Nat
  BY SMT
<1>4. EpochRewards(s) \in Nat
  BY <1>1, <1>2, <1>3 DEF EpochRewards
<1> QED
  BY SMT, <1>4, PassiveStakeAssumption DEF Accrual, StakeData

\* The position CalculateEpochRewards leaves.
LEMMA AccruingPosition ==
  ASSUME StakeInv, NEW k \in Positions, CalculateEpochRewards(k)
  PROVE  LET s == Position(k)
         IN /\ s \in StakeData /\ s.open /\ day > s.lastEpoch
            /\ Accrual(s) \in 0..PassiveU64Max
            /\ Replaced(stakeAccounts, stakeAccounts', k,
                 [owner |-> stakeAccounts[k].owner, lamports |-> stakeAccounts[k].lamports,
                  data |-> [open |-> s.open, authority |-> s.authority, amount |-> s.amount,
                            tier |-> s.tier, lockEnd |-> s.lockEnd,
                            unclaimed |-> Accrual(s), lastEpoch |-> day]])
<1> DEFINE s == Position(k)
<1>1. s \in StakeData /\ day \in Nat
  BY SMT, PassiveStakeAssumption, StakeKeysDiffer
    DEF StakeInv, StakeLedger, Accounts, Account, Position
<1>2. /\ s.open /\ day > s.lastEpoch /\ Accrual(s) <= PassiveU64Max
      /\ stakeAccounts' =
           Written(stakeAccounts, k, [s EXCEPT !.unclaimed = Accrual(s), !.lastEpoch = day])
  BY DEF CalculateEpochRewards, Accrual, EpochRewards
<1> HIDE DEF s
<1>3. Accrual(s) \in Nat
  BY <1>1, <1>2, AccrualTyped
<1> DEFINE t == [s EXCEPT !.unclaimed = Accrual(s), !.lastEpoch = day]
<1>4. t \in StakeData
      /\ t = [open |-> s.open, authority |-> s.authority, amount |-> s.amount,
              tier |-> s.tier, lockEnd |-> s.lockEnd,
              unclaimed |-> Accrual(s), lastEpoch |-> day]
  BY <1>1, <1>3, AccruedData
<1>5. stakeAccounts' = Written(stakeAccounts, k, t)
  BY <1>2
<1> HIDE DEF t
<1>6. Replaced(stakeAccounts, stakeAccounts', k,
           [owner |-> stakeAccounts[k].owner, lamports |-> stakeAccounts[k].lamports,
            data |-> t])
  BY ONLY StakeInv, k \in Positions, <1>4, <1>5, Accruing
<1>7. Accrual(s) \in 0..PassiveU64Max
  BY <1>2, <1>3, PassiveStakeAssumption
<1> QED
  BY Zenon, <1>1, <1>2, <1>4, <1>6, <1>7 DEF s

\* The position ClaimRewards leaves.
LEMMA ClaimingPosition ==
  ASSUME StakeInv, NEW w \in Wallets, NEW k \in Positions, ClaimRewards(w, k)
  PROVE  LET s == Position(k)
         IN /\ s \in StakeData /\ s.open
            /\ Replaced(stakeAccounts, stakeAccounts', k,
                 [owner |-> stakeAccounts[k].owner, lamports |-> stakeAccounts[k].lamports,
                  data |-> [open |-> s.open, authority |-> s.authority, amount |-> s.amount,
                            tier |-> s.tier, lockEnd |-> s.lockEnd,
                            unclaimed |-> 0, lastEpoch |-> s.lastEpoch]])
<1> DEFINE s == Position(k)
<1>1. s \in StakeData
  BY StakeKeysDiffer DEF StakeInv, StakeLedger, Accounts, Account, Position
<1>2. s.open
  BY DEF ClaimRewards
<1>3. Replaced(stakeAccounts, stakeAccounts', k,
           [owner |-> stakeAccounts[k].owner, lamports |-> stakeAccounts[k].lamports,
            data |-> [s EXCEPT !.unclaimed = 0]])
  BY Claiming
<1> HIDE DEF s
<1>4. [s EXCEPT !.unclaimed = 0]
        = [open |-> s.open, authority |-> s.authority, amount |-> s.amount,
           tier |-> s.tier, lockEnd |-> s.lockEnd, unclaimed |-> 0, lastEpoch |-> s.lastEpoch]
  BY <1>1, AccruedData
<1> QED
  BY Zenon, <1>1, <1>2, <1>3, <1>4 DEF s

\* EarlyUnlock pays an amount, so that Closing applies to it.
LEMMA ReturnedTyped ==
  ASSUME StakeInv, NEW k \in Positions, Position(k).tier # "permanent"
  PROVE  /\ Position(k).amount \in Int /\ Penalty(Position(k)) \in Nat
         /\ Position(k).amount - Penalty(Position(k)) \in Int
<1>1. Position(k) \in StakeData
  BY StakeKeysDiffer DEF StakeInv, StakeLedger, Accounts, Account, Position
<1>2. Position(k).amount \in Nat /\ PenaltyBps[Position(k).tier] \in Nat
      /\ PassiveBps \in Nat \ {0}
  BY SMT, <1>1, PassiveStakeAssumption DEF StakeData
<1>3. \A x, y \in Nat, z \in Nat \ {0} : (x * y) \div z \in Nat
  <2>1. \A x, y \in Nat : x * y \in Nat
    BY SMT
  <2>2. \A x \in Nat, z \in Nat \ {0} : x \div z \in Nat
    BY SMT
  <2> QED
    BY <2>1, <2>2
<1>4. Penalty(Position(k)) \in Nat
  BY <1>2, <1>3 DEF Penalty
<1> QED
  BY SMT, <1>2, <1>4

\* A step of the program replaces the account of one position, or is NextDay.
LEMMA StakeStep == StakeInv /\ [PassiveNext]_passiveVars => StakeInv'
<1> SUFFICES ASSUME StakeInv, [PassiveNext]_passiveVars PROVE StakeInv'
  OBVIOUS
<1>1. \A k \in Positions : /\ stakeAccounts[k] \in Account(PassiveProgram, StakeData)
                           /\ Held(stakeAccounts[k], opened[k], day)
                           /\ opened[k] \in Nat /\ claimed[k] \in Nat
  BY StakeKeysDiffer DEF StakeInv, StakeLedger, Accounts
<1>2. /\ day \in Nat /\ MaxDay \in Nat /\ day \in 0..MaxDay
      /\ opened \in [Positions -> Nat] /\ claimed \in [Positions -> Nat]
  BY PassiveStakeAssumption DEF StakeInv
<1>3. CASE UNCHANGED passiveVars
  BY <1>3 DEF passiveVars, StakeInv
<1>4. ASSUME NEW payer \in Wallets, NEW w \in Wallets, NEW k \in Positions,
             NEW rent \in Deposits, NEW tier \in Tiers, NEW amount \in LockAmounts,
             InitializePassiveStake(payer, w, k, rent, tier, amount)
      PROVE  StakeInv'
  <2> DEFINE p == [owner |-> PassiveProgram, lamports |-> rent + amount,
                   data |-> [open |-> TRUE, authority |-> w, amount |-> amount, tier |-> tier,
                             lockEnd |-> IF LockDays[tier] = 0 THEN 0 ELSE day + LockDays[tier],
                             unclaimed |-> 0, lastEpoch |-> day]]
  <2>1. rent + amount >= RentMinimum /\ Replaced(stakeAccounts, stakeAccounts', k, p)
    BY <1>4, Opening
  <2>2. opened' = [opened EXCEPT ![k] = day] /\ claimed' = [claimed EXCEPT ![k] = 0] /\ day' = day
    BY <1>4 DEF InitializePassiveStake
  <2>3. /\ opened' \in [Positions -> Nat] /\ claimed' \in [Positions -> Nat]
        /\ opened'[k] = day /\ \A j \in Positions : j # k => opened'[j] = opened[j]
    BY <1>2, <2>2
  <2>4. Held(p, day, day)
    <3>1. rent \in Nat /\ amount \in Nat /\ RentMinimum \in Nat /\ PassiveU64Max \in Nat
      BY PassiveStakeAssumption
    <3> QED
      BY SMT, <1>2, <2>1, <3>1 DEF Held
  <2> HIDE DEF p
  <2> QED
    BY <2>1, <2>2, <2>3, <2>4, Replacing
<1>5. ASSUME NEW w \in Wallets, NEW k \in Positions, ClaimRewards(w, k)
      PROVE  StakeInv'
  <2> DEFINE a == stakeAccounts[k]
             s == Position(k)
             p == [owner |-> a.owner, lamports |-> a.lamports,
                   data |-> [open |-> s.open, authority |-> s.authority, amount |-> s.amount,
                             tier |-> s.tier, lockEnd |-> s.lockEnd,
                             unclaimed |-> 0, lastEpoch |-> s.lastEpoch]]
  <2>1. s \in StakeData /\ s.open /\ Replaced(stakeAccounts, stakeAccounts', k, p)
    BY <1>5, ClaimingPosition
  <2>2. claimed' = [claimed EXCEPT ![k] = @ + s.unclaimed] /\ day' = day /\ opened' = opened
    BY <1>5 DEF ClaimRewards
  <2>3. claimed' \in [Positions -> Nat]
    BY <1>2, <2>1, <2>2 DEF StakeData
  <2>4. Held(p, opened[k], day)
    <3>1. s = a.data /\ a \in Account(PassiveProgram, StakeData) /\ Held(a, opened[k], day)
      BY <1>1 DEF Position
    <3>2. opened[k] <= s.lastEpoch /\ s.lastEpoch <= day /\ s.lastEpoch \in Nat
      BY <2>1, <3>1, EmptyTyped, NoStakeTyped DEF Held, StakeData
    <3>3. 0 \in 0..PassiveU64Max
      BY PassiveStakeAssumption
    <3> QED
      BY <2>1, <3>1, <3>2, <3>3, HeldAccrued
  <2> HIDE DEF p
  <2> QED
    BY <1>2, <2>1, <2>2, <2>3, <2>4, Replacing
<1>6. ASSUME NEW w \in Wallets, NEW k \in Positions, Unlock(w, k) \/ EarlyUnlock(w, k)
      PROVE  StakeInv'
  <2>1. Replaced(stakeAccounts, stakeAccounts', k, Empty(NoStake))
    <3>1. Position(k).tier # "permanent" /\ Position(k).open
      BY <1>6 DEF Unlock, EarlyUnlock, Unlockable, EarlyUnlockable
    <3>2. Position(k).amount \in Int /\ Position(k).amount - Penalty(Position(k)) \in Int
      BY <3>1, ReturnedTyped
    <3>3. CASE Unlock(w, k)
      BY <3>1, <3>2, <3>3, Closing DEF Unlock, Unlocked
    <3>4. CASE EarlyUnlock(w, k)
      BY <3>1, <3>2, <3>4, Closing DEF EarlyUnlock, EarlyUnlocked
    <3> QED
      BY <1>6, <3>3, <3>4
  <2>2. Held(Empty(NoStake), opened'[k], day)
    BY DEF Held
  <2>3. UNCHANGED <<day, opened, claimed>>
    BY <1>6 DEF Unlock, EarlyUnlock
  <2> QED
    BY <1>2, <2>1, <2>2, <2>3, Replacing
<1>7. ASSUME NEW k \in Positions, CalculateEpochRewards(k)
      PROVE  StakeInv'
  <2> DEFINE a == stakeAccounts[k]
             s == Position(k)
             p == [owner |-> a.owner, lamports |-> a.lamports,
                   data |-> [open |-> s.open, authority |-> s.authority, amount |-> s.amount,
                             tier |-> s.tier, lockEnd |-> s.lockEnd,
                             unclaimed |-> Accrual(s), lastEpoch |-> day]]
  <2>1. /\ s \in StakeData /\ s.open /\ day > s.lastEpoch
        /\ Accrual(s) \in 0..PassiveU64Max
        /\ Replaced(stakeAccounts, stakeAccounts', k, p)
    BY <1>7, AccruingPosition
  <2>2. UNCHANGED <<day, opened, claimed>>
    BY <1>7 DEF CalculateEpochRewards
  <2>3. Held(p, opened[k], day)
    <3>1. s = a.data /\ a \in Account(PassiveProgram, StakeData) /\ Held(a, opened[k], day)
      BY <1>1 DEF Position
    <3>2. opened[k] <= s.lastEpoch
      BY <2>1, <3>1, EmptyTyped, NoStakeTyped DEF Held
    <3>3. opened[k] \in Nat /\ s.lastEpoch \in Nat
      BY <1>1, <2>1 DEF StakeData
    <3>4. opened[k] <= day /\ day <= day
      BY SMT, <1>2, <2>1, <3>2, <3>3
    <3> QED
      BY <1>2, <2>1, <3>1, <3>4, HeldAccrued
  <2> HIDE DEF p
  <2> QED
    BY <1>2, <2>1, <2>2, <2>3, Replacing
<1>8. CASE NextDay
  <2>1. /\ day' = day + 1 /\ day' \in 0..MaxDay
        /\ UNCHANGED <<stakeAccounts, opened, claimed>>
    BY SMT, <1>2, <1>8 DEF NextDay
  <2>2. \A k \in Positions : Held(stakeAccounts[k], opened[k], day')
    <3> SUFFICES ASSUME NEW k \in Positions PROVE Held(stakeAccounts[k], opened[k], day')
      OBVIOUS
    <3>1. CASE stakeAccounts[k] = Empty(NoStake)
      BY <3>1 DEF Held
    <3>2. CASE stakeAccounts[k] # Empty(NoStake)
      <4>1. stakeAccounts[k].data.lastEpoch \in Nat
        BY <1>1 DEF Account, StakeData
      <4> QED
        BY <1>1, <1>2, <2>1, <3>2, <4>1 DEF Held
    <3> QED
      BY <3>1, <3>2
  <2>3. \A k \in Positions : Held(stakeAccounts[k], opened[k], day)'
    BY <2>1, <2>2
  <2>4. stakeAccounts' = stakeAccounts
    BY <2>1
  <2> QED
    BY <1>2, <2>1, <2>3, <2>4 DEF StakeInv
<1> QED
  BY <1>3, <1>4, <1>5, <1>6, <1>7, <1>8 DEF PassiveNext

\* For any wallets, positions, tiers and amounts, every open position is backed by
\* lamports its owner cannot lose, and none are made or lost (the five instructions
\* under the SVM's balance rules).
THEOREM PositionsAreBacked == PassiveSpec => []PrincipalBacked
<1>1. StakeInv => PrincipalBacked
  BY EmptyTyped, NoStakeTyped
    DEF StakeInv, PrincipalBacked, Held, Position, StakeTotal
<1> QED
  BY <1>1, StakeInitial, StakeStep, PTL DEF PassiveSpec

\* The types of the accounts: each balance is part of a total that fits a u64, and an
\* account at a position's address is the program's exactly while it is open.
THEOREM PassiveTypeCorrect == PassiveSpec => []PassiveTypeOK
<1>1. StakeInv => PassiveTypeOK
  <2> SUFFICES ASSUME StakeInv PROVE PassiveTypeOK
    OBVIOUS
  <2>1. DOMAIN stakeAccounts = StakeKeys /\ day \in 0..MaxDay /\ stakeAccounts \in StakeLedger
    BY DEF StakeInv, StakeLedger, Accounts
  <2>2. \A k \in StakeKeys : stakeAccounts[k] \in Account(PassiveProgram, StakeData)
    BY <2>1 DEF StakeLedger, Accounts
  <2>3. \A k \in Positions : Held(stakeAccounts[k], opened[k], day)
    BY DEF StakeInv
  <2>4. \A k \in Wallets \cup {Pool} : Outside(stakeAccounts[k])
    BY DEF StakeInv
  <2>5. \A k \in Positions : stakeAccounts[k].lamports \in Nat
    <3> SUFFICES ASSUME NEW k \in Positions PROVE stakeAccounts[k].lamports \in Nat
      OBVIOUS
    <3>1. stakeAccounts[k].lamports \in Int
      BY <2>2, StakeKeysDiffer DEF Account
    <3> QED
      BY SMT, <2>3, <3>1, EmptyTyped, PassiveStakeAssumption DEF Held
  <2>6. \A k \in StakeKeys : stakeAccounts[k].lamports \in Nat
    BY <2>4, <2>5 DEF StakeKeys, Outside
  <2>7. \A k \in StakeKeys : stakeAccounts[k].lamports <= StakeTotal
    <3> DEFINE f == [k \in StakeKeys |-> stakeAccounts[k].lamports]
    <3>1. \A k \in StakeKeys : f[k] \in Nat
      BY <2>6
    <3>2. SumOver(f, StakeKeys) = StakeTotal
      BY <2>1 DEF StakeInv, Lamports
    <3>3. \A k \in StakeKeys : f[k] = stakeAccounts[k].lamports
      OBVIOUS
    <3> HIDE DEF f
    <3>4. \A k \in StakeKeys : f[k] <= SumOver(f, StakeKeys)
      BY ONLY <3>1, StakeKeysFinite, SumBounds
    <3> QED
      BY <3>2, <3>3, <3>4
  <2>8. StakeTotal \in Nat /\ StakeTotal <= PassiveU64Max /\ PassiveU64Max \in Nat
    <3>1. Cardinality(Wallets) \in Nat /\ WalletFunds \in Nat /\ RewardPool \in Nat
      BY PassiveStakeAssumption, FS_CardinalityType
    <3>2. \A x, y, z \in Nat : x * y + z \in Nat
      BY SMT
    <3>3. StakeTotal \in Nat
      BY <3>1, <3>2 DEF StakeTotal
    <3> QED
      BY <3>3, PassiveStakeAssumption DEF StakeTotal
  <2>9. ASSUME NEW k \in StakeKeys
        PROVE  /\ stakeAccounts[k].lamports \in 0..PassiveU64Max
               /\ stakeAccounts[k].owner \in {SystemProgram, PassiveProgram}
    BY SMT, <2>2, <2>6, <2>7, <2>8 DEF Account
  <2>10. ASSUME NEW k \in StakeKeys PROVE stakeAccounts[k].data.unclaimed \in 0..PassiveU64Max
    <3>1. NoStake.unclaimed = 0
      BY DEF NoStake
    <3>2. stakeAccounts[k].data.unclaimed \in Nat
      BY <2>2 DEF Account, StakeData
    <3>3. CASE k \in Positions
      BY <2>3, <2>8, <3>1, <3>2, <3>3, EmptyTyped DEF Held
    <3>4. CASE k \in Wallets \cup {Pool}
      BY SMT, <2>4, <2>8, <3>1, <3>4 DEF Outside
    <3> QED
      BY <3>3, <3>4 DEF StakeKeys
  <2>11. ASSUME NEW k \in Positions
         PROVE  stakeAccounts[k].owner = PassiveProgram <=> stakeAccounts[k].data.open
    <3>1. PassiveProgram # SystemProgram
      BY DEF PassiveProgram, SystemProgram
    <3> QED
      BY <2>3, <3>1, EmptyTyped, NoStakeTyped DEF Held
  <2> QED
    BY <2>1, <2>9, <2>10, <2>11 DEF PassiveTypeOK, Position
<1> QED
  BY <1>1, StakeInitial, StakeStep, PTL DEF PassiveSpec

\* A lock is held until it ends, for any tiers: an early unlock that the runtime lets
\* pass has no penalty, and so no lock (Unlock, EarlyUnlock, can_data_be_changed).
THEOREM LocksAreHeld == PassiveSpec => LockHeld
<1> DEFINE Holds ==
      \A k \in Positions :
        (Position(k).open /\ ~Position(k)'.open) =>
          Position(k).tier # "permanent" /\ day >= Position(k).lockEnd
<1>1. StakeInv /\ [PassiveNext]_passiveVars => [Holds]_passiveVars
  <2> SUFFICES ASSUME StakeInv, PassiveNext, NEW k \in Positions,
                      Position(k).open, ~Position(k)'.open
               PROVE  Position(k).tier # "permanent" /\ day >= Position(k).lockEnd
    BY DEF passiveVars
  <2> DEFINE a == stakeAccounts[k]
  <2>1. /\ a \in Account(PassiveProgram, StakeData) /\ Held(a, opened[k], day)
        /\ a # Empty(NoStake) /\ day \in Nat /\ Position(k) = a.data
    BY SMT, StakeKeysDiffer, EmptyTyped, NoStakeTyped
      DEF StakeInv, StakeLedger, Accounts, Position
  <2>2. /\ a.lamports >= a.data.amount /\ a.lamports >= RentMinimum
        /\ LockDays[a.data.tier] = 0 => a.data.lockEnd = 0
        /\ a.data.amount \in Nat /\ a.lamports \in Int /\ a.data.tier \in Tiers
        /\ a.data.lockEnd \in Nat
    BY <2>1 DEF Held, Account, StakeData
  <2>3. ASSUME NEW w \in Wallets, Unlock(w, k)
        PROVE  Position(k).tier # "permanent" /\ day >= Position(k).lockEnd
    <3>1. /\ a.data.tier # "permanent"
          /\ a.data.tier = "none" \/ day >= a.data.lockEnd
      BY <2>3 DEF Unlock, Unlockable, Position
    <3> QED
      BY <2>1, <2>2, <3>1, PassiveAccountsAssumption
  <2>4. ASSUME NEW w \in Wallets, EarlyUnlock(w, k)
        PROVE  Position(k).tier # "permanent" /\ day >= Position(k).lockEnd
    <3> DEFINE pb == PenaltyBps[a.data.tier]
    <3>1. a.data.tier # "permanent" /\ Position(k).open
      BY <2>4 DEF EarlyUnlock, EarlyUnlockable, Position
    <3>2. Penalty(a.data) \in Nat /\ a.data.amount - Penalty(a.data) \in Int
      BY <2>1, <3>1, ReturnedTyped
    <3>3. a.lamports = a.data.amount - Penalty(a.data)
      BY <2>1, <2>4, <3>1, <3>2, Closing DEF EarlyUnlock, EarlyUnlocked
    <3>4. Penalty(a.data) = 0 /\ a.data.amount >= RentMinimum
      <4>1. \A l, m, q \in Int : l = m - q /\ l >= m /\ q >= 0 => q = 0 /\ l = m
        OBVIOUS
      <4>2. a.lamports \in Int /\ a.data.amount \in Int /\ Penalty(a.data) \in Int
            /\ Penalty(a.data) >= 0 /\ a.lamports >= a.data.amount
        BY SMT, <2>2, <3>2
      <4>3. Penalty(a.data) = 0 /\ a.lamports = a.data.amount
        BY ONLY <3>3, <4>1, <4>2
      <4> QED
        BY <2>2, <4>3
    <3>5. pb \in Nat /\ PassiveBps \in Nat \ {0} /\ RentMinimum \in Nat
      BY SMT, <2>2, <3>1, PassiveStakeAssumption
    <3>6. (a.data.amount * pb) \div PassiveBps = 0
      BY <3>4 DEF Penalty
    <3>7. LockDays[a.data.tier] > 0 => pb * RentMinimum >= PassiveBps
      BY <2>2, <3>1, PassiveAccountsAssumption
    <3>8. \A x, y, r \in Nat, m \in Nat \ {0} :
            x >= r /\ (x * y) \div m = 0 => ~(y * r >= m)
      <4>1. \A x, y, r \in Nat : x >= r => x * y >= y * r
        BY SMT
      <4>2. \A q \in Nat, m \in Nat \ {0} : q \div m = 0 => q < m
        BY SMT
      <4>3. \A x, y \in Nat : x * y \in Nat
        OBVIOUS
      <4> QED
        BY SMT, <4>1, <4>2, <4>3
    <3>9. ~(pb * RentMinimum >= PassiveBps)
      <4> HIDE DEF pb
      <4>1. a.data.amount \in Nat
        BY <2>2
      <4> QED
        BY ONLY <3>4, <3>5, <3>6, <3>8, <4>1
    <3>10. LockDays[a.data.tier] = 0
      BY <2>2, <3>7, <3>9, PassiveStakeAssumption
    <3> QED
      BY <2>1, <2>2, <3>1, <3>10
  <2>5. ASSUME NEW j \in Positions, NEW p, Replaced(stakeAccounts, stakeAccounts', j, p),
               j = k => p.data.open
        PROVE  FALSE
    <3>1. stakeAccounts'[k] = IF k = j THEN p ELSE stakeAccounts[k]
      BY <2>5 DEF Replaced
    <3>2. Position(k)' = stakeAccounts'[k].data
      BY DEF Position
    <3> QED
      BY <2>1, <2>5, <3>1, <3>2
  <2>6. ASSUME NEW payer \in Wallets, NEW w \in Wallets, NEW j \in Positions,
               NEW rent \in Deposits, NEW tier \in Tiers, NEW amount \in LockAmounts,
               InitializePassiveStake(payer, w, j, rent, tier, amount)
        PROVE  FALSE
    <3> DEFINE p == [owner |-> PassiveProgram, lamports |-> rent + amount,
                     data |-> [open |-> TRUE, authority |-> w, amount |-> amount, tier |-> tier,
                               lockEnd |-> IF LockDays[tier] = 0 THEN 0 ELSE day + LockDays[tier],
                               unclaimed |-> 0, lastEpoch |-> day]]
    <3>1. Replaced(stakeAccounts, stakeAccounts', j, p)
      BY <2>6, Opening
    <3>2. p.data.open
      OBVIOUS
    <3> HIDE DEF p
    <3> QED
      BY <2>5, <3>1, <3>2
  <2>7. ASSUME NEW w \in Wallets, NEW j \in Positions, ClaimRewards(w, j)
        PROVE  FALSE
    <3> DEFINE s == Position(j)
               p == [owner |-> stakeAccounts[j].owner, lamports |-> stakeAccounts[j].lamports,
                     data |-> [open |-> s.open, authority |-> s.authority, amount |-> s.amount,
                               tier |-> s.tier, lockEnd |-> s.lockEnd,
                               unclaimed |-> 0, lastEpoch |-> s.lastEpoch]]
    <3>1. s.open /\ Replaced(stakeAccounts, stakeAccounts', j, p)
      BY <2>7, ClaimingPosition
    <3>2. p.data.open
      BY <3>1
    <3> HIDE DEF p
    <3> QED
      BY <2>5, <3>1, <3>2
  <2>8. ASSUME NEW j \in Positions, CalculateEpochRewards(j)
        PROVE  FALSE
    <3> DEFINE s == Position(j)
               p == [owner |-> stakeAccounts[j].owner, lamports |-> stakeAccounts[j].lamports,
                     data |-> [open |-> s.open, authority |-> s.authority, amount |-> s.amount,
                               tier |-> s.tier, lockEnd |-> s.lockEnd,
                               unclaimed |-> Accrual(s), lastEpoch |-> day]]
    <3>1. s.open /\ Replaced(stakeAccounts, stakeAccounts', j, p)
      BY <2>8, AccruingPosition
    <3>2. p.data.open
      BY <3>1
    <3> HIDE DEF p
    <3> QED
      BY <2>5, <3>1, <3>2
  <2>9. ASSUME NEW w \in Wallets, NEW j \in Positions, j # k, Unlock(w, j) \/ EarlyUnlock(w, j)
        PROVE  FALSE
    <3>1. Position(j).tier # "permanent" /\ Position(j).open
      BY <2>9 DEF Unlock, EarlyUnlock, Unlockable, EarlyUnlockable
    <3>2. Position(j).amount \in Int /\ Position(j).amount - Penalty(Position(j)) \in Int
      BY <3>1, ReturnedTyped
    <3>3. CASE Unlock(w, j)
      BY <2>5, <2>9, <3>1, <3>2, <3>3, Closing DEF Unlock, Unlocked
    <3>4. CASE EarlyUnlock(w, j)
      BY <2>5, <2>9, <3>1, <3>2, <3>4, Closing DEF EarlyUnlock, EarlyUnlocked
    <3> QED
      BY <2>9, <3>3, <3>4
  <2>10. CASE NextDay
    BY <2>10 DEF NextDay, Position
  <2> QED
    BY <2>3, <2>4, <2>6, <2>7, <2>8, <2>9, <2>10 DEF PassiveNext
<1> QED
  BY <1>1, StakeInitial, StakeStep, PTL DEF PassiveSpec, LockHeld

\* No reward of any position exceeds a u64 over the epochs considered, so that the
\* saturating multiplication of CalculateEpochRewards never saturates.
NoSaturation ==
  \A a \in LockAmounts, t \in Tiers : RewardPerEpoch(a, t) * MaxDay <= PassiveU64Max

\* The position's rewards, claimed or not, are those of the epochs it has been open.
Earned(account, since, received) ==
  account.data.open =>
    account.data.unclaimed + received =
      RewardPerEpoch(account.data.amount, account.data.tier)
        * (account.data.lastEpoch - since)

RewardInv ==
  StakeInv /\ \A k \in Positions : Earned(stakeAccounts[k], opened[k], claimed[k])

\* RewardPerEpoch is a number.
LEMMA RewardTyped ==
  ASSUME NEW a \in Nat, NEW t \in Tiers
  PROVE  RewardPerEpoch(a, t) \in Nat
<1>1. Rate \in Nat /\ RewardBps[t] \in Nat
      /\ PassiveBps \in Nat \ {0} /\ EpochsPerYear \in Nat \ {0}
  BY PassiveStakeAssumption
<1>2. \A x, y, z \in Nat : x * y * z \in Nat
  BY SMT
<1>3. \A x, y \in Nat \ {0} : x * x * y \in Nat \ {0}
  BY SMT
<1>4. \A x \in Nat, y \in Nat \ {0} : x \div y \in Nat
  BY SMT
<1> QED
  BY <1>1, <1>2, <1>3, <1>4 DEF RewardPerEpoch

LEMMA RewardReplacing ==
  ASSUME RewardInv, NEW k \in Positions, NEW p, Replaced(stakeAccounts, stakeAccounts', k, p),
         Earned(p, opened'[k], claimed'[k]),
         \A j \in Positions : j # k => opened'[j] = opened[j] /\ claimed'[j] = claimed[j]
  PROVE  \A j \in Positions : Earned(stakeAccounts'[j], opened'[j], claimed'[j])
<1> SUFFICES ASSUME NEW j \in Positions
             PROVE  Earned(stakeAccounts'[j], opened'[j], claimed'[j])
  OBVIOUS
<1>1. CASE j = k
  BY <1>1 DEF Replaced
<1>2. CASE j # k
  <2>1. stakeAccounts'[j] = stakeAccounts[j] /\ opened'[j] = opened[j] /\ claimed'[j] = claimed[j]
    BY <1>2 DEF Replaced
  <2>2. Earned(stakeAccounts[j], opened[j], claimed[j])
    BY DEF RewardInv
  <2> QED
    BY <2>1, <2>2
<1> QED
  BY <1>1, <1>2

LEMMA RewardStep ==
  ASSUME NoSaturation
  PROVE  RewardInv /\ [PassiveNext]_passiveVars => RewardInv'
<1> SUFFICES ASSUME RewardInv, [PassiveNext]_passiveVars
             PROVE  \A j \in Positions : Earned(stakeAccounts'[j], opened'[j], claimed'[j])
  BY StakeStep DEF RewardInv
<1>1. StakeInv /\ \A j \in Positions : Earned(stakeAccounts[j], opened[j], claimed[j])
  BY DEF RewardInv
<1>2. /\ day \in Nat /\ MaxDay \in Nat /\ day <= MaxDay
      /\ opened \in [Positions -> Nat] /\ claimed \in [Positions -> Nat]
  BY SMT, <1>1, PassiveStakeAssumption DEF StakeInv
<1>3. CASE UNCHANGED <<stakeAccounts, opened, claimed>>
  BY <1>1, <1>3
<1>4. ASSUME NEW payer \in Wallets, NEW w \in Wallets, NEW k \in Positions,
             NEW rent \in Deposits, NEW tier \in Tiers, NEW amount \in LockAmounts,
             InitializePassiveStake(payer, w, k, rent, tier, amount)
      PROVE  \A j \in Positions : Earned(stakeAccounts'[j], opened'[j], claimed'[j])
  <2> DEFINE p == [owner |-> PassiveProgram, lamports |-> rent + amount,
                   data |-> [open |-> TRUE, authority |-> w, amount |-> amount, tier |-> tier,
                             lockEnd |-> IF LockDays[tier] = 0 THEN 0 ELSE day + LockDays[tier],
                             unclaimed |-> 0, lastEpoch |-> day]]
  <2>1. Replaced(stakeAccounts, stakeAccounts', k, p)
    BY <1>1, <1>4, Opening
  <2>2. opened' = [opened EXCEPT ![k] = day] /\ claimed' = [claimed EXCEPT ![k] = 0]
    BY <1>4 DEF InitializePassiveStake
  <2>3. opened'[k] = day /\ claimed'[k] = 0
        /\ \A j \in Positions : j # k => opened'[j] = opened[j] /\ claimed'[j] = claimed[j]
    BY <1>2, <2>2
  <2>4. Earned(p, day, 0)
    <3>1. RewardPerEpoch(amount, tier) \in Nat
      BY RewardTyped, PassiveStakeAssumption
    <3>2. \A r, x \in Nat : r * (x - x) = 0 + 0
      BY SMT
    <3>3. RewardPerEpoch(amount, tier) * (day - day) = 0 + 0
      BY <1>2, <3>1, <3>2
    <3> QED
      BY <3>3 DEF Earned
  <2> HIDE DEF p
  <2> QED
    BY <2>1, <2>3, <2>4, RewardReplacing
<1>5. ASSUME NEW w \in Wallets, NEW k \in Positions, ClaimRewards(w, k)
      PROVE  \A j \in Positions : Earned(stakeAccounts'[j], opened'[j], claimed'[j])
  <2> DEFINE a == stakeAccounts[k]
             s == Position(k)
             p == [owner |-> a.owner, lamports |-> a.lamports,
                   data |-> [open |-> s.open, authority |-> s.authority, amount |-> s.amount,
                             tier |-> s.tier, lockEnd |-> s.lockEnd,
                             unclaimed |-> 0, lastEpoch |-> s.lastEpoch]]
  <2>1. s \in StakeData /\ s.open /\ Replaced(stakeAccounts, stakeAccounts', k, p)
    BY <1>1, <1>5, ClaimingPosition
  <2>2. claimed' = [claimed EXCEPT ![k] = @ + s.unclaimed] /\ opened' = opened
    BY <1>5 DEF ClaimRewards
  <2>3. /\ opened'[k] = opened[k] /\ claimed'[k] = claimed[k] + s.unclaimed
        /\ \A j \in Positions : j # k => opened'[j] = opened[j] /\ claimed'[j] = claimed[j]
    BY <1>2, <2>2
  <2>4. s.unclaimed + claimed[k]
          = RewardPerEpoch(s.amount, s.tier) * (s.lastEpoch - opened[k])
    BY <1>1, <2>1 DEF Earned, Position
  <2>5. 0 + claimed'[k] = s.unclaimed + claimed[k]
    <3>1. s.unclaimed \in Nat /\ claimed[k] \in Nat
      BY <1>2, <2>1 DEF StakeData
    <3> HIDE DEF s
    <3> QED
      BY <2>3, <3>1
  <2>6. Earned(p, opened'[k], claimed'[k])
    BY Zenon, <2>3, <2>4, <2>5 DEF Earned
  <2> HIDE DEF p
  <2> QED
    BY <2>1, <2>3, <2>6, RewardReplacing
<1>6. ASSUME NEW w \in Wallets, NEW k \in Positions, Unlock(w, k) \/ EarlyUnlock(w, k)
      PROVE  \A j \in Positions : Earned(stakeAccounts'[j], opened'[j], claimed'[j])
  <2>1. Replaced(stakeAccounts, stakeAccounts', k, Empty(NoStake))
    <3>1. Position(k).tier # "permanent" /\ Position(k).open
      BY <1>6 DEF Unlock, EarlyUnlock, Unlockable, EarlyUnlockable
    <3>2. Position(k).amount \in Int /\ Position(k).amount - Penalty(Position(k)) \in Int
      BY <1>1, <3>1, ReturnedTyped
    <3>3. CASE Unlock(w, k)
      BY <1>1, <3>1, <3>2, <3>3, Closing DEF Unlock, Unlocked
    <3>4. CASE EarlyUnlock(w, k)
      BY <1>1, <3>1, <3>2, <3>4, Closing DEF EarlyUnlock, EarlyUnlocked
    <3> QED
      BY <1>6, <3>3, <3>4
  <2>2. Earned(Empty(NoStake), opened'[k], claimed'[k])
    BY EmptyTyped, NoStakeTyped DEF Earned
  <2>3. opened' = opened /\ claimed' = claimed
    BY <1>6 DEF Unlock, EarlyUnlock
  <2> QED
    BY <2>1, <2>2, <2>3, RewardReplacing
<1>7. ASSUME NEW k \in Positions, CalculateEpochRewards(k)
      PROVE  \A j \in Positions : Earned(stakeAccounts'[j], opened'[j], claimed'[j])
  <2> DEFINE a == stakeAccounts[k]
             s == Position(k)
             r == RewardPerEpoch(s.amount, s.tier)
             p == [owner |-> a.owner, lamports |-> a.lamports,
                   data |-> [open |-> s.open, authority |-> s.authority, amount |-> s.amount,
                             tier |-> s.tier, lockEnd |-> s.lockEnd,
                             unclaimed |-> Accrual(s), lastEpoch |-> day]]
  <2>1. s \in StakeData /\ s.open /\ day > s.lastEpoch
        /\ Replaced(stakeAccounts, stakeAccounts', k, p)
    BY <1>1, <1>7, AccruingPosition
  <2>2. opened' = opened /\ claimed' = claimed
    BY <1>7 DEF CalculateEpochRewards
  <2>3. s.unclaimed + claimed[k] = r * (s.lastEpoch - opened[k])
    BY <1>1, <2>1 DEF Earned, Position
  <2>4. /\ s.unclaimed \in Nat /\ claimed[k] \in Nat /\ opened[k] \in Nat
        /\ s.lastEpoch \in Nat /\ s.amount \in Nat /\ s.tier \in Tiers
    BY <1>2, <2>1 DEF StakeData
  <2>5. s.amount \in LockAmounts
    <3>1. Held(a, opened[k], day) /\ a # Empty(NoStake)
      BY <1>1, <2>1, EmptyTyped, NoStakeTyped DEF StakeInv, Position
    <3> QED
      BY <3>1 DEF Held, Position
  <2>6. r \in Nat
    BY <2>4, RewardTyped
  <2>7. r * MaxDay <= PassiveU64Max
    BY <2>4, <2>5 DEF NoSaturation
  <2> HIDE DEF p, r
  <2>8. r * (day - s.lastEpoch) <= r * MaxDay
    <3>1. \A x, y, z \in Nat : y <= z => x * y <= x * z
      BY SMT
    <3>2. day - s.lastEpoch \in Nat /\ day - s.lastEpoch <= MaxDay
      BY SMT, <1>2, <2>1, <2>4
    <3> QED
      BY ONLY <1>2, <2>6, <3>1, <3>2
  <2>9. EpochRewards(s) = r * (day - s.lastEpoch)
    BY DEF EpochRewards, r
  <2>10. EpochRewards(s) \in Nat
    BY <1>1, <2>1, AccrualTyped
  <2>11. r * MaxDay \in Nat
    <3>1. \A x, y \in Nat : x * y \in Nat
      BY SMT
    <3> QED
      BY <1>2, <2>6, <3>1
  <2>12. Accrual(s) = s.unclaimed + EpochRewards(s)
    <3>1. EpochRewards(s) <= r * MaxDay
      BY <2>8, <2>9
    <3>2. ~(EpochRewards(s) > PassiveU64Max)
      BY SMT, <2>7, <2>10, <2>11, <3>1, PassiveStakeAssumption
    <3> QED
      BY <3>2 DEF Accrual
  <2>13. Accrual(s) + claimed[k] = r * (day - opened[k])
    <3>1. \A x, u, c, e, o, l, n \in Nat :
            u + c = x * (l - o) /\ e = x * (n - l) => u + e + c = x * (n - o)
      BY SMT
    <3> QED
      BY ONLY <1>2, <2>3, <2>4, <2>6, <2>9, <2>10, <2>12, <3>1
  <2>14. Earned(p, opened'[k], claimed'[k])
    BY Zenon, <2>2, <2>13 DEF Earned, p, r
  <2> QED
    BY <2>1, <2>2, <2>14, RewardReplacing
<1>8. CASE NextDay
  BY <1>3, <1>8 DEF NextDay
<1>9. CASE UNCHANGED passiveVars
  BY <1>3, <1>9 DEF passiveVars
<1> QED
  BY <1>4, <1>5, <1>6, <1>7, <1>8, <1>9 DEF PassiveNext

\* Every epoch of a position is rewarded exactly once, for any amounts and rates
\* whose rewards fit a u64 (CalculateEpochRewards, ClaimRewards).
THEOREM RewardsAreExact == NoSaturation => (PassiveSpec => []RewardsAccrueOnce)
<1> SUFFICES ASSUME NoSaturation PROVE PassiveSpec => []RewardsAccrueOnce
  OBVIOUS
<1>1. PassiveInit => RewardInv
  <2> SUFFICES ASSUME PassiveInit PROVE RewardInv
    OBVIOUS
  <2>1. \A k \in Positions : ~stakeAccounts[k].data.open
    BY NoStakeTyped DEF PassiveInit
  <2> QED
    BY <2>1, StakeInitial DEF RewardInv, Earned
<1>2. RewardInv /\ [PassiveNext]_passiveVars => RewardInv'
  BY RewardStep
<1>3. RewardInv => RewardsAccrueOnce
  BY Zenon DEF RewardInv, RewardsAccrueOnce, Earned, Position
<1> QED
  BY <1>1, <1>2, <1>3, PTL DEF PassiveSpec

-----------------------------------------------------------------------------
(* The treasury.  Payments and the sweep, as far as balances go.           *)

\* The accounts of the program: at the addresses K, without data.
VaultLedger == [TreasuryKeys \cup Vaults ->
                  [owner : {SystemProgram, TreasuryProgram}, lamports : Int, data : {NoData}]]

\* n lamports more at k, the same at the other addresses.
VaultCredited(old, new, k, n) ==
  /\ new[k].lamports = old[k].lamports + n
  /\ \A j \in TreasuryKeys \cup Vaults : j # k => new[j].lamports = old[j].lamports

LEMMA PaidVaults ==
  ASSUME NEW a \in VaultLedger, NEW k \in TreasuryKeys \cup Vaults, NEW n \in Int
  PROVE  Paid(a, k, n) \in VaultLedger /\ VaultCredited(a, Paid(a, k, n), k, n)
BY SMT DEF VaultLedger, Paid, VaultCredited

LEMMA SweptVaults ==
  ASSUME NEW a \in VaultLedger
  PROVE  /\ Swept(a, NoData) \in VaultLedger
         /\ \A j \in TreasuryKeys \cup Vaults : Swept(a, NoData)[j].lamports = a[j].lamports
<1> DEFINE K == TreasuryKeys \cup Vaults
           A == [owner : {SystemProgram, TreasuryProgram}, lamports : Int, data : {NoData}]
           empty == [owner |-> SystemProgram, lamports |-> 0, data |-> NoData]
<1>1. DOMAIN a = K /\ \A j \in K : a[j] \in A
  BY DEF VaultLedger
<1>2. empty \in A /\ empty.lamports = 0
  BY SMT
<1>3. Swept(a, NoData) = [j \in K |-> IF a[j].lamports = 0 THEN empty ELSE a[j]]
  BY <1>1 DEF Swept
<1> HIDE DEF A, empty
<1>4. Swept(a, NoData) \in [K -> A]
  BY <1>1, <1>2, <1>3
<1>5. \A j \in K : Swept(a, NoData)[j].lamports = a[j].lamports
  BY <1>2, <1>3
<1> QED
  BY <1>4, <1>5 DEF VaultLedger, A

Treasuries ==
  [ready : BOOLEAN, authority : TreasuryKeys \cup {NoData},
   governance : BOOLEAN, received : Int, disbursed : Nat]

VaultTypes ==
  /\ treasury \in Treasuries
  /\ vaultAccounts \in VaultLedger
  /\ deposited \in Nat
  /\ ~treasury.ready => treasury.disbursed = 0

VaultInv == VaultTypes /\ DisbursedIsTracked

\* The vaults' balances change by what one vault gains.
LEMMA VaultLamportsPaid ==
  ASSUME NEW a, NEW b, NEW vault \in Vaults, NEW n \in Int,
         \A k \in Vaults : a[k].lamports \in Int,
         b[vault].lamports = a[vault].lamports + n,
         \A k \in Vaults : k # vault => b[k].lamports = a[k].lamports
  PROVE  SumOver([k \in Vaults |-> b[k].lamports], Vaults)
           = SumOver([k \in Vaults |-> a[k].lamports], Vaults) + n
<1> DEFINE f == [k \in Vaults |-> a[k].lamports]
           g == [k \in Vaults |-> b[k].lamports]
<1>1. IsFiniteSet(Vaults)
  BY TreasuryAssumption
<1>2. (\A k \in Vaults : f[k] \in Int) /\ (\A k \in Vaults : g[k] \in Int)
  BY SMT
<1>3. \A k \in Vaults \ {vault} : g[k] = f[k]
  OBVIOUS
<1>4. g[vault] = f[vault] + n
  OBVIOUS
<1> HIDE DEF f, g
<1>5. SumOver(g, Vaults) = SumOver(f, Vaults) - f[vault] + g[vault]
  BY ONLY <1>1, <1>2, <1>3, vault \in Vaults, SumChange
<1>6. SumOver(f, Vaults) \in Int
  BY <1>1, <1>2, SumType
<1>7. SumOver(g, Vaults) = SumOver(f, Vaults) + n
  BY SMT, <1>2, <1>4, <1>5, <1>6
<1> QED
  BY <1>7 DEF f, g

LEMMA VaultInitial == TreasuryInit => VaultInv
<1> SUFFICES ASSUME TreasuryInit PROVE VaultInv
  OBVIOUS
<1>1. VaultTypes
  <2>1. treasury \in Treasuries /\ ~treasury.ready /\ treasury.disbursed = 0 /\ deposited \in Nat
    BY SMT DEF TreasuryInit, Treasuries, NoTreasury
  <2>2. vaultAccounts \in VaultLedger
    BY SMT, TreasuryAssumption DEF TreasuryInit, VaultLedger
  <2> QED
    BY <2>1, <2>2 DEF VaultTypes
<1> DEFINE f == [k \in Vaults |-> vaultAccounts[k].lamports]
<1>2. \A k \in Vaults : f[k] = Funds
  BY DEF TreasuryInit
<1>3. IsFiniteSet(Vaults) /\ Funds \in Int
  BY SMT, TreasuryAssumption
<1> HIDE DEF f
<1>4. SumOver(f, Vaults) = Cardinality(Vaults) * Funds
  BY Zenon, <1>2, <1>3, SumConstant
<1> DEFINE total == Cardinality(Vaults) * Funds
<1>5. total \in Int
  BY SMT, <1>3, FS_CardinalityType
<1> HIDE DEF total
<1>6. deposited = 0 /\ treasury.disbursed = 0
  BY DEF TreasuryInit, NoTreasury
<1>7. SumOver(f, Vaults) = total + deposited - treasury.disbursed
  BY <1>4, <1>5, <1>6 DEF total
<1> QED
  BY <1>1, <1>7 DEF VaultInv, DisbursedIsTracked, VaultLamports, f, total

LEMMA VaultStep == VaultInv /\ [TreasuryNext]_treasuryVars => VaultInv'
<1> SUFFICES ASSUME VaultInv, [TreasuryNext]_treasuryVars PROVE VaultInv'
  OBVIOUS
<1> DEFINE K == TreasuryKeys \cup Vaults
           total == Cardinality(Vaults) * Funds
<1>1. VaultTypes /\ VaultLamports = total + deposited - treasury.disbursed
  BY DEF VaultInv, DisbursedIsTracked
<1>2. total \in Int
  BY SMT, TreasuryAssumption, FS_CardinalityType
<1>3. vaultAccounts \in VaultLedger /\ deposited \in Nat /\ treasury.disbursed \in Nat
  BY <1>1 DEF VaultTypes, Treasuries
<1>4. \A k \in Vaults : vaultAccounts[k].lamports \in Int
  BY <1>3 DEF VaultLedger
<1>5. VaultLamports \in Int
  <2>1. IsFiniteSet(Vaults)
    BY TreasuryAssumption
  <2> DEFINE f == [k \in Vaults |-> vaultAccounts[k].lamports]
  <2>2. \A k \in Vaults : f[k] \in Int
    BY <1>4
  <2> HIDE DEF f
  <2>3. SumOver(f, Vaults) \in Int
    BY <2>1, <2>2, SumType
  <2> QED
    BY <2>3 DEF VaultLamports, f
<1>6. ASSUME VaultTypes', VaultLamports' = total + deposited' - treasury'.disbursed
      PROVE  VaultInv'
  BY <1>6 DEF VaultInv, DisbursedIsTracked
<1> HIDE DEF total
<1>7. ASSUME UNCHANGED <<vaultAccounts, deposited>>, treasury'.disbursed = treasury.disbursed,
             treasury' \in Treasuries, treasury'.ready \/ ~treasury.ready
      PROVE  VaultInv'
  <2>1. VaultTypes'
    BY <1>1, <1>7 DEF VaultTypes
  <2>2. VaultLamports' = VaultLamports
    BY <1>7 DEF VaultLamports
  <2> QED
    BY <1>1, <1>6, <1>7, <2>1, <2>2
<1>8. CASE UNCHANGED treasuryVars
  BY <1>1, <1>7, <1>8 DEF treasuryVars, VaultTypes, Treasuries
<1>9. ASSUME NEW who \in TreasuryKeys, NEW authority \in TreasuryKeys,
             InitializeTreasury(who, authority)
      PROVE  VaultInv'
  <2>1. treasury.disbursed = 0
    BY <1>1, <1>9 DEF InitializeTreasury, VaultTypes
  <2>2. treasury' = [ready |-> TRUE, authority |-> authority, governance |-> FALSE,
                     received |-> 0, disbursed |-> 0]
    BY <1>9 DEF InitializeTreasury, NoTreasury
  <2>3. treasury' \in Treasuries /\ treasury'.ready /\ treasury'.disbursed = 0
    BY SMT, <2>2 DEF Treasuries
  <2> QED
    BY <1>7, <1>9, <2>1, <2>3 DEF InitializeTreasury
<1>10. ASSUME NEW vault \in Vaults, NEW n \in Transfers, Deposit(vault, n)
       PROVE  VaultInv'
  <2>1. n \in Nat /\ n \in Int /\ vault \in K
    BY SMT, TreasuryAssumption
  <2>2. vaultAccounts' = Paid(vaultAccounts, vault, n) /\ deposited' = deposited + n
        /\ treasury' = treasury
    BY <1>10 DEF Deposit
  <2> HIDE DEF K
  <2>3. vaultAccounts' \in VaultLedger
        /\ VaultCredited(vaultAccounts, vaultAccounts', vault, n)
    BY Zenon, <1>3, <2>1, <2>2, PaidVaults DEF K
  <2>4. VaultTypes'
    BY SMT, <1>1, <2>1, <2>2, <2>3 DEF VaultTypes, K
  <2>5. VaultLamports' = VaultLamports + n
    <3>1. /\ vaultAccounts'[vault].lamports = vaultAccounts[vault].lamports + n
          /\ \A j \in Vaults : j # vault => vaultAccounts'[j].lamports = vaultAccounts[j].lamports
      BY <2>3 DEF VaultCredited, K
    <3> QED
      BY <1>4, <2>1, <3>1, VaultLamportsPaid DEF VaultLamports
  <2> QED
    BY <1>1, <1>2, <1>3, <1>5, <1>6, <2>1, <2>2, <2>4, <2>5
<1>11. ASSUME NEW who \in TreasuryKeys, NEW recipient \in TreasuryKeys, NEW vault \in Vaults,
              NEW n \in Transfers, Disburse(who, vault, recipient, n)
       PROVE  VaultInv'
  <2>1. n \in Nat /\ n \in Int /\ -n \in Int /\ vault \in K /\ recipient \in K
    BY SMT, TreasuryAssumption
  <2> DEFINE b == Paid(vaultAccounts, vault, -n)
             c == Paid(b, recipient, n)
  <2>2. vaultAccounts' = Swept(c, NoData) /\ deposited' = deposited
        /\ treasury' = [treasury EXCEPT !.disbursed = @ + n]
    BY <1>11 DEF Disburse, Transferred
  <2>3. Vaults \subseteq K /\ recipient \notin Vaults
    BY TreasuryAssumption
  <2> HIDE DEF K
  <2>4. b \in VaultLedger /\ VaultCredited(vaultAccounts, b, vault, -n)
    BY Zenon, <1>3, <2>1, PaidVaults DEF K
  <2> HIDE DEF b
  <2>5. c \in VaultLedger /\ VaultCredited(b, c, recipient, n)
    BY Zenon, <2>1, <2>4, PaidVaults DEF K
  <2> HIDE DEF c
  <2>6. vaultAccounts' \in VaultLedger /\ (\A j \in K : vaultAccounts'[j].lamports = c[j].lamports)
    BY <2>2, <2>5, SweptVaults DEF K
  <2>7. VaultTypes'
    <3>1. treasury' \in Treasuries /\ treasury'.ready
      BY SMT, <1>1, <1>11, <2>1, <2>2 DEF VaultTypes, Treasuries, Disburse
    <3> QED
      BY <1>3, <2>2, <2>6, <3>1 DEF VaultTypes, K
  <2> DEFINE now == vaultAccounts'
  <2>8. \A j \in K : now[j].lamports = c[j].lamports
    BY <2>6
  <2> HIDE DEF now
  <2>9. \A j \in K : j # recipient => c[j].lamports = b[j].lamports
    BY <2>5 DEF VaultCredited, K
  <2>10. /\ b[vault].lamports = vaultAccounts[vault].lamports + (-n)
         /\ \A j \in K : j # vault => b[j].lamports = vaultAccounts[j].lamports
    BY <2>4 DEF VaultCredited, K
  <2>11. \A j \in Vaults : j # vault => now[j].lamports = vaultAccounts[j].lamports
    BY <2>3, <2>8, <2>9, <2>10
  <2>12. now[vault].lamports = vaultAccounts[vault].lamports + (-n)
    BY <2>1, <2>3, <2>8, <2>9, <2>10
  <2>13. VaultLamports' = VaultLamports + (-n)
    BY <1>4, <2>1, <2>11, <2>12, VaultLamportsPaid DEF VaultLamports, now
  <2>14. treasury'.disbursed = treasury.disbursed + n
    BY <1>1, <2>2 DEF VaultTypes, Treasuries
  <2> QED
    BY SMT, <1>1, <1>2, <1>3, <1>5, <1>6, <2>1, <2>2, <2>7, <2>13, <2>14
<1>12. ASSUME NEW who \in TreasuryKeys, NEW new \in TreasuryKeys, UpdateAuthority(who, new)
       PROVE  VaultInv'
  BY <1>1, <1>7, <1>12 DEF UpdateAuthority, VaultTypes, Treasuries
<1>13. ASSUME NEW who \in TreasuryKeys, ActivateTreasuryGovernance(who)
       PROVE  VaultInv'
  BY <1>1, <1>7, <1>13 DEF ActivateTreasuryGovernance, VaultTypes, Treasuries
<1> QED
  BY <1>8, <1>9, <1>10, <1>11, <1>12, <1>13 DEF TreasuryNext

\* For any vaults and keys, what the vaults hold is what they started with and were
\* sent, less total_disbursed (process_disburse and the SVM's sweep).
THEOREM DisbursementsBalance == TreasurySpec => []DisbursedIsTracked
<1>1. VaultInv => DisbursedIsTracked
  BY DEF VaultInv
<1> QED
  BY <1>1, VaultInitial, VaultStep, PTL DEF TreasurySpec

\* The treasury's config changes only with its authority's signature, governance is
\* never switched off and no disbursement leaves the books.
THEOREM AuthorityIsInControl == TreasurySpec => AuthorityControls
<1> DEFINE Controlled ==
      (treasury.ready /\ treasury' # treasury) =>
         /\ signer' = treasury.authority
         /\ treasury.governance => treasury'.governance
         /\ treasury'.ready /\ treasury'.disbursed >= treasury.disbursed
<1>1. VaultInv /\ [TreasuryNext]_treasuryVars => [Controlled]_treasuryVars
  <2> SUFFICES ASSUME VaultInv, TreasuryNext, treasury.ready, treasury' # treasury
               PROVE  /\ signer' = treasury.authority
                      /\ treasury.governance => treasury'.governance
                      /\ treasury'.ready /\ treasury'.disbursed >= treasury.disbursed
    BY DEF treasuryVars
  <2>1. treasury \in Treasuries
    BY DEF VaultInv, VaultTypes
  <2>2. CASE \E who, recipient \in TreasuryKeys, vault \in Vaults, n \in Transfers :
               Disburse(who, vault, recipient, n)
    <3>1. PICK who \in TreasuryKeys, recipient \in TreasuryKeys, vault \in Vaults,
               n \in Transfers : Disburse(who, vault, recipient, n)
      BY <2>2
    <3>2. n \in Nat /\ treasury.disbursed \in Nat
      BY <2>1, TreasuryAssumption DEF Treasuries
    <3>3. /\ treasury' = [treasury EXCEPT !.disbursed = @ + n]
          /\ signer' = who /\ treasury.authority = who
      BY <3>1 DEF Disburse
    <3> QED
      BY SMT, <2>1, <3>2, <3>3 DEF Treasuries
  <2>3. CASE \E who, new \in TreasuryKeys : UpdateAuthority(who, new)
    BY SMT, <2>1, <2>3 DEF UpdateAuthority, Treasuries
  <2>4. CASE \E who \in TreasuryKeys : ActivateTreasuryGovernance(who)
    BY SMT, <2>1, <2>4 DEF ActivateTreasuryGovernance, Treasuries
  <2>5. (\A who, authority \in TreasuryKeys : ~InitializeTreasury(who, authority))
        /\ (\A vault \in Vaults, n \in Transfers : ~Deposit(vault, n))
    BY DEF InitializeTreasury, Deposit
  <2> QED
    BY Zenon, <2>2, <2>3, <2>4, <2>5 DEF TreasuryNext
<1> QED
  BY <1>1, VaultInitial, VaultStep, PTL DEF TreasurySpec, AuthorityControls

-----------------------------------------------------------------------------
(* Developer rewards: no program is ever credited with developer fees, and *)
(* no list of recipients is ever stored.                                   *)

\* The facts about the parameters that the proofs use.
LEMMA Parameters ==
  /\ MaxShareBps \in Nat /\ TotalBps \in Nat /\ MaxShareBps < TotalBps
  /\ BaseSize \in Nat /\ SplitSize \in Nat \ {0} /\ PdaSize \in Nat
  /\ SlotsPerEpoch \in Nat \ {0} /\ U64Max \in Nat /\ FeePool \in Nat
  /\ CooldownSlots \in Nat /\ FeeAmounts \subseteq 0..U64Max
  /\ SplitChoices \subseteq Seq([recipient : Developers, share : Nat])
  BY DevRewardsAssumption

\* A share of less than everything is less than everything, unless it is zero.
LEMMA CapBelowTotal ==
  ASSUME NEW x \in Nat, x <= MaxAllowed(x)
  PROVE  x = 0
<1> DEFINE q == MaxAllowed(x)
           M == MaxShareBps
           T == TotalBps
<1>1. M \in Nat /\ T \in Nat /\ M < T BY Parameters
<1>2. x * M \in Nat BY <1>1
<1>3. ASSUME NEW a \in Nat, NEW b \in Nat, b > 0
      PROVE  a \div b \in Nat /\ b * (a \div b) <= a
  BY <1>3, SMT
<1>4. q \in Nat /\ T * q <= x * M
  BY SMT, <1>1, <1>2, <1>3 DEF MaxAllowed
<1> HIDE DEF q, M, T
<1>5. x <= q BY DEF q
<1>6. T * x <= T * q BY <1>1, <1>4, <1>5
<1>7. T * x <= x * M BY <1>1, <1>2, <1>4, <1>6
<1>8. SUFFICES ASSUME x > 0 PROVE FALSE
  BY SMT
<1>9. x * M < x * T BY <1>1, <1>8
<1> QED BY <1>1, <1>2, <1>7, <1>9

\* Saturating addition to zero.
LEMMA SatAddFacts ==
  ASSUME NEW a \in 0..U64Max
  PROVE  SatAdd(0, a) = a
  BY SMT, Parameters DEF SatAdd

\* Epochs are natural numbers.
LEMMA EpochNat == slot \in Nat => Epoch \in Nat
  BY SMT, Parameters DEF Epoch

-----------------------------------------------------------------------------
\* The account of a registered program has room for a config without splits only.
Cut(c) == c.version = 1 => c.size = SizeWith(0)

\* The inductive invariant: both counters the cap compares are zero, and the
\* accounts are cut down to what they hold.
DevInv ==
  /\ DevRewardsTypeOK
  /\ NothingEverCredited /\ NoSplitIsStored
  /\ \A p \in Programs : revenue[p].epochFees = 0 /\ Cut(revenue[p])

\* At the start nothing has been earned.
LEMMA DevInit == DevRewardsInit => DevInv
<1> SUFFICES ASSUME DevRewardsInit PROVE DevInv
  OBVIOUS
<1>1. NoRevenue \in ConfigType BY Parameters DEF NoRevenue, ConfigType
<1>2. DevRewardsTypeOK BY <1>1, Parameters DEF DevRewardsInit, DevRewardsTypeOK
<1> QED BY <1>2 DEF DevRewardsInit, DevInv, NothingEverCredited, NoSplitIsStored, Cut, NoRevenue

\* What a call on one program's config has to preserve.
Unpaid(c) ==
  c.unclaimed = 0 /\ c.total = 0 /\ c.epochFees = 0 /\ c.splits = <<>> /\ Cut(c)

\* A call that only replaces one config by an unpaid one keeps the invariant.
LEMMA ReplaceKeeps ==
  ASSUME DevInv, NEW p \in Programs, NEW c \in ConfigType, Unpaid(c),
         revenue' = [revenue EXCEPT ![p] = c] \/ revenue' = revenue,
         result' \in {"ok", "error"},
         UNCHANGED <<pool, paid, slot>>,
         tracker' \in [epoch : Nat, total : 0..U64Max], tracker'.total = 0
  PROVE  DevInv'
<1>1. /\ DevRewardsTypeOK /\ NothingEverCredited /\ NoSplitIsStored
      /\ \A q \in Programs : revenue[q].epochFees = 0 /\ Cut(revenue[q])
  BY DEF DevInv
<1>2. revenue' \in [Programs -> ConfigType] BY <1>1 DEF DevRewardsTypeOK
<1>3. DevRewardsTypeOK' BY <1>1, <1>2 DEF DevRewardsTypeOK
<1>4. ASSUME NEW q \in Programs PROVE Unpaid(revenue'[q])
  <2>1. Unpaid(revenue[q]) BY <1>1 DEF Unpaid, NothingEverCredited, NoSplitIsStored
  <2>2. revenue'[q] = revenue[q] \/ revenue'[q] = c BY <1>1 DEF DevRewardsTypeOK
  <2> QED BY <2>1, <2>2
<1>5. NothingEverCredited' BY <1>1, <1>4 DEF NothingEverCredited, Unpaid
<1>6. NoSplitIsStored' /\ \A q \in Programs : revenue'[q].epochFees = 0 /\ Cut(revenue'[q])
  BY <1>4 DEF NoSplitIsStored, Unpaid
<1> QED BY <1>3, <1>5, <1>6 DEF DevInv, Cut

\* The fields of a config and what may be written into them.
LEMMA ConfigOf ==
  ASSUME DevInv, NEW p \in Programs
  PROVE  /\ revenue[p] \in ConfigType /\ Unpaid(revenue[p])
         /\ tracker \in [epoch : Nat, total : 0..U64Max] /\ tracker.total = 0
         /\ slot \in Nat
  BY DEF DevInv, DevRewardsTypeOK, NothingEverCredited, NoSplitIsStored, Unpaid

\* RegisterRevenueRecipient writes a config that has earned nothing.
LEMMA RegisterKeeps ==
  ASSUME DevInv, NEW p \in Programs, NEW who \in Developers, NEW r \in Developers, Register(p, who, r)
  PROVE  DevInv'
<1> DEFINE c == NewConfig(who, r)
<1>1. slot \in Nat /\ tracker \in [epoch : Nat, total : 0..U64Max] /\ tracker.total = 0
  BY ConfigOf
<1>2. SatAdd(slot, CooldownSlots) \in 0..U64Max BY <1>1, Parameters DEF SatAdd
<1>3. SizeWith(0) \in Nat BY Parameters DEF SizeWith
<1>4. c \in ConfigType /\ Unpaid(c)
  BY SMT, <1>2, <1>3, Parameters DEF NewConfig, ConfigType, Unpaid, Cut
<1>5. /\ revenue' = [revenue EXCEPT ![p] = c] \/ revenue' = revenue
      /\ result' \in {"ok", "error"} /\ UNCHANGED <<tracker, pool, paid, slot>>
  BY DEF Register
<1> HIDE DEF c
<1> QED BY <1>1, <1>4, <1>5, ReplaceKeeps

\* UpdateRevenueRecipient changes the recipient only.
LEMMA UpdateKeeps ==
  ASSUME DevInv, NEW p \in Programs, NEW who \in Developers, NEW r \in Developers,
         UpdateRecipient(p, who, r)
  PROVE  DevInv'
<1> DEFINE c == [revenue[p] EXCEPT !.recipient = r]
<1>1. revenue[p] \in ConfigType /\ Unpaid(revenue[p]) BY ConfigOf
<1>2. c \in ConfigType /\ Unpaid(c) BY <1>1 DEF ConfigType, Unpaid, Cut
<1>3. /\ revenue' = [revenue EXCEPT ![p] = c] \/ revenue' = revenue
      /\ result' \in {"ok", "error"} /\ UNCHANGED <<tracker, pool, paid, slot>>
  BY DEF UpdateRecipient
<1> HIDE DEF c
<1> QED BY <1>2, <1>3, ConfigOf, ReplaceKeeps

\* The account of a registered program has no room for a split.
LEMMA OnlyTheEmptyListFits ==
  ASSUME NEW p \in Programs, NEW s \in SplitChoices,
         Registered(p), Cut(revenue[p]), Fits(p, Len(s))
  PROVE  s = <<>>
<1> DEFINE n == Len(s)
<1> DEFINE Split == [recipient : Developers, share : Nat]
<1>0. s \in Seq(Split) BY Parameters
<1> HIDE DEF Split
<1>1. n \in Nat BY <1>0
<1>2. BaseSize + n * SplitSize <= BaseSize + 0 * SplitSize
  BY DEF Registered, Cut, Fits, SizeWith
<1>3. n = 0
  <2> HIDE DEF n
  <2>1. n * SplitSize \in Nat /\ n * SplitSize <= 0 BY <1>1, <1>2, Parameters
  <2>2. n > 0 => n * SplitSize >= SplitSize BY <1>1, Parameters
  <2> QED BY <1>1, <2>1, <2>2, Parameters
<1> QED BY <1>0, <1>3

\* AddRevenueSplit finds no room in the account.
LEMMA SplitKeeps ==
  ASSUME DevInv, NEW p \in Programs, NEW who \in Developers, NEW s \in SplitChoices,
         AddRevenueSplit(p, who, s)
  PROVE  DevInv'
<1> DEFINE c == [revenue[p] EXCEPT !.splits = s, !.size = SizeWith(Len(s))]
<1>1. revenue[p] \in ConfigType /\ Unpaid(revenue[p]) BY ConfigOf
<1>2. Len(s) \in Nat BY Parameters
<1>3. SizeWith(Len(s)) \in Nat BY <1>2, Parameters DEF SizeWith
<1>4. c \in ConfigType BY <1>1, <1>3 DEF ConfigType
<1>5. s = <<>> => Unpaid(c) BY <1>1 DEF ConfigType, Unpaid, Cut
<1>6. /\ result' \in {"ok", "error"} /\ UNCHANGED <<tracker, pool, paid, slot>>
      /\ \/ revenue' = revenue
         \/ Registered(p) /\ Fits(p, Len(s)) /\ revenue' = [revenue EXCEPT ![p] = c]
  BY DEF AddRevenueSplit, SplitAsked
<1>7. Cut(revenue[p]) BY <1>1 DEF Unpaid
<1> HIDE DEF c
<1>8. CASE revenue' = revenue BY <1>1, <1>6, <1>8, ConfigOf, ReplaceKeeps
<1>9. CASE Registered(p) /\ Fits(p, Len(s)) /\ revenue' = [revenue EXCEPT ![p] = c]
  BY <1>4, <1>5, <1>6, <1>7, <1>9, OnlyTheEmptyListFits, ConfigOf, ReplaceKeeps
<1> QED BY <1>6, <1>8, <1>9

\* ClaimDeveloperFees finds nothing to claim.
LEMMA ClaimKeeps ==
  ASSUME DevInv, NEW p \in Programs, NEW r \in Developers, Claim(p, r)
  PROVE  DevInv'
<1>1. revenue[p] \in ConfigType /\ revenue[p].unclaimed = 0 /\ Unpaid(revenue[p])
  BY ConfigOf DEF Unpaid
<1>2. revenue' = revenue /\ result' = "error" /\ UNCHANGED <<tracker, pool, paid, slot>>
  BY <1>1 DEF Claim
<1> QED BY <1>1, <1>2, ConfigOf, ReplaceKeeps

\* CreditDeveloperFees succeeds for the amount zero only.
LEMMA CreditKeeps ==
  ASSUME DevInv, NEW p \in Programs, NEW amount \in FeeAmounts, NEW cu \in ComputeUnits,
         Credit(p, amount, cu)
  PROVE  DevInv'
<1>1. /\ revenue[p] \in ConfigType /\ Unpaid(revenue[p]) /\ slot \in Nat
      /\ tracker \in [epoch : Nat, total : 0..U64Max] /\ tracker.total = 0
  BY ConfigOf
<1>2. amount \in 0..U64Max /\ amount \in Nat BY Parameters
<1>3. SatAdd(0, amount) = amount BY <1>2, SatAddFacts
<1>4. Epoch \in Nat BY <1>1, EpochNat
<1> DEFINE c == [revenue[p] EXCEPT !.epochFees = 0, !.lastEpoch = Epoch, !.total = 0,
                                  !.unclaimed = 0]
<1>5. c \in ConfigType /\ Unpaid(c) BY <1>1, <1>4, Parameters DEF ConfigType, Unpaid, Cut
<1>6. /\ (IF revenue[p].lastEpoch # Epoch THEN 0 ELSE revenue[p].epochFees) = 0
      /\ (IF tracker.epoch # Epoch THEN 0 ELSE tracker.total) = 0
      /\ SatAdd(revenue[p].total, amount) = amount
      /\ SatAdd(revenue[p].unclaimed, amount) = amount
  BY <1>1, <1>3 DEF Unpaid
<1>7. /\ result' \in {"ok", "error"} /\ UNCHANGED <<pool, paid, slot>>
      /\ \/ revenue' = revenue /\ tracker' = tracker
         \/ /\ amount <= MaxAllowed(amount)
            /\ revenue' = [revenue EXCEPT ![p] =
                 [@ EXCEPT !.epochFees = amount, !.lastEpoch = Epoch, !.total = amount,
                           !.unclaimed = amount]]
            /\ tracker' = [epoch |-> Epoch, total |-> amount]
  BY <1>3, <1>6 DEF Credit
<1>8. amount <= MaxAllowed(amount) => amount = 0 BY <1>2, CapBelowTotal
<1>9. \/ revenue' = revenue /\ tracker' = tracker
      \/ revenue' = [revenue EXCEPT ![p] = c] /\ tracker' = [epoch |-> Epoch, total |-> 0]
  BY <1>7, <1>8
<1> HIDE DEF c
<1>10. tracker' \in [epoch : Nat, total : 0..U64Max] /\ tracker'.total = 0
  BY SMT, <1>1, <1>4, <1>9, Parameters
<1> QED BY <1>5, <1>7, <1>9, <1>10, ReplaceKeeps

\* DevInv is inductive.
LEMMA DevStep == DevInv /\ [DevRewardsNext]_devRewardsVars => DevInv'
<1> SUFFICES ASSUME DevInv, [DevRewardsNext]_devRewardsVars PROVE DevInv'
  OBVIOUS
<1>1. CASE UNCHANGED devRewardsVars
  BY <1>1 DEF DevInv, devRewardsVars, DevRewardsTypeOK, NothingEverCredited, NoSplitIsStored
<1>2. CASE NextSlot
  BY SMT, <1>2 DEF DevInv, NextSlot, DevRewardsTypeOK, NothingEverCredited, NoSplitIsStored
<1>3. CASE DevRewardsNext /\ ~NextSlot
  BY <1>3, RegisterKeeps, UpdateKeeps, SplitKeeps, ClaimKeeps, CreditKeeps DEF DevRewardsNext
<1> QED BY <1>1, <1>2, <1>3

\* No program is ever credited and the pool never pays (process_credit,
\* process_claim), for every cap below the whole.
THEOREM NoDeveloperIsEverPaid == DevRewardsSpec => []NothingEverCredited
<1>1. DevInv => NothingEverCredited BY DEF DevInv
<1> QED BY <1>1, DevInit, DevStep, PTL DEF DevRewardsSpec

\* No list of recipients is ever stored (serialize_config), whatever the size the
\* accounts are created with.
THEOREM SplitsNeverFit == DevRewardsSpec => []NoSplitIsStored
<1>1. DevInv => NoSplitIsStored BY DEF DevInv
<1> QED BY <1>1, DevInit, DevStep, PTL DEF DevRewardsSpec
=============================================================================
