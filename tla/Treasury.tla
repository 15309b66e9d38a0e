------------------------------ MODULE Treasury ------------------------------
(***************************************************************************)
(* The treasury program (programs/treasury/src/processor.rs): one config   *)
(* account, the account that holds the funds, and the deposits that reach  *)
(* it, under the SVM's rules (ProgramRuntime).                             *)
(***************************************************************************)
EXTENDS ProgramRuntime

CONSTANTS TreasuryKeys,  \* possible authorities; they are also the recipients
          Vaults,        \* accounts created to hold treasury funds
          Funds,         \* lamports each vault starts with
          Transfers,     \* amounts deposited or disbursed
          TreasuryU64Max, MaxDeposits

ASSUME TreasuryAssumption ==
  /\ Funds \in Nat /\ Transfers \subseteq Nat /\ TreasuryU64Max \in Nat /\ MaxDeposits \in Nat
  /\ IsFiniteSet(Vaults) /\ Vaults \cap TreasuryKeys = {}

VARIABLES treasury,  \* TreasuryConfig
          vaultAccounts,
          signer,    \* who signed the last instruction
          deposited  \* history: lamports that reached the vaults

treasuryVars == <<treasury, vaultAccounts, signer, deposited>>

TreasuryProgram == "treasury"
NoData == "none"
NoTreasury == [ready |-> FALSE, authority |-> NoData, governance |-> FALSE,
               received |-> 0, disbursed |-> 0]

TreasuryInit ==
  /\ treasury = NoTreasury
  /\ vaultAccounts = [k \in TreasuryKeys \cup Vaults |->
       [owner |-> IF k \in Vaults THEN TreasuryProgram ELSE SystemProgram,
        lamports |-> Funds, data |-> NoData]]
  /\ signer = NoData
  /\ deposited = 0

InitializeTreasury(who, authority) ==
  /\ ~treasury.ready
  /\ treasury' = [NoTreasury EXCEPT !.ready = TRUE, !.authority = authority]
  /\ signer' = who
  /\ UNCHANGED <<vaultAccounts, deposited>>

\* Lamports arrive in a vault: an ordinary transfer, or a share of the fees.
Deposit(vault, n) ==
  /\ deposited + n <= MaxDeposits
  /\ vaultAccounts' = Paid(vaultAccounts, vault, n)
  /\ vaultAccounts'[vault].lamports >= RentMinimum
  /\ deposited' = deposited + n
  /\ signer' = NoData
  /\ UNCHANGED treasury

\* The state after a transfer of n lamports from the vault to the recipient.
Transferred(vault, recipient, n) ==
  Paid(Paid(vaultAccounts, vault, -n), recipient, n)

\* Mutant: a bug that records a disbursement but not its amount.
DisburseUncounted(who, vault, recipient, n) ==
  /\ treasury.ready /\ treasury.authority = who /\ vaultAccounts[vault].lamports >= n
  /\ Allowed(TreasuryProgram, vaultAccounts, Transferred(vault, recipient, n))
  /\ vaultAccounts' = Swept(Transferred(vault, recipient, n), NoData)
  /\ treasury' = [treasury EXCEPT !.disbursed = @ + 1]
  /\ signer' = who
  /\ UNCHANGED deposited

Disburse(who, vault, recipient, n) ==
  /\ n > 0 /\ treasury.ready /\ treasury.authority = who
  /\ treasury.disbursed + n <= TreasuryU64Max
  /\ vaultAccounts[vault].lamports >= n
  /\ Allowed(TreasuryProgram, vaultAccounts, Transferred(vault, recipient, n))
  /\ vaultAccounts' = Swept(Transferred(vault, recipient, n), NoData)
  /\ treasury' = [treasury EXCEPT !.disbursed = @ + n]
  /\ signer' = who
  /\ UNCHANGED deposited

\* Mutant: a bug that accepts the signature of the authority to be.
UpdateAuthorityByNew(who, new) ==
  /\ treasury.ready /\ who \in {treasury.authority, new}
  /\ treasury' = [treasury EXCEPT !.authority = new]
  /\ signer' = who
  /\ UNCHANGED <<vaultAccounts, deposited>>

UpdateAuthority(who, new) ==
  /\ treasury.ready /\ treasury.authority = who
  /\ treasury' = [treasury EXCEPT !.authority = new]
  /\ signer' = who
  /\ UNCHANGED <<vaultAccounts, deposited>>

ActivateTreasuryGovernance(who) ==
  /\ treasury.ready /\ treasury.authority = who /\ ~treasury.governance
  /\ treasury' = [treasury EXCEPT !.governance = TRUE]
  /\ signer' = who
  /\ UNCHANGED <<vaultAccounts, deposited>>

TreasuryNext ==
  \/ \E who, authority \in TreasuryKeys : InitializeTreasury(who, authority)
  \/ \E vault \in Vaults, n \in Transfers : Deposit(vault, n)
  \/ \E who, recipient \in TreasuryKeys, vault \in Vaults, n \in Transfers :
       Disburse(who, vault, recipient, n)
  \/ \E who, new \in TreasuryKeys : UpdateAuthority(who, new)
  \/ \E who \in TreasuryKeys : ActivateTreasuryGovernance(who)

TreasurySpec == TreasuryInit /\ [][TreasuryNext]_treasuryVars

-----------------------------------------------------------------------------
VaultLamports == SumOver([k \in Vaults |-> vaultAccounts[k].lamports], Vaults)

\* The books balance: what the vaults hold is what they started with and were
\* sent, less total_disbursed, over any sequence of deposits, disbursements and
\* changes of authority (process_disburse).
DisbursedIsTracked ==
  VaultLamports = Cardinality(Vaults) * Funds + deposited - treasury.disbursed

\* The config account is changed only with the signature of the authority it
\* named before the change, the governance switch never goes back, and no
\* disbursement is taken off the books (UpdateAuthority, ActivateTreasuryGovernance,
\* Disburse, and InitializeTreasury, which must not run twice).
AuthorityControls ==
  [][(treasury.ready /\ treasury' # treasury) =>
       /\ signer' = treasury.authority
       /\ treasury.governance => treasury'.governance
       /\ treasury'.ready /\ treasury'.disbursed >= treasury.disbursed]_treasuryVars

\* Does not hold. What state.rs says of total_received: "Total lamports ever
\* received (cumulative tracking)".
ReceivedIsTracked == treasury.ready => treasury.received >= deposited

\* Does not hold. What state.rs says of the treasury account: the account "from
\* which disbursements are made": the authority can disburse all it holds.
FundsCanBeDisbursed ==
  \A vault \in Vaults, k \in TreasuryKeys :
    (treasury.ready /\ vaultAccounts[vault].lamports > 0) =>
      Allowed(TreasuryProgram, vaultAccounts, Transferred(vault, k, vaultAccounts[vault].lamports))
=============================================================================
