--------------------------- MODULE ProgramRuntime ---------------------------
(***************************************************************************)
(* The rules the SVM applies to every instruction of a native program: an  *)
(* instruction that returns an error, or that breaks one of them, leaves no*)
(* trace.  accounts[k] is a record with at least the fields owner,         *)
(* lamports and data.                                                      *)
(***************************************************************************)
EXTENDS Integers, FiniteSets, Sums

CONSTANT RentMinimum   \* lamports that make an account of this size rent exempt

SystemProgram == "system"

Lamports(accounts) ==
  SumOver([k \in DOMAIN accounts |-> accounts[k].lamports], DOMAIN accounts)

\* n lamports are added to account k.
Paid(accounts, k, n) == [accounts EXCEPT ![k].lamports = @ + n]

\* The data of account k is overwritten.
Written(accounts, k, d) == [accounts EXCEPT ![k].data = d]

\* BorrowedInstructionAccount::set_lamports and can_data_be_changed,
\* TransactionContext::pop, and the rent check after the transaction.
Allowed(program, old, new) ==
  /\ \A k \in DOMAIN old :
       /\ new[k].lamports < old[k].lamports => old[k].owner = program
       /\ new[k].data # old[k].data => old[k].owner = program
       /\ new[k].lamports # old[k].lamports =>
            new[k].lamports = 0 \/ new[k].lamports >= RentMinimum
  /\ Lamports(new) = Lamports(old)

\* An account left without lamports is gone after the transaction.
Swept(accounts, noData) ==
  [k \in DOMAIN accounts |->
     IF accounts[k].lamports = 0
     THEN [owner |-> SystemProgram, lamports |-> 0, data |-> noData] ELSE accounts[k]]
=============================================================================
