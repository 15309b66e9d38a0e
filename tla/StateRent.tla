----------------------------- MODULE StateRent -----------------------------
(***************************************************************************)
(* Archival and revival of inactive accounts                               *)
(* (accounts-db/src/state_rent_expiry.rs and archive_account_to_cold of    *)
(* trv1_storage_adapter.rs).                                               *)
(*                                                                         *)
(* Threads archive accounts they have read: the file is opened and         *)
(* truncated, written, and then the metadata is entered in the archive     *)
(* index, which lives in memory.  A crash leaves the files as they are.    *)
(* The code has no caller of these functions yet: which accounts are       *)
(* offered, and that a revived account is taken out of the index and       *)
(* stored, is modelled from their documentation.                           *)
(***************************************************************************)
EXTENDS Integers, FiniteSets

CONSTANTS
    RentKeys,        \* accounts
    Archivers,       \* callers of archive_account_to_cold
    Contents,        \* data an account may hold
    Deposits,        \* rent deposits offered for a revival
    RevivalDeposit,  \* revival_deposit of an account
    SlotsPerDay,     \* ESTIMATED_SLOTS_PER_DAY
    ArchiveAfterDays,
    MaxSlot,         \* bound: slots
    MaxArchives      \* bound: archivals since the last start

ASSUME StateRentAssumption ==
    /\ {SlotsPerDay, ArchiveAfterDays, MaxSlot, MaxArchives} \subseteq Nat \ {0}
    /\ RevivalDeposit \in Nat /\ Deposits \subseteq Nat

VARIABLES
    live,      \* the account stored in AccountsDb, or Missing
    touched,   \* slot of its last write
    file,      \* its cold storage file: Missing, Torn or a serialized account
    index,     \* ArchiveIndex.entries: metadata, or Missing
    counts,    \* ArchiveIndex.total_archived and total_revived
    archiver,  \* what each caller does
    restored,  \* the last revival: the metadata and the account returned
    now        \* current slot

rentVars == <<live, touched, file, index, counts, archiver, restored, now>>

Missing == [missing |-> TRUE]
Torn == [torn |-> TRUE]
NotArchiving == [at |-> "idle"]
NoCounts == [archived |-> 0, revived |-> 0]

\* The fields a property can tell apart: the data, whether it is long enough to
\* be archived, whether there are lamports, an exempt owner, and the rent epoch.
Account(data, exempt) == [data |-> data, exempt |-> exempt, rentEpoch |-> "MAX"]

RentAccounts == {Account(d, x) : d \in Contents, x \in BOOLEAN}

\* serialize_account_for_cold_storage leaves out the rent epoch, so that
\* deserialize_account_from_cold_storage returns an account with epoch zero.
Deserialized(account) == [account EXCEPT !.rentEpoch = "0"]

\* compute_account_hash: collision-free, and blind to the rent epoch.
AccountHash(key, account) == <<key, account.data, account.exempt>>

InactiveDays(last) == (IF now < last THEN 0 ELSE now - last) \div SlotsPerDay

\* An exempt account is too small, has no lamports or is a system program's.
CheckRentExpiry(account, last) == ~account.exempt /\ InactiveDays(last) >= ArchiveAfterDays

Metadata(key, account, last) ==
    [hash |-> AccountHash(key, account), account |-> account, inactive |-> InactiveDays(last)]

RentInit ==
    /\ live \in [RentKeys -> RentAccounts]
    /\ touched = [k \in RentKeys |-> 0]
    /\ file = [k \in RentKeys |-> Missing]
    /\ index = [k \in RentKeys |-> Missing]
    /\ counts = NoCounts
    /\ archiver = [t \in Archivers |-> NotArchiving]
    /\ restored = Missing
    /\ now = 0

\* A transaction writes the account.
Write(k, account) ==
    /\ live' = [live EXCEPT ![k] = account]
    /\ touched' = [touched EXCEPT ![k] = now]
    /\ UNCHANGED <<file, index, counts, archiver, restored, now>>

\* A caller reads the account and its last slot to offer it for archival.
Offer(t, k) ==
    /\ archiver[t] = NotArchiving /\ counts.archived < MaxArchives
    /\ archiver' = [archiver EXCEPT ![t] =
            [at |-> "offered", key |-> k, account |-> live[k], last |-> touched[k]]]
    /\ UNCHANGED <<live, touched, file, index, counts, restored, now>>

\* check_rent_expiry declines, or archive_account opens the file.
Decline(t) ==
    /\ archiver[t].at = "offered" /\ ~CheckRentExpiry(archiver[t].account, archiver[t].last)
    /\ archiver' = [archiver EXCEPT ![t] = NotArchiving]
    /\ UNCHANGED <<live, touched, file, index, counts, restored, now>>

OpenFile(t) ==
    /\ archiver[t].at = "offered" /\ CheckRentExpiry(archiver[t].account, archiver[t].last)
    /\ LET k == archiver[t].key IN
        /\ file' = [file EXCEPT ![k] = Torn]
        /\ archiver' = [archiver EXCEPT ![t] =
            [at |-> "writing", key |-> k, account |-> archiver[t].account,
             meta |-> Metadata(k, archiver[t].account, archiver[t].last)]]
    /\ UNCHANGED <<live, touched, index, counts, restored, now>>

\* The write fails, or the file is complete.
WriteFails(t) ==
    /\ archiver[t].at = "writing"
    /\ archiver' = [archiver EXCEPT ![t] = NotArchiving]
    /\ UNCHANGED <<live, touched, file, index, counts, restored, now>>

WriteFile(t) ==
    /\ archiver[t].at = "writing"
    /\ file' = [file EXCEPT ![archiver[t].key] = archiver[t].account]
    /\ archiver' = [archiver EXCEPT ![t] =
            [at |-> "written", key |-> archiver[t].key, meta |-> archiver[t].meta]]
    /\ UNCHANGED <<live, touched, index, counts, restored, now>>

\* ArchiveIndex::insert.  The account stays in AccountsDb.
Insert(t) ==
    /\ archiver[t].at = "written" /\ counts.archived < MaxArchives
    /\ index' = [index EXCEPT ![archiver[t].key] = archiver[t].meta]
    /\ counts' = [counts EXCEPT !.archived = @ + 1]
    /\ archiver' = [archiver EXCEPT ![t] = NotArchiving]
    /\ UNCHANGED <<live, touched, file, restored, now>>

\* Mutant: the hash of what was read is not compared.
RevivableUnverified(k, deposit) ==
    /\ deposit >= RevivalDeposit
    /\ file[k] \notin {Missing, Torn}

\* What revive_account accepts: enough deposit, a complete file, the hash.
Revivable(k, deposit) ==
    /\ deposit >= RevivalDeposit
    /\ file[k] \notin {Missing, Torn}
    /\ AccountHash(k, Deserialized(file[k])) = index[k].hash

\* ArchiveIndex::remove
Removed(k) ==
    /\ index' = [index EXCEPT ![k] = Missing]
    /\ counts' = [counts EXCEPT !.revived = @ + 1]

Revive(k, deposit) ==
    /\ index[k] # Missing
    /\ Revivable(k, deposit)
    /\ restored' = [meta |-> index[k], account |-> Deserialized(file[k])]
    /\ live' = [live EXCEPT ![k] = Deserialized(file[k])]
    /\ touched' = [touched EXCEPT ![k] = now]
    /\ Removed(k)
    /\ UNCHANGED <<file, archiver, now>>

\* The process stops and starts again.
Restart ==
    /\ index' = [k \in RentKeys |-> Missing]
    /\ counts' = NoCounts
    /\ archiver' = [t \in Archivers |-> NotArchiving]
    /\ UNCHANGED <<live, touched, file, restored, now>>

Tick ==
    /\ now < MaxSlot /\ now' = now + 1
    /\ UNCHANGED <<live, touched, file, index, counts, archiver, restored>>

RentNext ==
    \/ \E k \in RentKeys : \E a \in RentAccounts : Write(k, a)
    \/ \E t \in Archivers : \/ \E k \in RentKeys : Offer(t, k)
                          \/ Decline(t) \/ OpenFile(t) \/ WriteFails(t) \/ WriteFile(t) \/ Insert(t)
    \/ \E k \in RentKeys, d \in Deposits : Revive(k, d)
    \/ Restart
    \/ Tick

RentSpec == RentInit /\ [][RentNext]_rentVars

----------------------------------------------------------------------------
(* Properties.                                                             *)

Entries == {k \in RentKeys : index[k] # Missing}

\* A revival returns the account its metadata was made from, whatever other
\* threads did to the file since, and however a crash or a failed write left
\* it; only the rent epoch is not what it was.
RevivedIsArchived ==
    restored # Missing => restored.account = Deserialized(restored.meta.account)

\* Does not hold. docs/tiered-storage.md: "Archived accounts can be revived by
\* providing a rent deposit": an archived account that is not revived stays in
\* the index, where revive_account's caller finds it.
ArchivesStayKnown ==
    [][\A k \in RentKeys : index[k] # Missing /\ counts'.revived <= counts.revived => index'[k] # Missing]_rentVars

\* Does not hold. check_rent_expiry: "It has been inactive for longer than
\* `config.archive_after_days`".
InactiveForLonger == \A k \in Entries : index[k].inactive > ArchiveAfterDays
============================================================================
