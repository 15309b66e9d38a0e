------------------------------ MODULE Evidence ------------------------------
(***************************************************************************)
(* The EvidenceCollector of consensus-bft (evidence.rs): it remembers the  *)
(* first vote seen for every (height, round, voter, kind) and records each *)
(* later vote that differs from it.  A collector is a record               *)
(*   votes      the first votes (the map from VoteKey to StoredVote),      *)
(*   evidence   the conflicting pairs found so far,                        *)
(*   minHeight  the lowest height still tracked.                           *)
(* The vector of evidence is a set here: a conflicting vote that arrives   *)
(* twice is pushed twice by the code and counted once by the model.        *)
(***************************************************************************)
EXTENDS Integers

CONSTANT
  \* heights kept by prune: 100 in the code (engine.rs:102)
  EvidenceWindow

ASSUME EvidenceAssumption == EvidenceWindow \in Nat

NewCollector == [votes |-> {}, evidence |-> {}, minHeight |-> 0]

\* Mutant: a VoteKey without the kind of vote.
SameKeyAnyKind(a, b) == a.height = b.height /\ a.round = b.round /\ a.voter = b.voter

\* VoteKey equality.
SameKey(a, b) ==
  a.type = b.type /\ a.height = b.height /\ a.round = b.round /\ a.voter = b.voter

DoubleSign(first, second) == [first |-> first, second |-> second]

\* Mutant: a conflicting vote is taken for a repeated one.
CheckAndRecordFirstOnly(c, vote) ==
  IF vote.height >= c.minHeight /\ ~ \E v \in c.votes : SameKey(v, vote)
  THEN [c EXCEPT !.votes = @ \cup {vote}]
  ELSE c

\* check_and_record
CheckAndRecord(c, vote) ==
  LET existing == {v \in c.votes : SameKey(v, vote)}
  IN  CASE vote.height < c.minHeight -> c
        [] vote.height >= c.minHeight /\ existing = {} ->
             [c EXCEPT !.votes = @ \cup {vote}]
        [] OTHER ->
             [c EXCEPT !.evidence =
                @ \cup {DoubleSign(v, vote) : v \in existing \ {vote}}]

\* prune
Prune(c, minHeight) ==
  [c EXCEPT !.minHeight = minHeight,
            !.votes = {v \in @ : v.height >= minHeight}]
=============================================================================
