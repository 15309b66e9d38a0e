--------------------------- MODULE BftSafetyProofs ---------------------------
(***************************************************************************)
(* Safety of BftConsensus for every set of nodes, stakes, blocks and       *)
(* bounds.  SafetyInv (module BftInvariants) is shown to be inductive, one *)
(* handler at a time; the properties follow from it.                       *)
(***************************************************************************)
EXTENDS BftInvariants, CommonProofs

\* How a leaf is tried: Zenon for a second, which is cheap, then the SMT solver
\* and Zenon in turn, and the SMT solver once more with more time.
USE ZenonT(1), SMT, Zenon, Z3T(20)

-----------------------------------------------------------------------------
(***************************************************************************)
(* Votes and quorums.                                                      *)
(***************************************************************************)

\* Two votes are the same only if they agree in every field.
LEMMA VoteInjective ==
  ASSUME NEW t1, NEW h1, NEW r1, NEW x1, NEW v1,
         NEW t2, NEW h2, NEW r2, NEW x2, NEW v2,
         Vote(t1, h1, r1, x1, v1) = Vote(t2, h2, r2, x2, v2)
  PROVE  t1 = t2 /\ h1 = h2 /\ r1 = r2 /\ x1 = x2 /\ v1 = v2
  BY DEF Vote

\* A vote built from typed fields is a message, and the converse.
LEMMA VoteType ==
  ASSUME NEW t \in VoteTypes, NEW h \in Heights, NEW r \in Rounds,
         NEW x \in Hashes, NEW v \in Nodes
  PROVE  Vote(t, h, r, x, v) \in VoteMsgs
  BY DEF Vote, VoteMsgs, VoteTypes

\* The fields of a vote message are typed, and determine it.
LEMMA VoteFields ==
  ASSUME NEW m \in VoteMsgs
  PROVE  /\ m.type \in VoteTypes /\ m.height \in Heights /\ m.round \in Rounds
         /\ m.hash \in Hashes /\ m.voter \in Nodes
         /\ m = Vote(m.type, m.height, m.round, m.hash, m.voter)
  BY DEF Vote, VoteMsgs, VoteTypes

\* The stake of a set of nodes is additive and monotone.
LEMMA StakeAdditive ==
  /\ \A S \in SUBSET Nodes : StakeOf(S) \in Nat
  /\ \A S, T \in SUBSET Nodes :
        /\ StakeOf(S \cup T) + StakeOf(S \cap T) = StakeOf(S) + StakeOf(T)
        /\ S \subseteq T => StakeOf(S) <= StakeOf(T)
<1>1. ASSUME NEW S \in SUBSET Nodes
      PROVE  IsFiniteSet(S) /\ \A v \in S : Stake[v] \in Nat /\ Stake[v] \in Int
  <2>1. IsFiniteSet(S)
    BY Zenon, NodesAssumption, FS_Subset
  <2> QED
    BY SMT, <2>1, NodesAssumption
<1>2. ASSUME NEW S \in SUBSET Nodes PROVE StakeOf(S) \in Nat
  BY Zenon, <1>1, SumNatural DEF StakeOf
<1>3. ASSUME NEW S \in SUBSET Nodes, NEW T \in SUBSET Nodes
      PROVE  StakeOf(S \cup T) + StakeOf(S \cap T) = StakeOf(S) + StakeOf(T)
  <2>1. \A v \in S \cup T : Stake[v] \in Int
    BY <1>1
  <2> QED
    BY Zenon, <1>1, <2>1, SumUnion DEF StakeOf
<1>4. ASSUME NEW S \in SUBSET Nodes, NEW T \in SUBSET Nodes, S \subseteq T
      PROVE  StakeOf(S) <= StakeOf(T)
  BY Zenon, <1>1, <1>4, SumMonotone DEF StakeOf
<1> QED
  BY Zenon, <1>2, <1>3, <1>4

\* A superset of a quorum is a quorum.
LEMMA QuorumMonotone ==
  ASSUME NEW Q \in Quorums, NEW P \in SUBSET Nodes, Q \subseteq P
  PROVE  P \in Quorums
<1>1. QuorumStake \in Int
  BY SMT, StakeAdditive DEF QuorumStake, TotalStake, FinalityThreshold
<1>2. StakeOf(Q) <= StakeOf(P) /\ StakeOf(Q) \in Nat /\ StakeOf(P) \in Nat
  BY StakeAdditive DEF Quorums
<1>3. QED
  BY SMT, <1>1, <1>2 DEF Quorums

\* A polka stays one as messages are added.
LEMMA PolkaMonotone ==
  ASSUME NEW S, NEW T, S \subseteq T, NEW h, NEW r, NEW b, Polka(S, h, r, b)
  PROVE  Polka(T, h, r, b)
<1>1. VotersIn(S, "Prevote", h, r, b) \subseteq VotersIn(T, "Prevote", h, r, b)
  BY DEF VotersIn
<1>2. VotersIn(T, "Prevote", h, r, b) \in SUBSET Nodes
  BY DEF VotersIn
<1>3. QED
  BY <1>1, <1>2, QuorumMonotone DEF Polka

\* The threshold of 667/1000 makes two quorums share more than a third of the
\* stake, hence a node of K when less than a third is outside K.
LEMMA QuorumsShare ==
  ASSUME NEW K \in SUBSET Honest, 3 * StakeOf(Nodes \ K) < TotalStake
  PROVE  QuorumsMeet(K)
<1> DEFINE Others == Nodes \ K
<1>1. SUFFICES ASSUME NEW Q1 \in Quorums, NEW Q2 \in Quorums, Q1 \cap Q2 \cap K = {}
               PROVE  FALSE
  BY DEF QuorumsMeet
<1>2. /\ Q1 \in SUBSET Nodes /\ Q2 \in SUBSET Nodes
      /\ Q1 \cup Q2 \in SUBSET Nodes /\ Q1 \cap Q2 \in SUBSET Nodes
      /\ Others \in SUBSET Nodes /\ Nodes \in SUBSET Nodes
  BY DEF Quorums
<1>3. Q1 \cap Q2 \subseteq Others
  BY <1>1, <1>2
<1> DEFINE T == StakeOf(Nodes)
           F == StakeOf(Others)
           a == StakeOf(Q1)
           b == StakeOf(Q2)
           u == StakeOf(Q1 \cup Q2)
           i == StakeOf(Q1 \cap Q2)
<1>4. T \in Nat /\ F \in Nat /\ a \in Nat /\ b \in Nat /\ u \in Nat /\ i \in Nat
  BY <1>2, StakeAdditive
<1>5. u + i = a + b /\ u <= T /\ i <= F
  BY Zenon, <1>2, <1>3, StakeAdditive
<1>6. 3 * F < T
  BY DEF TotalStake
<1>7. a >= QuorumStake /\ b >= QuorumStake
  BY DEF Quorums
<1> HIDE DEF T, F, a, b, u, i
<1>8. QuorumStake \in Int /\ 1000 * QuorumStake >= 667 * T
  <2>1. QuorumStake = IF (T * 667 + 999) \div 1000 < 1 THEN 1 ELSE (T * 667 + 999) \div 1000
    BY DEF QuorumStake, TotalStake, FinalityThreshold, T
  <2>2. QED
    BY SMT, <2>1, <1>4
<1>9. QED
  BY SMT, <1>4, <1>5, <1>6, <1>7, <1>8

\* Without restarts K is the set of the honest nodes.
LEMMA QuorumIntersection == FewFaulty => QuorumsMeet(Honest)
<1>1. Nodes \ Honest = Faulty /\ Honest \in SUBSET Honest
  BY NodesAssumption DEF Honest
<1> QED
  BY <1>1, QuorumsShare DEF FewFaulty

-----------------------------------------------------------------------------
(***************************************************************************)
(* The four ways an engine changes what SafeEngine speaks of: it moves to  *)
(* a later round, counts a vote, casts its prevote, or locks and casts its *)
(* precommit.  Each lemma takes the engine before (e) and after (f).       *)
(***************************************************************************)

\* Same height and same lock.
SameLock(e, f) ==
  /\ f.height = e.height
  /\ f.lockedValue = e.lockedValue
  /\ f.lockedRound = e.lockedRound

\* Types of the fields that matter.
LEMMA EngineTypes ==
  ASSUME NEW e \in Engines
  PROVE  /\ e.height \in Heights /\ e.height \in Int
         /\ e.round \in Rounds /\ e.round \in Nat
         /\ e.lockedRound \in Int /\ e.lockedRound \in Rounds \cup {NoRound}
         /\ e.lockedValue \in Hashes
         /\ e.prevotes \in VoteMaps /\ e.precommits \in VoteMaps
         /\ e.sentPrevote \in BOOLEAN /\ e.sentPrecommit \in BOOLEAN
  BY BoundsAssumption DEF Engines, Heights, Rounds, NoRound

\* advance_round: to a later round with no votes and no flag.
LEMMA MoveSafe ==
  ASSUME NEW K \in SUBSET Honest, NEW S, NEW n \in Honest, NEW e \in Engines, NEW f \in Engines,
         SafeEngine(K, e, n, S), SameLock(e, f),
         f.round > e.round, f.prevotes = EmptyVotes, f.precommits = EmptyVotes
  PROVE  SafeEngine(K, f, n, S)
<1> USE EngineTypes
<1>1. Backed(f, S)
  BY DEF Backed, EmptyVotes
<1>2. n \in K => VotesBehind(f, n, S)
  <2> SUFFICES ASSUME n \in K, NEW h \in Heights, NEW r \in Rounds, NEW x \in Hashes
      PROVE /\ Vote("Prevote", h, r, x, n) \in S => Behind(f, h, r, f.sentPrevote)
            /\ Vote("Precommit", h, r, x, n) \in S => Behind(f, h, r, f.sentPrecommit)
    BY DEF VotesBehind
  <2>1. h \in Int /\ r \in Int
    BY SMT, BoundsAssumption DEF Heights, Rounds
  <2> QED
    BY SMT, <2>1 DEF SafeEngine, VotesBehind, Behind, SameLock
<1>3. LockIsPolka(f, S)
  BY SMT DEF SafeEngine, LockIsPolka, SameLock
<1>4. n \in K /\ QuorumsMeet(K) => LockCovers(f, n, S)
  BY DEF SafeEngine, LockCovers, SameLock
<1> QED
  BY <1>1, <1>2, <1>3, <1>4 DEF SafeEngine

\* The parts of SafeEngine that do not depend on the vote maps.
LEMMA CountSafe ==
  ASSUME NEW K \in SUBSET Honest, NEW S, NEW n \in Honest, NEW e \in Engines, NEW f \in Engines,
         SafeEngine(K, e, n, S), SameLock(e, f), f.round = e.round,
         f.sentPrevote = e.sentPrevote, f.sentPrecommit = e.sentPrecommit,
         Backed(f, S)
  PROVE  SafeEngine(K, f, n, S)
  BY SMT DEF SafeEngine, VotesBehind, Behind, LockIsPolka, LockCovers, SameLock

\* What other nodes send does not disturb an engine.
LEMMA FrameSafe ==
  ASSUME NEW K \in SUBSET Honest, NEW S, NEW T, S \subseteq T, NEW n \in Honest, NEW e \in Engines,
         SafeEngine(K, e, n, S),
         \A t \in VoteTypes, h \in Heights, r \in Rounds, x \in Hashes :
           Vote(t, h, r, x, n) \in T => Vote(t, h, r, x, n) \in S
  PROVE  SafeEngine(K, e, n, T)
<1> USE EngineTypes
<1>1. Backed(e, T)
  BY DEF SafeEngine, Backed
<1>2. n \in K => VotesBehind(e, n, T)
  BY DEF SafeEngine, VotesBehind, VoteTypes
<1>3. LockIsPolka(e, T)
  BY PolkaMonotone DEF SafeEngine, LockIsPolka
<1>4. n \in K /\ QuorumsMeet(K) => LockCovers(e, n, T)
  BY DEF SafeEngine, LockCovers, VoteTypes, Hashes
<1> QED
  BY <1>1, <1>2, <1>3, <1>4 DEF SafeEngine

\* Two polkas of one round are for the same block.
LEMMA OnePolka ==
  ASSUME NEW K \in SUBSET Honest, NEW S, UniqueVotes(K, S), QuorumsMeet(K), NEW h \in Heights, NEW r \in Rounds,
         NEW b \in Blocks, NEW c \in Blocks, Polka(S, h, r, b), Polka(S, h, r, c)
  PROVE  b = c
<1>1. PICK v \in K : /\ v \in VotersIn(S, "Prevote", h, r, b)
                     /\ v \in VotersIn(S, "Prevote", h, r, c)
  BY DEF QuorumsMeet, Polka
<1>2. Vote("Prevote", h, r, b, v) \in S /\ Vote("Prevote", h, r, c, v) \in S
  BY <1>1 DEF VotersIn
<1> QED
  BY <1>2 DEF UniqueVotes, VoteTypes, Hashes

\* A quorum an engine counts was sent.
LEMMA CountedPolka ==
  ASSUME NEW S, NEW e \in Engines, Backed(e, S), NEW b \in QuorumHashes(e.prevotes)
  PROVE  b \in Blocks /\ Polka(S, e.height, e.round, b)
<1>1. b \in Blocks /\ VotersFor(e.prevotes, b) \in Quorums
  BY DEF QuorumHashes
<1>2. VotersFor(e.prevotes, b) \subseteq VotersIn(S, "Prevote", e.height, e.round, b)
  BY <1>1, MarkersAssumption DEF Backed, VotersFor, VotersIn
<1>3. VotersIn(S, "Prevote", e.height, e.round, b) \in SUBSET Nodes
  BY DEF VotersIn
<1> QED
  BY <1>1, <1>2, <1>3, QuorumMonotone DEF Polka

\* Locking on a polka of the current round.
LEMMA LockSafe ==
  ASSUME NEW K \in SUBSET Honest, NEW S, NEW n \in Honest, NEW e \in Engines, NEW f \in Engines,
         SafeVotes(K, S), SafeEngine(K, e, n, S),
         NEW b \in QuorumHashes(e.prevotes),
         f.lockedValue = b, f.lockedRound = e.round,
         f.height = e.height, f.round = e.round,
         f.prevotes = e.prevotes, f.precommits = e.precommits,
         f.sentPrevote = e.sentPrevote, f.sentPrecommit = e.sentPrecommit
  PROVE  SafeEngine(K, f, n, S)
<1> USE EngineTypes
<1>1. b \in Blocks /\ Polka(S, e.height, e.round, b)
  BY CountedPolka DEF SafeEngine
<1>2. Backed(f, S)
  BY DEF SafeEngine, Backed
<1>3. n \in K => VotesBehind(f, n, S)
  BY SMT DEF SafeEngine, VotesBehind, Behind
<1>4. LockIsPolka(f, S)
  BY SMT, <1>1, MarkersAssumption, BoundsAssumption DEF LockIsPolka, NoRound, Rounds
<1>5. ASSUME n \in K, QuorumsMeet(K), NEW r \in Rounds, NEW c \in Blocks,
             Vote("Precommit", e.height, r, c, n) \in S
      PROVE  r < e.round \/ (r = e.round /\ c = b)
  <2>1. Behind(e, e.height, r, e.sentPrecommit)
    BY <1>5 DEF SafeEngine, VotesBehind, Hashes
  <2>2. r < e.round \/ r = e.round
    BY SMT, <2>1 DEF Behind
  <2>3. r = e.round => c = b
    BY <1>1, <1>5, OnePolka DEF SafeVotes, JustifiedPrecommits
  <2> QED
    BY <2>2, <2>3
<1>6. n \in K /\ QuorumsMeet(K) => LockCovers(f, n, S)
  BY <1>5 DEF LockCovers
<1> QED
  BY <1>2, <1>3, <1>4, <1>6 DEF SafeEngine

\* An excuse survives new messages, unless a node of the excusing quorum were to
\* precommit in a round it has left.
LEMMA ExcuseMonotone ==
  ASSUME NEW K \in SUBSET Honest, NEW S, NEW T, S \subseteq T, NEW h, NEW r1, NEW b1, NEW r, NEW b,
         Excuse(K, S, h, r1, b1, r, b),
         \A u \in K : Vote("Precommit", h, r1, b1, u) \in T /\ Vote("Prevote", h, r, b, u) \in S
            => Vote("Precommit", h, r1, b1, u) \in S
  PROVE  Excuse(K, T, h, r1, b1, r, b)
<1>1. CASE \E p \in Nodes, vr \in Rounds : vr >= r1 /\ Proposal(h, r, b, p, vr) \in S
  BY <1>1 DEF Excuse
<1>2. CASE \E q \in Rounds : q >= r1 /\ q < r /\ Polka(S, h, q, b)
  BY <1>2, PolkaMonotone DEF Excuse
<1>3. CASE \E P \in Quorums :
             /\ P \subseteq VotersIn(S, "Prevote", h, r, b)
             /\ \A u \in P \cap K : Vote("Precommit", h, r1, b1, u) \notin S
  <2>1. PICK P \in Quorums :
             /\ P \subseteq VotersIn(S, "Prevote", h, r, b)
             /\ \A u \in P \cap K : Vote("Precommit", h, r1, b1, u) \notin S
    BY <1>3
  <2>2. P \subseteq VotersIn(T, "Prevote", h, r, b)
    BY <2>1 DEF VotersIn
  <2>3. \A u \in P \cap K : Vote("Precommit", h, r1, b1, u) \notin T
    BY <2>1 DEF VotersIn
  <2> QED
    BY <2>2, <2>3 DEF Excuse
<1> QED
  BY <1>1, <1>2, <1>3 DEF Excuse

\* Casting the prevote of the round: nil, or a block the lock rule allows.
LEMMA PrevoteSafe ==
  ASSUME NEW K \in SUBSET Honest, NEW S, NEW n \in Honest, NEW e \in Engines, NEW f \in Engines, NEW x \in Hashes,
         SafeVotes(K, S), SafeEngine(K, e, n, S), SameLock(e, f), f.round = e.round,
         ~ e.sentPrevote, f.sentPrevote, f.sentPrecommit = e.sentPrecommit,
         f.prevotes = [e.prevotes EXCEPT ![n] = x], f.precommits = e.precommits,
         \/ x = Nil
         \/ e.lockedValue \in {Nil, x}
         \/ \E p \in Nodes, vr \in Rounds :
              vr >= e.lockedRound /\ Proposal(e.height, e.round, x, p, vr) \in S
  PROVE  LET T == S \cup {Vote("Prevote", e.height, e.round, x, n)}
         IN  SafeVotes(K, T) /\ SafeEngine(K, f, n, T)
<1> USE EngineTypes
<1> DEFINE new == Vote("Prevote", e.height, e.round, x, n)
           T == S \cup {new}
<1>1. n \in Nodes /\ S \subseteq T /\ new \in T
  BY DEF Honest
<1>2. ASSUME NEW h, NEW r, NEW y, NEW v
      PROVE  Vote("Precommit", h, r, y, v) \in T <=> Vote("Precommit", h, r, y, v) \in S
  BY SMT, VoteInjective
<1>3. ASSUME NEW h, NEW r, NEW y, NEW v, Vote("Prevote", h, r, y, v) \in T
      PROVE  \/ Vote("Prevote", h, r, y, v) \in S
             \/ h = e.height /\ r = e.round /\ y = x /\ v = n
  BY <1>3, VoteInjective
<1>4. ASSUME n \in K, NEW y \in Hashes
      PROVE  Vote("Prevote", e.height, e.round, y, n) \notin S
  BY SMT, <1>4 DEF SafeEngine, VotesBehind, Behind
<1> HIDE DEF T, new
<1>5. UniqueVotes(K, T)
  <2> SUFFICES ASSUME NEW t \in VoteTypes, NEW h \in Heights, NEW r \in Rounds,
                      NEW v \in K, NEW y \in Hashes, NEW z \in Hashes,
                      Vote(t, h, r, y, v) \in T, Vote(t, h, r, z, v) \in T
               PROVE  y = z
    BY SMT DEF UniqueVotes
  <2>1. CASE t = "Precommit"
    BY <2>1, <1>2 DEF SafeVotes, UniqueVotes
  <2>2. CASE t = "Prevote"
    BY SMT, <2>2, <1>3, <1>4 DEF SafeVotes, UniqueVotes
  <2> QED
    BY <2>1, <2>2 DEF VoteTypes
<1>6. JustifiedPrecommits(T)
  BY <1>1, <1>2, PolkaMonotone DEF SafeVotes, JustifiedPrecommits
<1>7. ASSUME QuorumsMeet(K), NEW h \in Heights, NEW r1 \in Rounds, NEW r \in Rounds,
             NEW b1 \in Blocks, NEW b \in Blocks, NEW v \in K, r1 < r, b1 # b,
             Vote("Precommit", h, r1, b1, v) \in T, Vote("Prevote", h, r, b, v) \in T
      PROVE  Excuse(K, T, h, r1, b1, r, b)
  <2>1. SUFFICES Excuse(K, S, h, r1, b1, r, b)
    BY Zenon, <2>1, <1>1, <1>2, ExcuseMonotone
  <2>2. Vote("Precommit", h, r1, b1, v) \in S
    BY <1>2, <1>7
  <2>3. CASE Vote("Prevote", h, r, b, v) \in S
    BY <2>2, <2>3, <1>7 DEF SafeVotes, LockRule
  <2>4. CASE h = e.height /\ r = e.round /\ b = x /\ v = n
    <3>1. /\ r1 \in Int /\ r \in Int /\ r1 >= 0
          /\ b # Nil
      BY SMT, BoundsAssumption, MarkersAssumption DEF Rounds
    <3>3. r1 <= e.lockedRound
      BY <2>2, <2>4, <1>7, <3>1 DEF SafeEngine, LockCovers
    <3>4. e.lockedRound # NoRound /\ e.lockedValue # Nil
      BY SMT, <3>1, <3>3 DEF NoRound, SafeEngine, LockIsPolka
    <3>5. CASE e.lockedValue = b
      <4>1. Polka(S, h, e.lockedRound, b) /\ e.lockedRound <= r /\ e.lockedRound \in Rounds
        BY Zenon, <3>4, <3>5, <2>4 DEF SafeEngine, LockIsPolka
      <4>2. CASE e.lockedRound < r
        BY Zenon, <4>1, <4>2, <3>3 DEF Excuse
      <4>3. CASE e.lockedRound = r
        <5> DEFINE P == VotersIn(S, "Prevote", h, r, b)
        <5>1. P \in Quorums
          BY Zenon, <4>1, <4>3 DEF Polka
        <5>2. CASE \E u \in P \cap K : Vote("Precommit", h, r1, b1, u) \in S
          <6>1. PICK u \in P \cap K : Vote("Precommit", h, r1, b1, u) \in S
            BY <5>2
          <6>2. Vote("Prevote", h, r, b, u) \in S
            BY <6>1 DEF VotersIn
          <6> QED
            BY <6>1, <6>2, <1>7 DEF SafeVotes, LockRule
        <5>3. CASE \A u \in P \cap K : Vote("Precommit", h, r1, b1, u) \notin S
          BY <5>1, <5>3 DEF Excuse
        <5> QED
          BY Zenon, <5>2, <5>3
      <4> QED
        BY <4>1, <4>2, <4>3, <3>1
    <3>6. CASE \E p \in Nodes, vr \in Rounds :
                 vr >= e.lockedRound /\ Proposal(e.height, e.round, x, p, vr) \in S
      <4>1. PICK p \in Nodes, vr \in Rounds :
                 vr >= e.lockedRound /\ Proposal(e.height, e.round, x, p, vr) \in S
        BY Zenon, <3>6
      <4>2. vr >= r1 /\ Proposal(h, r, b, p, vr) \in S
        BY <4>1, <3>1, <3>3, <2>4, BoundsAssumption DEF Rounds
      <4> QED
        BY <4>2 DEF Excuse
    <3> QED
      BY Zenon, <3>1, <3>4, <3>5, <3>6, <2>4
  <2> QED
    BY <1>3, <1>7, <2>3, <2>4
<1>8. SafeVotes(K, T)
  BY ZenonT(40), <1>5, <1>6, <1>7 DEF SafeVotes, LockRule
<1>9. Backed(f, T)
  BY ZenonT(40), <1>1 DEF SafeEngine, Backed, SameLock, VoteMaps, new
<1>10. n \in K => VotesBehind(f, n, T)
  BY SMT, <1>2, <1>3 DEF SafeEngine, VotesBehind, Behind, SameLock
<1>11. LockIsPolka(f, T)
  BY Zenon, <1>1, PolkaMonotone DEF SafeEngine, LockIsPolka, SameLock
<1>12. n \in K /\ QuorumsMeet(K) => LockCovers(f, n, T)
  BY Zenon, <1>2 DEF SafeEngine, LockCovers, SameLock
<1> QED
  BY <1>8, <1>9, <1>10, <1>11, <1>12 DEF SafeEngine, T, new

\* Casting the precommit of the round: nil, or the block locked in this round.
LEMMA PrecommitSafe ==
  ASSUME NEW K \in SUBSET Honest, NEW S, NEW n \in Honest, NEW e \in Engines, NEW f \in Engines, NEW x \in Hashes,
         SafeVotes(K, S), SafeEngine(K, e, n, S), SameLock(e, f), f.round = e.round,
         ~ e.sentPrecommit, f.sentPrecommit, f.sentPrevote = e.sentPrevote,
         f.prevotes = e.prevotes, f.precommits = [e.precommits EXCEPT ![n] = x],
         x = Nil \/ (x = e.lockedValue /\ e.lockedRound = e.round)
  PROVE  LET T == S \cup {Vote("Precommit", e.height, e.round, x, n)}
         IN  SafeVotes(K, T) /\ SafeEngine(K, f, n, T)
<1> USE EngineTypes
<1> DEFINE new == Vote("Precommit", e.height, e.round, x, n)
           T == S \cup {new}
<1>1. n \in Nodes /\ S \subseteq T /\ new \in T
  BY DEF Honest
<1>2. ASSUME NEW h, NEW r, NEW y, NEW v
      PROVE  Vote("Prevote", h, r, y, v) \in T <=> Vote("Prevote", h, r, y, v) \in S
  BY SMT, VoteInjective
<1>3. ASSUME NEW h, NEW r, NEW y, NEW v, Vote("Precommit", h, r, y, v) \in T
      PROVE  \/ Vote("Precommit", h, r, y, v) \in S
             \/ h = e.height /\ r = e.round /\ y = x /\ v = n
  BY SMT, <1>3, VoteInjective
<1>4. ASSUME n \in K, NEW y \in Hashes
      PROVE  Vote("Precommit", e.height, e.round, y, n) \notin S
  BY SMT, <1>4 DEF SafeEngine, VotesBehind, Behind
<1> HIDE DEF T, new
<1>5. UniqueVotes(K, T)
  <2> SUFFICES ASSUME NEW t \in VoteTypes, NEW h \in Heights, NEW r \in Rounds,
                      NEW v \in K, NEW y \in Hashes, NEW z \in Hashes,
                      Vote(t, h, r, y, v) \in T, Vote(t, h, r, z, v) \in T
               PROVE  y = z
    BY SMT DEF UniqueVotes
  <2>1. CASE t = "Prevote"
    BY <2>1, <1>2 DEF SafeVotes, UniqueVotes
  <2>2. CASE t = "Precommit"
    BY SMT, <2>2, <1>3, <1>4 DEF SafeVotes, UniqueVotes
  <2> QED
    BY Zenon, <2>1, <2>2 DEF VoteTypes
<1>6. JustifiedPrecommits(T)
  <2> SUFFICES ASSUME NEW h \in Heights, NEW r \in Rounds, NEW b \in Blocks, NEW v \in Honest,
                      Vote("Precommit", h, r, b, v) \in T
               PROVE  Polka(S, h, r, b)
    BY Zenon, <1>1, PolkaMonotone DEF JustifiedPrecommits
  <2>1. CASE Vote("Precommit", h, r, b, v) \in S
    BY Zenon, <2>1 DEF SafeVotes, JustifiedPrecommits
  <2>2. CASE h = e.height /\ r = e.round /\ b = x /\ v = n
    BY Zenon, <2>2, MarkersAssumption DEF SafeEngine, LockIsPolka
  <2> QED
    BY ZenonT(40), <1>3, <2>1, <2>2
<1>7. ASSUME QuorumsMeet(K), NEW h \in Heights, NEW r1 \in Rounds, NEW r \in Rounds,
             NEW b1 \in Blocks, NEW b \in Blocks, NEW v \in K, r1 < r, b1 # b,
             Vote("Precommit", h, r1, b1, v) \in T, Vote("Prevote", h, r, b, v) \in T
      PROVE  Excuse(K, T, h, r1, b1, r, b)
  <2>1. ASSUME NEW u \in K, Vote("Precommit", h, r1, b1, u) \in T,
               Vote("Prevote", h, r, b, u) \in S
        PROVE  Vote("Precommit", h, r1, b1, u) \in S
    <3>1. CASE h = e.height /\ r1 = e.round /\ u = n
      <4>1. Behind(e, e.height, r, e.sentPrevote)
        BY Zenon, <2>1, <3>1 DEF SafeEngine, VotesBehind, Hashes
      <4> QED
        BY <4>1, <3>1, <1>7, BoundsAssumption DEF Behind, Rounds
    <3> QED
      BY Zenon, <2>1, <3>1, <1>3
  <2>2. Vote("Precommit", h, r1, b1, v) \in S /\ Vote("Prevote", h, r, b, v) \in S
    BY Zenon, <2>1, <1>2, <1>7
  <2>3. Excuse(K, S, h, r1, b1, r, b)
    BY Zenon, <2>2, <1>7 DEF SafeVotes, LockRule
  <2> QED
    BY Zenon, <2>1, <2>3, <1>1, ExcuseMonotone
<1>8. SafeVotes(K, T)
  BY ZenonT(40), <1>5, <1>6, <1>7 DEF SafeVotes, LockRule
<1>9. Backed(f, T)
  BY ZenonT(40), <1>1 DEF SafeEngine, Backed, SameLock, VoteMaps, new
<1>10. n \in K => VotesBehind(f, n, T)
  BY SMT, <1>2, <1>3 DEF SafeEngine, VotesBehind, Behind, SameLock
<1>11. LockIsPolka(f, T)
  BY Zenon, <1>1, PolkaMonotone DEF SafeEngine, LockIsPolka, SameLock
<1>12. n \in K /\ QuorumsMeet(K) => LockCovers(f, n, T)
  <2> SUFFICES ASSUME n \in K, QuorumsMeet(K), NEW r \in Rounds, NEW b \in Blocks,
                      Vote("Precommit", e.height, r, b, n) \in T
               PROVE  r < e.lockedRound \/ (r = e.lockedRound /\ b = e.lockedValue)
    BY DEF LockCovers, SameLock
  <2> QED
    BY SMT, <1>3, MarkersAssumption DEF SafeEngine, LockCovers
<1> QED
  BY Zenon, <1>8, <1>9, <1>10, <1>11, <1>12 DEF SafeEngine, T, new

-----------------------------------------------------------------------------
(***************************************************************************)
(* The handlers.                                                           *)
(***************************************************************************)

\* A handler of node n that turns e into r.eng and broadcasts r.out.
Sound(K, r, e, n, S) ==
  /\ r.eng \in Engines
  /\ r.eng.height = e.height
  /\ r.out \subseteq VoteMsgs
  /\ \A m \in r.out : m.voter = n
  /\ SafeVotes(K, S \cup r.out)
  /\ SafeEngine(K, r.eng, n, S \cup r.out)

\* A handler that changes and sends nothing is sound.
LEMMA SilentSound ==
  ASSUME NEW K \in SUBSET Honest, NEW S, NEW n \in Honest, NEW e \in Engines, NEW f \in Engines,
         SafeVotes(K, S), SafeEngine(K, f, n, S), f.height = e.height
  PROVE  Sound(K, Silent(f), e, n, S)
<1>1. S \cup {} = S
  OBVIOUS
<1> QED
  BY <1>1 DEF Sound, Silent, Output

\* Sending the precommit of the round, of nil or of the block locked in it.
LEMMA SendPrecommitSound ==
  ASSUME NEW K \in SUBSET Honest, NEW S, NEW n \in Honest, NEW e \in Engines, NEW x \in Hashes,
         SafeVotes(K, S), SafeEngine(K, e, n, S),
         x = Nil \/ (x = e.lockedValue /\ e.lockedRound = e.round)
  PROVE  Sound(K, SendPrecommit(e, n, x), e, n, S)
<1>1. CASE e.sentPrecommit
  BY Zenon, <1>1, SilentSound DEF SendPrecommit
<1>2. CASE ~ e.sentPrecommit
  <2> DEFINE f == [e EXCEPT !.sentPrecommit = TRUE, !.precommits[n] = x]
             vote == Vote("Precommit", e.height, e.round, x, n)
  <2>1. SendPrecommit(e, n, x) = [eng |-> f, out |-> {vote}, commits |-> {}]
    BY <1>2 DEF SendPrecommit, Output, MakeVote
  <2>2. /\ f \in Engines /\ SameLock(e, f) /\ f.round = e.round
        /\ f.sentPrecommit /\ f.sentPrevote = e.sentPrevote
        /\ f.prevotes = e.prevotes /\ f.precommits = [e.precommits EXCEPT ![n] = x]
    BY Zenon DEF Engines, SameLock, VoteMaps, Honest
  <2>3. vote \in VoteMsgs /\ vote.voter = n
    <3>1. vote \in VoteMsgs
      BY Zenon, EngineTypes, VoteType DEF VoteTypes, Honest
    <3> QED
      BY <3>1 DEF Vote
  <2> HIDE DEF f
  <2>4. SafeVotes(K, S \cup {vote}) /\ SafeEngine(K, f, n, S \cup {vote})
    BY <1>2, <2>2, PrecommitSafe
  <2> HIDE DEF vote
  <2> QED
    BY SMT, <2>1, <2>2, <2>3, <2>4 DEF Sound, SameLock
<1> QED
  BY <1>1, <1>2

\* try_advance_from_prevotes: the lock and the precommit follow a counted polka.
LEMMA TryAdvanceSound ==
  ASSUME NEW K \in SUBSET Honest, NEW S, NEW n \in Honest, NEW e \in Engines,
         SafeVotes(K, S), SafeEngine(K, e, n, S)
  PROVE  Sound(K, TryAdvance(e, n), e, n, S)
<1> DEFINE polka == QuorumHashes(e.prevotes)
           b == CHOOSE h \in polka : TRUE
           lock == [[e EXCEPT !.step = "Precommit"]
                      EXCEPT !.validValue = b, !.validRound = e.round,
                             !.lockedValue = b, !.lockedRound = e.round]
           nil == [e EXCEPT !.step = "Precommit"]
<1>1. CASE polka # {}
  <2>1. b \in QuorumHashes(e.prevotes)
    BY <1>1
  <2>2. b \in Blocks /\ b \in Hashes
    BY <2>1 DEF QuorumHashes, Hashes
  <2>3. TryAdvance(e, n) = SendPrecommit(lock, n, b)
    BY <1>1 DEF TryAdvance
  <2> HIDE DEF b, polka
  <2>4. /\ lock \in Engines /\ lock.lockedValue = b /\ lock.lockedRound = e.round
        /\ lock.height = e.height /\ lock.round = e.round
        /\ lock.prevotes = e.prevotes /\ lock.precommits = e.precommits
        /\ lock.sentPrevote = e.sentPrevote /\ lock.sentPrecommit = e.sentPrecommit
    BY Zenon, <2>2 DEF Engines, Steps
  <2> HIDE DEF lock
  <2>5. SafeEngine(K, lock, n, S)
    BY Zenon, <2>1, <2>4, LockSafe
  <2>6. Sound(K, SendPrecommit(lock, n, b), lock, n, S)
    BY Zenon, <2>2, <2>4, <2>5, SendPrecommitSound
  <2> QED
    BY <2>3, <2>4, <2>6 DEF Sound
<1>2. CASE /\ polka = {}
           /\ Voted(e.prevotes) \in Quorums
           /\ StepOrd[e.step] < StepOrd["Precommit"]
  <2>1. TryAdvance(e, n) = SendPrecommit(nil, n, Nil)
    BY <1>2 DEF TryAdvance
  <2>2. nil \in Engines /\ SafeEngine(K, nil, n, S) /\ nil.height = e.height
    <3>1. /\ nil \in Engines /\ SameLock(e, nil) /\ nil.round = e.round
          /\ nil.prevotes = e.prevotes /\ nil.precommits = e.precommits
          /\ nil.sentPrevote = e.sentPrevote /\ nil.sentPrecommit = e.sentPrecommit
      BY Zenon DEF Engines, Steps, SameLock
    <3> HIDE DEF nil
    <3>2. Backed(nil, S)
      BY Zenon, <3>1 DEF SafeEngine, Backed, SameLock
    <3> QED
      BY <3>1, <3>2, CountSafe DEF SameLock
  <2> HIDE DEF nil
  <2>3. Sound(K, SendPrecommit(nil, n, Nil), nil, n, S)
    BY <2>2, SendPrecommitSound DEF Hashes
  <2> QED
    BY <2>1, <2>2, <2>3 DEF Sound
<1>3. CASE /\ polka = {}
           /\ ~ (Voted(e.prevotes) \in Quorums /\ StepOrd[e.step] < StepOrd["Precommit"])
  <2>1. TryAdvance(e, n) = Silent(e)
    BY <1>3 DEF TryAdvance
  <2> QED
    BY <2>1, SilentSound
<1> QED
  BY Zenon, <1>1, <1>2, <1>3

\* A vote that counts is a vote of the current round, so counting it keeps the
\* vote maps backed.
LEMMA CountedVote ==
  ASSUME NEW e \in Engines, NEW m \in VoteMsgs, CountsVote(e, m)
  PROVE  m = Vote(m.type, e.height, e.round, m.hash, m.voter)
  BY VoteFields DEF CountsVote

\* on_prevote: counting a prevote that was sent, then try_advance_from_prevotes.
LEMMA OnPrevoteSound ==
  ASSUME NEW K \in SUBSET Honest, NEW S, NEW n \in Honest, NEW e \in Engines,
         SafeVotes(K, S), SafeEngine(K, e, n, S),
         NEW m \in VoteMsgs, m \in S, m.type = "Prevote"
  PROVE  Sound(K, OnPrevote(e, n, m), e, n, S)
<1>1. CASE CountsVote(e, m)
  <2> DEFINE f == [e EXCEPT !.prevotes[m.voter] = m.hash]
  <2>1. OnPrevote(e, n, m) = TryAdvance(f, n)
    BY <1>1 DEF OnPrevote
  <2>2. m.voter \in Nodes /\ m.hash \in Hashes
    BY VoteFields
  <2>3. /\ f \in Engines /\ SameLock(e, f) /\ f.round = e.round
        /\ f.prevotes = [e.prevotes EXCEPT ![m.voter] = m.hash]
        /\ f.precommits = e.precommits
        /\ f.sentPrevote = e.sentPrevote /\ f.sentPrecommit = e.sentPrecommit
    BY <2>2 DEF Engines, SameLock, VoteMaps
  <2> HIDE DEF f
  <2>4. Vote("Prevote", e.height, e.round, m.hash, m.voter) \in S
    BY Zenon, <1>1, CountedVote
  <2>5. Backed(f, S)
    BY ZenonT(40), <2>2, <2>3, <2>4, EngineTypes DEF SafeEngine, Backed, SameLock, VoteMaps
  <2>6. SafeEngine(K, f, n, S)
    BY Zenon, <2>3, <2>5, CountSafe
  <2>7. Sound(K, TryAdvance(f, n), f, n, S)
    BY <2>3, <2>6, TryAdvanceSound
  <2> QED
    BY <2>1, <2>3, <2>7 DEF Sound, SameLock
<1>2. CASE ~ CountsVote(e, m)
  BY Zenon, <1>2, SilentSound DEF OnPrevote
<1> QED
  BY Zenon, <1>1, <1>2

\* on_precommit broadcasts nothing; what it commits is certified.
LEMMA OnPrecommitSound ==
  ASSUME NEW K \in SUBSET Honest, NEW S, NEW n \in Honest, NEW e \in Engines,
         SafeVotes(K, S), SafeEngine(K, e, n, S),
         NEW m \in VoteMsgs, m \in S, m.type = "Precommit"
  PROVE  /\ Sound(K, OnPrecommit(e, n, m), e, n, S)
         /\ OnPrecommit(e, n, m).out = {}
         /\ \A c \in OnPrecommit(e, n, m).commits : c \in CommittedBlocks /\ Certified(c, S)
<1>1. CASE CountsVote(e, m)
  <2> DEFINE f == [e EXCEPT !.precommits[m.voter] = m.hash]
             done == [f EXCEPT !.step = "Commit"]
             c == [height |-> f.height, round |-> f.round, block |-> f.proposal,
                   signers |-> VotersFor(f.precommits, f.proposal)]
  <2>1. OnPrecommit(e, n, m) = TryCommit(f)
    BY <1>1 DEF OnPrecommit
  <2>2. m.voter \in Nodes /\ m.hash \in Hashes
    BY VoteFields
  <2>3. /\ f \in Engines /\ SameLock(e, f) /\ f.round = e.round /\ f.height = e.height
        /\ f.precommits = [e.precommits EXCEPT ![m.voter] = m.hash]
        /\ f.prevotes = e.prevotes
        /\ f.sentPrevote = e.sentPrevote /\ f.sentPrecommit = e.sentPrecommit
    BY <2>2 DEF Engines, SameLock, VoteMaps
  <2> HIDE DEF f
  <2>4. /\ done \in Engines /\ SameLock(e, done) /\ done.round = e.round /\ done.height = e.height
        /\ done.precommits = f.precommits /\ done.prevotes = e.prevotes
        /\ done.sentPrevote = e.sentPrevote /\ done.sentPrecommit = e.sentPrecommit
    BY <2>3 DEF Engines, SameLock, Steps
  <2> HIDE DEF done
  <2>5. Vote("Precommit", e.height, e.round, m.hash, m.voter) \in S
    BY <1>1, CountedVote
  <2>6. Backed(f, S) /\ Backed(done, S)
    BY ZenonT(40), <2>2, <2>3, <2>4, <2>5, EngineTypes DEF SafeEngine, Backed, SameLock, VoteMaps
  <2>7. SafeEngine(K, f, n, S) /\ SafeEngine(K, done, n, S)
    BY <2>3, <2>4, <2>6, CountSafe
  <2>8. CASE f.proposal # Nil /\ f.proposal \in QuorumHashes(f.precommits)
    <3>1. TryCommit(f) = [eng |-> done, out |-> {}, commits |-> {c}]
      BY <2>8 DEF TryCommit, Output, done
    <3>2. f.proposal \in Blocks /\ VotersFor(f.precommits, f.proposal) \in Quorums
      BY <2>8 DEF QuorumHashes
    <3>3. c.signers \subseteq VotersIn(S, "Precommit", c.height, c.round, c.block)
      BY <2>6, <3>2, MarkersAssumption DEF Backed, VotersFor, VotersIn
    <3>4. c \in CommittedBlocks
      BY <2>3, <3>2, EngineTypes DEF CommittedBlocks, VotersFor
    <3>5. Certified(c, S)
      BY <3>2, <3>3 DEF Certified
    <3>6. TryCommit(f).eng = done /\ TryCommit(f).out = {} /\ TryCommit(f).commits = {c}
      BY SMT, <3>1
    <3>7. S \cup {} = S
      OBVIOUS
    <3>8. Sound(K, TryCommit(f), e, n, S)
      BY ZenonT(40), <3>6, <3>7, <2>4, <2>7 DEF Sound
    <3> QED
      BY Zenon, <2>1, <3>4, <3>5, <3>6, <3>8
  <2>9. CASE ~ (f.proposal # Nil /\ f.proposal \in QuorumHashes(f.precommits))
    <3>1. TryCommit(f) = Silent(f)
      BY Zenon, <2>9 DEF TryCommit
    <3>2. Sound(K, Silent(f), e, n, S)
      BY <2>3, <2>7, SilentSound
    <3>3. Silent(f).out = {} /\ Silent(f).commits = {}
      BY ZenonT(40) DEF Silent, Output
    <3> QED
      BY <2>1, <3>1, <3>2, <3>3
  <2> QED
    BY <2>8, <2>9
<1>2. CASE ~ CountsVote(e, m)
  <2>1. OnPrecommit(e, n, m) = Silent(e)
    BY <1>2 DEF OnPrecommit
  <2>2. Sound(K, Silent(e), e, n, S)
    BY SilentSound
  <2>3. Silent(e).out = {} /\ Silent(e).commits = {}
    BY Zenon DEF Silent, Output
  <2> QED
    BY <2>1, <2>2, <2>3
<1> QED
  BY Zenon, <1>1, <1>2

\* Casting a prevote, as part of a handler.
LEMMA CastPrevoteSound ==
  ASSUME NEW K \in SUBSET Honest, NEW S, NEW n \in Honest, NEW e \in Engines, NEW f \in Engines, NEW x \in Hashes,
         SafeVotes(K, S), SafeEngine(K, e, n, S), SameLock(e, f), f.round = e.round,
         ~ e.sentPrevote, f.sentPrevote, f.sentPrecommit = e.sentPrecommit,
         f.prevotes = [e.prevotes EXCEPT ![n] = x], f.precommits = e.precommits,
         \/ x = Nil
         \/ e.lockedValue \in {Nil, x}
         \/ \E p \in Nodes, vr \in Rounds :
              vr >= e.lockedRound /\ Proposal(e.height, e.round, x, p, vr) \in S
  PROVE  Sound(K, Output(f, {Vote("Prevote", e.height, e.round, x, n)}, {}), e, n, S)
<1> DEFINE vote == Vote("Prevote", e.height, e.round, x, n)
<1>1. vote \in VoteMsgs /\ vote.voter = n
  <2>1. vote \in VoteMsgs
    BY Zenon, EngineTypes, VoteType DEF VoteTypes, Honest
  <2> QED
    BY Zenon, <2>1 DEF Vote
<1>2. SafeVotes(K, S \cup {vote}) /\ SafeEngine(K, f, n, S \cup {vote})
  BY Zenon, PrevoteSafe
<1> HIDE DEF vote
<1>3. Sound(K, Output(f, {vote}, {}), e, n, S)
  BY Zenon, <1>1, <1>2 DEF Sound, Output, SameLock
<1> QED
  BY Zenon, <1>3 DEF vote

\* on_timeout: nil votes at most, or a fresh round.
LEMMA OnTimeoutSound ==
  ASSUME NEW K \in SUBSET Honest, NEW S, NEW n \in Honest, NEW e \in Engines,
         SafeVotes(K, S), SafeEngine(K, e, n, S),
         NEW step, step = "Precommit" => e.round < MaxRound
  PROVE  Sound(K, OnTimeout(e, n, step), e, n, S)
<1> USE EngineTypes
<1>1. CASE step = "Propose" /\ StepOrd[e.step] <= StepOrd["Propose"] /\ e.sentPrevote
  <2> DEFINE f == [e EXCEPT !.step = "Prevote"]
  <2>1. OnTimeout(e, n, step) = Silent(f)
    BY <1>1 DEF OnTimeout
  <2>2. /\ f \in Engines /\ SameLock(e, f) /\ f.round = e.round
        /\ f.prevotes = e.prevotes /\ f.precommits = e.precommits
        /\ f.sentPrevote = e.sentPrevote /\ f.sentPrecommit = e.sentPrecommit
    BY DEF Engines, SameLock, Steps
  <2> HIDE DEF f
  <2>3. SafeEngine(K, f, n, S)
    BY ZenonT(40), <2>2, CountSafe DEF SafeEngine, Backed, SameLock
  <2> QED
    BY <2>1, <2>2, <2>3, SilentSound DEF SameLock
<1>2. CASE step = "Propose" /\ StepOrd[e.step] <= StepOrd["Propose"] /\ ~ e.sentPrevote
  <2> DEFINE f == [[e EXCEPT !.step = "Prevote"] EXCEPT !.sentPrevote = TRUE, !.prevotes[n] = Nil]
  <2>1. OnTimeout(e, n, step) = Output(f, {Vote("Prevote", e.height, e.round, Nil, n)}, {})
    BY <1>2 DEF OnTimeout, MakeVote
  <2>2. /\ f \in Engines /\ SameLock(e, f) /\ f.round = e.round
        /\ f.prevotes = [e.prevotes EXCEPT ![n] = Nil] /\ f.precommits = e.precommits
        /\ f.sentPrevote /\ f.sentPrecommit = e.sentPrecommit
    BY Zenon DEF Engines, SameLock, Steps, VoteMaps, Hashes, Honest
  <2> HIDE DEF f
  <2>3. Nil \in Hashes
    BY DEF Hashes
  <2>4. Sound(K, Output(f, {Vote("Prevote", e.height, e.round, Nil, n)}, {}), e, n, S)
    BY ZenonT(40), <1>2, <2>2, <2>3, CastPrevoteSound
  <2> QED
    BY <2>1, <2>4
<1>3. CASE step = "Prevote" /\ StepOrd[e.step] <= StepOrd["Prevote"]
  <2> DEFINE f == [e EXCEPT !.step = "Precommit"]
  <2>1. OnTimeout(e, n, step) = SendPrecommit(f, n, Nil)
    BY <1>3 DEF OnTimeout
  <2>2. /\ f \in Engines /\ SameLock(e, f) /\ f.round = e.round
        /\ f.prevotes = e.prevotes /\ f.precommits = e.precommits
        /\ f.sentPrevote = e.sentPrevote /\ f.sentPrecommit = e.sentPrecommit
    BY Zenon DEF Engines, SameLock, Steps
  <2> HIDE DEF f
  <2>3. SafeEngine(K, f, n, S)
    BY Zenon, <2>2, CountSafe DEF SafeEngine, Backed, SameLock
  <2>4. Sound(K, SendPrecommit(f, n, Nil), f, n, S)
    BY ZenonT(40), <2>2, <2>3, SendPrecommitSound DEF Hashes
  <2> QED
    BY <2>1, <2>2, <2>4 DEF Sound, SameLock
<1>4. CASE step = "Precommit"
  <2> DEFINE f == StartRound(e, e.round + 1)
  <2>1. OnTimeout(e, n, step) = Silent(f)
    BY Zenon, <1>4 DEF OnTimeout
  <2>2. /\ f \in Engines /\ SameLock(e, f) /\ f.round > e.round
        /\ f.prevotes = EmptyVotes /\ f.precommits = EmptyVotes
    <3>1. e.round + 1 \in Rounds /\ EmptyVotes \in VoteMaps /\ Nil \in Hashes
      BY SMT, <1>4, BoundsAssumption DEF Rounds, EmptyVotes, VoteMaps, Hashes
    <3>2. e.round + 1 > e.round
      BY SMT
    <3>3. f \in Engines
      BY Zenon, <3>1 DEF StartRound, AdvanceRound, Engines, Steps
    <3>4. f.round = e.round + 1 /\ f.prevotes = EmptyVotes /\ f.precommits = EmptyVotes
      BY DEF StartRound, AdvanceRound, Engines
    <3>5. SameLock(e, f)
      BY Zenon DEF StartRound, AdvanceRound, Engines, SameLock
    <3> QED
      BY Zenon, <3>2, <3>3, <3>4, <3>5
  <2> HIDE DEF f
  <2>3. SafeEngine(K, f, n, S)
    BY Zenon, <2>2, MoveSafe
  <2> QED
    BY <2>1, <2>2, <2>3, SilentSound DEF SameLock
<1>5. CASE /\ ~ (step = "Propose" /\ StepOrd[e.step] <= StepOrd["Propose"])
           /\ ~ (step = "Prevote" /\ StepOrd[e.step] <= StepOrd["Prevote"])
           /\ step # "Precommit"
  <2>1. OnTimeout(e, n, step) = Silent(e)
    BY Zenon, <1>5 DEF OnTimeout
  <2> QED
    BY <2>1, SilentSound
<1> QED
  BY ZenonT(40), <1>1, <1>2, <1>3, <1>4, <1>5

\* on_proposal: a prevote the lock allows, then try_advance_from_prevotes.
LEMMA OnProposalSound ==
  ASSUME NEW K \in SUBSET Honest, NEW S, NEW n \in Honest, NEW e \in Engines,
         SafeVotes(K, S), SafeEngine(K, e, n, S),
         NEW m \in ProposalMsgs, m \in S
  PROVE  Sound(K, OnProposal(e, n, m), e, n, S)
<1> USE EngineTypes
<1> DEFINE j == IF m.round > e.round THEN AdvanceRound(e, m.round) ELSE e
           x == DeterminePrevote(j, m.block, m.validRound)
           f == [j EXCEPT !.proposal = m.block, !.step = "Prevote"]
           g == [f EXCEPT !.sentPrevote = TRUE, !.prevotes[n] = x]
           next == TryAdvance(g, n)
<1>1. CASE ~ AcceptsProposal(e, m)
  <2>1. OnProposal(e, n, m) = Silent(e)
    BY Zenon, <1>1 DEF OnProposal
  <2> QED
    BY <2>1, SilentSound
<1>2. CASE AcceptsProposal(e, m)
  <2>1. /\ m.round \in Rounds /\ m.round \in Int /\ m.block \in Blocks /\ m.proposer \in Nodes
        /\ m.validRound \in Rounds \cup {NoRound} /\ m.validRound \in Int
        /\ m = Proposal(m.height, m.round, m.block, m.proposer, m.validRound)
    BY SMT, BoundsAssumption DEF ProposalMsgs, Proposal, Rounds, NoRound
  <2>2. m.height = e.height /\ m.round >= e.round
    BY Zenon, <1>2 DEF AcceptsProposal
  <2>3. j \in Engines /\ SameLock(e, j) /\ j.round = m.round /\ SafeEngine(K, j, n, S)
    <3>1. CASE m.round > e.round
      <4>1. EmptyVotes \in VoteMaps /\ Nil \in Hashes
        BY DEF EmptyVotes, VoteMaps, Hashes
      <4>2. j \in Engines
        BY Zenon, <2>1, <3>1, <4>1 DEF AdvanceRound, Engines, Steps
      <4>3. j.round = m.round /\ j.prevotes = EmptyVotes /\ j.precommits = EmptyVotes
        BY <3>1 DEF AdvanceRound, Engines
      <4>4. SameLock(e, j)
        BY Zenon, <3>1 DEF AdvanceRound, Engines, SameLock
      <4> HIDE DEF j
      <4> QED
        BY Zenon, <3>1, <4>2, <4>3, <4>4, MoveSafe
    <3>2. CASE ~ (m.round > e.round)
      BY SMT, <2>1, <2>2, <3>2 DEF SameLock
    <3> QED
      BY Zenon, <3>1, <3>2
  <2> HIDE DEF j
  <2>4. x \in Hashes /\ (x = Nil \/ x = m.block)
    BY <2>1 DEF DeterminePrevote, Hashes
  <2>5. \/ x = Nil
        \/ j.lockedValue \in {Nil, x}
        \/ \E p \in Nodes, vr \in Rounds :
             vr >= j.lockedRound /\ Proposal(j.height, j.round, x, p, vr) \in S
    <3>1. CASE m.validRound \in Rounds /\ m.validRound >= j.lockedRound /\ x = m.block
      <4>1. Proposal(j.height, j.round, x, m.proposer, m.validRound) \in S
        BY <2>1, <2>2, <2>3, <3>1 DEF SameLock
      <4> QED
        BY Zenon, <2>1, <3>1, <4>1
    <3> QED
      BY Zenon, <2>1, <3>1 DEF DeterminePrevote
  <2> HIDE DEF x
  <2>6. /\ f \in Engines /\ SameLock(j, f) /\ f.round = j.round
        /\ f.prevotes = j.prevotes /\ f.precommits = j.precommits
        /\ f.sentPrevote = j.sentPrevote /\ f.sentPrecommit = j.sentPrecommit
    BY Zenon, <2>1, <2>3 DEF Engines, SameLock, Steps, Hashes
  <2> HIDE DEF f
  <2>7. SafeEngine(K, f, n, S) /\ f.height = e.height
    <3>1. Backed(f, S)
      BY Zenon, <2>3, <2>6 DEF SafeEngine, Backed, SameLock
    <3> QED
      BY <2>3, <2>6, <3>1, CountSafe DEF SameLock
  <2>8. CASE j.sentPrevote
    <3>1. OnProposal(e, n, m) = Silent(f)
      BY <1>2, <2>8 DEF OnProposal, j, f
    <3> QED
      BY <2>6, <2>7, <3>1, SilentSound
  <2>9. CASE ~ j.sentPrevote
    <3> DEFINE vote == Vote("Prevote", f.height, f.round, x, n)
    <3>1. /\ g \in Engines /\ SameLock(f, g) /\ g.round = f.round /\ g.sentPrevote
          /\ g.sentPrecommit = f.sentPrecommit /\ g.precommits = f.precommits
          /\ g.prevotes = [f.prevotes EXCEPT ![n] = x]
      BY Zenon, <2>4, <2>6 DEF Engines, SameLock, VoteMaps, Honest
    <3>2. OnProposal(e, n, m) = Output(next.eng, {MakeVote("Prevote", g, n, x)} \cup next.out, {})
      BY Zenon, <1>2, <2>9 DEF OnProposal, j, f, x
    <3> HIDE DEF g
    <3>3. MakeVote("Prevote", g, n, x) = vote
      BY Zenon, <3>1 DEF MakeVote, SameLock
    <3>4. \/ x = Nil
          \/ f.lockedValue \in {Nil, x}
          \/ \E p \in Nodes, vr \in Rounds :
               vr >= f.lockedRound /\ Proposal(f.height, f.round, x, p, vr) \in S
      BY <2>5, <2>6 DEF SameLock
    <3>5. Sound(K, Output(g, {vote}, {}), f, n, S)
      BY Zenon, <2>4, <2>6, <2>7, <2>9, <3>1, <3>4, CastPrevoteSound
    <3> HIDE DEF vote
    <3>6. /\ vote \in VoteMsgs /\ vote.voter = n
          /\ SafeVotes(K, S \cup {vote}) /\ SafeEngine(K, g, n, S \cup {vote})
      BY Zenon, <3>5 DEF Sound, Output
    <3>7. Sound(K, next, g, n, S \cup {vote})
      BY Zenon, <3>1, <3>6, TryAdvanceSound
    <3> HIDE DEF next
    <3>8. (S \cup {vote}) \cup next.out = S \cup ({vote} \cup next.out)
      OBVIOUS
    <3>9. Sound(K, Output(next.eng, {vote} \cup next.out, {}), g, n, S)
      BY Zenon, <3>6, <3>7, <3>8 DEF Sound, Output
    <3> QED
      BY Zenon, <2>7, <3>1, <3>2, <3>3, <3>9 DEF Sound, SameLock
  <2> QED
    BY Zenon, <2>8, <2>9
<1> QED
  BY ZenonT(40), <1>1, <1>2

-----------------------------------------------------------------------------
(***************************************************************************)
(* The nodes together.                                                     *)
(***************************************************************************)

\* Proposals carry no votes, so sending them leaves the votes safe.
LEMMA ProposalsSafe ==
  ASSUME NEW K \in SUBSET Honest, NEW S, NEW T, S \subseteq T, SafeVotes(K, S),
         \A t \in VoteTypes, h \in Heights, r \in Rounds, x \in Hashes, v \in Nodes :
           Vote(t, h, r, x, v) \in T => Vote(t, h, r, x, v) \in S
  PROVE  SafeVotes(K, T)
<1> USE DEF VoteTypes, Hashes, Honest
<1>1. UniqueVotes(K, T)
  BY SMT DEF SafeVotes, UniqueVotes
<1>2. JustifiedPrecommits(T)
  BY Zenon, PolkaMonotone DEF SafeVotes, JustifiedPrecommits
<1>3. ASSUME QuorumsMeet(K) PROVE LockRule(K, T)
  <2> SUFFICES ASSUME NEW h \in Heights, NEW r1 \in Rounds, NEW r \in Rounds,
                      NEW b1 \in Blocks, NEW b \in Blocks, NEW v \in K, r1 < r, b1 # b,
                      Vote("Precommit", h, r1, b1, v) \in T, Vote("Prevote", h, r, b, v) \in T
               PROVE  Excuse(K, T, h, r1, b1, r, b)
    BY DEF LockRule
  <2>1. Excuse(K, S, h, r1, b1, r, b)
    BY <1>3 DEF SafeVotes, LockRule
  <2> QED
    BY <2>1, ExcuseMonotone
<1> QED
  BY Zenon, <1>1, <1>2, <1>3 DEF SafeVotes

\* Sending proposals besides leaves the sender's engine safe.
LEMMA StepSafe ==
  ASSUME NEW K \in SUBSET Honest, NEW S, NEW T, NEW n \in Honest, NEW f \in Engines,
         SafeVotes(K, S), SafeEngine(K, f, n, S), S \subseteq T, T \ S \subseteq ProposalMsgs
  PROVE  SafeVotes(K, T) /\ SafeEngine(K, f, n, T)
<1>1. ASSUME NEW t \in VoteTypes, NEW h, NEW r, NEW x, NEW v, Vote(t, h, r, x, v) \in T
      PROVE  Vote(t, h, r, x, v) \in S
  BY SMT, <1>1 DEF ProposalMsgs, Vote, VoteTypes
<1>2. SafeVotes(K, T)
  BY <1>1, ProposalsSafe
<1>3. SafeEngine(K, f, n, T)
  BY Zenon, <1>1, FrameSafe
<1> QED
  BY Zenon, <1>2, <1>3

\* The messages of one node, or proposals, leave the other engines safe.
LEMMA OthersSafe ==
  ASSUME NEW K \in SUBSET Honest, NEW S, NEW T, NEW n \in Honest, NEW k \in Honest, k # n, NEW e \in Engines,
         SafeEngine(K, e, k, S), S \subseteq T,
         \A m \in T \ S : m \in ProposalMsgs \/ m.voter = n
  PROVE  SafeEngine(K, e, k, T)
<1>1. ASSUME NEW t \in VoteTypes, NEW h \in Heights, NEW r \in Rounds, NEW x \in Hashes,
             Vote(t, h, r, x, k) \in T
      PROVE  Vote(t, h, r, x, k) \in S
  BY <1>1 DEF ProposalMsgs, Vote, VoteTypes
<1> QED
  BY ZenonT(40), <1>1, FrameSafe

\* The engine of a new height.
LEMMA NewHeightType ==
  ASSUME NEW height \in Heights
  PROVE  LET f == StartNewHeight(height)
         IN  /\ f \in Engines
             /\ f.height = height /\ f.round = 0 /\ f.step = "Propose"
             /\ f.lockedValue = Nil /\ f.lockedRound = NoRound
             /\ f.prevotes = EmptyVotes /\ f.precommits = EmptyVotes
<1>1. /\ 0 \in Rounds /\ EmptyVotes \in VoteMaps /\ Nil \in Hashes
  BY BoundsAssumption DEF Rounds, EmptyVotes, VoteMaps, Hashes
<1> QED
  BY Zenon, <1>1 DEF StartNewHeight, StartRound, AdvanceRound, NewState, Engines, Steps

\* It is safe if the votes of a node that keeps its state belong to earlier heights.
LEMMA NewHeightSafe ==
  ASSUME NEW K \in SUBSET Honest, NEW S, NEW n \in Honest, NEW height \in Heights,
         n \in K =>
           \A t \in VoteTypes, h \in Heights, r \in Rounds, x \in Hashes :
             Vote(t, h, r, x, n) \in S => h < height
  PROVE  SafeEngine(K, StartNewHeight(height), n, S)
<1> DEFINE f == StartNewHeight(height)
<1>2. /\ f.height = height /\ f.round = 0
      /\ f.lockedValue = Nil /\ f.lockedRound = NoRound
      /\ f.prevotes = EmptyVotes /\ f.precommits = EmptyVotes
  BY NewHeightType
<1> HIDE DEF f
<1>4. Backed(f, S)
  BY <1>2 DEF Backed, EmptyVotes
<1>5. n \in K => VotesBehind(f, n, S)
  BY <1>2 DEF VotesBehind, Behind, VoteTypes
<1>6. LockIsPolka(f, S)
  BY SMT, <1>2 DEF LockIsPolka, NoRound
<1>7. n \in K => LockCovers(f, n, S)
  <2>1. ASSUME n \in K, NEW r \in Rounds, NEW b \in Blocks, Vote("Precommit", height, r, b, n) \in S
        PROVE  FALSE
    <3>1. height < height
      BY ZenonT(40), <2>1 DEF VoteTypes, Hashes
    <3> QED
      BY <3>1, BoundsAssumption DEF Heights
  <2> QED
    BY <1>2, <2>1 DEF LockCovers
<1> QED
  BY Zenon, <1>4, <1>5, <1>6, <1>7 DEF SafeEngine, f

\* The messages of the model, by kind.
LEMMA SentTypes ==
  ASSUME TypeOK
  PROVE  /\ Sent \subseteq Messages
         /\ \A m \in Sent : m.type = "Proposal" => m \in ProposalMsgs
         /\ \A m \in Sent : m.type \in VoteTypes => m \in VoteMsgs
  BY DEF TypeOK, Sent, FaultyMsgs, Messages, ProposalMsgs, VoteMsgs, VoteTypes

\* What a node proposes on entering a round.
LEMMA ProposalsType ==
  ASSUME NEW e \in Engines, NEW n \in Nodes, NEW B \in SUBSET Blocks,
         NEW p \in Proposals(e, n, B)
  PROVE  p \subseteq ProposalMsgs
<1>1. ASSUME NEW b \in Blocks PROVE ProduceBlock(e, n, b) \in ProposalMsgs
  BY DEF ProduceBlock, Proposal, ProposalMsgs, Engines
<1> QED
  BY <1>1 DEF Proposals

\* create_block returns a block.
LEMMA NewBlocksType == NewBlocks \subseteq Blocks
  BY ZenonT(40) DEF NewBlocks

\* check_and_record and prune keep the collector within what was sent.
LEMMA RecordSafe ==
  ASSUME NEW S, NEW c \in Collectors, SafeCollector(c, S), NEW m \in VoteMsgs, m \in S
  PROVE  CheckAndRecord(c, m) \in Collectors /\ SafeCollector(CheckAndRecord(c, m), S)
<1> DEFINE old == {v \in c.votes : SameKey(v, m)}
           new == {DoubleSign(v, m) : v \in old \ {m}}
<1>0. m.height \in Int /\ c.minHeight \in Int
  BY SMT, VoteFields, BoundsAssumption DEF Heights, Collectors
<1>1. CASE m.height < c.minHeight
  <2>1. CheckAndRecord(c, m) = c
    BY SMT, <1>0, <1>1 DEF CheckAndRecord
  <2> QED
    BY <2>1
<1>2. CASE m.height >= c.minHeight /\ ~ (m.height < c.minHeight) /\ old = {}
  <2>1. CheckAndRecord(c, m) = [c EXCEPT !.votes = @ \cup {m}]
    BY <1>2 DEF CheckAndRecord
  <2> QED
    BY <2>1 DEF Collectors, SafeCollector
<1>3. CASE ~ (m.height < c.minHeight) /\ ~ (m.height >= c.minHeight /\ old = {})
  <2>1. CheckAndRecord(c, m) = [c EXCEPT !.evidence = @ \cup new]
    BY <1>3 DEF CheckAndRecord
  <2>2. new \subseteq [first : VoteMsgs, second : VoteMsgs]
    BY SMT DEF DoubleSign, Collectors
  <2>3. \A d \in new : /\ d.first \in S /\ d.second \in S
                       /\ SameKey(d.first, d.second) /\ d.first # d.second
    BY SMT DEF DoubleSign, SafeCollector
  <2> HIDE DEF new
  <2> QED
    BY <2>1, <2>2, <2>3 DEF Collectors, SafeCollector
<1> QED
  BY <1>1, <1>2, <1>3

\* prune only forgets votes.
LEMMA PruneSafe ==
  ASSUME NEW S, NEW c \in Collectors, SafeCollector(c, S), NEW h \in Heights
  PROVE  PruneFor(c, h) \in Collectors /\ SafeCollector(PruneFor(c, h), S)
<1> DEFINE k == IF h < EvidenceWindow THEN 0 ELSE h - EvidenceWindow
<1>1. k \in Nat
  BY SMT, BoundsAssumption, EvidenceAssumption DEF Heights
<1>2. PruneFor(c, h) = [c EXCEPT !.minHeight = k, !.votes = {v \in c.votes : v.height >= k}]
  BY DEF PruneFor, Prune, Collectors
<1> HIDE DEF k
<1> QED
  BY Zenon, <1>1, <1>2 DEF Collectors, SafeCollector

\* The votes an engine shows its collector were sent.
LEMMA ObserveSafe ==
  ASSUME NEW S, NEW e, NEW c \in Collectors, SafeCollector(c, S), NEW m \in VoteMsgs, m \in S
  PROVE  Observe(e, c, m) \in Collectors /\ SafeCollector(Observe(e, c, m), S)
  BY Zenon, RecordSafe DEF Observe

\* Certificates and collectors keep their messages as more are sent.
LEMMA MonotoneSafe ==
  ASSUME NEW S, NEW T, S \subseteq T
  PROVE  /\ \A c : Certified(c, S) => Certified(c, T)
         /\ \A c : SafeCollector(c, S) => SafeCollector(c, T)
  BY Zenon DEF Certified, VotersIn, SafeCollector

-----------------------------------------------------------------------------
\* The initial state: nobody has voted.
LEMMA InitSafe ==
  ASSUME NEW K \in SUBSET Honest, Init
  PROVE  SafetyInv(K)
<1>1. StartHeight \in Heights
  BY SMT, BoundsAssumption DEF Heights
<1>2. \A n \in Honest : eng[n] = StartNewHeight(StartHeight)
  BY DEF Init
<1>3. ASSUME NEW n \in Honest, NEW S,
             \A t \in VoteTypes, h \in Heights, r \in Rounds, x \in Hashes :
               Vote(t, h, r, x, n) \notin S
      PROVE  SafeEngine(K, eng[n], n, S)
  BY Zenon, <1>1, <1>2, <1>3, NewHeightSafe
<1>4. \A n \in Honest : eng[n] \in Engines
  BY <1>1, <1>2, NewHeightType
<1>5. msgs \subseteq ProposalMsgs
  <2> DEFINE first == CHOOSE b \in Blocks : TRUE
  <2>1. {first} \subseteq Blocks
    BY MarkersAssumption
  <2>2. msgs = UNION {UNION Proposals(eng[n], n, {first}) : n \in Honest}
    BY DEF Init
  <2> HIDE DEF first
  <2>3. ASSUME NEW n \in Honest, NEW p \in Proposals(eng[n], n, {first})
        PROVE  p \subseteq ProposalMsgs
    BY <1>4, <2>1, ProposalsType DEF Honest
  <2>4. \A n \in Honest : UNION Proposals(eng[n], n, {first}) \subseteq ProposalMsgs
    BY Zenon, <2>3
  <2> QED
    BY <2>2, <2>4
<1>6. NewCollector \in Collectors /\ SafeCollector(NewCollector, Sent)
  BY Zenon DEF NewCollector, Collectors, SafeCollector
<1>7. \A n \in Honest : collector[n] \in Collectors /\ SafeCollector(collector[n], Sent)
  BY Zenon, <1>1, <1>6, PruneSafe DEF Init
<1>8. TypeOK
  <2>1. eng \in [Honest -> Engines]
    BY <1>4 DEF Init
  <2>2. collector \in [Honest -> Collectors]
    BY Zenon, <1>7 DEF Init
  <2> QED
    BY <1>5, <2>1, <2>2 DEF Init, TypeOK, Messages
<1>9. \A t \in VoteTypes, h \in Heights, r \in Rounds, x \in Hashes, v \in Honest :
        Vote(t, h, r, x, v) \notin Sent
  BY <1>5 DEF Sent, FaultyMsgs, Vote, VoteTypes, ProposalMsgs, VoteMsgs, Honest
<1>10. SafeVotes(K, Sent)
  BY <1>9 DEF SafeVotes, UniqueVotes, JustifiedPrecommits, LockRule, VoteTypes, Hashes
<1>11. \A m \in msgs : m.type \in VoteTypes => m.voter \in Honest
  BY <1>5 DEF ProposalMsgs, VoteTypes
<1>12. \A n \in Honest : committed[n] = {}
  BY DEF Init
<1> QED
  BY Zenon, <1>3, <1>7, <1>8, <1>9, <1>10, <1>11, <1>12 DEF SafetyInv

\* A step of one node, put together: the node moves to engine f, broadcasts the
\* votes O and the proposals D.
NodeStep(K, n, f, O, D) ==
  /\ f \in Engines
  /\ O \subseteq VoteMsgs
  /\ \A m \in O : m.voter = n
  /\ D \subseteq ProposalMsgs
  /\ SafeVotes(K, Sent \cup O)
  /\ SafeEngine(K, f, n, Sent \cup O)
  /\ eng' = [eng EXCEPT ![n] = f]
  /\ msgs' = (msgs \cup O) \cup D
  /\ timer' \in [Honest -> {"none", "Propose", "Prevote", "Precommit"}]
  /\ collector' \in [Honest -> Collectors]
  /\ \A k \in Honest : SafeCollector(collector'[k], Sent)
  /\ committed' \in [Honest -> SUBSET CommittedBlocks]
  /\ \A k \in Honest : \A c \in committed'[k] : Certified(c, Sent)

\* A turn of one node that is sound for it keeps the invariant.
LEMMA NodeStepSafe ==
  ASSUME NEW K \in SUBSET Honest, SafetyInv(K), NEW n \in Honest, NEW f, NEW O, NEW D, NodeStep(K, n, f, O, D)
  PROVE  SafetyInv(K)'
<1> USE DEF NodeStep
<1>1. TypeOK'
  BY DEF SafetyInv, TypeOK, Messages
<1>2. /\ Sent' = (Sent \cup O) \cup D
      /\ Sent \cup O \subseteq Sent' /\ Sent' \ (Sent \cup O) \subseteq ProposalMsgs
      /\ Sent \subseteq Sent'
  BY Zenon DEF Sent
<1>3. eng \in [Honest -> Engines] /\ \A k \in Honest : SafeEngine(K, eng[k], k, Sent)
  BY DEF SafetyInv, TypeOK
<1>4. /\ SafeVotes(K, Sent')
      /\ \A k \in Honest : SafeEngine(K, eng'[k], k, Sent')
  <2>1. SafeVotes(K, Sent') /\ SafeEngine(K, f, n, Sent')
    BY Zenon, <1>2, StepSafe
  <2>2. ASSUME NEW k \in Honest, k # n
        PROVE  SafeEngine(K, eng[k], k, Sent')
    <3>1. \A m \in Sent' \ Sent : m \in ProposalMsgs \/ m.voter = n
      BY <1>2
    <3> QED
      BY Zenon, <1>2, <1>3, <2>2, <3>1, OthersSafe
  <2> QED
    BY Zenon, <1>3, <2>1, <2>2
<1>5. \A m \in msgs' : m.type \in VoteTypes => m.voter \in Honest
  BY Zenon DEF SafetyInv, ProposalMsgs, VoteTypes
<1>6. \A k \in Honest : /\ SafeCollector(collector'[k], Sent')
                        /\ \A c \in committed'[k] : Certified(c, Sent')
  BY Zenon, <1>2, MonotoneSafe
<1> QED
  BY Zenon, <1>1, <1>4, <1>5, <1>6 DEF SafetyInv

\* Every step keeps the invariant.
LEMMA NextSafe ==
  ASSUME NEW K \in SUBSET Honest, SafetyInv(K), [Next]_vars
  PROVE  SafetyInv(K)'
<1> DEFINE Timers == {"none", "Propose", "Prevote", "Precommit"}
<1>1. /\ TypeOK
      /\ SafeVotes(K, Sent)
      /\ eng \in [Honest -> Engines]
      /\ timer \in [Honest -> Timers]
      /\ collector \in [Honest -> Collectors]
      /\ committed \in [Honest -> SUBSET CommittedBlocks]
      /\ \A n \in Honest : /\ eng[n] \in Engines
                           /\ collector[n] \in Collectors
                           /\ timer[n] \in Timers
                           /\ SafeEngine(K, eng[n], n, Sent)
                           /\ SafeCollector(collector[n], Sent)
                           /\ \A c \in committed[n] : Certified(c, Sent)
  BY DEF SafetyInv, TypeOK
<1>2. Honest \subseteq Nodes
  BY DEF Honest
<1>3. ASSUME NEW n \in Honest, NEW m \in Sent, m.height <= MaxHeight, ReceiveProposal(n, m)
      PROVE  SafetyInv(K)'
  <2> DEFINE r == OnProposal(eng[n], n, m)
             step == IF StepOrd[r.eng.step] >= StepOrd["Prevote"] THEN "Prevote" ELSE timer[n]
  <2>1. m \in ProposalMsgs
    BY Zenon, <1>1, <1>3, SentTypes DEF ReceiveProposal
  <2>2. Sound(K, r, eng[n], n, Sent)
    BY Zenon, <1>1, <2>1, OnProposalSound
  <2>3. Continue(n, r, step) /\ UNCHANGED collector
    BY ZenonT(40), <1>3 DEF ReceiveProposal
  <2>4. step \in Timers
    BY <1>1
  <2> HIDE DEF r, step
  <2>5. /\ eng' = [eng EXCEPT ![n] = r.eng]
        /\ msgs' = (msgs \cup r.out) \cup {}
        /\ timer' \in [Honest -> Timers]
        /\ committed' = committed
    BY Zenon, <1>1, <2>3, <2>4 DEF Continue
  <2>6. NodeStep(K, n, r.eng, r.out, {})
    BY Zenon, <1>1, <2>2, <2>3, <2>5 DEF Sound, NodeStep
  <2> QED
    BY <2>6, NodeStepSafe
<1>4. ASSUME NEW n \in Honest, NEW m \in Sent, m.height <= MaxHeight, ReceivePrevote(n, m)
      PROVE  SafetyInv(K)'
  <2> DEFINE r == OnPrevote(eng[n], n, m)
             step == IF StepOrd[r.eng.step] >= StepOrd["Precommit"] THEN "Precommit" ELSE timer[n]
             c == Observe(eng[n], collector[n], m)
  <2>1. m \in VoteMsgs /\ m.type = "Prevote"
    BY Zenon, <1>1, <1>4, SentTypes DEF ReceivePrevote, VoteTypes
  <2>2. Sound(K, r, eng[n], n, Sent)
    BY ZenonT(40), <1>1, <2>1, OnPrevoteSound
  <2>3. Continue(n, r, step) /\ collector' = [collector EXCEPT ![n] = c]
    BY <1>4 DEF ReceivePrevote
  <2>4. step \in Timers
    BY Zenon, <1>1
  <2>5. c \in Collectors /\ SafeCollector(c, Sent)
    BY Zenon, <1>1, <2>1, ObserveSafe
  <2> HIDE DEF r, step, c
  <2>6. /\ collector' \in [Honest -> Collectors]
        /\ \A k \in Honest : SafeCollector(collector'[k], Sent)
    BY <1>1, <2>3, <2>5
  <2>7. /\ eng' = [eng EXCEPT ![n] = r.eng]
        /\ msgs' = (msgs \cup r.out) \cup {}
        /\ timer' \in [Honest -> Timers]
        /\ committed' = committed
    BY Zenon, <1>1, <2>3, <2>4 DEF Continue
  <2>8. NodeStep(K, n, r.eng, r.out, {})
    BY ZenonT(40), <1>1, <2>2, <2>6, <2>7 DEF Sound, NodeStep
  <2> QED
    BY <2>8, NodeStepSafe
<1>5. ASSUME NEW n \in Honest, NEW m \in Sent, m.height <= MaxHeight, ReceivePrecommit(n, m)
      PROVE  SafetyInv(K)'
  <2> DEFINE r == OnPrecommit(eng[n], n, m)
             c == Observe(eng[n], collector[n], m)
  <2>1. m \in VoteMsgs /\ m.type = "Precommit"
    BY <1>1, <1>5, SentTypes DEF ReceivePrecommit, VoteTypes
  <2>2. Sound(K, r, eng[n], n, Sent)
    BY Zenon, <1>1, <2>1, OnPrecommitSound
  <2>3. Continue(n, r, timer[n]) /\ collector' = [collector EXCEPT ![n] = c]
    BY Zenon, <1>5 DEF ReceivePrecommit
  <2>4. c \in Collectors /\ SafeCollector(c, Sent)
    BY Zenon, <1>1, <2>1, ObserveSafe
  <2> HIDE DEF r, c
  <2>5. /\ collector' \in [Honest -> Collectors]
        /\ \A k \in Honest : SafeCollector(collector'[k], Sent)
    BY <1>1, <2>3, <2>4
  <2>6. /\ eng' = [eng EXCEPT ![n] = r.eng]
        /\ msgs' = (msgs \cup r.out) \cup {}
        /\ timer' \in [Honest -> Timers]
        /\ committed' = committed
    BY ZenonT(40), <1>1, <2>3 DEF Continue
  <2>7. NodeStep(K, n, r.eng, r.out, {})
    BY Zenon, <1>1, <2>2, <2>5, <2>6 DEF Sound, NodeStep
  <2> QED
    BY <2>7, NodeStepSafe
<1>6. ASSUME NEW n \in Honest, NEW m \in Sent, m.height <= MaxHeight, CommitAndAdvance(n, m)
      PROVE  SafetyInv(K)'
  <2> DEFINE r == OnPrecommit(eng[n], n, m)
             next == StartNewHeight(eng[n].height + 1)
             c == PruneFor(Observe(eng[n], collector[n], m), next.height)
  <2>1. m \in VoteMsgs /\ m.type = "Precommit"
    BY Zenon, <1>1, <1>6, SentTypes DEF CommitAndAdvance, VoteTypes
  <2>2. \A k \in r.commits : k \in CommittedBlocks /\ Certified(k, Sent)
    BY Zenon, <1>1, <2>1, OnPrecommitSound
  <2>3. eng[n].height + 1 \in Heights
    <3>1. r.commits # {}
      BY Zenon, <1>6 DEF CommitAndAdvance
    <3>2. CountsVote(eng[n], m)
      BY <3>1 DEF OnPrecommit, Silent, Output
    <3>3. eng[n].height <= MaxHeight /\ eng[n].height \in Heights
      BY Zenon, <1>1, <1>6, <3>2, EngineTypes DEF CountsVote
    <3> QED
      BY SMT, <3>3, BoundsAssumption DEF Heights
  <2>4. next \in Engines /\ next.height = eng[n].height + 1
    BY Zenon, <2>3, NewHeightType
  <2>5. SafeEngine(K, next, n, Sent)
    <3>1. ASSUME n \in K,
                 NEW t \in VoteTypes, NEW h \in Heights, NEW k \in Rounds, NEW x \in Hashes,
                 Vote(t, h, k, x, n) \in Sent
          PROVE  h < eng[n].height + 1
      <4>1. VotesBehind(eng[n], n, Sent)
        BY Zenon, <1>1, <3>1 DEF SafeEngine
      <4>2. h < eng[n].height \/ h = eng[n].height
        BY <3>1, <4>1 DEF VotesBehind, Behind, VoteTypes
      <4>3. h \in Int
        BY SMT, BoundsAssumption DEF Heights
      <4>4. eng[n] \in Engines
        BY <1>1
      <4>5. eng[n].height \in Int
        BY <4>4, EngineTypes
      <4> QED
        BY SMT, <4>2, <4>3, <4>5
    <3> QED
      BY Zenon, <2>3, <3>1, NewHeightSafe
  <2>6. c \in Collectors /\ SafeCollector(c, Sent)
    BY Zenon, <1>1, <2>1, <2>3, <2>4, ObserveSafe, PruneSafe
  <2>7. PICK p \in Proposals(next, n, NewBlocks) : msgs' = msgs \cup p
    BY Zenon, <1>6 DEF CommitAndAdvance
  <2>8. p \subseteq ProposalMsgs
    BY Zenon, <1>2, <2>4, ProposalsType, NewBlocksType
  <2>9. /\ committed' = [committed EXCEPT ![n] = @ \cup r.commits]
        /\ eng' = [eng EXCEPT ![n] = next]
        /\ collector' = [collector EXCEPT ![n] = c]
        /\ timer' = [timer EXCEPT ![n] = "Propose"]
    BY Zenon, <1>6 DEF CommitAndAdvance
  <2> HIDE DEF r, next, c
  <2>10. /\ committed' \in [Honest -> SUBSET CommittedBlocks]
         /\ \A k \in Honest : \A d \in committed'[k] : Certified(d, Sent)
    BY Zenon, <1>1, <2>2, <2>9
  <2>11. /\ collector' \in [Honest -> Collectors]
         /\ \A k \in Honest : SafeCollector(collector'[k], Sent)
    BY Zenon, <1>1, <2>6, <2>9
  <2>12. Sent \cup {} = Sent /\ msgs' = (msgs \cup {}) \cup p
    BY <2>7
  <2>13. timer' \in [Honest -> Timers]
    BY Zenon, <1>1, <2>9
  <2>14. NodeStep(K, n, next, {}, p)
    BY Zenon, <1>1, <2>4, <2>5, <2>8, <2>9, <2>10, <2>11, <2>12, <2>13 DEF NodeStep
  <2> QED
    BY <2>14, NodeStepSafe
<1>7. ASSUME NEW n \in Honest, CheckTimeouts(n)
      PROVE  SafetyInv(K)'
  <2> DEFINE r == OnTimeout(eng[n], n, timer[n])
             D == IF r.eng.step = "Propose" THEN Proposals(r.eng, n, NewBlocks) ELSE {{}}
             step == CASE r.eng.step = "Commit" -> "none"
                       [] r.eng.step = "NewRound" -> timer[n]
                       [] OTHER -> r.eng.step
  <2>1. Sound(K, r, eng[n], n, Sent)
    BY Zenon, <1>1, <1>7, OnTimeoutSound DEF CheckTimeouts
  <2>2. /\ eng' = [eng EXCEPT ![n] = r.eng]
        /\ timer' = [timer EXCEPT ![n] = step]
        /\ UNCHANGED <<collector, committed>>
    BY <1>7 DEF CheckTimeouts
  <2>3. PICK p \in D : msgs' = msgs \cup r.out \cup p
    BY <1>7 DEF CheckTimeouts
  <2> HIDE DEF r
  <2>4. r.eng \in Engines /\ r.eng.step \in Steps
    BY Zenon, <2>1 DEF Sound, Engines
  <2>5. p \subseteq ProposalMsgs
    BY Zenon, <1>2, <2>4, ProposalsType, NewBlocksType
  <2>6. step \in Timers
    BY <1>1, <2>4 DEF Steps
  <2> HIDE DEF step
  <2>7. timer' \in [Honest -> Timers]
    BY Zenon, <1>1, <2>2, <2>6
  <2>8. NodeStep(K, n, r.eng, r.out, p)
    BY ZenonT(40), <1>1, <2>1, <2>2, <2>3, <2>5, <2>7 DEF Sound, NodeStep
  <2> QED
    BY Zenon, <2>8, NodeStepSafe
<1>8. ASSUME UNCHANGED vars
      PROVE  SafetyInv(K)'
  BY Zenon, <1>8 DEF vars, SafetyInv, TypeOK, Sent
<1> QED
  BY <1>3, <1>4, <1>5, <1>6, <1>7, <1>8 DEF Next, Receive, Expire

-----------------------------------------------------------------------------
(***************************************************************************)
(* What the invariant says, whatever K is.                                 *)
(***************************************************************************)

\* The votes in msgs are votes of honest nodes.
LEMMA VotesOfMsgs ==
  ASSUME NEW K \in SUBSET Honest, SafetyInv(K), NEW m \in msgs, m.type \in VoteTypes
  PROVE  /\ m.voter \in Honest /\ m.height \in Heights /\ m.round \in Rounds
         /\ m.hash \in Hashes
         /\ Vote(m.type, m.height, m.round, m.hash, m.voter) \in Sent
<1>1. m \in Sent /\ TypeOK /\ m.voter \in Honest
  BY DEF Sent, SafetyInv
<1>2. m \in VoteMsgs
  BY Zenon, <1>1, SentTypes
<1> QED
  BY Zenon, <1>1, <1>2, VoteFields

\* Locks and precommits of blocks rest on a polka.
LEMMA PolkasBehind ==
  ASSUME NEW K \in SUBSET Honest, SafetyInv(K)
  PROVE  PolkaJustified
<1>1. \A n \in Honest : LockIsPolka(eng[n], Sent)
  BY DEF SafetyInv, SafeEngine
<1>2. ASSUME NEW m \in msgs, m.type = "Precommit", m.hash # Nil
      PROVE  Polka(Sent, m.height, m.round, m.hash)
  <2>1. m.type \in VoteTypes
    BY Zenon, <1>2 DEF VoteTypes
  <2>2. JustifiedPrecommits(Sent)
    BY Zenon DEF SafetyInv, SafeVotes
  <2> QED
    BY <1>2, <2>1, <2>2, VotesOfMsgs DEF JustifiedPrecommits, Hashes
<1> QED
  BY <1>1, <1>2 DEF PolkaJustified, LockIsPolka

\* Committed blocks come with a quorum of precommits that were sent.
LEMMA CommitsBehind ==
  ASSUME NEW K \in SUBSET Honest, SafetyInv(K)
  PROVE  CommitCertified
  BY Zenon DEF SafetyInv, Certified, CommitCertified

\* Two certificates of a round share a node of K, which precommitted once.
LEMMA OneCommit ==
  ASSUME NEW K \in SUBSET Honest, SafetyInv(K), QuorumsMeet(K)
  PROVE  RoundAgreement
<1> SUFFICES ASSUME NEW n1 \in Honest, NEW n2 \in Honest,
                    NEW c1 \in committed[n1], NEW c2 \in committed[n2],
                    c1.height = c2.height, c1.round = c2.round
             PROVE  c1.block = c2.block
  BY SMT DEF RoundAgreement
<1>1. c1 \in CommittedBlocks /\ c2 \in CommittedBlocks
  BY Zenon DEF SafetyInv, TypeOK
<1>2. Certified(c1, Sent) /\ Certified(c2, Sent)
  BY Zenon DEF SafetyInv
<1>3. PICK v \in K : v \in c1.signers /\ v \in c2.signers
  BY Zenon, <1>2 DEF QuorumsMeet, Certified
<1>4. /\ Vote("Precommit", c1.height, c1.round, c1.block, v) \in Sent
      /\ Vote("Precommit", c1.height, c1.round, c2.block, v) \in Sent
  BY Zenon, <1>2, <1>3 DEF Certified, VotersIn
<1>5. UniqueVotes(K, Sent)
  BY DEF SafetyInv, SafeVotes
<1> QED
  BY Zenon, <1>1, <1>4, <1>5 DEF UniqueVotes, CommittedBlocks, Hashes, VoteTypes

\* The heart of the matter.  Once a quorum has precommitted b1 in round r1, take
\* the first round, from r1 on, with a polka for another block: one of the nodes
\* behind b1 prevoted that block, and of the excuses it may have only a false
\* claim is left.
LEMMA ConflictLemma ==
  ASSUME NEW K \in SUBSET Honest, NEW S, SafeVotes(K, S), QuorumsMeet(K), NEW h \in Heights,
         NEW r1 \in Rounds, NEW b1 \in Blocks,
         VotersIn(S, "Precommit", h, r1, b1) \in Quorums,
         NEW r2 \in Rounds, NEW b2 \in Blocks, r1 <= r2, b2 # b1, Polka(S, h, r2, b2)
  PROVE  \E r \in Rounds, vr \in Rounds, b \in Blocks, p \in Nodes :
           /\ Proposal(h, r, b, p, vr) \in S
           /\ r > r1 /\ r <= r2 /\ vr >= r1
           /\ vr >= r \/ ~ Polka(S, h, vr, b)
<1> DEFINE X == {r \in Rounds : /\ r >= r1 /\ r <= r2
                                /\ \E b \in Blocks : b # b1 /\ Polka(S, h, r, b)}
<1>1. Rounds \subseteq Nat
  BY SMT, BoundsAssumption DEF Rounds
<1>2. r2 \in X /\ X \subseteq Nat
  <2>1. r2 >= r1 /\ r2 <= r2
    BY SMT, <1>1
  <2>2. \E b \in Blocks : b # b1 /\ Polka(S, h, r2, b)
    OBVIOUS
  <2>3. X \subseteq Nat
    BY Zenon, <1>1
  <2> QED
    BY <2>1, <2>2, <2>3
<1>3. PICK q \in X : \A y \in X : q <= y
  BY Zenon, <1>2, LeastNatural
<1>4. PICK b \in Blocks : b # b1 /\ Polka(S, h, q, b)
  BY Zenon, <1>3
<1>5. PICK v \in K : /\ Vote("Precommit", h, r1, b1, v) \in S
                     /\ Vote("Prevote", h, q, b, v) \in S
  BY Zenon, <1>4 DEF QuorumsMeet, Polka, VotersIn
<1>6. q # r1
  <2>1. Polka(S, h, r1, b1)
    BY Zenon, <1>5 DEF SafeVotes, JustifiedPrecommits
  <2>2. UniqueVotes(K, S) /\ QuorumsMeet(K)
    BY DEF SafeVotes
  <2> QED
    BY SMT, <1>4, <2>1, <2>2, OnePolka
<1>7. q > r1 /\ q <= r2 /\ q \in Rounds
  BY <1>1, <1>3, <1>6
<1>8. Excuse(K, S, h, r1, b1, q, b)
  BY Zenon, <1>1, <1>4, <1>5, <1>7 DEF SafeVotes, LockRule
<1>9. ASSUME NEW k \in Rounds, k >= r1, k < q PROVE ~ Polka(S, h, k, b)
  <2>1. k \notin X
    BY SMT, <1>1, <1>3, <1>9
  <2> QED
    BY SMT, <1>1, <1>4, <1>7, <1>9, <2>1
<1>10. CASE \E p \in Nodes, vr \in Rounds : vr >= r1 /\ Proposal(h, q, b, p, vr) \in S
  BY <1>1, <1>7, <1>9, <1>10
<1>11. CASE \E k \in Rounds : k >= r1 /\ k < q /\ Polka(S, h, k, b)
  BY Zenon, <1>9, <1>11
<1>12. CASE \E P \in Quorums :
              /\ P \subseteq VotersIn(S, "Prevote", h, q, b)
              /\ \A u \in P \cap K : Vote("Precommit", h, r1, b1, u) \notin S
  BY Zenon, <1>12 DEF QuorumsMeet, VotersIn
<1> QED
  BY Zenon, <1>8, <1>10, <1>11, <1>12 DEF Excuse

\* Commits that differ are explained by such a claim.
LEMMA ConflictsExplained ==
  ASSUME NEW K \in SUBSET Honest, SafetyInv(K), QuorumsMeet(K)
  PROVE  ConflictNeedsFalseClaim
<1> SUFFICES ASSUME NEW n1 \in Honest, NEW n2 \in Honest,
                    NEW c1 \in committed[n1], NEW c2 \in committed[n2],
                    c1.height = c2.height, c1.round <= c2.round, c1.block # c2.block
             PROVE  \E m \in Sent :
                      /\ FalseClaim(m)
                      /\ m.height = c1.height
                      /\ m.round > c1.round /\ m.round <= c2.round
                      /\ m.validRound >= c1.round
  BY Zenon DEF ConflictNeedsFalseClaim
<1>1. /\ c1.height \in Heights /\ c1.round \in Rounds /\ c1.block \in Blocks
      /\ c2.height \in Heights /\ c2.round \in Rounds /\ c2.block \in Blocks
  BY SMT DEF SafetyInv, TypeOK, CommittedBlocks
<1>2. QuorumsMeet(K) /\ SafeVotes(K, Sent)
  BY DEF SafetyInv
<1>3. \A c \in {c1, c2} : VotersIn(Sent, "Precommit", c.height, c.round, c.block) \in Quorums
  <2>1. ASSUME NEW c, Certified(c, Sent)
        PROVE  VotersIn(Sent, "Precommit", c.height, c.round, c.block) \in Quorums
    <3>1. VotersIn(Sent, "Precommit", c.height, c.round, c.block) \in SUBSET Nodes
      BY Zenon DEF VotersIn
    <3> QED
      BY Zenon, <2>1, <3>1, QuorumMonotone DEF Certified
  <2> QED
    BY Zenon, <2>1 DEF SafetyInv
<1>4. Polka(Sent, c1.height, c2.round, c2.block)
  <2>1. PICK v \in K : Vote("Precommit", c1.height, c2.round, c2.block, v) \in Sent
    BY <1>2, <1>3 DEF QuorumsMeet, VotersIn
  <2> QED
    BY Zenon, <1>1, <1>2, <2>1 DEF SafeVotes, JustifiedPrecommits
<1>5. PICK r \in Rounds, vr \in Rounds, b \in Blocks, p \in Nodes :
         /\ Proposal(c1.height, r, b, p, vr) \in Sent
         /\ r > c1.round /\ r <= c2.round /\ vr >= c1.round
         /\ vr >= r \/ ~ Polka(Sent, c1.height, vr, b)
  <2> DEFINE S == Sent
             h == c1.height
             r1 == c1.round
             b1 == c1.block
             r2 == c2.round
             b2 == c2.block
  <2>1. /\ VotersIn(S, "Precommit", h, r1, b1) \in Quorums
        /\ r1 <= r2 /\ b2 # b1
    BY <1>3
  <2>2. /\ h \in Heights /\ r1 \in Rounds /\ b1 \in Blocks /\ r2 \in Rounds /\ b2 \in Blocks
        /\ SafeVotes(K, S) /\ QuorumsMeet(K) /\ Polka(S, h, r2, b2)
    BY <1>1, <1>2, <1>4
  <2> HIDE DEF S, h, r1, b1, r2, b2
  <2>3. \E r \in Rounds, vr \in Rounds, b \in Blocks, p \in Nodes :
           /\ Proposal(h, r, b, p, vr) \in S
           /\ r > r1 /\ r <= r2 /\ vr >= r1
           /\ vr >= r \/ ~ Polka(S, h, vr, b)
    BY ONLY K \in SUBSET Honest, <2>1, <2>2, ConflictLemma
  <2> QED
    BY ONLY <2>3 DEF S, h, r1, b1, r2, b2
<1>6. vr # NoRound
  BY SMT, BoundsAssumption DEF Rounds, NoRound
<1> DEFINE m == Proposal(c1.height, r, b, p, vr)
<1>7. /\ m.type = "Proposal" /\ m.height = c1.height /\ m.round = r
      /\ m.block = b /\ m.validRound = vr
  BY DEF Proposal
<1> QED
  BY Zenon, <1>5, <1>6, <1>7 DEF FalseClaim

-----------------------------------------------------------------------------
(***************************************************************************)
(* BftConsensus, where every honest node keeps its state.  First what      *)
(* holds whatever the stake of the faulty nodes.                           *)
(***************************************************************************)

\* The invariant holds in every reachable state.
THEOREM SafetyInvariant == Spec => []SafetyInv(Honest)
<1>1. Honest \in SUBSET Honest
  OBVIOUS
<1>2. Init => SafetyInv(Honest)
  BY <1>1, InitSafe
<1>3. SafetyInv(Honest) /\ [Next]_vars => SafetyInv(Honest)'
  BY <1>1, NextSafe
<1> QED
  BY <1>2, <1>3, PTL DEF Spec

\* The engines, timers, committed blocks, messages and collectors have the types
\* of the structs they model.
THEOREM TypeCorrect == Spec => []TypeOK
<1>1. SafetyInv(Honest) => TypeOK
  BY Zenon DEF SafetyInv
<1> QED
  BY <1>1, SafetyInvariant, PTL

\* The sent flags are enough: no node votes twice in a round.
THEOREM NeverEquivocates == Spec => []NoEquivocation
<1>1. SafetyInv(Honest) => NoEquivocation
  <2> SUFFICES ASSUME SafetyInv(Honest), NEW m1 \in msgs, NEW m2 \in msgs,
                      m1.type \in {"Prevote", "Precommit"}, m2.type = m1.type, SameKey(m1, m2)
               PROVE  m1.hash = m2.hash
    BY DEF NoEquivocation
  <2>1. m1.type \in VoteTypes /\ m2.type \in VoteTypes
    BY Zenon DEF VoteTypes
  <2>2. UniqueVotes(Honest, Sent)
    BY ZenonT(40) DEF SafetyInv, SafeVotes
  <2> QED
    BY <2>1, <2>2, VotesOfMsgs DEF SameKey, UniqueVotes
<1> QED
  BY <1>1, SafetyInvariant, PTL

\* Locks and precommits of blocks rest on a polka.
THEOREM PolkaBehindLocks == Spec => []PolkaJustified
<1>1. SafetyInv(Honest) => PolkaJustified
  BY PolkasBehind
<1> QED
  BY <1>1, SafetyInvariant, PTL

\* Committed blocks come with a quorum of real precommits.
THEOREM CommitsCertified == Spec => []CommitCertified
<1>1. SafetyInv(Honest) => CommitCertified
  BY CommitsBehind
<1> QED
  BY <1>1, SafetyInvariant, PTL

\* The collector accuses faulty nodes only.
THEOREM EvidenceIsSound == Spec => []EvidenceSound
<1>1. SafetyInv(Honest) => EvidenceSound
  <2> SUFFICES ASSUME SafetyInv(Honest), NEW n \in Honest, NEW d \in collector[n].evidence,
                      d.first.voter \notin Faulty
               PROVE  FALSE
    BY Zenon DEF EvidenceSound
  <2>1. /\ d.first \in Sent /\ d.second \in Sent
        /\ SameKey(d.first, d.second) /\ d.first # d.second
    BY DEF SafetyInv, SafeCollector
  <2>2. d.first \in VoteMsgs /\ d.second \in VoteMsgs
    BY SMT DEF SafetyInv, TypeOK, Collectors
  <2>3. d.first.voter \in Honest
    BY <2>2, VoteFields DEF Honest
  <2>4. UniqueVotes(Honest, Sent)
    BY Zenon DEF SafetyInv, SafeVotes
  <2>5. d.first.hash = d.second.hash
    BY SMT, <2>1, <2>2, <2>3, <2>4, VoteFields DEF SameKey, UniqueVotes
  <2> QED
    BY Zenon, <2>1, <2>2, <2>5, VoteFields DEF SameKey
<1> QED
  BY <1>1, SafetyInvariant, PTL

-----------------------------------------------------------------------------
(***************************************************************************)
(* What holds when less than a third of the stake is faulty.               *)
(***************************************************************************)

\* A node's lock is never older than its precommits.
THEOREM LocksCover ==
  ASSUME FewFaulty
  PROVE  Spec => []LockCoversPrecommits
<1>1. SafetyInv(Honest) => LockCoversPrecommits
  <2> SUFFICES ASSUME SafetyInv(Honest), NEW m \in msgs, m.type = "Precommit", m.hash # Nil,
                      m.height = eng[m.voter].height
               PROVE  \/ m.round < eng[m.voter].lockedRound
                      \/ m.round = eng[m.voter].lockedRound /\ m.hash = eng[m.voter].lockedValue
    BY DEF LockCoversPrecommits
  <2>1. m.type \in VoteTypes
    BY Zenon DEF VoteTypes
  <2>2. /\ m.voter \in Honest /\ m.round \in Rounds /\ m.hash \in Blocks
        /\ Vote("Precommit", eng[m.voter].height, m.round, m.hash, m.voter) \in Sent
    BY <2>1, VotesOfMsgs DEF Hashes
  <2>3. LockCovers(eng[m.voter], m.voter, Sent)
    BY Zenon, <2>2, QuorumIntersection DEF SafetyInv, SafeEngine
  <2> QED
    BY Zenon, <2>2, <2>3 DEF LockCovers
<1> QED
  BY <1>1, SafetyInvariant, PTL

\* Nodes that commit in one round of a height commit one block.
THEOREM AgreementInRound ==
  ASSUME FewFaulty
  PROVE  Spec => []RoundAgreement
<1>1. SafetyInv(Honest) => RoundAgreement
  BY OneCommit, QuorumIntersection
<1> QED
  BY <1>1, SafetyInvariant, PTL

\* Agreement across rounds, up to proposals that claim a polka that never was.
THEOREM AgreementUpToClaims ==
  ASSUME FewFaulty
  PROVE  Spec => []ConflictNeedsFalseClaim
<1>1. SafetyInv(Honest) => ConflictNeedsFalseClaim
  BY ConflictsExplained, QuorumIntersection
<1> QED
  BY <1>1, SafetyInvariant, PTL
=============================================================================
