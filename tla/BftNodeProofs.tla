---------------------------- MODULE BftNodeProofs ----------------------------
(***************************************************************************)
(* A node over time.  Positions and sent flags only move forward and a     *)
(* timeout is always armed; a restart costs the node its memory and        *)
(* nothing else; a vote that an engine overwrites is evidence.             *)
(***************************************************************************)
EXTENDS BftSafetyProofs, BftRestart

\* How a leaf is tried: Zenon for a second, which is cheap, then the SMT solver
\* and Zenon in turn, and the SMT solver once more with more time.
USE ZenonT(1), SMT, Zenon, Z3T(20)

\* Engine f follows e within the height: a later round, or the same round with
\* the sent flags kept.
Follows(e, f) ==
  /\ f.height = e.height
  /\ \/ f.round > e.round
     \/ /\ f.round = e.round
        /\ e.sentPrevote => f.sentPrevote
        /\ e.sentPrecommit => f.sentPrecommit

\* Sending a precommit keeps round and step.
LEMMA SendPrecommitFollows ==
  ASSUME NEW e \in Engines, NEW n \in Honest, NEW x
  PROVE  LET f == SendPrecommit(e, n, x).eng
         IN  Follows(e, f) /\ f.round = e.round /\ f.step = e.step
             /\ f.sentPrevote = e.sentPrevote
  BY DEF SendPrecommit, Silent, Output, Follows, Engines

\* try_advance_from_prevotes keeps the round and moves the step to Precommit at
\* most.
LEMMA TryAdvanceFollows ==
  ASSUME NEW e \in Engines, NEW n \in Honest
  PROVE  LET f == TryAdvance(e, n).eng
         IN  /\ Follows(e, f) /\ f.round = e.round
             /\ f.sentPrevote = e.sentPrevote
             /\ f.step \in {e.step, "Precommit"}
<1> DEFINE polka == QuorumHashes(e.prevotes)
           b == CHOOSE h \in polka : TRUE
           lock == [[e EXCEPT !.step = "Precommit"]
                      EXCEPT !.validValue = b, !.validRound = e.round,
                             !.lockedValue = b, !.lockedRound = e.round]
           nil == [e EXCEPT !.step = "Precommit"]
<1>1. CASE polka # {}
  <2>1. TryAdvance(e, n) = SendPrecommit(lock, n, b)
    BY <1>1 DEF TryAdvance
  <2>2. b \in Hashes
    BY <1>1 DEF QuorumHashes, Hashes
  <2> HIDE DEF b
  <2>3. /\ lock \in Engines /\ lock.height = e.height /\ lock.round = e.round
        /\ lock.step = "Precommit"
        /\ lock.sentPrevote = e.sentPrevote /\ lock.sentPrecommit = e.sentPrecommit
    BY Zenon, <2>2 DEF Engines, Steps
  <2> HIDE DEF lock
  <2> QED
    BY SMT, <2>1, <2>3, SendPrecommitFollows, EngineTypes DEF Follows
<1>2. CASE /\ polka = {}
           /\ Voted(e.prevotes) \in Quorums
           /\ StepOrd[e.step] < StepOrd["Precommit"]
  <2>1. TryAdvance(e, n) = SendPrecommit(nil, n, Nil)
    BY <1>2 DEF TryAdvance
  <2>2. /\ nil \in Engines /\ nil.height = e.height /\ nil.round = e.round
        /\ nil.step = "Precommit"
        /\ nil.sentPrevote = e.sentPrevote /\ nil.sentPrecommit = e.sentPrecommit
    BY DEF Engines, Steps
  <2> HIDE DEF nil
  <2> QED
    BY <2>1, <2>2, SendPrecommitFollows, EngineTypes DEF Follows
<1>3. CASE /\ polka = {}
           /\ ~ (Voted(e.prevotes) \in Quorums /\ StepOrd[e.step] < StepOrd["Precommit"])
  <2>1. TryAdvance(e, n).eng = e
    BY <1>3 DEF TryAdvance, Silent, Output
  <2> QED
    BY <2>1 DEF Follows
<1> QED
  BY <1>1, <1>2, <1>3

\* on_prevote does no more than that.
LEMMA OnPrevoteFollows ==
  ASSUME NEW e \in Engines, NEW n \in Honest, NEW m \in VoteMsgs
  PROVE  LET f == OnPrevote(e, n, m).eng
         IN  Follows(e, f) /\ f.step \in {e.step, "Precommit"}
<1>1. CASE CountsVote(e, m)
  <2> DEFINE g == [e EXCEPT !.prevotes[m.voter] = m.hash]
  <2>1. OnPrevote(e, n, m) = TryAdvance(g, n)
    BY <1>1 DEF OnPrevote
  <2>2. m.voter \in Nodes /\ m.hash \in Hashes
    BY VoteFields
  <2>3. /\ g \in Engines /\ g.height = e.height /\ g.round = e.round /\ g.step = e.step
        /\ g.sentPrevote = e.sentPrevote /\ g.sentPrecommit = e.sentPrecommit
    BY <2>2 DEF Engines, VoteMaps
  <2> HIDE DEF g
  <2> QED
    BY <2>1, <2>3, TryAdvanceFollows, EngineTypes DEF Follows
<1>2. CASE ~ CountsVote(e, m)
  BY <1>2 DEF OnPrevote, Silent, Output, Follows
<1> QED
  BY <1>1, <1>2

\* on_precommit leaves the step alone unless it commits.
LEMMA OnPrecommitFollows ==
  ASSUME NEW e \in Engines, NEW n \in Honest, NEW m \in VoteMsgs
  PROVE  LET r == OnPrecommit(e, n, m)
         IN  Follows(e, r.eng) /\ (r.commits = {} => r.eng.step = e.step)
<1>1. CASE CountsVote(e, m)
  <2> DEFINE g == [e EXCEPT !.precommits[m.voter] = m.hash]
  <2>1. OnPrecommit(e, n, m) = TryCommit(g)
    BY <1>1 DEF OnPrecommit
  <2>2. m.voter \in Nodes /\ m.hash \in Hashes
    BY VoteFields
  <2>3. /\ g \in Engines /\ g.height = e.height /\ g.round = e.round /\ g.step = e.step
        /\ g.sentPrevote = e.sentPrevote /\ g.sentPrecommit = e.sentPrecommit
    BY <2>2 DEF Engines, VoteMaps
  <2> HIDE DEF g
  <2>4. CASE g.proposal # Nil /\ g.proposal \in QuorumHashes(g.precommits)
    <3>1. /\ TryCommit(g).eng = [g EXCEPT !.step = "Commit"]
          /\ TryCommit(g).commits # {}
      BY Zenon, <2>4 DEF TryCommit, Output
    <3> QED
      BY <2>1, <2>3, <3>1 DEF Follows, Engines
  <2>5. CASE ~ (g.proposal # Nil /\ g.proposal \in QuorumHashes(g.precommits))
    <3>1. TryCommit(g).eng = g
      BY <2>5 DEF TryCommit, Silent, Output
    <3> QED
      BY <2>1, <2>3, <3>1 DEF Follows
  <2> QED
    BY <2>4, <2>5
<1>2. CASE ~ CountsVote(e, m)
  BY <1>2 DEF OnPrecommit, Silent, Output, Follows
<1> QED
  BY <1>1, <1>2

\* on_timeout never ends in Commit.
LEMMA OnTimeoutFollows ==
  ASSUME NEW e \in Engines, NEW n \in Honest, NEW step
  PROVE  LET f == OnTimeout(e, n, step).eng
         IN  Follows(e, f) /\ f.step \in {e.step, "Propose", "Prevote", "Precommit"}
<1>1. CASE step = "Propose" /\ StepOrd[e.step] <= StepOrd["Propose"]
  BY <1>1 DEF OnTimeout, Silent, Output, Follows, Engines
<1>2. CASE step = "Prevote" /\ StepOrd[e.step] <= StepOrd["Prevote"]
  <2> DEFINE g == [e EXCEPT !.step = "Precommit"]
  <2>1. OnTimeout(e, n, step) = SendPrecommit(g, n, Nil)
    BY <1>2 DEF OnTimeout
  <2>2. /\ g \in Engines /\ g.height = e.height /\ g.round = e.round /\ g.step = "Precommit"
        /\ g.sentPrevote = e.sentPrevote /\ g.sentPrecommit = e.sentPrecommit
    BY DEF Engines, Steps
  <2> HIDE DEF g
  <2> QED
    BY <2>1, <2>2, SendPrecommitFollows, EngineTypes DEF Follows
<1>3. CASE step = "Precommit"
  <2>1. OnTimeout(e, n, step).eng = StartRound(e, e.round + 1)
    BY <1>3 DEF OnTimeout, Silent, Output
  <2>2. /\ StartRound(e, e.round + 1).height = e.height
        /\ StartRound(e, e.round + 1).round = e.round + 1
        /\ StartRound(e, e.round + 1).step = "Propose"
    BY DEF StartRound, AdvanceRound, Engines
  <2> QED
    BY SMT, <2>1, <2>2, EngineTypes DEF Follows
<1>4. CASE /\ ~ (step = "Propose" /\ StepOrd[e.step] <= StepOrd["Propose"])
           /\ ~ (step = "Prevote" /\ StepOrd[e.step] <= StepOrd["Prevote"])
           /\ step # "Precommit"
  <2>1. OnTimeout(e, n, step).eng = e
    BY <1>4 DEF OnTimeout, Silent, Output
  <2> QED
    BY <2>1 DEF Follows
<1> QED
  BY <1>1, <1>2, <1>3, <1>4

\* An accepted proposal leaves the engine in Prevote or Precommit; a dropped one
\* changes nothing.
LEMMA OnProposalFollows ==
  ASSUME NEW e \in Engines, NEW n \in Honest, NEW m \in ProposalMsgs
  PROVE  LET f == OnProposal(e, n, m).eng
         IN  Follows(e, f) /\ (f = e \/ f.step \in {"Prevote", "Precommit"})
<1> USE EngineTypes
<1> DEFINE j == IF m.round > e.round THEN AdvanceRound(e, m.round) ELSE e
           x == DeterminePrevote(j, m.block, m.validRound)
           f == [j EXCEPT !.proposal = m.block, !.step = "Prevote"]
           g == [f EXCEPT !.sentPrevote = TRUE, !.prevotes[n] = x]
<1>1. CASE ~ AcceptsProposal(e, m)
  <2>1. OnProposal(e, n, m).eng = e
    BY <1>1 DEF OnProposal, Silent, Output
  <2> QED
    BY <2>1 DEF Follows
<1>2. CASE AcceptsProposal(e, m)
  <2>1. m.round \in Rounds /\ m.block \in Blocks
    BY DEF ProposalMsgs
  <2>2. /\ j \in Engines /\ j.height = e.height
        /\ \/ j.round > e.round
           \/ /\ j.round = e.round
              /\ j.sentPrevote = e.sentPrevote /\ j.sentPrecommit = e.sentPrecommit
    <3>1. EmptyVotes \in VoteMaps /\ Nil \in Hashes
      BY DEF EmptyVotes, VoteMaps, Hashes
    <3> QED
      BY Zenon, <2>1, <3>1 DEF AdvanceRound, Engines, Steps
  <2>3. x \in Hashes
    BY <2>1 DEF DeterminePrevote, Hashes
  <2> HIDE DEF j, x
  <2>4. /\ f \in Engines /\ f.height = j.height /\ f.round = j.round /\ f.step = "Prevote"
        /\ f.sentPrevote = j.sentPrevote /\ f.sentPrecommit = j.sentPrecommit
    BY Zenon, <2>1, <2>2 DEF Engines, Steps, Hashes
  <2>5. CASE j.sentPrevote
    <3>1. OnProposal(e, n, m).eng = f
      BY <1>2, <2>5 DEF OnProposal, Silent, Output, j
    <3> QED
      BY <2>2, <2>4, <3>1 DEF Follows
  <2>6. CASE ~ j.sentPrevote
    <3>1. OnProposal(e, n, m).eng = TryAdvance(g, n).eng
      BY <1>2, <2>6 DEF OnProposal, Output, j, x
    <3> HIDE DEF f
    <3>2. /\ g \in Engines /\ g.height = f.height /\ g.round = f.round /\ g.step = f.step
          /\ g.sentPrevote /\ g.sentPrecommit = f.sentPrecommit
      BY Zenon, <2>3, <2>4 DEF Engines, VoteMaps, Honest
    <3> HIDE DEF g
    <3>3. /\ Follows(g, TryAdvance(g, n).eng) /\ TryAdvance(g, n).eng.round = g.round
          /\ TryAdvance(g, n).eng.step \in {"Prevote", "Precommit"}
      BY <2>4, <3>2, TryAdvanceFollows
    <3> QED
      BY <2>2, <2>4, <3>1, <3>2, <3>3 DEF Follows
  <2> QED
    BY <2>5, <2>6
<1> QED
  BY <1>1, <1>2

-----------------------------------------------------------------------------
\* TimerArmed is inductive once Commit is known to be a passing step: the turn
\* that reaches it starts the next height.
TimerInv == TypeOK /\ TimerArmed /\ \A n \in Honest : eng[n].step # "Commit"

\* What one turn of the loop of node n does to its engine and its timer.
Turn(n) ==
  /\ \E f : eng' = [eng EXCEPT ![n] = f] /\ f.step # "Commit"
            /\ (f.height = eng[n].height + 1 \/ Follows(eng[n], f))
            /\ \E t : /\ timer' = [timer EXCEPT ![n] = t]
                      /\ t \in {"Propose", "Prevote", "Precommit"}
                      /\ StepOrd[t] <= StepOrd[f.step]

\* Every handled message is such a turn.
LEMMA ReceiveTurn ==
  ASSUME TimerInv, NEW n \in Honest, NEW m \in Messages, Receive(n, m)
  PROVE  Turn(n)
<1> DEFINE e == eng[n]
<1>0. /\ e \in Engines /\ e.step # "Commit" /\ e.step \in Steps
      /\ timer[n] \in {"Propose", "Prevote", "Precommit"}
      /\ StepOrd[timer[n]] <= StepOrd[e.step]
  BY DEF TimerInv, TypeOK, TimerArmed, Engines
<1>1. ASSUME ReceiveProposal(n, m)
      PROVE  Turn(n)
  <2> DEFINE f == OnProposal(e, n, m).eng
             t == IF StepOrd[f.step] >= StepOrd["Prevote"] THEN "Prevote" ELSE timer[n]
  <2>1. m \in ProposalMsgs
    BY <1>1 DEF ReceiveProposal, Messages, ProposalMsgs, VoteMsgs
  <2>2. Follows(e, f) /\ (f = e \/ f.step \in {"Prevote", "Precommit"})
    BY <1>0, <2>1, OnProposalFollows
  <2>3. eng' = [eng EXCEPT ![n] = f] /\ timer' = [timer EXCEPT ![n] = t]
    BY <1>1 DEF ReceiveProposal, Continue
  <2>4. /\ t \in {"Propose", "Prevote", "Precommit"} /\ StepOrd[t] <= StepOrd[f.step]
        /\ f.step # "Commit"
    BY <1>0, <2>2 DEF StepOrd, Steps
  <2> HIDE DEF f, t
  <2> QED
    BY Zenon, <2>2, <2>3, <2>4 DEF Turn
<1>2. ASSUME ReceivePrevote(n, m)
      PROVE  Turn(n)
  <2> DEFINE f == OnPrevote(e, n, m).eng
             t == IF StepOrd[f.step] >= StepOrd["Precommit"] THEN "Precommit" ELSE timer[n]
  <2>1. m \in VoteMsgs
    BY <1>2 DEF ReceivePrevote, Messages, ProposalMsgs, VoteMsgs
  <2>2. Follows(e, f) /\ f.step \in {e.step, "Precommit"}
    BY <1>0, <2>1, OnPrevoteFollows
  <2>3. eng' = [eng EXCEPT ![n] = f] /\ timer' = [timer EXCEPT ![n] = t]
    BY <1>2 DEF ReceivePrevote, Continue
  <2>4. /\ t \in {"Propose", "Prevote", "Precommit"} /\ StepOrd[t] <= StepOrd[f.step]
        /\ f.step # "Commit"
    BY <1>0, <2>2 DEF StepOrd, Steps
  <2> HIDE DEF f, t
  <2> QED
    BY Zenon, <2>2, <2>3, <2>4 DEF Turn
<1>3. ASSUME ReceivePrecommit(n, m)
      PROVE  Turn(n)
  <2> DEFINE r == OnPrecommit(e, n, m)
             f == r.eng
  <2>1. m \in VoteMsgs
    BY <1>3 DEF ReceivePrecommit, Messages, ProposalMsgs, VoteMsgs
  <2>2. /\ r.commits = {} /\ eng' = [eng EXCEPT ![n] = f]
        /\ timer' = [timer EXCEPT ![n] = timer[n]]
    BY <1>3 DEF ReceivePrecommit, Continue
  <2>3. Follows(e, f) /\ f.step = e.step
    BY <1>0, <2>1, <2>2, OnPrecommitFollows
  <2> HIDE DEF r, f
  <2> QED
    BY Zenon, <1>0, <2>2, <2>3 DEF Turn
<1>4. ASSUME CommitAndAdvance(n, m)
      PROVE  Turn(n)
  <2> DEFINE f == StartNewHeight(e.height + 1)
  <2>1. f.height = e.height + 1 /\ f.step = "Propose"
    BY DEF StartNewHeight, StartRound, AdvanceRound, NewState
  <2>2. eng' = [eng EXCEPT ![n] = f] /\ timer' = [timer EXCEPT ![n] = "Propose"]
    BY <1>4 DEF CommitAndAdvance
  <2> HIDE DEF f
  <2>3. StepOrd["Propose"] <= StepOrd[f.step] /\ f.step # "Commit"
    BY <2>1 DEF StepOrd
  <2> QED
    BY Zenon, <2>1, <2>2, <2>3 DEF Turn
<1> QED
  BY <1>1, <1>2, <1>3, <1>4 DEF Receive

\* Every expired timeout is such a turn.
LEMMA ExpireTurn ==
  ASSUME TimerInv, NEW n \in Honest, Expire(n)
  PROVE  Turn(n)
<1> DEFINE e == eng[n]
           f == OnTimeout(e, n, timer[n]).eng
           t == CASE f.step = "Commit" -> "none"
                  [] f.step = "NewRound" -> timer[n]
                  [] OTHER -> f.step
<1>1. /\ e \in Engines /\ e.step # "Commit" /\ e.step \in Steps
      /\ timer[n] \in {"Propose", "Prevote", "Precommit"}
      /\ StepOrd[timer[n]] <= StepOrd[e.step]
  BY DEF TimerInv, TypeOK, TimerArmed, Engines
<1>2. eng' = [eng EXCEPT ![n] = f] /\ timer' = [timer EXCEPT ![n] = t]
  BY DEF Expire, CheckTimeouts
<1>3. Follows(e, f) /\ f.step \in {e.step, "Propose", "Prevote", "Precommit"}
  BY <1>1, OnTimeoutFollows
<1> HIDE DEF f
<1>4. e.step # "NewRound"
  BY <1>1 DEF StepOrd, Steps
<1>5. f.step \in {"Propose", "Prevote", "Precommit"}
  BY <1>1, <1>3, <1>4 DEF Steps
<1>6. t = f.step
  BY <1>5
<1>7. StepOrd[t] <= StepOrd[f.step]
  BY <1>5, <1>6 DEF StepOrd
<1> HIDE DEF t
<1> QED
  BY Zenon, <1>2, <1>3, <1>5, <1>6, <1>7 DEF Turn

\* Every step of the system is a turn of some honest node.
LEMMA NextTurn ==
  ASSUME TimerInv, Next
  PROVE  \E n \in Honest : Turn(n)
<1>1. ASSUME NEW n \in Honest, NEW m \in Sent, Receive(n, m)
      PROVE  Turn(n)
  <2>1. m \in Messages
    BY SentTypes DEF TimerInv, TypeOK
  <2> QED
    BY <1>1, <2>1, ReceiveTurn
<1> QED
  BY <1>1, ExpireTurn DEF Next

\* The turns of the loop keep a timeout armed: the inductive step of TimerArmed.
LEMMA TimerStep ==
  ASSUME TimerInv, TypeOK', [Next]_vars
  PROVE  TimerInv'
<1>1. CASE Next
  <2>1. PICK n \in Honest : Turn(n)
    BY <1>1, NextTurn
  <2>2. PICK f, t :
          /\ eng' = [eng EXCEPT ![n] = f] /\ f.step # "Commit"
          /\ timer' = [timer EXCEPT ![n] = t]
          /\ t \in {"Propose", "Prevote", "Precommit"}
          /\ StepOrd[t] <= StepOrd[f.step]
    BY Zenon, <2>1 DEF Turn
  <2>3. \A k \in Honest :
          /\ eng'[k] = IF k = n THEN f ELSE eng[k]
          /\ timer'[k] = IF k = n THEN t ELSE timer[k]
    BY <2>2 DEF TimerInv, TypeOK
  <2> QED
    BY SMT, <2>2, <2>3 DEF TimerInv, TimerArmed
<1>2. CASE UNCHANGED vars
  BY <1>2 DEF TimerInv, TimerArmed, vars
<1> QED
  BY <1>1, <1>2

\* The timer invariant holds in every reachable state.
THEOREM TimerInvariant == Spec => []TimerInv
<1>1. Init => TimerArmed /\ \A n \in Honest : eng[n].step # "Commit"
  <2>1. StartHeight \in Heights
    BY BoundsAssumption DEF Heights
  <2>2. Init => \A n \in Honest : timer[n] = "Propose" /\ eng[n].step = "Propose"
    BY SMT, <2>1, NewHeightType DEF Init
  <2> QED
    BY SMT, <2>2 DEF TimerArmed, StepOrd
<1>2. Init /\ TypeOK => TimerInv
  BY <1>1 DEF TimerInv
<1>3. TimerInv /\ TypeOK' /\ [Next]_vars => TimerInv'
  BY TimerStep
<1> QED
  BY <1>2, <1>3, TypeCorrect, PTL DEF Spec

\* In every reachable state each honest node's loop has a timeout armed, for a
\* step its engine has reached: check_timeouts can always move it on.
THEOREM AlwaysArmed == Spec => []TimerArmed
<1>1. TimerInv => TimerArmed
  BY DEF TimerInv
<1> QED
  BY <1>1, TimerInvariant, PTL

\* No turn of the loop takes a node back to an earlier height or round or
\* forgets, within a round, that it has voted.
THEOREM NeverGoesBack == Spec => Progresses
<1> DEFINE Onward == \A n \in Honest :
       LET e == eng[n]
           f == eng'[n]
       IN  \/ f.height = e.height + 1
           \/ f.height = e.height /\ f.round > e.round
           \/ /\ f.height = e.height /\ f.round = e.round
              /\ e.sentPrevote => f.sentPrevote
              /\ e.sentPrecommit => f.sentPrecommit
<1>1. ASSUME TimerInv, [Next]_vars
      PROVE  [Onward]_vars
  <2>1. CASE Next
    <3>1. PICK n \in Honest : Turn(n)
      BY <1>1, <2>1, NextTurn
    <3>2. PICK f :
            /\ eng' = [eng EXCEPT ![n] = f]
            /\ f.height = eng[n].height + 1 \/ Follows(eng[n], f)
      BY Zenon, <3>1 DEF Turn
    <3>3. \A k \in Honest : eng'[k] = IF k = n THEN f ELSE eng[k]
      BY <1>1, <3>2 DEF TimerInv, TypeOK
    <3> QED
      BY <3>2, <3>3 DEF Follows
  <2>2. CASE UNCHANGED vars
    BY <2>2
  <2> QED
    BY <1>1, <2>1, <2>2
<1>2. TimerInv /\ [Next]_vars => [Onward]_vars
  BY <1>1
<1> QED
  BY <1>2, TimerInvariant, PTL DEF Spec, Progresses

-----------------------------------------------------------------------------
(***************************************************************************)
(* Restarts (BftRestart).  A node that restarts forgets its lock and what  *)
(* it has voted: the invariant is SafetyInv for the nodes that do not.     *)
(***************************************************************************)
Steady == Honest \ Restarting

\* A new engine knows no vote and holds no lock, which is all the invariant asks
\* of a node outside K; what the node sent before stays justified.
LEMMA RestartSafe ==
  ASSUME NEW K \in SUBSET Honest, SafetyInv(K), NEW n \in Honest, n \notin K, Restart(n)
  PROVE  SafetyInv(K)'
<1> DEFINE f == StartNewHeight(StartHeight)
           c == PruneFor(NewCollector, StartHeight)
<1>1. StartHeight \in Heights /\ n \in Nodes
  BY SMT, BoundsAssumption DEF Heights, Honest
<1>2. f \in Engines
  BY <1>1, NewHeightType
<1>3. SafeEngine(K, f, n, Sent)
  BY <1>1, NewHeightSafe
<1>4. c \in Collectors /\ SafeCollector(c, Sent)
  <2>1. NewCollector \in Collectors /\ SafeCollector(NewCollector, Sent)
    BY Zenon DEF NewCollector, Collectors, SafeCollector
  <2> QED
    BY <1>1, <2>1, PruneSafe
<1>5. /\ eng \in [Honest -> Engines]
      /\ timer \in [Honest -> {"none", "Propose", "Prevote", "Precommit"}]
      /\ collector \in [Honest -> Collectors]
      /\ committed \in [Honest -> SUBSET CommittedBlocks]
      /\ SafeVotes(K, Sent)
      /\ \A k \in Honest : /\ SafeCollector(collector[k], Sent)
                           /\ \A d \in committed[k] : Certified(d, Sent)
  BY DEF SafetyInv, TypeOK
<1>6. /\ eng' = [eng EXCEPT ![n] = f]
      /\ collector' = [collector EXCEPT ![n] = c]
      /\ timer' = [timer EXCEPT ![n] = "Propose"]
      /\ committed' = committed
  BY DEF Restart
<1>7. eng'[n] = f
  BY <1>5, <1>6
<1>8. PICK p \in Proposals(f, n, NewBlocks) : msgs' = msgs \cup p
  BY <1>7 DEF Restart
<1>9. p \subseteq ProposalMsgs
  BY Zenon, <1>1, <1>2, ProposalsType, NewBlocksType
<1> HIDE DEF f, c
<1>10. /\ collector' \in [Honest -> Collectors]
       /\ \A k \in Honest : SafeCollector(collector'[k], Sent)
  BY Zenon, <1>4, <1>5, <1>6
<1>11. timer' \in [Honest -> {"none", "Propose", "Prevote", "Precommit"}]
  BY <1>5, <1>6
<1>12. Sent \cup {} = Sent /\ msgs' = (msgs \cup {}) \cup p
  BY <1>8
<1>13. NodeStep(K, n, f, {}, p)
  BY Zenon, <1>2, <1>3, <1>5, <1>6, <1>9, <1>10, <1>11, <1>12 DEF NodeStep
<1> QED
  BY <1>13, NodeStepSafe

\* The invariant of the nodes that do not restart holds in every reachable state.
THEOREM RestartInvariant == RestartSpec => []SafetyInv(Steady)
<1>1. Steady \in SUBSET Honest
  BY DEF Steady
<1>2. Init => SafetyInv(Steady)
  BY <1>1, InitSafe
<1>3. SafetyInv(Steady) /\ [RestartNext]_vars => SafetyInv(Steady)'
  <2>1. ASSUME SafetyInv(Steady), NEW n \in Restarting, Restart(n)
        PROVE  SafetyInv(Steady)'
    <3>1. n \in Honest /\ n \notin Steady
      BY RestartingAssumption DEF Steady
    <3> QED
      BY <1>1, <2>1, <3>1, RestartSafe
  <2>2. ASSUME SafetyInv(Steady), [Next]_vars
        PROVE  SafetyInv(Steady)'
    BY <1>1, <2>2, NextSafe
  <2> QED
    BY <2>1, <2>2 DEF RestartNext
<1> QED
  BY <1>2, <1>3, PTL DEF RestartSpec

\* However often nodes restart, a committed block has a quorum of precommits
\* behind it, and precommits and locks a quorum of prevotes.
THEOREM CertificatesAreKept == RestartSpec => []CertificatesSurvive
<1>1. SafetyInv(Steady) => CertificatesSurvive
  BY PolkasBehind, CommitsBehind DEF Steady, CertificatesSurvive
<1> QED
  BY <1>1, RestartInvariant, PTL

\* The engine's safety does need its memory, but only of two thirds of the stake:
\* as long as the faulty nodes and the nodes that restart have less than a third
\* of it together, nodes that commit in one round commit one block, and commits
\* of two rounds differ only after a proposal that claims a polka that never was.
THEOREM AgreementWithRestarts ==
  ASSUME 3 * StakeOf(Faulty \cup Restarting) < TotalStake
  PROVE  RestartSpec => [](RoundAgreement /\ ConflictNeedsFalseClaim)
<1>1. Nodes \ Steady = Faulty \cup Restarting /\ Steady \in SUBSET Honest
  BY NodesAssumption, RestartingAssumption DEF Steady, Honest
<1>2. QuorumsMeet(Steady)
  BY <1>1, QuorumsShare
<1>3. SafetyInv(Steady) => RoundAgreement /\ ConflictNeedsFalseClaim
  BY <1>1, <1>2, OneCommit, ConflictsExplained
<1> QED
  BY <1>3, RestartInvariant, PTL

-----------------------------------------------------------------------------
(***************************************************************************)
(* Evidence.  Votes are stored in maps that the last vote of a node wins,  *)
(* and the collector sees every vote before it is stored.                  *)
(***************************************************************************)

\* The collector has the vote, as a first vote or as the second of a pair.
Seen(c, vote) == vote \in c.votes \/ \E d \in c.evidence : d.second = vote

\* Every stored vote of another node was seen, and the current height is tracked.
Traced(e, c, n) ==
  /\ c.minHeight <= e.height
  /\ \A v \in Nodes \ {n} :
       /\ e.prevotes[v] # NoVote =>
            Seen(c, Vote("Prevote", e.height, e.round, e.prevotes[v], v))
       /\ e.precommits[v] # NoVote =>
            Seen(c, Vote("Precommit", e.height, e.round, e.precommits[v], v))

\* Engine f stores no vote of another node that e does not.
NoNewVotes(e, f, n) ==
  /\ f.height = e.height
  /\ \A v \in Nodes \ {n} :
       /\ f.prevotes[v] # NoVote => f.round = e.round /\ f.prevotes[v] = e.prevotes[v]
       /\ f.precommits[v] # NoVote => f.round = e.round /\ f.precommits[v] = e.precommits[v]

\* Then f is traced if e is.
LEMMA TraceKept ==
  ASSUME NEW e, NEW f, NEW c, NEW n, Traced(e, c, n), NoNewVotes(e, f, n)
  PROVE  Traced(f, c, n)
  BY Zenon DEF Traced, NoNewVotes

\* Sending a precommit stores the node's own vote only.
LEMMA SendPrecommitStores ==
  ASSUME NEW e \in Engines, NEW n \in Honest, NEW x
  PROVE  NoNewVotes(e, SendPrecommit(e, n, x).eng, n)
<1>1. CASE e.sentPrecommit
  BY <1>1 DEF SendPrecommit, Silent, Output, NoNewVotes
<1>2. CASE ~ e.sentPrecommit
  <2> DEFINE f == [e EXCEPT !.sentPrecommit = TRUE, !.precommits[n] = x]
  <2>1. SendPrecommit(e, n, x).eng = f
    BY <1>2 DEF SendPrecommit, Output
  <2>2. /\ f.height = e.height /\ f.round = e.round /\ f.prevotes = e.prevotes
        /\ f.precommits = [e.precommits EXCEPT ![n] = x]
    BY DEF Engines
  <2>3. e.precommits \in [Nodes -> Hashes \cup {NoVote}]
    BY DEF Engines, VoteMaps
  <2> HIDE DEF f
  <2> QED
    BY <2>1, <2>2, <2>3 DEF NoNewVotes
<1> QED
  BY <1>1, <1>2

\* So does try_advance_from_prevotes.
LEMMA TryAdvanceStores ==
  ASSUME NEW e \in Engines, NEW n \in Honest
  PROVE  NoNewVotes(e, TryAdvance(e, n).eng, n)
<1> DEFINE polka == QuorumHashes(e.prevotes)
           b == CHOOSE h \in polka : TRUE
           lock == [[e EXCEPT !.step = "Precommit"]
                      EXCEPT !.validValue = b, !.validRound = e.round,
                             !.lockedValue = b, !.lockedRound = e.round]
           nil == [e EXCEPT !.step = "Precommit"]
<1>1. CASE polka # {}
  <2>1. TryAdvance(e, n) = SendPrecommit(lock, n, b)
    BY <1>1 DEF TryAdvance
  <2>2. b \in Hashes
    BY <1>1 DEF QuorumHashes, Hashes
  <2> HIDE DEF b
  <2>3. /\ lock \in Engines /\ lock.height = e.height /\ lock.round = e.round
        /\ lock.prevotes = e.prevotes /\ lock.precommits = e.precommits
    BY Zenon, <2>2 DEF Engines, Steps
  <2> HIDE DEF lock
  <2>4. NoNewVotes(lock, TryAdvance(e, n).eng, n)
    BY <2>1, <2>3, SendPrecommitStores
  <2> QED
    BY Zenon, <2>3, <2>4 DEF NoNewVotes
<1>2. CASE /\ polka = {}
           /\ Voted(e.prevotes) \in Quorums
           /\ StepOrd[e.step] < StepOrd["Precommit"]
  <2>1. TryAdvance(e, n) = SendPrecommit(nil, n, Nil)
    BY <1>2 DEF TryAdvance
  <2>2. /\ nil \in Engines /\ nil.height = e.height /\ nil.round = e.round
        /\ nil.prevotes = e.prevotes /\ nil.precommits = e.precommits
    BY DEF Engines, Steps
  <2> HIDE DEF nil
  <2>3. NoNewVotes(nil, TryAdvance(e, n).eng, n)
    BY <2>1, <2>2, SendPrecommitStores
  <2> QED
    BY Zenon, <2>2, <2>3 DEF NoNewVotes
<1>3. CASE /\ polka = {}
           /\ ~ (Voted(e.prevotes) \in Quorums /\ StepOrd[e.step] < StepOrd["Precommit"])
  <2>1. TryAdvance(e, n).eng = e
    BY <1>3 DEF TryAdvance, Silent, Output
  <2> QED
    BY <2>1 DEF NoNewVotes
<1> QED
  BY <1>1, <1>2, <1>3

\* on_timeout stores the node's own vote, or clears the maps.
LEMMA OnTimeoutStores ==
  ASSUME NEW e \in Engines, NEW n \in Honest, NEW step
  PROVE  NoNewVotes(e, OnTimeout(e, n, step).eng, n)
<1>0. e.prevotes \in [Nodes -> Hashes \cup {NoVote}]
  BY DEF Engines, VoteMaps
<1>1. CASE step = "Propose" /\ StepOrd[e.step] <= StepOrd["Propose"]
  <2> DEFINE f == OnTimeout(e, n, step).eng
  <2>1. f = IF e.sentPrevote
            THEN [e EXCEPT !.step = "Prevote"]
            ELSE [[e EXCEPT !.step = "Prevote"]
                    EXCEPT !.sentPrevote = TRUE, !.prevotes[n] = Nil]
    BY <1>1 DEF OnTimeout, Silent, Output
  <2>2. /\ f.height = e.height /\ f.round = e.round /\ f.precommits = e.precommits
        /\ \/ f.prevotes = e.prevotes
           \/ f.prevotes = [e.prevotes EXCEPT ![n] = Nil]
    BY <2>1 DEF Engines
  <2> HIDE DEF f
  <2>3. NoNewVotes(e, f, n)
    BY <1>0, <2>2 DEF NoNewVotes
  <2> QED
    BY <2>3 DEF f
<1>2. CASE step = "Prevote" /\ StepOrd[e.step] <= StepOrd["Prevote"]
  <2> DEFINE g == [e EXCEPT !.step = "Precommit"]
  <2>1. OnTimeout(e, n, step) = SendPrecommit(g, n, Nil)
    BY <1>2 DEF OnTimeout
  <2>2. /\ g \in Engines /\ g.height = e.height /\ g.round = e.round
        /\ g.prevotes = e.prevotes /\ g.precommits = e.precommits
    BY DEF Engines, Steps
  <2> HIDE DEF g
  <2>3. NoNewVotes(g, OnTimeout(e, n, step).eng, n)
    BY <2>1, <2>2, SendPrecommitStores
  <2> QED
    BY Zenon, <2>2, <2>3 DEF NoNewVotes
<1>3. CASE step = "Precommit"
  <2>1. OnTimeout(e, n, step).eng = StartRound(e, e.round + 1)
    BY <1>3 DEF OnTimeout, Silent, Output
  <2>2. /\ StartRound(e, e.round + 1).height = e.height
        /\ StartRound(e, e.round + 1).prevotes = EmptyVotes
        /\ StartRound(e, e.round + 1).precommits = EmptyVotes
    BY DEF StartRound, AdvanceRound, Engines
  <2> QED
    BY <2>1, <2>2 DEF NoNewVotes, EmptyVotes
<1>4. CASE /\ ~ (step = "Propose" /\ StepOrd[e.step] <= StepOrd["Propose"])
           /\ ~ (step = "Prevote" /\ StepOrd[e.step] <= StepOrd["Prevote"])
           /\ step # "Precommit"
  <2>1. OnTimeout(e, n, step).eng = e
    BY <1>4 DEF OnTimeout, Silent, Output
  <2> QED
    BY <2>1 DEF NoNewVotes
<1> QED
  BY <1>1, <1>2, <1>3, <1>4

\* on_proposal clears the maps when it jumps to a later round, and stores the
\* node's own vote.
LEMMA OnProposalStores ==
  ASSUME NEW e \in Engines, NEW n \in Honest, NEW m \in ProposalMsgs
  PROVE  NoNewVotes(e, OnProposal(e, n, m).eng, n)
<1> DEFINE j == IF m.round > e.round THEN AdvanceRound(e, m.round) ELSE e
           x == DeterminePrevote(j, m.block, m.validRound)
           f == [j EXCEPT !.proposal = m.block, !.step = "Prevote"]
           g == [f EXCEPT !.sentPrevote = TRUE, !.prevotes[n] = x]
<1>1. CASE ~ AcceptsProposal(e, m)
  <2>1. OnProposal(e, n, m).eng = e
    BY <1>1 DEF OnProposal, Silent, Output
  <2> QED
    BY <2>1 DEF NoNewVotes
<1>2. CASE AcceptsProposal(e, m)
  <2>1. m.round \in Rounds /\ m.block \in Blocks
    BY DEF ProposalMsgs
  <2>2. j \in Engines /\ NoNewVotes(e, j, n)
    <3>1. EmptyVotes \in VoteMaps /\ Nil \in Hashes
      BY DEF EmptyVotes, VoteMaps, Hashes
    <3>2. j \in Engines
      BY Zenon, <2>1, <3>1 DEF AdvanceRound, Engines, Steps
    <3>3. CASE m.round > e.round
      <4>1. /\ j.height = e.height /\ j.prevotes = EmptyVotes /\ j.precommits = EmptyVotes
        BY <3>3 DEF AdvanceRound, Engines
      <4> QED
        BY <3>2, <4>1 DEF NoNewVotes, EmptyVotes
    <3>4. CASE ~ (m.round > e.round)
      BY <3>4 DEF NoNewVotes
    <3> QED
      BY <3>2, <3>3, <3>4
  <2>3. x \in Hashes
    BY <2>1 DEF DeterminePrevote, Hashes
  <2> HIDE DEF j, x
  <2>4. /\ f \in Engines /\ f.height = j.height /\ f.round = j.round
        /\ f.prevotes = j.prevotes /\ f.precommits = j.precommits
    BY Zenon, <2>1, <2>2 DEF Engines, Steps, Hashes
  <2>5. NoNewVotes(e, f, n)
    BY Zenon, <2>2, <2>4 DEF NoNewVotes
  <2>6. CASE j.sentPrevote
    <3>1. OnProposal(e, n, m).eng = f
      BY <1>2, <2>6 DEF OnProposal, Silent, Output, j
    <3> QED
      BY <2>5, <3>1
  <2>7. CASE ~ j.sentPrevote
    <3>1. OnProposal(e, n, m).eng = TryAdvance(g, n).eng
      BY <1>2, <2>7 DEF OnProposal, Output, j, x
    <3> HIDE DEF f
    <3>2. /\ g \in Engines /\ g.height = f.height /\ g.round = f.round
          /\ g.prevotes = [f.prevotes EXCEPT ![n] = x] /\ g.precommits = f.precommits
      BY Zenon, <2>3, <2>4 DEF Engines, VoteMaps, Honest
    <3>3. f.prevotes \in [Nodes -> Hashes \cup {NoVote}]
      BY <2>4 DEF Engines, VoteMaps
    <3> HIDE DEF g
    <3>4. \A v \in Nodes \ {n} : g.prevotes[v] = f.prevotes[v]
      BY <3>2, <3>3
    <3>5. NoNewVotes(g, TryAdvance(g, n).eng, n)
      BY <3>2, TryAdvanceStores
    <3>6. NoNewVotes(e, g, n)
      BY Zenon, <2>5, <3>2, <3>4 DEF NoNewVotes
    <3> QED
      BY Zenon, <3>1, <3>5, <3>6 DEF NoNewVotes
  <2> QED
    BY <2>6, <2>7
<1> QED
  BY <1>1, <1>2

\* check_and_record forgets nothing, and has the vote it is shown if it tracks
\* the height.
LEMMA ObserveSees ==
  ASSUME NEW e \in Engines, NEW c \in Collectors, c.minHeight <= e.height,
         NEW m \in VoteMsgs
  PROVE  /\ Observe(e, c, m).minHeight = c.minHeight
         /\ \A x : Seen(c, x) => Seen(Observe(e, c, m), x)
         /\ m.height = e.height => Seen(Observe(e, c, m), m)
<1> DEFINE old == {v \in c.votes : SameKey(v, m)}
           new == {DoubleSign(v, m) : v \in old \ {m}}
<1>1. m.height \in Int /\ c.minHeight \in Int /\ e.height \in Int
  BY SMT, VoteFields, EngineTypes, BoundsAssumption DEF Heights, Collectors
<1>2. CASE m.height # e.height
  BY <1>2 DEF Observe
<1>3. CASE m.height = e.height /\ old = {}
  <2>1. Observe(e, c, m) = [c EXCEPT !.votes = @ \cup {m}]
    BY SMT, <1>1, <1>3 DEF Observe, CheckAndRecord
  <2>2. /\ Observe(e, c, m).minHeight = c.minHeight
        /\ Observe(e, c, m).votes = c.votes \cup {m}
        /\ Observe(e, c, m).evidence = c.evidence
    BY <2>1 DEF Collectors
  <2> QED
    BY <2>2 DEF Seen
<1>4. CASE m.height = e.height /\ old # {}
  <2>1. Observe(e, c, m) = [c EXCEPT !.evidence = @ \cup new]
    BY SMT, <1>1, <1>4 DEF Observe, CheckAndRecord
  <2>2. /\ Observe(e, c, m).minHeight = c.minHeight
        /\ Observe(e, c, m).votes = c.votes
        /\ Observe(e, c, m).evidence = c.evidence \cup new
    BY <2>1 DEF Collectors
  <2>3. m \in c.votes \/ \E d \in new : d.second = m
    <3>1. PICK v \in c.votes : SameKey(v, m)
      BY <1>4
    <3>2. CASE v = m
      BY <3>2
    <3>3. CASE v # m
      <4>1. DoubleSign(v, m) \in new
        BY <3>1, <3>3
      <4>2. DoubleSign(v, m).second = m
        BY DEF DoubleSign
      <4> QED
        BY Zenon, <4>1, <4>2
    <3> QED
      BY <3>2, <3>3
  <2> HIDE DEF new
  <2> QED
    BY Zenon, <2>2, <2>3 DEF Seen
<1> QED
  BY Zenon, <1>2, <1>3, <1>4

\* on_prevote stores a vote that the collector has just been shown.
LEMMA OnPrevoteTraced ==
  ASSUME NEW e \in Engines, NEW n \in Honest, NEW c \in Collectors, Traced(e, c, n),
         NEW m \in VoteMsgs, m.type = "Prevote"
  PROVE  Traced(OnPrevote(e, n, m).eng, Observe(e, c, m), n)
<1> DEFINE d == Observe(e, c, m)
           g == [e EXCEPT !.prevotes[m.voter] = m.hash]
<1>1. /\ d.minHeight = c.minHeight
      /\ \A x : Seen(c, x) => Seen(d, x)
      /\ m.height = e.height => Seen(d, m)
  BY ObserveSees DEF Traced
<1> HIDE DEF d
<1>2. Traced(e, d, n)
  BY Zenon, <1>1 DEF Traced
<1>3. CASE CountsVote(e, m)
  <2>1. OnPrevote(e, n, m) = TryAdvance(g, n)
    BY <1>3 DEF OnPrevote
  <2>2. m.voter \in Nodes /\ m.hash \in Hashes
    BY VoteFields
  <2>3. /\ g \in Engines /\ g.height = e.height /\ g.round = e.round
        /\ g.prevotes = [e.prevotes EXCEPT ![m.voter] = m.hash]
        /\ g.precommits = e.precommits
    BY <2>2 DEF Engines, VoteMaps
  <2>4. e.prevotes \in [Nodes -> Hashes \cup {NoVote}]
    BY DEF Engines, VoteMaps
  <2> HIDE DEF g
  <2>5. \A v \in Nodes : g.prevotes[v] = IF v = m.voter THEN m.hash ELSE e.prevotes[v]
    BY <2>3, <2>4
  <2>6. Seen(d, Vote("Prevote", e.height, e.round, m.hash, m.voter))
    BY Zenon, <1>1, <1>3, CountedVote DEF CountsVote
  <2>7. Traced(g, d, n)
    BY ZenonT(40), <1>2, <2>3, <2>5, <2>6 DEF Traced
  <2>8. NoNewVotes(g, TryAdvance(g, n).eng, n)
    BY <2>3, TryAdvanceStores
  <2> QED
    BY Zenon, <2>1, <2>7, <2>8, TraceKept DEF d
<1>4. CASE ~ CountsVote(e, m)
  <2>1. OnPrevote(e, n, m).eng = e
    BY <1>4 DEF OnPrevote, Silent, Output
  <2> QED
    BY <1>2, <2>1 DEF d
<1> QED
  BY <1>3, <1>4

\* on_precommit too.
LEMMA OnPrecommitTraced ==
  ASSUME NEW e \in Engines, NEW n \in Honest, NEW c \in Collectors, Traced(e, c, n),
         NEW m \in VoteMsgs, m.type = "Precommit"
  PROVE  Traced(OnPrecommit(e, n, m).eng, Observe(e, c, m), n)
<1> DEFINE d == Observe(e, c, m)
           g == [e EXCEPT !.precommits[m.voter] = m.hash]
           f == TryCommit(g).eng
<1>1. /\ d.minHeight = c.minHeight
      /\ \A x : Seen(c, x) => Seen(d, x)
      /\ m.height = e.height => Seen(d, m)
  BY ObserveSees DEF Traced
<1> HIDE DEF d
<1>2. Traced(e, d, n)
  BY Zenon, <1>1 DEF Traced
<1>3. CASE CountsVote(e, m)
  <2>1. OnPrecommit(e, n, m).eng = f
    BY <1>3 DEF OnPrecommit
  <2>2. m.voter \in Nodes /\ m.hash \in Hashes
    BY VoteFields
  <2>3. /\ g \in Engines /\ g.height = e.height /\ g.round = e.round
        /\ g.precommits = [e.precommits EXCEPT ![m.voter] = m.hash]
        /\ g.prevotes = e.prevotes
    BY <2>2 DEF Engines, VoteMaps
  <2>4. e.precommits \in [Nodes -> Hashes \cup {NoVote}]
    BY DEF Engines, VoteMaps
  <2> HIDE DEF g
  <2>5. \A v \in Nodes : g.precommits[v] = IF v = m.voter THEN m.hash ELSE e.precommits[v]
    BY <2>3, <2>4
  <2>6. Seen(d, Vote("Precommit", e.height, e.round, m.hash, m.voter))
    BY Zenon, <1>1, <1>3, CountedVote DEF CountsVote
  <2>7. Traced(g, d, n)
    BY ZenonT(40), <1>2, <2>3, <2>5, <2>6 DEF Traced
  <2>8. f = g \/ f = [g EXCEPT !.step = "Commit"]
    BY DEF TryCommit, Silent, Output
  <2>9. /\ f.height = g.height /\ f.round = g.round
        /\ f.prevotes = g.prevotes /\ f.precommits = g.precommits
    BY <2>3, <2>8 DEF Engines
  <2> HIDE DEF f
  <2> QED
    BY Zenon, <2>1, <2>7, <2>9 DEF Traced, d
<1>4. CASE ~ CountsVote(e, m)
  <2>1. OnPrecommit(e, n, m).eng = e
    BY <1>4 DEF OnPrecommit, Silent, Output
  <2> QED
    BY <1>2, <2>1 DEF d
<1> QED
  BY <1>3, <1>4

\* A new height stores no vote, and prune keeps its height tracked.
LEMMA NewHeightTraced ==
  ASSUME NEW h \in Heights, NEW c \in Collectors, NEW n
  PROVE  Traced(StartNewHeight(h), PruneFor(c, h), n)
<1> DEFINE f == StartNewHeight(h)
           k == IF h < EvidenceWindow THEN 0 ELSE h - EvidenceWindow
<1>1. f.height = h /\ f.prevotes = EmptyVotes /\ f.precommits = EmptyVotes
  BY NewHeightType
<1>2. h \in Nat /\ EvidenceWindow \in Nat
  BY SMT, BoundsAssumption, EvidenceAssumption DEF Heights
<1>3. k <= h
  BY SMT, <1>2
<1>4. PruneFor(c, h).minHeight = k
  BY DEF PruneFor, Prune, Collectors
<1> HIDE DEF f, k
<1>5. Traced(f, PruneFor(c, h), n)
  BY <1>1, <1>3, <1>4 DEF Traced, EmptyVotes
<1> QED
  BY <1>5 DEF f

\* The inductive invariant behind OverwriteRecorded.
TraceInv == SafetyInv(Honest) /\ \A n \in Honest : Traced(eng[n], collector[n], n)

\* Every step of the system keeps it.
LEMMA TraceStep ==
  ASSUME TraceInv, SafetyInv(Honest)', [Next]_vars
  PROVE  TraceInv'
<1>1. /\ eng \in [Honest -> Engines]
      /\ collector \in [Honest -> Collectors]
      /\ \A n \in Honest : /\ eng[n] \in Engines /\ collector[n] \in Collectors
                           /\ SafeCollector(collector[n], Sent)
                           /\ Traced(eng[n], collector[n], n)
      /\ eng' \in [Honest -> Engines]
      /\ TypeOK
  BY DEF TraceInv, SafetyInv, TypeOK
<1>2. SUFFICES ASSUME NEW n \in Honest,
                      \/ \E m \in Sent : Receive(n, m)
                      \/ Expire(n)
               PROVE  \E f, c : /\ eng' = [eng EXCEPT ![n] = f]
                                /\ collector' = [collector EXCEPT ![n] = c]
                                /\ Traced(f, c, n)
  <2>1. CASE UNCHANGED vars
    BY <1>1, <2>1 DEF vars, TraceInv
  <2>2. CASE Next
    <3>0. PICK n \in Honest : \E f, c : /\ eng' = [eng EXCEPT ![n] = f]
                                         /\ collector' = [collector EXCEPT ![n] = c]
                                         /\ Traced(f, c, n)
      BY <1>2, <2>2 DEF Next
    <3>1. PICK f, c : /\ eng' = [eng EXCEPT ![n] = f]
                      /\ collector' = [collector EXCEPT ![n] = c]
                      /\ Traced(f, c, n)
      BY <3>0
    <3>2. \A k \in Honest : /\ eng'[k] = IF k = n THEN f ELSE eng[k]
                            /\ collector'[k] = IF k = n THEN c ELSE collector[k]
      BY <1>1, <3>1
    <3> QED
      BY <1>1, <3>1, <3>2 DEF TraceInv
  <2> QED
    BY <2>1, <2>2
<1>3. collector = [collector EXCEPT ![n] = collector[n]]
  BY <1>1
<1>4. ASSUME NEW m \in Sent, ReceiveProposal(n, m)
      PROVE  Traced(OnProposal(eng[n], n, m).eng, collector[n], n)
  <2>1. m \in ProposalMsgs
    BY <1>4, <1>1, SentTypes DEF ReceiveProposal
  <2> QED
    BY Zenon, <1>1, <2>1, OnProposalStores, TraceKept
<1>5. ASSUME NEW m \in Sent, ReceivePrevote(n, m)
      PROVE  Traced(OnPrevote(eng[n], n, m).eng, Observe(eng[n], collector[n], m), n)
  <2>1. m \in VoteMsgs /\ m.type = "Prevote"
    BY <1>5, <1>1, SentTypes DEF ReceivePrevote, VoteTypes
  <2> QED
    BY <1>1, <2>1, OnPrevoteTraced
<1>6. ASSUME NEW m \in Sent, ReceivePrecommit(n, m)
      PROVE  Traced(OnPrecommit(eng[n], n, m).eng, Observe(eng[n], collector[n], m), n)
  <2>1. m \in VoteMsgs /\ m.type = "Precommit"
    BY <1>6, <1>1, SentTypes DEF ReceivePrecommit, VoteTypes
  <2> QED
    BY <1>1, <2>1, OnPrecommitTraced
<1>7. ASSUME NEW m \in Sent, CommitAndAdvance(n, m)
      PROVE  LET h == eng[n].height + 1
             IN  Traced(StartNewHeight(h), PruneFor(Observe(eng[n], collector[n], m), h), n)
  <2> DEFINE h == eng[n].height + 1
             c == Observe(eng[n], collector[n], m)
  <2>1. m \in VoteMsgs
    BY <1>7, <1>1, SentTypes DEF CommitAndAdvance, VoteTypes
  <2>2. c \in Collectors
    BY <1>1, <2>1, ObserveSafe
  <2>3. eng'[n] = StartNewHeight(h)
    BY <1>1, <1>7 DEF CommitAndAdvance
  <2>4. h \in Heights
    <3>1. StartNewHeight(h).height = h
      BY DEF StartNewHeight, StartRound, AdvanceRound, NewState
    <3> QED
      BY SMT, <1>1, <2>3, <3>1 DEF Engines
  <2> QED
    BY <2>2, <2>4, NewHeightTraced
<1>8. ASSUME Expire(n)
      PROVE  Traced(OnTimeout(eng[n], n, timer[n]).eng, collector[n], n)
  BY Zenon, <1>1, OnTimeoutStores, TraceKept
<1>9. CASE \E m \in Sent : Receive(n, m)
  <2>1. PICK m \in Sent : Receive(n, m)
    BY <1>9
  <2>2. CASE ReceiveProposal(n, m)
    BY Zenon, <1>3, <1>4, <2>2 DEF ReceiveProposal, Continue
  <2>3. CASE ReceivePrevote(n, m)
    BY Zenon, <1>5, <2>3 DEF ReceivePrevote, Continue
  <2>4. CASE ReceivePrecommit(n, m)
    BY Zenon, <1>6, <2>4 DEF ReceivePrecommit, Continue
  <2>5. CASE CommitAndAdvance(n, m)
    <3>1. StartNewHeight(eng[n].height + 1).height = eng[n].height + 1
      BY DEF StartNewHeight, StartRound, AdvanceRound, NewState
    <3> QED
      BY Zenon, <1>7, <2>5, <3>1 DEF CommitAndAdvance
  <2> QED
    BY <2>1, <2>2, <2>3, <2>4, <2>5 DEF Receive
<1>10. CASE Expire(n)
  BY Zenon, <1>3, <1>8, <1>10 DEF Expire, CheckTimeouts
<1> QED
  BY <1>2, <1>9, <1>10

\* The engine keeps the last vote of a node and the collector the first: when they
\* differ, the collector has the pair.  No order of arrival, repetition or change
\* of round makes an overwritten vote disappear.
THEOREM OverwritesAreEvidence == Spec => []OverwriteRecorded
<1>1. Init /\ SafetyInv(Honest) => TraceInv
  <2> SUFFICES ASSUME Init, SafetyInv(Honest), NEW n \in Honest
               PROVE  Traced(eng[n], collector[n], n)
    BY DEF TraceInv
  <2>1. StartHeight \in Heights
    BY SMT, BoundsAssumption DEF Heights
  <2>2. NewCollector \in Collectors
    BY Zenon DEF NewCollector, Collectors
  <2>3. eng[n] = StartNewHeight(StartHeight) /\ collector[n] = PruneFor(NewCollector, StartHeight)
    BY DEF Init
  <2> QED
    BY <2>1, <2>2, <2>3, NewHeightTraced
<1>2. TraceInv /\ SafetyInv(Honest)' /\ [Next]_vars => TraceInv'
  BY TraceStep
<1>3. TraceInv => OverwriteRecorded
  <2> SUFFICES ASSUME TraceInv, NEW n \in Honest, NEW v \in Nodes \ {n},
                      NEW type \in {"Prevote", "Precommit"}
               PROVE  LET e    == eng[n]
                          hash == IF type = "Prevote" THEN e.prevotes[v] ELSE e.precommits[v]
                          vote == MakeVote(type, e, v, hash)
                      IN  hash # NoVote => Seen(collector[n], vote)
    BY DEF OverwriteRecorded, Seen
  <2>1. Traced(eng[n], collector[n], n)
    BY DEF TraceInv
  <2> QED
    BY <2>1 DEF Traced, MakeVote
<1> QED
  BY <1>1, <1>2, <1>3, SafetyInvariant, PTL DEF Spec
=============================================================================
