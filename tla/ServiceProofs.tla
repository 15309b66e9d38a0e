--------------------------- MODULE ServiceProofs ----------------------------
(***************************************************************************)
(* Proofs about the services of the node, for every value of their         *)
(* constants: the loop of the consensus service, the block producer beside *)
(* the replay stage, and block sync.                                       *)
(***************************************************************************)
EXTENDS ConsensusLoop, BlockProducer, BlockSync, CommonProofs

\* How a leaf is tried: Zenon for a second, which is cheap, then the SMT solver
\* and Zenon in turn, and the SMT solver once more with more time.
USE ZenonT(1), SMT, Zenon, Z3T(20)

-----------------------------------------------------------------------------
(***************************************************************************)
(* ConsensusLoop: an expired timeout is acted on promptly.                 *)
(***************************************************************************)

\* Messages arrive more slowly than they are handled, and a channel full of them
\* is handled before a timeout expires.
SlowArrivals == Cost < Gap /\ Gap * (MaxInbox * Cost) <= (Gap - Cost) * Timeout

\* Ticks of work that are waiting for the thread.
Waiting == Cost * inbox
Work == Waiting + (IF at = "handle" THEN left ELSE 0)

\* The time a timeout has waited and the work in front of it, weighted so that
\* neither a busy tick nor an arrival increases the sum.
LoadOf(t, w, q) == (Gap - Cost) * t + (Gap * w + Cost * q)
Load == LoadOf(age, Work, quiet)

LoadLimit == (Gap - Cost) * Timeout + Gap * Cost

PromptInv ==
  /\ LoopTypeOK
  /\ at \in {"wait", "handle"} => armed
  /\ at = "pause" => ~armed /\ age = 0
  /\ at = "stopped" => left = 0
  /\ at = "wait" /\ left > 0 => age + left <= Timeout
  /\ Work + quiet >= Cost
  /\ at # "stopped" => Load <= LoadLimit

\* The constants are positive.
LEMMA LoopConstants ==
  /\ Poll \in Nat /\ Timeout \in Nat /\ Cost \in Nat /\ Pause \in Nat /\ Gap \in Nat
  /\ MaxInbox \in Nat /\ MaxAge \in Nat /\ MaxUnchecked \in Nat
  /\ Poll > 0 /\ Timeout > 0 /\ Cost > 0 /\ Pause > 0 /\ Gap > 0 /\ MaxInbox > 0
  BY SMT, LoopAssumption DEF MaxAge, MaxUnchecked

\* The wait of a turn ends with the timeout, and with the poll interval.
LEMMA BudgetBound ==
  ASSUME NEW t \in Nat
  PROVE  /\ Budget(TRUE, t) \in 0..Poll
         /\ Budget(TRUE, t) > 0 => t + Budget(TRUE, t) <= Timeout
  BY SMT, LoopConstants DEF Budget, Least

\* A fresh timeout has room for a full channel.
LEMMA FreshLoad ==
  ASSUME SlowArrivals, NEW w \in Nat, w <= MaxInbox * Cost, NEW q \in 0..Gap
  PROVE  Gap * w + Cost * q <= LoadLimit
<1>1. Cost \in Nat /\ Gap \in Nat /\ Timeout \in Nat /\ MaxInbox * Cost \in Nat
  BY SMT, LoopConstants
<1>2. Gap * w <= Gap * (MaxInbox * Cost)
  <2>1. \A g, x, y \in Nat : x <= y => g * x <= g * y
    BY SMT
  <2> QED
    BY <1>1, <2>1
<1>3. Cost * q <= Gap * Cost
  BY SMT, <1>1
<1>4. Gap * (MaxInbox * Cost) <= (Gap - Cost) * Timeout
  BY DEF SlowArrivals
<1> DEFINE a == Gap * (MaxInbox * Cost)
           b == (Gap - Cost) * Timeout
           c == Gap * w
           d == Cost * q
           e == Gap * Cost
<1>5. a \in Int /\ b \in Int /\ c \in Int /\ d \in Int /\ e \in Int
  BY SMT, <1>1
<1>6. c <= a /\ a <= b /\ d <= e
  BY <1>2, <1>3, <1>4
<1>7. LoadLimit = b + e
  BY DEF LoadLimit
<1> HIDE DEF a, b, c, d, e
<1>8. c + d <= b + e
  BY SMT, <1>5, <1>6
<1> QED
  BY <1>7, <1>8 DEF c, d

\* The invariant says what the property says.
LEMMA LoadBoundsAge ==
  ASSUME SlowArrivals, PromptInv
  PROVE  TimeoutIsPrompt
<1>1. SUFFICES ASSUME at # "stopped" PROVE age <= Timeout + Cost
  BY DEF TimeoutIsPrompt
<1>2. /\ age \in Nat /\ Work \in Nat /\ quiet \in Nat /\ Cost \in Nat /\ Gap \in Nat
      /\ Timeout \in Nat /\ Cost < Gap /\ Work + quiet >= Cost
  BY SMT, LoopConstants DEF PromptInv, LoopTypeOK, Work, Waiting, SlowArrivals
<1>3. Load <= LoadLimit
  BY <1>1 DEF PromptInv
<1> DEFINE d == Gap - Cost
           w == Work
<1>4. d \in Nat /\ d > 0 /\ Gap = Cost + d /\ w \in Nat
  BY SMT, <1>2
<1>5. d * age + ((Cost + d) * w + Cost * quiet) <= d * Timeout + (Cost + d) * Cost
  BY <1>3, <1>4 DEF Load, LoadOf, LoadLimit
<1> HIDE DEF d, w
<1>6. w + quiet >= Cost
  BY <1>2 DEF w
<1>7. d * w \in Nat /\ Cost * (w + quiet) >= Cost * Cost
  BY SMT, <1>2, <1>4, <1>6
<1>8. d * age <= d * (Timeout + Cost)
  BY <1>2, <1>4, <1>5, <1>7
<1>9. \A n, x, y \in Nat : n > 0 /\ n * x <= n * y => x <= y
  OBVIOUS
<1> QED
  BY SMT, <1>2, <1>4, <1>8, <1>9

\* At the head of the loop only the messages in the channel are left to handle.
LEMMA AfterTurn ==
  ASSUME SlowArrivals, LoopTypeOK, NEW t \in 0..MaxAge, Turn(TRUE, t),
         armed' = TRUE, age' = t, unchecked' \in 0..MaxUnchecked,
         UNCHANGED <<inbox, quiet, connected, exit>>,
         Waiting + quiet >= Cost, LoadOf(t, Waiting, quiet) <= LoadLimit
  PROVE  PromptInv'
<1>1. t \in Nat /\ Budget(TRUE, t) \in 0..Poll
      /\ (Budget(TRUE, t) > 0 => t + Budget(TRUE, t) <= Timeout)
  <2>1. t \in Nat
    BY SMT, LoopConstants
  <2> QED
    BY Zenon, <2>1, BudgetBound
<1>2. \/ at' = "stopped" /\ left' = 0
      \/ at' = "wait" /\ left' = Budget(TRUE, t)
  BY DEF Turn
<1>3. LoopTypeOK'
  <2>0. 0 \in 0..Poll
    BY LoopConstants
  <2>1. left' \in 0..Poll
    BY Zenon, <1>1, <1>2, <2>0
  <2>2. at' \in {"wait", "handle", "pause", "stopped"}
    BY Zenon, <1>2
  <2> QED
    BY Zenon, <2>1, <2>2 DEF LoopTypeOK
<1>4. Work' = Waiting
  <2>1. at' # "handle" /\ inbox' = inbox
    BY <1>2
  <2>2. Waiting' = Waiting /\ Waiting \in Int
    BY SMT, <2>1, LoopConstants DEF Waiting, LoopTypeOK
  <2> QED
    BY SMT, <2>1, <2>2 DEF Work
<1>5. Load' <= LoadLimit'
  BY Zenon, <1>4 DEF Load, LoadLimit, LoadOf
<1>6. at' \in {"wait", "handle"} => armed'
  OBVIOUS
<1>7. at' = "wait" /\ left' > 0 => age' + left' <= Timeout
  BY <1>1, <1>2
<1>8. (Work + quiet >= Cost)'
  BY <1>4
<1> QED
  BY <1>2, <1>3, <1>5, <1>6, <1>7, <1>8 DEF PromptInv

\* Restarting a timeout leaves it the time a full channel takes.
LEMMA AfterRestart ==
  ASSUME SlowArrivals, PromptInv, Turn(TRUE, 0), armed' = TRUE, age' = 0,
         UNCHANGED <<unchecked, inbox, quiet, connected, exit>>,
         at = "handle" => left = 0
  PROVE  PromptInv'
<1>1. LoopTypeOK /\ inbox \in 0..MaxInbox /\ quiet \in 0..Gap /\ unchecked \in 0..MaxUnchecked
      /\ Work + quiet >= Cost
  BY Zenon DEF PromptInv, LoopTypeOK
<1>2. Waiting \in Nat /\ Waiting <= MaxInbox * Cost /\ 0 \in 0..MaxAge
  BY SMT, <1>1, LoopConstants DEF Waiting
<1>3. Work = Waiting
  BY SMT, <1>2 DEF Work
<1>4. Gap * Waiting + Cost * quiet <= LoadLimit
  BY Zenon, <1>1, <1>2, FreshLoad
<1>5. LoadOf(0, Waiting, quiet) = Gap * Waiting + Cost * quiet
  BY <1>1, <1>2, LoopConstants DEF LoadOf
<1> QED
  BY Zenon, <1>1, <1>2, <1>3, <1>4, <1>5, AfterTurn

\* An expired timeout is restarted, another one waits on.
LEMMA CheckTimeoutsKeeps ==
  ASSUME SlowArrivals, PromptInv, CheckTimeouts
  PROVE  PromptInv'
<1>1. armed = TRUE /\ at = "wait" /\ left = 0 /\ LoopTypeOK
  BY Zenon DEF PromptInv, CheckTimeouts, LoopTypeOK
<1>2. /\ age \in 0..MaxAge /\ (age' = 0 \/ age' = age) /\ Turn(TRUE, age') /\ armed' = TRUE
      /\ unchecked' \in 0..MaxUnchecked /\ UNCHANGED <<inbox, quiet, connected, exit>>
  <2>1. age \in 0..MaxAge /\ 0 \in 0..MaxUnchecked
    BY SMT, <1>1, LoopConstants DEF LoopTypeOK
  <2> QED
    BY Zenon, <1>1, <2>1 DEF CheckTimeouts
<1>3. Waiting \in Nat /\ quiet \in Nat
  BY SMT, <1>1, LoopConstants DEF Waiting, LoopTypeOK
<1>4. Work = Waiting
  BY <1>1, <1>3 DEF Work
<1>5. Waiting + quiet >= Cost /\ LoadOf(age, Waiting, quiet) <= LoadLimit
  BY <1>1, <1>4 DEF PromptInv, Load
<1>6. CASE age' = age
  BY Zenon, <1>1, <1>2, <1>5, <1>6, AfterTurn
<1>7. CASE age' = 0
  <2>1. LoadOf(0, Waiting, quiet) <= LoadOf(age, Waiting, quiet)
        /\ LoadOf(0, Waiting, quiet) \in Int /\ LoadOf(age, Waiting, quiet) \in Int
    <3> DEFINE d == Gap - Cost
    <3>1. d \in Nat /\ age \in Nat
      BY SMT, <1>2, LoopConstants DEF SlowArrivals
    <3> HIDE DEF d
    <3>2. d * 0 = 0 /\ d * age \in Nat /\ Gap * Waiting + Cost * quiet \in Int
      BY SMT, <1>3, <3>1, LoopConstants
    <3>3. d * 0 + (Gap * Waiting + Cost * quiet) <= d * age + (Gap * Waiting + Cost * quiet)
      BY SMT, <3>2
    <3> QED
      BY SMT, <3>2, <3>3 DEF LoadOf, d
  <2>2. LoadLimit \in Int
    BY SMT, LoopConstants DEF LoadLimit
  <2>3. LoadOf(0, Waiting, quiet) <= LoadLimit
    BY <1>5, <2>1, <2>2
  <2>4. 0 \in 0..MaxAge
    BY LoopConstants
  <2> QED
    BY Zenon, <1>1, <1>2, <1>5, <1>7, <2>3, <2>4, AfterTurn
<1> QED
  BY Zenon, <1>2, <1>6, <1>7

\* What an arrival adds to the work it takes from the time since the last one.
LEMMA ArriveKeeps ==
  ASSUME SlowArrivals, PromptInv, Arrive
  PROVE  PromptInv'
<1>1. /\ quiet = Gap /\ quiet' = 0 /\ inbox \in Nat /\ inbox' = inbox + 1 /\ inbox < MaxInbox
      /\ UNCHANGED <<at, left, armed, age, unchecked, connected, exit>>
      /\ age \in Nat /\ left \in Nat
  BY SMT, LoopConstants DEF PromptInv, LoopTypeOK, Arrive
<1>2. Work' = Work + Cost /\ Work \in Nat
  BY SMT, <1>1, LoopConstants DEF Work, Waiting
<1>3. Load' = Load
  <2>1. Gap * (Work + Cost) + Cost * 0 = Gap * Work + Cost * Gap
    BY SMT, <1>2, LoopConstants
  <2> QED
    BY <1>1, <1>2, <2>1 DEF Load, LoadOf
<1>4. LoopTypeOK'
  BY SMT, <1>1, LoopConstants DEF PromptInv, LoopTypeOK
<1>5. (Work + quiet >= Cost)'
  BY <1>1, <1>2, LoopConstants
<1> QED
  BY <1>1, <1>3, <1>4, <1>5 DEF PromptInv, LoadLimit

\* A busy tick does a tick of work; an idle one ends before the timeout.
LEMMA TickKeeps ==
  ASSUME SlowArrivals, PromptInv, Tick
  PROVE  PromptInv'
<1>0. Cost < Gap
  BY DEF SlowArrivals
<1>1. /\ left \in Nat /\ left > 0 /\ left' = left - 1 /\ age \in 0..MaxAge /\ quiet \in 0..Gap
      /\ Waiting \in Nat
      /\ UNCHANGED <<at, armed, inbox, connected, exit>>
      /\ quiet' = Least(quiet + 1, Gap) /\ unchecked' = Least(unchecked + 1, MaxUnchecked)
      /\ age' = (IF armed THEN Least(age + 1, MaxAge) ELSE age)
      /\ at \in {"wait", "handle", "pause"}
  BY SMT, LoopConstants DEF PromptInv, LoopTypeOK, Tick, Waiting
<1>2. age' \in 0..MaxAge /\ age' <= age + 1
  BY <1>1, LoopConstants DEF Least
<1>3. quiet' \in 0..Gap /\ quiet' <= quiet + 1 /\ (quiet' = quiet + 1 \/ quiet' = Gap)
  BY <1>1, LoopConstants DEF Least
<1>4. LoopTypeOK'
  <2>1. unchecked' \in 0..MaxUnchecked
    BY SMT, <1>1, LoopConstants DEF Least, PromptInv, LoopTypeOK
  <2>2. left' \in 0 .. Poll \union 0 .. (IF at = "handle" THEN Cost ELSE IF at = "pause" THEN Pause ELSE 0)
    BY SMT, <1>1, LoopConstants DEF PromptInv, LoopTypeOK
  <2> QED
    BY Zenon, <1>1, <1>2, <1>3, <2>1, <2>2 DEF PromptInv, LoopTypeOK
<1>5. Waiting' = Waiting
  BY <1>1 DEF Waiting
<1>6. CASE at = "pause"
  <2>1. armed = FALSE /\ age = 0 /\ age' = 0 /\ inbox \in 0..MaxInbox
    BY <1>1, <1>6 DEF PromptInv, LoopTypeOK
  <2>2. Work' = Waiting /\ Work = Waiting
    BY SMT, <1>1, <1>5, <1>6 DEF Work
  <2>3. Waiting <= MaxInbox * Cost
    BY <2>1, LoopConstants DEF Waiting
  <2>4. Gap * Waiting + Cost * quiet' <= LoadLimit
    BY <1>1, <1>3, <2>3, FreshLoad
  <2>5. LoadOf(0, Waiting, quiet') = Gap * Waiting + Cost * quiet'
    BY <1>1, <1>3, LoopConstants DEF LoadOf
  <2>6. (Load <= LoadLimit)'
    BY Zenon, <2>1, <2>2, <2>4, <2>5 DEF Load, LoadLimit, LoadOf
  <2>7. (Work + quiet >= Cost)'
    <3>1. Waiting + quiet >= Cost
      BY <2>2 DEF PromptInv
    <3> QED
      BY SMT, <1>0, <1>1, <1>3, <2>2, <3>1, LoopConstants
  <2> QED
    BY <1>1, <1>4, <1>6, <2>1, <2>6, <2>7 DEF PromptInv
<1>7. CASE at = "wait"
  <2>1. inbox = 0 /\ armed = TRUE /\ age + left <= Timeout
    BY <1>1, <1>7 DEF Tick, PromptInv, LoopTypeOK
  <2>2. Waiting = 0 /\ Work' = 0 /\ Work = 0
    BY SMT, <1>1, <1>5, <1>7, <2>1, LoopConstants DEF Work, Waiting
  <2>3. age' + left' <= Timeout /\ age' <= Timeout /\ age' \in Nat
    BY <1>1, <1>2, <2>1, LoopConstants
  <2>4. (Load <= LoadLimit)'
    <3> DEFINE d == Gap - Cost
    <3>1. d \in Nat /\ quiet' \in Nat /\ quiet' <= Gap
      BY <1>0, <1>3, LoopConstants
    <3> HIDE DEF d
    <3>2. d * age' <= d * Timeout /\ d * age' \in Int /\ d * Timeout \in Int
      <4>1. \A n, x, y \in Nat : x <= y => n * x <= n * y /\ n * x \in Int /\ n * y \in Int
        OBVIOUS
      <4> QED
        BY <2>3, <3>1, <4>1, LoopConstants
    <3>3. Gap * 0 + Cost * quiet' <= Gap * Cost /\ Gap * 0 + Cost * quiet' \in Int /\ Gap * Cost \in Int
      <4>1. \A c, g, q \in Nat : q <= g => /\ g * 0 + c * q <= g * c
                                          /\ g * 0 + c * q \in Int /\ g * c \in Int
        BY SMT
      <4> QED
        BY <3>1, <4>1, LoopConstants
    <3>4. d * age' + (Gap * 0 + Cost * quiet') <= d * Timeout + Gap * Cost
      BY <3>2, <3>3
    <3> QED
      BY Zenon, <2>2, <3>4 DEF Load, LoadOf, LoadLimit, d
  <2>5. (Work + quiet >= Cost)'
    <3>1. quiet >= Cost
      BY <1>1, <2>2 DEF PromptInv
    <3> QED
      BY <1>0, <1>1, <1>3, <2>2, <3>1, LoopConstants
  <2> QED
    BY <1>1, <1>4, <1>7, <2>1, <2>3, <2>4, <2>5 DEF PromptInv
<1>8. CASE at = "handle"
  <2>1. armed = TRUE /\ Work \in Nat /\ Work' = Work - 1 /\ Work > 0
    BY <1>1, <1>5, <1>8 DEF Work, PromptInv, LoopTypeOK
  <2>2. (Load <= LoadLimit)'
    <3> DEFINE d == Gap - Cost
    <3>1. d \in Nat /\ quiet' \in Nat /\ quiet \in Nat /\ age \in Nat /\ age' \in Nat
          /\ Gap = Cost + d
      BY SMT, <1>0, <1>1, <1>2, <1>3, LoopConstants
    <3> HIDE DEF d
    <3>2. d * age' <= d * age + d /\ d * age' \in Int /\ d * age \in Int
      <4>1. \A n, x, y \in Nat : x <= y + 1 => n * x <= n * y + n /\ n * x \in Int /\ n * y \in Int
        BY SMT
      <4> QED
        BY <1>2, <3>1, <4>1
    <3>3. Gap * (Work - 1) = Gap * Work - Cost - d /\ Gap * Work \in Int
      <4>1. \A g, w \in Nat : g * (w - 1) = g * w - g /\ g * w \in Int
        OBVIOUS
      <4>2. Gap * (Work - 1) = Gap * Work - Gap /\ Gap * Work \in Int
        BY Zenon, <2>1, <4>1, LoopConstants
      <4> HIDE DEF Work
      <4> QED
        BY <3>1, <4>2, LoopConstants
    <3>4. Cost * quiet' <= Cost * quiet + Cost /\ Cost * quiet \in Int /\ Cost * quiet' \in Int
      <4>1. \A n, x, y \in Nat : x <= y + 1 => n * x <= n * y + n /\ n * x \in Int /\ n * y \in Int
        BY SMT
      <4> QED
        BY <1>3, <3>1, <4>1, LoopConstants
    <3>5. d * age + (Gap * Work + Cost * quiet) <= LoadLimit
      BY <1>8 DEF PromptInv, Load, LoadOf, d
    <3>6. LoadLimit \in Int
      BY SMT, LoopConstants DEF LoadLimit
    <3>7. d * age' + (Gap * (Work - 1) + Cost * quiet') <= LoadLimit
      <4> DEFINE a == d * age
                 b == d * age'
                 g == Gap * Work
                 h == Gap * (Work - 1)
                 p == Cost * quiet
                 q == Cost * quiet'
      <4>1. /\ a \in Int /\ b \in Int /\ g \in Int /\ p \in Int /\ q \in Int
            /\ b <= a + d /\ h = g - Cost - d /\ q <= p + Cost /\ a + (g + p) <= LoadLimit
        BY Zenon, <3>2, <3>3, <3>4, <3>5
      <4> HIDE DEF a, b, g, h, p, q
      <4>2. b + (h + q) <= LoadLimit
        BY SMT, <3>1, <3>6, <4>1, LoopConstants
      <4> QED
        BY Zenon, <4>2 DEF b, h, q
    <3> QED
      BY Zenon, <2>1, <3>7 DEF Load, LoadOf, LoadLimit, d
  <2>3. (Work + quiet >= Cost)'
    <3>1. Work + quiet >= Cost
      BY DEF PromptInv
    <3> QED
      BY <1>0, <1>1, <1>3, <2>1, <3>1, LoopConstants
  <2> QED
    BY <1>1, <1>4, <1>8, <2>1, <2>2, <2>3 DEF PromptInv
<1> QED
  BY <1>1, <1>6, <1>7, <1>8

\* PromptInv is inductive.
LEMMA PromptStep ==
  ASSUME SlowArrivals, PromptInv, [LoopNext]_loopVars
  PROVE  PromptInv'
<1>1. CASE Receive
  <2>1. /\ at = "wait" /\ at' = "handle" /\ left' = Cost /\ inbox' = inbox - 1 /\ inbox > 0
        /\ UNCHANGED <<armed, age, unchecked, quiet, connected, exit>>
    BY <1>1 DEF Receive
  <2>2. LoopTypeOK'
    BY SMT, <2>1, LoopConstants DEF PromptInv, LoopTypeOK
  <2>3. Work' = Work
    <3>1. Cost * (inbox - 1) + Cost = Cost * inbox + 0
      BY LoopConstants DEF PromptInv, LoopTypeOK
    <3> QED
      BY <2>1, <3>1 DEF Work, Waiting
  <2> QED
    BY <2>1, <2>2, <2>3 DEF PromptInv, Load, LoadOf, LoadLimit
<1>2. CASE Ignored
  <2>1. at = "handle" /\ left = 0 /\ armed = TRUE /\ LoopTypeOK /\ Waiting \in Nat
    BY SMT, <1>2, LoopConstants DEF Ignored, PromptInv, LoopTypeOK, Waiting
  <2>2. Work = Waiting
    BY SMT, <2>1 DEF Work
  <2>3. /\ age \in 0..MaxAge /\ unchecked \in 0..MaxUnchecked
        /\ Waiting + quiet >= Cost /\ LoadOf(age, Waiting, quiet) <= LoadLimit
    BY <2>1, <2>2 DEF PromptInv, LoopTypeOK, Load
  <2>4. Turn(TRUE, age) /\ UNCHANGED <<armed, age, unchecked, inbox, quiet, connected, exit>>
    BY Zenon, <1>2, <2>1 DEF Ignored
  <2> QED
    BY Zenon, <2>1, <2>3, <2>4, AfterTurn
<1>3. CASE Restarted
  BY Zenon, <1>3, AfterRestart DEF Restarted
<1>4. CASE Committed
  <2>1. /\ at = "handle" /\ left = 0 /\ at' = "pause" /\ left' = Pause /\ armed' = FALSE /\ age' = 0
        /\ UNCHANGED <<unchecked, inbox, quiet, connected, exit>>
        /\ inbox \in 0..MaxInbox /\ quiet \in 0..Gap
    BY <1>4 DEF Committed, PromptInv, LoopTypeOK
  <2>2. LoopTypeOK'
    <3>1. Pause \in 0..Pause /\ 0 \in 0..MaxAge
      BY SMT, LoopConstants
    <3> QED
      BY Zenon, <2>1, <3>1 DEF PromptInv, LoopTypeOK
  <2>3. Waiting \in Nat /\ Waiting <= MaxInbox * Cost /\ Waiting' = Waiting
    BY SMT, <2>1, LoopConstants DEF Waiting
  <2>4. Work' = Waiting /\ Work = Waiting
    BY SMT, <2>1, <2>3 DEF Work
  <2>5. LoadOf(0, Waiting, quiet) = Gap * Waiting + Cost * quiet
    BY SMT, <2>1, <2>3, LoopConstants DEF LoadOf
  <2>6. (Load <= LoadLimit)'
    BY Zenon, <2>1, <2>3, <2>4, <2>5, FreshLoad DEF Load, LoadLimit, LoadOf
  <2> QED
    BY <2>1, <2>2, <2>4, <2>6 DEF PromptInv
<1>5. CASE StartHeight
  BY Zenon, <1>5, AfterRestart DEF StartHeight
<1>6. CASE CheckTimeouts
  BY Zenon, <1>6, CheckTimeoutsKeeps
<1>7. CASE Disconnected
  <2>1. /\ at = "wait" /\ at' = "stopped" /\ left' = 0
        /\ UNCHANGED <<armed, age, unchecked, inbox, quiet, connected, exit>>
    BY <1>7 DEF Disconnected
  <2>2. LoopTypeOK'
    BY SMT, <2>1, LoopConstants DEF PromptInv, LoopTypeOK
  <2>3. Work' = Work
    BY <2>1 DEF Work, Waiting
  <2> QED
    BY <2>1, <2>2, <2>3 DEF PromptInv
<1>8. CASE Arrive
  BY Zenon, <1>8, ArriveKeeps
<1>9. CASE DropSenders \/ SetExit \/ UNCHANGED loopVars
  <2>1. /\ UNCHANGED <<at, left, armed, age, unchecked, inbox, quiet>>
        /\ connected' \in BOOLEAN /\ exit' \in BOOLEAN
    BY <1>9 DEF DropSenders, SetExit, loopVars, PromptInv, LoopTypeOK
  <2> QED
    BY Zenon, <2>1 DEF PromptInv, LoopTypeOK, Work, Waiting, Load, LoadOf, LoadLimit
<1>10. CASE Tick
  BY Zenon, <1>10, TickKeeps
<1> QED
  BY Zenon, <1>1, <1>2, <1>3, <1>4, <1>5, <1>6, <1>7, <1>8, <1>9, <1>10
     DEF LoopNext, ThreadStep

\* The loop of ConsensusService::run acts on an expired timeout at once, or after
\* the message it is handling, for every poll interval, timeout, pause and cost of
\* a message, as long as messages arrive more slowly than they are handled.
THEOREM PromptTimeouts == SlowArrivals => (LoopSpec => []TimeoutIsPrompt)
<1> SUFFICES ASSUME SlowArrivals PROVE LoopSpec => []TimeoutIsPrompt
  OBVIOUS
<1>1. ASSUME LoopInit PROVE PromptInv
  <2>1. /\ at = "wait" /\ left = Budget(TRUE, 0) /\ armed = TRUE /\ age = 0 /\ unchecked = 0
        /\ inbox = 0 /\ quiet = Gap /\ connected = TRUE /\ exit = FALSE
    BY <1>1 DEF LoopInit
  <2>2. Budget(TRUE, 0) \in 0..Poll /\ (Budget(TRUE, 0) > 0 => 0 + Budget(TRUE, 0) <= Timeout)
    BY Zenon, BudgetBound, 0 \in Nat
  <2>3. LoopTypeOK
    <3>1. /\ 0 \in 0..MaxAge /\ 0 \in 0..MaxUnchecked /\ 0 \in 0..MaxInbox
          /\ Gap \in 0..Gap
      BY SMT, LoopConstants
    <3> QED
      BY Zenon, <2>1, <2>2, <3>1 DEF LoopTypeOK
  <2>4. Waiting = 0 /\ Work = 0
    BY SMT, <2>1, LoopConstants DEF Work, Waiting
  <2>5. Gap * 0 + Cost * Gap <= LoadLimit
    BY SMT, <1>1, LoopConstants, FreshLoad
  <2>6. LoadOf(0, 0, Gap) = Gap * 0 + Cost * Gap
    BY SMT, LoopConstants DEF LoadOf
  <2>7. Load <= LoadLimit
    BY Zenon, <2>1, <2>4, <2>5, <2>6 DEF Load
  <2>8. Work + quiet >= Cost
    BY SMT, <1>1, <2>1, <2>4, LoopConstants DEF SlowArrivals
  <2> QED
    BY <2>1, <2>2, <2>3, <2>7, <2>8 DEF PromptInv
<1>2. PromptInv /\ [LoopNext]_loopVars => PromptInv'
  BY PromptStep
<1>3. PromptInv => TimeoutIsPrompt
  BY LoadBoundsAge
<1> QED
  BY <1>1, <1>2, <1>3, PTL DEF LoopSpec

-----------------------------------------------------------------------------
(***************************************************************************)
(* BlockProducer: a bank's parent is frozen.                               *)
(***************************************************************************)

\* The banks form a finite tree rooted at the root slot; an open bank is one
\* the replay stage is working on.
TreeOfBanks ==
  /\ banks = [s \in DOMAIN banks |-> banks[s]]
  /\ IsFiniteSet(DOMAIN banks) /\ DOMAIN banks \subseteq Nat /\ Root \in DOMAIN banks
  /\ \A s \in DOMAIN banks :
       /\ banks[s] = Bank(banks[s].parent, banks[s].left, banks[s].frozen)
       /\ banks[s].parent \in DOMAIN banks

\* Each thread remembers slots across its critical sections: the service the
\* parent it has frozen, the replay stage the slots whose parents are frozen.
ParentsInv ==
  /\ TreeOfBanks
  /\ ParentsAreFrozen
  /\ exec.parent \in DOMAIN banks
  /\ exec.at = "child" => banks[exec.parent].frozen
  /\ replay.at = "forks" => \A s \in replay.slots :
       s \in DOMAIN LedgerParent /\ LedgerParent[s] \in Frozen
  /\ replay.at = "replay" => replay.slots \subseteq DOMAIN banks

\* BankForks always has a working bank.
LEMMA WorkingBankExists ==
  ASSUME TreeOfBanks
  PROVE  WorkingSlot \in DOMAIN banks
<1>1. \E s \in DOMAIN banks : \A t \in DOMAIN banks : t <= s
  <2>1. IsFiniteSet(DOMAIN banks) /\ DOMAIN banks \subseteq Nat /\ DOMAIN banks # {}
    BY Zenon DEF TreeOfBanks
  <2> QED
    BY Zenon, <2>1, FiniteGreatest
<1> QED
  BY Zenon, <1>1 DEF WorkingSlot

\* The banks loaded at startup.
LEMMA ParentsInit == ProducerInit => ParentsInv
<1>1. SUFFICES ASSUME ProducerInit PROVE ParentsInv
  OBVIOUS
<1>2. PICK S \in Startup :
        banks = [s \in S |-> Bank(IF s = Root THEN Root ELSE LedgerParent[s], 0, TRUE)]
  BY <1>1 DEF ProducerInit
<1>3. DOMAIN banks = S /\ Root \in S
  BY <1>2, ProducerAssumption DEF Root
<1>4. S \subseteq DOMAIN LedgerParent \cup {0}
  BY ProducerAssumption
<1>5. IsFiniteSet(S) /\ S \subseteq Nat
  <2>1. IsFiniteSet(DOMAIN LedgerParent \cup {0})
    BY Zenon, ProducerAssumption, FS_AddElement
  <2>2. IsFiniteSet(S)
    BY Zenon, <1>4, <2>1, FS_Subset
  <2> QED
    BY SMT, <1>4, <2>2, ProducerAssumption
<1>6. ASSUME NEW s \in S
      PROVE  /\ banks[s].parent = (IF s = Root THEN Root ELSE LedgerParent[s])
             /\ banks[s].frozen = TRUE /\ banks[s].parent \in S
             /\ banks[s] = Bank(banks[s].parent, banks[s].left, banks[s].frozen)
  <2>1. banks[s] = Bank(IF s = Root THEN Root ELSE LedgerParent[s], 0, TRUE)
    BY <1>2
  <2>2. banks[s].parent = (IF s = Root THEN Root ELSE LedgerParent[s])
        /\ banks[s].frozen = TRUE /\ banks[s].left = 0
    BY SMT, <2>1 DEF Bank
  <2>3. s # Root => LedgerParent[s] \in S
    BY ProducerAssumption DEF Root
  <2> QED
    BY <1>3, <2>1, <2>2, <2>3
<1>7. TreeOfBanks
  BY <1>2, <1>3, <1>5, <1>6 DEF TreeOfBanks
<1>8. ParentsAreFrozen
  <2>1. \A s \in S \ {Root} : LedgerParent[s] \in 0 .. s - 1 /\ s \in Nat
    BY <1>5, ProducerAssumption DEF Root
  <2>2. SUFFICES ASSUME NEW s \in S \ {Root}
                 PROVE  banks[s].parent < s /\ banks[banks[s].parent].frozen
    BY <1>3 DEF ParentsAreFrozen
  <2>3. banks[s].parent = LedgerParent[s] /\ banks[s].parent \in S
    BY Zenon, <1>6, <2>2
  <2>4. banks[banks[s].parent].frozen = TRUE
    BY Zenon, <1>6, <2>3
  <2> QED
    BY SMT, <2>1, <2>2, <2>3, <2>4
<1>9. exec = ServiceIdle /\ replay = ReplayIdle
  BY <1>1 DEF ProducerInit
<1> QED
  BY <1>3, <1>7, <1>8, <1>9 DEF ParentsInv, ServiceIdle, ReplayIdle

\* A step keeps the banks, their parents and what is frozen.
Kept ==
  \A s \in DOMAIN banks :
    /\ s \in DOMAIN banks' /\ banks'[s].parent = banks[s].parent
    /\ banks[s].frozen => banks'[s].frozen

\* A bank that is added has a frozen parent in a lower slot.
LEMMA AddedBanks ==
  ASSUME ParentsInv, Kept,
         \A s \in DOMAIN banks' \ DOMAIN banks :
           /\ banks'[s].parent \in DOMAIN banks /\ banks'[s].parent < s
           /\ banks[banks'[s].parent].frozen
  PROVE  /\ ParentsAreFrozen'
         /\ \A s \in Frozen : s \in Frozen'
<1>1. \A s \in DOMAIN banks : banks[s].parent \in DOMAIN banks
  BY DEF ParentsInv, TreeOfBanks
<1>2. ASSUME NEW s \in DOMAIN banks' \ {Root}
      PROVE  banks'[s].parent < s /\ banks'[banks'[s].parent].frozen
  <2>1. CASE s \in DOMAIN banks
    <3>1. banks[s].parent < s /\ banks[banks[s].parent].frozen /\ banks[s].parent \in DOMAIN banks
      BY Zenon, <1>1, <1>2, <2>1 DEF ParentsInv, ParentsAreFrozen
    <3> QED
      BY Zenon, <2>1, <3>1 DEF Kept
  <2>2. CASE s \notin DOMAIN banks
    BY Zenon, <1>2, <2>2 DEF Kept
  <2> QED
    BY <2>1, <2>2
<1>3. ParentsAreFrozen'
  BY Zenon, <1>2 DEF ParentsAreFrozen, Root
<1> QED
  BY Zenon, <1>3 DEF Frozen, Kept

\* new_from_parent freezes the parent; the tree keeps its shape.
LEMMA MakeChildKeeps ==
  ASSUME ParentsInv, MakeChild
  PROVE  ParentsInv'
<1> DEFINE p == exec.parent
<1>1. /\ TreeOfBanks /\ p \in DOMAIN banks /\ UNCHANGED replay
      /\ exec' = [exec EXCEPT !.at = "child"]
      /\ banks' = [banks EXCEPT ![p].frozen = TRUE]
  BY DEF ParentsInv, MakeChild
<1>2. DOMAIN banks' = DOMAIN banks
  BY <1>1
<1>3. ASSUME NEW s \in DOMAIN banks
      PROVE  /\ banks'[s].parent = banks[s].parent
             /\ banks'[s].frozen = (IF s = p THEN TRUE ELSE banks[s].frozen)
             /\ banks'[s] = Bank(banks'[s].parent, banks'[s].left, banks'[s].frozen)
  <2>1. banks[s] = Bank(banks[s].parent, banks[s].left, banks[s].frozen)
    BY <1>1 DEF TreeOfBanks
  <2>2. CASE s = p
    <3>1. banks'[s] = [banks[s] EXCEPT !.frozen = TRUE]
      BY <1>1, <2>2
    <3> QED
      BY <2>1, <2>2, <3>1 DEF Bank
  <2>3. CASE s # p
    BY <1>1, <2>1, <2>3
  <2> QED
    BY <2>2, <2>3
<1>4. Kept
  BY Zenon, <1>2, <1>3 DEF Kept
<1>5. TreeOfBanks'
  <2>1. banks' = [s \in DOMAIN banks' |-> banks'[s]]
    BY <1>1
  <2> QED
    BY Zenon, <1>1, <1>2, <1>3, <2>1 DEF TreeOfBanks, Root
<1>6. ParentsAreFrozen' /\ \A s \in Frozen : s \in Frozen'
  BY Zenon, <1>2, <1>4, AddedBanks
<1>7. exec'.parent = p
  BY SMT, <1>1
<1>8. exec'.parent \in DOMAIN banks' /\ banks'[exec'.parent].frozen
  BY Zenon, <1>1, <1>2, <1>3, <1>7
<1> HIDE DEF p
<1> QED
  BY Zenon, <1>1, <1>2, <1>5, <1>6, <1>8 DEF ParentsInv

\* BankForks::insert of the child: its parent is frozen, its slot the next one.
LEMMA InsertChildKeeps ==
  ASSUME ParentsInv, InsertChild
  PROVE  ParentsInv'
<1> DEFINE p == exec.parent
           slot == exec.parent + 1
           child == Bank(p, 0, TRUE)
<1>1. CASE slot \in DOMAIN banks
  <2>1. UNCHANGED <<banks, exec, replay>>
    BY <1>1 DEF InsertChild
  <2> QED
    BY Zenon, <2>1 DEF ParentsInv, TreeOfBanks, ParentsAreFrozen, Frozen, Root
<1>2. CASE slot \notin DOMAIN banks
  <2>1. /\ banks' = [s \in DOMAIN banks \union {slot} |-> IF s = slot THEN child ELSE banks[s]]
        /\ exec' = ServiceIdle /\ UNCHANGED replay
    BY <1>2 DEF InsertChild
  <2>2. TreeOfBanks /\ p \in DOMAIN banks /\ p \in Nat /\ banks[p].frozen
    BY Zenon DEF ParentsInv, InsertChild, TreeOfBanks
  <2>3. child.parent = p /\ child = Bank(child.parent, child.left, child.frozen)
    BY DEF Bank
  <2> HIDE DEF child
  <2>4. p < slot /\ slot \in Nat
    BY SMT, <2>2
  <2> HIDE DEF slot, p
  <2>5. DOMAIN banks' = DOMAIN banks \union {slot} /\ banks'[slot] = child
        /\ \A s \in DOMAIN banks : banks'[s] = banks[s]
    BY <1>2, <2>1
  <2>6. Kept
    BY Zenon, <2>5 DEF Kept
  <2>7. TreeOfBanks'
    <3>1. banks' = [s \in DOMAIN banks' |-> banks'[s]]
      BY <2>1
    <3>2. IsFiniteSet(DOMAIN banks')
      <4>1. IsFiniteSet(DOMAIN banks \union {slot})
        BY Zenon, <2>2, FS_AddElement DEF TreeOfBanks
      <4> QED
        BY Zenon, <2>5, <4>1
    <3>3. DOMAIN banks' \subseteq Nat /\ Root \in DOMAIN banks'
      BY Zenon, <2>2, <2>4, <2>5 DEF TreeOfBanks
    <3>4. \A s \in DOMAIN banks' :
            /\ banks'[s] = Bank(banks'[s].parent, banks'[s].left, banks'[s].frozen)
            /\ banks'[s].parent \in DOMAIN banks'
      BY Zenon, <2>2, <2>3, <2>5 DEF TreeOfBanks
    <3> QED
      BY Zenon, <3>1, <3>2, <3>3, <3>4 DEF TreeOfBanks, Root
  <2>8. ParentsAreFrozen' /\ \A s \in Frozen : s \in Frozen'
    BY Zenon, <2>2, <2>3, <2>4, <2>5, <2>6, AddedBanks
  <2>9. exec'.at = "consensus" /\ exec'.parent = Root
    BY <2>1 DEF ServiceIdle
  <2>10. exec'.parent \in DOMAIN banks' /\ exec'.at # "child"
    BY <2>7, <2>9 DEF TreeOfBanks, Root
  <2> QED
    BY Zenon, <2>1, <2>5, <2>7, <2>8, <2>10 DEF ParentsInv
<1> QED
  BY <1>1, <1>2

\* generate_new_bank_forks inserts children of the frozen banks it saw under its
\* first lock; they are frozen still.
LEMMA InsertForksKeeps ==
  ASSUME ParentsInv, InsertForks
  PROVE  ParentsInv'
<1> DEFINE new == replay.slots
<1>1. CASE new \intersect DOMAIN banks # {}
  <2>1. UNCHANGED <<banks, exec, replay>>
    BY <1>1 DEF InsertForks
  <2> QED
    BY Zenon, <2>1 DEF ParentsInv, TreeOfBanks, ParentsAreFrozen, Frozen, Root
<1>2. CASE new \intersect DOMAIN banks = {}
  <2>1. /\ banks' = [s \in DOMAIN banks \union new |->
             IF s \in new THEN Bank(LedgerParent[s], Entries, FALSE) ELSE banks[s]]
        /\ replay' = ReplayIdle /\ UNCHANGED exec
    BY <1>2 DEF InsertForks
  <2>2. /\ TreeOfBanks
        /\ \A s \in new : s \in DOMAIN LedgerParent /\ LedgerParent[s] \in DOMAIN banks
                          /\ banks[LedgerParent[s]].frozen
    BY Zenon DEF ParentsInv, InsertForks, Frozen
  <2> HIDE DEF new
  <2>3. /\ DOMAIN banks' = DOMAIN banks \union new
        /\ \A s \in new : banks'[s] = Bank(LedgerParent[s], Entries, FALSE)
        /\ \A s \in DOMAIN banks : banks'[s] = banks[s]
    BY <1>2, <2>1
  <2>4. ASSUME NEW s \in new
        PROVE  /\ banks'[s].parent = LedgerParent[s] /\ LedgerParent[s] < s /\ s \in Nat
               /\ banks'[s] = Bank(banks'[s].parent, banks'[s].left, banks'[s].frozen)
    <3>1. s \in Nat /\ LedgerParent[s] \in 0 .. s - 1
      BY <2>2, ProducerAssumption
    <3>2. banks'[s] = [parent |-> LedgerParent[s], left |-> Entries, frozen |-> FALSE]
      BY Zenon, <2>3 DEF Bank
    <3> QED
      BY SMT, <3>1, <3>2 DEF Bank
  <2>5. Kept
    BY Zenon, <2>3 DEF Kept
  <2>6. TreeOfBanks'
    <3>1. banks' = [s \in DOMAIN banks' |-> banks'[s]]
      BY <2>1
    <3>2. IsFiniteSet(DOMAIN banks')
      <4>1. new \in SUBSET DOMAIN LedgerParent
        BY <2>2
      <4>2. IsFiniteSet(new) /\ IsFiniteSet(DOMAIN banks)
        BY Zenon, <2>2, <4>1, ProducerAssumption, FS_Subset DEF TreeOfBanks
      <4> QED
        BY Zenon, <2>3, <4>2, FS_Union
    <3>3. DOMAIN banks' \subseteq Nat /\ Root \in DOMAIN banks'
      BY Zenon, <2>2, <2>3, <2>4 DEF TreeOfBanks
    <3>4. \A s \in DOMAIN banks' :
            /\ banks'[s] = Bank(banks'[s].parent, banks'[s].left, banks'[s].frozen)
            /\ banks'[s].parent \in DOMAIN banks'
      BY Zenon, <2>2, <2>3, <2>4 DEF TreeOfBanks
    <3> QED
      BY Zenon, <3>1, <3>2, <3>3, <3>4 DEF TreeOfBanks, Root
  <2>7. ParentsAreFrozen' /\ \A s \in Frozen : s \in Frozen'
    <3>1. \A s \in DOMAIN banks' \ DOMAIN banks :
            /\ banks'[s].parent \in DOMAIN banks /\ banks'[s].parent < s
            /\ banks[banks'[s].parent].frozen
      BY Zenon, <2>2, <2>3, <2>4
    <3> QED
      BY Zenon, <2>5, <3>1, AddedBanks
  <2>8. replay'.at = "idle"
    BY <2>1 DEF ReplayIdle
  <2>9. replay'.at # "forks" /\ replay'.at # "replay"
    BY <2>8
  <2> QED
    BY Zenon, <2>1, <2>3, <2>5, <2>6, <2>7, <2>9 DEF ParentsInv, Kept
<1> QED
  BY <1>1, <1>2

\* Replaying an entry writes an open bank, which is nobody's parent, or freezes it.
LEMMA ReplayEntryKeeps ==
  ASSUME ParentsInv, ReplayEntry
  PROVE  ParentsInv'
<1>1. PICK s \in replay.slots :
        IF banks[s].frozen
        THEN UNCHANGED <<banks, replay>>
        ELSE /\ banks' = [banks EXCEPT ![s] =
                  Bank(banks[s].parent, banks[s].left - 1, banks[s].left = 1)]
             /\ replay' = ReplayIdle
  BY DEF ReplayEntry
<1>2. UNCHANGED exec /\ s \in DOMAIN banks /\ TreeOfBanks
  BY Zenon, <1>1 DEF ReplayEntry, ParentsInv
<1>3. CASE banks[s].frozen
  <2>1. UNCHANGED <<banks, exec, replay>>
    BY <1>1, <1>2, <1>3
  <2> QED
    BY Zenon, <2>1 DEF ParentsInv, TreeOfBanks, ParentsAreFrozen, Frozen, Root
<1>4. CASE ~banks[s].frozen
  <2> DEFINE b == Bank(banks[s].parent, banks[s].left - 1, banks[s].left = 1)
  <2>1. banks' = [banks EXCEPT ![s] = b] /\ replay' = ReplayIdle
    BY <1>1, <1>4
  <2>2. b.parent = banks[s].parent /\ b = Bank(b.parent, b.left, b.frozen)
    BY DEF Bank
  <2> HIDE DEF b
  <2>3. DOMAIN banks' = DOMAIN banks /\ banks'[s] = b
        /\ \A t \in DOMAIN banks : t # s => banks'[t] = banks[t]
    BY <1>2, <2>1
  <2>4. Kept
    BY Zenon, <1>4, <2>2, <2>3 DEF Kept
  <2>5. TreeOfBanks'
    <3>1. banks' = [t \in DOMAIN banks' |-> banks'[t]]
      BY <2>1
    <3> QED
      BY Zenon, <1>2, <2>2, <2>3, <3>1 DEF TreeOfBanks, Root
  <2>6. ParentsAreFrozen' /\ \A t \in Frozen : t \in Frozen'
    BY Zenon, <2>3, <2>4, AddedBanks
  <2>7. replay'.at = "idle"
    BY <2>1 DEF ReplayIdle
  <2>8. replay'.at # "forks" /\ replay'.at # "replay"
    BY <2>7
  <2> QED
    BY Zenon, <1>2, <2>3, <2>4, <2>5, <2>6, <2>8 DEF ParentsInv, Kept
<1> QED
  BY <1>3, <1>4

\* Whichever thread made it, a bank starts from a parent that can no longer
\* change, for every ledger, every set of banks loaded at startup and every
\* interleaving of the consensus service with the replay stage.
THEOREM FrozenParents == ProducerSpec => []ParentsAreFrozen
<1>1. ParentsInv /\ [ProducerNext]_producerVars => ParentsInv'
  <2> SUFFICES ASSUME ParentsInv, [ProducerNext]_producerVars PROVE ParentsInv'
    OBVIOUS
  <2>1. CASE SendBatch \/ CreateBlock \/ UNCHANGED producerVars
    <3>1. UNCHANGED <<banks, exec, replay>>
      BY Zenon, <2>1 DEF SendBatch, CreateBlock, producerVars
    <3> QED
      BY Zenon, <3>1 DEF ParentsInv, TreeOfBanks, ParentsAreFrozen, Frozen, Root
  <2>2. CASE ExecuteBlock
    <3>1. UNCHANGED <<banks, replay>> /\ exec' = [at |-> "unlocked", parent |-> WorkingSlot]
      BY <2>2 DEF ExecuteBlock
    <3>2. exec'.at # "child" /\ exec'.parent = WorkingSlot
      BY <3>1
    <3>3. exec'.parent \in DOMAIN banks
      BY Zenon, <3>2, WorkingBankExists DEF ParentsInv
    <3> QED
      BY Zenon, <3>1, <3>2, <3>3 DEF ParentsInv, TreeOfBanks, ParentsAreFrozen, Frozen, Root
  <2>3. CASE MakeChild
    BY <2>3, MakeChildKeeps
  <2>4. CASE InsertChild
    BY <2>4, InsertChildKeeps
  <2>5. CASE GenerateForks
    <3> DEFINE new == {s \in DOMAIN LedgerParent \ DOMAIN banks : LedgerParent[s] \in Frozen}
    <3>1. UNCHANGED <<banks, exec>> /\ replay' = [at |-> "forks", slots |-> new]
      BY <2>5 DEF GenerateForks
    <3>2. replay'.at # "replay" /\ replay'.slots = new
      BY <3>1
    <3>3. \A s \in replay'.slots : s \in DOMAIN LedgerParent /\ LedgerParent[s] \in Frozen
      BY Zenon, <3>2
    <3> HIDE DEF new
    <3> QED
      BY Zenon, <3>1, <3>2, <3>3 DEF ParentsInv, TreeOfBanks, ParentsAreFrozen, Frozen, Root
  <2>6. CASE InsertForks
    BY <2>6, InsertForksKeeps
  <2>7. CASE ReplayActiveBanks
    <3>1. PICK s \in DOMAIN banks \ Frozen : replay' = [at |-> "replay", slots |-> {s}]
      BY <2>7 DEF ReplayActiveBanks
    <3>2. UNCHANGED <<banks, exec>> /\ replay'.at # "forks" /\ replay'.slots \subseteq DOMAIN banks
      BY <2>7, <3>1 DEF ReplayActiveBanks
    <3> QED
      BY Zenon, <3>2 DEF ParentsInv, TreeOfBanks, ParentsAreFrozen, Frozen, Root
  <2>8. CASE ReplayEntry
    BY <2>8, ReplayEntryKeeps
  <2> QED
    BY Zenon, <2>1, <2>2, <2>3, <2>4, <2>5, <2>6, <2>7, <2>8 DEF ProducerNext
<1>2. ParentsInv => ParentsAreFrozen
  BY DEF ParentsInv
<1> QED
  BY <1>1, <1>2, ParentsInit, PTL DEF ProducerSpec

-----------------------------------------------------------------------------
(***************************************************************************)
(* BlockProducer: proposing takes the transactions in order.               *)
(***************************************************************************)

\* The channel holds batches.
QueueInv == queue \in Seq(Batches)

LEMMA ConcatType ==
  ASSUME NEW T, NEW a \in Seq(T), NEW b \in Seq(T)
  PROVE  a \o b \in Seq(T) /\ Len(a \o b) = Len(a) + Len(b)
  BY SMT

\* What the first n batches hold, batch by batch: the equations of FirstBatches.
LEMMA FirstBatchesUnfold ==
  ASSUME NEW q \in Seq(Batches)
  PROVE  /\ FirstBatches(q, 0) = <<>>
         /\ \A n \in 1..Len(q) : FirstBatches(q, n) = FirstBatches(q, n - 1) \o q[n]
         /\ \A n \in 0..Len(q) : FirstBatches(q, n) \in Seq(Transactions)
<1> DEFINE V == Seq(Transactions)
           N == Len(q)
           step == [p \in Nat \X V |-> IF p[1] \in 1..N THEN p[2] \o q[p[1]] ELSE p[2]]
           Joined(g) == [m \in 0..N |-> IF m = 0 THEN <<>> ELSE g[m - 1] \o q[m]]
<1>1. N \in Nat /\ \A m \in 1..N : q[m] \in V
  BY SMT, ProducerAssumption
<1>2. StaysIn(step, V)
  <2> SUFFICES ASSUME NEW m \in Nat, NEW v \in V PROVE step[<<m, v>>] \in V
    BY DEF StaysIn
  <2>1. step[<<m, v>>] = IF m \in 1..N THEN v \o q[m] ELSE v
    OBVIOUS
  <2>2. m \in 1..N => v \o q[m] \in V
    BY SMT, <1>1
  <2> QED
    BY <2>1, <2>2
<1>3. <<>> \in V
  BY SMT
<1>4. PICK g \in [0..N -> V] : g = Recursion(<<>>, step, N, g)
  <2>1. N \in Nat
    BY <1>1
  <2> HIDE DEF V, N, step
  <2>2. \E g : Solves(g, <<>>, step, N, V)
    BY <1>2, <1>3, <2>1, RecursionExists
  <2> QED
    BY <2>2 DEF Solves
<1>5. g = Joined(g)
  <2>1. ASSUME NEW m \in 0..N
        PROVE  g[m] = Joined(g)[m]
    <3>1. CASE m = 0
      BY <1>4, <3>1 DEF Recursion
    <3>2. CASE m # 0
      <4>1. m \in Nat /\ m \in 1..N /\ m - 1 \in 0..N
        BY SMT, <1>1, <3>2
      <4>2. g[m - 1] \in V
        BY <4>1
      <4>3. step[<<m, g[m - 1]>>] = g[m - 1] \o q[m]
        BY <4>1, <4>2
      <4>4. g[m] = step[<<m, g[m - 1]>>]
        <5> HIDE DEF step, N
        <5> QED
          BY <1>4, <3>2 DEF Recursion
      <4> QED
        BY <3>2, <4>3, <4>4
    <3> QED
      BY <3>1, <3>2
  <2>2. g = [m \in 0..N |-> g[m]]
    OBVIOUS
  <2> QED
    BY <2>1, <2>2
<1> DEFINE f == CHOOSE h : h = Joined(h)
<1>6. f = Joined(f)
  BY Zenon, <1>5
<1>7. \A n : FirstBatches(q, n) = f[n]
  BY DEF FirstBatches
<1> HIDE DEF f
<1>8. f[0] = <<>> /\ \A n \in 1..N : f[n] = f[n - 1] \o q[n]
  <2>1. f[0] = Joined(f)[0] /\ \A n \in 1..N : f[n] = Joined(f)[n]
    BY Zenon, <1>6
  <2>2. 0 \in 0..N /\ \A n \in 1..N : n \in 0..N /\ n # 0
    BY SMT, <1>1
  <2> QED
    BY Zenon, <2>1, <2>2
<1>9. \A n \in 0..N : f[n] \in V
  <2> DEFINE X == {n \in Nat : n <= N => f[n] \in V}
  <2>1. 0 \in X
    BY <1>3, <1>8
  <2>2. ASSUME NEW n \in Nat, n \in X PROVE n + 1 \in X
    <3>1. CASE n + 1 <= N
      <4>1. n + 1 \in 1..N /\ n + 1 - 1 = n /\ f[n] \in V
        BY SMT, <1>1, <2>2, <3>1
      <4>2. f[n + 1] = f[n] \o q[n + 1] /\ q[n + 1] \in V
        BY <1>1, <1>8, <4>1
      <4>3. f[n] \o q[n + 1] \in V
        BY Zenon, <4>1, <4>2, ConcatType
      <4>4. n + 1 \in Nat
        BY SMT
      <4> QED
        BY Zenon, <4>2, <4>3, <4>4
    <3>2. CASE ~ (n + 1 <= N)
      BY SMT, <3>2
    <3> QED
      BY <3>1, <3>2
  <2>3. Nat \subseteq X
    <3> HIDE DEF X
    <3> QED
      BY <2>1, <2>2, SetInduction
  <2> QED
    BY SMT, <2>3
<1> QED
  BY <1>7, <1>8, <1>9

\* The drain stops at the first batch that fills the block, if one does.
LEMMA DrainedStops ==
  ASSUME NEW q \in Seq(Batches)
  PROVE  /\ Drained(q) \in 0..Len(q)
         /\ \A m \in 0..(Drained(q) - 1) : Len(FirstBatches(q, m)) < MaxTransactions
<1> DEFINE Full(n) == Len(FirstBatches(q, n)) >= MaxTransactions
           Stop(n) == /\ \A m \in 0..(n - 1) : Len(FirstBatches(q, m)) < MaxTransactions
                      /\ n < Len(q) => Full(n)
           X == {n \in 0..Len(q) : n < Len(q) => Full(n)}
<1>1. Len(q) \in X /\ X \subseteq Nat
  BY SMT
<1>2. PICK n \in X : \A m \in X : n <= m
  <2> HIDE DEF X
  <2> QED
    BY Zenon, <1>1, LeastNatural
<1>3. ASSUME NEW m \in 0..(n - 1)
      PROVE  Len(FirstBatches(q, m)) < MaxTransactions
  <2>1. m \in 0..Len(q) /\ m < Len(q) /\ ~ (n <= m)
    BY <1>2
  <2>2. m \notin X
    BY Zenon, <1>2, <2>1
  <2>3. ~ Full(m)
    BY Zenon, <2>1, <2>2
  <2>4. Len(FirstBatches(q, m)) \in Nat /\ MaxTransactions \in Nat
    BY SMT, <2>1, FirstBatchesUnfold, ProducerAssumption
  <2> QED
    BY SMT, <2>3, <2>4
<1>4. n \in 0..Len(q) /\ Stop(n)
  BY <1>2, <1>3
<1>5. Drained(q) = CHOOSE k \in 0..Len(q) : Stop(k)
  BY DEF Drained
<1>6. Drained(q) \in 0..Len(q) /\ Stop(Drained(q))
  <2> HIDE DEF Stop
  <2> QED
    BY Zenon, <1>4, <1>5
<1> QED
  BY <1>6

\* What is taken from the channel and what is proposed of it, in one proposal.
LEMMA ProposalKeepsOrder ==
  ASSUME QueueInv, CreateBlock
  PROVE  LET n == Len(queue) - Len(queue')
             txs == FirstBatches(queue, n)
         IN /\ queue' = SubSeq(queue, n + 1, Len(queue))
            /\ block' = SubSeq(txs, 1, Len(block'))
            /\ block' # txs => /\ Len(block') = MaxTransactions
                               /\ Len(txs) - Len(block') < Len(queue[n])
<1> DEFINE n == Drained(queue)
           txs == FirstBatches(queue, n)
<1>1. /\ queue \in Seq(Batches) /\ n \in 0..Len(queue)
      /\ \A m \in 0..(n - 1) : Len(FirstBatches(queue, m)) < MaxTransactions
  BY DrainedStops DEF QueueInv
<1>2. queue' = SubSeq(queue, n + 1, Len(queue)) /\ block' = Taken(txs)
  BY DEF CreateBlock
<1>3. txs \in Seq(Transactions) /\ MaxTransactions \in Nat \ {0}
  BY <1>1, FirstBatchesUnfold, ProducerAssumption
<1>4. n >= 1 => /\ FirstBatches(queue, n - 1) \in Seq(Transactions)
                /\ queue[n] \in Seq(Transactions)
                /\ txs = FirstBatches(queue, n - 1) \o queue[n]
                /\ Len(FirstBatches(queue, n - 1)) < MaxTransactions
  <2> HIDE DEF n
  <2> SUFFICES ASSUME n >= 1
               PROVE  /\ FirstBatches(queue, n - 1) \in Seq(Transactions)
                      /\ queue[n] \in Seq(Transactions)
                      /\ FirstBatches(queue, n) = FirstBatches(queue, n - 1) \o queue[n]
                      /\ Len(FirstBatches(queue, n - 1)) < MaxTransactions
    OBVIOUS
  <2>1. n \in 1..Len(queue) /\ n - 1 \in 0..Len(queue) /\ n - 1 \in 0..(n - 1)
    BY SMT, <1>1
  <2>2. queue[n] \in Seq(Transactions)
    BY SMT, <1>1, <2>1, ProducerAssumption
  <2> QED
    BY <1>1, <2>1, <2>2, FirstBatchesUnfold
<1>5. n = 0 => txs = <<>>
  BY <1>1, FirstBatchesUnfold
<1> HIDE DEF n, txs
<1>6. Len(queue') = Len(queue) - n
  BY SMT, <1>1, <1>2
<1>7. Len(queue) - Len(queue') = n
  BY SMT, <1>1, <1>6
<1>8. /\ block' = SubSeq(txs, 1, Len(block'))
      /\ block' # txs => Len(block') = MaxTransactions /\ Len(txs) > MaxTransactions
  BY <1>2, <1>3 DEF Taken
<1>9. ASSUME block' # txs
      PROVE  Len(txs) - Len(block') < Len(queue[n])
  <2>1. n >= 1
    <3>1. n # 0
      BY <1>3, <1>5, <1>8, <1>9
    <3> QED
      BY SMT, <1>1, <3>1
  <2> DEFINE prior == FirstBatches(queue, n - 1)
             last == queue[n]
  <2>2. /\ prior \in Seq(Transactions) /\ last \in Seq(Transactions)
        /\ txs = prior \o last /\ Len(prior) < MaxTransactions
    BY <1>4, <2>1
  <2> HIDE DEF prior, last
  <2>3. Len(txs) = Len(prior) + Len(last)
    BY SMT, <2>2
  <2>4. Len(txs) - MaxTransactions < Len(last)
    BY <1>3, <2>2, <2>3
  <2> QED
    BY <1>8, <1>9, <2>4 DEF last
<1> QED
  BY <1>2, <1>7, <1>8, <1>9 DEF txs

LEMMA QueueStep == QueueInv /\ unsent \subseteq Batches /\ [ProducerNext]_producerVars
                     => QueueInv' /\ unsent' \subseteq Batches
<1> SUFFICES ASSUME QueueInv, unsent \subseteq Batches, [ProducerNext]_producerVars
             PROVE  QueueInv' /\ unsent' \subseteq Batches
  OBVIOUS
<1>1. CASE SendBatch
  BY SMT, <1>1 DEF SendBatch, QueueInv
<1>2. CASE CreateBlock
  <2>1. /\ queue' = SubSeq(queue, Drained(queue) + 1, Len(queue))
        /\ unsent' = unsent
    BY <1>2 DEF CreateBlock
  <2>2. Drained(queue) \in 0..Len(queue)
    BY DrainedStops DEF QueueInv
  <2> QED
    BY SMT, <2>1, <2>2 DEF QueueInv
<1>3. CASE UNCHANGED <<queue, unsent>>
  BY <1>3 DEF QueueInv
<1> QED
  BY Zenon, <1>1, <1>2, <1>3 DEF ProducerNext, producerVars, ExecuteBlock, MakeChild, InsertChild,
     GenerateForks, InsertForks, ReplayActiveBanks, ReplayEntry

\* Whatever batches are sent and however they fill blocks, a proposal holds the
\* transactions in the order they were sent, and loses only the tail of the
\* last batch it took (create_block).
THEOREM ProposalsKeepOrder == ProducerSpec => DrainKeepsOrder
<1> DEFINE Inv == QueueInv /\ unsent \subseteq Batches
           Order == queue' # queue /\ Len(queue') <= Len(queue) =>
                      LET n == Len(queue) - Len(queue')
                          txs == FirstBatches(queue, n) IN
                      /\ queue' = SubSeq(queue, n + 1, Len(queue))
                      /\ block' = SubSeq(txs, 1, Len(block'))
                      /\ block' # txs => /\ Len(block') = MaxTransactions
                                         /\ Len(txs) - Len(block') < Len(queue[n])
<1>1. ProducerInit => Inv
  BY SMT DEF ProducerInit, QueueInv
<1>2. Inv /\ [ProducerNext]_producerVars => Inv'
  BY QueueStep
<1>3. Inv /\ [ProducerNext]_producerVars => [Order]_producerVars
  <2> SUFFICES ASSUME Inv, ProducerNext PROVE Order
    OBVIOUS
  <2>1. CASE SendBatch
    <3>1. PICK b \in unsent : queue' = Append(queue, b)
      BY <2>1 DEF SendBatch
    <3>2. Len(queue') = Len(queue) + 1
      BY SMT, <3>1 DEF QueueInv
    <3>3. ~ (Len(queue') <= Len(queue))
      BY SMT, <3>2 DEF QueueInv
    <3> QED
      BY <3>3
  <2>2. CASE CreateBlock
    BY <2>2, ProposalKeepsOrder
  <2>3. CASE queue' = queue
    BY <2>3
  <2> QED
    BY Zenon, <2>1, <2>2, <2>3 DEF ProducerNext, ExecuteBlock, MakeChild, InsertChild,
       GenerateForks, InsertForks, ReplayActiveBanks, ReplayEntry
<1> QED
  BY <1>1, <1>2, <1>3, PTL DEF ProducerSpec, DrainKeepsOrder

-----------------------------------------------------------------------------
(***************************************************************************)
(* Proofs about BlockSync, for any peers, heights, limits and bounds.      *)
(* NoHeightLost is inductive only together with RetryPending: a height     *)
(* that a retry loop has still to treat is pending all along.              *)
(***************************************************************************)

Requests == [attempts: Nat, peer: Keys \cup {NoPeer}, late: BOOLEAN]

SyncType ==
  /\ pending \in [Heights -> Requests]
  /\ completed \subseteq Heights /\ failed \subseteq Heights /\ asked \subseteq Heights
  /\ delivered \in [Heights -> Nat]
  /\ call \in [op: {"none", "range", "retry"}, todo: SUBSET Heights]

RetryPending == call.op = "retry" => call.todo \subseteq Pending

SyncInv == SyncType /\ RetryPending /\ NoHeightLost /\ DeliveredOnce /\ RequestsBounded

\* What a write to one height does to the set of pending heights.
LEMMA PendingAfter ==
  ASSUME SyncType, NEW h \in Heights, NEW r \in Requests,
         pending' = [pending EXCEPT ![h] = r]
  PROVE  /\ pending' \in [Heights -> Requests]
         /\ r.attempts > 0 => Pending' = Pending \cup {h}
         /\ r.attempts = 0 => Pending' = Pending \ {h}
  <1>1. pending' \in [Heights -> Requests] BY DEF SyncType
  <1>2. \A g \in Heights : pending'[g] = IF g = h THEN r ELSE pending[g] BY DEF SyncType
  <1>3. r.attempts > 0 => Pending' = Pending \cup {h} BY <1>2 DEF Pending
  <1>4. r.attempts = 0 => Pending' = Pending \ {h} BY <1>2 DEF Pending
  <1> QED BY <1>1, <1>3, <1>4

\* A height without a request has no attempts.
LEMMA NoRequestFacts == NoRequest \in Requests /\ NoRequest.attempts = 0
  BY DEF NoRequest, Requests

\* There are finitely many heights.
LEMMA PendingFinite ==
  /\ IsFiniteSet(Pending) /\ Cardinality(Pending) \in Nat
  /\ \A S \in SUBSET Pending : IsFiniteSet(S) /\ Cardinality(S) <= Cardinality(Pending)
  <1>1. Pending \subseteq Heights /\ IsFiniteSet(Heights) BY SyncAssumption DEF Pending
  <1>2. IsFiniteSet(Pending) BY <1>1, FS_Subset
  <1>3. Cardinality(Pending) \in Nat BY <1>2, FS_CardinalityType
  <1>4. \A S \in SUBSET Pending : IsFiniteSet(S) /\ Cardinality(S) <= Cardinality(Pending)
    BY <1>2, FS_Subset
  <1> QED BY <1>2, <1>3, <1>4

\* A step after which no more heights are pending keeps the bound.
LEMMA FewerPending ==
  ASSUME RequestsBounded, Pending' \subseteq Pending PROVE RequestsBounded'
  <1>1. Cardinality(Pending') <= Cardinality(Pending) BY PendingFinite
  <1>2. Cardinality(Pending') \in Nat
    BY PendingFinite, FS_CardinalityType
  <1>3. Cardinality(Pending) \in Nat /\ MaxRequests \in Nat BY PendingFinite, SyncAssumption
  <1> QED BY <1>1, <1>2, <1>3 DEF RequestsBounded

\* A new syncer satisfies the invariant.
LEMMA InitSync == SyncInit => SyncInv
  <1> SUFFICES ASSUME SyncInit PROVE SyncInv OBVIOUS
  <1>1. pending = [h \in Heights |-> NoRequest] /\ completed = {} /\ failed = {} /\ asked = {}
          /\ call = Idle /\ delivered = [h \in Heights |-> 0]
    BY DEF SyncInit
  <1>2. SyncType BY <1>1, NoRequestFacts DEF SyncType, Idle
  <1>3. Pending = {} BY <1>1, NoRequestFacts DEF Pending
  <1>4. RequestsBounded BY <1>3, FS_EmptySet, SyncAssumption DEF RequestsBounded
  <1>5. NoHeightLost /\ DeliveredOnce /\ RetryPending
    BY <1>1, <1>3 DEF NoHeightLost, DeliveredOnce, RetryPending, Idle
  <1> QED BY <1>2, <1>4, <1>5 DEF SyncInv

\* A step that changes neither the requests nor the histories.
LEMMA OnlyCallChanges ==
  ASSUME SyncInv, UNCHANGED <<pending, completed, failed, asked, delivered>>,
         RetryPending', call' \in [op: {"none", "range", "retry"}, todo: SUBSET Heights]
  PROVE  SyncInv'
  <1>1. Pending' = Pending BY DEF Pending
  <1> QED BY <1>1 DEF SyncInv, SyncType, NoHeightLost, DeliveredOnce, RequestsBounded

\* Done never adds a height to a retry, nor starts one.
LEMMA DoneFacts ==
  ASSUME SyncType, NEW h \in Heights, Done(h)
  PROVE  /\ call' \in [op: {"none", "range", "retry"}, todo: SUBSET Heights]
         /\ call'.op = "retry" => call.op = "retry" /\ call'.todo \subseteq call.todo \ {h}
  <1>1. CASE call.todo = {h} BY <1>1 DEF Done, Idle
  <1>2. CASE call.todo # {h}
    <2>1. call' = [call EXCEPT !.todo = call.todo \ {h}] BY <1>2 DEF Done
    <2>2. call \in [op: {"none", "range", "retry"}, todo: SUBSET Heights] BY DEF SyncType
    <2> QED BY <2>1, <2>2
  <1> QED BY <1>1, <1>2

\* A request that is sent, first or retried: the height is pending, and no
\* longer counts as failed.
LEMMA SentKeeps ==
  ASSUME SyncInv, NEW h \in Heights, NEW k \in Keys, NEW n \in Nat \ {0}, Sent(h, k, n),
         h \notin completed, Done(h),
         h \in Pending \/ ~AtLimit,
         asked' = asked \cup {h}, failed' = failed \ {h},
         UNCHANGED <<completed, delivered>>
  PROVE  SyncInv'
  <1> DEFINE r == [attempts |-> n, peer |-> k, late |-> FALSE]
  <1>0. SyncType /\ RetryPending /\ NoHeightLost /\ DeliveredOnce /\ RequestsBounded
    BY DEF SyncInv
  <1>1. r \in Requests /\ r.attempts > 0 BY DEF Requests
  <1>2. pending' = [pending EXCEPT ![h] = r] BY DEF Sent
  <1> HIDE DEF r
  <1>3. pending' \in [Heights -> Requests] /\ Pending' = Pending \cup {h}
    BY <1>0, <1>1, <1>2, PendingAfter
  <1>4. call' \in [op: {"none", "range", "retry"}, todo: SUBSET Heights]
          /\ (call'.op = "retry" => call.op = "retry" /\ call'.todo \subseteq call.todo \ {h})
    BY <1>0, DoneFacts
  <1>5. SyncType' BY <1>0, <1>3, <1>4 DEF SyncType
  <1>6. RetryPending' BY <1>0, <1>3, <1>4 DEF RetryPending
  <1>7. NoHeightLost' BY <1>0, <1>3 DEF NoHeightLost
  <1>8. DeliveredOnce' BY <1>0 DEF DeliveredOnce
  <1>9. RequestsBounded'
    <2>1. CASE h \in Pending
      <3>1. Pending' \subseteq Pending BY <1>3, <2>1
      <3> QED BY <1>0, <3>1, FewerPending
    <2>2. CASE h \notin Pending
      <3>1. Cardinality(Pending) < MaxRequests
        BY <2>2, PendingFinite, SyncAssumption DEF AtLimit
      <3>2. Cardinality(Pending') = Cardinality(Pending) + 1
        BY <1>3, <2>2, PendingFinite, FS_AddElement
      <3> QED BY <3>1, <3>2, PendingFinite, SyncAssumption DEF RequestsBounded
    <2> QED BY <2>1, <2>2
  <1> QED BY <1>5, <1>6, <1>7, <1>8, <1>9 DEF SyncInv

\* One turn of request_range.
LEMMA RangeKeeps ==
  ASSUME SyncInv, NEW h \in Heights, RangeStep(h) PROVE SyncInv'
  <1>1. SyncType /\ call.op = "range" BY DEF SyncInv, RangeStep
  <1>2. UNCHANGED <<completed, delivered>> BY DEF RangeStep
  <1>3. CASE Done(h) /\ UNCHANGED <<pending, failed, asked>>
    <2>1. call' \in [op: {"none", "range", "retry"}, todo: SUBSET Heights] /\ call'.op # "retry"
      BY <1>1, <1>3, DoneFacts
    <2>2. RetryPending' BY <2>1 DEF RetryPending
    <2> QED BY <1>2, <1>3, <2>1, <2>2, OnlyCallChanges
  <1>4. CASE call' = Idle /\ UNCHANGED <<pending, failed, asked>>
    <2>1. call' \in [op: {"none", "range", "retry"}, todo: SUBSET Heights] /\ call'.op # "retry"
      BY <1>4 DEF Idle
    <2>2. RetryPending' BY <2>1 DEF RetryPending
    <2> QED BY <1>2, <1>4, <2>1, <2>2, OnlyCallChanges
  <1>5. CASE /\ h \notin completed \cup Pending /\ ~AtLimit /\ Done(h)
             /\ \E k \in Candidates : Sent(h, k, 1)
             /\ asked' = asked \cup {h} /\ failed' = failed \ {h}
    <2>1. PICK k \in Candidates : Sent(h, k, 1) BY <1>5
    <2>2. k \in Keys
      BY <2>1 DEF Candidates, ConnectedValidators, ConnectedPeers, Known
    <2>3. 1 \in Nat \ {0} OBVIOUS
    <2> QED BY <1>2, <1>5, <2>1, <2>2, <2>3, SentKeeps
  <1> QED BY <1>3, <1>4, <1>5 DEF RangeStep

\* One turn of retry_timed_out.
LEMMA RetryKeeps ==
  ASSUME SyncInv, NEW h \in Heights, RetryStep(h) PROVE SyncInv'
  <1>0. SyncType /\ RetryPending /\ NoHeightLost /\ DeliveredOnce /\ RequestsBounded
    BY DEF SyncInv
  <1>1. h \in call.todo /\ call.op = "retry" /\ Done(h) /\ UNCHANGED <<completed, asked, delivered>>
    BY DEF RetryStep
  <1>2. h \in Pending BY <1>0, <1>1 DEF RetryPending
  <1>3. h \notin completed /\ h \notin failed /\ h \in asked BY <1>0, <1>2 DEF NoHeightLost
  <1>4. CASE GiveUp(h)
    <2>1. pending' = [pending EXCEPT ![h] = NoRequest] /\ failed' = failed \cup {h}
      BY <1>4 DEF GiveUp
    <2>2. pending' \in [Heights -> Requests] /\ Pending' = Pending \ {h}
      BY <1>0, <2>1, NoRequestFacts, PendingAfter
    <2>3. call' \in [op: {"none", "range", "retry"}, todo: SUBSET Heights]
            /\ (call'.op = "retry" => call.op = "retry" /\ call'.todo \subseteq call.todo \ {h})
      BY <1>0, <1>1, DoneFacts
    <2>4. SyncType' BY <1>0, <1>1, <2>1, <2>2, <2>3 DEF SyncType
    <2>5. RetryPending' BY <1>0, <2>2, <2>3 DEF RetryPending
    <2>6. NoHeightLost' BY <1>0, <1>1, <1>2, <1>3, <2>1, <2>2 DEF NoHeightLost
    <2>7. DeliveredOnce' BY <1>0, <1>1 DEF DeliveredOnce
    <2>8. RequestsBounded' BY <1>0, <2>2, FewerPending
    <2> QED BY <2>4, <2>5, <2>6, <2>7, <2>8 DEF SyncInv
  <1>5. CASE /\ \E k \in Candidates : Sent(h, k, RetryAttempts(h))
             /\ UNCHANGED failed
    <2>1. PICK k \in Candidates : Sent(h, k, RetryAttempts(h)) BY <1>5
    <2>2. k \in Keys
      BY <2>1 DEF Candidates, ConnectedValidators, ConnectedPeers, Known
    <2>3. RetryAttempts(h) \in Nat \ {0} BY <1>0 DEF RetryAttempts, SyncType, Requests
    <2>4. asked' = asked \cup {h} /\ failed' = failed \ {h} BY <1>1, <1>3, <1>5
    <2> QED BY <1>1, <1>2, <1>3, <2>1, <2>2, <2>3, <2>4, SentKeeps
  <1> QED BY <1>4, <1>5 DEF RetryStep

\* handle_response, solicited or not.
LEMMA ResponseKeeps ==
  ASSUME SyncInv, NEW h \in Heights, HandleResponse(h) PROVE SyncInv'
  <1>0. SyncType /\ RetryPending /\ NoHeightLost /\ DeliveredOnce /\ RequestsBounded
    BY DEF SyncInv
  <1>1. call = Idle /\ UNCHANGED <<call, failed, asked>> BY DEF HandleResponse
  <1>2. RetryPending' BY <1>1 DEF RetryPending, Idle
  <1>3. call' \in [op: {"none", "range", "retry"}, todo: SUBSET Heights]
    BY <1>0, <1>1 DEF SyncType
  <1>4. CASE h \in Pending
    <2>1. pending' = [pending EXCEPT ![h] = NoRequest] /\ completed' = completed \cup {h}
            /\ delivered' = [delivered EXCEPT ![h] = @ + 1]
      BY <1>4 DEF HandleResponse
    <2>2. pending' \in [Heights -> Requests] /\ Pending' = Pending \ {h}
      BY <1>0, <2>1, NoRequestFacts, PendingAfter
    <2>3. h \notin completed /\ h \notin failed BY <1>0, <1>4 DEF NoHeightLost
    <2>4. delivered' \in [Heights -> Nat]
            /\ \A g \in Heights : delivered'[g] = IF g = h THEN delivered[g] + 1 ELSE delivered[g]
      BY <1>0, <2>1 DEF SyncType
    <2>5. SyncType' BY <1>0, <1>1, <1>3, <2>1, <2>2, <2>4 DEF SyncType
    <2>6. NoHeightLost' BY <1>0, <1>1, <1>4, <2>1, <2>2, <2>3 DEF NoHeightLost
    <2>7. DeliveredOnce' BY <1>0, <2>1, <2>3, <2>4 DEF DeliveredOnce
    <2>8. RequestsBounded' BY <1>0, <2>2, FewerPending
    <2> QED BY <1>2, <2>5, <2>6, <2>7, <2>8 DEF SyncInv
  <1>5. CASE h \notin Pending
    <2>1. UNCHANGED <<pending, completed, delivered>> BY <1>5 DEF HandleResponse
    <2> QED BY <1>1, <1>2, <1>3, <2>1, OnlyCallChanges
  <1> QED BY <1>4, <1>5

\* The passage of time marks a request, and leaves it pending.
LEMMA ExpireKeeps ==
  ASSUME SyncInv, NEW h \in Heights, Expire(h) PROVE SyncInv'
  <1>0. SyncType /\ RetryPending /\ NoHeightLost /\ DeliveredOnce /\ RequestsBounded
    BY DEF SyncInv
  <1> DEFINE r == [attempts |-> pending[h].attempts, peer |-> pending[h].peer, late |-> TRUE]
  <1>1. h \in Pending /\ UNCHANGED <<completed, call, failed, asked, delivered>> BY DEF Expire
  <1>2. pending[h] \in Requests /\ pending[h].attempts > 0 BY <1>0, <1>1 DEF SyncType, Pending
  <1>3. r \in Requests /\ r.attempts > 0 BY <1>2 DEF Requests
  <1>4. pending' = [pending EXCEPT ![h] = r] BY DEF Expire
  <1> HIDE DEF r
  <1>7. pending' \in [Heights -> Requests] /\ Pending' = Pending \cup {h}
    BY <1>0, <1>3, <1>4, PendingAfter
  <1>8. Pending' = Pending BY <1>1, <1>7
  <1>9. SyncType' BY <1>0, <1>1, <1>7 DEF SyncType
  <1> QED BY <1>0, <1>1, <1>8, <1>9
        DEF SyncInv, RetryPending, NoHeightLost, DeliveredOnce, RequestsBounded

\* The start of a call, a reset, and the steps of the peer manager.
LEMMA OtherKeeps ==
  ASSUME SyncInv,
         \/ \E from, to \in Heights : RequestRange(from, to)
         \/ RetryTimedOut \/ Reset
         \/ UNCHANGED syncVars
  PROVE  SyncInv'
  <1>0. SyncType /\ RetryPending /\ NoHeightLost /\ DeliveredOnce /\ RequestsBounded
    BY DEF SyncInv
  <1>1. ASSUME NEW from \in Heights, NEW to \in Heights, RequestRange(from, to) PROVE SyncInv'
    <2>1. call' \in [op: {"none", "range", "retry"}, todo: SUBSET Heights] /\ call'.op = "range"
      BY <1>1 DEF RequestRange
    <2>2. RetryPending' BY <2>1 DEF RetryPending
    <2>3. UNCHANGED <<pending, completed, failed, asked, delivered>> BY <1>1 DEF RequestRange
    <2> QED BY <2>1, <2>2, <2>3, OnlyCallChanges
  <1>2. CASE RetryTimedOut
    <2>1. UNCHANGED <<pending, completed, failed, asked, delivered>> BY <1>2 DEF RetryTimedOut
    <2>2. call' = [op |-> "retry", todo |-> {h \in Pending : pending[h].late}]
      BY <1>2 DEF RetryTimedOut
    <2>3. call'.todo \subseteq Pending /\ Pending' = Pending BY <2>1, <2>2 DEF Pending
    <2>4. RetryPending' BY <2>3 DEF RetryPending
    <2>5. Pending \subseteq Heights BY DEF Pending
    <2>6. call' \in [op: {"none", "range", "retry"}, todo: SUBSET Heights] BY <2>2, <2>5
    <2> QED BY <2>1, <2>4, <2>6, OnlyCallChanges
  <1>3. CASE Reset
    <2>1. pending' = [h \in Heights |-> NoRequest] /\ completed' = {} /\ failed' = {}
            /\ asked' = {} /\ delivered' = [h \in Heights |-> 0] /\ call' = Idle
      BY <1>3 DEF Reset
    <2>2. Pending' = {} BY <2>1, NoRequestFacts DEF Pending
    <2>3. SyncType' BY <2>1, NoRequestFacts DEF SyncType, Idle
    <2>4. RequestsBounded' BY <1>0, <2>2, FewerPending
    <2>5. NoHeightLost' /\ DeliveredOnce' /\ RetryPending'
      BY <2>1, <2>2 DEF NoHeightLost, DeliveredOnce, RetryPending, Idle
    <2> QED BY <2>3, <2>4, <2>5 DEF SyncInv
  <1>4. CASE UNCHANGED syncVars
    <2>1. UNCHANGED <<pending, completed, call, failed, asked, delivered>> BY <1>4 DEF syncVars
    <2>2. RetryPending' BY <1>0, <2>1 DEF RetryPending, Pending
    <2>3. call' \in [op: {"none", "range", "retry"}, todo: SUBSET Heights]
      BY <1>0, <2>1 DEF SyncType
    <2> QED BY <2>1, <2>2, <2>3, OnlyCallChanges
  <1> QED BY <1>1, <1>2, <1>3, <1>4

\* The inductive invariant of the syncer: one step per operation.
LEMMA SyncInvHolds == SyncSpec => []SyncInv
  <1>1. SyncInv /\ [SyncNext]_blockSyncVars => SyncInv'
    <2> SUFFICES ASSUME SyncInv, [SyncNext]_blockSyncVars PROVE SyncInv' OBVIOUS
    <2>1. CASE UNCHANGED blockSyncVars
      <3>1. UNCHANGED syncVars BY <2>1 DEF blockSyncVars, syncVars
      <3> QED BY <3>1, OtherKeeps
    <2>2. CASE SyncNext
      BY <2>2, RangeKeeps, RetryKeeps, ResponseKeeps, ExpireKeeps, OtherKeeps DEF SyncNext
    <2> QED BY <2>1, <2>2
  <1> QED BY <1>1, InitSync, PTL DEF SyncSpec

\* No height that was dispatched is forgotten (request_range, retry_timed_out,
\* handle_response), however peers come and go between the sends of a loop.
THEOREM HeightsAreAccountedFor == SyncSpec => []NoHeightLost
  BY SyncInvHolds, PTL DEF SyncInv

\* A session hands on at most one block per height (handle_response).
THEOREM BlocksAreDeliveredOnce == SyncSpec => []DeliveredOnce
  BY SyncInvHolds, PTL DEF SyncInv

\* max_sync_requests bounds the requests in flight.
THEOREM RequestsStayBounded == SyncSpec => []RequestsBounded
  BY SyncInvHolds, PTL DEF SyncInv
=============================================================================
