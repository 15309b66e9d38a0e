--------------------------- MODULE ConsensusLoop ---------------------------
(***************************************************************************)
(* The time the loop of the consensus service takes.                       *)
(*                                                                         *)
(* BftConsensus models what a turn of ConsensusService::run does to the    *)
(* engine and lets an armed timeout expire at any time.  This module keeps *)
(* of a turn only how long it waits: the loop waits for a message until    *)
(* the timeout or the poll interval, whichever is first, looks for expired *)
(* timeouts only when no message came, sleeps after a commit, and reads    *)
(* the exit flag between turns.  Time is counted in ticks.                 *)
(***************************************************************************)
EXTENDS Integers

CONSTANTS
    Poll,       \* TIMEOUT_POLL_INTERVAL_MS
    Timeout,    \* duration of a step's timeout
    Cost,       \* ticks it takes to handle a message
    Pause,      \* block_time_ms / 2
    Gap,        \* ticks between two arrivals
    MaxInbox    \* bound: messages waiting in the channel

ASSUME LoopAssumption ==
    /\ {Poll, Timeout, Cost, Pause, Gap, MaxInbox} \subseteq Nat \ {0}

VARIABLES
    at,         \* what the thread does: "wait", "handle", "pause" or "stopped"
    left,       \* ticks left of it
    armed,      \* TimeoutScheduler.started_at is set
    age,        \* ticks since it was set
    unchecked,  \* ticks since the last check_timeouts
    inbox,      \* messages in the channel
    quiet,      \* ticks since the last arrival
    connected,  \* a sender of the channel exists
    exit        \* the global shutdown flag

loopVars == <<at, left, armed, age, unchecked, inbox, quiet, connected, exit>>

Least(a, b) == IF a < b THEN a ELSE b

MaxAge == Timeout + Poll + Cost     \* bound: ages beyond it are not told apart

MaxUnchecked == 3 * Poll            \* bound: as above

\* Mutant: the loop always waits for the poll interval.
BudgetOfPoll(isArmed, t) == Poll

\* wait_duration: the time to the next timeout, at most the poll interval.
Budget(isArmed, t) == IF isArmed THEN Least(Timeout - Least(t, Timeout), Poll) ELSE Poll

\* Mutant: the exit flag is not read.
TurnUnconditional(isArmed, t) ==
    at' = "wait" /\ left' = Budget(isArmed, t)

\* The head of the loop: leave, or wait again.
Turn(isArmed, t) ==
    IF exit THEN at' = "stopped" /\ left' = 0
            ELSE at' = "wait" /\ left' = Budget(isArmed, t)

\* run starts the first height, which arms the propose timeout.
LoopInit ==
    /\ at = "wait" /\ left = Budget(TRUE, 0)
    /\ armed = TRUE /\ age = 0 /\ unchecked = 0
    /\ inbox = 0 /\ quiet = Gap
    /\ connected = TRUE /\ exit = FALSE

\* recv_timeout returns a message as soon as there is one.
Receive ==
    /\ at = "wait" /\ inbox > 0
    /\ at' = "handle" /\ left' = Cost /\ inbox' = inbox - 1
    /\ UNCHANGED <<armed, age, unchecked, quiet, connected, exit>>

\* handle_message leaves the timeout as it is, starts one, or commits.
Ignored ==
    /\ at = "handle" /\ left = 0
    /\ Turn(armed, age)
    /\ UNCHANGED <<armed, age, unchecked, inbox, quiet, connected, exit>>

Restarted ==
    /\ at = "handle" /\ left = 0
    /\ armed' = TRUE /\ age' = 0 /\ Turn(TRUE, 0)
    /\ UNCHANGED <<unchecked, inbox, quiet, connected, exit>>

Committed ==
    /\ at = "handle" /\ left = 0
    /\ at' = "pause" /\ left' = Pause /\ armed' = FALSE /\ age' = 0
    /\ UNCHANGED <<unchecked, inbox, quiet, connected, exit>>

\* start_height after the pause.
StartHeight ==
    /\ at = "pause" /\ left = 0
    /\ armed' = TRUE /\ age' = 0 /\ Turn(TRUE, 0)
    /\ UNCHANGED <<unchecked, inbox, quiet, connected, exit>>

\* RecvTimeoutError::Timeout: check_timeouts, which starts the next timeout
\* when one has expired.
CheckTimeouts ==
    /\ at = "wait" /\ inbox = 0 /\ connected /\ left = 0
    /\ age' = IF armed /\ age >= Timeout THEN 0 ELSE age
    /\ unchecked' = 0
    /\ Turn(armed, age')
    /\ UNCHANGED <<armed, inbox, quiet, connected, exit>>

\* RecvTimeoutError::Disconnected.
Disconnected ==
    /\ at = "wait" /\ inbox = 0 /\ ~connected
    /\ at' = "stopped" /\ left' = 0
    /\ UNCHANGED <<armed, age, unchecked, inbox, quiet, connected, exit>>

\* The network delivers a message; the senders are dropped; the node is told
\* to stop.
Arrive ==
    /\ connected /\ quiet >= Gap /\ inbox < MaxInbox /\ at # "stopped"
    /\ inbox' = inbox + 1 /\ quiet' = 0
    /\ UNCHANGED <<at, left, armed, age, unchecked, connected, exit>>

DropSenders ==
    /\ connected /\ connected' = FALSE
    /\ UNCHANGED <<at, left, armed, age, unchecked, inbox, quiet, exit>>

SetExit ==
    /\ ~exit /\ exit' = TRUE
    /\ UNCHANGED <<at, left, armed, age, unchecked, inbox, quiet, connected>>

\* A tick passes while the thread waits, handles or sleeps.
Tick ==
    /\ left > 0
    /\ at = "wait" => inbox = 0 /\ connected
    /\ left' = left - 1
    /\ age' = IF armed THEN Least(age + 1, MaxAge) ELSE age
    /\ unchecked' = Least(unchecked + 1, MaxUnchecked)
    /\ quiet' = Least(quiet + 1, Gap)
    /\ UNCHANGED <<at, armed, inbox, connected, exit>>

ThreadStep ==
    \/ Receive \/ Ignored \/ Restarted \/ Committed \/ StartHeight
    \/ CheckTimeouts \/ Disconnected

LoopNext == ThreadStep \/ Arrive \/ DropSenders \/ SetExit \/ Tick

\* The operating system runs the thread, and time passes.
LoopFairness == WF_loopVars(ThreadStep) /\ WF_loopVars(Tick)

LoopSpec == LoopInit /\ [][LoopNext]_loopVars /\ LoopFairness

----------------------------------------------------------------------------
(* Properties.                                                             *)

\* Types.  The loop never waits longer than the poll interval.
LoopTypeOK ==
    /\ at \in {"wait", "handle", "pause", "stopped"}
    /\ left \in 0 .. Poll \union 0 .. (IF at = "handle" THEN Cost ELSE IF at = "pause" THEN Pause ELSE 0)
    /\ armed \in BOOLEAN /\ age \in 0 .. MaxAge /\ unchecked \in 0 .. MaxUnchecked
    /\ inbox \in 0 .. MaxInbox /\ quiet \in 0 .. Gap
    /\ connected \in BOOLEAN /\ exit \in BOOLEAN

\* While messages arrive more slowly than they are handled, an expired timeout
\* is acted on at once, or after the one message being handled: the loop waits
\* no longer than to the timeout, and prefers a message only if there is one.
TimeoutIsPrompt == at # "stopped" => age <= Timeout + Cost

\* "to stay responsive to exit": a service told to stop leaves its loop,
\* whatever messages keep arriving.
StopsOnExit == exit ~> (at = "stopped")

\* Does not hold. "Should be called periodically (e.g., every 100ms) by the
\* consensus service loop." (check_timeouts; the poll interval is half of that).
CheckedPeriodically == at # "stopped" => unchecked <= 2 * Poll

\* Does not hold. "the consensus service runs alongside" the other services
\* (validator.rs): it runs until the node is told to stop.
RunsUntilExit == at = "stopped" => exit
============================================================================
