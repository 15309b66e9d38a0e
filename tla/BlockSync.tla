----------------------------- MODULE BlockSync -----------------------------
(***************************************************************************)
(* The catch-up protocol (consensus-net/src/sync.rs) on top of the peer    *)
(* manager.  request_range and retry_timed_out are async loops that await  *)
(* a send for each height; they borrow the syncer exclusively, so no other *)
(* call on it runs until they return, but the peers change between two     *)
(* heights and answers pile up.  Choosing a peer and sending to it is one  *)
(* step: nothing reads the peers between the choice and the insertion.     *)
(***************************************************************************)
EXTENDS PeerManager

CONSTANTS Heights,      \* heights that can be asked for
          MaxRequests,  \* max_sync_requests
          MaxRetries,   \* max_retries
          MaxAnswers    \* answers on their way per height (bound)

ASSUME SyncAssumption ==
  /\ Heights \subseteq Nat /\ IsFiniteSet(Heights)
  /\ MaxRequests \in Nat /\ MaxRetries \in Nat \ {0} /\ MaxAnswers \in Nat

VARIABLES pending,    \* per height: PendingSyncRequest, or NoRequest
          completed,  \* heights received
          call,       \* the loop that is running, and the heights it has left
          answers,    \* per height: answers peers may still send
          failed,     \* history: heights reported as permanently failed
          asked,      \* history: heights ever dispatched since the last reset
          delivered   \* history: blocks handed to the ledger, per height

syncVars == <<pending, completed, call, failed, asked, delivered>>
blockSyncVars == <<peers, active, pending, completed, call, answers, failed, asked, delivered>>

NoPeer == "no peer"
NoRequest == [attempts |-> 0, peer |-> NoPeer, late |-> FALSE]
Pending == {h \in Heights : pending[h].attempts > 0}
Idle == [op |-> "none", todo |-> {}]

SyncInit ==
  /\ PeerInit
  /\ pending = [h \in Heights |-> NoRequest]
  /\ completed = {} /\ failed = {} /\ asked = {}
  /\ call = Idle
  /\ answers = [h \in Heights |-> 0]
  /\ delivered = [h \in Heights |-> 0]

\* The request for h reached peer k, which may answer it.
Sent(h, k, attempts) ==
  /\ pending' = [pending EXCEPT ![h] = [attempts |-> attempts, peer |-> k, late |-> FALSE]]
  /\ answers' = [answers EXCEPT ![h] = IF @ < MaxAnswers THEN @ + 1 ELSE @]

\* The call with one height less to do.
Done(h) ==
  call' = IF call.todo = {h} THEN Idle ELSE [call EXCEPT !.todo = @ \ {h}]

RequestRange(from, to) ==
  /\ call = Idle
  /\ call' = [op |-> "range", todo |-> {h \in Heights : from <= h /\ h <= to}]
  /\ UNCHANGED <<peerVars, pending, completed, answers, failed, asked, delivered>>

AtLimit == Cardinality(Pending) >= MaxRequests

\* One turn of request_range.
RangeStep(h) ==
  /\ call.op = "range" /\ h \in call.todo /\ \A g \in call.todo : h <= g
  /\ \/ /\ h \in completed \cup Pending
        /\ Done(h)
        /\ UNCHANGED <<pending, answers, failed, asked>>
     \/ /\ h \notin completed \cup Pending /\ AtLimit
        /\ call' = Idle
        /\ UNCHANGED <<pending, answers, failed, asked>>
     \/ /\ h \notin completed \cup Pending /\ ~AtLimit
        /\ Done(h)
        /\ \/ UNCHANGED <<pending, answers, failed, asked>>  \* no peer, or the send failed
           \/ /\ \E k \in Candidates : Sent(h, k, 1)
              /\ asked' = asked \cup {h}
              /\ failed' = failed \ {h}
  /\ UNCHANGED <<peerVars, completed, delivered>>

\* Mutant: a block that was received before is handed on again.
HandleResponseAgain(h) ==
  /\ call = Idle /\ answers[h] > 0
  /\ answers' = [answers EXCEPT ![h] = @ - 1]
  /\ IF h \in Pending \cup completed
       THEN /\ pending' = [pending EXCEPT ![h] = NoRequest]
            /\ completed' = completed \cup {h}
            /\ delivered' = [delivered EXCEPT ![h] = @ + 1]
       ELSE UNCHANGED <<pending, completed, delivered>>
  /\ UNCHANGED <<peerVars, call, failed, asked>>

\* handle_response: a block is handed on when the height is pending, whoever
\* sent it, and dropped as unsolicited otherwise.
HandleResponse(h) ==
  /\ call = Idle /\ answers[h] > 0
  /\ answers' = [answers EXCEPT ![h] = @ - 1]
  /\ IF h \in Pending
       THEN /\ pending' = [pending EXCEPT ![h] = NoRequest]
            /\ completed' = completed \cup {h}
            /\ delivered' = [delivered EXCEPT ![h] = @ + 1]
       ELSE UNCHANGED <<pending, completed, delivered>>
  /\ UNCHANGED <<peerVars, call, failed, asked>>

\* message_timeout_ms passes for a request.
Expire(h) ==
  /\ h \in Pending /\ ~pending[h].late
  /\ pending' = [pending EXCEPT ![h] = [attempts |-> @.attempts, peer |-> @.peer, late |-> TRUE]]
  /\ UNCHANGED <<peerVars, completed, call, answers, failed, asked, delivered>>

\* retry_timed_out begins with a copy of the requests that timed out.
RetryTimedOut ==
  LET late == {h \in Pending : pending[h].late}
  IN /\ call = Idle /\ late # {}
     /\ call' = [op |-> "retry", todo |-> late]
     /\ UNCHANGED <<peerVars, pending, completed, answers, failed, asked, delivered>>

\* Mutant: a retry is recorded as a first attempt.
RetryAttemptsRestart(h) == 1
RetryAttempts(h) == pending[h].attempts + 1

\* Mutant: a height whose request could not be sent is not reported.
GiveUpSilently(h) ==
  /\ pending' = [pending EXCEPT ![h] = NoRequest]
  /\ UNCHANGED <<answers, failed>>
GiveUp(h) ==
  /\ pending' = [pending EXCEPT ![h] = NoRequest]
  /\ failed' = failed \cup {h}
  /\ UNCHANGED answers

\* One turn of retry_timed_out, in the order of a hash map.  The second
\* disjunct is a retry without a peer, or whose send failed.
RetryStep(h) ==
  /\ call.op = "retry" /\ h \in call.todo
  /\ Done(h)
  /\ \/ pending[h].attempts >= MaxRetries /\ GiveUp(h)
     \/ pending[h].attempts < MaxRetries /\ GiveUp(h)
     \/ /\ pending[h].attempts < MaxRetries
        /\ \E k \in Candidates : Sent(h, k, RetryAttempts(h))
        /\ UNCHANGED failed
  /\ UNCHANGED <<peerVars, completed, asked, delivered>>

\* A new session.  Answers to the old one are still on their way.
Reset ==
  /\ call = Idle
  /\ pending' = [h \in Heights |-> NoRequest]
  /\ completed' = {} /\ failed' = {} /\ asked' = {}
  /\ delivered' = [h \in Heights |-> 0]
  /\ UNCHANGED <<peerVars, call, answers>>

SyncNext ==
  \/ PeerNext /\ UNCHANGED <<syncVars, answers>>
  \/ \E from, to \in Heights : from <= to /\ RequestRange(from, to)
  \/ \E h \in Heights : RangeStep(h) \/ HandleResponse(h) \/ Expire(h) \/ RetryStep(h)
  \/ RetryTimedOut
  \/ Reset

SyncSpec == SyncInit /\ [][SyncNext]_blockSyncVars

\* The runtime resumes a loop that has work left, time passes, and the owner
\* of the syncer polls retry_timed_out again and again between its other calls.
SyncFairness ==
  /\ \A h \in Heights : /\ WF_blockSyncVars(RangeStep(h))
                       /\ WF_blockSyncVars(RetryStep(h))
                       /\ WF_blockSyncVars(Expire(h))
  /\ SF_blockSyncVars(RetryTimedOut)

-----------------------------------------------------------------------------
(* Properties.                                                             *)

\* The shape of the syncer and its peers: attempts never exceed max_retries,
\* whatever retry_timed_out and request_range do to a height in turn.
SyncTypeOK ==
  /\ PeerTypeOK
  /\ pending \in [Heights -> [attempts: 0..MaxRetries, peer: Keys \cup {NoPeer}, late: BOOLEAN]]
  /\ completed \subseteq Heights /\ failed \subseteq Heights /\ asked \subseteq Heights
  /\ call \in [op: {"none", "range", "retry"}, todo: SUBSET Heights]
  /\ answers \in [Heights -> 0..MaxAnswers]
  /\ delivered \in [Heights -> Nat]

\* Every height that was ever dispatched is in exactly one place: it waits for
\* an answer, its block has arrived, or retry_timed_out has reported it.  None
\* is forgotten between the removal from pending and the new insertion.
NoHeightLost ==
  /\ asked = Pending \cup completed \cup failed
  /\ Pending \cap completed = {} /\ Pending \cap failed = {} /\ completed \cap failed = {}

\* The ledger gets at most one block per height and session, although a retry
\* leaves the first peer's answer on its way and answers outlive a reset.
DeliveredOnce ==
  \A h \in Heights : delivered[h] = IF h \in completed THEN 1 ELSE 0

\* No interleaving of ranges, retries and answers exceeds max_sync_requests.
RequestsBounded == Cardinality(Pending) <= MaxRequests

\* A request does not stay pending for ever: it is answered, or given up after
\* max_retries attempts, whatever the peers do.
RequestsResolve == \A h \in Heights : h \in Pending ~> h \notin Pending

\* Does not hold. sync.rs says: "if a response doesn't arrive within the
\* configured timeout the request is retried against a different peer."
RetriedElsewhere ==
  [][\A h \in Heights :
       pending[h].attempts > 0 /\ pending'[h].attempts > pending[h].attempts
         /\ Candidates \ {pending[h].peer} # {}
       => pending'[h].peer # pending[h].peer]_blockSyncVars

\* Does not hold. sync.rs says of retry_timed_out: "Returns heights that have
\* permanently failed (exceeded `max_retries`)."
FailedMeansExhausted ==
  [][\A h \in failed' \ failed : pending[h].attempts >= MaxRetries]_blockSyncVars
=============================================================================
