------------------------------- MODULE HostSeam -------------------------------
(***************************************************************************)
(* The host's side of the MCP binding: McpAuditReceiver (mcp/seam.py).  It *)
(* issues a session per call and does the session's audit work in a lane   *)
(* of its own, in arrival order; a round's work has a deadline, after      *)
(* which the retry goes out without what is undecided.                     *)
(*                                                                         *)
(* The endpoint is a queue per session: its lock is first come, first      *)
(* served, and nothing here relates one session's records to another's.    *)
(* Tools and clients are the environment: a tool answers the open request  *)
(* with any of Frames; a client cancels and answers requests for input, or *)
(* does not.  An event is its position among the events of its call.       *)
(***************************************************************************)
EXTENDS SequencesExt, FiniteSetsExt

CONSTANTS
  Calls,      \* tools/call requests of the client, one audit session each
  Frames,     \* per call, what its tool may write: [kind, events], events a sequence of kinds of event
  MaxRounds,  \* MAX_ROUNDS_PER_CALL
  MaxHeld,    \* MAX_IDLE_SESSIONS
  MaxEvents   \* bound: events one call's frames carry

\* Input-required results: retried here, passed up, and one without requestState.
RoundKinds == {"round", "input", "stateless"}
EventKinds == {"attempt", "outcome"}

\* A tool reports its events in results (§6.4) or as messages of their own (§6.5), never in both.
InResults == [kind : RoundKinds \cup {"result"}, events : Seq(EventKinds)]
InMessages == {[kind |-> "ask", events |-> <<"attempt">>], [kind |-> "tell", events |-> <<"outcome">>]}

ASSUME SeamAssumption ==
  /\ \A c \in Calls : \/ Frames[c] \subseteq InResults
                      \/ /\ Frames[c] \subseteq InResults \cup InMessages
                         /\ \A f \in Frames[c] : f \in InMessages \/ f.events = <<>>
  /\ MaxRounds \in Nat /\ MaxHeld \in Nat \ {0} /\ MaxEvents \in Nat

VARIABLES
  call,        \* _HostCall: its place (see CallStates), a request is open at the tool, rounds
  lane,        \* the jobs of each session's lane that are not taken up
  work,        \* the job each lane has taken up
  desk,        \* what was handed to the endpoint for a session and is not decided, in order
  log,         \* what the endpoint recorded for a session, in order; 0 is its close
  held,        \* _held: the rounds that await their client's retry, least recently held first
  owed,        \* _owed
  adrift,      \* what is left of a round whose job the closing cut short: the task that hands it over goes on
  stopped,     \* the seam's tasks were cancelled from around it
  connection,  \* up, draining (the lanes), closing (the sessions), closed
  sweep        \* what _on_close does of a session (see SweepStates)

VARIABLES
  received,    \* history: the kinds of the events received of a call
  clientAsked, \* history: requests the client made for a call
  clientTold,  \* history: frames it was given in answer
  cancelled,   \* history: calls cancelled
  told,        \* history: attempts a retry answered with accept
  late,        \* history: attempts in progress when the wait for them ended
  dropped      \* history: events never handed over: of a skipped round, and attempts not reached

lanes == <<lane, work>>
host == <<desk, log, owed>>
wire == <<adrift, stopped, connection, sweep>>
client == <<clientAsked, clientTold, cancelled>>
grants == <<told, late, dropped>>
vars == <<call, lanes, host, held, wire, received, client, grants>>

\* To be closed, its lane's worker at a loose end or not (see EndDrain); closed without a word, or logged.
SweepStates == {"none", "due", "cut", "quiet", "logged"}

\* In _calls: inflight.  In _concluding: concluding.  Ended by the connection's close: cut.
CallStates == {"unsent", "inflight", "concluding", "cut", "over"}

\* `accepted`: the attempts of the job decided so far with accept; `busy`: its item in progress.
Work(kind, events) == [kind |-> kind, rest |-> events, busy |-> FALSE, accepted |-> {}]
NoWork == Work("none", <<>>)
Job(kind, events) == [kind |-> kind, events |-> events]
CloseJob == Job("close", <<>>)

Init ==
  /\ call = [c \in Calls |-> [state |-> "unsent", asked |-> FALSE, rounds |-> 0]]
  /\ lane = [c \in Calls |-> <<>>] /\ work = [c \in Calls |-> NoWork]
  /\ desk = [c \in Calls |-> <<>>] /\ log = [c \in Calls |-> <<>>] /\ owed = [c \in Calls |-> 0]
  /\ held = <<>> /\ adrift = [c \in Calls |-> <<>>] /\ connection = "up" /\ stopped = FALSE /\ sweep = [c \in Calls |-> "none"]
  /\ received = [c \in Calls |-> <<>>]
  /\ clientAsked = [c \in Calls |-> 0] /\ clientTold = [c \in Calls |-> 0] /\ cancelled = {}
  /\ told = [c \in Calls |-> {}] /\ late = [c \in Calls |-> {}] /\ dropped = [c \in Calls |-> {}]

-----------------------------------------------------------------------------
(* The parts of a step. *)

\* Of a sequence, the elements in a set, in their order (a comprehension that filters).
Kept(line, S) ==
  LET kept[n \in 0..Len(line)] ==
        IF n = 0 THEN <<>> ELSE IF line[n] \in S THEN Append(kept[n - 1], line[n]) ELSE kept[n - 1]
  IN  kept[Len(line)]

Up == connection = "up" /\ ~stopped
InFlight(c) == Up /\ call[c].state = "inflight"
Ended(c) == call[c].state \in {"concluding", "cut", "over"}
Holds(c) == \E h \in Range(held) : h.call = c
Running == connection # "closed"

IsAttempt(c, n) == received[c][n] = "attempt"
Attempts(c, events) == {n \in Range(events) : IsAttempt(c, n)}

\* leftover_outcomes, and leaving none.
LeftoverNone(c) == <<>>
Leftover(c) == Kept(work[c].rest, Range(work[c].rest) \ Attempts(c, work[c].rest))

\* The events of a frame, by position among the call's.
Arriving(c, kinds) == [k \in DOMAIN kinds |-> Len(received[c]) + k]

\* An entry of the endpoint's queue; `awaited`: the lane's work waits for the decision.
Entry(what, n) == [what |-> what, n |-> n, awaited |-> TRUE]

\* At the cutoff nobody waits for c's entries any more: they are decided in the background.
BackgroundStillHeard(c) == desk
Background(c) == [desk EXCEPT ![c] = [k \in DOMAIN @ |-> [@[k] EXCEPT !.awaited = FALSE]]]
InProgress(c) == {desk[c][k].n : k \in {j \in DOMAIN desk[c] : desk[c][j].awaited /\ desk[c][j].what = "attempt"}}

Queued(c, jobs) == [lane EXCEPT ![c] = @ \o jobs]
SealJob(events) == IF events = <<>> THEN <<>> ELSE <<Job("seal", events)>>
\* _detach: out of the calls in flight, and its held round with it.
Detached(c) == [call EXCEPT ![c].state = "concluding", ![c].asked = FALSE]
Without(line, c) == Kept(line, {h \in Range(line) : h.call # c})
ToldClient(c) == clientTold' = [clientTold EXCEPT ![c] = @ + 1] /\ UNCHANGED <<clientAsked, cancelled>>

-----------------------------------------------------------------------------
(* What the client sends. *)

\* _outbound: a new call, a session and its lane.
Send(c) ==
  /\ Up /\ call[c].state = "unsent"
  /\ call' = [call EXCEPT ![c].state = "inflight", ![c].asked = TRUE]
  /\ clientAsked' = [clientAsked EXCEPT ![c] = 1]
  /\ UNCHANGED <<lanes, host, held, wire, received, clientTold, cancelled, grants>>

\* _outbound: the client's retry of a round that asked it for input; the kept answers ride along.
ClientRetry(c) ==
  /\ Up
  /\ \E h \in Range(held) : h.call = c /\ told' = [told EXCEPT ![c] = @ \cup h.accepted]
  /\ held' = Without(held, c)
  /\ call' = [call EXCEPT ![c].asked = TRUE]
  /\ clientAsked' = [clientAsked EXCEPT ![c] = @ + 1]
  /\ UNCHANGED <<lanes, host, wire, received, clientTold, cancelled, late, dropped>>

\* _cancel of a call it finds, and _evict: the call ends here, and its session closes behind what its lane holds.
Cancel(c) ==
  /\ InFlight(c)
  /\ call' = Detached(c) /\ held' = Without(held, c)
  /\ lane' = Queued(c, <<CloseJob>>)
  /\ cancelled' = cancelled \cup {c}
  /\ UNCHANGED <<work, host, wire, received, clientAsked, clientTold, grants>>

\* _cancel of a call that is not found: the frame only goes on to the tool.  Its client still waits for an answer
\* while _abandon, which has detached the call, waits for the end of its round.
CancelNotFound(c) ==
  /\ Up /\ Ended(c) /\ clientTold[c] < clientAsked[c]
  /\ cancelled' = cancelled \cup {c}
  /\ UNCHANGED <<call, lanes, host, held, wire, received, clientAsked, clientTold, grants>>

-----------------------------------------------------------------------------
(* What the tool sends. *)

\* Only what comes as a message of its own is counted as owed.
ReceiveOwingMessages(c, f) ==
  /\ Len(received[c]) + Len(f.events) <= MaxEvents
  /\ received' = [received EXCEPT ![c] = @ \o f.events]
  /\ owed' = [owed EXCEPT ![c] = @ + IF f.kind = "tell" THEN 1 ELSE 0]

Receive(c, f) ==
  /\ Len(received[c]) + Len(f.events) <= MaxEvents
  /\ received' = [received EXCEPT ![c] = @ \o f.events]
  /\ owed' = [owed EXCEPT ![c] = @ + Cardinality({k \in DOMAIN f.events : f.events[k] = "outcome"})]

\* _inbound, the answer to the call's open request.  A final one reaches the client at once.
Answer(c) ==
  /\ InFlight(c) /\ call[c].asked
  /\ \E f \in Frames[c] :
       /\ Receive(c, f)
       /\ \/ /\ f.kind = "result"
             /\ call' = Detached(c) /\ held' = Without(held, c)
             /\ lane' = Queued(c, <<Job("conclude", Arriving(c, f.events))>>)
             /\ ToldClient(c)
          \/ /\ f.kind \in RoundKinds
             /\ call' = [call EXCEPT ![c].asked = FALSE]
             /\ lane' = Queued(c, <<Job(f.kind, Arriving(c, f.events))>>)
             /\ UNCHANGED <<held, client>>
  /\ UNCHANGED <<work, desk, log, wire, grants>>

\* _inbound, §6.5: an attempt or an outcome as a message of its own, routed to its call's lane.
Message(c) ==
  /\ InFlight(c)
  /\ \E f \in Frames[c] :
       /\ f.kind \in {"ask", "tell"} /\ Receive(c, f)
       /\ lane' = Queued(c, <<Job(IF f.kind = "ask" THEN "ask" ELSE "seal", Arriving(c, f.events))>>)
  /\ UNCHANGED <<call, work, desk, log, held, wire, client, grants>>

-----------------------------------------------------------------------------
(* The lanes. *)

\* A round of a call that has ended is passed over, with its events.
SkipRound(c, job) ==
  /\ job.kind \in RoundKinds /\ Ended(c)
  /\ dropped' = [dropped EXCEPT ![c] = @ \cup Range(job.events)]
  /\ UNCHANGED <<call, work, held>>

\* _abandon: the rounds are too many, or no retry could name this one.
BeginAbandon(c, job) ==
  /\ job.kind \in RoundKinds /\ ~Ended(c)
  /\ job.kind = "stateless" \/ call[c].rounds = MaxRounds
  /\ call' = [Detached(c) EXCEPT ![c].rounds = @ + 1] /\ held' = Without(held, c)
  /\ work' = [work EXCEPT ![c] = Work("abandoned", job.events)]
  /\ UNCHANGED dropped

\* _follow: the round's work begins.
BeginRound(c, job) ==
  /\ job.kind \in {"round", "input"} /\ ~Ended(c) /\ call[c].rounds < MaxRounds
  /\ call' = [call EXCEPT ![c].rounds = @ + 1]
  /\ work' = [work EXCEPT ![c] = Work(job.kind, job.events)]
  /\ UNCHANGED <<held, dropped>>

BeginOther(c, job) ==
  /\ job.kind \in {"conclude", "seal", "ask", "close"}
  /\ work' = [work EXCEPT ![c] = Work(job.kind, job.events)]
  /\ UNCHANGED <<call, held, dropped>>

\* _run_lane: the next job.  A worker that was cancelled takes none; closing the connection then does.
TakeJob(c) ==
  /\ Running /\ (stopped => connection = "draining") /\ work[c] = NoWork /\ lane[c] # <<>>
  /\ lane' = [lane EXCEPT ![c] = Tail(@)]
  /\ LET job == Head(lane[c]) IN
       SkipRound(c, job) \/ BeginAbandon(c, job) \/ BeginRound(c, job) \/ BeginOther(c, job)
  /\ UNCHANGED <<host, wire, received, client, told, late>>

\* The jobs that wait, with a deadline, for a task of the seam to hand their events over.
Bounded == {"round", "input", "abandoned", "ask"}

\* The next event of the job is handed to the endpoint.  An attempt in a final result is handed over as
\* the outcome it cannot be; one of an abandoned round is not handed over.  What a task of the seam's own would
\* hand over is not once the seam's tasks are cancelled.
HandOver(c) ==
  LET w == work[c]
      n == Head(w.rest)
      asAttempt == IsAttempt(c, n) /\ w.kind # "conclude"
      pass == asAttempt /\ w.kind = "abandoned"
  IN  /\ Running /\ w.rest # <<>> /\ ~w.busy /\ ~(stopped /\ w.kind \in Bounded)
      /\ work' = [work EXCEPT ![c].rest = Tail(@), ![c].busy = ~pass]
      /\ IF pass THEN /\ dropped' = [dropped EXCEPT ![c] = @ \cup {n}]
                      /\ UNCHANGED desk
                 ELSE /\ desk' = [desk EXCEPT ![c] = Append(@, Entry(IF asAttempt THEN "attempt" ELSE "outcome", n))]
                      /\ UNCHANGED dropped
      /\ UNCHANGED <<call, lane, log, owed, held, wire, received, client, told, late>>

\* A job that only seals is done; a call's answer is sealed before its session closes.
JobDone(c) ==
  LET w == work[c] IN
  /\ Running /\ w.kind \in {"seal", "conclude"} /\ w.rest = <<>> /\ ~w.busy
  /\ work' = [work EXCEPT ![c] = IF w.kind = "conclude" THEN Work("close", <<>>) ELSE NoWork]
  /\ UNCHANGED <<call, lane, host, held, wire, received, client, grants>>

\* _close: the session is handed to the endpoint to close.
BeginClose(c) ==
  /\ Running /\ work[c].kind = "close" /\ ~work[c].busy
  /\ work' = [work EXCEPT ![c].busy = TRUE]
  /\ desk' = [desk EXCEPT ![c] = Append(@, Entry("close", 0))]
  /\ UNCHANGED <<call, lane, log, owed, held, wire, received, client, grants>>

-----------------------------------------------------------------------------
(* The end of the wait for a round's work, or for an attempt: it is done, or its deadline has passed. *)

\* The call ended meanwhile: no answer follows, and its close is queued behind this job.
EndedDispatching(c) ==
  /\ work[c].kind \in {"round", "input"} /\ Ended(c)
  /\ work' = [work EXCEPT ![c] = NoWork]
  /\ lane' = Queued(c, SealJob(Leftover(c)))
  /\ UNCHANGED <<call, held, client, told>>

EndedMeanwhile(c) ==
  /\ work[c].kind \in {"round", "input"} /\ Ended(c)
  /\ work' = [work EXCEPT ![c] = IF Leftover(c) = <<>> THEN NoWork ELSE Work("seal", Leftover(c))]
  /\ UNCHANGED <<call, lane, held, client, told>>

\* The round goes up to the client also when its call has been cancelled.
GoesUpAnyway(c) ==
  /\ work[c].kind = "input"
  /\ ToldClient(c)
  /\ work' = [work EXCEPT ![c] = NoWork]
  /\ UNCHANGED <<call, lane, held, told>>

\* _hold: the answers are kept for the client's retry, and the least recently held round gives way.
GoesUp(c) ==
  /\ work[c].kind = "input" /\ ~Ended(c)
  /\ LET line == Append(held, [call |-> c, accepted |-> work[c].accepted])
         sealing == Queued(c, SealJob(Leftover(c)))
         evicted == Head(line).call
     IN IF Len(line) > MaxHeld
        THEN /\ held' = Tail(line) /\ call' = Detached(evicted)
             /\ lane' = [sealing EXCEPT ![evicted] = Append(@, CloseJob)]
        ELSE held' = line /\ lane' = sealing /\ UNCHANGED call
  /\ ToldClient(c)
  /\ work' = [work EXCEPT ![c] = NoWork]
  /\ UNCHANGED told

\* The retry is built; its sending may yet fail.
GoesBack(c) ==
  /\ work[c].kind = "round" /\ ~Ended(c)
  /\ lane' = Queued(c, SealJob(Leftover(c)))
  /\ work' = [work EXCEPT ![c] = [Work("sending", <<>>) EXCEPT !.accepted = work[c].accepted]]
  /\ UNCHANGED <<call, held, client, told>>

\* The client gets its error, and the session stays open.
AbandonedOpen(c) ==
  /\ work[c].kind = "abandoned"
  /\ lane' = Queued(c, SealJob(Leftover(c)))
  /\ ToldClient(c)
  /\ work' = [work EXCEPT ![c] = NoWork]
  /\ UNCHANGED <<call, held, told>>

\* The session closes behind what is left, and the client gets an error.
Abandoned(c) ==
  /\ work[c].kind = "abandoned"
  /\ lane' = [Queued(c, SealJob(Leftover(c))) EXCEPT ![c] = Append(@, CloseJob)]
  /\ ToldClient(c)
  /\ work' = [work EXCEPT ![c] = NoWork]
  /\ UNCHANGED <<call, held, told>>

\* _answer_attempt.
Answered(c) ==
  /\ work[c].kind = "ask"
  /\ told' = [told EXCEPT ![c] = @ \cup work[c].accepted]
  /\ work' = [work EXCEPT ![c] = NoWork]
  /\ UNCHANGED <<call, lane, held, client>>

WaitOver(c) ==
  /\ Running /\ work[c].kind \in Bounded
  /\ EndedMeanwhile(c) \/ GoesUp(c) \/ GoesBack(c) \/ Abandoned(c) \/ Answered(c)
  /\ desk' = Background(c)
  /\ late' = [late EXCEPT ![c] = @ \cup InProgress(c)]
  /\ dropped' = [dropped EXCEPT ![c] = @ \cup Attempts(c, work[c].rest)]
  /\ UNCHANGED <<log, owed, wire, received>>

\* The retry is sent: the tool's request is open again, unless the call has ended.
RetrySent(c) ==
  /\ Running /\ work[c].kind = "sending"
  /\ work' = [work EXCEPT ![c] = NoWork]
  /\ call' = [call EXCEPT ![c].asked = ~Ended(c)]
  /\ told' = [told EXCEPT ![c] = @ \cup work[c].accepted]
  /\ UNCHANGED <<lane, host, held, wire, received, client, late, dropped>>

\* It cannot be sent: a call that has not ended ends with an error.
RetryFailed(c) ==
  /\ Running /\ work[c].kind = "sending"
  /\ work' = [work EXCEPT ![c] = NoWork]
  /\ IF Ended(c) THEN UNCHANGED <<call, lane, held, client>>
     ELSE call' = Detached(c) /\ held' = Without(held, c) /\ lane' = Queued(c, <<CloseJob>>) /\ ToldClient(c)
  /\ UNCHANGED <<host, wire, received, grants>>

-----------------------------------------------------------------------------
(* The endpoint.  It refuses an attempt it did not take up in time, and an outcome that is an attempt; *)
(* an outcome that comes after the session's close is recorded too, as an anomaly.                     *)

SessionOpen(c) == 0 \notin Range(log[c])

EndpointDecides(c) ==
  LET e == Head(desk[c])
      Records == log' = [log EXCEPT ![c] = Append(@, e.n)]
      Heard(accepted) == work' = IF e.awaited THEN [work EXCEPT ![c].busy = FALSE, ![c].accepted = @ \cup accepted]
                                 ELSE work
  IN  /\ Running /\ desk[c] # <<>>
      /\ desk' = [desk EXCEPT ![c] = Tail(@)]
      /\ \/ e.what = "attempt" /\ SessionOpen(c) /\ Records /\ Heard({e.n}) /\ UNCHANGED <<call, owed>>
         \/ e.what = "attempt" /\ Heard({}) /\ UNCHANGED <<call, owed, log>>
         \/ /\ e.what = "outcome" /\ Heard({})
            /\ owed' = [owed EXCEPT ![c] = IF @ > 0 THEN @ - 1 ELSE 0]
            /\ IF IsAttempt(c, e.n) THEN UNCHANGED log ELSE Records
            /\ UNCHANGED call
         \/ /\ e.what = "close"
            /\ IF SessionOpen(c) THEN Records ELSE UNCHANGED log
            /\ work' = IF e.awaited THEN [work EXCEPT ![c] = NoWork] ELSE work
            /\ call' = IF e.awaited THEN [call EXCEPT ![c].state = "over"] ELSE call
            /\ UNCHANGED owed
      /\ UNCHANGED <<lane, held, wire, received, client, grants>>

-----------------------------------------------------------------------------
(* The connection ends: _on_close. *)

\* A transport that fails inside its own task group cancels the seam's tasks: the pumps, the workers between jobs,
\* and with them what the tasks of rounds have at the endpoint.
Stopped ==
  /\ Up
  /\ stopped' = TRUE
  /\ desk' = [c \in Calls |-> Kept(desk[c], {e \in Range(desk[c]) : e.awaited /\ work[c].kind \notin Bounded})]
  /\ work' = [c \in Calls |-> [work[c] EXCEPT !.busy = @ /\ work[c].kind \notin Bounded]]
  /\ UNCHANGED <<call, lane, log, owed, held, adrift, connection, sweep, received, client, grants>>

CloseConnection ==
  /\ connection = "up"
  /\ connection' = "draining"
  /\ sweep' = [c \in Calls |-> IF call[c].state \in {"inflight", "concluding"} THEN "due" ELSE "none"]
  /\ call' = [c \in Calls |-> IF call[c].state = "inflight" THEN [call[c] EXCEPT !.state = "cut", !.asked = FALSE]
                                                            ELSE call[c]]
  /\ held' = <<>>
  /\ UNCHANGED <<lanes, host, adrift, stopped, received, client, grants>>

\* The lanes are done, or the bound has passed while a job was in progress, and each such job is cut: a
\* seal or a close is given up; unless the seam's tasks were cancelled, the one that works through a round
\* goes on, and so does the lane.  A worker whose job was cut stops when it comes to run, if it was
\* cancelled, or has no more jobs and its queue is closed: the queue of a call still in flight was closed
\* at once, any other's with its session.
EndDrain ==
  /\ connection = "draining"
  /\ (\A c \in Calls : lane[c] = <<>>) \/ \E c \in Calls : work[c] # NoWork
  /\ connection' = "closing"
  /\ work' = [c \in Calls |-> NoWork]
  /\ desk' = [c \in Calls |-> IF work[c].kind \in Bounded THEN Background(c)[c]
                                                       ELSE Kept(desk[c], {e \in Range(desk[c]) : ~e.awaited})]
  /\ adrift' = [c \in Calls |-> CASE ~stopped /\ work[c].kind \in {"round", "input"} -> work[c].rest
                                 [] ~stopped /\ work[c].kind = "abandoned" -> Leftover(c)
                                 [] OTHER -> <<>>]
  /\ late' = [c \in Calls |-> late[c] \cup InProgress(c)]
  /\ sweep' = [c \in Calls |-> IF /\ sweep[c] = "due" /\ work[c] # NoWork
                                  /\ stopped \/ call[c].state # "concluding" \/ work[c].kind = "close"
                               THEN "cut" ELSE sweep[c]]
  /\ UNCHANGED <<call, lane, log, owed, held, stopped, received, client, told, dropped>>

HandOverAdrift(c) ==
  /\ connection = "closing" /\ adrift[c] # <<>>
  /\ LET n == Head(adrift[c]) IN
       desk' = [desk EXCEPT ![c] = Append(@, [Entry(IF IsAttempt(c, n) THEN "attempt" ELSE "outcome", n) EXCEPT !.awaited = FALSE])]
  /\ adrift' = [adrift EXCEPT ![c] = Tail(@)]
  /\ UNCHANGED <<call, lanes, log, owed, held, stopped, connection, sweep, received, client, grants>>

\* The worker is not done: it has jobs, or its queue is open.  One that was cancelled is done, whatever its queue held:
\* what closing did not come to is not counted, and what it did come to was taken out and cut at the bound.
Unfinished(c) ==
  ~stopped /\ (lane[c] # <<>> \/ work[c] # NoWork \/ (call[c].state = "concluding" /\ sweep[c] # "cut"))

\* Each session is closed, its losses logged; a worker whose job was cut may or may not have stopped by then.  The close
\* waits behind what the endpoint has, and may not return in time.
CloseSession(c) ==
  /\ connection = "closing" /\ sweep[c] \in {"due", "cut"}
  /\ \/ /\ Unfinished(c) \/ owed[c] > 0 \/ sweep[c] = "cut"
        /\ sweep' = [sweep EXCEPT ![c] = "logged"]
     \/ /\ ~Unfinished(c) /\ owed[c] = 0
        /\ sweep' = [sweep EXCEPT ![c] = "quiet"]
  /\ owed' = [owed EXCEPT ![c] = 0]
  /\ \/ desk' = [desk EXCEPT ![c] = Append(@, [Entry("close", 0) EXCEPT !.awaited = FALSE])]
     \/ UNCHANGED desk
  /\ UNCHANGED <<call, lanes, log, held, adrift, stopped, connection, received, client, grants>>

\* The seam's tasks are stopped.
Stop ==
  /\ connection = "closing" /\ \A c \in Calls : sweep[c] \notin {"due", "cut"}
  /\ connection' = "closed"
  /\ UNCHANGED <<call, lanes, host, held, adrift, stopped, sweep, received, client, grants>>

LaneStep(c) ==
  \/ TakeJob(c) \/ HandOver(c) \/ JobDone(c) \/ BeginClose(c)
  \/ WaitOver(c) \/ RetrySent(c) \/ RetryFailed(c) \/ EndpointDecides(c)

Next ==
  \/ \E c \in Calls : Send(c) \/ ClientRetry(c) \/ Cancel(c) \/ CancelNotFound(c) \/ Answer(c) \/ Message(c)
                      \/ LaneStep(c) \/ HandOverAdrift(c) \/ CloseSession(c)
  \/ Stopped \/ CloseConnection \/ EndDrain \/ Stop

\* A lane's task runs, a wait ends at its deadline and the endpoint decides what it was handed; nothing
\* is assumed of the tool, of the client or of the connection.
Fairness == \A c \in Calls : WF_vars(LaneStep(c))

Spec == Init /\ [][Next]_vars /\ Fairness

-----------------------------------------------------------------------------
(* Properties. *)

\* The shape of the state, and the lanes': a session's close is the last job of its lane (what _dispatch
\* would have to start on its own cannot arise), and a request is open only of a call in flight.
HostSeamTypeOK ==
  /\ connection \in {"up", "draining", "closing", "closed"}
  /\ Len(held) <= MaxHeld
  /\ \A c \in Calls :
       /\ call[c].state \in CallStates /\ call[c].rounds \in 0..(MaxRounds + 1) /\ owed[c] \in 0..MaxEvents
       /\ sweep[c] \in SweepStates
       /\ received[c] \in Seq(EventKinds)
       /\ call[c].asked => call[c].state = "inflight" /\ ~Holds(c)
       /\ Holds(c) => call[c].state = "inflight"
       /\ \A k \in DOMAIN lane[c] : lane[c][k].kind \in {"conclude", "close"} => k = Len(lane[c]) /\ Ended(c)
       /\ work[c].kind \in {"conclude", "close"} \/ call[c].state = "over" => lane[c] = <<>>

\* Everything the tool reported reaches the host in the order it was reported, and before the session is closed
\* by its lane: the outcomes left over at a deadline are sealed ahead of the next round's events and of the close.
\* The exceptions are a round still queued when its call ends (SkipRound), and what closing the connection cuts short.
OutcomesReachHost ==
  ~stopped /\ connection \in {"up", "draining"} => \A c \in Calls :
    /\ \A j, k \in DOMAIN log[c] : j < k /\ log[c][k] # 0 => log[c][j] # 0 /\ log[c][j] < log[c][k]
    /\ call[c].state = "over" =>
         \A n \in DOMAIN received[c] : IsAttempt(c, n) \/ n \in dropped[c] \/ n \in Range(log[c])

\* A retry grants the attempts recorded in time, all of them and no others: none that was cut off at the deadline, and
\* what was not reached by then, or cannot be answered, is never recorded.
GrantsTold ==
  \A c \in Calls :
    LET granted == told[c] \cup UNION {h.accepted : h \in {g \in Range(held) : g.call = c}} IN
    /\ granted \subseteq Range(log[c]) \ late[c]
    /\ Range(log[c]) \cap dropped[c] = {}
    /\ Ended(c) \/ {n \in Range(log[c]) \ {0} : IsAttempt(c, n)} \subseteq granted \cup late[c] \cup work[c].accepted

\* The client gets at most one frame for each request it made of a call, and none for a call it cancelled, but for the
\* error of a round the host was abandoning already, which it is given though it cancelled while that was under way.
ClientToldOnce ==
  [][\A c \in Calls : clientTold'[c] # clientTold[c] =>
       clientTold[c] < clientAsked[c] /\ (c \in cancelled => work[c].kind = "abandoned")]_vars

\* Closing the connection is silent only of sessions whose every outcome reached the endpoint.  (That a tool puts no
\* attempt in a final result is assumed of the instance: the tool's side of the seam never does.)
ClosingLogsLosses ==
  \A c \in Calls : sweep[c] = "quiet" =>
    \A n \in DOMAIN received[c] : IsAttempt(c, n) \/ n \in Range(log[c])

\* What _on_close says of itself: a session whose lane still holds work when the bound on closing expires is logged.  (A
\* session's own close is no such work: it is closed all the same.)
ClosingLogsUndone == \A c \in Calls : sweep[c] = "quiet" => \A k \in DOMAIN lane[c] : lane[c][k].kind = "close"

\* The host has the call's next move: it answered the tool's request and has not concluded, or its session is to close.
Pending(c) ==
  /\ Up
  /\ call[c].state = "concluding" \/ (call[c].state = "inflight" /\ ~call[c].asked /\ ~Holds(c))

\* The host does not leave a call pending for ever: after a frame of the tool the tool is asked again, the client
\* holds the round, or the call ends; and a call that ended has its session closed.
CallsGoOn == \A c \in Calls : []<>~Pending(c)
=============================================================================
