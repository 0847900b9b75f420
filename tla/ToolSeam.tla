------------------------------- MODULE ToolSeam -------------------------------
(***************************************************************************)
(* The tool's side of the MCP binding with rounds: McpAuditTransport       *)
(* (mcp/seam.py), §6.4.  A call's attempts cannot be asked of the host     *)
(* directly: the open request is answered by an input-required result (a   *)
(* round) that carries the events buffered so far, and the host's retry of *)
(* it brings the answers and is the next request to answer on.             *)
(*                                                                         *)
(* Handlers, their operations and the host are the environment: handlers   *)
(* conclude when they like, retries come late, twice, for another session  *)
(* or never, and hosts cancel.  Every action is one run of code between    *)
(* two awaits of the event loop.                                           *)
(***************************************************************************)
EXTENDS SequencesExt, FiniteSetsExt

CONSTANTS
  Calls,        \* tools/call requests the tool's MCP session is given
  Ops,          \* audited operations
  CallOf,       \* the call an operation belongs to
  Sessions,     \* audit sessions the host issued
  SessionOf,    \* the session a call was sent under
  After,        \* the call whose request for input a call answers, or NoCall
  NoCall,
  MaxHeld,      \* MAX_IDLE_SESSIONS
  MaxRequests   \* bound: requests made for one call, its retries included

ASSUME SeamAssumption ==
  /\ NoCall \notin Calls
  /\ CallOf \in [Ops -> Calls] /\ SessionOf \in [Calls -> Sessions]
  /\ After \in [Calls -> Calls \cup {NoCall}]
  /\ MaxHeld \in Nat \ {0} /\ MaxRequests \in Nat \ {0}

\* A host opens an audit session for each of its calls, and gives a request for input to one retry.
ASSUME ChainAssumption ==
  \A c \in Calls :
    /\ After[c] # NoCall => SessionOf[After[c]] = SessionOf[c]
    /\ \A d \in Calls : SessionOf[c] = SessionOf[d] /\ After[c] = After[d] => c = d

VARIABLES
  handler,      \* the tool's code for a call: unborn, running or done
  call,         \* _ToolCall
  waiting,      \* _waiting: concluded calls that keep a final frame, least recent first
  cancelled,    \* the calls of _cancelled, whose final frame is withheld
  session,      \* _AuditSession: known to the seam, its requests in flight, its next number
  idle,         \* _idle: sessions without a request in flight, least recent first
  stage,        \* where each operation stands
  connected,    \* the connection is up
  frames,       \* what was written for a call's requests, in order
  requests,     \* requests made for a call: 1 opens it, later ones retry its rounds
  handed,       \* history: operations whose outcome the seam took
  granted,      \* history: operations a retry granted, of the round it closes and in time
  acted,        \* history: operations whose body ran
  dropped,      \* history: calls cancelled, evicted or cut off
  restarted     \* history: sessions forgotten while the host may still retry them

seamVars == <<handler, call, waiting, cancelled, session, idle, stage, connected, frames, requests>>
history == <<handed, granted, acted, dropped, restarted>>
vars == <<seamVars, history>>

NoRequest == 0   \* current_id is None
NoRound == 0     \* round is None

Kinds == {"result", "error", "input"}   \* what a handler concludes with
Concluding == {"result", "error"}

FreshCall ==
  [current |-> NoRequest, round |-> NoRound, buffered |-> {}, scheduled |-> FALSE, final |-> "none",
   finished |-> FALSE, ended |-> FALSE, released |-> FALSE, open |-> {}]

Init ==
  /\ handler = [c \in Calls |-> "unborn"] /\ call = [c \in Calls |-> FreshCall]
  /\ waiting = <<>> /\ cancelled = {} /\ idle = <<>>
  /\ session = [s \in Sessions |-> [known |-> FALSE, live |-> 0, next |-> 0]]
  /\ stage = [op \in Ops |-> "new"] /\ connected = TRUE
  /\ frames = [c \in Calls |-> <<>>] /\ requests = [c \in Calls |-> 0]
  /\ handed = {} /\ granted = {} /\ acted = {} /\ dropped = {} /\ restarted = {}

-----------------------------------------------------------------------------
(* What the seam's tables hold. *)

OpsOf(c) == {op \in Ops : CallOf[op] = c}
\* An event carries its number, so events that go out together are a set.
OpsIn(events, kind) == {e.op : e \in {x \in events : x.kind = kind}}

\* The rounds written for a call; a token is a call and the place of its round among the call's frames.
Rounds(c) == {n \in DOMAIN frames[c] : frames[c][n].kind = "round"}
\* The attempts a round waits for.
Awaited(c, n) == OpsIn(frames[c][n].events, "attempt")

InFlight(c) == handler[c] # "unborn" /\ ~call[c].finished   \* c is in _calls
Held(c) == c \in Range(waiting)
\* The token is in _rounds.
RoundOpen(c, n) == call[c].round = n /\ ~call[c].ended

\* The call asked the host for input, and the host has not given it up: it retries as a new request.
AskedInput(c) == c \notin dropped /\ \E n \in DOMAIN frames[c] : frames[c][n].kind = "input"
Concluded(c) == \E n \in DOMAIN frames[c] : frames[c][n].kind \in Kinds

\* Running, blind to what was accepted before the round that is out.
RunningByRound ==
  \E c \in Calls : InFlight(c) /\ ~call[c].ended /\ call[c].round = NoRound

\* The properties an HTTP entry consults before it closes the connection.
Running ==
  \E c \in Calls : InFlight(c) /\ ~call[c].ended /\ (call[c].round = NoRound \/ call[c].open # {})
Undelivered ==
  \/ \E c \in Calls : InFlight(c) /\ ~call[c].ended /\ call[c].buffered # {}
  \/ \E c \in Range(waiting) : ~call[c].ended

\* A late answer overrides the one that stands.
SettleLate(ops, accepted) ==
  [op \in Ops |-> IF op \in ops /\ stage[op] \in {"waiting", "aborting"}
                  THEN IF op \in accepted THEN "granted" ELSE "denied"
                  ELSE stage[op]]

\* The answers settle every operation of ops that still waits: the first answer stands.
Settle(ops, accepted) ==
  [op \in Ops |-> IF op \in ops /\ stage[op] = "waiting"
                  THEN IF op \in accepted THEN "granted" ELSE "denied"
                  ELSE stage[op]]

Written(c, frame) == frames' = [frames EXCEPT ![c] = Append(@, frame)]
Frame(id, kind, events) == [id |-> id, kind |-> kind, events |-> events]

-----------------------------------------------------------------------------
(* The audit sessions of the connection. *)

\* _keep_idle: the least recently idle session is evicted beyond the bound.
KeepIdle(s) ==
  LET line == Append(RemoveFirst(idle, s), s)
      over == IF Len(line) > MaxHeld THEN {Head(line)} ELSE {}
  IN  /\ idle' = IF over = {} THEN line ELSE Tail(line)
      /\ session' = [x \in Sessions |->
                       IF x = s THEN [session[x] EXCEPT !.live = 0]
                       ELSE [session[x] EXCEPT !.known = @ /\ x \notin over]]
      /\ restarted' = restarted \cup over

\* The request ends the session whatever it concluded with.
ReleaseForGood(c, continues) ==
  LET s == SessionOf[c] IN
  IF call[c].released THEN UNCHANGED <<session, idle, restarted>>
  ELSE /\ session' = [session EXCEPT ![s].known = FALSE, ![s].live = 0]
       /\ idle' = RemoveFirst(idle, s)
       /\ UNCHANGED restarted

\* _release: a request of the session is done.  continues: the handler asked for input.
Release(c, continues) ==
  LET s == SessionOf[c] IN
  IF call[c].released THEN UNCHANGED <<session, idle, restarted>>
  ELSE IF session[s].live > 1
  THEN session' = [session EXCEPT ![s].live = @ - 1] /\ UNCHANGED <<idle, restarted>>
  ELSE IF continues THEN KeepIdle(s)
  ELSE /\ session' = [session EXCEPT ![s].known = FALSE, ![s].live = 0]
       /\ idle' = RemoveFirst(idle, s)
       /\ UNCHANGED restarted

-----------------------------------------------------------------------------
(* The end of a call. *)

EndedCall(c) == [call[c] EXCEPT !.finished = TRUE, !.ended = TRUE, !.final = "none", !.released = TRUE]

\* _keep_waiting: c, in state k, keeps its final frame; the least recently concluded call makes room.
KeepWaiting(c, k, kind) ==
  LET line == Append(RemoveFirst(waiting, c), c)
      over == IF Len(line) > MaxHeld THEN {Head(line)} ELSE {}
  IN  /\ waiting' = IF over = {} THEN line ELSE Tail(line)
      /\ call' = [d \in Calls |-> IF d = c THEN [k EXCEPT !.final = kind]
                                  ELSE IF d \in over THEN EndedCall(d) ELSE call[d]]
      /\ dropped' = dropped \cup over
      /\ UNCHANGED frames

OutcomesOf(k) == {e \in k.buffered : e.kind = "outcome"}

\* The error goes out at once.
FinalFrameAtOnce(c, k, kind) ==
  /\ Written(c, Frame(k.current, kind, IF kind = "error" THEN {} ELSE OutcomesOf(k)))
  /\ call' = [call EXCEPT ![c] = [k EXCEPT !.buffered = {}, !.ended = TRUE, !.final = "none"]]
  /\ waiting' = RemoveFirst(waiting, c)
  /\ UNCHANGED dropped

\* The round that must precede the error is not scheduled.
FinalFrameUnscheduled(c, k, kind) ==
  IF kind = "error" /\ OutcomesOf(k) # {}
  THEN KeepWaiting(c, [k EXCEPT !.buffered = OutcomesOf(k)], kind)
  ELSE /\ Written(c, Frame(k.current, kind, OutcomesOf(k)))
       /\ call' = [call EXCEPT ![c] = [k EXCEPT !.buffered = {}, !.ended = TRUE, !.final = "none"]]
       /\ waiting' = RemoveFirst(waiting, c)
       /\ UNCHANGED dropped

\* _final_frame: what concludes c on the request open in k, with the outcomes that are left.  An
\* error cannot carry them: they go in a round first, and the error is kept for that round's retry.
FinalFrame(c, k, kind) ==
  IF kind = "error" /\ OutcomesOf(k) # {}
  THEN KeepWaiting(c, [k EXCEPT !.buffered = OutcomesOf(k), !.scheduled = TRUE], kind)
  ELSE /\ Written(c, Frame(k.current, kind, OutcomesOf(k)))
       /\ call' = [call EXCEPT ![c] = [k EXCEPT !.buffered = {}, !.ended = TRUE, !.final = "none"]]
       /\ waiting' = RemoveFirst(waiting, c)
       /\ UNCHANGED dropped

\* Every operation of the calls an action ends learns that no answer comes.
SettleOver(ops, accepted) ==
  stage' = Settle(ops \cup UNION {OpsOf(d) : d \in dropped' \ dropped}, accepted)

-----------------------------------------------------------------------------
(* Requests. *)

\* _take_call, a new request: it joins the session of its id, or starts it.
Open(c) ==
  LET s == SessionOf[c] IN
  /\ connected /\ handler[c] = "unborn"
  /\ After[c] # NoCall => AskedInput(After[c])
  /\ handler' = [handler EXCEPT ![c] = "running"]
  /\ requests' = [requests EXCEPT ![c] = 1]
  /\ call' = [call EXCEPT ![c].current = 1]
  /\ session' = [session EXCEPT ![s] = [known |-> TRUE, live |-> IF @.known THEN @.live + 1 ELSE 1,
                                        next |-> IF @.known THEN @.next ELSE 0]]
  /\ idle' = RemoveFirst(idle, s)
  /\ UNCHANGED <<waiting, cancelled, stage, connected, frames, history>>

\* The round stays out when its retry is taken.
AcceptRetryAgain(c, n, accepted) ==
  LET heard == accepted \cap Awaited(c, n)
      k == [call[c] EXCEPT !.current = requests[c] + 1]
  IN  /\ RoundOpen(c, n)
      /\ granted' = granted \cup {op \in heard : stage[op] = "waiting"}
      /\ IF call[c].final = "none"
         THEN /\ call' = [call EXCEPT ![c] = k]
              /\ stage' = Settle(Awaited(c, n), heard)
              /\ UNCHANGED <<waiting, frames, dropped>>
         ELSE FinalFrame(c, k, call[c].final) /\ SettleOver(OpsOf(c), heard)

\* A retry naming the n-th round of c, which is out: _accept_retry, then the final frame if one is kept.
\* It answers the round's attempts only if it names the call's session; the host accepts some of them.
AcceptRetry(c, n, accepted) ==
  LET heard == accepted \cap Awaited(c, n)
      again == ~call[c].finished /\ OpsIn(call[c].buffered, "attempt") # {}
      k == [call[c] EXCEPT !.round = NoRound, !.current = requests[c] + 1, !.scheduled = @ \/ again]
  IN  /\ RoundOpen(c, n)
      /\ granted' = granted \cup {op \in heard : stage[op] = "waiting"}
      /\ IF call[c].final = "none"
         THEN /\ call' = [call EXCEPT ![c] = k]
              /\ stage' = Settle(Awaited(c, n), heard)
              /\ UNCHANGED <<waiting, frames, dropped>>
         ELSE FinalFrame(c, k, call[c].final) /\ SettleOver(OpsOf(c), heard)

\* Consumed, cancelled, evicted or cut off: a replay is refused and changes nothing.
RefuseRetry(c, n) ==
  /\ ~RoundOpen(c, n)
  /\ Written(c, Frame(requests[c] + 1, "refused", {}))
  /\ UNCHANGED <<call, waiting, stage, granted, dropped>>

TakeRetry(c) ==
  /\ connected /\ requests[c] < MaxRequests
  /\ requests' = [requests EXCEPT ![c] = @ + 1]
  /\ \E n \in Rounds(c), accepted \in SUBSET OpsOf(c) :
       AcceptRetry(c, n, accepted) \/ RefuseRetry(c, n)
  /\ UNCHANGED <<handler, cancelled, session, idle, connected, handed, acted, restarted>>

\* _cancel: a cancellation names any id the call was served under.  A handler still at work is
\* cancelled too, and what it concludes with is withheld.
Cancel(c) ==
  /\ connected /\ (InFlight(c) \/ Held(c))
  /\ call' = [call EXCEPT ![c] = EndedCall(c)]
  /\ waiting' = RemoveFirst(waiting, c)
  /\ cancelled' = IF call[c].finished THEN cancelled ELSE cancelled \cup {c}
  /\ stage' = Settle(OpsOf(c), {})
  /\ Release(c, FALSE)
  /\ dropped' = dropped \cup {c}
  /\ UNCHANGED <<handler, connected, frames, requests, handed, granted, acted>>

\* _forget_cancelled: the bound on the wait for a cancelled handler's final frame has passed.
Forget(c) ==
  /\ c \in cancelled
  /\ cancelled' = cancelled \ {c}
  /\ UNCHANGED <<handler, call, waiting, session, idle, stage, connected, frames, requests, history>>

\* _on_close: nothing is answered any more.
Close ==
  LET cut == {c \in Calls : InFlight(c) \/ Held(c)} IN
  /\ connected /\ connected' = FALSE
  /\ call' = [c \in Calls |-> IF c \in cut THEN EndedCall(c) ELSE call[c]]
  /\ waiting' = <<>> /\ cancelled' = {} /\ idle' = <<>>
  /\ session' = [s \in Sessions |-> [session[s] EXCEPT !.known = FALSE, !.live = 0]]
  /\ stage' = Settle(Ops, {})
  /\ dropped' = dropped \cup cut
  /\ UNCHANGED <<handler, frames, requests, handed, granted, acted, restarted>>

-----------------------------------------------------------------------------
(* Operations and rounds. *)

Emits(op, kind) ==
  LET c == CallOf[op] s == SessionOf[c] IN
  /\ call' = [call EXCEPT ![c].buffered = @ \cup {[op |-> op, kind |-> kind, number |-> session[s].next]},
                          ![c].scheduled = @ \/ kind = "attempt",
                          ![c].open = @ \ {op}]
  /\ session' = [session EXCEPT ![s].next = @ + 1]

GoesOn(op, where) == stage' = [stage EXCEPT ![op] = where]
Over(c) == call[c].finished \/ call[c].ended

\* _send_attempt up to its wait: buffered, and the round's end scheduled, or refused at the door.
EmitAttempt(op) ==
  LET c == CallOf[op] IN
  /\ stage[op] = "new" /\ handler[c] # "unborn"
  /\ IF Over(c) THEN GoesOn(op, "aborting") /\ UNCHANGED <<call, session>>
     ELSE GoesOn(op, "waiting") /\ Emits(op, "attempt")
  /\ UNCHANGED <<handler, waiting, cancelled, idle, connected, frames, requests, history>>

\* A round is written over the one that is out, on the request that was answered with it.
EndRoundTwice(c) ==
  LET k == [call[c] EXCEPT !.scheduled = FALSE] IN
  /\ call[c].scheduled
  /\ IF k.ended \/ k.buffered = {}
     THEN call' = [call EXCEPT ![c] = k] /\ UNCHANGED frames
     ELSE /\ call' = [call EXCEPT ![c] = [k EXCEPT !.round = Len(frames[c]) + 1, !.current = NoRequest,
                                                   !.buffered = {}]]
          /\ Written(c, Frame(requests[c], "round", k.buffered))
  /\ UNCHANGED <<handler, waiting, cancelled, session, idle, stage, connected, requests, history>>

\* _end_round: once no round is out and a request is open, it is answered with what is buffered.
EndRound(c) ==
  LET k == [call[c] EXCEPT !.scheduled = FALSE] IN
  /\ call[c].scheduled
  /\ IF k.ended \/ k.round # NoRound \/ k.current = NoRequest \/ k.buffered = {}
     THEN call' = [call EXCEPT ![c] = k] /\ UNCHANGED frames
     ELSE /\ call' = [call EXCEPT ![c] = [k EXCEPT !.round = Len(frames[c]) + 1, !.current = NoRequest,
                                                   !.buffered = {}]]
          /\ Written(c, Frame(k.current, "round", k.buffered))
  /\ UNCHANGED <<handler, waiting, cancelled, session, idle, stage, connected, requests, history>>

\* No answer within request_timeout: settled as unavailable.  The attempt itself stays where it is.
GiveUp(op) ==
  /\ stage[op] = "waiting"
  /\ GoesOn(op, "aborting")
  /\ UNCHANGED <<handler, call, waiting, cancelled, session, idle, connected, frames, requests, history>>

\* _send_attempt after its wait: the operation runs, or will report that it does not.
Resume(op) ==
  LET c == CallOf[op] IN
  /\ \/ /\ stage[op] = "granted"
        /\ GoesOn(op, "acting")
        /\ acted' = acted \cup {op}
        /\ call' = IF call[c].ended THEN call ELSE [call EXCEPT ![c].open = @ \cup {op}]
     \/ stage[op] = "denied" /\ GoesOn(op, "aborting") /\ UNCHANGED <<acted, call>>
  /\ UNCHANGED <<handler, waiting, cancelled, session, idle, connected, frames, requests,
                 handed, granted, dropped, restarted>>

\* _send_outcome: buffered for the next round or the result.  After the call's end it is lost.
EmitOutcome(op) ==
  LET c == CallOf[op] IN
  /\ stage[op] \in {"acting", "aborting"}
  /\ GoesOn(op, "over")
  /\ IF Over(c)
     THEN call' = [call EXCEPT ![c].open = @ \ {op}] /\ UNCHANGED <<session, handed>>
     ELSE Emits(op, "outcome") /\ handed' = handed \cup {op}
  /\ UNCHANGED <<handler, waiting, cancelled, idle, connected, frames, requests,
                 granted, acted, dropped, restarted>>

\* _outbound, the handler's final frame of a call in _calls: _finish.
Finish(c, kind) ==
  LET k == [call[c] EXCEPT !.finished = TRUE, !.released = TRUE] IN
  /\ InFlight(c)
  /\ Release(c, kind = "input")
  /\ IF k.round # NoRound
     THEN KeepWaiting(c, k, kind) /\ SettleOver(Awaited(c, k.round), {})
     ELSE FinalFrame(c, k, kind) /\ SettleOver(OpsOf(c), {})
  /\ UNCHANGED cancelled

\* A cancelled handler's final frame is withheld, until the seam forgets the cancellation: then it
\* passes, on the id of the original request.
FinishCancelled(c, kind) ==
  /\ ~InFlight(c)
  /\ cancelled' = cancelled \ {c}
  /\ IF c \in cancelled \/ ~connected THEN UNCHANGED frames ELSE Written(c, Frame(1, kind, {}))
  /\ UNCHANGED <<call, waiting, session, idle, stage, dropped, restarted>>

Conclude(c) ==
  /\ handler[c] = "running"
  /\ handler' = [handler EXCEPT ![c] = "done"]
  /\ \E kind \in Kinds : Finish(c, kind) \/ FinishCancelled(c, kind)
  /\ UNCHANGED <<connected, requests, handed, granted, acted>>

-----------------------------------------------------------------------------
Next ==
  \/ \E c \in Calls : Open(c) \/ TakeRetry(c) \/ Cancel(c) \/ Forget(c) \/ EndRound(c) \/ Conclude(c)
  \/ \E op \in Ops : EmitAttempt(op) \/ GiveUp(op) \/ Resume(op) \/ EmitOutcome(op)
  \/ Close

\* The event loop runs the rounds scheduled on it, and the tool's handlers conclude.
Fairness == \A c \in Calls : WF_vars(EndRound(c)) /\ WF_vars(Conclude(c))

Spec == Init /\ [][Next]_vars /\ Fairness

-----------------------------------------------------------------------------
(* Properties. *)

Events == [op : Ops, kind : {"attempt", "outcome"}, number : Nat]
Frames == [id : Nat, kind : Kinds \cup {"round", "refused"}, events : SUBSET Events]

\* The requests that are in flight under a session.
Serving(s) == {c \in Calls : SessionOf[c] = s /\ handler[c] # "unborn" /\ ~call[c].released}

\* Types, and the exchange of rounds: a call at work has a request to answer or a round out, never
\* both and never neither.  And the tables agree: a session counts the requests in flight under it and is
\* idle exactly while it is kept without any; a concluded call that is not kept would never be answered.
SeamTypeOK ==
  /\ handler \in [Calls -> {"unborn", "running", "done"}]
  /\ stage \in [Ops -> {"new", "waiting", "granted", "denied", "acting", "aborting", "over"}]
  /\ \A c \in Calls :
       /\ call[c].current \in 0..MaxRequests /\ call[c].round \in Rounds(c) \cup {NoRound}
       /\ call[c].buffered \subseteq Events /\ call[c].open \subseteq OpsOf(c)
       /\ call[c].final \in Kinds \cup {"none"}
       /\ requests[c] \in 0..MaxRequests
       /\ frames[c] \in Seq(Frames) /\ \A n \in DOMAIN frames[c] : frames[c][n].id \in 1..requests[c]
       /\ handler[c] # "unborn" /\ ~call[c].ended => (call[c].current = NoRequest) = (call[c].round # NoRound)
  /\ connected =>
    /\ \A s \in Sessions : /\ session[s].live = Cardinality(Serving(s))
                          /\ Serving(s) # {} => session[s].known
                          /\ (s \in Range(idle)) = (session[s].known /\ Serving(s) = {})
    /\ \A c \in Calls : Held(c) = (call[c].finished /\ ~call[c].ended)
    /\ Len(waiting) <= MaxHeld /\ Len(idle) <= MaxHeld

\* No request is answered twice: neither by two rounds, nor by a round and the final frame that
\* waited for its retry.  A cancellation that was forgotten lets a late final frame through.
OneFramePerRequest ==
  \A c \in Calls \ dropped : \A m, n \in DOMAIN frames[c] : frames[c][m].id = frames[c][n].id => m = n

\* The outcomes written for a call.
OutcomesWritten(c) == UNION {OpsIn(frames[c][n].events, "outcome") : n \in DOMAIN frames[c]}

\* The requests whose frames a host reads after c's, of the same session, in that order; c's own come first.
Follows(c) == {d \in Calls : After[d] = c}

\* Events reach the wire in the order they were emitted and none of them twice, across rounds, error
\* frames, and the requests of one call; only a session evicted while idle restarts its numbering.
EventsOnceInOrder ==
  \A c \in Calls : \A d \in Follows(c) \cup {c} :
    \/ d # c /\ SessionOf[c] \in restarted
    \/ \A m \in DOMAIN frames[c], n \in DOMAIN frames[d] :
         \A x \in frames[c][m].events, y \in frames[d][n].events :
           /\ c # d \/ m < n => x.number < y.number
           /\ c = d /\ m = n /\ x # y => x.number # y.number

\* An outcome the seam took goes no later than the result it belongs to, and a final frame carries
\* no attempt: not even one that was never sent, nor behind an error, which can carry nothing.
OutcomesNoLaterThanResult ==
  \A c \in Calls \ dropped : Concluded(c) =>
    /\ handed \cap OpsOf(c) \subseteq OutcomesWritten(c)
    /\ \A n \in DOMAIN frames[c] : frames[c][n].kind \in Kinds => OpsIn(frames[c][n].events, "attempt") = {}
    /\ \A n \in DOMAIN frames[c] : frames[c][n].kind = "error" => frames[c][n].events = {}

\* A body runs only on an answer its own round's retry brought while the attempt still waited: a
\* replayed, late or misdirected retry, a cancellation or a closing connection runs nothing.
ActsOnlyIfGranted == acted \subseteq granted

\* What an HTTP entry relies on when it closes an idle connection: with nothing running and nothing
\* undelivered, no operation under way is cut short and no outcome or final frame is lost.
ClosingLosesNothing ==
  connected /\ ~Running /\ ~Undelivered =>
    \A c \in Calls \ dropped : handler[c] # "unborn" =>
      /\ handed \cap OpsOf(c) \subseteq OutcomesWritten(c)
      /\ call[c].finished => Concluded(c)
      /\ ~call[c].finished => \A op \in OpsOf(c) : stage[op] # "acting"

Unanswered(c) ==
  c \notin dropped /\ \E id \in 1..requests[c] : \A n \in DOMAIN frames[c] : frames[c][n].id # id

\* Every request the host makes is answered, by a round, a refusal or a final frame, unless the call
\* was cancelled, evicted or cut off.
RequestsAnswered == \A c \in Calls : Unanswered(c) ~> ~Unanswered(c)
=============================================================================
