------------------------------- MODULE HttpEntry -------------------------------
(***************************************************************************)
(* AuditedStreamableHTTP (mcp/http.py): the instances of a deployment that *)
(* serve audited calls over Streamable HTTP.  Each call is held on a       *)
(* connection of its own, with the tool's seam behind it; a round's retry  *)
(* finds the connection by its token, or is forwarded, once, to the        *)
(* instance the token names.  Instances keep what they hold in memory.     *)
(*                                                                         *)
(* Every action is one run of code between two awaits.  Clients, the tool  *)
(* behind its seam (ToolSeam says how that answers) and the way between    *)
(* instances are the environment.  A call is named by the POST that opened *)
(* it, and a token by its call and the number of the round.                *)
(***************************************************************************)
EXTENDS SequencesExt, FiniteSetsExt

CONSTANTS
  Instances,    \* of the deployment
  Sessions,     \* audit sessions hosts issued
  MaxPosts,     \* bound: POSTs made
  MaxRounds,    \* bound: rounds of one call
  MaxHeldCalls  \* max_held_calls of each instance

ASSUME EntryAssumption == MaxPosts \in Nat /\ MaxRounds \in Nat /\ MaxHeldCalls \in Nat \ {0}

Posts == 1..MaxPosts
NoPost == 0
Direct == "direct"   \* no instance forwarded the request
ASSUME DirectAssumption == Direct \notin Instances

VARIABLES
  post,      \* what each POST carries, the call it belongs to, and the instance that forwarded it
  phase,     \* where it stands: unsent, forwarding, listing, asking, relaying, over
  answer,    \* the answer put into its waiter, or the owner's to a forwarded one
  told,      \* what its client was answered
  gone,      \* POSTs whose response nobody reads any more
  sessions,  \* _sessions of each instance: its calls, least recently used first
  tokens,    \* _tokens of each instance
  conn,      \* _CallConnection, by call
  seam,      \* the tool's seam behind it
  down,      \* instances whose run() was left
  known,     \* tokens clients were given
  served     \* history: POSTs written into their call's connection

client == <<told, gone, known>>
registry == <<sessions, tokens>>
vars == <<post, phase, answer, client, registry, conn, seam, down, served>>

\* NO_OPEN_ROUND, PRINCIPAL_MISMATCH, a header rejection, SESSION_ALREADY_OPEN, REGISTRY_FULL.
Refusals == {"refused", "principal", "mismatch", "held", "full"}
Answers == Refusals \cup {"none", "round", "result", "closed", "unknown"}
\* What a retry presents of its call: all of it, another principal, or another session.
Presents == {"call", "principal", "session"}
\* What checking a POST's Mcp-Param headers would show: nothing to check, agreement, disagreement.
Checks == {"nothing", "agrees", "differs"}

NoCall == [state |-> "none", at |-> Direct, schema |-> "unread", why |-> "none", lost |-> {}]
NoSeam == [rounds |-> <<>>, request |-> NoPost, operation |-> FALSE, outcomes |-> FALSE, final |-> FALSE]

Init ==
  /\ post = [r \in Posts |-> [session |-> "none", call |-> NoPost, round |-> 0, presents |-> "call",
                              check |-> "nothing", via |-> Direct]]
  /\ phase = [r \in Posts |-> "unsent"]
  /\ answer = [r \in Posts |-> "none"] /\ told = [r \in Posts |-> "none"]
  /\ gone = {} /\ known = {} /\ served = {} /\ down = {}
  /\ sessions = [i \in Instances |-> <<>>] /\ tokens = [i \in Instances |-> {}]
  /\ conn = [c \in Posts |-> NoCall] /\ seam = [c \in Posts |-> NoSeam]

-----------------------------------------------------------------------------
(* What is held. *)

Open(c) == conn[c].state = "open"
TokenOf(r) == <<post[r].call, post[r].round>>
IsRetry(r) == post[r].round # 0
IsOwn(t) == seam[t[1]].rounds[t[2]] = "own"
\* The call's newest round.
Newest(c) == <<c, Len(seam[c].rounds)>>

InFlight(c) == {r \in Posts : post[r].call = c /\ phase[r] \in {"listing", "asking"}}

\* A request is in flight, or the handler works: with no round out, or with an accepted operation under way.
RunningByRequests(c) == InFlight(c) # {}
Running(c) == InFlight(c) # {} \/ seam[c].request # NoPost \/ seam[c].operation
\* Outcomes or a final answer wait for the next retry.
Undelivered(c) == seam[c].outcomes \/ seam[c].final
Evictable(c) == ~Running(c) /\ ~Undelivered(c)

\* What closing c now would cut short.
AtStake(c) ==
  {x \in {"request", "operation", "outcomes"} :
     CASE x = "request" -> InFlight(c) # {} \/ seam[c].request # NoPost
       [] x = "operation" -> seam[c].operation
       [] x = "outcomes" -> Undelivered(c)}

\* What is left of a line of calls, in its order, when those of cs leave it.
Without(line, cs) ==
  LET kept[n \in 0..Len(line)] ==
        IF n = 0 THEN <<>> ELSE IF line[n] \in cs THEN kept[n - 1] ELSE Append(kept[n - 1], line[n])
  IN kept[Len(line)]

\* _use: the most recently used call goes last.
Used(line, c) == IF Contains(line, c) THEN Append(Without(line, {c}), c) ELSE line

-----------------------------------------------------------------------------
(* _close, of those of the calls that are open: no longer held, and every request in flight answered. *)

ClosedOf(cs, why) ==
  [c \in Posts |-> IF c \in cs /\ Open(c)
                   THEN [conn[c] EXCEPT !.state = "closed", !.why = why, !.lost = AtStake(c)] ELSE conn[c]]
\* The tool's work on them ends with them.
SeamWithout(cs) == [c \in Posts |-> IF c \in cs /\ Open(c) THEN [NoSeam EXCEPT !.rounds = seam[c].rounds] ELSE seam[c]]
HeldWithout(cs) == [i \in Instances |-> Without(sessions[i], cs)]
\* Its tokens stay in the index.
TokensKept(cs) == tokens
TokensWithout(cs) == [i \in Instances |-> {t \in tokens[i] : t[1] \notin cs}]
\* The requests in flight are left to themselves.
WaitersLeft(cs) == answer
WaitersAnswered(cs) ==
  [r \in Posts |-> IF answer[r] = "none" /\ \E c \in cs : Open(c) /\ r \in InFlight(c) THEN "closed" ELSE answer[r]]

Close(cs, why) ==
  /\ conn' = ClosedOf(cs, why) /\ seam' = SeamWithout(cs)
  /\ sessions' = HeldWithout(cs) /\ tokens' = TokensWithout(cs)

-----------------------------------------------------------------------------
(* The parts of a request's way. *)

\* The request is answered by the instance that serves it: to its client, or to the instance that forwarded it.
Reply(r, what) ==
  IF post'[r].via = Direct
  THEN /\ told' = IF r \in gone THEN told ELSE [told EXCEPT ![r] = what]
       /\ phase' = [phase EXCEPT ![r] = "over"] /\ answer' = [answer EXCEPT ![r] = "none"]
  ELSE /\ answer' = [answer EXCEPT ![r] = what]
       /\ phase' = [phase EXCEPT ![r] = "relaying"]
       /\ UNCHANGED told

\* _enter, the request written in under an id of its own: it waits for the tool's answer.
Enter(r) ==
  /\ phase' = [phase EXCEPT ![r] = "asking"]
  /\ served' = served \cup {r}
  /\ UNCHANGED <<answer, told>>

\* restore, of a retry that did not reach the seam.
TokenLost(r, index) == index
Restored(r, index) ==
  LET c == post'[r].call t == <<c, post'[r].round>> IN
  IF IsRetry(r)' /\ Open(c) THEN [index EXCEPT ![conn[c].at] = @ \cup {t}] ELSE index

\* _exchange, with the tokens as they stand: the connection takes the request unless it is closed or is not read,
\* which `writable` says.
Exchange(r, c, index, writable) ==
  IF writable
  THEN Enter(r) /\ tokens' = index /\ seam' = [seam EXCEPT ![c].request = r]
  ELSE Reply(r, "refused") /\ tokens' = Restored(r, index) /\ UNCHANGED <<seam, served>>

-----------------------------------------------------------------------------
(* A call's first request: _serve_opening. *)

\* POSTs are made in order.
Unsent(r) == phase[r] = "unsent" /\ \A q \in 1..(r - 1) : phase[q] # "unsent"

Carrying(s, c, n, presents, check) ==
  [session |-> s, call |-> c, round |-> n, presents |-> presents, check |-> check, via |-> Direct]

\* The session is held, or the registry is full of calls none of which may be closed.
RefuseFirst(r, i, s) ==
  /\ \/ Reply(r, "held") /\ \E c \in Range(sessions[i]) : post[c].session = s
     \/ Reply(r, "full") /\ Len(sessions[i]) >= MaxHeldCalls /\ \A c \in Range(sessions[i]) : ~Evictable(c) /\ post[c].session # s
  /\ UNCHANGED <<registry, conn, seam, served>>

\* _open: beyond the bound, the least recently used call that may be closed makes room.
Opened(r, i, closing) ==
  /\ conn' = [ClosedOf(closing, "evicted") EXCEPT ![r] = [NoCall EXCEPT !.state = "open", !.at = i]]
  /\ sessions' = [HeldWithout(closing) EXCEPT ![i] = Append(@, r)]
  /\ tokens' = TokensWithout(closing)
  /\ seam' = [SeamWithout(closing) EXCEPT ![r].request = IF post'[r].check = "nothing" THEN r ELSE NoPost]

OpenCall(r, i, s) ==
  /\ \A c \in Range(sessions[i]) : post[c].session # s
  /\ IF Len(sessions[i]) < MaxHeldCalls THEN Opened(r, i, {})
     ELSE \E n \in DOMAIN sessions[i] :
            /\ Evictable(sessions[i][n]) /\ \A m \in 1..(n - 1) : ~Evictable(sessions[i][m])
            /\ Opened(r, i, {sessions[i][n]})
  /\ IF post'[r].check = "nothing" THEN Enter(r)
     ELSE phase' = [phase EXCEPT ![r] = "listing"] /\ UNCHANGED <<answer, told, served>>

First(r) ==
  /\ Unsent(r)
  /\ \E i \in Instances \ down, s \in Sessions, check \in Checks :
       /\ \/ post' = [post EXCEPT ![r] = Carrying(s, NoPost, 0, "call", check)] /\ RefuseFirst(r, i, s)
          \/ post' = [post EXCEPT ![r] = Carrying(s, r, 0, "call", check)] /\ OpenCall(r, i, s)
  /\ UNCHANGED <<gone, known, down>>

-----------------------------------------------------------------------------
(* A round's retry: _serve_retry. *)

\* Refused before the token is consumed: the round is left for its call's retry.
Misdirected(r, t) ==
  IF IsOwn(t) /\ post'[r].presents = "session" THEN "refused"
  ELSE IF post'[r].presents = "principal" THEN "principal" ELSE "none"

\* Consumed before anything awaits.
NotConsumed(i, t) == tokens
Consumed(i, t) == [tokens EXCEPT ![i] = @ \ {t}]

\* A retry, at the instance i that holds its round t.
ServeRetry(r, i, t) ==
  LET c == t[1] check == post'[r].check IN
  \/ /\ Misdirected(r, t) # "none"
     /\ Reply(r, Misdirected(r, t))
     /\ UNCHANGED <<registry, conn, seam, served>>
  \/ /\ Misdirected(r, t) = "none"
     /\ \* tools/list is asked first, once per connection
        \/ /\ check # "nothing" /\ conn[c].schema = "unread"
           /\ phase' = [phase EXCEPT ![r] = "listing"]
           /\ tokens' = Consumed(i, t)
           /\ sessions' = [sessions EXCEPT ![i] = Used(@, c)]
           /\ UNCHANGED <<answer, told, conn, seam, served>>
        \* the headers disagree with the schema that was read
        \/ /\ check = "differs" /\ conn[c].schema = "read"
           /\ Reply(r, "mismatch")
           /\ tokens' = Restored(r, Consumed(i, t))
           /\ UNCHANGED <<sessions, conn, seam, served>>
        \* it goes on to the seam, unless the connection is not reading; then neither does it read a listing
        \/ /\ check = "nothing" \/ conn[c].schema = "none" \/ (check = "agrees" /\ conn[c].schema = "read")
           /\ \E writable \in BOOLEAN : Exchange(r, c, Consumed(i, t), writable)
           /\ sessions' = [sessions EXCEPT ![i] = Used(@, c)]
           /\ UNCHANGED conn

\* _not_held: forwarded to the instance the token names, once, unless that is this one; else refused.
NotHeld(r, i, t, mayForward) ==
  /\ IF mayForward /\ conn[t[1]].at # i
     THEN phase' = [phase EXCEPT ![r] = "forwarding"] /\ UNCHANGED <<answer, told>>
     ELSE Reply(r, "refused")
  /\ UNCHANGED <<registry, conn, seam, served>>

\* A client retries a round it was given, at any instance; stale tokens too.  Forwarding is optional.
Retry(r) ==
  /\ Unsent(r)
  /\ \E i \in Instances \ down, t \in known, presents \in Presents, check \in Checks :
       LET via == IF t \notin tokens[i] /\ conn[t[1]].at # i THEN i ELSE Direct IN
       \/ /\ t \in tokens[i]
          /\ post' = [post EXCEPT ![r] = Carrying(post[t[1]].session, t[1], t[2], presents, check)]
          /\ ServeRetry(r, i, t)
       \/ /\ t \notin tokens[i]
          /\ \E mayForward \in BOOLEAN :
               /\ post' = [post EXCEPT ![r] = [Carrying(post[t[1]].session, t[1], t[2], presents, check)
                                               EXCEPT !.via = IF mayForward THEN via ELSE Direct]]
               /\ NotHeld(r, i, t, mayForward)
  /\ UNCHANGED <<gone, known, down>>

\* A forwarded retry arrives, its sender still there or not.
Arrive(r) ==
  LET t == TokenOf(r) j == conn[t[1]].at IN
  /\ phase[r] = "forwarding" /\ j \in Instances \ down
  /\ UNCHANGED <<post, gone, known, down>>
  /\ \/ t \in tokens[j] /\ ServeRetry(r, j, t)
     \/ t \notin tokens[j] /\ NotHeld(r, j, t, FALSE)

\* The listing ended: it was read, or it failed, timed out or was cut off by the connection's end.
Listed(r) ==
  LET c == post[r].call IN
  /\ phase[r] = "listing"
  /\ UNCHANGED post
  /\ \E schema \in {"read", "none"} :
       IF schema = "read" /\ post[r].check = "differs"
          THEN /\ Reply(r, "mismatch")
               /\ IF IsRetry(r) THEN /\ tokens' = Restored(r, tokens)
                                     /\ conn' = [conn EXCEPT ![c].schema = schema]
                                     /\ UNCHANGED <<sessions, seam>>
                  ELSE Close({c}, "rejected")
               /\ UNCHANGED served
          ELSE /\ conn' = [conn EXCEPT ![c].schema = schema]
               /\ \E writable \in BOOLEAN : (writable => Open(c)) /\ Exchange(r, c, tokens, writable)
               /\ sessions' = [i \in Instances |-> Used(sessions[i], c)]
  /\ UNCHANGED <<gone, known, down>>

-----------------------------------------------------------------------------
(* The tool behind its seam, and _read_tool. *)

\* The answer reaches the waiter of the request that is open; a round's token is indexed with it.
ToolAnswers(c, what, s) ==
  /\ Open(c) /\ seam[c].request # NoPost
  /\ answer' = [answer EXCEPT ![seam[c].request] = what]
  /\ seam' = [seam EXCEPT ![c] = [s EXCEPT !.request = NoPost, !.outcomes = FALSE]]
  /\ tokens' = IF what = "round" THEN [tokens EXCEPT ![conn[c].at] = @ \cup {<<c, Len(s.rounds)>>}] ELSE tokens
  /\ UNCHANGED <<post, phase, client, sessions, conn, down, served>>

\* The seam's round, or the tool's own: the second only from a handler that concludes with it.
ToolRound(c) ==
  /\ Len(seam[c].rounds) < MaxRounds
  /\ \E kind \in {"seam", "own"} :
       /\ kind = "own" => ~seam[c].operation /\ ~seam[c].final
       /\ seam[c].final => seam[c].outcomes
       /\ ToolAnswers(c, "round", [seam[c] EXCEPT !.rounds = Append(@, kind)])

ToolConcludes(c) == ~seam[c].operation /\ ToolAnswers(c, "result", [seam[c] EXCEPT !.final = FALSE])

\* The handler concludes while the seam's round is out: its final frame waits for the retry.
ToolConcludesEarly(c) ==
  /\ Open(c) /\ seam[c].rounds # <<>> /\ IsOwn(Newest(c)) = FALSE
  /\ seam[c].request = NoPost /\ ~seam[c].operation /\ ~seam[c].final /\ InFlight(c) = {}
  /\ seam' = [seam EXCEPT ![c].final = TRUE]
  /\ UNCHANGED <<post, phase, answer, client, registry, conn, down, served>>

\* An operation a seam's round granted runs, and goes on when another round goes out; its outcome waits for an answer.
Operate(c) ==
  /\ Open(c) /\ ~seam[c].final
  /\ \/ /\ seam[c].request # NoPost /\ seam[c].rounds # <<>> /\ ~IsOwn(Newest(c))
        /\ ~seam[c].operation /\ ~seam[c].outcomes
        /\ seam' = [seam EXCEPT ![c].operation = TRUE]
     \/ seam[c].operation /\ seam' = [seam EXCEPT ![c].operation = FALSE, ![c].outcomes = TRUE]
  /\ UNCHANGED <<post, phase, answer, client, registry, conn, down, served>>

\* The tool's server returns or fails.
ToolEnds(c) ==
  /\ Open(c)
  /\ Close({c}, "ended") /\ answer' = WaitersAnswered({c})
  /\ UNCHANGED <<post, phase, client, down, served>>

-----------------------------------------------------------------------------
(* The end of a request. *)

\* _exchange has its answer: it is written out, and one that ends the call closes its connection.
Deliver(r) ==
  LET c == post[r].call IN
  /\ phase[r] = "asking" /\ answer[r] # "none"
  /\ UNCHANGED post /\ Reply(r, answer[r])
  /\ IF answer[r] = "round" THEN UNCHANGED <<registry, conn, seam>> ELSE Close({c}, "concluded")
  /\ known' = IF answer[r] = "round" /\ post[r].via = Direct /\ r \notin gone THEN known \cup {Newest(c)} ELSE known
  /\ UNCHANGED <<gone, down, served>>

\* The client closes its request.
Disconnect(r) ==
  /\ phase[r] \notin {"unsent", "over"} /\ told[r] = "none" /\ r \notin gone
  /\ gone' = gone \cup {r}
  /\ UNCHANGED <<post, phase, answer, told, known, registry, conn, seam, down, served>>

\* _cancel: the entry sees that the response is not read any more, before the answer is out.
Cancel(r) ==
  /\ phase[r] = "asking" /\ r \in gone
  /\ phase' = [phase EXCEPT ![r] = "over"] /\ answer' = [answer EXCEPT ![r] = "none"]
  /\ Close({post[r].call}, "cancelled")
  /\ UNCHANGED <<post, client, down, served>>

-----------------------------------------------------------------------------
(* Between the instances: _forward_and_relay and HttpForwarder. *)

\* The owner's answer is relayed.
Relay(r) ==
  /\ phase[r] = "relaying"
  /\ phase' = [phase EXCEPT ![r] = "over"] /\ answer' = [answer EXCEPT ![r] = "none"]
  /\ IF r \in gone THEN UNCHANGED <<told, known>>
     ELSE /\ told' = [told EXCEPT ![r] = answer[r]]
          /\ known' = IF answer[r] = "round" THEN known \cup {Newest(post[r].call)} ELSE known
  /\ UNCHANGED <<post, gone, registry, conn, seam, down, served>>

\* The request provably never left: no such instance, no connection made, a redirect.
NotDelivered(r) ==
  /\ phase[r] = "forwarding" /\ r \notin gone
  /\ phase' = [phase EXCEPT ![r] = "over"]
  /\ told' = [told EXCEPT ![r] = "refused"]
  /\ UNCHANGED <<post, answer, gone, known, registry, conn, seam, down, served>>

\* Anything else that fails after the request was sent, on its way, at the owner or in the answer: the client is
\* answered, and the forwarded request, which may yet arrive, is closed.
Forwarded(r) == post[r].via # Direct /\ phase[r] \in {"forwarding", "listing", "asking", "relaying"}

BreakOffRefused(r) ==
  /\ Forwarded(r) /\ r \notin gone
  /\ told' = [told EXCEPT ![r] = "refused"] /\ gone' = gone \cup {r}
  /\ UNCHANGED <<post, phase, answer, known, registry, conn, seam, down, served>>

BreakOff(r) ==
  /\ Forwarded(r) /\ r \notin gone
  /\ told' = [told EXCEPT ![r] = "unknown"] /\ gone' = gone \cup {r}
  /\ UNCHANGED <<post, phase, answer, known, registry, conn, seam, down, served>>

-----------------------------------------------------------------------------
(* _expire, and the end of run(). *)

ExpireDelivered(c) ==
  /\ Open(c) /\ Evictable(c)
  /\ Close({c}, "expired")
  /\ UNCHANGED <<post, phase, answer, client, down, served>>

\* idle_timeout has passed without a request in flight.  What is undelivered does not keep the call.
Expire(c) ==
  /\ Open(c) /\ ~Running(c)
  /\ Close({c}, "expired")
  /\ UNCHANGED <<post, phase, answer, client, down, served>>

Leave(i) ==
  LET cs == Range(sessions[i]) IN
  /\ i \notin down /\ down' = down \cup {i}
  /\ Close(cs, "left") /\ answer' = WaitersAnswered(cs)
  /\ UNCHANGED <<post, phase, client, served>>

Tool(c) == ToolRound(c) \/ ToolConcludes(c) \/ Operate(c)

Next ==
  \/ \E r \in Posts : \/ First(r) \/ Retry(r) \/ Arrive(r) \/ Listed(r) \/ Deliver(r) \/ Disconnect(r) \/ Cancel(r)
                      \/ Relay(r) \/ NotDelivered(r) \/ BreakOff(r)
  \/ \E c \in Posts : Tool(c) \/ ToolConcludesEarly(c) \/ ToolEnds(c) \/ Expire(c)
  \/ \E i \in Instances : Leave(i)

\* Tasks that may run do, the idle bound passes, a listing's wait is bounded, and a request
\* that is forwarded arrives or does not leave.  The tool answers what it is asked (RequestsAnswered in ToolSeam); nothing is assumed of clients.
Fairness ==
  /\ \A r \in Posts : /\ WF_vars(Listed(r)) /\ WF_vars(Deliver(r)) /\ WF_vars(Relay(r))
                      /\ WF_vars(Arrive(r) \/ NotDelivered(r))
  /\ \A c \in Posts : WF_vars(Tool(c)) /\ WF_vars(Expire(c))

Spec == Init /\ [][Next]_vars /\ Fairness

-----------------------------------------------------------------------------
(* Properties. *)

\* The shape of the state, and the tables': an instance holds exactly its open calls, one per session and no more than
\* it may, and indexes a token only of the newest round of a call it holds.
EntryTypeOK ==
  /\ phase \in [Posts -> {"unsent", "forwarding", "listing", "asking", "relaying", "over"}]
  /\ answer \in [Posts -> Answers] /\ told \in [Posts -> Answers]
  /\ \A i \in Instances :
       /\ Len(sessions[i]) <= MaxHeldCalls
       /\ Range(sessions[i]) = {c \in Posts : Open(c) /\ conn[c].at = i}
       /\ \A m, n \in DOMAIN sessions[i] : post[sessions[i][m]].session = post[sessions[i][n]].session => m = n
       /\ \A t \in tokens[i] : t[1] \in Range(sessions[i]) /\ t = Newest(t[1]) /\ t[2] > 0

\* A request answered as refused was never put before the tool, by this instance or by the one it was forwarded to:
\* whoever reads the refusal may start over.
RefusedNotServed == \A r \in Posts : told[r] \in Refusals => r \notin served

\* A round is resumed at most once, whatever retries of it race: at two instances, or through the parameter check.
TokenServedOnce ==
  \A q, r \in served : IsRetry(q) /\ IsRetry(r) /\ TokenOf(q) = TokenOf(r) => q = r

\* A round that is out can be retried for as long as its call is held: a retry that came to nothing (another principal's,
\* another session's, one with the wrong headers, one that could not be written) leaves it so.
RoundStaysOpen ==
  \A c \in Posts : Open(c) /\ seam[c].rounds # <<>> =>
    \/ Newest(c) \in tokens[conn[c].at]
    \/ \E r \in Posts : IsRetry(r) /\ TokenOf(r) = Newest(c) /\ (r \in served \/ phase[r] = "listing")

\* Of its own accord, an instance ends no call that is at work, makes room at the cost of no outcome, and gives up
\* outcomes only when their host did not come for them; a request is cut off only by the end of the tool or of run().
EntryCutsNothing ==
  \A c \in Posts :
    /\ conn[c].why = "evicted" => conn[c].lost = {}
    /\ conn[c].why = "expired" => conn[c].lost \subseteq {"outcomes"}
    /\ \A r \in Posts : told[r] = "closed" /\ post[r].call = c => conn[c].why \in {"ended", "left"}

\* No call is held for ever without a request or work: the idle bound ends it, outcomes left or not.
IdleCallsClose == \A c \in Posts : []<>~(Open(c) /\ ~Running(c))

\* Every POST is answered, or its client is gone: also one in flight when its call's connection closes, or forwarded.
PostsAnswered == \A r \in Posts : []<>(phase[r] = "unsent" \/ told[r] # "none" \/ r \in gone)
=============================================================================
