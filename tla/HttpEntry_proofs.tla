--------------------------- MODULE HttpEntry_proofs ---------------------------
(***************************************************************************)
(* Proofs about HttpEntry, for any instances, sessions and bounds: a       *)
(* request answered as refused was not put before the tool, no round is    *)
(* resumed twice, a round that is out can be retried until it is resumed,  *)
(* and closing calls cuts nothing short.                                   *)
(***************************************************************************)
EXTENDS HttpEntry, Induction

Phases == {"unsent", "forwarding", "listing", "asking", "relaying", "over"}
Early == {"unsent", "forwarding", "listing"}

-----------------------------------------------------------------------------
(* What a refusal says. *)

WayType ==
  /\ phase \in [Posts -> Phases] /\ answer \in [Posts -> Answers] /\ told \in [Posts -> Answers]
  /\ served \in SUBSET Posts

\* Before it is entered, a request is not served, and its waiter holds no refusal until it is relayed.
EarlyUnserved == \A r \in Posts : phase[r] \in Early => r \notin served
WaiterAnswers == \A r \in Posts : phase[r] \in Early \cup {"asking"} => answer[r] \notin Refusals
RelayedUnserved == \A r \in Posts : phase[r] = "relaying" /\ answer[r] \in Refusals => r \notin served
\* A client is told of a refusal at the end of the request's way, not before.
ToldAtEnd == \A r \in Posts : phase[r] # "over" => told[r] \notin Refusals

RefusalInv ==
  /\ WayType /\ EarlyUnserved /\ WaiterAnswers /\ RelayedUnserved /\ ToldAtEnd
  /\ RefusedNotServed

\* Nothing on a request's way changes.
Aside == UNCHANGED <<phase, answer, told, served>>

LEMMA RefusalInit == Init => RefusalInv
<1> SUFFICES ASSUME Init PROVE RefusalInv
  OBVIOUS
<1> USE DEF Init
<1>1. WayType
  BY DEF WayType, Phases, Answers
<1>2. EarlyUnserved /\ RelayedUnserved
  BY DEF EarlyUnserved, RelayedUnserved
<1>3. WaiterAnswers /\ ToldAtEnd /\ RefusedNotServed
  BY DEF WaiterAnswers, ToldAtEnd, RefusedNotServed, Refusals
<1> QED
  BY <1>1, <1>2, <1>3 DEF RefusalInv

LEMMA RefusalAside == RefusalInv /\ Aside => RefusalInv'
BY DEF RefusalInv, Aside, WayType, EarlyUnserved, WaiterAnswers, RelayedUnserved, ToldAtEnd, RefusedNotServed

\* An answer that is a refusal is given to a request that was not served.
LEMMA RefusalReply ==
  ASSUME RefusalInv, NEW r \in Posts, NEW what \in Answers, phase[r] # "over", served' = served,
         what \in Refusals => r \notin served, Reply(r, what)
  PROVE  RefusalInv'
<1> USE DEF RefusalInv, WayType, Phases, Reply
<1>1. WayType'
  BY DEF Answers
<1>2. EarlyUnserved'
  BY DEF EarlyUnserved, Early
<1>3. WaiterAnswers'
  BY DEF WaiterAnswers, Early
<1>4. RelayedUnserved'
  BY DEF RelayedUnserved
<1>5. ToldAtEnd' /\ RefusedNotServed'
  BY DEF ToldAtEnd, RefusedNotServed
<1> QED
  BY <1>1, <1>2, <1>3, <1>4, <1>5

\* Before it is entered, a request may wait for a listing, or at another instance.
LEMMA RefusalWait ==
  ASSUME RefusalInv, NEW r \in Posts, NEW p \in {"forwarding", "listing"}, phase[r] \in Early,
         phase' = [phase EXCEPT ![r] = p], UNCHANGED <<answer, told, served>>
  PROVE  RefusalInv'
BY DEF RefusalInv, WayType, Phases, Early, EarlyUnserved, WaiterAnswers, RelayedUnserved, ToldAtEnd, RefusedNotServed

LEMMA RefusalEnter ==
  ASSUME RefusalInv, NEW r \in Posts, phase[r] \in Early, Enter(r)
  PROVE  RefusalInv'
<1> USE DEF RefusalInv, WayType, Phases, Early, Enter
<1>1. WayType' /\ EarlyUnserved' /\ WaiterAnswers'
  BY DEF EarlyUnserved, WaiterAnswers
<1>2. RelayedUnserved'
  BY DEF RelayedUnserved
<1>3. ToldAtEnd' /\ RefusedNotServed'
  BY DEF ToldAtEnd, RefusedNotServed
<1> QED
  BY <1>1, <1>2, <1>3

\* Waiters are answered by the tool or by a close, neither of which refuses.
LEMMA RefusalWaiters ==
  ASSUME RefusalInv, answer' \in [Posts -> Answers],
         \A r \in Posts : answer'[r] = answer[r] \/ answer'[r] \notin Refusals,
         UNCHANGED <<phase, told, served>>
  PROVE  RefusalInv'
BY DEF RefusalInv, WayType, EarlyUnserved, WaiterAnswers, RelayedUnserved, ToldAtEnd, RefusedNotServed

LEMMA RefusalExchange ==
  ASSUME RefusalInv, NEW r \in Posts, NEW c, NEW index, NEW writable \in BOOLEAN, phase[r] \in Early,
         Exchange(r, c, index, writable)
  PROVE  RefusalInv'
<1>1. CASE writable
  BY <1>1, RefusalEnter DEF Exchange
<1>2. CASE ~writable
  <2>1. "refused" \in Answers /\ phase[r] # "over" /\ r \notin served
    BY DEF Answers, Refusals, Early, RefusalInv, EarlyUnserved
  <2>2. Reply(r, "refused") /\ served' = served
    BY <1>2 DEF Exchange
  <2> QED
    BY <2>1, <2>2, RefusalReply
<1> QED
  BY <1>1, <1>2

\* The answers the entry refuses with.
LEMMA RefusalNames == {"refused", "principal", "mismatch", "held", "full"} = Refusals /\ Refusals \subseteq Answers
BY DEF Refusals, Answers

LEMMA RefusalServeRetry ==
  ASSUME RefusalInv, NEW r \in Posts, NEW i, NEW t, phase[r] \in Early, ServeRetry(r, i, t)
  PROVE  RefusalInv'
<1> USE RefusalNames
<1>1. phase[r] # "over" /\ r \notin served
  BY DEF Early, RefusalInv, EarlyUnserved
<1>2. CASE Reply(r, Misdirected(r, t)) /\ served' = served /\ Misdirected(r, t) # "none"
  <2>1. Misdirected(r, t) \in Refusals
    BY <1>2 DEF Misdirected
  <2> QED
    BY <1>1, <1>2, <2>1, RefusalReply
<1>3. CASE phase' = [phase EXCEPT ![r] = "listing"] /\ UNCHANGED <<answer, told, served>>
  BY <1>3, RefusalWait
<1>4. CASE Reply(r, "mismatch") /\ served' = served
  BY <1>1, <1>4, RefusalReply
<1>5. CASE \E writable \in BOOLEAN : Exchange(r, t[1], Consumed(i, t), writable)
  BY <1>5, RefusalExchange
<1> QED
  BY <1>2, <1>3, <1>4, <1>5 DEF ServeRetry

LEMMA RefusalNotHeld ==
  ASSUME RefusalInv, NEW r \in Posts, NEW i, NEW t, NEW mayForward, phase[r] \in Early, NotHeld(r, i, t, mayForward)
  PROVE  RefusalInv'
<1>1. phase[r] # "over" /\ r \notin served /\ "refused" \in Answers
  BY RefusalNames DEF Early, RefusalInv, EarlyUnserved
<1>2. CASE phase' = [phase EXCEPT ![r] = "forwarding"] /\ UNCHANGED <<answer, told, served>>
  BY <1>2, RefusalWait
<1>3. CASE Reply(r, "refused") /\ served' = served
  BY <1>1, <1>3, RefusalReply
<1> QED
  BY <1>2, <1>3 DEF NotHeld

LEMMA RefusalFirst ==
  ASSUME RefusalInv, NEW r \in Posts, First(r)
  PROVE  RefusalInv'
<1>1. phase[r] \in Early /\ phase[r] # "over" /\ r \notin served
  BY DEF First, Unsent, Early, RefusalInv, EarlyUnserved
<1>2. CASE \E i, s : RefuseFirst(r, i, s)
  <2>1. PICK what \in {"held", "full"} : Reply(r, what) /\ served' = served
    BY <1>2 DEF RefuseFirst
  <2> QED
    BY <1>1, <2>1, RefusalReply, RefusalNames
<1>3. CASE \E i, s : OpenCall(r, i, s)
  <2>1. Enter(r) \/ (phase' = [phase EXCEPT ![r] = "listing"] /\ UNCHANGED <<answer, told, served>>)
    BY <1>3 DEF OpenCall
  <2> QED
    BY <1>1, <2>1, RefusalEnter, RefusalWait
<1> QED
  BY <1>2, <1>3 DEF First

LEMMA RefusalRetry ==
  ASSUME RefusalInv, NEW r \in Posts, Retry(r)
  PROVE  RefusalInv'
<1>1. phase[r] \in Early
  BY DEF Retry, Unsent, Early
<1> QED
  BY <1>1, RefusalServeRetry, RefusalNotHeld DEF Retry

LEMMA RefusalArrive ==
  ASSUME RefusalInv, NEW r \in Posts, Arrive(r)
  PROVE  RefusalInv'
<1>1. phase[r] \in Early
  BY DEF Arrive, Early
<1> QED
  BY <1>1, RefusalServeRetry, RefusalNotHeld DEF Arrive

LEMMA RefusalListed ==
  ASSUME RefusalInv, NEW r \in Posts, Listed(r)
  PROVE  RefusalInv'
<1>1. phase[r] \in Early /\ phase[r] # "over" /\ r \notin served
  BY DEF Listed, Early, RefusalInv, EarlyUnserved
<1>2. CASE Reply(r, "mismatch") /\ served' = served
  BY <1>1, <1>2, RefusalReply, RefusalNames
<1>3. CASE \E writable \in BOOLEAN : Exchange(r, post[r].call, tokens, writable)
  BY <1>1, <1>3, RefusalExchange
<1> QED
  BY <1>2, <1>3 DEF Listed

\* The answer of a request that was entered is no refusal.
LEMMA RefusalDeliver ==
  ASSUME RefusalInv, NEW r \in Posts, Deliver(r)
  PROVE  RefusalInv'
<1>1. phase[r] # "over" /\ served' = served /\ Reply(r, answer[r])
  BY DEF Deliver
<1>2. answer[r] \in Answers \ Refusals
  BY DEF Deliver, RefusalInv, WayType, WaiterAnswers
<1> QED
  BY <1>1, <1>2, RefusalReply

LEMMA RefusalTool ==
  ASSUME RefusalInv, NEW c \in Posts, ToolRound(c) \/ ToolConcludes(c) \/ ToolEnds(c)
  PROVE  RefusalInv'
<1>1. {"round", "result", "closed"} \subseteq Answers \ Refusals
  BY DEF Answers, Refusals
<1>2. CASE \E what \in {"round", "result"} : \E s : ToolAnswers(c, what, s)
  <2>1. PICK what \in {"round", "result"} : \E q : answer' = [answer EXCEPT ![q] = what]
    BY <1>2 DEF ToolAnswers
  <2>2. UNCHANGED <<phase, told, served>>
    BY <1>2 DEF ToolAnswers, client
  <2>3. answer' \in [Posts -> Answers] /\ \A r \in Posts : answer'[r] = answer[r] \/ answer'[r] \notin Refusals
    BY <1>1, <2>1 DEF RefusalInv, WayType
  <2> QED
    BY <2>2, <2>3, RefusalWaiters
<1>3. CASE ToolEnds(c)
  BY <1>1, <1>3, RefusalWaiters DEF ToolEnds, WaitersAnswered, client, RefusalInv, WayType
<1> QED
  BY <1>2, <1>3 DEF ToolRound, ToolConcludes

LEMMA RefusalLeave ==
  ASSUME RefusalInv, NEW i, Leave(i)
  PROVE  RefusalInv'
<1>1. "closed" \in Answers \ Refusals
  BY DEF Answers, Refusals
<1> QED
  BY <1>1, RefusalWaiters DEF Leave, WaitersAnswered, client, RefusalInv, WayType

\* A request's way ends: unread, relayed, or because it never left.
LEMMA RefusalEnd ==
  ASSUME RefusalInv, NEW r \in Posts, Cancel(r) \/ Relay(r) \/ NotDelivered(r)
  PROVE  RefusalInv'
<1> USE DEF RefusalInv, WayType, Phases
<1>1. phase' = [phase EXCEPT ![r] = "over"] /\ served' = served
  BY DEF Cancel, Relay, NotDelivered
<1>2. answer' \in [Posts -> Answers] /\ \A q \in Posts : q # r => answer'[q] = answer[q]
  BY DEF Cancel, Relay, NotDelivered, Answers
<1>3. told' \in [Posts -> Answers] /\ \A q \in Posts : q # r => told'[q] = told[q]
  BY RefusalNames DEF Cancel, Relay, NotDelivered, client
<1>4. told'[r] \in Refusals => r \notin served
  BY RefusalNames DEF Cancel, Relay, NotDelivered, client, EarlyUnserved, Early, RelayedUnserved, RefusedNotServed
<1>5. EarlyUnserved' /\ WaiterAnswers' /\ RelayedUnserved' /\ ToldAtEnd'
  BY <1>1, <1>2, <1>3 DEF EarlyUnserved, WaiterAnswers, RelayedUnserved, ToldAtEnd, Early
<1>6. RefusedNotServed'
  BY <1>1, <1>3, <1>4 DEF RefusedNotServed
<1> QED
  BY <1>1, <1>2, <1>3, <1>5, <1>6

LEMMA RefusalBreakOff ==
  ASSUME RefusalInv, NEW r \in Posts, BreakOff(r)
  PROVE  RefusalInv'
<1>1. "unknown" \in Answers \ Refusals
  BY DEF Answers, Refusals
<1>2. UNCHANGED <<phase, answer, served>> /\ told' = [told EXCEPT ![r] = "unknown"]
  BY DEF BreakOff
<1> QED
  BY <1>1, <1>2 DEF RefusalInv, WayType, EarlyUnserved, WaiterAnswers, RelayedUnserved, ToldAtEnd, RefusedNotServed

LEMMA RefusalStep == RefusalInv /\ [Next]_vars => RefusalInv'
<1> SUFFICES ASSUME RefusalInv, [Next]_vars PROVE RefusalInv'
  OBVIOUS
<1>1. CASE \E r \in Posts : First(r) \/ Retry(r) \/ Arrive(r) \/ Listed(r) \/ Deliver(r)
  BY <1>1, RefusalFirst, RefusalRetry, RefusalArrive, RefusalListed, RefusalDeliver
<1>2. CASE \E r \in Posts : Cancel(r) \/ Relay(r) \/ NotDelivered(r) \/ BreakOff(r)
  BY <1>2, RefusalEnd, RefusalBreakOff
<1>3. CASE \E c \in Posts : ToolRound(c) \/ ToolConcludes(c) \/ ToolEnds(c)
  BY <1>3, RefusalTool
<1>4. CASE \E i \in Instances : Leave(i)
  BY <1>4, RefusalLeave
<1>5. CASE \E r \in Posts : Disconnect(r)
  BY <1>5, RefusalAside DEF Disconnect, Aside
<1>6. CASE \E c \in Posts : Operate(c) \/ ToolConcludesEarly(c) \/ Expire(c)
  BY <1>6, RefusalAside DEF Operate, ToolConcludesEarly, Expire, Aside, client
<1>7. CASE UNCHANGED vars
  BY <1>7, RefusalAside DEF vars, client, Aside
<1> QED
  BY <1>1, <1>2, <1>3, <1>4, <1>5, <1>6, <1>7 DEF Next, Tool

(* A refusal is true: what its client is told was refused, by any instance on its way, never reached the tool. *)
THEOREM RefusalCorrect == Spec => []RefusedNotServed
<1>1. RefusalInv => RefusedNotServed
  BY DEF RefusalInv
<1> QED
  BY <1>1, RefusalInit, RefusalStep, PTL DEF Spec

-----------------------------------------------------------------------------
(* Who may resume a round. *)

Places == Instances \cup {Direct}
Whys == {"none", "evicted", "rejected", "ended", "concluded", "cancelled", "expired", "left"}
Connection == [state : {"none", "open", "closed"}, at : Places, schema : {"unread", "read", "none"},
               why : Whys, lost : SUBSET {"request", "operation", "outcomes"}]
SeamState == [rounds : Seq({"seam", "own"}), request : Posts \cup {NoPost}, operation : BOOLEAN,
              outcomes : BOOLEAN, final : BOOLEAN]
ConnType == conn \in [Posts -> Connection]
SeamType == seam \in [Posts -> SeamState]
TokensType == tokens \in [Instances -> SUBSET (Posts \X Nat)]
PostFunction == post = [r \in Posts |-> post[r]]

RoundsOf(c) == Len(seam[c].rounds)

\* A call begins with its first request.
UnsentUnheld == \A c \in Posts : phase[c] = "unsent" => ~Open(c) /\ RoundsOf(c) = 0

\* A retry that consumed its token: it is checked against a listing, or was entered.
Claims(r) == IsRetry(r) /\ (r \in served \/ phase[r] = "listing")
ClaimsMade == \A r \in Posts : Claims(r) => post[r].call \in Posts /\ post[r].round \in 1..RoundsOf(post[r].call)
OneClaim == \A q, r \in Posts : Claims(q) /\ Claims(r) /\ TokenOf(q) = TokenOf(r) => q = r

\* A token is held where its call is, and by nobody else; it is of a round that went out and that nobody claimed.
TokensHeld == \A i \in Instances : \A t \in tokens[i] : conn[t[1]].at = i /\ t[2] \in 1..RoundsOf(t[1])
TokensFree == \A i \in Instances : \A t \in tokens[i], r \in Posts : Claims(r) => TokenOf(r) # t

TokenInv ==
  /\ RefusalInv
  /\ ConnType /\ SeamType /\ TokensType /\ PostFunction
  /\ UnsentUnheld /\ ClaimsMade /\ OneClaim /\ TokensHeld /\ TokensFree

\* A step's effect on a claim: there is none, or it is given up.
Kept(r) == Claims(r)' => Claims(r) /\ post'[r] = post[r]
OthersKept(r) == \A q \in Posts \ {r} : Kept(q)

\* A step's effect on the calls: they stay where they are, closed ones are not opened, and no round is forgotten.
ConnKept == ConnType' /\ \A c \in Posts : conn'[c].at = conn[c].at /\ (Open(c)' => Open(c))
SeamKept == SeamType' /\ \A c \in Posts : RoundsOf(c)' = RoundsOf(c)
PhaseOn == \A c \in Posts : phase'[c] = "unsent" => phase[c] = "unsent"
Grown ==
  /\ RefusalInv' /\ ConnType' /\ SeamType' /\ PostFunction' /\ UnsentUnheld'
  /\ \A c \in Posts : phase[c] # "unsent" => conn'[c].at = conn[c].at
  /\ \A c \in Posts : RoundsOf(c) <= RoundsOf(c)'

LEMMA RoundsCount == SeamType => \A c \in Posts : RoundsOf(c) \in Nat
BY DEF SeamType, RoundsOf

LEMMA GrownWhenKept ==
  ASSUME TokenInv, RefusalInv', PostFunction', ConnKept, SeamKept, PhaseOn
  PROVE  Grown
<1>1. \A c \in Posts : RoundsOf(c) <= RoundsOf(c)'
  BY RoundsCount DEF TokenInv, SeamKept
<1>2. UnsentUnheld'
  BY DEF TokenInv, ConnKept, SeamKept, PhaseOn, UnsentUnheld
<1> QED
  BY <1>1, <1>2 DEF Grown, ConnKept, SeamKept

\* A token is of a call that has begun.
LEMMA TokenOfBegun ==
  ASSUME TokenInv, NEW i \in Instances, NEW t \in tokens[i]
  PROVE  /\ t[1] \in Posts /\ t[2] \in Nat /\ t = <<t[1], t[2]>>
         /\ phase[t[1]] # "unsent" /\ conn[t[1]].at = i /\ t[2] \in 1..RoundsOf(t[1])
<1>1. t \in Posts \X Nat
  BY DEF TokenInv, TokensType
<1>2. conn[t[1]].at = i /\ t[2] \in 1..RoundsOf(t[1])
  BY DEF TokenInv, TokensHeld
<1>3. t[1] \in Posts /\ t[2] \in Nat /\ t = <<t[1], t[2]>>
  BY <1>1
<1>4. phase[t[1]] # "unsent"
  BY <1>2, <1>3 DEF TokenInv, UnsentUnheld
<1> QED
  BY <1>2, <1>3, <1>4

LEMMA InRounds ==
  ASSUME TokenInv, Grown, NEW c \in Posts, NEW n \in 1..RoundsOf(c)
  PROVE  n \in 1..RoundsOf(c)'
<1>1. RoundsOf(c) \in Nat /\ RoundsOf(c)' \in Nat
  BY RoundsCount DEF TokenInv, Grown, SeamType, RoundsOf
<1> QED
  BY <1>1 DEF Grown

LEMMA ClaimStays ==
  ASSUME TokenInv, Grown, NEW r \in Posts, Claims(r), post'[r] = post[r]
  PROVE  (post[r].call \in Posts /\ post[r].round \in 1..RoundsOf(post[r].call))'
<1>1. post[r].call \in Posts /\ post[r].round \in 1..RoundsOf(post[r].call)
  BY DEF TokenInv, ClaimsMade
<1>2. PICK c \in Posts, n \in Nat : c = post[r].call /\ n = post[r].round /\ n \in 1..RoundsOf(c)
  BY <1>1, RoundsCount DEF TokenInv
<1>3. n \in 1..RoundsOf(c)'
  BY <1>2, InRounds
<1>4. post'[r].call = c /\ post'[r].round = n
  BY <1>2
<1> QED
  BY <1>3, <1>4

\* A token stays one of a call where it is.
LEMMA TokenStays ==
  ASSUME TokenInv, Grown, NEW i \in Instances, NEW t \in tokens[i]
  PROVE  conn'[t[1]].at = i /\ t[2] \in 1..RoundsOf(t[1])'
<1>1. t[1] \in Posts /\ phase[t[1]] # "unsent" /\ conn[t[1]].at = i /\ t[2] \in 1..RoundsOf(t[1])
  BY TokenOfBegun
<1>2. PICK c \in Posts, n \in Nat : c = t[1] /\ n = t[2] /\ n \in 1..RoundsOf(c)
  BY <1>1, RoundsCount DEF TokenInv
<1>3. n \in 1..RoundsOf(c)'
  BY <1>2, InRounds
<1> QED
  BY <1>1, <1>2, <1>3 DEF Grown

\* No new claim, and no new token.
LEMMA TokenKeep ==
  ASSUME TokenInv, Grown, TokensType', \A r \in Posts : Kept(r),
         \A i \in Instances : tokens'[i] \subseteq tokens[i]
  PROVE  TokenInv'
<1>1. ClaimsMade'
  <2> SUFFICES ASSUME NEW r \in Posts, Claims(r)'
               PROVE  (post[r].call \in Posts /\ post[r].round \in 1..RoundsOf(post[r].call))'
    BY DEF ClaimsMade
  <2>1. Claims(r) /\ post'[r] = post[r]
    BY DEF Kept
  <2> QED
    BY <2>1, ClaimStays
<1>2. OneClaim'
  BY DEF TokenInv, OneClaim, Kept, TokenOf
<1>3. TokensHeld'
  <2> SUFFICES ASSUME NEW i \in Instances, NEW t \in tokens'[i]
               PROVE  conn'[t[1]].at = i /\ t[2] \in 1..RoundsOf(t[1])'
    BY DEF TokensHeld
  <2> QED
    BY TokenStays
<1>4. TokensFree'
  BY DEF TokenInv, TokensFree, Kept, TokenOf
<1> QED
  BY <1>1, <1>2, <1>3, <1>4 DEF TokenInv, Grown

\* A retry that consumes its token claims the round.
LEMMA TokenClaim ==
  ASSUME TokenInv, Grown, NEW r \in Posts, NEW i \in Instances, NEW t \in tokens[i], OthersKept(r),
         post'[r].call = t[1], post'[r].round = t[2], tokens' = Consumed(i, t)
  PROVE  TokenInv'
<1>0. /\ t[1] \in Posts /\ t[2] \in Nat /\ t = <<t[1], t[2]>>
      /\ phase[t[1]] # "unsent" /\ conn[t[1]].at = i /\ t[2] \in 1..RoundsOf(t[1])
  BY TokenOfBegun
<1>1. TokensType' /\ \A j \in Instances : tokens'[j] \subseteq tokens[j]
  BY DEF Consumed, TokenInv, TokensType
<1>2. \A j \in Instances : t \notin tokens'[j]
  BY <1>0, TokenOfBegun DEF Consumed, TokenInv, TokensType
<1>3. ClaimsMade'
  <2> SUFFICES ASSUME NEW q \in Posts, Claims(q)'
               PROVE  (post[q].call \in Posts /\ post[q].round \in 1..RoundsOf(post[q].call))'
    BY DEF ClaimsMade
  <2>1. CASE q = r
    <3>1. PICK c \in Posts : c = t[1]
      BY <1>0
    <3>2. t[2] \in 1..RoundsOf(c)'
      BY <1>0, <3>1, InRounds
    <3> QED
      BY <2>1, <3>1, <3>2
  <2>2. CASE q # r
    BY <2>2, ClaimStays DEF OthersKept, Kept
  <2> QED
    BY <2>1, <2>2
<1>4. \A q \in Posts \ {r} : Claims(q)' => TokenOf(q)' # t
  BY DEF OthersKept, Kept, TokenInv, TokensFree, TokenOf
<1>5. TokenOf(r)' = t
  BY <1>0 DEF TokenOf
<1>6. OneClaim'
  BY <1>4, <1>5 DEF TokenInv, OneClaim, OthersKept, Kept, TokenOf
<1>7. TokensHeld'
  <2> SUFFICES ASSUME NEW j \in Instances, NEW u \in tokens'[j]
               PROVE  conn'[u[1]].at = j /\ u[2] \in 1..RoundsOf(u[1])'
    BY DEF TokensHeld
  <2>1. u \in tokens[j]
    BY <1>1
  <2> QED
    BY <2>1, TokenStays
<1>8. TokensFree'
  BY <1>1, <1>2, <1>5 DEF TokenInv, TokensFree, OthersKept, Kept, TokenOf
<1> QED
  BY <1>1, <1>3, <1>6, <1>7, <1>8 DEF TokenInv, Grown

\* A retry that gives its claim up may leave the token where its call is.
LEMMA TokenRelease ==
  ASSUME TokenInv, Grown, TokensType', NEW r \in Posts, Claims(r), ~Claims(r)', OthersKept(r),
         \A i \in Instances : \A t \in tokens'[i] :
            t \in tokens[i] \/ (t = TokenOf(r) /\ conn[post[r].call].at = i)
  PROVE  TokenInv'
<1>1. \A q \in Posts : Kept(q)
  BY DEF OthersKept, Kept
<1>2. post[r].call \in Posts /\ post[r].round \in 1..RoundsOf(post[r].call)
  BY DEF TokenInv, ClaimsMade
<1>3. phase[post[r].call] # "unsent"
  BY <1>2 DEF TokenInv, UnsentUnheld
<1>4. ClaimsMade'
  <2> SUFFICES ASSUME NEW q \in Posts, Claims(q)'
               PROVE  (post[q].call \in Posts /\ post[q].round \in 1..RoundsOf(post[q].call))'
    BY DEF ClaimsMade
  <2>1. Claims(q) /\ post'[q] = post[q]
    BY <1>1 DEF Kept
  <2> QED
    BY <2>1, ClaimStays
<1>5. OneClaim'
  BY <1>1 DEF TokenInv, OneClaim, Kept, TokenOf
<1>6. TokensHeld'
  <2> SUFFICES ASSUME NEW i \in Instances, NEW t \in tokens'[i]
               PROVE  conn'[t[1]].at = i /\ t[2] \in 1..RoundsOf(t[1])'
    BY DEF TokensHeld
  <2>1. CASE t \in tokens[i]
    BY <2>1, TokenStays
  <2>2. CASE t = TokenOf(r) /\ conn[post[r].call].at = i
    <3>1. PICK c \in Posts, n \in Nat : c = post[r].call /\ n = post[r].round /\ n \in 1..RoundsOf(c)
      BY <1>2, RoundsCount DEF TokenInv
    <3>2. n \in 1..RoundsOf(c)' /\ t = <<c, n>> /\ conn'[c].at = i
      BY <1>3, <2>2, <3>1, InRounds DEF Grown, TokenOf
    <3> QED
      BY <3>2
  <2> QED
    BY <2>1, <2>2
<1>7. TokensFree'
  <2> SUFFICES ASSUME NEW i \in Instances, NEW t \in tokens'[i], NEW q \in Posts, Claims(q)'
               PROVE  TokenOf(q)' # t
    BY DEF TokensFree
  <2>1. Claims(q) /\ TokenOf(q)' = TokenOf(q) /\ q # r
    BY <1>1 DEF Kept, TokenOf
  <2>2. TokenOf(q) # TokenOf(r)
    BY <2>1 DEF TokenInv, OneClaim
  <2> QED
    BY <2>1, <2>2 DEF TokenInv, TokensFree
<1> QED
  BY <1>4, <1>5, <1>6, <1>7 DEF TokenInv, Grown

\* The tool's next round has a token of its own.
LEMMA TokenFresh ==
  ASSUME TokenInv, Grown, TokensType', NEW c \in Posts, \A r \in Posts : Kept(r), Open(c),
         \A i \in Instances : \A t \in tokens'[i] :
            t \in tokens[i] \/ (t = <<c, RoundsOf(c) + 1>> /\ conn[c].at = i),
         RoundsOf(c)' = RoundsOf(c) + 1
  PROVE  TokenInv'
<1>1. RoundsOf(c) \in Nat /\ phase[c] # "unsent"
  BY RoundsCount DEF TokenInv, UnsentUnheld
<1>2. ClaimsMade'
  <2> SUFFICES ASSUME NEW r \in Posts, Claims(r)'
               PROVE  (post[r].call \in Posts /\ post[r].round \in 1..RoundsOf(post[r].call))'
    BY DEF ClaimsMade
  <2> QED
    BY ClaimStays DEF Kept
<1>3. OneClaim'
  BY DEF TokenInv, OneClaim, Kept, TokenOf
<1>4. TokensHeld'
  <2> SUFFICES ASSUME NEW i \in Instances, NEW t \in tokens'[i]
               PROVE  conn'[t[1]].at = i /\ t[2] \in 1..RoundsOf(t[1])'
    BY DEF TokensHeld
  <2>1. CASE t \in tokens[i]
    BY <2>1, TokenStays
  <2>2. CASE t = <<c, RoundsOf(c) + 1>> /\ conn[c].at = i
    <3>1. PICK n \in Nat : n = RoundsOf(c) + 1
      BY <1>1
    <3>2. t = <<c, n>> /\ n \in 1..RoundsOf(c)' /\ conn'[c].at = i
      BY <1>1, <2>2, <3>1 DEF Grown
    <3> QED
      BY <3>2
  <2> QED
    BY <2>1, <2>2
<1>5. TokensFree'
  <2> SUFFICES ASSUME NEW i \in Instances, NEW t \in tokens'[i], NEW q \in Posts, Claims(q)'
               PROVE  TokenOf(q)' # t
    BY DEF TokensFree
  <2>1. Claims(q) /\ TokenOf(q)' = TokenOf(q)
    BY DEF Kept, TokenOf
  <2>2. post[q].call \in Posts /\ post[q].round \in 1..RoundsOf(post[q].call)
    BY <2>1 DEF TokenInv, ClaimsMade
  <2>3. TokenOf(q) # <<c, RoundsOf(c) + 1>>
    BY <1>1, <2>2 DEF TokenOf
  <2> QED
    BY <2>1, <2>3 DEF TokenInv, TokensFree
<1> QED
  BY <1>2, <1>3, <1>4, <1>5 DEF TokenInv, Grown

-----------------------------------------------------------------------------
(* What the parts of a request's way do to claims, calls and tokens. *)

LEMMA ConnStays == TokenInv /\ UNCHANGED conn => ConnKept
BY DEF TokenInv, ConnType, ConnKept, Open

LEMMA SeamStays == TokenInv /\ UNCHANGED seam => SeamKept
BY DEF TokenInv, SeamType, SeamKept, RoundsOf

\* A request for the tool changes no round.
LEMMA SeamAsked ==
  ASSUME TokenInv, NEW c, NEW r \in Posts, seam' = [seam EXCEPT ![c].request = r]
  PROVE  SeamKept
<1> USE DEF TokenInv, SeamType, SeamState
<1>1. seam' = [q \in Posts |-> IF q = c THEN [seam[q] EXCEPT !.request = r] ELSE seam[q]]
  OBVIOUS
<1>2. \A q \in Posts : /\ seam'[q].rounds = seam[q].rounds
                       /\ seam'[q] \in SeamState
  BY <1>1
<1>3. SeamType'
  BY <1>1, <1>2
<1> QED
  BY <1>2, <1>3 DEF SeamKept, RoundsOf

LEMMA SchemaRead ==
  ASSUME TokenInv, NEW c, NEW schema \in {"read", "none"}, conn' = [conn EXCEPT ![c].schema = schema]
  PROVE  ConnKept
<1> USE DEF TokenInv, ConnType, Connection
<1>1. conn' = [q \in Posts |-> IF q = c THEN [conn[q] EXCEPT !.schema = schema] ELSE conn[q]]
  OBVIOUS
<1>2. \A q \in Posts : /\ conn'[q].at = conn[q].at /\ conn'[q].state = conn[q].state
                       /\ conn'[q] \in Connection
  BY <1>1
<1>3. ConnType'
  BY <1>1, <1>2
<1> QED
  BY <1>2, <1>3 DEF ConnKept, Open

LEMMA ClosedCalls ==
  ASSUME TokenInv, NEW cs, NEW why \in Whys, NEW c \in Posts
  PROVE  /\ ClosedOf(cs, why)[c] \in Connection
         /\ ClosedOf(cs, why)[c].at = conn[c].at
         /\ ClosedOf(cs, why)[c].state = "open" => conn[c].state = "open"
<1>1. AtStake(c) \in SUBSET {"request", "operation", "outcomes"}
  BY DEF AtStake
<1> QED
  BY <1>1 DEF ClosedOf, TokenInv, ConnType, Connection

LEMMA ClosedKept ==
  ASSUME TokenInv, NEW cs, NEW why \in Whys, conn' = ClosedOf(cs, why)
  PROVE  ConnKept
<1>1. ConnType'
  BY ClosedCalls DEF ClosedOf, ConnType
<1> QED
  BY <1>1, ClosedCalls DEF ConnKept, Open

LEMMA WithoutKept ==
  ASSUME TokenInv, NEW cs, seam' = SeamWithout(cs)
  PROVE  SeamKept
<1> USE DEF TokenInv, SeamType, SeamState
<1>1. \A c \in Posts : /\ seam'[c] \in SeamState
                       /\ seam'[c].rounds = seam[c].rounds
  BY DEF SeamWithout, NoSeam
<1>2. SeamType'
  BY <1>1 DEF SeamWithout
<1> QED
  BY <1>1, <1>2 DEF SeamKept, RoundsOf

LEMMA FewerTokens ==
  ASSUME TokenInv, NEW cs, tokens' = TokensWithout(cs)
  PROVE  TokensType' /\ \A i \in Instances : tokens'[i] \subseteq tokens[i]
BY DEF TokenInv, TokensType, TokensWithout

LEMMA CloseKeeps ==
  ASSUME TokenInv, NEW cs, NEW why \in Whys, Close(cs, why)
  PROVE  /\ ConnKept /\ SeamKept /\ TokensType'
         /\ \A i \in Instances : tokens'[i] \subseteq tokens[i]
BY ClosedKept, WithoutKept, FewerTokens DEF Close

\* A reply claims nothing.
LEMMA ReplyKeeps ==
  ASSUME TokenInv, NEW r \in Posts, NEW what, Reply(r, what), served' = served,
         \A q \in Posts \ {r} : post'[q] = post[q], r \notin served \/ post'[r] = post[r]
  PROVE  (\A q \in Posts : Kept(q)) /\ PhaseOn /\ (phase[r] = "listing" => ~Claims(r)')
<1> USE DEF TokenInv, RefusalInv, WayType
<1>1. phase' = [phase EXCEPT ![r] = "over"] \/ phase' = [phase EXCEPT ![r] = "relaying"]
  BY DEF Reply
<1>2. phase[r] = "listing" => r \notin served
  BY DEF EarlyUnserved, Early
<1> QED
  BY <1>1, <1>2 DEF Kept, Claims, IsRetry, PhaseOn

\* Nor does a request that waits for another instance.
LEMMA ForwardKeeps ==
  ASSUME TokenInv, NEW r \in Posts, phase' = [phase EXCEPT ![r] = "forwarding"], served' = served,
         \A q \in Posts \ {r} : post'[q] = post[q], r \notin served
  PROVE  (\A q \in Posts : Kept(q)) /\ PhaseOn
BY DEF TokenInv, RefusalInv, WayType, Kept, Claims, IsRetry, PhaseOn

\* A request that is entered, or waits for the listing, claims nothing but its own round.
LEMMA EnterKeeps ==
  ASSUME TokenInv, NEW r \in Posts, \A q \in Posts \ {r} : post'[q] = post[q],
         \/ Enter(r)
         \/ phase' = [phase EXCEPT ![r] = "listing"] /\ served' = served
  PROVE  OthersKept(r) /\ PhaseOn
BY DEF TokenInv, RefusalInv, WayType, Enter, OthersKept, Kept, Claims, IsRetry, PhaseOn

\* A request whose way goes on without its phase being at stake.
LEMMA StaysKept ==
  ASSUME TokenInv, UNCHANGED <<post, phase, served>>
  PROVE  (\A q \in Posts : Kept(q)) /\ PhaseOn /\ PostFunction'
BY DEF TokenInv, Kept, Claims, IsRetry, PhaseOn, PostFunction

LEMMA PostWritten ==
  ASSUME TokenInv, NEW r \in Posts, NEW x, post' = [post EXCEPT ![r] = x]
  PROVE  PostFunction' /\ post'[r] = x /\ \A q \in Posts \ {r} : post'[q] = post[q]
BY DEF TokenInv, PostFunction

LEMMA TokensSame ==
  TokenInv /\ UNCHANGED tokens => TokensType' /\ \A i \in Instances : tokens'[i] \subseteq tokens[i]
BY DEF TokenInv, TokensType

\* Steps that neither claim a round nor send one out.
LEMMA TokenSteady ==
  ASSUME TokenInv, RefusalInv', PostFunction', ConnKept, SeamKept, PhaseOn, TokensType', \A r \in Posts : Kept(r),
         \A i \in Instances : tokens'[i] \subseteq tokens[i]
  PROVE  TokenInv'
BY GrownWhenKept, TokenKeep

\* A token that was consumed and restored is where it was.
LEMMA RestoredBack ==
  ASSUME TokenInv, NEW r \in Posts, NEW i \in Instances, NEW t \in tokens[i],
         post'[r].call = t[1], post'[r].round = t[2], tokens' = Restored(r, Consumed(i, t))
  PROVE  TokensType' /\ \A j \in Instances : tokens'[j] \subseteq tokens[j]
<1>1. t = <<t[1], t[2]>> /\ conn[t[1]].at = i
  BY TokenOfBegun
<1>2. tokens' = Consumed(i, t) \/ tokens' = [Consumed(i, t) EXCEPT ![i] = @ \cup {t}]
  BY <1>1 DEF Restored
<1> QED
  BY <1>2 DEF Consumed, TokenInv, TokensType

-----------------------------------------------------------------------------
(* The invariant, action by action. *)

LEMMA TokenServeRetry ==
  ASSUME TokenInv, RefusalInv', NEW r \in Posts, NEW i \in Instances, NEW t \in tokens[i], PostFunction',
         phase[r] \in {"unsent", "forwarding"}, post'[r].call = t[1], post'[r].round = t[2],
         \A q \in Posts \ {r} : post'[q] = post[q], ServeRetry(r, i, t)
  PROVE  TokenInv'
<1>1. r \notin served
  BY DEF TokenInv, RefusalInv, EarlyUnserved, Early
<1>2. CASE \E what : Reply(r, what) /\ UNCHANGED <<tokens, conn, seam, served>>
  <2>1. PICK what : Reply(r, what)
    BY <1>2
  <2> QED
    BY <1>1, <1>2, <2>1, ReplyKeeps, ConnStays, SeamStays, TokensSame, TokenSteady
<1>3. CASE /\ phase' = [phase EXCEPT ![r] = "listing"] /\ tokens' = Consumed(i, t)
           /\ UNCHANGED <<conn, seam, served>>
  <2>1. OthersKept(r) /\ PhaseOn
    BY <1>3, EnterKeeps
  <2>2. Grown
    BY <1>3, <2>1, ConnStays, SeamStays, GrownWhenKept
  <2> QED
    BY <1>3, <2>1, <2>2, TokenClaim
<1>4. CASE Reply(r, "mismatch") /\ tokens' = Restored(r, Consumed(i, t)) /\ UNCHANGED <<conn, seam, served>>
  BY <1>1, <1>4, ReplyKeeps, ConnStays, SeamStays, RestoredBack, TokenSteady
<1>5. CASE UNCHANGED conn /\ \E writable \in BOOLEAN : Exchange(r, t[1], Consumed(i, t), writable)
  <2>1. CASE Enter(r) /\ tokens' = Consumed(i, t) /\ seam' = [seam EXCEPT ![t[1]].request = r]
    <3>1. OthersKept(r) /\ PhaseOn
      BY <2>1, EnterKeeps
    <3>2. ConnKept /\ SeamKept
      BY <1>5, <2>1, ConnStays, SeamAsked
    <3>3. Grown
      BY <3>1, <3>2, GrownWhenKept
    <3> QED
      BY <2>1, <3>1, <3>3, TokenClaim
  <2>2. CASE Reply(r, "refused") /\ tokens' = Restored(r, Consumed(i, t)) /\ UNCHANGED <<seam, served>>
    BY <1>1, <1>5, <2>2, ReplyKeeps, ConnStays, SeamStays, RestoredBack, TokenSteady
  <2> QED
    BY <1>5, <2>1, <2>2 DEF Exchange
<1> QED
  BY <1>2, <1>3, <1>4, <1>5 DEF ServeRetry, registry

LEMMA TokenNotHeld ==
  ASSUME TokenInv, RefusalInv', NEW r \in Posts, NEW i, NEW t, NEW mayForward, PostFunction',
         phase[r] \in {"unsent", "forwarding"}, \A q \in Posts \ {r} : post'[q] = post[q], NotHeld(r, i, t, mayForward)
  PROVE  TokenInv'
<1>1. r \notin served
  BY DEF TokenInv, RefusalInv, EarlyUnserved, Early
<1>2. UNCHANGED <<tokens, conn, seam, served>>
  BY DEF NotHeld, registry
<1>3. (\A q \in Posts : Kept(q)) /\ PhaseOn
  BY <1>1, <1>2, ReplyKeeps, ForwardKeeps DEF NotHeld
<1> QED
  BY <1>2, <1>3, ConnStays, SeamStays, TokensSame, TokenSteady

LEMMA TokenRetry ==
  ASSUME TokenInv, RefusalInv', NEW r \in Posts, Retry(r)
  PROVE  TokenInv'
<1>1. PICK i \in Instances, t \in known, presents \in Presents, check \in Checks :
        \/ /\ t \in tokens[i]
           /\ post' = [post EXCEPT ![r] = Carrying(post[t[1]].session, t[1], t[2], presents, check)]
           /\ ServeRetry(r, i, t)
        \/ \E mayForward \in BOOLEAN :
             /\ \E x : post' = [post EXCEPT ![r] = x]
             /\ NotHeld(r, i, t, mayForward)
  BY DEF Retry
<1>2. phase[r] \in {"unsent", "forwarding"}
  BY DEF Retry, Unsent
<1>3. CASE /\ t \in tokens[i]
           /\ post' = [post EXCEPT ![r] = Carrying(post[t[1]].session, t[1], t[2], presents, check)]
           /\ ServeRetry(r, i, t)
  <2>1. /\ PostFunction' /\ \A q \in Posts \ {r} : post'[q] = post[q]
        /\ post'[r].call = t[1] /\ post'[r].round = t[2]
    BY <1>3 DEF Carrying, TokenInv, PostFunction
  <2> QED
    BY <1>2, <1>3, <2>1, TokenServeRetry
<1>4. CASE \E mayForward \in BOOLEAN : (\E x : post' = [post EXCEPT ![r] = x]) /\ NotHeld(r, i, t, mayForward)
  <2>1. PostFunction' /\ \A q \in Posts \ {r} : post'[q] = post[q]
    BY <1>4 DEF TokenInv, PostFunction
  <2> QED
    BY <1>2, <1>4, <2>1, TokenNotHeld
<1> QED
  BY <1>1, <1>3, <1>4

LEMMA TokenArrive ==
  ASSUME TokenInv, RefusalInv', NEW r \in Posts, Arrive(r)
  PROVE  TokenInv'
<1> DEFINE t == TokenOf(r)
           j == conn[t[1]].at
<1>1. phase[r] \in {"unsent", "forwarding"} /\ PostFunction' /\ \A q \in Posts : post'[q] = post[q]
  BY DEF Arrive, TokenInv, PostFunction
<1>2. CASE t \in tokens[j] /\ j \in Instances /\ ServeRetry(r, j, t)
  <2>1. PICK i \in Instances : i = j
    BY <1>2
  <2>2. post'[r].call = t[1] /\ post'[r].round = t[2]
    BY <1>1 DEF TokenOf
  <2> QED
    BY <1>1, <1>2, <2>1, <2>2, TokenServeRetry
<1>3. CASE NotHeld(r, j, t, FALSE)
  BY <1>1, <1>3, TokenNotHeld
<1> QED
  BY <1>2, <1>3 DEF Arrive

LEMMA TokenListed ==
  ASSUME TokenInv, RefusalInv', NEW r \in Posts, Listed(r)
  PROVE  TokenInv'
<1> DEFINE c == post[r].call
<1>1. phase[r] = "listing" /\ r \notin served /\ PostFunction' /\ \A q \in Posts : post'[q] = post[q]
  BY DEF Listed, TokenInv, PostFunction, RefusalInv, EarlyUnserved, Early
\* A retry gives its claim up, and the token is back where the call is, unless the call is closed.
<1>2. ASSUME ConnKept, SeamKept, NEW what, Reply(r, what), served' = served, tokens' = Restored(r, tokens)
      PROVE  TokenInv'
  <2>1. (\A q \in Posts : Kept(q)) /\ PhaseOn /\ ~Claims(r)'
    BY <1>1, <1>2, ReplyKeeps
  <2>2. CASE IsRetry(r) /\ Open(c)
    <3>1. Claims(r) /\ OthersKept(r)
      BY <1>1, <2>1, <2>2 DEF Claims, OthersKept
    <3>2. tokens' = [tokens EXCEPT ![conn[c].at] = @ \cup {TokenOf(r)}]
      BY <1>1, <1>2, <2>2 DEF Restored, TokenOf, IsRetry
    <3>3. TokenOf(r) \in Posts \X Nat
      <4>1. c \in Posts /\ post[r].round \in 1..RoundsOf(c)
        BY <3>1 DEF TokenInv, ClaimsMade
      <4>2. RoundsOf(c) \in Nat
        BY <4>1, RoundsCount DEF TokenInv
      <4> QED
        BY <4>1, <4>2 DEF TokenOf
    <3>4. /\ TokensType'
          /\ \A i \in Instances : \A t \in tokens'[i] : t \in tokens[i] \/ (t = TokenOf(r) /\ conn[c].at = i)
      BY <3>2, <3>3 DEF TokenInv, TokensType
    <3>5. Grown
      BY <1>1, <1>2, <2>1, GrownWhenKept
    <3> QED
      BY <2>1, <3>1, <3>4, <3>5, TokenRelease
  <2>3. CASE ~(IsRetry(r) /\ Open(c))
    <3>1. tokens' = tokens
      BY <1>1, <1>2, <2>3 DEF Restored, IsRetry
    <3> QED
      BY <1>1, <1>2, <2>1, <3>1, TokensSame, TokenSteady
  <2> QED
    BY <2>2, <2>3
<1>3. CASE Reply(r, "mismatch") /\ served' = served /\ Close({c}, "rejected")
  <2>1. (\A q \in Posts : Kept(q)) /\ PhaseOn
    BY <1>1, <1>3, ReplyKeeps
  <2>2. PICK cs : Close(cs, "rejected")
    BY <1>3
  <2>3. ConnKept /\ SeamKept /\ TokensType' /\ \A i \in Instances : tokens'[i] \subseteq tokens[i]
    BY <2>2, CloseKeeps DEF Whys
  <2> QED
    BY <1>1, <2>1, <2>3, TokenSteady
<1>4. CASE /\ Reply(r, "mismatch") /\ tokens' = Restored(r, tokens) /\ UNCHANGED <<seam, served>>
           /\ \E schema \in {"read", "none"} : conn' = [conn EXCEPT ![c].schema = schema]
  <2>1. ConnKept /\ SeamKept
    BY <1>4, SchemaRead, SeamStays
  <2> QED
    BY <1>2, <1>4, <2>1
<1>5. CASE /\ \E schema \in {"read", "none"} : conn' = [conn EXCEPT ![c].schema = schema]
           /\ \E writable \in BOOLEAN : Exchange(r, c, tokens, writable)
  <2>1. ConnKept
    BY <1>5, SchemaRead
  <2>2. CASE Reply(r, "refused") /\ tokens' = Restored(r, tokens) /\ UNCHANGED <<seam, served>>
    BY <1>2, <2>1, <2>2, SeamStays
  <2>3. CASE Enter(r) /\ tokens' = tokens /\ seam' = [seam EXCEPT ![c].request = r]
    <3>1. OthersKept(r) /\ PhaseOn
      BY <1>1, <2>3, EnterKeeps
    <3>2. Kept(r)
      BY <1>1 DEF Kept, Claims, IsRetry
    <3>3. SeamKept
      BY <2>3, SeamAsked
    <3> QED
      BY <1>1, <2>1, <2>3, <3>1, <3>2, <3>3, TokensSame, TokenSteady DEF OthersKept
  <2> QED
    BY <1>5, <2>2, <2>3 DEF Exchange
<1> QED
  BY <1>3, <1>4, <1>5 DEF Listed

LEMMA TokenFirst ==
  ASSUME TokenInv, RefusalInv', NEW r \in Posts, First(r)
  PROVE  TokenInv'
<1>1. phase[r] = "unsent" /\ r \notin served
  BY DEF First, Unsent, TokenInv, RefusalInv, EarlyUnserved, Early
<1>2. PICK i \in Instances \ down, s \in Sessions, check \in Checks, c \in {NoPost, r} :
        /\ post' = [post EXCEPT ![r] = Carrying(s, c, 0, "call", check)]
        /\ RefuseFirst(r, i, s) \/ OpenCall(r, i, s)
  BY DEF First
<1>3. PostFunction' /\ post'[r].round = 0 /\ \A q \in Posts \ {r} : post'[q] = post[q]
  BY <1>2 DEF Carrying, TokenInv, PostFunction
<1>4. ~Claims(r)' /\ Kept(r)
  BY <1>3 DEF Claims, IsRetry, Kept
<1>5. CASE RefuseFirst(r, i, s)
  <2>1. PICK what : Reply(r, what)
    BY <1>5 DEF RefuseFirst
  <2>2. UNCHANGED <<tokens, conn, seam, served>>
    BY <1>5 DEF RefuseFirst, registry
  <2> QED
    BY <1>1, <1>3, <2>1, <2>2, ReplyKeeps, ConnStays, SeamStays, TokensSame, TokenSteady
<1>6. CASE OpenCall(r, i, s)
  <2>1. Enter(r) \/ (phase' = [phase EXCEPT ![r] = "listing"] /\ served' = served)
    BY <1>6 DEF OpenCall
  <2>2. OthersKept(r) /\ PhaseOn /\ phase'[r] # "unsent"
    BY <1>3, <2>1, EnterKeeps DEF Enter, TokenInv, RefusalInv, WayType
  <2>3. PICK closing : Opened(r, i, closing)
    BY <1>6 DEF OpenCall
  <2>4. TokensType' /\ \A j \in Instances : tokens'[j] \subseteq tokens[j]
    BY <2>3, FewerTokens DEF Opened
  <2>5. /\ ConnType'
        /\ \A c1 \in Posts \ {r} : conn'[c1].at = conn[c1].at /\ (conn'[c1].state = "open" => conn[c1].state = "open")
    <3> DEFINE closed == ClosedOf(closing, "evicted")
               opened == [NoCall EXCEPT !.state = "open", !.at = i]
    <3>1. conn' = [c1 \in Posts |-> IF c1 = r THEN opened ELSE closed[c1]]
      BY <2>3 DEF Opened, ClosedOf
    <3>2. "evicted" \in Whys
      BY DEF Whys
    <3>3. \A c1 \in Posts : /\ closed[c1] \in Connection /\ closed[c1].at = conn[c1].at
                            /\ closed[c1].state = "open" => conn[c1].state = "open"
      BY <3>2, ClosedCalls
    <3>4. NoCall \in Connection
      BY DEF NoCall, Connection, Places, Whys
    <3>5. opened \in Connection
      BY <3>4 DEF Connection, Places
    <3> HIDE DEF closed, opened
    <3>6. ConnType'
      BY <3>1, <3>3, <3>5 DEF ConnType
    <3>7. \A c1 \in Posts \ {r} : conn'[c1] = closed[c1]
      BY <3>1
    <3> QED
      BY <3>3, <3>6, <3>7
  <2>6. SeamKept
    <3> DEFINE asked == IF post'[r].check = "nothing" THEN r ELSE NoPost
    <3>1. seam' = [c1 \in Posts |-> IF c1 = r THEN [SeamWithout(closing)[c1] EXCEPT !.request = asked]
                                    ELSE SeamWithout(closing)[c1]]
      BY <2>3 DEF Opened, SeamWithout
    <3>2. \A c1 \in Posts : /\ SeamWithout(closing)[c1] \in SeamState
                            /\ SeamWithout(closing)[c1].rounds = seam[c1].rounds
      BY DEF SeamWithout, NoSeam, TokenInv, SeamType, SeamState
    <3>3. asked \in Posts \cup {NoPost}
      OBVIOUS
    <3> HIDE DEF asked
    <3>4. \A c1 \in Posts : /\ seam'[c1] \in SeamState
                            /\ seam'[c1].rounds = seam[c1].rounds
      BY <3>1, <3>2, <3>3 DEF SeamState
    <3>5. SeamType'
      BY <3>1, <3>4 DEF SeamType
    <3> QED
      BY <3>4, <3>5 DEF SeamKept, RoundsOf
  <2>7. UnsentUnheld'
    BY <2>2, <2>5, <2>6 DEF TokenInv, UnsentUnheld, Open, SeamKept, PhaseOn
  <2>8. Grown
    BY <1>1, <1>3, <2>5, <2>6, <2>7, RoundsCount DEF Grown, SeamKept, TokenInv
  <2> QED
    BY <1>4, <2>2, <2>4, <2>8, TokenKeep DEF OthersKept
<1> QED
  BY <1>2, <1>5, <1>6

\* Closing a connection, of itself or with the end of a request, claims nothing and sends no round out.
LEMMA TokenClose ==
  ASSUME TokenInv, RefusalInv', UNCHANGED <<post, served>>, NEW cs, NEW why \in Whys, Close(cs, why),
         PhaseOn, \A r \in Posts : Kept(r)
  PROVE  TokenInv'
BY CloseKeeps, TokenSteady DEF PostFunction, TokenInv

LEMMA TokenDeliver ==
  ASSUME TokenInv, RefusalInv', NEW r \in Posts, Deliver(r)
  PROVE  TokenInv'
<1>1. Reply(r, answer[r]) /\ UNCHANGED <<post, served>>
  BY DEF Deliver
<1>2. (\A q \in Posts : Kept(q)) /\ PhaseOn
  BY <1>1, ReplyKeeps
<1>3. CASE UNCHANGED <<registry, conn, seam>>
  BY <1>1, <1>2, <1>3, ConnStays, SeamStays, TokensSame, TokenSteady DEF registry, PostFunction, TokenInv
<1>4. CASE Close({post[r].call}, "concluded")
  <2>1. PICK cs : Close(cs, "concluded")
    BY <1>4
  <2>2. "concluded" \in Whys
    BY DEF Whys
  <2> QED
    BY <1>1, <1>2, <2>1, <2>2, TokenClose
<1> QED
  BY <1>3, <1>4 DEF Deliver

LEMMA TokenCancel ==
  ASSUME TokenInv, RefusalInv', NEW r \in Posts, Cancel(r)
  PROVE  TokenInv'
<1>1. PICK cs : Close(cs, "cancelled")
  BY DEF Cancel
<1>2. "cancelled" \in Whys
  BY DEF Whys
<1>3. UNCHANGED <<post, served>> /\ phase' = [phase EXCEPT ![r] = "over"]
  BY DEF Cancel
<1>4. (\A q \in Posts : Kept(q)) /\ PhaseOn
  BY <1>3 DEF TokenInv, RefusalInv, WayType, Kept, Claims, IsRetry, PhaseOn
<1> QED
  BY <1>1, <1>2, <1>3, <1>4, TokenClose

\* A request's way goes on or ends without its call.
LEMMA TokenWay ==
  ASSUME TokenInv, RefusalInv', NEW r \in Posts, Disconnect(r) \/ Relay(r) \/ NotDelivered(r) \/ BreakOff(r)
  PROVE  TokenInv'
<1>1. UNCHANGED <<post, served, tokens, conn, seam>>
  BY DEF Disconnect, Relay, NotDelivered, BreakOff, registry
<1>2. phase' = phase \/ phase' = [phase EXCEPT ![r] = "over"]
  BY DEF Disconnect, Relay, NotDelivered, BreakOff
<1>3. (\A q \in Posts : Kept(q)) /\ PhaseOn /\ PostFunction'
  BY <1>1, <1>2 DEF TokenInv, RefusalInv, WayType, Kept, Claims, IsRetry, PhaseOn, PostFunction
<1> QED
  BY <1>1, <1>3, ConnStays, SeamStays, TokensSame, TokenSteady

\* The handler works on between its answers.
LEMMA TokenWork ==
  ASSUME TokenInv, RefusalInv', NEW c \in Posts, Operate(c) \/ ToolConcludesEarly(c)
  PROVE  TokenInv'
<1>1. UNCHANGED <<post, phase, served, tokens, conn>>
  BY DEF Operate, ToolConcludesEarly, registry
<1>2. \/ seam' = [seam EXCEPT ![c].final = TRUE]
      \/ seam' = [seam EXCEPT ![c].operation = TRUE]
      \/ seam' = [seam EXCEPT ![c].operation = FALSE, ![c].outcomes = TRUE]
  BY DEF Operate, ToolConcludesEarly
<1>3. \A q \in Posts : seam'[q] \in SeamState /\ seam'[q].rounds = seam[q].rounds
  <2>1. CASE seam' = [seam EXCEPT ![c].final = TRUE]
    BY <2>1 DEF TokenInv, SeamType, SeamState
  <2>2. CASE seam' = [seam EXCEPT ![c].operation = TRUE]
    BY <2>2 DEF TokenInv, SeamType, SeamState
  <2>3. CASE seam' = [seam EXCEPT ![c].operation = FALSE, ![c].outcomes = TRUE]
    BY <2>3 DEF TokenInv, SeamType, SeamState
  <2> QED
    BY <1>2, <2>1, <2>2, <2>3
<1>4. seam' = [q \in Posts |-> seam'[q]]
  BY <1>2 DEF TokenInv, SeamType
<1>5. SeamKept
  BY <1>3, <1>4 DEF SeamKept, SeamType, RoundsOf
<1> QED
  BY <1>1, <1>5, StaysKept, ConnStays, TokensSame, TokenSteady

LEMMA TokenRound ==
  ASSUME TokenInv, RefusalInv', NEW c \in Posts, ToolRound(c)
  PROVE  TokenInv'
<1>1. PICK kind \in {"seam", "own"} : ToolAnswers(c, "round", [seam[c] EXCEPT !.rounds = Append(@, kind)])
  BY DEF ToolRound
<1> DEFINE s == [seam[c] EXCEPT !.rounds = Append(@, kind)]
<1>2. s \in SeamState /\ Len(s.rounds) = RoundsOf(c) + 1
  <2>1. seam[c] \in SeamState /\ seam[c].rounds \in Seq({"seam", "own"})
    BY DEF TokenInv, SeamType, SeamState
  <2>2. PICK old \in Seq({"seam", "own"}) : old = seam[c].rounds
    BY <2>1
  <2>3. Append(old, kind) \in Seq({"seam", "own"}) /\ Len(Append(old, kind)) = Len(old) + 1
    OBVIOUS
  <2>4. PICK line \in Seq({"seam", "own"}) : line = Append(old, kind)
    BY <2>3
  <2>5. s = [seam[c] EXCEPT !.rounds = line]
    BY <2>2, <2>4
  <2>6. s \in SeamState /\ s.rounds = line
    BY <2>1, <2>5 DEF SeamState
  <2> QED
    BY <2>2, <2>3, <2>4, <2>6 DEF RoundsOf
<1> HIDE DEF s
<1>3. /\ Open(c) /\ UNCHANGED <<post, phase, served, conn>>
      /\ seam' = [seam EXCEPT ![c] = [s EXCEPT !.request = NoPost, !.outcomes = FALSE]]
      /\ tokens' = [tokens EXCEPT ![conn[c].at] = @ \cup {<<c, Len(s.rounds)>>}]
  BY <1>1 DEF ToolAnswers, s
<1>4. [s EXCEPT !.request = NoPost, !.outcomes = FALSE] \in SeamState
      /\ [s EXCEPT !.request = NoPost, !.outcomes = FALSE].rounds = s.rounds
  BY <1>2 DEF SeamState
<1>5. SeamType' /\ RoundsOf(c)' = RoundsOf(c) + 1 /\ \A q \in Posts \ {c} : RoundsOf(q)' = RoundsOf(q)
  BY <1>2, <1>3, <1>4 DEF TokenInv, SeamType, RoundsOf
<1>6. (\A r \in Posts : Kept(r)) /\ PhaseOn /\ PostFunction' /\ ConnKept
  BY <1>3, StaysKept, ConnStays
<1>7. Grown
  <2>1. UnsentUnheld'
    BY <1>3, <1>5 DEF TokenInv, UnsentUnheld, Open
  <2> QED
    BY <1>5, <1>6, <2>1, RoundsCount DEF TokenInv, Grown, ConnKept
<1>8. TokensType' /\ \A i \in Instances : \A t \in tokens'[i] :
         t \in tokens[i] \/ (t = <<c, RoundsOf(c) + 1>> /\ conn[c].at = i)
  <2>1. PICK n \in Nat : n = RoundsOf(c) + 1
    BY RoundsCount DEF TokenInv
  <2>2. tokens' = [tokens EXCEPT ![conn[c].at] = @ \cup {<<c, n>>}]
    BY <1>2, <1>3, <2>1
  <2>3. \A i \in Instances : tokens'[i] = IF i = conn[c].at THEN tokens[i] \cup {<<c, n>>} ELSE tokens[i]
    BY <2>2 DEF TokenInv, TokensType
  <2>4. tokens' = [i \in Instances |-> tokens'[i]]
    BY <2>2 DEF TokenInv, TokensType
  <2>5. \A i \in Instances : tokens'[i] \subseteq Posts \X Nat
    <3>1. <<c, n>> \in Posts \X Nat /\ \A i \in Instances : tokens[i] \subseteq Posts \X Nat
      BY DEF TokenInv, TokensType
    <3> QED
      BY <2>3, <3>1
  <2>6. TokensType'
    BY <2>4, <2>5 DEF TokensType
  <2> QED
    BY <2>1, <2>3, <2>6
<1> QED
  BY <1>3, <1>5, <1>6, <1>7, <1>8, TokenFresh

LEMMA TokenConclude ==
  ASSUME TokenInv, RefusalInv', NEW c \in Posts, ToolConcludes(c)
  PROVE  TokenInv'
<1> DEFINE s == [seam[c] EXCEPT !.final = FALSE]
<1>1. s \in SeamState /\ s.rounds = seam[c].rounds
  BY DEF TokenInv, SeamType, SeamState
<1> HIDE DEF s
<1>2. /\ UNCHANGED <<post, phase, served, conn, tokens>>
      /\ seam' = [seam EXCEPT ![c] = [s EXCEPT !.request = NoPost, !.outcomes = FALSE]]
  BY DEF ToolConcludes, ToolAnswers, s
<1>3. [s EXCEPT !.request = NoPost, !.outcomes = FALSE] \in SeamState
      /\ [s EXCEPT !.request = NoPost, !.outcomes = FALSE].rounds = s.rounds
  BY <1>1 DEF SeamState
<1>4. SeamKept
  BY <1>1, <1>2, <1>3 DEF TokenInv, SeamType, SeamKept, RoundsOf
<1> QED
  BY <1>2, <1>4, StaysKept, ConnStays, TokensSame, TokenSteady

\* A connection ends on its own: with the tool, at the idle bound, or with the instance.
LEMMA TokenEnds ==
  ASSUME TokenInv, RefusalInv', (\E c \in Posts : ToolEnds(c) \/ Expire(c)) \/ (\E i \in Instances : Leave(i))
  PROVE  TokenInv'
<1>1. PICK why \in {"ended", "expired", "left"} : \E cs : Close(cs, why)
  BY DEF ToolEnds, Expire, Leave
<1>2. why \in Whys
  BY DEF Whys
<1>3. UNCHANGED <<post, phase, served>>
  BY DEF ToolEnds, Expire, Leave
<1> QED
  BY <1>1, <1>2, <1>3, StaysKept, TokenClose

LEMMA TokenInit == Init => TokenInv
<1> SUFFICES ASSUME Init PROVE TokenInv
  OBVIOUS
<1>1. RefusalInv
  BY RefusalInit
<1>2. NoCall \in Connection
  BY DEF NoCall, Connection, Places, Whys
<1>3. NoSeam \in SeamState /\ Len(NoSeam.rounds) = 0
  BY DEF NoSeam, SeamState
<1>4. ConnType /\ SeamType /\ TokensType /\ PostFunction
  BY <1>2, <1>3 DEF Init, ConnType, SeamType, TokensType, PostFunction
<1>5. UnsentUnheld
  BY <1>3 DEF Init, UnsentUnheld, Open, RoundsOf, NoCall
<1>6. ClaimsMade /\ OneClaim /\ TokensHeld /\ TokensFree
  BY DEF Init, ClaimsMade, OneClaim, TokensHeld, TokensFree, Claims, IsRetry
<1> QED
  BY <1>1, <1>4, <1>5, <1>6 DEF TokenInv

LEMMA TokenNext == TokenInv /\ [Next]_vars => TokenInv'
<1> SUFFICES ASSUME TokenInv, [Next]_vars PROVE TokenInv'
  OBVIOUS
<1>0. RefusalInv'
  BY RefusalStep DEF TokenInv
<1>1. CASE \E r \in Posts : First(r) \/ Retry(r) \/ Arrive(r) \/ Listed(r)
  BY <1>0, <1>1, TokenFirst, TokenRetry, TokenArrive, TokenListed
<1>2. CASE \E r \in Posts : Deliver(r) \/ Cancel(r)
  BY <1>0, <1>2, TokenDeliver, TokenCancel
<1>3. CASE \E r \in Posts : Disconnect(r) \/ Relay(r) \/ NotDelivered(r) \/ BreakOff(r)
  BY <1>0, <1>3, TokenWay
<1>4. CASE \E c \in Posts : ToolRound(c) \/ ToolConcludes(c) \/ Operate(c) \/ ToolConcludesEarly(c)
  BY <1>0, <1>4, TokenRound, TokenConclude, TokenWork
<1>5. CASE (\E c \in Posts : ToolEnds(c) \/ Expire(c)) \/ (\E i \in Instances : Leave(i))
  BY <1>0, <1>5, TokenEnds
<1>6. CASE UNCHANGED vars
  <2>1. UNCHANGED <<post, phase, served, tokens, conn, seam>>
    BY <1>6 DEF vars, registry
  <2> QED
    BY <1>0, <2>1, StaysKept, ConnStays, SeamStays, TokensSame, TokenSteady
<1> QED
  BY <1>1, <1>2, <1>3, <1>4, <1>5, <1>6 DEF Next, Tool

(* However retries of a round race - at two instances, through the parameter check, one on its way while another      *)
(* fails and restores the token - at most one of them reaches the tool.                                             *)
THEOREM ServedOnceCorrect == Spec => []TokenServedOnce
<1>1. TokenInv => TokenServedOnce
  BY DEF TokenInv, RefusalInv, WayType, OneClaim, Claims, TokenServedOnce
<1> QED
  BY <1>1, TokenInit, TokenNext, PTL DEF Spec

-----------------------------------------------------------------------------
(* Whether a round that is out can still be retried. *)

\* The token of round n of c waits where the call is held, or a retry claimed it.
Retriable(c, n) ==
  \/ <<c, n>> \in tokens[conn[c].at]
  \/ \E r \in Posts : Claims(r) /\ post[r].call = c /\ post[r].round = n

OpenHeld == \A c \in Posts : Open(c) => conn[c].at \in Instances
OutRetriable == \A c \in Posts : Open(c) /\ RoundsOf(c) # 0 => Retriable(c, RoundsOf(c))

RoundInv == TokenInv /\ OpenHeld /\ OutRetriable

\* A step's effect on an open call's rounds: none is withdrawn.
RoundsKept == \A c \in Posts : \A n \in Nat : Open(c)' /\ Retriable(c, n) => Retriable(c, n)'
\* Its effect on the claims: none is given up.
ClaimsKept == \A r \in Posts : Claims(r) => Claims(r)' /\ post'[r] = post[r]

LEMMA RoundSteady ==
  ASSUME RoundInv, TokenInv', ConnKept, SeamKept, RoundsKept
  PROVE  RoundInv'
<1>1. OpenHeld'
  BY DEF RoundInv, OpenHeld, ConnKept
<1>2. OutRetriable'
  <2> SUFFICES ASSUME NEW c \in Posts, Open(c)', RoundsOf(c)' # 0
               PROVE  Retriable(c, RoundsOf(c))'
    BY DEF OutRetriable
  <2>1. Open(c) /\ RoundsOf(c)' = RoundsOf(c) /\ RoundsOf(c) \in Nat
    BY RoundsCount DEF ConnKept, SeamKept, RoundInv, TokenInv
  <2>2. Retriable(c, RoundsOf(c))
    BY <2>1 DEF RoundInv, OutRetriable
  <2>3. PICK n \in Nat : n = RoundsOf(c)
    BY <2>1
  <2>4. Retriable(c, n)'
    BY <2>2, <2>3 DEF RoundsKept
  <2>5. n = RoundsOf(c)'
    BY <2>1, <2>3
  <2> QED
    BY <2>4, <2>5 DEF Retriable
<1> QED
  BY <1>1, <1>2 DEF RoundInv

\* The tokens of the calls that stay open stay, and so do the claims.
LEMMA TokensKeptRounds ==
  ASSUME RoundInv, ConnKept, ClaimsKept,
         \A c \in Posts : \A n \in Nat : Open(c)' /\ <<c, n>> \in tokens[conn[c].at] => <<c, n>> \in tokens'[conn[c].at]
  PROVE  RoundsKept
BY DEF ConnKept, ClaimsKept, RoundsKept, Retriable

\* Where requests are answered, entered or left waiting, the claims of all others stay.
LEMMA ClaimsStay ==
  ASSUME RoundInv, NEW r \in Posts, NEW p \in Phases, phase' = [phase EXCEPT ![r] = p], served \subseteq served',
         \A q \in Posts \ {r} : post'[q] = post[q]
  PROVE  /\ \A q \in Posts \ {r} : Claims(q) => Claims(q)' /\ post'[q] = post[q]
         /\ ~Claims(r) => ClaimsKept
         /\ post'[r] = post[r] /\ (phase[r] # "listing" \/ p = "listing" \/ r \in served') => ClaimsKept
<1>1. \A q \in Posts \ {r} : Claims(q) => Claims(q)' /\ post'[q] = post[q]
  BY DEF RoundInv, TokenInv, RefusalInv, WayType, Claims, IsRetry
<1>2. post'[r] = post[r] /\ (phase[r] # "listing" \/ p = "listing" \/ r \in served') /\ Claims(r) => Claims(r)'
  BY DEF RoundInv, TokenInv, RefusalInv, WayType, Claims, IsRetry
<1> QED
  BY <1>1, <1>2 DEF ClaimsKept

\* A call that closes takes only its own tokens with it.
LEMMA CloseKeepsRounds ==
  ASSUME RoundInv, ClaimsKept, NEW cs, NEW why \in Whys, conn' = ClosedOf(cs, why), tokens' = TokensWithout(cs)
  PROVE  RoundsKept
<1>1. ConnKept
  BY ClosedKept DEF RoundInv
<1>2. ASSUME NEW c \in Posts, NEW n \in Nat, Open(c)', <<c, n>> \in tokens[conn[c].at]
      PROVE  <<c, n>> \in tokens'[conn[c].at]
  <2>1. Open(c)
    BY <1>1, <1>2 DEF ConnKept
  <2>2. c \notin cs
    BY <1>2, <2>1 DEF ClosedOf, Open, RoundInv, TokenInv, ConnType, Connection
  <2>3. conn[c].at \in Instances
    BY <2>1 DEF RoundInv, OpenHeld
  <2> QED
    BY <1>2, <2>2, <2>3 DEF TokensWithout
<1> QED
  BY <1>1, <1>2, TokensKeptRounds

\* The token of a retry that was restored is back where its call is.
LEMMA RestoredRounds ==
  ASSUME RoundInv, ConnKept, NEW r \in Posts, NEW index, tokens' = Restored(r, index),
         index \in [Instances -> SUBSET (Posts \X Nat)],
         \A q \in Posts \ {r} : Claims(q) => Claims(q)' /\ post'[q] = post[q],
         Claims(r) => post'[r] = post[r],
         \A i \in Instances : \A u \in tokens[i] :
            u \in index[i] \/ (u = <<post'[r].call, post'[r].round>> /\ IsRetry(r)')
  PROVE  RoundsKept
<1> SUFFICES ASSUME NEW c \in Posts, NEW n \in Nat, Open(c)', Retriable(c, n)
             PROVE  Retriable(c, n)'
  BY DEF RoundsKept
<1>1. Open(c) /\ conn'[c].at = conn[c].at /\ conn[c].at \in Instances
  BY DEF ConnKept, RoundInv, OpenHeld
<1>2. \A u \in index[conn[c].at] : u \in tokens'[conn[c].at]
  BY <1>1 DEF Restored
<1>3. c = post'[r].call /\ n = post'[r].round /\ IsRetry(r)' => <<c, n>> \in tokens'[conn[c].at]
  BY <1>1 DEF Restored
<1>4. CASE <<c, n>> \in tokens[conn[c].at]
  BY <1>1, <1>2, <1>3, <1>4 DEF Retriable
<1>5. CASE \E q \in Posts : Claims(q) /\ post[q].call = c /\ post[q].round = n
  <2>1. PICK q \in Posts : Claims(q) /\ post[q].call = c /\ post[q].round = n
    BY <1>5
  <2>2. CASE q = r
    <3>1. c = post'[r].call /\ n = post'[r].round /\ IsRetry(r)'
      BY <2>1, <2>2 DEF Claims, IsRetry
    <3> QED
      BY <1>1, <1>3, <3>1 DEF Retriable
  <2>3. CASE q # r
    BY <2>1, <2>3 DEF Retriable
  <2> QED
    BY <2>2, <2>3
<1> QED
  BY <1>4, <1>5 DEF Retriable

\* A token that is consumed is claimed.
LEMMA ConsumedRounds ==
  ASSUME RoundInv, ConnKept, ClaimsKept, NEW r \in Posts, NEW i \in Instances, NEW t \in tokens[i],
         tokens' = Consumed(i, t), post'[r].call = t[1], post'[r].round = t[2], Claims(r)'
  PROVE  RoundsKept
<1> SUFFICES ASSUME NEW c \in Posts, NEW n \in Nat, Open(c)', Retriable(c, n)
             PROVE  Retriable(c, n)'
  BY DEF RoundsKept
<1>1. Open(c) /\ conn'[c].at = conn[c].at /\ conn[c].at \in Instances
  BY DEF ConnKept, RoundInv, OpenHeld
<1>2. CASE <<c, n>> = t
  BY <1>2 DEF Retriable
<1>3. CASE <<c, n>> # t
  <2>1. \A u \in tokens[conn[c].at] : u # t => u \in tokens'[conn[c].at]
    BY <1>1 DEF Consumed, RoundInv, TokenInv, TokensType
  <2> QED
    BY <1>1, <1>3, <2>1 DEF Retriable, ClaimsKept
<1> QED
  BY <1>2, <1>3

LEMMA ReplyPhase ==
  ASSUME NEW r, NEW what, Reply(r, what)
  PROVE  \E p \in Phases : p # "listing" /\ phase' = [phase EXCEPT ![r] = p]
BY DEF Reply, Phases

LEMMA RoundServeRetry ==
  ASSUME RoundInv, TokenInv', NEW r \in Posts, NEW i \in Instances, NEW t \in tokens[i],
         phase[r] \in {"unsent", "forwarding"}, post'[r].call = t[1], post'[r].round = t[2],
         \A q \in Posts \ {r} : post'[q] = post[q], ServeRetry(r, i, t)
  PROVE  RoundInv'
<1>1. r \notin served /\ ~Claims(r) /\ TokenInv
  BY DEF RoundInv, TokenInv, RefusalInv, EarlyUnserved, Early, Claims
<1>2. t[2] # 0 /\ t = <<t[1], t[2]>>
  <2>1. t[1] \in Posts /\ t[2] \in 1..RoundsOf(t[1]) /\ t = <<t[1], t[2]>>
    BY <1>1, TokenOfBegun
  <2>2. RoundsOf(t[1]) \in Nat
    BY <1>1, <2>1, RoundsCount DEF TokenInv
  <2> QED
    BY <2>1, <2>2
<1>3. phase \in [Posts -> Phases]
  BY <1>1 DEF TokenInv, RefusalInv, WayType
<1>4. CASE \E what : Reply(r, what) /\ UNCHANGED <<tokens, conn, seam, served>>
  <2>1. PICK p \in Phases : phase' = [phase EXCEPT ![r] = p]
    BY <1>4, ReplyPhase
  <2>2. ClaimsKept
    BY <1>1, <1>4, <2>1, ClaimsStay
  <2>3. ConnKept /\ SeamKept
    BY <1>1, <1>4, ConnStays, SeamStays
  <2>4. RoundsKept
    BY <1>4, <2>2, <2>3, TokensKeptRounds
  <2> QED
    BY <2>3, <2>4, RoundSteady
<1>5. CASE /\ phase' = [phase EXCEPT ![r] = "listing"] /\ tokens' = Consumed(i, t)
           /\ UNCHANGED <<conn, seam, served>>
  <2>1. ClaimsKept
    BY <1>1, <1>5, ClaimsStay DEF Phases
  <2>2. Claims(r)'
    BY <1>2, <1>3, <1>5 DEF Claims, IsRetry
  <2>3. ConnKept /\ SeamKept
    BY <1>1, <1>5, ConnStays, SeamStays
  <2>4. RoundsKept
    BY <1>5, <2>1, <2>2, <2>3, ConsumedRounds
  <2> QED
    BY <2>3, <2>4, RoundSteady
<1>6. ASSUME NEW what, Reply(r, what), tokens' = Restored(r, Consumed(i, t)), UNCHANGED <<conn, seam, served>>
      PROVE  RoundInv'
  <2>1. PICK p \in Phases : phase' = [phase EXCEPT ![r] = p]
    BY <1>6, ReplyPhase
  <2>2. \A q \in Posts \ {r} : Claims(q) => Claims(q)' /\ post'[q] = post[q]
    BY <1>1, <1>6, <2>1, ClaimsStay
  <2>3. ConnKept /\ SeamKept
    BY <1>1, <1>6, ConnStays, SeamStays
  <2>4. Consumed(i, t) \in [Instances -> SUBSET (Posts \X Nat)]
    BY <1>1 DEF Consumed, TokenInv, TokensType
  <2>5. IsRetry(r)'
    BY <1>2 DEF IsRetry
  <2>6. \A j \in Instances : \A u \in tokens[j] :
          u \in Consumed(i, t)[j] \/ (u = <<post'[r].call, post'[r].round>> /\ IsRetry(r)')
    BY <1>1, <1>2, <2>5 DEF Consumed, TokenInv, TokensType
  <2>7. PICK index : index = Consumed(i, t)
    OBVIOUS
  <2>8. RoundsKept
    BY <1>1, <1>6, <2>2, <2>3, <2>4, <2>6, <2>7, RestoredRounds
  <2> QED
    BY <2>3, <2>8, RoundSteady
<1>7. CASE UNCHANGED conn /\ \E writable \in BOOLEAN : Exchange(r, t[1], Consumed(i, t), writable)
  <2>1. CASE Enter(r) /\ tokens' = Consumed(i, t) /\ seam' = [seam EXCEPT ![t[1]].request = r]
    <3>1. ClaimsKept
      BY <1>1, <2>1, ClaimsStay DEF Enter, Phases
    <3>2. Claims(r)'
      BY <1>2, <2>1 DEF Claims, IsRetry, Enter
    <3>3. ConnKept /\ SeamKept
      BY <1>1, <1>7, <2>1, ConnStays, SeamAsked
    <3>4. RoundsKept
      BY <2>1, <3>1, <3>2, <3>3, ConsumedRounds
    <3> QED
      BY <3>3, <3>4, RoundSteady
  <2>2. CASE Reply(r, "refused") /\ tokens' = Restored(r, Consumed(i, t)) /\ UNCHANGED <<seam, served>>
    BY <1>6, <1>7, <2>2
  <2> QED
    BY <1>7, <2>1, <2>2 DEF Exchange
<1> QED
  BY <1>4, <1>5, <1>6, <1>7 DEF ServeRetry, registry

LEMMA RoundNotHeld ==
  ASSUME RoundInv, TokenInv', NEW r \in Posts, NEW i, NEW t, NEW mayForward,
         phase[r] \in {"unsent", "forwarding"}, \A q \in Posts \ {r} : post'[q] = post[q], NotHeld(r, i, t, mayForward)
  PROVE  RoundInv'
<1>1. ~Claims(r) /\ TokenInv
  BY DEF RoundInv, TokenInv, RefusalInv, EarlyUnserved, Early, Claims
<1>2. UNCHANGED <<tokens, conn, seam, served>>
  BY DEF NotHeld, registry
<1>3. PICK p \in Phases : phase' = [phase EXCEPT ![r] = p]
  BY ReplyPhase DEF NotHeld, Phases
<1>4. ClaimsKept
  BY <1>1, <1>2, <1>3, ClaimsStay
<1>5. ConnKept /\ SeamKept
  BY <1>1, <1>2, ConnStays, SeamStays
<1>6. RoundsKept
  BY <1>2, <1>4, <1>5, TokensKeptRounds
<1> QED
  BY <1>5, <1>6, RoundSteady

LEMMA RoundRetry ==
  ASSUME RoundInv, TokenInv', NEW r \in Posts, Retry(r)
  PROVE  RoundInv'
<1>1. PICK i \in Instances, t \in known, presents \in Presents, check \in Checks :
        \/ /\ t \in tokens[i]
           /\ post' = [post EXCEPT ![r] = Carrying(post[t[1]].session, t[1], t[2], presents, check)]
           /\ ServeRetry(r, i, t)
        \/ \E mayForward \in BOOLEAN :
             /\ \E x : post' = [post EXCEPT ![r] = x]
             /\ NotHeld(r, i, t, mayForward)
  BY DEF Retry
<1>2. phase[r] \in {"unsent", "forwarding"} /\ TokenInv
  BY DEF Retry, Unsent, RoundInv
<1>3. CASE /\ t \in tokens[i]
           /\ post' = [post EXCEPT ![r] = Carrying(post[t[1]].session, t[1], t[2], presents, check)]
           /\ ServeRetry(r, i, t)
  <2>1. /\ \A q \in Posts \ {r} : post'[q] = post[q]
        /\ post'[r].call = t[1] /\ post'[r].round = t[2]
    BY <1>2, <1>3 DEF Carrying, TokenInv, PostFunction
  <2> QED
    BY <1>2, <1>3, <2>1, RoundServeRetry
<1>4. CASE \E mayForward \in BOOLEAN : (\E x : post' = [post EXCEPT ![r] = x]) /\ NotHeld(r, i, t, mayForward)
  <2>1. \A q \in Posts \ {r} : post'[q] = post[q]
    BY <1>2, <1>4 DEF TokenInv, PostFunction
  <2> QED
    BY <1>2, <1>4, <2>1, RoundNotHeld
<1> QED
  BY <1>1, <1>3, <1>4

LEMMA RoundArrive ==
  ASSUME RoundInv, TokenInv', NEW r \in Posts, Arrive(r)
  PROVE  RoundInv'
<1> DEFINE t == TokenOf(r)
           j == conn[t[1]].at
<1>1. phase[r] \in {"unsent", "forwarding"} /\ \A q \in Posts : post'[q] = post[q]
  BY DEF Arrive
<1>2. CASE t \in tokens[j] /\ j \in Instances /\ ServeRetry(r, j, t)
  <2>1. PICK i \in Instances : i = j
    BY <1>2
  <2>2. post'[r].call = t[1] /\ post'[r].round = t[2]
    BY <1>1 DEF TokenOf
  <2> QED
    BY <1>1, <1>2, <2>1, <2>2, RoundServeRetry
<1>3. CASE NotHeld(r, j, t, FALSE)
  <2>1. \A q \in Posts \ {r} : post'[q] = post[q]
    BY <1>1
  <2>2. PICK i, u, mayForward : NotHeld(r, i, u, mayForward)
    BY <1>3
  <2> QED
    BY <1>1, <2>1, <2>2, RoundNotHeld
<1> QED
  BY <1>2, <1>3 DEF Arrive

LEMMA RoundListed ==
  ASSUME RoundInv, TokenInv', NEW r \in Posts, Listed(r)
  PROVE  RoundInv'
<1> DEFINE c == post[r].call
<1>1. phase[r] = "listing" /\ (\A q \in Posts : post'[q] = post[q]) /\ TokenInv
  BY DEF Listed, RoundInv
\* A retry that gives its claim up restores the token.
<1>2. ASSUME ConnKept, SeamKept, NEW what, Reply(r, what), served' = served, tokens' = Restored(r, tokens)
      PROVE  RoundInv'
  <2>1. PICK p \in Phases : phase' = [phase EXCEPT ![r] = p]
    BY <1>2, ReplyPhase
  <2>2. \A q \in Posts \ {r} : Claims(q) => Claims(q)' /\ post'[q] = post[q]
    BY <1>1, <1>2, <2>1, ClaimsStay
  <2>3. tokens \in [Instances -> SUBSET (Posts \X Nat)]
    BY <1>1 DEF TokenInv, TokensType
  <2>4. RoundsKept
    BY <1>1, <1>2, <2>2, <2>3, RestoredRounds
  <2> QED
    BY <1>2, <2>4, RoundSteady
<1>3. CASE Reply(r, "mismatch") /\ served' = served /\ Close({c}, "rejected") /\ ~IsRetry(r)
  <2>1. PICK p \in Phases : phase' = [phase EXCEPT ![r] = p]
    BY <1>3, ReplyPhase
  <2>2. ClaimsKept
    BY <1>1, <1>3, <2>1, ClaimsStay DEF Claims
  <2>3. PICK cs : Close(cs, "rejected")
    BY <1>3
  <2>4. ConnKept /\ SeamKept /\ RoundsKept
    BY <1>1, <2>2, <2>3, CloseKeeps, CloseKeepsRounds DEF Close, Whys
  <2> QED
    BY <2>4, RoundSteady
<1>4. CASE /\ Reply(r, "mismatch") /\ tokens' = Restored(r, tokens) /\ UNCHANGED <<seam, served>>
           /\ \E schema \in {"read", "none"} : conn' = [conn EXCEPT ![c].schema = schema]
  <2>1. ConnKept /\ SeamKept
    BY <1>1, <1>4, SchemaRead, SeamStays
  <2> QED
    BY <1>2, <1>4, <2>1
<1>5. CASE /\ \E schema \in {"read", "none"} : conn' = [conn EXCEPT ![c].schema = schema]
           /\ \E writable \in BOOLEAN : Exchange(r, c, tokens, writable)
  <2>1. ConnKept
    BY <1>1, <1>5, SchemaRead
  <2>2. CASE Reply(r, "refused") /\ tokens' = Restored(r, tokens) /\ UNCHANGED <<seam, served>>
    BY <1>1, <1>2, <2>1, <2>2, SeamStays
  <2>3. CASE Enter(r) /\ tokens' = tokens /\ seam' = [seam EXCEPT ![c].request = r]
    <3>1. ClaimsKept
      BY <1>1, <2>3, ClaimsStay DEF Enter, Phases
    <3>2. SeamKept
      BY <1>1, <2>3, SeamAsked
    <3>3. RoundsKept
      BY <2>1, <2>3, <3>1, TokensKeptRounds
    <3> QED
      BY <2>1, <3>2, <3>3, RoundSteady
  <2> QED
    BY <1>5, <2>2, <2>3 DEF Exchange
<1> QED
  BY <1>3, <1>4, <1>5 DEF Listed

\* A call that opens has no round out; what makes room for it takes its own tokens only.
LEMMA RoundFirst ==
  ASSUME RoundInv, TokenInv', NEW r \in Posts, First(r)
  PROVE  RoundInv'
<1>1. phase[r] = "unsent" /\ ~Claims(r) /\ TokenInv
  BY DEF First, Unsent, RoundInv, TokenInv, RefusalInv, EarlyUnserved, Early, Claims
<1>2. PICK i \in Instances \ down, s \in Sessions, check \in Checks, c \in {NoPost, r} :
        /\ post' = [post EXCEPT ![r] = Carrying(s, c, 0, "call", check)]
        /\ RefuseFirst(r, i, s) \/ OpenCall(r, i, s)
  BY DEF First
<1>3. \A q \in Posts \ {r} : post'[q] = post[q]
  BY <1>1, <1>2 DEF TokenInv, PostFunction
<1>4. CASE RefuseFirst(r, i, s)
  <2>1. PICK what : Reply(r, what)
    BY <1>4 DEF RefuseFirst
  <2>2. UNCHANGED <<tokens, conn, seam, served>>
    BY <1>4 DEF RefuseFirst, registry
  <2>3. PICK p \in Phases : phase' = [phase EXCEPT ![r] = p]
    BY <2>1, ReplyPhase
  <2>4. ClaimsKept
    BY <1>1, <1>3, <2>2, <2>3, ClaimsStay
  <2>5. ConnKept /\ SeamKept
    BY <1>1, <2>2, ConnStays, SeamStays
  <2> QED
    BY <2>2, <2>4, <2>5, TokensKeptRounds, RoundSteady
<1>5. CASE OpenCall(r, i, s)
  <2>1. \E p \in Phases : phase' = [phase EXCEPT ![r] = p] /\ served \subseteq served'
    BY <1>5 DEF OpenCall, Enter, Phases
  <2>2. ClaimsKept
    BY <1>1, <1>3, <2>1, ClaimsStay
  <2>3. PICK closing : Opened(r, i, closing)
    BY <1>5 DEF OpenCall
  <2> DEFINE opened == [NoCall EXCEPT !.state = "open", !.at = i]
  <2>4. conn' = [d \in Posts |-> IF d = r THEN opened ELSE ClosedOf(closing, "evicted")[d]]
    BY <2>3 DEF Opened, ClosedOf
  <2>5. \A d \in Posts : seam'[d].rounds = seam[d].rounds
    <3>1. \A d \in Posts : d # r => seam'[d] = SeamWithout(closing)[d]
      BY <2>3 DEF Opened, SeamWithout
    <3>2. seam'[r].rounds = SeamWithout(closing)[r].rounds
      BY <2>3 DEF Opened, SeamWithout, NoSeam, TokenInv, SeamType, SeamState
    <3>3. \A d \in Posts : SeamWithout(closing)[d].rounds = seam[d].rounds
      BY DEF SeamWithout, NoSeam
    <3> QED
      BY <3>1, <3>2, <3>3
  <2>6. RoundsOf(r)' = 0
    BY <1>1, <2>5 DEF TokenInv, UnsentUnheld, RoundsOf
  <2>7. ASSUME NEW d \in Posts \ {r}, conn'[d].state = "open"
        PROVE  Open(d) /\ conn'[d].at = conn[d].at /\ d \notin closing
    <3>1. conn'[d] = ClosedOf(closing, "evicted")[d]
      BY <2>4
    <3>2. ClosedOf(closing, "evicted")[d].at = conn[d].at
      BY <1>1, ClosedCalls DEF Whys
    <3>3. ClosedOf(closing, "evicted")[d].state = "open" => Open(d) /\ d \notin closing
      BY <1>1 DEF ClosedOf, Open, TokenInv, ConnType, Connection
    <3> QED
      BY <2>7, <3>1, <3>2, <3>3
  <2>8. OpenHeld'
    <3>1. conn'[r].at = i
      BY <2>4 DEF NoCall
    <3>2. \A d \in Posts \ {r} : conn'[d].state = "open" => conn'[d].at \in Instances
      BY <2>7 DEF RoundInv, OpenHeld
    <3> QED
      BY <3>1, <3>2 DEF OpenHeld, Open
  <2>9. OutRetriable'
    <3> SUFFICES ASSUME NEW d \in Posts, conn'[d].state = "open", RoundsOf(d)' # 0
                 PROVE  Retriable(d, RoundsOf(d))'
      BY DEF OutRetriable, Open
    <3>1. d # r
      BY <2>6
    <3>2. Open(d) /\ conn'[d].at = conn[d].at /\ d \notin closing
      BY <2>7, <3>1
    <3>3. RoundsOf(d)' = RoundsOf(d) /\ conn[d].at \in Instances
      BY <2>5, <3>2 DEF RoundsOf, RoundInv, OpenHeld
    <3>4. Retriable(d, RoundsOf(d))
      BY <3>2, <3>3 DEF RoundInv, OutRetriable
    <3>5. PICK n : n = RoundsOf(d)
      OBVIOUS
    <3>6. <<d, n>> \in tokens[conn[d].at] => <<d, n>> \in tokens'[conn[d].at]
      BY <2>3, <3>2, <3>3 DEF Opened, TokensWithout
    <3>7. Retriable(d, n)'
      BY <2>2, <3>2, <3>4, <3>5, <3>6 DEF Retriable, ClaimsKept
    <3> QED
      BY <3>3, <3>5, <3>7 DEF Retriable
  <2> QED
    BY <2>8, <2>9 DEF RoundInv
<1> QED
  BY <1>2, <1>4, <1>5

\* Steps that leave every claim, and close calls if any.
LEMMA RoundClose ==
  ASSUME RoundInv, TokenInv', ClaimsKept, NEW cs, NEW why \in Whys, Close(cs, why)
  PROVE  RoundInv'
BY CloseKeeps, CloseKeepsRounds, RoundSteady DEF Close, RoundInv

LEMMA RoundAside ==
  ASSUME RoundInv, TokenInv', ClaimsKept, SeamKept, UNCHANGED <<tokens, conn>>
  PROVE  RoundInv'
BY ConnStays, TokensKeptRounds, RoundSteady DEF RoundInv

LEMMA RoundEnd ==
  ASSUME RoundInv, TokenInv', NEW r \in Posts, Deliver(r) \/ Cancel(r)
  PROVE  RoundInv'
<1>1. phase[r] = "asking" /\ UNCHANGED <<post, served>> /\ TokenInv
  BY DEF Deliver, Cancel, RoundInv
<1>2. PICK p \in Phases : phase' = [phase EXCEPT ![r] = p]
  BY ReplyPhase DEF Deliver, Cancel, Phases
<1>3. ClaimsKept
  BY <1>1, <1>2, ClaimsStay
<1>4. CASE UNCHANGED <<registry, conn, seam>>
  BY <1>1, <1>3, <1>4, SeamStays, RoundAside DEF registry
<1>5. CASE \E why \in {"concluded", "cancelled"} : \E cs : Close(cs, why)
  <2>1. PICK why \in {"concluded", "cancelled"} : \E cs : Close(cs, why)
    BY <1>5
  <2>2. why \in Whys
    BY DEF Whys
  <2> QED
    BY <1>3, <2>1, <2>2, RoundClose
<1> QED
  BY <1>4, <1>5 DEF Deliver, Cancel

LEMMA RoundWay ==
  ASSUME RoundInv, TokenInv', NEW r \in Posts, Disconnect(r) \/ Relay(r) \/ NotDelivered(r) \/ BreakOff(r)
  PROVE  RoundInv'
<1>1. UNCHANGED <<post, served, tokens, conn, seam>> /\ TokenInv
  BY DEF Disconnect, Relay, NotDelivered, BreakOff, registry, RoundInv
<1>2. phase' = phase \/ (phase' = [phase EXCEPT ![r] = "over"] /\ phase[r] # "listing")
  BY DEF Disconnect, Relay, NotDelivered, BreakOff
<1>3. ClaimsKept
  BY <1>1, <1>2 DEF TokenInv, RefusalInv, WayType, ClaimsKept, Claims, IsRetry
<1> QED
  BY <1>1, <1>3, SeamStays, RoundAside

LEMMA StillClaimed == UNCHANGED <<post, phase, served>> => ClaimsKept
BY DEF ClaimsKept, Claims, IsRetry

\* The tool works or answers with no round.
LEMMA RoundWork ==
  ASSUME RoundInv, TokenInv', NEW c \in Posts, Operate(c) \/ ToolConcludesEarly(c) \/ ToolConcludes(c)
  PROVE  RoundInv'
<1>1. UNCHANGED <<post, phase, served, tokens, conn>> /\ TokenInv
  BY DEF Operate, ToolConcludesEarly, ToolConcludes, ToolAnswers, registry, RoundInv
<1>2. \E s : seam' = [seam EXCEPT ![c] = s] /\ s.rounds = seam[c].rounds
  <2>1. seam[c] \in SeamState
    BY <1>1 DEF TokenInv, SeamType
  <2>2. CASE Operate(c) \/ ToolConcludesEarly(c)
    BY <2>1, <2>2 DEF Operate, ToolConcludesEarly, SeamState
  <2>3. CASE ToolConcludes(c)
    <3> DEFINE s == [[seam[c] EXCEPT !.final = FALSE] EXCEPT !.request = NoPost, !.outcomes = FALSE]
    <3>1. seam' = [seam EXCEPT ![c] = s]
      BY <2>3 DEF ToolConcludes, ToolAnswers
    <3>2. s.rounds = seam[c].rounds
      BY <2>1 DEF SeamState
    <3> QED
      BY <3>1, <3>2
  <2> QED
    BY <2>2, <2>3
<1>3. SeamKept
  BY <1>1, <1>2 DEF SeamKept, TokenInv, SeamType, RoundsOf
<1> QED
  BY <1>1, <1>3, StillClaimed, RoundAside

\* A round that goes out has its token put where the call is.
LEMMA RoundRound ==
  ASSUME RoundInv, TokenInv', NEW c \in Posts, ToolRound(c)
  PROVE  RoundInv'
<1>1. PICK kind \in {"seam", "own"} : ToolAnswers(c, "round", [seam[c] EXCEPT !.rounds = Append(@, kind)])
  BY DEF ToolRound
<1> DEFINE s == [seam[c] EXCEPT !.rounds = Append(@, kind)]
<1>2. /\ Open(c) /\ UNCHANGED <<post, phase, served, conn>>
      /\ seam' = [seam EXCEPT ![c] = [s EXCEPT !.request = NoPost, !.outcomes = FALSE]]
      /\ tokens' = [tokens EXCEPT ![conn[c].at] = @ \cup {<<c, Len(s.rounds)>>}]
  BY <1>1 DEF ToolAnswers
<1>3. TokenInv /\ conn[c].at \in Instances /\ ClaimsKept
  BY <1>2, StillClaimed DEF RoundInv, OpenHeld
<1>4. [s EXCEPT !.request = NoPost, !.outcomes = FALSE].rounds = s.rounds
  BY <1>3 DEF TokenInv, SeamType, SeamState
<1> HIDE DEF s
<1>5. RoundsOf(c)' = Len(s.rounds) /\ \A d \in Posts \ {c} : RoundsOf(d)' = RoundsOf(d)
  BY <1>2, <1>3, <1>4 DEF TokenInv, SeamType, RoundsOf
<1>6. <<c, Len(s.rounds)>> \in tokens'[conn[c].at] /\ \A i \in Instances : tokens[i] \subseteq tokens'[i]
  BY <1>2, <1>3 DEF TokenInv, TokensType
<1>7. OpenHeld'
  BY <1>2 DEF RoundInv, OpenHeld, Open
<1>8. OutRetriable'
  <2> SUFFICES ASSUME NEW d \in Posts, Open(d), RoundsOf(d)' # 0
               PROVE  Retriable(d, RoundsOf(d))'
    BY <1>2 DEF OutRetriable, Open
  <2>1. CASE d = c
    BY <1>2, <1>5, <1>6, <2>1 DEF Retriable
  <2>2. CASE d # c
    <3>1. PICK n : n = RoundsOf(d) /\ n = RoundsOf(d)'
      BY <1>5, <2>2
    <3>2. Retriable(d, n) /\ conn[d].at \in Instances
      BY <3>1 DEF RoundInv, OutRetriable, OpenHeld
    <3>3. Retriable(d, n)'
      BY <1>2, <1>3, <1>6, <3>2 DEF Retriable, ClaimsKept
    <3> QED
      BY <3>1, <3>3 DEF Retriable
  <2> QED
    BY <2>1, <2>2
<1> QED
  BY <1>7, <1>8 DEF RoundInv

LEMMA RoundEnds ==
  ASSUME RoundInv, TokenInv', (\E c \in Posts : ToolEnds(c) \/ Expire(c)) \/ (\E i \in Instances : Leave(i))
  PROVE  RoundInv'
<1>1. PICK why \in {"ended", "expired", "left"} : \E cs : Close(cs, why)
  BY DEF ToolEnds, Expire, Leave
<1>2. why \in Whys
  BY DEF Whys
<1>3. ClaimsKept
  BY StillClaimed DEF ToolEnds, Expire, Leave
<1> QED
  BY <1>1, <1>2, <1>3, RoundClose

LEMMA RoundInit == Init => RoundInv
<1> SUFFICES ASSUME Init PROVE RoundInv
  OBVIOUS
<1>1. \A c \in Posts : ~Open(c)
  BY DEF Init, Open, NoCall
<1> QED
  BY <1>1, TokenInit DEF RoundInv, OpenHeld, OutRetriable

LEMMA RoundNext == RoundInv /\ [Next]_vars => RoundInv'
<1> SUFFICES ASSUME RoundInv, [Next]_vars PROVE RoundInv'
  OBVIOUS
<1>0. TokenInv'
  BY TokenNext DEF RoundInv
<1>1. CASE \E r \in Posts : First(r) \/ Retry(r) \/ Arrive(r) \/ Listed(r)
  BY <1>0, <1>1, RoundFirst, RoundRetry, RoundArrive, RoundListed
<1>2. CASE \E r \in Posts : Deliver(r) \/ Cancel(r)
  BY <1>0, <1>2, RoundEnd
<1>3. CASE \E r \in Posts : Disconnect(r) \/ Relay(r) \/ NotDelivered(r) \/ BreakOff(r)
  BY <1>0, <1>3, RoundWay
<1>4. CASE \E c \in Posts : ToolConcludes(c) \/ Operate(c) \/ ToolConcludesEarly(c)
  BY <1>0, <1>4, RoundWork
<1>5. CASE \E c \in Posts : ToolRound(c)
  BY <1>0, <1>5, RoundRound
<1>6. CASE (\E c \in Posts : ToolEnds(c) \/ Expire(c)) \/ (\E i \in Instances : Leave(i))
  BY <1>0, <1>6, RoundEnds
<1>7. CASE UNCHANGED vars
  <2>1. UNCHANGED <<post, phase, served, tokens, conn, seam>>
    BY <1>7 DEF vars, registry
  <2> QED
    BY <1>0, <2>1, StillClaimed, SeamStays, RoundAside DEF RoundInv
<1> QED
  BY <1>1, <1>2, <1>3, <1>4, <1>5, <1>6, <1>7 DEF Next, Tool

(* A retry that came to nothing - another principal's, another session's, one whose headers disagree, one that could  *)
(* not be written - leaves its round as it was: while the call is held, its newest round waits for a retry or has one. *)
THEOREM RoundStaysOpenCorrect == Spec => []RoundStaysOpen
<1>1. RoundInv => RoundStaysOpen
  <2> SUFFICES ASSUME RoundInv, NEW c \in Posts, Open(c), seam[c].rounds # <<>>,
                      Newest(c) \notin tokens[conn[c].at]
               PROVE  \E r \in Posts : IsRetry(r) /\ TokenOf(r) = Newest(c) /\ (r \in served \/ phase[r] = "listing")
    BY DEF RoundStaysOpen
  <2>1. RoundsOf(c) # 0
    BY DEF RoundInv, TokenInv, SeamType, SeamState, RoundsOf
  <2>2. Retriable(c, RoundsOf(c))
    BY <2>1 DEF RoundInv, OutRetriable
  <2> QED
    BY <2>2 DEF Retriable, Newest, RoundsOf, TokenOf, Claims
<1> QED
  BY <1>1, RoundInit, RoundNext, PTL DEF Spec

-----------------------------------------------------------------------------
(* What ends a call, and what it costs. *)

\* The request was answered that its call was closed.
CutOff(r) == answer[r] = "closed" \/ told[r] = "closed"

CutOffsEnded ==
  \A r \in Posts : CutOff(r) =>
    /\ phase[r] # "unsent"
    /\ \A c \in Posts : post[r].call = c => conn[c].state = "closed" /\ conn[c].why \in {"ended", "left"}
\* A call is not opened before its first request is made.
Unopened == \A c \in Posts : phase[c] = "unsent" => conn[c].state = "none"
LossesFew ==
  \A c \in Posts : /\ conn[c].why = "evicted" => conn[c].lost = {}
                   /\ conn[c].why = "expired" => conn[c].lost \subseteq {"outcomes"}

CutInv == TokenInv /\ CutOffsEnded /\ Unopened /\ LossesFew

\* A step's effect on calls that are not open, and on answers that a call was closed: there is none.
Settled == \A c \in Posts : ~Open(c) => conn'[c].state = conn[c].state /\ conn'[c].why = conn[c].why
WayKept == \A r \in Posts : CutOff(r)' => CutOff(r) /\ post'[r] = post[r]

LEMMA CutSteady ==
  ASSUME CutInv, TokenInv', Settled, LossesFew', WayKept, PhaseOn
  PROVE  CutInv'
<1>1. CutOffsEnded'
  BY DEF CutInv, CutOffsEnded, Settled, WayKept, PhaseOn, Open
<1>2. Unopened'
  BY DEF CutInv, Unopened, Settled, PhaseOn, Open
<1> QED
  BY <1>1, <1>2 DEF CutInv

LEMMA ConnSettled == CutInv /\ UNCHANGED conn => Settled /\ LossesFew'
BY DEF CutInv, Settled, LossesFew

LEMMA SchemaSettled ==
  ASSUME CutInv, NEW c, NEW schema, conn' = [conn EXCEPT ![c].schema = schema]
  PROVE  Settled /\ LossesFew'
<1>1. \A d \in Posts : /\ conn'[d].state = conn[d].state /\ conn'[d].why = conn[d].why
                       /\ conn'[d].lost = conn[d].lost
  BY DEF CutInv, TokenInv, ConnType, Connection
<1> QED
  BY <1>1 DEF CutInv, Settled, LossesFew

\* A call that is closed for a reason of the entry's own loses what that reason allows.
LEMMA ClosedSettled ==
  ASSUME CutInv, NEW cs, NEW why \in Whys, conn' = ClosedOf(cs, why),
         why = "evicted" => \A c \in cs : AtStake(c) = {},
         why = "expired" => \A c \in cs : AtStake(c) \subseteq {"outcomes"}
  PROVE  /\ Settled /\ LossesFew'
         /\ \A c \in Posts : c \in cs /\ Open(c) => conn'[c].state = "closed" /\ conn'[c].why = why
<1>1. \A c \in Posts : c \in cs /\ Open(c) =>
        conn'[c].state = "closed" /\ conn'[c].why = why /\ conn'[c].lost = AtStake(c)
  BY DEF ClosedOf, CutInv, TokenInv, ConnType, Connection
<1>2. \A c \in Posts : ~(c \in cs /\ Open(c)) => conn'[c] = conn[c]
  BY DEF ClosedOf
<1>3. Settled
  BY <1>2 DEF Settled
<1>4. LossesFew'
  BY <1>1, <1>2 DEF CutInv, LossesFew
<1> QED
  BY <1>1, <1>3, <1>4

LEMMA AtStakeWhenIdle ==
  ASSUME NEW c, ~Running(c)
  PROVE  AtStake(c) \subseteq {"outcomes"} /\ (~Undelivered(c) => AtStake(c) = {})
BY DEF AtStake, Running

\* An answer is new unless it is the waiter's.
LEMMA ReplyWay ==
  ASSUME CutInv, NEW r \in Posts, NEW what, Reply(r, what), \A q \in Posts \ {r} : post'[q] = post[q],
         what = "closed" => answer[r] = "closed", post'[r] = post[r] \/ phase[r] = "unsent"
  PROVE  WayKept /\ PhaseOn
<1>1. /\ answer' = [answer EXCEPT ![r] = "none"] \/ answer' = [answer EXCEPT ![r] = what]
      /\ told' = told \/ told' = [told EXCEPT ![r] = what]
      /\ \E p \in Phases : p # "unsent" /\ phase' = [phase EXCEPT ![r] = p]
  BY DEF Reply, Phases
<1>2. phase[r] = "unsent" => ~CutOff(r)
  BY DEF CutInv, CutOffsEnded
<1>3. \A q \in Posts \ {r} : answer'[q] = answer[q] /\ told'[q] = told[q]
  BY <1>1 DEF CutInv, TokenInv, RefusalInv, WayType
<1>4. (answer'[r] = "closed" \/ told'[r] = "closed") => CutOff(r)
  BY <1>1 DEF CutInv, TokenInv, RefusalInv, WayType, CutOff
<1>5. WayKept
  BY <1>2, <1>3, <1>4 DEF WayKept, CutOff
<1>6. PhaseOn
  BY <1>1 DEF PhaseOn, CutInv, TokenInv, RefusalInv, WayType
<1> QED
  BY <1>5, <1>6

\* No answer: the request waits, here or elsewhere.
LEMMA WaitWay ==
  ASSUME CutInv, NEW r \in Posts, NEW p \in Phases \ {"unsent"}, phase' = [phase EXCEPT ![r] = p],
         UNCHANGED <<answer, told>>, \A q \in Posts \ {r} : post'[q] = post[q],
         post'[r] = post[r] \/ phase[r] = "unsent"
  PROVE  WayKept /\ PhaseOn
<1>1. phase[r] = "unsent" => ~CutOff(r)
  BY DEF CutInv, CutOffsEnded
<1>2. WayKept
  BY <1>1 DEF WayKept, CutOff
<1> QED
  BY <1>2 DEF PhaseOn, CutInv, TokenInv, RefusalInv, WayType

\* The ways on from a request that is served.
LEMMA CutExchange ==
  ASSUME CutInv, NEW r \in Posts, NEW c, NEW index, NEW writable \in BOOLEAN, Exchange(r, c, index, writable),
         \A q \in Posts \ {r} : post'[q] = post[q], post'[r] = post[r] \/ phase[r] = "unsent"
  PROVE  WayKept /\ PhaseOn
BY ReplyWay, WaitWay DEF Exchange, Enter, Phases

LEMMA CutServeRetry ==
  ASSUME CutInv, TokenInv', NEW r \in Posts, NEW i, NEW t, \A q \in Posts \ {r} : post'[q] = post[q],
         post'[r] = post[r] \/ phase[r] = "unsent", ServeRetry(r, i, t)
  PROVE  CutInv'
<1>1. UNCHANGED conn
  BY DEF ServeRetry
<1>2. WayKept /\ PhaseOn
  <2>1. CASE \E what : Reply(r, what) /\ what # "closed"
    BY <2>1, ReplyWay
  <2>2. CASE phase' = [phase EXCEPT ![r] = "listing"] /\ UNCHANGED <<answer, told>>
    BY <2>2, WaitWay DEF Phases
  <2>3. CASE \E writable \in BOOLEAN : Exchange(r, t[1], Consumed(i, t), writable)
    BY <2>3, CutExchange
  <2>4. Misdirected(r, t) # "closed"
    BY DEF Misdirected
  <2> QED
    BY <2>1, <2>2, <2>3, <2>4 DEF ServeRetry
<1> QED
  BY <1>1, <1>2, ConnSettled, CutSteady

LEMMA CutNotHeld ==
  ASSUME CutInv, TokenInv', NEW r \in Posts, NEW i, NEW t, NEW mayForward, \A q \in Posts \ {r} : post'[q] = post[q],
         post'[r] = post[r] \/ phase[r] = "unsent", NotHeld(r, i, t, mayForward)
  PROVE  CutInv'
<1>1. UNCHANGED conn
  BY DEF NotHeld
<1>2. WayKept /\ PhaseOn
  BY ReplyWay, WaitWay DEF NotHeld, Phases
<1> QED
  BY <1>1, <1>2, ConnSettled, CutSteady

LEMMA CutRetry ==
  ASSUME CutInv, TokenInv', NEW r \in Posts, Retry(r)
  PROVE  CutInv'
<1>1. phase[r] = "unsent"
  BY DEF Retry, Unsent
<1>2. \A q \in Posts \ {r} : post'[q] = post[q]
  <2>1. \E x : post' = [post EXCEPT ![r] = x]
    BY DEF Retry
  <2> QED
    BY <2>1 DEF CutInv, TokenInv, PostFunction
<1>3. PICK i, t : ServeRetry(r, i, t) \/ \E m : NotHeld(r, i, t, m)
  BY DEF Retry
<1> QED
  BY <1>1, <1>2, <1>3, CutServeRetry, CutNotHeld

LEMMA CutArrive ==
  ASSUME CutInv, TokenInv', NEW r \in Posts, Arrive(r)
  PROVE  CutInv'
<1>1. \A q \in Posts : post'[q] = post[q]
  BY DEF Arrive
<1>2. PICK i, t : ServeRetry(r, i, t) \/ \E m : NotHeld(r, i, t, m)
  BY DEF Arrive
<1> QED
  BY <1>1, <1>2, CutServeRetry, CutNotHeld

LEMMA CutListed ==
  ASSUME CutInv, TokenInv', NEW r \in Posts, Listed(r)
  PROVE  CutInv'
<1>1. \A q \in Posts : post'[q] = post[q]
  BY DEF Listed
<1>2. CASE Reply(r, "mismatch")
  <2>1. WayKept /\ PhaseOn
    BY <1>1, <1>2, ReplyWay
  <2>2. CASE \E schema : conn' = [conn EXCEPT ![post[r].call].schema = schema]
    BY <2>1, <2>2, SchemaSettled, CutSteady
  <2>3. CASE \E cs : Close(cs, "rejected")
    BY <2>1, <2>3, ClosedSettled, CutSteady DEF Close, Whys
  <2> QED
    BY <1>2, <2>2, <2>3 DEF Listed, Exchange, Enter, Reply
<1>3. CASE /\ \E schema \in {"read", "none"} : conn' = [conn EXCEPT ![post[r].call].schema = schema]
           /\ \E writable \in BOOLEAN : Exchange(r, post[r].call, tokens, writable)
  <2>1. Settled /\ LossesFew'
    BY <1>3, SchemaSettled
  <2>2. PICK writable \in BOOLEAN : \E c, index : Exchange(r, c, index, writable)
    BY <1>3
  <2>3. PICK c, index : Exchange(r, c, index, writable)
    BY <2>2
  <2>4. WayKept /\ PhaseOn
    BY <1>1, <2>3, CutExchange
  <2> QED
    BY <2>1, <2>4, CutSteady
<1> QED
  BY <1>2, <1>3 DEF Listed

\* What makes room for a call is neither at work nor owes its host outcomes.
LEMMA CutFirst ==
  ASSUME CutInv, TokenInv', NEW r \in Posts, First(r)
  PROVE  CutInv'
<1>1. phase[r] = "unsent"
  BY DEF First, Unsent
<1>2. PICK i, s, x : post' = [post EXCEPT ![r] = x] /\ (RefuseFirst(r, i, s) \/ OpenCall(r, i, s))
  BY DEF First
<1>3. \A q \in Posts \ {r} : post'[q] = post[q]
  BY <1>2 DEF CutInv, TokenInv, PostFunction
<1>4. CASE RefuseFirst(r, i, s)
  BY <1>1, <1>3, <1>4, ReplyWay, ConnSettled, CutSteady DEF RefuseFirst
<1>5. CASE OpenCall(r, i, s)
  <2>1. PICK p \in Phases \ {"unsent"} : phase' = [phase EXCEPT ![r] = p] /\ UNCHANGED <<answer, told>>
    BY <1>5 DEF OpenCall, Enter, Phases
  <2>2. WayKept /\ PhaseOn /\ phase'[r] # "unsent"
    BY <1>1, <1>3, <2>1, WaitWay DEF CutInv, TokenInv, RefusalInv, WayType
  <2>3. PICK closing : Opened(r, i, closing) /\ \A c \in closing : Evictable(c)
    <3>1. CASE Opened(r, i, {})
      BY <3>1
    <3>2. CASE \E n : Evictable(sessions[i][n]) /\ Opened(r, i, {sessions[i][n]})
      <4>1. PICK c : Evictable(c) /\ Opened(r, i, {c})
        BY <3>2
      <4>2. \A d \in {c} : Evictable(d)
        BY <4>1
      <4> QED
        BY <4>1, <4>2
    <3> QED
      BY <1>5, <3>1, <3>2 DEF OpenCall
  <2> DEFINE after == ClosedOf(closing, "evicted")
             fresh == [NoCall EXCEPT !.state = "open", !.at = i]
  <2>4. \A c \in closing : AtStake(c) = {}
    BY <2>3, AtStakeWhenIdle DEF Evictable
  <2>5. conn' = [c \in Posts |-> IF c = r THEN fresh ELSE after[c]]
    BY <2>3 DEF Opened, ClosedOf
  <2>6. \A c \in Posts \ {r} :
          \/ conn'[c] = conn[c]
          \/ Open(c) /\ conn'[c].state = "closed" /\ conn'[c].why = "evicted" /\ conn'[c].lost = {}
    <3> SUFFICES ASSUME NEW c \in Posts \ {r}
                 PROVE  \/ conn'[c] = conn[c]
                        \/ Open(c) /\ conn'[c].state = "closed" /\ conn'[c].why = "evicted" /\ conn'[c].lost = {}
      OBVIOUS
    <3>1. conn'[c] = after[c]
      BY <2>5
    <3>2. CASE c \in closing /\ Open(c)
      <4>1. AtStake(c) = {}
        BY <2>4, <3>2
      <4>2. after[c] = [conn[c] EXCEPT !.state = "closed", !.why = "evicted", !.lost = {}]
        BY <3>2, <4>1 DEF ClosedOf
      <4>3. conn[c] \in Connection
        BY DEF CutInv, TokenInv, ConnType
      <4> QED
        BY <3>1, <3>2, <4>2, <4>3 DEF Connection
    <3>3. CASE ~(c \in closing /\ Open(c))
      BY <3>1, <3>3 DEF ClosedOf
    <3> QED
      BY <3>2, <3>3
  <2>7. conn'[r].why = "none" /\ conn[r].state = "none"
    BY <1>1, <2>5 DEF NoCall, CutInv, Unopened
  <2>8. LossesFew'
    BY <2>6, <2>7 DEF CutInv, LossesFew
  <2>9. Unopened'
    BY <2>2, <2>6 DEF CutInv, Unopened, PhaseOn, Open
  <2>10. CutOffsEnded'
    <3> SUFFICES ASSUME NEW q \in Posts, CutOff(q)'
                 PROVE  /\ phase'[q] # "unsent"
                        /\ \A c \in Posts : post'[q].call = c =>
                             conn'[c].state = "closed" /\ conn'[c].why \in {"ended", "left"}
      BY DEF CutOffsEnded
    <3>1. CutOff(q) /\ post'[q] = post[q]
      BY <2>2 DEF WayKept
    <3>2. phase'[q] # "unsent"
      BY <2>2, <3>1 DEF CutInv, CutOffsEnded, PhaseOn
    <3>3. \A c \in Posts : post'[q].call = c => conn[c].state = "closed" /\ conn[c].why \in {"ended", "left"}
      BY <3>1 DEF CutInv, CutOffsEnded
    <3>4. \A c \in Posts : conn[c].state = "closed" => c # r /\ conn'[c] = conn[c]
      BY <2>6, <2>7 DEF Open
    <3> QED
      BY <3>2, <3>3, <3>4
  <2> QED
    BY <2>8, <2>9, <2>10 DEF CutInv
<1> QED
  BY <1>2, <1>4, <1>5

\* A request answered that its call was closed finds the call closed.
LEMMA CutEnd ==
  ASSUME CutInv, TokenInv', NEW r \in Posts, Deliver(r) \/ Cancel(r)
  PROVE  CutInv'
<1>1. \A q \in Posts : post'[q] = post[q]
  BY DEF Deliver, Cancel
<1>2. WayKept /\ PhaseOn
  <2>1. CASE Deliver(r)
    BY <1>1, <2>1, ReplyWay DEF Deliver
  <2>2. CASE Cancel(r)
    BY <1>1, <2>2 DEF Cancel, client, WayKept, CutOff, PhaseOn, CutInv, TokenInv, RefusalInv, WayType
  <2> QED
    BY <2>1, <2>2
<1>3. Settled /\ LossesFew'
  <2>1. CASE UNCHANGED conn
    BY <2>1, ConnSettled
  <2>2. CASE \E cs : Close(cs, "concluded") \/ Close(cs, "cancelled")
    BY <2>2, ClosedSettled DEF Close, Whys
  <2> QED
    BY <2>1, <2>2 DEF Deliver, Cancel
<1> QED
  BY <1>2, <1>3, CutSteady

LEMMA CutWay ==
  ASSUME CutInv, TokenInv', NEW r \in Posts, Disconnect(r) \/ Relay(r) \/ NotDelivered(r) \/ BreakOff(r)
  PROVE  CutInv'
<1>1. UNCHANGED <<post, conn>> /\ (phase' = phase \/ phase' = [phase EXCEPT ![r] = "over"])
  BY DEF Disconnect, Relay, NotDelivered, BreakOff
<1>2. answer' = answer \/ answer' = [answer EXCEPT ![r] = "none"]
  BY DEF Disconnect, Relay, NotDelivered, BreakOff
<1>3. told' = told \/ \E what : told' = [told EXCEPT ![r] = what] /\ (what = "closed" => answer[r] = "closed")
  BY DEF Disconnect, Relay, NotDelivered, BreakOff
<1>4. \A q \in Posts : /\ answer'[q] = "closed" => CutOff(q)
                       /\ told'[q] = "closed" => CutOff(q)
  BY <1>2, <1>3 DEF CutOff, CutInv, TokenInv, RefusalInv, WayType
<1>5. WayKept /\ PhaseOn
  BY <1>1, <1>4 DEF WayKept, CutOff, PhaseOn, CutInv, TokenInv, RefusalInv, WayType
<1> QED
  BY <1>1, <1>5, ConnSettled, CutSteady

\* The tool answers a round or a result, and works on in between.
LEMMA CutWork ==
  ASSUME CutInv, TokenInv', NEW c \in Posts,
         ToolRound(c) \/ ToolConcludes(c) \/ Operate(c) \/ ToolConcludesEarly(c)
  PROVE  CutInv'
<1>1. UNCHANGED <<post, phase, told, conn>>
  BY DEF ToolRound, ToolConcludes, Operate, ToolConcludesEarly, ToolAnswers, client
<1>2. answer' = answer \/ \E q : answer' = [answer EXCEPT ![q] = "round"] \/ answer' = [answer EXCEPT ![q] = "result"]
  BY DEF ToolRound, ToolConcludes, Operate, ToolConcludesEarly, ToolAnswers
<1>3. \A q \in Posts : answer'[q] = "closed" => answer[q] = "closed"
  BY <1>2 DEF CutInv, TokenInv, RefusalInv, WayType
<1>4. WayKept /\ PhaseOn
  BY <1>1, <1>3 DEF WayKept, CutOff, PhaseOn
<1> QED
  BY <1>1, <1>4, ConnSettled, CutSteady

\* An idle call loses outcomes at most.
LEMMA CutExpire ==
  ASSUME CutInv, TokenInv', NEW c \in Posts, Expire(c)
  PROVE  CutInv'
<1>1. Close({c}, "expired") /\ ~Running(c) /\ UNCHANGED <<post, phase, answer, told>>
  BY DEF Expire, client
<1>2. \A d \in {c} : AtStake(d) \subseteq {"outcomes"}
  BY <1>1, AtStakeWhenIdle
<1>3. PICK cs : Close(cs, "expired") /\ \A d \in cs : AtStake(d) \subseteq {"outcomes"}
  BY <1>1, <1>2
<1>4. Settled /\ LossesFew'
  BY <1>3, ClosedSettled DEF Close, Whys
<1>5. WayKept /\ PhaseOn
  BY <1>1 DEF WayKept, CutOff, PhaseOn
<1> QED
  BY <1>4, <1>5, CutSteady

\* The end of a tool or of run() is what answers requests in flight that their call was closed.
LEMMA CutEnds ==
  ASSUME CutInv, TokenInv', NEW cs, NEW why \in {"ended", "left"}, Close(cs, why), answer' = WaitersAnswered(cs),
         UNCHANGED <<post, phase, told>>
  PROVE  CutInv'
<1>1. /\ Settled /\ LossesFew'
      /\ \A c \in Posts : c \in cs /\ Open(c) => conn'[c].state = "closed" /\ conn'[c].why = why
  BY ClosedSettled DEF Close, Whys
<1>2. Unopened'
  BY <1>1 DEF CutInv, Unopened, Settled, Open
<1>3. CutOffsEnded'
  <2> SUFFICES ASSUME NEW q \in Posts, CutOff(q)'
               PROVE  /\ phase[q] # "unsent"
                      /\ \A c \in Posts : post[q].call = c =>
                           conn'[c].state = "closed" /\ conn'[c].why \in {"ended", "left"}
    BY DEF CutOffsEnded
  <2>1. CASE CutOff(q)
    BY <1>1, <2>1 DEF CutInv, CutOffsEnded, Settled, Open
  <2>2. CASE ~CutOff(q)
    <3>1. PICK c \in cs : Open(c) /\ q \in InFlight(c)
      BY <2>2 DEF CutOff, WaitersAnswered
    <3>2. post[q].call = c /\ phase[q] # "unsent"
      BY <3>1 DEF InFlight
    <3> QED
      BY <1>1, <3>1, <3>2
  <2> QED
    BY <2>1, <2>2
<1> QED
  BY <1>1, <1>2, <1>3 DEF CutInv

LEMMA CutInit == Init => CutInv
<1> SUFFICES ASSUME Init PROVE CutInv
  OBVIOUS
<1>1. CutOffsEnded
  BY DEF Init, CutOffsEnded, CutOff
<1>2. Unopened /\ LossesFew
  BY DEF Init, Unopened, LossesFew, NoCall
<1> QED
  BY <1>1, <1>2, TokenInit DEF CutInv

LEMMA CutNext == CutInv /\ [Next]_vars => CutInv'
<1> SUFFICES ASSUME CutInv, [Next]_vars PROVE CutInv'
  OBVIOUS
<1>0. TokenInv'
  BY TokenNext DEF CutInv
<1>1. CASE \E r \in Posts : First(r) \/ Retry(r) \/ Arrive(r) \/ Listed(r)
  BY <1>0, <1>1, CutFirst, CutRetry, CutArrive, CutListed
<1>2. CASE \E r \in Posts : Deliver(r) \/ Cancel(r) \/ Disconnect(r) \/ Relay(r) \/ NotDelivered(r) \/ BreakOff(r)
  BY <1>0, <1>2, CutEnd, CutWay
<1>3. CASE \E c \in Posts : ToolRound(c) \/ ToolConcludes(c) \/ Operate(c) \/ ToolConcludesEarly(c)
  BY <1>0, <1>3, CutWork
<1>4. CASE \E c \in Posts : Expire(c)
  BY <1>0, <1>4, CutExpire
<1>5. CASE (\E c \in Posts : ToolEnds(c)) \/ (\E i \in Instances : Leave(i))
  <2>1. PICK why \in {"ended", "left"} : \E cs : Close(cs, why) /\ answer' = WaitersAnswered(cs)
    BY <1>5 DEF ToolEnds, Leave
  <2>2. UNCHANGED <<post, phase, told>>
    BY <1>5 DEF ToolEnds, Leave, client
  <2> QED
    BY <1>0, <2>1, <2>2, CutEnds
<1>6. CASE UNCHANGED vars
  <2>1. UNCHANGED <<post, phase, answer, told, conn>>
    BY <1>6 DEF vars, client
  <2>2. WayKept /\ PhaseOn
    BY <2>1 DEF WayKept, CutOff, PhaseOn
  <2> QED
    BY <1>0, <2>1, <2>2, ConnSettled, CutSteady
<1> QED
  BY <1>1, <1>2, <1>3, <1>4, <1>5, <1>6 DEF Next, Tool

(* Room for a new call costs no outcome and no work, the idle bound costs outcomes at most, and a request is answered *)
(* that its call was closed only when the tool or the instance ended.                                                *)
THEOREM CutsNothingCorrect == Spec => []EntryCutsNothing
<1>1. CutInv => EntryCutsNothing
  BY DEF CutInv, CutOffsEnded, CutOff, LossesFew, EntryCutsNothing
<1> QED
  BY <1>1, CutInit, CutNext, PTL DEF Spec

-----------------------------------------------------------------------------
(* What instances hold: the lines of their calls. *)

\* A line of calls, each once, that holds those of another but cs, and is no longer.
LineFrom(line, other, cs) ==
  /\ line \in Seq(Posts) /\ IsInjective(line)
  /\ Range(line) = Range(other) \ cs
  /\ Len(line) <= Len(other) /\ (Range(other) \cap cs # {} => Len(line) < Len(other))

\* The end of a line.
LEMMA LineEnd ==
  ASSUME NEW line \in Seq(Posts), IsInjective(line), NEW c \in Posts, c \notin Range(line)
  PROVE  /\ Append(line, c) \in Seq(Posts) /\ IsInjective(Append(line, c))
         /\ Range(Append(line, c)) = Range(line) \cup {c} /\ Len(Append(line, c)) = Len(line) + 1
<1> DEFINE t == Append(line, c)
<1>1. /\ t \in Seq(Posts) /\ Len(t) = Len(line) + 1 /\ DOMAIN t = 1..(Len(line) + 1)
      /\ DOMAIN line = 1..Len(line) /\ Len(line) \in Nat
  OBVIOUS
<1>2. t[Len(line) + 1] = c /\ \A n \in 1..Len(line) : t[n] = line[n]
  OBVIOUS
<1>3. Range(t) = Range(line) \cup {c}
  BY <1>1, <1>2 DEF Range
<1>4. IsInjective(t)
  BY <1>1, <1>2 DEF Range, IsInjective
<1> QED
  BY <1>1, <1>3, <1>4

\* A line taken call by call, those of cs left out.
Keeping(kept, c, cs) == IF c \in cs THEN kept ELSE Append(kept, c)
IsKept(f, line, cs, m) == f = [n \in 0..m |-> IF n = 0 THEN <<>> ELSE Keeping(f[n - 1], line[n], cs)]
KeptOf(line, cs) ==
  CHOOSE f : f = [n \in 0..Len(line) |-> IF n = 0 THEN <<>> ELSE Keeping(f[n - 1], line[n], cs)]

LEMMA KeptRuns ==
  ASSUME NEW line, NEW cs, Len(line) \in Nat
  PROVE  IsKept(KeptOf(line, cs), line, cs, Len(line))
<1> DEFINE T == {m \in Nat : \E f : IsKept(f, line, cs, m)}
<1>1. 0 \in T
  <2>1. IsKept([n \in 0..0 |-> <<>>], line, cs, 0)
    BY DEF IsKept
  <2> QED
    BY <2>1
<1>2. ASSUME NEW m \in T PROVE m + 1 \in T
  <2>1. PICK f : IsKept(f, line, cs, m)
    OBVIOUS
  <2> DEFINE g == [n \in 0..(m + 1) |-> IF n = m + 1 THEN Keeping(f[m], line[n], cs) ELSE f[n]]
  <2>2. \A n \in 0..(m + 1) : g[n] = IF n = 0 THEN <<>> ELSE Keeping(g[n - 1], line[n], cs)
    BY <2>1 DEF IsKept
  <2>3. IsKept(g, line, cs, m + 1)
    BY <2>2 DEF IsKept
  <2> QED
    BY <2>3
<1>3. T = Nat
  <2> HIDE DEF T
  <2>1. T \in SUBSET Nat
    BY DEF T
  <2> QED
    BY <1>1, <1>2, <2>1, NaturalInduction
<1>4. \E f : IsKept(f, line, cs, Len(line))
  BY <1>3
<1> QED
  BY <1>4 DEF IsKept, KeptOf

\* What Without leaves of a line.
LEMMA WithoutLine ==
  ASSUME NEW line \in Seq(Posts), IsInjective(line), NEW cs
  PROVE  LineFrom(Without(line, cs), line, cs)
<1> DEFINE f == KeptOf(line, cs)
           Before(n) == {line[m] : m \in 1..n}
           Upto(n) == /\ f[n] \in Seq(Posts) /\ IsInjective(f[n]) /\ Range(f[n]) = Before(n) \ cs
                      /\ Len(f[n]) <= n /\ (Before(n) \cap cs # {} => Len(f[n]) < n)
           T == {n \in 0..Len(line) : Upto(n)}
<1>1. /\ Len(line) \in Nat /\ DOMAIN line = 1..Len(line) /\ Without(line, cs) = f[Len(line)]
      /\ \A n \in 1..Len(line) : line[n] \in Posts
  BY DEF Without, KeptOf, Keeping
<1>2. /\ f[0] = <<>>
      /\ \A n \in 1..Len(line) : f[n] = Keeping(f[n - 1], line[n], cs)
  BY <1>1, KeptRuns DEF IsKept
<1> HIDE DEF f
<1>3. 0 \in T
  <2>1. Before(0) = {}
    OBVIOUS
  <2>2. f[0] \in Seq(Posts) /\ IsInjective(f[0]) /\ Range(f[0]) = {} /\ Len(f[0]) = 0
    BY <1>2 DEF IsInjective, Range
  <2> HIDE DEF Before
  <2> QED
    BY <1>1, <2>1, <2>2
<1>4. ASSUME NEW n \in T, n < Len(line) PROVE n + 1 \in T
  <2>1. PICK k \in 1..Len(line) : k = n + 1
    BY <1>1, <1>4
  <2>2. Upto(n) /\ Before(k) = Before(n) \cup {line[k]} /\ line[k] \notin Before(n) /\ n \in 0..Len(line)
    BY <1>1, <1>4, <2>1 DEF IsInjective
  <2>3. PICK c \in Posts : c = line[k]
    BY <1>1
  <2> HIDE DEF Before
  <2>4. CASE c \in cs
    <3>1. f[k] = f[n]
      BY <1>2, <2>1, <2>3, <2>4 DEF Keeping
    <3> QED
      BY <2>1, <2>2, <2>3, <2>4, <3>1
  <2>5. CASE c \notin cs
    <3>1. PICK g \in Seq(Posts) : g = f[n]
      BY <2>2
    <3>2. f[k] = Append(g, c)
      <4>1. f[k] = Keeping(f[n], c, cs)
        BY <1>2, <2>1, <2>2, <2>3
      <4> QED
        BY <2>5, <3>1, <4>1 DEF Keeping
    <3>3. IsInjective(g) /\ c \notin Range(g) /\ Range(g) = Before(n) \ cs /\ Len(g) <= n /\ (Before(n) \cap cs # {} => Len(g) < n)
      BY <2>2, <2>3, <3>1
    <3>4. /\ Append(g, c) \in Seq(Posts) /\ IsInjective(Append(g, c))
          /\ Range(Append(g, c)) = Range(g) \cup {c} /\ Len(Append(g, c)) = Len(g) + 1
      BY <3>3, LineEnd
    <3>5. Len(g) \in Nat /\ n \in Nat
      BY <2>2
    <3>6. Range(f[k]) = Before(k) \ cs
      BY <2>2, <2>3, <2>5, <3>2, <3>3, <3>4
    <3>7. Len(f[k]) <= k /\ (Before(k) \cap cs # {} => Len(f[k]) < k)
      BY <2>1, <2>2, <2>3, <2>5, <3>2, <3>3, <3>4, <3>5
    <3>8. f[k] \in Seq(Posts) /\ IsInjective(f[k])
      BY <3>2, <3>4
    <3>9. Upto(k)
      BY <3>6, <3>7, <3>8
    <3> QED
      BY <2>1, <3>9
  <2> QED
    BY <2>4, <2>5
<1>5. T = 0..Len(line)
  <2> HIDE DEF T
  <2>1. T \in SUBSET (0..Len(line))
    BY DEF T
  <2> QED
    BY <1>1, <1>3, <1>4, <2>1, BoundedInduction
<1>6. PICK k \in 0..Len(line) : k = Len(line)
  <2>1. Len(line) \in 0..Len(line)
    BY <1>1
  <2> QED
    BY <2>1
<1>7. Upto(k)
  <2>1. k \in T
    BY <1>5
  <2> QED
    BY <2>1
<1>8. Before(k) = Range(line)
  BY <1>1, <1>6 DEF Range
<1> QED
  BY <1>1, <1>6, <1>7, <1>8 DEF LineFrom

\* Using a call puts it last, and keeps all.
LEMMA UsedLine ==
  ASSUME NEW line \in Seq(Posts), IsInjective(line), NEW c
  PROVE  LineFrom(Used(line, c), line, {})
<1>1. Len(line) \in Nat /\ DOMAIN line = 1..Len(line) /\ Range(line) \subseteq Posts
  BY DEF Range
<1>2. CASE c \notin Range(line)
  <2>1. Used(line, c) = line
    BY <1>1, <1>2 DEF Used, Contains, Range
  <2> QED
    BY <1>1, <2>1 DEF LineFrom
<1>3. CASE c \in Range(line)
  <2>1. PICK g : g = Without(line, {c})
    OBVIOUS
  <2>2. LineFrom(g, line, {c})
    BY <2>1, WithoutLine
  <2>3. /\ g \in Seq(Posts) /\ IsInjective(g) /\ Range(g) = Range(line) \ {c} /\ Len(g) < Len(line)
    BY <1>3, <2>2 DEF LineFrom
  <2>4. c \in Posts /\ c \notin Range(g)
    BY <1>1, <1>3, <2>3
  <2>5. /\ Append(g, c) \in Seq(Posts) /\ IsInjective(Append(g, c))
        /\ Range(Append(g, c)) = Range(g) \cup {c} /\ Len(Append(g, c)) = Len(g) + 1
    BY <2>3, <2>4, LineEnd
  <2>6. Used(line, c) = Append(g, c)
    BY <1>1, <1>3, <2>1 DEF Used, Contains, Range
  <2>7. Len(g) \in Nat
    BY <2>3
  <2>8. Range(Append(g, c)) = Range(line) /\ Len(Append(g, c)) <= Len(line)
    BY <1>1, <1>3, <2>3, <2>5, <2>7
  <2> QED
    BY <2>5, <2>6, <2>8 DEF LineFrom
<1> QED
  BY <1>2, <1>3

\* An instance's line is the calls it holds open, no more of them than it may hold, and no two of one session.
HeldLine(i) ==
  /\ sessions[i] \in Seq(Posts) /\ IsInjective(sessions[i]) /\ Len(sessions[i]) <= MaxHeldCalls
  /\ Range(sessions[i]) = {c \in Posts : Open(c) /\ conn[c].at = i}
HeldLines == sessions \in [Instances -> Seq(Posts)] /\ \A i \in Instances : HeldLine(i)
OneSession ==
  \A c, d \in Posts : Open(c) /\ Open(d) /\ conn[c].at = conn[d].at /\ post[c].session = post[d].session => c = d

HeldInv == TokenInv /\ HeldLines /\ OneSession

\* A step's effect on what open calls were opened with: there is none.
CallsKept == \A c \in Posts : Open(c) => post'[c] = post[c]

\* Lines lose the calls that close, and keep the others in some order.
LEMMA HeldStep ==
  ASSUME HeldInv, TokenInv', CallsKept, ConnKept, NEW cs,
         sessions' \in [Instances -> Seq(Posts)], \A i \in Instances : LineFrom(sessions'[i], sessions[i], cs),
         \A c \in Posts : Open(c)' <=> Open(c) /\ c \notin cs
  PROVE  HeldInv'
<1>1. ASSUME NEW i \in Instances PROVE HeldLine(i)'
  <2>1. /\ sessions'[i] \in Seq(Posts) /\ IsInjective(sessions'[i]) /\ Len(sessions'[i]) <= Len(sessions[i])
        /\ Range(sessions'[i]) = Range(sessions[i]) \ cs
    BY DEF LineFrom
  <2>2. /\ sessions[i] \in Seq(Posts) /\ Len(sessions[i]) <= MaxHeldCalls
        /\ Range(sessions[i]) = {c \in Posts : Open(c) /\ conn[c].at = i}
    BY DEF HeldInv, HeldLines, HeldLine
  <2>3. Range(sessions'[i]) = {c \in Posts : Open(c)' /\ conn'[c].at = i}
    BY <2>1, <2>2 DEF ConnKept
  <2>4. Len(sessions'[i]) <= MaxHeldCalls
    <3>1. Len(sessions'[i]) \in Nat /\ Len(sessions[i]) \in Nat
      BY <2>1, <2>2
    <3> QED
      BY <2>1, <2>2, <3>1, EntryAssumption
  <2> QED
    BY <2>1, <2>3, <2>4 DEF HeldLine, Open
<1>2. OneSession'
  BY DEF HeldInv, OneSession, CallsKept, ConnKept
<1> QED
  BY <1>1, <1>2 DEF HeldInv, HeldLines

\* Calls stay open where a step closes none.
LEMMA StillOpen ==
  ASSUME HeldInv, conn' = conn \/ \E c \in Posts : \E schema : conn' = [conn EXCEPT ![c].schema = schema]
  PROVE  \A c \in Posts : Open(c)' <=> Open(c)
BY DEF HeldInv, TokenInv, ConnType, Connection, Open

LEMMA HeldSame ==
  ASSUME HeldInv, TokenInv', CallsKept, ConnKept, \A c \in Posts : Open(c)' <=> Open(c), UNCHANGED sessions
  PROVE  HeldInv'
<1>1. \A i \in Instances : LineFrom(sessions'[i], sessions[i], {})
  <2> SUFFICES ASSUME NEW i \in Instances PROVE LineFrom(sessions[i], sessions[i], {})
    OBVIOUS
  <2>1. sessions[i] \in Seq(Posts) /\ IsInjective(sessions[i])
    BY DEF HeldInv, HeldLines, HeldLine
  <2> QED
    BY <2>1 DEF LineFrom
<1>2. sessions' \in [Instances -> Seq(Posts)]
  BY DEF HeldInv, HeldLines
<1> QED
  BY <1>1, <1>2, HeldStep

\* A call is used at one instance, or wherever it is held.
LEMMA HeldUsed ==
  ASSUME HeldInv, TokenInv', CallsKept, ConnKept, \A c \in Posts : Open(c)' <=> Open(c), NEW c,
         \/ \E i \in Instances : sessions' = [sessions EXCEPT ![i] = Used(@, c)]
         \/ sessions' = [i \in Instances |-> Used(sessions[i], c)]
  PROVE  HeldInv'
<1>1. ASSUME NEW i \in Instances PROVE LineFrom(sessions'[i], sessions[i], {})
  <2>1. sessions[i] \in Seq(Posts) /\ IsInjective(sessions[i])
    BY DEF HeldInv, HeldLines, HeldLine
  <2>2. LineFrom(sessions[i], sessions[i], {})
    BY <2>1 DEF LineFrom
  <2>3. LineFrom(Used(sessions[i], c), sessions[i], {})
    BY <2>1, UsedLine
  <2>4. sessions'[i] \in {sessions[i], Used(sessions[i], c)}
    BY DEF HeldInv, HeldLines
  <2> QED
    BY <2>2, <2>3, <2>4
<1>2. sessions' \in [Instances -> Seq(Posts)]
  BY <1>1 DEF HeldInv, HeldLines, LineFrom
<1>3. PICK cs : cs = {}
  OBVIOUS
<1>4. \A i \in Instances : LineFrom(sessions'[i], sessions[i], cs)
  BY <1>1, <1>3
<1>5. \A d \in Posts : Open(d)' <=> Open(d) /\ d \notin cs
  BY <1>3
<1> QED
  BY <1>2, <1>4, <1>5, HeldStep

\* Closing calls takes them out of every line.
LEMMA HeldWithoutLines ==
  ASSUME HeldInv, NEW cs
  PROVE  /\ HeldWithout(cs) \in [Instances -> Seq(Posts)]
         /\ \A i \in Instances : LineFrom(HeldWithout(cs)[i], sessions[i], cs)
<1>1. ASSUME NEW i \in Instances PROVE LineFrom(Without(sessions[i], cs), sessions[i], cs)
  <2>1. sessions[i] \in Seq(Posts) /\ IsInjective(sessions[i])
    BY DEF HeldInv, HeldLines, HeldLine
  <2> QED
    BY <2>1, WithoutLine
<1> QED
  BY <1>1 DEF HeldWithout, LineFrom

LEMMA ClosedOpen ==
  ASSUME TokenInv, NEW cs, NEW why, NEW c \in Posts
  PROVE  ClosedOf(cs, why)[c].state = "open" <=> Open(c) /\ c \notin cs
BY DEF ClosedOf, Open, TokenInv, ConnType, Connection

LEMMA HeldClosed ==
  ASSUME HeldInv, TokenInv', CallsKept, NEW cs, NEW why \in Whys, Close(cs, why)
  PROVE  HeldInv'
<1>1. ConnKept
  BY CloseKeeps DEF HeldInv
<1>2. \A c \in Posts : Open(c)' <=> Open(c) /\ c \notin cs
  BY ClosedOpen DEF Close, Open, HeldInv
<1> QED
  BY <1>1, <1>2, HeldWithoutLines, HeldStep DEF Close

\* What a POST carries is changed only before its call is held.
LEMMA CallsWritten ==
  ASSUME HeldInv, NEW r \in Posts, phase[r] = "unsent", NEW x, post' = [post EXCEPT ![r] = x]
  PROVE  CallsKept
BY DEF HeldInv, TokenInv, UnsentUnheld, PostFunction, CallsKept

LEMMA CallsAside == UNCHANGED post => CallsKept
BY DEF CallsKept

\* A new call goes to the end of its instance's line, where another leaves it if the line is full.
LEMMA HeldOpened ==
  ASSUME HeldInv, TokenInv', NEW r \in Posts, phase[r] = "unsent", NEW i \in Instances, NEW s, NEW check,
         post' = [post EXCEPT ![r] = Carrying(s, r, 0, "call", check)], OpenCall(r, i, s)
  PROVE  HeldInv'
<1>1. TokenInv /\ ~Open(r) /\ CallsKept
  BY CallsWritten DEF HeldInv, TokenInv, UnsentUnheld
<1>2. \A c \in Range(sessions[i]) : post[c].session # s
  BY DEF OpenCall
<1>3. PICK closing : /\ Opened(r, i, closing)
                     /\ Len(sessions[i]) < MaxHeldCalls \/ Range(sessions[i]) \cap closing # {}
  <2>1. CASE Len(sessions[i]) < MaxHeldCalls
    BY <2>1 DEF OpenCall
  <2>2. CASE ~(Len(sessions[i]) < MaxHeldCalls)
    <3>1. PICK n \in DOMAIN sessions[i] : Opened(r, i, {sessions[i][n]})
      BY <2>2 DEF OpenCall
    <3>2. sessions[i][n] \in Range(sessions[i])
      BY DEF Range
    <3> QED
      BY <3>1, <3>2
  <2> QED
    BY <2>1, <2>2
<1> DEFINE opened == [NoCall EXCEPT !.state = "open", !.at = i]
           lines == HeldWithout(closing)
<1>4. conn' = [d \in Posts |-> IF d = r THEN opened ELSE ClosedOf(closing, "evicted")[d]]
  BY <1>3 DEF Opened, ClosedOf
<1>5. opened.state = "open" /\ opened.at = i
  BY DEF NoCall
<1> HIDE DEF opened
<1>6. ASSUME NEW d \in Posts \ {r}
      PROVE  (Open(d)' <=> Open(d) /\ d \notin closing) /\ conn'[d].at = conn[d].at
  <2>1. "evicted" \in Whys
    BY DEF Whys
  <2>2. conn'[d] = ClosedOf(closing, "evicted")[d]
    BY <1>4
  <2>3. ClosedOf(closing, "evicted")[d].state = "open" <=> Open(d) /\ d \notin closing
    BY <1>1, ClosedOpen
  <2>4. ClosedOf(closing, "evicted")[d].at = conn[d].at
    BY <1>1, <2>1, ClosedCalls
  <2> QED
    BY <2>2, <2>3, <2>4 DEF Open
<1>7. Open(r)' /\ conn'[r].at = i
  BY <1>4, <1>5 DEF Open
<1>8. /\ lines \in [Instances -> Seq(Posts)]
      /\ \A j \in Instances : LineFrom(lines[j], sessions[j], closing)
  BY HeldWithoutLines
<1>9. sessions' = [lines EXCEPT ![i] = Append(@, r)]
  BY <1>3 DEF Opened
<1> HIDE DEF lines
<1>10. ASSUME NEW j \in Instances
       PROVE  /\ lines[j] \in Seq(Posts) /\ IsInjective(lines[j]) /\ r \notin Range(lines[j])
              /\ Range(lines[j]) = {d \in Posts : d # r /\ Open(d)' /\ conn'[d].at = j}
              /\ Len(lines[j]) <= Len(sessions[j]) /\ Len(sessions[j]) <= MaxHeldCalls
              /\ (Range(sessions[j]) \cap closing # {} => Len(lines[j]) < Len(sessions[j]))
              /\ Len(sessions[j]) \in Nat /\ Len(lines[j]) \in Nat
  <2>1. /\ sessions[j] \in Seq(Posts) /\ Len(sessions[j]) <= MaxHeldCalls
        /\ Range(sessions[j]) = {d \in Posts : Open(d) /\ conn[d].at = j}
    BY DEF HeldInv, HeldLines, HeldLine
  <2>2. /\ lines[j] \in Seq(Posts) /\ IsInjective(lines[j]) /\ Range(lines[j]) = Range(sessions[j]) \ closing
        /\ Len(lines[j]) <= Len(sessions[j]) /\ (Range(sessions[j]) \cap closing # {} => Len(lines[j]) < Len(sessions[j]))
    BY <1>8 DEF LineFrom
  <2>3. Range(lines[j]) = {d \in Posts : d # r /\ Open(d)' /\ conn'[d].at = j}
    BY <1>1, <1>6, <2>1, <2>2
  <2> QED
    BY <2>1, <2>2, <2>3
<1>11. ASSUME NEW j \in Instances PROVE HeldLine(j)'
  <2>1. CASE j # i
    <3>1. sessions'[j] = lines[j]
      BY <1>8, <1>9, <2>1
    <3>2. Len(lines[j]) <= MaxHeldCalls
      BY <1>10, EntryAssumption
    <3>3. Range(lines[j]) = {d \in Posts : Open(d)' /\ conn'[d].at = j}
      BY <1>7, <1>10, <2>1
    <3> QED
      BY <1>10, <3>1, <3>2, <3>3 DEF HeldLine, Open
  <2>2. CASE j = i
    <3>1. PICK line \in Seq(Posts) : line = lines[i]
      BY <1>10
    <3>2. sessions'[i] = Append(line, r)
      BY <1>8, <1>9, <3>1
    <3>3. IsInjective(line) /\ r \notin Range(line)
      BY <1>10, <3>1
    <3>4. /\ Append(line, r) \in Seq(Posts) /\ IsInjective(Append(line, r))
          /\ Range(Append(line, r)) = Range(line) \cup {r} /\ Len(Append(line, r)) = Len(line) + 1
      BY <3>3, LineEnd
    <3>5. Len(line) + 1 <= MaxHeldCalls
      BY <1>3, <1>10, <3>1, EntryAssumption
    <3>6. Range(line) \cup {r} = {d \in Posts : Open(d)' /\ conn'[d].at = i}
      BY <1>7, <1>10, <3>1
    <3> QED
      BY <2>2, <3>2, <3>4, <3>5, <3>6 DEF HeldLine, Open
  <2> QED
    BY <2>1, <2>2
<1>12. sessions' \in [Instances -> Seq(Posts)]
  BY <1>8, <1>9, <1>11 DEF HeldLine
<1>13. OneSession'
  <2>1. post'[r].session = s /\ \A d \in Posts \ {r} : post'[d] = post[d]
    <3>1. PICK x : x = Carrying(s, r, 0, "call", check)
      OBVIOUS
    <3>2. post' = [post EXCEPT ![r] = x]
      BY <3>1
    <3>3. post'[r] = x /\ \A d \in Posts \ {r} : post'[d] = post[d]
      BY <1>1, <3>2, PostWritten
    <3> QED
      BY <3>1, <3>3 DEF Carrying
  <2>2. ASSUME NEW d \in Posts \ {r}, Open(d)', conn'[d].at = i PROVE post'[d].session # s
    <3>1. Open(d) /\ conn[d].at = i
      BY <1>6, <2>2
    <3>2. d \in Range(sessions[i])
      BY <3>1 DEF HeldInv, HeldLines, HeldLine
    <3> QED
      BY <1>2, <2>1, <3>2
  <2> SUFFICES ASSUME NEW c \in Posts, NEW d \in Posts, Open(c)', Open(d)', conn'[c].at = conn'[d].at,
                      post'[c].session = post'[d].session
               PROVE  c = d
    BY DEF OneSession, Open
  <2>3. CASE c = r \/ d = r
    BY <1>7, <2>1, <2>2, <2>3
  <2>4. CASE c # r /\ d # r
    BY <1>6, <2>1, <2>4 DEF HeldInv, OneSession
  <2> QED
    BY <2>3, <2>4
<1> QED
  BY <1>11, <1>12, <1>13 DEF HeldInv, HeldLines

LEMMA HeldServeRetry ==
  ASSUME HeldInv, TokenInv', CallsKept, NEW r, NEW i \in Instances, NEW t, ServeRetry(r, i, t)
  PROVE  HeldInv'
<1>1. UNCHANGED conn /\ ConnKept
  BY ConnStays DEF ServeRetry, HeldInv
<1>2. \A c \in Posts : Open(c)' <=> Open(c)
  BY <1>1, StillOpen
<1>3. CASE UNCHANGED sessions
  BY <1>1, <1>2, <1>3, HeldSame
<1>4. CASE sessions' = [sessions EXCEPT ![i] = Used(@, t[1])]
  BY <1>1, <1>2, <1>4, HeldUsed
<1> QED
  BY <1>3, <1>4 DEF ServeRetry, registry

LEMMA HeldAside ==
  ASSUME HeldInv, TokenInv', CallsKept, UNCHANGED <<sessions, conn>>
  PROVE  HeldInv'
<1>1. ConnKept
  BY ConnStays DEF HeldInv
<1>2. \A c \in Posts : Open(c)' <=> Open(c)
  BY StillOpen
<1> QED
  BY <1>1, <1>2, HeldSame

LEMMA HeldFirst ==
  ASSUME HeldInv, TokenInv', NEW r \in Posts, First(r)
  PROVE  HeldInv'
<1>1. phase[r] = "unsent"
  BY DEF First, Unsent
<1>2. PICK i \in Instances \ down, s \in Sessions, check \in Checks :
        \/ post' = [post EXCEPT ![r] = Carrying(s, NoPost, 0, "call", check)] /\ RefuseFirst(r, i, s)
        \/ post' = [post EXCEPT ![r] = Carrying(s, r, 0, "call", check)] /\ OpenCall(r, i, s)
  BY DEF First
<1>3. CASE post' = [post EXCEPT ![r] = Carrying(s, NoPost, 0, "call", check)] /\ RefuseFirst(r, i, s)
  BY <1>1, <1>3, CallsWritten, HeldAside DEF RefuseFirst, registry
<1>4. CASE post' = [post EXCEPT ![r] = Carrying(s, r, 0, "call", check)] /\ OpenCall(r, i, s)
  BY <1>1, <1>4, HeldOpened
<1> QED
  BY <1>2, <1>3, <1>4

LEMMA HeldRetry ==
  ASSUME HeldInv, TokenInv', NEW r \in Posts, Retry(r)
  PROVE  HeldInv'
<1>1. phase[r] = "unsent"
  BY DEF Retry, Unsent
<1>2. PICK i, t :
        /\ i \in Instances
        /\ \E x : post' = [post EXCEPT ![r] = x]
        /\ ServeRetry(r, i, t) \/ \E mayForward : NotHeld(r, i, t, mayForward)
  BY DEF Retry
<1>3. CallsKept
  BY <1>1, <1>2, CallsWritten
<1>4. CASE ServeRetry(r, i, t)
  BY <1>2, <1>3, <1>4, HeldServeRetry
<1>5. CASE \E mayForward : NotHeld(r, i, t, mayForward)
  BY <1>3, <1>5, HeldAside DEF NotHeld, registry
<1> QED
  BY <1>2, <1>4, <1>5

LEMMA HeldArrive ==
  ASSUME HeldInv, TokenInv', NEW r \in Posts, Arrive(r)
  PROVE  HeldInv'
<1>1. PICK i, t : i \in Instances /\ (ServeRetry(r, i, t) \/ NotHeld(r, i, t, FALSE))
  BY DEF Arrive
<1>2. CallsKept
  BY CallsAside DEF Arrive
<1>3. CASE ServeRetry(r, i, t)
  BY <1>1, <1>2, <1>3, HeldServeRetry
<1>4. CASE NotHeld(r, i, t, FALSE)
  BY <1>2, <1>4, HeldAside DEF NotHeld, registry
<1> QED
  BY <1>1, <1>3, <1>4

LEMMA HeldListed ==
  ASSUME HeldInv, TokenInv', NEW r \in Posts, Listed(r)
  PROVE  HeldInv'
<1> DEFINE c == post[r].call
<1>1. CallsKept
  BY CallsAside DEF Listed
<1>2. CASE Close({c}, "rejected")
  <2>1. "rejected" \in Whys
    BY DEF Whys
  <2> QED
    BY <1>1, <1>2, <2>1, HeldClosed
<1>3. ASSUME NEW schema \in {"read", "none"}, conn' = [conn EXCEPT ![c].schema = schema],
             sessions' = sessions \/ sessions' = [i \in Instances |-> Used(sessions[i], c)]
      PROVE  HeldInv'
  <2>1. ConnKept
    BY <1>3, SchemaRead DEF HeldInv
  <2>2. \A d \in Posts : Open(d)' <=> Open(d)
    BY <1>3 DEF HeldInv, TokenInv, ConnType, Connection, Open
  <2>3. CASE sessions' = sessions
    BY <1>1, <2>1, <2>2, <2>3, HeldSame
  <2>4. CASE sessions' = [i \in Instances |-> Used(sessions[i], c)]
    BY <1>1, <2>1, <2>2, <2>4, HeldUsed
  <2> QED
    BY <1>3, <2>3, <2>4
<1> QED
  BY <1>2, <1>3 DEF Listed

\* Steps that close calls, or leave them.
LEMMA HeldClose ==
  ASSUME HeldInv, TokenInv', UNCHANGED post, NEW why \in Whys, \E cs : Close(cs, why)
  PROVE  HeldInv'
BY HeldClosed, CallsAside

LEMMA HeldEnd ==
  ASSUME HeldInv, TokenInv', \/ \E r \in Posts : Deliver(r) \/ Cancel(r)
                             \/ \E c \in Posts : ToolEnds(c) \/ Expire(c)
                             \/ \E i \in Instances : Leave(i)
  PROVE  HeldInv'
<1>1. UNCHANGED post
  BY DEF Deliver, Cancel, ToolEnds, Expire, Leave
<1>2. CASE UNCHANGED <<sessions, conn>>
  BY <1>1, <1>2, CallsAside, HeldAside
<1>3. CASE \E why \in {"concluded", "cancelled", "ended", "expired", "left"} : \E cs : Close(cs, why)
  <2>1. PICK why \in {"concluded", "cancelled", "ended", "expired", "left"} : \E cs : Close(cs, why)
    BY <1>3
  <2>2. why \in Whys
    BY DEF Whys
  <2> QED
    BY <1>1, <2>1, <2>2, HeldClose
<1> QED
  BY <1>2, <1>3 DEF Deliver, Cancel, ToolEnds, Expire, Leave, registry

LEMMA HeldOthers ==
  ASSUME HeldInv, TokenInv',
         \/ \E r \in Posts : Disconnect(r) \/ Relay(r) \/ NotDelivered(r) \/ BreakOff(r)
         \/ \E c \in Posts : Tool(c) \/ ToolConcludesEarly(c)
         \/ UNCHANGED vars
  PROVE  HeldInv'
<1>1. UNCHANGED <<post, sessions, conn>>
  <2>1. CASE \E r \in Posts : Disconnect(r) \/ Relay(r) \/ NotDelivered(r) \/ BreakOff(r)
    BY <2>1 DEF Disconnect, Relay, NotDelivered, BreakOff, registry
  <2>2. CASE \E c \in Posts : Tool(c) \/ ToolConcludesEarly(c)
    BY <2>2 DEF Tool, ToolRound, ToolConcludes, ToolAnswers, Operate, ToolConcludesEarly, registry
  <2>3. CASE UNCHANGED vars
    BY <2>3 DEF vars, registry
  <2> QED
    BY <2>1, <2>2, <2>3
<1> QED
  BY <1>1, CallsAside, HeldAside

LEMMA HeldInit == Init => HeldInv
<1> SUFFICES ASSUME Init PROVE HeldInv
  OBVIOUS
<1>1. \A c \in Posts : ~Open(c)
  BY DEF Init, Open, NoCall
<1>2. <<>> \in Seq(Posts) /\ IsInjective(<<>>) /\ Len(<<>>) = 0 /\ Range(<<>>) = {}
  BY DEF IsInjective, Range
<1>3. sessions = [i \in Instances |-> <<>>]
  BY DEF Init
<1>4. HeldLines
  BY <1>1, <1>2, <1>3, EntryAssumption DEF HeldLines, HeldLine
<1> QED
  BY <1>1, <1>4, TokenInit DEF HeldInv, OneSession

LEMMA HeldNext == HeldInv /\ [Next]_vars => HeldInv'
<1> SUFFICES ASSUME HeldInv, [Next]_vars PROVE HeldInv'
  OBVIOUS
<1>0. TokenInv'
  BY TokenNext DEF HeldInv
<1>1. CASE \E r \in Posts : First(r) \/ Retry(r) \/ Arrive(r) \/ Listed(r)
  BY <1>0, <1>1, HeldFirst, HeldRetry, HeldArrive, HeldListed
<1>2. CASE \/ \E r \in Posts : Deliver(r) \/ Cancel(r)
           \/ \E c \in Posts : ToolEnds(c) \/ Expire(c)
           \/ \E i \in Instances : Leave(i)
  BY <1>0, <1>2, HeldEnd
<1>3. CASE \/ \E r \in Posts : Disconnect(r) \/ Relay(r) \/ NotDelivered(r) \/ BreakOff(r)
           \/ \E c \in Posts : Tool(c) \/ ToolConcludesEarly(c)
           \/ UNCHANGED vars
  BY <1>0, <1>3, HeldOthers
<1> QED
  BY <1>1, <1>2, <1>3 DEF Next

-----------------------------------------------------------------------------
(* Which rounds tokens, retries and requests are of: the newest. *)

\* A request that was let through: it is entered, or checked against a listing.
Engaged(r) == r \in served \/ phase[r] = "listing"
\* It is of its call's newest round; only the call's first request is of none.
OfNewest(r) ==
  post[r].call \in Posts /\ post[r].round = RoundsOf(post[r].call) /\ (post[r].round = 0 => post[r].call = r)

TokensNewest == \A i \in Instances : \A t \in tokens[i] : Open(t[1]) /\ t[2] = RoundsOf(t[1])
FirstIsCall == \A r \in Posts : Engaged(r) /\ post[r].round = 0 => post[r].call = r
ListingNewest == \A r \in Posts : phase[r] = "listing" /\ Open(post[r].call) => OfNewest(r)
\* The request the tool is asked, of an open call, is one of that call's newest round.
Asked(q, c) == q \in served /\ post[q].call = c /\ OfNewest(q)
RequestNewest == \A c \in Posts : Open(c) /\ seam[c].request # NoPost => Asked(seam[c].request, c)

NewestInv == TokenInv /\ TokensNewest /\ FirstIsCall /\ ListingNewest /\ RequestNewest

\* A step's effect on tokens: those there are now belong to open calls, and new ones to newest rounds.
TokensGo == \A i \in Instances : \A t \in tokens'[i] : Open(t[1])' /\ (t \in tokens[i] \/ t[2] = RoundsOf(t[1]))
\* Its effect on requests: those let through before stay as they are, and those let through are of newest rounds.
EngagedGo ==
  /\ served \subseteq served' /\ \A q \in served : post'[q] = post[q]
  /\ \A q \in Posts : Engaged(q)' => (Engaged(q) /\ post'[q] = post[q]) \/ OfNewest(q)'
  /\ \A q \in Posts : phase'[q] = "listing" =>
       \/ phase[q] = "listing" /\ post'[q] = post[q] /\ (Open(post[q].call)' => Open(post[q].call))
       \/ OfNewest(q)'
\* Its effect on what the tool is asked.
AskedGo ==
  \A c \in Posts : Open(c)' /\ seam'[c].request # NoPost =>
    \/ Open(c) /\ seam'[c].request = seam[c].request
    \/ seam'[c].request \in served' /\ post'[seam'[c].request].call = c /\ OfNewest(seam[c].request)'

LEMMA NewestStep ==
  ASSUME NewestInv, TokenInv', \A c \in Posts : RoundsOf(c)' = RoundsOf(c), TokensGo, EngagedGo, AskedGo
  PROVE  NewestInv'
<1>1. ASSUME NEW q \in Posts, post'[q] = post[q], OfNewest(q)
      PROVE  OfNewest(q)'
  BY <1>1 DEF OfNewest
<1>2. TokensNewest'
  <2> SUFFICES ASSUME NEW i \in Instances, NEW t \in tokens'[i]
               PROVE  Open(t[1])' /\ t[2] = RoundsOf(t[1])'
    BY DEF TokensNewest
  <2>1. Open(t[1])' /\ (t \in tokens[i] \/ t[2] = RoundsOf(t[1]))
    BY DEF TokensGo
  <2>2. t[1] \in Posts
    BY DEF TokenInv, TokensType
  <2>3. t[2] = RoundsOf(t[1])
    BY <2>1 DEF NewestInv, TokensNewest
  <2> QED
    BY <2>1, <2>2, <2>3
<1>3. FirstIsCall'
  BY DEF NewestInv, FirstIsCall, EngagedGo, OfNewest
<1>4. ListingNewest'
  <2> SUFFICES ASSUME NEW q \in Posts, phase'[q] = "listing", Open(post[q].call)'
               PROVE  OfNewest(q)'
    BY DEF ListingNewest
  <2>1. CASE phase[q] = "listing" /\ post'[q] = post[q] /\ (Open(post[q].call)' => Open(post[q].call))
    BY <1>1, <2>1 DEF NewestInv, ListingNewest, Open
  <2> QED
    BY <2>1 DEF EngagedGo
<1>5. RequestNewest'
  <2> SUFFICES ASSUME NEW c \in Posts, Open(c)', seam'[c].request # NoPost
               PROVE  Asked(seam[c].request, c)'
    BY DEF RequestNewest
  <2>1. PICK q \in Posts : q = seam'[c].request
    BY DEF TokenInv, SeamType, SeamState
  <2>2. CASE Open(c) /\ q = seam[c].request
    <3>1. q \in served /\ post[q].call = c /\ OfNewest(q)
      BY <2>1, <2>2 DEF NewestInv, RequestNewest, Asked
    <3> QED
      BY <1>1, <2>1, <3>1 DEF EngagedGo, Asked
  <2>3. CASE q \in served' /\ post'[q].call = c /\ OfNewest(seam[c].request)'
    BY <2>1, <2>3 DEF Asked
  <2> QED
    BY <2>1, <2>2, <2>3 DEF AskedGo
<1> QED
  BY <1>2, <1>3, <1>4, <1>5 DEF NewestInv

\* A request that was let through has a call, and one that is listing is not served.
LEMMA EngagedCall ==
  ASSUME NewestInv, NEW q \in Posts, Engaged(q)
  PROVE  post[q].call \in Posts /\ (phase[q] = "listing" => q \notin served)
BY DEF NewestInv, FirstIsCall, TokenInv, ClaimsMade, Claims, IsRetry, Engaged, RefusalInv, EarlyUnserved, Early

\* Steps that let no request through.
LEMMA NewestQuiet ==
  ASSUME NewestInv, TokenInv', ConnKept, SeamKept, TokensGo, served' = served, \A q \in served : post'[q] = post[q],
         \A q \in Posts : phase'[q] = "listing" => phase[q] = "listing" /\ post'[q] = post[q],
         \A c \in Posts : Open(c)' => seam'[c].request \in {NoPost, seam[c].request}
  PROVE  NewestInv'
<1>1. EngagedGo
  <2>1. \A q \in Posts : Engaged(q)' => Engaged(q) /\ post'[q] = post[q]
    BY DEF Engaged
  <2>2. ASSUME NEW q \in Posts, phase'[q] = "listing"
        PROVE  phase[q] = "listing" /\ post'[q] = post[q] /\ (Open(post[q].call)' => Open(post[q].call))
    <3>1. PICK c \in Posts : c = post[q].call
      BY <2>2, EngagedCall DEF Engaged
    <3>2. phase[q] = "listing" /\ post'[q] = post[q]
      BY <2>2
    <3>3. Open(c)' => Open(c)
      BY DEF ConnKept
    <3> QED
      BY <3>1, <3>2, <3>3 DEF Open
  <2> QED
    BY <2>1, <2>2 DEF EngagedGo
<1>2. AskedGo
  BY DEF AskedGo, ConnKept
<1> QED
  BY <1>1, <1>2, NewestStep DEF SeamKept

LEMMA NewestReplied ==
  ASSUME NewestInv, TokenInv', ConnKept, SeamKept, TokensGo, served' = served,
         NEW r \in Posts, NEW p, p # "listing", phase' = [phase EXCEPT ![r] = p],
         \A q \in Posts \ {r} : post'[q] = post[q], r \notin served \/ post'[r] = post[r],
         \A c \in Posts : Open(c)' => seam'[c].request \in {NoPost, seam[c].request}
  PROVE  NewestInv'
<1>1. served \subseteq Posts /\ phase \in [Posts -> Phases]
  BY DEF NewestInv, TokenInv, RefusalInv, WayType
<1>2. \A q \in served : post'[q] = post[q]
  BY <1>1
<1>3. \A q \in Posts : phase'[q] = "listing" => phase[q] = "listing" /\ post'[q] = post[q]
  BY <1>1
<1> QED
  BY <1>2, <1>3, NewestQuiet

\* Steps that let a request through, of a newest round.
LEMMA NewestEngaged ==
  ASSUME NewestInv, TokenInv', ConnKept, SeamKept, TokensGo, NEW r \in Posts, r \notin served,
         \A q \in Posts \ {r} : post'[q] = post[q], OfNewest(r)',
         \/ phase' = [phase EXCEPT ![r] = "listing"] /\ served' = served /\ seam' = seam
         \/ Enter(r) /\ \E c : c = post'[r].call /\ seam' = [seam EXCEPT ![c].request = r]
  PROVE  NewestInv'
<1>1. served \subseteq Posts /\ phase \in [Posts -> Phases]
  BY DEF NewestInv, TokenInv, RefusalInv, WayType
<1>2. EngagedGo
  <2>1. served \subseteq served' /\ \A q \in served : post'[q] = post[q]
    BY <1>1 DEF Enter
  <2>2. \A q \in Posts : q # r => (Engaged(q)' => Engaged(q)) /\ (phase'[q] = "listing" => phase[q] = "listing")
    BY <1>1 DEF Enter, Engaged
  <2>3. ASSUME NEW q \in Posts, q # r, phase'[q] = "listing"
        PROVE  phase[q] = "listing" /\ post'[q] = post[q] /\ (Open(post[q].call)' => Open(post[q].call))
    <3>1. PICK c \in Posts : c = post[q].call
      BY <2>2, <2>3, EngagedCall DEF Engaged
    <3>2. phase[q] = "listing" /\ post'[q] = post[q]
      BY <2>2, <2>3
    <3>3. Open(c)' => Open(c)
      BY DEF ConnKept
    <3> QED
      BY <3>1, <3>2, <3>3 DEF Open
  <2>4. \A q \in Posts : q # r => post'[q] = post[q]
    OBVIOUS
  <2> QED
    BY <2>1, <2>2, <2>3, <2>4 DEF EngagedGo
<1>3. AskedGo
  <2>1. CASE seam' = seam
    BY <2>1 DEF AskedGo, ConnKept
  <2>2. CASE Enter(r) /\ \E c : c = post'[r].call /\ seam' = [seam EXCEPT ![c].request = r]
    <3> SUFFICES ASSUME NEW c \in Posts, Open(c)', seam'[c].request # NoPost
                 PROVE  \/ Open(c) /\ seam'[c].request = seam[c].request
                        \/ seam'[c].request \in served' /\ post'[seam'[c].request].call = c /\ OfNewest(seam[c].request)'
      BY DEF AskedGo
    <3>1. Open(c)
      BY DEF ConnKept
    <3>2. seam \in [Posts -> SeamState] /\ seam[c] \in SeamState
      BY DEF NewestInv, TokenInv, SeamType
    <3>3. CASE c = post'[r].call
      <4>1. seam'[c].request = r
        BY <2>2, <3>2, <3>3 DEF SeamState
      <4>2. r \in served'
        BY <2>2 DEF Enter
      <4>3. OfNewest(seam[c].request)'
        BY <4>1 DEF OfNewest
      <4> QED
        BY <3>3, <4>1, <4>2, <4>3
    <3>4. CASE c # post'[r].call
      BY <2>2, <3>1, <3>2, <3>4
    <3> QED
      BY <3>3, <3>4
  <2> QED
    BY <2>1, <2>2
<1> QED
  BY <1>2, <1>3, NewestStep DEF SeamKept

\* Tokens are not given to calls that close.
LEMMA FewerGo ==
  ASSUME NewestInv, \A i \in Instances : tokens'[i] \subseteq tokens[i], \A c \in Posts : Open(c) => Open(c)'
  PROVE  TokensGo
<1> SUFFICES ASSUME NEW i \in Instances, NEW t \in tokens'[i] PROVE Open(t[1])' /\ t \in tokens[i]
  BY DEF TokensGo
<1>1. t \in tokens[i]
  OBVIOUS
<1>2. t[1] \in Posts /\ Open(t[1])
  BY <1>1, TokenOfBegun DEF NewestInv, TokensNewest
<1>3. PICK c \in Posts : c = t[1]
  BY <1>2
<1> QED
  BY <1>1, <1>2, <1>3 DEF Open

LEMMA ClosedGo ==
  ASSUME NewestInv, NEW cs, NEW why, conn' = ClosedOf(cs, why), tokens' = TokensWithout(cs)
  PROVE  TokensGo
<1> SUFFICES ASSUME NEW i \in Instances, NEW t \in tokens'[i] PROVE Open(t[1])' /\ t \in tokens[i]
  BY DEF TokensGo
<1>1. t \in tokens[i] /\ t[1] \notin cs
  BY DEF TokensWithout
<1>2. t[1] \in Posts /\ Open(t[1])
  BY <1>1, TokenOfBegun DEF NewestInv, TokensNewest
<1>3. PICK c \in Posts : c = t[1]
  BY <1>2
<1>4. Open(c)'
  BY <1>1, <1>2, <1>3, ClosedOpen DEF Open, NewestInv
<1> QED
  BY <1>1, <1>3, <1>4 DEF Open

LEMMA RestoredGo ==
  ASSUME NewestInv, TokenInv', SeamKept, NEW r \in Posts, NEW index, index \in [Instances -> SUBSET (Posts \X Nat)],
         \A i \in Instances : index[i] \subseteq tokens[i], tokens' = Restored(r, index),
         \A c \in Posts : Open(c) => Open(c)', post'[r].call \in Posts,
         Open(post'[r].call) => OfNewest(r)'
  PROVE  TokensGo
<1> SUFFICES ASSUME NEW i \in Instances, NEW t \in tokens'[i]
             PROVE  Open(t[1])' /\ (t \in tokens[i] \/ t[2] = RoundsOf(t[1]))
  BY DEF TokensGo
<1>1. PICK c \in Posts : c = post'[r].call
  OBVIOUS
<1>2. CASE t \in tokens[i]
  <2>1. t[1] \in Posts /\ Open(t[1])
    BY <1>2, TokenOfBegun DEF NewestInv, TokensNewest
  <2>2. PICK d \in Posts : d = t[1]
    BY <2>1
  <2> QED
    BY <1>2, <2>1, <2>2 DEF Open
<1>3. CASE t \notin tokens[i]
  <2>1. Open(c) /\ t = <<c, post'[r].round>>
    BY <1>1, <1>3 DEF Restored
  <2>2. post'[r].round = RoundsOf(c)' /\ RoundsOf(c)' = RoundsOf(c)
    BY <1>1, <2>1 DEF OfNewest, SeamKept, RoundsOf
  <2>3. Open(c)'
    BY <2>1
  <2> QED
    BY <2>1, <2>2, <2>3 DEF Open
<1> QED
  BY <1>2, <1>3

LEMMA NewestServeRetry ==
  ASSUME NewestInv, TokenInv', NEW r \in Posts, NEW i \in Instances, NEW t \in tokens[i],
         phase[r] \in {"unsent", "forwarding"}, post'[r].call = t[1], post'[r].round = t[2],
         \A q \in Posts \ {r} : post'[q] = post[q], ServeRetry(r, i, t)
  PROVE  NewestInv'
<1>1. TokenInv /\ r \notin served
  BY DEF NewestInv, TokenInv, RefusalInv, EarlyUnserved, Early
<1>2. UNCHANGED conn /\ ConnKept
  BY <1>1, ConnStays DEF ServeRetry
<1>3. \A c \in Posts : Open(c) => Open(c)'
  BY <1>2 DEF Open
<1>4. t[1] \in Posts /\ t[2] \in 1..RoundsOf(t[1]) /\ t[2] = RoundsOf(t[1]) /\ RoundsOf(t[1]) \in Nat
  BY <1>1, TokenOfBegun, RoundsCount DEF NewestInv, TokensNewest, TokenInv
<1>5. ASSUME SeamKept PROVE OfNewest(r)'
  <2>1. PICK c \in Posts : c = t[1]
    BY <1>4
  <2>2. RoundsOf(c)' = RoundsOf(c)
    BY <1>5 DEF SeamKept
  <2> QED
    BY <1>4, <2>1, <2>2 DEF OfNewest, RoundsOf
<1>6. /\ Consumed(i, t) \in [Instances -> SUBSET (Posts \X Nat)]
      /\ \A j \in Instances : Consumed(i, t)[j] \subseteq tokens[j]
  BY <1>1 DEF Consumed, TokenInv, TokensType
<1>7. CASE \E what : Reply(r, what) /\ UNCHANGED <<tokens, conn, seam, served>>
  <2>1. PICK p \in Phases : p # "listing" /\ phase' = [phase EXCEPT ![r] = p]
    BY <1>7, ReplyPhase
  <2>2. SeamKept /\ TokensGo
    BY <1>1, <1>3, <1>7, SeamStays, FewerGo
  <2> QED
    BY <1>1, <1>2, <1>7, <2>1, <2>2, NewestReplied
<1>8. CASE /\ phase' = [phase EXCEPT ![r] = "listing"] /\ tokens' = Consumed(i, t)
           /\ UNCHANGED <<conn, seam, served>>
  <2>1. SeamKept /\ TokensGo
    BY <1>1, <1>3, <1>6, <1>8, SeamStays, FewerGo
  <2> QED
    BY <1>1, <1>2, <1>5, <1>8, <2>1, NewestEngaged
<1>9. ASSUME NEW what, Reply(r, what), tokens' = Restored(r, Consumed(i, t)), UNCHANGED <<conn, seam, served>>
      PROVE  NewestInv'
  <2>1. PICK p \in Phases : p # "listing" /\ phase' = [phase EXCEPT ![r] = p]
    BY <1>9, ReplyPhase
  <2>2. SeamKept
    BY <1>1, <1>9, SeamStays
  <2>3. PICK index : index = Consumed(i, t)
    OBVIOUS
  <2>4. TokensGo
    BY <1>3, <1>4, <1>5, <1>6, <1>9, <2>2, <2>3, RestoredGo
  <2> QED
    BY <1>1, <1>2, <1>9, <2>1, <2>2, <2>4, NewestReplied
<1>10. CASE \E writable \in BOOLEAN : Exchange(r, t[1], Consumed(i, t), writable)
  <2>1. CASE Enter(r) /\ tokens' = Consumed(i, t) /\ seam' = [seam EXCEPT ![t[1]].request = r]
    <3>1. PICK c : c = t[1]
      OBVIOUS
    <3>2. seam' = [seam EXCEPT ![c].request = r]
      BY <2>1, <3>1
    <3>3. SeamKept
      BY <1>1, <3>2, SeamAsked
    <3>4. TokensGo
      BY <1>3, <1>6, <2>1, FewerGo
    <3> QED
      BY <1>1, <1>2, <1>5, <2>1, <3>1, <3>2, <3>3, <3>4, NewestEngaged
  <2>2. CASE Reply(r, "refused") /\ tokens' = Restored(r, Consumed(i, t)) /\ UNCHANGED <<seam, served>>
    BY <1>2, <1>9, <2>2
  <2> QED
    BY <1>10, <2>1, <2>2 DEF Exchange
<1> QED
  BY <1>7, <1>8, <1>9, <1>10 DEF ServeRetry, registry

LEMMA NewestAside ==
  ASSUME NewestInv, TokenInv', UNCHANGED <<tokens, conn, served>>, SeamKept,
         \A c \in Posts : Open(c)' => seam'[c].request \in {NoPost, seam[c].request},
         \/ UNCHANGED <<phase, post>>
         \/ \E r \in Posts : \E p : /\ p # "listing" /\ phase' = [phase EXCEPT ![r] = p]
                                    /\ \A q \in Posts \ {r} : post'[q] = post[q]
                                    /\ r \notin served \/ post'[r] = post[r]
  PROVE  NewestInv'
<1>1. ConnKept /\ TokensGo
  BY ConnStays, FewerGo DEF NewestInv, Open
<1>2. CASE UNCHANGED <<phase, post>>
  BY <1>1, <1>2, NewestQuiet
<1>3. CASE \E r \in Posts : \E p : /\ p # "listing" /\ phase' = [phase EXCEPT ![r] = p]
                                   /\ \A q \in Posts \ {r} : post'[q] = post[q]
                                   /\ r \notin served \/ post'[r] = post[r]
  BY <1>1, <1>3, NewestReplied
<1> QED
  BY <1>2, <1>3

LEMMA NewestNotHeld ==
  ASSUME NewestInv, TokenInv', NEW r \in Posts, NEW i, NEW t, NEW mayForward,
         phase[r] \in {"unsent", "forwarding"}, \A q \in Posts \ {r} : post'[q] = post[q], NotHeld(r, i, t, mayForward)
  PROVE  NewestInv'
<1>1. TokenInv /\ r \notin served
  BY DEF NewestInv, TokenInv, RefusalInv, EarlyUnserved, Early
<1>2. UNCHANGED <<tokens, conn, seam, served>>
  BY DEF NotHeld, registry
<1>3. PICK p \in Phases : p # "listing" /\ phase' = [phase EXCEPT ![r] = p]
  BY ReplyPhase DEF NotHeld, Phases
<1>4. SeamKept
  BY <1>1, <1>2, SeamStays
<1> QED
  BY <1>1, <1>2, <1>3, <1>4, NewestAside

LEMMA NewestRetry ==
  ASSUME NewestInv, TokenInv', NEW r \in Posts, Retry(r)
  PROVE  NewestInv'
<1>1. PICK i \in Instances, t \in known, presents \in Presents, check \in Checks :
        \/ /\ t \in tokens[i]
           /\ post' = [post EXCEPT ![r] = Carrying(post[t[1]].session, t[1], t[2], presents, check)]
           /\ ServeRetry(r, i, t)
        \/ \E mayForward \in BOOLEAN :
             /\ \E x : post' = [post EXCEPT ![r] = x]
             /\ NotHeld(r, i, t, mayForward)
  BY DEF Retry
<1>2. phase[r] \in {"unsent", "forwarding"} /\ TokenInv
  BY DEF Retry, Unsent, NewestInv
<1>3. CASE /\ t \in tokens[i]
           /\ post' = [post EXCEPT ![r] = Carrying(post[t[1]].session, t[1], t[2], presents, check)]
           /\ ServeRetry(r, i, t)
  <2>1. /\ \A q \in Posts \ {r} : post'[q] = post[q]
        /\ post'[r].call = t[1] /\ post'[r].round = t[2]
    BY <1>2, <1>3 DEF Carrying, TokenInv, PostFunction
  <2> QED
    BY <1>2, <1>3, <2>1, NewestServeRetry
<1>4. CASE \E mayForward \in BOOLEAN : (\E x : post' = [post EXCEPT ![r] = x]) /\ NotHeld(r, i, t, mayForward)
  <2>1. \A q \in Posts \ {r} : post'[q] = post[q]
    BY <1>2, <1>4 DEF TokenInv, PostFunction
  <2> QED
    BY <1>2, <1>4, <2>1, NewestNotHeld
<1> QED
  BY <1>1, <1>3, <1>4

LEMMA NewestArrive ==
  ASSUME NewestInv, TokenInv', NEW r \in Posts, Arrive(r)
  PROVE  NewestInv'
<1> DEFINE t == TokenOf(r)
           j == conn[t[1]].at
<1>1. phase[r] \in {"unsent", "forwarding"} /\ \A q \in Posts : post'[q] = post[q]
  BY DEF Arrive
<1>2. CASE t \in tokens[j] /\ j \in Instances /\ ServeRetry(r, j, t)
  <2>1. PICK i \in Instances : i = j
    BY <1>2
  <2>2. post'[r].call = t[1] /\ post'[r].round = t[2]
    BY <1>1 DEF TokenOf
  <2> QED
    BY <1>1, <1>2, <2>1, <2>2, NewestServeRetry
<1>3. CASE NotHeld(r, j, t, FALSE)
  <2>1. \A q \in Posts \ {r} : post'[q] = post[q]
    BY <1>1
  <2>2. PICK i, u, mayForward : NotHeld(r, i, u, mayForward)
    BY <1>3
  <2> QED
    BY <1>1, <2>1, <2>2, NewestNotHeld
<1> QED
  BY <1>2, <1>3 DEF Arrive

\* What a request that was listing is let through with, is of its call's newest round still.
LEMMA NewestListed ==
  ASSUME NewestInv, TokenInv', NEW r \in Posts, Listed(r)
  PROVE  NewestInv'
<1> DEFINE c == post[r].call
<1>1. /\ phase[r] = "listing" /\ (\A q \in Posts : post'[q] = post[q]) /\ TokenInv
      /\ r \notin served /\ c \in Posts
  BY EngagedCall DEF Listed, NewestInv, Engaged
<1>2. ASSUME SeamKept, Open(c) PROVE OfNewest(r)'
  <2>1. OfNewest(r)
    BY <1>1, <1>2 DEF NewestInv, ListingNewest
  <2>2. RoundsOf(c)' = RoundsOf(c) /\ post'[r] = post[r]
    BY <1>1, <1>2 DEF SeamKept
  <2> QED
    BY <2>1, <2>2 DEF OfNewest, RoundsOf
<1>3. CASE Reply(r, "mismatch") /\ served' = served /\ Close({c}, "rejected")
  <2>1. PICK p \in Phases : p # "listing" /\ phase' = [phase EXCEPT ![r] = p]
    BY <1>3, ReplyPhase
  <2>2. ConnKept /\ SeamKept
    BY <1>1, <1>3, CloseKeeps DEF Whys
  <2>3. TokensGo
    BY <1>3, ClosedGo DEF Close
  <2>4. \A d \in Posts : seam'[d].request \in {NoPost, seam[d].request}
    BY <1>3 DEF Close, SeamWithout, NoSeam
  <2> QED
    BY <1>1, <1>3, <2>1, <2>2, <2>3, <2>4, NewestReplied
<1>4. ASSUME NEW schema \in {"read", "none"}, conn' = [conn EXCEPT ![c].schema = schema]
      PROVE  ConnKept /\ \A d \in Posts : Open(d) => Open(d)'
  <2>1. ConnKept
    BY <1>1, <1>4, SchemaRead
  <2>2. \A d \in Posts : conn'[d].state = conn[d].state
    BY <1>1, <1>4 DEF TokenInv, ConnType, Connection
  <2> QED
    BY <2>1, <2>2 DEF Open
<1>5. ASSUME ConnKept, \A d \in Posts : Open(d) => Open(d)', NEW what, Reply(r, what),
             tokens' = Restored(r, tokens), UNCHANGED <<seam, served>>
      PROVE  NewestInv'
  <2>1. PICK p \in Phases : p # "listing" /\ phase' = [phase EXCEPT ![r] = p]
    BY <1>5, ReplyPhase
  <2>2. SeamKept
    BY <1>1, <1>5, SeamStays
  <2>3. tokens \in [Instances -> SUBSET (Posts \X Nat)]
    BY <1>1 DEF TokenInv, TokensType
  <2>4. post'[r].call \in Posts /\ (Open(post'[r].call) => OfNewest(r)')
    BY <1>1, <1>2, <2>2
  <2>5. TokensGo
    BY <1>5, <2>2, <2>3, <2>4, RestoredGo
  <2> QED
    BY <1>1, <1>5, <2>1, <2>2, <2>5, NewestReplied
<1>6. CASE /\ \E schema \in {"read", "none"} : conn' = [conn EXCEPT ![c].schema = schema]
           /\ \E writable \in BOOLEAN : (writable => Open(c)) /\ Exchange(r, c, tokens, writable)
  <2>1. ConnKept /\ \A d \in Posts : Open(d) => Open(d)'
    BY <1>4, <1>6
  <2>2. CASE Reply(r, "refused") /\ tokens' = Restored(r, tokens) /\ UNCHANGED <<seam, served>>
    BY <1>5, <2>1, <2>2
  <2>3. CASE Open(c) /\ Enter(r) /\ tokens' = tokens /\ seam' = [seam EXCEPT ![c].request = r]
    <3>1. SeamKept
      BY <1>1, <2>3, SeamAsked
    <3>2. TokensGo
      BY <2>1, <2>3, FewerGo
    <3>3. PICK d : d = post'[r].call /\ seam' = [seam EXCEPT ![d].request = r]
      BY <1>1, <2>3
    <3>4. OfNewest(r)'
      BY <1>2, <2>3, <3>1
    <3> QED
      BY <1>1, <2>1, <2>3, <3>1, <3>2, <3>3, <3>4, NewestEngaged
  <2> QED
    BY <1>6, <2>2, <2>3 DEF Exchange
<1>7. CASE /\ Reply(r, "mismatch") /\ tokens' = Restored(r, tokens) /\ UNCHANGED <<seam, served>>
           /\ \E schema \in {"read", "none"} : conn' = [conn EXCEPT ![c].schema = schema]
  BY <1>4, <1>5, <1>7
<1> QED
  BY <1>3, <1>6, <1>7 DEF Listed

\* A new call has no round out, and its first request is of none.
LEMMA NewestOpened ==
  ASSUME NewestInv, TokenInv', NEW r \in Posts, phase[r] = "unsent", NEW i \in Instances, NEW s, NEW check,
         post' = [post EXCEPT ![r] = Carrying(s, r, 0, "call", check)], OpenCall(r, i, s)
  PROVE  NewestInv'
<1>1. TokenInv /\ ~Open(r) /\ RoundsOf(r) = 0 /\ r \notin served
  BY DEF NewestInv, TokenInv, UnsentUnheld, RefusalInv, EarlyUnserved, Early
<1>2. /\ post'[r].call = r /\ post'[r].round = 0 /\ post'[r].check = check
      /\ \A q \in Posts \ {r} : post'[q] = post[q]
  <2>1. PICK x : x = Carrying(s, r, 0, "call", check)
    OBVIOUS
  <2>2. post' = [post EXCEPT ![r] = x]
    BY <2>1
  <2>3. post'[r] = x /\ \A q \in Posts \ {r} : post'[q] = post[q]
    BY <1>1, <2>2, PostWritten
  <2> QED
    BY <2>1, <2>3 DEF Carrying
<1>3. PICK closing : Opened(r, i, closing)
  BY DEF OpenCall
<1> DEFINE opened == [NoCall EXCEPT !.state = "open", !.at = i]
<1>4. \A d \in Posts \ {r} : conn'[d] = ClosedOf(closing, "evicted")[d]
  BY <1>3 DEF Opened, ClosedOf
<1>5. ASSUME NEW d \in Posts \ {r} PROVE Open(d)' <=> Open(d) /\ d \notin closing
  <2>1. ClosedOf(closing, "evicted")[d].state = "open" <=> Open(d) /\ d \notin closing
    BY <1>1, ClosedOpen
  <2> QED
    BY <1>4, <2>1 DEF Open
<1>6. seam \in [Posts -> SeamState]
  BY <1>1 DEF TokenInv, SeamType
<1>7. /\ \A d \in Posts : d # r => seam'[d] = SeamWithout(closing)[d]
      /\ seam'[r].request \in {r, NoPost} /\ (seam'[r].request = r => post'[r].check = "nothing")
      /\ seam'[r].rounds = SeamWithout(closing)[r].rounds
  <2>1. SeamWithout(closing)[r] = seam[r] /\ seam[r] \in SeamState
    BY <1>1, <1>6 DEF SeamWithout
  <2>2. seam' = [SeamWithout(closing) EXCEPT ![r].request = IF post'[r].check = "nothing" THEN r ELSE NoPost]
    BY <1>3 DEF Opened
  <2>3. DOMAIN SeamWithout(closing) = Posts
    BY DEF SeamWithout
  <2>4. seam'[r] = [SeamWithout(closing)[r] EXCEPT !.request = IF post'[r].check = "nothing" THEN r ELSE NoPost]
    BY <2>2, <2>3 DEF SeamWithout
  <2>5. seam'[r] = [seam[r] EXCEPT !.request = IF post'[r].check = "nothing" THEN r ELSE NoPost]
    BY <2>1, <2>4
  <2>6. seam'[r].request = (IF post'[r].check = "nothing" THEN r ELSE NoPost) /\ seam'[r].rounds = seam[r].rounds
    BY <2>1, <2>5 DEF SeamState
  <2>7. \A d \in Posts : d # r => seam'[d] = SeamWithout(closing)[d]
    BY <2>2 DEF SeamWithout
  <2>8. r # NoPost
    BY EntryAssumption DEF Posts, NoPost
  <2> QED
    BY <2>1, <2>6, <2>7, <2>8
<1>8. \A d \in Posts : RoundsOf(d)' = RoundsOf(d)
  BY <1>7 DEF RoundsOf, SeamWithout, NoSeam
<1>9. OfNewest(r)'
  BY <1>1, <1>2, <1>8 DEF OfNewest, RoundsOf
<1>10. \/ phase' = [phase EXCEPT ![r] = "listing"] /\ served' = served
       \/ phase' = [phase EXCEPT ![r] = "asking"] /\ served' = served \cup {r}
  BY DEF OpenCall, Enter
<1>11. TokensGo
  <2> SUFFICES ASSUME NEW j \in Instances, NEW t \in tokens'[j] PROVE Open(t[1])' /\ t \in tokens[j]
    BY DEF TokensGo
  <2>1. t \in tokens[j] /\ t[1] \notin closing
    BY <1>3 DEF Opened, TokensWithout
  <2>2. t[1] \in Posts /\ Open(t[1])
    BY <2>1, TokenOfBegun DEF NewestInv, TokensNewest
  <2>3. PICK c \in Posts : c = t[1]
    BY <2>2
  <2>4. c # r /\ c \notin closing /\ Open(c)
    BY <1>1, <2>1, <2>2, <2>3
  <2>5. Open(c)'
    BY <1>5, <2>4
  <2> QED
    BY <2>1, <2>3, <2>5 DEF Open
<1>12. EngagedGo
  <2>1. served \subseteq Posts /\ phase \in [Posts -> Phases]
    BY <1>1 DEF TokenInv, RefusalInv, WayType
  <2>2. served \subseteq served' /\ \A q \in served : post'[q] = post[q]
    BY <1>1, <1>2, <1>10, <2>1
  <2>3. \A q \in Posts \ {r} : (Engaged(q)' => Engaged(q)) /\ (phase'[q] = "listing" => phase[q] = "listing")
    BY <1>10, <2>1 DEF Engaged
  <2>4. ASSUME NEW q \in Posts \ {r}, phase[q] = "listing"
        PROVE  Open(post[q].call)' => Open(post[q].call)
    <3>1. PICK c \in Posts : c = post[q].call
      BY <2>4, EngagedCall DEF Engaged
    <3>2. c # r
      <4>1. CASE IsRetry(q)
        BY <1>1, <2>4, <3>1, <4>1 DEF TokenInv, ClaimsMade, Claims
      <4>2. CASE ~IsRetry(q)
        BY <2>4, <3>1, <4>2 DEF NewestInv, FirstIsCall, Engaged, IsRetry
      <4> QED
        BY <4>1, <4>2
    <3>3. Open(c)' => Open(c)
      BY <1>5, <3>2
    <3> QED
      BY <3>1, <3>3 DEF Open
  <2> QED
    BY <1>2, <1>9, <2>2, <2>3, <2>4 DEF EngagedGo
<1>13. AskedGo
  <2> SUFFICES ASSUME NEW c \in Posts, Open(c)', seam'[c].request # NoPost
               PROVE  \/ Open(c) /\ seam'[c].request = seam[c].request
                      \/ seam'[c].request \in served' /\ post'[seam'[c].request].call = c /\ OfNewest(seam[c].request)'
    BY DEF AskedGo
  <2>1. CASE c = r
    <3>1. seam'[c].request = r /\ post'[r].check = "nothing"
      BY <1>7, <2>1
    <3>2. r \in served'
      BY <3>1 DEF OpenCall, Enter
    <3>3. OfNewest(seam[c].request)'
      BY <1>9, <3>1 DEF OfNewest
    <3> QED
      BY <1>2, <2>1, <3>1, <3>2, <3>3
  <2>2. CASE c # r
    <3>1. Open(c)
      BY <1>5, <2>2
    <3>2. seam'[c].request \in {NoPost, seam[c].request}
      BY <1>7, <2>2 DEF SeamWithout, NoSeam
    <3> QED
      BY <3>1, <3>2
  <2> QED
    BY <2>1, <2>2
<1> QED
  BY <1>8, <1>11, <1>12, <1>13, NewestStep

LEMMA NewestFirst ==
  ASSUME NewestInv, TokenInv', NEW r \in Posts, First(r)
  PROVE  NewestInv'
<1>1. phase[r] = "unsent" /\ TokenInv /\ r \notin served
  BY DEF First, Unsent, NewestInv, TokenInv, RefusalInv, EarlyUnserved, Early
<1>2. PICK i \in Instances \ down, s \in Sessions, check \in Checks :
        \/ post' = [post EXCEPT ![r] = Carrying(s, NoPost, 0, "call", check)] /\ RefuseFirst(r, i, s)
        \/ post' = [post EXCEPT ![r] = Carrying(s, r, 0, "call", check)] /\ OpenCall(r, i, s)
  BY DEF First
<1>3. CASE post' = [post EXCEPT ![r] = Carrying(s, NoPost, 0, "call", check)] /\ RefuseFirst(r, i, s)
  <2>1. \A q \in Posts \ {r} : post'[q] = post[q]
    BY <1>1, <1>3 DEF TokenInv, PostFunction
  <2>2. PICK what : Reply(r, what)
    BY <1>3 DEF RefuseFirst
  <2>3. PICK p \in Phases : p # "listing" /\ phase' = [phase EXCEPT ![r] = p]
    BY <2>2, ReplyPhase
  <2>4. UNCHANGED <<tokens, conn, seam, served>>
    BY <1>3 DEF RefuseFirst, registry
  <2>5. SeamKept
    BY <1>1, <2>4, SeamStays
  <2> QED
    BY <1>1, <2>1, <2>3, <2>4, <2>5, NewestAside
<1>4. CASE post' = [post EXCEPT ![r] = Carrying(s, r, 0, "call", check)] /\ OpenCall(r, i, s)
  BY <1>1, <1>4, NewestOpened
<1> QED
  BY <1>2, <1>3, <1>4

\* Closing calls, with every request left as it is or over.
LEMMA NewestClose ==
  ASSUME NewestInv, TokenInv', UNCHANGED <<post, served>>, NEW why \in Whys, \E cs : Close(cs, why),
         phase' = phase \/ \E r \in Posts : \E p : p # "listing" /\ phase' = [phase EXCEPT ![r] = p]
  PROVE  NewestInv'
<1>1. PICK cs : Close(cs, why)
  OBVIOUS
<1>2. ConnKept /\ SeamKept
  BY <1>1, CloseKeeps DEF NewestInv
<1>3. TokensGo
  BY <1>1, ClosedGo DEF Close
<1>4. \A d \in Posts : seam'[d].request \in {NoPost, seam[d].request}
  BY <1>1 DEF Close, SeamWithout, NoSeam
<1>5. CASE phase' = phase
  BY <1>2, <1>3, <1>4, <1>5, NewestQuiet
<1>6. CASE \E r \in Posts : \E p : p # "listing" /\ phase' = [phase EXCEPT ![r] = p]
  BY <1>2, <1>3, <1>4, <1>6, NewestReplied
<1> QED
  BY <1>5, <1>6

LEMMA NewestEnd ==
  ASSUME NewestInv, TokenInv', \/ \E r \in Posts : Deliver(r) \/ Cancel(r)
                               \/ \E c \in Posts : ToolEnds(c) \/ Expire(c)
                               \/ \E i \in Instances : Leave(i)
  PROVE  NewestInv'
<1>1. UNCHANGED <<post, served>>
  BY DEF Deliver, Cancel, ToolEnds, Expire, Leave
<1>2. phase' = phase \/ \E r \in Posts : \E p : p # "listing" /\ phase' = [phase EXCEPT ![r] = p]
  BY ReplyPhase DEF Deliver, Cancel, ToolEnds, Expire, Leave
<1>3. CASE UNCHANGED <<tokens, conn, seam>>
  <2>1. SeamKept
    BY <1>3, SeamStays DEF NewestInv
  <2> QED
    BY <1>1, <1>2, <1>3, <2>1, NewestAside
<1>4. CASE \E why \in {"concluded", "cancelled", "ended", "expired", "left"} : \E cs : Close(cs, why)
  <2>1. PICK why \in {"concluded", "cancelled", "ended", "expired", "left"} : \E cs : Close(cs, why)
    BY <1>4
  <2>2. why \in Whys
    BY DEF Whys
  <2> QED
    BY <1>1, <1>2, <2>1, <2>2, NewestClose
<1> QED
  BY <1>3, <1>4 DEF Deliver, Cancel, ToolEnds, Expire, Leave, registry

LEMMA NewestWay ==
  ASSUME NewestInv, TokenInv', NEW r \in Posts, Disconnect(r) \/ Relay(r) \/ NotDelivered(r) \/ BreakOff(r)
  PROVE  NewestInv'
<1>1. UNCHANGED <<post, served, tokens, conn, seam>>
  BY DEF Disconnect, Relay, NotDelivered, BreakOff, registry
<1>2. phase' = phase \/ phase' = [phase EXCEPT ![r] = "over"]
  BY DEF Disconnect, Relay, NotDelivered, BreakOff
<1>3. SeamKept
  BY <1>1, SeamStays DEF NewestInv
<1> QED
  BY <1>1, <1>2, <1>3, NewestAside

LEMMA NewestWork ==
  ASSUME NewestInv, TokenInv', NEW c \in Posts, Operate(c) \/ ToolConcludesEarly(c) \/ ToolConcludes(c)
  PROVE  NewestInv'
<1>1. UNCHANGED <<post, phase, served, tokens, conn>> /\ TokenInv
  BY DEF Operate, ToolConcludesEarly, ToolConcludes, ToolAnswers, registry, NewestInv
<1>2. \E s : seam' = [seam EXCEPT ![c] = s] /\ s.rounds = seam[c].rounds /\ s.request \in {NoPost, seam[c].request}
  <2>1. seam[c] \in SeamState
    BY <1>1 DEF TokenInv, SeamType
  <2>2. CASE Operate(c) \/ ToolConcludesEarly(c)
    BY <2>1, <2>2 DEF Operate, ToolConcludesEarly, SeamState
  <2>3. CASE ToolConcludes(c)
    <3> DEFINE s == [[seam[c] EXCEPT !.final = FALSE] EXCEPT !.request = NoPost, !.outcomes = FALSE]
    <3>1. seam' = [seam EXCEPT ![c] = s]
      BY <2>3 DEF ToolConcludes, ToolAnswers
    <3>2. s.rounds = seam[c].rounds /\ s.request = NoPost
      BY <2>1 DEF SeamState
    <3> QED
      BY <3>1, <3>2
  <2> QED
    BY <2>2, <2>3
<1>3. SeamKept /\ \A d \in Posts : seam'[d].request \in {NoPost, seam[d].request}
  BY <1>1, <1>2 DEF SeamKept, TokenInv, SeamType, RoundsOf
<1> QED
  BY <1>1, <1>3, NewestAside

\* A round goes out in answer to a request of the newest round: of that nobody has the token any more, nor is it listed.
LEMMA NewestRound ==
  ASSUME NewestInv, TokenInv', NEW c \in Posts, ToolRound(c)
  PROVE  NewestInv'
<1>1. PICK kind \in {"seam", "own"} : ToolAnswers(c, "round", [seam[c] EXCEPT !.rounds = Append(@, kind)])
  BY DEF ToolRound
<1> DEFINE s == [seam[c] EXCEPT !.rounds = Append(@, kind)]
<1>2. /\ Open(c) /\ seam[c].request # NoPost /\ UNCHANGED <<post, phase, served, conn>>
      /\ seam' = [seam EXCEPT ![c] = [s EXCEPT !.request = NoPost, !.outcomes = FALSE]]
      /\ tokens' = [tokens EXCEPT ![conn[c].at] = @ \cup {<<c, Len(s.rounds)>>}]
  BY <1>1 DEF ToolAnswers
<1>3. TokenInv /\ seam \in [Posts -> SeamState] /\ tokens \in [Instances -> SUBSET (Posts \X Nat)]
  BY DEF NewestInv, TokenInv, SeamType, TokensType
<1>4. /\ [s EXCEPT !.request = NoPost, !.outcomes = FALSE].rounds = s.rounds
      /\ [s EXCEPT !.request = NoPost, !.outcomes = FALSE].request = NoPost
  BY <1>3 DEF SeamState
<1> HIDE DEF s
<1>5. /\ RoundsOf(c)' = Len(s.rounds) /\ seam'[c].request = NoPost
      /\ \A d \in Posts \ {c} : RoundsOf(d)' = RoundsOf(d) /\ seam'[d] = seam[d]
  BY <1>2, <1>3, <1>4 DEF RoundsOf
<1>6. PICK q \in Posts : /\ q \in served /\ post[q].call = c /\ post[q].round = RoundsOf(c)
                         /\ (post[q].round = 0 => q = c) /\ phase[q] # "listing"
  <2>1. PICK q \in Posts : q = seam[c].request
    BY <1>2, <1>3 DEF SeamState
  <2>2. Asked(q, c)
    BY <1>2, <2>1 DEF NewestInv, RequestNewest
  <2> QED
    BY <2>2 DEF Asked, OfNewest, NewestInv, TokenInv, RefusalInv, EarlyUnserved, Early
<1>7. ASSUME NEW i \in Instances, NEW t \in tokens[i] PROVE t[1] # c
  <2> SUFFICES ASSUME t[1] = c PROVE FALSE
    OBVIOUS
  <2>1. t = <<t[1], t[2]>> /\ t[2] \in 1..RoundsOf(c) /\ t[2] = RoundsOf(c) /\ RoundsOf(c) \in Nat
    BY <1>3, TokenOfBegun, RoundsCount DEF NewestInv, TokensNewest, TokenInv
  <2>2. Claims(q) /\ TokenOf(q) = t
    BY <1>6, <2>1 DEF Claims, IsRetry, TokenOf
  <2> QED
    BY <1>3, <2>2 DEF TokenInv, TokensFree
<1>8. ASSUME NEW p \in Posts, phase[p] = "listing" PROVE post[p].call # c
  <2> SUFFICES ASSUME post[p].call = c PROVE FALSE
    OBVIOUS
  <2>1. OfNewest(p)
    BY <1>2, <1>8 DEF NewestInv, ListingNewest
  <2>2. post[p].round = post[q].round
    BY <1>6, <2>1 DEF OfNewest
  <2>3. p = q
    <3>1. CASE post[q].round = 0
      BY <1>6, <2>1, <2>2, <3>1 DEF OfNewest
    <3>2. CASE post[q].round # 0
      BY <1>3, <1>6, <1>8, <2>2, <3>2 DEF TokenInv, OneClaim, Claims, IsRetry, TokenOf
    <3> QED
      BY <3>1, <3>2
  <2> QED
    BY <1>6, <1>8, <2>3
<1>9. TokensNewest'
  <2> SUFFICES ASSUME NEW i \in Instances, NEW t \in tokens'[i] PROVE Open(t[1])' /\ t[2] = RoundsOf(t[1])'
    BY DEF TokensNewest
  <2>1. CASE t \in tokens[i]
    <3>1. t[1] \in Posts \ {c} /\ Open(t[1]) /\ t[2] = RoundsOf(t[1])
      BY <1>3, <1>7, <2>1, TokenOfBegun DEF NewestInv, TokensNewest
    <3>2. PICK d \in Posts \ {c} : d = t[1]
      BY <3>1
    <3>3. Open(d)' /\ t[2] = RoundsOf(d)'
      BY <1>2, <1>5, <3>1, <3>2 DEF Open
    <3> QED
      BY <3>2, <3>3 DEF Open, RoundsOf
  <2>2. CASE t \notin tokens[i]
    <3>1. t = <<c, Len(s.rounds)>>
      BY <1>2, <1>3, <2>2
    <3>2. t[1] = c /\ t[2] = RoundsOf(c)' /\ Open(c)'
      BY <1>2, <1>5, <3>1 DEF Open
    <3> QED
      BY <3>2 DEF Open, RoundsOf
  <2> QED
    BY <2>1, <2>2
<1>10. FirstIsCall'
  BY <1>2 DEF NewestInv, FirstIsCall, Engaged
<1>11. ASSUME NEW p \in Posts, OfNewest(p), post[p].call # c PROVE OfNewest(p)'
  <2>1. PICK d \in Posts \ {c} : d = post[p].call
    BY <1>11 DEF OfNewest
  <2>2. RoundsOf(d)' = RoundsOf(d) /\ post'[p] = post[p]
    BY <1>2, <1>5
  <2> QED
    BY <1>11, <2>1, <2>2 DEF OfNewest, RoundsOf
<1>12. ListingNewest'
  BY <1>2, <1>8, <1>11 DEF NewestInv, ListingNewest, Open
<1>13. RequestNewest'
  <2> SUFFICES ASSUME NEW d \in Posts, Open(d)', seam'[d].request # NoPost
               PROVE  Asked(seam[d].request, d)'
    BY DEF RequestNewest
  <2>1. d # c /\ seam'[d] = seam[d] /\ Open(d)
    BY <1>2, <1>5 DEF Open
  <2>2. PICK p \in Posts : p = seam[d].request
    BY <1>3, <2>1 DEF SeamState
  <2>3. Asked(p, d)
    BY <2>1, <2>2 DEF NewestInv, RequestNewest
  <2>4. OfNewest(p)'
    BY <1>11, <2>1, <2>3 DEF Asked
  <2>5. p = seam'[d].request /\ p \in served' /\ post'[p].call = d
    BY <1>2, <2>1, <2>2, <2>3 DEF Asked
  <2> QED
    BY <2>4, <2>5 DEF Asked, OfNewest
<1> QED
  BY <1>9, <1>10, <1>12, <1>13 DEF NewestInv

LEMMA NewestInit == Init => NewestInv
<1> SUFFICES ASSUME Init PROVE NewestInv
  OBVIOUS
<1>1. /\ \A c \in Posts : ~Open(c)
      /\ \A r \in Posts : ~Engaged(r)
      /\ \A i \in Instances : tokens[i] = {}
  BY DEF Init, Open, NoCall, Engaged
<1> QED
  BY <1>1, TokenInit DEF NewestInv, TokensNewest, FirstIsCall, ListingNewest, RequestNewest, Engaged

LEMMA NewestNext == NewestInv /\ [Next]_vars => NewestInv'
<1> SUFFICES ASSUME NewestInv, [Next]_vars PROVE NewestInv'
  OBVIOUS
<1>0. TokenInv'
  BY TokenNext DEF NewestInv
<1>1. CASE \E r \in Posts : First(r) \/ Retry(r) \/ Arrive(r) \/ Listed(r)
  BY <1>0, <1>1, NewestFirst, NewestRetry, NewestArrive, NewestListed
<1>2. CASE \/ \E r \in Posts : Deliver(r) \/ Cancel(r)
           \/ \E c \in Posts : ToolEnds(c) \/ Expire(c)
           \/ \E i \in Instances : Leave(i)
  BY <1>0, <1>2, NewestEnd
<1>3. CASE \E r \in Posts : Disconnect(r) \/ Relay(r) \/ NotDelivered(r) \/ BreakOff(r)
  BY <1>0, <1>3, NewestWay
<1>4. CASE \E c \in Posts : ToolConcludes(c) \/ Operate(c) \/ ToolConcludesEarly(c)
  BY <1>0, <1>4, NewestWork
<1>5. CASE \E c \in Posts : ToolRound(c)
  BY <1>0, <1>5, NewestRound
<1>6. CASE UNCHANGED vars
  <2>1. UNCHANGED <<post, phase, served, tokens, conn, seam>>
    BY <1>6 DEF vars, registry
  <2>2. SeamKept
    BY <2>1, SeamStays DEF NewestInv
  <2> QED
    BY <1>0, <2>1, <2>2, NewestAside
<1> QED
  BY <1>1, <1>2, <1>3, <1>4, <1>5, <1>6 DEF Next, Tool

(* An instance's tables agree with the calls it holds: its line is exactly its open calls, one per session and no more  *)
(* than it may hold, and it indexes a token only of the newest round of one of them, however retries race to consume,   *)
(* restore and replace tokens and whatever closes calls meanwhile.                                                      *)
THEOREM EntryTypeCorrect == Spec => []EntryTypeOK
<1>1. HeldInv /\ NewestInv => EntryTypeOK
  <2> SUFFICES ASSUME HeldInv, NewestInv PROVE EntryTypeOK
    OBVIOUS
  <2>1. TokenInv /\ WayType
    BY DEF HeldInv, TokenInv, RefusalInv
  <2> SUFFICES ASSUME NEW i \in Instances
               PROVE  /\ Len(sessions[i]) <= MaxHeldCalls
                      /\ Range(sessions[i]) = {c \in Posts : Open(c) /\ conn[c].at = i}
                      /\ \A m, n \in DOMAIN sessions[i] :
                           post[sessions[i][m]].session = post[sessions[i][n]].session => m = n
                      /\ \A t \in tokens[i] : t[1] \in Range(sessions[i]) /\ t = Newest(t[1]) /\ t[2] > 0
    BY <2>1 DEF EntryTypeOK, WayType, Phases
  <2>2. HeldLine(i)
    BY DEF HeldInv, HeldLines
  <2>3. ASSUME NEW m \in DOMAIN sessions[i], NEW n \in DOMAIN sessions[i],
               post[sessions[i][m]].session = post[sessions[i][n]].session
        PROVE  m = n
    <3>1. sessions[i][m] \in Range(sessions[i]) /\ sessions[i][n] \in Range(sessions[i])
      BY DEF Range
    <3>2. sessions[i][m] = sessions[i][n]
      BY <2>2, <2>3, <3>1 DEF HeldLine, HeldInv, OneSession
    <3> QED
      BY <2>2, <3>2 DEF HeldLine, IsInjective
  <2>4. ASSUME NEW t \in tokens[i]
        PROVE  t[1] \in Range(sessions[i]) /\ t = Newest(t[1]) /\ t[2] > 0
    <3>1. /\ t[1] \in Posts /\ t = <<t[1], t[2]>> /\ conn[t[1]].at = i /\ t[2] \in 1..RoundsOf(t[1])
          /\ Open(t[1]) /\ t[2] = RoundsOf(t[1])
      BY <2>1, TokenOfBegun DEF NewestInv, TokensNewest
    <3>2. RoundsOf(t[1]) \in Nat
      BY <2>1, <3>1, RoundsCount DEF TokenInv
    <3>3. t[2] > 0
      BY <3>1, <3>2
    <3> QED
      BY <2>2, <3>1, <3>3 DEF HeldLine, Newest, RoundsOf
  <2> QED
    BY <2>2, <2>3, <2>4 DEF HeldLine
<1> QED
  BY <1>1, HeldInit, HeldNext, NewestInit, NewestNext, PTL DEF Spec
===============================================================================
