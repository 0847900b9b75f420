---------------------------- MODULE ToolSeam_proofs ----------------------------
(***************************************************************************)
(* Proofs about ToolSeam, for any calls, operations, sessions and bounds:  *)
(* the exchange of rounds and the seam's tables, one frame per request,    *)
(* outcomes no later than the result, bodies run only when granted, what   *)
(* an HTTP entry relies on when it closes a connection, and events on the  *)
(* wire once and in the order they were emitted.                           *)
(***************************************************************************)
EXTENDS ToolSeam, FiniteSetTheorems, SequenceTheorems, TLAPS

-----------------------------------------------------------------------------
(* What is true of one call: of its handler h, its state k, the frames fs   *)
(* written and the r requests made for it, whether it is gone (dropped),    *)
(* the operations whose outcomes were taken and those that act.             *)

Handlers == {"unborn", "running", "done"}
Stages == {"new", "waiting", "granted", "denied", "acting", "aborting", "over"}
CallStates ==
  [current : Nat, round : Nat, buffered : SUBSET Events, scheduled : BOOLEAN, final : Kinds \cup {"none"},
   finished : BOOLEAN, ended : BOOLEAN, released : BOOLEAN, open : SUBSET Ops]

IdsIn(fs) == {fs[n].id : n \in DOMAIN fs}
RoundsIn(fs) == {n \in DOMAIN fs : fs[n].kind = "round"}
ConcludedIn(fs) == \E n \in DOMAIN fs : fs[n].kind \in Kinds
OutcomesIn(fs) == UNION {OpsIn(fs[n].events, "outcome") : n \in DOMAIN fs}

\* Nothing is kept of a call before its request.
Unborn(h, k, fs, r) == h = "unborn" => k = FreshCall /\ fs = <<>> /\ r = 0
\* Frames answer requests that were made.
Counted(h, k, fs, r) ==
  /\ k.current \in 0..r /\ (h # "unborn" => r > 0)
  /\ \A n \in DOMAIN fs : fs[n].id \in 1..r
\* A call at work has a request to answer or a round out, and its round was written.
Exchange(h, k, fs) ==
  /\ h # "unborn" /\ ~k.ended => (k.current = NoRequest) = (k.round # NoRound)
  /\ k.round \in RoundsIn(fs) \cup {NoRound}
\* The order of a call's end: only a finished call ends, only a dropped one outruns its handler.
Ending(h, k, gone) ==
  /\ k.ended => k.finished
  /\ k.finished = k.released
  /\ k.final # "none" => k.finished
  /\ gone => k.ended
  /\ h = "running" /\ k.finished => gone
\* No request is answered twice, nor was the one that is open.
OneFrame(k, fs, gone) ==
  gone \/ /\ \A m, n \in DOMAIN fs : fs[m].id = fs[n].id => m = n
          /\ ~k.ended => k.current \notin IdsIn(fs)
\* The final frame is what ends a call.
FinalEnds(k, fs, gone) == gone \/ ConcludedIn(fs) = k.ended
\* An outcome that was taken is written, or buffered while the call lasts.
TakenKept(k, fs, gone, taken) ==
  gone \/ taken \subseteq OutcomesIn(fs) \cup (IF k.ended THEN {} ELSE OpsIn(k.buffered, "outcome"))
\* Final frames carry no attempt, and errors nothing.
FinalsClean(fs) ==
  \A n \in DOMAIN fs : /\ fs[n].kind \in Kinds => OpsIn(fs[n].events, "attempt") = {}
                       /\ fs[n].kind = "error" => fs[n].events = {}
\* The operations that act on a call's accepted attempts are counted as open until it ends.
ActingOpen(k, acting) == k.ended \/ acting \subseteq k.open

CallOK(h, k, fs, r, gone, taken, acting) ==
  /\ Unborn(h, k, fs, r) /\ Counted(h, k, fs, r) /\ Exchange(h, k, fs) /\ Ending(h, k, gone)
  /\ OneFrame(k, fs, gone) /\ FinalEnds(k, fs, gone) /\ TakenKept(k, fs, gone, taken)
  /\ FinalsClean(fs) /\ ActingOpen(k, acting)

Acting(c) == {op \in OpsOf(c) : stage[op] = "acting"}

-----------------------------------------------------------------------------
(* The inductive invariant. *)

StateType ==
  /\ handler \in [Calls -> Handlers] /\ call \in [Calls -> CallStates]
  /\ stage \in [Ops -> Stages] /\ connected \in BOOLEAN
  /\ frames \in [Calls -> Seq(Frames)] /\ requests \in [Calls -> 0..MaxRequests]
  /\ session \in [Sessions -> [known : BOOLEAN, live : Nat, next : Nat]]
  /\ waiting \in Seq(Calls) /\ idle \in Seq(Sessions)

\* Each call by itself.
CallView(c) == CallOK(handler[c], call[c], frames[c], requests[c], c \in dropped, handed \cap OpsOf(c), Acting(c))
CallsOK == \A c \in Calls : CallView(c) /\ call[c].open \subseteq OpsOf(c)

\* The calls that keep a final frame are the concluded ones that have not ended, each once.
WaitingOK ==
  /\ IsInjective(waiting) /\ Len(waiting) <= MaxHeld
  /\ \A c \in Calls : Held(c) = (call[c].finished /\ ~call[c].ended)

\* A session counts its requests, and is idle exactly while it is kept without any.
IdleOK == IsInjective(idle) /\ Len(idle) <= MaxHeld
SessionOK(s) ==
  /\ IsFiniteSet(Serving(s)) /\ session[s].live = Cardinality(Serving(s))
  /\ Serving(s) # {} => session[s].known
  /\ (s \in Range(idle)) = (session[s].known /\ Serving(s) = {})
SessionsOK == \A s \in Sessions : SessionOK(s)

\* What was granted and not taken up, or taken up, was granted by its round's retry in time.
GrantsOK ==
  /\ \A op \in Ops : stage[op] \in {"granted", "acting"} => op \in granted
  /\ ActsOnlyIfGranted

\* Only a request that came has operations under way.
StartedOK == \A op \in Ops : stage[op] # "new" => handler[CallOf[op]] # "unborn"

SeamInv == StateType /\ CallsOK /\ WaitingOK /\ IdleOK /\ (connected => SessionsOK) /\ GrantsOK /\ StartedOK

-----------------------------------------------------------------------------
(* Tables that keep their entries in the order of use, each once.           *)

\* The end of a table.
LEMMA Appended ==
  ASSUME NEW S, NEW s \in Seq(S), IsInjective(s), NEW e \in S, e \notin Range(s)
  PROVE  /\ Append(s, e) \in Seq(S) /\ IsInjective(Append(s, e))
         /\ Range(Append(s, e)) = Range(s) \cup {e} /\ Len(Append(s, e)) = Len(s) + 1
<1> DEFINE t == Append(s, e)
<1>1. t \in Seq(S) /\ Len(t) = Len(s) + 1 /\ DOMAIN t = 1..(Len(s) + 1) /\ DOMAIN s = 1..Len(s) /\ Len(s) \in Nat
  OBVIOUS
<1>2. t[Len(s) + 1] = e /\ \A n \in 1..Len(s) : t[n] = s[n]
  OBVIOUS
<1>3. Range(t) = Range(s) \cup {e}
  BY <1>1, <1>2 DEF Range
<1>4. IsInjective(t)
  BY <1>1, <1>2 DEF Range, IsInjective
<1> QED
  BY <1>1, <1>3, <1>4

\* The least recent entry leaves.
LEMMA Shortened ==
  ASSUME NEW S, NEW s \in Seq(S), IsInjective(s), s # <<>>
  PROVE  /\ Tail(s) \in Seq(S) /\ IsInjective(Tail(s)) /\ Head(s) \in Range(s)
         /\ Range(Tail(s)) = Range(s) \ {Head(s)} /\ Len(Tail(s)) = Len(s) - 1
<1> DEFINE t == Tail(s)
<1>1. /\ t \in Seq(S) /\ Len(t) = Len(s) - 1 /\ DOMAIN t = 1..(Len(s) - 1) /\ DOMAIN s = 1..Len(s)
      /\ Len(s) \in Nat /\ Len(s) > 0 /\ Head(s) = s[1]
  OBVIOUS
<1>2. \A n \in 1..(Len(s) - 1) : t[n] = s[n + 1]
  BY <1>1
<1>3. IsInjective(t)
  BY <1>1, <1>2 DEF IsInjective
<1>4. \A m \in DOMAIN s : m # 1 => s[m] # s[1] /\ m - 1 \in DOMAIN t /\ t[m - 1] = s[m]
  BY <1>1, <1>2 DEF IsInjective
<1>5. Range(t) = Range(s) \ {Head(s)}
  <2>1. \A n \in DOMAIN t : t[n] \in Range(s) /\ t[n] # s[1]
    <3> TAKE n \in DOMAIN t
    <3>1. n \in 1..(Len(s) - 1) /\ n + 1 \in DOMAIN s /\ n + 1 # 1 /\ 1 \in DOMAIN s
      BY <1>1
    <3> QED
      BY <1>2, <3>1 DEF Range, IsInjective
  <2>2. \A m \in DOMAIN s : s[m] # s[1] => s[m] \in Range(t)
    BY <1>4 DEF Range
  <2> QED
    BY <1>1, <2>1, <2>2 DEF Range
<1> QED
  BY <1>1, <1>3, <1>5 DEF Range

\* An entry leaves wherever it stands.
LEMMA Removed ==
  ASSUME NEW S, NEW s \in Seq(S), IsInjective(s), NEW e
  PROVE  /\ RemoveFirst(s, e) \in Seq(S) /\ IsInjective(RemoveFirst(s, e))
         /\ Range(RemoveFirst(s, e)) = Range(s) \ {e} /\ Len(RemoveFirst(s, e)) <= Len(s)
<1> DEFINE I == {i \in 1..Len(s) : s[i] = e}
<1>0. DOMAIN s = 1..Len(s) /\ Len(s) \in Nat
  OBVIOUS
<1>1. CASE I = {}
  <2>1. RemoveFirst(s, e) = s
    BY <1>1 DEF RemoveFirst
  <2>2. e \notin Range(s)
    BY <1>0, <1>1 DEF Range
  <2> QED
    BY <1>0, <2>1, <2>2
<1>2. CASE I # {}
  <2> DEFINE n == Min(I)
             u == SubSeq(s, 1, n - 1)
             v == SubSeq(s, n + 1, Len(s))
             t == u \o v
  <2>1. n \in I
    <3>1. PICK i \in I : TRUE
      BY <1>2
    <3>2. \A j \in I : j = i
      BY <1>0 DEF IsInjective
    <3>3. I = {i}
      BY <3>1, <3>2
    <3>4. \E m \in I : \A k \in I : m <= k
      BY <3>3, i <= i
    <3> QED
      BY <3>4 DEF Min
  <2>2. RemoveFirst(s, e) = t
    BY <1>2 DEF RemoveFirst, RemoveAt, SelectInSeq
  <2>3. n \in 1..Len(s) /\ s[n] = e
    BY <2>1
  <2> HIDE DEF n
  <2>4. u \in Seq(S) /\ Len(u) = n - 1 /\ \A i \in 1..(n - 1) : u[i] = s[i]
    <3>1. 1 \in 1..(Len(s) + 1) /\ n - 1 \in 0..Len(s) /\ (1 <= n - 1 \/ n - 1 = 0)
      BY <1>0, <2>3
    <3> QED
      BY <1>0, <2>3, <3>1, SubSeqProperties
  <2>5. v \in Seq(S) /\ Len(v) = Len(s) - n /\ \A i \in 1..(Len(s) - n) : v[i] = s[n + i]
    <3>1. n + 1 \in Int /\ Len(s) \in Int /\ \A i \in (n + 1)..Len(s) : s[i] \in S
      BY <1>0, <2>3
    <3>2. v \in Seq(S) /\ Len(v) = IF n + 1 <= Len(s) THEN Len(s) - (n + 1) + 1 ELSE 0
      BY <3>1, SubSeqProperties
    <3>3. \A i \in 1..(Len(s) - (n + 1) + 1) : v[i] = s[(n + 1) + i - 1]
      BY <3>1, SubSeqProperties
    <3>4. \A i \in 1..(Len(s) - n) : i \in 1..(Len(s) - (n + 1) + 1) /\ (n + 1) + i - 1 = n + i
      BY <1>0, <2>3
    <3> HIDE DEF I, u, v, t
    <3>5. Len(v) = Len(s) - n
      <4>1. CASE n + 1 <= Len(s)
        <5>1. Len(v) = Len(s) - (n + 1) + 1
          BY <3>2, <4>1
        <5>2. Len(s) - (n + 1) + 1 = Len(s) - n
          BY <1>0, <2>3
        <5> QED
          BY <5>1, <5>2
      <4>2. CASE ~(n + 1 <= Len(s))
        <5>1. Len(v) = 0
          BY <3>2, <4>2
        <5>2. \A m \in Nat : n \in 1..m /\ ~(n + 1 <= m) => m - n = 0
          OBVIOUS
        <5>3. Len(s) - n = 0
          BY <1>0, <2>3, <4>2, <5>2
        <5> QED
          BY <5>1, <5>3
      <4> QED
        BY <4>1, <4>2
    <3>6. \A i \in 1..(Len(s) - n) : v[i] = s[n + i]
      BY <3>3, <3>4
    <3> QED
      BY <3>2, <3>5, <3>6
  <2> HIDE DEF u, v
  <2>6. t \in Seq(S) /\ Len(t) = Len(s) - 1 /\ DOMAIN t = 1..(Len(s) - 1)
    <3>1. t \in Seq(S) /\ Len(t) = Len(u) + Len(v)
      BY <2>4, <2>5, ConcatProperties
    <3>2. Len(t) = Len(s) - 1
      BY <1>0, <2>3, <2>4, <2>5, <3>1
    <3> HIDE DEF t
    <3> QED
      BY <3>1, <3>2
  <2>7. \A i \in DOMAIN t : t[i] = IF i < n THEN s[i] ELSE s[i + 1]
    <3> TAKE i \in DOMAIN t
    <3>0. \A j \in 1..(Len(u) + Len(v)) : t[j] = IF j <= Len(u) THEN u[j] ELSE v[j - Len(u)]
      BY <2>4, <2>5, ConcatProperties
    <3> HIDE DEF t
    <3>2. i \in 1..(Len(s) - 1)
      BY <2>6
    <3>1. t[i] = IF i <= n - 1 THEN u[i] ELSE v[i - (n - 1)]
      <4>1. i \in 1..((n - 1) + (Len(s) - n))
        BY <1>0, <2>3, <3>2
      <4> QED
        BY <2>4, <2>5, <3>0, <4>1
    <3>3. CASE i < n
      BY <1>0, <2>3, <2>4, <3>1, <3>2, <3>3
    <3>4. CASE ~(i < n)
      <4>1. i - (n - 1) \in 1..(Len(s) - n) /\ n + (i - (n - 1)) = i + 1 /\ ~(i <= n - 1)
        BY <1>0, <2>3, <3>2, <3>4
      <4> QED
        BY <2>5, <3>1, <3>4, <4>1
    <3> QED
      BY <3>3, <3>4
  <2> HIDE DEF t
  <2>8. IsInjective(t)
    BY <1>0, <2>3, <2>6, <2>7 DEF IsInjective
  <2>9. Range(t) \subseteq Range(s) \ {e}
    BY <1>0, <2>3, <2>6, <2>7 DEF IsInjective, Range
  <2>10. \A m \in DOMAIN s : m # n => \E i \in DOMAIN t : t[i] = s[m]
    <3> TAKE m \in DOMAIN s
    <3> HAVE m # n
    <3>1. CASE m < n
      BY <1>0, <2>3, <2>6, <2>7, <3>1
    <3>2. CASE m > n
      <4>1. m - 1 \in DOMAIN t /\ ~(m - 1 < n) /\ (m - 1) + 1 = m
        BY <1>0, <2>3, <2>6, <3>2
      <4> QED
        BY <2>7, <4>1
    <3> QED
      BY <1>0, <2>3, <3>1, <3>2
  <2>11. Range(s) \ {e} \subseteq Range(t)
    BY <2>3, <2>10 DEF Range
  <2> QED
    BY <1>0, <2>2, <2>6, <2>8, <2>9, <2>11
<1> QED
  BY <1>1, <1>2

-----------------------------------------------------------------------------
(* What one step does to what is true of a call.                            *)

Distinct(fs) == \A m, n \in DOMAIN fs : fs[m].id = fs[n].id => m = n

\* What a frame adds to those written for a call.
LEMMA Framed ==
  ASSUME NEW fs \in Seq(Frames), NEW f \in Frames
  PROVE  LET t == Append(fs, f) IN
         /\ t \in Seq(Frames) /\ IdsIn(t) = IdsIn(fs) \cup {f.id}
         /\ OutcomesIn(t) = OutcomesIn(fs) \cup OpsIn(f.events, "outcome")
         /\ RoundsIn(t) = RoundsIn(fs) \cup (IF f.kind = "round" THEN {Len(fs) + 1} ELSE {})
         /\ ConcludedIn(t) = (ConcludedIn(fs) \/ f.kind \in Kinds)
         /\ Distinct(fs) /\ f.id \notin IdsIn(fs) => Distinct(t)
         /\ FinalsClean(fs) /\ FinalsClean(<<f>>) => FinalsClean(t)
<1> DEFINE t == Append(fs, f)
<1>1. /\ t \in Seq(Frames) /\ DOMAIN t = DOMAIN fs \cup {Len(fs) + 1} /\ Len(fs) + 1 \notin DOMAIN fs
      /\ t[Len(fs) + 1] = f /\ \A n \in DOMAIN fs : t[n] = fs[n]
  OBVIOUS
<1> HIDE DEF t
<1>2. IdsIn(t) = IdsIn(fs) \cup {f.id}
  BY <1>1 DEF IdsIn
<1>3. OutcomesIn(t) = OutcomesIn(fs) \cup OpsIn(f.events, "outcome")
  BY <1>1 DEF OutcomesIn
<1>4. RoundsIn(t) = RoundsIn(fs) \cup (IF f.kind = "round" THEN {Len(fs) + 1} ELSE {})
  BY <1>1 DEF RoundsIn
<1>5. ConcludedIn(t) = (ConcludedIn(fs) \/ f.kind \in Kinds)
  BY <1>1 DEF ConcludedIn
<1>6. Distinct(fs) /\ f.id \notin IdsIn(fs) => Distinct(t)
  BY <1>1 DEF Distinct, IdsIn
<1>7. FinalsClean(fs) /\ FinalsClean(<<f>>) => FinalsClean(t)
  <2>1. FinalsClean(<<f>>) => (f.kind \in Kinds => OpsIn(f.events, "attempt") = {}) /\ (f.kind = "error" => f.events = {})
    BY DEF FinalsClean
  <2> QED
    BY <1>1, <2>1 DEF FinalsClean
<1> QED
  BY <1>1, <1>2, <1>3, <1>4, <1>5, <1>6, <1>7 DEF t

\* A call nothing is done to, but that fewer of its operations act.
LEMMA CallStays ==
  ASSUME NEW h, NEW k, NEW fs, NEW r, NEW gone, NEW taken, NEW acting, NEW acting1, acting1 \subseteq acting,
         CallOK(h, k, fs, r, gone, taken, acting)
  PROVE  CallOK(h, k, fs, r, gone, taken, acting1)
BY DEF CallOK, ActingOpen

Ended(k) == [k EXCEPT !.finished = TRUE, !.ended = TRUE, !.final = "none", !.released = TRUE]

\* A call that was served is dropped.
LEMMA CallDropped ==
  ASSUME NEW h, h # "unborn", NEW k \in CallStates, NEW fs, NEW r, NEW gone, NEW taken, NEW acting, NEW acting1,
         CallOK(h, k, fs, r, gone, taken, acting)
  PROVE  CallOK(h, Ended(k), fs, r, TRUE, taken, acting1) /\ Ended(k) \in CallStates
<1>1. /\ Ended(k) \in CallStates /\ Ended(k).ended /\ Ended(k).finished /\ Ended(k).released
      /\ Ended(k).final = "none" /\ Ended(k).current = k.current /\ Ended(k).round = k.round
  BY DEF Ended, CallStates
<1> HIDE DEF Ended
<1> QED
  BY <1>1 DEF CallOK, Unborn, Counted, Exchange, Ending, OneFrame, FinalEnds, TakenKept, ActingOpen

\* Its request comes.
LEMMA CallOpened ==
  ASSUME NEW k, NEW fs, NEW r, NEW gone \in BOOLEAN, NEW taken, NEW acting,
         CallOK("unborn", k, fs, r, gone, taken, acting)
  PROVE  LET k1 == [k EXCEPT !.current = 1]
         IN  k1 \in CallStates /\ CallOK("running", k1, fs, 1, gone, taken, acting)
<1> DEFINE k1 == [k EXCEPT !.current = 1]
<1>1. k = FreshCall /\ fs = <<>> /\ r = 0
  BY DEF CallOK, Unborn
<1>2. /\ k1.current = 1 /\ k1.round = 0 /\ k1.buffered = {} /\ ~k1.finished /\ ~k1.ended /\ ~k1.released
      /\ k1.final = "none" /\ k1.open = {} /\ k1.scheduled = FALSE /\ k1 \in CallStates
  BY <1>1 DEF FreshCall, NoRequest, NoRound, CallStates
<1>3. IdsIn(fs) = {} /\ RoundsIn(fs) = {} /\ ~ConcludedIn(fs)
  BY <1>1 DEF IdsIn, RoundsIn, ConcludedIn
<1>4. /\ TakenKept(k, fs, gone, taken) /\ ActingOpen(k, acting) /\ Ending("unborn", k, gone)
      /\ k.buffered = {} /\ k.open = {} /\ ~k.ended
  BY <1>1 DEF CallOK, FreshCall
<1>5. gone = FALSE
  BY <1>4 DEF Ending
<1> HIDE DEF k1
<1>6. Unborn("running", k1, fs, 1) /\ Counted("running", k1, fs, 1) /\ Exchange("running", k1, fs)
  BY <1>1, <1>2, <1>3 DEF Unborn, Counted, Exchange, NoRequest, NoRound
<1>7. Ending("running", k1, gone) /\ OneFrame(k1, fs, gone) /\ FinalEnds(k1, fs, gone) /\ FinalsClean(fs)
  <2>1. k1.ended = FALSE /\ ConcludedIn(fs) = FALSE
    BY <1>2, <1>3 DEF CallStates, ConcludedIn
  <2>2. Ending("running", k1, gone)
    BY <1>2, <1>5 DEF Ending, CallStates
  <2>3. OneFrame(k1, fs, gone) /\ FinalsClean(fs)
    BY <1>1, <1>3 DEF OneFrame, FinalsClean
  <2> QED
    BY <2>1, <2>2, <2>3 DEF FinalEnds
<1>8. TakenKept(k1, fs, gone, taken) /\ ActingOpen(k1, acting)
  BY <1>2, <1>4 DEF TakenKept, ActingOpen
<1> QED
  BY <1>2, <1>6, <1>7, <1>8 DEF CallOK, k1

\* What the retry of a call's round leaves of its state.
Retried(k, r, sched, k1) == k1 = [k EXCEPT !.round = NoRound, !.current = r + 1, !.scheduled = sched]

\* A retry of its round comes, for a call that goes on.
LEMMA CallRetried ==
  ASSUME NEW h, NEW k \in CallStates, NEW fs, NEW r \in Nat, NEW gone \in BOOLEAN, NEW taken, NEW acting, NEW sched \in BOOLEAN,
         CallOK(h, k, fs, r, gone, taken, acting), k.round # NoRound, ~k.ended,
         NEW k1, Retried(k, r, sched, k1)
  PROVE  k1 \in CallStates /\ CallOK(h, k1, fs, r + 1, gone, taken, acting)
<1>1. /\ k1 \in CallStates /\ k1.current = r + 1 /\ k1.round = NoRound /\ k1.buffered = k.buffered
      /\ k1.finished = k.finished /\ k1.ended = k.ended /\ k1.released = k.released /\ k1.final = k.final
      /\ k1.open = k.open
  <2>1. r + 1 \in Nat /\ NoRound \in Nat
    BY DEF NoRound
  <2> QED
    BY <2>1 DEF CallStates, Retried
<1>2. h # "unborn"
  BY DEF CallOK, Unborn, FreshCall
<1>3. Counted(h, k1, fs, r + 1) /\ r + 1 \notin IdsIn(fs)
  BY <1>1 DEF CallOK, Counted, IdsIn
<1>4. Unborn(h, k1, fs, r + 1) /\ Exchange(h, k1, fs)
  BY <1>1, <1>2 DEF Unborn, Exchange, NoRequest, NoRound
<1>5. Ending(h, k1, gone) /\ OneFrame(k1, fs, gone) /\ FinalEnds(k1, fs, gone)
  BY <1>1, <1>3 DEF CallOK, Ending, OneFrame, FinalEnds
<1>6. TakenKept(k1, fs, gone, taken) /\ FinalsClean(fs) /\ ActingOpen(k1, acting)
  BY <1>1 DEF CallOK, TakenKept, ActingOpen
<1> QED
  BY <1>1, <1>3, <1>4, <1>5, <1>6 DEF CallOK

\* A replay is refused.
LEMMA CallRefused ==
  ASSUME NEW h, NEW k \in CallStates, NEW fs \in Seq(Frames), NEW r \in Nat, NEW gone \in BOOLEAN, NEW taken, NEW acting,
         CallOK(h, k, fs, r, gone, taken, acting), h # "unborn"
  PROVE  LET fs1 == Append(fs, Frame(r + 1, "refused", {}))
         IN  fs1 \in Seq(Frames) /\ CallOK(h, k, fs1, r + 1, gone, taken, acting)
<1> DEFINE f == Frame(r + 1, "refused", {})
           fs1 == Append(fs, f)
<1>1. f \in Frames /\ f.id = r + 1 /\ f.kind = "refused" /\ f.events = {} /\ f.kind \notin Kinds
  BY DEF Frame, Frames, Kinds, Events
<1>2. FinalsClean(<<f>>)
  BY <1>1 DEF FinalsClean
<1> HIDE DEF f
<1>3. /\ fs1 \in Seq(Frames) /\ IdsIn(fs1) = IdsIn(fs) \cup {r + 1}
      /\ OutcomesIn(fs) \subseteq OutcomesIn(fs1) /\ RoundsIn(fs1) = RoundsIn(fs)
      /\ ConcludedIn(fs1) = ConcludedIn(fs) /\ (FinalsClean(fs) => FinalsClean(fs1))
      /\ (Distinct(fs) /\ r + 1 \notin IdsIn(fs) => Distinct(fs1))
  <2>1. ConcludedIn(fs) \in BOOLEAN
    BY DEF ConcludedIn
  <2> QED
    BY <1>1, <1>2, <2>1, Framed
<1> HIDE DEF fs1
<1>4. (\A n \in IdsIn(fs) : n \in 1..r) /\ r + 1 \notin IdsIn(fs) /\ k.current # r + 1
  BY DEF CallOK, Counted, IdsIn
<1>5. \A n \in IdsIn(fs1) : n \in 1..(r + 1)
  BY <1>3, <1>4
<1>6. Counted(h, k, fs1, r + 1)
  <2>1. \A n \in DOMAIN fs1 : fs1[n].id \in 1..(r + 1)
    BY <1>5 DEF IdsIn
  <2>2. k.current \in 0..(r + 1)
    BY DEF CallOK, Counted
  <2> QED
    BY <2>1, <2>2 DEF Counted
<1>7. Unborn(h, k, fs1, r + 1) /\ Exchange(h, k, fs1) /\ Ending(h, k, gone)
  BY <1>3 DEF CallOK, Unborn, Exchange
<1>8. OneFrame(k, fs1, gone)
  BY <1>3, <1>4 DEF CallOK, OneFrame, Distinct
<1>9. FinalEnds(k, fs1, gone) /\ TakenKept(k, fs1, gone, taken) /\ FinalsClean(fs1) /\ ActingOpen(k, acting)
  BY <1>3 DEF CallOK, FinalEnds, TakenKept
<1> QED
  BY <1>3, <1>6, <1>7, <1>8, <1>9 DEF CallOK, f, fs1

\* An operation of a call at work emits: it is not among those that act any more, and its outcome is taken.
LEMMA CallEmits ==
  ASSUME NEW h, NEW k \in CallStates, NEW fs, NEW r, NEW gone, NEW taken, NEW acting,
         CallOK(h, k, fs, r, gone, taken, acting), h # "unborn", ~k.ended,
         NEW op, NEW e \in Events, e.op = op, NEW k1 \in CallStates, NEW taken1, NEW acting1,
         k1.buffered = k.buffered \cup {e}, k1.open = k.open \ {op}, k1.current = k.current, k1.round = k.round,
         k1.finished = k.finished, k1.ended = k.ended, k1.released = k.released, k1.final = k.final,
         acting1 \subseteq acting \ {op},
         taken1 \subseteq taken \cup (IF e.kind = "outcome" THEN {op} ELSE {})
  PROVE  CallOK(h, k1, fs, r, gone, taken1, acting1)
<1>1. Unborn(h, k1, fs, r) /\ Counted(h, k1, fs, r) /\ Exchange(h, k1, fs) /\ Ending(h, k1, gone)
  BY DEF CallOK, Unborn, Counted, Exchange, Ending
<1>2. OneFrame(k1, fs, gone) /\ FinalEnds(k1, fs, gone) /\ FinalsClean(fs)
  BY DEF CallOK, OneFrame, FinalEnds
<1>3. ActingOpen(k1, acting1)
  BY DEF CallOK, ActingOpen
<1>4. /\ OpsIn(k.buffered, "outcome") \subseteq OpsIn(k1.buffered, "outcome")
      /\ e.kind = "outcome" => op \in OpsIn(k1.buffered, "outcome")
  BY DEF OpsIn
<1>5. TakenKept(k1, fs, gone, taken1)
  BY <1>4 DEF CallOK, TakenKept
<1> QED
  BY <1>1, <1>2, <1>3, <1>5 DEF CallOK

\* The frames fs1 and the state k1 that a round written after fs leaves.
Rounded(k, fs, fs1, k1) ==
  /\ fs1 = Append(fs, Frame(k.current, "round", k.buffered))
  /\ k1 = [k EXCEPT !.scheduled = FALSE, !.round = Len(fs) + 1, !.current = NoRequest, !.buffered = {}]

\* What is buffered goes out as a round, on the request that is open.
LEMMA CallRound ==
  ASSUME NEW h, NEW k \in CallStates, NEW fs \in Seq(Frames), NEW r \in Nat, NEW gone \in BOOLEAN, NEW taken, NEW acting,
         CallOK(h, k, fs, r, gone, taken, acting), ~k.ended, k.round = NoRound, k.current # NoRequest,
         NEW fs1, NEW k1, Rounded(k, fs, fs1, k1)
  PROVE  fs1 \in Seq(Frames) /\ k1 \in CallStates /\ CallOK(h, k1, fs1, r, gone, taken, acting)
<1> DEFINE f == Frame(k.current, "round", k.buffered)
<1>0. fs1 = Append(fs, f) /\ k1 = [k EXCEPT !.scheduled = FALSE, !.round = Len(fs) + 1, !.current = NoRequest, !.buffered = {}]
  BY DEF Rounded
<1>1. f \in Frames /\ f.id = k.current /\ f.kind = "round" /\ f.events = k.buffered /\ f.kind \notin Kinds
  BY DEF Frame, Frames, Kinds, CallStates
<1>2. FinalsClean(<<f>>)
  BY <1>1 DEF FinalsClean, Kinds
<1> HIDE DEF f
<1>3. /\ fs1 \in Seq(Frames) /\ IdsIn(fs1) = IdsIn(fs) \cup {k.current} /\ Len(fs) + 1 \in RoundsIn(fs1)
      /\ OutcomesIn(fs1) = OutcomesIn(fs) \cup OpsIn(k.buffered, "outcome")
      /\ ConcludedIn(fs1) = ConcludedIn(fs) /\ (FinalsClean(fs) => FinalsClean(fs1))
      /\ (Distinct(fs) /\ k.current \notin IdsIn(fs) => Distinct(fs1))
  <2>1. ConcludedIn(fs) \in BOOLEAN
    BY DEF ConcludedIn
  <2> QED
    BY <1>0, <1>1, <1>2, <2>1, Framed
<1>4. /\ k1 \in CallStates /\ k1.current = 0 /\ k1.round = Len(fs) + 1 /\ k1.round # 0 /\ k1.buffered = {}
      /\ k1.finished = k.finished /\ k1.ended = k.ended /\ k1.released = k.released /\ k1.final = k.final
      /\ k1.open = k.open
  <2>1. Len(fs) + 1 \in Nat /\ Len(fs) + 1 # 0
    OBVIOUS
  <2> QED
    BY <1>0, <2>1 DEF CallStates, NoRequest, NoRound
<1>5. h # "unborn" /\ k.current \in 1..r /\ \A n \in IdsIn(fs) : n \in 1..r
  BY DEF CallOK, Unborn, FreshCall, Counted, IdsIn, NoRequest
<1>6. Counted(h, k1, fs1, r)
  <2>1. \A n \in DOMAIN fs1 : fs1[n].id \in IdsIn(fs1)
    BY DEF IdsIn
  <2>2. \A n \in IdsIn(fs1) : n \in 1..r
    BY <1>3, <1>5
  <2>3. k1.current \in 0..r /\ r > 0
    BY <1>4, <1>5
  <2> QED
    BY <2>1, <2>2, <2>3 DEF Counted
<1>7. Unborn(h, k1, fs1, r) /\ Exchange(h, k1, fs1) /\ Ending(h, k1, gone)
  BY <1>3, <1>4, <1>5 DEF CallOK, Unborn, Exchange, Ending, NoRequest, NoRound
<1>8. OneFrame(k1, fs1, gone)
  <2>1. 0 \notin IdsIn(fs1)
    BY <1>3, <1>5
  <2> QED
    BY <1>3, <1>4, <2>1 DEF CallOK, OneFrame, Distinct
<1>9. FinalEnds(k1, fs1, gone) /\ TakenKept(k1, fs1, gone, taken) /\ FinalsClean(fs1) /\ ActingOpen(k1, acting)
  BY <1>3, <1>4 DEF CallOK, FinalEnds, TakenKept, ActingOpen
<1> QED
  BY <1>3, <1>4, <1>6, <1>7, <1>8, <1>9 DEF CallOK

\* The state in which a call's final frame is looked at: finished, at work on an open request or behind its
\* round, with what it had buffered.
Finished(h, k, k0, fs, r) ==
  /\ h = "done" /\ k \in CallStates /\ k.finished /\ k.released /\ ~k.ended
  /\ OpsIn(k.buffered, "outcome") = OpsIn(k0.buffered, "outcome") /\ k.open = k0.open
  /\ Counted(h, k, fs, r) /\ Exchange(h, k, fs) /\ k.current \notin IdsIn(fs)

\* The final frame is kept.
LEMMA CallKept ==
  ASSUME NEW h0, NEW k0 \in CallStates, NEW fs \in Seq(Frames), NEW r0 \in Nat, NEW gone \in BOOLEAN, NEW taken, NEW acting,
         CallOK(h0, k0, fs, r0, gone, taken, acting), ~k0.ended,
         NEW h, NEW k, NEW r, Finished(h, k, k0, fs, r), NEW kind \in Kinds
  PROVE  LET k1 == [k EXCEPT !.final = kind]
         IN  k1 \in CallStates /\ CallOK(h, k1, fs, r, gone, taken, acting)
<1> DEFINE k1 == [k EXCEPT !.final = kind]
<1>1. /\ k1 \in CallStates /\ k1.current = k.current /\ k1.round = k.round /\ k1.buffered = k.buffered
      /\ k1.finished /\ ~k1.ended /\ k1.released /\ k1.finished = k1.released /\ k1.ended = FALSE
      /\ k1.open = k.open
  BY DEF CallStates, Finished
<1> HIDE DEF k1
<1>2. gone = FALSE /\ k0.ended = FALSE
  BY DEF CallOK, Ending, CallStates
<1>3. Unborn(h, k1, fs, r) /\ Counted(h, k1, fs, r) /\ Exchange(h, k1, fs) /\ Ending(h, k1, gone)
  BY <1>1, <1>2 DEF Finished, Unborn, Counted, Exchange, Ending
<1>4. OneFrame(k1, fs, gone) /\ FinalEnds(k1, fs, gone) /\ FinalsClean(fs)
  BY <1>1, <1>2 DEF Finished, CallOK, OneFrame, FinalEnds
<1>5. TakenKept(k1, fs, gone, taken) /\ ActingOpen(k1, acting)
  BY <1>1, <1>2 DEF Finished, CallOK, TakenKept, ActingOpen
<1> QED
  BY <1>1, <1>3, <1>4, <1>5 DEF CallOK, k1

\* The frame f that concludes a call, written after fs, and the state k1 it leaves.
Leaves(k, kind, fs, f, fs1, k1) ==
  /\ f = Frame(k.current, kind, OutcomesOf(k)) /\ fs1 = Append(fs, f)
  /\ k1 = [k EXCEPT !.buffered = {}, !.ended = TRUE, !.final = "none"]
  /\ kind = "error" => OutcomesOf(k) = {}

\* The final frame goes out with the outcomes that are left.
LEMMA CallConcluded ==
  ASSUME NEW h0, NEW k0 \in CallStates, NEW fs \in Seq(Frames), NEW r0 \in Nat, NEW gone \in BOOLEAN, NEW taken, NEW acting,
         CallOK(h0, k0, fs, r0, gone, taken, acting), ~k0.ended,
         NEW h, NEW k, NEW r, r \in Nat, Finished(h, k, k0, fs, r), k.round = NoRound, NEW kind \in Kinds,
         NEW f, NEW fs1, NEW k1, Leaves(k, kind, fs, f, fs1, k1)
  PROVE  fs1 \in Seq(Frames) /\ k1 \in CallStates /\ CallOK(h, k1, fs1, r, gone, taken, acting)
<1> USE DEF Leaves
<1>0. k \in CallStates /\ OutcomesOf(k) \in SUBSET Events
  BY DEF Finished, OutcomesOf, CallStates
<1>1. f \in Frames /\ f.id = k.current /\ f.kind = kind /\ f.events = OutcomesOf(k) /\ kind # "round"
  BY <1>0 DEF Frame, Frames, Kinds, CallStates
<1>2. OpsIn(OutcomesOf(k), "attempt") = {} /\ OpsIn(OutcomesOf(k), "outcome") = OpsIn(k0.buffered, "outcome")
  BY DEF Finished, OutcomesOf, OpsIn
<1>3. FinalsClean(<<f>>)
  BY <1>1, <1>2 DEF FinalsClean
<1>4. /\ fs1 \in Seq(Frames) /\ IdsIn(fs1) = IdsIn(fs) \cup {k.current} /\ RoundsIn(fs1) = RoundsIn(fs)
      /\ OutcomesIn(fs1) = OutcomesIn(fs) \cup OpsIn(k0.buffered, "outcome")
      /\ ConcludedIn(fs1) /\ (FinalsClean(fs) => FinalsClean(fs1))
      /\ (Distinct(fs) /\ k.current \notin IdsIn(fs) => Distinct(fs1))
  <2>1. /\ fs1 \in Seq(Frames) /\ IdsIn(fs1) = IdsIn(fs) \cup {f.id}
        /\ OutcomesIn(fs1) = OutcomesIn(fs) \cup OpsIn(f.events, "outcome")
        /\ RoundsIn(fs1) = RoundsIn(fs) \cup (IF f.kind = "round" THEN {Len(fs) + 1} ELSE {})
        /\ ConcludedIn(fs1) = (ConcludedIn(fs) \/ f.kind \in Kinds)
    BY <1>1, Framed
  <2>2. /\ FinalsClean(fs) => FinalsClean(fs1)
        /\ Distinct(fs) /\ f.id \notin IdsIn(fs) => Distinct(fs1)
    BY <1>1, <1>3, Framed
  <2> HIDE DEF Leaves
  <2> QED
    BY <1>1, <1>2, <2>1, <2>2
<1>5. ConcludedIn(fs1) = TRUE
  BY <1>4 DEF ConcludedIn
<1> HIDE DEF Leaves
<1>6. /\ k1 \in CallStates /\ k1.current = k.current /\ k1.round = 0 /\ k1.ended = TRUE
      /\ k1.finished = TRUE /\ k1.released = TRUE /\ k1.final = "none"
  BY <1>0 DEF Leaves, CallStates, NoRound, Finished
<1>7. gone = FALSE /\ k0.ended = FALSE
  BY DEF CallOK, Ending, CallStates
<1>8. h # "unborn" /\ k.current \in 1..r /\ \A n \in IdsIn(fs) : n \in 1..r
  BY DEF Finished, Counted, Exchange, IdsIn, NoRequest, NoRound
<1>9. Counted(h, k1, fs1, r)
  <2>1. \A n \in DOMAIN fs1 : fs1[n].id \in IdsIn(fs1)
    BY DEF IdsIn
  <2>2. \A n \in IdsIn(fs1) : n \in 1..r
    BY <1>4, <1>8
  <2>3. k1.current \in 0..r /\ r > 0
    BY <1>6, <1>8
  <2> QED
    BY <2>1, <2>2, <2>3 DEF Counted
<1>10. Unborn(h, k1, fs1, r) /\ Exchange(h, k1, fs1) /\ Ending(h, k1, gone)
  BY <1>6, <1>7, <1>8 DEF Unborn, Exchange, Ending, NoRound, Finished
<1>11. OneFrame(k1, fs1, gone)
  BY <1>4, <1>6, <1>7 DEF CallOK, OneFrame, Distinct, Finished
<1>12. FinalEnds(k1, fs1, gone) /\ FinalsClean(fs1) /\ ActingOpen(k1, acting)
  BY <1>4, <1>5, <1>6 DEF CallOK, FinalEnds, ActingOpen
<1>13. TakenKept(k1, fs1, gone, taken)
  BY <1>4, <1>7 DEF CallOK, TakenKept
<1> QED
  BY <1>4, <1>6, <1>9, <1>10, <1>11, <1>12, <1>13 DEF CallOK

\* Nothing of the exchange changes: the call's operations go on, or its round's end is unscheduled.
LEMMA CallGoesOn ==
  ASSUME NEW h, NEW k, NEW fs, NEW r, NEW gone, NEW taken, NEW acting,
         CallOK(h, k, fs, r, gone, taken, acting), h # "unborn", NEW k1, NEW acting1,
         k1.buffered = k.buffered, k1.current = k.current, k1.round = k.round,
         k1.finished = k.finished, k1.ended = k.ended, k1.released = k.released, k1.final = k.final,
         ~k.ended => acting1 \subseteq k1.open
  PROVE  CallOK(h, k1, fs, r, gone, taken, acting1)
BY DEF CallOK, Unborn, Counted, Exchange, Ending, OneFrame, FinalEnds, TakenKept, ActingOpen

\* The handler of a dropped call concludes.
LEMMA CallWithheld ==
  ASSUME NEW k, NEW fs, NEW r, NEW gone, NEW taken, NEW acting,
         CallOK("running", k, fs, r, gone, taken, acting)
  PROVE  CallOK("done", k, fs, r, gone, taken, acting)
BY DEF CallOK, Unborn, Counted, Exchange, Ending

\* And, the cancellation being forgotten, its final frame goes out late.
LEMMA CallLate ==
  ASSUME NEW h, h # "unborn", NEW k \in CallStates, NEW fs \in Seq(Frames), NEW r \in Nat, NEW gone, NEW taken, NEW acting,
         CallOK(h, k, fs, r, gone, taken, acting), gone, NEW kind \in Kinds
  PROVE  LET fs1 == Append(fs, Frame(1, kind, {}))
         IN  fs1 \in Seq(Frames) /\ CallOK(h, k, fs1, r, gone, taken, acting)
<1> DEFINE f == Frame(1, kind, {})
           fs1 == Append(fs, f)
<1>1. f \in Frames /\ f.id = 1 /\ f.kind \in Kinds /\ f.kind # "round" /\ f.events = {}
  BY DEF Frame, Frames, Kinds, Events
<1>2. FinalsClean(<<f>>)
  BY <1>1 DEF FinalsClean, OpsIn
<1> HIDE DEF f
<1>3. fs1 \in Seq(Frames) /\ IdsIn(fs1) = IdsIn(fs) \cup {1} /\ RoundsIn(fs1) = RoundsIn(fs)
  <2>1. /\ fs1 \in Seq(Frames) /\ IdsIn(fs1) = IdsIn(fs) \cup {f.id}
        /\ RoundsIn(fs1) = RoundsIn(fs) \cup (IF f.kind = "round" THEN {Len(fs) + 1} ELSE {})
    BY <1>1, Framed
  <2> HIDE DEF fs1
  <2> QED
    BY <1>1, <2>1
<1>4. FinalsClean(fs) => FinalsClean(fs1)
  BY <1>1, <1>2, Framed
<1> HIDE DEF fs1
<1>5. r > 0 /\ \A n \in IdsIn(fs) : n \in 1..r
  BY DEF CallOK, Counted, IdsIn
<1>6. Counted(h, k, fs1, r)
  <2>1. \A n \in DOMAIN fs1 : fs1[n].id \in IdsIn(fs1)
    BY DEF IdsIn
  <2>2. \A n \in IdsIn(fs1) : n \in 1..r
    BY <1>3, <1>5
  <2> QED
    BY <2>1, <2>2 DEF CallOK, Counted
<1>7. Unborn(h, k, fs1, r) /\ Exchange(h, k, fs1) /\ Ending(h, k, gone) /\ FinalsClean(fs1)
  BY <1>3, <1>4 DEF CallOK, Unborn, Exchange
<1>8. OneFrame(k, fs1, gone) /\ FinalEnds(k, fs1, gone) /\ TakenKept(k, fs1, gone, taken) /\ ActingOpen(k, acting)
  BY DEF CallOK, OneFrame, FinalEnds, TakenKept
<1> QED
  BY <1>3, <1>6, <1>7, <1>8 DEF CallOK, f, fs1

\* An entry becomes the most recent one of a table; beyond the bound, the least recent one makes room.
LEMMA Queued ==
  ASSUME NEW S, NEW s \in Seq(S), IsInjective(s), NEW e \in S, NEW N \in Nat \ {0}, Len(s) <= N
  PROVE  LET line == Append(RemoveFirst(s, e), e)
             over == IF Len(line) > N THEN {Head(line)} ELSE {}
             kept == IF over = {} THEN line ELSE Tail(line)
         IN  /\ kept \in Seq(S) /\ IsInjective(kept) /\ Len(kept) <= N
             /\ over \subseteq Range(s) \ {e} /\ Range(kept) = (Range(s) \cup {e}) \ over
<1> DEFINE rest == RemoveFirst(s, e)
           line == Append(rest, e)
<1>1. rest \in Seq(S) /\ IsInjective(rest) /\ Range(rest) = Range(s) \ {e} /\ Len(rest) <= Len(s)
  BY Removed
<1> HIDE DEF rest
<1>2. e \notin Range(rest)
  BY <1>1
<1>3. /\ line \in Seq(S) /\ IsInjective(line) /\ Range(line) = Range(rest) \cup {e}
      /\ Len(line) = Len(rest) + 1
  BY <1>1, <1>2, Appended
<1>4. Len(rest) \in Nat /\ Len(s) \in Nat /\ Len(line) \in Nat
  BY <1>1, <1>3
<1>5. CASE ~(Len(line) > N)
  <2>1. Len(line) <= N
    BY <1>4, <1>5
  <2> HIDE DEF line
  <2> QED
    BY <1>1, <1>3, <1>5, <2>1 DEF rest, line
<1>6. CASE Len(line) > N
  <2>1. Len(rest) > 0 /\ rest # <<>> /\ Len(line) - 1 <= N
    BY <1>1, <1>3, <1>4, <1>6
  <2>2. Head(line) = Head(rest) /\ line # <<>>
    BY <1>1, <1>4, <2>1
  <2>3. Head(rest) \in Range(rest)
    BY <1>1, <2>1, Shortened
  <2> HIDE DEF line
  <2>4. /\ Tail(line) \in Seq(S) /\ IsInjective(Tail(line)) /\ Range(Tail(line)) = Range(line) \ {Head(line)}
        /\ Len(Tail(line)) = Len(line) - 1
    BY <1>3, <2>2, Shortened
  <2> QED
    BY <1>1, <1>3, <1>6, <2>1, <2>2, <2>3, <2>4 DEF rest, line
<1> QED
  BY <1>5, <1>6

-----------------------------------------------------------------------------
(* What one step does to the tables.                                        *)

\* A call's state is of its type, and what holds of it.
LEMMA OfCall ==
  ASSUME SeamInv, NEW c \in Calls
  PROVE  /\ call[c] \in CallStates /\ handler[c] \in Handlers /\ frames[c] \in Seq(Frames)
         /\ requests[c] \in Nat /\ requests[c] <= MaxRequests /\ (c \in dropped) \in BOOLEAN /\ CallView(c)
         /\ call[c].open \subseteq OpsOf(c) /\ MaxRequests \in Nat /\ SessionOf[c] \in Sessions
<1>1. MaxRequests \in Nat /\ SessionOf[c] \in Sessions
  BY SeamAssumption
<1>2. requests[c] \in 0..MaxRequests
  BY DEF SeamInv, StateType
<1> QED
  BY <1>1, <1>2 DEF SeamInv, StateType, CallsOK

\* Fewer of a call's operations act when its stages are only settled.
LEMMA ActsNoMore ==
  ASSUME \A op \in Ops : stage'[op] = "acting" => stage[op] = "acting"
  PROVE  \A d \in Calls : Acting(d)' \subseteq Acting(d)
BY DEF Acting, OpsOf

\* A call that is not the step's own is left as it is, or dropped.
LEMMA OtherCall ==
  ASSUME SeamInv, NEW d \in Calls, handler'[d] = handler[d], frames'[d] = frames[d], requests'[d] = requests[d],
         handed' \cap OpsOf(d) = handed \cap OpsOf(d), Acting(d)' \subseteq Acting(d),
         \/ call'[d] = call[d] /\ (d \in dropped') = (d \in dropped)
         \/ call'[d] = EndedCall(d) /\ d \in dropped' /\ handler[d] # "unborn"
  PROVE  CallView(d)' /\ call'[d].open \subseteq OpsOf(d)
<1>1. call[d] \in CallStates /\ CallView(d) /\ call[d].open \subseteq OpsOf(d)
  BY OfCall
<1>2. CallOK(handler[d], call[d], frames[d], requests[d], d \in dropped, handed \cap OpsOf(d), Acting(d))
  BY <1>1 DEF CallView
<1>3. OpsOf(d)' = OpsOf(d)
  BY DEF OpsOf
<1>4. CASE call'[d] = call[d] /\ (d \in dropped') = (d \in dropped)
  <2>1. CallOK(handler[d], call[d], frames[d], requests[d], d \in dropped, handed \cap OpsOf(d), Acting(d)')
    BY <1>2, CallStays
  <2> QED
    BY <1>1, <1>3, <1>4, <2>1 DEF CallView
<1>5. CASE call'[d] = EndedCall(d) /\ d \in dropped' /\ handler[d] # "unborn"
  <2>1. EndedCall(d) = Ended(call[d])
    BY DEF EndedCall, Ended
  <2>2. CallOK(handler[d], Ended(call[d]), frames[d], requests[d], TRUE, handed \cap OpsOf(d), Acting(d)')
    BY <1>1, <1>2, <1>5, CallDropped
  <2>3. Ended(call[d]).open = call[d].open
    BY <1>1 DEF Ended, CallStates
  <2>4. (d \in dropped') = TRUE
    BY <1>5
  <2> QED
    BY <1>1, <1>3, <1>5, <2>1, <2>2, <2>3, <2>4 DEF CallView
<1> QED
  BY <1>4, <1>5

\* EndedCall is of its type.
LEMMA EndedType ==
  ASSUME SeamInv, NEW d \in Calls
  PROVE  /\ EndedCall(d) \in CallStates /\ EndedCall(d).finished /\ EndedCall(d).ended /\ EndedCall(d).released = TRUE
         /\ EndedCall(d).buffered = call[d].buffered /\ EndedCall(d).open = call[d].open
BY OfCall DEF EndedCall, CallStates

\* What a concluding step of c has done beside its final frame.
Concludes(c, k) ==
  /\ ~call[c].ended
  /\ handler' = [handler EXCEPT ![c] = "done"] /\ handed' = handed
  /\ requests' \in [Calls -> 0..MaxRequests] /\ \A d \in Calls \ {c} : requests'[d] = requests[d]
  /\ \A d \in Calls : Acting(d)' \subseteq Acting(d)
  /\ Finished("done", k, call[c], frames[c], requests'[c])

\* What is true after it.
AfterConcluding(c) ==
  /\ call' \in [Calls -> CallStates] /\ frames' \in [Calls -> Seq(Frames)] /\ waiting' \in Seq(Calls)
  /\ CallsOK' /\ WaitingOK'
  /\ \A d \in Calls \ {c} : call'[d].released = call[d].released
  /\ call'[c].released = TRUE

\* The call joins those that wait.
LEMMA StepKeeps ==
  ASSUME SeamInv, NEW c \in Calls, NEW k, NEW kind \in Kinds, Concludes(c, k), KeepWaiting(c, k, kind)
  PROVE  AfterConcluding(c)
<1> DEFINE line == Append(RemoveFirst(waiting, c), c)
           over == IF Len(line) > MaxHeld THEN {Head(line)} ELSE {}
           kept == IF over = {} THEN line ELSE Tail(line)
           k1 == [k EXCEPT !.final = kind]
<1>1. /\ waiting' = kept /\ dropped' = dropped \cup over /\ frames' = frames
      /\ call' = [d \in Calls |-> IF d = c THEN k1 ELSE IF d \in over THEN EndedCall(d) ELSE call[d]]
  BY DEF KeepWaiting
<1>2. waiting \in Seq(Calls) /\ IsInjective(waiting) /\ Len(waiting) <= MaxHeld /\ MaxHeld \in Nat \ {0}
  BY SeamAssumption DEF SeamInv, StateType, WaitingOK
<1>3. /\ kept \in Seq(Calls) /\ IsInjective(kept) /\ Len(kept) <= MaxHeld
      /\ over \subseteq Range(waiting) \ {c} /\ Range(kept) = (Range(waiting) \cup {c}) \ over
  BY <1>2, Queued
<1> HIDE DEF over, kept, line
<1>4. /\ k1 \in CallStates /\ k1.finished /\ ~k1.ended /\ k1.released = TRUE /\ k1.open = call[c].open
  BY DEF Concludes, Finished, CallStates
<1> DEFINE View(gone) == CallOK("done", k1, frames[c], requests'[c], gone, handed \cap OpsOf(c), Acting(c)')
<1>5. View(c \in dropped)
  <2>1. /\ call[c] \in CallStates /\ frames[c] \in Seq(Frames) /\ requests[c] \in Nat /\ (c \in dropped) \in BOOLEAN
        /\ CallOK(handler[c], call[c], frames[c], requests[c], c \in dropped, handed \cap OpsOf(c), Acting(c))
    BY OfCall DEF CallView
  <2>2. Acting(c)' \subseteq Acting(c) /\ ~call[c].ended /\ Finished("done", k, call[c], frames[c], requests'[c])
    BY DEF Concludes
  <2>3. CallOK(handler[c], call[c], frames[c], requests[c], c \in dropped, handed \cap OpsOf(c), Acting(c)')
    BY <2>1, <2>2, CallStays
  <2> DEFINE gone == c \in dropped
             taken == handed \cap OpsOf(c)
             acting == Acting(c)'
  <2>4. gone \in BOOLEAN /\ CallOK(handler[c], call[c], frames[c], requests[c], gone, taken, acting)
    BY <2>1, <2>3
  <2> HIDE DEF gone, taken, acting
  <2>5. CallOK("done", k1, frames[c], requests'[c], gone, taken, acting)
    BY <2>1, <2>2, <2>4, CallKept
  <2> QED
    BY <2>5 DEF gone, taken, acting
<1> HIDE DEF k1
<1>6. call' \in [Calls -> CallStates]
  BY <1>1, <1>4, OfCall, EndedType
<1>7. \A d \in over : d \in Calls /\ d # c /\ call[d].finished /\ ~call[d].ended /\ handler[d] # "unborn"
                      /\ call[d].released = TRUE
  <2> TAKE d \in over
  <2>1. d \in Range(waiting) /\ d # c /\ d \in Calls
    BY <1>2, <1>3 DEF Range
  <2>2. call[d].finished /\ ~call[d].ended
    BY <2>1 DEF SeamInv, WaitingOK, Held
  <2>3. call[d] \in CallStates /\ CallView(d)
    BY <2>1, OfCall
  <2> QED
    BY <2>1, <2>2, <2>3 DEF CallView, CallOK, Ending, Unborn, FreshCall, CallStates
<1>8. ASSUME NEW d \in Calls
      PROVE  CallView(d)' /\ call'[d].open \subseteq OpsOf(d)
  <2>1. OpsOf(d)' = OpsOf(d) /\ handed' = handed /\ Acting(d)' \subseteq Acting(d)
    BY DEF OpsOf, Concludes
  <2>2. CASE d = c
    <3>1. call'[c] = k1 /\ (c \in dropped') = (c \in dropped) /\ handler'[c] = "done" /\ frames'[c] = frames[c]
      BY <1>1, <1>7 DEF Concludes, SeamInv, StateType
    <3> QED
      BY <1>4, <1>5, <2>1, <2>2, <3>1, OfCall DEF CallView
  <2>3. CASE d # c
    <3>1. handler'[d] = handler[d] /\ frames'[d] = frames[d] /\ requests'[d] = requests[d]
      BY <1>1, <2>3 DEF Concludes, SeamInv, StateType
    <3>2. \/ call'[d] = call[d] /\ (d \in dropped') = (d \in dropped)
          \/ call'[d] = EndedCall(d) /\ d \in dropped' /\ handler[d] # "unborn"
      BY <1>1, <1>7, <2>3
    <3> QED
      BY <2>1, <3>1, <3>2, OtherCall
  <2> QED
    BY <2>2, <2>3
<1>9. CallsOK'
  BY <1>8 DEF CallsOK, OpsOf
<1>10. \A d \in Calls : Held(d)' = (call'[d].finished /\ ~call'[d].ended)
  <2> TAKE d \in Calls
  <2>1. Held(d) = (call[d].finished /\ ~call[d].ended) /\ Held(d) = (d \in Range(waiting))
    BY DEF SeamInv, WaitingOK, Held
  <2>2. Held(d)' = (d \in (Range(waiting) \cup {c}) \ over)
    BY <1>1, <1>3 DEF Held
  <2>3. CASE d = c
    BY <1>1, <1>4, <1>7, <2>2, <2>3
  <2>4. CASE d # c /\ d \in over
    <3>1. call'[d] = EndedCall(d)
      BY <1>1, <2>4
    <3>2. d \notin Range(waiting')
      BY <1>1, <1>3, <2>4
    <3>3. call'[d].ended
      BY <3>1, EndedType
    <3> QED
      BY <3>2, <3>3 DEF Held
  <2>5. CASE d # c /\ d \notin over
    BY <1>1, <2>1, <2>2, <2>5
  <2> QED
    BY <2>3, <2>4, <2>5
<1>11. WaitingOK'
  BY <1>1, <1>3, <1>10 DEF WaitingOK
<1>12. /\ \A d \in Calls \ {c} : call'[d].released = call[d].released
       /\ call'[c].released = TRUE
  BY <1>1, <1>4, <1>7, EndedType
<1> QED
  BY <1>1, <1>3, <1>6, <1>9, <1>11, <1>12 DEF AfterConcluding, SeamInv, StateType

\* The final frame goes out, or waits behind a round that is not out yet.
LEMMA StepFinal ==
  ASSUME SeamInv, NEW c \in Calls, NEW k, NEW kind \in Kinds, Concludes(c, k), k.round = NoRound, k.final \in Kinds \cup {"none"},
         FinalFrame(c, k, kind)
  PROVE  AfterConcluding(c)
<1>0. k \in CallStates /\ OutcomesOf(k) \in SUBSET Events
  BY DEF Concludes, Finished, OutcomesOf, CallStates
<1>1. CASE kind = "error" /\ OutcomesOf(k) # {}
  <2> DEFINE k2 == [k EXCEPT !.buffered = OutcomesOf(k), !.scheduled = TRUE]
  <2>1. /\ k2 \in CallStates /\ k2.buffered = OutcomesOf(k) /\ k2.current = k.current /\ k2.round = k.round
        /\ k2.finished = k.finished /\ k2.ended = k.ended /\ k2.released = k.released /\ k2.open = k.open
    BY <1>0 DEF CallStates
  <2>2. KeepWaiting(c, k2, kind)
    <3>1. [k EXCEPT !.buffered = OutcomesOf(k), !.scheduled = TRUE, !.final = kind] = [k2 EXCEPT !.final = kind]
      BY <1>0 DEF CallStates
    <3> QED
      BY <1>1, <3>1 DEF FinalFrame
  <2> HIDE DEF k2
  <2>3. OpsIn(OutcomesOf(k), "outcome") = OpsIn(k.buffered, "outcome")
    BY DEF OutcomesOf, OpsIn
  <2>4. Finished("done", k2, call[c], frames[c], requests'[c])
    BY <2>1, <2>3 DEF Concludes, Finished, Counted, Exchange
  <2>5. Concludes(c, k2)
    BY <2>4 DEF Concludes
  <2> QED
    BY <2>2, <2>5, StepKeeps
<1>2. CASE ~(kind = "error" /\ OutcomesOf(k) # {})
  <2> DEFINE f == Frame(k.current, kind, OutcomesOf(k))
             k1 == [k EXCEPT !.buffered = {}, !.ended = TRUE, !.final = "none"]
  <2>1. /\ frames' = [frames EXCEPT ![c] = Append(@, f)] /\ call' = [call EXCEPT ![c] = k1]
        /\ waiting' = RemoveFirst(waiting, c) /\ dropped' = dropped
    BY <1>2 DEF FinalFrame, Written
  <2>2. /\ k1 \in CallStates /\ k1.ended /\ k1.released = TRUE /\ k1.open = call[c].open
    BY <1>0 DEF Concludes, Finished, CallStates
  <2>3. /\ Append(frames[c], f) \in Seq(Frames)
        /\ CallOK("done", k1, Append(frames[c], f), requests'[c], c \in dropped, handed \cap OpsOf(c), Acting(c)')
    <3>1. /\ call[c] \in CallStates /\ frames[c] \in Seq(Frames) /\ requests[c] \in Nat /\ (c \in dropped) \in BOOLEAN
          /\ CallOK(handler[c], call[c], frames[c], requests[c], c \in dropped, handed \cap OpsOf(c), Acting(c))
      BY OfCall DEF CallView
    <3>2. Acting(c)' \subseteq Acting(c) /\ ~call[c].ended /\ Finished("done", k, call[c], frames[c], requests'[c])
      BY DEF Concludes
    <3>3. CallOK(handler[c], call[c], frames[c], requests[c], c \in dropped, handed \cap OpsOf(c), Acting(c)')
      BY <3>1, <3>2, CallStays
    <3>4. requests'[c] \in Nat /\ (kind = "error" => OutcomesOf(k) = {})
      BY <1>2, SeamAssumption DEF Concludes
    <3> DEFINE gone == c \in dropped
               taken == handed \cap OpsOf(c)
               acting == Acting(c)'
    <3>5. gone \in BOOLEAN /\ CallOK(handler[c], call[c], frames[c], requests[c], gone, taken, acting)
      BY <3>1, <3>3
    <3> HIDE DEF gone, taken, acting, k1, f
    <3>6. /\ Append(frames[c], f) \in Seq(Frames)
          /\ CallOK("done", k1, Append(frames[c], f), requests'[c], gone, taken, acting)
      <4> DEFINE fs1 == Append(frames[c], f)
      <4>1. Leaves(k, kind, frames[c], f, fs1, k1)
        BY <3>4 DEF Leaves, f, k1
      <4> HIDE DEF fs1
      <4>2. fs1 \in Seq(Frames) /\ CallOK("done", k1, fs1, requests'[c], gone, taken, acting)
        BY <3>1, <3>2, <3>4, <3>5, <4>1, CallConcluded
      <4> QED
        BY <4>2 DEF fs1
    <3> QED
      BY <3>6 DEF gone, taken, acting
  <2> HIDE DEF k1, f
  <2>4. call' \in [Calls -> CallStates] /\ frames' \in [Calls -> Seq(Frames)]
    BY <2>1, <2>2, <2>3 DEF SeamInv, StateType
  <2>5. waiting \in Seq(Calls) /\ IsInjective(waiting) /\ Len(waiting) <= MaxHeld
    BY DEF SeamInv, StateType, WaitingOK
  <2>6. /\ waiting' \in Seq(Calls) /\ IsInjective(waiting') /\ Range(waiting') = Range(waiting) \ {c}
        /\ Len(waiting') <= MaxHeld
    <3>1. /\ waiting' \in Seq(Calls) /\ IsInjective(waiting') /\ Range(waiting') = Range(waiting) \ {c}
          /\ Len(waiting') <= Len(waiting)
      BY <2>1, <2>5, Removed
    <3>2. Len(waiting') \in Nat /\ Len(waiting) \in Nat /\ MaxHeld \in Nat
      BY <2>5, <3>1, SeamAssumption
    <3> QED
      BY <2>5, <3>1, <3>2
  <2>7. ASSUME NEW d \in Calls
        PROVE  CallView(d)' /\ call'[d].open \subseteq OpsOf(d)
    <3>1. OpsOf(d)' = OpsOf(d) /\ handed' = handed /\ Acting(d)' \subseteq Acting(d)
      BY DEF OpsOf, Concludes
    <3>2. CASE d = c
      <4>1. /\ call'[c] = k1 /\ dropped' = dropped /\ handler'[c] = "done"
            /\ frames'[c] = Append(frames[c], f)
        BY <2>1 DEF Concludes, SeamInv, StateType
      <4> QED
        BY <2>2, <2>3, <3>1, <3>2, <4>1, OfCall DEF CallView
    <3>3. CASE d # c
      <4>1. /\ handler'[d] = handler[d] /\ frames'[d] = frames[d] /\ requests'[d] = requests[d]
            /\ call'[d] = call[d] /\ dropped' = dropped
        BY <2>1, <3>3 DEF Concludes, SeamInv, StateType
      <4> QED
        BY <3>1, <4>1, OtherCall
    <3> QED
      BY <3>2, <3>3
  <2>8. CallsOK'
    BY <2>7 DEF CallsOK, OpsOf
  <2>9. \A d \in Calls : Held(d)' = (call'[d].finished /\ ~call'[d].ended)
    <3> TAKE d \in Calls
    <3>1. Held(d) = (call[d].finished /\ ~call[d].ended) /\ Held(d) = (d \in Range(waiting))
      BY DEF SeamInv, WaitingOK, Held
    <3>2. Held(d)' = (d \in Range(waiting) \ {c})
      BY <2>6 DEF Held
    <3>3. CASE d = c
      <4>1. call'[c] = k1
        BY <2>1 DEF SeamInv, StateType
      <4> QED
        BY <2>2, <3>2, <3>3, <4>1
    <3>4. CASE d # c
      <4>1. call'[d] = call[d]
        BY <2>1, <3>4 DEF SeamInv, StateType
      <4> QED
        BY <3>1, <3>2, <3>4, <4>1
    <3> QED
      BY <3>3, <3>4
  <2>10. WaitingOK'
    BY <2>6, <2>9 DEF WaitingOK
  <2>11. /\ \A d \in Calls \ {c} : call'[d].released = call[d].released
         /\ call'[c].released = TRUE
    BY <2>1, <2>2 DEF SeamInv, StateType
  <2> QED
    BY <2>4, <2>6, <2>8, <2>10, <2>11 DEF AfterConcluding
<1> QED
  BY <1>1, <1>2

-----------------------------------------------------------------------------
(* What one step does to the audit sessions.                                *)

SessionStates == [known : BOOLEAN, live : Nat, next : Nat]

\* The requests a session serves, when none comes or goes.
ServedAsBefore ==
  \A d \in Calls : (handler'[d] = "unborn") = (handler[d] = "unborn") /\ call'[d].released = call[d].released

LEMMA ServingStays ==
  ASSUME NEW s, \A d \in Calls : SessionOf[d] = s =>
           (handler'[d] = "unborn") = (handler[d] = "unborn") /\ call'[d].released = call[d].released
  PROVE  Serving(s)' = Serving(s)
BY DEF Serving

LEMMA SessionStays ==
  ASSUME NEW s, SessionOK(s), Serving(s)' = Serving(s), (s \in Range(idle)') = (s \in Range(idle)),
         session'[s].known = session[s].known, session'[s].live = session[s].live
  PROVE  SessionOK(s)'
BY DEF SessionOK

LEMMA SessionsStay ==
  ASSUME SessionsOK, ServedAsBefore, idle' = idle,
         \A s \in Sessions : session'[s].known = session[s].known /\ session'[s].live = session[s].live
  PROVE  SessionsOK'
<1>1. \A s \in Sessions : Serving(s)' = Serving(s)
  BY ServingStays DEF ServedAsBefore
<1>2. Range(idle)' = Range(idle)
  BY DEF Range
<1> QED
  BY <1>1, <1>2, SessionStays DEF SessionsOK

\* A session becomes the most recently idle one; the least recent one may make room.
LEMMA KeptIdle ==
  ASSUME SeamInv, NEW s \in Sessions, KeepIdle(s)
  PROVE  \E over \in SUBSET (Range(idle) \ {s}) :
           /\ idle' \in Seq(Sessions) /\ IsInjective(idle') /\ Len(idle') <= MaxHeld
           /\ Range(idle') = (Range(idle) \cup {s}) \ over
           /\ session' = [x \in Sessions |-> IF x = s THEN [session[x] EXCEPT !.live = 0]
                                             ELSE [session[x] EXCEPT !.known = @ /\ x \notin over]]
<1> DEFINE line == Append(RemoveFirst(idle, s), s)
           over == IF Len(line) > MaxHeld THEN {Head(line)} ELSE {}
           kept == IF over = {} THEN line ELSE Tail(line)
<1>1. /\ idle' = kept
      /\ session' = [x \in Sessions |-> IF x = s THEN [session[x] EXCEPT !.live = 0]
                                        ELSE [session[x] EXCEPT !.known = @ /\ x \notin over]]
  BY DEF KeepIdle
<1>2. idle \in Seq(Sessions) /\ IsInjective(idle) /\ Len(idle) <= MaxHeld /\ MaxHeld \in Nat \ {0}
  BY SeamAssumption DEF SeamInv, StateType, IdleOK
<1>3. /\ kept \in Seq(Sessions) /\ IsInjective(kept) /\ Len(kept) <= MaxHeld
      /\ over \subseteq Range(idle) \ {s} /\ Range(kept) = (Range(idle) \cup {s}) \ over
  BY <1>2, Queued
<1> HIDE DEF line, over, kept
<1> QED
  BY <1>1, <1>3

\* The tables' types, whichever way a request is released.
LEMMA ReleaseTypes ==
  ASSUME SeamInv, NEW c \in Calls, NEW continues, Release(c, continues)
  PROVE  session' \in [Sessions -> SessionStates] /\ idle' \in Seq(Sessions) /\ IdleOK'
<1> DEFINE s == SessionOf[c]
<1>1. s \in Sessions /\ MaxHeld \in Nat \ {0}
  BY SeamAssumption
<1>2. /\ session \in [Sessions -> SessionStates] /\ idle \in Seq(Sessions)
      /\ IsInjective(idle) /\ Len(idle) <= MaxHeld
  BY DEF SeamInv, StateType, IdleOK, SessionStates
<1>3. RemoveFirst(idle, s) \in Seq(Sessions) /\ IsInjective(RemoveFirst(idle, s)) /\ Len(RemoveFirst(idle, s)) <= MaxHeld
  <2>1. /\ RemoveFirst(idle, s) \in Seq(Sessions) /\ IsInjective(RemoveFirst(idle, s))
        /\ Len(RemoveFirst(idle, s)) <= Len(idle)
    BY <1>2, Removed
  <2>2. Len(RemoveFirst(idle, s)) \in Nat /\ Len(idle) \in Nat /\ MaxHeld \in Nat
    BY <1>1, <1>2, <2>1
  <2> QED
    BY <1>2, <2>1, <2>2
<1> HIDE DEF s
<1>4. CASE call[c].released
  BY <1>2, <1>4 DEF Release, IdleOK
<1>5. CASE ~call[c].released /\ session[s].live > 1
  <2>1. session' = [session EXCEPT ![s].live = @ - 1] /\ idle' = idle
    BY <1>5 DEF Release, s
  <2>2. session[s].live - 1 \in Nat
    BY <1>1, <1>2, <1>5 DEF SessionStates
  <2> QED
    BY <1>1, <1>2, <2>1, <2>2 DEF SessionStates, IdleOK
<1>6. CASE ~call[c].released /\ ~(session[s].live > 1) /\ continues
  <2>1. PICK over \in SUBSET (Range(idle) \ {s}) :
          /\ idle' \in Seq(Sessions) /\ IsInjective(idle') /\ Len(idle') <= MaxHeld
          /\ session' = [x \in Sessions |-> IF x = s THEN [session[x] EXCEPT !.live = 0]
                                            ELSE [session[x] EXCEPT !.known = @ /\ x \notin over]]
    <3>1. KeepIdle(s)
      BY <1>6 DEF Release, s
    <3> QED
      BY <1>1, <3>1, KeptIdle
  <2>3. session' \in [Sessions -> SessionStates]
    <3>1. \A x \in Sessions : (session[x].known /\ x \notin over) \in BOOLEAN
      OBVIOUS
    <3> QED
      BY <1>2, <2>1, <3>1 DEF SessionStates
  <2> QED
    BY <2>1, <2>3 DEF IdleOK
<1>7. CASE ~call[c].released /\ ~(session[s].live > 1) /\ ~continues
  <2>1. session' = [session EXCEPT ![s].known = FALSE, ![s].live = 0] /\ idle' = RemoveFirst(idle, s)
    BY <1>7 DEF Release, s
  <2> QED
    BY <1>1, <1>2, <1>3, <2>1 DEF SessionStates, IdleOK
<1> QED
  BY <1>4, <1>5, <1>6, <1>7

\* A request ends: its session serves one fewer, and is kept idle, forgotten, or evicts another.
LEMMA SessionReleased ==
  ASSUME SeamInv, SessionsOK, NEW c \in Calls, NEW continues, Release(c, continues), handler[c] # "unborn",
         \A d \in Calls : (handler'[d] = "unborn") = (handler[d] = "unborn"),
         \A d \in Calls \ {c} : call'[d].released = call[d].released, call'[c].released = TRUE
  PROVE  SessionsOK'
<1> DEFINE s == SessionOf[c]
<1>1. s \in Sessions /\ MaxHeld \in Nat \ {0} /\ \A d \in Calls : call[d].released \in BOOLEAN
  BY SeamAssumption, OfCall DEF CallStates
<1>2. /\ session \in [Sessions -> SessionStates] /\ idle \in Seq(Sessions)
      /\ IsInjective(idle) /\ Len(idle) <= MaxHeld
  BY DEF SeamInv, StateType, IdleOK, SessionStates
<1>3. CASE call[c].released
  <2>1. ServedAsBefore
    BY <1>1, <1>3 DEF ServedAsBefore
  <2>2. session' = session /\ idle' = idle
    BY <1>3 DEF Release
  <2> QED
    BY <2>1, <2>2, SessionsStay
<1>4. CASE ~call[c].released
  <2>1. c \in Serving(s) /\ Serving(s)' = Serving(s) \ {c}
    BY <1>4 DEF Serving
  <2>2. \A x \in Sessions \ {s} : Serving(x)' = Serving(x)
    BY ServingStays
  <2>3. IsFiniteSet(Serving(s)) /\ session[s].live = Cardinality(Serving(s)) /\ session[s].known
    BY <1>1, <2>1 DEF SessionsOK, SessionOK
  <2> HIDE DEF s
  <2>4. /\ IsFiniteSet(Serving(s)') /\ Cardinality(Serving(s)') = session[s].live - 1
        /\ session[s].live \in Nat /\ session[s].live > 0
    <3>1. IsFiniteSet(Serving(s) \ {c}) /\ Cardinality(Serving(s) \ {c}) = Cardinality(Serving(s)) - 1
      BY <2>1, <2>3, FS_RemoveElement
    <3>2. Cardinality(Serving(s)) \in Nat /\ Cardinality(Serving(s)) # 0
      BY <2>1, <2>3, FS_CardinalityType, FS_EmptySet
    <3> QED
      BY <2>1, <2>3, <3>1, <3>2
  <2>5. ~(session[s].live > 1) => Serving(s)' = {}
    <3>1. ~(session[s].live > 1) => Cardinality(Serving(s)') = 0
      BY <2>4
    <3> QED
      BY <2>1, <2>4, <3>1, FS_EmptySet
  <2>6. s \notin Range(idle)
    BY <1>1, <2>1 DEF SessionsOK, SessionOK
  <2>7. CASE session[s].live > 1
    <3>1. session' = [session EXCEPT ![s].live = @ - 1] /\ idle' = idle
      BY <1>4, <2>7 DEF Release, s
    <3>2. /\ session'[s].live = session[s].live - 1 /\ session'[s].known
          /\ \A x \in Sessions \ {s} : session'[x] = session[x]
      BY <1>1, <1>2, <2>3, <3>1 DEF SessionStates
    <3>3. SessionOK(s)'
      <4>1. Serving(s)' # {}
        BY <2>4, <2>7, FS_EmptySet
      <4>2. s \notin Range(idle')
        BY <2>6, <3>1
      <4>3. IsFiniteSet(Serving(s)') /\ session'[s].live = Cardinality(Serving(s)')
        BY <2>4, <3>2
      <4> QED
        BY <3>2, <4>1, <4>2, <4>3 DEF SessionOK
    <3>4. \A x \in Sessions \ {s} : SessionOK(x)'
      BY <2>2, <3>1, <3>2, SessionStays DEF SessionsOK
    <3> QED
      BY <3>3, <3>4 DEF SessionsOK
  <2>8. CASE ~(session[s].live > 1) /\ continues
    <3>1. PICK over \in SUBSET (Range(idle) \ {s}) :
            /\ idle' \in Seq(Sessions) /\ IsInjective(idle') /\ Len(idle') <= MaxHeld
            /\ Range(idle') = (Range(idle) \cup {s}) \ over
            /\ session' = [x \in Sessions |-> IF x = s THEN [session[x] EXCEPT !.live = 0]
                                              ELSE [session[x] EXCEPT !.known = @ /\ x \notin over]]
      <4>1. KeepIdle(s)
        BY <1>4, <2>8 DEF Release, s
      <4> QED
        BY <1>1, <4>1, KeptIdle
    <3>2. over \subseteq Range(idle) \ {s} /\ Range(idle') = (Range(idle) \cup {s}) \ over
      BY <3>1
    <3>3. SessionOK(s)'
      <4>1. session'[s].live = 0 /\ session'[s].known
        BY <1>1, <1>2, <2>3, <3>1 DEF SessionStates
      <4>2. s \in Range(idle')
        BY <3>1, <3>2
      <4>3. IsFiniteSet(Serving(s)') /\ Cardinality(Serving(s)') = 0
        BY <2>5, <2>8, FS_EmptySet
      <4> QED
        BY <2>5, <2>8, <4>1, <4>2, <4>3 DEF SessionOK
    <3>4. ASSUME NEW x \in Sessions \ {s}
          PROVE  SessionOK(x)'
      <4>1. SessionOK(x) /\ Serving(x)' = Serving(x)
        BY <2>2 DEF SessionsOK
      <4>2. session'[x].live = session[x].live /\ session'[x].known = (session[x].known /\ x \notin over)
        BY <1>2, <3>1 DEF SessionStates
      <4>3. (x \in Range(idle')) = (x \in Range(idle) /\ x \notin over)
        BY <3>1, <3>2
      <4>4. CASE x \in over
        <5>1. Serving(x) = {}
          BY <3>2, <4>1, <4>4 DEF SessionOK
        <5>2. x \notin Range(idle') /\ ~session'[x].known
          BY <4>2, <4>3, <4>4
        <5>3. IsFiniteSet(Serving(x)') /\ session'[x].live = Cardinality(Serving(x)')
          BY <4>1, <4>2 DEF SessionOK
        <5>4. Serving(x)' # {} => session'[x].known
          BY <4>1, <5>1
        <5>5. (x \in Range(idle')) = (session'[x].known /\ Serving(x)' = {})
          BY <5>2
        <5> QED
          BY <5>3, <5>4, <5>5 DEF SessionOK
      <4>5. CASE x \notin over
        <5>1. (x \in Range(idle)') = (x \in Range(idle)) /\ session'[x].known = session[x].known
          <6>1. session[x].known \in BOOLEAN
            BY <1>2 DEF SessionStates
          <6> QED
            BY <4>2, <4>3, <4>5, <6>1
        <5> QED
          BY <4>1, <4>2, <5>1, SessionStays
      <4> QED
        BY <4>4, <4>5
    <3> QED
      BY <3>3, <3>4 DEF SessionsOK
  <2>9. CASE ~(session[s].live > 1) /\ ~continues
    <3>1. session' = [session EXCEPT ![s].known = FALSE, ![s].live = 0] /\ idle' = RemoveFirst(idle, s)
      BY <1>4, <2>9 DEF Release, s
    <3>2. Range(idle') = Range(idle) \ {s}
      BY <1>2, <3>1, Removed
    <3>3. /\ session'[s].live = 0 /\ ~session'[s].known
          /\ \A x \in Sessions \ {s} : session'[x] = session[x]
      BY <1>1, <1>2, <3>1 DEF SessionStates
    <3>4. SessionOK(s)'
      <4>1. IsFiniteSet(Serving(s)') /\ Cardinality(Serving(s)') = 0 /\ Serving(s)' = {}
        BY <2>5, <2>9, FS_EmptySet
      <4>2. s \notin Range(idle')
        BY <3>2
      <4> QED
        BY <3>3, <4>1, <4>2 DEF SessionOK
    <3>5. ASSUME NEW x \in Sessions \ {s}
          PROVE  SessionOK(x)'
      <4>1. (x \in Range(idle)') = (x \in Range(idle))
        BY <3>2
      <4> QED
        BY <2>2, <3>3, <4>1, SessionStays DEF SessionsOK
    <3> QED
      BY <3>4, <3>5 DEF SessionsOK
  <2> QED
    BY <2>7, <2>8, <2>9
<1> QED
  BY <1>3, <1>4

\* A request joins its session, or starts it.
LEMMA SessionOpened ==
  ASSUME SeamInv, SessionsOK, NEW c \in Calls, Open(c)
  PROVE  /\ SessionsOK' /\ IdleOK' /\ session' \in [Sessions -> SessionStates] /\ idle' \in Seq(Sessions)
<1> DEFINE s == SessionOf[c]
<1>1. s \in Sessions /\ MaxHeld \in Nat
  BY SeamAssumption
<1>2. /\ session \in [Sessions -> SessionStates] /\ idle \in Seq(Sessions)
      /\ IsInjective(idle) /\ Len(idle) <= MaxHeld
  BY DEF SeamInv, StateType, IdleOK, SessionStates
<1>3. /\ handler[c] = "unborn" /\ handler' = [handler EXCEPT ![c] = "running"]
      /\ call' = [call EXCEPT ![c].current = 1] /\ idle' = RemoveFirst(idle, s)
      /\ session' = [session EXCEPT ![s] = [known |-> TRUE, live |-> IF @.known THEN @.live + 1 ELSE 1,
                                            next |-> IF @.known THEN @.next ELSE 0]]
  BY DEF Open
<1>4. call'[c].released = call[c].released /\ ~call[c].released
  <2>1. call[c] \in CallStates /\ call[c] = FreshCall
    BY <1>3, OfCall DEF CallView, CallOK, Unborn
  <2> QED
    BY <1>3, <2>1 DEF FreshCall, SeamInv, StateType, CallStates
<1>5. \A d \in Calls \ {c} : handler'[d] = handler[d] /\ call'[d] = call[d]
  BY <1>3 DEF SeamInv, StateType
<1>6. handler'[c] = "running"
  BY <1>3 DEF SeamInv, StateType
<1>7. c \notin Serving(s) /\ Serving(s)' = Serving(s) \cup {c}
  BY <1>3, <1>4, <1>5, <1>6 DEF Serving
<1>8. \A x \in Sessions \ {s} : Serving(x)' = Serving(x)
  BY <1>5, ServingStays
<1> HIDE DEF s
<1>9. /\ idle' \in Seq(Sessions) /\ IsInjective(idle') /\ Range(idle') = Range(idle) \ {s}
      /\ Len(idle') <= MaxHeld
  <2>1. /\ idle' \in Seq(Sessions) /\ IsInjective(idle') /\ Range(idle') = Range(idle) \ {s}
        /\ Len(idle') <= Len(idle)
    BY <1>2, <1>3, Removed
  <2>2. Len(idle') \in Nat /\ Len(idle) \in Nat
    BY <1>2, <2>1
  <2> QED
    BY <1>1, <1>2, <2>1, <2>2
<1>10. /\ session'[s].known /\ session'[s].live = (IF session[s].known THEN session[s].live + 1 ELSE 1)
       /\ session' \in [Sessions -> SessionStates]
       /\ \A x \in Sessions \ {s} : session'[x] = session[x]
  <2>1. /\ session[s].live + 1 \in Nat /\ session[s].next \in Nat /\ 0 \in Nat /\ 1 \in Nat
    BY <1>1, <1>2 DEF SessionStates
  <2> QED
    BY <1>1, <1>2, <1>3, <2>1 DEF SessionStates
<1>11. SessionOK(s)'
  <2>1. /\ IsFiniteSet(Serving(s)) /\ session[s].live = Cardinality(Serving(s))
        /\ (~session[s].known => Serving(s) = {})
    BY <1>1 DEF SessionsOK, SessionOK
  <2>2. IsFiniteSet(Serving(s)') /\ Cardinality(Serving(s)') = Cardinality(Serving(s)) + 1
    BY <1>7, <2>1, FS_AddElement
  <2>3. session'[s].live = Cardinality(Serving(s)')
    <3>1. CASE session[s].known
      BY <1>10, <2>1, <2>2, <3>1
    <3>2. CASE ~session[s].known
      <4>1. Cardinality(Serving(s)) = 0
        BY <2>1, <3>2, FS_EmptySet
      <4> QED
        BY <1>10, <2>2, <3>2, <4>1
    <3> QED
      BY <3>1, <3>2
  <2>4. s \notin Range(idle') /\ Serving(s)' # {}
    BY <1>7, <1>9
  <2> QED
    BY <1>10, <2>2, <2>3, <2>4 DEF SessionOK
<1>12. ASSUME NEW x \in Sessions \ {s}
       PROVE  SessionOK(x)'
  <2>1. (x \in Range(idle)') = (x \in Range(idle))
    BY <1>9
  <2> QED
    BY <1>8, <1>10, <2>1, SessionStays DEF SessionsOK
<1> QED
  BY <1>9, <1>10, <1>11, <1>12 DEF SessionsOK, IdleOK

-----------------------------------------------------------------------------
(* The invariant is inductive: one lemma for each operation of the seam.    *)

LEMMA SeamInit ==
  Init => SeamInv
<1> SUFFICES ASSUME Init PROVE SeamInv
  OBVIOUS
<1>0. /\ handler = [c \in Calls |-> "unborn"] /\ call = [c \in Calls |-> FreshCall]
      /\ waiting = <<>> /\ idle = <<>> /\ session = [s \in Sessions |-> [known |-> FALSE, live |-> 0, next |-> 0]]
      /\ stage = [op \in Ops |-> "new"] /\ connected = TRUE
      /\ frames = [c \in Calls |-> <<>>] /\ requests = [c \in Calls |-> 0]
      /\ handed = {} /\ granted = {} /\ acted = {} /\ dropped = {}
  BY DEF Init
<1>1. FreshCall \in CallStates
  BY DEF FreshCall, CallStates, NoRequest, NoRound
<1>2. /\ MaxRequests \in Nat \ {0} /\ MaxHeld \in Nat \ {0}
  BY SeamAssumption
<1>3. StateType
  BY <1>0, <1>1, <1>2 DEF StateType, Handlers, Stages
<1>4. CallsOK
  <2>1. CallOK("unborn", FreshCall, <<>>, 0, FALSE, {}, {})
    <3>1. /\ DOMAIN <<>> = {} /\ IdsIn(<<>>) = {} /\ RoundsIn(<<>>) = {} /\ ConcludedIn(<<>>) = FALSE
          /\ OutcomesIn(<<>>) = {}
      BY DEF IdsIn, RoundsIn, ConcludedIn, OutcomesIn
    <3>2. Unborn("unborn", FreshCall, <<>>, 0) /\ Counted("unborn", FreshCall, <<>>, 0)
      BY DEF Unborn, Counted, FreshCall, NoRequest
    <3>3. Exchange("unborn", FreshCall, <<>>) /\ Ending("unborn", FreshCall, FALSE) /\ FinalsClean(<<>>)
      BY DEF Exchange, Ending, FreshCall, FinalsClean
    <3>4. OneFrame(FreshCall, <<>>, FALSE) /\ FinalEnds(FreshCall, <<>>, FALSE)
      BY <3>1 DEF OneFrame, FinalEnds, FreshCall
    <3>5. TakenKept(FreshCall, <<>>, FALSE, {}) /\ ActingOpen(FreshCall, {})
      BY DEF TakenKept, ActingOpen
    <3> DEFINE fs == <<>>
               none == {}
               gone == FALSE
               k == FreshCall
    <3> HIDE DEF fs, none, gone, k
    <3>6. CallOK("unborn", k, fs, 0, gone, none, none)
      BY <3>2, <3>3, <3>4, <3>5 DEF CallOK, fs, none, gone, k
    <3> QED
      BY <3>6 DEF fs, none, gone, k
  <2>2. ASSUME NEW c \in Calls
        PROVE  CallView(c) /\ call[c].open \subseteq OpsOf(c)
    <3>1. handed \cap OpsOf(c) = {} /\ Acting(c) = {} /\ (c \in dropped) = FALSE
      BY <1>0 DEF Acting, OpsOf
    <3>2. CallView(c)
      BY <1>0, <2>1, <3>1 DEF CallView
    <3>3. call[c].open = {}
      BY <1>0 DEF FreshCall
    <3> QED
      BY <3>2, <3>3
  <2> QED
    BY <2>2 DEF CallsOK
<1>5. WaitingOK /\ IdleOK
  <2>1. IsInjective(<<>>) /\ Len(<<>>) = 0 /\ Range(<<>>) = {}
    BY DEF IsInjective, Range
  <2> QED
    <3>1. \A c \in Calls : Held(c) = FALSE /\ call[c].finished = FALSE
      BY <1>0, <2>1 DEF Held, FreshCall
    <3>2. Len(waiting) <= MaxHeld /\ Len(idle) <= MaxHeld
      BY <1>0, <1>2
    <3> QED
      BY <1>0, <2>1, <3>1, <3>2 DEF WaitingOK, IdleOK
<1>6. SessionsOK
  <2>1. ASSUME NEW s \in Sessions
        PROVE  SessionOK(s)
    <3>1. Serving(s) = {} /\ Range(idle) = {}
      BY <1>0 DEF Serving, Range
    <3>2. IsFiniteSet(Serving(s)) /\ Cardinality(Serving(s)) = 0
      BY <3>1, FS_EmptySet
    <3> QED
      BY <1>0, <3>1, <3>2 DEF SessionOK
  <2> QED
    BY <2>1 DEF SessionsOK
<1>7. GrantsOK /\ StartedOK
  BY <1>0 DEF GrantsOK, ActsOnlyIfGranted, StartedOK
<1> QED
  BY <1>3, <1>4, <1>5, <1>6, <1>7 DEF SeamInv

\* A step that grants only what its retry brought, and runs only what was granted.
LEMMA GrantsKept ==
  ASSUME SeamInv, granted \subseteq granted',
         \A op \in Ops : stage'[op] \in {"granted", "acting"} => stage[op] \in {"granted", "acting"} \/ op \in granted',
         acted' \subseteq acted \cup {op \in Ops : stage[op] = "granted"}
  PROVE  GrantsOK'
BY DEF SeamInv, GrantsOK, ActsOnlyIfGranted

\* Operations start while their call's handler is at work.
LEMMA StartedKept ==
  ASSUME SeamInv, \A d \in Calls : handler[d] # "unborn" => handler'[d] # "unborn",
         \A op \in Ops : stage'[op] # "new" => stage[op] # "new" \/ handler[CallOf[op]] # "unborn"
  PROVE  StartedOK'
<1>1. \A op \in Ops : CallOf[op] \in Calls
  BY SeamAssumption
<1> QED
  BY <1>1 DEF SeamInv, StartedOK

\* A step that moves one call on, and ends none.
LEMMA OneCallMoves ==
  ASSUME SeamInv, NEW c \in Calls, UNCHANGED <<handler, waiting, idle, connected, dropped>>,
         \A s \in Sessions : session'[s].known = session[s].known /\ session'[s].live = session[s].live,
         \A d \in Calls \ {c} : /\ call'[d] = call[d] /\ frames'[d] = frames[d] /\ requests'[d] = requests[d]
                                /\ handed' \cap OpsOf(d) = handed \cap OpsOf(d) /\ Acting(d)' \subseteq Acting(d),
         call'[c].finished = call[c].finished, call'[c].ended = call[c].ended, call'[c].released = call[c].released,
         CallView(c)', call'[c].open \subseteq OpsOf(c)
  PROVE  CallsOK' /\ WaitingOK' /\ IdleOK' /\ (connected' => SessionsOK')
<1>1. ASSUME NEW d \in Calls \ {c}
      PROVE  CallView(d)' /\ call'[d].open \subseteq OpsOf(d)
  BY OtherCall
<1>2. CallsOK'
  BY <1>1 DEF CallsOK, OpsOf
<1>3. \A d \in Calls : call'[d].finished = call[d].finished /\ call'[d].ended = call[d].ended /\ call'[d].released = call[d].released
  OBVIOUS
<1>4. WaitingOK'
  BY <1>3 DEF SeamInv, WaitingOK, Held, Range
<1>5. IdleOK'
  BY DEF SeamInv, IdleOK
<1>6. ASSUME connected'
      PROVE  SessionsOK'
  <2>1. ServedAsBefore
    BY <1>3 DEF ServedAsBefore
  <2>2. SessionsOK
    BY <1>6 DEF SeamInv
  <2> QED
    BY <2>1, <2>2, SessionsStay
<1> QED
  BY <1>2, <1>4, <1>5, <1>6

\* A request comes.
LEMMA OpenKeeps ==
  ASSUME SeamInv, NEW c \in Calls, Open(c)
  PROVE  SeamInv'
<1>1. /\ connected /\ handler[c] = "unborn" /\ handler' = [handler EXCEPT ![c] = "running"]
      /\ requests' = [requests EXCEPT ![c] = 1] /\ call' = [call EXCEPT ![c] = [call[c] EXCEPT !.current = 1]]
      /\ UNCHANGED <<waiting, stage, connected, frames, handed, granted, acted, dropped>>
  BY DEF Open, history, SeamInv, StateType
<1>2. SessionsOK' /\ IdleOK' /\ session' \in [Sessions -> SessionStates] /\ idle' \in Seq(Sessions)
  BY <1>1, SessionOpened DEF SeamInv
<1> DEFINE k == call[c]
           k1 == [k EXCEPT !.current = 1]
           gone == c \in dropped
           taken == handed \cap OpsOf(c)
           acting == Acting(c)
<1>3. k1 \in CallStates /\ CallOK("running", k1, frames[c], 1, gone, taken, acting)
  <2>1. CallOK("unborn", k, frames[c], requests[c], gone, taken, acting) /\ gone \in BOOLEAN
    BY <1>1, OfCall DEF CallView
  <2> HIDE DEF k, gone, taken, acting
  <2> QED
    BY <2>1, CallOpened
<1>4. k1.open = k.open /\ k1.finished = k.finished /\ k1.ended = k.ended
  BY OfCall DEF CallStates
<1> HIDE DEF k1
<1>5. /\ handler'[c] = "running" /\ requests'[c] = 1 /\ call'[c] = k1
      /\ \A d \in Calls \ {c} : handler'[d] = handler[d] /\ requests'[d] = requests[d] /\ call'[d] = call[d]
  BY <1>1 DEF SeamInv, StateType, k1
<1>6. \A d \in Calls : OpsOf(d)' = OpsOf(d) /\ Acting(d)' = Acting(d)
  BY <1>1 DEF OpsOf, Acting
<1>7. ASSUME NEW d \in Calls
      PROVE  CallView(d)' /\ call'[d].open \subseteq OpsOf(d)
  <2>1. CASE d = c
    BY <1>1, <1>3, <1>4, <1>5, <1>6, <2>1, OfCall DEF CallView
  <2>2. CASE d # c
    BY <1>1, <1>5, <1>6, <2>2, OtherCall
  <2> QED
    BY <2>1, <2>2
<1>8. CallsOK'
  BY <1>7 DEF CallsOK, OpsOf
<1>9. WaitingOK'
  <2>1. \A d \in Calls : call'[d].finished = call[d].finished /\ call'[d].ended = call[d].ended
    BY <1>4, <1>5
  <2> QED
    BY <1>1, <2>1 DEF SeamInv, WaitingOK, Held, Range
<1>10. StateType'
  <2>1. 1 \in 0..MaxRequests
    BY SeamAssumption
  <2> QED
    BY <1>1, <1>2, <1>3, <2>1 DEF SeamInv, StateType, Handlers, SessionStates, k1
<1>11. GrantsOK' /\ StartedOK'
  <2>1. \A d \in Calls : handler[d] # "unborn" => handler'[d] # "unborn"
    BY <1>5
  <2> QED
    BY <1>1, <2>1, GrantsKept, StartedKept
<1> QED
  BY <1>2, <1>8, <1>9, <1>10, <1>11 DEF SeamInv

\* What the call of an emitting operation becomes.
LEMMA Emitted ==
  ASSUME SeamInv, NEW op \in Ops, NEW kind \in {"attempt", "outcome"}, Emits(op, kind)
  PROVE  LET c == CallOf[op] k == call[c] k1 == call'[c] IN
         /\ c \in Calls /\ call' \in [Calls -> CallStates] /\ \A d \in Calls \ {c} : call'[d] = call[d]
         /\ session' \in [Sessions -> SessionStates]
         /\ \A s \in Sessions : session'[s].known = session[s].known /\ session'[s].live = session[s].live
         /\ \E e \in Events : e.op = op /\ e.kind = kind /\ k1.buffered = k.buffered \cup {e}
         /\ k1.open = k.open \ {op} /\ k1.current = k.current /\ k1.round = k.round
         /\ k1.finished = k.finished /\ k1.ended = k.ended /\ k1.released = k.released /\ k1.final = k.final
<1> DEFINE c == CallOf[op]
           s == SessionOf[c]
           e == [op |-> op, kind |-> kind, number |-> session[s].next]
           sched == call[c].scheduled \/ kind = "attempt"
           k1 == [call[c] EXCEPT !.buffered = @ \cup {e}, !.scheduled = sched, !.open = @ \ {op}]
<1>1. c \in Calls /\ s \in Sessions
  BY SeamAssumption
<1>2. call \in [Calls -> CallStates] /\ session \in [Sessions -> SessionStates]
  BY DEF SeamInv, StateType, SessionStates
<1>3. e \in Events /\ e.op = op /\ e.kind = kind /\ sched \in BOOLEAN
  <2>1. session[s].next \in Nat
    BY <1>1, <1>2 DEF SessionStates
  <2> QED
    BY <2>1 DEF Events
<1>4. call' = [call EXCEPT ![c] = k1] /\ session' = [session EXCEPT ![s].next = @ + 1]
  BY <1>1, <1>2 DEF Emits
<1> HIDE DEF e, sched
<1>5. /\ k1 \in CallStates /\ k1.buffered = call[c].buffered \cup {e} /\ k1.open = call[c].open \ {op}
      /\ k1.current = call[c].current /\ k1.round = call[c].round /\ k1.finished = call[c].finished
      /\ k1.ended = call[c].ended /\ k1.released = call[c].released /\ k1.final = call[c].final
  <2>1. call[c] \in CallStates
    BY <1>1, <1>2
  <2> DEFINE k == call[c]
  <2> HIDE DEF k, c
  <2>2. k.buffered \cup {e} \in SUBSET Events /\ k.open \ {op} \in SUBSET Ops
    BY <1>3, <2>1 DEF CallStates, k
  <2> QED
    BY <1>3, <2>1, <2>2 DEF CallStates, k
<1> HIDE DEF k1
<1>6. call'[c] = k1 /\ call' \in [Calls -> CallStates] /\ \A d \in Calls \ {c} : call'[d] = call[d]
  BY <1>1, <1>2, <1>4, <1>5
<1>7. /\ session' \in [Sessions -> SessionStates]
      /\ \A x \in Sessions : session'[x].known = session[x].known /\ session'[x].live = session[x].live
  <2> HIDE DEF s
  <2>1. session[s].next + 1 \in Nat
    BY <1>1, <1>2 DEF SessionStates
  <2> QED
    BY <1>1, <1>2, <1>4, <2>1 DEF SessionStates
<1> QED
  BY <1>1, <1>3, <1>5, <1>6, <1>7

\* A stage changes: the operations of other calls act as before.
LEMMA Staged ==
  ASSUME SeamInv, NEW op \in Ops, NEW where, GoesOn(op, where)
  PROVE  /\ where \in Stages => stage' \in [Ops -> Stages]
         /\ stage'[op] = where /\ \A x \in Ops \ {op} : stage'[x] = stage[x]
         /\ \A d \in Calls \ {CallOf[op]} : Acting(d)' = Acting(d)
         /\ where # "acting" => Acting(CallOf[op])' \subseteq Acting(CallOf[op]) \ {op}
         /\ Acting(CallOf[op])' \subseteq Acting(CallOf[op]) \cup {op}
         /\ \A d : OpsOf(d)' = OpsOf(d)
<1>1. stage \in [Ops -> Stages] /\ stage' = [stage EXCEPT ![op] = where]
  BY DEF SeamInv, StateType, GoesOn
<1>2. stage'[op] = where /\ \A x \in Ops \ {op} : stage'[x] = stage[x]
  BY <1>1
<1>3. \A d : OpsOf(d)' = OpsOf(d)
  BY DEF OpsOf
<1> QED
  BY <1>1, <1>2, <1>3 DEF Acting, OpsOf

\* Only c moves, and it neither begins nor ends.
CallMoves(c) ==
  /\ call' \in [Calls -> CallStates] /\ session' \in [Sessions -> SessionStates]
  /\ \A s \in Sessions : session'[s].known = session[s].known /\ session'[s].live = session[s].live
  /\ \A d \in Calls \ {c} : call'[d] = call[d]
  /\ call'[c].finished = call[c].finished /\ call'[c].ended = call[c].ended
  /\ call'[c].released = call[c].released
  /\ CallView(c)' /\ call'[c].open \subseteq OpsOf(c)

\* An operation goes on, and with it its call.
LEMMA OperationMoves ==
  ASSUME SeamInv, NEW op \in Ops, NEW where \in Stages, GoesOn(op, where), CallMoves(CallOf[op]),
         handler[CallOf[op]] # "unborn", where \notin {"granted", "acting"} \/ stage[op] = "granted",
         UNCHANGED <<handler, waiting, idle, connected, frames, requests, granted, dropped>>,
         handed' \in {handed, handed \cup {op}},
         acted' \subseteq acted \cup {x \in {op} : stage[op] = "granted"}
  PROVE  SeamInv'
<1> DEFINE c == CallOf[op]
<1>1. c \in Calls /\ \A d \in Calls \ {c} : op \notin OpsOf(d)
  BY SeamAssumption DEF OpsOf
<1>2. /\ stage' \in [Ops -> Stages] /\ stage'[op] = where /\ \A x \in Ops \ {op} : stage'[x] = stage[x]
      /\ \A d \in Calls \ {c} : Acting(d)' = Acting(d)
  BY Staged
<1>3. \A d \in Calls \ {c} : handed' \cap OpsOf(d) = handed \cap OpsOf(d)
  BY <1>1
<1>4. CallsOK' /\ WaitingOK' /\ IdleOK' /\ (connected' => SessionsOK')
  BY <1>1, <1>2, <1>3, OneCallMoves DEF CallMoves
<1>5. StateType'
  BY <1>2 DEF SeamInv, StateType, SessionStates, CallMoves
<1>6. GrantsOK' /\ StartedOK'
  BY <1>2, GrantsKept, StartedKept
<1> QED
  BY <1>4, <1>5, <1>6 DEF SeamInv

\* An attempt is buffered, or refused at the door.
LEMMA EmitAttemptKeeps ==
  ASSUME SeamInv, NEW op \in Ops, EmitAttempt(op)
  PROVE  SeamInv'
<1> DEFINE c == CallOf[op]
<1>1. c \in Calls /\ op \in OpsOf(c)
  BY SeamAssumption DEF OpsOf
<1>2. /\ stage[op] = "new" /\ handler[c] # "unborn"
      /\ UNCHANGED <<handler, waiting, idle, connected, frames, requests, handed, granted, acted, dropped>>
  BY DEF EmitAttempt, history
<1>3. /\ call[c] \in CallStates /\ call[c].open \subseteq OpsOf(c)
      /\ CallOK(handler[c], call[c], frames[c], requests[c], c \in dropped, handed \cap OpsOf(c), Acting(c))
  BY <1>1, OfCall DEF CallView
<1>4. CASE Over(c)
  <2>1. GoesOn(op, "aborting") /\ UNCHANGED <<call, session>>
    BY <1>4 DEF EmitAttempt
  <2>2. Acting(c)' \subseteq Acting(c) /\ OpsOf(c)' = OpsOf(c)
    BY <1>1, <2>1, Staged
  <2>3. CallOK(handler[c], call[c], frames[c], requests[c], c \in dropped, handed \cap OpsOf(c), Acting(c)')
    BY <1>3, <2>2, CallStays
  <2>4. CallView(c)'
    BY <1>2, <2>1, <2>2, <2>3 DEF CallView
  <2>5. CallMoves(c) /\ "aborting" \in Stages \ {"new", "granted", "acting"}
    BY <1>3, <2>1, <2>4 DEF SeamInv, StateType, SessionStates, CallMoves, Stages
  <2> QED
    BY <1>2, <2>1, <2>5, OperationMoves
<1>5. CASE ~Over(c)
  <2>1. GoesOn(op, "waiting") /\ Emits(op, "attempt")
    BY <1>5 DEF EmitAttempt
  <2>2. Acting(c)' \subseteq Acting(c) \ {op} /\ OpsOf(c)' = OpsOf(c)
    BY <1>1, <2>1, Staged
  <2>3. /\ call' \in [Calls -> CallStates] /\ session' \in [Sessions -> SessionStates]
        /\ \A d \in Calls \ {c} : call'[d] = call[d]
        /\ \A s \in Sessions : session'[s].known = session[s].known /\ session'[s].live = session[s].live
    BY <2>1, Emitted
  <2>4. PICK e \in Events : e.op = op /\ e.kind = "attempt" /\ call'[c].buffered = call[c].buffered \cup {e}
    BY <2>1, Emitted
  <2>5. /\ call'[c].open = call[c].open \ {op} /\ call'[c].current = call[c].current /\ call'[c].round = call[c].round
        /\ call'[c].finished = call[c].finished /\ call'[c].ended = call[c].ended
        /\ call'[c].released = call[c].released /\ call'[c].final = call[c].final
    BY <2>1, Emitted
  <2> DEFINE k1 == call'[c]
             gone == c \in dropped
             taken == handed \cap OpsOf(c)
             acting == Acting(c)
             acting1 == Acting(c)'
  <2>6. CallOK(handler[c], k1, frames[c], requests[c], gone, taken, acting1)
    <3>1. CallOK(handler[c], call[c], frames[c], requests[c], gone, taken, acting) /\ ~call[c].ended
      BY <1>3, <1>5 DEF Over
    <3>2. k1 \in CallStates /\ acting1 \subseteq acting \ {op}
      BY <1>1, <2>2, <2>3
    <3> HIDE DEF gone, taken, acting, acting1
    <3> QED
      BY <1>2, <1>3, <2>4, <2>5, <3>1, <3>2, CallEmits
  <2>7. CallView(c)'
    BY <1>2, <2>2, <2>6 DEF CallView
  <2>8. CallMoves(c) /\ "waiting" \in Stages \ {"new", "granted", "acting"}
    BY <1>3, <2>3, <2>5, <2>7 DEF CallMoves, Stages
  <2> QED
    BY <1>2, <2>1, <2>8, OperationMoves
<1> QED
  BY <1>4, <1>5

\* No answer came in time.
LEMMA GiveUpKeeps ==
  ASSUME SeamInv, NEW op \in Ops, GiveUp(op)
  PROVE  SeamInv'
<1> DEFINE c == CallOf[op]
<1>1. /\ stage[op] = "waiting" /\ GoesOn(op, "aborting")
      /\ UNCHANGED <<handler, call, waiting, session, idle, connected, frames, requests, handed, granted, acted, dropped>>
  BY DEF GiveUp, history
<1>2. c \in Calls /\ handler[c] # "unborn" /\ "aborting" \in Stages \ {"granted", "acting"}
  BY <1>1, SeamAssumption DEF SeamInv, StartedOK, Stages
<1>3. /\ call[c] \in CallStates /\ call[c].open \subseteq OpsOf(c)
      /\ CallOK(handler[c], call[c], frames[c], requests[c], c \in dropped, handed \cap OpsOf(c), Acting(c))
  BY <1>2, OfCall DEF CallView
<1>4. Acting(c)' \subseteq Acting(c) /\ OpsOf(c)' = OpsOf(c)
  BY <1>1, Staged
<1>5. CallOK(handler[c], call[c], frames[c], requests[c], c \in dropped, handed \cap OpsOf(c), Acting(c)')
  BY <1>3, <1>4, CallStays
<1>6. CallView(c)'
  BY <1>1, <1>4, <1>5 DEF CallView
<1>7. CallMoves(c)
  BY <1>1, <1>3, <1>6 DEF SeamInv, StateType, SessionStates, CallMoves
<1> QED
  BY <1>1, <1>2, <1>7, OperationMoves

\* The answer is taken up: the body runs, or will not.
LEMMA ResumeKeeps ==
  ASSUME SeamInv, NEW op \in Ops, Resume(op)
  PROVE  SeamInv'
<1> DEFINE c == CallOf[op]
<1>1. UNCHANGED <<handler, waiting, session, idle, connected, frames, requests, handed, granted, dropped>>
  BY DEF Resume
<1>2. stage[op] \in {"granted", "denied"}
  BY DEF Resume
<1>3. c \in Calls /\ handler[c] # "unborn" /\ op \in OpsOf(c)
  BY <1>2, SeamAssumption DEF SeamInv, StartedOK, OpsOf
<1>4. /\ call[c] \in CallStates /\ call[c].open \subseteq OpsOf(c)
      /\ CallOK(handler[c], call[c], frames[c], requests[c], c \in dropped, handed \cap OpsOf(c), Acting(c))
  BY <1>3, OfCall DEF CallView
<1> DEFINE k1 == call'[c]
           gone == c \in dropped
           taken == handed \cap OpsOf(c)
           acting == Acting(c)
           acting1 == Acting(c)'
<1>5. ASSUME NEW where \in Stages, GoesOn(op, where), where = "acting" /\ ~call[c].ended => op \in k1.open,
             call' \in [Calls -> CallStates], \A d \in Calls \ {c} : call'[d] = call[d],
             k1 \in {call[c], [call[c] EXCEPT !.open = @ \cup {op}]}
      PROVE  CallMoves(c)
  <2>1. /\ k1.buffered = call[c].buffered /\ k1.current = call[c].current /\ k1.round = call[c].round
        /\ k1.finished = call[c].finished /\ k1.ended = call[c].ended /\ k1.released = call[c].released
        /\ k1.final = call[c].final /\ call[c].open \subseteq k1.open /\ k1.open \subseteq call[c].open \cup {op}
    BY <1>4, <1>5 DEF CallStates
  <2>2. /\ acting1 \subseteq acting \cup {op} /\ (where # "acting" => acting1 \subseteq acting)
        /\ OpsOf(c)' = OpsOf(c)
    BY <1>5, Staged
  <2>3. ~call[c].ended => acting1 \subseteq k1.open
    <3>1. ~call[c].ended => acting \subseteq call[c].open
      BY <1>4 DEF CallOK, ActingOpen
    <3> QED
      BY <1>5, <2>1, <2>2, <3>1
  <2>4. CallOK(handler[c], k1, frames[c], requests[c], gone, taken, acting1)
    <3>1. CallOK(handler[c], call[c], frames[c], requests[c], gone, taken, acting)
      BY <1>4
    <3> HIDE DEF k1, gone, taken, acting, acting1
    <3> QED
      BY <1>3, <2>1, <2>3, <3>1, CallGoesOn
  <2>5. CallView(c)' /\ k1.open \subseteq OpsOf(c)
    BY <1>1, <1>3, <1>4, <2>1, <2>2, <2>4 DEF CallView
  <2> QED
    BY <1>1, <1>5, <2>1, <2>5 DEF SeamInv, StateType, SessionStates, CallMoves
<1>6. CASE stage[op] = "granted"
  <2>1. /\ GoesOn(op, "acting") /\ acted' = acted \cup {op}
        /\ call' = IF call[c].ended THEN call ELSE [call EXCEPT ![c].open = @ \cup {op}]
    BY <1>6 DEF Resume
  <2>2. /\ call' \in [Calls -> CallStates] /\ \A d \in Calls \ {c} : call'[d] = call[d]
        /\ k1 \in {call[c], [call[c] EXCEPT !.open = @ \cup {op}]}
        /\ ~call[c].ended => op \in k1.open
    <3>1. call \in [Calls -> CallStates] /\ [call[c] EXCEPT !.open = @ \cup {op}] \in CallStates
          /\ op \in [call[c] EXCEPT !.open = @ \cup {op}].open
      <4>1. call[c].open \cup {op} \in SUBSET Ops
        BY <1>4 DEF CallStates
      <4> QED
        BY <1>4, <4>1 DEF SeamInv, StateType, CallStates
    <3> QED
      BY <1>3, <2>1, <3>1
  <2>3. "acting" \in Stages
    BY DEF Stages
  <2>4. CallMoves(c)
    BY <1>5, <2>1, <2>2, <2>3
  <2> QED
    BY <1>1, <1>3, <1>6, <2>1, <2>3, <2>4, OperationMoves
<1>7. CASE stage[op] # "granted"
  <2>1. GoesOn(op, "aborting") /\ acted' = acted /\ call' = call
    BY <1>7 DEF Resume
  <2>2. "aborting" \in Stages
    BY DEF Stages
  <2>3. CallMoves(c)
    <3>1. call' \in [Calls -> CallStates] /\ k1 = call[c] /\ \A d \in Calls \ {c} : call'[d] = call[d]
      BY <2>1 DEF SeamInv, StateType
    <3> QED
      BY <1>5, <2>1, <2>2, <3>1
  <2> QED
    BY <1>1, <1>3, <2>1, <2>2, <2>3, OperationMoves
<1> QED
  BY <1>6, <1>7

\* An outcome is taken, or lost after its call's end.
LEMMA EmitOutcomeKeeps ==
  ASSUME SeamInv, NEW op \in Ops, EmitOutcome(op)
  PROVE  SeamInv'
<1> DEFINE c == CallOf[op]
<1>1. /\ GoesOn(op, "over") /\ stage[op] \in {"acting", "aborting"}
      /\ UNCHANGED <<handler, waiting, idle, connected, frames, requests, granted, acted, dropped>>
  BY DEF EmitOutcome
<1>2. c \in Calls /\ handler[c] # "unborn" /\ op \in OpsOf(c) /\ "over" \in Stages \ {"granted", "acting"}
  BY <1>1, SeamAssumption DEF SeamInv, StartedOK, OpsOf, Stages
<1>3. /\ call[c] \in CallStates /\ call[c].open \subseteq OpsOf(c)
      /\ CallOK(handler[c], call[c], frames[c], requests[c], c \in dropped, handed \cap OpsOf(c), Acting(c))
  BY <1>2, OfCall DEF CallView
<1>4. Acting(c)' \subseteq Acting(c) \ {op} /\ OpsOf(c)' = OpsOf(c)
  BY <1>1, Staged
<1> DEFINE k1 == call'[c]
           gone == c \in dropped
           taken == handed \cap OpsOf(c)
           taken1 == handed' \cap OpsOf(c)
           acting == Acting(c)
           acting1 == Acting(c)'
<1>5. CASE Over(c)
  <2>1. call' = [call EXCEPT ![c].open = @ \ {op}] /\ UNCHANGED <<session, handed>>
    BY <1>5 DEF EmitOutcome
  <2>2. /\ call' \in [Calls -> CallStates] /\ \A d \in Calls \ {c} : call'[d] = call[d]
        /\ k1 = [call[c] EXCEPT !.open = @ \ {op}]
    <3>1. call[c].open \ {op} \in SUBSET Ops
      BY <1>3 DEF CallStates
    <3>2. [call[c] EXCEPT !.open = @ \ {op}] \in CallStates /\ call \in [Calls -> CallStates]
      BY <1>3, <3>1 DEF SeamInv, StateType, CallStates
    <3> QED
      BY <1>2, <2>1, <3>2
  <2>3. /\ k1.buffered = call[c].buffered /\ k1.current = call[c].current /\ k1.round = call[c].round
        /\ k1.finished = call[c].finished /\ k1.ended = call[c].ended /\ k1.released = call[c].released
        /\ k1.final = call[c].final /\ k1.open = call[c].open \ {op}
    BY <1>3, <2>2 DEF CallStates
  <2>4. ~call[c].ended => acting1 \subseteq k1.open
    BY <1>3, <1>4, <2>3 DEF CallOK, ActingOpen
  <2>5. CallOK(handler[c], k1, frames[c], requests[c], gone, taken, acting1)
    <3>1. CallOK(handler[c], call[c], frames[c], requests[c], gone, taken, acting)
      BY <1>3
    <3> HIDE DEF k1, gone, taken, acting, acting1
    <3> QED
      BY <1>2, <2>3, <2>4, <3>1, CallGoesOn
  <2>6. CallView(c)' /\ k1.open \subseteq OpsOf(c)
    BY <1>1, <1>3, <1>4, <2>1, <2>3, <2>5 DEF CallView
  <2>7. CallMoves(c)
    BY <2>1, <2>2, <2>3, <2>6 DEF SeamInv, StateType, SessionStates, CallMoves
  <2> QED
    BY <1>1, <1>2, <2>1, <2>7, OperationMoves
<1>6. CASE ~Over(c)
  <2>1. Emits(op, "outcome") /\ handed' = handed \cup {op}
    BY <1>6 DEF EmitOutcome
  <2>2. /\ call' \in [Calls -> CallStates] /\ session' \in [Sessions -> SessionStates]
        /\ \A d \in Calls \ {c} : call'[d] = call[d]
        /\ \A s \in Sessions : session'[s].known = session[s].known /\ session'[s].live = session[s].live
    BY <2>1, Emitted
  <2>3. PICK e \in Events : e.op = op /\ e.kind = "outcome" /\ call'[c].buffered = call[c].buffered \cup {e}
    BY <2>1, Emitted
  <2>4. /\ call'[c].open = call[c].open \ {op} /\ call'[c].current = call[c].current /\ call'[c].round = call[c].round
        /\ call'[c].finished = call[c].finished /\ call'[c].ended = call[c].ended
        /\ call'[c].released = call[c].released /\ call'[c].final = call[c].final
    BY <2>1, Emitted
  <2>5. CallOK(handler[c], k1, frames[c], requests[c], gone, taken1, acting1)
    <3>1. CallOK(handler[c], call[c], frames[c], requests[c], gone, taken, acting) /\ ~call[c].ended
      BY <1>3, <1>6 DEF Over
    <3>2. k1 \in CallStates /\ acting1 \subseteq acting \ {op} /\ taken1 \subseteq taken \cup {op}
      BY <1>2, <1>4, <2>1, <2>2
    <3> HIDE DEF gone, taken, taken1, acting, acting1
    <3> QED
      BY <1>2, <1>3, <2>3, <2>4, <3>1, <3>2, CallEmits
  <2>6. CallView(c)'
    BY <1>1, <1>4, <2>5 DEF CallView
  <2>7. CallMoves(c)
    BY <1>3, <2>2, <2>4, <2>6 DEF CallMoves
  <2> QED
    BY <1>1, <1>2, <2>1, <2>7, OperationMoves
<1> QED
  BY <1>5, <1>6

\* A round goes out, or there is nothing to send or nothing to send it on.
LEMMA EndRoundKeeps ==
  ASSUME SeamInv, NEW c \in Calls, EndRound(c)
  PROVE  SeamInv'
<1>1. UNCHANGED <<handler, waiting, session, idle, stage, connected, requests, handed, granted, acted, dropped>>
  BY DEF EndRound, history
<1>2. /\ call[c] \in CallStates /\ call[c].open \subseteq OpsOf(c) /\ frames[c] \in Seq(Frames)
      /\ CallOK(handler[c], call[c], frames[c], requests[c], c \in dropped, handed \cap OpsOf(c), Acting(c))
      /\ requests[c] \in Nat /\ (c \in dropped) \in BOOLEAN
  BY OfCall DEF CallView
<1>3. handler[c] # "unborn"
  BY <1>2 DEF EndRound, CallOK, Unborn, FreshCall
<1>4. \A d \in Calls : OpsOf(d)' = OpsOf(d) /\ Acting(d)' = Acting(d)
  BY <1>1 DEF OpsOf, Acting
<1> DEFINE k == call[c]
           k0 == [k EXCEPT !.scheduled = FALSE]
           k1 == [k EXCEPT !.scheduled = FALSE, !.round = Len(frames[c]) + 1, !.current = NoRequest, !.buffered = {}]
           fs1 == Append(frames[c], Frame(k.current, "round", k.buffered))
           gone == c \in dropped
           taken == handed \cap OpsOf(c)
           acting == Acting(c)
<1>5. ASSUME NEW x \in CallStates, NEW fs \in Seq(Frames), call' = [call EXCEPT ![c] = x], frames' = [frames EXCEPT ![c] = fs],
             x.finished = k.finished, x.ended = k.ended, x.released = k.released, x.open = k.open,
             CallOK(handler[c], x, fs, requests[c], gone, taken, acting)
      PROVE  SeamInv'
  <2>1. /\ call' \in [Calls -> CallStates] /\ frames' \in [Calls -> Seq(Frames)]
        /\ call'[c] = x /\ frames'[c] = fs
        /\ \A d \in Calls \ {c} : call'[d] = call[d] /\ frames'[d] = frames[d]
    BY <1>5 DEF SeamInv, StateType
  <2>2. CallView(c)' /\ call'[c].open \subseteq OpsOf(c)
    BY <1>1, <1>2, <1>4, <1>5, <2>1 DEF CallView
  <2>3. CallsOK' /\ WaitingOK' /\ IdleOK' /\ (connected' => SessionsOK')
    BY <1>1, <1>4, <1>5, <2>1, <2>2, OneCallMoves
  <2>4. StateType'
    BY <1>1, <2>1 DEF SeamInv, StateType
  <2>5. GrantsOK' /\ StartedOK'
    BY <1>1, GrantsKept, StartedKept
  <2> QED
    BY <2>3, <2>4, <2>5 DEF SeamInv
<1>6. /\ k0 \in CallStates /\ k0.buffered = k.buffered /\ k0.current = k.current /\ k0.round = k.round
      /\ k0.finished = k.finished /\ k0.ended = k.ended /\ k0.released = k.released /\ k0.final = k.final
      /\ k0.open = k.open
  BY <1>2 DEF CallStates
<1>7. CASE k0.ended \/ k0.round # NoRound \/ k0.current = NoRequest \/ k0.buffered = {}
  <2>1. call' = [call EXCEPT ![c] = k0] /\ frames' = [frames EXCEPT ![c] = frames[c]]
    BY <1>7 DEF EndRound, SeamInv, StateType
  <2>2. CallOK(handler[c], k0, frames[c], requests[c], gone, taken, acting)
    <3>1. CallOK(handler[c], k, frames[c], requests[c], gone, taken, acting)
      BY <1>2
    <3>2. ~k.ended => acting \subseteq k0.open
      BY <1>2, <1>6 DEF CallOK, ActingOpen
    <3> HIDE DEF k, k0, gone, taken, acting
    <3> QED
      BY <1>3, <1>6, <3>1, <3>2, CallGoesOn
  <2> QED
    BY <1>2, <1>5, <1>6, <2>1, <2>2
<1>8. CASE ~(k0.ended \/ k0.round # NoRound \/ k0.current = NoRequest \/ k0.buffered = {})
  <2>1. ~k.ended /\ k.round = NoRound /\ k.current # NoRequest
    BY <1>6, <1>8
  <2>2. fs1 \in Seq(Frames) /\ k1 \in CallStates /\ CallOK(handler[c], k1, fs1, requests[c], gone, taken, acting)
    <3> DEFINE h == handler[c]
               fs == frames[c]
               r == requests[c]
    <3>1. /\ CallOK(h, k, fs, r, gone, taken, acting) /\ k \in CallStates /\ gone \in BOOLEAN
          /\ fs \in Seq(Frames) /\ r \in Nat
      BY <1>2
    <3>2. Rounded(k, fs, fs1, k1)
      BY DEF Rounded
    <3> HIDE DEF k, gone, taken, acting, h, fs, r, fs1, k1
    <3>4. fs1 \in Seq(Frames) /\ k1 \in CallStates /\ CallOK(h, k1, fs1, r, gone, taken, acting)
      BY <2>1, <3>1, <3>2, CallRound
    <3> QED
      BY <3>4 DEF h, r
  <2>3. k1.finished = k.finished /\ k1.ended = k.ended /\ k1.released = k.released /\ k1.open = k.open
    BY <1>2 DEF CallStates
  <2>4. call' = [call EXCEPT ![c] = k1] /\ frames' = [frames EXCEPT ![c] = fs1]
    <3>1. /\ call' = [call EXCEPT ![c] = [k0 EXCEPT !.round = Len(frames[c]) + 1, !.current = NoRequest, !.buffered = {}]]
          /\ frames' = [frames EXCEPT ![c] = Append(frames[c], Frame(k0.current, "round", k0.buffered))]
      BY <1>8 DEF EndRound, Written
    <3>2. [k0 EXCEPT !.round = Len(frames[c]) + 1, !.current = NoRequest, !.buffered = {}] = k1
      BY <1>2 DEF CallStates
    <3> QED
      BY <1>6, <3>1, <3>2
  <2> HIDE DEF k, k1, fs1, gone, taken, acting
  <2> QED
    BY <1>5, <2>2, <2>3, <2>4
<1> QED
  BY <1>7, <1>8

\* What stands after the answers of a round.
LEMMA Settled ==
  ASSUME SeamInv, NEW ops, NEW accepted, stage' = Settle(ops, accepted),
         \A op \in accepted : stage[op] = "waiting" => op \in granted'
  PROVE  /\ stage' \in [Ops -> Stages]
         /\ \A op \in Ops : /\ stage'[op] = "acting" => stage[op] = "acting"
                            /\ stage'[op] = "granted" => stage[op] = "granted" \/ op \in granted'
                            /\ stage'[op] # "new" => stage[op] # "new"
<1>1. \A op \in Ops : stage'[op] = IF op \in ops /\ stage[op] = "waiting"
                                    THEN IF op \in accepted THEN "granted" ELSE "denied"
                                    ELSE stage[op]
  BY DEF Settle
<1>2. stage' \in [Ops -> Stages]
  BY DEF SeamInv, StateType, Settle, Stages
<1> QED
  BY <1>1, <1>2

\* A retry comes: its round's answers settle what waits for them, or it is refused.
LEMMA TakeRetryKeeps ==
  ASSUME SeamInv, NEW c \in Calls, TakeRetry(c)
  PROVE  SeamInv'
<1>1. /\ requests[c] < MaxRequests /\ requests' = [requests EXCEPT ![c] = @ + 1]
      /\ UNCHANGED <<handler, session, idle, connected, handed, acted>>
  BY DEF TakeRetry
<1>2. PICK n \in Rounds(c), accepted \in SUBSET OpsOf(c) : AcceptRetry(c, n, accepted) \/ RefuseRetry(c, n)
  BY DEF TakeRetry
<1>3. /\ call[c] \in CallStates /\ call[c].open \subseteq OpsOf(c) /\ frames[c] \in Seq(Frames)
      /\ CallOK(handler[c], call[c], frames[c], requests[c], c \in dropped, handed \cap OpsOf(c), Acting(c))
      /\ requests[c] \in Nat /\ (c \in dropped) \in BOOLEAN
  BY OfCall DEF CallView
<1>4. handler[c] # "unborn" /\ n # NoRound
  <2>1. n \in DOMAIN frames[c] /\ n \in 1..Len(frames[c])
    BY <1>3 DEF Rounds
  <2>2. frames[c] # <<>>
    BY <2>1
  <2> QED
    BY <1>3, <2>1, <2>2 DEF CallOK, Unborn, NoRound
<1>5. /\ requests'[c] = requests[c] + 1 /\ requests' \in [Calls -> 0..MaxRequests]
      /\ \A d \in Calls \ {c} : requests'[d] = requests[d]
  <2>1. requests \in [Calls -> 0..MaxRequests] /\ MaxRequests \in Nat
    BY SeamAssumption DEF SeamInv, StateType
  <2>2. requests[c] + 1 \in 0..MaxRequests
    BY <1>1, <1>3, <2>1
  <2> QED
    BY <1>1, <2>1, <2>2
<1>6. \A d : OpsOf(d)' = OpsOf(d)
  BY DEF OpsOf
<1> DEFINE k == call[c]
           h == handler[c]
           fs == frames[c]
           r == requests[c]
           gone == c \in dropped
           taken == handed \cap OpsOf(c)
           acting == Acting(c)
           acting1 == Acting(c)'
<1>7. ASSUME NEW x \in CallStates, NEW fs1 \in Seq(Frames), call' = [call EXCEPT ![c] = x], frames' = [frames EXCEPT ![c] = fs1],
             x.finished = k.finished, x.ended = k.ended, x.released = k.released, x.open = k.open,
             UNCHANGED <<waiting, dropped>>, stage' \in [Ops -> Stages], \A d \in Calls : Acting(d)' \subseteq Acting(d),
             GrantsOK', StartedOK', CallOK(h, x, fs1, r + 1, gone, taken, acting1)
      PROVE  SeamInv'
  <2>1. /\ call' \in [Calls -> CallStates] /\ frames' \in [Calls -> Seq(Frames)]
        /\ call'[c] = x /\ frames'[c] = fs1
        /\ \A d \in Calls \ {c} : call'[d] = call[d] /\ frames'[d] = frames[d]
    BY <1>7 DEF SeamInv, StateType
  <2>2. CallView(c)' /\ call'[c].open \subseteq OpsOf(c)
    BY <1>1, <1>3, <1>5, <1>6, <1>7, <2>1 DEF CallView
  <2>3. CallsOK' /\ WaitingOK' /\ IdleOK' /\ (connected' => SessionsOK')
    BY <1>1, <1>5, <1>7, <2>1, <2>2, OneCallMoves
  <2>4. StateType'
    BY <1>1, <1>5, <1>7, <2>1 DEF SeamInv, StateType
  <2> QED
    BY <1>7, <2>3, <2>4 DEF SeamInv
<1>8. CASE RefuseRetry(c, n)
  <2> DEFINE fs1 == Append(fs, Frame(r + 1, "refused", {}))
  <2>1. /\ call' = [call EXCEPT ![c] = k] /\ frames' = [frames EXCEPT ![c] = fs1]
        /\ UNCHANGED <<waiting, stage, granted, dropped>>
    BY <1>8 DEF RefuseRetry, Written, SeamInv, StateType
  <2>2. Acting(c)' = Acting(c) /\ \A d \in Calls : Acting(d)' = Acting(d)
    BY <2>1 DEF Acting, OpsOf
  <2>3. fs1 \in Seq(Frames) /\ CallOK(h, k, fs1, r + 1, gone, taken, acting)
    <3>1. /\ CallOK(h, k, fs, r, gone, taken, acting) /\ k \in CallStates /\ gone \in BOOLEAN
          /\ fs \in Seq(Frames) /\ r \in Nat /\ h # "unborn"
      BY <1>3, <1>4
    <3> HIDE DEF k, h, fs, r, gone, taken, acting
    <3> QED
      BY <3>1, CallRefused
  <2>4. GrantsOK' /\ StartedOK'
    BY <1>1, <2>1, GrantsKept, StartedKept
  <2>5. CallOK(h, k, fs1, r + 1, gone, taken, acting1) /\ stage' \in [Ops -> Stages]
    BY <2>1, <2>2, <2>3 DEF SeamInv, StateType
  <2> HIDE DEF fs1, h, k, fs, r, gone, taken, acting, acting1
  <2> QED
    BY <1>3, <1>7, <2>1, <2>2, <2>3, <2>4, <2>5 DEF k
<1>9. CASE AcceptRetry(c, n, accepted)
  <2> DEFINE heard == accepted \cap Awaited(c, n)
             again == ~call[c].finished /\ OpsIn(call[c].buffered, "attempt") # {}
             sched == call[c].scheduled \/ again
             k1 == [k EXCEPT !.round = NoRound, !.current = r + 1, !.scheduled = sched]
  <2>1. /\ k.round # NoRound /\ ~k.ended
        /\ granted' = granted \cup {op \in heard : stage[op] = "waiting"}
        /\ \/ /\ k.final = "none" /\ call' = [call EXCEPT ![c] = k1]
              /\ stage' = Settle(Awaited(c, n), heard) /\ UNCHANGED <<waiting, frames, dropped>>
           \/ k.final # "none" /\ FinalFrame(c, k1, k.final) /\ SettleOver(OpsOf(c), heard)
    BY <1>4, <1>9 DEF AcceptRetry, RoundOpen
  <2>2. /\ stage' \in [Ops -> Stages]
        /\ \A op \in Ops : /\ stage'[op] = "acting" => stage[op] = "acting"
                           /\ stage'[op] = "granted" => stage[op] = "granted" \/ op \in granted'
                           /\ stage'[op] # "new" => stage[op] # "new"
    <3>1. \A op \in heard : stage[op] = "waiting" => op \in granted'
      BY <2>1
    <3>2. PICK ops : stage' = Settle(ops, heard)
      BY <2>1 DEF SettleOver
    <3> HIDE DEF heard
    <3> QED
      BY <3>1, <3>2, Settled
  <2>3. \A d \in Calls : Acting(d)' \subseteq Acting(d)
    BY <2>2, ActsNoMore
  <2>4. GrantsOK' /\ StartedOK'
    <3>1. granted \subseteq granted'
      BY <2>1
    <3> QED
      BY <1>1, <2>2, <3>1, GrantsKept, StartedKept
  <2>5. sched \in BOOLEAN
    OBVIOUS
  <2> HIDE DEF sched
  <2>6. k1 \in CallStates /\ CallOK(h, k1, fs, r + 1, gone, taken, acting)
    <3>1. /\ CallOK(h, k, fs, r, gone, taken, acting) /\ k \in CallStates /\ gone \in BOOLEAN /\ r \in Nat
      BY <1>3
    <3>2. k.round # NoRound /\ ~k.ended
      BY <2>1
    <3>3. Retried(k, r, sched, k1)
      BY DEF Retried
    <3> HIDE DEF k, h, fs, r, gone, taken, acting, k1
    <3> QED
      BY <2>5, <3>1, <3>2, <3>3, CallRetried
  <2>7. /\ k1.round = NoRound /\ k1.current = r + 1 /\ k1.finished = k.finished /\ k1.ended = k.ended
        /\ k1.released = k.released /\ k1.open = k.open /\ k1.buffered = k.buffered /\ k1.final = k.final
    <3>1. r + 1 \in Nat /\ NoRound \in Nat /\ k \in CallStates
      BY <1>3 DEF NoRound
    <3> HIDE DEF k, r
    <3> QED
      BY <2>5, <3>1 DEF CallStates
  <2> HIDE DEF k1
  <2>8. CASE k.final = "none"
    <3>1. /\ call' = [call EXCEPT ![c] = k1] /\ frames' = [frames EXCEPT ![c] = fs]
          /\ UNCHANGED <<waiting, dropped>>
      BY <2>1, <2>8 DEF SeamInv, StateType
    <3>2. CallOK(h, k1, fs, r + 1, gone, taken, acting1)
      <4>1. acting1 \subseteq acting
        BY <2>3
      <4> HIDE DEF h, fs, r, gone, taken, acting, acting1
      <4> QED
        BY <2>6, <4>1, CallStays
    <3>3. fs \in Seq(Frames)
      BY <1>3
    <3> HIDE DEF h, fs, r, gone, taken, acting, acting1, k
    <3> QED
      BY <1>7, <2>2, <2>3, <2>4, <2>6, <2>7, <3>1, <3>2, <3>3
  <2>9. CASE k.final # "none"
    <3>1. k.finished /\ handler[c] = "done" /\ k.final \in Kinds /\ call[c].released = TRUE
      <4>1. k.finished /\ (k.finished = k.released) /\ (h = "running" /\ k.finished => gone) /\ (gone => k.ended)
        BY <1>3, <2>9 DEF CallOK, Ending
      <4>2. h \in Handlers /\ k \in CallStates
        BY OfCall
      <4> QED
        BY <1>4, <2>1, <2>9, <4>1, <4>2 DEF Handlers, CallStates
    <3>2. Finished("done", k1, call[c], frames[c], requests'[c])
      <4>1. Counted("done", k1, frames[c], requests'[c]) /\ Exchange("done", k1, frames[c])
        BY <1>5, <2>6, <3>1 DEF CallOK
      <4>2. k1.current \notin IdsIn(frames[c])
        <5>1. k1.current = r + 1 /\ \A i \in IdsIn(fs) : i \in 1..r
          BY <1>3, <2>7 DEF CallOK, Counted, IdsIn
        <5> QED
          BY <1>3, <5>1
      <4> QED
        BY <2>1, <2>6, <2>7, <3>1, <4>1, <4>2 DEF Finished
    <3>3. Concludes(c, k1)
      <4>1. handler' = [handler EXCEPT ![c] = "done"]
        BY <1>1, <3>1 DEF SeamInv, StateType
      <4> QED
        BY <1>1, <1>5, <2>1, <2>3, <3>2, <4>1 DEF Concludes
    <3>4. AfterConcluding(c)
      <4>1. FinalFrame(c, k1, k.final) /\ k.final \in Kinds /\ k1.final \in Kinds \cup {"none"} /\ k1.round = NoRound
        BY <2>1, <2>7, <2>9, <3>1
      <4> HIDE DEF k
      <4> QED
        BY <3>3, <4>1, StepFinal
    <3>5. StateType'
      BY <1>1, <1>5, <2>2, <3>4 DEF AfterConcluding, SeamInv, StateType
    <3>6. ASSUME connected'
          PROVE  SessionsOK'
      <4>1. ServedAsBefore
        BY <1>1, <3>1, <3>4 DEF ServedAsBefore, AfterConcluding
      <4>2. SessionsOK
        BY <1>1, <3>6 DEF SeamInv
      <4> QED
        BY <1>1, <4>1, <4>2, SessionsStay
    <3>7. IdleOK'
      BY <1>1 DEF SeamInv, IdleOK
    <3> QED
      BY <2>4, <3>4, <3>5, <3>6, <3>7 DEF AfterConcluding, SeamInv
  <2> QED
    BY <2>8, <2>9
<1> QED
  BY <1>2, <1>8, <1>9

\* A call whose request did not come has not finished.
LEMMA UnbornUnfinished ==
  ASSUME SeamInv, NEW d \in Calls, handler[d] = "unborn"
  PROVE  ~call[d].finished
<1>1. call[d] = FreshCall
  BY OfCall DEF CallView, CallOK, Unborn
<1> QED
  BY <1>1 DEF FreshCall

\* A cancellation: the call is dropped, and its session serves one fewer.
LEMMA CancelKeeps ==
  ASSUME SeamInv, NEW c \in Calls, Cancel(c)
  PROVE  SeamInv'
<1>1. /\ connected /\ (InFlight(c) \/ Held(c)) /\ call' = [call EXCEPT ![c] = EndedCall(c)]
      /\ waiting' = RemoveFirst(waiting, c) /\ stage' = Settle(OpsOf(c), {}) /\ Release(c, FALSE)
      /\ dropped' = dropped \cup {c}
      /\ UNCHANGED <<handler, connected, frames, requests, handed, granted, acted>>
  BY DEF Cancel
<1>2. /\ call' \in [Calls -> CallStates] /\ call'[c] = EndedCall(c) /\ \A d \in Calls \ {c} : call'[d] = call[d]
      /\ EndedCall(c).released = TRUE /\ EndedCall(c).ended
  BY <1>1, EndedType DEF SeamInv, StateType
<1>3. handler[c] # "unborn"
  <2>1. Held(c) => call[c].finished
    BY DEF SeamInv, WaitingOK
  <2>2. handler[c] = "unborn" => ~call[c].finished
    BY UnbornUnfinished
  <2> QED
    BY <1>1, <2>1, <2>2 DEF InFlight
<1>4. /\ stage' \in [Ops -> Stages]
      /\ \A op \in Ops : /\ stage'[op] = "acting" => stage[op] = "acting"
                         /\ stage'[op] = "granted" => stage[op] = "granted" \/ op \in granted'
                         /\ stage'[op] # "new" => stage[op] # "new"
  BY <1>1, Settled
<1>5. \A d \in Calls : Acting(d)' \subseteq Acting(d)
  BY <1>4, ActsNoMore
<1>6. ASSUME NEW d \in Calls
      PROVE  CallView(d)' /\ call'[d].open \subseteq OpsOf(d)
  <2>1. handler'[d] = handler[d] /\ frames'[d] = frames[d] /\ requests'[d] = requests[d] /\ handed' = handed
    BY <1>1
  <2>2. \/ call'[d] = call[d] /\ (d \in dropped') = (d \in dropped)
        \/ call'[d] = EndedCall(d) /\ d \in dropped' /\ handler[d] # "unborn"
    BY <1>1, <1>2, <1>3
  <2> QED
    BY <1>5, <2>1, <2>2, OtherCall
<1>7. CallsOK'
  BY <1>6 DEF CallsOK, OpsOf
<1>8. waiting' \in Seq(Calls) /\ WaitingOK'
  <2>1. waiting \in Seq(Calls) /\ IsInjective(waiting) /\ Len(waiting) <= MaxHeld /\ MaxHeld \in Nat
    BY SeamAssumption DEF SeamInv, StateType, WaitingOK
  <2>2. /\ waiting' \in Seq(Calls) /\ IsInjective(waiting') /\ Range(waiting') = Range(waiting) \ {c}
        /\ Len(waiting') <= Len(waiting)
    BY <1>1, <2>1, Removed
  <2>3. Len(waiting') <= MaxHeld
    <3>1. Len(waiting') \in Nat /\ Len(waiting) \in Nat
      BY <2>1, <2>2
    <3> QED
      BY <2>1, <2>2, <3>1
  <2>4. \A d \in Calls : Held(d) = (call[d].finished /\ ~call[d].ended)
    BY DEF SeamInv, WaitingOK
  <2>5. ASSUME NEW d \in Calls
        PROVE  Held(d)' = (call'[d].finished /\ ~call'[d].ended)
    BY <1>2, <2>2, <2>4 DEF Held
  <2> QED
    BY <2>2, <2>3, <2>5 DEF WaitingOK
<1>9. session' \in [Sessions -> SessionStates] /\ idle' \in Seq(Sessions) /\ IdleOK'
  BY <1>1, ReleaseTypes
<1>10. SessionsOK'
  <2>1. SessionsOK
    BY <1>1 DEF SeamInv
  <2> QED
    BY <1>1, <1>2, <1>3, <2>1, SessionReleased
<1>11. StateType'
  BY <1>1, <1>2, <1>4, <1>8, <1>9 DEF SeamInv, StateType, SessionStates
<1>12. GrantsOK' /\ StartedOK'
  BY <1>1, <1>4, GrantsKept, StartedKept
<1> QED
  BY <1>7, <1>8, <1>9, <1>10, <1>11, <1>12 DEF SeamInv

\* The connection closes: what is in flight or held is dropped.
LEMMA CloseKeeps ==
  ASSUME SeamInv, Close
  PROVE  SeamInv'
<1> DEFINE cut == {c \in Calls : InFlight(c) \/ Held(c)}
<1>1. /\ connected' = FALSE /\ call' = [c \in Calls |-> IF c \in cut THEN EndedCall(c) ELSE call[c]]
      /\ waiting' = <<>> /\ idle' = <<>>
      /\ stage' = Settle(Ops, {}) /\ dropped' = dropped \cup cut
      /\ UNCHANGED <<handler, frames, requests, handed, granted, acted>>
  BY DEF Close
<1>2. \A d \in Calls : Held(d) = (call[d].finished /\ ~call[d].ended)
  BY DEF SeamInv, WaitingOK
<1>3. \A d \in Calls : d \in cut => handler[d] # "unborn"
  <2> TAKE d \in Calls
  <2>1. handler[d] = "unborn" => ~call[d].finished
    BY UnbornUnfinished
  <2> QED
    BY <1>2, <2>1 DEF InFlight
<1>4. \A d \in Calls \ cut : call[d].finished => call[d].ended
  BY <1>2
<1> HIDE DEF cut
<1>5. /\ stage' \in [Ops -> Stages]
      /\ \A op \in Ops : /\ stage'[op] = "acting" => stage[op] = "acting"
                         /\ stage'[op] = "granted" => stage[op] = "granted" \/ op \in granted'
                         /\ stage'[op] # "new" => stage[op] # "new"
  BY <1>1, Settled
<1>6. \A d \in Calls : Acting(d)' \subseteq Acting(d)
  BY <1>5, ActsNoMore
<1>7. ASSUME NEW d \in Calls
      PROVE  CallView(d)' /\ call'[d].open \subseteq OpsOf(d)
  <2>1. handler'[d] = handler[d] /\ frames'[d] = frames[d] /\ requests'[d] = requests[d] /\ handed' = handed
    BY <1>1
  <2>2. \/ call'[d] = call[d] /\ (d \in dropped') = (d \in dropped)
        \/ call'[d] = EndedCall(d) /\ d \in dropped' /\ handler[d] # "unborn"
    BY <1>1, <1>3
  <2> QED
    BY <1>6, <2>1, <2>2, OtherCall
<1>8. CallsOK'
  BY <1>7 DEF CallsOK, OpsOf
<1>9. WaitingOK' /\ IdleOK'
  <2>1. IsInjective(<<>>) /\ Len(<<>>) = 0 /\ Range(<<>>) = {} /\ MaxHeld \in Nat
    BY SeamAssumption DEF IsInjective, Range
  <2>2. \A d \in Calls : Held(d)' = FALSE
    BY <1>1, <2>1 DEF Held
  <2>3. \A d \in Calls : call'[d].finished => call'[d].ended
    BY <1>1, <1>4, EndedType
  <2>4. Len(waiting') <= MaxHeld /\ Len(idle') <= MaxHeld
    BY <1>1, <2>1
  <2> QED
    BY <1>1, <2>1, <2>2, <2>3, <2>4 DEF WaitingOK, IdleOK
<1>10. StateType'
  <2>1. call' \in [Calls -> CallStates]
    BY <1>1, EndedType, OfCall
  <2>2. session' \in [Sessions -> [known : BOOLEAN, live : Nat, next : Nat]]
    <3>1. session' = [s \in Sessions |-> [session[s] EXCEPT !.known = FALSE, !.live = 0]]
      BY DEF Close
    <3> QED
      BY <3>1 DEF SeamInv, StateType
  <2> QED
    <3>1. waiting' \in Seq(Calls) /\ idle' \in Seq(Sessions) /\ connected' \in BOOLEAN
      <4>1. \A S : <<>> \in Seq(S)
        OBVIOUS
      <4>2. waiting' = <<>> /\ idle' = <<>> /\ connected' = FALSE
        BY DEF Close
      <4> QED
        BY <4>1, <4>2
    <3>2. /\ handler' \in [Calls -> Handlers] /\ frames' \in [Calls -> Seq(Frames)]
          /\ requests' \in [Calls -> 0..MaxRequests]
      BY <1>1 DEF SeamInv, StateType
    <3> QED
      BY <1>5, <2>1, <2>2, <3>1, <3>2 DEF StateType
<1>11. GrantsOK' /\ StartedOK'
  BY <1>1, <1>5, GrantsKept, StartedKept
<1> QED
  BY <1>1, <1>8, <1>9, <1>10, <1>11 DEF SeamInv

\* The bound on the wait for a cancelled handler changes nothing the invariant speaks of.
LEMMA ForgetKeeps ==
  ASSUME SeamInv, UNCHANGED <<handler, call, waiting, session, idle, stage, connected, frames, requests, history>>
  PROVE  SeamInv'
<1>1. \A d : OpsOf(d)' = OpsOf(d) /\ Acting(d)' = Acting(d) /\ Held(d)' = Held(d) /\ Serving(d)' = Serving(d)
  BY DEF OpsOf, Acting, Held, Serving, Range, history
<1>2. StateType' /\ IdleOK' /\ GrantsOK' /\ StartedOK'
  BY DEF SeamInv, StateType, IdleOK, GrantsOK, ActsOnlyIfGranted, StartedOK, history
<1>3. CallsOK'
  BY <1>1 DEF SeamInv, CallsOK, CallView, history
<1>4. WaitingOK'
  BY <1>1 DEF SeamInv, WaitingOK
<1>5. SessionsOK => SessionsOK'
  BY <1>1 DEF SessionsOK, SessionOK, Range
<1> QED
  BY <1>2, <1>3, <1>4, <1>5 DEF SeamInv

\* A handler concludes: its final frame goes out, is kept, or is withheld.
LEMMA ConcludeKeeps ==
  ASSUME SeamInv, NEW c \in Calls, Conclude(c)
  PROVE  SeamInv'
<1>1. /\ handler[c] = "running" /\ handler' = [handler EXCEPT ![c] = "done"]
      /\ UNCHANGED <<connected, requests, handed, granted, acted>>
  BY DEF Conclude
<1>2. PICK kind \in Kinds : Finish(c, kind) \/ FinishCancelled(c, kind)
  BY DEF Conclude
<1>3. /\ call[c] \in CallStates /\ call[c].open \subseteq OpsOf(c) /\ frames[c] \in Seq(Frames)
      /\ CallOK(handler[c], call[c], frames[c], requests[c], c \in dropped, handed \cap OpsOf(c), Acting(c))
      /\ requests[c] \in Nat /\ (c \in dropped) \in BOOLEAN
  BY OfCall DEF CallView
<1>4. /\ handler' \in [Calls -> Handlers] /\ handler'[c] = "done" /\ \A d \in Calls \ {c} : handler'[d] = handler[d]
      /\ \A d \in Calls : (handler'[d] = "unborn") = (handler[d] = "unborn")
  BY <1>1 DEF SeamInv, StateType, Handlers
<1>5. \A d : OpsOf(d)' = OpsOf(d)
  BY DEF OpsOf
<1>6. CASE Finish(c, kind)
  <2> DEFINE k == [call[c] EXCEPT !.finished = TRUE, !.released = TRUE]
  <2>1. InFlight(c) /\ Release(c, kind = "input")
    BY <1>6 DEF Finish
  <2>2. ~call[c].finished /\ ~call[c].ended /\ ~call[c].released /\ call[c].final = "none"
    BY <1>3, <2>1 DEF InFlight, CallOK, Ending, CallStates
  <2>3. /\ k \in CallStates /\ k.finished /\ k.released /\ k.ended = call[c].ended /\ k.buffered = call[c].buffered
        /\ k.open = call[c].open /\ k.current = call[c].current /\ k.round = call[c].round /\ k.final = call[c].final
    BY <1>3 DEF CallStates
  <2>4. PICK ops : stage' = Settle(ops, {})
    BY <1>6 DEF Finish, SettleOver
  <2>5. \/ k.round # NoRound /\ KeepWaiting(c, k, kind)
        \/ k.round = NoRound /\ FinalFrame(c, k, kind)
    BY <1>6 DEF Finish
  <2> HIDE DEF k
  <2>6. /\ stage' \in [Ops -> Stages]
        /\ \A op \in Ops : /\ stage'[op] = "acting" => stage[op] = "acting"
                           /\ stage'[op] = "granted" => stage[op] = "granted" \/ op \in granted'
                           /\ stage'[op] # "new" => stage[op] # "new"
    BY <2>4, Settled
  <2>7. \A d \in Calls : Acting(d)' \subseteq Acting(d)
    BY <2>6, ActsNoMore
  <2>8. Finished("done", k, call[c], frames[c], requests'[c])
    <3>1. Counted("done", k, frames[c], requests'[c]) /\ Exchange("done", k, frames[c])
      BY <1>1, <1>3, <2>3 DEF CallOK, Counted, Exchange
    <3>2. k.current \notin IdsIn(frames[c])
      BY <1>3, <2>2, <2>3 DEF CallOK, OneFrame, Ending
    <3> QED
      BY <2>2, <2>3, <3>1, <3>2 DEF Finished
  <2>9. Concludes(c, k)
    BY <1>1, <2>2, <2>7, <2>8 DEF Concludes, SeamInv, StateType
  <2>10. AfterConcluding(c)
    <3>1. CASE k.round # NoRound /\ KeepWaiting(c, k, kind)
      BY <2>9, <3>1, StepKeeps
    <3>2. CASE k.round = NoRound /\ FinalFrame(c, k, kind)
      BY <2>2, <2>3, <2>9, <3>2, StepFinal
    <3> QED
      BY <2>5, <3>1, <3>2
  <2>11. session' \in [Sessions -> SessionStates] /\ idle' \in Seq(Sessions) /\ IdleOK'
    BY <2>1, ReleaseTypes
  <2>12. ASSUME connected'
         PROVE  SessionsOK'
    <3>1. SessionsOK
      BY <1>1, <2>12 DEF SeamInv
    <3> QED
      BY <1>1, <1>4, <2>1, <2>10, <3>1, SessionReleased DEF AfterConcluding
  <2>13. StateType'
    BY <1>1, <1>4, <2>6, <2>10, <2>11 DEF SeamInv, StateType, SessionStates, AfterConcluding
  <2>14. GrantsOK' /\ StartedOK'
    BY <1>1, <1>4, <2>6, GrantsKept, StartedKept
  <2> QED
    BY <2>10, <2>11, <2>12, <2>13, <2>14 DEF SeamInv, AfterConcluding
<1>7. CASE FinishCancelled(c, kind)
  <2>1. /\ ~InFlight(c) /\ UNCHANGED <<call, waiting, session, idle, stage, dropped>>
        /\ frames' = frames \/ frames' = [frames EXCEPT ![c] = Append(frames[c], Frame(1, kind, {}))]
    BY <1>7 DEF FinishCancelled, Written
  <2>2. \A d \in Calls : Acting(d)' = Acting(d)
    BY <2>1 DEF Acting, OpsOf
  <2>3. c \in dropped
    BY <1>1, <1>3, <2>1 DEF InFlight, CallOK, Ending
  <2> DEFINE k == call[c]
             r == requests[c]
             gone == c \in dropped
             taken == handed \cap OpsOf(c)
             acting == Acting(c)
             fs == frames[c]
  <2>4. CallOK("done", k, fs, r, gone, taken, acting)
    <3>1. CallOK("running", k, fs, r, gone, taken, acting)
      BY <1>1, <1>3
    <3> HIDE DEF k, r, gone, taken, acting, fs
    <3> QED
      BY <3>1, CallWithheld
  <2>5. /\ frames' \in [Calls -> Seq(Frames)] /\ CallOK("done", k, frames'[c], r, gone, taken, acting)
        /\ \A d \in Calls \ {c} : frames'[d] = frames[d]
    <3>1. CASE frames' = frames
      BY <2>4, <3>1 DEF SeamInv, StateType
    <3>2. CASE frames' = [frames EXCEPT ![c] = Append(frames[c], Frame(1, kind, {}))]
      <4> DEFINE fs1 == Append(fs, Frame(1, kind, {}))
      <4>1. fs1 \in Seq(Frames) /\ CallOK("done", k, fs1, r, gone, taken, acting)
        <5>1. k \in CallStates /\ fs \in Seq(Frames) /\ r \in Nat /\ gone /\ "done" # "unborn"
          BY <1>3, <2>3
        <5> HIDE DEF k, r, gone, taken, acting, fs
        <5> QED
          BY <2>4, <5>1, CallLate
      <4>2. frames' = [frames EXCEPT ![c] = fs1]
        BY <3>2
      <4> HIDE DEF fs1
      <4> QED
        BY <4>1, <4>2 DEF SeamInv, StateType
    <3> QED
      BY <2>1, <3>1, <3>2
  <2>6. ASSUME NEW d \in Calls
        PROVE  CallView(d)' /\ call'[d].open \subseteq OpsOf(d)
    <3>1. CASE d = c
      BY <1>1, <1>3, <1>4, <1>5, <2>1, <2>2, <2>5, <3>1 DEF CallView
    <3>2. CASE d # c
      BY <1>1, <1>4, <2>1, <2>2, <2>5, <3>2, OtherCall
    <3> QED
      BY <3>1, <3>2
  <2>7. CallsOK'
    BY <2>6 DEF CallsOK, OpsOf
  <2>8. WaitingOK' /\ IdleOK'
    BY <2>1 DEF SeamInv, WaitingOK, IdleOK, Held, Range
  <2>9. StateType'
    BY <1>1, <1>4, <2>1, <2>5 DEF SeamInv, StateType
  <2>10. ASSUME connected'
         PROVE  SessionsOK'
    <3>1. SessionsOK
      BY <1>1, <2>10 DEF SeamInv
    <3>2. ServedAsBefore
      BY <1>4, <2>1 DEF ServedAsBefore
    <3> QED
      BY <2>1, <3>1, <3>2, SessionsStay
  <2>11. GrantsOK' /\ StartedOK'
    BY <1>1, <1>4, <2>1, GrantsKept, StartedKept
  <2> QED
    BY <2>7, <2>8, <2>9, <2>10, <2>11 DEF SeamInv
<1> QED
  BY <1>2, <1>6, <1>7

\* Every step keeps the invariant.
LEMMA SeamStep ==
  SeamInv /\ [Next]_vars => SeamInv'
<1> SUFFICES ASSUME SeamInv, [Next]_vars
             PROVE  SeamInv'
  OBVIOUS
<1>1. ASSUME NEW c \in Calls, Open(c)
      PROVE  SeamInv'
  BY <1>1, OpenKeeps
<1>2. ASSUME NEW c \in Calls, TakeRetry(c)
      PROVE  SeamInv'
  BY <1>2, TakeRetryKeeps
<1>3. ASSUME NEW c \in Calls, Cancel(c)
      PROVE  SeamInv'
  BY <1>3, CancelKeeps
<1>4. ASSUME NEW c \in Calls, Forget(c)
      PROVE  SeamInv'
  BY <1>4, ForgetKeeps DEF Forget
<1>5. ASSUME NEW c \in Calls, EndRound(c)
      PROVE  SeamInv'
  BY <1>5, EndRoundKeeps
<1>6. ASSUME NEW c \in Calls, Conclude(c)
      PROVE  SeamInv'
  BY <1>6, ConcludeKeeps
<1>7. ASSUME NEW op \in Ops, EmitAttempt(op)
      PROVE  SeamInv'
  BY <1>7, EmitAttemptKeeps
<1>8. ASSUME NEW op \in Ops, GiveUp(op)
      PROVE  SeamInv'
  BY <1>8, GiveUpKeeps
<1>9. ASSUME NEW op \in Ops, Resume(op)
      PROVE  SeamInv'
  BY <1>9, ResumeKeeps
<1>10. ASSUME NEW op \in Ops, EmitOutcome(op)
       PROVE  SeamInv'
  BY <1>10, EmitOutcomeKeeps
<1>11. CASE Close
  BY <1>11, CloseKeeps
<1>12. CASE UNCHANGED vars
  BY <1>12, ForgetKeeps DEF vars, seamVars
<1> QED
  BY <1>1, <1>2, <1>3, <1>4, <1>5, <1>6, <1>7, <1>8, <1>9, <1>10, <1>11, <1>12 DEF Next

\* The invariant holds throughout.
LEMMA SeamAlways ==
  Spec => []SeamInv
BY SeamInit, SeamStep, PTL DEF Spec

-----------------------------------------------------------------------------
(* The order of events.                                                     *)

Opened(c) == handler[c] # "unborn"

\* What a call has sent, and what it still may send.
EventsIn(fs) == UNION {fs[n].events : n \in DOMAIN fs}
PendingIn(k) == IF k.ended THEN {} ELSE k.buffered
EventsOf(c) == EventsIn(frames[c]) \cup PendingIn(call[c])

Before(E, F) == \A x \in E, y \in F : x.number < y.number
Below(E, n) == \A x \in E : x.number < n
OnceEach(E) == \A x, y \in E : x # y => x.number # y.number

\* The frames fs of a call go out in order, each event once, before what is pending.
InOrder(fs, pending) ==
  /\ \A m, n \in DOMAIN fs : m < n => Before(fs[m].events, fs[n].events)
  /\ \A n \in DOMAIN fs : OnceEach(fs[n].events)
  /\ Before(EventsIn(fs), pending) /\ OnceEach(pending)

NextOf(c) == session[SessionOf[c]].next

\* A call's own events are in order, and while it is at work its session goes on from the last of them.
OwnOrder ==
  \A c \in Calls : /\ InOrder(frames[c], PendingIn(call[c]))
                   /\ InFlight(c) => connected /\ Below(EventsOf(c), NextOf(c))

\* The last request of a session's chain: none has followed it yet.
Latest(c) == Opened(c) /\ \A d \in Calls : After[d] = c => ~Opened(d)

\* The host may still answer it: it is at work, or has concluded, or will, with a request for input.
MayGoOn(c) ==
  c \notin dropped /\ (~call[c].finished \/ call[c].final = "input" \/ AskedInput(c))

\* The requests of a session make one chain, from a root, each following one that has ended.
ChainOK ==
  /\ \A d \in Calls : Opened(d) /\ After[d] # NoCall => call[After[d]].ended
  /\ \A c, d \in Calls : Latest(c) /\ Latest(d) /\ SessionOf[c] = SessionOf[d] => c = d
  /\ \A c \in Calls : Opened(c) => \E r \in Calls : Opened(r) /\ After[r] = NoCall /\ SessionOf[r] = SessionOf[c]

\* A request's events follow those of the request it follows, and its session goes on from them; so
\* it does while a request for input may still be answered.
ChainOrder ==
  \A c \in Calls : SessionOf[c] \notin restarted =>
    /\ \A d \in Calls : After[d] = c /\ Opened(d) =>
         /\ Before(EventsOf(c), EventsOf(d))
         /\ InFlight(d) => Below(EventsOf(c), NextOf(c))
    /\ connected /\ Latest(c) /\ MayGoOn(c) => session[SessionOf[c]].known /\ Below(EventsOf(c), NextOf(c))

-----------------------------------------------------------------------------
(* What a step does to the order of a call's events.                        *)

\* Less is pending.
LEMMA LessPending ==
  ASSUME NEW fs, NEW p, NEW p1 \in SUBSET p, InOrder(fs, p)
  PROVE  InOrder(fs, p1)
BY DEF InOrder, Before, OnceEach

\* A frame takes what is pending, or nothing.
LEMMA FrameTakes ==
  ASSUME NEW fs \in Seq(Frames), NEW f \in Frames, NEW p, NEW p1 \in SUBSET p,
         f.events \subseteq p, f.events = {} \/ p1 = {}
  PROVE  /\ EventsIn(Append(fs, f)) = EventsIn(fs) \cup f.events
         /\ InOrder(fs, p) => InOrder(Append(fs, f), p1)
<1> DEFINE t == Append(fs, f)
<1>1. /\ DOMAIN t = DOMAIN fs \cup {Len(fs) + 1} /\ t[Len(fs) + 1] = f /\ \A n \in DOMAIN fs : t[n] = fs[n]
      /\ \A n \in DOMAIN fs : n \in Nat /\ n <= Len(fs) /\ Len(fs) \in Nat
  OBVIOUS
<1> HIDE DEF t
<1>2. EventsIn(t) = EventsIn(fs) \cup f.events
  BY <1>1 DEF EventsIn
<1>3. ASSUME InOrder(fs, p)
      PROVE  InOrder(t, p1)
  <2>1. ASSUME NEW m \in DOMAIN t, NEW n \in DOMAIN t, m < n
        PROVE  Before(t[m].events, t[n].events)
    <3>1. m \in DOMAIN fs
      BY <1>1, <2>1
    <3>2. CASE n \in DOMAIN fs
      BY <1>1, <1>3, <2>1, <3>1, <3>2 DEF InOrder
    <3>3. CASE n = Len(fs) + 1
      <4>1. t[m].events \subseteq EventsIn(fs) /\ t[n] = f
        BY <1>1, <3>1, <3>3 DEF EventsIn
      <4> QED
        BY <1>3, <4>1 DEF InOrder, Before
    <3> QED
      BY <1>1, <3>2, <3>3
  <2>2. \A n \in DOMAIN t : OnceEach(t[n].events)
    <3>1. OnceEach(f.events)
      BY <1>3 DEF InOrder, OnceEach
    <3> QED
      BY <1>1, <1>3, <3>1 DEF InOrder
  <2>3. Before(EventsIn(t), p1)
    BY <1>2, <1>3 DEF InOrder, Before
  <2>4. OnceEach(p1)
    BY <1>3 DEF InOrder, OnceEach
  <2> QED
    BY <2>1, <2>2, <2>3, <2>4 DEF InOrder
<1> QED
  BY <1>2, <1>3 DEF t

\* A step that emits nothing for d, and takes back none of its ends.
QuietCall(d) ==
  /\ InOrder(frames[d], PendingIn(call[d])) => InOrder(frames'[d], PendingIn(call'[d]))
  /\ EventsOf(d)' \subseteq EventsOf(d)
  /\ call[d].ended => call'[d].ended
  /\ call[d].finished => call'[d].finished

\* Nothing is written for it.
LEMMA QuietStays ==
  ASSUME NEW d \in Calls, frames'[d] = frames[d], PendingIn(call'[d]) \subseteq PendingIn(call[d]),
         call[d].ended => call'[d].ended, call[d].finished => call'[d].finished
  PROVE  QuietCall(d)
<1>1. InOrder(frames[d], PendingIn(call[d])) => InOrder(frames[d], PendingIn(call'[d]))
  BY LessPending
<1> QED
  BY <1>1 DEF QuietCall, EventsOf

\* A frame is written for it.
LEMMA QuietFrame ==
  ASSUME NEW d \in Calls, frames[d] \in Seq(Frames), NEW f \in Frames, frames'[d] = Append(frames[d], f),
         f.events \subseteq PendingIn(call[d]), PendingIn(call'[d]) \subseteq PendingIn(call[d]),
         f.events = {} \/ PendingIn(call'[d]) = {},
         call[d].ended => call'[d].ended, call[d].finished => call'[d].finished
  PROVE  QuietCall(d)
<1> DEFINE p == PendingIn(call[d])
           p1 == PendingIn(call'[d])
           t == Append(frames[d], f)
<1>1. EventsIn(t) = EventsIn(frames[d]) \cup f.events /\ (InOrder(frames[d], p) => InOrder(t, p1))
  BY FrameTakes
<1>2. frames'[d] = t
  OBVIOUS
<1> HIDE DEF t
<1> QED
  BY <1>1, <1>2 DEF QuietCall, EventsOf

\* No request comes and nothing is emitted.
QuietStep ==
  /\ \A d \in Calls : QuietCall(d) /\ Opened(d)' = Opened(d)
  /\ connected' = connected \/ \A d \in Calls : ~InFlight(d)'
  /\ restarted \subseteq restarted'
  /\ \A s \in Sessions : session'[s].next = session[s].next

\* Whoever may go on after the step could before it, and finds its session as it was.
GoesOnAsBefore ==
  \A d \in Calls : connected' /\ Latest(d) /\ MayGoOn(d)' /\ SessionOf[d] \notin restarted' =>
    connected /\ MayGoOn(d) /\ (session[SessionOf[d]].known => session'[SessionOf[d]].known)

\* Numbers are numbers.
LEMMA Numbered ==
  ASSUME SeamInv, NEW c \in Calls
  PROVE  /\ EventsOf(c) \subseteq Events /\ EventsIn(frames[c]) \subseteq Events /\ PendingIn(call[c]) \subseteq Events
         /\ \A x \in EventsOf(c) : x.number \in Nat
         /\ NextOf(c) \in Nat /\ InFlight(c) \in BOOLEAN /\ Opened(c) \in BOOLEAN
<1>1. frames[c] \in Seq(Frames) /\ call[c] \in CallStates /\ SessionOf[c] \in Sessions
  BY OfCall
<1>2. \A n \in DOMAIN frames[c] : frames[c][n].events \subseteq Events
  <2>1. \A n \in DOMAIN frames[c] : frames[c][n] \in Frames
    BY <1>1
  <2> QED
    BY <2>1 DEF Frames
<1>3. EventsIn(frames[c]) \subseteq Events /\ PendingIn(call[c]) \subseteq Events
  BY <1>1, <1>2 DEF EventsIn, PendingIn, CallStates
<1>4. \A x \in Events : x.number \in Nat
  BY DEF Events
<1>5. NextOf(c) \in Nat
  BY <1>1 DEF NextOf, SeamInv, StateType
<1> QED
  BY <1>3, <1>4, <1>5 DEF EventsOf, InFlight, Opened

LEMMA QuietOwn ==
  ASSUME SeamInv, OwnOrder, QuietStep
  PROVE  OwnOrder'
<1> SUFFICES ASSUME NEW c \in Calls
             PROVE  /\ InOrder(frames'[c], PendingIn(call'[c]))
                    /\ InFlight(c)' => connected' /\ Below(EventsOf(c), NextOf(c))'
  BY DEF OwnOrder
<1>1. /\ InOrder(frames[c], PendingIn(call[c])) /\ (InFlight(c) => connected /\ Below(EventsOf(c), NextOf(c)))
  BY DEF OwnOrder
<1>2. QuietCall(c) /\ Opened(c)' = Opened(c)
  BY DEF QuietStep
<1>3. InFlight(c)' => InFlight(c) /\ connected' = connected
  BY <1>2 DEF QuietStep, QuietCall, InFlight, Opened
<1>4. NextOf(c)' = NextOf(c)
  BY OfCall DEF QuietStep, NextOf
<1> QED
  BY <1>1, <1>2, <1>3, <1>4 DEF QuietCall, Below

LEMMA QuietChain ==
  ASSUME SeamInv, ChainOK, ChainOrder, QuietStep, GoesOnAsBefore
  PROVE  ChainOK' /\ ChainOrder'
<1>1. \A d \in Calls : Opened(d)' = Opened(d) /\ QuietCall(d)
  BY DEF QuietStep
<1>2. \A d \in Calls : Latest(d)' = Latest(d)
  BY <1>1 DEF Latest
<1>3. \A d \in Calls : NextOf(d)' = NextOf(d)
  BY OfCall DEF QuietStep, NextOf
<1>4. ChainOK'
  <2>1. \A d \in Calls : After[d] # NoCall => After[d] \in Calls
    BY SeamAssumption
  <2>2. \A d \in Calls : Opened(d)' /\ After[d] # NoCall => call'[After[d]].ended
    BY <1>1, <2>1 DEF ChainOK, QuietCall
  <2>3. \A c, d \in Calls : Latest(c)' /\ Latest(d)' /\ SessionOf[c] = SessionOf[d] => c = d
    BY <1>2 DEF ChainOK
  <2>4. \A c \in Calls : Opened(c)' => \E r \in Calls : Opened(r)' /\ After[r] = NoCall /\ SessionOf[r] = SessionOf[c]
    BY <1>1 DEF ChainOK
  <2> QED
    BY <2>2, <2>3, <2>4 DEF ChainOK
<1>5. ASSUME NEW c \in Calls, SessionOf[c] \notin restarted'
      PROVE  /\ \A d \in Calls : After[d] = c /\ Opened(d)' =>
                  /\ Before(EventsOf(c), EventsOf(d))'
                  /\ InFlight(d)' => Below(EventsOf(c), NextOf(c))'
             /\ connected' /\ Latest(c)' /\ MayGoOn(c)' => session'[SessionOf[c]].known /\ Below(EventsOf(c), NextOf(c))'
  <2>1. SessionOf[c] \notin restarted
    BY <1>5 DEF QuietStep
  <2>2. /\ \A d \in Calls : After[d] = c /\ Opened(d) =>
             /\ Before(EventsOf(c), EventsOf(d))
             /\ InFlight(d) => Below(EventsOf(c), NextOf(c))
        /\ connected /\ Latest(c) /\ MayGoOn(c) => session[SessionOf[c]].known /\ Below(EventsOf(c), NextOf(c))
    BY <2>1 DEF ChainOrder
  <2>3. \A d \in Calls : EventsOf(d)' \subseteq EventsOf(d) /\ (InFlight(d)' => InFlight(d))
    BY <1>1 DEF QuietCall, InFlight, Opened
  <2>4. ASSUME NEW d \in Calls, After[d] = c, Opened(d)'
        PROVE  /\ Before(EventsOf(c), EventsOf(d))'
               /\ InFlight(d)' => Below(EventsOf(c), NextOf(c))'
    BY <1>1, <1>3, <2>2, <2>3, <2>4 DEF Before, Below
  <2>5. ASSUME connected', Latest(c)', MayGoOn(c)'
        PROVE  session'[SessionOf[c]].known /\ Below(EventsOf(c), NextOf(c))'
    <3>1. connected /\ Latest(c) /\ MayGoOn(c) /\ (session[SessionOf[c]].known => session'[SessionOf[c]].known)
      BY <1>2, <1>5, <2>5 DEF GoesOnAsBefore
    <3> QED
      BY <1>3, <2>2, <2>3, <3>1 DEF Below
  <2> QED
    BY <2>4, <2>5
<1>6. ChainOrder'
  BY <1>5 DEF ChainOrder
<1> QED
  BY <1>4, <1>6

\* What a step that concludes c in state k has to be for the order of events: it writes or keeps what
\* was buffered, and ends no other call but the one that makes room.
EndsIn(c, k) ==
  /\ c \in Calls /\ k \in CallStates /\ ~call[c].ended /\ ~k.ended /\ k.finished /\ k.buffered \subseteq call[c].buffered

\* What it does: who may go on could before, unless it is c, with a request for input.
EndsQuietly(c, kind) ==
  /\ \A d \in Calls : QuietCall(d)
  /\ \A d \in Calls \ {c} : MayGoOn(d)' => MayGoOn(d)
  /\ MayGoOn(c)' => c \notin dropped /\ (kind = "input" \/ AskedInput(c))
  /\ dropped \subseteq dropped'

LEMMA EndedPending ==
  ASSUME SeamInv, NEW d \in Calls, call'[d] = EndedCall(d)
  PROVE  /\ PendingIn(call'[d]) = {} /\ call'[d].ended /\ call'[d].finished
         /\ frames'[d] = frames[d] => QuietCall(d)
<1>1. PendingIn(call'[d]) = {} /\ call'[d].ended /\ call'[d].finished
  BY EndedType DEF PendingIn
<1> QED
  BY <1>1, QuietStays

\* A call that is not c is left as it is, or dropped.
LEMMA OtherQuiet ==
  ASSUME SeamInv, NEW d \in Calls, frames'[d] = frames[d], dropped \subseteq dropped',
         call'[d] = call[d] \/ (call'[d] = EndedCall(d) /\ d \in dropped')
  PROVE  QuietCall(d) /\ (MayGoOn(d)' => MayGoOn(d))
<1>1. CASE call'[d] = call[d]
  <2>1. QuietCall(d)
    BY <1>1, QuietStays
  <2> QED
    BY <1>1, <2>1 DEF MayGoOn, AskedInput
<1>2. CASE call'[d] = EndedCall(d) /\ d \in dropped'
  BY <1>2, EndedPending DEF MayGoOn
<1> QED
  BY <1>1, <1>2

LEMMA KeepQuiet ==
  ASSUME SeamInv, NEW c, NEW k, NEW kind \in Kinds, EndsIn(c, k), KeepWaiting(c, k, kind)
  PROVE  EndsQuietly(c, kind)
<1> DEFINE line == Append(RemoveFirst(waiting, c), c)
           over == IF Len(line) > MaxHeld THEN {Head(line)} ELSE {}
           k1 == [k EXCEPT !.final = kind]
<1>1. /\ dropped' = dropped \cup over /\ frames' = frames
      /\ call' = [d \in Calls |-> IF d = c THEN k1 ELSE IF d \in over THEN EndedCall(d) ELSE call[d]]
  BY DEF KeepWaiting
<1>2. over \subseteq Range(waiting) \ {c}
  <2>1. waiting \in Seq(Calls) /\ IsInjective(waiting) /\ Len(waiting) <= MaxHeld /\ MaxHeld \in Nat \ {0} /\ c \in Calls
    BY SeamAssumption DEF SeamInv, StateType, WaitingOK, EndsIn
  <2> QED
    BY <2>1, Queued
<1> HIDE DEF over, line
<1>3. /\ k1.finished /\ k1.ended = k.ended /\ k1.final = kind /\ k1.buffered = k.buffered
  BY DEF EndsIn, CallStates
<1> HIDE DEF k1
<1>4. c \in Calls /\ ~call[c].ended /\ ~k1.ended /\ k1.buffered \subseteq call[c].buffered /\ call'[c] = k1
  BY <1>1, <1>3 DEF EndsIn
<1>5. QuietCall(c)
  BY <1>1, <1>3, <1>4, QuietStays DEF PendingIn
<1>6. \A d \in Calls \ {c} : QuietCall(d) /\ (MayGoOn(d)' => MayGoOn(d))
  <2> TAKE d \in Calls \ {c}
  <2>1. d \in Calls /\ call'[d] = IF d \in over THEN EndedCall(d) ELSE call[d]
    BY <1>1
  <2>2. CASE d \in over
    BY <1>1, <2>1, <2>2, OtherQuiet
  <2>3. CASE d \notin over
    BY <1>1, <2>1, <2>3, OtherQuiet
  <2> QED
    BY <2>2, <2>3
<1>7. MayGoOn(c)' => c \notin dropped /\ (kind = "input" \/ AskedInput(c))
  BY <1>1, <1>3, <1>4 DEF MayGoOn, AskedInput
<1> QED
  BY <1>1, <1>4, <1>5, <1>6, <1>7 DEF EndsQuietly

\* A frame that is written.
LEMMA WrittenQuiet ==
  ASSUME SeamInv, NEW c \in Calls, NEW f \in Frames, Written(c, f),
         f.events \subseteq PendingIn(call[c]), PendingIn(call'[c]) \subseteq PendingIn(call[c]),
         f.events = {} \/ PendingIn(call'[c]) = {},
         call[c].ended => call'[c].ended, call[c].finished => call'[c].finished
  PROVE  /\ QuietCall(c) /\ frames'[c] = Append(frames[c], f) /\ \A d \in Calls \ {c} : frames'[d] = frames[d]
         /\ AskedInput(c)' => c \notin dropped' /\ (f.kind = "input" \/ \E n \in DOMAIN frames[c] : frames[c][n].kind = "input")
<1>1. frames' = [frames EXCEPT ![c] = Append(frames[c], f)] /\ frames \in [Calls -> Seq(Frames)]
  BY DEF Written, SeamInv, StateType
<1>2. frames'[c] = Append(frames[c], f) /\ \A d \in Calls \ {c} : frames'[d] = frames[d]
  BY <1>1
<1>3. QuietCall(c)
  BY <1>1, <1>2, QuietFrame
<1> DEFINE fs == frames[c]
<1>4. \A n \in DOMAIN Append(fs, f) : Append(fs, f)[n] = f \/ (n \in DOMAIN fs /\ Append(fs, f)[n] = fs[n])
  <2>1. fs \in Seq(Frames)
    BY <1>1
  <2> HIDE DEF fs
  <2> QED
    BY <2>1
<1> QED
  BY <1>2, <1>3, <1>4 DEF AskedInput

LEMMA FinalQuiet ==
  ASSUME SeamInv, NEW c, NEW k, NEW kind \in Kinds, EndsIn(c, k), FinalFrame(c, k, kind)
  PROVE  EndsQuietly(c, kind)
<1>1. c \in Calls /\ k \in CallStates /\ OutcomesOf(k) \subseteq k.buffered /\ OutcomesOf(k) \subseteq Events
  BY DEF EndsIn, OutcomesOf, CallStates
<1>2. CASE kind = "error" /\ OutcomesOf(k) # {}
  <2> DEFINE k2 == [k EXCEPT !.buffered = OutcomesOf(k), !.scheduled = TRUE]
  <2>1. k2 \in CallStates /\ k2.ended = k.ended /\ k2.finished = k.finished /\ k2.buffered = OutcomesOf(k)
    BY <1>1 DEF CallStates
  <2>2. KeepWaiting(c, k2, kind)
    <3>1. [k EXCEPT !.buffered = OutcomesOf(k), !.scheduled = TRUE, !.final = kind] = [k2 EXCEPT !.final = kind]
      BY <1>1 DEF CallStates
    <3> QED
      BY <1>2, <3>1 DEF FinalFrame
  <2> HIDE DEF k2
  <2>3. EndsIn(c, k2)
    BY <1>1, <2>1 DEF EndsIn
  <2> QED
    BY <2>2, <2>3, KeepQuiet
<1>3. CASE ~(kind = "error" /\ OutcomesOf(k) # {})
  <2> DEFINE f == Frame(k.current, kind, OutcomesOf(k))
             k1 == [k EXCEPT !.buffered = {}, !.ended = TRUE, !.final = "none"]
  <2>1. Written(c, f) /\ call' = [call EXCEPT ![c] = k1] /\ dropped' = dropped
    BY <1>3 DEF FinalFrame
  <2>2. f \in Frames /\ f.events = OutcomesOf(k) /\ f.kind = kind
    BY <1>1 DEF Frame, Frames, CallStates
  <2>3. k1.ended /\ k1.finished /\ k1.final = "none"
    BY <1>1 DEF EndsIn, CallStates
  <2> HIDE DEF f, k1
  <2>4. call'[c] = k1 /\ \A d \in Calls \ {c} : call'[d] = call[d]
    BY <1>1, <2>1 DEF SeamInv, StateType
  <2>5. f.events \subseteq PendingIn(call[c]) /\ PendingIn(call'[c]) = {}
    BY <1>1, <2>2, <2>3, <2>4 DEF EndsIn, PendingIn
  <2>6. /\ QuietCall(c) /\ frames'[c] = Append(frames[c], f) /\ \A d \in Calls \ {c} : frames'[d] = frames[d]
        /\ AskedInput(c)' => c \notin dropped' /\ (f.kind = "input" \/ \E n \in DOMAIN frames[c] : frames[c][n].kind = "input")
    BY <1>1, <2>1, <2>2, <2>3, <2>4, <2>5, WrittenQuiet
  <2>7. MayGoOn(c)' => c \notin dropped /\ (kind = "input" \/ AskedInput(c))
    BY <2>1, <2>2, <2>3, <2>4, <2>6 DEF MayGoOn, AskedInput
  <2>8. \A d \in Calls \ {c} : QuietCall(d) /\ (MayGoOn(d)' => MayGoOn(d))
    <3> TAKE d \in Calls \ {c}
    <3> QED
      BY <2>1, <2>4, <2>6, OtherQuiet
  <2> QED
    BY <1>1, <2>1, <2>6, <2>7, <2>8 DEF EndsQuietly
<1> QED
  BY <1>2, <1>3

\* A session that is not the released request's, or is kept for its retry, is forgotten only by eviction.
LEMMA ReleaseKnows ==
  ASSUME SeamInv, NEW c \in Calls, NEW continues, Release(c, continues)
  PROVE  /\ restarted \subseteq restarted' /\ \A s \in Sessions : session'[s].next = session[s].next
         /\ \A s \in Sessions : /\ session[s].known /\ s \notin restarted'
                                /\ s # SessionOf[c] \/ continues \/ call[c].released \/ session[s].live > 1
                                => session'[s].known
<1>1. SessionOf[c] \in Sessions /\ session \in [Sessions -> SessionStates]
  BY SeamAssumption DEF SeamInv, StateType, SessionStates
<1> DEFINE s == SessionOf[c]
<1>2. CASE call[c].released
  BY <1>2 DEF Release
<1>3. CASE ~call[c].released /\ session[s].live > 1
  <2>1. session' = [session EXCEPT ![s].live = @ - 1] /\ restarted' = restarted
    BY <1>3 DEF Release
  <2> QED
    BY <1>1, <2>1 DEF SessionStates
<1>4. CASE ~call[c].released /\ ~(session[s].live > 1) /\ continues
  <2> DEFINE line == Append(RemoveFirst(idle, s), s)
             over == IF Len(line) > MaxHeld THEN {Head(line)} ELSE {}
  <2>1. /\ restarted' = restarted \cup over
        /\ session' = [x \in Sessions |-> IF x = s THEN [session[x] EXCEPT !.live = 0]
                                          ELSE [session[x] EXCEPT !.known = @ /\ x \notin over]]
    BY <1>4 DEF Release, KeepIdle
  <2> HIDE DEF over
  <2> QED
    BY <1>1, <2>1 DEF SessionStates
<1>5. CASE ~call[c].released /\ ~(session[s].live > 1) /\ ~continues
  <2>1. session' = [session EXCEPT ![s].known = FALSE, ![s].live = 0] /\ restarted' = restarted
    BY <1>5 DEF Release
  <2> QED
    BY <1>1, <1>5, <2>1 DEF SessionStates
<1> QED
  BY <1>2, <1>3, <1>4, <1>5

-----------------------------------------------------------------------------
(* The steps that emit nothing.                                             *)

\* The order of a call's end, as the other invariant has it.
LEMMA EndFacts ==
  ASSUME SeamInv, NEW c \in Calls
  PROVE  /\ call[c].ended => call[c].finished
         /\ call[c].finished = call[c].released /\ call[c].finished \in BOOLEAN
         /\ call[c].finished => Opened(c)
         /\ c \in dropped => call[c].ended
         /\ handler[c] = "running" /\ call[c].finished => c \in dropped
         /\ AskedInput(c) => call[c].ended
         /\ call[c].final # "none" => call[c].finished
<1>1. /\ call[c] \in CallStates
      /\ CallOK(handler[c], call[c], frames[c], requests[c], c \in dropped, handed \cap OpsOf(c), Acting(c))
  BY OfCall DEF CallView
<1>2. /\ Ending(handler[c], call[c], c \in dropped) /\ Unborn(handler[c], call[c], frames[c], requests[c])
      /\ FinalEnds(call[c], frames[c], c \in dropped)
  BY <1>1 DEF CallOK
<1>3. AskedInput(c) => call[c].ended
  BY <1>2 DEF AskedInput, FinalEnds, ConcludedIn, Kinds
<1>4. call[c].finished => Opened(c)
  BY <1>2 DEF Unborn, FreshCall, Opened
<1> QED
  BY <1>1, <1>2, <1>3, <1>4 DEF Ending, CallStates

\* The session stays, and so does who may go on.
LEMMA SameSession ==
  ASSUME UNCHANGED <<session, connected>>, \A d \in Calls : MayGoOn(d)' => MayGoOn(d)
  PROVE  GoesOnAsBefore
BY DEF GoesOnAsBefore

\* No frame, nothing buffered and no end.
LEMMA NothingSent ==
  ASSUME SeamInv, UNCHANGED <<handler, frames, session, connected, dropped, restarted>>,
         \A d \in Calls : /\ call'[d].finished = call[d].finished /\ call'[d].ended = call[d].ended
                          /\ call'[d].final = call[d].final /\ call'[d].buffered = call[d].buffered
  PROVE  QuietStep /\ GoesOnAsBefore
<1>1. \A d \in Calls : QuietCall(d)
  BY QuietStays DEF PendingIn
<1>2. \A d \in Calls : MayGoOn(d)' => MayGoOn(d)
  BY DEF MayGoOn, AskedInput
<1> QED
  BY <1>1, <1>2, SameSession DEF QuietStep, Opened

LEMMA EndRoundQuiet ==
  ASSUME SeamInv, NEW c \in Calls, EndRound(c)
  PROVE  QuietStep /\ GoesOnAsBefore
<1> DEFINE k == [call[c] EXCEPT !.scheduled = FALSE]
           k1 == [k EXCEPT !.round = Len(frames[c]) + 1, !.current = NoRequest, !.buffered = {}]
           f == Frame(k.current, "round", k.buffered)
<1>1. UNCHANGED <<handler, session, connected, dropped, restarted>>
  BY DEF EndRound, history
<1>2. call[c] \in CallStates /\ frames[c] \in Seq(Frames) /\ call \in [Calls -> CallStates]
  BY OfCall DEF SeamInv, StateType
<1>3. k \in CallStates /\ k.finished = call[c].finished /\ k.ended = call[c].ended /\ k.final = call[c].final
      /\ k.buffered = call[c].buffered
  BY <1>2 DEF CallStates
<1>4. CASE k.ended \/ k.round # NoRound \/ k.current = NoRequest \/ k.buffered = {}
  <2>1. call' = [call EXCEPT ![c] = k] /\ frames' = frames
    BY <1>4 DEF EndRound
  <2> HIDE DEF k
  <2>2. \A d \in Calls : /\ call'[d].finished = call[d].finished /\ call'[d].ended = call[d].ended
                         /\ call'[d].final = call[d].final /\ call'[d].buffered = call[d].buffered
    BY <1>2, <1>3, <2>1
  <2> QED
    BY <1>1, <2>1, <2>2, NothingSent
<1>5. CASE ~(k.ended \/ k.round # NoRound \/ k.current = NoRequest \/ k.buffered = {})
  <2>1. call' = [call EXCEPT ![c] = k1] /\ Written(c, f)
    BY <1>5 DEF EndRound
  <2>2. k1.finished = k.finished /\ k1.ended = k.ended /\ k1.final = k.final /\ k1.buffered = {}
    BY <1>2 DEF CallStates
  <2>3. f \in Frames /\ f.kind = "round" /\ f.events = k.buffered
    BY <1>3 DEF Frame, Frames, CallStates
  <2> HIDE DEF k, k1, f
  <2>4. call'[c] = k1 /\ \A d \in Calls \ {c} : call'[d] = call[d]
    BY <1>2, <2>1
  <2>5. f.events \subseteq PendingIn(call[c]) /\ PendingIn(call'[c]) = {}
    BY <1>3, <1>5, <2>2, <2>3, <2>4 DEF PendingIn
  <2>6. /\ QuietCall(c) /\ frames'[c] = Append(frames[c], f) /\ \A d \in Calls \ {c} : frames'[d] = frames[d]
        /\ AskedInput(c)' => c \notin dropped' /\ (f.kind = "input" \/ \E n \in DOMAIN frames[c] : frames[c][n].kind = "input")
    BY <1>3, <2>1, <2>2, <2>3, <2>4, <2>5, WrittenQuiet
  <2>7. MayGoOn(c)' => MayGoOn(c)
    BY <1>1, <1>3, <2>2, <2>3, <2>4, <2>6 DEF MayGoOn, AskedInput
  <2>8. \A d \in Calls \ {c} : QuietCall(d) /\ (MayGoOn(d)' => MayGoOn(d))
    <3> TAKE d \in Calls \ {c}
    <3> QED
      BY <1>1, <2>4, <2>6, OtherQuiet
  <2>9. \A d \in Calls : QuietCall(d) /\ (MayGoOn(d)' => MayGoOn(d))
    BY <2>6, <2>7, <2>8
  <2> QED
    BY <1>1, <2>9, SameSession DEF QuietStep, Opened
<1> QED
  BY <1>4, <1>5

LEMMA TakeRetryQuiet ==
  ASSUME SeamInv, NEW c \in Calls, TakeRetry(c)
  PROVE  QuietStep /\ GoesOnAsBefore
<1>1. UNCHANGED <<handler, session, connected, restarted>>
  BY DEF TakeRetry
<1>2. PICK n \in Rounds(c), accepted \in SUBSET OpsOf(c) : AcceptRetry(c, n, accepted) \/ RefuseRetry(c, n)
  BY DEF TakeRetry
<1>3. call[c] \in CallStates /\ frames[c] \in Seq(Frames) /\ call \in [Calls -> CallStates] /\ requests[c] \in Nat
  BY OfCall DEF SeamInv, StateType
<1>4. ASSUME \A d \in Calls : QuietCall(d), \A d \in Calls : MayGoOn(d)' => MayGoOn(d)
      PROVE  QuietStep /\ GoesOnAsBefore
  BY <1>1, <1>4, SameSession DEF QuietStep, Opened
<1>5. CASE RefuseRetry(c, n)
  <2> DEFINE f == Frame(requests[c] + 1, "refused", {})
  <2>1. Written(c, f) /\ call' = call /\ dropped' = dropped
    BY <1>5 DEF RefuseRetry
  <2>2. f \in Frames /\ f.kind = "refused" /\ f.events = {}
    BY <1>3 DEF Frame, Frames, Events
  <2> HIDE DEF f
  <2>3. /\ QuietCall(c) /\ frames'[c] = Append(frames[c], f) /\ \A d \in Calls \ {c} : frames'[d] = frames[d]
        /\ AskedInput(c)' => c \notin dropped' /\ (f.kind = "input" \/ \E m \in DOMAIN frames[c] : frames[c][m].kind = "input")
    BY <2>1, <2>2, WrittenQuiet
  <2>4. MayGoOn(c)' => MayGoOn(c)
    BY <2>1, <2>2, <2>3 DEF MayGoOn, AskedInput
  <2>5. \A d \in Calls \ {c} : QuietCall(d) /\ (MayGoOn(d)' => MayGoOn(d))
    <3> TAKE d \in Calls \ {c}
    <3> QED
      BY <2>1, <2>3, OtherQuiet
  <2>6. \A d \in Calls : QuietCall(d) /\ (MayGoOn(d)' => MayGoOn(d))
    BY <2>3, <2>4, <2>5
  <2> QED
    BY <1>4, <2>6
<1>6. CASE AcceptRetry(c, n, accepted)
  <2> DEFINE again == ~call[c].finished /\ OpsIn(call[c].buffered, "attempt") # {}
             sched == call[c].scheduled \/ again
             k == [call[c] EXCEPT !.round = NoRound, !.current = requests[c] + 1, !.scheduled = sched]
  <2>1. /\ ~call[c].ended
        /\ \/ call[c].final = "none" /\ call' = [call EXCEPT ![c] = k] /\ UNCHANGED <<waiting, frames, dropped>>
           \/ call[c].final # "none" /\ FinalFrame(c, k, call[c].final)
    BY <1>6 DEF AcceptRetry, RoundOpen
  <2>2. sched \in BOOLEAN /\ requests[c] + 1 \in Nat /\ NoRound \in Nat
    BY <1>3 DEF NoRound
  <2> HIDE DEF sched
  <2>3. /\ k \in CallStates /\ k.finished = call[c].finished /\ k.ended = call[c].ended /\ k.final = call[c].final
        /\ k.buffered = call[c].buffered
    BY <1>3, <2>2 DEF CallStates
  <2> HIDE DEF k
  <2>4. CASE call[c].final = "none" /\ call' = [call EXCEPT ![c] = k] /\ UNCHANGED <<waiting, frames, dropped>>
    <3>1. \A d \in Calls : /\ call'[d].finished = call[d].finished /\ call'[d].ended = call[d].ended
                           /\ call'[d].final = call[d].final /\ call'[d].buffered = call[d].buffered
      BY <1>3, <2>3, <2>4
    <3> QED
      BY <1>1, <2>4, <3>1, NothingSent
  <2>5. CASE call[c].final # "none" /\ FinalFrame(c, k, call[c].final)
    <3>1. call[c].final \in Kinds /\ call[c].finished
      BY <1>3, <2>5, EndFacts DEF CallStates
    <3>2. EndsIn(c, k)
      BY <2>1, <2>3, <3>1 DEF EndsIn
    <3>3. EndsQuietly(c, call[c].final)
      BY <2>5, <3>1, <3>2, FinalQuiet
    <3>4. \A d \in Calls : MayGoOn(d)' => MayGoOn(d)
      BY <3>3 DEF EndsQuietly, MayGoOn
    <3> QED
      BY <1>4, <3>3, <3>4 DEF EndsQuietly
  <2> QED
    BY <2>1, <2>4, <2>5
<1> QED
  BY <1>2, <1>5, <1>6

\* A call at work is the last of its session's chain, and the only one.
LEMMA AtWorkLatest ==
  ASSUME SeamInv, ChainOK, NEW c \in Calls, InFlight(c)
  PROVE  Latest(c) /\ \A d \in Calls : Latest(d) /\ SessionOf[d] = SessionOf[c] => d = c
<1>1. c # NoCall /\ Opened(c) /\ ~call[c].finished
  BY SeamAssumption DEF InFlight, Opened
<1>2. ~call[c].ended
  BY <1>1, EndFacts
<1>3. Latest(c)
  BY <1>1, <1>2 DEF Latest, ChainOK
<1> QED
  BY <1>3 DEF ChainOK

\* A request of the session that ends without a request for input leaves nobody who may go on.
LEMMA ReleaseGoesOn ==
  ASSUME SeamInv, ChainOK, NEW c \in Calls, NEW continues, Release(c, continues), connected' = connected,
         ~call[c].released => InFlight(c),
         \A d \in Calls \ {c} : MayGoOn(d)' => MayGoOn(d),
         MayGoOn(c)' => MayGoOn(c) /\ (continues \/ call[c].released)
  PROVE  GoesOnAsBefore
<1> SUFFICES ASSUME NEW d \in Calls, connected', Latest(d), MayGoOn(d)', SessionOf[d] \notin restarted'
             PROVE  connected /\ MayGoOn(d) /\ (session[SessionOf[d]].known => session'[SessionOf[d]].known)
  BY DEF GoesOnAsBefore
<1>1. MayGoOn(d) /\ connected
  OBVIOUS
<1>2. SessionOf[d] # SessionOf[c] \/ continues \/ call[c].released
  <2>1. CASE InFlight(c)
    BY <2>1, AtWorkLatest
  <2> QED
    BY <2>1
<1>3. SessionOf[d] \in Sessions
  BY SeamAssumption
<1> QED
  BY <1>1, <1>2, <1>3, ReleaseKnows

LEMMA CancelQuiet ==
  ASSUME SeamInv, NEW c \in Calls, Cancel(c)
  PROVE  QuietStep /\ (ChainOK => GoesOnAsBefore)
<1>1. /\ InFlight(c) \/ Held(c)
      /\ call' = [call EXCEPT ![c] = EndedCall(c)] /\ Release(c, FALSE) /\ dropped' = dropped \cup {c}
      /\ UNCHANGED <<handler, connected, frames>>
  BY DEF Cancel
<1>2. \A d \in Calls : call'[d] = call[d] \/ (call'[d] = EndedCall(d) /\ d \in dropped')
  BY <1>1 DEF SeamInv, StateType
<1>3. \A d \in Calls : QuietCall(d) /\ (MayGoOn(d)' => MayGoOn(d))
  <2> TAKE d \in Calls
  <2> QED
    BY <1>1, <1>2, OtherQuiet
<1>4. QuietStep
  BY <1>1, <1>3, ReleaseKnows DEF QuietStep, Opened
<1>5. ASSUME ChainOK
      PROVE  GoesOnAsBefore
  <2>1. ~call[c].released => InFlight(c)
    <3>1. Held(c) => call[c].released
      BY EndFacts DEF SeamInv, WaitingOK
    <3> QED
      BY <1>1, <3>1
  <2>2. ~MayGoOn(c)'
    BY <1>1 DEF MayGoOn
  <2> QED
    BY <1>1, <1>3, <1>5, <2>1, <2>2, ReleaseGoesOn
<1> QED
  BY <1>4, <1>5

LEMMA CloseQuiet ==
  ASSUME SeamInv, Close
  PROVE  QuietStep /\ GoesOnAsBefore
<1> DEFINE cut == {c \in Calls : InFlight(c) \/ Held(c)}
<1>1. /\ connected' = FALSE /\ call' = [c \in Calls |-> IF c \in cut THEN EndedCall(c) ELSE call[c]]
      /\ session' = [s \in Sessions |-> [session[s] EXCEPT !.known = FALSE, !.live = 0]]
      /\ dropped' = dropped \cup cut
      /\ UNCHANGED <<handler, frames, restarted>>
  BY DEF Close
<1>2. \A d \in Calls : ~InFlight(d)'
  BY <1>1, EndedPending DEF InFlight
<1> HIDE DEF cut
<1>3. \A d \in Calls : call'[d] = call[d] \/ (call'[d] = EndedCall(d) /\ d \in dropped')
  BY <1>1
<1>4. \A d \in Calls : QuietCall(d)
  <2> TAKE d \in Calls
  <2> QED
    BY <1>1, <1>3, OtherQuiet
<1>5. \A s \in Sessions : session'[s].next = session[s].next
  BY <1>1 DEF SeamInv, StateType
<1> QED
  BY <1>1, <1>2, <1>4, <1>5 DEF QuietStep, GoesOnAsBefore, Opened

LEMMA ConcludeQuiet ==
  ASSUME SeamInv, NEW c \in Calls, Conclude(c)
  PROVE  QuietStep /\ (ChainOK => GoesOnAsBefore)
<1>1. handler[c] = "running" /\ handler' = [handler EXCEPT ![c] = "done"] /\ connected' = connected
  BY DEF Conclude
<1>2. PICK kind \in Kinds : Finish(c, kind) \/ FinishCancelled(c, kind)
  BY DEF Conclude
<1>3. \A d \in Calls : Opened(d)' = Opened(d)
  BY <1>1 DEF SeamInv, StateType, Opened
<1>4. call[c] \in CallStates /\ frames[c] \in Seq(Frames)
  BY OfCall
<1>5. CASE Finish(c, kind)
  <2> DEFINE k == [call[c] EXCEPT !.finished = TRUE, !.released = TRUE]
  <2>1. InFlight(c) /\ Release(c, kind = "input")
    BY <1>5 DEF Finish
  <2>2. ~call[c].finished /\ ~call[c].ended /\ ~call[c].released /\ c \notin dropped /\ ~AskedInput(c)
    BY <2>1, EndFacts DEF InFlight
  <2>3. EndsIn(c, k)
    BY <1>4, <2>2 DEF EndsIn, CallStates
  <2>4. KeepWaiting(c, k, kind) \/ FinalFrame(c, k, kind)
    BY <1>5 DEF Finish
  <2> HIDE DEF k
  <2>5. EndsQuietly(c, kind)
    BY <2>3, <2>4, KeepQuiet, FinalQuiet
  <2>6. QuietStep
    BY <1>1, <1>3, <2>1, <2>5, ReleaseKnows DEF QuietStep, EndsQuietly
  <2>7. ASSUME ChainOK
        PROVE  GoesOnAsBefore
    <3>1. MayGoOn(c)' => MayGoOn(c) /\ kind = "input"
      BY <2>2, <2>5 DEF EndsQuietly, MayGoOn
    <3>2. \A d \in Calls \ {c} : MayGoOn(d)' => MayGoOn(d)
      BY <2>5 DEF EndsQuietly
    <3> DEFINE continues == kind = "input"
    <3>3. Release(c, continues) /\ (MayGoOn(c)' => MayGoOn(c) /\ (continues \/ call[c].released))
      BY <2>1, <3>1
    <3> HIDE DEF continues
    <3> QED
      BY <1>1, <2>1, <2>7, <3>2, <3>3, ReleaseGoesOn
  <2> QED
    BY <2>6, <2>7
<1>6. CASE FinishCancelled(c, kind)
  <2> DEFINE f == Frame(1, kind, {})
  <2>1. /\ ~InFlight(c) /\ UNCHANGED <<call, session, dropped, restarted>>
        /\ frames' = frames \/ Written(c, f)
    BY <1>6 DEF FinishCancelled
  <2>2. f \in Frames /\ f.events = {}
    BY DEF Frame, Frames, Kinds, Events
  <2> HIDE DEF f
  <2>3. c \in dropped
    BY <1>1, <2>1, EndFacts DEF InFlight
  <2>4. CASE frames' = frames
    <3>1. \A d \in Calls : QuietCall(d) /\ (MayGoOn(d)' => MayGoOn(d))
      <4> TAKE d \in Calls
      <4> QED
        BY <2>1, <2>4, OtherQuiet
    <3> QED
      BY <1>1, <1>3, <2>1, <3>1, SameSession DEF QuietStep
  <2>5. CASE Written(c, f)
    <3>1. QuietCall(c) /\ \A d \in Calls \ {c} : frames'[d] = frames[d]
      BY <2>1, <2>2, <2>5, WrittenQuiet
    <3>2. ~MayGoOn(c)'
      BY <2>1, <2>3 DEF MayGoOn
    <3>3. \A d \in Calls \ {c} : QuietCall(d) /\ (MayGoOn(d)' => MayGoOn(d))
      <4> TAKE d \in Calls \ {c}
      <4> QED
        BY <2>1, <3>1, OtherQuiet
    <3>4. \A d \in Calls : QuietCall(d) /\ (MayGoOn(d)' => MayGoOn(d))
      BY <3>1, <3>2, <3>3
    <3> QED
      BY <1>1, <1>3, <2>1, <3>4, SameSession DEF QuietStep
  <2> QED
    BY <2>1, <2>4, <2>5
<1> QED
  BY <1>2, <1>5, <1>6

-----------------------------------------------------------------------------
(* The steps that emit, and those that bring a request.                     *)

\* An event of a call at work takes the session's next number.
LEMMA EmitsEvent ==
  ASSUME SeamInv, NEW op \in Ops, NEW kind \in {"attempt", "outcome"}, Emits(op, kind), ~Over(CallOf[op]), handler[CallOf[op]] # "unborn",
         UNCHANGED <<handler, frames, connected, dropped, restarted>>
  PROVE  \E c \in Calls, e \in Events :
           /\ InFlight(c) /\ e.number = NextOf(c)
           /\ PendingIn(call'[c]) = PendingIn(call[c]) \cup {e} /\ EventsOf(c)' = EventsOf(c) \cup {e}
           /\ \A d \in Calls : /\ d # c => PendingIn(call'[d]) = PendingIn(call[d]) /\ EventsOf(d)' = EventsOf(d)
                               /\ Opened(d)' = Opened(d) /\ InFlight(d)' = InFlight(d)
                               /\ call'[d].ended = call[d].ended /\ MayGoOn(d)' = MayGoOn(d)
           /\ NextOf(c)' = NextOf(c) + 1
           /\ \A d \in Calls : NextOf(d) <= NextOf(d)'
           /\ \A s \in Sessions : session'[s].known = session[s].known
<1> DEFINE c == CallOf[op]
           s == SessionOf[c]
           e == [op |-> op, kind |-> kind, number |-> session[s].next]
           k1 == [call[c] EXCEPT !.buffered = @ \cup {e}, !.scheduled = @ \/ kind = "attempt", !.open = @ \ {op}]
<1>1. c \in Calls /\ s \in Sessions
  BY SeamAssumption
<1>2. call \in [Calls -> CallStates] /\ session \in [Sessions -> SessionStates] /\ session[s].next \in Nat
  BY <1>1 DEF SeamInv, StateType, SessionStates
<1>3. e \in Events /\ e.number = NextOf(c)
  BY <1>2 DEF Events, NextOf
<1>4. call' = [call EXCEPT ![c] = k1] /\ session' = [session EXCEPT ![s].next = @ + 1]
  BY <1>1, <1>2 DEF Emits
<1> HIDE DEF e
<1>5. /\ k1.buffered = call[c].buffered \cup {e} /\ k1.finished = call[c].finished
      /\ k1.ended = call[c].ended /\ k1.final = call[c].final
  BY <1>1, <1>2 DEF CallStates
<1> HIDE DEF k1
<1>6. call'[c] = k1 /\ \A d \in Calls \ {c} : call'[d] = call[d]
  BY <1>1, <1>2, <1>4
<1>7. ~call[c].finished /\ ~call[c].ended /\ InFlight(c)
  BY DEF Over, InFlight
<1>8. PendingIn(call'[c]) = PendingIn(call[c]) \cup {e}
  BY <1>5, <1>6, <1>7 DEF PendingIn
<1>9. \A d \in Calls : /\ d # c => PendingIn(call'[d]) = PendingIn(call[d]) /\ EventsOf(d)' = EventsOf(d)
                       /\ Opened(d)' = Opened(d) /\ InFlight(d)' = InFlight(d)
                       /\ call'[d].ended = call[d].ended /\ MayGoOn(d)' = MayGoOn(d)
  <2> TAKE d \in Calls
  <2>1. call'[d].finished = call[d].finished /\ call'[d].ended = call[d].ended /\ call'[d].final = call[d].final
    BY <1>5, <1>6
  <2> QED
    BY <1>6, <2>1 DEF EventsOf, Opened, InFlight, MayGoOn, AskedInput
<1>10. EventsOf(c)' = EventsOf(c) \cup {e}
  BY <1>8 DEF EventsOf
<1> HIDE DEF s
<1>11. \A x \in Sessions : /\ session'[x].known = session[x].known
                           /\ session'[x].next = IF x = s THEN session[x].next + 1 ELSE session[x].next
                           /\ session[x].next \in Nat
  BY <1>1, <1>2, <1>4 DEF SessionStates
<1>12. NextOf(c)' = NextOf(c) + 1 /\ \A d \in Calls : NextOf(d) <= NextOf(d)'
  BY <1>1, <1>11, SeamAssumption DEF NextOf, s
<1> QED
  BY <1>1, <1>3, <1>7, <1>8, <1>9, <1>10, <1>11, <1>12

\* What the emission of e by c leaves in order.
EmitStep(c, e) ==
  /\ c \in Calls /\ e \in Events /\ InFlight(c) /\ e.number = NextOf(c)
  /\ PendingIn(call'[c]) = PendingIn(call[c]) \cup {e} /\ EventsOf(c)' = EventsOf(c) \cup {e}
  /\ \A d \in Calls : /\ d # c => PendingIn(call'[d]) = PendingIn(call[d]) /\ EventsOf(d)' = EventsOf(d)
                      /\ Opened(d)' = Opened(d) /\ InFlight(d)' = InFlight(d)
                      /\ call'[d].ended = call[d].ended /\ MayGoOn(d)' = MayGoOn(d)
  /\ NextOf(c)' = NextOf(c) + 1
  /\ \A d \in Calls : NextOf(d) <= NextOf(d)'
  /\ \A s \in Sessions : session'[s].known = session[s].known
  /\ UNCHANGED <<frames, connected, restarted>>

\* What was below the next number still is.
LEMMA StillBelow ==
  ASSUME SeamInv, NEW c \in Calls, NEW n \in Nat, NEW E \in SUBSET Events, Below(E, NextOf(c)), NextOf(c) <= n
  PROVE  Below(E, n)
<1>1. NextOf(c) \in Nat /\ \A x \in E : x.number \in Nat
  BY Numbered DEF Events
<1> QED
  BY <1>1 DEF Below

LEMMA EmitOwn ==
  ASSUME SeamInv, SeamInv', OwnOrder, NEW c, NEW e, EmitStep(c, e)
  PROVE  OwnOrder'
<1> SUFFICES ASSUME NEW d \in Calls
             PROVE  /\ InOrder(frames'[d], PendingIn(call'[d]))
                    /\ InFlight(d)' => connected' /\ Below(EventsOf(d), NextOf(d))'
  BY DEF OwnOrder
<1>1. /\ InOrder(frames[d], PendingIn(call[d])) /\ (InFlight(d) => connected /\ Below(EventsOf(d), NextOf(d)))
      /\ InFlight(d)' = InFlight(d) /\ connected' = connected /\ frames' = frames
  BY DEF OwnOrder, EmitStep
<1>2. /\ EventsOf(d) \subseteq Events /\ NextOf(d) \in Nat /\ \A x \in EventsOf(d) : x.number \in Nat
  BY Numbered
<1>3. NextOf(d) <= NextOf(d)' /\ NextOf(d)' \in Nat
  <2>1. NextOf(d)' \in Nat
    BY OfCall DEF SeamInv, StateType, NextOf
  <2> QED
    BY <2>1 DEF EmitStep
<1>4. CASE d # c
  <2>1. EventsOf(d)' = EventsOf(d) /\ PendingIn(call'[d]) = PendingIn(call[d])
    BY <1>4 DEF EmitStep
  <2>2. ASSUME InFlight(d)'
        PROVE  Below(EventsOf(d), NextOf(d))'
    <3>1. Below(EventsOf(d), NextOf(d)')
      BY <1>1, <1>2, <1>3, <2>2, StillBelow
    <3> QED
      BY <2>1, <3>1 DEF Below
  <2> QED
    BY <1>1, <2>1, <2>2
<1>5. CASE d = c
  <2>1. /\ e.number = NextOf(d) /\ PendingIn(call'[d]) = PendingIn(call[d]) \cup {e}
        /\ EventsOf(d)' = EventsOf(d) \cup {e} /\ NextOf(d)' = NextOf(d) + 1 /\ InFlight(d)
    BY <1>5 DEF EmitStep
  <2>2. Below(EventsOf(d), NextOf(d)) /\ connected
    BY <1>1, <2>1
  <2>3. EventsIn(frames[d]) \subseteq EventsOf(d) /\ PendingIn(call[d]) \subseteq EventsOf(d)
    BY DEF EventsOf
  <2> DEFINE p == PendingIn(call[d])
             p1 == PendingIn(call'[d])
             E == EventsOf(d)
             N == NextOf(d)
  <2>4. InOrder(frames[d], p1)
    <3>1. Before(EventsIn(frames[d]), p1)
      <4>1. \A x \in EventsIn(frames[d]) : x.number < e.number
        BY <2>1, <2>2, <2>3 DEF Below
      <4> QED
        BY <1>1, <2>1, <4>1 DEF InOrder, Before
    <3>2. OnceEach(p1)
      <4>1. \A x \in p : x.number < e.number /\ x.number \in Nat
        BY <1>2, <2>1, <2>2, <2>3 DEF Below
      <4>2. OnceEach(p) /\ e.number \in Nat /\ p1 = p \cup {e}
        BY <1>1, <1>2, <2>1 DEF InOrder
      <4> HIDE DEF p, p1
      <4>3. \A x \in p : x.number # e.number
        BY <4>1, <4>2
      <4> QED
        BY <4>2, <4>3 DEF OnceEach
    <3> QED
      BY <1>1, <3>1, <3>2 DEF InOrder
  <2>5. Below(EventsOf(d), NextOf(d))'
    <3>1. \A x \in E \cup {e} : x.number < N + 1
      <4>1. \A x \in E : x.number < N /\ x.number \in Nat
        BY <1>2, <2>2 DEF Below
      <4>2. e.number = N /\ N \in Nat
        BY <1>2, <2>1
      <4> HIDE DEF E, N
      <4> QED
        BY <4>1, <4>2
    <3> QED
      BY <2>1, <3>1 DEF Below
  <2> QED
    BY <1>1, <2>2, <2>4, <2>5
<1> QED
  BY <1>4, <1>5

LEMMA EmitChain ==
  ASSUME SeamInv, SeamInv', OwnOrder, ChainOK, ChainOrder, NEW c, NEW e, EmitStep(c, e)
  PROVE  ChainOK' /\ ChainOrder'
<1>1. \A d \in Calls : Opened(d)' = Opened(d) /\ call'[d].ended = call[d].ended
  BY DEF EmitStep
<1>2. \A d \in Calls : Latest(d)' = Latest(d)
  BY <1>1 DEF Latest
<1>3. \A d \in Calls : After[d] # NoCall => After[d] \in Calls
  BY SeamAssumption
<1>4. ChainOK'
  <2>1. \A d \in Calls : Opened(d)' /\ After[d] # NoCall => call'[After[d]].ended
    BY <1>1, <1>3 DEF ChainOK
  <2>2. \A x, d \in Calls : Latest(x)' /\ Latest(d)' /\ SessionOf[x] = SessionOf[d] => x = d
    BY <1>2 DEF ChainOK
  <2>3. \A x \in Calls : Opened(x)' => \E r \in Calls : Opened(r)' /\ After[r] = NoCall /\ SessionOf[r] = SessionOf[x]
    BY <1>1 DEF ChainOK
  <2> QED
    BY <2>1, <2>2, <2>3 DEF ChainOK
<1>5. c \in Calls /\ InFlight(c) /\ Latest(c) /\ Opened(c) /\ e \in Events /\ e.number = NextOf(c) /\ Below(EventsOf(c), NextOf(c))
  BY AtWorkLatest DEF EmitStep, OwnOrder, InFlight, Opened
<1>6. ASSUME NEW b \in Calls, SessionOf[b] \notin restarted'
      PROVE  /\ \A d \in Calls : After[d] = b /\ Opened(d)' =>
                  /\ Before(EventsOf(b), EventsOf(d))'
                  /\ InFlight(d)' => Below(EventsOf(b), NextOf(b))'
             /\ connected' /\ Latest(b)' /\ MayGoOn(b)' => session'[SessionOf[b]].known /\ Below(EventsOf(b), NextOf(b))'
  <2>1. /\ \A d \in Calls : After[d] = b /\ Opened(d) =>
             /\ Before(EventsOf(b), EventsOf(d))
             /\ InFlight(d) => Below(EventsOf(b), NextOf(b))
        /\ connected /\ Latest(b) /\ MayGoOn(b) => session[SessionOf[b]].known /\ Below(EventsOf(b), NextOf(b))
    BY <1>6 DEF ChainOrder, EmitStep
  <2>2. /\ EventsOf(b) \subseteq Events /\ NextOf(b) \in Nat /\ NextOf(b) <= NextOf(b)' /\ NextOf(b)' \in Nat
    <3>1. NextOf(b)' \in Nat
      BY OfCall DEF SeamInv, StateType, NextOf
    <3> QED
      BY <3>1, Numbered DEF EmitStep
  <2>3. b # c => EventsOf(b)' = EventsOf(b) /\ (Below(EventsOf(b), NextOf(b)) => Below(EventsOf(b), NextOf(b))')
    <3>1. Below(EventsOf(b), NextOf(b)) => Below(EventsOf(b), NextOf(b)')
      BY <2>2, StillBelow
    <3>2. b # c => EventsOf(b)' = EventsOf(b)
      BY DEF EmitStep
    <3> QED
      BY <3>1, <3>2 DEF Below
  <2>4. ASSUME NEW d \in Calls, After[d] = b, Opened(d)'
        PROVE  /\ Before(EventsOf(b), EventsOf(d))'
               /\ InFlight(d)' => Below(EventsOf(b), NextOf(b))'
    <3>1. b # c /\ Opened(d) /\ InFlight(d)' = InFlight(d)
      BY <1>5, <2>4 DEF Latest, EmitStep
    <3>2. Before(EventsOf(b), EventsOf(d)) /\ (InFlight(d) => Below(EventsOf(b), NextOf(b)))
      BY <2>1, <2>4, <3>1
    <3>3. CASE d = c
      <4>1. NextOf(b) = NextOf(c)
        BY <2>4, <3>3, SeamAssumption, ChainAssumption DEF NextOf
      <4>2. \A x \in EventsOf(b) : x.number < e.number
        BY <1>5, <3>2, <3>3, <4>1 DEF Below
      <4>3. EventsOf(d)' = EventsOf(d) \cup {e}
        BY <3>3 DEF EmitStep
      <4> QED
        BY <2>3, <3>1, <3>2, <4>2, <4>3 DEF Before
    <3>4. CASE d # c
      <4>1. EventsOf(d)' = EventsOf(d)
        BY <3>4 DEF EmitStep
      <4> QED
        BY <2>3, <3>1, <3>2, <4>1 DEF Before
    <3> QED
      BY <3>3, <3>4
  <2>5. ASSUME connected', Latest(b)', MayGoOn(b)'
        PROVE  session'[SessionOf[b]].known /\ Below(EventsOf(b), NextOf(b))'
    <3>1. session[SessionOf[b]].known /\ Below(EventsOf(b), NextOf(b)) /\ SessionOf[b] \in Sessions
      BY <1>2, <2>1, <2>5, SeamAssumption DEF EmitStep
    <3>2. session'[SessionOf[b]].known
      BY <3>1 DEF EmitStep
    <3>3. CASE b = c
      <4> DEFINE E == EventsOf(b)
                 N == NextOf(b)
      <4>1. EventsOf(b)' = E \cup {e} /\ NextOf(b)' = N + 1 /\ e.number = N
        BY <3>3 DEF EmitStep
      <4>2. N \in Nat /\ \A x \in E : x.number < N /\ x.number \in Nat
        BY <2>2, <3>1, Numbered DEF Below
      <4>3. \A x \in E \cup {e} : x.number < N + 1
        <5>1. e.number = N
          BY <4>1
        <5> HIDE DEF E, N
        <5> QED
          BY <4>2, <5>1
      <4> QED
        BY <3>2, <4>1, <4>3 DEF Below
    <3>4. CASE b # c
      BY <2>3, <3>1, <3>2, <3>4
    <3> QED
      BY <3>3, <3>4
  <2> QED
    BY <2>4, <2>5
<1>7. ChainOrder'
  BY <1>6 DEF ChainOrder
<1> QED
  BY <1>4, <1>7

\* The session a request joins goes on numbering; one it starts has nobody at work.
LEMMA OpenNext ==
  ASSUME SeamInv, NEW c \in Calls, Open(c)
  PROVE  /\ connected /\ connected' = connected /\ UNCHANGED <<frames, dropped, restarted>>
         /\ ~Opened(c) /\ Opened(c)' /\ InFlight(c)'
         /\ \A d \in Calls \ {c} : Opened(d)' = Opened(d) /\ InFlight(d)' = InFlight(d)
         /\ \A d \in Calls : /\ call'[d].ended = call[d].ended /\ EventsOf(d)' = EventsOf(d)
                             /\ PendingIn(call'[d]) = PendingIn(call[d]) /\ MayGoOn(d)' = MayGoOn(d)
                             /\ session[SessionOf[d]].known => session'[SessionOf[d]].known /\ NextOf(d)' = NextOf(d)
                             /\ InFlight(d) => session[SessionOf[d]].known
         /\ session'[SessionOf[c]].known /\ EventsOf(c) = {} /\ PendingIn(call[c]) = {}
         /\ After[c] # NoCall => AskedInput(After[c])
<1> DEFINE s == SessionOf[c]
           k1 == [call[c] EXCEPT !.current = 1]
<1>1. /\ connected /\ handler[c] = "unborn" /\ handler' = [handler EXCEPT ![c] = "running"]
      /\ call' = [call EXCEPT ![c] = k1]
      /\ session' = [session EXCEPT ![s] = [known |-> TRUE, live |-> IF @.known THEN @.live + 1 ELSE 1,
                                            next |-> IF @.known THEN @.next ELSE 0]]
      /\ UNCHANGED <<connected, frames, dropped, restarted>>
      /\ After[c] # NoCall => AskedInput(After[c])
  BY DEF Open, history, SeamInv, StateType
<1>2. /\ handler \in [Calls -> Handlers] /\ call \in [Calls -> CallStates]
      /\ session \in [Sessions -> SessionStates] /\ s \in Sessions
  BY SeamAssumption DEF SeamInv, StateType, SessionStates
<1>3. k1.finished = call[c].finished /\ k1.ended = call[c].ended /\ k1.buffered = call[c].buffered /\ k1.final = call[c].final
  BY <1>2 DEF CallStates
<1> HIDE DEF k1
<1>4. /\ handler'[c] = "running" /\ call'[c] = k1
      /\ \A d \in Calls \ {c} : handler'[d] = handler[d] /\ call'[d] = call[d]
  BY <1>1, <1>2
<1>5. \A d \in Calls : /\ call'[d].finished = call[d].finished /\ call'[d].ended = call[d].ended
                       /\ call'[d].buffered = call[d].buffered /\ call'[d].final = call[d].final
  BY <1>3, <1>4
<1>6. call[c] = FreshCall /\ frames[c] = <<>>
  BY <1>1, OfCall DEF CallView, CallOK, Unborn
<1>7. EventsOf(c) = {} /\ PendingIn(call[c]) = {} /\ ~call[c].finished
  BY <1>6 DEF FreshCall, EventsOf, EventsIn, PendingIn
<1>8. \A d \in Calls \ {c} : Opened(d)' = Opened(d) /\ InFlight(d)' = InFlight(d)
  BY <1>4, <1>5 DEF Opened, InFlight
<1>9. ~Opened(c) /\ Opened(c)' /\ InFlight(c)'
  BY <1>1, <1>4, <1>5, <1>7 DEF Opened, InFlight
<1>10. \A d \in Calls : /\ EventsOf(d)' = EventsOf(d)
                        /\ PendingIn(call'[d]) = PendingIn(call[d]) /\ MayGoOn(d)' = MayGoOn(d)
  BY <1>1, <1>5 DEF EventsOf, PendingIn, MayGoOn, AskedInput
<1>11. ASSUME NEW d \in Calls
       PROVE  /\ session[SessionOf[d]].known => session'[SessionOf[d]].known /\ NextOf(d)' = NextOf(d)
              /\ InFlight(d) => session[SessionOf[d]].known
  <2>1. SessionOf[d] \in Sessions
    BY SeamAssumption
  <2>2. session[SessionOf[d]].known => session'[SessionOf[d]].known /\ session'[SessionOf[d]].next = session[SessionOf[d]].next
    <3>1. CASE SessionOf[d] = s
      <4> HIDE DEF s
      <4> QED
        BY <1>1, <1>2, <3>1 DEF SessionStates
    <3>2. CASE SessionOf[d] # s
      <4> HIDE DEF s
      <4> QED
        BY <1>1, <1>2, <2>1, <3>2
    <3> QED
      BY <3>1, <3>2
  <2>3. ASSUME InFlight(d)
        PROVE  session[SessionOf[d]].known
    <3>1. d \in Serving(SessionOf[d])
      BY <2>3, EndFacts DEF InFlight, Serving
    <3>2. SessionOK(SessionOf[d])
      BY <1>1, <2>1 DEF SeamInv, SessionsOK
    <3> QED
      BY <3>1, <3>2 DEF SessionOK
  <2> QED
    BY <2>2, <2>3 DEF NextOf
<1>12. session'[s].known
  <2> HIDE DEF s
  <2> QED
    BY <1>1, <1>2
<1> QED
  BY <1>1, <1>5, <1>7, <1>8, <1>9, <1>10, <1>11, <1>12

LEMMA OpenOwn ==
  ASSUME SeamInv, OwnOrder, NEW c \in Calls, Open(c)
  PROVE  OwnOrder'
<1> SUFFICES ASSUME NEW d \in Calls
             PROVE  /\ InOrder(frames'[d], PendingIn(call'[d]))
                    /\ InFlight(d)' => connected' /\ Below(EventsOf(d), NextOf(d))'
  BY DEF OwnOrder
<1>1. /\ InOrder(frames[d], PendingIn(call[d])) /\ (InFlight(d) => connected /\ Below(EventsOf(d), NextOf(d)))
  BY DEF OwnOrder
<1>2. /\ connected' /\ frames' = frames /\ EventsOf(d)' = EventsOf(d) /\ PendingIn(call'[d]) = PendingIn(call[d])
      /\ d = c \/ InFlight(d)' = InFlight(d)
      /\ session[SessionOf[d]].known => NextOf(d)' = NextOf(d)
      /\ InFlight(d) => session[SessionOf[d]].known
      /\ EventsOf(c) = {}
  BY OpenNext
<1>3. InFlight(d)' => Below(EventsOf(d), NextOf(d))'
  BY <1>1, <1>2 DEF Below
<1> QED
  BY <1>1, <1>2, <1>3

LEMMA OpenChain ==
  ASSUME SeamInv, OwnOrder, ChainOK, ChainOrder, NEW c \in Calls, Open(c)
  PROVE  ChainOK' /\ ChainOrder'
<1>1. /\ connected /\ restarted' = restarted /\ ~Opened(c) /\ Opened(c)'
      /\ \A d \in Calls \ {c} : Opened(d)' = Opened(d) /\ InFlight(d)' = InFlight(d)
      /\ \A d \in Calls : /\ call'[d].ended = call[d].ended /\ EventsOf(d)' = EventsOf(d) /\ MayGoOn(d)' = MayGoOn(d)
                          /\ session[SessionOf[d]].known => session'[SessionOf[d]].known /\ NextOf(d)' = NextOf(d)
                          /\ InFlight(d) => session[SessionOf[d]].known
      /\ session'[SessionOf[c]].known /\ EventsOf(c) = {}
      /\ After[c] # NoCall => AskedInput(After[c])
  BY OpenNext
<1>2. /\ \A d \in Calls : After[d] # NoCall => After[d] \in Calls /\ SessionOf[After[d]] = SessionOf[d]
      /\ \A d, b \in Calls : SessionOf[d] = SessionOf[b] /\ After[d] = After[b] => d = b
      /\ NoCall \notin Calls
  BY SeamAssumption, ChainAssumption
\* Nobody follows c, which was not served.
<1>3. \A d \in Calls : After[d] = c => ~Opened(d) /\ d # c
  <2> TAKE d \in Calls
  <2>1. ~call[c].ended
    BY <1>1, EndFacts
  <2>2. After[d] = c => ~Opened(d)
    BY <1>2, <2>1 DEF ChainOK
  <2>3. After[c] # c
    BY <1>1, <1>2, <2>1, EndFacts
  <2> QED
    BY <2>2, <2>3
<1>4. \A d \in Calls : d # c /\ Latest(d)' => Latest(d) /\ After[c] # d
  BY <1>1 DEF Latest
<1>5. After[c] # NoCall => /\ After[c] \in Calls /\ SessionOf[After[c]] = SessionOf[c] /\ call[After[c]].ended
                           /\ Latest(After[c]) /\ MayGoOn(After[c])
  <2> SUFFICES ASSUME After[c] # NoCall
               PROVE  /\ After[c] \in Calls /\ SessionOf[After[c]] = SessionOf[c] /\ call[After[c]].ended
                      /\ Latest(After[c]) /\ MayGoOn(After[c])
    OBVIOUS
  <2> DEFINE b == After[c]
  <2>1. b \in Calls /\ SessionOf[b] = SessionOf[c] /\ AskedInput(b)
    BY <1>1, <1>2
  <2>2. call[b].ended /\ Opened(b)
    BY <2>1, EndFacts
  <2>3. \A d \in Calls : After[d] = b => d = c
    BY <1>2, <2>1
  <2>4. Latest(b)
    BY <1>1, <2>2, <2>3 DEF Latest
  <2>5. MayGoOn(b)
    BY <2>1 DEF MayGoOn, AskedInput
  <2> QED
    BY <2>1, <2>2, <2>4, <2>5
\* The first request of a session finds no other there.
<1>6. After[c] = NoCall => \A d \in Calls : Opened(d) => SessionOf[d] # SessionOf[c]
  BY <1>1, <1>2 DEF ChainOK
<1>7. ChainOK'
  <2>1. ASSUME NEW d \in Calls, Opened(d)', After[d] # NoCall
        PROVE  call'[After[d]].ended
    BY <1>1, <1>2, <1>5, <2>1 DEF ChainOK
  <2>2. ASSUME NEW d \in Calls, d # c, Latest(d)', SessionOf[d] = SessionOf[c]
        PROVE  FALSE
    <3>1. Latest(d) /\ Opened(d) /\ After[c] # d
      BY <1>4, <2>2 DEF Latest
    <3>2. CASE After[c] = NoCall
      BY <1>6, <2>2, <3>1, <3>2
    <3>3. CASE After[c] # NoCall
      BY <1>5, <2>2, <3>1, <3>3 DEF ChainOK
    <3> QED
      BY <3>2, <3>3
  <2>3. \A x, d \in Calls : Latest(x)' /\ Latest(d)' /\ SessionOf[x] = SessionOf[d] => x = d
    BY <1>4, <2>2 DEF ChainOK
  <2>4. ASSUME NEW x \in Calls, Opened(x)'
        PROVE  \E r \in Calls : Opened(r)' /\ After[r] = NoCall /\ SessionOf[r] = SessionOf[x]
    <3>1. CASE x # c
      BY <1>1, <2>4, <3>1 DEF ChainOK
    <3>2. CASE x = c /\ After[c] = NoCall
      BY <2>4, <3>2
    <3>3. CASE x = c /\ After[c] # NoCall
      <4>1. Opened(After[c])
        BY <1>5, <3>3 DEF Latest
      <4>2. PICK r \in Calls : Opened(r) /\ After[r] = NoCall /\ SessionOf[r] = SessionOf[After[c]]
        BY <1>5, <3>3, <4>1 DEF ChainOK
      <4> QED
        BY <1>1, <1>5, <3>3, <4>2
    <3> QED
      BY <3>1, <3>2, <3>3
  <2> QED
    BY <2>1, <2>3, <2>4 DEF ChainOK
<1>8. ASSUME NEW b \in Calls, SessionOf[b] \notin restarted'
      PROVE  /\ \A d \in Calls : After[d] = b /\ Opened(d)' =>
                  /\ Before(EventsOf(b), EventsOf(d))'
                  /\ InFlight(d)' => Below(EventsOf(b), NextOf(b))'
             /\ connected' /\ Latest(b)' /\ MayGoOn(b)' => session'[SessionOf[b]].known /\ Below(EventsOf(b), NextOf(b))'
  <2>1. /\ \A d \in Calls : After[d] = b /\ Opened(d) =>
             /\ Before(EventsOf(b), EventsOf(d))
             /\ InFlight(d) => Below(EventsOf(b), NextOf(b))
        /\ connected /\ Latest(b) /\ MayGoOn(b) => session[SessionOf[b]].known /\ Below(EventsOf(b), NextOf(b))
    BY <1>1, <1>8 DEF ChainOrder
  <2>2. session[SessionOf[b]].known /\ Below(EventsOf(b), NextOf(b)) => Below(EventsOf(b), NextOf(b))'
    BY <1>1 DEF Below
  <2>3. ASSUME NEW d \in Calls, After[d] = b, Opened(d)'
        PROVE  /\ Before(EventsOf(b), EventsOf(d))'
               /\ InFlight(d)' => Below(EventsOf(b), NextOf(b))'
    <3>1. CASE d = c
      <4>1. /\ After[c] # NoCall /\ b = After[c]
        BY <1>2, <2>3, <3>1
      <4>2. Latest(b) /\ MayGoOn(b)
        BY <1>5, <4>1
      <4>3. Below(EventsOf(b), NextOf(b))'
        BY <1>1, <2>1, <2>2, <4>2
      <4>4. EventsOf(d)' = {}
        BY <1>1, <3>1
      <4> QED
        BY <4>3, <4>4 DEF Before
    <3>2. CASE d # c
      <4>1. Opened(d) /\ InFlight(d)' = InFlight(d) /\ EventsOf(d)' = EventsOf(d) /\ EventsOf(b)' = EventsOf(b)
        BY <1>1, <2>3, <3>2
      <4>2. SessionOf[d] = SessionOf[b]
        BY <1>2, <2>3
      <4>3. InFlight(d) => session[SessionOf[b]].known
        BY <1>1, <4>2
      <4>4. Before(EventsOf(b), EventsOf(d))'
        BY <2>1, <2>3, <4>1 DEF Before
      <4> QED
        BY <2>1, <2>2, <2>3, <4>1, <4>3, <4>4
    <3> QED
      BY <3>1, <3>2
  <2>4. ASSUME connected', Latest(b)', MayGoOn(b)'
        PROVE  session'[SessionOf[b]].known /\ Below(EventsOf(b), NextOf(b))'
    <3>1. CASE b = c
      <4>1. EventsOf(b)' = {}
        BY <1>1, <3>1
      <4> QED
        BY <1>1, <3>1, <4>1 DEF Below
    <3>2. CASE b # c
      BY <1>1, <1>4, <2>1, <2>2, <2>4, <3>2
    <3> QED
      BY <3>1, <3>2
  <2> QED
    BY <2>3, <2>4
<1>9. ChainOrder'
  BY <1>8 DEF ChainOrder
<1> QED
  BY <1>7, <1>9

-----------------------------------------------------------------------------
(* Every step keeps the order.                                              *)

LEMMA OrderInit ==
  Init => OwnOrder /\ ChainOK /\ ChainOrder
<1> SUFFICES ASSUME Init
             PROVE  OwnOrder /\ ChainOK /\ ChainOrder
  OBVIOUS
<1>1. \A c \in Calls : /\ ~Opened(c) /\ ~InFlight(c) /\ EventsOf(c) = {} /\ InOrder(frames[c], PendingIn(call[c]))
  <2> TAKE c \in Calls
  <2>1. frames[c] = <<>> /\ call[c] = FreshCall /\ handler[c] = "unborn"
    BY DEF Init
  <2>2. PendingIn(call[c]) = {} /\ DOMAIN frames[c] = {} /\ EventsIn(frames[c]) = {}
    BY <2>1 DEF PendingIn, FreshCall, EventsIn
  <2> QED
    BY <2>1, <2>2 DEF Opened, InFlight, EventsOf, InOrder, Before, OnceEach
<1>2. OwnOrder
  BY <1>1 DEF OwnOrder
<1>3. ChainOK /\ ChainOrder
  BY <1>1 DEF ChainOK, ChainOrder, Latest
<1> QED
  BY <1>2, <1>3

\* The operations a call has open are no part of what it sends.
LEMMA OnlyOpen ==
  ASSUME SeamInv, NEW c, call' = call \/ \E open : call' = [call EXCEPT ![c].open = open]
  PROVE  \A d \in Calls : /\ call'[d].finished = call[d].finished /\ call'[d].ended = call[d].ended
                          /\ call'[d].final = call[d].final /\ call'[d].buffered = call[d].buffered
<1>1. CASE call' = call
  BY <1>1
<1>2. ASSUME NEW open, call' = [call EXCEPT ![c].open = open]
      PROVE  \A d \in Calls : /\ call'[d].finished = call[d].finished /\ call'[d].ended = call[d].ended
                              /\ call'[d].final = call[d].final /\ call'[d].buffered = call[d].buffered
  <2> DEFINE k == [call[c] EXCEPT !.open = open]
  <2>1. call \in [Calls -> CallStates] /\ call' = [call EXCEPT ![c] = k]
    BY <1>2 DEF SeamInv, StateType
  <2>2. ASSUME c \in Calls
        PROVE  /\ k.finished = call[c].finished /\ k.ended = call[c].ended
               /\ k.final = call[c].final /\ k.buffered = call[c].buffered
    BY <2>1, <2>2 DEF CallStates
  <2> HIDE DEF k
  <2> QED
    BY <2>1, <2>2
<1> QED
  BY <1>1, <1>2

\* Each step brings a request, emits one event, or does neither.
LEMMA KindsOfStep ==
  ASSUME SeamInv, [Next]_vars
  PROVE  \/ \E c \in Calls : Open(c)
         \/ \E c, e : EmitStep(c, e)
         \/ QuietStep /\ (ChainOK => GoesOnAsBefore)
<1>1. ASSUME NEW c \in Calls, TakeRetry(c) \/ Cancel(c) \/ EndRound(c) \/ Conclude(c)
      PROVE  QuietStep /\ (ChainOK => GoesOnAsBefore)
  BY <1>1, TakeRetryQuiet, CancelQuiet, EndRoundQuiet, ConcludeQuiet
<1>2. ASSUME NEW op \in Ops, EmitAttempt(op) \/ EmitOutcome(op), ~Over(CallOf[op]), handler[CallOf[op]] # "unborn"
      PROVE  \E c, e : EmitStep(c, e)
  <2>1. PICK kind \in {"attempt", "outcome"} : Emits(op, kind)
    BY <1>2 DEF EmitAttempt, EmitOutcome
  <2>2. UNCHANGED <<handler, frames, connected, dropped, restarted>>
    BY <1>2 DEF EmitAttempt, EmitOutcome, history
  <2> QED
    BY <1>2, <2>1, <2>2, EmitsEvent DEF EmitStep
<1>3. ASSUME NEW op \in Ops, (EmitAttempt(op) \/ EmitOutcome(op)) /\ Over(CallOf[op])
      PROVE  QuietStep /\ GoesOnAsBefore
  <2>1. UNCHANGED <<handler, frames, session, connected, dropped, restarted>>
    BY <1>3 DEF EmitAttempt, EmitOutcome, history
  <2>2. call' = call \/ \E open : call' = [call EXCEPT ![CallOf[op]].open = open]
    BY <1>3 DEF EmitAttempt, EmitOutcome
  <2>3. \A d \in Calls : /\ call'[d].finished = call[d].finished /\ call'[d].ended = call[d].ended
                         /\ call'[d].final = call[d].final /\ call'[d].buffered = call[d].buffered
    BY <2>2, OnlyOpen
  <2> QED
    BY <2>1, <2>3, NothingSent
<1>4. ASSUME NEW op \in Ops, Resume(op)
      PROVE  QuietStep /\ GoesOnAsBefore
  <2>1. UNCHANGED <<handler, frames, session, connected, dropped, restarted>>
    BY <1>4 DEF Resume
  <2>2. call' = call \/ \E open : call' = [call EXCEPT ![CallOf[op]].open = open]
    BY <1>4 DEF Resume
  <2>3. \A d \in Calls : /\ call'[d].finished = call[d].finished /\ call'[d].ended = call[d].ended
                         /\ call'[d].final = call[d].final /\ call'[d].buffered = call[d].buffered
    BY <2>2, OnlyOpen
  <2> QED
    BY <2>1, <2>3, NothingSent
<1>5. ASSUME (\E op \in Ops : GiveUp(op)) \/ (\E c \in Calls : Forget(c)) \/ UNCHANGED vars
      PROVE  QuietStep /\ GoesOnAsBefore
  <2>1. UNCHANGED <<handler, call, frames, session, connected, dropped, restarted>>
    BY <1>5 DEF GiveUp, Forget, vars, seamVars, history
  <2> QED
    BY <2>1, NothingSent
<1>6. ASSUME NEW op \in Ops, EmitAttempt(op) \/ EmitOutcome(op)
      PROVE  handler[CallOf[op]] # "unborn"
  BY <1>6 DEF EmitAttempt, EmitOutcome, SeamInv, StartedOK
<1>7. CASE Close
  BY <1>7, CloseQuiet
<1>8. CASE \E op \in Ops : EmitAttempt(op) \/ EmitOutcome(op)
  BY <1>2, <1>3, <1>6, <1>8
<1> QED
  BY <1>1, <1>4, <1>5, <1>7, <1>8 DEF Next

LEMMA OwnStep ==
  SeamInv /\ OwnOrder /\ [Next]_vars => OwnOrder'
<1> SUFFICES ASSUME SeamInv, OwnOrder, [Next]_vars
             PROVE  OwnOrder'
  OBVIOUS
<1>1. SeamInv'
  BY SeamStep
<1> QED
  BY <1>1, KindsOfStep, OpenOwn, EmitOwn, QuietOwn

LEMMA ChainStep ==
  SeamInv /\ OwnOrder /\ ChainOK /\ ChainOrder /\ [Next]_vars => ChainOK' /\ ChainOrder'
<1> SUFFICES ASSUME SeamInv, OwnOrder, ChainOK, ChainOrder, [Next]_vars
             PROVE  ChainOK' /\ ChainOrder'
  OBVIOUS
<1>1. SeamInv'
  BY SeamStep
<1>2. CASE \E c \in Calls : Open(c)
  BY <1>2, OpenChain
<1>3. CASE \E c, e : EmitStep(c, e)
  BY <1>1, <1>3, EmitChain
<1>4. CASE QuietStep /\ (ChainOK => GoesOnAsBefore)
  BY <1>4, QuietChain
<1> QED
  BY <1>2, <1>3, <1>4, KindsOfStep

LEMMA OrderAlways ==
  Spec => [](SeamInv /\ OwnOrder /\ ChainOK /\ ChainOrder)
BY SeamInit, OrderInit, SeamStep, OwnStep, ChainStep, PTL DEF Spec

-----------------------------------------------------------------------------
(* What a reader relies on.                                                 *)

\* Every state is of its type, a call at work has a request to answer or a round out and never both,
\* and the seam's tables agree: mcp/seam.py's _calls, _waiting, _sessions and _idle.
THEOREM SeamTypeCorrect ==
  Spec => []SeamTypeOK
<1>1. SeamInv => SeamTypeOK
  <2> SUFFICES ASSUME SeamInv PROVE SeamTypeOK
    OBVIOUS
  <2>1. handler \in [Calls -> Handlers] /\ stage \in [Ops -> Stages]
    BY DEF SeamInv, StateType
  <2>2. ASSUME NEW c \in Calls
        PROVE  /\ call[c].current \in 0..MaxRequests /\ call[c].round \in Rounds(c) \cup {NoRound}
               /\ call[c].buffered \subseteq Events /\ call[c].open \subseteq OpsOf(c)
               /\ call[c].final \in Kinds \cup {"none"}
               /\ requests[c] \in 0..MaxRequests
               /\ frames[c] \in Seq(Frames) /\ \A n \in DOMAIN frames[c] : frames[c][n].id \in 1..requests[c]
               /\ handler[c] # "unborn" /\ ~call[c].ended => (call[c].current = NoRequest) = (call[c].round # NoRound)
    <3>1. /\ call[c] \in CallStates /\ frames[c] \in Seq(Frames) /\ requests[c] \in Nat /\ requests[c] <= MaxRequests
          /\ call[c].open \subseteq OpsOf(c) /\ CallView(c) /\ MaxRequests \in Nat
      BY OfCall
    <3>2. /\ Counted(handler[c], call[c], frames[c], requests[c])
          /\ Exchange(handler[c], call[c], frames[c])
      BY <3>1 DEF CallView, CallOK
    <3>3. call[c].current \in 0..MaxRequests
      BY <3>1, <3>2 DEF Counted
    <3>4. RoundsIn(frames[c]) = Rounds(c)
      BY DEF RoundsIn, Rounds
    <3> QED
      BY <3>1, <3>2, <3>3, <3>4 DEF CallStates, Counted, Exchange
  <2>3. connected => \A s \in Sessions : /\ session[s].live = Cardinality(Serving(s))
                                         /\ Serving(s) # {} => session[s].known
                                         /\ (s \in Range(idle)) = (session[s].known /\ Serving(s) = {})
    BY DEF SeamInv, SessionsOK, SessionOK
  <2>4. /\ \A c \in Calls : Held(c) = (call[c].finished /\ ~call[c].ended)
        /\ Len(waiting) <= MaxHeld /\ Len(idle) <= MaxHeld
    BY DEF SeamInv, WaitingOK, IdleOK
  <2> QED
    BY <2>1, <2>2, <2>3, <2>4 DEF SeamTypeOK, Handlers, Stages
<1> QED
  BY <1>1, SeamAlways, PTL

\* No request of a call that is not dropped is answered twice: _end_round writes on the request that is
\* open, and _final_frame only once the retry of the round that is out has opened another.
THEOREM OneFrameCorrect ==
  Spec => []OneFramePerRequest
<1>1. SeamInv => OneFramePerRequest
  <2> SUFFICES ASSUME SeamInv, NEW c \in Calls \ dropped
               PROVE  \A m, n \in DOMAIN frames[c] : frames[c][m].id = frames[c][n].id => m = n
    BY DEF OneFramePerRequest
  <2>1. OneFrame(call[c], frames[c], c \in dropped)
    BY OfCall DEF CallView, CallOK
  <2> QED
    BY <2>1 DEF OneFrame
<1> QED
  BY <1>1, SeamAlways, PTL

\* An outcome the seam took is written no later than the frame that ends its call, which carries no
\* attempt, and nothing at all when it is an error: _final_frame.
THEOREM OutcomesCorrect ==
  Spec => []OutcomesNoLaterThanResult
<1>1. SeamInv => OutcomesNoLaterThanResult
  <2> SUFFICES ASSUME SeamInv, NEW c \in Calls \ dropped, Concluded(c)
               PROVE  /\ handed \cap OpsOf(c) \subseteq OutcomesWritten(c)
                      /\ \A n \in DOMAIN frames[c] : frames[c][n].kind \in Kinds => OpsIn(frames[c][n].events, "attempt") = {}
                      /\ \A n \in DOMAIN frames[c] : frames[c][n].kind = "error" => frames[c][n].events = {}
    BY DEF OutcomesNoLaterThanResult
  <2>1. /\ FinalEnds(call[c], frames[c], c \in dropped) /\ FinalsClean(frames[c])
        /\ TakenKept(call[c], frames[c], c \in dropped, handed \cap OpsOf(c))
    BY OfCall DEF CallView, CallOK
  <2>2. call[c].ended
    BY <2>1 DEF FinalEnds, Concluded, ConcludedIn
  <2>3. handed \cap OpsOf(c) \subseteq OutcomesWritten(c)
    BY <2>1, <2>2 DEF TakenKept, OutcomesWritten, OutcomesIn
  <2> QED
    BY <2>1, <2>3 DEF FinalsClean
<1> QED
  BY <1>1, SeamAlways, PTL

\* A body runs only on an answer its own round's retry brought in time: _accept_retry, _send_attempt.
THEOREM GrantedCorrect ==
  Spec => []ActsOnlyIfGranted
<1>1. SeamInv => ActsOnlyIfGranted
  BY DEF SeamInv, GrantsOK
<1> QED
  BY <1>1, SeamAlways, PTL

\* A connection with nothing running and nothing undelivered is closed without a loss: the properties
\* an HTTP entry reads of the transport, mcp/seam.py's running and undelivered.
THEOREM ClosingCorrect ==
  Spec => []ClosingLosesNothing
<1>1. SeamInv => ClosingLosesNothing
  <2> SUFFICES ASSUME SeamInv, ~Running, ~Undelivered, NEW c \in Calls \ dropped, handler[c] # "unborn"
               PROVE  /\ handed \cap OpsOf(c) \subseteq OutcomesWritten(c)
                      /\ call[c].finished => Concluded(c)
                      /\ ~call[c].finished => \A op \in OpsOf(c) : stage[op] # "acting"
    BY DEF ClosingLosesNothing
  <2>1. /\ FinalEnds(call[c], frames[c], c \in dropped) /\ Ending(handler[c], call[c], c \in dropped)
        /\ TakenKept(call[c], frames[c], c \in dropped, handed \cap OpsOf(c)) /\ ActingOpen(call[c], Acting(c))
    BY OfCall DEF CallView, CallOK
  <2>2. call[c].finished => call[c].ended
    BY DEF SeamInv, WaitingOK, Held, Undelivered
  <2>3. call[c].finished => Concluded(c)
    BY <2>1, <2>2 DEF FinalEnds, Concluded, ConcludedIn
  <2>4. ~call[c].finished => ~call[c].ended /\ call[c].buffered = {} /\ call[c].open = {}
    BY <2>1 DEF Ending, Running, Undelivered, InFlight
  <2>5. handed \cap OpsOf(c) \subseteq OutcomesWritten(c)
    <3>1. OutcomesWritten(c) = OutcomesIn(frames[c])
      BY DEF OutcomesWritten, OutcomesIn
    <3>2. OpsIn({}, "outcome") = {}
      BY DEF OpsIn
    <3> QED
      BY <2>1, <2>2, <2>4, <3>1, <3>2 DEF TakenKept
  <2>6. ~call[c].finished => \A op \in OpsOf(c) : stage[op] # "acting"
    BY <2>1, <2>4 DEF ActingOpen, Acting
  <2> QED
    BY <2>3, <2>5, <2>6
<1> QED
  BY <1>1, SeamAlways, PTL

\* Events reach the wire in the order they were emitted and none of them twice, across the rounds and
\* final frames of a call and the requests of its session, until the session is evicted while idle:
\* _send_attempt and _send_outcome number them, _end_round and _final_frame write them, and _release
\* keeps the numbering for the retry of a request for input.
THEOREM EventsCorrect ==
  Spec => []EventsOnceInOrder
<1>1. SeamInv /\ OwnOrder /\ ChainOK /\ ChainOrder => EventsOnceInOrder
  <2> SUFFICES ASSUME SeamInv, OwnOrder, ChainOrder, NEW c \in Calls, NEW d \in Follows(c) \cup {c},
                      ~(d # c /\ SessionOf[c] \in restarted),
                      NEW m \in DOMAIN frames[c], NEW n \in DOMAIN frames[d],
                      NEW x \in frames[c][m].events, NEW y \in frames[d][n].events
               PROVE  /\ c # d \/ m < n => x.number < y.number
                      /\ c = d /\ m = n /\ x # y => x.number # y.number
    BY DEF EventsOnceInOrder
  <2>1. CASE d = c
    <3>1. InOrder(frames[c], PendingIn(call[c]))
      BY DEF OwnOrder
    <3> QED
      BY <2>1, <3>1 DEF InOrder, Before, OnceEach
  <2>2. CASE d # c
    <3>1. d \in Calls /\ After[d] = c /\ SessionOf[c] \notin restarted
      BY <2>2 DEF Follows
    <3>2. Opened(d)
      <4>1. handler[d] = "unborn" => frames[d] = <<>>
        BY <3>1, OfCall DEF CallView, CallOK, Unborn
      <4> QED
        BY <4>1 DEF Opened
    <3>3. Before(EventsOf(c), EventsOf(d))
      BY <3>1, <3>2 DEF ChainOrder
    <3>4. x \in EventsOf(c) /\ y \in EventsOf(d)
      BY DEF EventsOf, EventsIn
    <3> QED
      BY <2>2, <3>3, <3>4 DEF Before
  <2> QED
    BY <2>1, <2>2
<1> QED
  BY <1>1, OrderAlways, PTL

\* Whatever sessions the host issues, and however many requests share one: the events of one call go out
\* in the order they were emitted and none of them twice, and at work it is never behind its session.
THEOREM OwnEventsCorrect ==
  Spec => []OwnOrder
BY SeamInit, OrderInit, SeamStep, OwnStep, PTL DEF Spec
===============================================================================
