--------------------------- MODULE HostSeam_proofs ---------------------------
(***************************************************************************)
(* Theorems about HostSeam, for any calls, tools and bounds: the shape of  *)
(* the lanes, what the client is told, what a retry grants, that the       *)
(* tool's outcomes reach the host in order, and that closing the           *)
(* connection is silent of no loss.                                        *)
(***************************************************************************)
EXTENDS HostSeam, Induction

-----------------------------------------------------------------------------
(* Sequences. *)

\* What was kept of a line of E's up to its n-th element: those in S, in the line's order.
KeptUpto(t, E, line, S, n) ==
  /\ t \in Seq(E) /\ Len(t) <= n /\ Range(t) = {line[m] : m \in 1..n} \cap S
  /\ \A j, k \in 1..Len(t) : j < k => \E a, b \in 1..n : a < b /\ t[j] = line[a] /\ t[k] = line[b]

\* A line taken element by element.
Keeping(kept, e, S) == IF e \in S THEN Append(kept, e) ELSE kept
IsKept(f, line, S, m) == f = [n \in 0..m |-> IF n = 0 THEN <<>> ELSE Keeping(f[n - 1], line[n], S)]
KeptOf(line, S) ==
  CHOOSE f : f = [n \in 0..Len(line) |-> IF n = 0 THEN <<>> ELSE Keeping(f[n - 1], line[n], S)]

\* What Kept computes along a line exists.
LEMMA KeptRuns ==
  ASSUME NEW line, NEW S, Len(line) \in Nat
  PROVE  IsKept(KeptOf(line, S), line, S, Len(line))
<1> DEFINE T == {m \in Nat : \E f : IsKept(f, line, S, m)}
<1>1. 0 \in T
  <2>1. IsKept([n \in 0..0 |-> <<>>], line, S, 0)
    BY DEF IsKept
  <2> QED
    BY <2>1
<1>2. ASSUME NEW m \in T PROVE m + 1 \in T
  <2>1. PICK f : IsKept(f, line, S, m)
    OBVIOUS
  <2> DEFINE g == [n \in 0..(m + 1) |-> IF n = m + 1 THEN Keeping(f[m], line[n], S) ELSE f[n]]
  <2>2. \A n \in 0..(m + 1) : g[n] = IF n = 0 THEN <<>> ELSE Keeping(g[n - 1], line[n], S)
    BY <2>1 DEF IsKept
  <2>3. IsKept(g, line, S, m + 1)
    BY <2>2 DEF IsKept
  <2> QED
    BY <2>3
<1>3. T = Nat
  <2> HIDE DEF T
  <2>1. T \in SUBSET Nat
    BY DEF T
  <2> QED
    BY <1>1, <1>2, <2>1, NaturalInduction
<1>4. \E f : IsKept(f, line, S, Len(line))
  BY <1>3
<1> QED
  BY <1>4 DEF IsKept, KeptOf

\* One more element of the line.
LEMMA KeptOneMore ==
  ASSUME NEW E, NEW line \in Seq(E), NEW S, NEW n \in Nat, n < Len(line), NEW t, KeptUpto(t, E, line, S, n)
  PROVE  KeptUpto(Keeping(t, line[n + 1], S), E, line, S, n + 1)
<1>1. PICK e \in E : e = line[n + 1]
  OBVIOUS
<1>2. PICK g \in Seq(E) : g = t
  BY DEF KeptUpto
<1>3. /\ Len(g) \in Nat /\ Len(g) <= n /\ DOMAIN g = 1..Len(g)
      /\ \A j, k \in 1..Len(g) : j < k => \E a, b \in 1..n : a < b /\ g[j] = line[a] /\ g[k] = line[b]
      /\ Range(g) = {line[m] : m \in 1..n} \cap S
  BY <1>2 DEF KeptUpto
<1>4. {line[m] : m \in 1..(n + 1)} = {line[m] : m \in 1..n} \cup {e}
  BY <1>1
<1>5. CASE e \notin S
  <2>1. Keeping(t, line[n + 1], S) = g
    BY <1>1, <1>2, <1>5 DEF Keeping
  <2>2. Range(g) = {line[m] : m \in 1..(n + 1)} \cap S
    BY <1>3, <1>4, <1>5
  <2>3. \A j, k \in 1..Len(g) : j < k => \E a, b \in 1..(n + 1) : a < b /\ g[j] = line[a] /\ g[k] = line[b]
    BY <1>3
  <2> QED
    BY <1>3, <2>1, <2>2, <2>3 DEF KeptUpto
<1>6. CASE e \in S
  <2>0. Append(g, e) \in Seq(E)
    OBVIOUS
  <2>1. PICK h \in Seq(E) : h = Append(g, e)
    BY <2>0
  <2>2. Keeping(t, line[n + 1], S) = h
    BY <1>1, <1>2, <1>6, <2>1 DEF Keeping
  <2>3. /\ Len(h) = Len(g) + 1 /\ DOMAIN h = 1..(Len(g) + 1) /\ h[Len(g) + 1] = e
        /\ \A k \in 1..Len(g) : h[k] = g[k]
    BY <2>1
  <2>4. Range(h) = Range(g) \cup {e}
    <3>1. 1..(Len(g) + 1) = 1..Len(g) \cup {Len(g) + 1}
      BY <1>3
    <3> QED
      BY <1>3, <2>3, <3>1 DEF Range
  <2>5. Range(h) = {line[m] : m \in 1..(n + 1)} \cap S
    BY <1>3, <1>4, <1>6, <2>4
  <2>6. ASSUME NEW j \in 1..Len(h), NEW k \in 1..Len(h), j < k
        PROVE  \E a, b \in 1..(n + 1) : a < b /\ h[j] = line[a] /\ h[k] = line[b]
    <3>1. j \in 1..Len(g) /\ h[j] = g[j]
      BY <1>3, <2>3, <2>6
    <3>2. CASE k = Len(g) + 1
      <4>1. g[j] \in Range(g)
        BY <1>3, <3>1 DEF Range
      <4>2. PICK a \in 1..n : g[j] = line[a]
        BY <1>3, <4>1
      <4>3. a < n + 1 /\ n + 1 \in 1..(n + 1) /\ a \in 1..(n + 1) /\ h[k] = line[n + 1]
        BY <1>1, <2>3, <3>2
      <4> QED
        BY <3>1, <4>2, <4>3
    <3>3. CASE k # Len(g) + 1
      <4>1. k \in 1..Len(g) /\ h[k] = g[k]
        BY <1>3, <2>3, <3>3
      <4>2. PICK a, b \in 1..n : a < b /\ g[j] = line[a] /\ g[k] = line[b]
        BY <1>3, <2>6, <3>1, <4>1
      <4> QED
        BY <3>1, <4>1, <4>2
    <3> QED
      BY <3>2, <3>3
  <2> QED
    BY <1>3, <2>2, <2>3, <2>5, <2>6 DEF KeptUpto
<1> QED
  BY <1>5, <1>6

\* What is kept of a line: the members of the set, in the order of the line.
LEMMA KeptLine ==
  ASSUME NEW E, NEW line \in Seq(E), NEW S
  PROVE  /\ Kept(line, S) \in Seq(E) /\ Len(Kept(line, S)) <= Len(line) /\ Range(Kept(line, S)) = Range(line) \cap S
         /\ \A j, k \in DOMAIN Kept(line, S) : j < k =>
              \E a, b \in DOMAIN line : a < b /\ Kept(line, S)[j] = line[a] /\ Kept(line, S)[k] = line[b]
<1> DEFINE f == KeptOf(line, S)
           T == {n \in 0..Len(line) : KeptUpto(f[n], E, line, S, n)}
<1>1. Len(line) \in Nat /\ DOMAIN line = 1..Len(line) /\ Kept(line, S) = f[Len(line)]
  BY DEF Kept, KeptOf, Keeping
<1>2. f[0] = <<>> /\ \A n \in 1..Len(line) : f[n] = Keeping(f[n - 1], line[n], S)
  BY <1>1, KeptRuns DEF IsKept
<1> HIDE DEF f
<1>3. 0 \in T
  <2>1. <<>> \in Seq(E) /\ Len(<<>>) = 0 /\ Range(<<>>) = {} /\ {line[m] : m \in 1..0} = {}
    BY DEF Range
  <2>2. KeptUpto(<<>>, E, line, S, 0)
    BY <2>1 DEF KeptUpto
  <2> QED
    BY <1>1, <1>2, <2>2
<1>4. ASSUME NEW n \in T, n < Len(line) PROVE n + 1 \in T
  <2>1. n \in Nat /\ n + 1 \in 1..Len(line) /\ n + 1 \in 0..Len(line) /\ KeptUpto(f[n], E, line, S, n)
    BY <1>1, <1>4
  <2>2. KeptUpto(Keeping(f[n], line[n + 1], S), E, line, S, n + 1)
    BY <1>4, <2>1, KeptOneMore
  <2>3. f[n + 1] = Keeping(f[n], line[n + 1], S)
    <3>1. (n + 1) - 1 = n
      BY <2>1
    <3> QED
      BY <1>2, <2>1, <3>1
  <2> QED
    BY <2>1, <2>2, <2>3
<1>5. T = 0..Len(line)
  <2> HIDE DEF T
  <2>1. T \in SUBSET (0..Len(line))
    BY DEF T
  <2> QED
    BY <1>1, <1>3, <1>4, <2>1, BoundedInduction
<1>6. KeptUpto(f[Len(line)], E, line, S, Len(line))
  <2>1. Len(line) \in T
    BY <1>1, <1>5
  <2> QED
    BY <2>1
<1>7. PICK g \in Seq(E) : g = Kept(line, S)
  BY <1>1, <1>6 DEF KeptUpto
<1>8. KeptUpto(g, E, line, S, Len(line)) /\ DOMAIN g = 1..Len(g)
  BY <1>1, <1>6, <1>7
<1>9. Range(line) = {line[m] : m \in 1..Len(line)}
  BY <1>1 DEF Range
<1>10. g \in Seq(E) /\ Len(g) <= Len(line) /\ Range(g) = Range(line) \cap S
  BY <1>8, <1>9 DEF KeptUpto
<1>11. \A j, k \in DOMAIN g : j < k => \E a, b \in DOMAIN line : a < b /\ g[j] = line[a] /\ g[k] = line[b]
  <2>1. \A j, k \in 1..Len(g) : j < k => \E a, b \in 1..Len(line) : a < b /\ g[j] = line[a] /\ g[k] = line[b]
    BY <1>8 DEF KeptUpto
  <2>2. DOMAIN g = 1..Len(g) /\ DOMAIN line = 1..Len(line)
    BY <1>1, <1>8
  <2> SUFFICES ASSUME NEW j \in DOMAIN g, NEW k \in DOMAIN g, j < k
                PROVE  \E a, b \in DOMAIN line : a < b /\ g[j] = line[a] /\ g[k] = line[b]
    OBVIOUS
  <2>3. PICK a, b \in 1..Len(line) : a < b /\ g[j] = line[a] /\ g[k] = line[b]
    BY <2>1, <2>2
  <2>4. a \in DOMAIN line /\ b \in DOMAIN line
    BY <2>2
  <2> QED
    BY <2>3, <2>4
<1> QED
  BY <1>7, <1>10, <1>11

-----------------------------------------------------------------------------
(* Turns: who has a call's next move, and what its lane may hold. *)

JobKinds == RoundKinds \cup {"conclude", "seal", "ask", "close"}
WorkKinds == {"none", "round", "input", "abandoned", "conclude", "seal", "ask", "close", "sending"}
Phases == {"up", "draining", "closing", "closed"}

\* The events of a call, by position; 0 stands for its close.
Events == Nat \ {0}

CallRecords == [state : CallStates, asked : BOOLEAN, rounds : 0..(MaxRounds + 1)]
Jobs == [kind : JobKinds, events : Seq(Events)]
Works == [kind : WorkKinds, rest : Seq(Events), busy : BOOLEAN, accepted : SUBSET Events]
Entries == [what : {"attempt", "outcome", "close"}, n : Nat, awaited : BOOLEAN]
HeldRounds == [call : Calls, accepted : SUBSET Events]

Types ==
  /\ connection \in Phases /\ stopped \in BOOLEAN
  /\ call \in [Calls -> CallRecords] /\ lane \in [Calls -> Seq(Jobs)] /\ work \in [Calls -> Works]
  /\ desk \in [Calls -> Seq(Entries)] /\ log \in [Calls -> Seq(Nat)] /\ adrift \in [Calls -> Seq(Events)]
  /\ sweep \in [Calls -> SweepStates]
  /\ received \in [Calls -> Seq(EventKinds)] /\ owed \in [Calls -> Nat]
  /\ clientAsked \in [Calls -> Nat] /\ clientTold \in [Calls -> Nat] /\ cancelled \in SUBSET Calls
  /\ told \in [Calls -> SUBSET Events] /\ late \in [Calls -> SUBSET Events] /\ dropped \in [Calls -> SUBSET Events]

\* Rounds are held of different calls.
HeldLine ==
  /\ held \in Seq(HeldRounds) /\ Len(held) <= MaxHeld
  /\ \A j, k \in DOMAIN held : held[j].call = held[k].call => j = k

Closing(job) == job.kind \in {"conclude", "close"}
RoundWork == {"round", "input", "sending"}

\* A call's next move is the tool's, the client's, or that of one round in its lane or at work.
OneTurn(c) ==
  /\ \A j, k \in DOMAIN lane[c] : lane[c][j].kind \in RoundKinds /\ lane[c][k].kind \in RoundKinds => j = k
  /\ \A k \in DOMAIN lane[c] : lane[c][k].kind \in RoundKinds =>
       ~call[c].asked /\ ~Holds(c) /\ work[c].kind \notin RoundWork \cup {"abandoned"}
  /\ work[c].kind \in RoundWork => ~call[c].asked /\ ~Holds(c)
  /\ ~(call[c].asked /\ Holds(c))

\* A call in flight has no closing job, one that ended has it last, and what is closed has no more jobs.
LaneRuns(c) ==
  /\ call[c].state = "unsent" => lane[c] = <<>> /\ work[c] = NoWork
  /\ ~Ended(c) => call[c].rounds <= MaxRounds
  /\ call[c].asked \/ Holds(c) => call[c].state = "inflight"
  /\ call[c].state = "inflight" => connection = "up"
  /\ \A k \in DOMAIN lane[c] : Closing(lane[c][k]) => k = Len(lane[c]) /\ Ended(c)
  /\ Closing(work[c]) => Ended(c) /\ lane[c] = <<>>
  /\ work[c].kind = "abandoned" => Ended(c) /\ \A k \in DOMAIN lane[c] : ~Closing(lane[c][k])
  /\ call[c].state = "over" => lane[c] = <<>> /\ work[c] = NoWork

\* The lane's work waits for one entry of the endpoint's queue at most.
OneAwaited(c) ==
  /\ \A k \in DOMAIN desk[c] : desk[c][k].awaited => work[c].busy
  /\ \A j, k \in DOMAIN desk[c] : desk[c][j].awaited /\ desk[c][k].awaited => j = k
  /\ \A k \in DOMAIN desk[c] : desk[c][k].awaited /\ desk[c][k].what = "close" => work[c].kind = "close"
  /\ \A k \in DOMAIN desk[c] : desk[c][k].what = "close" <=> desk[c][k].n = 0

\* The client is owed an answer of a call in flight whose round it does not hold, and of an abandoned one.
TurnsTold(c) ==
  /\ call[c].state = "inflight" /\ ~Holds(c) => clientTold[c] < clientAsked[c]
  /\ clientTold[c] <= clientAsked[c]
  /\ work[c].kind = "abandoned" => clientTold[c] < clientAsked[c]
  /\ c \in cancelled => Ended(c)
  /\ call[c].state = "unsent" => clientTold[c] = 0

OwedFew(c) == owed[c] <= Len(received[c]) /\ Len(received[c]) <= MaxEvents

TurnInv ==
  /\ Types /\ HeldLine
  /\ \A c \in Calls : OneTurn(c) /\ LaneRuns(c) /\ OneAwaited(c) /\ TurnsTold(c) /\ OwedFew(c)

-----------------------------------------------------------------------------
(* Lines, and the line of held rounds. *)

\* A line with one more element.
LEMMA LineAppend ==
  ASSUME NEW E, NEW line \in Seq(E), NEW e \in E
  PROVE  /\ Append(line, e) \in Seq(E) /\ Len(Append(line, e)) = Len(line) + 1 /\ Len(line) \in Nat
         /\ DOMAIN line = 1..Len(line) /\ DOMAIN Append(line, e) = 1..(Len(line) + 1)
         /\ \A k \in DOMAIN line : Append(line, e)[k] = line[k]
         /\ Append(line, e)[Len(line) + 1] = e
         /\ Range(Append(line, e)) = Range(line) \cup {e}
         /\ line \o <<e>> = Append(line, e)
<1>1. /\ Append(line, e) \in Seq(E) /\ Len(Append(line, e)) = Len(line) + 1 /\ Len(line) \in Nat
      /\ DOMAIN line = 1..Len(line) /\ DOMAIN Append(line, e) = 1..(Len(line) + 1)
  OBVIOUS
<1>2. (\A k \in DOMAIN line : Append(line, e)[k] = line[k]) /\ Append(line, e)[Len(line) + 1] = e
  OBVIOUS
<1>3. Range(Append(line, e)) = Range(line) \cup {e}
  <2>1. 1..(Len(line) + 1) = 1..Len(line) \cup {Len(line) + 1}
    BY <1>1
  <2> QED
    BY <1>1, <1>2, <2>1 DEF Range
<1>4. line \o <<e>> = Append(line, e)
  OBVIOUS
<1> QED
  BY <1>1, <1>2, <1>3, <1>4

\* A line without its first element.
LEMMA LineTail ==
  ASSUME NEW E, NEW line \in Seq(E), line # <<>>
  PROVE  /\ Tail(line) \in Seq(E) /\ Len(Tail(line)) = Len(line) - 1 /\ Len(line) \in Nat /\ Len(line) > 0
         /\ DOMAIN line = 1..Len(line) /\ DOMAIN Tail(line) = 1..(Len(line) - 1)
         /\ \A k \in DOMAIN Tail(line) : k + 1 \in DOMAIN line /\ k + 1 > 1 /\ Tail(line)[k] = line[k + 1]
         /\ Head(line) = line[1] /\ Head(line) \in E /\ 1 \in DOMAIN line
         /\ Range(line) = {Head(line)} \cup Range(Tail(line))
<1>1. /\ Tail(line) \in Seq(E) /\ Len(Tail(line)) = Len(line) - 1 /\ Len(line) \in Nat /\ Len(line) > 0
      /\ DOMAIN line = 1..Len(line) /\ DOMAIN Tail(line) = 1..(Len(line) - 1)
  OBVIOUS
<1>2. \A k \in DOMAIN Tail(line) : k + 1 \in DOMAIN line /\ k + 1 > 1 /\ Tail(line)[k] = line[k + 1]
  OBVIOUS
<1>3. Head(line) = line[1] /\ Head(line) \in E /\ 1 \in DOMAIN line
  OBVIOUS
<1>4. ASSUME NEW k \in DOMAIN line PROVE line[k] \in {Head(line)} \cup Range(Tail(line))
  <2>1. CASE k = 1
    BY <1>3, <2>1
  <2>2. CASE k # 1
    <3>1. k - 1 \in DOMAIN Tail(line) /\ Tail(line)[k - 1] = line[k]
      BY <1>1, <2>2
    <3> QED
      BY <3>1 DEF Range
  <2> QED
    BY <2>1, <2>2
<1>5. Range(line) = {Head(line)} \cup Range(Tail(line))
  BY <1>2, <1>3, <1>4 DEF Range
<1> QED
  BY <1>1, <1>2, <1>3, <1>5

\* Nothing queued changes nothing.
LEMMA LineSame == ASSUME NEW E, NEW line \in Seq(E) PROVE line \o <<>> = line
OBVIOUS

HeldOf(c) == {h \in Range(held) : h.call = c}
OnePerCall(line) == \A j, k \in DOMAIN line : line[j].call = line[k].call => j = k

\* A call holds a request exactly when the table of held requests has one of it.
LEMMA HoldsOf == \A c \in Calls : Holds(c) <=> HeldOf(c) # {}
BY DEF Holds, HeldOf

\* A call's round no longer held.
LEMMA HeldWithout ==
  ASSUME HeldLine, NEW c, held' = Without(held, c)
  PROVE  HeldLine' /\ HeldOf(c)' = {} /\ \A d : d # c => HeldOf(d)' = HeldOf(d)
<1> DEFINE S == {h \in Range(held) : h.call # c}
<1>1. held \in Seq(HeldRounds) /\ OnePerCall(held) /\ Len(held) <= MaxHeld /\ Len(held) \in Nat
  BY DEF HeldLine, OnePerCall
<1>2. held' = Kept(held, S)
  BY DEF Without
<1> HIDE DEF S
<1>3. /\ held' \in Seq(HeldRounds) /\ Len(held') <= Len(held) /\ Range(held') = Range(held) \cap S
      /\ \A j, k \in DOMAIN held' : j < k => \E a, b \in DOMAIN held : a < b /\ held'[j] = held[a] /\ held'[k] = held[b]
  BY <1>1, <1>2, KeptLine
<1>4. Len(held') <= MaxHeld
  <2>1. Len(held') \in Nat /\ MaxHeld \in Nat
    BY <1>3, SeamAssumption
  <2> QED
    BY <1>1, <1>3, <2>1
<1>5. ASSUME NEW j \in DOMAIN held', NEW k \in DOMAIN held', held'[j].call = held'[k].call, j < k PROVE FALSE
  <2>1. PICK a, b \in DOMAIN held : a < b /\ held'[j] = held[a] /\ held'[k] = held[b]
    BY <1>3, <1>5
  <2>2. a = b
    BY <1>1, <1>5, <2>1 DEF OnePerCall
  <2>3. a \in Nat /\ b \in Nat
    BY <1>1
  <2> QED
    BY <2>1, <2>2, <2>3
<1>6. ASSUME NEW j \in DOMAIN held', NEW k \in DOMAIN held', held'[j].call = held'[k].call PROVE j = k
  <2>1. j \in Nat /\ k \in Nat
    BY <1>3
  <2>2. ~(j < k) /\ ~(k < j)
    BY <1>5, <1>6
  <2> QED
    BY <2>1, <2>2
<1>7. HeldLine'
  BY <1>3, <1>4, <1>6 DEF HeldLine
<1>8. HeldOf(c)' = {} /\ \A d : d # c => HeldOf(d)' = HeldOf(d)
  BY <1>3 DEF HeldOf, S
<1> QED
  BY <1>7, <1>8

\* One more round held, of a call that holds none.
LEMMA HeldOneMore ==
  ASSUME HeldLine, NEW r \in HeldRounds, HeldOf(r.call) = {}
  PROVE  /\ Append(held, r) \in Seq(HeldRounds) /\ OnePerCall(Append(held, r)) /\ Len(Append(held, r)) = Len(held) + 1
         /\ Range(Append(held, r)) = Range(held) \cup {r} /\ Append(held, r) # <<>>
<1>1. held \in Seq(HeldRounds) /\ OnePerCall(held)
  BY DEF HeldLine, OnePerCall
<1>2. PICK t : t = Append(held, r)
  OBVIOUS
<1>3. /\ t \in Seq(HeldRounds) /\ Len(t) = Len(held) + 1 /\ Len(held) \in Nat
      /\ DOMAIN held = 1..Len(held) /\ DOMAIN t = 1..(Len(held) + 1)
      /\ \A k \in DOMAIN held : t[k] = held[k]
      /\ t[Len(held) + 1] = r /\ Range(t) = Range(held) \cup {r}
  BY <1>1, <1>2, LineAppend
<1>4. \A k \in DOMAIN held : held[k].call # r.call
  BY DEF HeldOf, Range
<1>5. OnePerCall(t)
  <2> SUFFICES ASSUME NEW j \in DOMAIN t, NEW k \in DOMAIN t, t[j].call = t[k].call PROVE j = k
    BY DEF OnePerCall
  <2>1. (j \in DOMAIN held \/ j = Len(held) + 1) /\ (k \in DOMAIN held \/ k = Len(held) + 1)
    BY <1>3
  <2>2. CASE j \in DOMAIN held /\ k \in DOMAIN held
    BY <1>1, <1>3, <2>2 DEF OnePerCall
  <2>3. CASE ~(j \in DOMAIN held /\ k \in DOMAIN held)
    BY <1>3, <1>4, <2>1, <2>3
  <2> QED
    BY <2>2, <2>3
<1>6. t # <<>>
  BY <1>3
<1> QED
  BY <1>2, <1>3, <1>5, <1>6

\* The least recently held round let go.
LEMMA HeldFirstOut ==
  ASSUME NEW t \in Seq(HeldRounds), OnePerCall(t), t # <<>>
  PROVE  /\ Tail(t) \in Seq(HeldRounds) /\ OnePerCall(Tail(t)) /\ Len(Tail(t)) = Len(t) - 1 /\ Head(t) \in Range(t)
         /\ \A d : {h \in Range(Tail(t)) : h.call = d} = IF d = Head(t).call THEN {} ELSE {h \in Range(t) : h.call = d}
<1>1. /\ Tail(t) \in Seq(HeldRounds) /\ Len(Tail(t)) = Len(t) - 1 /\ Len(t) \in Nat /\ Len(t) > 0
      /\ DOMAIN t = 1..Len(t) /\ DOMAIN Tail(t) = 1..(Len(t) - 1)
      /\ \A k \in DOMAIN Tail(t) : k + 1 \in DOMAIN t /\ k + 1 > 1 /\ Tail(t)[k] = t[k + 1]
      /\ Head(t) = t[1] /\ 1 \in DOMAIN t
      /\ Range(t) = {Head(t)} \cup Range(Tail(t))
  BY LineTail
<1>2. OnePerCall(Tail(t))
  <2> SUFFICES ASSUME NEW j \in DOMAIN Tail(t), NEW k \in DOMAIN Tail(t), Tail(t)[j].call = Tail(t)[k].call PROVE j = k
    BY DEF OnePerCall
  <2>1. j + 1 = k + 1
    BY <1>1 DEF OnePerCall
  <2> QED
    BY <1>1, <2>1
<1>3. \A h \in Range(Tail(t)) : h.call # Head(t).call
  <2> SUFFICES ASSUME NEW k \in DOMAIN Tail(t), Tail(t)[k].call = t[1].call PROVE FALSE
    BY <1>1 DEF Range
  <2>1. k + 1 = 1
    BY <1>1 DEF OnePerCall
  <2> QED
    BY <1>1, <2>1
<1>4. ASSUME NEW d PROVE {h \in Range(Tail(t)) : h.call = d} = IF d = Head(t).call THEN {} ELSE {h \in Range(t) : h.call = d}
  BY <1>1, <1>3
<1>5. Head(t) \in Range(t)
  BY <1>1 DEF Range
<1> QED
  BY <1>1, <1>2, <1>4, <1>5

-----------------------------------------------------------------------------
(* Turns are kept. *)

TurnCall(c) == OneTurn(c) /\ LaneRuns(c) /\ OneAwaited(c) /\ TurnsTold(c) /\ OwedFew(c)

\* A step leaves all that is a call's as it is.
Same(d) ==
  /\ call'[d] = call[d] /\ lane'[d] = lane[d] /\ work'[d] = work[d] /\ desk'[d] = desk[d] /\ log'[d] = log[d]
  /\ adrift'[d] = adrift[d] /\ owed'[d] = owed[d] /\ sweep'[d] = sweep[d] /\ received'[d] = received[d]
  /\ clientAsked'[d] = clientAsked[d] /\ clientTold'[d] = clientTold[d] /\ (d \in cancelled' <=> d \in cancelled)
  /\ told'[d] = told[d] /\ late'[d] = late[d] /\ dropped'[d] = dropped[d]
  /\ HeldOf(d)' = HeldOf(d)

\* A call that a step leaves alone keeps its turn.
LEMMA TurnSame ==
  ASSUME TurnInv, NEW d \in Calls, Same(d), connection' = connection
  PROVE  TurnCall(d)'
<1>1. Holds(d)' <=> Holds(d)
  BY DEF Holds, HeldOf, Same
<1>2. Ended(d)' <=> Ended(d)
  BY DEF Ended, Same
<1>3. OneTurn(d)'
  BY <1>1 DEF OneTurn, TurnInv, Same
<1>4. LaneRuns(d)'
  BY <1>1, <1>2 DEF LaneRuns, TurnInv, Same, Closing
<1>5. OneAwaited(d)'
  BY DEF OneAwaited, TurnInv, Same
<1>6. TurnsTold(d)' /\ OwedFew(d)'
  BY <1>1, <1>2 DEF TurnsTold, OwedFew, TurnInv, Same
<1> QED
  BY <1>3, <1>4, <1>5, <1>6 DEF TurnCall

\* A step of one call.
LEMMA TurnStep ==
  ASSUME TurnInv, NEW c \in Calls, Types', HeldLine', TurnCall(c)', connection' = connection,
         \A d \in Calls : d # c => Same(d)
  PROVE  TurnInv'
<1>1. ASSUME NEW d \in Calls PROVE TurnCall(d)'
  BY TurnSame
<1> QED
  BY <1>1 DEF TurnInv, TurnCall

\* Initially no call has a job at work, an entry at the endpoint or a request open.
LEMMA TurnInit == Init => TurnInv
<1> SUFFICES ASSUME Init PROVE TurnInv
  OBVIOUS
<1>1. Types
  <2>1. [state |-> "unsent", asked |-> FALSE, rounds |-> 0] \in CallRecords
    BY SeamAssumption DEF CallRecords, CallStates
  <2>2. NoWork \in Works
    BY DEF Works, WorkKinds, NoWork, Work
  <2>3. call \in [Calls -> CallRecords] /\ work \in [Calls -> Works]
    BY <2>1, <2>2 DEF Init
  <2>4. /\ lane \in [Calls -> Seq(Jobs)] /\ desk \in [Calls -> Seq(Entries)] /\ log \in [Calls -> Seq(Nat)]
        /\ adrift \in [Calls -> Seq(Events)] /\ received \in [Calls -> Seq(EventKinds)]
    BY DEF Init
  <2>5. /\ connection \in Phases /\ stopped \in BOOLEAN /\ sweep \in [Calls -> SweepStates]
        /\ owed \in [Calls -> Nat] /\ clientAsked \in [Calls -> Nat] /\ clientTold \in [Calls -> Nat]
        /\ cancelled \in SUBSET Calls
        /\ told \in [Calls -> SUBSET Events] /\ late \in [Calls -> SUBSET Events] /\ dropped \in [Calls -> SUBSET Events]
    BY DEF Init, Phases, SweepStates
  <2> QED
    BY <2>3, <2>4, <2>5 DEF Types
<1>2. HeldLine
  BY SeamAssumption DEF Init, HeldLine
<1>3. ASSUME NEW c \in Calls PROVE TurnCall(c)
  <2>1. ~Holds(c) /\ ~Ended(c) /\ work[c].kind = "none" /\ lane[c] = <<>> /\ desk[c] = <<>> /\ call[c].state = "unsent"
    BY DEF Init, Holds, Range, Ended, NoWork, Work
  <2>2. OneTurn(c) /\ LaneRuns(c)
    BY <2>1, SeamAssumption DEF Init, OneTurn, LaneRuns, RoundWork, Closing
  <2>3. OneAwaited(c)
    BY <2>1 DEF OneAwaited
  <2>4. TurnsTold(c) /\ OwedFew(c)
    BY <2>1, SeamAssumption DEF Init, TurnsTold, OwedFew
  <2> QED
    BY <2>2, <2>3, <2>4 DEF TurnCall
<1> QED
  BY <1>1, <1>2, <1>3 DEF TurnInv, TurnCall

\* Nothing is held or let go.
LEMMA HeldSame == HeldLine /\ UNCHANGED held => HeldLine' /\ \A d : HeldOf(d)' = HeldOf(d)
BY DEF HeldLine, HeldOf

\* A stutter keeps the turn.
LEMMA TurnAside == TurnInv /\ UNCHANGED vars => TurnInv'
<1> SUFFICES ASSUME TurnInv, UNCHANGED vars PROVE TurnInv'
  OBVIOUS
<1> USE DEF vars, lanes, host, wire, client, grants
<1>1. Types'
  BY DEF TurnInv, Types
<1>2. HeldLine' /\ \A d : HeldOf(d)' = HeldOf(d)
  BY HeldSame DEF TurnInv
<1>3. ASSUME NEW d \in Calls PROVE TurnCall(d)'
  <2>1. Same(d)
    BY <1>2 DEF Same
  <2> QED
    BY <2>1, TurnSame
<1> QED
  BY <1>1, <1>2, <1>3 DEF TurnInv, TurnCall

\* Send: the client gives a new call its first request.
LEMMA TurnSend ==
  ASSUME TurnInv, NEW c \in Calls, Send(c)
  PROVE  TurnInv'
<1> USE DEF lanes, host, wire, client, grants
<1>1. Types'
  <2>1. Types /\ call \in [Calls -> CallRecords] /\ clientAsked \in [Calls -> Nat]
    BY DEF TurnInv, Types
  <2>2. call' = [call EXCEPT ![c].state = "inflight", ![c].asked = TRUE] /\ clientAsked' = [clientAsked EXCEPT ![c] = 1]
    BY DEF Send
  <2>3. call' \in [Calls -> CallRecords] /\ clientAsked' \in [Calls -> Nat]
    BY <2>1, <2>2 DEF CallRecords, CallStates
  <2> QED
    BY <2>1, <2>3 DEF Send, Types
<1>2. HeldLine' /\ \A d : HeldOf(d)' = HeldOf(d)
  BY HeldSame DEF TurnInv, Send
<1>3. \A d \in Calls : d # c => Same(d)
  BY <1>2 DEF Same, Send, TurnInv, Types
<1>4. /\ call'[c].state = "inflight" /\ call'[c].asked /\ call'[c].rounds = call[c].rounds /\ lane'[c] = <<>> /\ work'[c] = NoWork
      /\ ~Holds(c)' /\ ~Ended(c) /\ ~Ended(c)' /\ desk'[c] = desk[c] /\ NoWork.kind = "none" /\ work[c] = NoWork
  <2>1. call[c].state = "unsent" /\ ~Holds(c) /\ lane[c] = <<>> /\ work[c] = NoWork /\ call[c] \in CallRecords
    BY DEF Send, TurnInv, LaneRuns, Types
  <2>2. ~Holds(c)'
    BY <1>2, <2>1 DEF Holds, HeldOf
  <2> QED
    BY <2>1, <2>2 DEF Send, Ended, TurnInv, Types, CallRecords, NoWork, Work
<1>5. OneTurn(c)' /\ LaneRuns(c)'
  BY <1>4 DEF OneTurn, LaneRuns, RoundWork, Closing, Send, Up, TurnInv
<1>6. OneAwaited(c)' /\ OwedFew(c)'
  BY <1>4 DEF OneAwaited, OwedFew, Send, TurnInv
<1>7. TurnsTold(c)'
  <2>1. clientTold[c] \in Nat /\ clientTold'[c] = 0 /\ clientAsked'[c] = 1 /\ c \notin cancelled'
    BY <1>4 DEF Send, TurnInv, TurnsTold, Types, Ended
  <2> QED
    BY <1>4, <2>1 DEF TurnsTold
<1>8. TurnCall(c)' /\ connection' = connection
  BY <1>5, <1>6, <1>7 DEF TurnCall, Send
<1> QED
  BY <1>1, <1>2, <1>3, <1>8, TurnStep

\* What a call's record is made of.
LEMMA CallFields ==
  ASSUME Types, NEW c \in Calls
  PROVE  call[c].state \in CallStates /\ call[c].asked \in BOOLEAN /\ call[c].rounds \in 0..(MaxRounds + 1) /\ call[c] \in CallRecords
BY DEF Types, CallRecords

\* A detached call is concluding and its request is not open; the other calls are as they were.
LEMMA DetachedIs ==
  ASSUME Types, NEW c \in Calls
  PROVE  /\ Detached(c) \in [Calls -> CallRecords]
         /\ Detached(c)[c].state = "concluding" /\ ~Detached(c)[c].asked /\ Detached(c)[c].rounds = call[c].rounds
         /\ \A d \in Calls : d # c => Detached(c)[d] = call[d]
<1>1. call \in [Calls -> CallRecords] /\ call[c] \in CallRecords
  BY DEF Types
<1>2. PICK r \in CallRecords : r = [call[c] EXCEPT !.state = "concluding"]
  BY <1>1 DEF CallRecords, CallStates
<1>3. r.state = "concluding" /\ r.rounds = call[c].rounds
  BY <1>1, <1>2 DEF CallRecords
<1>4. PICK q \in CallRecords : q = [r EXCEPT !.asked = FALSE]
  BY DEF CallRecords
<1>5. q.state = r.state /\ q.rounds = r.rounds /\ q.asked = FALSE
  BY <1>4 DEF CallRecords
<1>6. Detached(c) = [call EXCEPT ![c] = q]
  BY <1>1, <1>2, <1>4 DEF Detached
<1> QED
  BY <1>1, <1>3, <1>5, <1>6

\* One more job in a lane.
LEMMA QueuedOne ==
  ASSUME Types, NEW c \in Calls, NEW job \in Jobs
  PROVE  /\ Queued(c, <<job>>) \in [Calls -> Seq(Jobs)] /\ Queued(c, <<job>>)[c] = Append(lane[c], job)
         /\ \A d \in Calls : d # c => Queued(c, <<job>>)[d] = lane[d]
<1>1. lane \in [Calls -> Seq(Jobs)] /\ lane[c] \in Seq(Jobs)
  BY DEF Types
<1>2. Append(lane[c], job) \in Seq(Jobs) /\ lane[c] \o <<job>> = Append(lane[c], job)
  BY <1>1, LineAppend
<1> QED
  BY <1>1, <1>2 DEF Queued

\* The job that closes a session is well-formed.
LEMMA CloseJobIs == CloseJob \in Jobs /\ CloseJob.kind = "close" /\ CloseJob.events = <<>>
BY DEF CloseJob, Job, Jobs, JobKinds

\* A lane with one more job, which comes last.
Longer(c, job) ==
  /\ Len(lane[c]) \in Nat /\ DOMAIN lane[c] = 1..Len(lane[c])
  /\ DOMAIN lane'[c] = 1..(Len(lane[c]) + 1) /\ Len(lane'[c]) = Len(lane[c]) + 1
  /\ \A k \in DOMAIN lane[c] : k \in DOMAIN lane'[c] /\ lane'[c][k] = lane[c][k] /\ k # Len(lane[c]) + 1
  /\ \A k \in DOMAIN lane'[c] : k \in DOMAIN lane[c] \/ k = Len(lane[c]) + 1
  /\ lane'[c][Len(lane[c]) + 1] = job

\* A job added to a lane leaves the ones before it where they were.
LEMMA LongerLane ==
  ASSUME Types, NEW c \in Calls, NEW job \in Jobs, lane'[c] = Append(lane[c], job)
  PROVE  Longer(c, job)
<1>1. lane[c] \in Seq(Jobs)
  BY DEF Types
<1>2. PICK t : t = lane'[c]
  OBVIOUS
<1>3. /\ Len(t) = Len(lane[c]) + 1 /\ Len(lane[c]) \in Nat
      /\ DOMAIN lane[c] = 1..Len(lane[c]) /\ DOMAIN t = 1..(Len(lane[c]) + 1)
      /\ \A k \in DOMAIN lane[c] : t[k] = lane[c][k]
      /\ t[Len(lane[c]) + 1] = job
  BY <1>1, <1>2, LineAppend
<1>4. /\ \A k \in DOMAIN lane[c] : k \in DOMAIN t /\ k # Len(lane[c]) + 1
      /\ \A k \in DOMAIN t : k \in DOMAIN lane[c] \/ k = Len(lane[c]) + 1
  BY <1>3
<1> QED
  BY <1>2, <1>3, <1>4 DEF Longer

\* ClientRetry: the round is no longer held, and the tool's request is open again.
LEMMA TurnClientRetry ==
  ASSUME TurnInv, NEW c \in Calls, ClientRetry(c)
  PROVE  TurnInv'
<1> USE DEF lanes, host, wire
<1>1. Types
  BY DEF TurnInv
<1>2. PICK h \in Range(held) : h.call = c /\ told' = [told EXCEPT ![c] = @ \cup h.accepted]
  BY DEF ClientRetry
<1>3. h.accepted \in SUBSET Events
  <2>1. h \in HeldRounds
    BY DEF TurnInv, HeldLine, Range
  <2> QED
    BY <2>1 DEF HeldRounds
<1>4. /\ held' = Without(held, c) /\ call' = [call EXCEPT ![c].asked = TRUE]
      /\ clientAsked' = [clientAsked EXCEPT ![c] = @ + 1]
      /\ UNCHANGED <<lane, work, desk, log, owed, adrift, stopped, connection, sweep, received, clientTold, cancelled, late, dropped>>
  BY DEF ClientRetry
<1>5. Types'
  <2>1. call' \in [Calls -> CallRecords]
    BY <1>1, <1>4 DEF Types, CallRecords
  <2>2. told' \in [Calls -> SUBSET Events] /\ clientAsked' \in [Calls -> Nat]
    BY <1>1, <1>2, <1>3, <1>4 DEF Types
  <2> QED
    BY <1>1, <1>4, <2>1, <2>2 DEF Types
<1>6. HeldLine' /\ HeldOf(c)' = {} /\ \A d : d # c => HeldOf(d)' = HeldOf(d)
  BY <1>4, HeldWithout DEF TurnInv
<1>7. \A d \in Calls : d # c => Same(d)
  BY <1>1, <1>2, <1>4, <1>6 DEF Same, Types
<1>8. Holds(c) /\ ~Holds(c)'
  BY <1>2, <1>6 DEF Holds, HeldOf
<1>9. call[c].state = "inflight" /\ ~Ended(c)
  BY <1>8 DEF TurnInv, LaneRuns, Ended
<1>10. call'[c].state = "inflight" /\ call'[c].asked /\ call'[c].rounds = call[c].rounds /\ ~Ended(c)'
  BY <1>1, <1>4, <1>9 DEF Types, CallRecords, Ended
<1>11. OneTurn(c)' /\ LaneRuns(c)'
  <2>1. OneTurn(c) /\ LaneRuns(c)
    BY DEF TurnInv
  <2> QED
    BY <1>4, <1>8, <1>9, <1>10, <2>1 DEF OneTurn, LaneRuns, RoundWork, Closing
<1>12. OneAwaited(c)' /\ OwedFew(c)'
  BY <1>4 DEF OneAwaited, OwedFew, TurnInv
<1>13. TurnsTold(c)'
  <2>1. TurnsTold(c) /\ clientTold[c] \in Nat /\ clientAsked[c] \in Nat /\ clientAsked'[c] = clientAsked[c] + 1
    BY <1>1, <1>4 DEF TurnInv, Types
  <2> QED
    BY <1>4, <1>9, <1>10, <2>1 DEF TurnsTold
<1>14. TurnCall(c)' /\ connection' = connection
  BY <1>4, <1>11, <1>12, <1>13 DEF TurnCall
<1> QED
  BY <1>5, <1>6, <1>7, <1>14, TurnStep

\* Cancel: the call ends, and its close is the last job of its lane.
LEMMA TurnCancel ==
  ASSUME TurnInv, NEW c \in Calls, Cancel(c)
  PROVE  TurnInv'
<1> USE DEF host, wire, grants
<1>1. Types /\ OneTurn(c) /\ LaneRuns(c) /\ TurnsTold(c) /\ call[c].state = "inflight" /\ connection = "up" /\ ~Ended(c)
  BY DEF TurnInv, Cancel, InFlight, Up, Ended
<1>2. /\ call' = Detached(c) /\ held' = Without(held, c) /\ lane' = Queued(c, <<CloseJob>>) /\ cancelled' = cancelled \cup {c}
      /\ UNCHANGED <<work, desk, log, owed, adrift, stopped, connection, sweep, received, clientAsked, clientTold, told, late, dropped>>
  BY DEF Cancel
<1>3. /\ call' \in [Calls -> CallRecords] /\ \A d \in Calls : d # c => call'[d] = call[d]
      /\ call'[c].state = "concluding" /\ ~call'[c].asked /\ call'[c].rounds = call[c].rounds
  BY <1>1, <1>2, DetachedIs
<1>4. /\ lane' \in [Calls -> Seq(Jobs)] /\ lane'[c] = Append(lane[c], CloseJob)
      /\ \A d \in Calls : d # c => lane'[d] = lane[d]
  BY <1>1, <1>2, QueuedOne, CloseJobIs
<1>5. Types'
  BY <1>1, <1>2, <1>3, <1>4 DEF Types
<1>6. HeldLine' /\ HeldOf(c)' = {} /\ \A d : d # c => HeldOf(d)' = HeldOf(d)
  BY <1>2, HeldWithout DEF TurnInv
<1>7. \A d \in Calls : d # c => Same(d)
  BY <1>2, <1>3, <1>4, <1>6 DEF Same
<1>8. ~Holds(c)' /\ Ended(c)' /\ ~call'[c].asked /\ call'[c].state = "concluding"
  BY <1>3, <1>6 DEF Holds, HeldOf, Ended
<1>9. Longer(c, CloseJob) /\ CloseJob.kind = "close"
  BY <1>1, <1>4, LongerLane, CloseJobIs
<1>10. OneTurn(c)'
  <2>1. \A k \in DOMAIN lane'[c] : lane'[c][k].kind \in RoundKinds => k \in DOMAIN lane[c] /\ lane'[c][k] = lane[c][k]
    BY <1>9 DEF Longer, RoundKinds
  <2>2. work'[c] = work[c] /\ (\A k \in DOMAIN lane[c] : lane[c][k].kind \in RoundKinds => work[c].kind \notin RoundWork \cup {"abandoned"})
    BY <1>1, <1>2 DEF OneTurn
  <2> QED
    BY <1>1, <1>8, <2>1, <2>2 DEF OneTurn
<1>11. LaneRuns(c)'
  <2>1. \A k \in DOMAIN lane[c] : ~Closing(lane[c][k])
    BY <1>1 DEF LaneRuns
  <2>2. \A k \in DOMAIN lane'[c] : Closing(lane'[c][k]) => k = Len(lane'[c])
    BY <1>9, <2>1 DEF Longer
  <2>3. work[c].kind # "abandoned" /\ ~Closing(work[c])
    BY <1>1 DEF LaneRuns
  <2> QED
    BY <1>1, <1>2, <1>3, <1>8, <2>2, <2>3 DEF LaneRuns, Closing
<1>12. OneAwaited(c)' /\ OwedFew(c)' /\ TurnsTold(c)'
  <2>1. work[c].kind # "abandoned"
    BY <1>1 DEF LaneRuns
  <2> QED
    BY <1>1, <1>2, <1>8, <2>1 DEF OneAwaited, OwedFew, TurnsTold, TurnInv
<1>13. TurnCall(c)' /\ connection' = connection
  BY <1>2, <1>10, <1>11, <1>12 DEF TurnCall
<1> QED
  BY <1>5, <1>6, <1>7, <1>13, TurnStep

\* CancelNotFound: the call has ended already, and nothing of it changes.
LEMMA TurnCancelNotFound ==
  ASSUME TurnInv, NEW c \in Calls, CancelNotFound(c)
  PROVE  TurnInv'
<1> USE DEF lanes, host, wire, grants
<1>1. /\ Ended(c) /\ cancelled' = cancelled \cup {c}
      /\ UNCHANGED <<call, lane, work, desk, log, owed, held, adrift, stopped, connection, sweep, received>>
      /\ UNCHANGED <<clientAsked, clientTold, told, late, dropped>>
  BY DEF CancelNotFound
<1>2. Types'
  BY <1>1 DEF TurnInv, Types
<1>3. HeldLine' /\ \A d : HeldOf(d)' = HeldOf(d)
  BY <1>1, HeldSame DEF TurnInv
<1>4. \A d \in Calls : d # c => Same(d)
  BY <1>1, <1>3 DEF Same
<1>5. (Holds(c)' <=> Holds(c)) /\ Ended(c)'
  BY <1>1 DEF Holds, Ended
<1>6. OneTurn(c) /\ LaneRuns(c) /\ OneAwaited(c) /\ TurnsTold(c) /\ OwedFew(c)
  BY DEF TurnInv
<1>7. OneTurn(c)' /\ LaneRuns(c)'
  BY <1>1, <1>5, <1>6 DEF OneTurn, LaneRuns, Closing
<1>8. OneAwaited(c)' /\ TurnsTold(c)' /\ OwedFew(c)'
  BY <1>1, <1>5, <1>6 DEF OneAwaited, TurnsTold, OwedFew
<1>9. TurnCall(c)' /\ connection' = connection
  BY <1>1, <1>7, <1>8 DEF TurnCall
<1> QED
  BY <1>2, <1>3, <1>4, <1>9, TurnStep

\* A frame's events, and how many of them are outcomes.
Owing(f) == Cardinality({k \in DOMAIN f.events : f.events[k] = "outcome"})

\* A frame of the tool is well-formed.
LEMMA FrameIs ==
  ASSUME NEW c \in Calls, NEW f \in Frames[c]
  PROVE  /\ f.events \in Seq(EventKinds) /\ f.kind \in RoundKinds \cup {"result", "ask", "tell"}
         /\ Owing(f) \in Nat /\ Owing(f) <= Len(f.events)
<1>1. f \in InResults \/ f \in InMessages
  BY SeamAssumption
<1>2. f.events \in Seq(EventKinds) /\ f.kind \in RoundKinds \cup {"result", "ask", "tell"}
  <2>1. CASE f \in InResults
    BY <2>1 DEF InResults
  <2>2. CASE f \in InMessages
    <3>1. <<"attempt">> \in Seq(EventKinds) /\ <<"outcome">> \in Seq(EventKinds)
      BY DEF EventKinds
    <3>2. CASE f = [kind |-> "ask", events |-> <<"attempt">>]
      <4>1. f.kind = "ask" /\ f.events = <<"attempt">>
        BY <3>2
      <4> QED
        BY <3>1, <4>1
    <3>3. CASE f = [kind |-> "tell", events |-> <<"outcome">>]
      <4>1. f.kind = "tell" /\ f.events = <<"outcome">>
        BY <3>3
      <4> QED
        BY <3>1, <4>1
    <3> QED
      BY <2>2, <3>2, <3>3 DEF InMessages
  <2> QED
    BY <1>1, <2>1, <2>2
<1>3. Owing(f) \in Nat /\ Owing(f) <= Len(f.events)
  <2>1. Len(f.events) \in Nat /\ DOMAIN f.events = 1..Len(f.events)
    BY <1>2
  <2>2. IsFiniteSet(1..Len(f.events)) /\ Cardinality(1..Len(f.events)) = Len(f.events)
    <3>1. PICK m \in Nat : m = Len(f.events)
      BY <2>1
    <3>2. Cardinality(1..m) = IF 1 > m THEN 0 ELSE m - 1 + 1
      BY FS_Interval
    <3>3. Cardinality(1..m) = m /\ IsFiniteSet(1..m)
      BY <3>2, FS_Interval
    <3> QED
      BY <3>1, <3>3
  <2>3. PICK S : S = {k \in DOMAIN f.events : f.events[k] = "outcome"}
    OBVIOUS
  <2>4. S \subseteq 1..Len(f.events)
    BY <2>1, <2>3
  <2>5. IsFiniteSet(S) /\ Cardinality(S) <= Len(f.events)
    BY <2>2, <2>4, FS_Subset
  <2>6. Cardinality(S) \in Nat
    BY <2>5, FS_CardinalityType
  <2> QED
    BY <2>3, <2>5, <2>6 DEF Owing
<1> QED
  BY <1>2, <1>3

\* A frame that arrives: the call's history grows by its events, and what is owed by its outcomes.
LEMMA Received ==
  ASSUME TurnInv, NEW c \in Calls, NEW f \in Frames[c], Receive(c, f)
  PROVE  /\ received' \in [Calls -> Seq(EventKinds)] /\ owed' \in [Calls -> Nat] /\ OwedFew(c)'
         /\ received'[c] = received[c] \o f.events /\ owed'[c] = owed[c] + Owing(f)
         /\ Len(received'[c]) = Len(received[c]) + Len(f.events) /\ Len(received[c]) \in Nat
         /\ \A n \in DOMAIN received[c] : n \in DOMAIN received'[c] /\ received'[c][n] = received[c][n]
         /\ \A k \in DOMAIN f.events : Len(received[c]) + k \in DOMAIN received'[c] /\ received'[c][Len(received[c]) + k] = f.events[k]
         /\ \A d \in Calls : d # c => received'[d] = received[d] /\ owed'[d] = owed[d]
<1>1. received \in [Calls -> Seq(EventKinds)] /\ owed \in [Calls -> Nat] /\ OwedFew(c)
  BY DEF TurnInv, Types
<1>2. f.events \in Seq(EventKinds) /\ Owing(f) \in Nat /\ Owing(f) <= Len(f.events)
  BY FrameIs
<1>3. PICK old \in Seq(EventKinds) : old = received[c]
  BY <1>1
<1>4. PICK ev \in Seq(EventKinds) : ev = f.events
  BY <1>2
<1>5. PICK new : new = old \o ev
  OBVIOUS
<1>6. /\ new \in Seq(EventKinds) /\ Len(new) = Len(old) + Len(ev) /\ Len(old) \in Nat /\ Len(ev) \in Nat
      /\ DOMAIN old = 1..Len(old) /\ DOMAIN ev = 1..Len(ev) /\ DOMAIN new = 1..(Len(old) + Len(ev))
  BY <1>5
<1>7. /\ \A n \in DOMAIN old : n \in DOMAIN new /\ new[n] = old[n]
      /\ \A k \in DOMAIN ev : Len(old) + k \in DOMAIN new /\ new[Len(old) + k] = ev[k]
  BY <1>5, <1>6
<1>8. received' = [received EXCEPT ![c] = new] /\ owed' = [owed EXCEPT ![c] = @ + Owing(f)] /\ Len(old) + Len(ev) <= MaxEvents
  BY <1>3, <1>4, <1>5 DEF Receive, Owing
<1>9. received'[c] = new /\ owed'[c] = owed[c] + Owing(f) /\ owed'[c] <= Len(new) /\ Len(new) <= MaxEvents
  <2>1. owed[c] \in Nat /\ owed[c] <= Len(old)
    BY <1>1, <1>3 DEF OwedFew
  <2> QED
    BY <1>1, <1>2, <1>4, <1>6, <1>8, <2>1
<1> QED
  BY <1>1, <1>2, <1>3, <1>4, <1>5, <1>6, <1>7, <1>8, <1>9 DEF OwedFew

\* The job of a frame that arrives: its events come after all that came before.
LEMMA ArrivingIs ==
  ASSUME TurnInv, NEW c \in Calls, NEW f \in Frames[c]
  PROVE  /\ Arriving(c, f.events) \in Seq(Events) /\ DOMAIN Arriving(c, f.events) = DOMAIN f.events
         /\ \A k \in DOMAIN f.events : Arriving(c, f.events)[k] = Len(received[c]) + k /\ k \in 1..Len(f.events)
<1>1. f.events \in Seq(EventKinds) /\ received[c] \in Seq(EventKinds)
  BY FrameIs DEF TurnInv, Types
<1>2. Len(received[c]) \in Nat /\ DOMAIN f.events = 1..Len(f.events) /\ Len(f.events) \in Nat
  BY <1>1
<1>3. \A k \in 1..Len(f.events) : Len(received[c]) + k \in Events
  BY <1>2 DEF Events
<1> QED
  BY <1>2, <1>3 DEF Arriving

\* A job is well-formed when its fields are.
LEMMA JobIs ==
  ASSUME NEW kind \in JobKinds, NEW events \in Seq(Events)
  PROVE  Job(kind, events) \in Jobs /\ Job(kind, events).kind = kind /\ Job(kind, events).events = events
BY DEF Job, Jobs

\* A call that ends, its last job queued.
LEMMA EndedTurn ==
  ASSUME TurnInv, NEW c \in Calls, call[c].state = "inflight", NEW job, Longer(c, job), Closing(job),
         call'[c].state = "concluding", ~call'[c].asked, HeldOf(c)' = {},
         work'[c] = work[c] \/ work'[c] = NoWork, connection' = connection
  PROVE  OneTurn(c)' /\ LaneRuns(c)' /\ Ended(c)' /\ ~Ended(c) /\ ~Holds(c)'
<1>1. OneTurn(c) /\ LaneRuns(c) /\ ~Ended(c)
  BY DEF TurnInv, Ended
<1>2. ~Holds(c)' /\ Ended(c)' /\ NoWork.kind = "none"
  BY DEF Holds, HeldOf, Ended, NoWork, Work
<1>3. OneTurn(c)'
  BY <1>1, <1>2 DEF OneTurn, Longer, RoundKinds, Closing, RoundWork
<1>4. \A k \in DOMAIN lane[c] : ~Closing(lane[c][k])
  BY <1>1 DEF LaneRuns
<1>5. \A k \in DOMAIN lane'[c] : Closing(lane'[c][k]) => k = Len(lane'[c])
  BY <1>4 DEF Longer
<1>6. work'[c].kind # "abandoned" /\ ~Closing(work'[c])
  BY <1>1, <1>2 DEF LaneRuns, Closing
<1>7. LaneRuns(c)'
  BY <1>2, <1>5, <1>6 DEF LaneRuns, Closing
<1> QED
  BY <1>1, <1>2, <1>3, <1>7

\* Answer: the tool's answer ends the call, or queues its next round.
LEMMA TurnAnswer ==
  ASSUME TurnInv, NEW c \in Calls, Answer(c)
  PROVE  TurnInv'
<1> USE DEF wire, grants
<1>1. Types /\ OneTurn(c) /\ LaneRuns(c) /\ TurnsTold(c) /\ call[c].state = "inflight" /\ connection = "up" /\ ~Ended(c) /\ call[c].asked
  BY DEF TurnInv, Answer, InFlight, Up, Ended
<1>2. /\ UNCHANGED <<work, desk, log, adrift, stopped, connection, sweep, told, late, dropped>>
  BY DEF Answer
<1>3. PICK f \in Frames[c] :
       /\ Receive(c, f)
       /\ \/ /\ f.kind = "result"
             /\ call' = Detached(c) /\ held' = Without(held, c)
             /\ lane' = Queued(c, <<Job("conclude", Arriving(c, f.events))>>)
             /\ ToldClient(c)
          \/ /\ f.kind \in RoundKinds
             /\ call' = [call EXCEPT ![c].asked = FALSE]
             /\ lane' = Queued(c, <<Job(f.kind, Arriving(c, f.events))>>)
             /\ UNCHANGED <<held, client>>
  BY DEF Answer
<1>4. /\ received' \in [Calls -> Seq(EventKinds)] /\ owed' \in [Calls -> Nat] /\ OwedFew(c)'
      /\ \A d \in Calls : d # c => received'[d] = received[d] /\ owed'[d] = owed[d]
  BY <1>3, Received
<1>5. Arriving(c, f.events) \in Seq(Events)
  BY ArrivingIs
<1>6. ~Holds(c) /\ clientTold[c] < clientAsked[c] /\ c \notin cancelled /\ work[c].kind \notin RoundWork \cup {"abandoned"}
      /\ \A k \in DOMAIN lane[c] : lane[c][k].kind \notin RoundKinds
  BY <1>1 DEF OneTurn, TurnsTold, LaneRuns
<1>7. CASE f.kind = "result"
  <2>1. /\ call' = Detached(c) /\ held' = Without(held, c)
        /\ lane' = Queued(c, <<Job("conclude", Arriving(c, f.events))>>)
        /\ ToldClient(c)
    BY <1>3, <1>7 DEF RoundKinds
  <2>2. /\ call' \in [Calls -> CallRecords] /\ \A d \in Calls : d # c => call'[d] = call[d]
        /\ call'[c].state = "concluding" /\ ~call'[c].asked /\ call'[c].rounds = call[c].rounds
    BY <1>1, <2>1, DetachedIs
  <2>3. PICK job \in Jobs : job = Job("conclude", Arriving(c, f.events)) /\ Closing(job)
    <3>1. "conclude" \in JobKinds
      BY DEF JobKinds
    <3> QED
      BY <1>5, <3>1, JobIs DEF Closing
  <2>4. /\ lane' \in [Calls -> Seq(Jobs)] /\ lane'[c] = Append(lane[c], job)
        /\ \A d \in Calls : d # c => lane'[d] = lane[d]
    BY <1>1, <2>1, <2>3, QueuedOne
  <2>5. /\ clientTold' \in [Calls -> Nat] /\ clientTold'[c] = clientTold[c] + 1 /\ clientAsked' = clientAsked /\ cancelled' = cancelled
        /\ \A d \in Calls : d # c => clientTold'[d] = clientTold[d]
    BY <1>1, <2>1 DEF ToldClient, Types
  <2>6. Types'
    BY <1>1, <1>2, <1>4, <2>2, <2>4, <2>5 DEF Types
  <2>7. HeldLine' /\ HeldOf(c)' = {} /\ \A d : d # c => HeldOf(d)' = HeldOf(d)
    BY <2>1, HeldWithout DEF TurnInv
  <2>8. \A d \in Calls : d # c => Same(d)
    BY <1>2, <1>4, <2>2, <2>4, <2>5, <2>7 DEF Same
  <2>9. Longer(c, job)
    BY <1>1, <2>4, LongerLane
  <2>10. OneTurn(c)' /\ LaneRuns(c)' /\ Ended(c)' /\ ~Holds(c)'
    BY <1>1, <1>2, <2>2, <2>3, <2>7, <2>9, EndedTurn
  <2>11. TurnsTold(c)' /\ OneAwaited(c)'
    <3>1. clientTold[c] \in Nat /\ clientAsked[c] \in Nat
      BY <1>1 DEF Types
    <3>2. OneAwaited(c)'
      BY <1>2 DEF OneAwaited, TurnInv
    <3> QED
      BY <1>2, <1>6, <2>2, <2>5, <2>10, <3>1, <3>2 DEF TurnsTold
  <2>12. TurnCall(c)' /\ connection' = connection
    BY <1>2, <1>4, <2>10, <2>11 DEF TurnCall
  <2> QED
    BY <2>6, <2>7, <2>8, <2>12, TurnStep
<1>8. CASE f.kind \in RoundKinds
  <2>1. /\ call' = [call EXCEPT ![c].asked = FALSE]
        /\ lane' = Queued(c, <<Job(f.kind, Arriving(c, f.events))>>)
        /\ UNCHANGED <<held, clientAsked, clientTold, cancelled>>
    BY <1>3, <1>8 DEF RoundKinds, client
  <2>2. /\ call' \in [Calls -> CallRecords] /\ \A d \in Calls : d # c => call'[d] = call[d]
        /\ call'[c].state = "inflight" /\ ~call'[c].asked /\ call'[c].rounds = call[c].rounds
    BY <1>1, <2>1 DEF Types, CallRecords
  <2>3. PICK job \in Jobs : job = Job(f.kind, Arriving(c, f.events)) /\ ~Closing(job) /\ job.kind \in RoundKinds
    <3>1. f.kind \in JobKinds /\ f.kind \notin {"conclude", "close"}
      BY <1>8 DEF JobKinds, RoundKinds
    <3> QED
      BY <1>5, <1>8, <3>1, JobIs DEF Closing
  <2>4. /\ lane' \in [Calls -> Seq(Jobs)] /\ lane'[c] = Append(lane[c], job)
        /\ \A d \in Calls : d # c => lane'[d] = lane[d]
    BY <1>1, <2>1, <2>3, QueuedOne
  <2>5. Types'
    BY <1>1, <1>2, <1>4, <2>1, <2>2, <2>4 DEF Types
  <2>6. HeldLine' /\ \A d : HeldOf(d)' = HeldOf(d)
    BY <2>1, HeldSame DEF TurnInv
  <2>7. \A d \in Calls : d # c => Same(d)
    BY <1>2, <1>4, <2>1, <2>2, <2>4, <2>6 DEF Same
  <2>8. Longer(c, job)
    BY <1>1, <2>4, LongerLane
  <2>9. ~Holds(c)' /\ ~Ended(c)'
    BY <1>6, <2>2, <2>6 DEF Holds, HeldOf, Ended
  <2>10. OneTurn(c)'
    BY <1>1, <1>2, <1>6, <2>2, <2>8, <2>9 DEF OneTurn, Longer
  <2>11. \A k \in DOMAIN lane'[c] : ~Closing(lane'[c][k])
    <3>1. \A k \in DOMAIN lane[c] : ~Closing(lane[c][k])
      BY <1>1 DEF LaneRuns
    <3> QED
      BY <2>3, <2>8, <3>1 DEF Longer
  <2>12. ~Closing(work'[c]) /\ work'[c].kind # "abandoned" /\ call'[c].rounds <= MaxRounds
    BY <1>1, <1>2, <2>2 DEF LaneRuns
  <2>13. LaneRuns(c)'
    BY <1>1, <1>2, <2>2, <2>9, <2>11, <2>12 DEF LaneRuns, Closing
  <2>14. OneAwaited(c)' /\ TurnsTold(c)'
    BY <1>1, <1>2, <1>6, <2>1, <2>2, <2>9 DEF OneAwaited, TurnsTold, TurnInv
  <2>15. TurnCall(c)' /\ connection' = connection
    BY <1>2, <1>4, <2>10, <2>13, <2>14 DEF TurnCall
  <2> QED
    BY <2>5, <2>6, <2>7, <2>15, TurnStep
<1> QED
  BY <1>3, <1>7, <1>8

\* Message: a job that neither follows a round nor closes is queued.
LEMMA TurnMessage ==
  ASSUME TurnInv, NEW c \in Calls, Message(c)
  PROVE  TurnInv'
<1> USE DEF wire, grants, client
<1>1. Types /\ OneTurn(c) /\ LaneRuns(c) /\ TurnsTold(c) /\ call[c].state = "inflight" /\ connection = "up" /\ ~Ended(c)
  BY DEF TurnInv, Message, InFlight, Up, Ended
<1>2. /\ UNCHANGED <<call, work, desk, log, held, adrift, stopped, connection, sweep, clientAsked, clientTold, cancelled>>
      /\ UNCHANGED <<told, late, dropped>>
  BY DEF Message
<1>3. PICK f \in Frames[c] :
       /\ f.kind \in {"ask", "tell"} /\ Receive(c, f)
       /\ lane' = Queued(c, <<Job(IF f.kind = "ask" THEN "ask" ELSE "seal", Arriving(c, f.events))>>)
  BY DEF Message
<1>4. /\ received' \in [Calls -> Seq(EventKinds)] /\ owed' \in [Calls -> Nat] /\ OwedFew(c)'
      /\ \A d \in Calls : d # c => received'[d] = received[d] /\ owed'[d] = owed[d]
  BY <1>3, Received
<1>5. PICK job \in Jobs : job = Job(IF f.kind = "ask" THEN "ask" ELSE "seal", Arriving(c, f.events)) /\ job.kind \in {"ask", "seal"}
  <2>1. PICK kind \in {"ask", "seal"} : kind = IF f.kind = "ask" THEN "ask" ELSE "seal"
    OBVIOUS
  <2>2. kind \in JobKinds /\ Arriving(c, f.events) \in Seq(Events)
    BY ArrivingIs DEF JobKinds
  <2> QED
    BY <2>1, <2>2, JobIs
<1>6. /\ lane' \in [Calls -> Seq(Jobs)] /\ lane'[c] = Append(lane[c], job)
      /\ \A d \in Calls : d # c => lane'[d] = lane[d]
  BY <1>1, <1>3, <1>5, QueuedOne
<1>7. Types'
  BY <1>1, <1>2, <1>4, <1>6 DEF Types
<1>8. HeldLine' /\ \A d : HeldOf(d)' = HeldOf(d)
  BY <1>2, HeldSame DEF TurnInv
<1>9. \A d \in Calls : d # c => Same(d)
  BY <1>2, <1>4, <1>6, <1>8 DEF Same
<1>10. Longer(c, job)
  BY <1>1, <1>6, LongerLane
<1>11. (Holds(c)' <=> Holds(c)) /\ ~Ended(c)'
  BY <1>1, <1>2, <1>8 DEF Holds, HeldOf, Ended
<1>12. OneTurn(c)'
  BY <1>1, <1>2, <1>5, <1>10, <1>11 DEF OneTurn, Longer, RoundKinds
<1>13. \A k \in DOMAIN lane'[c] : ~Closing(lane'[c][k])
  <2>1. \A k \in DOMAIN lane[c] : ~Closing(lane[c][k])
    BY <1>1 DEF LaneRuns
  <2>2. ~Closing(job)
    BY <1>5 DEF Closing
  <2> QED
    BY <1>10, <2>1, <2>2 DEF Longer
<1>14. ~Closing(work[c])
  BY <1>1 DEF LaneRuns
<1>15. LaneRuns(c)'
  BY <1>1, <1>2, <1>11, <1>13, <1>14 DEF LaneRuns, Closing
<1>16. OneAwaited(c)' /\ TurnsTold(c)'
  BY <1>1, <1>2, <1>11 DEF OneAwaited, TurnsTold, TurnInv
<1>17. TurnCall(c)' /\ connection' = connection
  BY <1>2, <1>4, <1>12, <1>15, <1>16 DEF TurnCall
<1> QED
  BY <1>7, <1>8, <1>9, <1>17, TurnStep

\* A lane without its first job.
Shorter(c) ==
  /\ Len(lane[c]) \in Nat /\ Len(lane'[c]) = Len(lane[c]) - 1
  /\ DOMAIN lane[c] = 1..Len(lane[c]) /\ DOMAIN lane'[c] = 1..(Len(lane[c]) - 1)
  /\ \A k \in DOMAIN lane'[c] : k + 1 \in DOMAIN lane[c] /\ k + 1 > 1 /\ lane'[c][k] = lane[c][k + 1]
  /\ 1 \in DOMAIN lane[c] /\ Head(lane[c]) = lane[c][1] /\ Head(lane[c]) \in Jobs
  /\ \A d \in Calls : d # c => lane'[d] = lane[d]

\* Taking the first job off a lane moves each of the others up by one.
LEMMA ShorterLane ==
  ASSUME Types, NEW c \in Calls, lane[c] # <<>>, lane' = [lane EXCEPT ![c] = Tail(@)]
  PROVE  lane' \in [Calls -> Seq(Jobs)] /\ Shorter(c) /\ lane'[c] = Tail(lane[c])
<1>1. lane \in [Calls -> Seq(Jobs)] /\ lane[c] \in Seq(Jobs)
  BY DEF Types
<1>2. PICK line \in Seq(Jobs) : line = lane[c]
  BY <1>1
<1>3. PICK t : t = Tail(line)
  OBVIOUS
<1>4. /\ t \in Seq(Jobs) /\ Len(t) = Len(line) - 1 /\ Len(line) \in Nat
      /\ DOMAIN line = 1..Len(line) /\ DOMAIN t = 1..(Len(line) - 1)
      /\ \A k \in DOMAIN t : k + 1 \in DOMAIN line /\ k + 1 > 1 /\ t[k] = line[k + 1]
      /\ Head(line) = line[1] /\ Head(line) \in Jobs /\ 1 \in DOMAIN line
  BY <1>2, <1>3, LineTail
<1>5. lane' = [lane EXCEPT ![c] = t]
  BY <1>2, <1>3
<1>6. lane'[c] = t /\ (\A d \in Calls : d # c => lane'[d] = lane[d]) /\ lane' \in [Calls -> Seq(Jobs)]
  BY <1>1, <1>4, <1>5
<1> QED
  BY <1>2, <1>3, <1>4, <1>6 DEF Shorter

\* Work with nothing decided yet is well-formed when its fields are.
LEMMA WorkIs ==
  ASSUME NEW kind \in WorkKinds, NEW events \in Seq(Events)
  PROVE  /\ Work(kind, events) \in Works /\ Work(kind, events).kind = kind /\ Work(kind, events).rest = events
         /\ ~Work(kind, events).busy /\ Work(kind, events).accepted = {}
BY DEF Work, Works

\* An idle lane works on nothing.
LEMMA NoWorkIs == NoWork \in Works /\ NoWork.kind = "none" /\ NoWork.rest = <<>> /\ ~NoWork.busy /\ NoWork.accepted = {}
<1>1. "none" \in WorkKinds /\ <<>> \in Seq(Events)
  BY DEF WorkKinds
<1> QED
  BY <1>1, WorkIs DEF NoWork

\* One lane's work is written.
LEMMA WorkWritten ==
  ASSUME Types, NEW c \in Calls, NEW w \in Works, work' = [work EXCEPT ![c] = w]
  PROVE  work' \in [Calls -> Works] /\ work'[c] = w /\ \A d \in Calls : d # c => work'[d] = work[d]
BY DEF Types

\* While a lane has no work, nothing of it is awaited.
LEMMA IdleAwaits ==
  ASSUME TurnInv, NEW c \in Calls, work[c] = NoWork
  PROVE  \A k \in DOMAIN desk[c] : ~desk[c][k].awaited
BY NoWorkIs DEF TurnInv, OneAwaited

\* TakeJob: the lane takes its next job up.
LEMMA TurnTake ==
  ASSUME TurnInv, NEW c \in Calls, TakeJob(c)
  PROVE  TurnInv'
<1> USE DEF host, wire, client
<1>1. Types /\ OneTurn(c) /\ LaneRuns(c) /\ OneAwaited(c) /\ TurnsTold(c) /\ OwedFew(c) /\ work[c] = NoWork /\ lane[c] # <<>>
  BY DEF TurnInv, TakeJob
<1>2. PICK job \in Jobs : job = Head(lane[c])
  BY <1>1, ShorterLane DEF TakeJob, Shorter
<1>3. /\ UNCHANGED <<desk, log, owed, adrift, stopped, connection, sweep, received, clientAsked, clientTold, cancelled, told, late>>
      /\ lane' = [lane EXCEPT ![c] = Tail(@)]
      /\ SkipRound(c, job) \/ BeginAbandon(c, job) \/ BeginRound(c, job) \/ BeginOther(c, job)
  BY <1>2 DEF TakeJob
<1>4. lane' \in [Calls -> Seq(Jobs)] /\ Shorter(c)
  BY <1>1, <1>3, ShorterLane
<1>5. job = lane[c][1] /\ job.kind \in JobKinds /\ job.events \in Seq(Events) /\ call[c].state \notin {"unsent", "over"}
  BY <1>1, <1>2, <1>4 DEF Shorter, Jobs, LaneRuns
<1>6. \A d \in Calls : d # c => lane'[d] = lane[d]
  BY <1>4 DEF Shorter
<1>7. \A k \in DOMAIN desk[c] : ~desk[c][k].awaited
  BY <1>1, IdleAwaits
<1>8. OneAwaited(c)' /\ OwedFew(c)'
  BY <1>1, <1>3, <1>7 DEF OneAwaited, OwedFew
<1>9. \A k \in DOMAIN lane'[c] : Closing(lane'[c][k]) => k = Len(lane'[c]) /\ Ended(c)
  <2> SUFFICES ASSUME NEW k \in DOMAIN lane'[c], Closing(lane'[c][k]) PROVE k = Len(lane'[c]) /\ Ended(c)
    OBVIOUS
  <2>1. k + 1 \in DOMAIN lane[c] /\ Closing(lane[c][k + 1]) /\ k \in Nat
    BY <1>4 DEF Shorter
  <2>2. k + 1 = Len(lane[c]) /\ Ended(c)
    BY <1>1, <2>1 DEF LaneRuns
  <2> QED
    BY <1>4, <2>1, <2>2 DEF Shorter
<1>10. ASSUME NEW j \in DOMAIN lane'[c], NEW k \in DOMAIN lane'[c], lane'[c][j].kind \in RoundKinds, lane'[c][k].kind \in RoundKinds
       PROVE  j = k
  <2>1. j + 1 = k + 1
    BY <1>1, <1>4, <1>10 DEF OneTurn, Shorter
  <2> QED
    BY <1>4, <2>1 DEF Shorter
<1>11. job.kind \in RoundKinds => \A k \in DOMAIN lane'[c] : lane'[c][k].kind \notin RoundKinds
  <2> SUFFICES ASSUME job.kind \in RoundKinds, NEW k \in DOMAIN lane'[c], lane'[c][k].kind \in RoundKinds PROVE FALSE
    OBVIOUS
  <2>1. k + 1 = 1
    BY <1>1, <1>4, <1>5 DEF OneTurn, Shorter
  <2> QED
    BY <1>4, <2>1 DEF Shorter
<1>12. (\E k \in DOMAIN lane'[c] : lane'[c][k].kind \in RoundKinds) \/ job.kind \in RoundKinds => ~call[c].asked /\ ~Holds(c)
  BY <1>1, <1>4, <1>5 DEF OneTurn, Shorter
<1>13. Closing(job) => Ended(c) /\ lane'[c] = <<>>
  <2> SUFFICES ASSUME Closing(job) PROVE Ended(c) /\ lane'[c] = <<>>
    OBVIOUS
  <2>1. Ended(c) /\ Len(lane[c]) = 1
    BY <1>1, <1>4, <1>5 DEF LaneRuns, Shorter
  <2>2. Len(lane'[c]) = 0 /\ lane'[c] \in Seq(Jobs)
    BY <1>4, <2>1 DEF Shorter
  <2> QED
    BY <2>1, <2>2
<1>14. CASE UNCHANGED <<call, held>> /\ dropped' \in [Calls -> SUBSET Events] /\ (\A d \in Calls : d # c => dropped'[d] = dropped[d])
            /\ \E w \in Works : /\ work' = [work EXCEPT ![c] = w]
                                /\ w = NoWork \/ (w.kind = job.kind /\ w.kind # "stateless" /\ (job.kind \in RoundKinds => ~Ended(c)))
  <2>1. PICK w \in Works : /\ work' = [work EXCEPT ![c] = w]
                           /\ w = NoWork \/ (w.kind = job.kind /\ w.kind # "stateless")
    BY <1>14
  <2>2. work' \in [Calls -> Works] /\ work'[c] = w /\ \A d \in Calls : d # c => work'[d] = work[d]
    BY <1>1, <2>1, WorkWritten
  <2>3. w.kind \in {"none", job.kind} /\ w.kind # "abandoned"
    BY <1>5, <2>1, NoWorkIs DEF JobKinds, RoundKinds
  <2>4. Types'
    BY <1>1, <1>3, <1>4, <1>14, <2>2 DEF Types
  <2>5. HeldLine' /\ (\A d : HeldOf(d)' = HeldOf(d)) /\ (Holds(c)' <=> Holds(c)) /\ (Ended(c)' <=> Ended(c))
    BY <1>14, HeldSame DEF TurnInv, Holds, HeldOf, Ended
  <2>6. \A d \in Calls : d # c => Same(d)
    BY <1>3, <1>6, <1>14, <2>2, <2>5 DEF Same
  <2>7. OneTurn(c)'
    <3>1. w.kind \in RoundWork => job.kind \in RoundKinds
      BY <1>5, <2>3 DEF RoundWork, RoundKinds, JobKinds
    <3>2. job.kind \notin RoundKinds => w.kind \notin RoundWork \cup {"abandoned"}
      BY <2>3, <3>1
    <3> QED
      BY <1>1, <1>10, <1>11, <1>12, <1>14, <2>2, <2>3, <2>5, <3>1, <3>2 DEF OneTurn
  <2>8. LaneRuns(c)'
    <3>1. Closing(w) => Ended(c) /\ lane'[c] = <<>>
      BY <1>13, <2>3 DEF Closing
    <3> QED
      BY <1>1, <1>3, <1>5, <1>9, <1>14, <2>2, <2>3, <2>5, <3>1 DEF LaneRuns
  <2>9. TurnsTold(c)'
    BY <1>1, <1>3, <1>14, <2>2, <2>3, <2>5 DEF TurnsTold
  <2>10. TurnCall(c)' /\ connection' = connection
    BY <1>3, <1>8, <2>7, <2>8, <2>9 DEF TurnCall
  <2> QED
    BY <2>4, <2>5, <2>6, <2>10, TurnStep
<1>15. CASE SkipRound(c, job)
  <2>1. work' = [work EXCEPT ![c] = NoWork] /\ NoWork \in Works
    BY <1>1, <1>15, NoWorkIs DEF SkipRound, Types
  <2>2. Range(job.events) \subseteq Events
    BY <1>5 DEF Range
  <2>3. dropped' \in [Calls -> SUBSET Events] /\ \A d \in Calls : d # c => dropped'[d] = dropped[d]
    BY <1>1, <1>15, <2>2 DEF SkipRound, Types
  <2> QED
    BY <1>14, <1>15, <2>1, <2>3 DEF SkipRound
<1>16. CASE BeginRound(c, job) \/ BeginOther(c, job)
  <2>1. job.kind \in WorkKinds /\ job.kind # "stateless"
    BY <1>16 DEF BeginRound, BeginOther, WorkKinds
  <2>2. PICK w \in Works : w = Work(job.kind, job.events) /\ w.kind = job.kind
    <3>1. Work(job.kind, job.events) \in Works /\ Work(job.kind, job.events).kind = job.kind
      BY <1>5, <2>1, WorkIs
    <3> QED
      BY <3>1
  <2>3. work' = [work EXCEPT ![c] = w] /\ UNCHANGED <<held, dropped>>
    BY <1>16, <2>2 DEF BeginRound, BeginOther
  <2>4. dropped' \in [Calls -> SUBSET Events] /\ \A d \in Calls : d # c => dropped'[d] = dropped[d]
    BY <1>1, <2>3 DEF Types
  <2>5. CASE BeginOther(c, job)
    <3>1. call' = call /\ job.kind \notin RoundKinds
      BY <2>5 DEF BeginOther, RoundKinds
    <3> QED
      BY <1>14, <2>1, <2>2, <2>3, <2>4, <3>1
  <2>6. CASE BeginRound(c, job)
    <3>1. ~Ended(c) /\ call[c].rounds < MaxRounds /\ call' = [call EXCEPT ![c].rounds = @ + 1] /\ job.kind \in {"round", "input"}
      BY <2>6 DEF BeginRound
    <3>2. /\ call' \in [Calls -> CallRecords] /\ \A d \in Calls : d # c => call'[d] = call[d]
          /\ call'[c].state = call[c].state /\ call'[c].asked = call[c].asked /\ call'[c].rounds <= MaxRounds
      <4>1. call[c].rounds + 1 \in 0..(MaxRounds + 1) /\ call[c].rounds + 1 <= MaxRounds /\ call[c] \in CallRecords
        BY <1>1, <3>1, CallFields, SeamAssumption
      <4>2. call \in [Calls -> CallRecords] /\ call' = [call EXCEPT ![c].rounds = @ + 1]
        BY <1>1, <3>1 DEF Types
      <4> QED
        BY <4>1, <4>2 DEF CallRecords
    <3>3. work' \in [Calls -> Works] /\ work'[c] = w /\ \A d \in Calls : d # c => work'[d] = work[d]
      BY <1>1, <2>3, WorkWritten
    <3>4. Types'
      BY <1>1, <1>3, <1>4, <2>4, <3>2, <3>3 DEF Types
    <3>5. HeldLine' /\ (\A d : HeldOf(d)' = HeldOf(d)) /\ (Holds(c)' <=> Holds(c)) /\ ~Ended(c)'
      BY <2>3, <3>1, <3>2, HeldSame DEF TurnInv, Holds, HeldOf, Ended
    <3>6. \A d \in Calls : d # c => Same(d)
      BY <1>3, <1>6, <2>4, <3>2, <3>3, <3>5 DEF Same
    <3>7. w.kind \in {"round", "input"} /\ ~Closing(w) /\ job.kind \in RoundKinds
      BY <2>2, <3>1 DEF Closing, RoundKinds
    <3>8. OneTurn(c)'
      BY <1>10, <1>11, <1>12, <3>2, <3>3, <3>5, <3>7 DEF OneTurn
    <3>9. LaneRuns(c)'
      BY <1>1, <1>3, <1>5, <1>9, <3>1, <3>2, <3>3, <3>5, <3>7 DEF LaneRuns
    <3>10. TurnsTold(c)'
      <4>1. Ended(c)' <=> Ended(c)
        BY <3>1, <3>5
      <4> QED
        BY <1>1, <1>3, <3>2, <3>3, <3>5, <3>7, <4>1 DEF TurnsTold
    <3>11. TurnCall(c)' /\ connection' = connection
      BY <1>3, <1>8, <3>8, <3>9, <3>10 DEF TurnCall
    <3> QED
      BY <3>4, <3>5, <3>6, <3>11, TurnStep
  <2> QED
    BY <1>16, <2>5, <2>6
<1>17. CASE BeginAbandon(c, job)
  <2>1. /\ job.kind \in RoundKinds /\ ~Ended(c) /\ held' = Without(held, c) /\ UNCHANGED dropped
        /\ call' = [Detached(c) EXCEPT ![c].rounds = @ + 1]
        /\ work' = [work EXCEPT ![c] = Work("abandoned", job.events)]
    BY <1>17 DEF BeginAbandon
  <2>2. PICK D \in [Calls -> CallRecords] : /\ D = Detached(c) /\ D[c].state = "concluding" /\ ~D[c].asked /\ D[c].rounds = call[c].rounds
                                            /\ \A d \in Calls : d # c => D[d] = call[d]
    BY <1>1, DetachedIs
  <2>3. call[c].rounds <= MaxRounds /\ call[c].rounds \in Nat /\ call[c].state = "inflight"
    BY <1>1, <1>5, <2>1, CallFields DEF LaneRuns, Ended, CallStates
  <2>4. /\ call' \in [Calls -> CallRecords] /\ \A d \in Calls : d # c => call'[d] = call[d]
        /\ call'[c].state = "concluding" /\ ~call'[c].asked
    <3>1. call' = [D EXCEPT ![c].rounds = @ + 1]
      BY <2>1, <2>2
    <3>2. D[c].rounds + 1 \in 0..(MaxRounds + 1)
      BY <2>2, <2>3, SeamAssumption
    <3> QED
      BY <2>2, <3>1, <3>2 DEF CallRecords
  <2>5. PICK w \in Works : w = Work("abandoned", job.events) /\ w.kind = "abandoned"
    <3>1. Work("abandoned", job.events) \in Works /\ Work("abandoned", job.events).kind = "abandoned"
      BY <1>5, WorkIs DEF WorkKinds
    <3> QED
      BY <3>1
  <2>6. work' \in [Calls -> Works] /\ work'[c] = w /\ \A d \in Calls : d # c => work'[d] = work[d]
    BY <1>1, <2>1, <2>5, WorkWritten
  <2>7. Types'
    BY <1>1, <1>3, <1>4, <2>1, <2>4, <2>6 DEF Types
  <2>8. HeldLine' /\ HeldOf(c)' = {} /\ \A d : d # c => HeldOf(d)' = HeldOf(d)
    BY <2>1, HeldWithout DEF TurnInv
  <2>9. \A d \in Calls : d # c => Same(d)
    BY <1>3, <1>6, <2>1, <2>4, <2>6, <2>8 DEF Same
  <2>10. ~Holds(c)' /\ Ended(c)' /\ ~Holds(c)
    BY <1>12, <2>1, <2>4, <2>8 DEF Holds, HeldOf, Ended
  <2>11. OneTurn(c)'
    BY <1>11, <2>1, <2>4, <2>5, <2>6, <2>10 DEF OneTurn, RoundWork
  <2>12. \A k \in DOMAIN lane'[c] : ~Closing(lane'[c][k])
    BY <1>9, <2>1
  <2>13. LaneRuns(c)'
    BY <1>1, <2>4, <2>5, <2>6, <2>10, <2>12 DEF LaneRuns, Closing
  <2>14. TurnsTold(c)'
    BY <1>1, <1>3, <2>1, <2>3, <2>4, <2>10 DEF TurnsTold
  <2>15. TurnCall(c)' /\ connection' = connection
    BY <1>3, <1>8, <2>11, <2>13, <2>14 DEF TurnCall
  <2> QED
    BY <2>7, <2>8, <2>9, <2>15, TurnStep
<1> QED
  BY <1>3, <1>15, <1>16, <1>17

\* A line with one more element, and one without its first.
Extends(t, line, e) ==
  /\ Len(line) \in Nat /\ DOMAIN line = 1..Len(line)
  /\ DOMAIN t = 1..(Len(line) + 1) /\ Len(t) = Len(line) + 1
  /\ \A k \in DOMAIN line : k \in DOMAIN t /\ t[k] = line[k] /\ k # Len(line) + 1 /\ k < Len(line) + 1
  /\ \A k \in DOMAIN t : k \in DOMAIN line \/ k = Len(line) + 1
  /\ Len(line) + 1 \in DOMAIN t /\ t[Len(line) + 1] = e
  /\ Range(t) = Range(line) \cup {e}

Shortens(t, line) ==
  /\ Len(line) \in Nat /\ Len(line) > 0 /\ Len(t) = Len(line) - 1
  /\ DOMAIN line = 1..Len(line) /\ DOMAIN t = 1..(Len(line) - 1)
  /\ \A k \in DOMAIN t : k \in Nat /\ k + 1 \in DOMAIN line /\ k + 1 > 1 /\ t[k] = line[k + 1]
  /\ 1 \in DOMAIN line /\ Head(line) = line[1]
  /\ Range(line) = {Head(line)} \cup Range(t)

\* A line that is extended keeps what it had, in place.
LEMMA ExtendsIs ==
  ASSUME NEW E, NEW line \in Seq(E), NEW e \in E
  PROVE  Extends(Append(line, e), line, e) /\ Append(line, e) \in Seq(E)
<1>1. PICK t : t = Append(line, e)
  OBVIOUS
<1>2. /\ t \in Seq(E) /\ Len(t) = Len(line) + 1 /\ Len(line) \in Nat
      /\ DOMAIN line = 1..Len(line) /\ DOMAIN t = 1..(Len(line) + 1)
      /\ \A k \in DOMAIN line : t[k] = line[k]
      /\ t[Len(line) + 1] = e /\ Range(t) = Range(line) \cup {e}
  BY <1>1, LineAppend
<1>3. /\ \A k \in DOMAIN line : k \in DOMAIN t /\ k # Len(line) + 1 /\ k < Len(line) + 1
      /\ \A k \in DOMAIN t : k \in DOMAIN line \/ k = Len(line) + 1
      /\ Len(line) + 1 \in DOMAIN t
  BY <1>2
<1> QED
  BY <1>1, <1>2, <1>3 DEF Extends

\* A line that is shortened loses its first element only.
LEMMA ShortensIs ==
  ASSUME NEW E, NEW line \in Seq(E), line # <<>>
  PROVE  Shortens(Tail(line), line) /\ Tail(line) \in Seq(E) /\ Head(line) \in E
<1>1. PICK t : t = Tail(line)
  OBVIOUS
<1>2. /\ t \in Seq(E) /\ Len(t) = Len(line) - 1 /\ Len(line) \in Nat /\ Len(line) > 0
      /\ DOMAIN line = 1..Len(line) /\ DOMAIN t = 1..(Len(line) - 1)
      /\ \A k \in DOMAIN t : k + 1 \in DOMAIN line /\ k + 1 > 1 /\ t[k] = line[k + 1]
      /\ Head(line) = line[1] /\ Head(line) \in E /\ 1 \in DOMAIN line
      /\ Range(line) = {Head(line)} \cup Range(t)
  BY <1>1, LineTail
<1>3. \A k \in DOMAIN t : k \in Nat
  BY <1>2
<1> QED
  BY <1>1, <1>2, <1>3 DEF Shortens

\* An event is handed over: passed over, or put in the endpoint's queue.
LEMMA HandedOver ==
  ASSUME TurnInv, NEW c \in Calls, HandOver(c)
  PROVE  LET n == Head(work[c].rest)
             asAttempt == IsAttempt(c, n) /\ work[c].kind # "conclude"
             pass == asAttempt /\ work[c].kind = "abandoned"
             e == Entry(IF asAttempt THEN "attempt" ELSE "outcome", n)
         IN  /\ n \in Events /\ work[c].rest # <<>> /\ work[c].rest \in Seq(Events) /\ ~work[c].busy
             /\ ~(stopped /\ work[c].kind \in Bounded)
             /\ work' \in [Calls -> Works] /\ \A d \in Calls : d # c => work'[d] = work[d]
             /\ work'[c].kind = work[c].kind /\ work'[c].rest = Tail(work[c].rest) /\ work'[c].accepted = work[c].accepted
             /\ work'[c].busy <=> ~pass
             /\ pass => desk' = desk /\ dropped'[c] = dropped[c] \cup {n}
             /\ ~pass => desk'[c] = Append(desk[c], e) /\ dropped'[c] = dropped[c]
             /\ e \in Entries /\ e.n = n /\ e.awaited /\ e.what = IF asAttempt THEN "attempt" ELSE "outcome"
             /\ desk' \in [Calls -> Seq(Entries)] /\ dropped' \in [Calls -> SUBSET Events]
             /\ \A d \in Calls : d # c => desk'[d] = desk[d] /\ dropped'[d] = dropped[d]
             /\ UNCHANGED <<call, lane, log, owed, adrift, stopped, connection, sweep, held, received, clientAsked, clientTold>>
             /\ UNCHANGED <<cancelled, told, late>>
<1> DEFINE n == Head(work[c].rest)
           asAttempt == IsAttempt(c, n) /\ work[c].kind # "conclude"
           pass == asAttempt /\ work[c].kind = "abandoned"
           e == Entry(IF asAttempt THEN "attempt" ELSE "outcome", n)
<1>1. Types /\ work \in [Calls -> Works] /\ desk \in [Calls -> Seq(Entries)] /\ dropped \in [Calls -> SUBSET Events]
  BY DEF TurnInv, Types
<1>2. /\ work[c].rest # <<>> /\ ~work[c].busy /\ ~(stopped /\ work[c].kind \in Bounded)
      /\ work' = [work EXCEPT ![c].rest = Tail(@), ![c].busy = ~pass]
      /\ IF pass THEN dropped' = [dropped EXCEPT ![c] = @ \cup {n}] /\ UNCHANGED desk
                 ELSE desk' = [desk EXCEPT ![c] = Append(@, e)] /\ UNCHANGED dropped
      /\ UNCHANGED <<call, lane, log, owed, adrift, stopped, connection, sweep, held, received, clientAsked, clientTold>>
      /\ UNCHANGED <<cancelled, told, late>>
  BY DEF HandOver, wire, client
<1>3. PICK rest \in Seq(Events) : rest = work[c].rest
  BY <1>1 DEF Works
<1>4. n \in Events /\ Tail(rest) \in Seq(Events)
  BY <1>2, <1>3, LineTail
<1>5. /\ work' \in [Calls -> Works] /\ \A d \in Calls : d # c => work'[d] = work[d]
      /\ work'[c].kind = work[c].kind /\ work'[c].rest = Tail(work[c].rest) /\ work'[c].accepted = work[c].accepted
      /\ work'[c].busy <=> ~pass
  <2>1. PICK b \in BOOLEAN : b = ~pass
    OBVIOUS
  <2> HIDE DEF pass
  <2>2. PICK t \in Seq(Events) : t = Tail(work[c].rest)
    BY <1>3, <1>4
  <2>3. PICK r \in Works : r = [work[c] EXCEPT !.rest = t]
    BY <1>1 DEF Works
  <2>4. r.rest = t /\ r.kind = work[c].kind /\ r.accepted = work[c].accepted
    BY <1>1, <2>3 DEF Works
  <2>5. PICK q \in Works : q = [r EXCEPT !.busy = b]
    BY DEF Works
  <2>6. q.rest = r.rest /\ q.kind = r.kind /\ q.accepted = r.accepted /\ q.busy = b
    BY <2>5 DEF Works
  <2>7. work' = [work EXCEPT ![c] = q]
    BY <1>1, <1>2, <2>1, <2>2, <2>3, <2>5
  <2> QED
    BY <1>1, <2>1, <2>2, <2>4, <2>6, <2>7
<1>6. e \in Entries /\ e.n = n /\ e.awaited /\ e.what = IF asAttempt THEN "attempt" ELSE "outcome"
  BY <1>4 DEF Entry, Entries, Events
<1> HIDE DEF n, e, asAttempt
<1>7. CASE pass
  <2>1. dropped' = [dropped EXCEPT ![c] = @ \cup {n}] /\ desk' = desk
    BY <1>2, <1>7
  <2>2. dropped'[c] = dropped[c] \cup {n} /\ dropped' \in [Calls -> SUBSET Events] /\ \A d \in Calls : d # c => dropped'[d] = dropped[d]
    BY <1>1, <1>4, <2>1
  <2> HIDE DEF pass
  <2> QED
    BY <1>1, <1>2, <1>3, <1>4, <1>5, <1>6, <1>7, <2>1, <2>2 DEF n, e, asAttempt, pass
<1>8. CASE ~pass
  <2>1. desk' = [desk EXCEPT ![c] = Append(@, e)] /\ dropped' = dropped
    BY <1>2, <1>8
  <2>2. Append(desk[c], e) \in Seq(Entries)
    BY <1>1, <1>6, LineAppend
  <2>3. desk'[c] = Append(desk[c], e) /\ desk' \in [Calls -> Seq(Entries)] /\ \A d \in Calls : d # c => desk'[d] = desk[d]
    BY <1>1, <2>1, <2>2
  <2> HIDE DEF pass
  <2> QED
    BY <1>1, <1>2, <1>3, <1>4, <1>5, <1>6, <1>8, <2>1, <2>3 DEF n, e, asAttempt, pass
<1> QED
  BY <1>7, <1>8

\* What the lane's work is busy with is one entry.
LEMMA AwaitedOne ==
  ASSUME TurnInv, NEW c \in Calls, ~work[c].busy, NEW e \in Entries, desk'[c] = Append(desk[c], e), work'[c].busy,
         e.what = "close" => work'[c].kind = "close", e.what = "close" <=> e.n = 0, work'[c].kind = work[c].kind
  PROVE  OneAwaited(c)'
<1>1. desk[c] \in Seq(Entries) /\ OneAwaited(c)
  BY DEF TurnInv, Types
<1>2. PICK t : t = desk'[c]
  OBVIOUS
<1>3. Extends(t, desk[c], e)
  BY <1>1, <1>2, ExtendsIs
<1>4. \A k \in DOMAIN desk[c] : ~desk[c][k].awaited
  BY <1>1 DEF OneAwaited
<1>5. \A k \in DOMAIN t : t[k].awaited => k = Len(desk[c]) + 1 /\ t[k] = e
  BY <1>3, <1>4 DEF Extends
<1>7. \A k \in DOMAIN t : t[k].what = "close" <=> t[k].n = 0
  BY <1>1, <1>3 DEF Extends, OneAwaited
<1>6. \A j, k \in DOMAIN t : t[j].awaited /\ t[k].awaited => j = k
  BY <1>5
<1> QED
  BY <1>2, <1>5, <1>6, <1>7 DEF OneAwaited

\* A lane's step that leaves its call, its jobs, its rounds and its client alone.
LEMMA TurnLaneOnly ==
  ASSUME TurnInv, NEW c \in Calls, UNCHANGED <<call, lane, held, connection, cancelled, clientTold, clientAsked>>,
         work'[c].kind = work[c].kind, call[c].state \notin {"unsent", "over"}
  PROVE  OneTurn(c)' /\ LaneRuns(c)' /\ TurnsTold(c)'
<1>1. (Holds(c)' <=> Holds(c)) /\ (Ended(c)' <=> Ended(c)) /\ OneTurn(c) /\ LaneRuns(c) /\ TurnsTold(c)
  BY DEF TurnInv, Holds, Ended
<1>2. OneTurn(c)'
  BY <1>1 DEF OneTurn
<1>3. LaneRuns(c)'
  BY <1>1 DEF LaneRuns, Closing
<1>4. TurnsTold(c)'
  BY <1>1 DEF TurnsTold
<1> QED
  BY <1>2, <1>3, <1>4

\* HandOver: an event of the work goes to the endpoint, or is passed over.
LEMMA TurnHandOver ==
  ASSUME TurnInv, NEW c \in Calls, HandOver(c)
  PROVE  TurnInv'
<1> DEFINE n == Head(work[c].rest)
           asAttempt == IsAttempt(c, n) /\ work[c].kind # "conclude"
           pass == asAttempt /\ work[c].kind = "abandoned"
           e == Entry(IF asAttempt THEN "attempt" ELSE "outcome", n)
<1>1. /\ work[c].rest # <<>> /\ ~work[c].busy
      /\ work' \in [Calls -> Works] /\ \A d \in Calls : d # c => work'[d] = work[d]
      /\ work'[c].kind = work[c].kind
      /\ work'[c].busy <=> ~pass
      /\ pass => desk' = desk
      /\ ~pass => desk'[c] = Append(desk[c], e)
      /\ e \in Entries /\ e.what # "close" /\ e.n # 0
      /\ desk' \in [Calls -> Seq(Entries)] /\ dropped' \in [Calls -> SUBSET Events]
      /\ \A d \in Calls : d # c => desk'[d] = desk[d] /\ dropped'[d] = dropped[d]
      /\ UNCHANGED <<call, lane, log, owed, adrift, stopped, connection, sweep, held, received, clientAsked, clientTold>>
      /\ UNCHANGED <<cancelled, told, late>>
  BY HandedOver DEF Events
<1> HIDE DEF e, pass
<1>2. Types /\ call[c].state \notin {"unsent", "over"} /\ OneAwaited(c) /\ OwedFew(c)
  BY <1>1, NoWorkIs DEF TurnInv, LaneRuns
<1>3. Types'
  BY <1>1, <1>2 DEF Types
<1>4. HeldLine' /\ \A d : HeldOf(d)' = HeldOf(d)
  BY <1>1, HeldSame DEF TurnInv
<1>5. \A d \in Calls : d # c => Same(d)
  BY <1>1, <1>4 DEF Same
<1>6. OneTurn(c)' /\ LaneRuns(c)' /\ TurnsTold(c)' /\ OwedFew(c)'
  BY <1>1, <1>2, TurnLaneOnly DEF OwedFew
<1>7. OneAwaited(c)'
  <2>1. CASE pass
    BY <1>1, <1>2, <2>1 DEF OneAwaited
  <2>2. CASE ~pass
    BY <1>1, <2>2, AwaitedOne
  <2> QED
    BY <2>1, <2>2
<1>8. TurnCall(c)' /\ connection' = connection
  BY <1>1, <1>6, <1>7 DEF TurnCall
<1> QED
  BY <1>3, <1>4, <1>5, <1>8, TurnStep

\* JobDone: the lane is free again, or closes.
LEMMA TurnJobDone ==
  ASSUME TurnInv, NEW c \in Calls, JobDone(c)
  PROVE  TurnInv'
<1> USE DEF lanes, host, wire, client, grants
<1>1. /\ Types /\ OneTurn(c) /\ LaneRuns(c) /\ TurnsTold(c) /\ OwedFew(c) /\ OneAwaited(c)
      /\ work[c].kind \in {"seal", "conclude"} /\ ~work[c].busy
      /\ UNCHANGED <<call, lane, desk, log, owed, held, adrift, stopped, connection, sweep, received>>
      /\ UNCHANGED <<clientAsked, clientTold, cancelled, told, late, dropped>>
  BY DEF TurnInv, JobDone
<1>2. PICK w \in Works : /\ work' = [work EXCEPT ![c] = w]
                         /\ w.kind = IF work[c].kind = "conclude" THEN "close" ELSE "none"
  <2>1. Work("close", <<>>) \in Works /\ Work("close", <<>>).kind = "close"
    <3>1. "close" \in WorkKinds /\ <<>> \in Seq(Events)
      BY DEF WorkKinds
    <3> QED
      BY <3>1, WorkIs
  <2>2. JobDone(c) => work' = [work EXCEPT ![c] = IF work[c].kind = "conclude" THEN Work("close", <<>>) ELSE NoWork]
    BY DEF JobDone
  <2>3. CASE work[c].kind = "conclude"
    BY <2>1, <2>2, <2>3
  <2>4. CASE work[c].kind # "conclude"
    BY <2>2, <2>4, NoWorkIs
  <2> QED
    BY <2>3, <2>4
<1>3. work' \in [Calls -> Works] /\ work'[c] = w /\ \A d \in Calls : d # c => work'[d] = work[d]
  BY <1>1, <1>2, WorkWritten
<1>4. Types'
  BY <1>1, <1>3 DEF Types
<1>5. HeldLine' /\ (\A d : HeldOf(d)' = HeldOf(d)) /\ (Holds(c)' <=> Holds(c)) /\ (Ended(c)' <=> Ended(c))
  BY <1>1, HeldSame DEF TurnInv, Holds, Ended
<1>6. \A d \in Calls : d # c => Same(d)
  BY <1>1, <1>3, <1>5 DEF Same
<1>7. call[c].state \notin {"unsent", "over"}
  BY <1>1, NoWorkIs DEF LaneRuns
<1>8. OneTurn(c)'
  BY <1>1, <1>2, <1>3, <1>5 DEF OneTurn, RoundWork
<1>9. LaneRuns(c)'
  <2>1. w.kind # "abandoned" /\ (Closing(w) => Closing(work[c]))
    BY <1>1, <1>2 DEF Closing
  <2> QED
    BY <1>1, <1>3, <1>5, <1>7, <2>1 DEF LaneRuns
<1>10. OneAwaited(c)'
  BY <1>1 DEF OneAwaited
<1>11. TurnsTold(c)'
  BY <1>1, <1>2, <1>3, <1>5 DEF TurnsTold
<1>12. TurnCall(c)' /\ connection' = connection
  BY <1>1, <1>8, <1>9, <1>10, <1>11 DEF TurnCall, OwedFew
<1> QED
  BY <1>4, <1>5, <1>6, <1>12, TurnStep

\* The session's close is put in the endpoint's queue.
LEMMA ClosingBegun ==
  ASSUME TurnInv, NEW c \in Calls, BeginClose(c)
  PROVE  /\ work[c].kind = "close" /\ ~work[c].busy
         /\ work' \in [Calls -> Works] /\ \A d \in Calls : d # c => work'[d] = work[d]
         /\ work'[c].kind = work[c].kind /\ work'[c].rest = work[c].rest /\ work'[c].accepted = work[c].accepted /\ work'[c].busy
         /\ desk'[c] = Append(desk[c], Entry("close", 0)) /\ desk' \in [Calls -> Seq(Entries)]
         /\ \A d \in Calls : d # c => desk'[d] = desk[d]
         /\ Entry("close", 0) \in Entries /\ Entry("close", 0).what = "close" /\ Entry("close", 0).n = 0 /\ Entry("close", 0).awaited
         /\ UNCHANGED <<call, lane, log, owed, held, adrift, stopped, connection, sweep, received>>
         /\ UNCHANGED <<clientAsked, clientTold, cancelled, told, late, dropped>>
<1>1. work \in [Calls -> Works] /\ desk \in [Calls -> Seq(Entries)]
  BY DEF TurnInv, Types
<1>2. /\ work[c].kind = "close" /\ ~work[c].busy
      /\ work' = [work EXCEPT ![c].busy = TRUE] /\ desk' = [desk EXCEPT ![c] = Append(@, Entry("close", 0))]
      /\ UNCHANGED <<call, lane, log, owed, held, adrift, stopped, connection, sweep, received>>
      /\ UNCHANGED <<clientAsked, clientTold, cancelled, told, late, dropped>>
  BY DEF BeginClose, wire, client, grants
<1>3. /\ work' \in [Calls -> Works] /\ \A d \in Calls : d # c => work'[d] = work[d]
      /\ work'[c].kind = work[c].kind /\ work'[c].rest = work[c].rest /\ work'[c].accepted = work[c].accepted /\ work'[c].busy
  BY <1>1, <1>2 DEF Works
<1>4. Entry("close", 0) \in Entries /\ Entry("close", 0).what = "close" /\ Entry("close", 0).n = 0 /\ Entry("close", 0).awaited
  BY DEF Entry, Entries
<1>5. Append(desk[c], Entry("close", 0)) \in Seq(Entries)
  BY <1>1, <1>4, LineAppend
<1>6. desk'[c] = Append(desk[c], Entry("close", 0)) /\ desk' \in [Calls -> Seq(Entries)] /\ \A d \in Calls : d # c => desk'[d] = desk[d]
  BY <1>1, <1>2, <1>5
<1> QED
  BY <1>2, <1>3, <1>4, <1>6

\* BeginClose: the session is handed to the endpoint to close.
LEMMA TurnBeginClose ==
  ASSUME TurnInv, NEW c \in Calls, BeginClose(c)
  PROVE  TurnInv'
<1>1. PICK e \in Entries :
         /\ e.what = "close" /\ e.n = 0 /\ work[c].kind = "close" /\ ~work[c].busy
         /\ work' \in [Calls -> Works] /\ \A d \in Calls : d # c => work'[d] = work[d]
         /\ work'[c].kind = work[c].kind /\ work'[c].busy
         /\ desk'[c] = Append(desk[c], e) /\ desk' \in [Calls -> Seq(Entries)]
         /\ \A d \in Calls : d # c => desk'[d] = desk[d]
         /\ UNCHANGED <<call, lane, log, owed, held, adrift, stopped, connection, sweep, received>>
         /\ UNCHANGED <<clientAsked, clientTold, cancelled, told, late, dropped>>
  BY ClosingBegun
<1>2. Types /\ OwedFew(c) /\ call[c].state \notin {"unsent", "over"}
  BY <1>1, NoWorkIs DEF TurnInv, LaneRuns
<1>3. Types'
  BY <1>1, <1>2 DEF Types
<1>4. HeldLine' /\ \A d : HeldOf(d)' = HeldOf(d)
  BY <1>1, HeldSame DEF TurnInv
<1>5. \A d \in Calls : d # c => Same(d)
  BY <1>1, <1>4 DEF Same
<1>6. OneTurn(c)' /\ LaneRuns(c)' /\ TurnsTold(c)'
  BY <1>1, <1>2, TurnLaneOnly
<1>7. OneAwaited(c)'
  BY <1>1, AwaitedOne
<1>8. TurnCall(c)' /\ connection' = connection
  BY <1>1, <1>2, <1>6, <1>7 DEF TurnCall, OwedFew
<1> QED
  BY <1>3, <1>4, <1>5, <1>8, TurnStep

\* The lane hears of an entry it waits for.
HeardAs(c, e, accepted) ==
  IF e.awaited THEN /\ ~work'[c].busy /\ work'[c].kind = work[c].kind /\ work'[c].rest = work[c].rest
                    /\ work'[c].accepted = work[c].accepted \cup accepted
               ELSE work'[c] = work[c]

\* What the endpoint may decide of an entry.
DecidedAs(c, e) ==
  \/ /\ e.what = "attempt" /\ SessionOpen(c) /\ log'[c] = Append(log[c], e.n) /\ HeardAs(c, e, {e.n})
     /\ owed'[c] = owed[c] /\ call' = call
  \/ e.what = "attempt" /\ log'[c] = log[c] /\ HeardAs(c, e, {}) /\ owed'[c] = owed[c] /\ call' = call
  \/ /\ e.what = "outcome" /\ HeardAs(c, e, {}) /\ owed'[c] = (IF owed[c] > 0 THEN owed[c] - 1 ELSE 0) /\ call' = call
     /\ log'[c] = IF IsAttempt(c, e.n) THEN log[c] ELSE Append(log[c], e.n)
  \/ /\ e.what = "close" /\ owed'[c] = owed[c]
     /\ log'[c] = IF SessionOpen(c) THEN Append(log[c], 0) ELSE log[c]
     /\ IF e.awaited THEN /\ work'[c] = NoWork /\ call'[c].state = "over"
                          /\ call'[c].asked = call[c].asked /\ call'[c].rounds = call[c].rounds
                     ELSE work'[c] = work[c] /\ call' = call

\* What the work is once it has heard a decision.
LEMMA HeardIs ==
  ASSUME Types, NEW c \in Calls, NEW e \in Entries, NEW accepted \in SUBSET Events,
         work' = IF e.awaited THEN [work EXCEPT ![c].busy = FALSE, ![c].accepted = @ \cup accepted] ELSE work
  PROVE  HeardAs(c, e, accepted) /\ work' \in [Calls -> Works] /\ \A d \in Calls : d # c => work'[d] = work[d]
<1>1. work \in [Calls -> Works] /\ e.awaited \in BOOLEAN
  BY DEF Types, Entries
<1>2. CASE e.awaited
  <2>1. PICK r \in Works : r = [work[c] EXCEPT !.busy = FALSE]
    BY <1>1 DEF Works
  <2>2. r.rest = work[c].rest /\ r.kind = work[c].kind /\ r.accepted = work[c].accepted /\ ~r.busy
    BY <1>1, <2>1 DEF Works
  <2>3. r.accepted \cup accepted \in SUBSET Events
    BY DEF Works
  <2>4. PICK q \in Works : q = [r EXCEPT !.accepted = @ \cup accepted]
    BY <2>3 DEF Works
  <2>5. q.rest = r.rest /\ q.kind = r.kind /\ q.accepted = r.accepted \cup accepted /\ (q.busy <=> r.busy)
    BY <2>4 DEF Works
  <2>6. work' = [work EXCEPT ![c] = q]
    BY <1>1, <1>2, <2>1, <2>4
  <2>7. work'[c] = q /\ work' \in [Calls -> Works] /\ \A d \in Calls : d # c => work'[d] = work[d]
    BY <1>1, <2>6
  <2> QED
    BY <1>2, <2>2, <2>5, <2>7 DEF HeardAs
<1>3. CASE ~e.awaited
  BY <1>1, <1>3 DEF HeardAs
<1> QED
  BY <1>2, <1>3

\* A decision: the first entry is gone, and the log, what is owed and the work say how it was decided.
LEMMA Decided ==
  ASSUME TurnInv, NEW c \in Calls, EndpointDecides(c)
  PROVE  LET e == Head(desk[c])
         IN  /\ desk[c] # <<>> /\ desk[c] \in Seq(Entries) /\ e \in Entries /\ e = desk[c][1] /\ 1 \in DOMAIN desk[c]
             /\ e.what = "close" <=> e.n = 0
             /\ desk'[c] = Tail(desk[c]) /\ desk' \in [Calls -> Seq(Entries)] /\ work' \in [Calls -> Works]
             /\ call' \in [Calls -> CallRecords] /\ log' \in [Calls -> Seq(Nat)] /\ owed' \in [Calls -> Nat]
             /\ \A d \in Calls : d # c => /\ desk'[d] = desk[d] /\ work'[d] = work[d] /\ call'[d] = call[d]
                                          /\ log'[d] = log[d] /\ owed'[d] = owed[d]
             /\ DecidedAs(c, e)
             /\ UNCHANGED <<lane, held, adrift, stopped, connection, sweep, received>>
             /\ UNCHANGED <<clientAsked, clientTold, cancelled, told, late, dropped>>
<1>1. /\ work \in [Calls -> Works] /\ desk \in [Calls -> Seq(Entries)] /\ log \in [Calls -> Seq(Nat)] /\ owed \in [Calls -> Nat]
      /\ call \in [Calls -> CallRecords] /\ Types
  BY DEF TurnInv, Types
<1>2. desk[c] # <<>> /\ desk[c] \in Seq(Entries)
  BY <1>1 DEF EndpointDecides
<1>3. PICK e \in Entries : e = Head(desk[c]) /\ e = desk[c][1] /\ 1 \in DOMAIN desk[c] /\ Tail(desk[c]) \in Seq(Entries)
  BY <1>2, LineTail
<1>4. e.what = "close" <=> e.n = 0
  BY <1>3 DEF TurnInv, OneAwaited
<1>5. desk' = [desk EXCEPT ![c] = Tail(desk[c])]
  BY <1>1 DEF EndpointDecides
<1>6. desk'[c] = Tail(desk[c]) /\ desk' \in [Calls -> Seq(Entries)] /\ \A d \in Calls : d # c => desk'[d] = desk[d]
  BY <1>1, <1>3, <1>5
<1>7. /\ UNCHANGED <<lane, held, adrift, stopped, connection, sweep, received>>
      /\ UNCHANGED <<clientAsked, clientTold, cancelled, told, late, dropped>>
  BY DEF EndpointDecides, wire, client, grants
<1> DEFINE Heard(accepted) ==
             work' = IF e.awaited THEN [work EXCEPT ![c].busy = FALSE, ![c].accepted = @ \cup accepted] ELSE work
           Records == log' = [log EXCEPT ![c] = Append(@, e.n)]
           Result == /\ work' \in [Calls -> Works] /\ call' \in [Calls -> CallRecords]
                     /\ log' \in [Calls -> Seq(Nat)] /\ owed' \in [Calls -> Nat]
                     /\ \A d \in Calls : d # c => work'[d] = work[d] /\ call'[d] = call[d] /\ log'[d] = log[d] /\ owed'[d] = owed[d]
                     /\ DecidedAs(c, e)
<1>8. \/ e.what = "attempt" /\ SessionOpen(c) /\ Records /\ Heard({e.n}) /\ UNCHANGED <<call, owed>>
      \/ e.what = "attempt" /\ Heard({}) /\ UNCHANGED <<call, owed, log>>
      \/ /\ e.what = "outcome" /\ Heard({})
         /\ owed' = [owed EXCEPT ![c] = IF @ > 0 THEN @ - 1 ELSE 0]
         /\ IF IsAttempt(c, e.n) THEN UNCHANGED log ELSE Records
         /\ UNCHANGED call
      \/ /\ e.what = "close"
         /\ IF SessionOpen(c) THEN Records ELSE UNCHANGED log
         /\ work' = IF e.awaited THEN [work EXCEPT ![c] = NoWork] ELSE work
         /\ call' = IF e.awaited THEN [call EXCEPT ![c].state = "over"] ELSE call
         /\ UNCHANGED owed
  BY <1>3 DEF EndpointDecides
<1>9. Records => log'[c] = Append(log[c], e.n) /\ log' \in [Calls -> Seq(Nat)] /\ \A d \in Calls : d # c => log'[d] = log[d]
  <2>1. e.n \in Nat
    BY DEF Entries
  <2>2. Append(log[c], e.n) \in Seq(Nat)
    BY <1>1, <2>1, LineAppend
  <2> QED
    BY <1>1, <2>2
<1>10. ASSUME NEW accepted \in SUBSET Events, Heard(accepted)
       PROVE  HeardAs(c, e, accepted) /\ work' \in [Calls -> Works] /\ \A d \in Calls : d # c => work'[d] = work[d]
  BY <1>1, <1>10, HeardIs
<1> HIDE DEF Records, Heard
<1>11. ASSUME e.what = "attempt" /\ SessionOpen(c) /\ Records /\ Heard({e.n}) /\ UNCHANGED <<call, owed>>
       PROVE  Result
  <2>1. {e.n} \in SUBSET Events
    BY <1>4, <1>11 DEF Entries, Events
  <2>2. HeardAs(c, e, {e.n}) /\ work' \in [Calls -> Works] /\ \A d \in Calls : d # c => work'[d] = work[d]
    BY <1>10, <1>11, <2>1
  <2>3. DecidedAs(c, e)
    <3>1. log'[c] = Append(log[c], e.n) /\ owed'[c] = owed[c] /\ call' = call
      BY <1>9, <1>11
    <3> QED
      BY ONLY <1>11, <2>2, <3>1 DEF DecidedAs
  <2> HIDE DEF DecidedAs
  <2> QED
    BY <1>1, <1>9, <1>11, <2>2, <2>3
<1>12. ASSUME e.what = "attempt" /\ Heard({}) /\ UNCHANGED <<call, owed, log>>
       PROVE  Result
  <2>1. HeardAs(c, e, {}) /\ work' \in [Calls -> Works] /\ \A d \in Calls : d # c => work'[d] = work[d]
    BY <1>10, <1>12
  <2>2. DecidedAs(c, e)
    <3>1. log'[c] = log[c] /\ owed'[c] = owed[c] /\ call' = call
      BY <1>12
    <3> QED
      BY ONLY <1>12, <2>1, <3>1 DEF DecidedAs
  <2> QED
    BY <1>1, <1>12, <2>1, <2>2
<1>13. ASSUME /\ e.what = "outcome" /\ Heard({})
              /\ owed' = [owed EXCEPT ![c] = IF @ > 0 THEN @ - 1 ELSE 0]
              /\ IF IsAttempt(c, e.n) THEN UNCHANGED log ELSE Records
              /\ UNCHANGED call
       PROVE  Result
  <2>1. HeardAs(c, e, {}) /\ work' \in [Calls -> Works] /\ \A d \in Calls : d # c => work'[d] = work[d]
    BY <1>10, <1>13
  <2>2. owed'[c] = (IF owed[c] > 0 THEN owed[c] - 1 ELSE 0) /\ owed' \in [Calls -> Nat] /\ \A d \in Calls : d # c => owed'[d] = owed[d]
    BY <1>1, <1>13
  <2>3. /\ log' \in [Calls -> Seq(Nat)] /\ \A d \in Calls : d # c => log'[d] = log[d]
        /\ log'[c] = IF IsAttempt(c, e.n) THEN log[c] ELSE Append(log[c], e.n)
    BY <1>1, <1>9, <1>13
  <2>4. DecidedAs(c, e)
    BY ONLY <1>13, <2>1, <2>2, <2>3 DEF DecidedAs
  <2> QED
    BY <1>1, <1>13, <2>1, <2>2, <2>3, <2>4
<1>14. ASSUME /\ e.what = "close"
              /\ IF SessionOpen(c) THEN Records ELSE UNCHANGED log
              /\ work' = IF e.awaited THEN [work EXCEPT ![c] = NoWork] ELSE work
              /\ call' = IF e.awaited THEN [call EXCEPT ![c].state = "over"] ELSE call
              /\ UNCHANGED owed
       PROVE  Result
  <2>1. /\ log' \in [Calls -> Seq(Nat)] /\ \A d \in Calls : d # c => log'[d] = log[d]
        /\ log'[c] = IF SessionOpen(c) THEN Append(log[c], 0) ELSE log[c]
    BY <1>1, <1>4, <1>9, <1>14
  <2>2. CASE e.awaited
    <3>1. work' \in [Calls -> Works] /\ work'[c] = NoWork /\ \A d \in Calls : d # c => work'[d] = work[d]
      BY <1>1, <1>14, <2>2, NoWorkIs
    <3>2. /\ call' \in [Calls -> CallRecords] /\ \A d \in Calls : d # c => call'[d] = call[d]
          /\ call'[c].state = "over" /\ call'[c].asked = call[c].asked /\ call'[c].rounds = call[c].rounds
      BY <1>1, <1>14, <2>2 DEF CallRecords, CallStates
    <3>3. DecidedAs(c, e)
      BY ONLY <1>14, <2>1, <2>2, <3>1, <3>2 DEF DecidedAs
    <3> QED
      BY <1>1, <1>14, <2>1, <3>1, <3>2, <3>3
  <2>3. CASE ~e.awaited
    <3>1. work' = work /\ call' = call
      BY <1>14, <2>3
    <3>2. DecidedAs(c, e)
      BY ONLY <1>14, <2>1, <2>3, <3>1 DEF DecidedAs
    <3> QED
      BY <1>1, <1>14, <2>1, <3>1, <3>2
  <2> QED
    BY <2>2, <2>3
<1>15. Result
  <2> HIDE DEF Result
  <2> QED
    BY <1>8, <1>11, <1>12, <1>13, <1>14
<1> QED
  BY <1>2, <1>3, <1>4, <1>6, <1>7, <1>15

\* EndpointDecides: the work that waited goes on, and a session that closed is over.
LEMMA TurnDecides ==
  ASSUME TurnInv, NEW c \in Calls, EndpointDecides(c)
  PROVE  TurnInv'
<1>1. PICK e \in Entries :
        /\ desk[c] # <<>> /\ desk[c] \in Seq(Entries) /\ e = desk[c][1] /\ 1 \in DOMAIN desk[c]
        /\ desk'[c] = Tail(desk[c]) /\ desk' \in [Calls -> Seq(Entries)] /\ work' \in [Calls -> Works]
        /\ call' \in [Calls -> CallRecords] /\ log' \in [Calls -> Seq(Nat)] /\ owed' \in [Calls -> Nat]
        /\ \A d \in Calls : d # c => /\ desk'[d] = desk[d] /\ work'[d] = work[d] /\ call'[d] = call[d]
                                     /\ log'[d] = log[d] /\ owed'[d] = owed[d]
        /\ DecidedAs(c, e)
        /\ UNCHANGED <<lane, held, adrift, stopped, connection, sweep, received>>
        /\ UNCHANGED <<clientAsked, clientTold, cancelled, told, late, dropped>>
  BY Decided
<1>2. Types /\ OneTurn(c) /\ LaneRuns(c) /\ OneAwaited(c) /\ TurnsTold(c) /\ OwedFew(c)
  BY DEF TurnInv
<1>3. Types'
  BY <1>1, <1>2 DEF Types
<1>4. HeldLine' /\ (\A d : HeldOf(d)' = HeldOf(d)) /\ (Holds(c)' <=> Holds(c))
  BY <1>1, HeldSame DEF TurnInv, Holds
<1>5. \A d \in Calls : d # c => Same(d)
  BY <1>1, <1>4 DEF Same
<1>6. PICK t : t = desk'[c]
  OBVIOUS
<1>7. Shortens(t, desk[c])
  BY <1>1, <1>6, ShortensIs
<1>8. \A k \in DOMAIN t : t[k].awaited => ~e.awaited
  <2> SUFFICES ASSUME NEW k \in DOMAIN t, t[k].awaited, e.awaited PROVE FALSE
    OBVIOUS
  <2>1. k + 1 \in DOMAIN desk[c] /\ desk[c][k + 1].awaited /\ k + 1 # 1
    BY <1>7 DEF Shortens
  <2> QED
    BY <1>1, <1>2, <2>1 DEF OneAwaited
<1>9. OwedFew(c)'
  <2>1. owed[c] \in Nat /\ owed'[c] \in Nat /\ owed'[c] <= owed[c]
    BY <1>1, <1>2 DEF DecidedAs, Types
  <2>2. Len(received[c]) \in Nat
    BY <1>2 DEF Types
  <2> QED
    BY <1>1, <1>2, <2>1, <2>2 DEF OwedFew
<1>10. CASE e.what = "close" /\ e.awaited
  <2>1. work'[c] = NoWork /\ call'[c].state = "over" /\ call'[c].asked = call[c].asked /\ call'[c].rounds = call[c].rounds
    BY <1>1, <1>10 DEF DecidedAs
  <2>2. work[c].kind = "close" /\ Ended(c) /\ lane[c] = <<>>
    BY <1>1, <1>2, <1>10 DEF OneAwaited, LaneRuns, Closing
  <2>3. Ended(c)'
    BY <2>1 DEF Ended
  <2>4. ~call[c].asked /\ ~Holds(c)
    BY <1>2, <2>2 DEF LaneRuns, Ended
  <2>5. OneTurn(c)'
    BY <1>1, <1>4, <2>1, <2>2, <2>4, NoWorkIs DEF OneTurn, RoundWork
  <2>6. LaneRuns(c)'
    BY <1>1, <1>4, <2>1, <2>2, <2>3, <2>4, NoWorkIs DEF LaneRuns, Closing
  <2>7. \A k \in DOMAIN t : ~t[k].awaited
    BY <1>8, <1>10
  <2>8. OneAwaited(c)'
    BY <1>2, <1>6, <1>7, <2>7 DEF OneAwaited, Shortens
  <2>9. TurnsTold(c)'
    BY <1>1, <1>2, <2>1, <2>3, NoWorkIs DEF TurnsTold
  <2> QED
    BY <1>1, <1>3, <1>4, <1>5, <1>9, <2>5, <2>6, <2>8, <2>9, TurnStep DEF TurnCall
<1>11. CASE ~(e.what = "close" /\ e.awaited)
  <2>1. call' = call /\ work'[c].kind = work[c].kind /\ (~e.awaited => work'[c] = work[c])
    BY <1>1, <1>11 DEF DecidedAs, HeardAs
  <2>2. OneAwaited(c)'
    <3>1. \A k \in DOMAIN t : t[k].awaited => work'[c].busy
      BY <1>2, <1>7, <1>8, <2>1 DEF OneAwaited, Shortens
    <3>2. \A j, k \in DOMAIN t : t[j].awaited /\ t[k].awaited => j = k
      <4> SUFFICES ASSUME NEW j \in DOMAIN t, NEW k \in DOMAIN t, t[j].awaited, t[k].awaited PROVE j = k
        OBVIOUS
      <4>1. j + 1 = k + 1 /\ j \in Nat /\ k \in Nat
        BY <1>2, <1>7 DEF OneAwaited, Shortens
      <4> QED
        BY <4>1
    <3>3. \A k \in DOMAIN t : (t[k].awaited /\ t[k].what = "close" => work'[c].kind = "close") /\ (t[k].what = "close" <=> t[k].n = 0)
      BY <1>2, <1>7, <2>1 DEF OneAwaited, Shortens
    <3> QED
      BY <1>6, <3>1, <3>2, <3>3 DEF OneAwaited
  <2>3. call[c].state = "over" \/ call[c].state = "unsent" => ~e.awaited
    BY <1>1, <1>2, NoWorkIs DEF LaneRuns, OneAwaited
  <2>4. (Ended(c)' <=> Ended(c)) /\ OneTurn(c)' /\ TurnsTold(c)'
    BY <1>1, <1>2, <1>4, <2>1 DEF OneTurn, TurnsTold, Ended
  <2>5. LaneRuns(c)'
    BY <1>1, <1>2, <1>4, <2>1, <2>3, <2>4 DEF LaneRuns, Closing
  <2> QED
    BY <1>1, <1>3, <1>4, <1>5, <1>9, <2>2, <2>4, <2>5, TurnStep DEF TurnCall
<1> QED
  BY <1>10, <1>11

\* Entries nobody waits for any more.
Quiet(t, line) ==
  /\ DOMAIN t = DOMAIN line /\ Len(t) = Len(line)
  /\ \A k \in DOMAIN line : t[k].what = line[k].what /\ t[k].n = line[k].n /\ ~t[k].awaited

\* At the end of a wait the entries stay in the queue, and nobody waits for them.
LEMMA BackgroundIs ==
  ASSUME TurnInv, NEW c \in Calls
  PROVE  /\ Background(c) \in [Calls -> Seq(Entries)] /\ Quiet(Background(c)[c], desk[c])
         /\ \A d \in Calls : d # c => Background(c)[d] = desk[d]
<1>1. desk \in [Calls -> Seq(Entries)]
  BY DEF TurnInv, Types
<1>2. PICK line \in Seq(Entries) : line = desk[c]
  BY <1>1
<1>3. PICK t : t = [k \in DOMAIN line |-> [line[k] EXCEPT !.awaited = FALSE]]
  OBVIOUS
<1>4. DOMAIN line = 1..Len(line) /\ Len(line) \in Nat /\ \A k \in DOMAIN line : line[k] \in Entries
  OBVIOUS
<1>5. ASSUME NEW k \in DOMAIN line
      PROVE  t[k] \in Entries /\ t[k].what = line[k].what /\ t[k].n = line[k].n /\ ~t[k].awaited
  <2>1. PICK e \in Entries : e = line[k]
    BY <1>4
  <2>2. t[k] = [e EXCEPT !.awaited = FALSE]
    BY <1>3, <2>1
  <2>3. t[k] \in Entries /\ t[k].what = e.what /\ t[k].n = e.n /\ ~t[k].awaited
    BY <2>2 DEF Entries
  <2> QED
    BY <2>1, <2>3
<1>6. t \in Seq(Entries) /\ DOMAIN t = DOMAIN line /\ Len(t) = Len(line)
  BY <1>3, <1>4, <1>5
<1>7. Quiet(t, line)
  BY <1>5, <1>6 DEF Quiet
<1>8. Background(c) = [desk EXCEPT ![c] = t]
  BY <1>1, <1>2, <1>3 DEF Background
<1> QED
  BY <1>1, <1>2, <1>6, <1>7, <1>8

\* The outcomes among what is left of a job, in order.
LEMMA LeftoverIs ==
  ASSUME TurnInv, NEW c \in Calls
  PROVE  /\ Leftover(c) \in Seq(Events) /\ Range(Leftover(c)) = Range(work[c].rest) \ Attempts(c, work[c].rest)
         /\ \A j, k \in DOMAIN Leftover(c) : j < k => \E a, b \in DOMAIN work[c].rest :
              a < b /\ Leftover(c)[j] = work[c].rest[a] /\ Leftover(c)[k] = work[c].rest[b]
<1>1. PICK rest \in Seq(Events) : rest = work[c].rest
  BY DEF TurnInv, Types, Works
<1>2. PICK S : S = Range(rest) \ Attempts(c, rest)
  OBVIOUS
<1>3. Leftover(c) = Kept(rest, S)
  BY <1>1, <1>2 DEF Leftover
<1>4. /\ Kept(rest, S) \in Seq(Events) /\ Range(Kept(rest, S)) = Range(rest) \cap S
      /\ \A j, k \in DOMAIN Kept(rest, S) : j < k =>
           \E a, b \in DOMAIN rest : a < b /\ Kept(rest, S)[j] = rest[a] /\ Kept(rest, S)[k] = rest[b]
  BY KeptLine
<1>5. Range(Leftover(c)) = Range(rest) \ Attempts(c, rest)
  BY <1>2, <1>3, <1>4
<1> QED
  BY <1>1, <1>3, <1>4, <1>5

\* A lane, and the left-over outcomes sealed behind it.
Sealing(c) == IF Leftover(c) = <<>> THEN lane[c] ELSE Append(lane[c], Job("seal", Leftover(c)))

\* The lane with what is left over sealed behind it, and with a close behind that.
LEMMA SealingIs ==
  ASSUME TurnInv, NEW c \in Calls
  PROVE  /\ Sealing(c) \in Seq(Jobs) /\ Append(Sealing(c), CloseJob) \in Seq(Jobs)
         /\ Extends(Append(Sealing(c), CloseJob), Sealing(c), CloseJob)
         /\ Sealing(c) = lane[c] \/ (Leftover(c) # <<>> /\ Extends(Sealing(c), lane[c], Job("seal", Leftover(c))))
         /\ Queued(c, SealJob(Leftover(c))) = [lane EXCEPT ![c] = Sealing(c)]
         /\ Job("seal", Leftover(c)) \in Jobs /\ Job("seal", Leftover(c)).kind = "seal"
         /\ Job("seal", Leftover(c)).events = Leftover(c)
<1>1. lane \in [Calls -> Seq(Jobs)]
  BY DEF TurnInv, Types
<1>2. PICK line \in Seq(Jobs) : line = lane[c]
  BY <1>1
<1>3. PICK job \in Jobs : job = Job("seal", Leftover(c)) /\ job.kind = "seal" /\ job.events = Leftover(c)
  <2>1. "seal" \in JobKinds /\ Leftover(c) \in Seq(Events)
    BY LeftoverIs DEF JobKinds
  <2> QED
    BY <2>1, JobIs
<1>4. PICK t : t = Sealing(c)
  OBVIOUS
<1>5. CASE Leftover(c) = <<>>
  <2>1. t = line /\ SealJob(Leftover(c)) = <<>>
    BY <1>2, <1>4, <1>5 DEF Sealing, SealJob
  <2>2. line \o <<>> = line
    BY LineSame
  <2>3. Extends(Append(line, CloseJob), line, CloseJob) /\ Append(line, CloseJob) \in Seq(Jobs)
    BY CloseJobIs, ExtendsIs
  <2> QED
    BY <1>1, <1>2, <1>3, <1>4, <2>1, <2>2, <2>3 DEF Queued
<1>6. CASE Leftover(c) # <<>>
  <2>1. t = Append(line, job) /\ SealJob(Leftover(c)) = <<job>>
    BY <1>2, <1>3, <1>4, <1>6 DEF Sealing, SealJob
  <2>2. Extends(t, line, job) /\ t \in Seq(Jobs)
    BY <2>1, ExtendsIs
  <2>3. Extends(Append(t, CloseJob), t, CloseJob) /\ Append(t, CloseJob) \in Seq(Jobs)
    BY <2>2, CloseJobIs, ExtendsIs
  <2>4. line \o <<job>> = t
    BY <2>1, LineAppend
  <2> QED
    BY <1>1, <1>2, <1>3, <1>4, <1>6, <2>1, <2>2, <2>3, <2>4 DEF Queued
<1> QED
  BY <1>5, <1>6

\* The end of a wait: what it says of the endpoint's queue and of the events given up.
LEMMA WaitEnded ==
  ASSUME TurnInv, NEW c \in Calls, WaitOver(c)
  PROVE  /\ desk' = Background(c) /\ desk' \in [Calls -> Seq(Entries)] /\ Quiet(desk'[c], desk[c])
         /\ late'[c] = late[c] \cup InProgress(c) /\ late' \in [Calls -> SUBSET Events]
         /\ dropped'[c] = dropped[c] \cup Attempts(c, work[c].rest) /\ dropped' \in [Calls -> SUBSET Events]
         /\ \A d \in Calls : d # c => desk'[d] = desk[d] /\ late'[d] = late[d] /\ dropped'[d] = dropped[d]
         /\ OneAwaited(c)' /\ OwedFew(c)' /\ work[c].kind \in Bounded /\ call[c].state \notin {"unsent", "over"}
         /\ UNCHANGED <<log, owed, adrift, stopped, connection, sweep, received>>
<1>1. /\ late \in [Calls -> SUBSET Events] /\ dropped \in [Calls -> SUBSET Events] /\ desk[c] \in Seq(Entries)
      /\ work[c].rest \in Seq(Events) /\ OneAwaited(c) /\ OwedFew(c)
  BY DEF TurnInv, Types, Works
<1>2. /\ desk' = Background(c) /\ late' = [late EXCEPT ![c] = @ \cup InProgress(c)] /\ work[c].kind \in Bounded
      /\ dropped' = [dropped EXCEPT ![c] = @ \cup Attempts(c, work[c].rest)]
      /\ UNCHANGED <<log, owed, adrift, stopped, connection, sweep, received>>
  BY DEF WaitOver, wire
<1>3. InProgress(c) \subseteq Events
  <2>1. \A k \in DOMAIN desk[c] : desk[c][k] \in Entries
    BY <1>1
  <2>2. \A k \in DOMAIN desk[c] : desk[c][k].what = "attempt" => desk[c][k].n # 0
    BY <1>1 DEF OneAwaited
  <2> QED
    BY <2>1, <2>2 DEF InProgress, Entries, Events
<1>4. Attempts(c, work[c].rest) \subseteq Events
  BY <1>1 DEF Attempts, Range
<1>5. /\ desk' \in [Calls -> Seq(Entries)] /\ Quiet(desk'[c], desk[c]) /\ \A d \in Calls : d # c => desk'[d] = desk[d]
  BY <1>2, BackgroundIs
<1>6. OneAwaited(c)'
  BY <1>1, <1>5 DEF OneAwaited, Quiet
<1>7. call[c].state \notin {"unsent", "over"}
  BY <1>2, NoWorkIs DEF TurnInv, LaneRuns, Bounded
<1>8. /\ late'[c] = late[c] \cup InProgress(c) /\ late' \in [Calls -> SUBSET Events]
      /\ dropped'[c] = dropped[c] \cup Attempts(c, work[c].rest) /\ dropped' \in [Calls -> SUBSET Events]
      /\ \A d \in Calls : d # c => late'[d] = late[d] /\ dropped'[d] = dropped[d]
  BY <1>1, <1>2, <1>3, <1>4
<1> QED
  BY <1>1, <1>2, <1>5, <1>6, <1>7, <1>8 DEF OwedFew

\* Jobs that neither follow a round nor close.
Plain(line) == \A k \in DOMAIN line : line[k].kind \notin RoundKinds /\ ~Closing(line[k])

\* While a round is at work no other waits in the lane, and no close of a call that has not been given up.
LEMMA PlainSealing ==
  ASSUME TurnInv, NEW c \in Calls, work[c].kind = "abandoned" \/ (work[c].kind \in {"round", "input"} /\ ~Ended(c))
  PROVE  Plain(lane[c]) /\ Plain(Sealing(c))
<1>1. OneTurn(c) /\ LaneRuns(c)
  BY DEF TurnInv
<1>2. Plain(lane[c])
  BY <1>1 DEF OneTurn, LaneRuns, Plain, RoundWork
<1>3. PICK job \in Jobs : job = Job("seal", Leftover(c)) /\ job.kind = "seal"
  BY SealingIs
<1>4. PICK t : t = Sealing(c)
  OBVIOUS
<1>5. t = lane[c] \/ Extends(t, lane[c], job)
  BY <1>3, <1>4, SealingIs
<1>6. job.kind \notin RoundKinds /\ ~Closing(job)
  BY <1>3 DEF Closing, RoundKinds
<1>7. Plain(t)
  <2>1. CASE t = lane[c]
    BY <1>2, <2>1
  <2>2. CASE Extends(t, lane[c], job)
    BY <1>2, <1>6, <2>2 DEF Plain, Extends
  <2> QED
    BY <1>5, <2>1, <2>2
<1> QED
  BY <1>2, <1>4, <1>7

\* What a plain lane satisfies of a call that has not ended and is not asked.
LEMMA PlainTurn ==
  ASSUME NEW c \in Calls, Plain(lane'[c]), ~(call'[c].asked /\ Holds(c)'), LaneRuns(c), call' = call, connection' = connection,
         call[c].state \notin {"unsent", "over"}, Holds(c)' => call[c].state = "inflight",
         work'[c].kind \in RoundWork => ~call[c].asked /\ ~Holds(c)', work'[c].kind # "abandoned", ~Closing(work'[c])
  PROVE  OneTurn(c)' /\ LaneRuns(c)'
<1>1. OneTurn(c)'
  BY DEF OneTurn, Plain
<1>2. Ended(c)' <=> Ended(c)
  BY DEF Ended
<1>3. LaneRuns(c)'
  BY <1>2 DEF LaneRuns, Plain
<1> QED
  BY <1>1, <1>3

\* The end of a wait writes one call's work.
LEMMA TurnEndedMeanwhile ==
  ASSUME TurnInv, NEW c \in Calls, WaitOver(c), EndedMeanwhile(c)
  PROVE  TurnInv'
<1>1. /\ Types /\ OneTurn(c) /\ LaneRuns(c) /\ TurnsTold(c) /\ work[c].kind \in {"round", "input"} /\ Ended(c)
      /\ UNCHANGED <<call, lane, held, clientAsked, clientTold, cancelled, told>>
  BY DEF TurnInv, EndedMeanwhile, client
<1>2. /\ desk' \in [Calls -> Seq(Entries)] /\ late' \in [Calls -> SUBSET Events] /\ dropped' \in [Calls -> SUBSET Events]
      /\ \A d \in Calls : d # c => desk'[d] = desk[d] /\ late'[d] = late[d] /\ dropped'[d] = dropped[d]
      /\ OneAwaited(c)' /\ OwedFew(c)' /\ call[c].state \notin {"unsent", "over"}
      /\ UNCHANGED <<log, owed, adrift, stopped, connection, sweep, received>>
  BY WaitEnded
<1>3. PICK w \in Works : work' = [work EXCEPT ![c] = w] /\ w.kind \in {"none", "seal"}
  <2>1. Leftover(c) \in Seq(Events) /\ "seal" \in WorkKinds
    BY LeftoverIs DEF WorkKinds
  <2>2. Work("seal", Leftover(c)) \in Works /\ Work("seal", Leftover(c)).kind = "seal"
    BY <2>1, WorkIs
  <2>3. CASE Leftover(c) = <<>>
    BY <2>3, NoWorkIs DEF EndedMeanwhile
  <2>4. CASE Leftover(c) # <<>>
    BY <2>2, <2>4 DEF EndedMeanwhile
  <2> QED
    BY <2>3, <2>4
<1>4. work' \in [Calls -> Works] /\ work'[c] = w /\ \A d \in Calls : d # c => work'[d] = work[d]
  BY <1>1, <1>3, WorkWritten
<1>5. Types'
  BY <1>1, <1>2, <1>4 DEF Types
<1>6. HeldLine' /\ (\A d : HeldOf(d)' = HeldOf(d)) /\ (Holds(c)' <=> Holds(c)) /\ (Ended(c)' <=> Ended(c))
  BY <1>1, HeldSame DEF TurnInv, Holds, Ended
<1>7. \A d \in Calls : d # c => Same(d)
  BY <1>1, <1>2, <1>4, <1>6 DEF Same
<1>8. OneTurn(c)'
  BY <1>1, <1>3, <1>4, <1>6 DEF OneTurn, RoundWork
<1>9. LaneRuns(c)'
  BY <1>1, <1>2, <1>3, <1>4, <1>6 DEF LaneRuns, Closing
<1>10. TurnsTold(c)'
  BY <1>1, <1>3, <1>4, <1>6 DEF TurnsTold
<1>11. TurnCall(c)' /\ connection' = connection
  BY <1>2, <1>8, <1>9, <1>10 DEF TurnCall
<1> QED
  BY <1>5, <1>6, <1>7, <1>11, TurnStep

\* WaitOver: the retry to the tool is built.
LEMMA TurnGoesBack ==
  ASSUME TurnInv, NEW c \in Calls, WaitOver(c), GoesBack(c)
  PROVE  TurnInv'
<1>1. /\ Types /\ OneTurn(c) /\ LaneRuns(c) /\ TurnsTold(c) /\ work[c].kind = "round" /\ ~Ended(c)
      /\ UNCHANGED <<call, held, clientAsked, clientTold, cancelled, told>>
      /\ lane' = Queued(c, SealJob(Leftover(c)))
      /\ work' = [work EXCEPT ![c] = [Work("sending", <<>>) EXCEPT !.accepted = work[c].accepted]]
  BY DEF TurnInv, GoesBack, client
<1>2. /\ desk' \in [Calls -> Seq(Entries)] /\ late' \in [Calls -> SUBSET Events] /\ dropped' \in [Calls -> SUBSET Events]
      /\ \A d \in Calls : d # c => desk'[d] = desk[d] /\ late'[d] = late[d] /\ dropped'[d] = dropped[d]
      /\ OneAwaited(c)' /\ OwedFew(c)' /\ call[c].state \notin {"unsent", "over"}
      /\ UNCHANGED <<log, owed, adrift, stopped, connection, sweep, received>>
  BY WaitEnded
<1>3. PICK w \in Works : work' = [work EXCEPT ![c] = w] /\ w.kind = "sending"
  <2>1. "sending" \in WorkKinds /\ <<>> \in Seq(Events)
    BY DEF WorkKinds
  <2>2. PICK r \in Works : r = Work("sending", <<>>) /\ r.kind = "sending"
    <3>1. Work("sending", <<>>) \in Works /\ Work("sending", <<>>).kind = "sending"
      BY <2>1, WorkIs
    <3> QED
      BY <3>1
  <2>3. PICK A \in SUBSET Events : A = work[c].accepted
    BY <1>1 DEF Types, Works
  <2>4. PICK q \in Works : q = [r EXCEPT !.accepted = A]
    BY DEF Works
  <2>5. q.kind = r.kind
    BY <2>4 DEF Works
  <2> QED
    BY <1>1, <2>2, <2>3, <2>4, <2>5
<1>4. work' \in [Calls -> Works] /\ work'[c] = w /\ \A d \in Calls : d # c => work'[d] = work[d]
  BY <1>1, <1>3, WorkWritten
<1>5. lane' \in [Calls -> Seq(Jobs)] /\ lane'[c] = Sealing(c) /\ \A d \in Calls : d # c => lane'[d] = lane[d]
  BY <1>1, SealingIs DEF Types
<1>6. Types'
  BY <1>1, <1>2, <1>4, <1>5 DEF Types
<1>7. HeldLine' /\ (\A d : HeldOf(d)' = HeldOf(d)) /\ (Holds(c)' <=> Holds(c)) /\ (Ended(c)' <=> Ended(c))
  BY <1>1, HeldSame DEF TurnInv, Holds, Ended
<1>8. \A d \in Calls : d # c => Same(d)
  BY <1>1, <1>2, <1>4, <1>5, <1>7 DEF Same
<1>9. ~call[c].asked /\ ~Holds(c)
  BY <1>1 DEF OneTurn, RoundWork
<1>10. Plain(lane'[c])
  BY <1>1, <1>5, PlainSealing
<1>11. w.kind # "abandoned" /\ ~Closing(w)
  BY <1>3 DEF Closing
<1>12. OneTurn(c)' /\ LaneRuns(c)'
  BY <1>1, <1>2, <1>4, <1>7, <1>9, <1>10, <1>11, PlainTurn
<1>13. TurnsTold(c)'
  BY <1>1, <1>3, <1>4, <1>7 DEF TurnsTold
<1>14. TurnCall(c)' /\ connection' = connection
  BY <1>2, <1>12, <1>13 DEF TurnCall
<1> QED
  BY <1>6, <1>7, <1>8, <1>14, TurnStep

\* What is told of a call.
LEMMA ToldIs ==
  ASSUME Types, NEW c \in Calls, ToldClient(c)
  PROVE  /\ clientTold' \in [Calls -> Nat] /\ clientTold'[c] = clientTold[c] + 1 /\ clientAsked' = clientAsked /\ cancelled' = cancelled
         /\ clientTold[c] \in Nat /\ clientAsked[c] \in Nat /\ \A d \in Calls : d # c => clientTold'[d] = clientTold[d]
BY DEF ToldClient, Types

\* WaitOver: a call that is given up closes, and the client gets an error.
LEMMA TurnAbandoned ==
  ASSUME TurnInv, NEW c \in Calls, WaitOver(c), Abandoned(c)
  PROVE  TurnInv'
<1>1. /\ Types /\ OneTurn(c) /\ LaneRuns(c) /\ TurnsTold(c) /\ work[c].kind = "abandoned"
      /\ UNCHANGED <<call, held, told>> /\ ToldClient(c)
      /\ lane' = [Queued(c, SealJob(Leftover(c))) EXCEPT ![c] = Append(@, CloseJob)]
      /\ work' = [work EXCEPT ![c] = NoWork]
  BY DEF TurnInv, Abandoned
<1>2. /\ desk' \in [Calls -> Seq(Entries)] /\ late' \in [Calls -> SUBSET Events] /\ dropped' \in [Calls -> SUBSET Events]
      /\ \A d \in Calls : d # c => desk'[d] = desk[d] /\ late'[d] = late[d] /\ dropped'[d] = dropped[d]
      /\ OneAwaited(c)' /\ OwedFew(c)' /\ call[c].state \notin {"unsent", "over"}
      /\ UNCHANGED <<log, owed, adrift, stopped, connection, sweep, received>>
  BY WaitEnded
<1>3. work' \in [Calls -> Works] /\ work'[c] = NoWork /\ \A d \in Calls : d # c => work'[d] = work[d]
  BY <1>1, WorkWritten, NoWorkIs
<1>4. PICK t \in Seq(Jobs) : t = Sealing(c)
  BY SealingIs
<1>5. PICK last \in Jobs : last = CloseJob /\ last.kind = "close"
  BY CloseJobIs
<1>6. lane' \in [Calls -> Seq(Jobs)] /\ lane'[c] = Append(t, last) /\ \A d \in Calls : d # c => lane'[d] = lane[d]
  <2>1. lane \in [Calls -> Seq(Jobs)] /\ Queued(c, SealJob(Leftover(c))) = [lane EXCEPT ![c] = t]
    BY <1>1, <1>4, SealingIs DEF Types
  <2>2. lane' = [lane EXCEPT ![c] = Append(t, last)]
    BY <1>1, <1>5, <2>1
  <2>3. Append(t, last) \in Seq(Jobs)
    OBVIOUS
  <2> QED
    BY <2>1, <2>2, <2>3
<1>7. clientTold' \in [Calls -> Nat] /\ clientTold'[c] = clientTold[c] + 1 /\ clientAsked' = clientAsked /\ cancelled' = cancelled
      /\ clientTold[c] \in Nat /\ clientAsked[c] \in Nat /\ \A d \in Calls : d # c => clientTold'[d] = clientTold[d]
  BY <1>1, ToldIs
<1>8. Types'
  BY <1>1, <1>2, <1>3, <1>6, <1>7 DEF Types
<1>9. HeldLine' /\ (\A d : HeldOf(d)' = HeldOf(d)) /\ (Holds(c)' <=> Holds(c)) /\ (Ended(c)' <=> Ended(c))
  BY <1>1, HeldSame DEF TurnInv, Holds, Ended
<1>10. \A d \in Calls : d # c => Same(d)
  BY <1>1, <1>2, <1>3, <1>6, <1>7, <1>9 DEF Same
<1>11. Ended(c) /\ ~call[c].asked /\ ~Holds(c)
  BY <1>1 DEF LaneRuns, Ended
<1>12. Plain(t)
  BY <1>1, <1>4, PlainSealing
<1>13. PICK u : u = lane'[c]
  OBVIOUS
<1>14. Extends(u, t, last)
  BY <1>6, <1>13, ExtendsIs
<1>15. \A k \in DOMAIN u : u[k].kind \notin RoundKinds /\ (Closing(u[k]) => k = Len(u))
  <2>1. last.kind \notin RoundKinds
    BY <1>5 DEF RoundKinds
  <2> QED
    BY <1>12, <1>14, <2>1 DEF Plain, Extends
<1>16. OneTurn(c)'
  BY <1>1, <1>3, <1>9, <1>11, <1>13, <1>15, NoWorkIs DEF OneTurn, RoundWork
<1>17. LaneRuns(c)'
  BY <1>1, <1>2, <1>3, <1>9, <1>11, <1>13, <1>15, NoWorkIs DEF LaneRuns, Closing
<1>18. TurnsTold(c)'
  <2>1. clientTold[c] < clientAsked[c] /\ call[c].state # "inflight" /\ call[c].state # "unsent"
    BY <1>1, <1>11 DEF TurnsTold, Ended
  <2> QED
    BY <1>1, <1>3, <1>7, <1>9, <1>11, <2>1, NoWorkIs DEF TurnsTold
<1>19. TurnCall(c)' /\ connection' = connection
  BY <1>2, <1>16, <1>17, <1>18 DEF TurnCall
<1> QED
  BY <1>8, <1>9, <1>10, <1>19, TurnStep

\* WaitOver: an attempt that came as a message of its own is answered.
LEMMA TurnAnswered ==
  ASSUME TurnInv, NEW c \in Calls, WaitOver(c), Answered(c)
  PROVE  TurnInv'
<1>1. /\ Types /\ OneTurn(c) /\ LaneRuns(c) /\ TurnsTold(c) /\ work[c].kind = "ask"
      /\ UNCHANGED <<call, lane, held, clientAsked, clientTold, cancelled>>
      /\ told' = [told EXCEPT ![c] = @ \cup work[c].accepted] /\ work' = [work EXCEPT ![c] = NoWork]
  BY DEF TurnInv, Answered, client
<1>2. /\ desk' \in [Calls -> Seq(Entries)] /\ late' \in [Calls -> SUBSET Events] /\ dropped' \in [Calls -> SUBSET Events]
      /\ \A d \in Calls : d # c => desk'[d] = desk[d] /\ late'[d] = late[d] /\ dropped'[d] = dropped[d]
      /\ OneAwaited(c)' /\ OwedFew(c)' /\ call[c].state \notin {"unsent", "over"}
      /\ UNCHANGED <<log, owed, adrift, stopped, connection, sweep, received>>
  BY WaitEnded
<1>3. work' \in [Calls -> Works] /\ work'[c] = NoWork /\ \A d \in Calls : d # c => work'[d] = work[d]
  BY <1>1, WorkWritten, NoWorkIs
<1>4. told' \in [Calls -> SUBSET Events] /\ \A d \in Calls : d # c => told'[d] = told[d]
  BY <1>1 DEF Types, Works
<1>5. Types'
  BY <1>1, <1>2, <1>3, <1>4 DEF Types
<1>6. HeldLine' /\ (\A d : HeldOf(d)' = HeldOf(d)) /\ (Holds(c)' <=> Holds(c)) /\ (Ended(c)' <=> Ended(c))
  BY <1>1, HeldSame DEF TurnInv, Holds, Ended
<1>7. \A d \in Calls : d # c => Same(d)
  BY <1>1, <1>2, <1>3, <1>4, <1>6 DEF Same
<1>8. OneTurn(c)'
  BY <1>1, <1>3, <1>6, NoWorkIs DEF OneTurn, RoundWork
<1>9. LaneRuns(c)'
  BY <1>1, <1>2, <1>3, <1>6, NoWorkIs DEF LaneRuns, Closing
<1>10. TurnsTold(c)'
  BY <1>1, <1>3, <1>6, NoWorkIs DEF TurnsTold
<1>11. TurnCall(c)' /\ connection' = connection
  BY <1>2, <1>8, <1>9, <1>10 DEF TurnCall
<1> QED
  BY <1>5, <1>6, <1>7, <1>11, TurnStep

\* A round goes up to the client: it is held, and another may give way to it.
WentUp(c, r, out) ==
  /\ HeldOf(c)' = {r} /\ HeldOf(c) = {} /\ lane'[c] = Sealing(c) /\ call'[c] = call[c] /\ out # c
  /\ out \in Calls => /\ HeldOf(out) # {} /\ HeldOf(out)' = {} /\ lane'[out] = Append(lane[out], CloseJob)
                      /\ call'[out].state = "concluding" /\ ~call'[out].asked /\ call'[out].rounds = call[out].rounds
  /\ \A d \in Calls : d \notin {c, out} => HeldOf(d)' = HeldOf(d) /\ lane'[d] = lane[d] /\ call'[d] = call[d]

\* A round that goes up is held, and the least recently held one may give way to it.
LEMMA GoneUp ==
  ASSUME TurnInv, NEW c \in Calls, GoesUp(c), NEW r, r = [call |-> c, accepted |-> work[c].accepted]
  PROVE  /\ HeldLine' /\ call' \in [Calls -> CallRecords] /\ lane' \in [Calls -> Seq(Jobs)]
         /\ call[c].state = "inflight" /\ \E out : WentUp(c, r, out)
<1>1. /\ Types /\ OneTurn(c) /\ LaneRuns(c) /\ TurnsTold(c) /\ work[c].kind = "input" /\ ~Ended(c)
      /\ call \in [Calls -> CallRecords] /\ lane \in [Calls -> Seq(Jobs)]
  BY DEF TurnInv, Types, GoesUp
<1>2. ~Holds(c) /\ HeldOf(c) = {} /\ call[c].state = "inflight"
  <2>1. ~Holds(c)
    BY <1>1 DEF OneTurn, RoundWork
  <2>2. call[c].state = "inflight"
    BY <1>1, NoWorkIs, CallFields DEF LaneRuns, Ended, CallStates
  <2> QED
    BY <2>1, <2>2, HoldsOf
<1>3. r \in HeldRounds /\ r.call = c
  BY <1>1 DEF HeldRounds, Types, Works
<1>4. PICK line : line = Append(held, r)
  OBVIOUS
<1>5. line \in Seq(HeldRounds) /\ OnePerCall(line) /\ Len(line) = Len(held) + 1 /\ Range(line) = Range(held) \cup {r} /\ line # <<>>
  BY <1>2, <1>3, <1>4, HeldOneMore DEF TurnInv
<1>6. PICK sealing \in [Calls -> Seq(Jobs)] : /\ sealing = Queued(c, SealJob(Leftover(c))) /\ sealing[c] = Sealing(c)
                                              /\ \A d \in Calls : d # c => sealing[d] = lane[d]
  BY <1>1, SealingIs
<1>7. /\ Len(line) > MaxHeld => /\ held' = Tail(line) /\ call' = Detached(Head(line).call)
                                /\ lane' = [sealing EXCEPT ![Head(line).call] = Append(@, CloseJob)]
      /\ ~(Len(line) > MaxHeld) => held' = line /\ lane' = sealing /\ call' = call
  <2>1. r = [call |-> c, accepted |-> work[c].accepted]
    OBVIOUS
  <2> QED
    BY <1>4, <1>6, <2>1 DEF GoesUp
<1>8. \A d : {h \in Range(line) : h.call = d} = IF d = c THEN {r} ELSE HeldOf(d)
  BY <1>2, <1>3, <1>5 DEF HeldOf
<1>9. Len(held) \in Nat /\ Len(held) <= MaxHeld /\ MaxHeld \in Nat /\ MaxHeld # 0 /\ held \in Seq(HeldRounds)
  BY SeamAssumption DEF TurnInv, HeldLine
<1>10. ASSUME ~(Len(line) > MaxHeld)
       PROVE  HeldLine' /\ \E out : WentUp(c, r, out)
  <2>1. held' = line /\ lane' = sealing /\ call' = call
    BY <1>7, <1>10
  <2>2. HeldLine'
    BY <1>5, <1>9, <1>10, <2>1 DEF HeldLine, OnePerCall
  <2>3. \A d : HeldOf(d)' = IF d = c THEN {r} ELSE HeldOf(d)
    BY <1>8, <2>1 DEF HeldOf
  <2>4. PICK out : out \notin Calls
    BY NoSetContainsEverything
  <2>5. WentUp(c, r, out)
    BY <1>2, <1>6, <2>1, <2>3, <2>4 DEF WentUp
  <2> QED
    BY <2>2, <2>5
<1>11. ASSUME Len(line) > MaxHeld
       PROVE  /\ HeldLine' /\ call' \in [Calls -> CallRecords] /\ lane' \in [Calls -> Seq(Jobs)]
              /\ \E out : WentUp(c, r, out)
  <2>1. PICK out : out = Head(line).call
    OBVIOUS
  <2>2. held' = Tail(line) /\ call' = Detached(out) /\ lane' = [sealing EXCEPT ![out] = Append(@, CloseJob)]
    BY <1>7, <1>11, <2>1
  <2>3. /\ Tail(line) \in Seq(HeldRounds) /\ OnePerCall(Tail(line)) /\ Len(Tail(line)) = Len(line) - 1 /\ Head(line) \in Range(line)
        /\ \A d : {h \in Range(Tail(line)) : h.call = d} = IF d = out THEN {} ELSE {h \in Range(line) : h.call = d}
    <3>1. /\ Tail(line) \in Seq(HeldRounds) /\ OnePerCall(Tail(line)) /\ Len(Tail(line)) = Len(line) - 1 /\ Head(line) \in Range(line)
          /\ \A d : {h \in Range(Tail(line)) : h.call = d} = IF d = Head(line).call THEN {} ELSE {h \in Range(line) : h.call = d}
      BY <1>5, HeldFirstOut
    <3> QED
      BY <2>1, <3>1
  <2>4. Len(held) > 0 /\ Head(line) = held[1] /\ 1 \in DOMAIN held
    <3>1. Len(held) > 0 /\ 1 \in DOMAIN held
      BY <1>5, <1>9, <1>11
    <3>2. line[1] = held[1]
      BY <1>3, <1>4, <1>9, <3>1
    <3>3. Head(line) = line[1]
      BY <1>5
    <3> QED
      BY <3>1, <3>2, <3>3
  <2>5. held[1] \in HeldOf(out) /\ out \in Calls /\ out # c
    <3>1. held[1] \in Range(held) /\ held[1] \in HeldRounds
      BY <1>9, <2>4 DEF Range
    <3> QED
      BY <1>2, <2>1, <2>4, <3>1 DEF HeldOf, HeldRounds
  <2>6. HeldLine'
    BY <1>5, <1>9, <2>2, <2>3 DEF HeldLine, OnePerCall
  <2>7. \A d : HeldOf(d)' = IF d = out THEN {} ELSE IF d = c THEN {r} ELSE HeldOf(d)
    BY <1>8, <2>2, <2>3 DEF HeldOf
  <2>8. /\ call' \in [Calls -> CallRecords] /\ \A d \in Calls : d # out => call'[d] = call[d]
        /\ call'[out].state = "concluding" /\ ~call'[out].asked /\ call'[out].rounds = call[out].rounds
    BY <1>1, <2>2, <2>5, DetachedIs
  <2>9. /\ lane' \in [Calls -> Seq(Jobs)] /\ lane'[out] = Append(lane[out], CloseJob) /\ lane'[c] = Sealing(c)
        /\ \A d \in Calls : d \notin {c, out} => lane'[d] = lane[d]
    <3>1. sealing[out] = lane[out] /\ Append(sealing[out], CloseJob) \in Seq(Jobs)
      BY <1>6, <2>5, CloseJobIs, LineAppend
    <3> QED
      BY <1>6, <2>2, <2>5, <3>1
  <2>10. WentUp(c, r, out)
    BY <1>2, <2>5, <2>7, <2>8, <2>9 DEF WentUp
  <2> QED
    BY <2>6, <2>8, <2>9, <2>10
<1> QED
  BY <1>1, <1>2, <1>6, <1>7, <1>10, <1>11

\* WaitOver: the client gets the round.
LEMMA TurnGoesUp ==
  ASSUME TurnInv, NEW c \in Calls, WaitOver(c), GoesUp(c)
  PROVE  TurnInv'
<1>1. /\ Types /\ OneTurn(c) /\ LaneRuns(c) /\ TurnsTold(c) /\ work[c].kind = "input" /\ ~Ended(c)
      /\ UNCHANGED told /\ ToldClient(c) /\ work' = [work EXCEPT ![c] = NoWork]
  BY DEF TurnInv, GoesUp
<1>2. /\ desk' \in [Calls -> Seq(Entries)] /\ late' \in [Calls -> SUBSET Events] /\ dropped' \in [Calls -> SUBSET Events]
      /\ \A d \in Calls : d # c => desk'[d] = desk[d] /\ late'[d] = late[d] /\ dropped'[d] = dropped[d]
      /\ OneAwaited(c)' /\ OwedFew(c)' /\ call[c].state \notin {"unsent", "over"}
      /\ UNCHANGED <<log, owed, adrift, stopped, connection, sweep, received>>
  BY WaitEnded
<1>3. work' \in [Calls -> Works] /\ work'[c] = NoWork /\ \A d \in Calls : d # c => work'[d] = work[d]
  BY <1>1, WorkWritten, NoWorkIs
<1>4. PICK r : r = [call |-> c, accepted |-> work[c].accepted]
  OBVIOUS
<1>5. /\ HeldLine' /\ call' \in [Calls -> CallRecords] /\ lane' \in [Calls -> Seq(Jobs)]
      /\ call[c].state = "inflight" /\ \E out : WentUp(c, r, out)
  BY <1>4, GoneUp DEF WaitOver
<1>6. PICK out : WentUp(c, r, out)
  BY <1>5
<1>7. clientTold' \in [Calls -> Nat] /\ clientTold'[c] = clientTold[c] + 1 /\ clientAsked' = clientAsked /\ cancelled' = cancelled
      /\ clientTold[c] \in Nat /\ clientAsked[c] \in Nat /\ \A d \in Calls : d # c => clientTold'[d] = clientTold[d]
  BY <1>1, ToldIs
<1>8. Types'
  BY <1>1, <1>2, <1>3, <1>5, <1>7 DEF Types
<1>9. connection' = connection
  BY <1>2
<1>10. TurnCall(c)'
  <2>1. Holds(c)' /\ ~Holds(c) /\ ~call[c].asked
    BY <1>1, <1>6 DEF WentUp, OneTurn, RoundWork, Holds, HeldOf
  <2>2. Plain(lane'[c])
    BY <1>1, <1>6, PlainSealing DEF WentUp
  <2>3. call'[c] = call[c] /\ (Ended(c)' <=> Ended(c))
    BY <1>6 DEF WentUp, Ended
  <2>4. OneTurn(c)'
    BY <1>3, <2>1, <2>2, <2>3, NoWorkIs DEF OneTurn, Plain, RoundWork
  <2>5. LaneRuns(c)'
    BY <1>1, <1>2, <1>3, <1>5, <2>2, <2>3, NoWorkIs DEF LaneRuns, Plain, Closing
  <2>6. TurnsTold(c)'
    <3>1. clientTold[c] < clientAsked[c] /\ (c \in cancelled => Ended(c))
      BY <1>1, <1>5, <2>1 DEF TurnsTold
    <3> QED
      BY <1>3, <1>5, <1>7, <2>1, <2>3, <3>1, NoWorkIs DEF TurnsTold
  <2> QED
    BY <1>2, <2>4, <2>5, <2>6 DEF TurnCall
<1>11. ASSUME NEW d \in Calls, d \notin {c, out} PROVE TurnCall(d)'
  <2>1. Same(d)
    BY <1>1, <1>2, <1>3, <1>6, <1>7, <1>11 DEF Same, WentUp
  <2> QED
    BY <1>9, <2>1, TurnSame
<1>12. ASSUME out \in Calls PROVE TurnCall(out)'
  <2>1. /\ out # c /\ HeldOf(out) # {} /\ HeldOf(out)' = {} /\ lane'[out] = Append(lane[out], CloseJob)
        /\ call'[out].state = "concluding" /\ ~call'[out].asked
    BY <1>6, <1>12 DEF WentUp
  <2>2. OneTurn(out) /\ LaneRuns(out) /\ TurnsTold(out) /\ OneAwaited(out) /\ OwedFew(out) /\ Holds(out)
    BY <1>12, <2>1, HoldsOf DEF TurnInv
  <2>3. call[out].state = "inflight" /\ work'[out] = work[out] /\ desk'[out] = desk[out]
    BY <1>2, <1>3, <1>12, <2>1, <2>2 DEF LaneRuns
  <2>4. PICK last \in Jobs : last = CloseJob /\ Closing(last)
    BY CloseJobIs DEF Closing
  <2>5. Longer(out, last)
    BY <1>1, <1>12, <2>1, <2>4, LongerLane
  <2>6. OneTurn(out)' /\ LaneRuns(out)' /\ Ended(out)' /\ ~Ended(out) /\ ~Holds(out)'
    BY <1>9, <1>12, <2>1, <2>3, <2>4, <2>5, EndedTurn
  <2>7. TurnsTold(out)'
    <3>1. clientTold'[out] = clientTold[out] /\ clientAsked'[out] = clientAsked[out] /\ work[out].kind # "abandoned"
      BY <1>7, <1>12, <2>1, <2>2, <2>6 DEF LaneRuns
    <3> QED
      BY <1>7, <2>1, <2>2, <2>3, <2>6, <3>1 DEF TurnsTold
  <2>8. OneAwaited(out)' /\ OwedFew(out)'
    BY <1>2, <2>2, <2>3 DEF OneAwaited, OwedFew
  <2> QED
    BY <2>6, <2>7, <2>8 DEF TurnCall
<1>13. \A d \in Calls : TurnCall(d)'
  BY <1>10, <1>11, <1>12
<1> QED
  BY <1>5, <1>8, <1>13 DEF TurnInv, TurnCall

\* WaitOver, whichever way the work goes on.
LEMMA TurnWaitOver == ASSUME TurnInv, NEW c \in Calls, WaitOver(c) PROVE TurnInv'
BY TurnEndedMeanwhile, TurnGoesUp, TurnGoesBack, TurnAbandoned, TurnAnswered DEF WaitOver

\* A retry is sent once nothing of its round is left to be decided.
Sends(c) == work[c].kind = "sending" => work[c].rest = <<>> /\ ~work[c].busy

\* The retry is sent.
LEMMA TurnRetrySent ==
  ASSUME TurnInv, NEW c \in Calls, RetrySent(c), Sends(c)
  PROVE  TurnInv'
<1>1. /\ Types /\ OneTurn(c) /\ LaneRuns(c) /\ TurnsTold(c) /\ OwedFew(c) /\ OneAwaited(c) /\ work[c].kind = "sending"
      /\ UNCHANGED <<lane, desk, log, owed, held, adrift, stopped, connection, sweep, received>>
      /\ UNCHANGED <<clientAsked, clientTold, cancelled, late, dropped>>
      /\ told' = [told EXCEPT ![c] = @ \cup work[c].accepted] /\ work' = [work EXCEPT ![c] = NoWork]
      /\ call' = [call EXCEPT ![c].asked = ~Ended(c)]
  BY DEF TurnInv, RetrySent, wire, client, host
<1>2. work' \in [Calls -> Works] /\ work'[c] = NoWork /\ \A d \in Calls : d # c => work'[d] = work[d]
  BY <1>1, WorkWritten, NoWorkIs
<1>3. told' \in [Calls -> SUBSET Events] /\ \A d \in Calls : d # c => told'[d] = told[d]
  BY <1>1 DEF Types, Works
<1>4. /\ call' \in [Calls -> CallRecords] /\ \A d \in Calls : d # c => call'[d] = call[d]
      /\ call'[c].state = call[c].state /\ call'[c].rounds = call[c].rounds /\ (call'[c].asked <=> ~Ended(c))
  <2>1. PICK b \in BOOLEAN : b = ~Ended(c)
    BY DEF Ended
  <2>2. call' = [call EXCEPT ![c].asked = b]
    BY <1>1, <2>1
  <2>3. PICK q \in CallRecords : q = [call[c] EXCEPT !.asked = b]
    BY <1>1 DEF Types, CallRecords
  <2>4. q.state = call[c].state /\ q.rounds = call[c].rounds /\ q.asked = b
    BY <1>1, <2>3 DEF Types, CallRecords
  <2>5. call' = [call EXCEPT ![c] = q] /\ call \in [Calls -> CallRecords]
    BY <1>1, <2>2, <2>3 DEF Types
  <2>6. call'[c] = q /\ call' \in [Calls -> CallRecords] /\ \A d \in Calls : d # c => call'[d] = call[d]
    BY <2>5
  <2> QED
    BY <2>1, <2>4, <2>6
<1>5. Types'
  BY <1>1, <1>2, <1>3, <1>4 DEF Types
<1>6. HeldLine' /\ (\A d : HeldOf(d)' = HeldOf(d)) /\ (Holds(c)' <=> Holds(c)) /\ (Ended(c)' <=> Ended(c))
  BY <1>1, <1>4, HeldSame DEF TurnInv, Holds, Ended
<1>7. \A d \in Calls : d # c => Same(d)
  BY <1>1, <1>2, <1>3, <1>4, <1>6 DEF Same
<1>8. ~Holds(c) /\ call[c].state \notin {"unsent", "over"} /\ \A k \in DOMAIN lane[c] : lane[c][k].kind \notin RoundKinds
  BY <1>1, NoWorkIs DEF OneTurn, LaneRuns, RoundWork
<1>9. OneTurn(c)'
  BY <1>1, <1>2, <1>6, <1>8, NoWorkIs DEF OneTurn, RoundWork
<1>10. call'[c].asked => call[c].state = "inflight"
  BY <1>1, <1>4, <1>8, CallFields DEF Ended, CallStates
<1>11. LaneRuns(c)'
  BY <1>1, <1>2, <1>4, <1>6, <1>8, <1>10, NoWorkIs DEF LaneRuns, Closing
<1>12. OneAwaited(c)'
  <2>1. \A k \in DOMAIN desk[c] : ~desk[c][k].awaited
    <3>1. ~work[c].busy
      BY <1>1 DEF Sends
    <3> QED
      BY <1>1, <3>1 DEF OneAwaited
  <2> QED
    BY <1>1, <2>1 DEF OneAwaited
<1>13. TurnsTold(c)'
  BY <1>1, <1>2, <1>4, <1>6, NoWorkIs DEF TurnsTold
<1>14. TurnCall(c)' /\ connection' = connection
  BY <1>1, <1>9, <1>11, <1>12, <1>13 DEF TurnCall, OwedFew
<1> QED
  BY <1>5, <1>6, <1>7, <1>14, TurnStep

\* The retry cannot be sent.
LEMMA TurnRetryFailed ==
  ASSUME TurnInv, NEW c \in Calls, RetryFailed(c), Sends(c)
  PROVE  TurnInv'
<1>1. /\ Types /\ OneTurn(c) /\ LaneRuns(c) /\ TurnsTold(c) /\ OwedFew(c) /\ OneAwaited(c) /\ work[c].kind = "sending"
      /\ UNCHANGED <<desk, log, owed, adrift, stopped, connection, sweep, received>>
      /\ UNCHANGED <<told, late, dropped>> /\ work' = [work EXCEPT ![c] = NoWork]
      /\ IF Ended(c) THEN UNCHANGED <<call, lane, held, clientAsked, clientTold, cancelled>>
         ELSE call' = Detached(c) /\ held' = Without(held, c) /\ lane' = Queued(c, <<CloseJob>>) /\ ToldClient(c)
  BY DEF TurnInv, RetryFailed, wire, client, host, grants
<1>2. work' \in [Calls -> Works] /\ work'[c] = NoWork /\ \A d \in Calls : d # c => work'[d] = work[d]
  BY <1>1, WorkWritten, NoWorkIs
<1>3. OneAwaited(c)' /\ OwedFew(c)' /\ connection' = connection
  <2>1. \A k \in DOMAIN desk[c] : ~desk[c][k].awaited
    BY <1>1 DEF OneAwaited, Sends
  <2> QED
    BY <1>1, <2>1 DEF OneAwaited, OwedFew
<1>4. ~Holds(c) /\ call[c].state \notin {"unsent", "over"} /\ \A k \in DOMAIN lane[c] : lane[c][k].kind \notin RoundKinds
  BY <1>1, NoWorkIs DEF OneTurn, LaneRuns, RoundWork
<1>5. CASE Ended(c)
  <2>1. UNCHANGED <<call, lane, held, clientAsked, clientTold, cancelled>>
    BY <1>1, <1>5
  <2>2. HeldLine' /\ (\A d : HeldOf(d)' = HeldOf(d)) /\ (Holds(c)' <=> Holds(c)) /\ Ended(c)'
    BY <1>5, <2>1, HeldSame DEF TurnInv, Holds, Ended
  <2>3. Types'
    BY <1>1, <1>2, <2>1 DEF Types
  <2>4. \A d \in Calls : d # c => Same(d)
    BY <1>1, <1>2, <2>1, <2>2 DEF Same
  <2>5. OneTurn(c)'
    BY <1>1, <1>2, <1>4, <2>1, <2>2, NoWorkIs DEF OneTurn, RoundWork
  <2>6. LaneRuns(c)'
    BY <1>1, <1>2, <1>4, <1>5, <2>1, <2>2, NoWorkIs DEF LaneRuns, Closing
  <2>7. TurnsTold(c)'
    BY <1>1, <1>2, <2>1, <2>2, NoWorkIs DEF TurnsTold
  <2> QED
    BY <1>3, <2>2, <2>3, <2>4, <2>5, <2>6, <2>7, TurnStep DEF TurnCall
<1>6. CASE ~Ended(c)
  <2>1. call' = Detached(c) /\ held' = Without(held, c) /\ lane' = Queued(c, <<CloseJob>>) /\ ToldClient(c)
    BY <1>1, <1>6
  <2>2. call[c].state = "inflight" /\ c \notin cancelled /\ clientTold[c] < clientAsked[c]
    BY <1>1, <1>4, <1>6, CallFields DEF Ended, CallStates, TurnsTold
  <2>3. /\ call' \in [Calls -> CallRecords] /\ \A d \in Calls : d # c => call'[d] = call[d]
        /\ call'[c].state = "concluding" /\ ~call'[c].asked /\ call'[c].rounds = call[c].rounds
    BY <1>1, <2>1, DetachedIs
  <2>4. PICK last \in Jobs : last = CloseJob /\ Closing(last)
    BY CloseJobIs DEF Closing
  <2>5. /\ lane' \in [Calls -> Seq(Jobs)] /\ lane'[c] = Append(lane[c], last)
        /\ \A d \in Calls : d # c => lane'[d] = lane[d]
    BY <1>1, <2>1, <2>4, QueuedOne
  <2>6. /\ clientTold' \in [Calls -> Nat] /\ clientTold'[c] = clientTold[c] + 1 /\ clientAsked' = clientAsked /\ cancelled' = cancelled
        /\ clientTold[c] \in Nat /\ clientAsked[c] \in Nat /\ \A d \in Calls : d # c => clientTold'[d] = clientTold[d]
    BY <1>1, <2>1, ToldIs
  <2>7. Types'
    BY <1>1, <1>2, <2>3, <2>5, <2>6 DEF Types
  <2>8. HeldLine' /\ HeldOf(c)' = {} /\ \A d : d # c => HeldOf(d)' = HeldOf(d)
    BY <2>1, HeldWithout DEF TurnInv
  <2>9. \A d \in Calls : d # c => Same(d)
    BY <1>1, <1>2, <2>3, <2>5, <2>6, <2>8 DEF Same
  <2>10. Longer(c, last)
    BY <1>1, <2>5, LongerLane
  <2>11. OneTurn(c)' /\ LaneRuns(c)' /\ Ended(c)' /\ ~Holds(c)'
    BY <1>2, <1>3, <2>2, <2>3, <2>4, <2>8, <2>10, EndedTurn
  <2>12. TurnsTold(c)'
    BY <1>2, <2>2, <2>3, <2>6, <2>11, NoWorkIs DEF TurnsTold
  <2> QED
    BY <1>3, <2>7, <2>8, <2>9, <2>11, <2>12, TurnStep DEF TurnCall
<1> QED
  BY <1>5, <1>6

\* An entry that nobody waits for.
Unheard(what, n) == [Entry(what, n) EXCEPT !.awaited = FALSE]

\* An entry that nobody waits for is well-formed.
LEMMA UnheardIs ==
  ASSUME NEW what \in {"attempt", "outcome", "close"}, NEW n \in Nat
  PROVE  Unheard(what, n) \in Entries /\ Unheard(what, n).what = what /\ Unheard(what, n).n = n /\ ~Unheard(what, n).awaited
BY DEF Unheard, Entry, Entries

\* One more entry that nobody waits for.
LEMMA AwaitedStill ==
  ASSUME TurnInv, NEW c \in Calls, NEW e \in Entries, ~e.awaited, e.what = "close" <=> e.n = 0,
         desk'[c] = Append(desk[c], e), work'[c] = work[c]
  PROVE  OneAwaited(c)'
<1>1. desk[c] \in Seq(Entries) /\ OneAwaited(c)
  BY DEF TurnInv, Types
<1>2. PICK t : t = desk'[c]
  OBVIOUS
<1>3. Extends(t, desk[c], e)
  BY <1>1, <1>2, ExtendsIs
<1>4. /\ \A k \in DOMAIN t : t[k].awaited => k \in DOMAIN desk[c] /\ t[k] = desk[c][k]
      /\ \A k \in DOMAIN t : t[k].what = "close" <=> t[k].n = 0
  BY <1>1, <1>3 DEF Extends, OneAwaited
<1> QED
  BY <1>1, <1>2, <1>4 DEF OneAwaited

\* What the task of a round goes on to hand over.
LEMMA HandedAdrift ==
  ASSUME TurnInv, NEW c \in Calls, HandOverAdrift(c)
  PROVE  LET n == Head(adrift[c])
             e == Unheard(IF IsAttempt(c, n) THEN "attempt" ELSE "outcome", n)
         IN  /\ n \in Events /\ adrift[c] # <<>> /\ adrift[c] \in Seq(Events) /\ connection = "closing"
             /\ e \in Entries /\ e.n = n /\ ~e.awaited /\ e.what = IF IsAttempt(c, n) THEN "attempt" ELSE "outcome"
             /\ desk'[c] = Append(desk[c], e) /\ adrift'[c] = Tail(adrift[c])
             /\ desk' \in [Calls -> Seq(Entries)] /\ adrift' \in [Calls -> Seq(Events)]
             /\ \A d \in Calls : d # c => desk'[d] = desk[d] /\ adrift'[d] = adrift[d]
             /\ UNCHANGED <<call, lane, work, log, owed, held, stopped, connection, sweep, received>>
             /\ UNCHANGED <<clientAsked, clientTold, cancelled, told, late, dropped>>
<1>1. desk \in [Calls -> Seq(Entries)] /\ adrift \in [Calls -> Seq(Events)]
  BY DEF TurnInv, Types
<1>2. PICK n : n = Head(adrift[c])
  OBVIOUS
<1>3. PICK what \in {"attempt", "outcome"} : what = IF IsAttempt(c, n) THEN "attempt" ELSE "outcome"
  OBVIOUS
<1>4. /\ adrift[c] # <<>> /\ connection = "closing"
      /\ desk' = [desk EXCEPT ![c] = Append(@, Unheard(what, n))] /\ adrift' = [adrift EXCEPT ![c] = Tail(@)]
      /\ UNCHANGED <<call, lane, work, log, owed, held, stopped, connection, sweep, received>>
      /\ UNCHANGED <<clientAsked, clientTold, cancelled, told, late, dropped>>
  BY <1>2, <1>3 DEF HandOverAdrift, Unheard, lanes, client, grants
<1>5. n \in Events /\ Tail(adrift[c]) \in Seq(Events) /\ adrift[c] \in Seq(Events)
  BY <1>1, <1>2, <1>4, ShortensIs
<1>6. PICK e \in Entries : e = Unheard(what, n) /\ e.n = n /\ ~e.awaited /\ e.what = what
  BY <1>5, UnheardIs DEF Events
<1>7. Append(desk[c], e) \in Seq(Entries)
  BY <1>1, ExtendsIs
<1>8. /\ desk'[c] = Append(desk[c], e) /\ adrift'[c] = Tail(adrift[c])
      /\ desk' \in [Calls -> Seq(Entries)] /\ adrift' \in [Calls -> Seq(Events)]
      /\ \A d \in Calls : d # c => desk'[d] = desk[d] /\ adrift'[d] = adrift[d]
  BY <1>1, <1>4, <1>5, <1>6, <1>7
<1>9. \A x : x = Head(adrift[c]) => x = n
  BY <1>2
<1> QED
  BY <1>2, <1>3, <1>4, <1>5, <1>6, <1>8

\* HandOverAdrift: an event of a round that was cut goes to the endpoint.
LEMMA TurnHandOverAdrift ==
  ASSUME TurnInv, NEW c \in Calls, HandOverAdrift(c)
  PROVE  TurnInv'
<1>1. PICK e \in Entries :
        /\ e.n # 0 /\ ~e.awaited /\ e.what # "close" /\ connection = "closing"
        /\ desk'[c] = Append(desk[c], e)
        /\ desk' \in [Calls -> Seq(Entries)] /\ adrift' \in [Calls -> Seq(Events)]
        /\ \A d \in Calls : d # c => desk'[d] = desk[d] /\ adrift'[d] = adrift[d]
        /\ UNCHANGED <<call, lane, work, log, owed, held, stopped, connection, sweep, received>>
        /\ UNCHANGED <<clientAsked, clientTold, cancelled, told, late, dropped>>
  BY HandedAdrift DEF Events
<1>2. Types /\ OneTurn(c) /\ LaneRuns(c) /\ TurnsTold(c) /\ OwedFew(c)
  BY DEF TurnInv
<1>3. Types'
  BY <1>1, <1>2 DEF Types
<1>4. HeldLine' /\ (\A d : HeldOf(d)' = HeldOf(d)) /\ (Holds(c)' <=> Holds(c)) /\ (Ended(c)' <=> Ended(c))
  BY <1>1, HeldSame DEF TurnInv, Holds, Ended
<1>5. \A d \in Calls : d # c => Same(d)
  BY <1>1, <1>4 DEF Same
<1>6. OneAwaited(c)'
  BY <1>1, AwaitedStill
<1>7. OneTurn(c)' /\ LaneRuns(c)' /\ TurnsTold(c)' /\ OwedFew(c)'
  BY <1>1, <1>2, <1>4 DEF OneTurn, LaneRuns, TurnsTold, OwedFew, Closing
<1>8. TurnCall(c)' /\ connection' = connection
  BY <1>1, <1>6, <1>7 DEF TurnCall
<1> QED
  BY <1>3, <1>4, <1>5, <1>8, TurnStep

\* A session is closed, whether the endpoint is reached in time or not.
LEMMA SessionClosed ==
  ASSUME TurnInv, NEW c \in Calls, CloseSession(c)
  PROVE  /\ connection = "closing" /\ sweep[c] \in {"due", "cut"}
         /\ sweep'[c] \in {"logged", "quiet"} /\ (sweep'[c] = "quiet" => owed[c] = 0)
         /\ sweep' \in [Calls -> SweepStates] /\ owed'[c] = 0 /\ owed' \in [Calls -> Nat]
         /\ desk' \in [Calls -> Seq(Entries)] /\ (desk'[c] = desk[c] \/ desk'[c] = Append(desk[c], Unheard("close", 0)))
         /\ \A d \in Calls : d # c => desk'[d] = desk[d] /\ sweep'[d] = sweep[d] /\ owed'[d] = owed[d]
         /\ UNCHANGED <<call, lane, work, log, held, adrift, stopped, connection, received>>
         /\ UNCHANGED <<clientAsked, clientTold, cancelled, told, late, dropped>>
<1>1. /\ desk \in [Calls -> Seq(Entries)] /\ owed \in [Calls -> Nat] /\ sweep \in [Calls -> SweepStates]
  BY DEF TurnInv, Types
<1>2. /\ connection = "closing" /\ sweep[c] \in {"due", "cut"}
      /\ \/ sweep' = [sweep EXCEPT ![c] = "logged"]
         \/ owed[c] = 0 /\ sweep' = [sweep EXCEPT ![c] = "quiet"]
      /\ owed' = [owed EXCEPT ![c] = 0]
      /\ desk' = [desk EXCEPT ![c] = Append(@, Unheard("close", 0))] \/ desk' = desk
      /\ UNCHANGED <<call, lane, work, log, held, adrift, stopped, connection, received>>
      /\ UNCHANGED <<clientAsked, clientTold, cancelled, told, late, dropped>>
  BY DEF CloseSession, Unheard, lanes, client, grants
<1>3. PICK e \in Entries : e = Unheard("close", 0)
  BY UnheardIs
<1>4. Append(desk[c], e) \in Seq(Entries)
  BY <1>1, ExtendsIs
<1>5. /\ desk' \in [Calls -> Seq(Entries)] /\ (desk'[c] = desk[c] \/ desk'[c] = Append(desk[c], e))
      /\ \A d \in Calls : d # c => desk'[d] = desk[d]
  BY <1>1, <1>2, <1>3, <1>4
<1>6. PICK s \in {"logged", "quiet"} : sweep' = [sweep EXCEPT ![c] = s] /\ (s = "quiet" => owed[c] = 0)
  BY <1>2
<1>7. sweep' \in [Calls -> SweepStates] /\ sweep'[c] = s /\ \A d \in Calls : d # c => sweep'[d] = sweep[d]
  BY <1>1, <1>6 DEF SweepStates
<1> QED
  BY <1>1, <1>2, <1>3, <1>5, <1>6, <1>7

\* CloseSession: the session is handed to the endpoint to close, from outside its lane.
LEMMA TurnCloseSession ==
  ASSUME TurnInv, NEW c \in Calls, CloseSession(c)
  PROVE  TurnInv'
<1>1. /\ connection = "closing"
      /\ sweep' \in [Calls -> SweepStates] /\ owed'[c] = 0 /\ owed' \in [Calls -> Nat]
      /\ desk' \in [Calls -> Seq(Entries)] /\ (desk'[c] = desk[c] \/ desk'[c] = Append(desk[c], Unheard("close", 0)))
      /\ \A d \in Calls : d # c => desk'[d] = desk[d] /\ sweep'[d] = sweep[d] /\ owed'[d] = owed[d]
      /\ UNCHANGED <<call, lane, work, log, held, adrift, stopped, connection, received>>
      /\ UNCHANGED <<clientAsked, clientTold, cancelled, told, late, dropped>>
  BY SessionClosed
<1>2. Types /\ OneTurn(c) /\ LaneRuns(c) /\ TurnsTold(c) /\ OwedFew(c) /\ OneAwaited(c)
  BY DEF TurnInv
<1>3. Types'
  BY <1>1, <1>2 DEF Types
<1>4. HeldLine' /\ (\A d : HeldOf(d)' = HeldOf(d)) /\ (Holds(c)' <=> Holds(c)) /\ (Ended(c)' <=> Ended(c))
  BY <1>1, HeldSame DEF TurnInv, Holds, Ended
<1>5. \A d \in Calls : d # c => Same(d)
  BY <1>1, <1>4 DEF Same
<1>6. OneAwaited(c)'
  <2>1. CASE desk'[c] = desk[c]
    BY <1>1, <1>2, <2>1 DEF OneAwaited
  <2>2. CASE desk'[c] = Append(desk[c], Unheard("close", 0))
    <3>1. PICK e \in Entries : e = Unheard("close", 0) /\ e.what = "close" /\ e.n = 0 /\ ~e.awaited
      BY UnheardIs
    <3> QED
      BY <1>1, <2>2, <3>1, AwaitedStill
  <2> QED
    BY <1>1, <2>1, <2>2
<1>7. OwedFew(c)'
  <2>1. Len(received[c]) \in Nat
    BY <1>2 DEF Types
  <2> QED
    BY <1>1, <1>2, <2>1 DEF OwedFew
<1>8. OneTurn(c)' /\ LaneRuns(c)' /\ TurnsTold(c)'
  BY <1>1, <1>2, <1>4 DEF OneTurn, LaneRuns, TurnsTold, Closing
<1>9. TurnCall(c)' /\ connection' = connection
  BY <1>1, <1>6, <1>7, <1>8 DEF TurnCall
<1> QED
  BY <1>3, <1>4, <1>5, <1>9, TurnStep

\* A step of all calls.
LEMMA TurnAll ==
  ASSUME Types', HeldLine', \A d \in Calls : TurnCall(d)'
  PROVE  TurnInv'
BY DEF TurnInv, TurnCall

\* Of an endpoint's queue, some entries are kept, in their order.
KeptFrom(t, line, S) ==
  /\ t \in Seq(Entries) /\ Range(t) = Range(line) \cap S
  /\ DOMAIN t = 1..Len(t) /\ Len(t) \in Nat /\ DOMAIN line = 1..Len(line) /\ Len(line) \in Nat
  /\ \A k \in DOMAIN t : t[k] \in S /\ t[k] \in Entries /\ \E a \in DOMAIN line : t[k] = line[a]
  /\ \A j, k \in DOMAIN t : j < k => \E a, b \in DOMAIN line : a < b /\ t[j] = line[a] /\ t[k] = line[b]

\* What is kept of the endpoint's queue is of it, in its order.
LEMMA KeptFromIs ==
  ASSUME NEW line \in Seq(Entries), NEW S
  PROVE  KeptFrom(Kept(line, S), line, S)
<1>1. PICK t : t = Kept(line, S)
  OBVIOUS
<1>2. /\ t \in Seq(Entries) /\ Range(t) = Range(line) \cap S
      /\ \A j, k \in DOMAIN t : j < k => \E a, b \in DOMAIN line : a < b /\ t[j] = line[a] /\ t[k] = line[b]
  BY <1>1, KeptLine
<1>3. DOMAIN t = 1..Len(t) /\ Len(t) \in Nat /\ DOMAIN line = 1..Len(line) /\ Len(line) \in Nat
  BY <1>2
<1>4. \A k \in DOMAIN t : t[k] \in S /\ t[k] \in Entries /\ \E a \in DOMAIN line : t[k] = line[a]
  BY <1>2 DEF Range
<1> QED
  BY <1>1, <1>2, <1>3, <1>4 DEF KeptFrom

\* What is kept is heard as before by a lane that is as busy as before.
LEMMA AwaitedKept ==
  ASSUME NEW c \in Calls, OneAwaited(c), NEW S, KeptFrom(desk'[c], desk[c], S), work'[c].kind = work[c].kind,
         \A e \in S : e.awaited => (work[c].busy => work'[c].busy)
  PROVE  OneAwaited(c)'
<1>1. PICK t : t = desk'[c]
  OBVIOUS
<1>2. KeptFrom(t, desk[c], S)
  BY <1>1
<1>3. \A k \in DOMAIN t : t[k].awaited => work'[c].busy
  BY <1>2 DEF OneAwaited, KeptFrom
<1>4. \A k \in DOMAIN t : (t[k].awaited /\ t[k].what = "close" => work'[c].kind = "close") /\ (t[k].what = "close" <=> t[k].n = 0)
  BY <1>2 DEF OneAwaited, KeptFrom
<1>5. ASSUME NEW j \in DOMAIN t, NEW k \in DOMAIN t, t[j].awaited, t[k].awaited, j < k PROVE FALSE
  <2>1. PICK a, b \in DOMAIN desk[c] : a < b /\ t[j] = desk[c][a] /\ t[k] = desk[c][b]
    BY <1>2, <1>5 DEF KeptFrom
  <2>2. a = b /\ a \in Nat
    BY <1>2, <1>5, <2>1 DEF OneAwaited, KeptFrom
  <2> QED
    BY <2>1, <2>2
<1>6. ASSUME NEW j \in DOMAIN t, NEW k \in DOMAIN t, t[j].awaited, t[k].awaited PROVE j = k
  <2>1. j \in Nat /\ k \in Nat
    BY <1>2 DEF KeptFrom
  <2>2. ~(j < k) /\ ~(k < j)
    BY <1>5, <1>6
  <2> QED
    BY <2>1, <2>2
<1> QED
  BY <1>1, <1>3, <1>4, <1>6 DEF OneAwaited

\* The seam's tasks are cancelled: of the entries that are awaited those of a worker's own stay.
LEMMA StoppedIs ==
  ASSUME TurnInv, Stopped
  PROVE  /\ connection = "up" /\ ~stopped /\ stopped'
         /\ desk' \in [Calls -> Seq(Entries)] /\ work' \in [Calls -> Works]
         /\ \A c \in Calls : /\ KeptFrom(desk'[c], desk[c], {e \in Range(desk[c]) : e.awaited /\ work[c].kind \notin Bounded})
                             /\ work'[c].kind = work[c].kind /\ work'[c].rest = work[c].rest /\ work'[c].accepted = work[c].accepted
                             /\ (work'[c].busy <=> work[c].busy /\ work[c].kind \notin Bounded)
         /\ UNCHANGED <<call, lane, log, owed, held, adrift, connection, sweep, received>>
         /\ UNCHANGED <<clientAsked, clientTold, cancelled, told, late, dropped>>
<1>1. desk \in [Calls -> Seq(Entries)] /\ work \in [Calls -> Works]
  BY DEF TurnInv, Types
<1>2. /\ connection = "up" /\ ~stopped /\ stopped' = TRUE
      /\ desk' = [c \in Calls |-> Kept(desk[c], {e \in Range(desk[c]) : e.awaited /\ work[c].kind \notin Bounded})]
      /\ work' = [c \in Calls |-> [work[c] EXCEPT !.busy = @ /\ work[c].kind \notin Bounded]]
      /\ UNCHANGED <<call, lane, log, owed, held, adrift, connection, sweep, received>>
      /\ UNCHANGED <<clientAsked, clientTold, cancelled, told, late, dropped>>
  BY DEF Stopped, Up, client, grants
<1>3. ASSUME NEW c \in Calls
      PROVE  KeptFrom(desk'[c], desk[c], {e \in Range(desk[c]) : e.awaited /\ work[c].kind \notin Bounded})
  BY <1>1, <1>2, KeptFromIs
<1>4. ASSUME NEW c \in Calls
      PROVE  /\ work'[c] \in Works
             /\ work'[c].kind = work[c].kind /\ work'[c].rest = work[c].rest /\ work'[c].accepted = work[c].accepted
             /\ (work'[c].busy <=> work[c].busy /\ work[c].kind \notin Bounded)
  <2>1. PICK b \in BOOLEAN : b = (work[c].busy /\ work[c].kind \notin Bounded)
    OBVIOUS
  <2>2. PICK w \in Works : w = work[c]
    BY <1>1
  <2>3. PICK q \in Works : q = [w EXCEPT !.busy = b]
    BY DEF Works
  <2>4. q.kind = w.kind /\ q.rest = w.rest /\ q.accepted = w.accepted /\ q.busy = b
    BY <2>3 DEF Works
  <2>5. work'[c] = q
    BY <1>2, <2>1, <2>2, <2>3
  <2> QED
    BY <2>1, <2>2, <2>4, <2>5
<1>5. desk' \in [Calls -> Seq(Entries)] /\ work' \in [Calls -> Works]
  <2>1. \A c \in Calls : desk'[c] \in Seq(Entries)
    BY <1>3 DEF KeptFrom
  <2> QED
    BY <1>2, <1>4, <2>1
<1> QED
  BY <1>2, <1>3, <1>4, <1>5

\* Stopped: what a round's task has at the endpoint is gone with it.
LEMMA TurnStopped == ASSUME TurnInv, Stopped PROVE TurnInv'
<1>1. /\ connection = "up" /\ stopped'
      /\ desk' \in [Calls -> Seq(Entries)] /\ work' \in [Calls -> Works]
      /\ UNCHANGED <<call, lane, log, owed, held, adrift, connection, sweep, received>>
      /\ UNCHANGED <<clientAsked, clientTold, cancelled, told, late, dropped>>
  BY StoppedIs
<1>2. Types'
  <2>1. stopped' \in BOOLEAN
    BY DEF Stopped
  <2> QED
    BY <1>1, <2>1 DEF TurnInv, Types
<1>3. HeldLine' /\ \A d : HeldOf(d)' = HeldOf(d)
  BY <1>1, HeldSame DEF TurnInv
<1>4. ASSUME NEW c \in Calls PROVE TurnCall(c)'
  <2>1. /\ KeptFrom(desk'[c], desk[c], {e \in Range(desk[c]) : e.awaited /\ work[c].kind \notin Bounded})
        /\ work'[c].kind = work[c].kind /\ work'[c].rest = work[c].rest /\ work'[c].accepted = work[c].accepted
        /\ (work'[c].busy <=> work[c].busy /\ work[c].kind \notin Bounded)
    BY StoppedIs
  <2>2. OneTurn(c) /\ LaneRuns(c) /\ TurnsTold(c) /\ OwedFew(c) /\ OneAwaited(c)
    BY DEF TurnInv
  <2>3. OneAwaited(c)'
    <3>1. PICK S : S = {e \in Range(desk[c]) : e.awaited /\ work[c].kind \notin Bounded}
      OBVIOUS
    <3>2. \A e \in S : e.awaited => (work[c].busy => work'[c].busy)
      BY <2>1, <3>1
    <3>3. KeptFrom(desk'[c], desk[c], S)
      BY <2>1, <3>1
    <3> QED
      BY <2>1, <2>2, <3>2, <3>3, AwaitedKept
  <2>4. (Holds(c)' <=> Holds(c)) /\ (Ended(c)' <=> Ended(c))
    BY <1>1, <1>3 DEF Holds, HeldOf, Ended
  <2>5. work[c] = NoWork => work'[c] = NoWork
    <3> SUFFICES ASSUME work[c] = NoWork PROVE work'[c] = NoWork
      OBVIOUS
    <3>1. work'[c] = [NoWork EXCEPT !.busy = @ /\ NoWork.kind \notin Bounded]
      BY DEF Stopped
    <3> QED
      BY <3>1 DEF NoWork, Work
  <2>6. OneTurn(c)' /\ LaneRuns(c)'
    BY <1>1, <2>1, <2>2, <2>4, <2>5 DEF OneTurn, LaneRuns, Closing
  <2>7. TurnsTold(c)' /\ OwedFew(c)'
    BY <1>1, <2>1, <2>2, <2>4 DEF TurnsTold, OwedFew
  <2> QED
    BY <2>3, <2>6, <2>7 DEF TurnCall
<1> QED
  BY <1>2, <1>3, <1>4, TurnAll

\* CloseConnection: calls in flight are cut, and no round is held.
LEMMA TurnCloseConnection == ASSUME TurnInv, CloseConnection PROVE TurnInv'
<1>1. /\ connection = "up" /\ connection' = "draining" /\ held' = <<>>
      /\ sweep' = [c \in Calls |-> IF call[c].state \in {"inflight", "concluding"} THEN "due" ELSE "none"]
      /\ call' = [c \in Calls |-> IF call[c].state = "inflight" THEN [call[c] EXCEPT !.state = "cut", !.asked = FALSE]
                                                                ELSE call[c]]
      /\ UNCHANGED <<lane, work, desk, log, owed, adrift, stopped, received>>
      /\ UNCHANGED <<clientAsked, clientTold, cancelled, told, late, dropped>>
  BY DEF CloseConnection, lanes, host, client, grants
<1>2. Types
  BY DEF TurnInv
<1>3. ASSUME NEW c \in Calls
      PROVE  /\ call'[c] \in CallRecords
             /\ call[c].state = "inflight" => call'[c].state = "cut" /\ ~call'[c].asked
             /\ call[c].state # "inflight" => call'[c] = call[c]
  <2>1. PICK r \in CallRecords : r = call[c]
    BY <1>2, CallFields
  <2>2. PICK q \in CallRecords : q = [r EXCEPT !.state = "cut"]
    BY DEF CallRecords, CallStates
  <2>3. PICK p \in CallRecords : p = [q EXCEPT !.asked = FALSE]
    BY DEF CallRecords
  <2>4. p.state = "cut" /\ ~p.asked
    BY <2>2, <2>3 DEF CallRecords
  <2>5. call'[c] = IF r.state = "inflight" THEN p ELSE r
    BY <1>1, <2>1, <2>2, <2>3
  <2> QED
    BY <2>1, <2>4, <2>5
<1>4. Types'
  <2>1. call' \in [Calls -> CallRecords]
    BY <1>1, <1>3
  <2>2. sweep' \in [Calls -> SweepStates] /\ connection' \in Phases
    BY <1>1 DEF Phases, SweepStates
  <2> QED
    BY <1>1, <1>2, <2>1, <2>2 DEF Types
<1>5. HeldLine' /\ \A d : ~Holds(d)'
  <2>1. PICK t \in Seq(HeldRounds) : t = <<>>
    <3>1. <<>> \in Seq(HeldRounds)
      OBVIOUS
    <3> QED
      BY <3>1
  <2>2. t = held'
    BY <1>1, <2>1
  <2>3. Len(t) = 0 /\ DOMAIN t = {} /\ Range(t) = {} /\ Len(t) <= MaxHeld
    <3>1. Len(t) = 0 /\ DOMAIN t = {}
      BY <2>1
    <3> QED
      BY <3>1, SeamAssumption DEF Range
  <2>4. HeldLine'
    BY <2>2, <2>3 DEF HeldLine
  <2>5. \A d : ~Holds(d)'
    BY <2>2, <2>3 DEF Holds
  <2> QED
    BY <2>4, <2>5
<1>6. ASSUME NEW c \in Calls PROVE TurnCall(c)'
  <2>1. OneTurn(c) /\ LaneRuns(c) /\ TurnsTold(c) /\ OwedFew(c) /\ OneAwaited(c)
    BY DEF TurnInv
  <2>2. ~call'[c].asked /\ call'[c].state # "inflight" /\ (Ended(c) => Ended(c)') /\ ~Holds(c)'
    BY <1>3, <1>5, <2>1 DEF LaneRuns, Ended
  <2>3. (~Ended(c)' => ~Ended(c) /\ call'[c] = call[c]) /\ (call'[c].state \in {"unsent", "over"} => call'[c] = call[c])
    BY <1>3 DEF Ended
  <2>4. OneTurn(c)'
    BY <1>1, <2>1, <2>2 DEF OneTurn
  <2>5. LaneRuns(c)'
    BY <1>1, <2>1, <2>2, <2>3 DEF LaneRuns, Closing
  <2>6. OneAwaited(c)' /\ OwedFew(c)'
    BY <1>1, <2>1 DEF OneAwaited, OwedFew
  <2>7. TurnsTold(c)'
    BY <1>1, <2>1, <2>2, <2>3 DEF TurnsTold
  <2> QED
    BY <2>4, <2>5, <2>6, <2>7 DEF TurnCall
<1> QED
  BY <1>4, <1>5, <1>6, TurnAll

\* The lanes are done, or cut.
LEMMA Drained ==
  ASSUME TurnInv, EndDrain
  PROVE  /\ connection = "draining" /\ connection' = "closing"
         /\ desk' \in [Calls -> Seq(Entries)] /\ work' \in [Calls -> Works] /\ adrift' \in [Calls -> Seq(Events)]
         /\ late' \in [Calls -> SUBSET Events] /\ sweep' \in [Calls -> SweepStates]
         /\ \A c \in Calls :
              /\ work'[c] = NoWork /\ late'[c] = late[c] \cup InProgress(c)
              /\ sweep'[c] = sweep[c] \/ (sweep[c] = "due" /\ sweep'[c] = "cut")
              /\ work[c].kind \in Bounded => Quiet(desk'[c], desk[c])
              /\ work[c].kind \notin Bounded => KeptFrom(desk'[c], desk[c], {e \in Range(desk[c]) : ~e.awaited})
              /\ adrift'[c] = CASE ~stopped /\ work[c].kind \in {"round", "input"} -> work[c].rest
                                [] ~stopped /\ work[c].kind = "abandoned" -> Leftover(c)
                                [] OTHER -> <<>>
         /\ UNCHANGED <<call, lane, log, owed, held, stopped, received>>
         /\ UNCHANGED <<clientAsked, clientTold, cancelled, told, dropped>>
<1>1. /\ late \in [Calls -> SUBSET Events] /\ desk \in [Calls -> Seq(Entries)] /\ work \in [Calls -> Works]
  BY DEF TurnInv, Types
<1>2. /\ connection = "draining" /\ connection' = "closing"
      /\ work' = [c \in Calls |-> NoWork]
      /\ desk' = [c \in Calls |-> IF work[c].kind \in Bounded THEN Background(c)[c]
                                                              ELSE Kept(desk[c], {e \in Range(desk[c]) : ~e.awaited})]
      /\ adrift' = [c \in Calls |-> CASE ~stopped /\ work[c].kind \in {"round", "input"} -> work[c].rest
                                      [] ~stopped /\ work[c].kind = "abandoned" -> Leftover(c)
                                      [] OTHER -> <<>>]
      /\ late' = [c \in Calls |-> late[c] \cup InProgress(c)]
      /\ sweep' = [c \in Calls |-> IF /\ sweep[c] = "due" /\ work[c] # NoWork
                                      /\ stopped \/ call[c].state # "concluding" \/ work[c].kind = "close"
                                   THEN "cut" ELSE sweep[c]]
      /\ UNCHANGED <<call, lane, log, owed, held, stopped, received>>
      /\ UNCHANGED <<clientAsked, clientTold, cancelled, told, dropped>>
  BY DEF EndDrain, client
<1>3. ASSUME NEW c \in Calls
      PROVE  /\ desk'[c] \in Seq(Entries)
             /\ work[c].kind \in Bounded => Quiet(desk'[c], desk[c])
             /\ work[c].kind \notin Bounded => KeptFrom(desk'[c], desk[c], {e \in Range(desk[c]) : ~e.awaited})
  <2>1. CASE work[c].kind \in Bounded
    <3>1. desk'[c] = Background(c)[c]
      BY <1>2, <2>1
    <3>2. Background(c)[c] \in Seq(Entries) /\ Quiet(Background(c)[c], desk[c])
      BY BackgroundIs
    <3> QED
      BY <2>1, <3>1, <3>2
  <2>2. CASE work[c].kind \notin Bounded
    <3>1. desk'[c] = Kept(desk[c], {e \in Range(desk[c]) : ~e.awaited})
      BY <1>2, <2>2
    <3>2. KeptFrom(desk'[c], desk[c], {e \in Range(desk[c]) : ~e.awaited})
      BY <1>1, <3>1, KeptFromIs
    <3> QED
      BY <2>2, <3>2 DEF KeptFrom
  <2> QED
    BY <2>1, <2>2
<1>4. ASSUME NEW c \in Calls PROVE adrift'[c] \in Seq(Events)
  <2>1. work[c].rest \in Seq(Events) /\ Leftover(c) \in Seq(Events) /\ <<>> \in Seq(Events)
    BY <1>1, LeftoverIs DEF Works
  <2>2. adrift'[c] \in {work[c].rest, Leftover(c), <<>>}
    BY <1>2
  <2> QED
    BY <2>1, <2>2
<1>5. ASSUME NEW c \in Calls PROVE InProgress(c) \subseteq Events
  <2>1. \A k \in DOMAIN desk[c] : desk[c][k] \in Entries
    BY <1>1
  <2>2. \A k \in DOMAIN desk[c] : desk[c][k].what = "attempt" => desk[c][k].n # 0
    BY DEF TurnInv, OneAwaited
  <2> QED
    BY <2>1, <2>2 DEF InProgress, Entries, Events
<1>6. desk' \in [Calls -> Seq(Entries)] /\ adrift' \in [Calls -> Seq(Events)]
  BY <1>2, <1>3, <1>4
<1>7. work' \in [Calls -> Works] /\ late' \in [Calls -> SUBSET Events]
  BY <1>1, <1>2, <1>5, NoWorkIs
<1>8. ASSUME NEW c \in Calls
      PROVE  /\ work'[c] = NoWork /\ late'[c] = late[c] \cup InProgress(c)
             /\ adrift'[c] = CASE ~stopped /\ work[c].kind \in {"round", "input"} -> work[c].rest
                               [] ~stopped /\ work[c].kind = "abandoned" -> Leftover(c)
                               [] OTHER -> <<>>
  BY <1>2
<1>9. ASSUME NEW c \in Calls PROVE sweep'[c] = sweep[c] \/ (sweep[c] = "due" /\ sweep'[c] = "cut")
  BY <1>2
<1>10. sweep' \in [Calls -> SweepStates]
  <2>1. sweep \in [Calls -> SweepStates]
    BY DEF TurnInv, Types
  <2> QED
    BY <1>2, <1>9, <2>1 DEF SweepStates
<1> QED
  BY <1>2, <1>3, <1>6, <1>7, <1>8, <1>9, <1>10

\* EndDrain: every job at work is cut.
LEMMA TurnEndDrain == ASSUME TurnInv, EndDrain PROVE TurnInv'
<1>1. /\ connection = "draining" /\ connection' = "closing"
      /\ desk' \in [Calls -> Seq(Entries)] /\ work' \in [Calls -> Works] /\ adrift' \in [Calls -> Seq(Events)]
      /\ late' \in [Calls -> SUBSET Events] /\ sweep' \in [Calls -> SweepStates]
      /\ \A c \in Calls : /\ work'[c] = NoWork
                          /\ work[c].kind \in Bounded => Quiet(desk'[c], desk[c])
                          /\ work[c].kind \notin Bounded => KeptFrom(desk'[c], desk[c], {e \in Range(desk[c]) : ~e.awaited})
      /\ UNCHANGED <<call, lane, log, owed, held, stopped, received>>
      /\ UNCHANGED <<clientAsked, clientTold, cancelled, told, dropped>>
  BY Drained
<1>2. Types'
  BY <1>1 DEF TurnInv, Types, Phases
<1>3. HeldLine' /\ \A d : HeldOf(d)' = HeldOf(d)
  BY <1>1, HeldSame DEF TurnInv
<1>4. ASSUME NEW c \in Calls PROVE TurnCall(c)'
  <2>1. OneTurn(c) /\ LaneRuns(c) /\ TurnsTold(c) /\ OwedFew(c) /\ OneAwaited(c)
    BY DEF TurnInv
  <2>2. (Holds(c)' <=> Holds(c)) /\ (Ended(c)' <=> Ended(c)) /\ work'[c] = NoWork
    BY <1>1, <1>3 DEF Holds, HeldOf, Ended
  <2>3. OneAwaited(c)'
    <3>1. PICK t : t = desk'[c]
      OBVIOUS
    <3>2. \A k \in DOMAIN t : ~t[k].awaited /\ (t[k].what = "close" <=> t[k].n = 0)
      <4>1. CASE work[c].kind \in Bounded
        BY <1>1, <2>1, <3>1, <4>1 DEF Quiet, OneAwaited
      <4>2. CASE work[c].kind \notin Bounded
        <5>1. KeptFrom(t, desk[c], {e \in Range(desk[c]) : ~e.awaited})
          BY <1>1, <3>1, <4>2
        <5> QED
          BY <2>1, <5>1 DEF KeptFrom, OneAwaited
      <4> QED
        BY <4>1, <4>2
    <3> QED
      BY <3>1, <3>2 DEF OneAwaited
  <2>4. OneTurn(c)'
    BY <1>1, <2>1, <2>2, NoWorkIs DEF OneTurn, RoundWork
  <2>5. call[c].state # "inflight"
    BY <1>1, <2>1 DEF LaneRuns
  <2>6. LaneRuns(c)'
    BY <1>1, <2>1, <2>2, <2>5, NoWorkIs DEF LaneRuns, Closing
  <2>7. TurnsTold(c)' /\ OwedFew(c)'
    BY <1>1, <2>1, <2>2, NoWorkIs DEF TurnsTold, OwedFew
  <2> QED
    BY <2>3, <2>4, <2>6, <2>7 DEF TurnCall
<1> QED
  BY <1>2, <1>3, <1>4, TurnAll

\* Stop: the seam's tasks are stopped.
LEMMA TurnStop == ASSUME TurnInv, Stop PROVE TurnInv'
<1>1. /\ connection = "closing" /\ connection' = "closed"
      /\ UNCHANGED <<call, lane, work, desk, log, owed, held, adrift, stopped, sweep, received>>
      /\ UNCHANGED <<clientAsked, clientTold, cancelled, told, late, dropped>>
  BY DEF Stop, lanes, host, client, grants
<1>2. Types'
  BY <1>1 DEF TurnInv, Types, Phases
<1>3. HeldLine' /\ \A d : HeldOf(d)' = HeldOf(d)
  BY <1>1, HeldSame DEF TurnInv
<1>4. ASSUME NEW c \in Calls PROVE TurnCall(c)'
  <2>1. OneTurn(c) /\ LaneRuns(c) /\ TurnsTold(c) /\ OwedFew(c) /\ OneAwaited(c)
    BY DEF TurnInv
  <2>2. (Holds(c)' <=> Holds(c)) /\ (Ended(c)' <=> Ended(c)) /\ call[c].state # "inflight"
    BY <1>1, <1>3, <2>1 DEF Holds, HeldOf, Ended, LaneRuns
  <2>3. OneTurn(c)' /\ LaneRuns(c)'
    BY <1>1, <2>1, <2>2 DEF OneTurn, LaneRuns, Closing
  <2>4. OneAwaited(c)' /\ TurnsTold(c)' /\ OwedFew(c)'
    BY <1>1, <2>1, <2>2 DEF OneAwaited, TurnsTold, OwedFew
  <2> QED
    BY <2>3, <2>4 DEF TurnCall
<1> QED
  BY <1>2, <1>3, <1>4, TurnAll

\* Nothing is left of a round whose retry is being sent.
SendInv == \A c \in Calls : Sends(c)

\* Work that sends a retry has nothing left to hand over, after every step.
LEMMA SendStep == ASSUME TurnInv, SendInv, Next PROVE SendInv'
<1>1. work \in [Calls -> Works]
  BY DEF TurnInv, Types
<1>2. CASE work' = work
  BY <1>2 DEF SendInv, Sends
<1>3. ASSUME NEW c \in Calls, NEW w \in Works, work' = [work EXCEPT ![c] = w], w.kind = "sending" => w.rest = <<>> /\ ~w.busy
      PROVE  SendInv'
  BY <1>1, <1>3 DEF SendInv, Sends
<1>4. ASSUME NEW c \in Calls, work' \in [Calls -> Works], work'[c].kind = "sending" => work'[c].rest = <<>> /\ ~work'[c].busy,
             \A d \in Calls : d # c => work'[d] = work[d]
      PROVE  SendInv'
  BY <1>1, <1>4 DEF SendInv, Sends
<1>5. ASSUME NEW c \in Calls, TakeJob(c) PROVE SendInv'
  <2>1. PICK job : job = Head(lane[c])
    OBVIOUS
  <2>2. SkipRound(c, job) \/ BeginAbandon(c, job) \/ BeginRound(c, job) \/ BeginOther(c, job)
    BY <1>5, <2>1 DEF TakeJob
  <2>3. job.events \in Seq(Events)
    <3>1. lane[c] \in Seq(Jobs) /\ lane[c] # <<>>
      BY <1>5 DEF TakeJob, TurnInv, Types
    <3>2. job \in Jobs
      BY <2>1, <3>1, ShortensIs
    <3> QED
      BY <3>2 DEF Jobs
  <2>4. CASE SkipRound(c, job)
    BY <1>2, <2>4 DEF SkipRound
  <2>5. CASE BeginAbandon(c, job)
    <3>1. "abandoned" \in WorkKinds
      BY DEF WorkKinds
    <3>2. PICK w \in Works : w = Work("abandoned", job.events) /\ w.kind = "abandoned"
      <4>1. Work("abandoned", job.events) \in Works /\ Work("abandoned", job.events).kind = "abandoned"
        BY <2>3, <3>1, WorkIs
      <4> QED
        BY <4>1
    <3> QED
      BY <1>3, <2>5, <3>2 DEF BeginAbandon
  <2>6. CASE BeginRound(c, job) \/ BeginOther(c, job)
    <3>1. job.kind \in WorkKinds /\ job.kind # "sending" /\ work' = [work EXCEPT ![c] = Work(job.kind, job.events)]
      BY <2>6 DEF BeginRound, BeginOther, WorkKinds
    <3>2. PICK w \in Works : w = Work(job.kind, job.events) /\ w.kind = job.kind
      <4>1. Work(job.kind, job.events) \in Works /\ Work(job.kind, job.events).kind = job.kind
        BY <2>3, <3>1, WorkIs
      <4> QED
        BY <4>1
    <3> QED
      BY <1>3, <3>1, <3>2
  <2> QED
    BY <2>2, <2>4, <2>5, <2>6
<1>6. ASSUME NEW c \in Calls, HandOver(c) PROVE SendInv'
  <2>1. work[c].rest # <<>> /\ work' \in [Calls -> Works] /\ work'[c].kind = work[c].kind /\ \A d \in Calls : d # c => work'[d] = work[d]
    BY <1>6, HandedOver
  <2> QED
    BY <1>4, <2>1 DEF SendInv, Sends
<1>7. ASSUME NEW c \in Calls, JobDone(c) PROVE SendInv'
  <2>1. "close" \in WorkKinds /\ <<>> \in Seq(Events)
    BY DEF WorkKinds
  <2>2. PICK w \in Works : w = Work("close", <<>>) /\ w.kind = "close"
    <3>1. Work("close", <<>>) \in Works /\ Work("close", <<>>).kind = "close"
      BY <2>1, WorkIs
    <3> QED
      BY <3>1
  <2>3. work' = [work EXCEPT ![c] = IF work[c].kind = "conclude" THEN w ELSE NoWork]
    BY <1>7, <2>2 DEF JobDone
  <2> QED
    BY <1>3, <2>2, <2>3, NoWorkIs
<1>8. ASSUME NEW c \in Calls, BeginClose(c) PROVE SendInv'
  <2>1. work' \in [Calls -> Works] /\ work'[c].kind = "close" /\ \A d \in Calls : d # c => work'[d] = work[d]
    BY <1>8, ClosingBegun
  <2> QED
    BY <1>4, <2>1
<1>9. ASSUME NEW c \in Calls, WaitOver(c) PROVE SendInv'
  <2>1. CASE EndedMeanwhile(c)
    <3>1. Leftover(c) \in Seq(Events) /\ "seal" \in WorkKinds
      BY LeftoverIs DEF WorkKinds
    <3>2. PICK w \in Works : w = Work("seal", Leftover(c)) /\ w.kind = "seal"
      <4>1. Work("seal", Leftover(c)) \in Works /\ Work("seal", Leftover(c)).kind = "seal"
        BY <3>1, WorkIs
      <4> QED
        BY <4>1
    <3>3. work' = [work EXCEPT ![c] = IF Leftover(c) = <<>> THEN NoWork ELSE w]
      BY <2>1, <3>2 DEF EndedMeanwhile
    <3> QED
      BY <1>3, <3>2, <3>3, NoWorkIs
  <2>2. CASE GoesBack(c)
    <3>1. "sending" \in WorkKinds /\ <<>> \in Seq(Events)
      BY DEF WorkKinds
    <3>2. PICK r \in Works : r = Work("sending", <<>>) /\ r.kind = "sending" /\ r.rest = <<>> /\ ~r.busy
      <4>1. Work("sending", <<>>) \in Works /\ Work("sending", <<>>).kind = "sending" /\ Work("sending", <<>>).rest = <<>> /\ ~Work("sending", <<>>).busy
        BY <3>1, WorkIs
      <4> QED
        BY <4>1
    <3>3. PICK A \in SUBSET Events : A = work[c].accepted
      BY <1>1 DEF Works
    <3>4. PICK q \in Works : q = [r EXCEPT !.accepted = A]
      BY DEF Works
    <3>5. q.kind = r.kind /\ q.rest = r.rest /\ (q.busy <=> r.busy)
      BY <3>4 DEF Works
    <3>6. work' = [work EXCEPT ![c] = q]
      BY <2>2, <3>2, <3>3, <3>4 DEF GoesBack
    <3> QED
      BY <1>3, <3>2, <3>5, <3>6
  <2>3. CASE GoesUp(c) \/ Abandoned(c) \/ Answered(c)
    <3>1. work' = [work EXCEPT ![c] = NoWork]
      BY <2>3 DEF GoesUp, Abandoned, Answered
    <3> QED
      BY <1>3, <3>1, NoWorkIs
  <2> QED
    BY <1>9, <2>1, <2>2, <2>3 DEF WaitOver
<1>10. ASSUME NEW c \in Calls, RetrySent(c) \/ RetryFailed(c) PROVE SendInv'
  <2>1. work' = [work EXCEPT ![c] = NoWork]
    BY <1>10 DEF RetrySent, RetryFailed
  <2> QED
    BY <1>3, <2>1, NoWorkIs
<1>11. ASSUME NEW c \in Calls, EndpointDecides(c) PROVE SendInv'
  <2>1. PICK e \in Entries : /\ work' \in [Calls -> Works] /\ \A d \in Calls : d # c => work'[d] = work[d]
                             /\ DecidedAs(c, e)
    BY <1>11, Decided
  <2>2. \/ work'[c] = work[c] \/ work'[c] = NoWork
        \/ work'[c].kind = work[c].kind /\ work'[c].rest = work[c].rest /\ ~work'[c].busy
    BY <2>1 DEF DecidedAs, HeardAs
  <2>3. work'[c].kind = "sending" => work'[c].rest = <<>> /\ ~work'[c].busy
    BY <2>2, NoWorkIs DEF SendInv, Sends
  <2> QED
    BY <1>4, <2>1, <2>3
<1>12. CASE Stopped
  BY <1>12, StoppedIs DEF SendInv, Sends
<1>13. CASE EndDrain
  BY <1>13, Drained, NoWorkIs DEF SendInv, Sends
<1>14. ASSUME NEW c \in Calls,
              Send(c) \/ ClientRetry(c) \/ Cancel(c) \/ CancelNotFound(c) \/ Answer(c) \/ Message(c) \/ HandOverAdrift(c)
              \/ CloseSession(c)
       PROVE  SendInv'
  <2>1. work' = work
    BY <1>14 DEF Send, ClientRetry, Cancel, CancelNotFound, Answer, Message, HandOverAdrift, CloseSession, lanes
  <2> QED
    BY <1>2, <2>1
<1>15. CASE CloseConnection \/ Stop
  BY <1>2, <1>15 DEF CloseConnection, Stop, lanes
<1> QED
  BY <1>5, <1>6, <1>7, <1>8, <1>9, <1>10, <1>11, <1>12, <1>13, <1>14, <1>15 DEF Next, LaneStep

\* Every step keeps the turns.
LEMMA TurnNext == ASSUME TurnInv, SendInv, Next PROVE TurnInv'
<1>1. ASSUME NEW c \in Calls, Send(c) \/ ClientRetry(c) \/ Cancel(c) \/ CancelNotFound(c) \/ Answer(c) \/ Message(c) PROVE TurnInv'
  BY <1>1, TurnSend, TurnClientRetry, TurnCancel, TurnCancelNotFound, TurnAnswer, TurnMessage
<1>2. ASSUME NEW c \in Calls, TakeJob(c) \/ HandOver(c) \/ JobDone(c) \/ BeginClose(c) \/ WaitOver(c) PROVE TurnInv'
  BY <1>2, TurnTake, TurnHandOver, TurnJobDone, TurnBeginClose, TurnWaitOver
<1>3. ASSUME NEW c \in Calls, RetrySent(c) \/ RetryFailed(c) \/ EndpointDecides(c) PROVE TurnInv'
  BY <1>3, TurnRetrySent, TurnRetryFailed, TurnDecides DEF SendInv
<1>4. ASSUME NEW c \in Calls, HandOverAdrift(c) \/ CloseSession(c) PROVE TurnInv'
  BY <1>4, TurnHandOverAdrift, TurnCloseSession
<1>5. CASE Stopped \/ CloseConnection \/ EndDrain \/ Stop
  BY <1>5, TurnStopped, TurnCloseConnection, TurnEndDrain, TurnStop
<1> QED
  BY <1>1, <1>2, <1>3, <1>4, <1>5 DEF Next, LaneStep

\* Initially no lane sends.
LEMMA SendInit == Init => SendInv
BY DEF Init, SendInv, Sends, NoWork, Work

\* Turns are taken in order in every behaviour.
THEOREM TurnsCorrect == Spec => [](TurnInv /\ SendInv)
<1>1. Init => TurnInv /\ SendInv
  BY TurnInit, SendInit
<1>2. TurnInv /\ SendInv /\ [Next]_vars => TurnInv' /\ SendInv'
  <2>1. ASSUME TurnInv, SendInv, Next PROVE TurnInv' /\ SendInv'
    BY <2>1, TurnNext, SendStep
  <2>2. ASSUME TurnInv, SendInv, UNCHANGED vars PROVE TurnInv' /\ SendInv'
    <3>1. work' = work
      BY <2>2 DEF vars, lanes
    <3>2. TurnInv'
      BY <2>2, TurnAside
    <3> QED
      BY <2>2, <3>1, <3>2 DEF SendInv, Sends
  <2> QED
    BY <2>1, <2>2
<1> QED
  BY <1>1, <1>2, PTL DEF Spec

\* The shape of the lanes: a session's close is its lane's last job, and a request is open at the tool only of a call
\* in flight whose round the client does not hold (_follow, _dispatch, _detach).
THEOREM HostSeamTypeCorrect == Spec => []HostSeamTypeOK
<1>1. TurnInv => HostSeamTypeOK
  <2> SUFFICES ASSUME TurnInv PROVE HostSeamTypeOK
    OBVIOUS
  <2>1. Types /\ HeldLine
    BY DEF TurnInv
  <2>2. ASSUME NEW c \in Calls
        PROVE  /\ call[c].state \in CallStates /\ call[c].rounds \in 0..(MaxRounds + 1) /\ owed[c] \in 0..MaxEvents
               /\ received[c] \in Seq(EventKinds) /\ sweep[c] \in SweepStates
               /\ call[c].asked => call[c].state = "inflight" /\ ~Holds(c)
               /\ Holds(c) => call[c].state = "inflight"
               /\ \A k \in DOMAIN lane[c] : lane[c][k].kind \in {"conclude", "close"} => k = Len(lane[c]) /\ Ended(c)
               /\ work[c].kind \in {"conclude", "close"} \/ call[c].state = "over" => lane[c] = <<>>
    <3>1. OneTurn(c) /\ LaneRuns(c) /\ OwedFew(c)
      BY DEF TurnInv
    <3>2. owed[c] \in Nat /\ received[c] \in Seq(EventKinds) /\ Len(received[c]) \in Nat /\ sweep[c] \in SweepStates
      BY <2>1 DEF Types
    <3>3. owed[c] \in 0..MaxEvents
      BY <3>1, <3>2, SeamAssumption DEF OwedFew
    <3> QED
      BY <2>1, <3>1, <3>2, <3>3, CallFields DEF OneTurn, LaneRuns, Closing
  <2> QED
    BY <2>1, <2>2 DEF HostSeamTypeOK, Types, Phases, HeldLine
<1> QED
  BY <1>1, TurnsCorrect, PTL

\* The client is never answered twice for one request, nor, but for the error of a round that was being abandoned already
\* when it cancelled, of a call it cancelled (_outbound, _cancel, _inbound, _abandon).
THEOREM ToldOnceCorrect == Spec => ClientToldOnce
<1>1. ASSUME TurnInv, SendInv, [Next]_vars
      PROVE  [\A c \in Calls : clientTold'[c] # clientTold[c] =>
                clientTold[c] < clientAsked[c] /\ (c \in cancelled => work[c].kind = "abandoned")]_vars
  <2> SUFFICES ASSUME Next, NEW c \in Calls, clientTold'[c] # clientTold[c]
               PROVE  clientTold[c] < clientAsked[c] /\ (c \in cancelled => work[c].kind = "abandoned")
    BY <1>1 DEF vars, client
  <2>1. Types
    BY <1>1 DEF TurnInv
  <2>2. PICK d \in Calls : ToldClient(d) /\ (Answer(d) \/ WaitOver(d) \/ RetryFailed(d))
    <3>1. ~(clientTold' = clientTold)
      OBVIOUS
    <3>2. ASSUME NEW d \in Calls, TakeJob(d) PROVE clientTold' = clientTold
      BY <3>2 DEF TakeJob, client
    <3>3. ASSUME NEW d \in Calls, HandOver(d) \/ JobDone(d) \/ BeginClose(d) \/ RetrySent(d) PROVE clientTold' = clientTold
      BY <3>3 DEF HandOver, JobDone, BeginClose, RetrySent, client
    <3>4. ASSUME NEW d \in Calls, EndpointDecides(d) PROVE clientTold' = clientTold
      BY <1>1, <3>4, Decided
    <3>5. ASSUME NEW d \in Calls, Send(d) \/ ClientRetry(d) \/ Cancel(d) \/ CancelNotFound(d) \/ Message(d) \/ HandOverAdrift(d) \/ CloseSession(d)
          PROVE  clientTold' = clientTold
      BY <3>5 DEF Send, ClientRetry, Cancel, CancelNotFound, Message, HandOverAdrift, CloseSession, client
    <3>6. ASSUME Stopped \/ CloseConnection \/ EndDrain \/ Stop PROVE clientTold' = clientTold
      BY <3>6 DEF Stopped, CloseConnection, EndDrain, Stop, client
    <3>7. ASSUME NEW d \in Calls, Answer(d) PROVE ToldClient(d) \/ clientTold' = clientTold
      BY <3>7 DEF Answer, client
    <3>8. ASSUME NEW d \in Calls, WaitOver(d) PROVE ToldClient(d) \/ clientTold' = clientTold
      BY <3>8 DEF WaitOver, EndedMeanwhile, GoesUp, GoesBack, Abandoned, Answered, client
    <3>9. ASSUME NEW d \in Calls, RetryFailed(d) PROVE ToldClient(d) \/ clientTold' = clientTold
      BY <3>9 DEF RetryFailed, client
    <3> QED
      BY <3>1, <3>2, <3>3, <3>4, <3>5, <3>6, <3>7, <3>8, <3>9 DEF Next, LaneStep
  <2>3. d = c
    BY <2>1, <2>2, ToldIs
  <2>4. OneTurn(c) /\ LaneRuns(c) /\ TurnsTold(c) /\ call[c] \in CallRecords
    BY <1>1, <2>1, CallFields DEF TurnInv
  <2>5. CASE Answer(c)
    BY <2>4, <2>5 DEF Answer, InFlight, OneTurn, TurnsTold, Ended
  <2>6. CASE WaitOver(c)
    <3>1. GoesUp(c) \/ Abandoned(c)
      <4>1. UNCHANGED client => clientTold'[c] = clientTold[c]
        BY DEF client
      <4> QED
        BY <2>6, <4>1 DEF WaitOver, EndedMeanwhile, GoesBack, Answered
    <3>2. CASE Abandoned(c)
      BY <2>4, <3>2 DEF Abandoned, TurnsTold
    <3>3. CASE GoesUp(c)
      <4>1. ~Ended(c) /\ work[c].kind = "input"
        BY <3>3 DEF GoesUp
      <4>2. ~Holds(c) /\ call[c].state = "inflight"
        BY <2>4, <4>1, NoWorkIs DEF OneTurn, LaneRuns, RoundWork, Ended, CallRecords, CallStates
      <4> QED
        BY <2>4, <4>1, <4>2 DEF TurnsTold
    <3> QED
      BY <3>1, <3>2, <3>3
  <2>7. CASE RetryFailed(c)
    <3>1. ~Ended(c) /\ work[c].kind = "sending"
      <4>1. UNCHANGED client => clientTold'[c] = clientTold[c]
        BY DEF client
      <4> QED
        BY <2>7, <4>1 DEF RetryFailed
    <3>2. ~Holds(c) /\ call[c].state = "inflight"
      BY <2>4, <3>1, NoWorkIs DEF OneTurn, LaneRuns, RoundWork, Ended, CallRecords, CallStates
    <3> QED
      BY <2>4, <3>1, <3>2 DEF TurnsTold
  <2> QED
    BY <2>2, <2>3, <2>5, <2>6, <2>7
<1>2. TurnInv /\ SendInv /\ [Next]_vars
        => [\A c \in Calls : clientTold'[c] # clientTold[c] =>
                clientTold[c] < clientAsked[c] /\ (c \in cancelled => work[c].kind = "abandoned")]_vars
  BY <1>1
<1> QED
  BY <1>2, TurnsCorrect, PTL DEF Spec, ClientToldOnce

-----------------------------------------------------------------------------
(* Places: an event is in one place, on its way from the lane to the endpoint. *)

Ascends(line) == \A j, k \in DOMAIN line : j < k => line[j] < line[k]
Below(A, B) == \A a \in A, b \in B : a < b

\* The events of a lane's jobs, and of a queue of the endpoint's.
LineWaits(line) == UNION {Range(line[k].events) : k \in DOMAIN line}
LineHas(line) == {line[k].n : k \in DOMAIN line} \ {0}
LineAscends(line) ==
  /\ \A k \in DOMAIN line : Ascends(line[k].events)
  /\ \A j, k \in DOMAIN line : j < k => Below(Range(line[j].events), Range(line[k].events))

Waiting(c) == LineWaits(lane[c])
AtDesk(c) == LineHas(desk[c])
Logged(c) == Range(log[c]) \ {0}
Ahead(c) == Range(work[c].rest) \cup Waiting(c)
Past(c) == AtDesk(c) \cup Logged(c) \cup Range(adrift[c]) \cup late[c]

\* The lane's events are in the order of their arrival, behind what its work has left, behind what is handed over.
Ordered(c) ==
  /\ LineAscends(lane[c]) /\ Ascends(work[c].rest) /\ Ascends(adrift[c])
  /\ Below(Range(work[c].rest), Waiting(c)) /\ Below(Past(c), Ahead(c))
Within(c) == Past(c) \cup Ahead(c) \cup dropped[c] \subseteq 1..Len(received[c])

\* Tools that report in messages of their own.
Streams(c) == \E f \in Frames[c] : f \in InMessages

\* Behind a round that carries events nothing does.
Carries(job) == job.kind \in RoundKinds /\ job.events # <<>>
AloneLine(line) == \A j, k \in DOMAIN line : Carries(line[k]) /\ j > k => line[j].events = <<>>
AtRound(c) == work[c].kind \in {"round", "input", "abandoned"} /\ work[c].rest # <<>>
RoundsAlone(c) ==
  /\ AloneLine(lane[c]) /\ \A k \in DOMAIN lane[c] : Carries(lane[c][k]) => ~Streams(c)
  /\ AtRound(c) => ~Streams(c) /\ \A k \in DOMAIN lane[c] : lane[c][k].events = <<>>

\* A seal is of outcomes, and what is asked are attempts.
OfKind(c, kind, events) ==
  /\ kind = "seal" => \A n \in events : ~IsAttempt(c, n)
  /\ kind = "ask" => \A n \in events : IsAttempt(c, n)
  /\ kind \in {"close", "sending", "none"} => events = {}
KindsKept(c) ==
  /\ OfKind(c, work[c].kind, Range(work[c].rest))
  /\ \A k \in DOMAIN lane[c] : OfKind(c, lane[c][k].kind, Range(lane[c][k].events))

\* Each event is at the endpoint once, and what is given up, recorded or adrift is not there.
OnceEach(line) == \A j, k \in DOMAIN line : line[j].n = line[k].n /\ line[j].n # 0 => j = k
Apart(c) ==
  /\ OnceEach(desk[c])
  /\ AtDesk(c) \cap Logged(c) = {} /\ AtDesk(c) \cap Range(adrift[c]) = {} /\ Logged(c) \cap Range(adrift[c]) = {}
  /\ dropped[c] \cap (AtDesk(c) \cup Logged(c) \cup Range(adrift[c]) \cup Ahead(c)) = {}
  /\ call[c].state = "unsent" => adrift[c] = <<>>
DeskKinds(c) ==
  /\ \A k \in DOMAIN desk[c] : desk[c][k].what = "attempt" => IsAttempt(c, desk[c][k].n)
  /\ \A k \in DOMAIN desk[c] : desk[c][k].what = "attempt" /\ desk[c][k].awaited => work[c].kind \in {"round", "input", "ask"}

Granted(c) == told[c] \cup UNION {h.accepted : h \in HeldOf(c)}
Grants(c) == Granted(c) \cup work[c].accepted
LoggedAttempts(c) == {n \in Logged(c) : IsAttempt(c, n)}

\* What is granted, or will be, was recorded in time; and of a call that goes on all that was.
GrantsKept(c) ==
  /\ Grants(c) \subseteq Logged(c) \ late[c]
  /\ ~Ended(c) => LoggedAttempts(c) \subseteq Grants(c) \cup late[c]
  /\ \A k \in DOMAIN desk[c] : desk[c][k].awaited => desk[c][k].n \notin late[c]
  /\ ~Ended(c) => \A k \in DOMAIN desk[c] : desk[c][k].what = "attempt" /\ ~desk[c][k].awaited => desk[c][k].n \in late[c]
  /\ work[c].kind \in {"none", "seal"} => work[c].accepted = {}

PlaceCall(c) == Ordered(c) /\ Within(c) /\ RoundsAlone(c) /\ KindsKept(c) /\ Apart(c) /\ DeskKinds(c) /\ GrantsKept(c)
PlaceInv == \A c \in Calls : PlaceCall(c)

\* Initially there are no events.
LEMMA PlaceInit == Init => PlaceInv
<1> SUFFICES ASSUME Init, NEW c \in Calls PROVE PlaceCall(c)
  BY DEF PlaceInv
<1>1. /\ lane[c] = <<>> /\ work[c] = NoWork /\ desk[c] = <<>> /\ log[c] = <<>> /\ adrift[c] = <<>> /\ late[c] = {} /\ dropped[c] = {}
      /\ told[c] = {} /\ held = <<>> /\ received[c] = <<>>
  BY DEF Init
<1>2. Range(<<>>) = {} /\ DOMAIN <<>> = {}
  BY DEF Range
<1>3. Waiting(c) = {} /\ AtDesk(c) = {} /\ Logged(c) = {} /\ Past(c) = {} /\ Ahead(c) = {} /\ HeldOf(c) = {} /\ Granted(c) = {}
  BY <1>1, <1>2, NoWorkIs DEF Waiting, AtDesk, Logged, Past, Ahead, LineWaits, LineHas, HeldOf, Granted
<1>4. Ordered(c) /\ Within(c)
  BY <1>1, <1>2, <1>3, NoWorkIs DEF Ordered, Within, LineAscends, Ascends, Below
<1>5. RoundsAlone(c) /\ KindsKept(c)
  BY <1>1, <1>2, NoWorkIs DEF RoundsAlone, AloneLine, AtRound, KindsKept, OfKind
<1>6. Apart(c) /\ DeskKinds(c)
  BY <1>1, <1>2, <1>3 DEF Apart, DeskKinds, OnceEach
<1>7. GrantsKept(c)
  BY <1>1, <1>2, <1>3, NoWorkIs DEF GrantsKept, Grants, LoggedAttempts
<1> QED
  BY <1>4, <1>5, <1>6, <1>7 DEF PlaceCall

-----------------------------------------------------------------------------
(* What lines carry. *)

\* A lane with one more job.
LEMMA WaitsMore ==
  ASSUME NEW t, NEW line, NEW job, Extends(t, line, job)
  PROVE  /\ LineWaits(t) = LineWaits(line) \cup Range(job.events)
         /\ LineAscends(line) /\ Ascends(job.events) /\ Below(LineWaits(line), Range(job.events)) => LineAscends(t)
         /\ AloneLine(line) /\ (job.events = <<>> \/ \A k \in DOMAIN line : ~Carries(line[k])) => AloneLine(t)
<1>1. LineWaits(t) = LineWaits(line) \cup Range(job.events)
  BY DEF LineWaits, Extends
<1>2. ASSUME LineAscends(line), Ascends(job.events), Below(LineWaits(line), Range(job.events)) PROVE LineAscends(t)
  <2>1. \A k \in DOMAIN t : Ascends(t[k].events)
    BY <1>2 DEF Extends, LineAscends
  <2>2. ASSUME NEW j \in DOMAIN t, NEW k \in DOMAIN t, j < k PROVE Below(Range(t[j].events), Range(t[k].events))
    <3>1. j \in DOMAIN line /\ t[j] = line[j]
      BY <2>2 DEF Extends
    <3>2. CASE k \in DOMAIN line
      BY <1>2, <2>2, <3>1, <3>2 DEF Extends, LineAscends
    <3>3. CASE k \notin DOMAIN line
      <4>1. t[k] = job /\ Range(t[j].events) \subseteq LineWaits(line)
        BY <3>1, <3>3 DEF Extends, LineWaits
      <4> QED
        BY <1>2, <4>1 DEF Below
    <3> QED
      BY <3>2, <3>3
  <2> QED
    BY <2>1, <2>2 DEF LineAscends
<1>3. ASSUME AloneLine(line), job.events = <<>> \/ \A k \in DOMAIN line : ~Carries(line[k]) PROVE AloneLine(t)
  <2> SUFFICES ASSUME NEW j \in DOMAIN t, NEW k \in DOMAIN t, Carries(t[k]), j > k PROVE t[j].events = <<>>
    BY DEF AloneLine
  <2>1. k \in DOMAIN line /\ t[k] = line[k]
    BY DEF Extends
  <2> QED
    BY <1>3, <2>1 DEF Extends, AloneLine
<1> QED
  BY <1>1, <1>2, <1>3

\* A lane without its first job.
LEMMA WaitsLess ==
  ASSUME NEW t, NEW line, Shortens(t, line)
  PROVE  /\ LineWaits(line) = Range(Head(line).events) \cup LineWaits(t)
         /\ LineAscends(line) => LineAscends(t) /\ Ascends(Head(line).events) /\ Below(Range(Head(line).events), LineWaits(t))
         /\ AloneLine(line) => AloneLine(t) /\ (Carries(Head(line)) => \A k \in DOMAIN t : t[k].events = <<>>)
<1>1. \A k \in DOMAIN line : k = 1 \/ (k - 1 \in DOMAIN t /\ t[k - 1] = line[k])
  BY DEF Shortens
<1>2. LineWaits(line) = Range(Head(line).events) \cup LineWaits(t)
  BY <1>1 DEF LineWaits, Shortens
<1>3. ASSUME LineAscends(line)
      PROVE  LineAscends(t) /\ Ascends(Head(line).events) /\ Below(Range(Head(line).events), LineWaits(t))
  <2>1. Ascends(Head(line).events) /\ \A k \in DOMAIN t : Ascends(t[k].events)
    BY <1>3 DEF LineAscends, Shortens
  <2>2. ASSUME NEW j \in DOMAIN t, NEW k \in DOMAIN t, j < k PROVE Below(Range(t[j].events), Range(t[k].events))
    <3>1. j + 1 < k + 1 /\ j + 1 \in DOMAIN line /\ k + 1 \in DOMAIN line /\ t[j] = line[j + 1] /\ t[k] = line[k + 1]
      BY <2>2 DEF Shortens
    <3> QED
      BY <1>3, <3>1 DEF LineAscends
  <2>3. ASSUME NEW k \in DOMAIN t PROVE Below(Range(Head(line).events), Range(t[k].events))
    <3>1. 1 < k + 1 /\ 1 \in DOMAIN line /\ k + 1 \in DOMAIN line /\ Head(line) = line[1] /\ t[k] = line[k + 1]
      BY DEF Shortens
    <3> QED
      BY <1>3, <3>1 DEF LineAscends
  <2>4. Below(Range(Head(line).events), LineWaits(t))
    BY <2>3 DEF Below, LineWaits
  <2> QED
    BY <2>1, <2>2, <2>4 DEF LineAscends
<1>4. ASSUME AloneLine(line)
      PROVE  AloneLine(t) /\ (Carries(Head(line)) => \A k \in DOMAIN t : t[k].events = <<>>)
  <2>1. ASSUME NEW j \in DOMAIN t, NEW k \in DOMAIN t, Carries(t[k]), j > k PROVE t[j].events = <<>>
    <3>1. j + 1 > k + 1 /\ j + 1 \in DOMAIN line /\ k + 1 \in DOMAIN line /\ t[j] = line[j + 1] /\ t[k] = line[k + 1]
      BY <2>1 DEF Shortens
    <3> QED
      BY <1>4, <2>1, <3>1 DEF AloneLine
  <2>2. ASSUME Carries(Head(line)), NEW k \in DOMAIN t PROVE t[k].events = <<>>
    <3>1. k + 1 > 1 /\ 1 \in DOMAIN line /\ k + 1 \in DOMAIN line /\ Head(line) = line[1] /\ t[k] = line[k + 1]
      BY DEF Shortens
    <3> QED
      BY <1>4, <2>2, <3>1 DEF AloneLine
  <2> QED
    BY <2>1, <2>2 DEF AloneLine
<1> QED
  BY <1>2, <1>3, <1>4

\* The endpoint's queue with one more entry, and without its first.
LEMMA HasMore ==
  ASSUME NEW t, NEW line, NEW e, Extends(t, line, e)
  PROVE  /\ LineHas(t) = LineHas(line) \cup ({e.n} \ {0})
         /\ OnceEach(line) /\ e.n \notin LineHas(line) => OnceEach(t)
<1>1. LineHas(t) = LineHas(line) \cup ({e.n} \ {0})
  BY DEF LineHas, Extends
<1>2. ASSUME OnceEach(line), e.n \notin LineHas(line), NEW j \in DOMAIN t, NEW k \in DOMAIN t, t[j].n = t[k].n, t[j].n # 0
      PROVE  j = k
  <2>1. CASE j \in DOMAIN line /\ k \in DOMAIN line
    BY <1>2, <2>1 DEF OnceEach, Extends
  <2>2. CASE ~(j \in DOMAIN line /\ k \in DOMAIN line)
    BY <1>2, <2>2 DEF LineHas, Extends
  <2> QED
    BY <2>1, <2>2
<1> QED
  BY <1>1, <1>2 DEF OnceEach

\* The endpoint's queue without its first entry.
LEMMA HasLess ==
  ASSUME NEW t, NEW line, Shortens(t, line), OnceEach(line)
  PROVE  /\ LineHas(line) = LineHas(t) \cup ({line[1].n} \ {0}) /\ OnceEach(t)
         /\ line[1].n # 0 => line[1].n \notin LineHas(t)
<1>1. \A k \in DOMAIN line : k = 1 \/ (k - 1 \in DOMAIN t /\ t[k - 1] = line[k])
  BY DEF Shortens
<1>2. LineHas(line) = LineHas(t) \cup ({line[1].n} \ {0})
  BY <1>1 DEF LineHas, Shortens
<1>3. ASSUME NEW j \in DOMAIN t, NEW k \in DOMAIN t, t[j].n = t[k].n, t[j].n # 0 PROVE j = k
  <2>1. j + 1 = k + 1 /\ j \in Nat /\ k \in Nat
    BY <1>3 DEF OnceEach, Shortens
  <2> QED
    BY <2>1
<1>4. ASSUME line[1].n # 0, NEW k \in DOMAIN t, t[k].n = line[1].n PROVE FALSE
  <2>1. k + 1 = 1 /\ k + 1 > 1 /\ k \in Nat
    BY <1>4 DEF OnceEach, Shortens
  <2> QED
    BY <2>1
<1> QED
  BY <1>2, <1>3, <1>4 DEF OnceEach, LineHas

\* Entries nobody waits for any more, or of which some are kept.
LEMMA HasQuiet == ASSUME NEW t, NEW line, Quiet(t, line) PROVE LineHas(t) = LineHas(line) /\ (OnceEach(line) => OnceEach(t))
BY DEF Quiet, LineHas, OnceEach

\* What is kept of the endpoint's queue has no more than it had.
LEMMA HasKept ==
  ASSUME NEW t, NEW line, NEW S, KeptFrom(t, line, S)
  PROVE  LineHas(t) \subseteq LineHas(line) /\ (OnceEach(line) => OnceEach(t))
<1>1. LineHas(t) \subseteq LineHas(line)
  BY DEF KeptFrom, LineHas
<1>2. ASSUME OnceEach(line), NEW j \in DOMAIN t, NEW k \in DOMAIN t, t[j].n = t[k].n, t[j].n # 0, j < k PROVE FALSE
  <2>1. PICK a, b \in DOMAIN line : a < b /\ t[j] = line[a] /\ t[k] = line[b]
    BY <1>2 DEF KeptFrom
  <2>2. a = b /\ a \in Nat
    BY <1>2, <2>1 DEF OnceEach, KeptFrom
  <2> QED
    BY <2>1, <2>2
<1>3. ASSUME OnceEach(line), NEW j \in DOMAIN t, NEW k \in DOMAIN t, t[j].n = t[k].n, t[j].n # 0 PROVE j = k
  <2>1. j \in Nat /\ k \in Nat
    BY DEF KeptFrom
  <2>2. ~(j < k) /\ ~(k < j)
    BY <1>2, <1>3
  <2> QED
    BY <2>1, <2>2
<1> QED
  BY <1>1, <1>3 DEF OnceEach

\* A rest without its first event.
LEMMA RestLess ==
  ASSUME NEW rest \in Seq(Events), rest # <<>>, Ascends(rest)
  PROVE  /\ Range(rest) = {Head(rest)} \cup Range(Tail(rest)) /\ Ascends(Tail(rest)) /\ Below({Head(rest)}, Range(Tail(rest)))
         /\ Head(rest) \in Events /\ Head(rest) \notin Range(Tail(rest)) /\ Tail(rest) \in Seq(Events)
<1>1. PICK t : t = Tail(rest)
  OBVIOUS
<1>2. Shortens(t, rest) /\ t \in Seq(Events) /\ Head(rest) \in Events
  BY <1>1, ShortensIs
<1>3. Ascends(t)
  <2> SUFFICES ASSUME NEW j \in DOMAIN t, NEW k \in DOMAIN t, j < k PROVE t[j] < t[k]
    BY DEF Ascends
  <2>1. j + 1 < k + 1 /\ j + 1 \in DOMAIN rest /\ k + 1 \in DOMAIN rest /\ t[j] = rest[j + 1] /\ t[k] = rest[k + 1]
    BY <1>2 DEF Shortens
  <2> QED
    BY <2>1 DEF Ascends
<1>4. ASSUME NEW k \in DOMAIN t PROVE Head(rest) < t[k]
  <2>1. 1 < k + 1 /\ 1 \in DOMAIN rest /\ k + 1 \in DOMAIN rest /\ Head(rest) = rest[1] /\ t[k] = rest[k + 1]
    BY <1>2 DEF Shortens
  <2> QED
    BY <2>1 DEF Ascends
<1>5. Below({Head(rest)}, Range(t))
  BY <1>4 DEF Below, Range
<1>6. Head(rest) \notin Range(t)
  <2>1. Head(rest) \in Nat /\ \A n \in Range(t) : Head(rest) < n
    BY <1>2, <1>5 DEF Below, Events
  <2> QED
    BY <2>1
<1> QED
  BY <1>1, <1>2, <1>3, <1>5, <1>6 DEF Shortens

-----------------------------------------------------------------------------
(* Steps that move no event. *)

\* The endpoint's queue keeps what it has, or some of it; a close may come to it.
DeskFrom(c) ==
  /\ OnceEach(desk'[c])
  /\ \A k \in DOMAIN desk'[c] : \/ desk'[c][k].what = "close" /\ desk'[c][k].n = 0
                                \/ \E a \in DOMAIN desk[c] : desk'[c][k] = desk[c][a]

\* A job without events may be queued.
LaneFrom(c) == lane'[c] = lane[c] \/ \E job : Extends(lane'[c], lane[c], job) /\ job.events = <<>>

\* A call whose events stay where they are, or are no more at the endpoint.
LEMMA PlaceStays ==
  ASSUME TurnInv, NEW c \in Calls, PlaceCall(c), LaneFrom(c), DeskFrom(c),
         received'[c] = received[c], log'[c] = log[c], adrift'[c] = adrift[c], late'[c] = late[c], dropped'[c] = dropped[c],
         work'[c].rest = work[c].rest, work'[c].kind = work[c].kind \/ (work[c].rest = <<>> /\ ~work[c].busy),
         Grants(c)' \subseteq Grants(c), ~Ended(c)' => ~Ended(c) /\ Grants(c) \subseteq Grants(c)',
         call'[c].state = "unsent" => call[c].state = "unsent",
         work'[c].kind \in {"none", "seal"} => work'[c].accepted = {}
  PROVE  PlaceCall(c)'
<1> USE DEF PlaceCall
<1>1. Range(<<>>) = {} /\ \A n : IsAttempt(c, n)' <=> IsAttempt(c, n)
  BY DEF Range, IsAttempt
<1>2. /\ Waiting(c)' = Waiting(c) /\ LineAscends(lane'[c]) /\ AloneLine(lane'[c])
      /\ \A k \in DOMAIN lane'[c] : lane'[c][k].events = <<>> \/ (k \in DOMAIN lane[c] /\ lane'[c][k] = lane[c][k])
  <2>1. CASE lane'[c] = lane[c]
    BY <2>1 DEF Waiting, Ordered, RoundsAlone
  <2>2. ASSUME NEW job, Extends(lane'[c], lane[c], job), job.events = <<>>
        PROVE  /\ Waiting(c)' = Waiting(c) /\ LineAscends(lane'[c]) /\ AloneLine(lane'[c])
               /\ \A k \in DOMAIN lane'[c] : lane'[c][k].events = <<>> \/ (k \in DOMAIN lane[c] /\ lane'[c][k] = lane[c][k])
    <3>1. Ascends(job.events) /\ Below(LineWaits(lane[c]), Range(job.events)) /\ LineAscends(lane[c]) /\ AloneLine(lane[c])
      BY <1>1, <2>2 DEF Ascends, Below, Ordered, RoundsAlone
    <3>2. LineWaits(lane'[c]) = LineWaits(lane[c]) /\ LineAscends(lane'[c]) /\ AloneLine(lane'[c])
      <4>1. PICK t : t = lane'[c]
        OBVIOUS
      <4>2. LineWaits(t) = LineWaits(lane[c]) \cup Range(job.events) /\ LineAscends(t) /\ AloneLine(t)
        BY <2>2, <3>1, <4>1, WaitsMore
      <4> QED
        BY <1>1, <2>2, <4>1, <4>2
    <3>3. \A k \in DOMAIN lane'[c] : lane'[c][k].events = <<>> \/ (k \in DOMAIN lane[c] /\ lane'[c][k] = lane[c][k])
      BY <2>2 DEF Extends
    <3> QED
      BY <3>2, <3>3 DEF Waiting
  <2> QED
    BY <2>1, <2>2 DEF LaneFrom
<1>3. AtDesk(c)' \subseteq AtDesk(c)
  BY DEF AtDesk, LineHas, DeskFrom
<1>4. Logged(c)' = Logged(c) /\ Past(c)' \subseteq Past(c) /\ Ahead(c)' = Ahead(c)
  BY <1>2, <1>3 DEF Logged, Past, Ahead
<1>5. Ordered(c)' /\ Within(c)'
  BY <1>2, <1>4 DEF Ordered, Within, Below
<1>6. RoundsAlone(c)'
  <2>1. AtRound(c)' => AtRound(c)
    BY DEF AtRound
  <2>2. \A k \in DOMAIN lane'[c] : Carries(lane'[c][k]) => k \in DOMAIN lane[c] /\ lane'[c][k] = lane[c][k]
    BY <1>2 DEF Carries
  <2> QED
    BY <1>2, <2>1, <2>2 DEF RoundsAlone, Streams
<1>7. KindsKept(c)'
  <2>1. OfKind(c, work[c].kind, Range(work[c].rest)) => OfKind(c, work[c].kind, Range(work[c].rest))'
    BY <1>1 DEF OfKind
  <2>2. ASSUME NEW k \in DOMAIN lane'[c] PROVE OfKind(c, lane[c][k].kind, Range(lane[c][k].events))'
    <3>1. CASE lane'[c][k].events = <<>>
      BY <1>1, <3>1 DEF OfKind
    <3>2. CASE k \in DOMAIN lane[c] /\ lane'[c][k] = lane[c][k]
      BY <1>1, <3>2 DEF OfKind, KindsKept
    <3> QED
      BY <1>2, <3>1, <3>2
  <2> QED
    BY <2>1, <2>2 DEF KindsKept
<1>8. Apart(c)'
  BY <1>3, <1>4 DEF Apart, DeskFrom
<1>9. DeskKinds(c)'
  <2>1. work'[c].kind = work[c].kind \/ \A k \in DOMAIN desk[c] : ~desk[c][k].awaited
    BY DEF TurnInv, OneAwaited
  <2> QED
    BY <1>1, <2>1 DEF DeskKinds, DeskFrom
<1>10. GrantsKept(c)'
  <2>1. 0 \notin late[c] /\ LoggedAttempts(c)' = LoggedAttempts(c)
    BY <1>1, <1>4 DEF LoggedAttempts, Within, Past
  <2>2. Grants(c)' \subseteq Logged(c)' \ late'[c] /\ (~Ended(c)' => LoggedAttempts(c)' \subseteq Grants(c)' \cup late'[c])
    BY <1>4, <2>1 DEF GrantsKept
  <2>3. \A k \in DOMAIN desk'[c] : desk'[c][k].awaited => desk'[c][k].n \notin late'[c]
    BY <2>1 DEF GrantsKept, DeskFrom
  <2>4. ~Ended(c)' => \A k \in DOMAIN desk'[c] : desk'[c][k].what = "attempt" /\ ~desk'[c][k].awaited => desk'[c][k].n \in late'[c]
    BY DEF GrantsKept, DeskFrom
  <2> QED
    BY <2>2, <2>3, <2>4 DEF GrantsKept
<1> QED
  BY <1>5, <1>6, <1>7, <1>8, <1>9, <1>10

\* A close that comes to the endpoint's queue.
LEMMA DeskFromIs ==
  ASSUME NEW c \in Calls, PlaceCall(c), desk'[c] = desk[c] \/ \E e : Extends(desk'[c], desk[c], e) /\ e.n = 0 /\ e.what = "close"
  PROVE  DeskFrom(c)
<1>1. OnceEach(desk[c])
  BY DEF PlaceCall, Apart
<1>2. CASE desk'[c] = desk[c]
  BY <1>1, <1>2 DEF DeskFrom
<1>3. ASSUME NEW e, Extends(desk'[c], desk[c], e), e.n = 0, e.what = "close" PROVE DeskFrom(c)
  <2>1. e.n \notin LineHas(desk[c])
    BY <1>3 DEF LineHas
  <2>2. OnceEach(desk'[c])
    BY <1>1, <1>3, <2>1, HasMore
  <2>3. \A k \in DOMAIN desk'[c] : desk'[c][k] = e \/ (k \in DOMAIN desk[c] /\ desk'[c][k] = desk[c][k])
    BY <1>3 DEF Extends
  <2> QED
    BY <1>3, <2>2, <2>3 DEF DeskFrom
<1> QED
  BY <1>2, <1>3

\* A call whose events stay where they are.
LEMMA PlaceKept ==
  ASSUME TurnInv, NEW c \in Calls, PlaceCall(c),
         received'[c] = received[c], log'[c] = log[c], adrift'[c] = adrift[c], late'[c] = late[c], dropped'[c] = dropped[c],
         lane'[c] = lane[c] \/ \E job : Extends(lane'[c], lane[c], job) /\ job.events = <<>>,
         desk'[c] = desk[c] \/ \E e : Extends(desk'[c], desk[c], e) /\ e.n = 0 /\ e.what = "close",
         work'[c].rest = work[c].rest, work'[c].kind = work[c].kind \/ (work[c].rest = <<>> /\ ~work[c].busy),
         Grants(c)' \subseteq Grants(c), ~Ended(c)' => ~Ended(c) /\ Grants(c) \subseteq Grants(c)',
         call'[c].state = "unsent" => call[c].state = "unsent",
         work'[c].kind \in {"none", "seal"} => work'[c].accepted = {}
  PROVE  PlaceCall(c)'
<1>1. DeskFrom(c)
  BY DeskFromIs
<1>2. LaneFrom(c)
  BY DEF LaneFrom
<1> QED
  BY <1>1, <1>2, PlaceStays

\* A call that a step leaves alone.
LEMMA PlaceSame == ASSUME TurnInv, NEW d \in Calls, PlaceCall(d), Same(d) PROVE PlaceCall(d)'
<1>1. Grants(d)' = Grants(d) /\ (Ended(d)' <=> Ended(d))
  BY DEF Same, Grants, Granted, Ended
<1>2. work'[d].kind \in {"none", "seal"} => work'[d].accepted = {}
  BY DEF Same, PlaceCall, GrantsKept
<1> QED
  BY <1>1, <1>2, PlaceKept DEF Same

\* A step of one call.
LEMMA PlaceStep ==
  ASSUME TurnInv, PlaceInv, NEW c \in Calls, PlaceCall(c)', \A d \in Calls : d # c => Same(d)
  PROVE  PlaceInv'
<1>1. ASSUME NEW d \in Calls PROVE PlaceCall(d)'
  BY PlaceSame DEF PlaceInv
<1> QED
  BY <1>1 DEF PlaceInv

\* Send: the call has no events yet.
LEMMA PlaceSend == ASSUME TurnInv, PlaceInv, NEW c \in Calls, Send(c) PROVE PlaceInv'
<1> USE DEF lanes, host, wire, client, grants
<1>1. \A d : HeldOf(d)' = HeldOf(d)
  BY HeldSame DEF TurnInv, Send
<1>2. \A d \in Calls : d # c => Same(d)
  BY <1>1 DEF Same, Send, TurnInv, Types
<1>3. /\ call[c].state = "unsent" /\ call'[c].state = "inflight" /\ work' = work
      /\ UNCHANGED <<lane, desk, log, adrift, received, late, dropped, told>>
  BY DEF Send, TurnInv, Types, CallRecords
<1>4. Grants(c)' = Grants(c) /\ ~Ended(c)
  BY <1>1, <1>3 DEF Grants, Granted, Ended
<1>5. PlaceCall(c) /\ (work[c].kind \in {"none", "seal"} => work[c].accepted = {})
  BY DEF PlaceInv, PlaceCall, GrantsKept
<1>6. PlaceCall(c)'
  BY <1>3, <1>4, <1>5, PlaceKept
<1> QED
  BY <1>2, <1>6, PlaceStep

\* ClientRetry: the answers kept with the held round are granted.
LEMMA PlaceClientRetry == ASSUME TurnInv, PlaceInv, NEW c \in Calls, ClientRetry(c) PROVE PlaceInv'
<1> USE DEF lanes, host, wire
<1>1. PICK h \in Range(held) : h.call = c /\ told' = [told EXCEPT ![c] = @ \cup h.accepted]
  BY DEF ClientRetry
<1>2. /\ held' = Without(held, c) /\ call' = [call EXCEPT ![c].asked = TRUE] /\ work' = work
      /\ clientAsked' = [clientAsked EXCEPT ![c] = @ + 1]
      /\ UNCHANGED <<lane, desk, log, owed, adrift, stopped, connection, sweep, received, clientTold, cancelled, late, dropped>>
  BY DEF ClientRetry
<1>3. HeldOf(c)' = {} /\ \A d : d # c => HeldOf(d)' = HeldOf(d)
  BY <1>2, HeldWithout DEF TurnInv
<1>4. Types
  BY DEF TurnInv
<1>5. \A d \in Calls : d # c => Same(d)
  BY <1>1, <1>2, <1>3, <1>4 DEF Same, Types
<1>6. HeldOf(c) = {h}
  <2>1. PICK k \in DOMAIN held : held[k] = h
    BY DEF Range
  <2>2. ASSUME NEW g \in HeldOf(c) PROVE g = h
    <3>1. PICK j \in DOMAIN held : held[j] = g
      BY DEF HeldOf, Range
    <3>2. g.call = c
      BY DEF HeldOf
    <3> QED
      BY <1>1, <2>1, <3>1, <3>2 DEF TurnInv, HeldLine
  <2>3. h \in HeldOf(c)
    BY <1>1 DEF HeldOf
  <2> QED
    BY <2>2, <2>3
<1>7. told'[c] = told[c] \cup h.accepted
  BY <1>1, <1>4 DEF Types
<1>8. Grants(c)' = Grants(c)
  BY <1>2, <1>3, <1>6, <1>7 DEF Grants, Granted
<1>9. call'[c].state = call[c].state
  BY <1>2, <1>4 DEF Types, CallRecords
<1>10. PlaceCall(c) /\ (work[c].kind \in {"none", "seal"} => work[c].accepted = {})
  BY DEF PlaceInv, PlaceCall, GrantsKept
<1>11. PlaceCall(c)'
  BY <1>2, <1>8, <1>9, <1>10, PlaceKept DEF Ended
<1> QED
  BY <1>5, <1>11, PlaceStep

\* A call that ends with its close queued, or without, and has its round held no more.
LEMMA PlaceEnds ==
  ASSUME TurnInv, NEW c \in Calls, PlaceCall(c), Ended(c)', call'[c].state # "unsent",
         received'[c] = received[c], log'[c] = log[c], adrift'[c] = adrift[c], late'[c] = late[c], dropped'[c] = dropped[c],
         lane'[c] = lane[c] \/ lane'[c] = Append(lane[c], CloseJob), desk'[c] = desk[c], told'[c] = told[c],
         HeldOf(c)' \subseteq HeldOf(c), work'[c] = work[c] \/ (work'[c] = NoWork /\ work[c].rest = <<>> /\ ~work[c].busy)
  PROVE  PlaceCall(c)'
<1>1. lane'[c] = lane[c] \/ Extends(lane'[c], lane[c], CloseJob)
  <2>1. lane[c] \in Seq(Jobs)
    BY DEF TurnInv, Types
  <2> QED
    BY <2>1, ExtendsIs, CloseJobIs
<1>2. CloseJob.events = <<>>
  BY CloseJobIs
<1>3. Grants(c)' \subseteq Grants(c)
  BY NoWorkIs DEF Grants, Granted
<1>4. work'[c].kind \in {"none", "seal"} => work'[c].accepted = {}
  BY NoWorkIs DEF PlaceCall, GrantsKept
<1>5. work'[c].rest = work[c].rest /\ (work'[c].kind = work[c].kind \/ (work[c].rest = <<>> /\ ~work[c].busy))
  BY NoWorkIs
<1> QED
  BY <1>1, <1>2, <1>3, <1>4, <1>5, PlaceKept

\* Cancel: the call ends.
LEMMA PlaceCancel == ASSUME TurnInv, PlaceInv, NEW c \in Calls, Cancel(c) PROVE PlaceInv'
<1> USE DEF host, wire, grants
<1>1. Types
  BY DEF TurnInv
<1>2. /\ call' = Detached(c) /\ held' = Without(held, c) /\ lane' = Queued(c, <<CloseJob>>) /\ cancelled' = cancelled \cup {c}
      /\ UNCHANGED <<work, desk, log, owed, adrift, stopped, connection, sweep, received, clientAsked, clientTold, told, late, dropped>>
  BY DEF Cancel
<1>3. (\A d \in Calls : d # c => call'[d] = call[d]) /\ call'[c].state = "concluding"
  BY <1>1, <1>2, DetachedIs
<1>4. lane'[c] = Append(lane[c], CloseJob) /\ \A d \in Calls : d # c => lane'[d] = lane[d]
  BY <1>1, <1>2, QueuedOne, CloseJobIs
<1>5. HeldOf(c)' = {} /\ \A d : d # c => HeldOf(d)' = HeldOf(d)
  BY <1>2, HeldWithout DEF TurnInv
<1>6. \A d \in Calls : d # c => Same(d)
  BY <1>2, <1>3, <1>4, <1>5 DEF Same
<1>7. PlaceCall(c) /\ Ended(c)'
  BY <1>3 DEF PlaceInv, Ended
<1>8. PlaceCall(c)'
  BY <1>2, <1>3, <1>4, <1>5, <1>7, PlaceEnds
<1> QED
  BY <1>6, <1>8, PlaceStep

\* CancelNotFound: nothing of the call changes.
LEMMA PlaceCancelNotFound == ASSUME TurnInv, PlaceInv, NEW c \in Calls, CancelNotFound(c) PROVE PlaceInv'
<1>1. /\ UNCHANGED <<call, lane, work, desk, log, owed, held, adrift, stopped, connection, sweep, received>>
      /\ UNCHANGED <<clientAsked, clientTold, told, late, dropped>>
      /\ \A d \in Calls : d # c => (d \in cancelled' <=> d \in cancelled)
  BY DEF CancelNotFound, lanes, host, wire, grants
<1>2. \A d : HeldOf(d)' = HeldOf(d)
  BY <1>1, HeldSame DEF TurnInv
<1>3. \A d \in Calls : d # c => Same(d)
  BY <1>1, <1>2 DEF Same
<1>4. Grants(c)' = Grants(c) /\ PlaceCall(c)
  BY <1>1, <1>2 DEF Grants, Granted, PlaceInv
<1>5. work'[c].kind \in {"none", "seal"} => work'[c].accepted = {}
  BY <1>1, <1>4 DEF PlaceCall, GrantsKept
<1>6. PlaceCall(c)'
  BY <1>1, <1>4, <1>5, PlaceKept DEF Ended
<1> QED
  BY <1>3, <1>6, PlaceStep

\* JobDone: nothing of the job is left.
LEMMA PlaceJobDone == ASSUME TurnInv, PlaceInv, NEW c \in Calls, JobDone(c) PROVE PlaceInv'
<1> USE DEF lanes, host, wire, client, grants
<1>1. /\ work[c].kind \in {"seal", "conclude"} /\ ~work[c].busy /\ work[c].rest = <<>>
      /\ UNCHANGED <<call, lane, desk, log, owed, held, adrift, stopped, connection, sweep, received>>
      /\ UNCHANGED <<clientAsked, clientTold, cancelled, told, late, dropped>>
  BY DEF JobDone
<1>2. PICK w \in Works : /\ work' = [work EXCEPT ![c] = w] /\ w.rest = <<>> /\ w.accepted = {}
                         /\ w.kind = IF work[c].kind = "conclude" THEN "close" ELSE "none"
  <2>1. PICK t \in Works : t = Work("close", <<>>) /\ t.kind = "close" /\ t.rest = <<>> /\ t.accepted = {}
    <3>1. "close" \in WorkKinds /\ <<>> \in Seq(Events)
      BY DEF WorkKinds
    <3>2. /\ Work("close", <<>>) \in Works /\ Work("close", <<>>).kind = "close" /\ Work("close", <<>>).rest = <<>>
          /\ Work("close", <<>>).accepted = {}
      BY <3>1, WorkIs
    <3> QED
      BY <3>2
  <2>2. work' = [work EXCEPT ![c] = IF work[c].kind = "conclude" THEN t ELSE NoWork]
    BY <2>1 DEF JobDone
  <2>3. CASE work[c].kind = "conclude"
    BY <2>1, <2>2, <2>3
  <2>4. CASE work[c].kind # "conclude"
    BY <2>2, <2>4, NoWorkIs
  <2> QED
    BY <2>3, <2>4
<1>3. work'[c] = w /\ \A d \in Calls : d # c => work'[d] = work[d]
  BY <1>2, WorkWritten DEF TurnInv
<1>4. \A d : HeldOf(d)' = HeldOf(d)
  BY <1>1, HeldSame DEF TurnInv
<1>5. \A d \in Calls : d # c => Same(d)
  BY <1>1, <1>3, <1>4 DEF Same
<1>6. Grants(c)' \subseteq Grants(c)
  BY <1>1, <1>2, <1>3, <1>4 DEF Grants, Granted
<1>7. PlaceCall(c) /\ (work[c].kind = "seal" => work[c].accepted = {})
  BY DEF PlaceInv, PlaceCall, GrantsKept
<1>8. ~Ended(c) => Grants(c) \subseteq Grants(c)'
  <2>1. ~Ended(c) => work[c].kind = "seal"
    BY <1>1 DEF TurnInv, LaneRuns, Closing
  <2> QED
    BY <1>1, <1>2, <1>3, <1>4, <1>7, <2>1 DEF Grants, Granted
<1>9. PlaceCall(c)'
  BY <1>1, <1>2, <1>3, <1>6, <1>7, <1>8, PlaceKept DEF Ended
<1> QED
  BY <1>5, <1>9, PlaceStep

\* BeginClose: the close is handed over behind all else.
LEMMA PlaceBeginClose == ASSUME TurnInv, PlaceInv, NEW c \in Calls, BeginClose(c) PROVE PlaceInv'
<1>1. PICK e \in Entries :
         /\ e.what = "close" /\ e.n = 0 /\ desk'[c] = Append(desk[c], e)
         /\ work[c].kind = "close" /\ work'[c].kind = work[c].kind /\ work'[c].rest = work[c].rest /\ work'[c].accepted = work[c].accepted
         /\ (\A d \in Calls : d # c => work'[d] = work[d]) /\ (\A d \in Calls : d # c => desk'[d] = desk[d])
         /\ UNCHANGED <<call, lane, log, owed, held, adrift, stopped, connection, sweep, received>>
         /\ UNCHANGED <<clientAsked, clientTold, cancelled, told, late, dropped>>
  BY ClosingBegun
<1>2. \A d : HeldOf(d)' = HeldOf(d)
  BY <1>1, HeldSame DEF TurnInv
<1>3. \A d \in Calls : d # c => Same(d)
  BY <1>1, <1>2 DEF Same
<1>4. Extends(desk'[c], desk[c], e)
  <2>1. desk[c] \in Seq(Entries)
    BY DEF TurnInv, Types
  <2> QED
    BY <1>1, <2>1, ExtendsIs
<1>5. Grants(c)' = Grants(c) /\ PlaceCall(c)
  BY <1>1, <1>2 DEF Grants, Granted, PlaceInv
<1>6. PlaceCall(c)'
  BY <1>1, <1>4, <1>5, PlaceKept DEF Ended
<1> QED
  BY <1>3, <1>6, PlaceStep

\* RetrySent: what was accepted in time is granted.
LEMMA PlaceRetrySent == ASSUME TurnInv, PlaceInv, NEW c \in Calls, RetrySent(c), Sends(c) PROVE PlaceInv'
<1>1. /\ Types /\ work[c].kind = "sending"
      /\ UNCHANGED <<lane, desk, log, owed, held, adrift, stopped, connection, sweep, received>>
      /\ UNCHANGED <<clientAsked, clientTold, cancelled, late, dropped>>
      /\ told' = [told EXCEPT ![c] = @ \cup work[c].accepted] /\ work' = [work EXCEPT ![c] = NoWork]
      /\ call' = [call EXCEPT ![c].asked = ~Ended(c)]
  BY DEF TurnInv, RetrySent, wire, client, host
<1>2. work'[c] = NoWork /\ \A d \in Calls : d # c => work'[d] = work[d]
  BY <1>1, WorkWritten, NoWorkIs
<1>3. told'[c] = told[c] \cup work[c].accepted /\ \A d \in Calls : d # c => told'[d] = told[d]
  BY <1>1 DEF Types
<1>4. call'[c].state = call[c].state /\ \A d \in Calls : d # c => call'[d] = call[d]
  <2>1. PICK b : b = ~Ended(c)
    OBVIOUS
  <2>2. PICK q : q = [call[c] EXCEPT !.asked = b]
    OBVIOUS
  <2>3. q.state = call[c].state
    BY <1>1, <2>2 DEF Types, CallRecords
  <2>4. call' = [call EXCEPT ![c] = q] /\ call \in [Calls -> CallRecords]
    BY <1>1, <2>1, <2>2 DEF Types
  <2> QED
    BY <2>3, <2>4
<1>5. \A d : HeldOf(d)' = HeldOf(d)
  BY <1>1, HeldSame DEF TurnInv
<1>6. \A d \in Calls : d # c => Same(d)
  BY <1>1, <1>2, <1>3, <1>4, <1>5 DEF Same
<1>7. Grants(c)' = Grants(c) /\ PlaceCall(c)
  BY <1>2, <1>3, <1>5, NoWorkIs DEF Grants, Granted, PlaceInv
<1>8. work[c].rest = <<>> /\ ~work[c].busy
  BY <1>1 DEF Sends
<1>9. PlaceCall(c)'
  BY <1>1, <1>2, <1>4, <1>7, <1>8, NoWorkIs, PlaceKept DEF Ended
<1> QED
  BY <1>6, <1>9, PlaceStep

\* RetryFailed: a call that went on ends.
LEMMA PlaceRetryFailed == ASSUME TurnInv, PlaceInv, NEW c \in Calls, RetryFailed(c), Sends(c) PROVE PlaceInv'
<1>1. /\ Types /\ work[c].kind = "sending"
      /\ UNCHANGED <<desk, log, owed, adrift, stopped, connection, sweep, received>>
      /\ UNCHANGED <<told, late, dropped>> /\ work' = [work EXCEPT ![c] = NoWork]
      /\ IF Ended(c) THEN UNCHANGED <<call, lane, held, clientAsked, clientTold, cancelled>>
         ELSE call' = Detached(c) /\ held' = Without(held, c) /\ lane' = Queued(c, <<CloseJob>>) /\ ToldClient(c)
  BY DEF TurnInv, RetryFailed, wire, client, host, grants
<1>2. work'[c] = NoWork /\ work[c].rest = <<>> /\ ~work[c].busy /\ PlaceCall(c) /\ \A d \in Calls : d # c => work'[d] = work[d]
  BY <1>1, WorkWritten, NoWorkIs DEF Sends, PlaceInv
<1>3. CASE Ended(c)
  <2>1. UNCHANGED <<call, lane, held, clientAsked, clientTold, cancelled>>
    BY <1>1, <1>3
  <2>2. \A d : HeldOf(d)' = HeldOf(d)
    BY <2>1, HeldSame DEF TurnInv
  <2>3. \A d \in Calls : d # c => Same(d)
    BY <1>1, <1>2, <2>1, <2>2 DEF Same
  <2>4. Ended(c)' /\ call'[c].state # "unsent"
    BY <1>3, <2>1 DEF Ended
  <2>5. PlaceCall(c)'
    BY <1>1, <1>2, <2>1, <2>2, <2>4, PlaceEnds
  <2> QED
    BY <2>3, <2>5, PlaceStep
<1>4. CASE ~Ended(c)
  <2>1. call' = Detached(c) /\ held' = Without(held, c) /\ lane' = Queued(c, <<CloseJob>>) /\ ToldClient(c)
    BY <1>1, <1>4
  <2>2. (\A d \in Calls : d # c => call'[d] = call[d]) /\ call'[c].state = "concluding" /\ Ended(c)'
    BY <1>1, <2>1, DetachedIs DEF Ended
  <2>3. lane'[c] = Append(lane[c], CloseJob) /\ \A d \in Calls : d # c => lane'[d] = lane[d]
    BY <1>1, <2>1, QueuedOne, CloseJobIs
  <2>4. clientAsked' = clientAsked /\ cancelled' = cancelled /\ \A d \in Calls : d # c => clientTold'[d] = clientTold[d]
    BY <1>1, <2>1, ToldIs
  <2>5. HeldOf(c)' = {} /\ \A d : d # c => HeldOf(d)' = HeldOf(d)
    BY <2>1, HeldWithout DEF TurnInv
  <2>6. \A d \in Calls : d # c => Same(d)
    BY <1>1, <1>2, <2>2, <2>3, <2>4, <2>5 DEF Same
  <2>7. PlaceCall(c)'
    BY <1>1, <1>2, <2>2, <2>3, <2>5, PlaceEnds
  <2> QED
    BY <2>6, <2>7, PlaceStep
<1> QED
  BY <1>3, <1>4

\* CloseConnection: no round is held any more, and calls in flight have ended.
LEMMA PlaceCloseConnection == ASSUME TurnInv, PlaceInv, CloseConnection PROVE PlaceInv'
<1>1. /\ held' = <<>>
      /\ call' = [c \in Calls |-> IF call[c].state = "inflight" THEN [call[c] EXCEPT !.state = "cut", !.asked = FALSE]
                                                                ELSE call[c]]
      /\ UNCHANGED <<lane, work, desk, log, owed, adrift, stopped, received>>
      /\ UNCHANGED <<clientAsked, clientTold, cancelled, told, late, dropped>>
  BY DEF CloseConnection, lanes, host, client, grants
<1>2. \A c : HeldOf(c)' = {}
  <2>1. Range(<<>>) = {}
    BY DEF Range
  <2> QED
    BY <1>1, <2>1 DEF HeldOf
<1>3. ASSUME NEW c \in Calls PROVE PlaceCall(c)'
  <2>1. PlaceCall(c) /\ call[c] \in CallRecords /\ OneTurn(c) /\ LaneRuns(c)
    BY CallFields DEF PlaceInv, TurnInv
  <2>2. CASE call[c].state = "inflight"
    <3>1. call'[c].state = "cut"
      BY <1>1, <2>1, <2>2 DEF CallRecords
    <3>2. Ended(c)' /\ call'[c].state # "unsent" /\ HeldOf(c)' \subseteq HeldOf(c)
      BY <1>2, <3>1 DEF Ended
    <3> QED
      BY <1>1, <2>1, <3>2, PlaceEnds
  <2>3. CASE call[c].state # "inflight"
    <3>1. call'[c] = call[c] /\ (Ended(c)' <=> Ended(c))
      BY <1>1, <2>3 DEF Ended
    <3>2. HeldOf(c) = {}
      BY <2>1, <2>3, HoldsOf DEF LaneRuns
    <3>3. Grants(c)' = Grants(c)
      BY <1>1, <1>2, <3>2 DEF Grants, Granted
    <3>4. work'[c].kind \in {"none", "seal"} => work'[c].accepted = {}
      BY <1>1, <2>1 DEF PlaceCall, GrantsKept
    <3> QED
      BY <1>1, <2>1, <3>1, <3>3, <3>4, PlaceKept
  <2> QED
    BY <2>2, <2>3
<1> QED
  BY <1>3 DEF PlaceInv

\* Stop: nothing moves.
LEMMA PlaceStop == ASSUME TurnInv, PlaceInv, Stop PROVE PlaceInv'
<1>1. \A d : HeldOf(d)' = HeldOf(d)
  BY HeldSame DEF TurnInv, Stop
<1>2. \A d \in Calls : Same(d)
  BY <1>1 DEF Same, Stop, lanes, host, client, grants
<1> QED
  BY <1>2, PlaceSame DEF PlaceInv

\* A stutter.
LEMMA PlaceAside == ASSUME TurnInv, PlaceInv, UNCHANGED vars PROVE PlaceInv'
<1>1. \A d : HeldOf(d)' = HeldOf(d)
  BY HeldSame DEF TurnInv, vars
<1>2. \A d \in Calls : Same(d)
  BY <1>1 DEF Same, vars, lanes, host, wire, client, grants
<1> QED
  BY <1>2, PlaceSame DEF PlaceInv

\* CloseSession: the close is handed over, or is not.
LEMMA PlaceCloseSession == ASSUME TurnInv, PlaceInv, NEW c \in Calls, CloseSession(c) PROVE PlaceInv'
<1>1. /\ desk'[c] = desk[c] \/ desk'[c] = Append(desk[c], Unheard("close", 0))
      /\ \A d \in Calls : d # c => desk'[d] = desk[d] /\ sweep'[d] = sweep[d] /\ owed'[d] = owed[d]
      /\ UNCHANGED <<call, lane, work, log, held, adrift, stopped, connection, received>>
      /\ UNCHANGED <<clientAsked, clientTold, cancelled, told, late, dropped>>
  BY SessionClosed
<1>2. \A d : HeldOf(d)' = HeldOf(d)
  BY <1>1, HeldSame DEF TurnInv
<1>3. \A d \in Calls : d # c => Same(d)
  BY <1>1, <1>2 DEF Same
<1>4. PICK e \in Entries : e = Unheard("close", 0) /\ e.what = "close" /\ e.n = 0
  BY UnheardIs
<1>5. desk'[c] = desk[c] \/ Extends(desk'[c], desk[c], e)
  <2>1. desk[c] \in Seq(Entries)
    BY DEF TurnInv, Types
  <2> QED
    BY <1>1, <1>4, <2>1, ExtendsIs
<1>6. Grants(c)' = Grants(c) /\ PlaceCall(c)
  BY <1>1, <1>2 DEF Grants, Granted, PlaceInv
<1>7. work'[c].kind \in {"none", "seal"} => work'[c].accepted = {}
  BY <1>1, <1>6 DEF PlaceCall, GrantsKept
<1>8. PlaceCall(c)'
  BY <1>1, <1>4, <1>5, <1>6, <1>7, PlaceKept DEF Ended
<1> QED
  BY <1>3, <1>8, PlaceStep

-----------------------------------------------------------------------------
(* Steps that move events. *)

\* Events that are behind others are none of them.
LEMMA Apartness ==
  ASSUME NEW c \in Calls, PlaceCall(c), TurnInv
  PROVE  /\ Past(c) \cap Ahead(c) = {} /\ Range(work[c].rest) \cap Waiting(c) = {}
         /\ Past(c) \subseteq Nat /\ Ahead(c) \subseteq Nat /\ 0 \notin Past(c) /\ 0 \notin Ahead(c) /\ 0 \notin dropped[c]
<1>1. Past(c) \subseteq Nat \ {0} /\ Ahead(c) \subseteq Nat \ {0} /\ dropped[c] \subseteq Nat \ {0}
  <2>1. Len(received[c]) \in Nat
    BY DEF TurnInv, Types
  <2> QED
    BY <2>1 DEF PlaceCall, Within
<1>2. Past(c) \cap Ahead(c) = {}
  <2> SUFFICES ASSUME NEW n, n \in Past(c), n \in Ahead(c) PROVE FALSE
    OBVIOUS
  <2>1. n < n /\ n \in Nat
    BY <1>1 DEF PlaceCall, Ordered, Below
  <2> QED
    BY <2>1
<1>3. Range(work[c].rest) \cap Waiting(c) = {}
  <2> SUFFICES ASSUME NEW n, n \in Range(work[c].rest), n \in Waiting(c) PROVE FALSE
    OBVIOUS
  <2>1. n < n /\ n \in Nat
    BY <1>1 DEF PlaceCall, Ordered, Below, Ahead
  <2> QED
    BY <2>1
<1> QED
  BY <1>1, <1>2, <1>3

\* TakeJob: the first job's events are the work's, or are dropped with it.
LEMMA Taken ==
  ASSUME TurnInv, NEW c \in Calls, TakeJob(c)
  PROVE  /\ Shortens(lane'[c], lane[c]) /\ Head(lane[c]) \in Jobs /\ work[c] = NoWork
         /\ work'[c].accepted = {} /\ HeldOf(c)' \subseteq HeldOf(c)
         /\ \/ /\ work'[c] = NoWork /\ call'[c] = call[c] /\ Ended(c)
               /\ dropped'[c] = dropped[c] \cup Range(Head(lane[c]).events)
            \/ /\ work'[c].rest = Head(lane[c]).events /\ dropped'[c] = dropped[c] /\ ~work'[c].busy
               /\ \/ work'[c].kind = Head(lane[c]).kind
                  \/ work'[c].kind = "abandoned" /\ Head(lane[c]).kind \in RoundKinds
         /\ Ended(c)' \/ (~Ended(c) /\ HeldOf(c)' = HeldOf(c) /\ call'[c].state = call[c].state)
         /\ Ended(c) => Ended(c)'
         /\ \A d \in Calls : d # c => Same(d)
         /\ UNCHANGED <<desk, log, adrift, received, told, late>>
<1> USE DEF host, wire, client
<1>1. /\ Types /\ HeldLine /\ work[c] = NoWork /\ lane[c] # <<>> /\ lane' = [lane EXCEPT ![c] = Tail(@)]
      /\ UNCHANGED <<desk, log, owed, adrift, stopped, connection, sweep, received, clientAsked, clientTold, cancelled, told, late>>
  BY DEF TurnInv, TakeJob
<1>2. lane[c] \in Seq(Jobs) /\ lane'[c] = Tail(lane[c]) /\ \A d \in Calls : d # c => lane'[d] = lane[d]
  BY <1>1 DEF Types
<1>3. PICK job \in Jobs : job = Head(lane[c]) /\ Shortens(lane'[c], lane[c])
  BY <1>1, <1>2, ShortensIs
<1>4. job.kind \in JobKinds /\ job.events \in Seq(Events)
  BY DEF Jobs
<1>5. ASSUME NEW kind \in WorkKinds, work' = [work EXCEPT ![c] = Work(kind, job.events)]
      PROVE  /\ work'[c].kind = kind /\ work'[c].rest = job.events /\ ~work'[c].busy /\ work'[c].accepted = {}
             /\ \A d \in Calls : d # c => work'[d] = work[d]
  <2>1. PICK w \in Works : w = Work(kind, job.events) /\ w.kind = kind /\ w.rest = job.events /\ ~w.busy /\ w.accepted = {}
    <3>1. Work(kind, job.events) \in Works /\ Work(kind, job.events).kind = kind /\ Work(kind, job.events).rest = job.events /\ ~Work(kind, job.events).busy /\ Work(kind, job.events).accepted = {}
      BY <1>4, WorkIs
    <3> QED
      BY <3>1
  <2> QED
    BY <1>1, <1>5, <2>1, WorkWritten
<1>6. CASE SkipRound(c, job)
  <2>1. /\ dropped'[c] = dropped[c] \cup Range(job.events) /\ \A d \in Calls : d # c => dropped'[d] = dropped[d]
    BY <1>1, <1>6 DEF SkipRound, Types
  <2>2. UNCHANGED <<call, work, held>> /\ Ended(c)
    BY <1>6 DEF SkipRound
  <2>3. \A d : HeldOf(d)' = HeldOf(d)
    BY <1>1, <2>2, HeldSame
  <2>4. \A d \in Calls : d # c => Same(d)
    BY <1>1, <1>2, <2>1, <2>2, <2>3 DEF Same
  <2>5. Ended(c)'
    BY <2>2 DEF Ended
  <2> QED
    BY <1>1, <1>3, <2>1, <2>2, <2>3, <2>4, <2>5, NoWorkIs
<1>7. CASE BeginAbandon(c, job)
  <2>1. /\ job.kind \in RoundKinds /\ call' = [Detached(c) EXCEPT ![c].rounds = @ + 1] /\ held' = Without(held, c)
        /\ work' = [work EXCEPT ![c] = Work("abandoned", job.events)] /\ dropped' = dropped
    BY <1>7 DEF BeginAbandon
  <2>2. /\ work'[c].kind = "abandoned" /\ work'[c].rest = job.events /\ ~work'[c].busy /\ work'[c].accepted = {}
        /\ \A d \in Calls : d # c => work'[d] = work[d]
    <3>1. "abandoned" \in WorkKinds
      BY DEF WorkKinds
    <3> QED
      BY <1>5, <2>1, <3>1
  <2>3. HeldOf(c)' = {} /\ \A d : d # c => HeldOf(d)' = HeldOf(d)
    BY <1>1, <2>1, HeldWithout
  <2>4. call'[c].state = "concluding" /\ \A d \in Calls : d # c => call'[d] = call[d]
    <3>1. PICK det \in [Calls -> CallRecords] : det = Detached(c) /\ det[c].state = "concluding" /\ \A d \in Calls : d # c => det[d] = call[d]
      BY <1>1, DetachedIs
    <3>2. call' = [det EXCEPT ![c].rounds = @ + 1]
      BY <2>1, <3>1
    <3>3. call'[c].state = det[c].state
      BY <3>2 DEF CallRecords
    <3> QED
      BY <3>1, <3>2, <3>3
  <2>5. \A d \in Calls : d # c => Same(d)
    BY <1>1, <1>2, <2>1, <2>2, <2>3, <2>4 DEF Same
  <2>6. Ended(c)'
    BY <2>4 DEF Ended
  <2> QED
    BY <1>1, <1>3, <2>1, <2>2, <2>3, <2>5, <2>6
<1>8. CASE BeginRound(c, job)
  <2>1. /\ job.kind \in {"round", "input"} /\ ~Ended(c) /\ call' = [call EXCEPT ![c].rounds = @ + 1]
        /\ work' = [work EXCEPT ![c] = Work(job.kind, job.events)] /\ held' = held /\ dropped' = dropped
    BY <1>8 DEF BeginRound
  <2>2. /\ work'[c].kind = job.kind /\ work'[c].rest = job.events /\ ~work'[c].busy /\ work'[c].accepted = {}
        /\ \A d \in Calls : d # c => work'[d] = work[d]
    <3>1. job.kind \in WorkKinds
      BY <2>1 DEF WorkKinds
    <3> QED
      BY <1>5, <2>1, <3>1
  <2>3. \A d : HeldOf(d)' = HeldOf(d)
    BY <1>1, <2>1, HeldSame
  <2>4. call'[c].state = call[c].state /\ \A d \in Calls : d # c => call'[d] = call[d]
    BY <1>1, <2>1 DEF Types, CallRecords
  <2>5. \A d \in Calls : d # c => Same(d)
    BY <1>1, <1>2, <2>1, <2>2, <2>3, <2>4 DEF Same
  <2> QED
    BY <1>1, <1>3, <2>1, <2>2, <2>3, <2>4, <2>5
<1>9. CASE BeginOther(c, job)
  <2>1. /\ job.kind \in {"conclude", "seal", "ask", "close"} /\ call' = call
        /\ work' = [work EXCEPT ![c] = Work(job.kind, job.events)] /\ held' = held /\ dropped' = dropped
    BY <1>9 DEF BeginOther
  <2>2. /\ work'[c].kind = job.kind /\ work'[c].rest = job.events /\ ~work'[c].busy /\ work'[c].accepted = {}
        /\ \A d \in Calls : d # c => work'[d] = work[d]
    <3>1. job.kind \in WorkKinds
      BY <2>1 DEF WorkKinds
    <3> QED
      BY <1>5, <2>1, <3>1
  <2>3. (\A d : HeldOf(d)' = HeldOf(d)) /\ (Ended(c)' <=> Ended(c))
    BY <1>1, <2>1, HeldSame DEF Ended
  <2>4. \A d \in Calls : d # c => Same(d)
    BY <1>1, <1>2, <2>1, <2>2, <2>3 DEF Same
  <2> QED
    BY <1>1, <1>3, <2>1, <2>2, <2>3, <2>4
<1>10. SkipRound(c, job) \/ BeginAbandon(c, job) \/ BeginRound(c, job) \/ BeginOther(c, job)
  BY <1>3 DEF TakeJob
<1> QED
  BY <1>6, <1>7, <1>8, <1>9, <1>10

\* TakeJob: the first job's events become the work's, or are dropped with a round that is passed over.
LEMMA PlaceTakeJob == ASSUME TurnInv, PlaceInv, NEW c \in Calls, TakeJob(c) PROVE PlaceInv'
<1>1. PICK job \in Jobs : job = Head(lane[c])
  BY Taken
<1>2. /\ Shortens(lane'[c], lane[c]) /\ work[c] = NoWork
      /\ work'[c].accepted = {} /\ HeldOf(c)' \subseteq HeldOf(c)
      /\ \/ /\ work'[c] = NoWork /\ call'[c] = call[c] /\ Ended(c)
            /\ dropped'[c] = dropped[c] \cup Range(job.events)
         \/ /\ work'[c].rest = job.events /\ dropped'[c] = dropped[c] /\ ~work'[c].busy
            /\ \/ work'[c].kind = job.kind
               \/ work'[c].kind = "abandoned" /\ job.kind \in RoundKinds
      /\ Ended(c)' \/ (~Ended(c) /\ HeldOf(c)' = HeldOf(c) /\ call'[c].state = call[c].state)
      /\ Ended(c) => Ended(c)'
      /\ \A d \in Calls : d # c => Same(d)
      /\ UNCHANGED <<desk, log, adrift, received, told, late>>
  BY <1>1, Taken
<1>3. PlaceCall(c)
  BY DEF PlaceInv
<1>4. Range(<<>>) = {} /\ (\A n : IsAttempt(c, n)' <=> IsAttempt(c, n)) /\ work[c].rest = <<>> /\ work[c].accepted = {}
  BY <1>2, NoWorkIs DEF Range, IsAttempt
<1>5. PICK t : t = lane'[c]
  OBVIOUS
<1>6. /\ Waiting(c) = Range(job.events) \cup LineWaits(t) /\ LineAscends(t) /\ Ascends(job.events)
      /\ Below(Range(job.events), LineWaits(t)) /\ AloneLine(t) /\ (Carries(job) => \A k \in DOMAIN t : t[k].events = <<>>)
  <2>1. LineAscends(lane[c]) /\ AloneLine(lane[c]) /\ Shortens(t, lane[c])
    BY <1>2, <1>3, <1>5 DEF PlaceCall, Ordered, RoundsAlone
  <2> QED
    BY <1>1, <2>1, WaitsLess DEF Waiting
<1>7. (\A k \in DOMAIN t : k + 1 \in DOMAIN lane[c] /\ t[k] = lane[c][k + 1]) /\ 1 \in DOMAIN lane[c] /\ job = lane[c][1]
  BY <1>1, <1>2, <1>5 DEF Shortens
<1>8. PICK rest : rest = work'[c].rest
  OBVIOUS
<1>9. /\ Range(rest) \subseteq Range(job.events) /\ Ascends(rest) /\ Below(Range(rest), LineWaits(t))
      /\ Ahead(c)' = Range(rest) \cup LineWaits(t) /\ Ahead(c) = Waiting(c) /\ Past(c)' = Past(c) /\ AtDesk(c)' = AtDesk(c) /\ Logged(c)' = Logged(c)
  <2>1. rest = <<>> \/ rest = job.events
    BY <1>2, <1>8, NoWorkIs
  <2>2. Range(rest) \subseteq Range(job.events) /\ Ascends(rest)
    BY <1>4, <1>6, <2>1 DEF Ascends
  <2> QED
    BY <1>2, <1>4, <1>5, <1>6, <1>8, <2>2 DEF Ahead, Past, Below, Waiting, AtDesk, Logged
<1>10. Range(job.events) \cap LineWaits(t) = {} /\ Past(c) \cap Ahead(c) = {} /\ Ahead(c)' \subseteq Ahead(c)
  <2>1. Past(c) \cap Ahead(c) = {} /\ Ahead(c) \subseteq Nat
    BY <1>3, Apartness
  <2>2. ASSUME NEW n, n \in Range(job.events), n \in LineWaits(t) PROVE FALSE
    <3>1. n < n /\ n \in Nat
      BY <1>6, <1>9, <2>1, <2>2 DEF Below
    <3> QED
      BY <3>1
  <2> QED
    BY <1>6, <1>9, <2>1, <2>2
<1>11. Ordered(c)'
  BY <1>2, <1>3, <1>5, <1>6, <1>8, <1>9, <1>10 DEF PlaceCall, Ordered, Below, Waiting
<1>12. Within(c)'
  <2>1. dropped'[c] \subseteq dropped[c] \cup Ahead(c)
    BY <1>2, <1>6, <1>9
  <2> QED
    BY <1>2, <1>3, <1>9, <1>10, <2>1 DEF PlaceCall, Within
<1>13. RoundsAlone(c)'
  <2>1. \A k \in DOMAIN t : Carries(t[k]) => ~Streams(c)
    BY <1>3, <1>7 DEF PlaceCall, RoundsAlone
  <2>2. AtRound(c)' => Carries(job)
    <3>1. job.kind \in JobKinds
      BY DEF Jobs
    <3> QED
      BY <1>2, <3>1, NoWorkIs DEF AtRound, Carries, JobKinds, RoundKinds
  <2>3. Carries(job) => ~Streams(c)
    BY <1>3, <1>7 DEF PlaceCall, RoundsAlone
  <2> QED
    BY <1>5, <1>6, <2>1, <2>2, <2>3 DEF RoundsAlone, Streams
<1>14. KindsKept(c)'
  <2>1. ASSUME NEW k \in DOMAIN t PROVE OfKind(c, t[k].kind, Range(t[k].events))'
    BY <1>3, <1>4, <1>7 DEF PlaceCall, KindsKept, OfKind
  <2>2. OfKind(c, job.kind, Range(job.events))
    BY <1>3, <1>7 DEF PlaceCall, KindsKept
  <2>3. OfKind(c, work[c].kind, Range(work[c].rest))'
    <3>1. CASE work'[c] = NoWork
      BY <1>4, <3>1, NoWorkIs DEF OfKind
    <3>2. CASE work'[c].kind = job.kind /\ work'[c].rest = job.events
      BY <1>4, <2>2, <3>2 DEF OfKind
    <3>3. CASE work'[c].kind = "abandoned"
      BY <3>3 DEF OfKind
    <3> QED
      BY <1>2, <3>1, <3>2, <3>3
  <2> QED
    BY <1>5, <2>1, <2>3 DEF KindsKept
<1>15. Apart(c)'
  <2>1. dropped'[c] \cap (AtDesk(c) \cup Logged(c) \cup Range(adrift[c])) = {}
    BY <1>2, <1>3, <1>6, <1>9, <1>10 DEF PlaceCall, Apart, Past
  <2>2. dropped'[c] \cap Ahead(c)' = {}
    <3>1. CASE dropped'[c] = dropped[c]
      BY <1>3, <1>10, <3>1 DEF PlaceCall, Apart
    <3>2. CASE work'[c] = NoWork /\ dropped'[c] = dropped[c] \cup Range(job.events)
      <4>1. Range(rest) = {}
        BY <1>4, <1>8, <3>2, NoWorkIs
      <4> QED
        BY <1>3, <1>9, <1>10, <3>2, <4>1 DEF PlaceCall, Apart
    <3> QED
      BY <1>2, <3>1, <3>2
  <2>3. call'[c].state = "unsent" => adrift[c] = <<>>
    BY <1>2, <1>3 DEF PlaceCall, Apart, Ended
  <2> QED
    BY <1>2, <1>3, <1>9, <2>1, <2>2, <2>3 DEF PlaceCall, Apart
<1>16. DeskKinds(c)'
  <2>1. \A k \in DOMAIN desk[c] : ~desk[c][k].awaited
    BY <1>2, IdleAwaits
  <2> QED
    BY <1>2, <1>3, <1>4, <2>1 DEF PlaceCall, DeskKinds
<1>17. GrantsKept(c)'
  <2>1. Grants(c)' \subseteq Grants(c) /\ (~Ended(c)' => ~Ended(c) /\ Grants(c)' = Grants(c))
    BY <1>2, <1>4 DEF Grants, Granted
  <2>2. LoggedAttempts(c)' = LoggedAttempts(c)
    BY <1>4, <1>9 DEF LoggedAttempts
  <2> QED
    BY <1>2, <1>3, <1>9, <2>1, <2>2 DEF PlaceCall, GrantsKept
<1>18. PlaceCall(c)'
  BY <1>11, <1>12, <1>13, <1>14, <1>15, <1>16, <1>17 DEF PlaceCall
<1> QED
  BY <1>2, <1>18, PlaceStep

\* HandOver: the next event goes to the endpoint, or is given up.
LEMMA PlaceHandOver == ASSUME TurnInv, PlaceInv, NEW c \in Calls, HandOver(c) PROVE PlaceInv'
<1> DEFINE asAttempt(n) == IsAttempt(c, n) /\ work[c].kind # "conclude"
           pass(n) == asAttempt(n) /\ work[c].kind = "abandoned"
<1>1. PICK n \in Events, e \in Entries :
         /\ n = Head(work[c].rest) /\ work[c].rest # <<>> /\ work[c].rest \in Seq(Events)
         /\ e.n = n /\ e.awaited /\ e.what = IF asAttempt(n) THEN "attempt" ELSE "outcome"
         /\ work'[c].kind = work[c].kind /\ work'[c].rest = Tail(work[c].rest) /\ work'[c].accepted = work[c].accepted
         /\ (pass(n) => desk' = desk /\ dropped'[c] = dropped[c] \cup {n})
         /\ (~pass(n) => desk'[c] = Append(desk[c], e) /\ dropped'[c] = dropped[c])
         /\ \A d \in Calls : d # c => desk'[d] = desk[d] /\ dropped'[d] = dropped[d] /\ work'[d] = work[d]
         /\ UNCHANGED <<call, lane, log, owed, adrift, stopped, connection, sweep, held, received, clientAsked, clientTold>>
         /\ UNCHANGED <<cancelled, told, late>>
  <2> DEFINE f(n) == Entry(IF asAttempt(n) THEN "attempt" ELSE "outcome", n)
             m == Head(work[c].rest)
  <2>1. /\ m \in Events /\ work[c].rest # <<>> /\ work[c].rest \in Seq(Events)
        /\ f(m) \in Entries /\ f(m).n = m /\ f(m).awaited /\ f(m).what = IF asAttempt(m) THEN "attempt" ELSE "outcome"
    BY HandedOver
  <2>2. /\ work'[c].kind = work[c].kind /\ work'[c].rest = Tail(work[c].rest) /\ work'[c].accepted = work[c].accepted
        /\ (pass(m) => desk' = desk /\ dropped'[c] = dropped[c] \cup {m})
        /\ (~pass(m) => desk'[c] = Append(desk[c], f(m)) /\ dropped'[c] = dropped[c])
    BY HandedOver
  <2>3. \A d \in Calls : d # c => desk'[d] = desk[d] /\ dropped'[d] = dropped[d] /\ work'[d] = work[d]
    BY HandedOver
  <2>4. /\ UNCHANGED <<call, lane, log, owed, adrift, stopped, connection, sweep, held, received, clientAsked, clientTold>>
        /\ UNCHANGED <<cancelled, told, late>>
    BY HandedOver
  <2>5. PICK n \in Events : n = m
    BY <2>1
  <2>6. PICK e \in Entries : e = f(n)
    BY <2>1, <2>5
  <2> HIDE DEF asAttempt, pass, f
  <2> QED
    BY <2>1, <2>2, <2>3, <2>4, <2>5, <2>6
<1> HIDE DEF asAttempt, pass
<1>2. \A d : HeldOf(d)' = HeldOf(d)
  BY <1>1, HeldSame DEF TurnInv
<1>3. \A d \in Calls : d # c => Same(d)
  BY <1>1, <1>2 DEF Same
<1>4. PlaceCall(c) /\ \A m : IsAttempt(c, m)' <=> IsAttempt(c, m)
  BY <1>1 DEF PlaceInv, IsAttempt
<1>5. PICK rest : rest = work[c].rest
  OBVIOUS
<1>6. PICK t : t = Tail(rest)
  OBVIOUS
<1>7. Range(rest) = {n} \cup Range(t) /\ Ascends(t) /\ Below({n}, Range(t)) /\ n \notin Range(t)
  <2>1. Ascends(rest)
    BY <1>4, <1>5 DEF PlaceCall, Ordered
  <2> QED
    BY <1>1, <1>5, <1>6, <2>1, RestLess
<1>8. /\ Waiting(c)' = Waiting(c) /\ Ahead(c) = {n} \cup Range(t) \cup Waiting(c) /\ Ahead(c)' = Range(t) \cup Waiting(c)
      /\ Logged(c)' = Logged(c)
  BY <1>1, <1>5, <1>6, <1>7 DEF Waiting, Ahead, Logged
<1>9. n \notin Past(c) /\ n \notin dropped[c] /\ n \notin Waiting(c) /\ n \in Nat /\ n # 0
  <2>1. Past(c) \cap Ahead(c) = {} /\ Range(rest) \cap Waiting(c) = {}
    BY <1>4, <1>5, Apartness
  <2>2. dropped[c] \cap Ahead(c) = {}
    BY <1>4 DEF PlaceCall, Apart
  <2> QED
    BY <1>7, <1>8, <2>1, <2>2 DEF Events
<1>10. \/ pass(n) /\ desk'[c] = desk[c] /\ AtDesk(c)' = AtDesk(c) /\ dropped'[c] = dropped[c] \cup {n}
       \/ ~pass(n) /\ Extends(desk'[c], desk[c], e) /\ AtDesk(c)' = AtDesk(c) \cup {n} /\ dropped'[c] = dropped[c]
  <2>1. CASE pass(n)
    BY <1>1, <2>1 DEF AtDesk
  <2>2. CASE ~pass(n)
    <3>1. desk[c] \in Seq(Entries)
      BY DEF TurnInv, Types
    <3>2. Extends(desk'[c], desk[c], e)
      BY <1>1, <2>2, <3>1, ExtendsIs
    <3>3. LineHas(desk'[c]) = LineHas(desk[c]) \cup ({e.n} \ {0})
      BY <3>2, HasMore
    <3> QED
      BY <1>1, <1>9, <2>2, <3>2, <3>3 DEF AtDesk
  <2> QED
    BY <2>1, <2>2
<1>11. OnceEach(desk'[c])
  <2>1. OnceEach(desk[c]) /\ n \notin LineHas(desk[c])
    BY <1>4, <1>9 DEF PlaceCall, Apart, Past, AtDesk
  <2>2. ASSUME Extends(desk'[c], desk[c], e) PROVE OnceEach(desk'[c])
    BY <1>1, <2>1, <2>2, HasMore
  <2> QED
    BY <1>10, <2>1, <2>2
<1>12. Past(c) \subseteq Past(c)' /\ Past(c)' \subseteq Past(c) \cup {n}
  BY <1>1, <1>8, <1>10 DEF Past
<1>13. Below({n}, Range(t) \cup Waiting(c)) /\ Below(Range(t), Waiting(c)) /\ Below(Past(c), Range(t) \cup Waiting(c))
  BY <1>4, <1>5, <1>7, <1>8 DEF PlaceCall, Ordered, Below
<1>14. Ordered(c)'
  <2>1. LineAscends(lane'[c]) /\ Ascends(work'[c].rest) /\ Ascends(adrift'[c])
    BY <1>1, <1>4, <1>5, <1>6, <1>7 DEF PlaceCall, Ordered
  <2>2. Below(Past(c)', Ahead(c)')
    BY <1>8, <1>12, <1>13 DEF Below
  <2>3. Below(Range(work'[c].rest), Waiting(c)')
    BY <1>1, <1>5, <1>6, <1>8, <1>13
  <2> QED
    BY <2>1, <2>2, <2>3 DEF Ordered
<1>15. Within(c)'
  <2>1. dropped'[c] \subseteq dropped[c] \cup {n}
    BY <1>10
  <2> QED
    BY <1>1, <1>4, <1>8, <1>12, <2>1 DEF PlaceCall, Within
<1>16. RoundsAlone(c)'
  BY <1>1, <1>4 DEF PlaceCall, RoundsAlone, AtRound, Streams
<1>17. KindsKept(c)'
  <2>1. OfKind(c, work[c].kind, Range(work[c].rest)) /\ Range(work'[c].rest) \subseteq Range(work[c].rest)
    BY <1>1, <1>4, <1>5, <1>6, <1>7 DEF PlaceCall, KindsKept
  <2>2. OfKind(c, work[c].kind, Range(work[c].rest))'
    BY <1>1, <1>4, <2>1 DEF OfKind
  <2>3. \A k \in DOMAIN lane'[c] : OfKind(c, lane[c][k].kind, Range(lane[c][k].events))'
    BY <1>1, <1>4 DEF PlaceCall, KindsKept, OfKind
  <2> QED
    BY <2>2, <2>3 DEF KindsKept
<1>18. Apart(c)'
  <2>1. /\ AtDesk(c)' \subseteq AtDesk(c) \cup {n} /\ dropped'[c] \subseteq dropped[c] \cup {n}
        /\ ~(n \in AtDesk(c)' /\ n \in dropped'[c])
    BY <1>9, <1>10 DEF Past
  <2>2. AtDesk(c)' \cap Logged(c)' = {} /\ AtDesk(c)' \cap Range(adrift'[c]) = {} /\ Logged(c)' \cap Range(adrift'[c]) = {}
    BY <1>1, <1>4, <1>8, <1>9, <2>1 DEF PlaceCall, Apart, Past
  <2>3. dropped'[c] \cap AtDesk(c)' = {} /\ dropped'[c] \cap Logged(c)' = {} /\ dropped'[c] \cap Range(adrift'[c]) = {}
    BY <1>1, <1>4, <1>8, <1>9, <2>1 DEF PlaceCall, Apart, Past
  <2>4. dropped'[c] \cap Ahead(c)' = {}
    BY <1>4, <1>7, <1>8, <1>9, <2>1 DEF PlaceCall, Apart
  <2>5. call'[c].state = "unsent" => adrift'[c] = <<>>
    BY <1>1, <1>4 DEF PlaceCall, Apart
  <2> QED
    BY <1>11, <2>2, <2>3, <2>4, <2>5 DEF Apart
<1>19. \A k \in DOMAIN desk'[c] : (k \in DOMAIN desk[c] /\ desk'[c][k] = desk[c][k]) \/ (~pass(n) /\ desk'[c][k] = e)
  BY <1>10 DEF Extends
<1>20. DeskKinds(c)'
  <2>1. ASSUME ~pass(n), asAttempt(n) PROVE IsAttempt(c, n) /\ work[c].kind \in {"round", "input", "ask"}
    <3>1. IsAttempt(c, n) /\ work[c].kind # "conclude" /\ work[c].kind # "abandoned" /\ work[c].kind \in WorkKinds
      BY <2>1 DEF asAttempt, pass, TurnInv, Types, Works
    <3>2. OfKind(c, work[c].kind, Range(rest)) /\ n \in Range(rest)
      BY <1>4, <1>5, <1>7 DEF PlaceCall, KindsKept
    <3> QED
      BY <3>1, <3>2 DEF OfKind, WorkKinds
  <2> QED
    BY <1>1, <1>4, <1>19, <2>1 DEF PlaceCall, DeskKinds
<1>21. GrantsKept(c)'
  <2>1. Grants(c)' = Grants(c) /\ LoggedAttempts(c)' = LoggedAttempts(c) /\ (Ended(c)' <=> Ended(c))
    BY <1>1, <1>2, <1>4, <1>8 DEF Grants, Granted, LoggedAttempts, Ended
  <2>2. n \notin late[c]
    BY <1>9 DEF Past
  <2>3. \A k \in DOMAIN desk'[c] : desk'[c][k].awaited => desk'[c][k].n \notin late'[c]
    BY <1>1, <1>4, <1>19, <2>2 DEF PlaceCall, GrantsKept
  <2>4. ~Ended(c)' => \A k \in DOMAIN desk'[c] : desk'[c][k].what = "attempt" /\ ~desk'[c][k].awaited => desk'[c][k].n \in late'[c]
    BY <1>1, <1>4, <1>19, <2>1 DEF PlaceCall, GrantsKept
  <2> QED
    BY <1>1, <1>4, <1>8, <2>1, <2>3, <2>4 DEF PlaceCall, GrantsKept
<1>22. PlaceCall(c)'
  BY <1>14, <1>15, <1>16, <1>17, <1>18, <1>20, <1>21 DEF PlaceCall
<1> QED
  BY <1>3, <1>22, PlaceStep

\* HandOverAdrift: of a round the closing cut short, the next event; its call has ended.
LEMMA PlaceHandOverAdrift == ASSUME TurnInv, PlaceInv, NEW c \in Calls, HandOverAdrift(c) PROVE PlaceInv'
<1>1. PICK n \in Events, e \in Entries :
         /\ n = Head(adrift[c]) /\ adrift[c] # <<>> /\ adrift[c] \in Seq(Events) /\ connection = "closing"
         /\ e.n = n /\ ~e.awaited /\ e.what = IF IsAttempt(c, n) THEN "attempt" ELSE "outcome"
         /\ desk'[c] = Append(desk[c], e) /\ adrift'[c] = Tail(adrift[c])
         /\ (\A d \in Calls : d # c => desk'[d] = desk[d] /\ adrift'[d] = adrift[d])
         /\ UNCHANGED <<call, lane, work, log, owed, held, stopped, connection, sweep, received>>
         /\ UNCHANGED <<clientAsked, clientTold, cancelled, told, late, dropped>>
  BY HandedAdrift
<1>2. \A d : HeldOf(d)' = HeldOf(d)
  BY <1>1, HeldSame DEF TurnInv
<1>3. \A d \in Calls : d # c => Same(d)
  BY <1>1, <1>2 DEF Same
<1>4. PlaceCall(c) /\ \A m : IsAttempt(c, m)' <=> IsAttempt(c, m)
  BY <1>1 DEF PlaceInv, IsAttempt
<1>5. PICK rest : rest = adrift[c]
  OBVIOUS
<1>6. PICK t : t = Tail(rest)
  OBVIOUS
<1>7. Range(rest) = {n} \cup Range(t) /\ Ascends(t) /\ n \notin Range(t)
  <2>1. Ascends(rest)
    BY <1>4, <1>5 DEF PlaceCall, Ordered
  <2> QED
    BY <1>1, <1>5, <1>6, <2>1, RestLess
<1>8. Waiting(c)' = Waiting(c) /\ Ahead(c)' = Ahead(c) /\ Logged(c)' = Logged(c) /\ n # 0
  BY <1>1 DEF Waiting, Ahead, Logged, Events
<1>9. Extends(desk'[c], desk[c], e)
  <2>1. desk[c] \in Seq(Entries)
    BY DEF TurnInv, Types
  <2> QED
    BY <1>1, <2>1, ExtendsIs
<1>10. AtDesk(c)' = AtDesk(c) \cup {n} /\ OnceEach(desk'[c])
  <2>1. OnceEach(desk[c]) /\ e.n \notin LineHas(desk[c])
    BY <1>1, <1>4, <1>5, <1>7 DEF PlaceCall, Apart, AtDesk
  <2>2. LineHas(desk'[c]) = LineHas(desk[c]) \cup ({e.n} \ {0}) /\ OnceEach(desk'[c])
    BY <1>9, <2>1, HasMore
  <2> QED
    BY <1>1, <1>8, <2>2 DEF AtDesk
<1>11. Past(c)' = Past(c)
  BY <1>1, <1>5, <1>6, <1>7, <1>8, <1>10 DEF Past
<1>12. Ordered(c)' /\ Within(c)' /\ RoundsAlone(c)'
  BY <1>1, <1>4, <1>5, <1>6, <1>7, <1>8, <1>11 DEF PlaceCall, Ordered, Within, RoundsAlone, AtRound, Streams
<1>13. KindsKept(c)'
  BY <1>1, <1>4 DEF PlaceCall, KindsKept, OfKind
<1>14. Ended(c)' /\ Ended(c)
  <2>1. call[c].state # "unsent" /\ call[c].state # "inflight" /\ call[c].state \in CallStates
    BY <1>1, <1>4, CallFields DEF PlaceCall, Apart, TurnInv, LaneRuns
  <2> QED
    BY <1>1, <2>1 DEF Ended, CallStates
<1>15. Apart(c)'
  <2>1. n \notin Logged(c) /\ n \notin dropped[c] /\ Range(adrift'[c]) \subseteq Range(adrift[c]) /\ n \notin Range(adrift'[c])
    BY <1>1, <1>4, <1>5, <1>6, <1>7 DEF PlaceCall, Apart
  <2>2. call'[c].state # "unsent"
    BY <1>14 DEF Ended
  <2> QED
    BY <1>1, <1>4, <1>8, <1>10, <2>1, <2>2 DEF PlaceCall, Apart
<1>16. \A k \in DOMAIN desk'[c] : (k \in DOMAIN desk[c] /\ desk'[c][k] = desk[c][k]) \/ desk'[c][k] = e
  BY <1>9 DEF Extends
<1>17. DeskKinds(c)'
  BY <1>1, <1>4, <1>16 DEF PlaceCall, DeskKinds
<1>18. GrantsKept(c)'
  <2>1. Grants(c)' = Grants(c)
    BY <1>1, <1>2 DEF Grants, Granted
  <2> QED
    BY <1>1, <1>4, <1>8, <1>14, <1>16, <2>1 DEF PlaceCall, GrantsKept
<1>19. PlaceCall(c)'
  BY <1>12, <1>13, <1>15, <1>17, <1>18 DEF PlaceCall
<1> QED
  BY <1>3, <1>19, PlaceStep

\* EndpointDecides: the first entry of the endpoint's queue is recorded, or is not.
LEMMA PlaceDecides == ASSUME TurnInv, PlaceInv, NEW c \in Calls, EndpointDecides(c) PROVE PlaceInv'
<1>1. PICK e \in Entries :
         /\ desk[c] # <<>> /\ desk[c] \in Seq(Entries) /\ e = desk[c][1] /\ (e.what = "close" <=> e.n = 0)
         /\ desk'[c] = Tail(desk[c])
         /\ \A d \in Calls : d # c => /\ desk'[d] = desk[d] /\ work'[d] = work[d] /\ call'[d] = call[d]
                                      /\ log'[d] = log[d] /\ owed'[d] = owed[d]
         /\ DecidedAs(c, e)
         /\ UNCHANGED <<lane, held, adrift, stopped, connection, sweep, received>>
         /\ UNCHANGED <<clientAsked, clientTold, cancelled, told, late, dropped>>
  BY Decided
<1>2. (\A d : HeldOf(d)' = HeldOf(d)) /\ HeldOf(c)' = HeldOf(c)
  BY <1>1, HeldSame DEF TurnInv
<1>3. \A d \in Calls : d # c => Same(d)
  BY <1>1, <1>2 DEF Same
<1>4. /\ PlaceCall(c) /\ (\A m : IsAttempt(c, m)' <=> IsAttempt(c, m)) /\ log[c] \in Seq(Nat) /\ e.n \in Nat
      /\ OneAwaited(c) /\ LaneRuns(c)
  BY <1>1 DEF PlaceInv, IsAttempt, TurnInv, Types, Entries
<1>5. PICK t : t = desk'[c]
  OBVIOUS
<1>6. Shortens(t, desk[c])
  BY <1>1, <1>5, ShortensIs
<1>7. OnceEach(t) /\ AtDesk(c) = AtDesk(c)' \cup ({e.n} \ {0}) /\ (e.n # 0 => e.n \notin AtDesk(c)')
  <2>1. OnceEach(desk[c])
    BY <1>4 DEF PlaceCall, Apart
  <2> QED
    BY <1>1, <1>5, <1>6, <2>1, HasLess DEF AtDesk
<1>8. 1 \in DOMAIN desk[c] /\ \A k \in DOMAIN t : k + 1 \in DOMAIN desk[c] /\ t[k] = desk[c][k + 1] /\ k + 1 # 1
  BY <1>6 DEF Shortens
<1>9. Range(Append(log[c], e.n)) = Range(log[c]) \cup {e.n}
  BY <1>4, LineAppend
<1>10. Logged(c)' = Logged(c) \/ (Logged(c)' = Logged(c) \cup {e.n} /\ e.n # 0)
  <2>1. log'[c] = log[c] \/ log'[c] = Append(log[c], e.n)
    BY <1>1 DEF DecidedAs
  <2> QED
    BY <1>9, <2>1 DEF Logged
<1>11. e.n # 0 => e.n \in AtDesk(c) /\ e.n \notin Logged(c) /\ e.n \notin Range(adrift[c]) /\ e.n \notin dropped[c]
  BY <1>4, <1>7 DEF PlaceCall, Apart
<1>12. Past(c)' \subseteq Past(c) /\ Waiting(c)' = Waiting(c)
  BY <1>1, <1>7, <1>10, <1>11 DEF Past, Waiting
<1>13. /\ \/ work'[c].rest = work[c].rest /\ work'[c].kind = work[c].kind
          \/ work'[c] = NoWork /\ e.what = "close" /\ e.awaited /\ Ended(c)'
       /\ Range(work'[c].rest) \subseteq Range(work[c].rest) /\ Ascends(work'[c].rest)
  <2>1. \/ work'[c].rest = work[c].rest /\ work'[c].kind = work[c].kind
        \/ work'[c] = NoWork /\ e.what = "close" /\ e.awaited /\ Ended(c)'
    BY <1>1 DEF DecidedAs, HeardAs, Ended
  <2>2. Range(<<>>) = {} /\ Ascends(<<>>) /\ Ascends(work[c].rest)
    BY <1>4 DEF Range, Ascends, PlaceCall, Ordered
  <2> QED
    BY <2>1, <2>2, NoWorkIs
<1>14. Ahead(c)' \subseteq Ahead(c)
  BY <1>12, <1>13 DEF Ahead
<1>15. Ordered(c)' /\ Within(c)'
  BY <1>1, <1>4, <1>12, <1>13, <1>14 DEF PlaceCall, Ordered, Within, Below
<1>16. RoundsAlone(c)'
  <2>1. AtRound(c)' => AtRound(c)
    BY <1>13, NoWorkIs DEF AtRound
  <2> QED
    BY <1>1, <1>4, <2>1 DEF PlaceCall, RoundsAlone, Streams
<1>17. KindsKept(c)'
  <2>1. OfKind(c, work[c].kind, Range(work[c].rest))'
    <3>1. CASE work'[c].rest = work[c].rest /\ work'[c].kind = work[c].kind
      BY <1>4, <3>1 DEF PlaceCall, KindsKept, OfKind
    <3>2. CASE work'[c] = NoWork
      <4>1. Range(<<>>) = {}
        BY DEF Range
      <4> QED
        BY <3>2, <4>1, NoWorkIs DEF OfKind
    <3> QED
      BY <1>13, <3>1, <3>2
  <2>2. \A k \in DOMAIN lane'[c] : OfKind(c, lane[c][k].kind, Range(lane[c][k].events))'
    BY <1>1, <1>4 DEF PlaceCall, KindsKept, OfKind
  <2> QED
    BY <2>1, <2>2 DEF KindsKept
<1>18. Apart(c)'
  <2>1. OnceEach(desk'[c]) /\ AtDesk(c)' \subseteq AtDesk(c)
    BY <1>5, <1>7
  <2>2. AtDesk(c)' \cap Logged(c)' = {} /\ AtDesk(c)' \cap Range(adrift'[c]) = {} /\ Logged(c)' \cap Range(adrift'[c]) = {}
    BY <1>1, <1>4, <1>7, <1>10, <1>11 DEF PlaceCall, Apart
  <2>3. dropped'[c] \cap (AtDesk(c)' \cup Logged(c)' \cup Range(adrift'[c]) \cup Ahead(c)') = {}
    BY <1>1, <1>4, <1>10, <1>11, <1>14, <2>1 DEF PlaceCall, Apart
  <2>4. call'[c].state = "unsent" => adrift'[c] = <<>>
    BY <1>1, <1>4 DEF PlaceCall, Apart, DecidedAs
  <2> QED
    BY <2>1, <2>2, <2>3, <2>4 DEF Apart
<1>19. DeskKinds(c)'
  <2>1. ASSUME NEW k \in DOMAIN t, t[k].what = "attempt" PROVE IsAttempt(c, t[k].n)'
    BY <1>4, <1>8, <2>1 DEF PlaceCall, DeskKinds
  <2>2. ASSUME NEW k \in DOMAIN t, t[k].what = "attempt", t[k].awaited PROVE work'[c].kind \in {"round", "input", "ask"}
    <3>1. ~e.awaited /\ work[c].kind \in {"round", "input", "ask"}
      BY <1>1, <1>4, <1>8, <2>2 DEF PlaceCall, DeskKinds, OneAwaited
    <3> QED
      BY <1>13, <3>1
  <2> QED
    BY <1>5, <2>1, <2>2 DEF DeskKinds
<1>20. /\ Grants(c)' \subseteq Grants(c) \/ (Grants(c)' = Grants(c) \cup {e.n} /\ e.awaited /\ Logged(c)' = Logged(c) \cup {e.n})
       /\ ~Ended(c)' => ~Ended(c) /\ Grants(c) \subseteq Grants(c)'
       /\ ~Ended(c)' /\ ~e.awaited /\ e.what = "attempt" => e.n \in late[c]
       /\ ~Ended(c)' /\ e.awaited /\ Logged(c)' # Logged(c) /\ e.what = "attempt" => e.n \in Grants(c)'
  <2>1. Granted(c)' = Granted(c)
    BY <1>1, <1>2 DEF Granted
  <2>2. ~Ended(c)' => ~Ended(c) /\ (e.what = "close" => ~e.awaited)
    <3>1. Ended(c) => Ended(c)'
      BY <1>1 DEF DecidedAs, Ended
    <3>2. e.what = "close" /\ e.awaited => Ended(c)'
      BY <1>1 DEF DecidedAs, Ended
    <3> QED
      BY <3>1, <3>2
  <2>3. \/ work'[c].accepted = work[c].accepted
        \/ work'[c] = NoWork /\ e.what = "close" /\ e.awaited
        \/ work'[c].accepted = work[c].accepted \cup {e.n} /\ e.what = "attempt" /\ e.awaited /\ log'[c] = Append(log[c], e.n)
    BY <1>1 DEF DecidedAs, HeardAs
  <2>4. log'[c] = Append(log[c], e.n) /\ e.what = "attempt" => Logged(c)' = Logged(c) \cup {e.n}
    BY <1>1, <1>9 DEF Logged
  <2>5. Grants(c)' \subseteq Grants(c) \/ (Grants(c)' = Grants(c) \cup {e.n} /\ e.awaited /\ Logged(c)' = Logged(c) \cup {e.n})
    BY <2>1, <2>3, <2>4, NoWorkIs DEF Grants
  <2>6. ~Ended(c)' => Grants(c) \subseteq Grants(c)'
    BY <2>1, <2>2, <2>3 DEF Grants
  <2>7. ~Ended(c)' /\ ~e.awaited /\ e.what = "attempt" => e.n \in late[c]
    BY <1>1, <1>4, <1>8, <2>2 DEF PlaceCall, GrantsKept
  <2>8. e.awaited /\ Logged(c)' # Logged(c) /\ e.what = "attempt" => e.n \in Grants(c)'
    <3> SUFFICES ASSUME e.awaited, Logged(c)' # Logged(c), e.what = "attempt" PROVE e.n \in Grants(c)'
      OBVIOUS
    <3>1. log'[c] # log[c]
      BY DEF Logged
    <3>2. work'[c].accepted = work[c].accepted \cup {e.n}
      BY <1>1, <3>1 DEF DecidedAs, HeardAs
    <3> QED
      BY <3>2 DEF Grants
  <2> QED
    BY <2>2, <2>5, <2>6, <2>7, <2>8
<1>21. GrantsKept(c)'
  <2>1. e.awaited => e.n \notin late[c]
    BY <1>1, <1>4, <1>8 DEF PlaceCall, GrantsKept
  <2>2. Grants(c)' \subseteq Logged(c)' \ late'[c]
    <3>1. Grants(c) \subseteq Logged(c) \ late[c] /\ late'[c] = late[c]
      BY <1>1, <1>4 DEF PlaceCall, GrantsKept
    <3> QED
      BY <1>10, <1>20, <2>1, <3>1
  <2>3. ASSUME ~Ended(c)', NEW n \in Logged(c)', IsAttempt(c, n)' PROVE n \in Grants(c)' \cup late'[c]
    <3>1. CASE n \in Logged(c)
      <4>1. n \in LoggedAttempts(c)
        BY <1>4, <2>3, <3>1 DEF LoggedAttempts
      <4>2. n \in Grants(c) \cup late[c]
        BY <1>4, <1>20, <2>3, <4>1 DEF PlaceCall, GrantsKept
      <4> QED
        BY <1>1, <1>20, <2>3, <4>2
    <3>2. CASE n \notin Logged(c)
      <4>1. n = e.n /\ Logged(c)' # Logged(c) /\ e.n # 0
        BY <1>10, <2>3, <3>2
      <4>2. e.what = "attempt"
        <5>1. log'[c] # log[c]
          BY <4>1 DEF Logged
        <5>2. e.what = "outcome" => ~IsAttempt(c, e.n)
          BY <1>1, <5>1 DEF DecidedAs
        <5>3. e.what \in {"attempt", "outcome", "close"}
          BY DEF Entries
        <5> QED
          BY <1>1, <1>4, <2>3, <4>1, <5>2, <5>3
      <4> QED
        BY <1>1, <1>20, <2>3, <4>1, <4>2
    <3> QED
      BY <3>1, <3>2
  <2>4. ~Ended(c)' => LoggedAttempts(c)' \subseteq Grants(c)' \cup late'[c]
    BY <2>3 DEF LoggedAttempts
  <2>5. \A k \in DOMAIN t : t[k].awaited => t[k].n \notin late'[c]
    BY <1>1, <1>4, <1>8 DEF PlaceCall, GrantsKept
  <2>6. ~Ended(c)' => \A k \in DOMAIN t : t[k].what = "attempt" /\ ~t[k].awaited => t[k].n \in late'[c]
    BY <1>1, <1>4, <1>8, <1>20 DEF PlaceCall, GrantsKept
  <2>7. work'[c].kind \in {"none", "seal"} => work'[c].accepted = {}
    <3>1. e.what = "attempt" /\ e.awaited => work[c].kind \in {"round", "input", "ask"}
      BY <1>1, <1>4, <1>8 DEF PlaceCall, DeskKinds
    <3>2. work[c].kind \in {"none", "seal"} => work[c].accepted = {}
      BY <1>4 DEF PlaceCall, GrantsKept
    <3> QED
      BY <1>1, <3>1, <3>2, NoWorkIs DEF DecidedAs, HeardAs
  <2> QED
    BY <1>5, <2>2, <2>4, <2>5, <2>6, <2>7 DEF GrantsKept
<1>22. PlaceCall(c)'
  BY <1>15, <1>16, <1>17, <1>18, <1>19, <1>21 DEF PlaceCall
<1> QED
  BY <1>3, <1>22, PlaceStep

\* Stopped: what the endpoint had of rounds is gone from its queue.
LEMMA PlaceStopped == ASSUME TurnInv, PlaceInv, Stopped PROVE PlaceInv'
<1>1. /\ UNCHANGED <<call, lane, log, owed, held, adrift, connection, sweep, received>>
      /\ UNCHANGED <<clientAsked, clientTold, cancelled, told, late, dropped>>
  BY StoppedIs
<1>2. \A d : HeldOf(d)' = HeldOf(d)
  BY <1>1, HeldSame DEF TurnInv
<1>3. ASSUME NEW c \in Calls PROVE PlaceCall(c)'
  <2>1. /\ KeptFrom(desk'[c], desk[c], {e \in Range(desk[c]) : e.awaited /\ work[c].kind \notin Bounded})
        /\ work'[c].kind = work[c].kind /\ work'[c].rest = work[c].rest /\ work'[c].accepted = work[c].accepted
    BY StoppedIs
  <2>2. PICK S : KeptFrom(desk'[c], desk[c], S)
    BY <2>1
  <2>3. PlaceCall(c)
    BY DEF PlaceInv
  <2>4. DeskFrom(c)
    <3>1. PICK t : t = desk'[c]
      OBVIOUS
    <3>2. OnceEach(t)
      BY <2>2, <2>3, <3>1, HasKept DEF PlaceCall, Apart
    <3>3. \A k \in DOMAIN t : \E a \in DOMAIN desk[c] : t[k] = desk[c][a]
      BY <2>2, <3>1 DEF KeptFrom
    <3> QED
      BY <3>1, <3>2, <3>3 DEF DeskFrom
  <2>5. Grants(c)' = Grants(c) /\ (Ended(c)' <=> Ended(c)) /\ LaneFrom(c)
    BY <1>1, <1>2, <2>1 DEF Grants, Granted, Ended, LaneFrom
  <2>6. work'[c].kind \in {"none", "seal"} => work'[c].accepted = {}
    BY <2>1, <2>3 DEF PlaceCall, GrantsKept
  <2> QED
    BY <1>1, <2>1, <2>3, <2>4, <2>5, <2>6, PlaceStays
<1> QED
  BY <1>3 DEF PlaceInv

\* What is left over is in the order of the rest.
LEMMA LeftoverAscends ==
  ASSUME TurnInv, NEW c \in Calls, Ascends(work[c].rest)
  PROVE  Range(Leftover(c)) \subseteq Range(work[c].rest) /\ Ascends(Leftover(c))
<1>1. /\ Range(Leftover(c)) = Range(work[c].rest) \ Attempts(c, work[c].rest)
      /\ \A j, k \in DOMAIN Leftover(c) : j < k => \E a, b \in DOMAIN work[c].rest :
           a < b /\ Leftover(c)[j] = work[c].rest[a] /\ Leftover(c)[k] = work[c].rest[b]
  BY LeftoverIs
<1>2. ASSUME NEW j \in DOMAIN Leftover(c), NEW k \in DOMAIN Leftover(c), j < k PROVE Leftover(c)[j] < Leftover(c)[k]
  BY <1>1, <1>2 DEF Ascends
<1> QED
  BY <1>1, <1>2 DEF Ascends

\* What is in progress is at the endpoint.
LEMMA InProgressAtDesk == ASSUME NEW c \in Calls, OneAwaited(c) PROVE InProgress(c) \subseteq AtDesk(c)
BY DEF InProgress, AtDesk, LineHas, OneAwaited

\* EndDrain: what a round had left is adrift, and what the endpoint has of it nobody waits for.
LEMMA PlaceEndDrain == ASSUME TurnInv, PlaceInv, EndDrain PROVE PlaceInv'
<1>1. /\ connection = "draining"
      /\ UNCHANGED <<call, lane, log, owed, held, stopped, received>>
      /\ UNCHANGED <<clientAsked, clientTold, cancelled, told, dropped>>
  BY Drained
<1>2. \A d : HeldOf(d)' = HeldOf(d)
  BY <1>1, HeldSame DEF TurnInv
<1> SUFFICES ASSUME NEW c \in Calls PROVE PlaceCall(c)'
  BY DEF PlaceInv
<1>3. /\ work'[c] = NoWork /\ late'[c] = late[c] \cup InProgress(c)
      /\ work[c].kind \in Bounded => Quiet(desk'[c], desk[c])
      /\ work[c].kind \notin Bounded => KeptFrom(desk'[c], desk[c], {e \in Range(desk[c]) : ~e.awaited})
      /\ adrift'[c] = CASE ~stopped /\ work[c].kind \in {"round", "input"} -> work[c].rest
                        [] ~stopped /\ work[c].kind = "abandoned" -> Leftover(c)
                        [] OTHER -> <<>>
  BY Drained
<1>4. /\ PlaceCall(c) /\ (\A m : IsAttempt(c, m)' <=> IsAttempt(c, m)) /\ Range(<<>>) = {} /\ Ascends(<<>>)
      /\ OneAwaited(c) /\ LaneRuns(c)
  BY <1>1 DEF PlaceInv, IsAttempt, Range, Ascends, TurnInv
<1>5. PICK t : t = desk'[c]
  OBVIOUS
<1>6. /\ LineHas(t) \subseteq LineHas(desk[c]) /\ OnceEach(t) /\ \A k \in DOMAIN t : ~t[k].awaited
      /\ \A k \in DOMAIN t : \E a \in DOMAIN desk[c] : t[k].what = desk[c][a].what /\ t[k].n = desk[c][a].n
                                                       /\ (work[c].kind \notin Bounded => t[k] = desk[c][a])
  <2>1. OnceEach(desk[c])
    BY <1>4 DEF PlaceCall, Apart
  <2>2. CASE work[c].kind \in Bounded
    <3>1. Quiet(t, desk[c])
      BY <1>3, <1>5, <2>2
    <3>2. LineHas(t) = LineHas(desk[c]) /\ OnceEach(t)
      BY <2>1, <3>1, HasQuiet
    <3> QED
      BY <2>2, <3>1, <3>2 DEF Quiet
  <2>3. CASE work[c].kind \notin Bounded
    <3>1. PICK S : S = {e \in Range(desk[c]) : ~e.awaited} /\ KeptFrom(t, desk[c], S)
      BY <1>3, <1>5, <2>3
    <3>2. LineHas(t) \subseteq LineHas(desk[c]) /\ OnceEach(t)
      BY <2>1, <3>1, HasKept
    <3> QED
      BY <3>1, <3>2 DEF KeptFrom
  <2> QED
    BY <2>2, <2>3
<1>7. AtDesk(c)' \subseteq AtDesk(c) /\ Logged(c)' = Logged(c) /\ Waiting(c)' = Waiting(c) /\ Ahead(c)' = Waiting(c)
  <2>1. Range(work'[c].rest) = {}
    BY <1>3, <1>4, NoWorkIs
  <2> QED
    BY <1>1, <1>5, <1>6, <2>1 DEF AtDesk, Logged, Waiting, Ahead
<1>8. Range(adrift'[c]) \subseteq Range(work[c].rest) /\ Ascends(adrift'[c])
  <2>1. Ascends(work[c].rest)
    BY <1>4 DEF PlaceCall, Ordered
  <2>2. Range(Leftover(c)) \subseteq Range(work[c].rest) /\ Ascends(Leftover(c))
    BY <2>1, LeftoverAscends
  <2>3. adrift'[c] = work[c].rest \/ adrift'[c] = Leftover(c) \/ adrift'[c] = <<>>
    BY <1>3
  <2> QED
    BY <1>4, <2>1, <2>2, <2>3
<1>9. InProgress(c) \subseteq AtDesk(c)
  BY <1>4, InProgressAtDesk
<1>10. /\ Past(c) \cap Ahead(c) = {} /\ Range(work[c].rest) \cap Waiting(c) = {} /\ Below(Range(work[c].rest), Waiting(c))
       /\ Past(c)' \subseteq Past(c) \cup Range(work[c].rest)
  <2>1. Past(c)' \subseteq Past(c) \cup Range(work[c].rest)
    BY <1>1, <1>3, <1>7, <1>8, <1>9 DEF Past
  <2> QED
    BY <1>4, <2>1, Apartness DEF PlaceCall, Ordered
<1>11. Ordered(c)'
  <2>1. LineAscends(lane'[c]) /\ Ascends(work'[c].rest) /\ Range(work'[c].rest) = {}
    BY <1>1, <1>3, <1>4, NoWorkIs DEF PlaceCall, Ordered
  <2>2. Below(Past(c)', Ahead(c)')
    <3>1. Below(Past(c), Waiting(c))
      BY <1>4 DEF PlaceCall, Ordered, Below, Ahead
    <3> QED
      BY <1>7, <1>10, <3>1 DEF Below
  <2> QED
    BY <1>8, <2>1, <2>2 DEF Ordered, Below
<1>12. Within(c)'
  BY <1>1, <1>4, <1>7, <1>10 DEF PlaceCall, Within, Ahead
<1>13. RoundsAlone(c)'
  BY <1>1, <1>3, <1>4, NoWorkIs DEF PlaceCall, RoundsAlone, AtRound, Streams
<1>14. KindsKept(c)'
  <2>1. OfKind(c, work[c].kind, Range(work[c].rest))'
    BY <1>3, <1>4, NoWorkIs DEF OfKind
  <2>2. \A k \in DOMAIN lane'[c] : OfKind(c, lane[c][k].kind, Range(lane[c][k].events))'
    BY <1>1, <1>4 DEF PlaceCall, KindsKept, OfKind
  <2> QED
    BY <2>1, <2>2 DEF KindsKept
<1>15. call[c].state = "unsent" => work[c] = NoWork /\ adrift'[c] = <<>>
  <2>1. call[c].state = "unsent" => work[c] = NoWork
    BY <1>4 DEF LaneRuns
  <2> QED
    BY <1>3, <2>1, NoWorkIs
<1>16. Apart(c)'
  <2>1. Range(adrift'[c]) \cap Past(c) = {} /\ Range(adrift'[c]) \subseteq Ahead(c)
    BY <1>8, <1>10 DEF Ahead
  <2>2. AtDesk(c)' \cap Logged(c)' = {} /\ AtDesk(c)' \cap Range(adrift'[c]) = {} /\ Logged(c)' \cap Range(adrift'[c]) = {}
    BY <1>4, <1>7, <2>1 DEF PlaceCall, Apart, Past
  <2>3. dropped'[c] \cap (AtDesk(c)' \cup Logged(c)' \cup Range(adrift'[c]) \cup Ahead(c)') = {}
    BY <1>1, <1>4, <1>7, <2>1 DEF PlaceCall, Apart, Ahead
  <2>4. OnceEach(desk'[c]) /\ (call'[c].state = "unsent" => adrift'[c] = <<>>)
    BY <1>1, <1>5, <1>6, <1>15
  <2> QED
    BY <2>2, <2>3, <2>4 DEF Apart
<1>17. DeskKinds(c)'
  <2>1. \A k \in DOMAIN t : t[k].what = "attempt" => IsAttempt(c, t[k].n)'
    BY <1>4, <1>6 DEF PlaceCall, DeskKinds
  <2> QED
    BY <1>5, <1>6, <2>1 DEF DeskKinds
<1>18. ~Ended(c) => call[c].state = "unsent"
  BY <1>1, <1>4, CallFields DEF TurnInv, LaneRuns, Ended, CallStates
<1>19. GrantsKept(c)'
  <2>1. Grants(c)' \subseteq Grants(c) /\ (~Ended(c)' => ~Ended(c) /\ Grants(c)' = Grants(c))
    BY <1>1, <1>2, <1>3, <1>15, <1>18, NoWorkIs DEF Grants, Granted, Ended
  <2>2. Grants(c)' \subseteq Logged(c)' \ late'[c]
    <3>1. InProgress(c) \cap Logged(c) = {}
      BY <1>4, <1>9 DEF PlaceCall, Apart
    <3> QED
      BY <1>3, <1>4, <1>7, <2>1, <3>1 DEF PlaceCall, GrantsKept
  <2>3. LoggedAttempts(c)' = LoggedAttempts(c)
    BY <1>4, <1>7 DEF LoggedAttempts
  <2>4. ~Ended(c)' => LoggedAttempts(c)' \subseteq Grants(c)' \cup late'[c]
    BY <1>3, <1>4, <2>1, <2>3 DEF PlaceCall, GrantsKept
  <2>5. ~Ended(c)' => \A k \in DOMAIN t : t[k].what = "attempt" /\ ~t[k].awaited => t[k].n \in late'[c]
    <3> SUFFICES ASSUME ~Ended(c)', NEW k \in DOMAIN t, t[k].what = "attempt", ~t[k].awaited PROVE t[k].n \in late'[c]
      OBVIOUS
    <3>1. work[c].kind \notin Bounded
      BY <1>15, <1>18, <2>1, NoWorkIs DEF Bounded
    <3>2. PICK a \in DOMAIN desk[c] : t[k] = desk[c][a]
      BY <1>6, <3>1
    <3>3. t[k].n \in late[c]
      BY <1>4, <2>1, <3>2 DEF PlaceCall, GrantsKept
    <3> QED
      BY <1>3, <3>3
  <2> QED
    BY <1>3, <1>5, <1>6, <2>2, <2>4, <2>5, NoWorkIs DEF GrantsKept
<1> QED
  BY <1>11, <1>12, <1>13, <1>14, <1>16, <1>17, <1>19 DEF PlaceCall

\* What arrives comes behind all that came before.
LEMMA ArrivedBehind ==
  ASSUME TurnInv, NEW c \in Calls, NEW f \in Frames[c], Receive(c, f), NEW events, events = Arriving(c, f.events)
  PROVE  /\ Ascends(events) /\ Below(1..Len(received[c]), Range(events)) /\ Range(events) \subseteq 1..Len(received'[c])
         /\ 1..Len(received[c]) \subseteq 1..Len(received'[c])
         /\ \A n \in 1..Len(received[c]) : IsAttempt(c, n)' <=> IsAttempt(c, n)
         /\ \A n \in Range(events) : \E k \in DOMAIN f.events : IsAttempt(c, n)' <=> f.events[k] = "attempt"
<1>1. PICK m \in Nat : m = Len(received[c]) /\ DOMAIN received[c] = 1..m
  <2>1. received[c] \in Seq(EventKinds)
    BY DEF TurnInv, Types
  <2> QED
    BY <2>1
<1>2. PICK e : e = Len(f.events) /\ e \in Nat /\ DOMAIN f.events = 1..e
  BY FrameIs
<1>3. /\ Len(received'[c]) = m + e
      /\ \A n \in 1..m : received'[c][n] = received[c][n]
      /\ \A k \in 1..e : received'[c][m + k] = f.events[k]
  <2>1. /\ Len(received'[c]) = Len(received[c]) + Len(f.events)
        /\ \A n \in DOMAIN received[c] : received'[c][n] = received[c][n]
        /\ \A k \in DOMAIN f.events : received'[c][Len(received[c]) + k] = f.events[k]
    BY Received
  <2> QED
    BY <1>1, <1>2, <2>1
<1>4. DOMAIN events = 1..e /\ \A k \in 1..e : events[k] = m + k
  BY <1>1, <1>2, ArrivingIs
<1>5. Ascends(events)
  BY <1>4 DEF Ascends
<1>6. ASSUME NEW n \in Range(events)
      PROVE  \E k \in 1..e : n = m + k
  BY <1>4 DEF Range
<1>7. ASSUME NEW n \in Range(events) PROVE n > m /\ n <= m + e /\ n \in Nat
  <2>1. PICK k \in 1..e : n = m + k
    BY <1>6
  <2>2. k \in Nat /\ k > 0 /\ k <= e /\ m \in Nat /\ e \in Nat
    BY <1>1, <1>2
  <2> QED
    BY <2>1, <2>2
<1>8. Below(1..m, Range(events)) /\ Range(events) \subseteq 1..(m + e) /\ 1..m \subseteq 1..(m + e)
  BY <1>2, <1>7 DEF Below
<1>9. \A n \in 1..m : IsAttempt(c, n)' <=> IsAttempt(c, n)
  BY <1>3 DEF IsAttempt
<1>10. \A n \in Range(events) : \E k \in 1..e : IsAttempt(c, n)' <=> f.events[k] = "attempt"
  BY <1>3, <1>6 DEF IsAttempt
<1> QED
  BY <1>1, <1>2, <1>3, <1>5, <1>8, <1>9, <1>10

\* A frame arrives: its job goes to the end of the lane.
LEMMA PlaceArrives ==
  ASSUME TurnInv, NEW c \in Calls, PlaceCall(c), NEW f \in Frames[c], Receive(c, f),
         NEW job, job.events = Arriving(c, f.events), Extends(lane'[c], lane[c], job),
         OfKind(c, job.kind, Range(job.events))', Carries(job) => ~Streams(c),
         job.events = <<>> \/ (~AtRound(c) /\ \A k \in DOMAIN lane[c] : ~Carries(lane[c][k])),
         work'[c] = work[c], desk'[c] = desk[c], log'[c] = log[c], adrift'[c] = adrift[c], late'[c] = late[c],
         dropped'[c] = dropped[c], told'[c] = told[c], HeldOf(c)' \subseteq HeldOf(c),
         Ended(c)' \/ (~Ended(c) /\ HeldOf(c)' = HeldOf(c)), call'[c].state # "unsent"
  PROVE  PlaceCall(c)'
<1> USE DEF PlaceCall
<1> DEFINE old == 1..Len(received[c])
           new == 1..Len(received'[c])
<1>1. /\ Ascends(job.events) /\ Below(old, Range(job.events)) /\ Range(job.events) \subseteq new /\ old \subseteq new
      /\ \A n \in old : IsAttempt(c, n)' <=> IsAttempt(c, n)
  BY ArrivedBehind
<1>2. Past(c) \subseteq old /\ Ahead(c) \subseteq old /\ dropped[c] \subseteq old /\ old \cap Range(job.events) = {}
  <2>1. \A n \in old : ~(n < n)
    OBVIOUS
  <2> QED
    BY <1>1, <2>1 DEF Within, Below
<1> HIDE DEF old, new
<1>3. PICK t : t = lane'[c] /\ Extends(t, lane[c], job)
  OBVIOUS
<1>4. Waiting(c) \subseteq old /\ Range(work[c].rest) \subseteq old
  BY <1>2 DEF Ahead
<1>5. /\ LineWaits(t) = LineWaits(lane[c]) \cup Range(job.events)
      /\ LineAscends(t) /\ AloneLine(t)
  <2>1. Below(LineWaits(lane[c]), Range(job.events)) /\ LineAscends(lane[c]) /\ AloneLine(lane[c])
    BY <1>1, <1>4 DEF Below, Waiting, Ordered, RoundsAlone
  <2> QED
    BY <1>1, <1>3, <2>1, WaitsMore
<1>6. Waiting(c)' = Waiting(c) \cup Range(job.events) /\ Ahead(c)' = Ahead(c) \cup Range(job.events)
  BY <1>3, <1>5 DEF Waiting, Ahead
<1>7. AtDesk(c)' = AtDesk(c) /\ Logged(c)' = Logged(c) /\ Past(c)' = Past(c)
  BY DEF AtDesk, Logged, Past
<1>8. Ordered(c)'
  <2>1. Below(Range(work[c].rest), Waiting(c)') /\ Below(Past(c), Ahead(c)')
    BY <1>1, <1>2, <1>4, <1>6 DEF Ordered, Below
  <2> QED
    BY <1>3, <1>5, <1>7, <2>1 DEF Ordered
<1>9. Within(c)'
  <2>1. Past(c) \cup Ahead(c)' \cup dropped[c] \subseteq new
    BY <1>1, <1>2, <1>6
  <2> QED
    BY <1>7, <2>1 DEF Within, new
<1>10. RoundsAlone(c)'
  <2>1. AloneLine(lane'[c]) /\ \A k \in DOMAIN lane'[c] : Carries(lane'[c][k]) => ~Streams(c)
    BY <1>3, <1>5 DEF RoundsAlone, Extends
  <2>2. (AtRound(c)' <=> AtRound(c)) /\ (Streams(c)' <=> Streams(c))
    BY DEF AtRound, Streams
  <2>3. AtRound(c) => \A k \in DOMAIN lane'[c] : lane'[c][k].events = <<>>
    BY <1>3 DEF RoundsAlone, Extends
  <2> QED
    BY <2>1, <2>2, <2>3 DEF RoundsAlone
<1>11. KindsKept(c)'
  <2>1. OfKind(c, work[c].kind, Range(work[c].rest))'
    BY <1>1, <1>4 DEF KindsKept, OfKind
  <2>2. ASSUME NEW k \in DOMAIN lane'[c] PROVE OfKind(c, lane[c][k].kind, Range(lane[c][k].events))'
    <3>1. CASE k \in DOMAIN lane[c] /\ lane'[c][k] = lane[c][k]
      <4>1. Range(lane[c][k].events) \subseteq old /\ OfKind(c, lane[c][k].kind, Range(lane[c][k].events))
        BY <1>4, <3>1 DEF Waiting, LineWaits, KindsKept
      <4> QED
        BY <1>1, <3>1, <4>1 DEF OfKind
    <3>2. CASE lane'[c][k] = job
      BY <3>2 DEF OfKind
    <3> QED
      BY <1>3, <3>1, <3>2 DEF Extends
  <2> QED
    BY <2>1, <2>2 DEF KindsKept
<1>12. Apart(c)'
  <2>1. dropped[c] \cap Ahead(c)' = {}
    BY <1>2, <1>6 DEF Apart
  <2> QED
    BY <1>7, <2>1 DEF Apart
<1>13. DeskKinds(c)'
  <2>1. ASSUME NEW k \in DOMAIN desk[c], desk[c][k].what = "attempt" PROVE IsAttempt(c, desk[c][k].n)'
    <3>1. desk[c][k].n # 0
      BY <2>1 DEF TurnInv, OneAwaited
    <3>2. desk[c][k].n \in old
      BY <1>2, <3>1 DEF Past, AtDesk, LineHas
    <3> QED
      BY <1>1, <2>1, <3>2 DEF DeskKinds
  <2> QED
    BY <2>1 DEF DeskKinds
<1>14. GrantsKept(c)'
  <2>1. Logged(c) \subseteq old
    BY <1>2 DEF Past
  <2>2. LoggedAttempts(c)' = LoggedAttempts(c)
    BY <1>1, <1>7, <2>1 DEF LoggedAttempts
  <2>3. Grants(c)' \subseteq Grants(c) /\ (~Ended(c)' => ~Ended(c) /\ Grants(c)' = Grants(c))
    BY DEF Grants, Granted
  <2> QED
    BY <1>7, <2>2, <2>3 DEF GrantsKept
<1> QED
  BY <1>8, <1>9, <1>10, <1>11, <1>12, <1>13, <1>14

\* Answer: the tool's frame ends the call, or is its next round; in a call whose tool sends messages no round carries events.
LEMMA PlaceAnswer == ASSUME TurnInv, PlaceInv, NEW c \in Calls, Answer(c) PROVE PlaceInv'
<1> USE DEF wire, grants, client
<1>1. /\ Types /\ OneTurn(c) /\ LaneRuns(c) /\ call[c].state = "inflight" /\ ~Ended(c) /\ call[c].asked /\ PlaceCall(c)
      /\ UNCHANGED <<work, desk, log, adrift, stopped, connection, sweep, told, late, dropped>>
  BY DEF TurnInv, PlaceInv, Answer, InFlight, Up, Ended
<1>2. PICK f \in Frames[c] :
       /\ Receive(c, f)
       /\ \/ /\ f.kind = "result"
             /\ call' = Detached(c) /\ held' = Without(held, c)
             /\ lane' = Queued(c, <<Job("conclude", Arriving(c, f.events))>>)
             /\ ToldClient(c)
          \/ /\ f.kind \in RoundKinds
             /\ call' = [call EXCEPT ![c].asked = FALSE]
             /\ lane' = Queued(c, <<Job(f.kind, Arriving(c, f.events))>>)
             /\ UNCHANGED <<held, clientAsked, clientTold, cancelled>>
  BY DEF Answer
<1>3. \A d \in Calls : d # c => received'[d] = received[d] /\ owed'[d] = owed[d]
  BY <1>2, Received
<1>4. PICK kind \in JobKinds : kind = (IF f.kind = "result" THEN "conclude" ELSE f.kind) /\ kind \in RoundKinds \cup {"conclude"}
                               /\ (kind \in RoundKinds => f.kind = kind)
  BY <1>2 DEF JobKinds, RoundKinds
<1>5. PICK job \in Jobs : job = Job(kind, Arriving(c, f.events)) /\ job.kind = kind /\ job.events = Arriving(c, f.events)
  BY ArrivingIs, JobIs
<1>6. lane' = Queued(c, <<job>>)
  BY <1>2, <1>4, <1>5 DEF RoundKinds
<1>7. lane'[c] = Append(lane[c], job) /\ \A d \in Calls : d # c => lane'[d] = lane[d]
  BY <1>1, <1>6, QueuedOne
<1>8. Extends(lane'[c], lane[c], job)
  <2>1. lane[c] \in Seq(Jobs)
    BY <1>1 DEF Types
  <2> QED
    BY <1>7, <2>1, ExtendsIs
<1>9. /\ HeldOf(c)' \subseteq HeldOf(c) /\ \A d : d # c => HeldOf(d)' = HeldOf(d)
      /\ Ended(c)' \/ (~Ended(c) /\ HeldOf(c)' = HeldOf(c))
      /\ call'[c].state # "unsent"
      /\ \A d \in Calls : d # c => call'[d] = call[d] /\ clientTold'[d] = clientTold[d] /\ clientAsked'[d] = clientAsked[d]
      /\ \A d \in Calls : d # c => (d \in cancelled' <=> d \in cancelled)
  <2>1. CASE f.kind = "result"
    <3>1. call' = Detached(c) /\ held' = Without(held, c) /\ ToldClient(c)
      BY <1>2, <2>1 DEF RoundKinds
    <3>2. (\A d \in Calls : d # c => call'[d] = call[d]) /\ call'[c].state = "concluding"
      BY <1>1, <3>1, DetachedIs
    <3>3. HeldOf(c)' = {} /\ \A d : d # c => HeldOf(d)' = HeldOf(d)
      BY <3>1, HeldWithout DEF TurnInv
    <3>4. clientAsked' = clientAsked /\ cancelled' = cancelled /\ \A d \in Calls : d # c => clientTold'[d] = clientTold[d]
      BY <1>1, <3>1 DEF ToldClient, Types
    <3> QED
      BY <3>2, <3>3, <3>4 DEF Ended
  <2>2. CASE f.kind # "result"
    <3>1. call' = [call EXCEPT ![c].asked = FALSE] /\ UNCHANGED <<held, clientAsked, clientTold, cancelled>>
      BY <1>2, <2>2
    <3>2. (\A d \in Calls : d # c => call'[d] = call[d]) /\ call'[c].state = "inflight"
      BY <1>1, <3>1 DEF Types, CallRecords
    <3>3. \A d : HeldOf(d)' = HeldOf(d)
      BY <3>1, HeldSame DEF TurnInv
    <3> QED
      BY <1>1, <3>1, <3>2, <3>3 DEF Ended
  <2> QED
    BY <2>1, <2>2
<1>10. \A d \in Calls : d # c => Same(d)
  BY <1>1, <1>3, <1>7, <1>9 DEF Same
<1>11. OfKind(c, job.kind, Range(job.events))'
  BY <1>4, <1>5 DEF OfKind, RoundKinds
<1>12. Carries(job) => ~Streams(c)
  <2>1. ASSUME Carries(job), Streams(c) PROVE FALSE
    <3>1. f.kind \in RoundKinds /\ job.events # <<>>
      BY <1>4, <1>5, <2>1 DEF Carries
    <3>2. f.events # <<>>
      <4>1. DOMAIN job.events = DOMAIN f.events /\ job.events \in Seq(Events) /\ f.events \in Seq(EventKinds)
        BY <1>5, ArrivingIs, FrameIs
      <4> QED
        BY <3>1, <4>1
    <3>3. f \notin InMessages
      BY <3>1 DEF InMessages, RoundKinds
    <3>4. Frames[c] \subseteq InResults
      BY <3>2, <3>3, SeamAssumption
    <3>5. \A g \in InMessages : g \notin InResults
      BY DEF InMessages, InResults, RoundKinds
    <3> QED
      BY <2>1, <3>4, <3>5 DEF Streams
  <2> QED
    BY <2>1
<1>13. ~AtRound(c) /\ \A k \in DOMAIN lane[c] : ~Carries(lane[c][k])
  BY <1>1 DEF OneTurn, LaneRuns, AtRound, Carries, RoundWork
<1>14. PlaceCall(c)'
  <2>1. /\ work'[c] = work[c] /\ desk'[c] = desk[c] /\ log'[c] = log[c] /\ adrift'[c] = adrift[c] /\ late'[c] = late[c]
        /\ dropped'[c] = dropped[c] /\ told'[c] = told[c]
    BY <1>1
  <2> QED
    BY <1>1, <1>2, <1>5, <1>8, <1>9, <1>11, <1>12, <1>13, <2>1, PlaceArrives
<1> QED
  BY <1>10, <1>14, PlaceStep

\* Message: an attempt to be asked about, or an outcome to be sealed.
LEMMA PlaceMessage == ASSUME TurnInv, PlaceInv, NEW c \in Calls, Message(c) PROVE PlaceInv'
<1> USE DEF wire, grants, client
<1>1. /\ Types /\ call[c].state = "inflight" /\ PlaceCall(c)
      /\ UNCHANGED <<call, work, desk, log, held, adrift, stopped, connection, sweep, clientAsked, clientTold, cancelled>>
      /\ UNCHANGED <<told, late, dropped>>
  BY DEF TurnInv, PlaceInv, Message, InFlight
<1>2. PICK f \in Frames[c] :
       /\ f.kind \in {"ask", "tell"} /\ Receive(c, f)
       /\ lane' = Queued(c, <<Job(IF f.kind = "ask" THEN "ask" ELSE "seal", Arriving(c, f.events))>>)
  BY DEF Message
<1>3. \A d \in Calls : d # c => received'[d] = received[d] /\ owed'[d] = owed[d]
  BY <1>2, Received
<1>4. PICK kind \in JobKinds : kind = (IF f.kind = "ask" THEN "ask" ELSE "seal") /\ kind \in {"ask", "seal"}
  BY DEF JobKinds
<1>5. PICK job \in Jobs : job = Job(kind, Arriving(c, f.events)) /\ job.kind = kind /\ job.events = Arriving(c, f.events)
  BY ArrivingIs, JobIs
<1>6. lane'[c] = Append(lane[c], job) /\ \A d \in Calls : d # c => lane'[d] = lane[d]
  BY <1>1, <1>2, <1>4, <1>5, QueuedOne
<1>7. Extends(lane'[c], lane[c], job)
  <2>1. lane[c] \in Seq(Jobs)
    BY <1>1 DEF Types
  <2> QED
    BY <1>6, <2>1, ExtendsIs
<1>8. \A d : HeldOf(d)' = HeldOf(d)
  BY <1>1, HeldSame DEF TurnInv
<1>9. \A d \in Calls : d # c => Same(d)
  BY <1>1, <1>3, <1>6, <1>8 DEF Same
<1>10. f \in InMessages
  <2>1. f \notin InResults
    BY <1>2 DEF InResults, RoundKinds
  <2> QED
    BY <2>1, SeamAssumption
<1>11. \A k \in DOMAIN f.events : f.events[k] = IF f.kind = "ask" THEN "attempt" ELSE "outcome"
  BY <1>10 DEF InMessages
<1>12. OfKind(c, job.kind, Range(job.events))'
  <2>1. \A n \in Range(job.events) : \E k \in DOMAIN f.events : IsAttempt(c, n)' <=> f.events[k] = "attempt"
    BY <1>2, <1>5, ArrivedBehind
  <2> QED
    BY <1>4, <1>5, <1>11, <2>1 DEF OfKind
<1>13. ~AtRound(c) /\ (\A k \in DOMAIN lane[c] : ~Carries(lane[c][k])) /\ ~Carries(job)
  <2>1. Streams(c)
    BY <1>10 DEF Streams
  <2> QED
    BY <1>1, <1>4, <1>5, <2>1 DEF PlaceCall, RoundsAlone, Carries, RoundKinds
<1>14. PlaceCall(c)'
  <2>1. /\ work'[c] = work[c] /\ desk'[c] = desk[c] /\ log'[c] = log[c] /\ adrift'[c] = adrift[c] /\ late'[c] = late[c]
        /\ dropped'[c] = dropped[c] /\ told'[c] = told[c] /\ call'[c].state # "unsent"
    BY <1>1
  <2>2. Ended(c)' \/ (~Ended(c) /\ HeldOf(c)' = HeldOf(c))
    BY <1>1, <1>8 DEF Ended
  <2> QED
    BY <1>1, <1>2, <1>5, <1>7, <1>8, <1>12, <1>13, <2>1, <2>2, PlaceArrives
<1> QED
  BY <1>9, <1>14, PlaceStep

\* A lane with what is left over sealed behind it, and with a close: no more events than before.
LEMMA SealedLane ==
  ASSUME TurnInv, NEW c \in Calls, PlaceCall(c), work[c].kind \in {"round", "input", "abandoned"},
         NEW t, t = Sealing(c) \/ t = Append(Sealing(c), CloseJob)
  PROVE  /\ LineWaits(t) = Waiting(c) \cup Range(Leftover(c)) /\ LineAscends(t) /\ AloneLine(t)
         /\ \A k \in DOMAIN t : (Carries(t[k]) => ~Streams(c)) /\ OfKind(c, t[k].kind, Range(t[k].events))
<1> DEFINE Good(u) == /\ LineWaits(u) = Waiting(c) \cup Range(Leftover(c)) /\ LineAscends(u) /\ AloneLine(u)
                      /\ \A k \in DOMAIN u : (Carries(u[k]) => ~Streams(c)) /\ OfKind(c, u[k].kind, Range(u[k].events))
<1>1. Range(<<>>) = {} /\ Ascends(<<>>)
  BY DEF Range, Ascends
<1>2. LineAscends(lane[c]) /\ AloneLine(lane[c]) /\ Ascends(work[c].rest)
      /\ \A k \in DOMAIN lane[c] : (Carries(lane[c][k]) => ~Streams(c)) /\ OfKind(c, lane[c][k].kind, Range(lane[c][k].events))
  BY DEF PlaceCall, Ordered, RoundsAlone, KindsKept
<1>3. PICK s : s = Sealing(c)
  OBVIOUS
<1>4. PICK job : job = Job("seal", Leftover(c)) /\ job.kind = "seal" /\ job.events = Leftover(c)
  BY SealingIs
<1>5. s = lane[c] \/ (Leftover(c) # <<>> /\ Extends(s, lane[c], job))
  BY <1>3, <1>4, SealingIs
<1>6. Good(s)
  <2>1. CASE Leftover(c) = <<>>
    <3>1. s = lane[c]
      BY <1>5, <2>1
    <3> QED
      BY <1>1, <1>2, <2>1, <3>1 DEF Waiting
  <2>2. CASE Leftover(c) # <<>>
    <3>1. /\ Range(Leftover(c)) = Range(work[c].rest) \ Attempts(c, work[c].rest) /\ Ascends(Leftover(c))
          /\ Leftover(c) \in Seq(Events)
      BY <1>2, LeftoverIs, LeftoverAscends
    <3>2. work[c].rest # <<>>
      <4>1. PICK line \in Seq(Events) : line = Leftover(c)
        BY <3>1
      <4>2. 1 \in DOMAIN line
        BY <2>2, <4>1
      <4>3. Range(work[c].rest) # {}
        BY <3>1, <4>1, <4>2 DEF Range
      <4> QED
        BY <1>1, <4>3
    <3>3. \A k \in DOMAIN lane[c] : lane[c][k].events = <<>>
      BY <3>2 DEF PlaceCall, RoundsAlone, AtRound
    <3>4. Waiting(c) = {}
      BY <1>1, <3>3 DEF Waiting, LineWaits
    <3>5. Extends(s, lane[c], job) \/ s = lane[c]
      BY <1>5
    <3>6. CASE Extends(s, lane[c], job)
      <4>1. Ascends(job.events) /\ Below(LineWaits(lane[c]), Range(job.events)) /\ \A k \in DOMAIN lane[c] : ~Carries(lane[c][k])
        BY <1>4, <3>1, <3>3, <3>4 DEF Waiting, Below, Carries
      <4>2. LineWaits(s) = LineWaits(lane[c]) \cup Range(job.events) /\ LineAscends(s) /\ AloneLine(s)
        BY <1>2, <3>6, <4>1, WaitsMore
      <4>3. ~Carries(job) /\ OfKind(c, job.kind, Range(job.events))
        BY <1>4, <3>1 DEF Carries, RoundKinds, OfKind, Attempts
      <4> QED
        BY <1>2, <1>4, <3>6, <4>2, <4>3 DEF Extends, Waiting
    <3>7. CASE s = lane[c]
      <4>1. s = Append(lane[c], job)
        BY <1>3, <1>4, <2>2 DEF Sealing
      <4>2. lane[c] \in Seq(Jobs) /\ job \in Jobs
        BY <1>4, SealingIs DEF TurnInv, Types
      <4>3. Extends(s, lane[c], job)
        BY <4>1, <4>2, ExtendsIs
      <4> QED
        BY <3>7, <4>3 DEF Extends
    <3> QED
      BY <3>5, <3>6, <3>7
  <2> QED
    BY <2>1, <2>2
<1>7. ASSUME NEW u, Extends(u, s, CloseJob) PROVE Good(u)
  <2>1. PICK last : last = CloseJob /\ last.kind = "close" /\ last.events = <<>>
    BY CloseJobIs
  <2>2. Extends(u, s, last)
    BY <1>7, <2>1
  <2>3. Ascends(last.events) /\ Below(LineWaits(s), Range(last.events)) /\ ~Carries(last) /\ OfKind(c, last.kind, Range(last.events))
    BY <1>1, <2>1 DEF Below, Carries, OfKind
  <2>4. LineWaits(u) = LineWaits(s) \cup Range(last.events) /\ LineAscends(u) /\ AloneLine(u)
    BY <1>6, <2>1, <2>2, <2>3, WaitsMore
  <2> QED
    BY <1>1, <1>6, <2>1, <2>2, <2>3, <2>4 DEF Extends
<1>8. Extends(Append(Sealing(c), CloseJob), Sealing(c), CloseJob)
  BY SealingIs
<1>9. CASE t = s
  BY <1>6, <1>9
<1>10. CASE t = Append(Sealing(c), CloseJob)
  BY <1>3, <1>7, <1>8, <1>10
<1> QED
  BY <1>3, <1>9, <1>10

\* The end of a wait: what was not reached is left over, or given up, and what is in progress is late.
LEMMA PlaceWaited ==
  ASSUME TurnInv, NEW c \in Calls, PlaceCall(c), WaitOver(c), LineAscends(lane'[c]), AloneLine(lane'[c]),
         \A k \in DOMAIN lane'[c] : (Carries(lane'[c][k]) => ~Streams(c)) /\ OfKind(c, lane'[c][k].kind, Range(lane'[c][k].events)),
         Ascends(work'[c].rest), OfKind(c, work'[c].kind, Range(work'[c].rest)),
         Ahead(c)' \subseteq Ahead(c) \ Attempts(c, work[c].rest), Below(Range(work'[c].rest), Waiting(c)'),
         work'[c].kind \in {"none", "seal", "sending"}, work'[c].kind # "sending" => work'[c].accepted = {},
         Grants(c)' \subseteq Grants(c), ~Ended(c)' => ~Ended(c) /\ Grants(c) \subseteq Grants(c)', call'[c].state # "unsent"
  PROVE  PlaceCall(c)'
<1> USE DEF PlaceCall
<1>1. /\ Quiet(desk'[c], desk[c]) /\ late'[c] = late[c] \cup InProgress(c) /\ dropped'[c] = dropped[c] \cup Attempts(c, work[c].rest)
      /\ UNCHANGED <<log, adrift, received>>
  BY WaitEnded
<1>2. OneAwaited(c) /\ InProgress(c) \subseteq AtDesk(c) /\ (\A m : IsAttempt(c, m)' <=> IsAttempt(c, m))
  BY <1>1, InProgressAtDesk DEF TurnInv, IsAttempt
<1>3. PICK t : t = desk'[c] /\ Quiet(t, desk[c])
  BY <1>1
<1>4. LineHas(t) = LineHas(desk[c]) /\ OnceEach(t)
  BY <1>3, HasQuiet DEF Apart
<1>5. AtDesk(c)' = AtDesk(c) /\ Logged(c)' = Logged(c) /\ Past(c)' = Past(c)
  BY <1>1, <1>2, <1>3, <1>4 DEF AtDesk, Logged, Past
<1>6. Past(c) \cap Ahead(c) = {} /\ Attempts(c, work[c].rest) \subseteq Ahead(c)
  BY Apartness DEF Attempts, Ahead
<1>7. Ordered(c)'
  BY <1>1, <1>5 DEF Ordered, Below
<1>8. Within(c)'
  BY <1>1, <1>5, <1>6 DEF Within
<1>9. RoundsAlone(c)' /\ KindsKept(c)'
  <2>1. ~AtRound(c)' /\ (Streams(c)' <=> Streams(c))
    BY DEF AtRound, Streams
  <2>2. \A k \in DOMAIN lane'[c] : OfKind(c, lane[c][k].kind, Range(lane[c][k].events))'
    BY <1>2 DEF OfKind
  <2>3. OfKind(c, work[c].kind, Range(work[c].rest))'
    BY <1>2 DEF OfKind
  <2> QED
    BY <2>1, <2>2, <2>3 DEF RoundsAlone, KindsKept
<1>10. Apart(c)'
  <2>1. Attempts(c, work[c].rest) \cap (AtDesk(c) \cup Logged(c) \cup Range(adrift[c]) \cup Ahead(c)') = {}
    BY <1>6 DEF Past
  <2>2. dropped'[c] \cap (AtDesk(c)' \cup Logged(c)' \cup Range(adrift'[c]) \cup Ahead(c)') = {}
    BY <1>1, <1>5, <2>1 DEF Apart
  <2> QED
    BY <1>1, <1>3, <1>4, <1>5, <2>2 DEF Apart
<1>11. DeskKinds(c)'
  BY <1>2, <1>3 DEF DeskKinds, Quiet
<1>12. GrantsKept(c)'
  <2>1. Grants(c)' \subseteq Logged(c)' \ late'[c]
    <3>1. InProgress(c) \cap Logged(c) = {}
      BY <1>2 DEF Apart
    <3> QED
      BY <1>1, <1>5, <3>1 DEF GrantsKept
  <2>2. LoggedAttempts(c)' = LoggedAttempts(c)
    BY <1>2, <1>5 DEF LoggedAttempts
  <2>3. ~Ended(c)' => LoggedAttempts(c)' \subseteq Grants(c)' \cup late'[c]
    BY <1>1, <2>2 DEF GrantsKept
  <2>4. ~Ended(c)' => \A k \in DOMAIN t : t[k].what = "attempt" /\ ~t[k].awaited => t[k].n \in late'[c]
    <3> SUFFICES ASSUME ~Ended(c)', NEW k \in DOMAIN t, t[k].what = "attempt" PROVE t[k].n \in late'[c]
      OBVIOUS
    <3>1. k \in DOMAIN desk[c] /\ desk[c][k].what = "attempt" /\ t[k].n = desk[c][k].n
      BY <1>3 DEF Quiet
    <3>2. CASE desk[c][k].awaited
      BY <1>1, <3>1, <3>2 DEF InProgress
    <3>3. CASE ~desk[c][k].awaited
      BY <1>1, <3>1, <3>3 DEF GrantsKept
    <3> QED
      BY <3>2, <3>3
  <2>5. \A k \in DOMAIN t : ~t[k].awaited
    BY <1>3 DEF Quiet
  <2> QED
    BY <1>3, <2>1, <2>3, <2>4, <2>5 DEF GrantsKept
<1> QED
  BY <1>7, <1>8, <1>9, <1>10, <1>11, <1>12

\* The outcomes left over go behind the lane, or become its work.
LEMMA PlaceSealed ==
  ASSUME TurnInv, NEW c \in Calls, PlaceCall(c), WaitOver(c), work[c].kind \in {"round", "input", "abandoned"},
         lane'[c] = Sealing(c) \/ lane'[c] = Append(Sealing(c), CloseJob),
         work'[c].rest = <<>>, work'[c].kind \in {"none", "sending"}, work'[c].kind # "sending" => work'[c].accepted = {},
         Grants(c)' \subseteq Grants(c), ~Ended(c)' => ~Ended(c) /\ Grants(c) \subseteq Grants(c)', call'[c].state # "unsent"
  PROVE  PlaceCall(c)'
<1>1. PICK t : t = lane'[c]
  OBVIOUS
<1>2. /\ LineWaits(t) = Waiting(c) \cup Range(Leftover(c)) /\ LineAscends(t) /\ AloneLine(t)
      /\ \A k \in DOMAIN t : (Carries(t[k]) => ~Streams(c)) /\ OfKind(c, t[k].kind, Range(t[k].events))
  BY <1>1, SealedLane
<1>3. Range(<<>>) = {} /\ Ascends(<<>>)
  BY DEF Range, Ascends
<1>4. Range(Leftover(c)) = Range(work[c].rest) \ Attempts(c, work[c].rest) /\ Range(work[c].rest) \cap Waiting(c) = {}
  BY LeftoverIs, Apartness
<1>5. Ahead(c)' \subseteq Ahead(c) \ Attempts(c, work[c].rest)
  BY <1>1, <1>2, <1>3, <1>4 DEF Ahead, Waiting, Attempts
<1>6. Ascends(work'[c].rest) /\ Below(Range(work'[c].rest), Waiting(c)') /\ OfKind(c, work'[c].kind, Range(work'[c].rest))
  BY <1>3 DEF Below, OfKind
<1> QED
  BY <1>1, <1>2, <1>5, <1>6, PlaceWaited

\* WaitOver: the call ended meanwhile, and what is left over becomes the lane's work.
LEMMA PlaceEndedMeanwhile == ASSUME TurnInv, PlaceInv, NEW c \in Calls, WaitOver(c), EndedMeanwhile(c) PROVE PlaceInv'
<1>1. /\ Types /\ work[c].kind \in {"round", "input"} /\ Ended(c) /\ PlaceCall(c)
      /\ UNCHANGED <<call, lane, held, clientAsked, clientTold, cancelled, told>>
      /\ work' = [work EXCEPT ![c] = IF Leftover(c) = <<>> THEN NoWork ELSE Work("seal", Leftover(c))]
  BY DEF TurnInv, PlaceInv, EndedMeanwhile, client
<1>2. /\ \A d \in Calls : d # c => desk'[d] = desk[d] /\ late'[d] = late[d] /\ dropped'[d] = dropped[d]
      /\ call[c].state # "unsent" /\ UNCHANGED <<log, owed, adrift, stopped, connection, sweep, received>>
  BY WaitEnded
<1>3. PICK w \in Works : /\ work' = [work EXCEPT ![c] = w] /\ w.kind \in {"none", "seal"} /\ w.rest = Leftover(c) /\ w.accepted = {}
                         /\ (w.kind = "none" => Leftover(c) = <<>>)
  <2>1. Leftover(c) \in Seq(Events) /\ "seal" \in WorkKinds
    BY LeftoverIs DEF WorkKinds
  <2>2. /\ Work("seal", Leftover(c)) \in Works /\ Work("seal", Leftover(c)).kind = "seal"
        /\ Work("seal", Leftover(c)).rest = Leftover(c) /\ Work("seal", Leftover(c)).accepted = {}
    BY <2>1, WorkIs
  <2>3. PICK s \in Works : s = Work("seal", Leftover(c)) /\ s.kind = "seal" /\ s.rest = Leftover(c) /\ s.accepted = {}
    BY <2>2
  <2>4. CASE Leftover(c) = <<>>
    BY <1>1, <2>4, NoWorkIs
  <2>5. CASE Leftover(c) # <<>>
    BY <1>1, <2>3, <2>5
  <2> QED
    BY <2>4, <2>5
<1>4. work'[c] = w /\ \A d \in Calls : d # c => work'[d] = work[d]
  BY <1>1, <1>3, WorkWritten
<1>5. \A d : HeldOf(d)' = HeldOf(d)
  BY <1>1, HeldSame DEF TurnInv
<1>6. \A d \in Calls : d # c => Same(d)
  BY <1>1, <1>2, <1>4, <1>5 DEF Same
<1>7. /\ LineAscends(lane[c]) /\ AloneLine(lane[c]) /\ Ascends(work[c].rest) /\ Below(Range(work[c].rest), Waiting(c))
      /\ \A k \in DOMAIN lane[c] : (Carries(lane[c][k]) => ~Streams(c)) /\ OfKind(c, lane[c][k].kind, Range(lane[c][k].events))
  BY <1>1 DEF PlaceCall, Ordered, RoundsAlone, KindsKept
<1>8. /\ Range(w.rest) = Range(work[c].rest) \ Attempts(c, work[c].rest) /\ Ascends(w.rest)
      /\ Range(work[c].rest) \cap Waiting(c) = {}
  BY <1>1, <1>3, <1>7, LeftoverIs, LeftoverAscends, Apartness
<1>9. Waiting(c)' = Waiting(c) /\ Ahead(c)' \subseteq Ahead(c) \ Attempts(c, work[c].rest)
  BY <1>1, <1>4, <1>8 DEF Waiting, Ahead, Attempts
<1>10. Below(Range(work'[c].rest), Waiting(c)') /\ OfKind(c, w.kind, Range(w.rest))
  <2>1. Range(<<>>) = {}
    BY DEF Range
  <2> QED
    BY <1>3, <1>4, <1>7, <1>8, <1>9, <2>1 DEF Below, OfKind, Attempts
<1>11. Grants(c)' \subseteq Grants(c) /\ Ended(c)'
  BY <1>1, <1>3, <1>4, <1>5 DEF Grants, Granted, Ended
<1>12. PlaceCall(c)'
  <2>1. lane'[c] = lane[c] /\ call'[c].state # "unsent"
    BY <1>1, <1>2
  <2> QED
    BY <1>1, <1>3, <1>4, <1>7, <1>8, <1>9, <1>10, <1>11, <2>1, PlaceWaited
<1> QED
  BY <1>6, <1>12, PlaceStep

\* WaitOver: what was accepted of an attempt asked about is granted.
LEMMA PlaceAnswered == ASSUME TurnInv, PlaceInv, NEW c \in Calls, WaitOver(c), Answered(c) PROVE PlaceInv'
<1>1. /\ Types /\ work[c].kind = "ask" /\ PlaceCall(c)
      /\ UNCHANGED <<call, lane, held, clientAsked, clientTold, cancelled>>
      /\ told' = [told EXCEPT ![c] = @ \cup work[c].accepted] /\ work' = [work EXCEPT ![c] = NoWork]
  BY DEF TurnInv, PlaceInv, Answered, client
<1>2. /\ \A d \in Calls : d # c => desk'[d] = desk[d] /\ late'[d] = late[d] /\ dropped'[d] = dropped[d]
      /\ call[c].state # "unsent" /\ UNCHANGED <<log, owed, adrift, stopped, connection, sweep, received>>
  BY WaitEnded
<1>3. work'[c] = NoWork /\ \A d \in Calls : d # c => work'[d] = work[d]
  BY <1>1, WorkWritten, NoWorkIs
<1>4. told'[c] = told[c] \cup work[c].accepted /\ \A d \in Calls : d # c => told'[d] = told[d]
  BY <1>1 DEF Types
<1>5. \A d : HeldOf(d)' = HeldOf(d)
  BY <1>1, HeldSame DEF TurnInv
<1>6. \A d \in Calls : d # c => Same(d)
  BY <1>1, <1>2, <1>3, <1>4, <1>5 DEF Same
<1>7. /\ LineAscends(lane[c]) /\ AloneLine(lane[c]) /\ OfKind(c, "ask", Range(work[c].rest))
      /\ \A k \in DOMAIN lane[c] : (Carries(lane[c][k]) => ~Streams(c)) /\ OfKind(c, lane[c][k].kind, Range(lane[c][k].events))
  BY <1>1 DEF PlaceCall, Ordered, RoundsAlone, KindsKept
<1>8. Range(<<>>) = {} /\ Ascends(<<>>) /\ Range(work'[c].rest) = {} /\ Ascends(work'[c].rest)
  BY <1>3, NoWorkIs DEF Range, Ascends
<1>9. Waiting(c)' = Waiting(c) /\ Ahead(c)' \subseteq Ahead(c) \ Attempts(c, work[c].rest)
  <2>1. Range(work[c].rest) \cap Waiting(c) = {}
    BY <1>1, Apartness
  <2> QED
    BY <1>1, <1>8, <2>1 DEF Waiting, Ahead, Attempts
<1>10. Grants(c)' = Grants(c) /\ (Ended(c)' <=> Ended(c))
  BY <1>1, <1>3, <1>4, <1>5, NoWorkIs DEF Grants, Granted, Ended
<1>11. PlaceCall(c)'
  <2>1. lane'[c] = lane[c] /\ call'[c].state # "unsent" /\ work'[c].kind = "none" /\ work'[c].accepted = {}
    BY <1>1, <1>2, <1>3, NoWorkIs
  <2>2. Below(Range(work'[c].rest), Waiting(c)') /\ OfKind(c, work'[c].kind, Range(work'[c].rest))
    BY <1>8, <2>1 DEF Below, OfKind
  <2> QED
    BY <1>1, <1>7, <1>8, <1>9, <1>10, <2>1, <2>2, PlaceWaited
<1> QED
  BY <1>6, <1>11, PlaceStep

\* WaitOver: what was accepted goes with the retry that is built.
LEMMA PlaceGoesBack == ASSUME TurnInv, PlaceInv, NEW c \in Calls, WaitOver(c), GoesBack(c) PROVE PlaceInv'
<1>1. /\ Types /\ work[c].kind = "round" /\ PlaceCall(c)
      /\ UNCHANGED <<call, held, clientAsked, clientTold, cancelled, told>>
      /\ lane' = Queued(c, SealJob(Leftover(c)))
      /\ work' = [work EXCEPT ![c] = [Work("sending", <<>>) EXCEPT !.accepted = work[c].accepted]]
  BY DEF TurnInv, PlaceInv, GoesBack, client
<1>2. /\ \A d \in Calls : d # c => desk'[d] = desk[d] /\ late'[d] = late[d] /\ dropped'[d] = dropped[d]
      /\ call[c].state # "unsent" /\ UNCHANGED <<log, owed, adrift, stopped, connection, sweep, received>>
  BY WaitEnded
<1>3. PICK w \in Works : work' = [work EXCEPT ![c] = w] /\ w.kind = "sending" /\ w.rest = <<>> /\ w.accepted = work[c].accepted
  <2>1. "sending" \in WorkKinds /\ <<>> \in Seq(Events)
    BY DEF WorkKinds
  <2>2. Work("sending", <<>>) \in Works /\ Work("sending", <<>>).kind = "sending" /\ Work("sending", <<>>).rest = <<>>
    BY <2>1, WorkIs
  <2>3. PICK r \in Works : r = Work("sending", <<>>) /\ r.kind = "sending" /\ r.rest = <<>>
    BY <2>2
  <2>4. PICK A \in SUBSET Events : A = work[c].accepted
    BY <1>1 DEF Types, Works
  <2>5. PICK q \in Works : q = [r EXCEPT !.accepted = A]
    BY DEF Works
  <2>6. q.kind = r.kind /\ q.rest = r.rest /\ q.accepted = A
    BY <2>5 DEF Works
  <2> QED
    BY <1>1, <2>3, <2>4, <2>5, <2>6
<1>4. work'[c] = w /\ \A d \in Calls : d # c => work'[d] = work[d]
  BY <1>1, <1>3, WorkWritten
<1>5. lane'[c] = Sealing(c) /\ \A d \in Calls : d # c => lane'[d] = lane[d]
  BY <1>1, SealingIs DEF Types
<1>6. \A d : HeldOf(d)' = HeldOf(d)
  BY <1>1, HeldSame DEF TurnInv
<1>7. \A d \in Calls : d # c => Same(d)
  BY <1>1, <1>2, <1>4, <1>5, <1>6 DEF Same
<1>8. Grants(c)' = Grants(c) /\ (Ended(c)' <=> Ended(c))
  BY <1>1, <1>3, <1>4, <1>6 DEF Grants, Granted, Ended
<1>9. PlaceCall(c)'
  <2>1. call'[c].state # "unsent"
    BY <1>1, <1>2
  <2> QED
    BY <1>1, <1>3, <1>4, <1>5, <1>8, <2>1, PlaceSealed
<1> QED
  BY <1>7, <1>9, PlaceStep

\* WaitOver: a call that is given up grants nothing.
LEMMA PlaceAbandoned == ASSUME TurnInv, PlaceInv, NEW c \in Calls, WaitOver(c), Abandoned(c) PROVE PlaceInv'
<1>1. /\ Types /\ work[c].kind = "abandoned" /\ PlaceCall(c) /\ Ended(c)
      /\ UNCHANGED <<call, held, told>> /\ ToldClient(c)
      /\ lane' = [Queued(c, SealJob(Leftover(c))) EXCEPT ![c] = Append(@, CloseJob)]
      /\ work' = [work EXCEPT ![c] = NoWork]
  BY DEF TurnInv, PlaceInv, LaneRuns, Abandoned
<1>2. /\ \A d \in Calls : d # c => desk'[d] = desk[d] /\ late'[d] = late[d] /\ dropped'[d] = dropped[d]
      /\ call[c].state # "unsent" /\ UNCHANGED <<log, owed, adrift, stopped, connection, sweep, received>>
  BY WaitEnded
<1>3. work'[c] = NoWork /\ \A d \in Calls : d # c => work'[d] = work[d]
  BY <1>1, WorkWritten, NoWorkIs
<1>4. PICK t \in Seq(Jobs) : t = Append(Sealing(c), CloseJob)
  BY SealingIs
<1>5. lane'[c] = t /\ \A d \in Calls : d # c => lane'[d] = lane[d]
  <2>1. PICK s \in Seq(Jobs) : s = Sealing(c)
    BY SealingIs
  <2>2. lane \in [Calls -> Seq(Jobs)] /\ Queued(c, SealJob(Leftover(c))) = [lane EXCEPT ![c] = s]
    BY <1>1, <2>1, SealingIs DEF Types
  <2>3. lane' = [lane EXCEPT ![c] = t]
    BY <1>1, <1>4, <2>1, <2>2
  <2> QED
    BY <2>2, <2>3
<1>6. clientAsked' = clientAsked /\ cancelled' = cancelled /\ \A d \in Calls : d # c => clientTold'[d] = clientTold[d]
  BY <1>1, ToldIs
<1>7. \A d : HeldOf(d)' = HeldOf(d)
  BY <1>1, HeldSame DEF TurnInv
<1>8. \A d \in Calls : d # c => Same(d)
  BY <1>1, <1>2, <1>3, <1>5, <1>6, <1>7 DEF Same
<1>9. Grants(c)' \subseteq Grants(c) /\ Ended(c)'
  BY <1>1, <1>3, <1>7, NoWorkIs DEF Grants, Granted, Ended
<1>10. PlaceCall(c)'
  <2>1. call'[c].state # "unsent" /\ work'[c].rest = <<>> /\ work'[c].kind = "none" /\ work'[c].accepted = {}
    BY <1>1, <1>2, <1>3, NoWorkIs
  <2> QED
    BY <1>1, <1>4, <1>5, <1>9, <2>1, PlaceSealed
<1> QED
  BY <1>8, <1>10, PlaceStep

\* WaitOver: what was accepted is kept with the held round; the one that gives way grants nothing more.
LEMMA PlaceGoesUp == ASSUME TurnInv, PlaceInv, NEW c \in Calls, WaitOver(c), GoesUp(c) PROVE PlaceInv'
<1>1. /\ Types /\ work[c].kind = "input" /\ ~Ended(c) /\ PlaceCall(c) /\ ToldClient(c)
      /\ told' = told /\ work' = [work EXCEPT ![c] = NoWork]
  BY DEF TurnInv, PlaceInv, GoesUp
<1>2. /\ \A d \in Calls : d # c => desk'[d] = desk[d] /\ late'[d] = late[d] /\ dropped'[d] = dropped[d]
      /\ call[c].state # "unsent" /\ UNCHANGED <<log, owed, adrift, stopped, connection, sweep, received>>
  BY WaitEnded
<1>3. work'[c] = NoWork /\ \A d \in Calls : d # c => work'[d] = work[d]
  BY <1>1, WorkWritten, NoWorkIs
<1>4. PICK r : r = [call |-> c, accepted |-> work[c].accepted] /\ r.accepted = work[c].accepted
  <2>1. PICK A : A = work[c].accepted
    OBVIOUS
  <2>2. [call |-> c, accepted |-> A].accepted = A
    OBVIOUS
  <2> QED
    BY <2>1, <2>2
<1>5. PICK out : WentUp(c, r, out)
  BY <1>4, GoneUp
<1>6. clientAsked' = clientAsked /\ cancelled' = cancelled /\ \A d \in Calls : d # c => clientTold'[d] = clientTold[d]
  BY <1>1, ToldIs
<1>7. Grants(c)' = Grants(c) /\ ~Ended(c)' /\ call'[c].state # "unsent" /\ lane'[c] = Sealing(c)
  BY <1>1, <1>2, <1>3, <1>4, <1>5, NoWorkIs DEF WentUp, Grants, Granted, Ended
<1>8. PlaceCall(c)'
  <2>1. work'[c].rest = <<>> /\ work'[c].kind = "none" /\ work'[c].accepted = {}
    BY <1>3, NoWorkIs
  <2> QED
    BY <1>1, <1>7, <2>1, PlaceSealed
<1>9. ASSUME NEW d \in Calls, d # c PROVE PlaceCall(d)'
  <2>1. PlaceCall(d)
    BY DEF PlaceInv
  <2>2. CASE d = out
    <3>1. /\ Ended(d)' /\ call'[d].state # "unsent" /\ lane'[d] = Append(lane[d], CloseJob) /\ HeldOf(d)' \subseteq HeldOf(d)
      BY <1>5, <2>2 DEF WentUp, Ended
    <3>2. /\ received'[d] = received[d] /\ log'[d] = log[d] /\ adrift'[d] = adrift[d] /\ late'[d] = late[d] /\ dropped'[d] = dropped[d]
          /\ desk'[d] = desk[d] /\ told'[d] = told[d] /\ work'[d] = work[d]
      BY <1>1, <1>2, <1>3, <1>9
    <3> QED
      BY <2>1, <3>1, <3>2, PlaceEnds
  <2>3. CASE d # out
    <3>1. Same(d)
      BY <1>1, <1>2, <1>3, <1>5, <1>6, <1>9, <2>3 DEF WentUp, Same
    <3> QED
      BY <2>1, <3>1, PlaceSame
  <2> QED
    BY <2>2, <2>3
<1> QED
  BY <1>8, <1>9 DEF PlaceInv

\* WaitOver, whichever way the work goes on.
LEMMA PlaceWaitOver == ASSUME TurnInv, PlaceInv, NEW c \in Calls, WaitOver(c) PROVE PlaceInv'
<1>1. EndedMeanwhile(c) \/ GoesUp(c) \/ GoesBack(c) \/ Abandoned(c) \/ Answered(c)
  BY DEF WaitOver
<1> QED
  BY <1>1, PlaceEndedMeanwhile, PlaceGoesUp, PlaceGoesBack, PlaceAbandoned, PlaceAnswered

\* Every step keeps the events in place.
LEMMA PlaceNext == ASSUME TurnInv, SendInv, PlaceInv, Next PROVE PlaceInv'
<1>1. \A c \in Calls : Sends(c)
  BY DEF SendInv
<1>2. ASSUME NEW c \in Calls, Send(c) \/ ClientRetry(c) \/ Cancel(c) \/ CancelNotFound(c) \/ Answer(c) \/ Message(c) PROVE PlaceInv'
  BY <1>2, PlaceSend, PlaceClientRetry, PlaceCancel, PlaceCancelNotFound, PlaceAnswer, PlaceMessage
<1>3. ASSUME NEW c \in Calls, LaneStep(c) PROVE PlaceInv'
  <2>1. CASE RetrySent(c) \/ RetryFailed(c)
    BY <1>1, <2>1, PlaceRetrySent, PlaceRetryFailed
  <2>2. CASE TakeJob(c) \/ HandOver(c) \/ JobDone(c) \/ BeginClose(c) \/ WaitOver(c) \/ EndpointDecides(c)
    BY <2>2, PlaceTakeJob, PlaceHandOver, PlaceJobDone, PlaceBeginClose, PlaceWaitOver, PlaceDecides
  <2> QED
    BY <1>3, <2>1, <2>2 DEF LaneStep
<1>4. ASSUME NEW c \in Calls, HandOverAdrift(c) \/ CloseSession(c) PROVE PlaceInv'
  BY <1>4, PlaceHandOverAdrift, PlaceCloseSession
<1>5. ASSUME Stopped \/ CloseConnection \/ EndDrain \/ Stop PROVE PlaceInv'
  BY <1>5, PlaceStopped, PlaceCloseConnection, PlaceEndDrain, PlaceStop
<1> QED
  BY <1>2, <1>3, <1>4, <1>5 DEF Next

\* In every behaviour an event is in one place, behind what came before it, and what is granted is recorded.
THEOREM PlacesCorrect == Spec => []PlaceInv
<1>1. Init => PlaceInv
  BY PlaceInit
<1>2. TurnInv /\ SendInv /\ PlaceInv /\ [Next]_vars => PlaceInv'
  BY PlaceNext, PlaceAside
<1> QED
  BY <1>1, <1>2, TurnsCorrect, PTL DEF Spec

\* A retry grants the attempts recorded in time, all of them and no others.
THEOREM GrantsCorrect == Spec => []GrantsTold
<1>1. ASSUME TurnInv, PlaceInv PROVE GrantsTold
  <2> SUFFICES ASSUME NEW c \in Calls
               PROVE  LET granted == told[c] \cup UNION {h.accepted : h \in {g \in Range(held) : g.call = c}} IN
                      /\ granted \subseteq Range(log[c]) \ late[c]
                      /\ Range(log[c]) \cap dropped[c] = {}
                      /\ Ended(c) \/ {n \in Range(log[c]) \ {0} : IsAttempt(c, n)} \subseteq granted \cup late[c] \cup work[c].accepted
    BY DEF GrantsTold
  <2>1. PlaceCall(c)
    BY <1>1 DEF PlaceInv
  <2>2. Granted(c) = told[c] \cup UNION {h.accepted : h \in {g \in Range(held) : g.call = c}}
    BY DEF Granted, HeldOf
  <2>3. Granted(c) \subseteq Range(log[c]) \ late[c]
    BY <2>1 DEF PlaceCall, GrantsKept, Grants, Logged
  <2>4. Range(log[c]) \cap dropped[c] = {}
    <3>1. 0 \notin dropped[c]
      BY <1>1, <2>1, Apartness
    <3> QED
      BY <2>1, <3>1 DEF PlaceCall, Apart, Logged
  <2>5. Ended(c) \/ {n \in Range(log[c]) \ {0} : IsAttempt(c, n)} \subseteq Granted(c) \cup late[c] \cup work[c].accepted
    BY <2>1 DEF PlaceCall, GrantsKept, LoggedAttempts, Logged, Grants
  <2> QED
    BY <2>2, <2>3, <2>4, <2>5
<1> QED
  BY <1>1, TurnsCorrect, PlacesCorrect, PTL

-----------------------------------------------------------------------------
(* Order: until the host is stopped or the sessions are closed, events reach the endpoint's log in the order of *)
(* their arrival and before the session's close, and an outcome on its way is on its way still.                *)

Undisturbed == ~stopped /\ connection \in {"up", "draining"}

LineInOrder(line) == \A j, k \in DOMAIN line : j < k /\ line[k] # 0 => line[j] # 0 /\ line[j] < line[k]
DeskInOrder(line) == \A j, k \in DOMAIN line : j < k => line[j].n # 0 /\ (line[k].n # 0 => line[j].n < line[k].n)
Accounted(c) == dropped[c] \cup AtDesk(c) \cup Logged(c) \cup Ahead(c)

InOrder(c) ==
  /\ LineInOrder(log[c]) /\ DeskInOrder(desk[c]) /\ Below(Logged(c), AtDesk(c))
  /\ 0 \in Range(log[c]) => call[c].state = "over"
  /\ call[c].state = "over" => desk[c] = <<>>
  /\ \A k \in DOMAIN desk[c] : desk[c][k].n = 0 => desk[c][k].awaited
  /\ \A n \in DOMAIN received[c] : IsAttempt(c, n) \/ n \in Accounted(c)
OrderInv == Undisturbed => \A c \in Calls : InOrder(c)

\* Nothing of a call is handed over or recorded, and no outcome is lost.
LEMMA OrderStays ==
  ASSUME TurnInv, NEW c \in Calls, InOrder(c), received'[c] = received[c], log'[c] = log[c],
         desk'[c] = desk[c] \/ (Quiet(desk'[c], desk[c]) /\ work[c].kind \in Bounded),
         call'[c].state = "over" <=> call[c].state = "over",
         \A n \in dropped[c] \cup Ahead(c) : IsAttempt(c, n) \/ n \in dropped'[c] \cup Ahead(c)'
  PROVE  InOrder(c)'
<1>1. PICK t : t = desk'[c]
  OBVIOUS
<1>2. /\ DOMAIN t = DOMAIN desk[c] /\ (\A k \in DOMAIN t : t[k].n = desk[c][k].n) /\ LineHas(t) = LineHas(desk[c])
      /\ \A k \in DOMAIN t : t[k].n = 0 => t[k].awaited
      /\ call[c].state = "over" => t = <<>>
  <2>1. CASE t = desk[c]
    BY <2>1 DEF InOrder
  <2>2. CASE Quiet(t, desk[c]) /\ work[c].kind \in Bounded
    <3>1. \A k \in DOMAIN desk[c] : desk[c][k].n # 0
      BY <2>2 DEF InOrder, TurnInv, OneAwaited, Bounded
    <3>2. call[c].state # "over"
      BY <2>2, NoWorkIs DEF TurnInv, LaneRuns, Bounded
    <3> QED
      BY <2>2, <3>1, <3>2, HasQuiet DEF Quiet
  <2> QED
    BY <1>1, <2>1, <2>2
<1>3. AtDesk(c)' = AtDesk(c) /\ Logged(c)' = Logged(c) /\ \A n : IsAttempt(c, n)' <=> IsAttempt(c, n)
  BY <1>1, <1>2 DEF AtDesk, Logged, IsAttempt
<1>4. DeskInOrder(t)
  BY <1>2 DEF DeskInOrder, InOrder
<1>5. \A n \in DOMAIN received'[c] : IsAttempt(c, n)' \/ n \in Accounted(c)'
  BY <1>3 DEF InOrder, Accounted
<1> QED
  BY <1>1, <1>2, <1>3, <1>4, <1>5 DEF InOrder

\* A step leaves what is a call's on its way where it is; at most a job without events is queued.
Rests(d) ==
  /\ desk'[d] = desk[d] /\ log'[d] = log[d] /\ received'[d] = received[d] /\ dropped'[d] = dropped[d]
  /\ call'[d].state = "over" <=> call[d].state = "over"
  /\ work'[d].rest = work[d].rest /\ (lane'[d] = lane[d] \/ lane'[d] = Append(lane[d], CloseJob))

\* A call whose events stay where they are keeps them in order.
LEMMA OrderRests == ASSUME TurnInv, NEW c \in Calls, InOrder(c), Rests(c) PROVE InOrder(c)'
<1>1. PICK t : t = lane'[c]
  OBVIOUS
<1>2. LineWaits(t) = LineWaits(lane[c])
  <2>1. CASE t = lane[c]
    BY <2>1
  <2>2. CASE t = Append(lane[c], CloseJob)
    <3>1. lane[c] \in Seq(Jobs)
      BY DEF TurnInv, Types
    <3>2. Extends(t, lane[c], CloseJob)
      BY <2>2, <3>1, ExtendsIs, CloseJobIs
    <3>3. LineWaits(t) = LineWaits(lane[c]) \cup Range(CloseJob.events)
      BY <3>2, WaitsMore
    <3>4. Range(CloseJob.events) = {}
      <4>1. Range(<<>>) = {}
        BY DEF Range
      <4> QED
        BY <4>1, CloseJobIs
    <3> QED
      BY <3>3, <3>4
  <2> QED
    BY <1>1, <2>1, <2>2 DEF Rests
<1>3. Ahead(c)' = Ahead(c)
  BY <1>1, <1>2 DEF Ahead, Waiting, Rests
<1> QED
  BY <1>3, OrderStays DEF Rests

\* A step of one call.
LEMMA OrderStep ==
  ASSUME TurnInv, OrderInv, Undisturbed' => Undisturbed, NEW c \in Calls, Undisturbed => InOrder(c)',
         \A d \in Calls : d # c => Rests(d)
  PROVE  OrderInv'
<1> SUFFICES ASSUME Undisturbed', NEW d \in Calls PROVE InOrder(d)'
  BY DEF OrderInv
<1>1. InOrder(d)
  BY DEF OrderInv
<1> QED
  BY <1>1, OrderRests

\* A call that a step leaves alone keeps what is on its way.
LEMMA SameRests == ASSUME NEW d \in Calls, Same(d) PROVE Rests(d)
BY DEF Same, Rests

\* Initially nothing is on its way.
LEMMA OrderInit == Init => OrderInv
<1> SUFFICES ASSUME Init, NEW c \in Calls PROVE InOrder(c)
  BY DEF OrderInv
<1>1. log[c] = <<>> /\ desk[c] = <<>> /\ call[c].state = "unsent" /\ received[c] = <<>>
  BY DEF Init
<1>2. Range(<<>>) = {} /\ DOMAIN <<>> = {}
  BY DEF Range
<1> QED
  BY <1>1, <1>2 DEF InOrder, LineInOrder, DeskInOrder, Below, Logged, AtDesk, LineHas

\* What is not of one call, or leaves where they are the events of all.
LEMMA OrderQuietly ==
  ASSUME TurnInv, SendInv, OrderInv, NEW c \in Calls,
         Send(c) \/ ClientRetry(c) \/ Cancel(c) \/ CancelNotFound(c) \/ JobDone(c) \/ RetrySent(c) \/ RetryFailed(c)
  PROVE  OrderInv'
<1> USE DEF lanes, host, wire, client, grants
<1>1. Types
  BY DEF TurnInv
<1>2. SUFFICES Rests(c) /\ (\A d \in Calls : d # c => Rests(d)) /\ (Undisturbed' => Undisturbed)
  BY OrderRests, OrderStep DEF OrderInv
<1>3. CASE Send(c)
  <2>1. /\ call[c].state = "unsent" /\ call'[c].state = "inflight" /\ \A d \in Calls : d # c => call'[d] = call[d]
    BY <1>1, <1>3 DEF Send, Types, CallRecords
  <2> QED
    BY <1>3, <2>1 DEF Send, Rests, Undisturbed
<1>4. CASE ClientRetry(c)
  <2>1. /\ call' = [call EXCEPT ![c].asked = TRUE]
        /\ UNCHANGED <<lane, work, desk, log, received, stopped, connection, dropped>>
    BY <1>4 DEF ClientRetry
  <2>2. call'[c].state = call[c].state /\ \A d \in Calls : d # c => call'[d] = call[d]
    BY <1>1, <2>1 DEF Types, CallRecords
  <2> QED
    BY <2>1, <2>2 DEF Rests, Undisturbed
<1>5. CASE Cancel(c)
  <2>1. /\ call' = Detached(c) /\ lane' = Queued(c, <<CloseJob>>) /\ call[c].state = "inflight"
        /\ UNCHANGED <<work, desk, log, received, stopped, connection, dropped>>
    BY <1>5 DEF Cancel, InFlight
  <2>2. (\A d \in Calls : d # c => call'[d] = call[d]) /\ call'[c].state = "concluding"
    BY <1>1, <2>1, DetachedIs
  <2>3. lane'[c] = Append(lane[c], CloseJob) /\ \A d \in Calls : d # c => lane'[d] = lane[d]
    BY <1>1, <2>1, QueuedOne, CloseJobIs
  <2> QED
    BY <2>1, <2>2, <2>3 DEF Rests, Undisturbed
<1>6. CASE JobDone(c)
  <2>1. /\ work[c].rest = <<>> /\ UNCHANGED <<call, lane, desk, log, received, stopped, connection, dropped>>
    BY <1>6 DEF JobDone
  <2>2. PICK w \in Works : w.rest = <<>> /\ work' = [work EXCEPT ![c] = w]
    <3>1. "close" \in WorkKinds /\ <<>> \in Seq(Events)
      BY DEF WorkKinds
    <3>2. Work("close", <<>>) \in Works /\ Work("close", <<>>).rest = <<>>
      BY <3>1, WorkIs
    <3>3. CASE work[c].kind = "conclude"
      BY <1>6, <3>2, <3>3 DEF JobDone
    <3>4. CASE work[c].kind # "conclude"
      BY <1>6, <3>4, NoWorkIs DEF JobDone
    <3> QED
      BY <3>3, <3>4
  <2>3. work'[c] = w /\ \A d \in Calls : d # c => work'[d] = work[d]
    BY <1>1, <2>2, WorkWritten
  <2> QED
    BY <2>1, <2>2, <2>3 DEF Rests, Undisturbed
<1>7. CASE RetrySent(c)
  <2>1. /\ work[c].kind = "sending" /\ work' = [work EXCEPT ![c] = NoWork] /\ call' = [call EXCEPT ![c].asked = ~Ended(c)]
        /\ UNCHANGED <<lane, desk, log, received, stopped, connection, dropped>>
    BY <1>7 DEF RetrySent
  <2>2. work'[c] = NoWork /\ work[c].rest = <<>> /\ \A d \in Calls : d # c => work'[d] = work[d]
    BY <1>1, <2>1, WorkWritten, NoWorkIs DEF SendInv, Sends
  <2>3. call'[c].state = call[c].state /\ \A d \in Calls : d # c => call'[d] = call[d]
    <3>1. PICK b : b = ~Ended(c)
      OBVIOUS
    <3>2. PICK q : q = [call[c] EXCEPT !.asked = b]
      OBVIOUS
    <3>3. q.state = call[c].state
      BY <1>1, <3>2 DEF Types, CallRecords
    <3>4. call' = [call EXCEPT ![c] = q] /\ call \in [Calls -> CallRecords]
      BY <1>1, <2>1, <3>1, <3>2 DEF Types
    <3> QED
      BY <3>3, <3>4
  <2> QED
    BY <2>1, <2>2, <2>3, NoWorkIs DEF Rests, Undisturbed
<1>8. CASE RetryFailed(c)
  <2>1. /\ work[c].kind = "sending" /\ work' = [work EXCEPT ![c] = NoWork]
        /\ UNCHANGED <<desk, log, received, stopped, connection, dropped>>
    BY <1>8 DEF RetryFailed
  <2>2. work'[c] = NoWork /\ work[c].rest = <<>> /\ \A d \in Calls : d # c => work'[d] = work[d]
    BY <1>1, <2>1, WorkWritten, NoWorkIs DEF SendInv, Sends
  <2>3. /\ \A d \in Calls : d # c => call'[d] = call[d] /\ lane'[d] = lane[d]
        /\ call'[c].state = "over" <=> call[c].state = "over"
        /\ lane'[c] = lane[c] \/ lane'[c] = Append(lane[c], CloseJob)
    <3>1. CASE Ended(c)
      BY <1>8, <3>1 DEF RetryFailed
    <3>2. CASE ~Ended(c)
      <4>1. call' = Detached(c) /\ lane' = Queued(c, <<CloseJob>>) /\ call[c].state # "over"
        BY <1>8, <3>2 DEF RetryFailed, Ended
      <4>2. (\A d \in Calls : d # c => call'[d] = call[d]) /\ call'[c].state = "concluding"
        BY <1>1, <4>1, DetachedIs
      <4>3. lane'[c] = Append(lane[c], CloseJob) /\ \A d \in Calls : d # c => lane'[d] = lane[d]
        BY <1>1, <4>1, QueuedOne, CloseJobIs
      <4> QED
        BY <4>1, <4>2, <4>3
    <3> QED
      BY <3>1, <3>2
  <2> QED
    BY <2>1, <2>2, <2>3, NoWorkIs DEF Rests, Undisturbed
<1>9. CASE CancelNotFound(c)
  BY <1>9 DEF CancelNotFound, Rests, Undisturbed
<1> QED
  BY <1>3, <1>4, <1>5, <1>6, <1>7, <1>8, <1>9

\* CloseConnection: the calls in flight have ended, and what their lanes hold goes on.
LEMMA OrderCloseConnection == ASSUME TurnInv, OrderInv, CloseConnection PROVE OrderInv'
<1>1. /\ connection = "up" /\ stopped' = stopped
      /\ call' = [c \in Calls |-> IF call[c].state = "inflight" THEN [call[c] EXCEPT !.state = "cut", !.asked = FALSE]
                                                                ELSE call[c]]
      /\ UNCHANGED <<lane, work, desk, log, received, dropped>>
  BY DEF CloseConnection, lanes, host, client, grants
<1> SUFFICES ASSUME Undisturbed', NEW c \in Calls PROVE InOrder(c)'
  BY DEF OrderInv
<1>2. InOrder(c)
  BY <1>1 DEF OrderInv, Undisturbed
<1>3. call'[c].state = "over" <=> call[c].state = "over"
  <2>1. call[c] \in CallRecords
    BY CallFields DEF TurnInv
  <2>2. CASE call[c].state = "inflight"
    BY <1>1, <2>1, <2>2 DEF CallRecords
  <2>3. CASE call[c].state # "inflight"
    BY <1>1, <2>3
  <2> QED
    BY <2>2, <2>3
<1>4. Rests(c)
  BY <1>1, <1>3 DEF Rests
<1> QED
  BY <1>2, <1>4, OrderRests

\* TakeJob: the first job's events are the work's, or are dropped with it.
LEMMA OrderTakeJob == ASSUME TurnInv, PlaceInv, OrderInv, NEW c \in Calls, TakeJob(c) PROVE OrderInv'
<1>1. /\ Shortens(lane'[c], lane[c]) /\ Head(lane[c]) \in Jobs /\ work[c] = NoWork
      /\ \/ /\ work'[c] = NoWork /\ call'[c] = call[c] /\ dropped'[c] = dropped[c] \cup Range(Head(lane[c]).events)
         \/ work'[c].rest = Head(lane[c]).events /\ dropped'[c] = dropped[c]
      /\ \A d \in Calls : d # c => Same(d)
      /\ UNCHANGED <<desk, log, received>>
  BY Taken
<1>2. lane[c] # <<>> /\ (Undisturbed' => Undisturbed)
  BY DEF TakeJob, wire, Undisturbed
<1>3. call'[c].state # "over" /\ call[c].state # "over"
  <2>1. Types /\ call[c].state # "over"
    BY <1>2 DEF TurnInv, LaneRuns
  <2>2. PICK job : SkipRound(c, job) \/ BeginAbandon(c, job) \/ BeginRound(c, job) \/ BeginOther(c, job)
    BY DEF TakeJob
  <2>3. CASE SkipRound(c, job) \/ BeginOther(c, job)
    BY <2>1, <2>3 DEF SkipRound, BeginOther
  <2>4. CASE BeginRound(c, job)
    <3>1. call'[c].state = call[c].state
      BY <2>1, <2>4 DEF BeginRound, Types, CallRecords
    <3> QED
      BY <2>1, <3>1
  <2>5. CASE BeginAbandon(c, job)
    <3>1. PICK det \in [Calls -> CallRecords] : det = Detached(c) /\ det[c].state = "concluding"
      BY <2>1, DetachedIs
    <3>2. call' = [det EXCEPT ![c].rounds = @ + 1]
      BY <2>5, <3>1 DEF BeginAbandon
    <3>3. call'[c].state = det[c].state
      BY <3>2 DEF CallRecords
    <3> QED
      BY <2>1, <3>1, <3>3
  <2> QED
    BY <2>1, <2>2, <2>3, <2>4, <2>5
<1>4. PICK t : t = lane'[c]
  OBVIOUS
<1>5. LineWaits(lane[c]) = Range(Head(lane[c]).events) \cup LineWaits(t) /\ Range(<<>>) = {}
  <2>1. Range(<<>>) = {}
    BY DEF Range
  <2> QED
    BY <1>1, <1>4, <2>1, WaitsLess
<1>6. \A n \in dropped[c] \cup Ahead(c) : n \in dropped'[c] \cup Ahead(c)'
  <2>1. Ahead(c) = Range(Head(lane[c]).events) \cup LineWaits(t) /\ Ahead(c)' = Range(work'[c].rest) \cup LineWaits(t)
    BY <1>1, <1>4, <1>5, NoWorkIs DEF Ahead, Waiting
  <2> QED
    BY <1>1, <2>1
<1>7. Undisturbed => InOrder(c)'
  BY <1>1, <1>3, <1>6, OrderStays DEF OrderInv
<1> QED
  BY <1>1, <1>2, <1>7, OrderStep, SameRests

\* An entry goes behind the endpoint's queue that nothing in it is waited for, with an event behind all that came before.
LEMMA DeskInOrderMore ==
  ASSUME TurnInv, NEW c \in Calls, InOrder(c), ~work[c].busy, NEW e \in Entries, e.awaited, NEW t,
         Extends(t, desk[c], e), e.n # 0 => Below(AtDesk(c) \cup Logged(c), {e.n})
  PROVE  /\ DeskInOrder(t) /\ \A k \in DOMAIN t : t[k].n = 0 => t[k].awaited
         /\ LineHas(t) = AtDesk(c) \cup ({e.n} \ {0}) /\ Below(Logged(c), LineHas(t))
<1>1. \A k \in DOMAIN desk[c] : desk[c][k].n # 0 /\ desk[c][k].n \in AtDesk(c)
  BY DEF InOrder, TurnInv, OneAwaited, AtDesk, LineHas
<1>2. LineHas(t) = AtDesk(c) \cup ({e.n} \ {0})
  BY HasMore DEF AtDesk
<1>3. DeskInOrder(t)
  <2> SUFFICES ASSUME NEW j \in DOMAIN t, NEW k \in DOMAIN t, j < k PROVE t[j].n # 0 /\ (t[k].n # 0 => t[j].n < t[k].n)
    BY DEF DeskInOrder
  <2>1. j \in DOMAIN desk[c] /\ t[j] = desk[c][j]
    BY DEF Extends
  <2>2. CASE k \in DOMAIN desk[c]
    <3>1. t[k] = desk[c][k]
      BY <2>2 DEF Extends
    <3> QED
      BY <1>1, <2>1, <2>2, <3>1 DEF InOrder, DeskInOrder
  <2>3. CASE k \notin DOMAIN desk[c]
    <3>1. t[k] = e
      BY <2>3 DEF Extends
    <3> QED
      BY <1>1, <2>1, <3>1 DEF Below
  <2> QED
    BY <2>2, <2>3
<1>4. \A k \in DOMAIN t : t[k].n = 0 => t[k].awaited
  BY <1>1 DEF Extends
<1>5. Below(Logged(c), LineHas(t))
  BY <1>2 DEF Below, InOrder
<1> QED
  BY <1>2, <1>3, <1>4, <1>5

\* HandOver: the next event goes behind those the endpoint has, or is given up.
LEMMA OrderHandOver == ASSUME TurnInv, PlaceInv, OrderInv, NEW c \in Calls, HandOver(c) PROVE OrderInv'
<1> DEFINE asAttempt(n) == IsAttempt(c, n) /\ work[c].kind # "conclude"
           pass(n) == asAttempt(n) /\ work[c].kind = "abandoned"
<1>1. PICK n \in Events, e \in Entries :
         /\ n = Head(work[c].rest) /\ work[c].rest # <<>> /\ work[c].rest \in Seq(Events) /\ ~work[c].busy
         /\ e.n = n /\ e.awaited
         /\ work'[c].kind = work[c].kind /\ work'[c].rest = Tail(work[c].rest)
         /\ (pass(n) => desk' = desk /\ dropped'[c] = dropped[c] \cup {n})
         /\ (~pass(n) => desk'[c] = Append(desk[c], e) /\ dropped'[c] = dropped[c])
         /\ \A d \in Calls : d # c => desk'[d] = desk[d] /\ dropped'[d] = dropped[d] /\ work'[d] = work[d]
         /\ UNCHANGED <<call, lane, log, stopped, connection, received>>
  <2> DEFINE f(n) == Entry(IF asAttempt(n) THEN "attempt" ELSE "outcome", n)
             m == Head(work[c].rest)
  <2>1. /\ m \in Events /\ work[c].rest # <<>> /\ work[c].rest \in Seq(Events) /\ ~work[c].busy
        /\ f(m) \in Entries /\ f(m).n = m /\ f(m).awaited
    BY HandedOver
  <2>2. /\ work'[c].kind = work[c].kind /\ work'[c].rest = Tail(work[c].rest)
        /\ (pass(m) => desk' = desk /\ dropped'[c] = dropped[c] \cup {m})
        /\ (~pass(m) => desk'[c] = Append(desk[c], f(m)) /\ dropped'[c] = dropped[c])
    BY HandedOver
  <2>3. \A d \in Calls : d # c => desk'[d] = desk[d] /\ dropped'[d] = dropped[d] /\ work'[d] = work[d]
    BY HandedOver
  <2>4. UNCHANGED <<call, lane, log, stopped, connection, received>>
    BY HandedOver
  <2>5. PICK n \in Events : n = m
    BY <2>1
  <2>6. PICK e \in Entries : e = f(n)
    BY <2>1, <2>5
  <2> HIDE DEF asAttempt, pass, f
  <2> QED
    BY <2>1, <2>2, <2>3, <2>4, <2>5, <2>6
<1> HIDE DEF asAttempt, pass
<1>2. /\ PlaceCall(c) /\ (\A m : IsAttempt(c, m)' <=> IsAttempt(c, m)) /\ (Undisturbed' <=> Undisturbed)
      /\ call[c].state # "over" /\ call'[c] = call[c]
  <2>1. call[c].state # "over"
    BY <1>1, NoWorkIs DEF TurnInv, LaneRuns
  <2> QED
    BY <1>1, <2>1 DEF PlaceInv, IsAttempt, Undisturbed
<1>3. \A d \in Calls : d # c => Rests(d)
  BY <1>1 DEF Rests
<1>4. PICK rest \in Seq(Events), s \in Seq(Events) :
        rest = work[c].rest /\ s = Tail(rest) /\ Range(rest) = {n} \cup Range(s)
  <2>1. PICK rest \in Seq(Events) : rest = work[c].rest
    BY <1>1
  <2>2. Ascends(rest)
    BY <1>2, <2>1 DEF PlaceCall, Ordered
  <2>3. rest # <<>> /\ n = Head(rest)
    BY <1>1, <2>1
  <2>4. Range(rest) = {Head(rest)} \cup Range(Tail(rest)) /\ Tail(rest) \in Seq(Events)
    BY <2>2, <2>3, RestLess
  <2>5. PICK s \in Seq(Events) : s = Tail(rest)
    BY <2>4
  <2> QED
    BY <2>1, <2>3, <2>4, <2>5
<1>5. Ahead(c) = {n} \cup Range(s) \cup Waiting(c) /\ Ahead(c)' = Range(s) \cup Waiting(c)
  BY <1>1, <1>4 DEF Ahead, Waiting
<1>6. Below(AtDesk(c) \cup Logged(c), {n})
  BY <1>2, <1>5 DEF PlaceCall, Ordered, Past, Below
<1>7. Undisturbed => InOrder(c)'
  <2> SUFFICES ASSUME InOrder(c) PROVE InOrder(c)'
    BY DEF OrderInv
  <2>1. CASE pass(n)
    <3>1. desk'[c] = desk[c] /\ \A m \in dropped[c] \cup Ahead(c) : m \in dropped'[c] \cup Ahead(c)'
      BY <1>1, <1>5, <2>1
    <3> QED
      BY <1>1, <1>2, <3>1, OrderStays
  <2>2. CASE ~pass(n)
    <3>1. PICK t : t = desk'[c]
      OBVIOUS
    <3>2. Extends(t, desk[c], e)
      <4>1. desk[c] \in Seq(Entries)
        BY DEF TurnInv, Types
      <4> QED
        BY <1>1, <2>2, <3>1, <4>1, ExtendsIs
    <3>3. /\ DeskInOrder(t) /\ \A k \in DOMAIN t : t[k].n = 0 => t[k].awaited
          /\ LineHas(t) = AtDesk(c) \cup {n} /\ Below(Logged(c), LineHas(t))
      <4>1. {e.n} \ {0} = {n} /\ {e.n} = {n}
        BY <1>1 DEF Events
      <4>2. Below(AtDesk(c) \cup Logged(c), {e.n})
        BY <1>6, <4>1
      <4>3. /\ DeskInOrder(t) /\ \A k \in DOMAIN t : t[k].n = 0 => t[k].awaited
            /\ LineHas(t) = AtDesk(c) \cup ({e.n} \ {0}) /\ Below(Logged(c), LineHas(t))
        BY <1>1, <3>2, <4>2, DeskInOrderMore
      <4> QED
        BY <4>1, <4>3
    <3>4. AtDesk(c)' = AtDesk(c) \cup {n} /\ Logged(c)' = Logged(c)
      BY <1>1, <3>1, <3>3 DEF AtDesk, Logged
    <3>5. Accounted(c)' = Accounted(c)
      BY <1>1, <1>5, <2>2, <3>4 DEF Accounted
    <3> QED
      BY <1>1, <1>2, <3>1, <3>3, <3>4, <3>5 DEF InOrder
  <2> QED
    BY <2>1, <2>2
<1> QED
  BY <1>2, <1>3, <1>7, OrderStep

\* BeginClose: the session's close goes behind all that the endpoint has.
LEMMA OrderBeginClose == ASSUME TurnInv, PlaceInv, OrderInv, NEW c \in Calls, BeginClose(c) PROVE OrderInv'
<1>1. PICK e \in Entries :
         /\ e.n = 0 /\ e.awaited /\ desk'[c] = Append(desk[c], e) /\ ~work[c].busy /\ work[c].kind = "close"
         /\ work'[c].rest = work[c].rest
         /\ (\A d \in Calls : d # c => work'[d] = work[d]) /\ (\A d \in Calls : d # c => desk'[d] = desk[d])
         /\ UNCHANGED <<call, lane, log, stopped, connection, received, dropped>>
  BY ClosingBegun
<1>2. /\ \A d \in Calls : d # c => Rests(d)
      /\ Undisturbed' <=> Undisturbed
      /\ call[c].state # "over"
  BY <1>1, NoWorkIs DEF Rests, Undisturbed, TurnInv, LaneRuns
<1>3. Undisturbed => InOrder(c)'
  <2> SUFFICES ASSUME InOrder(c) PROVE InOrder(c)'
    BY DEF OrderInv
  <2>1. PICK t : t = desk'[c]
    OBVIOUS
  <2>2. Extends(t, desk[c], e)
    <3>1. desk[c] \in Seq(Entries)
      BY DEF TurnInv, Types
    <3> QED
      BY <1>1, <2>1, <3>1, ExtendsIs
  <2>3. /\ DeskInOrder(t) /\ \A k \in DOMAIN t : t[k].n = 0 => t[k].awaited
        /\ LineHas(t) = AtDesk(c) /\ Below(Logged(c), LineHas(t))
    <3>1. /\ DeskInOrder(t) /\ \A k \in DOMAIN t : t[k].n = 0 => t[k].awaited
          /\ LineHas(t) = AtDesk(c) \cup ({e.n} \ {0}) /\ Below(Logged(c), LineHas(t))
      BY <1>1, <2>2, DeskInOrderMore
    <3>2. {e.n} \ {0} = {}
      BY <1>1
    <3> QED
      BY <3>1, <3>2
  <2>4. /\ AtDesk(c)' = AtDesk(c) /\ Logged(c)' = Logged(c) /\ Accounted(c)' = Accounted(c)
        /\ \A m : IsAttempt(c, m)' <=> IsAttempt(c, m)
    BY <1>1, <2>1, <2>3 DEF AtDesk, Logged, Accounted, Ahead, Waiting, IsAttempt
  <2> QED
    BY <1>1, <1>2, <2>1, <2>3, <2>4 DEF InOrder
<1> QED
  BY <1>2, <1>3, OrderStep

\* EndpointDecides: the first of the endpoint's queue is recorded behind the log, or is an attempt it refuses.
LEMMA OrderDecides == ASSUME TurnInv, PlaceInv, OrderInv, NEW c \in Calls, EndpointDecides(c) PROVE OrderInv'
<1>1. PICK e \in Entries :
         /\ desk[c] # <<>> /\ desk[c] \in Seq(Entries) /\ e = desk[c][1] /\ (e.what = "close" <=> e.n = 0)
         /\ desk'[c] = Tail(desk[c])
         /\ \A d \in Calls : d # c => /\ desk'[d] = desk[d] /\ work'[d] = work[d] /\ call'[d] = call[d]
                                      /\ log'[d] = log[d]
         /\ DecidedAs(c, e)
         /\ UNCHANGED <<lane, stopped, connection, received, dropped>>
  BY Decided
<1>2. /\ PlaceCall(c) /\ (\A m : IsAttempt(c, m)' <=> IsAttempt(c, m)) /\ log[c] \in Seq(Nat) /\ e.n \in Nat
      /\ OneAwaited(c) /\ LaneRuns(c) /\ (Undisturbed' <=> Undisturbed) /\ log'[c] \in Seq(Nat)
  BY <1>1, Decided DEF PlaceInv, IsAttempt, TurnInv, Types, Entries, Undisturbed
<1>3. \A d \in Calls : d # c => Rests(d)
  BY <1>1 DEF Rests
<1>4. Undisturbed => InOrder(c)'
  <2> SUFFICES ASSUME InOrder(c) PROVE InOrder(c)'
    BY DEF OrderInv
  <2>1. PICK t : t = desk'[c]
    OBVIOUS
  <2>2. Shortens(t, desk[c])
    BY <1>1, <2>1, ShortensIs
  <2>3. AtDesk(c) = LineHas(t) \cup ({e.n} \ {0}) /\ (e.n # 0 => e.n \notin LineHas(t))
    <3>1. OnceEach(desk[c])
      BY <1>2 DEF PlaceCall, Apart
    <3> QED
      BY <1>1, <2>2, <3>1, HasLess DEF AtDesk
  <2>4. DeskInOrder(t) /\ (\A k \in DOMAIN t : t[k].n = 0 => t[k].awaited) /\ (e.n # 0 => Below({e.n}, LineHas(t)))
    <3>1. /\ 1 \in DOMAIN desk[c] /\ desk[c][1] = e
          /\ \A k \in DOMAIN t : k \in Nat /\ k + 1 \in DOMAIN desk[c] /\ t[k] = desk[c][k + 1] /\ 1 < k + 1
      BY <1>1, <2>2 DEF Shortens
    <3>2. DeskInOrder(desk[c]) /\ \A k \in DOMAIN desk[c] : desk[c][k].n = 0 => desk[c][k].awaited
      BY DEF InOrder
    <3>3. DeskInOrder(t)
      <4> SUFFICES ASSUME NEW j \in DOMAIN t, NEW k \in DOMAIN t, j < k PROVE t[j].n # 0 /\ (t[k].n # 0 => t[j].n < t[k].n)
        BY DEF DeskInOrder
      <4>1. j + 1 < k + 1
        BY <3>1
      <4> QED
        BY <3>1, <3>2, <4>1 DEF DeskInOrder
    <3>4. Below({e.n}, LineHas(t))
      BY <3>1, <3>2 DEF DeskInOrder, LineHas, Below
    <3> QED
      BY <3>1, <3>2, <3>3, <3>4
  <2>5. call[c].state # "over" /\ 0 \notin Range(log[c])
    BY <1>1 DEF InOrder
  <2>6. CASE e.n = 0
    <3>1. e.awaited /\ e.what = "close" /\ SessionOpen(c)
      <4>1. 1 \in DOMAIN desk[c]
        BY <2>2 DEF Shortens
      <4> QED
        BY <1>1, <2>5, <2>6, <4>1 DEF InOrder, SessionOpen
    <3>2. work[c].kind = "close" /\ call'[c].state = "over" /\ work'[c] = NoWork /\ log'[c] = Append(log[c], 0)
      <4>1. 1 \in DOMAIN desk[c]
        BY <2>2 DEF Shortens
      <4> QED
        BY <1>1, <1>2, <3>1, <4>1 DEF DecidedAs, OneAwaited
    <3>3. t = <<>>
      <4>1. DOMAIN t = {}
        <5>1. \A k \in DOMAIN t : k + 1 \in DOMAIN desk[c] /\ 1 < k + 1 /\ 1 \in DOMAIN desk[c]
          BY <2>2 DEF Shortens
        <5>2. \A k \in DOMAIN t : FALSE
          BY <1>1, <2>6, <5>1 DEF InOrder, DeskInOrder
        <5> QED
          BY <5>2
      <4>2. t \in Seq(Entries)
        BY <1>1, <2>1
      <4> QED
        BY <4>1, <4>2
    <3>4. AtDesk(c) = {} /\ AtDesk(c)' = {} /\ Logged(c)' = Logged(c)
      <4>1. LineHas(t) = {}
        BY <3>3 DEF LineHas
      <4>2. Range(Append(log[c], 0)) = Range(log[c]) \cup {0}
        BY <1>2, LineAppend
      <4> QED
        BY <2>1, <2>3, <2>6, <3>2, <4>1, <4>2 DEF AtDesk, Logged
    <3>5. Range(work[c].rest) = {}
      BY <1>2, <3>2 DEF PlaceCall, KindsKept, OfKind
    <3>6. Accounted(c)' = Accounted(c)
      <4>1. Range(<<>>) = {}
        BY DEF Range
      <4> QED
        BY <1>1, <3>2, <3>4, <3>5, <4>1, NoWorkIs DEF Accounted, Ahead, Waiting
    <3>7. LineInOrder(log'[c])
      <4>1. PICK q : q = Append(log[c], 0)
        OBVIOUS
      <4>2. Extends(q, log[c], 0)
        BY <1>2, <4>1, ExtendsIs
      <4>3. LineInOrder(q)
        BY <4>2 DEF LineInOrder, Extends, InOrder
      <4> QED
        BY <3>2, <4>1, <4>3
    <3>8. \A n \in DOMAIN received'[c] : IsAttempt(c, n)' \/ n \in Accounted(c)'
      BY <1>1, <1>2, <3>6 DEF InOrder
    <3>9. Below(Logged(c)', AtDesk(c)')
      BY <3>4 DEF Below
    <3> QED
      BY <2>1, <2>4, <3>2, <3>3, <3>7, <3>8, <3>9 DEF InOrder
  <2>7. CASE e.n # 0
    <3>1. /\ call'[c] = call[c] /\ work'[c].rest = work[c].rest
          /\ log'[c] = Append(log[c], e.n) \/ (log'[c] = log[c] /\ IsAttempt(c, e.n))
      <4>1. e.what = "attempt" => IsAttempt(c, e.n)
        <5>1. 1 \in DOMAIN desk[c]
          BY <2>2 DEF Shortens
        <5> QED
          BY <1>1, <1>2, <5>1 DEF PlaceCall, DeskKinds
      <4> QED
        BY <1>1, <2>7, <4>1 DEF DecidedAs, HeardAs
    <3>2. AtDesk(c)' = LineHas(t) /\ AtDesk(c) = AtDesk(c)' \cup {e.n} /\ Ahead(c)' = Ahead(c)
      BY <1>1, <2>1, <2>3, <2>7, <3>1 DEF AtDesk, Ahead, Waiting
    <3>3. CASE log'[c] = log[c] /\ IsAttempt(c, e.n)
      <4>1. Logged(c)' = Logged(c) /\ Accounted(c) \subseteq Accounted(c)' \cup {e.n}
        BY <1>1, <3>2, <3>3 DEF Logged, Accounted
      <4>2. \A n \in DOMAIN received'[c] : IsAttempt(c, n)' \/ n \in Accounted(c)'
        BY <1>1, <1>2, <3>3, <4>1 DEF InOrder
      <4>3. Below(Logged(c)', AtDesk(c)')
        BY <3>2, <4>1 DEF InOrder, Below
      <4> QED
        BY <2>1, <2>4, <2>5, <3>1, <3>3, <4>2, <4>3 DEF InOrder
    <3>4. CASE log'[c] = Append(log[c], e.n)
      <4>1. PICK q : q = log'[c] /\ Extends(q, log[c], e.n)
        BY <1>2, <3>4, ExtendsIs
      <4>2. Range(q) = Range(log[c]) \cup {e.n}
        BY <4>1 DEF Extends
      <4>3. Logged(c)' = Logged(c) \cup {e.n} /\ Accounted(c)' = Accounted(c)
        BY <1>1, <2>7, <3>2, <4>1, <4>2 DEF Logged, Accounted
      <4>4. \A j \in DOMAIN log[c] : log[c][j] # 0 /\ log[c][j] < e.n
        <5>1. \A j \in DOMAIN log[c] : log[c][j] \in Logged(c)
          BY <2>5 DEF Logged, Range
        <5>2. e.n \in AtDesk(c)
          BY <3>2
        <5> QED
          BY <5>1, <5>2 DEF InOrder, Below, Logged
      <4>5. LineInOrder(q)
        <5> SUFFICES ASSUME NEW j \in DOMAIN q, NEW k \in DOMAIN q, j < k, q[k] # 0 PROVE q[j] # 0 /\ q[j] < q[k]
          BY DEF LineInOrder
        <5>1. j \in DOMAIN log[c] /\ q[j] = log[c][j]
          BY <4>1 DEF Extends
        <5>2. CASE k \in DOMAIN log[c]
          <6>1. q[k] = log[c][k]
            BY <4>1, <5>2 DEF Extends
          <6> QED
            BY <5>1, <5>2, <6>1 DEF InOrder, LineInOrder
        <5>3. CASE k \notin DOMAIN log[c]
          <6>1. q[k] = e.n
            BY <4>1, <5>3 DEF Extends
          <6> QED
            BY <4>4, <5>1, <6>1
        <5> QED
          BY <5>2, <5>3
      <4>6. Below(Logged(c)', AtDesk(c)')
        BY <2>4, <2>7, <3>2, <4>3 DEF InOrder, Below
      <4>7. \A n \in DOMAIN received'[c] : IsAttempt(c, n)' \/ n \in Accounted(c)'
        BY <1>1, <1>2, <4>3 DEF InOrder
      <4>8. 0 \notin Range(q)
        BY <2>5, <2>7, <4>2
      <4> QED
        BY <2>1, <2>4, <2>5, <3>1, <4>1, <4>5, <4>6, <4>7, <4>8 DEF InOrder
    <3> QED
      BY <3>1, <3>3, <3>4
  <2> QED
    BY <2>6, <2>7
<1> QED
  BY <1>2, <1>3, <1>4, OrderStep

\* Up to the length of two lines together.
LEMMA InTwo ==
  ASSUME NEW m \in Nat, NEW l \in Nat, NEW n \in 1..(m + l)
  PROVE  n \in 1..m \/ \E k \in 1..l : m + k = n
<1>1. CASE n <= m
  BY <1>1
<1>2. CASE ~(n <= m)
  <2>1. n - m \in 1..l /\ m + (n - m) = n
    BY <1>2
  <2> QED
    BY <2>1
<1> QED
  BY <1>1, <1>2

\* What arrives is queued.
LEMMA OrderArrives ==
  ASSUME TurnInv, NEW c \in Calls, InOrder(c), NEW f \in Frames[c], Receive(c, f),
         NEW job, job.events = Arriving(c, f.events), Extends(lane'[c], lane[c], job),
         work'[c] = work[c], desk'[c] = desk[c], log'[c] = log[c], dropped'[c] = dropped[c],
         call[c].state = "inflight", call'[c].state # "over"
  PROVE  InOrder(c)'
<1>1. PICK events : events = job.events
  OBVIOUS
<1>2. /\ Len(received'[c]) = Len(received[c]) + Len(f.events) /\ Len(received[c]) \in Nat /\ Len(f.events) \in Nat
      /\ received'[c] \in Seq(EventKinds) /\ received[c] \in Seq(EventKinds)
      /\ DOMAIN events = 1..Len(f.events) /\ \A k \in DOMAIN events : events[k] = Len(received[c]) + k
  <2>1. f.events \in Seq(EventKinds)
    BY FrameIs
  <2>2. DOMAIN f.events = 1..Len(f.events) /\ Len(f.events) \in Nat
    BY <2>1
  <2>3. /\ Len(received'[c]) = Len(received[c]) + Len(f.events) /\ Len(received[c]) \in Nat
        /\ received' \in [Calls -> Seq(EventKinds)]
    BY Received
  <2>4. DOMAIN events = DOMAIN f.events /\ \A k \in DOMAIN f.events : events[k] = Len(received[c]) + k
    BY <1>1, ArrivingIs
  <2>5. received \in [Calls -> Seq(EventKinds)]
    BY DEF TurnInv, Types
  <2> QED
    BY <2>2, <2>3, <2>4, <2>5
<1>3. \A n \in 1..Len(received[c]) : IsAttempt(c, n)' <=> IsAttempt(c, n)
  BY ArrivedBehind
<1>4. PICK t : t = lane'[c]
  OBVIOUS
<1>5. LineWaits(t) = LineWaits(lane[c]) \cup Range(events)
  BY <1>1, <1>4, WaitsMore
<1>6. /\ Ahead(c)' = Ahead(c) \cup Range(events) /\ AtDesk(c)' = AtDesk(c) /\ Logged(c)' = Logged(c)
      /\ Accounted(c)' = Accounted(c) \cup Range(events)
  BY <1>4, <1>5 DEF Ahead, Waiting, AtDesk, Logged, Accounted
<1>7. ASSUME NEW n \in DOMAIN received'[c] PROVE IsAttempt(c, n)' \/ n \in Accounted(c)'
  <2>1. PICK old, new, ev :
          /\ old \in Seq(EventKinds) /\ new \in Seq(EventKinds) /\ ev \in Seq(EventKinds)
          /\ old = received[c] /\ new = received'[c] /\ ev = f.events
    BY <1>2, FrameIs
  <2>2. Len(new) = Len(old) + Len(ev) /\ Len(old) \in Nat /\ Len(ev) \in Nat
    BY <1>2, <2>1
  <2>3. DOMAIN new = 1..Len(new)
    BY <2>1
  <2>4. n \in 1..(Len(old) + Len(ev))
    BY <1>7, <2>1, <2>2, <2>3
  <2>5. n \in 1..Len(old) \/ \E k \in 1..Len(ev) : Len(old) + k = n
    BY <2>2, <2>4, InTwo
  <2>6. CASE n \in 1..Len(old)
    <3>1. n \in DOMAIN received[c] /\ n \in 1..Len(received[c])
      BY <2>1, <2>6
    <3> QED
      BY <1>3, <1>6, <3>1 DEF InOrder
  <2>7. CASE \E k \in 1..Len(ev) : Len(old) + k = n
    <3>1. \E k \in DOMAIN events : events[k] = n
      BY <1>2, <2>1, <2>7
    <3> QED
      BY <1>6, <3>1 DEF Range
  <2> QED
    BY <2>5, <2>6, <2>7
<1> QED
  BY <1>6, <1>7 DEF InOrder

\* Answer: the frame's events are queued as a job.
LEMMA OrderAnswer == ASSUME TurnInv, OrderInv, NEW c \in Calls, Answer(c) PROVE OrderInv'
<1> USE DEF wire, grants, client
<1>1. /\ Types /\ call[c].state = "inflight" /\ UNCHANGED <<work, desk, log, stopped, connection, dropped>>
  BY DEF TurnInv, Answer, InFlight
<1>2. PICK f \in Frames[c] :
       /\ Receive(c, f)
       /\ \/ /\ f.kind = "result" /\ call' = Detached(c)
             /\ lane' = Queued(c, <<Job("conclude", Arriving(c, f.events))>>)
          \/ /\ f.kind \in RoundKinds /\ call' = [call EXCEPT ![c].asked = FALSE]
             /\ lane' = Queued(c, <<Job(f.kind, Arriving(c, f.events))>>)
  BY DEF Answer
<1>3. \A d \in Calls : d # c => received'[d] = received[d]
  BY <1>2, Received
<1>4. PICK kind \in JobKinds : kind = (IF f.kind = "result" THEN "conclude" ELSE f.kind)
  BY <1>2 DEF JobKinds, RoundKinds
<1>5. PICK job \in Jobs : job = Job(kind, Arriving(c, f.events)) /\ job.events = Arriving(c, f.events)
  BY ArrivingIs, JobIs
<1>6. lane' = Queued(c, <<job>>)
  BY <1>2, <1>4, <1>5 DEF RoundKinds
<1>7. lane'[c] = Append(lane[c], job) /\ \A d \in Calls : d # c => lane'[d] = lane[d]
  BY <1>1, <1>6, QueuedOne
<1>8. Extends(lane'[c], lane[c], job)
  <2>1. lane[c] \in Seq(Jobs)
    BY <1>1 DEF Types
  <2> QED
    BY <1>7, <2>1, ExtendsIs
<1>9. call'[c].state # "over" /\ \A d \in Calls : d # c => call'[d] = call[d]
  <2>1. CASE f.kind = "result"
    <3>1. call' = Detached(c)
      BY <1>2, <2>1 DEF RoundKinds
    <3> QED
      BY <1>1, <3>1, DetachedIs
  <2>2. CASE f.kind # "result"
    <3>1. call' = [call EXCEPT ![c].asked = FALSE]
      BY <1>2, <2>2
    <3> QED
      BY <1>1, <3>1 DEF Types, CallRecords
  <2> QED
    BY <2>1, <2>2
<1>10. (Undisturbed' <=> Undisturbed) /\ \A d \in Calls : d # c => Rests(d)
  BY <1>1, <1>3, <1>7, <1>9 DEF Rests, Undisturbed
<1>11. Undisturbed => InOrder(c)'
  BY <1>1, <1>2, <1>5, <1>8, <1>9, OrderArrives DEF OrderInv
<1> QED
  BY <1>10, <1>11, OrderStep

\* Message: the event is queued as a job of its own.
LEMMA OrderMessage == ASSUME TurnInv, OrderInv, NEW c \in Calls, Message(c) PROVE OrderInv'
<1> USE DEF wire, grants, client
<1>1. /\ Types /\ call[c].state = "inflight" /\ UNCHANGED <<call, work, desk, log, stopped, connection, dropped>>
  BY DEF TurnInv, Message, InFlight
<1>2. PICK f \in Frames[c] :
       /\ f.kind \in {"ask", "tell"} /\ Receive(c, f)
       /\ lane' = Queued(c, <<Job(IF f.kind = "ask" THEN "ask" ELSE "seal", Arriving(c, f.events))>>)
  BY DEF Message
<1>3. \A d \in Calls : d # c => received'[d] = received[d]
  BY <1>2, Received
<1>4. PICK kind \in JobKinds : kind = (IF f.kind = "ask" THEN "ask" ELSE "seal")
  BY DEF JobKinds
<1>5. PICK job \in Jobs : job = Job(kind, Arriving(c, f.events)) /\ job.events = Arriving(c, f.events)
  BY ArrivingIs, JobIs
<1>6. lane'[c] = Append(lane[c], job) /\ \A d \in Calls : d # c => lane'[d] = lane[d]
  BY <1>1, <1>2, <1>4, <1>5, QueuedOne
<1>7. Extends(lane'[c], lane[c], job)
  <2>1. lane[c] \in Seq(Jobs)
    BY <1>1 DEF Types
  <2> QED
    BY <1>6, <2>1, ExtendsIs
<1>8. (Undisturbed' <=> Undisturbed) /\ call'[c].state # "over" /\ \A d \in Calls : d # c => Rests(d)
  BY <1>1, <1>3, <1>6 DEF Rests, Undisturbed
<1>9. Undisturbed => InOrder(c)'
  BY <1>1, <1>2, <1>5, <1>7, <1>8, OrderArrives DEF OrderInv
<1> QED
  BY <1>8, <1>9, OrderStep

\* The end of a wait: what was not reached is left over for the lane, or is an attempt.
LEMMA OrderWaited ==
  ASSUME TurnInv, NEW c \in Calls, InOrder(c), WaitOver(c), Range(work[c].rest) \ Attempts(c, work[c].rest) \subseteq Ahead(c)',
         Waiting(c) \subseteq Ahead(c)', call'[c].state = "over" <=> call[c].state = "over"
  PROVE  InOrder(c)'
<1>1. /\ Quiet(desk'[c], desk[c]) /\ dropped'[c] = dropped[c] \cup Attempts(c, work[c].rest) /\ work[c].kind \in Bounded
      /\ UNCHANGED <<log, received>>
  BY WaitEnded
<1>2. \A n \in dropped[c] \cup Ahead(c) : n \in dropped'[c] \cup Ahead(c)'
  BY <1>1 DEF Ahead
<1> QED
  BY <1>1, <1>2, OrderStays

\* It is left over in a job of its own behind the lane.
LEMMA OrderSealed ==
  ASSUME TurnInv, NEW c \in Calls, InOrder(c), PlaceCall(c), WaitOver(c), work[c].kind \in {"round", "input", "abandoned"},
         lane'[c] = Sealing(c) \/ lane'[c] = Append(Sealing(c), CloseJob), call'[c].state = "over" <=> call[c].state = "over"
  PROVE  InOrder(c)'
<1>1. PICK t : t = lane'[c]
  OBVIOUS
<1>2. LineWaits(t) = Waiting(c) \cup Range(Leftover(c))
  BY <1>1, SealedLane
<1>3. Range(Leftover(c)) = Range(work[c].rest) \ Attempts(c, work[c].rest)
  BY LeftoverIs
<1>4. Waiting(c) \cup Range(Leftover(c)) \subseteq Ahead(c)'
  BY <1>1, <1>2 DEF Ahead, Waiting
<1> QED
  BY <1>3, <1>4, OrderWaited

\* WaitOver, whichever way the work goes on.
LEMMA OrderWaitOver == ASSUME TurnInv, PlaceInv, OrderInv, NEW c \in Calls, WaitOver(c) PROVE OrderInv'
<1>1. /\ Types /\ PlaceCall(c) /\ (Undisturbed' <=> Undisturbed)
      /\ \A d \in Calls : d # c => desk'[d] = desk[d] /\ dropped'[d] = dropped[d]
      /\ UNCHANGED <<log, received>>
  BY WaitEnded DEF TurnInv, PlaceInv, Undisturbed
<1>2. ASSUME NEW w \in Works, work' = [work EXCEPT ![c] = w] PROVE work'[c] = w /\ \A d \in Calls : d # c => work'[d] = work[d]
  BY <1>1, <1>2, WorkWritten
<1>3. CASE EndedMeanwhile(c)
  <2>1. /\ UNCHANGED <<call, lane>>
        /\ work' = [work EXCEPT ![c] = IF Leftover(c) = <<>> THEN NoWork ELSE Work("seal", Leftover(c))]
    BY <1>3 DEF EndedMeanwhile
  <2>2. PICK w \in Works : work' = [work EXCEPT ![c] = w] /\ w.rest = Leftover(c)
    <3>1. Leftover(c) \in Seq(Events) /\ "seal" \in WorkKinds
      BY LeftoverIs DEF WorkKinds
    <3>2. Work("seal", Leftover(c)) \in Works /\ Work("seal", Leftover(c)).rest = Leftover(c)
      BY <3>1, WorkIs
    <3>3. CASE Leftover(c) = <<>>
      BY <2>1, <3>3, NoWorkIs
    <3>4. CASE Leftover(c) # <<>>
      BY <2>1, <3>2, <3>4
    <3> QED
      BY <3>3, <3>4
  <2>3. work'[c].rest = Leftover(c) /\ \A d \in Calls : d # c => work'[d] = work[d]
    BY <1>2, <2>2
  <2>4. Waiting(c) \cup Range(Leftover(c)) \subseteq Ahead(c)'
    BY <2>1, <2>3 DEF Ahead, Waiting
  <2>5. Undisturbed => InOrder(c)'
    BY <2>1, <2>4, LeftoverIs, OrderWaited DEF OrderInv
  <2>6. \A d \in Calls : d # c => Rests(d)
    BY <1>1, <2>1, <2>3 DEF Rests
  <2> QED
    BY <1>1, <2>5, <2>6, OrderStep
<1>4. CASE Answered(c)
  <2>1. UNCHANGED <<call, lane>> /\ work' = [work EXCEPT ![c] = NoWork] /\ work[c].kind = "ask"
    BY <1>4 DEF Answered
  <2>2. \A d \in Calls : d # c => work'[d] = work[d]
    BY <1>2, <2>1, NoWorkIs
  <2>3. Range(work[c].rest) \ Attempts(c, work[c].rest) = {}
    BY <1>1, <2>1 DEF PlaceCall, KindsKept, OfKind, Attempts
  <2>4. Waiting(c) \subseteq Ahead(c)'
    BY <2>1 DEF Ahead, Waiting
  <2>5. Undisturbed => InOrder(c)'
    BY <2>1, <2>3, <2>4, OrderWaited DEF OrderInv
  <2>6. \A d \in Calls : d # c => Rests(d)
    BY <1>1, <2>1, <2>2 DEF Rests
  <2> QED
    BY <1>1, <2>5, <2>6, OrderStep
<1>5. CASE GoesBack(c)
  <2>1. /\ work[c].kind = "round" /\ call' = call /\ lane' = Queued(c, SealJob(Leftover(c)))
        /\ \A d \in Calls : d # c => work'[d] = work[d]
    BY <1>1, <1>5 DEF GoesBack, Types
  <2>2. lane'[c] = Sealing(c) /\ \A d \in Calls : d # c => lane'[d] = lane[d]
    BY <1>1, <2>1, SealingIs DEF Types
  <2>3. Undisturbed => InOrder(c)'
    BY <1>1, <2>1, <2>2, OrderSealed DEF OrderInv
  <2>4. \A d \in Calls : d # c => Rests(d)
    BY <1>1, <2>1, <2>2 DEF Rests
  <2> QED
    BY <1>1, <2>3, <2>4, OrderStep
<1>6. CASE Abandoned(c)
  <2>1. /\ work[c].kind = "abandoned" /\ call' = call /\ work' = [work EXCEPT ![c] = NoWork]
        /\ lane' = [Queued(c, SealJob(Leftover(c))) EXCEPT ![c] = Append(@, CloseJob)]
    BY <1>6 DEF Abandoned
  <2>2. \A d \in Calls : d # c => work'[d] = work[d]
    BY <1>2, <2>1, NoWorkIs
  <2>3. lane'[c] = Append(Sealing(c), CloseJob) /\ \A d \in Calls : d # c => lane'[d] = lane[d]
    <3>1. PICK s \in Seq(Jobs) : s = Sealing(c)
      BY SealingIs
    <3>2. PICK t \in Seq(Jobs) : t = Append(s, CloseJob)
      BY <3>1, SealingIs
    <3>3. lane \in [Calls -> Seq(Jobs)] /\ Queued(c, SealJob(Leftover(c))) = [lane EXCEPT ![c] = s]
      BY <1>1, <3>1, SealingIs DEF Types
    <3>4. lane' = [lane EXCEPT ![c] = t]
      BY <2>1, <3>2, <3>3
    <3> QED
      BY <3>1, <3>2, <3>3, <3>4
  <2>4. Undisturbed => InOrder(c)'
    BY <1>1, <2>1, <2>3, OrderSealed DEF OrderInv
  <2>5. \A d \in Calls : d # c => Rests(d)
    BY <1>1, <2>1, <2>2, <2>3 DEF Rests
  <2> QED
    BY <1>1, <2>4, <2>5, OrderStep
<1>7. CASE GoesUp(c)
  <2>1. work[c].kind = "input" /\ work' = [work EXCEPT ![c] = NoWork]
    BY <1>7 DEF GoesUp
  <2>2. \A d \in Calls : d # c => work'[d] = work[d]
    BY <1>2, <2>1, NoWorkIs
  <2>3. PICK r : r = [call |-> c, accepted |-> work[c].accepted]
    OBVIOUS
  <2>4. PICK out : WentUp(c, r, out)
    BY <1>7, <2>3, GoneUp
  <2>5. Undisturbed => InOrder(c)'
    BY <1>1, <2>1, <2>4, OrderSealed DEF OrderInv, WentUp
  <2>6. ASSUME NEW d \in Calls, d # c PROVE Rests(d)
    <3>1. CASE d = out
      <4>1. lane'[d] = Append(lane[d], CloseJob) /\ call'[d].state = "concluding" /\ HeldOf(d) # {}
        BY <2>4, <3>1 DEF WentUp
      <4>2. call[d].state = "inflight"
        BY <4>1, HoldsOf DEF TurnInv, LaneRuns
      <4> QED
        BY <1>1, <2>2, <2>6, <4>1, <4>2 DEF Rests
    <3>2. CASE d # out
      BY <1>1, <2>2, <2>4, <2>6, <3>2 DEF Rests, WentUp
    <3> QED
      BY <3>1, <3>2
  <2> QED
    BY <1>1, <2>5, <2>6, OrderStep
<1> QED
  BY <1>3, <1>4, <1>5, <1>6, <1>7 DEF WaitOver

\* Every step keeps the events in order, and outcomes on their way.
LEMMA OrderNext == ASSUME TurnInv, SendInv, PlaceInv, OrderInv, Next PROVE OrderInv'
<1>1. ASSUME NEW c \in Calls, Send(c) \/ ClientRetry(c) \/ Cancel(c) \/ CancelNotFound(c) \/ Answer(c) \/ Message(c) PROVE OrderInv'
  BY <1>1, OrderQuietly, OrderAnswer, OrderMessage
<1>2. ASSUME NEW c \in Calls, LaneStep(c) PROVE OrderInv'
  BY <1>2, OrderQuietly, OrderTakeJob, OrderHandOver, OrderBeginClose, OrderWaitOver, OrderDecides DEF LaneStep
<1>3. ASSUME NEW c \in Calls, HandOverAdrift(c) \/ CloseSession(c) PROVE OrderInv'
  BY <1>3 DEF HandOverAdrift, CloseSession, OrderInv, Undisturbed
<1>4. CASE Stopped \/ EndDrain \/ Stop
  BY <1>4 DEF Stopped, EndDrain, Stop, OrderInv, Undisturbed
<1>5. CASE CloseConnection
  BY <1>5, OrderCloseConnection
<1> QED
  BY <1>1, <1>2, <1>3, <1>4, <1>5 DEF Next

\* A stutter keeps the events in order.
LEMMA OrderAside == ASSUME TurnInv, OrderInv, UNCHANGED vars PROVE OrderInv'
<1> SUFFICES ASSUME Undisturbed', NEW c \in Calls PROVE InOrder(c)'
  BY DEF OrderInv
<1>1. InOrder(c) /\ Rests(c)
  BY DEF vars, lanes, host, wire, client, grants, OrderInv, Undisturbed, Rests
<1> QED
  BY <1>1, OrderRests

\* In every behaviour events are recorded in the order of their arrival, and before the session's close.
THEOREM OrdersCorrect == Spec => []OrderInv
<1>1. Init => OrderInv
  BY OrderInit
<1>2. TurnInv /\ SendInv /\ PlaceInv /\ OrderInv /\ [Next]_vars => OrderInv'
  BY OrderNext, OrderAside
<1> QED
  BY <1>1, <1>2, TurnsCorrect, PlacesCorrect, PTL DEF Spec

\* Everything the tool reported reaches the host in the order it was reported, and before the lane closes its session.
THEOREM OutcomesCorrect == Spec => []OutcomesReachHost
<1>1. ASSUME TurnInv, OrderInv PROVE OutcomesReachHost
  <2> SUFFICES ASSUME ~stopped, connection \in {"up", "draining"}, NEW c \in Calls
               PROVE  /\ \A j, k \in DOMAIN log[c] : j < k /\ log[c][k] # 0 => log[c][j] # 0 /\ log[c][j] < log[c][k]
                      /\ call[c].state = "over" =>
                           \A n \in DOMAIN received[c] : IsAttempt(c, n) \/ n \in dropped[c] \/ n \in Range(log[c])
    BY DEF OutcomesReachHost
  <2>1. InOrder(c)
    BY <1>1 DEF OrderInv, Undisturbed
  <2>2. \A j, k \in DOMAIN log[c] : j < k /\ log[c][k] # 0 => log[c][j] # 0 /\ log[c][j] < log[c][k]
    BY <2>1 DEF InOrder, LineInOrder
  <2>3. CASE call[c].state = "over"
    <3>1. desk[c] = <<>> /\ lane[c] = <<>> /\ work[c].rest = <<>>
      BY <1>1, <2>1, <2>3, NoWorkIs DEF InOrder, TurnInv, LaneRuns
    <3>2. AtDesk(c) = {} /\ Ahead(c) = {}
      BY <3>1 DEF AtDesk, LineHas, Ahead, Waiting, LineWaits, Range
    <3>3. Accounted(c) \subseteq dropped[c] \cup Range(log[c])
      BY <3>2 DEF Accounted, Logged
    <3> QED
      BY <2>1, <2>2, <3>3 DEF InOrder
  <2> QED
    BY <2>2, <2>3
<1> QED
  BY <1>1, TurnsCorrect, OrdersCorrect, PTL

-----------------------------------------------------------------------------
(* Losses: as many outcomes are owed, at least, as are not recorded, until a session's close is logged. *)

\* A tool puts no attempt in a final result (ToolSeam's OutcomesNoLaterThanResult).
ResultsReport == \A c \in Calls : \A f \in Frames[c] : f.kind = "result" => "attempt" \notin Range(f.events)

\* What is concluded, and what is at the endpoint as an outcome, are outcomes.
NoAttempts(c, S) == \A n \in S : ~IsAttempt(c, n)
Reports(c) ==
  /\ \A k \in DOMAIN lane[c] : lane[c][k].kind = "conclude" => NoAttempts(c, Range(lane[c][k].events))
  /\ work[c].kind = "conclude" => NoAttempts(c, Range(work[c].rest))
  /\ \A k \in DOMAIN desk[c] : desk[c][k].what = "outcome" => ~IsAttempt(c, desk[c][k].n)
ReportInv == \A c \in Calls : Reports(c)

\* A step concludes nothing more of a call, and hands over no more outcomes of it.
Concludes(c) ==
  /\ received'[c] = received[c]
  /\ \A k \in DOMAIN lane'[c] : lane'[c][k].kind = "conclude" => \E a \in DOMAIN lane[c] : lane'[c][k] = lane[c][a]
  /\ work'[c].kind = "conclude" => work[c].kind = "conclude" /\ work'[c].rest = work[c].rest
  /\ \A k \in DOMAIN desk'[c] : desk'[c][k].what = "outcome" =>
       \E a \in DOMAIN desk[c] : desk'[c][k].n = desk[c][a].n /\ desk[c][a].what = "outcome"

\* A step that concludes nothing more of a call keeps its outcomes outcomes.
LEMMA ReportStays == ASSUME NEW c \in Calls, Reports(c), Concludes(c) PROVE Reports(c)'
BY DEF Reports, Concludes, NoAttempts, IsAttempt

\* A step that leaves a call's lane and queue as they are concludes nothing more of it.
LEMMA ReportSame ==
  ASSUME NEW c \in Calls, UNCHANGED <<lane[c], work[c], desk[c], received[c]>>
  PROVE  Concludes(c)
BY DEF Concludes

\* A step of one call.
LEMMA ReportStep ==
  ASSUME ReportInv, NEW c \in Calls, Reports(c)', \A d \in Calls : d # c => Concludes(d)
  PROVE  ReportInv'
BY ReportStays DEF ReportInv

\* A lane that gets a job that concludes nothing.
LEMMA LaneConcludes ==
  ASSUME NEW c \in Calls, lane'[c] = lane[c] \/ \E job : Extends(lane'[c], lane[c], job) /\ job.kind # "conclude"
  PROVE  \A k \in DOMAIN lane'[c] : lane'[c][k].kind = "conclude" => \E a \in DOMAIN lane[c] : lane'[c][k] = lane[c][a]
<1>1. CASE lane'[c] = lane[c]
  BY <1>1
<1>2. ASSUME NEW job, Extends(lane'[c], lane[c], job), job.kind # "conclude"
      PROVE  \A k \in DOMAIN lane'[c] : lane'[c][k].kind = "conclude" => \E a \in DOMAIN lane[c] : lane'[c][k] = lane[c][a]
  BY <1>2 DEF Extends
<1> QED
  BY <1>1, <1>2

\* The endpoint's queue gets an entry that is no outcome.
LEMMA DeskConcludes ==
  ASSUME NEW c \in Calls, NEW e, Extends(desk'[c], desk[c], e), e.what # "outcome"
  PROVE  \A k \in DOMAIN desk'[c] : desk'[c][k].what = "outcome" =>
           \E a \in DOMAIN desk[c] : desk'[c][k].n = desk[c][a].n /\ desk[c][a].what = "outcome"
BY DEF Extends

\* A close is queued behind the lane.
LEMMA ClosingConcludes ==
  ASSUME Types, NEW c \in Calls, lane'[c] = lane[c] \/ lane'[c] = Append(lane[c], CloseJob)
  PROVE  \A k \in DOMAIN lane'[c] : lane'[c][k].kind = "conclude" => \E a \in DOMAIN lane[c] : lane'[c][k] = lane[c][a]
<1>1. lane[c] \in Seq(Jobs) /\ CloseJob \in Jobs /\ CloseJob.kind # "conclude"
  BY CloseJobIs DEF Types
<1>2. lane'[c] = lane[c] \/ Extends(lane'[c], lane[c], CloseJob)
  BY <1>1, ExtendsIs
<1> QED
  BY <1>1, <1>2, LaneConcludes

\* What is not of one call, or concludes nothing.
LEMMA ReportQuietly ==
  ASSUME TurnInv, ReportInv, NEW c \in Calls,
         Send(c) \/ ClientRetry(c) \/ Cancel(c) \/ CancelNotFound(c) \/ JobDone(c) \/ RetrySent(c) \/ RetryFailed(c)
         \/ BeginClose(c) \/ CloseSession(c)
  PROVE  ReportInv'
<1> USE DEF lanes, host, wire, client, grants
<1>1. Types
  BY DEF TurnInv
<1>2. SUFFICES \A d \in Calls : Concludes(d)
  BY ReportStays DEF ReportInv
<1>3. CASE Send(c) \/ ClientRetry(c) \/ CancelNotFound(c)
  BY <1>3, ReportSame DEF Send, ClientRetry, CancelNotFound
<1>4. CASE Cancel(c)
  <2>1. lane' = Queued(c, <<CloseJob>>) /\ UNCHANGED <<work, desk, received>>
    BY <1>4 DEF Cancel
  <2>2. lane'[c] = Append(lane[c], CloseJob) /\ \A d \in Calls : d # c => lane'[d] = lane[d]
    BY <1>1, <2>1, QueuedOne, CloseJobIs
  <2>3. \A d \in Calls : \A k \in DOMAIN lane'[d] : lane'[d][k].kind = "conclude" => \E a \in DOMAIN lane[d] : lane'[d][k] = lane[d][a]
    BY <1>1, <2>2, ClosingConcludes
  <2> QED
    BY <2>1, <2>3 DEF Concludes
<1>5. CASE JobDone(c)
  <2>1. UNCHANGED <<lane, desk, received>> /\ work' = [work EXCEPT ![c] = IF work[c].kind = "conclude" THEN Work("close", <<>>) ELSE NoWork]
    BY <1>5 DEF JobDone
  <2>2. PICK w \in Works : w.kind # "conclude" /\ work' = [work EXCEPT ![c] = w]
    <3>1. "close" \in WorkKinds /\ <<>> \in Seq(Events)
      BY DEF WorkKinds
    <3>2. Work("close", <<>>) \in Works /\ Work("close", <<>>).kind = "close"
      BY <3>1, WorkIs
    <3>3. CASE work[c].kind = "conclude"
      BY <2>1, <3>2, <3>3
    <3>4. CASE work[c].kind # "conclude"
      BY <2>1, <3>4, NoWorkIs
    <3> QED
      BY <3>3, <3>4
  <2>3. work'[c].kind # "conclude" /\ \A d \in Calls : d # c => work'[d] = work[d]
    BY <1>1, <2>2, WorkWritten
  <2> QED
    BY <2>1, <2>3 DEF Concludes
<1>6. CASE RetrySent(c) \/ RetryFailed(c)
  <2>1. work' = [work EXCEPT ![c] = NoWork] /\ UNCHANGED <<desk, received>>
    BY <1>6 DEF RetrySent, RetryFailed
  <2>2. work'[c].kind # "conclude" /\ \A d \in Calls : d # c => work'[d] = work[d]
    BY <1>1, <2>1, WorkWritten, NoWorkIs
  <2>3. \A d \in Calls : lane'[d] = lane[d] \/ lane'[d] = Append(lane[d], CloseJob)
    <3>1. lane' = lane \/ lane' = Queued(c, <<CloseJob>>)
      BY <1>6 DEF RetrySent, RetryFailed
    <3>2. CASE lane' = lane
      BY <3>2
    <3>3. CASE lane' = Queued(c, <<CloseJob>>)
      <4>1. lane'[c] = Append(lane[c], CloseJob) /\ \A d \in Calls : d # c => lane'[d] = lane[d]
        BY <1>1, <3>3, QueuedOne, CloseJobIs
      <4> QED
        BY <4>1
    <3> QED
      BY <3>1, <3>2, <3>3
  <2>4. \A d \in Calls : \A k \in DOMAIN lane'[d] : lane'[d][k].kind = "conclude" => \E a \in DOMAIN lane[d] : lane'[d][k] = lane[d][a]
    BY <1>1, <2>3, ClosingConcludes
  <2> QED
    BY <2>1, <2>2, <2>4 DEF Concludes
<1>7. CASE BeginClose(c)
  <2>1. PICK e \in Entries :
          /\ e.what = "close" /\ desk'[c] = Append(desk[c], e) /\ work[c].kind = "close" /\ work'[c].kind = work[c].kind
          /\ (\A d \in Calls : d # c => work'[d] = work[d]) /\ (\A d \in Calls : d # c => desk'[d] = desk[d])
          /\ UNCHANGED <<lane, received>>
    BY <1>7, ClosingBegun
  <2>2. Extends(desk'[c], desk[c], e)
    <3>1. desk[c] \in Seq(Entries)
      BY <1>1 DEF Types
    <3> QED
      BY <2>1, <3>1, ExtendsIs
  <2>3. Concludes(c)
    BY <2>1, <2>2, DeskConcludes DEF Concludes
  <2> QED
    BY <2>1, <2>3, ReportSame
<1>8. CASE CloseSession(c)
  <2>1. /\ desk'[c] = desk[c] \/ desk'[c] = Append(desk[c], Unheard("close", 0))
        /\ \A d \in Calls : d # c => desk'[d] = desk[d]
        /\ UNCHANGED <<lane, work, received>>
    BY <1>8, SessionClosed
  <2>2. PICK e \in Entries : e = Unheard("close", 0) /\ e.what = "close"
    BY UnheardIs
  <2>3. CASE desk'[c] = desk[c]
    BY <2>1, <2>3, ReportSame
  <2>4. CASE desk'[c] = Append(desk[c], e)
    <3>1. Extends(desk'[c], desk[c], e)
      <4>1. desk[c] \in Seq(Entries)
        BY <1>1 DEF Types
      <4> QED
        BY <2>4, <4>1, ExtendsIs
    <3>2. Concludes(c)
      BY <2>1, <2>2, <3>1, DeskConcludes DEF Concludes
    <3> QED
      BY <2>1, <3>2, ReportSame
  <2> QED
    BY <2>1, <2>2, <2>3, <2>4
<1> QED
  BY <1>3, <1>4, <1>5, <1>6, <1>7, <1>8

\* What arrives is queued: what is to be concluded is a result's.
LEMMA ReportArrives ==
  ASSUME TurnInv, ResultsReport, NEW c \in Calls, PlaceCall(c), Reports(c), NEW f \in Frames[c], Receive(c, f),
         NEW job, job.events = Arriving(c, f.events), Extends(lane'[c], lane[c], job), job.kind = "conclude" => f.kind = "result",
         work'[c] = work[c], desk'[c] = desk[c]
  PROVE  Reports(c)'
<1>1. /\ \A n \in 1..Len(received[c]) : IsAttempt(c, n)' <=> IsAttempt(c, n)
      /\ \A n \in Range(job.events) : \E k \in DOMAIN f.events : IsAttempt(c, n)' <=> f.events[k] = "attempt"
  BY ArrivedBehind
<1>2. Past(c) \cup Ahead(c) \subseteq 1..Len(received[c])
  BY DEF PlaceCall, Within
<1>3. PICK t : t = lane'[c]
  OBVIOUS
<1>4. ASSUME NEW k \in DOMAIN t, t[k].kind = "conclude" PROVE \A n \in Range(t[k].events) : ~IsAttempt(c, n)'
  <2>1. CASE k \in DOMAIN lane[c]
    <3>1. t[k] = lane[c][k]
      BY <1>3, <2>1 DEF Extends
    <3>2. Range(t[k].events) \subseteq Ahead(c)
      BY <2>1, <3>1 DEF Ahead, Waiting, LineWaits
    <3> QED
      BY <1>1, <1>2, <1>4, <2>1, <3>1, <3>2 DEF Reports, NoAttempts
  <2>2. CASE k \notin DOMAIN lane[c]
    <3>1. t[k] = job
      BY <1>3, <1>4, <2>2 DEF Extends
    <3>2. "attempt" \notin Range(f.events)
      BY <1>4, <3>1 DEF ResultsReport
    <3> QED
      BY <1>1, <3>1, <3>2 DEF Range
  <2> QED
    BY <2>1, <2>2
<1>5. work[c].kind = "conclude" => \A n \in Range(work[c].rest) : ~IsAttempt(c, n)'
  BY <1>1, <1>2 DEF Ahead, Reports, NoAttempts
<1>6. ASSUME NEW k \in DOMAIN desk[c], desk[c][k].what = "outcome" PROVE ~IsAttempt(c, desk[c][k].n)'
  <2>1. desk[c][k].n # 0
    BY <1>6 DEF TurnInv, OneAwaited
  <2>2. desk[c][k].n \in Past(c)
    BY <2>1 DEF Past, AtDesk, LineHas
  <2> QED
    BY <1>1, <1>2, <1>6, <2>2 DEF Reports
<1> QED
  BY <1>3, <1>4, <1>5, <1>6 DEF Reports, NoAttempts

\* Answer: only a final result is queued to be concluded.
LEMMA ReportAnswer == ASSUME TurnInv, PlaceInv, ResultsReport, ReportInv, NEW c \in Calls, Answer(c) PROVE ReportInv'
<1> USE DEF wire, grants, client
<1>1. Types /\ PlaceCall(c) /\ Reports(c) /\ UNCHANGED <<work, desk>>
  BY DEF TurnInv, PlaceInv, ReportInv, Answer
<1>2. PICK f \in Frames[c] :
       /\ Receive(c, f)
       /\ \/ f.kind = "result" /\ lane' = Queued(c, <<Job("conclude", Arriving(c, f.events))>>)
          \/ f.kind \in RoundKinds /\ lane' = Queued(c, <<Job(f.kind, Arriving(c, f.events))>>)
  BY DEF Answer
<1>3. \A d \in Calls : d # c => received'[d] = received[d]
  BY <1>2, Received
<1>4. PICK kind \in JobKinds : kind = (IF f.kind = "result" THEN "conclude" ELSE f.kind)
  BY <1>2 DEF JobKinds, RoundKinds
<1>5. PICK job \in Jobs : job = Job(kind, Arriving(c, f.events)) /\ job.events = Arriving(c, f.events) /\ job.kind = kind
  BY ArrivingIs, JobIs
<1>6. lane' = Queued(c, <<job>>) /\ (job.kind = "conclude" => f.kind = "result")
  BY <1>2, <1>4, <1>5 DEF RoundKinds
<1>7. lane'[c] = Append(lane[c], job) /\ \A d \in Calls : d # c => lane'[d] = lane[d]
  BY <1>1, <1>6, QueuedOne
<1>8. Extends(lane'[c], lane[c], job)
  <2>1. lane[c] \in Seq(Jobs)
    BY <1>1 DEF Types
  <2> QED
    BY <1>7, <2>1, ExtendsIs
<1>9. Reports(c)'
  BY <1>1, <1>2, <1>5, <1>6, <1>8, ReportArrives
<1>10. \A d \in Calls : d # c => Concludes(d)
  BY <1>1, <1>3, <1>7, ReportSame
<1> QED
  BY <1>9, <1>10, ReportStep

\* Message: a job that concludes nothing is queued.
LEMMA ReportMessage == ASSUME TurnInv, PlaceInv, ResultsReport, ReportInv, NEW c \in Calls, Message(c) PROVE ReportInv'
<1> USE DEF wire, grants, client
<1>1. Types /\ PlaceCall(c) /\ Reports(c) /\ UNCHANGED <<work, desk>>
  BY DEF TurnInv, PlaceInv, ReportInv, Message
<1>2. PICK f \in Frames[c] :
       /\ f.kind \in {"ask", "tell"} /\ Receive(c, f)
       /\ lane' = Queued(c, <<Job(IF f.kind = "ask" THEN "ask" ELSE "seal", Arriving(c, f.events))>>)
  BY DEF Message
<1>3. \A d \in Calls : d # c => received'[d] = received[d]
  BY <1>2, Received
<1>4. PICK kind \in JobKinds : kind = (IF f.kind = "ask" THEN "ask" ELSE "seal") /\ kind # "conclude"
  BY DEF JobKinds
<1>5. PICK job \in Jobs : job = Job(kind, Arriving(c, f.events)) /\ job.events = Arriving(c, f.events) /\ job.kind = kind
  BY ArrivingIs, JobIs
<1>6. lane'[c] = Append(lane[c], job) /\ \A d \in Calls : d # c => lane'[d] = lane[d]
  BY <1>1, <1>2, <1>4, <1>5, QueuedOne
<1>7. Extends(lane'[c], lane[c], job)
  <2>1. lane[c] \in Seq(Jobs)
    BY <1>1 DEF Types
  <2> QED
    BY <1>6, <2>1, ExtendsIs
<1>8. Reports(c)'
  BY <1>1, <1>2, <1>4, <1>5, <1>7, ReportArrives
<1>9. \A d \in Calls : d # c => Concludes(d)
  BY <1>1, <1>3, <1>6, ReportSame
<1> QED
  BY <1>8, <1>9, ReportStep

\* TakeJob: what the work concludes was a job to conclude.
LEMMA ReportTakeJob == ASSUME TurnInv, ReportInv, NEW c \in Calls, TakeJob(c) PROVE ReportInv'
<1>1. /\ Shortens(lane'[c], lane[c]) /\ Head(lane[c]) \in Jobs
      /\ \/ work'[c] = NoWork
         \/ /\ work'[c].rest = Head(lane[c]).events
            /\ work'[c].kind = Head(lane[c]).kind \/ work'[c].kind = "abandoned"
      /\ \A d \in Calls : d # c => Same(d)
      /\ UNCHANGED <<desk, received>>
  BY Taken
<1>2. Reports(c) /\ \A n : IsAttempt(c, n)' <=> IsAttempt(c, n)
  BY <1>1 DEF ReportInv, IsAttempt
<1>3. \A d \in Calls : d # c => Concludes(d)
  BY ReportSame, <1>1 DEF Same
<1>4. PICK t, line : t = lane'[c] /\ line = lane[c]
  OBVIOUS
<1>5. /\ \A k \in DOMAIN t : k + 1 \in DOMAIN line /\ t[k] = line[k + 1]
      /\ 1 \in DOMAIN line /\ Head(line) = line[1]
  BY <1>1, <1>4 DEF Shortens
<1>6. \A k \in DOMAIN t : t[k].kind = "conclude" => NoAttempts(c, Range(t[k].events))
  BY <1>2, <1>4, <1>5 DEF Reports
<1>7. work'[c].kind = "conclude" => NoAttempts(c, Range(work'[c].rest))
  BY <1>1, <1>2, <1>4, <1>5, NoWorkIs DEF Reports
<1>8. Reports(c)'
  BY <1>1, <1>2, <1>4, <1>6, <1>7 DEF Reports, NoAttempts
<1> QED
  BY <1>3, <1>8, ReportStep

\* HandOver: what is handed over as an outcome is one, what is concluded too.
LEMMA ReportHandOver == ASSUME TurnInv, ReportInv, NEW c \in Calls, HandOver(c) PROVE ReportInv'
<1> DEFINE asAttempt(n) == IsAttempt(c, n) /\ work[c].kind # "conclude"
           pass(n) == asAttempt(n) /\ work[c].kind = "abandoned"
<1>1. PICK n \in Events, e \in Entries :
         /\ n = Head(work[c].rest) /\ work[c].rest # <<>> /\ work[c].rest \in Seq(Events)
         /\ e.n = n /\ e.what = (IF asAttempt(n) THEN "attempt" ELSE "outcome")
         /\ work'[c].kind = work[c].kind /\ work'[c].rest = Tail(work[c].rest)
         /\ desk'[c] = desk[c] \/ desk'[c] = Append(desk[c], e)
         /\ \A d \in Calls : d # c => desk'[d] = desk[d] /\ work'[d] = work[d]
         /\ UNCHANGED <<lane, received>>
  <2> DEFINE f(n) == Entry(IF asAttempt(n) THEN "attempt" ELSE "outcome", n)
             m == Head(work[c].rest)
  <2>1. /\ m \in Events /\ work[c].rest # <<>> /\ work[c].rest \in Seq(Events)
        /\ f(m) \in Entries /\ f(m).n = m /\ f(m).what = (IF asAttempt(m) THEN "attempt" ELSE "outcome")
    BY HandedOver
  <2>2. /\ work'[c].kind = work[c].kind /\ work'[c].rest = Tail(work[c].rest)
        /\ (pass(m) => desk' = desk)
        /\ (~pass(m) => desk'[c] = Append(desk[c], f(m)))
    BY HandedOver
  <2>3. \A d \in Calls : d # c => desk'[d] = desk[d] /\ work'[d] = work[d]
    BY HandedOver
  <2>4. UNCHANGED <<lane, received>>
    BY HandedOver
  <2>5. PICK n \in Events : n = m
    BY <2>1
  <2>6. PICK e \in Entries : e = f(n)
    BY <2>1, <2>5
  <2> HIDE DEF asAttempt, pass, f
  <2> QED
    BY <2>1, <2>2, <2>3, <2>4, <2>5, <2>6
<1>2. Reports(c) /\ \A m : IsAttempt(c, m)' <=> IsAttempt(c, m)
  BY <1>1 DEF ReportInv, IsAttempt
<1>3. \A d \in Calls : d # c => Concludes(d)
  BY <1>1, ReportSame
<1>4. PICK rest \in Seq(Events), s \in Seq(Events) :
        rest = work[c].rest /\ s = Tail(rest) /\ n \in Range(rest) /\ Range(s) \subseteq Range(rest)
  <2>1. PICK rest \in Seq(Events) : rest = work[c].rest
    BY <1>1
  <2>2. rest # <<>> /\ n = Head(rest)
    BY <1>1, <2>1
  <2>3. Shortens(Tail(rest), rest) /\ Tail(rest) \in Seq(Events)
    BY <2>2, ShortensIs
  <2>4. PICK s \in Seq(Events) : s = Tail(rest)
    BY <2>3
  <2> QED
    BY <2>1, <2>2, <2>3, <2>4 DEF Shortens
<1>5. work'[c].kind = "conclude" => NoAttempts(c, Range(work'[c].rest))
  BY <1>1, <1>2, <1>4 DEF Reports, NoAttempts
<1>6. e.what = "outcome" => ~IsAttempt(c, n)
  BY <1>1, <1>2, <1>4 DEF Reports, NoAttempts
<1> HIDE DEF asAttempt, pass
<1>7. PICK t : t = desk'[c]
  OBVIOUS
<1>8. \A k \in DOMAIN t : t[k].what = "outcome" => ~IsAttempt(c, t[k].n)
  <2>1. CASE t = desk[c]
    BY <1>2, <2>1 DEF Reports
  <2>2. CASE t = Append(desk[c], e)
    <3>1. desk[c] \in Seq(Entries)
      BY DEF TurnInv, Types
    <3>2. Extends(t, desk[c], e)
      BY <2>2, <3>1, ExtendsIs
    <3> QED
      BY <1>1, <1>2, <1>6, <3>2 DEF Reports, Extends
  <2> QED
    BY <1>1, <1>7, <2>1, <2>2
<1>9. Reports(c)'
  BY <1>1, <1>2, <1>5, <1>7, <1>8 DEF Reports, NoAttempts
<1> QED
  BY <1>3, <1>9, ReportStep

\* HandOverAdrift: an attempt goes as one.
LEMMA ReportHandOverAdrift == ASSUME TurnInv, ReportInv, NEW c \in Calls, HandOverAdrift(c) PROVE ReportInv'
<1> DEFINE m == Head(adrift[c])
           f == Unheard(IF IsAttempt(c, m) THEN "attempt" ELSE "outcome", m)
<1>1. PICK e \in Entries : e.what = (IF IsAttempt(c, e.n) THEN "attempt" ELSE "outcome") /\ desk'[c] = Append(desk[c], e)
  <2>1. f \in Entries /\ f.n = m /\ f.what = (IF IsAttempt(c, m) THEN "attempt" ELSE "outcome") /\ desk'[c] = Append(desk[c], f)
    BY HandedAdrift
  <2> HIDE DEF f, m
  <2> QED
    BY <2>1
<1>2. (\A d \in Calls : d # c => desk'[d] = desk[d]) /\ UNCHANGED <<lane, work, received>>
  BY HandedAdrift
<1>3. Reports(c) /\ \A n : IsAttempt(c, n)' <=> IsAttempt(c, n)
  BY <1>2 DEF ReportInv, IsAttempt
<1>4. PICK t : t = desk'[c]
  OBVIOUS
<1>5. Extends(t, desk[c], e)
  <2>1. desk[c] \in Seq(Entries)
    BY DEF TurnInv, Types
  <2> QED
    BY <1>1, <1>4, <2>1, ExtendsIs
<1>6. \A k \in DOMAIN t : t[k].what = "outcome" => ~IsAttempt(c, t[k].n)
  BY <1>1, <1>3, <1>5 DEF Reports, Extends
<1>7. Reports(c)'
  BY <1>2, <1>3, <1>4, <1>6 DEF Reports, NoAttempts
<1>8. \A d \in Calls : d # c => Concludes(d)
  BY <1>2, ReportSame
<1> QED
  BY <1>7, <1>8, ReportStep

\* EndpointDecides: an entry less.
LEMMA ReportDecides == ASSUME TurnInv, ReportInv, NEW c \in Calls, EndpointDecides(c) PROVE ReportInv'
<1>1. PICK e \in Entries :
         /\ desk[c] # <<>> /\ desk[c] \in Seq(Entries) /\ desk'[c] = Tail(desk[c])
         /\ \A d \in Calls : d # c => desk'[d] = desk[d] /\ work'[d] = work[d]
         /\ DecidedAs(c, e)
         /\ UNCHANGED <<lane, received>>
  BY Decided
<1>2. work'[c].kind = "conclude" => work[c].kind = "conclude" /\ work'[c].rest = work[c].rest
  <2>1. HeardAs(c, e, {e.n}) \/ HeardAs(c, e, {}) \/ work'[c] = NoWork \/ work'[c] = work[c]
    BY <1>1 DEF DecidedAs
  <2> QED
    BY <2>1, NoWorkIs DEF HeardAs
<1>3. PICK t : t = desk'[c]
  OBVIOUS
<1>4. Shortens(t, desk[c])
  BY <1>1, <1>3, ShortensIs
<1>5. Concludes(c)
  BY <1>1, <1>2, <1>3, <1>4 DEF Concludes, Shortens
<1> QED
  BY <1>1, <1>5, ReportStays, ReportSame, ReportStep DEF ReportInv

\* The end of a wait: what is left over is sealed.
LEMMA ReportWaited ==
  ASSUME TurnInv, NEW c \in Calls, WaitOver(c), work'[c].kind # "conclude",
         \/ lane'[c] = lane[c] \/ lane'[c] = Sealing(c) \/ lane'[c] = Append(Sealing(c), CloseJob)
  PROVE  Concludes(c)
<1>1. Quiet(desk'[c], desk[c]) /\ received' = received
  BY WaitEnded
<1>2. PICK s, t : s = Sealing(c) /\ t = lane'[c]
  OBVIOUS
<1>3. /\ s = lane[c] \/ \E job : Extends(s, lane[c], job) /\ job.kind = "seal"
      /\ Extends(Append(s, CloseJob), s, CloseJob) /\ CloseJob.kind = "close"
  BY <1>2, SealingIs, CloseJobIs
<1>4. \A k \in DOMAIN s : s[k].kind = "conclude" => \E a \in DOMAIN lane[c] : s[k] = lane[c][a]
  BY <1>3 DEF Extends
<1>5. \A k \in DOMAIN t : t[k].kind = "conclude" => \E a \in DOMAIN lane[c] : t[k] = lane[c][a]
  <2>1. CASE t = lane[c]
    BY <2>1
  <2>2. CASE t = s
    BY <1>4, <2>2
  <2>3. CASE t = Append(s, CloseJob)
    <3>1. \A k \in DOMAIN t : t[k].kind = "conclude" => k \in DOMAIN s /\ t[k] = s[k]
      BY <1>3, <2>3 DEF Extends
    <3> QED
      BY <1>4, <3>1
  <2> QED
    BY <1>2, <2>1, <2>2, <2>3
<1> QED
  BY <1>1, <1>2, <1>5 DEF Concludes, Quiet

\* WaitOver, whichever way the work goes on.
LEMMA ReportWaitOver == ASSUME TurnInv, ReportInv, NEW c \in Calls, WaitOver(c) PROVE ReportInv'
<1>1. Types /\ (\A d \in Calls : d # c => desk'[d] = desk[d]) /\ UNCHANGED received
  BY WaitEnded DEF TurnInv
<1>2. SUFFICES \A d \in Calls : Concludes(d)
  BY ReportStays DEF ReportInv
<1>3. ASSUME NEW w \in Works, work' = [work EXCEPT ![c] = w] PROVE work'[c] = w /\ \A d \in Calls : d # c => work'[d] = work[d]
  BY <1>1, <1>3, WorkWritten
<1>4. CASE EndedMeanwhile(c)
  <2>1. /\ lane' = lane
        /\ work' = [work EXCEPT ![c] = IF Leftover(c) = <<>> THEN NoWork ELSE Work("seal", Leftover(c))]
    BY <1>4 DEF EndedMeanwhile
  <2>2. PICK w \in Works : work' = [work EXCEPT ![c] = w] /\ w.kind # "conclude"
    <3>1. Leftover(c) \in Seq(Events) /\ "seal" \in WorkKinds
      BY LeftoverIs DEF WorkKinds
    <3>2. Work("seal", Leftover(c)) \in Works /\ Work("seal", Leftover(c)).kind = "seal"
      BY <3>1, WorkIs
    <3>3. CASE Leftover(c) = <<>>
      BY <2>1, <3>3, NoWorkIs
    <3>4. CASE Leftover(c) # <<>>
      BY <2>1, <3>2, <3>4
    <3> QED
      BY <3>3, <3>4
  <2>3. work'[c].kind # "conclude" /\ \A d \in Calls : d # c => work'[d] = work[d]
    BY <1>3, <2>2
  <2> QED
    BY <1>1, <2>1, <2>3, ReportWaited, ReportSame
<1>5. CASE Answered(c)
  <2>1. lane' = lane /\ work' = [work EXCEPT ![c] = NoWork]
    BY <1>5 DEF Answered
  <2>2. work'[c].kind # "conclude" /\ \A d \in Calls : d # c => work'[d] = work[d]
    BY <1>3, <2>1, NoWorkIs
  <2> QED
    BY <1>1, <2>1, <2>2, ReportWaited, ReportSame
<1>6. CASE GoesBack(c)
  <2>1. /\ lane' = Queued(c, SealJob(Leftover(c)))
        /\ work' = [work EXCEPT ![c] = [Work("sending", <<>>) EXCEPT !.accepted = work[c].accepted]]
    BY <1>6 DEF GoesBack
  <2>2. lane'[c] = Sealing(c) /\ \A d \in Calls : d # c => lane'[d] = lane[d]
    BY <1>1, <2>1, SealingIs DEF Types
  <2>3. work'[c].kind # "conclude" /\ \A d \in Calls : d # c => work'[d] = work[d]
    <3>1. Work("sending", <<>>).kind = "sending"
      BY DEF Work
    <3>2. PICK w : w = [Work("sending", <<>>) EXCEPT !.accepted = work[c].accepted]
      OBVIOUS
    <3>3. w.kind = "sending"
      BY <3>2 DEF Work
    <3> QED
      BY <1>1, <2>1, <3>2, <3>3 DEF Types
  <2> QED
    BY <1>1, <2>2, <2>3, ReportWaited, ReportSame
<1>7. CASE Abandoned(c)
  <2>1. /\ work' = [work EXCEPT ![c] = NoWork]
        /\ lane' = [Queued(c, SealJob(Leftover(c))) EXCEPT ![c] = Append(@, CloseJob)]
    BY <1>7 DEF Abandoned
  <2>2. work'[c].kind # "conclude" /\ \A d \in Calls : d # c => work'[d] = work[d]
    BY <1>3, <2>1, NoWorkIs
  <2>3. lane'[c] = Append(Sealing(c), CloseJob) /\ \A d \in Calls : d # c => lane'[d] = lane[d]
    <3>1. PICK s \in Seq(Jobs) : s = Sealing(c)
      BY SealingIs
    <3>2. PICK t \in Seq(Jobs) : t = Append(s, CloseJob)
      BY <3>1, SealingIs
    <3>3. lane \in [Calls -> Seq(Jobs)] /\ Queued(c, SealJob(Leftover(c))) = [lane EXCEPT ![c] = s]
      BY <1>1, <3>1, SealingIs DEF Types
    <3>4. lane' = [lane EXCEPT ![c] = t]
      BY <2>1, <3>2, <3>3
    <3> QED
      BY <3>1, <3>2, <3>3, <3>4
  <2> QED
    BY <1>1, <2>2, <2>3, ReportWaited, ReportSame
<1>8. CASE GoesUp(c)
  <2>1. work' = [work EXCEPT ![c] = NoWork]
    BY <1>8 DEF GoesUp
  <2>2. work'[c].kind # "conclude" /\ \A d \in Calls : d # c => work'[d] = work[d]
    BY <1>3, <2>1, NoWorkIs
  <2>3. PICK r : r = [call |-> c, accepted |-> work[c].accepted]
    OBVIOUS
  <2>4. PICK out : WentUp(c, r, out)
    BY <1>8, <2>3, GoneUp
  <2>5. Concludes(c)
    BY <2>2, <2>4, ReportWaited DEF WentUp
  <2>6. ASSUME NEW d \in Calls, d # c PROVE Concludes(d)
    <3>1. lane'[d] = lane[d] \/ lane'[d] = Append(lane[d], CloseJob)
      BY <2>4, <2>6 DEF WentUp
    <3>2. \A k \in DOMAIN lane'[d] : lane'[d][k].kind = "conclude" => \E a \in DOMAIN lane[d] : lane'[d][k] = lane[d][a]
      BY <1>1, <3>1, ClosingConcludes
    <3> QED
      BY <1>1, <2>2, <2>6, <3>2 DEF Concludes
  <2> QED
    BY <2>5, <2>6
<1> QED
  BY <1>4, <1>5, <1>6, <1>7, <1>8 DEF WaitOver

\* Stopped, EndDrain: entries are forgotten, or waited for no more.
LEMMA ReportCutShort == ASSUME TurnInv, ReportInv, Stopped \/ EndDrain PROVE ReportInv'
<1> SUFFICES ASSUME NEW c \in Calls PROVE Concludes(c)
  BY ReportStays DEF ReportInv
<1>1. PICK t : t = desk'[c]
  OBVIOUS
<1>2. CASE Stopped
  <2>1. /\ \E S : KeptFrom(t, desk[c], S)
        /\ work'[c].kind = work[c].kind /\ work'[c].rest = work[c].rest /\ UNCHANGED <<lane, received>>
    BY <1>1, <1>2, StoppedIs
  <2> QED
    BY <1>1, <2>1 DEF Concludes, KeptFrom
<1>3. CASE EndDrain
  <2>1. /\ Quiet(t, desk[c]) \/ \E S : KeptFrom(t, desk[c], S)
        /\ work'[c] = NoWork /\ UNCHANGED <<lane, received>>
    BY <1>1, <1>3, Drained
  <2>2. \A k \in DOMAIN t : t[k].what = "outcome" => \E a \in DOMAIN desk[c] : t[k].n = desk[c][a].n /\ desk[c][a].what = "outcome"
    <3>1. CASE Quiet(t, desk[c])
      BY <3>1 DEF Quiet
    <3>2. CASE \E S : KeptFrom(t, desk[c], S)
      BY <3>2 DEF KeptFrom
    <3> QED
      BY <2>1, <3>1, <3>2
  <2> QED
    BY <1>1, <2>1, <2>2, NoWorkIs DEF Concludes
<1> QED
  BY <1>2, <1>3

\* CloseConnection, Stop and a stutter leave the lanes and the endpoint's queue as they are.
LEMMA ReportAside == ASSUME ReportInv, CloseConnection \/ Stop \/ UNCHANGED vars PROVE ReportInv'
<1> USE DEF vars, lanes, host, wire, client, grants
<1>1. UNCHANGED <<lane, work, desk, received>>
  BY DEF CloseConnection, Stop
<1> QED
  BY <1>1, ReportSame, ReportStays DEF ReportInv

\* Every step keeps outcomes outcomes.
LEMMA ReportNext == ASSUME TurnInv, PlaceInv, ResultsReport, ReportInv, Next PROVE ReportInv'
<1>1. ASSUME NEW c \in Calls, Send(c) \/ ClientRetry(c) \/ Cancel(c) \/ CancelNotFound(c) \/ Answer(c) \/ Message(c) PROVE ReportInv'
  BY <1>1, ReportQuietly, ReportAnswer, ReportMessage
<1>2. ASSUME NEW c \in Calls, LaneStep(c) PROVE ReportInv'
  BY <1>2, ReportQuietly, ReportTakeJob, ReportHandOver, ReportWaitOver, ReportDecides DEF LaneStep
<1>3. ASSUME NEW c \in Calls, HandOverAdrift(c) \/ CloseSession(c) PROVE ReportInv'
  BY <1>3, ReportHandOverAdrift, ReportQuietly
<1>4. CASE Stopped \/ EndDrain
  BY <1>4, ReportCutShort
<1>5. CASE CloseConnection \/ Stop
  BY <1>5, ReportAside
<1> QED
  BY <1>1, <1>2, <1>3, <1>4, <1>5 DEF Next

\* Initially nothing is concluded.
LEMMA ReportInit == Init => ReportInv
<1> SUFFICES ASSUME Init, NEW c \in Calls PROVE Reports(c)
  BY DEF ReportInv
<1>1. lane[c] = <<>> /\ desk[c] = <<>> /\ work[c].kind = "none"
  BY NoWorkIs DEF Init
<1> QED
  BY <1>1 DEF Reports

\* What is concluded, and what is at the endpoint as an outcome, are outcomes in every behaviour.
LEMMA ReportsCorrect == ASSUME ResultsReport PROVE Spec => []ReportInv
<1>1. Init => ReportInv
  BY ReportInit
<1>2. TurnInv /\ PlaceInv /\ ReportInv /\ [Next]_vars => ReportInv'
  BY ReportNext, ReportAside
<1> QED
  BY <1>1, <1>2, TurnsCorrect, PlacesCorrect, PTL DEF Spec

\* The outcomes received of a call and not recorded.
Lost(c) == {n \in DOMAIN received[c] : ~IsAttempt(c, n) /\ n \notin Range(log[c])}

Losses(c) ==
  /\ connection = "up" => sweep[c] = "none"
  /\ sweep[c] \in {"none", "due", "cut"} => Cardinality(Lost(c)) <= owed[c]
  /\ sweep[c] = "quiet" => Lost(c) = {}
LossInv == \A c \in Calls : Losses(c)

\* The losses of a call are finitely many.
LEMMA LostFew ==
  ASSUME Types, NEW c \in Calls
  PROVE  IsFiniteSet(Lost(c)) /\ Cardinality(Lost(c)) \in Nat /\ owed[c] \in Nat /\ (Cardinality(Lost(c)) <= 0 <=> Lost(c) = {})
<1>1. PICK m \in Nat : m = Len(received[c]) /\ DOMAIN received[c] = 1..m
  BY DEF Types
<1>2. IsFiniteSet(1..m)
  BY FS_Interval
<1>3. Lost(c) \in SUBSET (1..m)
  BY <1>1 DEF Lost
<1>4. IsFiniteSet(Lost(c))
  BY <1>2, <1>3, FS_Subset
<1>5. Cardinality(Lost(c)) \in Nat /\ (Cardinality(Lost(c)) = 0 <=> Lost(c) = {})
  BY <1>4, FS_CardinalityType, FS_EmptySet
<1> QED
  BY <1>4, <1>5 DEF Types

\* A call whose record, log and balance stay keeps its losses.
LEMMA LossSame ==
  ASSUME NEW c \in Calls, Losses(c), UNCHANGED <<received[c], log[c], owed[c], sweep[c]>>, connection' = "up" => connection = "up"
  PROVE  Losses(c)'
<1>1. Lost(c)' = Lost(c)
  BY DEF Lost, IsAttempt
<1> QED
  BY <1>1 DEF Losses

\* What arrives adds its outcomes to what is owed.
LEMMA LossReceive ==
  ASSUME TurnInv, LossInv, NEW c \in Calls, NEW f \in Frames[c], Receive(c, f), Up,
         UNCHANGED <<log, sweep, connection>>
  PROVE  LossInv'
<1>1. /\ Types /\ owed'[c] = owed[c] + Owing(f) /\ owed[c] \in Nat /\ Owing(f) \in Nat /\ Losses(c)
      /\ \A d \in Calls : d # c => received'[d] = received[d] /\ owed'[d] = owed[d]
  BY Received, FrameIs DEF TurnInv, Types, LossInv
<1>2. PICK old, new, ev :
        /\ old \in Seq(EventKinds) /\ new \in Seq(EventKinds) /\ ev \in Seq(EventKinds)
        /\ old = received[c] /\ new = received'[c] /\ ev = f.events
  BY <1>1, Received, FrameIs DEF Types
<1>3. PICK m, l : m \in Nat /\ l \in Nat /\ m = Len(old) /\ l = Len(ev) /\ Len(new) = m + l
  <2>1. Len(received'[c]) = Len(received[c]) + Len(f.events)
    BY Received
  <2>2. Len(old) \in Nat /\ Len(ev) \in Nat /\ Len(new) = Len(old) + Len(ev)
    BY <1>2, <2>1
  <2> QED
    BY <2>2
<1>4. /\ DOMAIN new = 1..(m + l) /\ DOMAIN old = 1..m /\ DOMAIN ev = 1..l
      /\ \A n \in 1..m : new[n] = old[n]
      /\ \A k \in 1..l : new[m + k] = ev[k]
  <2>1. /\ \A n \in DOMAIN received[c] : received'[c][n] = received[c][n]
        /\ \A k \in DOMAIN f.events : received'[c][Len(received[c]) + k] = f.events[k]
    BY Received
  <2>2. DOMAIN new = 1..Len(new) /\ DOMAIN old = 1..Len(old) /\ DOMAIN ev = 1..Len(ev)
    BY <1>2
  <2> QED
    BY <1>2, <1>3, <2>1, <2>2
<1>5. PICK K : K = {k \in DOMAIN ev : ev[k] = "outcome"}
  OBVIOUS
<1>6. PICK N : N = {m + k : k \in K}
  OBVIOUS
<1>7. IsFiniteSet(K) /\ Cardinality(K) = Owing(f)
  <2>1. IsFiniteSet(1..l)
    BY <1>3, FS_Interval
  <2>2. K \in SUBSET (1..l)
    BY <1>4, <1>5
  <2> QED
    BY <1>2, <1>5, <2>1, <2>2, FS_Subset DEF Owing
<1>8. IsFiniteSet(N) /\ Cardinality(N) <= Cardinality(K)
  <2>1. PICK g : g = [k \in K |-> m + k]
    OBVIOUS
  <2>2. g \in Surjection(K, N)
    BY <1>6, <2>1 DEF Surjection
  <2> QED
    BY <1>7, <2>2, FS_Surjection
<1>9. Lost(c)' \subseteq Lost(c) \cup N
  <2> SUFFICES ASSUME NEW n \in 1..(m + l), new[n] # "attempt", n \notin Range(log[c]) PROVE n \in Lost(c) \cup N
    BY <1>2, <1>4 DEF Lost, IsAttempt
  <2>1. CASE n \in 1..m
    BY <1>2, <1>4, <2>1 DEF Lost, IsAttempt
  <2>2. CASE \E k \in 1..l : m + k = n
    <3>1. PICK k \in 1..l : m + k = n
      BY <2>2
    <3>2. ev[k] \in EventKinds /\ ev[k] # "attempt"
      <4>1. new[m + k] = ev[k] /\ k \in DOMAIN ev
        BY <1>4, <3>1
      <4>2. ev[k] \in EventKinds
        BY <1>2, <4>1
      <4> QED
        BY <3>1, <4>1, <4>2
    <3>3. ev[k] = "outcome"
      BY <3>2 DEF EventKinds
    <3> QED
      BY <1>4, <1>5, <1>6, <3>1, <3>3
  <2>3. m \in Nat /\ l \in Nat /\ n \in 1..(m + l)
    BY <1>3
  <2>4. n \in 1..m \/ \E k \in 1..l : m + k = n
    BY <2>3, InTwo
  <2> QED
    BY <2>1, <2>2, <2>4
<1>10. PICK L, M : L = Lost(c) /\ M = Lost(c)'
  OBVIOUS
<1>11. IsFiniteSet(L) /\ Cardinality(L) \in Nat /\ Cardinality(L) <= owed[c]
  <2>1. sweep[c] = "none"
    BY <1>1 DEF Losses, Up
  <2> QED
    BY <1>1, <1>10, <2>1, LostFew DEF Losses
<1>12. Cardinality(M) <= Cardinality(L) + Cardinality(N)
  <2>1. IsFiniteSet(L \cup N) /\ Cardinality(L \cup N) = Cardinality(L) + Cardinality(N) - Cardinality(L \cap N)
    BY <1>8, <1>11, FS_Union
  <2>2. Cardinality(L \cap N) \in Nat /\ Cardinality(N) \in Nat /\ Cardinality(M) \in Nat /\ Cardinality(M) <= Cardinality(L \cup N)
    <3>1. L \cap N \in SUBSET N /\ M \in SUBSET (L \cup N)
      BY <1>9, <1>10
    <3>2. IsFiniteSet(L \cap N) /\ IsFiniteSet(M) /\ Cardinality(M) <= Cardinality(L \cup N)
      BY <1>8, <2>1, <3>1, FS_Subset
    <3> QED
      BY <1>8, <3>2, FS_CardinalityType
  <2> QED
    BY <1>11, <2>1, <2>2
<1>13. Cardinality(Lost(c)') <= owed'[c]
  <2>1. Cardinality(M) \in Nat /\ Cardinality(N) \in Nat
    <3>1. IsFiniteSet(L \cup N)
      BY <1>8, <1>11, FS_Union
    <3>2. IsFiniteSet(M)
      BY <1>9, <1>10, <3>1, FS_Subset
    <3> QED
      BY <1>8, <3>2, FS_CardinalityType
  <2> QED
    BY <1>1, <1>7, <1>8, <1>10, <1>11, <1>12, <2>1
<1>14. Losses(c)'
  <2>1. sweep'[c] = "none"
    BY <1>1 DEF Losses, Up
  <2> QED
    BY <1>13, <2>1 DEF Losses
<1>15. \A d \in Calls : d # c => Losses(d)'
  BY <1>1, LossSame DEF LossInv
<1> QED
  BY <1>14, <1>15 DEF LossInv

\* EndpointDecides: an outcome recorded was owed, and nothing else is owed less for it.
LEMMA LossDecides == ASSUME TurnInv, PlaceInv, ReportInv, LossInv, NEW c \in Calls, EndpointDecides(c) PROVE LossInv'
<1>1. PICK e \in Entries :
         /\ desk[c] # <<>> /\ desk[c] \in Seq(Entries) /\ e = desk[c][1] /\ 1 \in DOMAIN desk[c] /\ (e.what = "close" <=> e.n = 0)
         /\ \A d \in Calls : d # c => log'[d] = log[d] /\ owed'[d] = owed[d]
         /\ DecidedAs(c, e)
         /\ UNCHANGED <<connection, sweep, received>>
  BY Decided
<1>2. /\ Types /\ PlaceCall(c) /\ Reports(c) /\ Losses(c) /\ (\A m : IsAttempt(c, m)' <=> IsAttempt(c, m))
      /\ log[c] \in Seq(Nat) /\ e.n \in Nat
  BY <1>1 DEF TurnInv, Types, PlaceInv, ReportInv, LossInv, IsAttempt, Entries
<1>3. PICK L, M : L = Lost(c) /\ M = Lost(c)'
  OBVIOUS
<1>4. IsFiniteSet(L) /\ Cardinality(L) \in Nat /\ owed[c] \in Nat
  BY <1>2, <1>3, LostFew
<1>5. log'[c] = log[c] \/ \E n \in Nat : log'[c] = Append(log[c], n)
  BY <1>1, <1>2 DEF DecidedAs
<1>6. Range(log[c]) \subseteq Range(log'[c])
  <2>1. ASSUME NEW n \in Nat, log'[c] = Append(log[c], n) PROVE Range(log[c]) \subseteq Range(log'[c])
    <3>1. Range(Append(log[c], n)) = Range(log[c]) \cup {n}
      BY <1>2, LineAppend
    <3> QED
      BY <2>1, <3>1
  <2> QED
    BY <1>5, <2>1
<1>7. M \subseteq L
  BY <1>1, <1>2, <1>3, <1>6 DEF Lost
<1>8. IsFiniteSet(M) /\ Cardinality(M) \in Nat /\ Cardinality(M) <= Cardinality(L)
  BY <1>4, <1>7, FS_Subset, FS_CardinalityType
<1>9. Cardinality(L) <= owed[c] => Cardinality(M) <= owed'[c]
  <2>1. CASE e.what # "outcome"
    <3>1. owed'[c] = owed[c]
      BY <1>1, <2>1 DEF DecidedAs
    <3> QED
      BY <1>4, <1>8, <3>1
  <2>2. CASE e.what = "outcome"
    <3>1. ~IsAttempt(c, e.n) /\ e.n # 0
      BY <1>1, <1>2, <2>2 DEF Reports
    <3>2. log'[c] = Append(log[c], e.n) /\ owed'[c] = (IF owed[c] > 0 THEN owed[c] - 1 ELSE 0)
      BY <1>1, <2>2, <3>1 DEF DecidedAs
    <3>3. Range(log'[c]) = Range(log[c]) \cup {e.n}
      BY <1>2, <3>2, LineAppend
    <3>4. e.n \in AtDesk(c)
      BY <1>1, <3>1 DEF AtDesk, LineHas
    <3>5. e.n \in L
      <4>1. e.n \notin Logged(c)
        BY <1>2, <3>4 DEF PlaceCall, Apart
      <4>2. e.n \in 1..Len(received[c])
        BY <1>2, <3>4 DEF PlaceCall, Within, Past
      <4>3. DOMAIN received[c] = 1..Len(received[c])
        BY <1>2 DEF Types
      <4> QED
        BY <1>3, <3>1, <4>1, <4>2, <4>3 DEF Lost, Logged
    <3>6. M \in SUBSET (L \ {e.n})
      BY <1>3, <1>7, <3>3 DEF Lost
    <3>7. IsFiniteSet(L \ {e.n}) /\ Cardinality(L \ {e.n}) = Cardinality(L) - 1
      BY <1>4, <3>5, FS_RemoveElement
    <3>8. Cardinality(M) <= Cardinality(L \ {e.n})
      BY <3>6, <3>7, FS_Subset
    <3>9. Cardinality(M) <= Cardinality(L) - 1
      BY <3>7, <3>8
    <3> QED
      BY <1>4, <1>8, <3>2, <3>9
  <2> QED
    BY <2>1, <2>2
<1>10. Losses(c)'
  BY <1>1, <1>2, <1>3, <1>7, <1>9 DEF Losses
<1>11. \A d \in Calls : d # c => Losses(d)'
  BY <1>1, LossSame DEF LossInv
<1> QED
  BY <1>10, <1>11 DEF LossInv

\* CloseSession: nothing is owed of a session that is closed without a word.
LEMMA LossCloseSession == ASSUME TurnInv, LossInv, NEW c \in Calls, CloseSession(c) PROVE LossInv'
<1>1. /\ connection = "closing" /\ sweep[c] \in {"due", "cut"}
      /\ sweep'[c] \in {"logged", "quiet"} /\ (sweep'[c] = "quiet" => owed[c] = 0)
      /\ \A d \in Calls : d # c => sweep'[d] = sweep[d] /\ owed'[d] = owed[d]
      /\ UNCHANGED <<log, connection, received>>
  BY SessionClosed
<1>2. Losses(c) /\ Lost(c)' = Lost(c) /\ owed[c] \in Nat
  BY <1>1 DEF LossInv, Lost, IsAttempt, TurnInv, Types
<1>3. sweep'[c] = "quiet" => Lost(c) = {}
  <2> SUFFICES ASSUME sweep'[c] = "quiet" PROVE Lost(c) = {}
    OBVIOUS
  <2>1. owed[c] = 0
    BY <1>1, <1>2
  <2> QED
    BY <1>1, <1>2, <2>1, LostFew DEF Losses, TurnInv
<1>4. Losses(c)'
  BY <1>1, <1>2, <1>3 DEF Losses
<1>5. \A d \in Calls : d # c => Losses(d)'
  BY <1>1, LossSame DEF LossInv
<1> QED
  BY <1>4, <1>5 DEF LossInv

\* CloseConnection: the sessions are due to be closed.
LEMMA LossCloseConnection == ASSUME LossInv, CloseConnection PROVE LossInv'
<1> SUFFICES ASSUME NEW c \in Calls PROVE Losses(c)'
  BY DEF LossInv
<1>1. Losses(c) /\ connection = "up" /\ connection' = "draining" /\ sweep'[c] \in {"due", "none"} /\ UNCHANGED <<log, owed, received>>
  BY DEF CloseConnection, LossInv, host
<1>2. Lost(c)' = Lost(c)
  BY <1>1 DEF Lost, IsAttempt
<1> QED
  BY <1>1, <1>2 DEF Losses

\* EndDrain: a job that is cut is owed for still.
LEMMA LossEndDrain == ASSUME TurnInv, LossInv, EndDrain PROVE LossInv'
<1> SUFFICES ASSUME NEW c \in Calls PROVE Losses(c)'
  BY DEF LossInv
<1>1. /\ connection' = "closing" /\ UNCHANGED <<log, owed, received>>
      /\ sweep'[c] = sweep[c] \/ (sweep[c] = "due" /\ sweep'[c] = "cut")
  BY Drained
<1>2. Losses(c) /\ Lost(c)' = Lost(c)
  BY <1>1 DEF LossInv, Lost, IsAttempt
<1> QED
  BY <1>1, <1>2 DEF Losses

\* Every step keeps the losses of every call within what is owed.
LEMMA LossNext == ASSUME TurnInv, PlaceInv, ReportInv, LossInv, Next PROVE LossInv'
<1> USE DEF lanes, host, wire, client, grants
<1>1. SUFFICES ASSUME UNCHANGED <<received, log, owed, sweep>>, connection' = "up" => connection = "up" PROVE LossInv'
  <2>1. ASSUME NEW c \in Calls, Send(c) \/ ClientRetry(c) \/ Cancel(c) \/ CancelNotFound(c)
        PROVE  UNCHANGED <<received, log, owed, sweep, connection>>
    BY <2>1 DEF Send, ClientRetry, Cancel, CancelNotFound
  <2>2. ASSUME NEW c \in Calls, Answer(c) \/ Message(c) PROVE LossInv'
    <3>1. Up /\ (\E f \in Frames[c] : Receive(c, f)) /\ UNCHANGED <<log, sweep, connection>>
      BY <2>2 DEF Answer, Message, InFlight
    <3> QED
      BY <3>1, LossReceive
  <2>3. ASSUME NEW c \in Calls, TakeJob(c) \/ HandOver(c) \/ JobDone(c) \/ BeginClose(c) \/ WaitOver(c) \/ RetrySent(c) \/ RetryFailed(c)
        PROVE  UNCHANGED <<received, log, owed, sweep, connection>>
    BY <2>3 DEF TakeJob, HandOver, JobDone, BeginClose, WaitOver, RetrySent, RetryFailed
  <2>4. ASSUME NEW c \in Calls, EndpointDecides(c) \/ CloseSession(c) PROVE LossInv'
    BY <2>4, LossDecides, LossCloseSession
  <2>5. ASSUME NEW c \in Calls, HandOverAdrift(c) PROVE UNCHANGED <<received, log, owed, sweep, connection>>
    BY <2>5 DEF HandOverAdrift
  <2>6. ASSUME Stopped \/ Stop PROVE UNCHANGED <<received, log, owed, sweep>> /\ (connection' = "up" => connection = "up")
    BY <2>6 DEF Stopped, Stop
  <2>7. CASE CloseConnection \/ EndDrain
    BY <2>7, LossCloseConnection, LossEndDrain
  <2> QED
    BY <1>1, <2>1, <2>2, <2>3, <2>4, <2>5, <2>6, <2>7 DEF Next, LaneStep
<1> QED
  BY <1>1, LossSame DEF LossInv

\* Initially nothing is lost, and nothing owed.
LEMMA LossInit == Init => LossInv
<1> SUFFICES ASSUME Init, NEW c \in Calls PROVE Losses(c)
  BY DEF LossInv
<1>1. sweep[c] = "none" /\ received[c] = <<>> /\ owed[c] = 0
  BY DEF Init
<1>2. Lost(c) = {}
  BY <1>1 DEF Lost
<1> QED
  BY <1>1, <1>2, FS_EmptySet DEF Losses

\* A stutter keeps the losses.
LEMMA LossAside == ASSUME LossInv, UNCHANGED vars PROVE LossInv'
BY LossSame DEF LossInv, vars, host, wire

\* Closing the connection is silent only of sessions whose every outcome reached the endpoint, if no tool puts an attempt
\* in a final result.
THEOREM LossesCorrect == ResultsReport => (Spec => []ClosingLogsLosses)
<1> SUFFICES ASSUME ResultsReport PROVE Spec => []ClosingLogsLosses
  OBVIOUS
<1>1. Init => LossInv
  BY LossInit
<1>2. TurnInv /\ PlaceInv /\ ReportInv /\ LossInv /\ [Next]_vars => LossInv'
  BY LossNext, LossAside
<1>3. LossInv => ClosingLogsLosses
  BY DEF LossInv, Losses, Lost, ClosingLogsLosses
<1> QED
  BY <1>1, <1>2, <1>3, TurnsCorrect, PlacesCorrect, ReportsCorrect, PTL DEF Spec
===============================================================================
