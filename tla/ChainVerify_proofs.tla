-------------------------- MODULE ChainVerify_proofs --------------------------
(***************************************************************************)
(* Theorems about ChainVerify, for chains of any length and storage        *)
(* altered any number of times: no false alarm, and no alteration that     *)
(* passes an anchored digest or required countersignatures.  The last part *)
(* is SignerAccounting's, which the verifier runs too: the accounting of   *)
(* refused events, and the theorem of SignerLedger.                        *)
(***************************************************************************)
EXTENDS ChainVerify, SignerLedger, Induction, SequenceTheorems

-----------------------------------------------------------------------------
(* The verifier's pass, record by record. *)

Start == [next |-> 1, link |-> GenesisHash, attempted |-> {}, numbered |-> {}, issues |-> {}]

\* A run of the pass over the first m records.
IsPass(f, chain, required, m) ==
  f = [n \in 0..m |-> IF n = 0 THEN Start ELSE Pass(f[n - 1], chain[n], required)]

After(chain, required) ==
  CHOOSE f : f = [n \in 0..Len(chain) |-> IF n = 0 THEN Start ELSE Pass(f[n - 1], chain[n], required)]

\* What the report is read from is the state of that run after the last record.
LEMMA PassedIsAfter ==
  ASSUME NEW chain, NEW required
  PROVE  Passed(chain, required) = After(chain, required)[Len(chain)]
BY DEF Passed, After, Start

\* The pass can be run over any chain.
LEMMA PassRuns ==
  ASSUME NEW chain, NEW required, Len(chain) \in Nat
  PROVE  IsPass(After(chain, required), chain, required, Len(chain))
<1> DEFINE T == {m \in Nat : \E f : IsPass(f, chain, required, m)}
<1>1. 0 \in T
  <2>1. IsPass([n \in 0..0 |-> Start], chain, required, 0)
    BY DEF IsPass
  <2> QED
    BY <2>1
<1>2. ASSUME NEW m \in T PROVE m + 1 \in T
  <2>1. PICK f : IsPass(f, chain, required, m)
    OBVIOUS
  <2> DEFINE g == [n \in 0..(m + 1) |-> IF n = m + 1 THEN Pass(f[m], chain[m + 1], required) ELSE f[n]]
  <2>2. \A n \in 0..(m + 1) : g[n] = IF n = 0 THEN Start ELSE Pass(g[n - 1], chain[n], required)
    BY <2>1 DEF IsPass
  <2>3. IsPass(g, chain, required, m + 1)
    BY <2>2 DEF IsPass
  <2> QED
    BY <2>3
<1>3. T = Nat
  <2> HIDE DEF T
  <2>1. T \in SUBSET Nat
    BY DEF T
  <2> QED
    BY <1>1, <1>2, <2>1, NaturalInduction
<1>4. \E f : IsPass(f, chain, required, Len(chain))
  BY <1>3
<1> QED
  BY <1>4 DEF IsPass, After

\* The first record is numbered 1, and issues are only added.
LEMMA PassSteps ==
  ASSUME NEW chain, NEW required, Len(chain) \in Nat
  PROVE  LET after == After(chain, required) IN
         /\ after[0] = Start
         /\ \A n \in 1..Len(chain) : after[n] = Pass(after[n - 1], chain[n], required)
         /\ \A n \in 0..Len(chain) : after[n].next = n + 1
<1> DEFINE after == After(chain, required)
<1>1. /\ after[0] = Start
      /\ \A n \in 1..Len(chain) : after[n] = Pass(after[n - 1], chain[n], required)
  BY PassRuns DEF IsPass
<1> DEFINE T == {n \in 0..Len(chain) : after[n].next = n + 1}
<1>2. 0 \in T
  BY <1>1 DEF Start
<1>3. ASSUME NEW n \in T, n < Len(chain) PROVE n + 1 \in T
  <2>1. after[n + 1] = Pass(after[n], chain[n + 1], required)
    BY <1>1, <1>3
  <2>2. after[n + 1].next = after[n].next + 1
    BY <2>1 DEF Pass
  <2> QED
    BY <1>3, <2>2
<1>4. T = 0..Len(chain)
  <2> HIDE DEF T
  <2>1. T \in SUBSET (0..Len(chain))
    BY DEF T
  <2> QED
    BY <1>2, <1>3, <2>1, BoundedInduction
<1> QED
  BY <1>1, <1>4

\* What the pass finds in record r, the link before it being `link`.
Found(r, n, link, attempted, numbered, required) ==
  PositionIssues(r, n) \union HashIssues(r, link) \union CorrelationIssues(r, attempted)
    \union NumberIssues(r, numbered) \union CountersignIssues(r, required)

LEMMA PassFinds ==
  ASSUME NEW acc, NEW r, NEW required
  PROVE  /\ Pass(acc, r, required).link = LinkAfter(r, acc.link)
         /\ Pass(acc, r, required).issues =
              acc.issues \union {<<acc.next, kind>> : kind \in Found(r, acc.next, acc.link, acc.attempted, acc.numbered, required)}
BY DEF Pass, Found

\* The report adds the missing values to what the pass found.
LEMMA OkIsBoth ==
  ASSUME NEW chain, NEW required
  PROVE  Ok(chain, required) <=> Passed(chain, required).issues = {} /\ GapIssues(chain) = {}
BY DEF Ok, Report

\* A chain without an issue has none in any record.
LEMMA OkEverywhere ==
  ASSUME NEW chain, NEW required, Len(chain) \in Nat, Ok(chain, required)
  PROVE  LET after == After(chain, required) IN
         \A n \in 0..Len(chain) : after[n].issues = {}
<1> DEFINE after == After(chain, required)
           T == {k \in 0..Len(chain) : after[Len(chain) - k].issues = {}}
<1>1. 0 \in T
  BY PassedIsAfter, OkIsBoth
<1>2. ASSUME NEW k \in T, k < Len(chain) PROVE k + 1 \in T
  <2> DEFINE n == Len(chain) - k
  <2>1. n \in 1..Len(chain) /\ n - 1 = Len(chain) - (k + 1)
    BY <1>2
  <2>2. after[n] = Pass(after[n - 1], chain[n], required)
    BY <2>1, PassSteps
  <2>3. after[n - 1].issues \subseteq after[n].issues
    BY <2>2, PassFinds
  <2> QED
    BY <2>1, <2>3
<1>3. T = 0..Len(chain)
  <2> HIDE DEF T
  <2>1. T \in SUBSET (0..Len(chain))
    BY DEF T
  <2> QED
    BY <1>1, <1>2, <2>1, BoundedInduction
<1>4. ASSUME NEW n \in 0..Len(chain) PROVE after[n].issues = {}
  <2>1. PICK k \in 0..Len(chain) : k = Len(chain) - n
    OBVIOUS
  <2>2. k \in T
    BY <1>3
  <2>3. Len(chain) - k = n
    BY <2>1
  <2> QED
    BY <2>2, <2>3
<1> QED
  BY <1>4

\* The link before record n + 1.
LinkAt(chain, required, n) == After(chain, required)[n].link

\* What a verified record is: in its place, canonicalizable, and hashed over the link before it.
LEMMA OkRecord ==
  ASSUME NEW chain, NEW required, Len(chain) \in Nat, Ok(chain, required), NEW n \in 1..Len(chain)
  PROVE  /\ chain[n].seq = n - 1 /\ chain[n].event.canonical
         /\ chain[n].hash = RecordHash(chain[n].event, chain[n].seq, LinkAt(chain, required, n - 1))
         /\ LinkAt(chain, required, n) = chain[n].hash
         /\ CountersignIssues(chain[n], required) = {}
<1> DEFINE after == After(chain, required)
           acc == after[n - 1]
           r == chain[n]
           found == Found(r, acc.next, acc.link, acc.attempted, acc.numbered, required)
<1>1. after[n] = Pass(acc, r, required) /\ acc.next = n /\ after[n].issues = {}
  BY PassSteps, OkEverywhere
<1>2. found = {} /\ after[n].link = LinkAfter(r, acc.link)
  <2> HIDE DEF acc, r, found
  <2>1. Pass(acc, r, required).issues = acc.issues \union {<<acc.next, kind>> : kind \in found}
    BY PassFinds DEF found
  <2>2. \A kind \in found : <<acc.next, kind>> \in after[n].issues
    BY <1>1, <2>1
  <2>3. after[n].link = LinkAfter(r, acc.link)
    BY <1>1, PassFinds
  <2> QED
    BY <1>1, <2>2, <2>3
<1>3. PositionIssues(r, n) = {} /\ HashIssues(r, acc.link) = {} /\ CountersignIssues(r, required) = {}
  BY <1>1, <1>2 DEF Found
<1>4. r.seq = n - 1
  BY <1>3 DEF PositionIssues
<1>5. r.event.canonical /\ r.hash = Recomputed(r, acc.link)
  BY <1>3 DEF HashIssues
<1> QED
  BY <1>2, <1>3, <1>4, <1>5 DEF LinkAfter, LinkAt, Recomputed

\* Its hash, for itself.
LEMMA OkHash ==
  ASSUME NEW chain, NEW required, Len(chain) \in Nat, Ok(chain, required), NEW n \in 1..Len(chain)
  PROVE  chain[n].hash = RecordHash(chain[n].event, chain[n].seq, LinkAt(chain, required, n - 1))
BY OkRecord

-----------------------------------------------------------------------------
(* Sequences of records, and records whose fields change. *)

IsSeq(s) == \E S : s \in Seq(S)

Shaped(r) == r = [event |-> r.event, seq |-> r.seq, prev |-> r.prev, hash |-> r.hash, signature |-> r.signature]

LEMMA SeqLength == ASSUME NEW s, IsSeq(s) PROVE Len(s) \in Nat /\ DOMAIN s = 1..Len(s)
BY DEF IsSeq

LEMMA SeqAppend ==
  ASSUME NEW s, IsSeq(s), NEW x
  PROVE  /\ IsSeq(Append(s, x)) /\ Len(Append(s, x)) = Len(s) + 1
         /\ \A n \in 1..Len(s) : Append(s, x)[n] = s[n]
         /\ Append(s, x)[Len(s) + 1] = x
<1>1. PICK S : s \in Seq(S)
  BY DEF IsSeq
<1> DEFINE U == S \union {x}
<1>2. s \in Seq(U) /\ x \in U
  BY <1>1
<1>3. Append(s, x) \in Seq(U)
  BY <1>2
<1> HIDE DEF U
<1> QED
  BY <1>2, <1>3 DEF IsSeq

LEMMA SeqExcept ==
  ASSUME NEW s, IsSeq(s), NEW n \in 1..Len(s), NEW x
  PROVE  /\ IsSeq([s EXCEPT ![n] = x]) /\ Len([s EXCEPT ![n] = x]) = Len(s)
         /\ [s EXCEPT ![n] = x][n] = x
         /\ \A m \in 1..Len(s) : m # n => [s EXCEPT ![n] = x][m] = s[m]
<1>1. PICK S : s \in Seq(S)
  BY DEF IsSeq
<1> DEFINE U == S \union {x}
<1>2. s \in Seq(U) /\ x \in U
  BY <1>1
<1> HIDE DEF U
<1>3. [s EXCEPT ![n] = x] \in Seq(U) /\ Len([s EXCEPT ![n] = x]) = Len(s)
  BY <1>2, ExceptSeq
<1> QED
  BY <1>2, <1>3 DEF IsSeq

LEMMA SeqRemove ==
  ASSUME NEW s, IsSeq(s), NEW n \in 1..Len(s)
  PROVE  /\ IsSeq(RemoveAt(s, n)) /\ Len(RemoveAt(s, n)) = Len(s) - 1
         /\ \A m \in 1..(Len(s) - 1) : RemoveAt(s, n)[m] = IF m < n THEN s[m] ELSE s[m + 1]
<1>1. PICK S : s \in Seq(S)
  BY DEF IsSeq
<1> DEFINE a == SubSeq(s, 1, n - 1)
           b == SubSeq(s, n + 1, Len(s))
<1>2. /\ a \in Seq(S) /\ Len(a) = n - 1 /\ \A m \in 1..(n - 1) : a[m] = s[m]
      /\ b \in Seq(S) /\ Len(b) = Len(s) - n /\ \A m \in 1..(Len(s) - n) : b[m] = s[n + m]
  BY <1>1
<1> HIDE DEF a, b
<1>3. /\ a \o b \in Seq(S) /\ Len(a \o b) = Len(s) - 1
      /\ \A m \in 1..(Len(s) - 1) : (a \o b)[m] = IF m <= Len(a) THEN a[m] ELSE b[m - Len(a)]
  <2>1. a \in Seq(S) /\ b \in Seq(S)
    BY <1>2
  <2>2. a \o b \in Seq(S) /\ Len(a \o b) = Len(a) + Len(b)
    BY <2>1, ConcatProperties
  <2>3. \A m \in 1..(Len(a) + Len(b)) : (a \o b)[m] = IF m <= Len(a) THEN a[m] ELSE b[m - Len(a)]
    BY <2>1, ConcatProperties
  <2>4. Len(a) + Len(b) = Len(s) - 1
    BY <1>1, <1>2
  <2> QED
    BY <2>2, <2>3, <2>4
<1>4. \A m \in 1..(Len(s) - 1) : (a \o b)[m] = IF m < n THEN s[m] ELSE s[m + 1]
  <2> SUFFICES ASSUME NEW m \in 1..(Len(s) - 1) PROVE (a \o b)[m] = IF m < n THEN s[m] ELSE s[m + 1]
    OBVIOUS
  <2>1. CASE m < n
    BY <1>1, <1>2, <1>3, <2>1
  <2>2. CASE ~(m < n)
    <3>1. m - Len(a) \in 1..(Len(s) - n) /\ n + (m - Len(a)) = m + 1
      BY <1>1, <1>2, <2>2
    <3>2. (a \o b)[m] = b[m - Len(a)]
      BY <1>1, <1>2, <1>3, <2>2
    <3>3. b[m - Len(a)] = s[n + (m - Len(a))]
      BY <1>2, <3>1
    <3> QED
      BY <2>2, <3>1, <3>2, <3>3
  <2> QED
    BY <2>1, <2>2
<1> QED
  BY <1>3, <1>4 DEF RemoveAt, a, b, IsSeq

LEMMA ShapedEvent ==
  ASSUME NEW r, Shaped(r), NEW e
  PROVE  LET q == [r EXCEPT !.event = e] IN Shaped(q) /\ q.event = e /\ q.seq = r.seq /\ q.signature = r.signature
<1>1. [r EXCEPT !.event = e] =
        [event |-> e, seq |-> r.seq, prev |-> r.prev, hash |-> r.hash, signature |-> r.signature]
  BY DEF Shaped
<1> QED
  BY <1>1 DEF Shaped

LEMMA ShapedSignature ==
  ASSUME NEW r, Shaped(r), NEW x
  PROVE  LET q == [r EXCEPT !.signature = x] IN Shaped(q) /\ q.event = r.event /\ q.seq = r.seq /\ q.signature = x
<1>1. [r EXCEPT !.signature = x] =
        [event |-> r.event, seq |-> r.seq, prev |-> r.prev, hash |-> r.hash, signature |-> x]
  BY DEF Shaped
<1> QED
  BY <1>1 DEF Shaped

-----------------------------------------------------------------------------
(* What the storage holds. *)

\* A record as the host writes it or an alteration leaves it, its countersignature one of S.
WellMade(r, S) == Shaped(r) /\ r.event \in Events /\ r.seq \in Nat /\ r.signature \in S

Chain(s, S) == IsSeq(s) /\ \A n \in 1..Len(s) : WellMade(s[n], S)

Refit(before, s, k) ==
  LET prev == IF k = 1 THEN GenesisHash ELSE before[k - 1].hash
  IN Append(before, [event |-> s[k].event, seq |-> k - 1, prev |-> prev,
                     hash |-> RecordHash(s[k].event, k - 1, prev), signature |-> s[k].signature])

\* A recomputation of the first m records.
IsFit(f, s, n, m) == f = [k \in 0..m |-> IF k < n THEN SubSeq(s, 1, k) ELSE Refit(f[k - 1], s, k)]

Fit(s, n) == CHOOSE f : f = [k \in 0..Len(s) |-> IF k < n THEN SubSeq(s, 1, k) ELSE Refit(f[k - 1], s, k)]

LEMMA RelinkedIsFit ==
  ASSUME NEW s, NEW n
  PROVE  Relinked(s, n) = Fit(s, n)[Len(s)]
BY DEF Relinked, Fit, Refit

\* Any chain can be recomputed from any of its records on.
LEMMA Fits ==
  ASSUME NEW s, NEW n \in Nat, 1 <= n, Len(s) \in Nat
  PROVE  IsFit(Fit(s, n), s, n, Len(s))
<1> DEFINE T == {m \in Nat : \E f : IsFit(f, s, n, m)}
<1>1. 0 \in T
  <2>1. IsFit([k \in 0..0 |-> SubSeq(s, 1, k)], s, n, 0)
    BY DEF IsFit
  <2> QED
    BY <2>1
<1>2. ASSUME NEW m \in T PROVE m + 1 \in T
  <2>1. PICK f : IsFit(f, s, n, m)
    OBVIOUS
  <2> DEFINE g == [k \in 0..(m + 1) |->
                     IF k = m + 1 THEN (IF k < n THEN SubSeq(s, 1, k) ELSE Refit(f[m], s, k)) ELSE f[k]]
  <2>2. ASSUME NEW k \in 0..(m + 1) PROVE g[k] = IF k < n THEN SubSeq(s, 1, k) ELSE Refit(g[k - 1], s, k)
    <3>1. m \in Nat
      OBVIOUS
    <3>2. CASE k = m + 1
      <4>1. k - 1 = m /\ g[m] = f[m]
        BY <3>1, <3>2
      <4> QED
        BY <3>2, <4>1
    <3>3. CASE k # m + 1
      <4>1. k \in 0..m /\ g[k] = f[k] /\ (k = 0 \/ g[k - 1] = f[k - 1])
        BY <3>1, <3>3
      <4>2. f[k] = IF k < n THEN SubSeq(s, 1, k) ELSE Refit(f[k - 1], s, k)
        BY <2>1, <4>1 DEF IsFit
      <4> QED
        BY <4>1, <4>2
    <3> QED
      BY <3>2, <3>3
  <2>3. IsFit(g, s, n, m + 1)
    <3>1. g = [k \in 0..(m + 1) |-> g[k]]
      OBVIOUS
    <3> HIDE DEF g
    <3> QED
      BY <2>2, <3>1 DEF IsFit
  <2> QED
    BY <2>3
<1>3. T = Nat
  <2> HIDE DEF T
  <2>1. T \in SUBSET Nat
    BY DEF T
  <2> QED
    BY <1>1, <1>2, <2>1, NaturalInduction
<1>4. \E f : IsFit(f, s, n, Len(s))
  BY <1>3
<1> QED
  BY <1>4 DEF IsFit, Fit

LEMMA SeqFirst ==
  ASSUME NEW s, IsSeq(s), NEW k \in 0..Len(s)
  PROVE  /\ IsSeq(SubSeq(s, 1, k)) /\ Len(SubSeq(s, 1, k)) = k
         /\ \A m \in 1..k : SubSeq(s, 1, k)[m] = s[m]
<1>1. PICK S : s \in Seq(S)
  BY DEF IsSeq
<1>2. SubSeq(s, 1, k) \in Seq(S) /\ Len(SubSeq(s, 1, k)) = k /\ \A m \in 1..k : SubSeq(s, 1, k)[m] = s[m]
  BY <1>1
<1> QED
  BY <1>2 DEF IsSeq

\* Recomputing keeps every record's event and countersignature.
LEMMA RelinkedChain ==
  ASSUME NEW s, NEW S, Chain(s, S), NEW n \in 1..Len(s)
  PROVE  Chain(Relinked(s, n), S)
<1>1. IsSeq(s) /\ Len(s) \in Nat
  BY SeqLength DEF Chain
<1> DEFINE fit == Fit(s, n)
           T == {k \in 0..Len(s) : Chain(fit[k], S) /\ Len(fit[k]) = k}
<1>2. \A k \in 0..Len(s) : fit[k] = IF k < n THEN SubSeq(s, 1, k) ELSE Refit(fit[k - 1], s, k)
  <2>1. n \in Nat /\ 1 <= n
    BY <1>1
  <2>2. IsFit(fit, s, n, Len(s))
    BY <1>1, <2>1, Fits
  <2> HIDE DEF fit
  <2> QED
    BY <2>2 DEF IsFit
<1>3. ASSUME NEW k \in 0..Len(s), k < n PROVE k \in T
  <2>1. fit[k] = SubSeq(s, 1, k)
    BY <1>2, <1>3
  <2>2. IsSeq(fit[k]) /\ Len(fit[k]) = k /\ \A m \in 1..k : fit[k][m] = s[m]
    BY <1>1, <2>1, SeqFirst
  <2>3. Chain(fit[k], S)
    <3> HIDE DEF fit
    <3> QED
      BY <1>1, <2>2 DEF Chain
  <2> QED
    BY <2>2, <2>3
<1>4. ASSUME NEW k \in T, k < Len(s) PROVE k + 1 \in T
  <2>1. CASE k + 1 < n
    BY <1>3, <1>4, <2>1
  <2>2. CASE ~(k + 1 < n)
    <3> DEFINE prev == IF k + 1 = 1 THEN GenesisHash ELSE fit[k][k].hash
               r == [event |-> s[k + 1].event, seq |-> k, prev |-> prev,
                     hash |-> RecordHash(s[k + 1].event, k, prev), signature |-> s[k + 1].signature]
    <3>1. fit[k + 1] = Refit(fit[k], s, k + 1)
      BY <1>1, <1>2, <1>4, <2>2
    <3>2. (k + 1) - 1 = k /\ k + 1 \in 1..Len(s) /\ k \in Nat
      BY <1>1, <1>4
    <3>3. fit[k + 1] = Append(fit[k], r)
      <4> HIDE DEF fit
      <4> QED
        BY <3>1, <3>2 DEF Refit
    <3>4. WellMade(r, S)
      <4>1. WellMade(s[k + 1], S)
        BY <3>2 DEF Chain
      <4> HIDE DEF prev
      <4> QED
        BY <3>2, <4>1 DEF WellMade, Shaped
    <3> HIDE DEF r, fit
    <3>5. IsSeq(fit[k]) /\ Len(fit[k]) = k /\ \A m \in 1..k : WellMade(fit[k][m], S)
      BY DEF Chain
    <3>6. /\ IsSeq(fit[k + 1]) /\ Len(fit[k + 1]) = k + 1
          /\ \A m \in 1..k : fit[k + 1][m] = fit[k][m]
          /\ fit[k + 1][k + 1] = r
      BY <3>3, <3>5, SeqAppend
    <3>7. \A m \in 1..(k + 1) : WellMade(fit[k + 1][m], S)
      BY <3>2, <3>4, <3>5, <3>6
    <3> QED
      BY <3>2, <3>6, <3>7 DEF Chain
  <2> QED
    BY <2>1, <2>2
<1>5. T = 0..Len(s)
  <2> HIDE DEF T
  <2>1. T \in SUBSET (0..Len(s))
    BY DEF T
  <2>2. 0 \in T
    BY <1>1, <1>3
  <2> QED
    BY <1>1, <1>4, <2>1, <2>2, BoundedInduction
<1>6. Len(s) \in T
  <2> HIDE DEF T
  <2> QED
    BY <1>1, <1>5
<1> QED
  BY <1>6, RelinkedIsFit

-----------------------------------------------------------------------------
(* What the host seals. *)

\* The link that record n + 1 of a sealed chain carries.
SealedLink(s, n) == IF n = 0 THEN GenesisHash ELSE s[n].hash

\* Record number n of a chain, sealed for event e.
SealedFor(e, s, n) ==
  LET prev == SealedLink(s, n - 1)
      hash == RecordHash(e, n - 1, prev)
  IN [event |-> e, seq |-> n - 1, prev |-> prev, hash |-> hash, signature |-> <<n - 1, prev, hash>>]

SealedWell(s) ==
  /\ IsSeq(s)
  /\ \A n \in 1..Len(s) : \E e \in Events : s[n] = SealedFor(e, s, n) /\ e.canonical

NumberedOnce(s) == \A m, n \in 1..Len(s) : m # n => s[m].event.sseq # s[n].event.sseq

\* An outcome has its attempt before it, unless it is a refusal.
AttemptedFirst(s) ==
  \A n \in 1..Len(s) :
    \/ IsAttempt(s[n].event)
    \/ s[n].event.outcome = "aborted"
    \/ \E m \in 1..(n - 1) : IsAttempt(s[m].event) /\ s[m].event.id = s[n].event.id

SignaturesOf(s) == {NoSignature, PartOfOne} \union {s[m].signature : m \in 1..Len(s)}

LEMMA SealedFields ==
  ASSUME NEW s, SealedWell(s), NEW n \in 1..Len(s)
  PROVE  /\ s[n].event \in Events /\ s[n].event.canonical /\ s[n].seq = n - 1
         /\ s[n].prev = SealedLink(s, n - 1)
         /\ s[n].hash = RecordHash(s[n].event, n - 1, SealedLink(s, n - 1))
         /\ s[n].signature = <<n - 1, SealedLink(s, n - 1), s[n].hash>>
         /\ Shaped(s[n])
<1>1. PICK e \in Events : s[n] = SealedFor(e, s, n) /\ e.canonical
  BY DEF SealedWell
<1> QED
  BY <1>1 DEF SealedFor, Shaped

\* What is sealed is a chain of well made records.
LEMMA SealedChain ==
  ASSUME NEW s, SealedWell(s)
  PROVE  Chain(s, SignaturesOf(s))
<1>1. IsSeq(s) /\ Len(s) \in Nat
  BY SeqLength DEF SealedWell
<1>2. ASSUME NEW n \in 1..Len(s) PROVE WellMade(s[n], SignaturesOf(s))
  <2>1. s[n].event \in Events /\ s[n].seq = n - 1 /\ Shaped(s[n])
    BY SealedFields
  <2>2. n - 1 \in Nat
    BY <1>1
  <2> QED
    BY <2>1, <2>2 DEF WellMade, SignaturesOf
<1> QED
  BY <1>1, <1>2 DEF Chain

\* A chain sealed as Seal does stays sealed well.
LEMMA SealedExtends ==
  ASSUME NEW s, SealedWell(s), NEW e \in Events, e.canonical, NEW t,
         t = Append(s, SealedFor(e, s, Len(s) + 1))
  PROVE  /\ SealedWell(t) /\ Len(t) = Len(s) + 1 /\ \A n \in 1..Len(s) : t[n] = s[n]
         /\ t[Len(s) + 1].event = e
<1> DEFINE N == Len(s)
           r == SealedFor(e, s, N + 1)
<1>1. IsSeq(s) /\ N \in Nat
  BY SeqLength DEF SealedWell
<1>2. /\ IsSeq(t) /\ Len(t) = N + 1 /\ \A n \in 1..N : t[n] = s[n]
      /\ t[N + 1] = r
  <2> HIDE DEF r
  <2> QED
    BY <1>1, SeqAppend DEF r
<1>3. \A n \in 0..N : SealedLink(t, n) = SealedLink(s, n)
  BY <1>1, <1>2 DEF SealedLink
<1>4. ASSUME NEW n \in 1..(N + 1), NEW x PROVE SealedFor(x, t, n) = SealedFor(x, s, n)
  <2>1. n - 1 \in 0..N
    BY <1>1
  <2>2. SealedLink(t, n - 1) = SealedLink(s, n - 1)
    BY <1>3, <2>1
  <2> QED
    BY <2>2 DEF SealedFor
<1>5. \A n \in 1..(N + 1) : \E x \in Events : t[n] = SealedFor(x, t, n) /\ x.canonical
  <2> SUFFICES ASSUME NEW n \in 1..(N + 1) PROVE \E x \in Events : t[n] = SealedFor(x, t, n) /\ x.canonical
    OBVIOUS
  <2>1. CASE n = N + 1
    <3>1. t[n] = SealedFor(e, t, n)
      BY <1>2, <1>4, <2>1
    <3> QED
      BY <3>1
  <2>2. CASE n # N + 1
    <3>1. n \in 1..N
      BY <1>1, <2>2
    <3>2. PICK x \in Events : s[n] = SealedFor(x, s, n) /\ x.canonical
      BY <3>1 DEF SealedWell
    <3>3. t[n] = SealedFor(x, t, n)
      BY <1>2, <1>4, <3>1, <3>2
    <3> QED
      BY <3>2, <3>3
  <2> QED
    BY <2>1, <2>2
<1>6. r.event = e
  BY DEF SealedFor
<1> QED
  BY <1>2, <1>5, <1>6 DEF SealedWell

-----------------------------------------------------------------------------
(* The inductive invariant. *)

ChainInv ==
  /\ SealedWell(sealed) /\ NumberedOnce(sealed) /\ AttemptedFirst(sealed)
  /\ Len(sealed) <= MaxRecords
  /\ Chain(records, SignaturesOf(sealed))
  /\ alterations \in -1..MaxAlterations
  /\ alterations <= 0 => records = sealed

LEMMA ChainInvInit == ASSUME Init PROVE ChainInv
<1>1. IsSeq(<<>>) /\ Len(<<>>) = 0
  <2>1. <<>> \in Seq({}) /\ Len(<<>>) = 0
    OBVIOUS
  <2> QED
    BY <2>1 DEF IsSeq
<1>2. SealedWell(sealed) /\ NumberedOnce(sealed) /\ AttemptedFirst(sealed)
  BY <1>1 DEF Init, SealedWell, NumberedOnce, AttemptedFirst
<1>3. Chain(records, SignaturesOf(sealed))
  BY <1>1 DEF Init, Chain
<1> QED
  BY <1>1, <1>2, <1>3, VerifyAssumption DEF Init, ChainInv

LEMMA ChainInvSeal ==
  ASSUME ChainInv, NEW e \in Events, Seal(e)
  PROVE  ChainInv'
<1> DEFINE N == Len(sealed)
<1>1. IsSeq(sealed) /\ N \in Nat /\ DOMAIN sealed = 1..N
  BY SeqLength DEF ChainInv, SealedWell
<1>2. sealed = <<>> <=> N = 0
  <2>1. PICK S : sealed \in Seq(S)
    BY <1>1 DEF IsSeq
  <2> QED
    BY <2>1, EmptySeq
<1>3. sealed' = Append(sealed, SealedFor(e, sealed, N + 1))
  <2>1. (IF sealed = <<>> THEN GenesisHash ELSE Last(sealed).hash) = SealedLink(sealed, N)
    BY <1>2 DEF SealedLink, Last
  <2>2. (N + 1) - 1 = N
    BY <1>1
  <2>3. PICK prev : prev = SealedLink(sealed, N)
    OBVIOUS
  <2>4. SealedFor(e, sealed, N + 1) =
          [event |-> e, seq |-> N, prev |-> prev, hash |-> RecordHash(e, N, prev),
           signature |-> <<N, prev, RecordHash(e, N, prev)>>]
    BY <2>2, <2>3 DEF SealedFor
  <2> QED
    BY <2>1, <2>3, <2>4 DEF Seal, Payload
<1>4. /\ SealedWell(sealed') /\ Len(sealed') = N + 1 /\ \A n \in 1..N : sealed'[n] = sealed[n]
      /\ sealed'[N + 1].event = e
  <2>1. e.canonical /\ SealedWell(sealed)
    BY DEF Seal, Conforming, ChainInv
  <2>2. PICK t : t = Append(sealed, SealedFor(e, sealed, N + 1))
    OBVIOUS
  <2>3. /\ SealedWell(t) /\ Len(t) = N + 1 /\ \A n \in 1..N : t[n] = sealed[n]
        /\ t[N + 1].event = e
    <3>1. SealedWell(sealed) /\ e.canonical /\ t = Append(sealed, SealedFor(e, sealed, Len(sealed) + 1))
      BY <2>1, <2>2
    <3> HIDE DEF N
    <3>2. /\ SealedWell(t) /\ Len(t) = Len(sealed) + 1 /\ \A n \in 1..Len(sealed) : t[n] = sealed[n]
          /\ t[Len(sealed) + 1].event = e
      <4>1. \A x \in Events : x.canonical /\ t = Append(sealed, SealedFor(x, sealed, Len(sealed) + 1)) =>
              SealedWell(t)
        BY <3>1, SealedExtends
      <4>2. \A x \in Events : x.canonical /\ t = Append(sealed, SealedFor(x, sealed, Len(sealed) + 1)) =>
              Len(t) = Len(sealed) + 1
        BY <3>1, SealedExtends
      <4>3. \A x \in Events : x.canonical /\ t = Append(sealed, SealedFor(x, sealed, Len(sealed) + 1)) =>
              \A n \in 1..Len(sealed) : t[n] = sealed[n]
        BY <3>1, SealedExtends
      <4>4. \A x \in Events : x.canonical /\ t = Append(sealed, SealedFor(x, sealed, Len(sealed) + 1)) =>
              t[Len(sealed) + 1].event = x
        BY <3>1, SealedExtends
      <4> QED
        BY <3>1, <4>1, <4>2, <4>3, <4>4
    <3> QED
      BY <3>2 DEF N
  <2>4. sealed' = t
    BY <1>3, <2>2
  <2> QED
    BY <2>3, <2>4
<1>5. /\ \A n \in 1..N : /\ sealed[n].event.sseq # e.sseq
                         /\ sealed[n].event.id = e.id => IsAttempt(sealed[n].event)
      /\ IsAttempt(e) \/ e.outcome = "aborted" \/ \E n \in 1..N : sealed[n].event.id = e.id
  BY <1>1 DEF Seal, Conforming
<1>6. NumberedOnce(sealed')
  <2> SUFFICES ASSUME NEW m \in 1..(N + 1), NEW n \in 1..(N + 1), m # n
               PROVE  sealed'[m].event.sseq # sealed'[n].event.sseq
    BY <1>4 DEF NumberedOnce
  <2>1. CASE m = N + 1
    <3>1. n \in 1..N
      BY <1>1, <2>1
    <3> QED
      BY <1>4, <1>5, <2>1, <3>1
  <2>2. CASE n = N + 1
    <3>1. m \in 1..N
      BY <1>1, <2>2
    <3> QED
      BY <1>4, <1>5, <2>2, <3>1
  <2>3. CASE m # N + 1 /\ n # N + 1
    <3>1. m \in 1..N /\ n \in 1..N
      BY <1>1, <2>3
    <3> QED
      BY <1>4, <3>1 DEF ChainInv, NumberedOnce
  <2> QED
    BY <2>1, <2>2, <2>3
<1>7. AttemptedFirst(sealed')
  <2> SUFFICES ASSUME NEW n \in 1..(N + 1), ~IsAttempt(sealed'[n].event), sealed'[n].event.outcome # "aborted"
               PROVE  \E m \in 1..(n - 1) : IsAttempt(sealed'[m].event) /\ sealed'[m].event.id = sealed'[n].event.id
    BY <1>4 DEF AttemptedFirst
  <2>1. CASE n = N + 1
    <3>1. PICK m \in 1..N : sealed[m].event.id = e.id
      BY <1>4, <1>5, <2>1
    <3>2. m \in 1..(n - 1)
      BY <1>1, <2>1
    <3> QED
      BY <1>4, <1>5, <2>1, <3>1, <3>2
  <2>2. CASE n # N + 1
    <3>1. n \in 1..N
      BY <1>1, <2>2
    <3>2. sealed'[n] = sealed[n]
      BY <1>4, <3>1
    <3>3. PICK m \in 1..(n - 1) : IsAttempt(sealed[m].event) /\ sealed[m].event.id = sealed[n].event.id
      BY <3>1, <3>2 DEF ChainInv, AttemptedFirst
    <3>4. m \in 1..N
      BY <1>1, <3>1
    <3>5. sealed'[m] = sealed[m]
      BY <1>4, <3>4
    <3> QED
      BY <3>2, <3>3, <3>5
  <2> QED
    BY <2>1, <2>2
<1>8. records' = sealed' /\ alterations' = alterations /\ Len(sealed) < MaxRecords
  BY DEF Seal
<1>9. Chain(records', SignaturesOf(sealed'))
  BY <1>4, <1>8, SealedChain
<1> QED
  BY <1>1, <1>4, <1>6, <1>7, <1>8, <1>9, VerifyAssumption DEF ChainInv

\* Whatever is done to the storage, its records stay well made and carry a countersignature the host made, or none.
LEMMA ChainInvAltered ==
  ASSUME ChainInv, Altering, Chain(records', SignaturesOf(sealed))
  PROVE  ChainInv'
<1>1. /\ sealed' = sealed /\ alterations' = alterations + 1
      /\ alterations >= 0 /\ alterations < MaxAlterations /\ alterations \in -1..MaxAlterations
  BY DEF Altering, ChainInv
<1>2. alterations' \in -1..MaxAlterations /\ ~(alterations' <= 0)
  BY <1>1, VerifyAssumption
<1> QED
  BY <1>1, <1>2 DEF ChainInv

LEMMA ChainInvAlter ==
  ASSUME ChainInv, Alter
  PROVE  ChainInv'
<1> DEFINE S == SignaturesOf(sealed)
           N == Len(records)
<1>1. IsSeq(records) /\ N \in Nat /\ DOMAIN records = 1..N
  BY SeqLength DEF ChainInv, Chain
<1>2. \A k \in 1..N : WellMade(records[k], S)
  BY DEF ChainInv, Chain
<1>3. PICK n \in 1..N :
        \/ \E e \in Events : ReplaceEvent(n, e)
        \/ \E m \in 1..N : MoveSignature(n, m)
        \/ DropRecord(n) \/ SwapRecords(n) \/ StripSignature(n) \/ Relink(n)
  BY <1>1 DEF Alter
<1> HIDE DEF S
<1>4. ASSUME NEW r, WellMade(r, S), Altering, records' = [records EXCEPT ![n] = r] PROVE ChainInv'
  <2>1. PICK t : t = [records EXCEPT ![n] = r]
    OBVIOUS
  <2>2. IsSeq(t) /\ Len(t) = N /\ t[n] = r /\ \A m \in 1..N : m # n => t[m] = records[m]
    BY <1>1, <2>1, SeqExcept
  <2>3. Chain(t, S)
    BY <1>2, <1>4, <2>2 DEF Chain
  <2> QED
    BY <1>4, <2>1, <2>3, ChainInvAltered DEF S
<1>5. CASE \E e \in Events : ReplaceEvent(n, e)
  <2>1. PICK e \in Events : ReplaceEvent(n, e)
    BY <1>5
  <2>2. PICK r : r = [records[n] EXCEPT !.event = e]
    OBVIOUS
  <2>3. Shaped(r) /\ r.event = e /\ r.seq = records[n].seq /\ r.signature = records[n].signature
    BY <1>2, <2>2, ShapedEvent DEF WellMade
  <2>4. WellMade(r, S)
    BY <1>2, <2>3 DEF WellMade
  <2>5. records' = [records EXCEPT ![n] = r] /\ Altering
    BY <2>1, <2>2 DEF ReplaceEvent
  <2> QED
    BY <1>4, <2>4, <2>5
<1>6. ASSUME NEW x \in S, Altering, records' = [records EXCEPT ![n].signature = x] PROVE ChainInv'
  <2>1. PICK r : r = [records[n] EXCEPT !.signature = x]
    OBVIOUS
  <2>2. Shaped(r) /\ r.event = records[n].event /\ r.seq = records[n].seq /\ r.signature = x
    BY <1>2, <2>1, ShapedSignature DEF WellMade
  <2>3. WellMade(r, S)
    BY <1>2, <1>6, <2>2 DEF WellMade
  <2>4. records' = [records EXCEPT ![n] = r]
    BY <1>6, <2>1
  <2> QED
    BY <1>4, <1>6, <2>3, <2>4
<1>7. CASE \E m \in 1..N : MoveSignature(n, m)
  <2>1. PICK m \in 1..N : MoveSignature(n, m)
    BY <1>7
  <2>2. records[m].signature \in S
    BY <1>2 DEF WellMade
  <2> QED
    BY <1>6, <2>1, <2>2 DEF MoveSignature
<1>8. CASE StripSignature(n)
  <2>1. PICK x \in {NoSignature, PartOfOne} : Altering /\ records' = [records EXCEPT ![n].signature = x]
    BY <1>8 DEF StripSignature
  <2>2. x \in S
    BY <2>1 DEF S, SignaturesOf
  <2> QED
    BY <1>6, <2>1, <2>2
<1>9. CASE DropRecord(n)
  <2>1. PICK t : t = RemoveAt(records, n)
    OBVIOUS
  <2>2. /\ IsSeq(t) /\ Len(t) = N - 1
        /\ \A m \in 1..(N - 1) : t[m] = IF m < n THEN records[m] ELSE records[m + 1]
    BY <1>1, <2>1, SeqRemove
  <2>3. \A m \in 1..(N - 1) : m \in 1..N /\ m + 1 \in 1..N
    BY <1>1
  <2>4. Chain(t, S)
    BY <1>2, <2>2, <2>3 DEF Chain
  <2>5. Altering /\ records' = t
    BY <1>9, <2>1 DEF DropRecord
  <2> QED
    BY <2>4, <2>5, ChainInvAltered DEF S
<1>10. CASE SwapRecords(n)
  <2>1. n + 1 \in 1..N /\ Altering
    BY <1>1, <1>10 DEF SwapRecords
  <2> PICK a, b : a = records[n + 1] /\ b = records[n]
    OBVIOUS
  <2>2. PICK s : s = [records EXCEPT ![n] = a]
    OBVIOUS
  <2>3. IsSeq(s) /\ Len(s) = N /\ \A m \in 1..N : WellMade(s[m], S)
    <3>1. IsSeq(s) /\ Len(s) = N /\ s[n] = a /\ \A m \in 1..N : m # n => s[m] = records[m]
      BY <1>1, <2>2, SeqExcept, ZenonT(30)
    <3> QED
      BY <1>2, <2>1, <3>1
  <2>4. PICK t : t = [s EXCEPT ![n + 1] = b]
    OBVIOUS
  <2>5. IsSeq(t) /\ Len(t) = N /\ t[n + 1] = b /\ \A m \in 1..N : m # n + 1 => t[m] = s[m]
    <3>1. PICK k \in 1..N : k = n + 1
      BY <2>1
    <3>2. IsSeq(s) /\ k \in 1..Len(s) /\ t = [s EXCEPT ![k] = b]
      BY <2>3, <2>4, <3>1
    <3>3. IsSeq(t) /\ Len(t) = Len(s)
      BY <3>2, SeqExcept, ZenonT(30)
    <3>4. t[k] = b
      BY <3>2, SeqExcept
    <3>5. \A m \in 1..Len(s) : m # k => t[m] = s[m]
      BY <3>2, SeqExcept
    <3> QED
      BY <2>3, <3>1, <3>3, <3>4, <3>5
  <2>6. Chain(t, S)
    BY <1>2, <2>3, <2>5 DEF Chain
  <2>7. records' = t
    BY <1>10, <2>2, <2>4 DEF SwapRecords
  <2> QED
    BY <2>1, <2>6, <2>7, ChainInvAltered DEF S
<1>11. CASE Relink(n)
  <2>1. Chain(records, S)
    BY DEF ChainInv, S
  <2>2. PICK t : t = Relinked(records, n)
    OBVIOUS
  <2>3. Chain(t, S)
    BY <2>1, <2>2, RelinkedChain
  <2>4. Altering /\ records' = t
    BY <1>11, <2>2 DEF Relink
  <2> QED
    BY <2>3, <2>4, ChainInvAltered DEF S
<1> QED
  BY <1>3, <1>5, <1>7, <1>8, <1>9, <1>10, <1>11

LEMMA ChainInvNext ==
  ASSUME ChainInv, [Next]_vars
  PROVE  ChainInv'
<1>1. CASE \E e \in Events : Seal(e)
  BY <1>1, ChainInvSeal
<1>2. CASE Audit
  BY <1>2, VerifyAssumption DEF Audit, ChainInv
<1>3. CASE Alter
  BY <1>3, ChainInvAlter
<1>4. CASE UNCHANGED vars
  BY <1>4 DEF vars, ChainInv
<1> QED
  BY <1>1, <1>2, <1>3, <1>4 DEF Next

LEMMA ChainInvCorrect == Spec => []ChainInv
<1>1. Init => ChainInv
  BY ChainInvInit
<1>2. ChainInv /\ [Next]_vars => ChainInv'
  BY ChainInvNext
<1> QED
  BY <1>1, <1>2, PTL DEF Spec

\* TypeOK: the storage holds records of the events there are, and before any alteration the chain as sealed.
THEOREM VerifyTypeCorrect == Spec => []TypeOK
<1>1. ASSUME ChainInv PROVE TypeOK
  <2>1. DOMAIN records = 1..Len(records)
    BY <1>1, SeqLength DEF ChainInv, Chain
  <2> QED
    BY <1>1, <2>1 DEF ChainInv, Chain, WellMade, TypeOK
<1> QED
  BY <1>1, ChainInvCorrect, PTL

-----------------------------------------------------------------------------
(* No false alarm. *)

\* Over a sealed chain the pass recomputes the links the records carry.
LEMMA SealedLinks ==
  ASSUME NEW s, SealedWell(s), NEW required
  PROVE  \A n \in 0..Len(s) : LinkAt(s, required, n) = SealedLink(s, n)
<1> DEFINE T == {n \in 0..Len(s) : LinkAt(s, required, n) = SealedLink(s, n)}
<1>1. Len(s) \in Nat
  BY SeqLength DEF SealedWell
<1>2. 0 \in T
  BY <1>1, PassSteps DEF LinkAt, SealedLink, Start
<1>3. ASSUME NEW n \in T, n < Len(s) PROVE n + 1 \in T
  <2>1. PICK k \in 1..Len(s) : k = n + 1 /\ k - 1 = n
    BY <1>1, <1>3
  <2>2. LinkAt(s, required, k) = LinkAfter(s[k], LinkAt(s, required, k - 1))
    BY <1>1, PassSteps, PassFinds DEF LinkAt
  <2>3. s[k].event.canonical /\ s[k].seq = k - 1 /\ s[k].hash = RecordHash(s[k].event, k - 1, SealedLink(s, k - 1))
    BY SealedFields
  <2>4. LinkAt(s, required, k - 1) = SealedLink(s, k - 1)
    BY <2>1
  <2>5. LinkAt(s, required, k) = s[k].hash
    BY <2>2, <2>3, <2>4 DEF LinkAfter, Recomputed
  <2>6. k # 0 /\ k \in 0..Len(s)
    BY <1>1
  <2> QED
    BY <2>1, <2>5, <2>6 DEF SealedLink
<1>4. T = 0..Len(s)
  <2> HIDE DEF T
  <2>1. T \in SUBSET (0..Len(s))
    BY DEF T
  <2> QED
    BY <1>1, <1>2, <1>3, <2>1, BoundedInduction
<1> QED
  BY <1>4

\* After n records of a sealed chain the pass has seen their attempts and values, and found nothing.
SealedPass(acc, s, n) ==
  /\ acc.attempted = {s[m].event.id : m \in {k \in 1..n : IsAttempt(s[k].event)}}
  /\ acc.numbered = {s[m].event.sseq : m \in 1..n}
  /\ acc.issues = {}

LEMMA SealedFinds ==
  ASSUME NEW s, SealedWell(s), NumberedOnce(s), AttemptedFirst(s), NEW n \in 1..Len(s), NEW required,
         NEW acc, acc.next = n, acc.link = SealedLink(s, n - 1), SealedPass(acc, s, n - 1)
  PROVE  Found(s[n], acc.next, acc.link, acc.attempted, acc.numbered, required) = {}
<1>1. Len(s) \in Nat
  BY SeqLength DEF SealedWell
<1> DEFINE r == s[n]
<1>2. /\ r.event.canonical /\ r.seq = n - 1 /\ r.prev = SealedLink(s, n - 1)
      /\ r.hash = RecordHash(r.event, n - 1, SealedLink(s, n - 1))
      /\ r.signature = <<n - 1, SealedLink(s, n - 1), r.hash>>
  BY SealedFields
<1>3. PositionIssues(r, acc.next) = {}
  BY <1>2 DEF PositionIssues
<1>4. HashIssues(r, acc.link) = {}
  BY <1>2 DEF HashIssues, Recomputed
<1>5. CorrelationIssues(r, acc.attempted) = {}
  <2>1. CASE IsAttempt(r.event) \/ r.event.outcome = "aborted"
    BY <2>1 DEF CorrelationIssues
  <2>2. CASE \E m \in 1..(n - 1) : IsAttempt(s[m].event) /\ s[m].event.id = r.event.id
    <3>1. r.event.id \in acc.attempted
      BY <2>2 DEF SealedPass
    <3> QED
      BY <3>1 DEF CorrelationIssues
  <2> QED
    BY <2>1, <2>2 DEF AttemptedFirst
<1>6. NumberIssues(r, acc.numbered) = {}
  <2>1. ASSUME NEW m \in 1..(n - 1) PROVE s[m].event.sseq # r.event.sseq
    <3>1. m \in 1..Len(s) /\ m # n
      BY <1>1
    <3> QED
      BY <3>1 DEF NumberedOnce
  <2>2. r.event.sseq \notin acc.numbered
    BY <2>1 DEF SealedPass
  <2> QED
    BY <2>2 DEF NumberIssues
<1>7. CountersignIssues(r, required) = {}
  <2>1. r.signature = Payload(r)
    BY <1>2 DEF Payload
  <2>2. PICK a, b, c : r.signature = <<a, b, c>>
    BY <1>2
  <2>3. <<a, b, c>> # <<>> /\ <<a, b, c>> # <<"part">>
    OBVIOUS
  <2> QED
    BY <2>1, <2>2, <2>3 DEF CountersignIssues, NoSignature, PartOfOne
<1> QED
  BY <1>3, <1>4, <1>5, <1>6, <1>7 DEF Found

LEMMA SealedPasses ==
  ASSUME NEW s, SealedWell(s), NumberedOnce(s), AttemptedFirst(s), NEW required
  PROVE  Passed(s, required).issues = {}
<1>1. Len(s) \in Nat
  BY SeqLength DEF SealedWell
<1> DEFINE after == After(s, required)
           T == {n \in 0..Len(s) : SealedPass(after[n], s, n)}
<1>2. 0 \in T
  BY <1>1, PassSteps DEF Start, SealedPass
<1>3. ASSUME NEW n \in T, n < Len(s) PROVE n + 1 \in T
  <2>1. PICK k \in 1..Len(s) : k = n + 1 /\ k - 1 = n
    BY <1>1, <1>3
  <2>2. PICK acc : acc = after[n]
    OBVIOUS
  <2>3. acc.next = k /\ after[k] = Pass(acc, s[k], required)
    BY <1>1, <2>1, <2>2, PassSteps
  <2>4. acc.link = SealedLink(s, k - 1)
    BY <1>1, <2>1, <2>2, SealedLinks DEF LinkAt
  <2>5. SealedPass(acc, s, k - 1)
    BY <2>1, <2>2
  <2>6. Found(s[k], acc.next, acc.link, acc.attempted, acc.numbered, required) = {}
    BY <2>3, <2>4, <2>5, SealedFinds
  <2>7. Pass(acc, s[k], required).issues = {}
    <3>1. acc.issues = {}
      BY <2>5 DEF SealedPass
    <3>2. Pass(acc, s[k], required).issues =
            acc.issues \union {<<acc.next, kind>> : kind \in Found(s[k], acc.next, acc.link, acc.attempted, acc.numbered, required)}
      BY PassFinds
    <3> QED
      BY <2>6, <3>1, <3>2
  <2>8. Pass(acc, s[k], required).numbered = {s[m].event.sseq : m \in 1..k}
    <3>1. Pass(acc, s[k], required).numbered = acc.numbered \union {s[k].event.sseq}
      BY DEF Pass
    <3>2. 1..k = 1..(k - 1) \union {k}
      BY <1>1
    <3> QED
      BY <2>5, <3>1, <3>2 DEF SealedPass
  <2>9. Pass(acc, s[k], required).attempted = {s[m].event.id : m \in {j \in 1..k : IsAttempt(s[j].event)}}
    <3>1. Pass(acc, s[k], required).attempted =
            acc.attempted \union (IF IsAttempt(s[k].event) THEN {s[k].event.id} ELSE {})
      BY DEF Pass
    <3>2. 1..k = 1..(k - 1) \union {k}
      BY <1>1
    <3>3. {j \in 1..k : IsAttempt(s[j].event)} =
            {j \in 1..(k - 1) : IsAttempt(s[j].event)} \union (IF IsAttempt(s[k].event) THEN {k} ELSE {})
      BY <3>2
    <3> QED
      BY <2>5, <3>1, <3>3 DEF SealedPass
  <2>10. SealedPass(after[k], s, k)
    BY <2>3, <2>7, <2>8, <2>9 DEF SealedPass
  <2>11. k \in 0..Len(s)
    BY <1>1
  <2> QED
    BY <2>1, <2>10, <2>11
<1>4. T = 0..Len(s)
  <2> HIDE DEF T
  <2>1. T \in SUBSET (0..Len(s))
    BY DEF T
  <2> QED
    BY <1>1, <1>2, <1>3, <2>1, BoundedInduction
<1>5. after[Len(s)].issues = {}
  <2>1. Len(s) \in T
    <3> HIDE DEF T
    <3> QED
      BY <1>1, <1>4
  <2> QED
    BY <2>1 DEF SealedPass
<1> QED
  BY <1>5, PassedIsAfter

-----------------------------------------------------------------------------
(* No alteration passes an anchored digest. *)

\* A hash names what it covers.
LEMMA HashCovers ==
  ASSUME NEW e, NEW i, NEW p, NEW f, NEW j, NEW q, RecordHash(e, i, p) = RecordHash(f, j, q)
  PROVE  e = f /\ i = j /\ p = q
BY DEF RecordHash

LEMMA HashIsNotGenesis == ASSUME NEW e, NEW i, NEW p PROVE RecordHash(e, i, p) # GenesisHash
BY DEF RecordHash, GenesisHash

\* A verified chain whose last link is a sealed chain's has its length, and its links all the way down.
LEMMA SameDigestSameLinks ==
  ASSUME NEW s, SealedWell(s), NEW t, IsSeq(t), NEW required, Ok(t, required),
         LinkAt(t, required, Len(t)) = SealedLink(s, Len(s))
  PROVE  /\ Len(t) = Len(s)
         /\ \A n \in 0..Len(t) : LinkAt(t, required, n) = SealedLink(s, n)
<1> DEFINE N == Len(t)
           link(n) == LinkAt(t, required, n)
<1>1. N \in Nat /\ Len(s) \in Nat
  BY SeqLength DEF SealedWell
<1>2. \A n \in 1..N : /\ link(n) = RecordHash(t[n].event, n - 1, link(n - 1))
                      /\ t[n].seq = n - 1
  BY <1>1, OkRecord
<1>3. \A n \in 1..Len(s) : SealedLink(s, n) = RecordHash(s[n].event, n - 1, SealedLink(s, n - 1))
  <2> SUFFICES ASSUME NEW n \in 1..Len(s)
               PROVE  SealedLink(s, n) = RecordHash(s[n].event, n - 1, SealedLink(s, n - 1))
    OBVIOUS
  <2>1. SealedLink(s, n) = s[n].hash
    BY <1>1 DEF SealedLink
  <2> QED
    BY <2>1, SealedFields
<1>4. link(0) = GenesisHash /\ SealedLink(s, 0) = GenesisHash
  BY <1>1, PassSteps DEF LinkAt, Start, SealedLink
<1> HIDE DEF link
<1>5. N = Len(s)
  <2>1. CASE N = 0
    <3>1. ASSUME Len(s) # 0 PROVE FALSE
      <4>1. PICK M \in 1..Len(s) : M = Len(s)
        BY <1>1, <3>1
      <4>2. SealedLink(s, M) # GenesisHash
        BY <1>3, HashIsNotGenesis
      <4>3. SealedLink(s, M) = link(0)
        BY <2>1, <4>1 DEF link
      <4> QED
        BY <1>4, <4>2, <4>3
    <3> QED
      BY <2>1, <3>1
  <2>2. CASE N # 0
    <3>1. PICK n \in 1..N : n = N
      BY <1>1, <2>2
    <3>2. link(n) = SealedLink(s, Len(s)) /\ link(n) = RecordHash(t[n].event, n - 1, link(n - 1))
      BY <1>2, <3>1 DEF link
    <3>3. Len(s) # 0
      BY <1>4, <3>2, HashIsNotGenesis
    <3>4. PICK M \in 1..Len(s) : M = Len(s)
      BY <1>1, <3>3
    <3>5. RecordHash(t[n].event, n - 1, link(n - 1)) = RecordHash(s[M].event, M - 1, SealedLink(s, M - 1))
      BY <1>3, <3>2, <3>4
    <3>6. n - 1 = M - 1
      BY <3>5, HashCovers
    <3> QED
      BY <1>1, <3>1, <3>4, <3>6
  <2> QED
    BY <2>1, <2>2
<1> DEFINE T == {k \in 0..N : link(N - k) = SealedLink(s, N - k)}
<1>6. 0 \in T
  BY <1>1, <1>5 DEF link
<1>7. ASSUME NEW k \in T, k < N PROVE k + 1 \in T
  <2>1. PICK n \in 1..N : n = N - k /\ n - 1 = N - (k + 1)
    BY <1>1, <1>7
  <2>2. link(n) = SealedLink(s, n)
    BY <2>1
  <2>3. RecordHash(t[n].event, n - 1, link(n - 1)) = RecordHash(s[n].event, n - 1, SealedLink(s, n - 1))
    BY <1>2, <1>3, <1>5, <2>2
  <2>4. link(n - 1) = SealedLink(s, n - 1)
    BY <2>3, HashCovers
  <2>5. k + 1 \in 0..N
    BY <1>1, <1>7
  <2> QED
    BY <2>1, <2>4, <2>5
<1>8. T = 0..N
  <2> HIDE DEF T
  <2>1. T \in SUBSET (0..N)
    BY DEF T
  <2> QED
    BY <1>1, <1>6, <1>7, <2>1, BoundedInduction
<1>9. ASSUME NEW n \in 0..N PROVE link(n) = SealedLink(s, n)
  <2>1. PICK k \in 0..N : k = N - n /\ N - k = n
    BY <1>1
  <2>2. k \in T
    BY <1>8
  <2> QED
    BY <2>1, <2>2
<1> QED
  BY <1>5, <1>9 DEF link

\* AnchoredMeansUnaltered: a chain that verifies against the digest of what was sealed holds the sealed events in order,
\* because verify_chain hashes every record over the link it recomputed itself.
THEOREM AnchoredCorrect == Spec => []AnchoredMeansUnaltered
<1>1. ASSUME ChainInv PROVE AnchoredMeansUnaltered
  <2> PICK required : required = FALSE
    OBVIOUS
  <2> SUFFICES ASSUME Ok(records, required), Passed(records, required).link = Passed(sealed, required).link
               PROVE  Contents(records) = Contents(sealed)
    BY DEF AnchoredMeansUnaltered, OkAgainst, Digest, Report
  <2>1. /\ IsSeq(records) /\ Len(records) \in Nat /\ DOMAIN records = 1..Len(records)
        /\ SealedWell(sealed) /\ Len(sealed) \in Nat /\ DOMAIN sealed = 1..Len(sealed)
    BY <1>1, SeqLength DEF ChainInv, Chain, SealedWell
  <2>2. LinkAt(records, required, Len(records)) = SealedLink(sealed, Len(sealed))
    <3>1. LinkAt(sealed, required, Len(sealed)) = SealedLink(sealed, Len(sealed))
      BY <2>1, SealedLinks
    <3> QED
      BY <3>1, PassedIsAfter DEF LinkAt
  <2>3. /\ Len(records) = Len(sealed)
        /\ \A n \in 0..Len(records) : LinkAt(records, required, n) = SealedLink(sealed, n)
    BY <2>1, <2>2, SameDigestSameLinks
  <2>4. ASSUME NEW n \in 1..Len(records)
        PROVE  records[n].event = sealed[n].event /\ records[n].seq = sealed[n].seq
    <3>1. /\ records[n].seq = n - 1
          /\ LinkAt(records, required, n) = records[n].hash
          /\ records[n].hash = RecordHash(records[n].event, n - 1, LinkAt(records, required, n - 1))
      BY <2>1, OkRecord
    <3>2. sealed[n].seq = n - 1 /\ sealed[n].hash = RecordHash(sealed[n].event, n - 1, SealedLink(sealed, n - 1))
      BY <2>1, <2>3, SealedFields
    <3>3. SealedLink(sealed, n) = sealed[n].hash
      BY <2>1 DEF SealedLink
    <3>4. LinkAt(records, required, n) = SealedLink(sealed, n)
      BY <2>1, <2>3
    <3>5. RecordHash(records[n].event, n - 1, LinkAt(records, required, n - 1)) =
            RecordHash(sealed[n].event, n - 1, SealedLink(sealed, n - 1))
      BY <3>1, <3>2, <3>3, <3>4
    <3> QED
      BY <3>1, <3>2, <3>5, HashCovers
  <2> QED
    BY <2>1, <2>3, <2>4 DEF Contents
<1> QED
  BY <1>1, ChainInvCorrect, PTL

-----------------------------------------------------------------------------
(* No alteration but cutting off the end passes required countersignatures. *)

LEMMA PrefixByElements ==
  ASSUME NEW s, NEW t, IsSeq(s), IsSeq(t), Len(s) <= Len(t), \A n \in 1..Len(s) : s[n] = t[n]
  PROVE  IsPrefix(s, t)
<1> DEFINE a == SubSeq(s, 1, Len(s))
           b == SubSeq(t, 1, Len(s))
<1>1. Len(s) \in Nat /\ Len(t) \in Nat /\ Len(s) \in 0..Len(s) /\ Len(s) \in 0..Len(t)
  BY SeqLength
<1>2. IsSeq(a) /\ Len(a) = Len(s) /\ \A n \in 1..Len(s) : a[n] = s[n]
  BY <1>1, SeqFirst
<1>3. IsSeq(b) /\ Len(b) = Len(s) /\ \A n \in 1..Len(s) : b[n] = t[n]
  BY <1>1, SeqFirst
<1>4. a = b
  <2> HIDE DEF a, b
  <2>1. PICK S1, S2 : a \in Seq(S1) /\ b \in Seq(S2)
    BY <1>2, <1>3 DEF IsSeq
  <2>2. \A n \in 1..Len(a) : a[n] = b[n]
    BY <1>2, <1>3
  <2> QED
    BY <1>2, <1>3, <2>1, <2>2, SeqEqual
<1> QED
  BY <1>4 DEF IsPrefix

LEMMA ContentsSeq ==
  ASSUME NEW s, IsSeq(s)
  PROVE  /\ IsSeq(Contents(s)) /\ Len(Contents(s)) = Len(s)
         /\ \A n \in 1..Len(s) : Contents(s)[n] = <<s[n].event, s[n].seq>>
<1> DEFINE N == Len(s)
           S == {<<s[n].event, s[n].seq>> : n \in 1..N}
           c == [n \in 1..N |-> <<s[n].event, s[n].seq>>]
<1>1. N \in Nat /\ Contents(s) = c
  BY SeqLength DEF Contents
<1>2. c \in Seq(S) /\ Len(c) = N
  <2>1. c \in [1..N -> S]
    OBVIOUS
  <2> HIDE DEF c, S, N
  <2>2. c \in Seq(S)
    BY <1>1, <2>1
  <2>3. DOMAIN c = 1..N
    BY <2>1
  <2> QED
    BY <1>1, <2>2, <2>3, LenProperties
<1>3. \A n \in 1..N : c[n] = <<s[n].event, s[n].seq>>
  OBVIOUS
<1> QED
  BY <1>1, <1>2, <1>3 DEF IsSeq

\* SignedMeansPrefix: where countersignatures are required, a chain that verifies is a prefix of what was sealed, because
\* a countersignature covers the record's place and hash (countersignature_required).
THEOREM SignedCorrect == Spec => []SignedMeansPrefix
<1>1. ASSUME ChainInv PROVE SignedMeansPrefix
  <2> PICK required : required = TRUE
    OBVIOUS
  <2> SUFFICES ASSUME Ok(records, required) PROVE IsPrefix(Contents(records), Contents(sealed))
    BY DEF SignedMeansPrefix
  <2>1. /\ IsSeq(records) /\ Len(records) \in Nat
        /\ SealedWell(sealed) /\ IsSeq(sealed) /\ Len(sealed) \in Nat
        /\ \A n \in 1..Len(records) : WellMade(records[n], SignaturesOf(sealed))
    BY <1>1, SeqLength DEF ChainInv, Chain, SealedWell
  <2>2. ASSUME NEW n \in 1..Len(records)
        PROVE  /\ n \in 1..Len(sealed)
               /\ records[n].event = sealed[n].event /\ records[n].seq = sealed[n].seq
    <3> DEFINE r == records[n]
    <3>1. /\ r.seq = n - 1 /\ r.event.canonical /\ CountersignIssues(r, required) = {}
          /\ r.hash = RecordHash(r.event, n - 1, LinkAt(records, required, n - 1))
      <4>1. r.seq = n - 1 /\ r.event.canonical
        BY <2>1, OkRecord
      <4>2. CountersignIssues(r, required) = {}
        BY <2>1, OkRecord
      <4>3. r.hash = RecordHash(r.event, r.seq, LinkAt(records, required, n - 1))
        BY <2>1, OkHash
      <4> QED
        BY <4>1, <4>2, <4>3
    <3>2. r.signature = Payload(r) /\ r.signature \notin {NoSignature, PartOfOne}
      BY <3>1 DEF CountersignIssues
    <3>3. PICK m \in 1..Len(sealed) : r.signature = sealed[m].signature
      BY <2>1, <3>2 DEF WellMade, SignaturesOf
    <3>4. /\ sealed[m].signature = <<m - 1, SealedLink(sealed, m - 1), sealed[m].hash>>
          /\ sealed[m].seq = m - 1
          /\ sealed[m].hash = RecordHash(sealed[m].event, m - 1, SealedLink(sealed, m - 1))
      BY <2>1, SealedFields
    <3>5. n - 1 = m - 1 /\ r.hash = sealed[m].hash
      <4>1. <<r.seq, r.prev, r.hash>> = <<m - 1, SealedLink(sealed, m - 1), sealed[m].hash>>
        BY <3>2, <3>3, <3>4 DEF Payload
      <4> QED
        BY <3>1, <4>1
    <3>6. n = m
      BY <2>1, <3>5
    <3>7. r.event = sealed[m].event
      <4>1. RecordHash(r.event, n - 1, LinkAt(records, required, n - 1)) =
              RecordHash(sealed[m].event, m - 1, SealedLink(sealed, m - 1))
        BY <3>1, <3>4, <3>5
      <4>2. PICK e, f, p, q : /\ e = r.event /\ f = sealed[m].event
                              /\ p = LinkAt(records, required, n - 1) /\ q = SealedLink(sealed, m - 1)
        OBVIOUS
      <4>3. RecordHash(e, n - 1, p) = RecordHash(f, m - 1, q)
        BY <4>1, <4>2
      <4>4. e = f
        BY <4>3, HashCovers
      <4> QED
        BY <4>2, <4>4
    <3> QED
      BY <3>1, <3>4, <3>6, <3>7
  <2>3. Len(records) <= Len(sealed)
    <3>1. CASE Len(records) = 0
      BY <2>1, <3>1
    <3>2. CASE Len(records) # 0
      <4>1. PICK n \in 1..Len(records) : n = Len(records)
        BY <2>1, <3>2
      <4> QED
        BY <2>1, <2>2, <4>1
    <3> QED
      BY <3>1, <3>2
  <2>4. /\ IsSeq(Contents(records)) /\ Len(Contents(records)) = Len(records)
        /\ \A n \in 1..Len(records) : Contents(records)[n] = <<records[n].event, records[n].seq>>
    BY <2>1, ContentsSeq
  <2>5. /\ IsSeq(Contents(sealed)) /\ Len(Contents(sealed)) = Len(sealed)
        /\ \A n \in 1..Len(sealed) : Contents(sealed)[n] = <<sealed[n].event, sealed[n].seq>>
    BY <2>1, ContentsSeq
  <2>6. \A n \in 1..Len(records) : Contents(records)[n] = Contents(sealed)[n]
    BY <2>2, <2>4, <2>5
  <2> QED
    BY <2>3, <2>4, <2>5, <2>6, PrefixByElements
<1> QED
  BY <1>1, ChainInvCorrect, PTL

-----------------------------------------------------------------------------
(* SignerAccounting: values, and the largest of them.                      *)

\* Finitely many values.
AreValues(S) == IsFiniteSet(S) /\ S \subseteq Nat

\* The largest of them.
IsLargest(m, S) == m \in S /\ \A w \in S : w <= m

\* A set of values up to B that is not empty has a largest.
LEMMA LargestValue ==
  ASSUME NEW B \in Nat, NEW S \in SUBSET (0..B), S # {}
  PROVE  \E m \in S : IsLargest(m, S)
<1> DEFINE T == {B - w : w \in S}
<1>1. T \in SUBSET Nat /\ T # {}
  <2>1. \A w \in S : B - w \in Nat
    OBVIOUS
  <2> QED
    BY <2>1
<1>2. PICK x \in T : \A y \in T : x <= y
  <2> HIDE DEF T
  <2> QED
    BY <1>1, LeastNumber
<1>3. PICK m \in S : x = B - m
  OBVIOUS
<1>4. ASSUME NEW w \in S PROVE w <= m
  <2>1. B - w \in T
    OBVIOUS
  <2>2. B - m <= B - w
    BY <1>2, <1>3, <2>1
  <2> QED
    BY <2>2
<1> QED
  BY <1>4 DEF IsLargest

\* Every set of values up to B is finite, and so are its parts.
LEMMA ValuesFinite ==
  ASSUME NEW B \in Nat, NEW S \in SUBSET (0..B)
  PROVE  AreValues(S) /\ IsFiniteSet(S) /\ Cardinality(S) \in Nat
<1>1. IsFiniteSet(0..B)
  BY FS_Interval
<1>2. IsFiniteSet(S)
  BY <1>1, FS_Subset
<1> QED
  BY <1>2, FS_CardinalityType DEF AreValues

-----------------------------------------------------------------------------
(* Taking the smallest value first, whatever the values and the refusals.  *)

\* The values of S from v up.
UpFrom(S, v) == {w \in S : w >= v}

\* How many of the first k refusals lie above v.
Above(r, k, v) == Cardinality({i \in 1..k : r[i] > v})

\* The first k refusals can explain the values of S together.
ExplainedBy(S, r, k) == \A v \in S : Cardinality(UpFrom(S, v)) <= Above(r, k, v)

\* left[k]: the values of M left after the first k refusals, each of which took the smallest below its own.
TakesSmallest(left, M, r, N) ==
  /\ left[0] = M
  /\ \A k \in 1..N :
       \/ \E u \in left[k - 1] : u < r[k] /\ (\A w \in left[k - 1] : u <= w) /\ left[k] = left[k - 1] \ {u}
       \/ (\A w \in left[k - 1] : r[k] <= w) /\ left[k] = left[k - 1]

\* A list of N refusals, none below the one before it.
AreAscending(r, N) == r \in [1..N -> Nat] /\ \A i, k \in 1..N : i <= k => r[i] <= r[k]

\* One more refusal lies above the values below its own.
LEMMA AboveStep ==
  ASSUME NEW k \in Nat, NEW r, NEW v
  PROVE  /\ Above(r, k, v) \in Nat
         /\ r[k + 1] > v => Above(r, k + 1, v) = Above(r, k, v) + 1
         /\ ~(r[k + 1] > v) => Above(r, k + 1, v) = Above(r, k, v)
<1> DEFINE A == {i \in 1..k : r[i] > v}
           C == {i \in 1..(k + 1) : r[i] > v}
<1>1. IsFiniteSet(A) /\ Cardinality(A) \in Nat
  <2>1. IsFiniteSet(1..k) /\ A \in SUBSET (1..k)
    BY FS_Interval
  <2>2. IsFiniteSet(A)
    BY <2>1, FS_Subset
  <2> QED
    BY <2>2, FS_CardinalityType
<1>2. CASE r[k + 1] > v
  <2>1. C = A \cup {k + 1} /\ k + 1 \notin A
    BY <1>2
  <2>2. Cardinality(C) = Cardinality(A) + 1
    BY <1>1, <2>1, FS_AddElement
  <2> QED
    BY <1>1, <1>2, <2>2 DEF Above
<1>3. CASE ~(r[k + 1] > v)
  <2>1. C = A
    BY <1>3
  <2> QED
    BY <1>1, <1>3, <2>1 DEF Above
<1> QED
  BY <1>2, <1>3

\* Taking the largest value out of a set takes one from the values from each other up.
LEMMA WithoutLargest ==
  ASSUME NEW S, AreValues(S), NEW m, IsLargest(m, S), NEW R, R = S \ {m}, NEW v, v \in S
  PROVE  /\ Cardinality(UpFrom(S, v)) \in Nat /\ Cardinality(UpFrom(S, v)) # 0
         /\ Cardinality(UpFrom(R, v)) \in Nat
         /\ Cardinality(UpFrom(S, v)) = Cardinality(UpFrom(R, v)) + 1
<1>1. UpFrom(S, v) \in SUBSET S /\ m \in UpFrom(S, v)
  BY DEF UpFrom, IsLargest, AreValues
<1>2. IsFiniteSet(UpFrom(S, v)) /\ Cardinality(UpFrom(S, v)) \in Nat
  BY <1>1, FS_Subset, FS_CardinalityType DEF AreValues
<1>3. Cardinality(UpFrom(S, v)) # 0
  BY <1>1, <1>2, FS_EmptySet
<1>4. UpFrom(R, v) = UpFrom(S, v) \ {m}
  BY DEF UpFrom
<1>5. Cardinality(UpFrom(S, v) \ {m}) = Cardinality(UpFrom(S, v)) - 1
  BY <1>1, <1>2, FS_RemoveElement
<1> DEFINE c == Cardinality(UpFrom(S, v))
           d == Cardinality(UpFrom(R, v))
<1>6. c \in Nat /\ c # 0 /\ d = c - 1
  BY <1>2, <1>3, <1>4, <1>5
<1> HIDE DEF c, d
<1>7. c \in Nat /\ c # 0 /\ d \in Nat /\ c = d + 1
  BY <1>6
<1> QED
  BY <1>7 DEF c, d

\* A refusal above all of them explains one value more, the largest.
LEMMA OneMoreExplained ==
  ASSUME NEW S, AreValues(S), NEW u, u \in Nat, IsLargest(u, S), NEW E, E = S \ {u},
         NEW r, NEW k \in Nat, r[k + 1] \in Nat, u < r[k + 1], ExplainedBy(E, r, k)
  PROVE  ExplainedBy(S, r, k + 1)
<1>1. SUFFICES ASSUME NEW v, v \in S PROVE Cardinality(UpFrom(S, v)) <= Above(r, k + 1, v)
  BY DEF ExplainedBy
<1>2. v \in Nat /\ v <= u
  BY <1>1 DEF IsLargest, AreValues
<1>3. Above(r, k, v) \in Nat /\ Above(r, k + 1, v) = Above(r, k, v) + 1
  <2>1. r[k + 1] > v
    BY <1>2
  <2> QED
    BY <2>1, AboveStep
<1>4. /\ Cardinality(UpFrom(E, v)) \in Nat
      /\ Cardinality(UpFrom(S, v)) = Cardinality(UpFrom(E, v)) + 1
  BY <1>1, WithoutLargest
<1>5. CASE v = u
  <2>1. UpFrom(E, v) = {}
    <3>1. \A w \in E : w \in Nat /\ w <= u /\ w # u
      BY DEF IsLargest, AreValues
    <3>2. \A w \in E : ~(w >= u)
      BY <3>1
    <3> QED
      BY <1>5, <3>2 DEF UpFrom
  <2>2. Cardinality(UpFrom(E, v)) = 0
    BY <2>1, FS_EmptySet
  <2> QED
    BY <1>3, <1>4, <2>2
<1>6. CASE v # u
  <2>1. v \in E
    BY <1>1, <1>6
  <2>2. Cardinality(UpFrom(E, v)) <= Above(r, k, v)
    BY <2>1 DEF ExplainedBy
  <2> QED
    BY <1>3, <1>4, <2>2
<1> QED
  BY <1>5, <1>6

\* The other way: without the largest, what k + 1 refusals explain needs one refusal less.
LEMMA OneLessExplained ==
  ASSUME NEW S, AreValues(S), NEW m, IsLargest(m, S), NEW R, R = S \ {m},
         NEW r, NEW k \in Nat, ExplainedBy(S, r, k + 1)
  PROVE  ExplainedBy(R, r, k)
<1>1. SUFFICES ASSUME NEW v, v \in R PROVE Cardinality(UpFrom(R, v)) <= Above(r, k, v)
  BY DEF ExplainedBy
<1>2. v \in S
  BY <1>1
<1>3. Cardinality(UpFrom(S, v)) <= Above(r, k + 1, v)
  BY <1>2 DEF ExplainedBy
<1>4. Above(r, k, v) \in Nat /\ (Above(r, k + 1, v) = Above(r, k, v) \/ Above(r, k + 1, v) = Above(r, k, v) + 1)
  BY AboveStep
<1>5. /\ Cardinality(UpFrom(R, v)) \in Nat
      /\ Cardinality(UpFrom(S, v)) = Cardinality(UpFrom(R, v)) + 1
  BY <1>2, WithoutLargest
<1> QED
  BY <1>3, <1>4, <1>5

\* The values left only get fewer, from the smallest up.
LEMMA LeftIsAbove ==
  ASSUME NEW N \in Nat, NEW B \in Nat, NEW M \in SUBSET (0..B), NEW r, AreAscending(r, N),
         NEW left, TakesSmallest(left, M, r, N)
  PROVE  \A k \in 0..N : left[k] \subseteq M /\ \A e \in M \ left[k], w \in left[k] : e < w
<1> DEFINE T == {k \in 0..N : left[k] \subseteq M /\ \A e \in M \ left[k], w \in left[k] : e < w}
<1>1. 0 \in T
  BY DEF TakesSmallest
<1>2. ASSUME NEW k \in T, k < N PROVE k + 1 \in T
  <2>1. k + 1 \in 1..N /\ (k + 1) - 1 = k
    BY <1>2
  <2>2. CASE \E u \in left[k] : u < r[k + 1] /\ (\A w \in left[k] : u <= w) /\ left[k + 1] = left[k] \ {u}
    <3>1. PICK u \in left[k] : u < r[k + 1] /\ (\A w \in left[k] : u <= w) /\ left[k + 1] = left[k] \ {u}
      BY <2>2
    <3>2. left[k + 1] \subseteq M
      BY <3>1
    <3>3. ASSUME NEW e \in M \ left[k + 1], NEW w \in left[k + 1] PROVE e < w
      <4>1. w \in left[k] /\ u <= w /\ u # w /\ u \in 0..B /\ w \in 0..B
        BY <3>1, <3>3
      <4>2. CASE e = u
        BY <4>1, <4>2
      <4>3. CASE e # u
        BY <3>1, <3>3, <4>1, <4>3
      <4> QED
        BY <4>2, <4>3
    <3> QED
      BY <2>1, <3>2, <3>3
  <2>3. CASE left[k + 1] = left[k]
    BY <2>1, <2>3
  <2> QED
    BY <2>1, <2>2, <2>3 DEF TakesSmallest
<1>3. T = 0..N
  <2> HIDE DEF T
  <2>1. T \in SUBSET (0..N)
    BY DEF T
  <2> QED
    BY <1>1, <1>2, <2>1, BoundedInduction
<1> QED
  BY <1>3
\* What the first refusals take, they can explain.
LEMMA TakenExplained ==
  ASSUME NEW N \in Nat, NEW B \in Nat, NEW M \in SUBSET (0..B), NEW r, AreAscending(r, N),
         NEW left, TakesSmallest(left, M, r, N)
  PROVE  \A k \in 0..N : ExplainedBy(M \ left[k], r, k)
<1> DEFINE T == {k \in 0..N : ExplainedBy(M \ left[k], r, k)}
<1>1. 0 \in T
  BY DEF TakesSmallest, ExplainedBy
<1>2. ASSUME NEW k \in T, k < N PROVE k + 1 \in T
  <2>0. k \in 0..N /\ ExplainedBy(M \ left[k], r, k)
    OBVIOUS
  <2>1. k + 1 \in 1..N /\ (k + 1) - 1 = k /\ k \in 0..N
    BY <1>2, <2>0
  <2>2. ASSUME NEW v
        PROVE  /\ Above(r, k, v) \in Nat
               /\ r[k + 1] > v => Above(r, k + 1, v) = Above(r, k, v) + 1
               /\ ~(r[k + 1] > v) => Above(r, k + 1, v) = Above(r, k, v)
    <3>1. k \in Nat
      BY <2>1
    <3> QED
      BY <3>1, AboveStep
  <2>3. CASE \E u \in left[k] : u < r[k + 1] /\ (\A w \in left[k] : u <= w) /\ left[k + 1] = left[k] \ {u}
    <3>1. PICK u \in left[k] : u < r[k + 1] /\ (\A w \in left[k] : u <= w) /\ left[k + 1] = left[k] \ {u}
      BY <2>3
    <3>2. left[k] \subseteq M /\ \A e \in M \ left[k] : e < u
      BY <2>1, LeftIsAbove
    <3> DEFINE E == M \ left[k]
               S == M \ left[k + 1]
    <3>3. S = E \cup {u} /\ S \ {u} = E /\ S \in SUBSET (0..B) /\ u \in S /\ u \notin E
      BY <3>1, <3>2
    <3>4. IsLargest(u, S)
      <4>1. \A w \in S : w \in 0..B /\ (w \in E \/ w = u)
        BY <3>3
      <4>2. \A w \in S : w <= u
        <5>1. SUFFICES ASSUME NEW w \in S PROVE w <= u
          OBVIOUS
        <5>2. u \in 0..B /\ w \in 0..B
          BY <3>3, <4>1
        <5>3. CASE w \in E
          <6>1. w < u
            BY <3>2, <5>3 DEF E
          <6> QED
            BY <5>2, <6>1
        <5> QED
          BY <4>1, <5>2, <5>3
      <4> QED
        BY <3>3, <4>2 DEF IsLargest
    <3>5. u < r[k + 1] /\ u \in Nat /\ r[k + 1] \in Nat
      <4>1. u \in 0..B
        BY <3>3
      <4> QED
        BY <2>1, <3>1, <4>1 DEF AreAscending
    <3>6. ExplainedBy(E, r, k) /\ AreValues(S) /\ E = S \ {u} /\ k \in Nat
      <4>1. AreValues(S)
        BY <3>3, ValuesFinite
      <4> QED
        BY <2>0, <3>3, <4>1
    <3> HIDE DEF E, S
    <3>7. ExplainedBy(S, r, k + 1)
      BY <3>4, <3>5, <3>6, OneMoreExplained
    <3> QED
      BY <2>1, <3>7 DEF S
  <2>4. CASE left[k + 1] = left[k]
    <3>1. SUFFICES ASSUME NEW v \in M \ left[k] PROVE Cardinality(UpFrom(M \ left[k], v)) <= Above(r, k + 1, v)
      <4>1. \A v \in M \ left[k + 1] : Cardinality(UpFrom(M \ left[k + 1], v)) <= Above(r, k + 1, v)
        BY <2>4, <3>1
      <4>2. ExplainedBy(M \ left[k + 1], r, k + 1)
        BY <4>1 DEF ExplainedBy
      <4> QED
        BY <2>1, <4>2
    <3>2. Cardinality(UpFrom(M \ left[k], v)) <= Above(r, k, v)
      BY <2>0, <3>1 DEF ExplainedBy
    <3>3. Cardinality(UpFrom(M \ left[k], v)) \in Nat
      <4>1. UpFrom(M \ left[k], v) \in SUBSET (0..B)
        BY DEF UpFrom
      <4> QED
        BY <4>1, ValuesFinite
    <3>4. Above(r, k, v) \in Nat /\ (Above(r, k + 1, v) = Above(r, k, v) \/ Above(r, k + 1, v) = Above(r, k, v) + 1)
      BY <2>2
    <3> QED
      BY <3>2, <3>3, <3>4
  <2> QED
    BY <2>1, <2>3, <2>4 DEF TakesSmallest
<1>3. T = 0..N
  <2> HIDE DEF T
  <2>1. T \in SUBSET (0..N)
    BY DEF T
  <2> QED
    BY <1>1, <1>2, <2>1, BoundedInduction
<1> QED
  BY <1>3

\* If any of the first k refusals lies above a value, the k-th does.
LEMMA LastIsHighest ==
  ASSUME NEW N \in Nat, NEW r, AreAscending(r, N), NEW k \in 1..N, NEW v \in Nat, Above(r, k, v) # 0
  PROVE  v < r[k]
<1>1. {i \in 1..k : r[i] > v} # {}
  BY FS_EmptySet DEF Above
<1>2. PICK i \in 1..k : r[i] > v
  BY <1>1
<1>3. i \in 1..N /\ r[i] \in Nat /\ r[k] \in Nat /\ r[i] <= r[k]
  BY <1>2 DEF AreAscending
<1> QED
  BY <1>2, <1>3

\* And no other assignment explains more.
LEMMA TakenMost ==
  ASSUME NEW N \in Nat, NEW B \in Nat, NEW M \in SUBSET (0..B), NEW r, AreAscending(r, N),
         NEW left, TakesSmallest(left, M, r, N)
  PROVE  \A k \in 0..N : \A S \in SUBSET M : ExplainedBy(S, r, k) => Cardinality(S) <= Cardinality(M \ left[k])
<1> DEFINE T == {k \in 0..N : \A S \in SUBSET M : ExplainedBy(S, r, k) => Cardinality(S) <= Cardinality(M \ left[k])}
<1>1. 0 \in T
  <2>1. ASSUME NEW S \in SUBSET M, ExplainedBy(S, r, 0), NEW v \in S PROVE FALSE
    <3>1. Cardinality(UpFrom(S, v)) <= Above(r, 0, v)
      BY <2>1 DEF ExplainedBy
    <3>2. Above(r, 0, v) = 0
      <4>1. {i \in 1..0 : r[i] > v} = {}
        OBVIOUS
      <4> QED
        BY <4>1, FS_EmptySet DEF Above
    <3>3. UpFrom(S, v) \in SUBSET (0..B) /\ v \in UpFrom(S, v)
      <4>1. S \in SUBSET (0..B) /\ v \in 0..B
        OBVIOUS
      <4>2. v >= v
        BY <4>1
      <4> QED
        BY <4>1, <4>2 DEF UpFrom
    <3>4. Cardinality(UpFrom(S, v)) \in Nat /\ Cardinality(UpFrom(S, v)) # 0
      BY <3>3, ValuesFinite, FS_EmptySet
    <3> QED
      BY <3>1, <3>2, <3>4
  <2>2. M \ left[0] = {}
    BY DEF TakesSmallest
  <2>3. Cardinality({}) = 0
    BY FS_EmptySet
  <2>4. ASSUME NEW S \in SUBSET M, ExplainedBy(S, r, 0) PROVE Cardinality(S) <= Cardinality(M \ left[0])
    <3>1. S = {}
      BY <2>1, <2>4
    <3> QED
      BY <2>2, <2>3, <3>1
  <2> QED
    BY <2>4
<1>2. ASSUME NEW k \in T, k < N PROVE k + 1 \in T
  <2>1. k + 1 \in 1..N /\ (k + 1) - 1 = k /\ k \in 0..N
    BY <1>2
  <2>2. SUFFICES ASSUME NEW S \in SUBSET M, ExplainedBy(S, r, k + 1)
                 PROVE  Cardinality(S) <= Cardinality(M \ left[k + 1])
    BY <2>1
  <2>3. left[k] \subseteq M /\ \A e \in M \ left[k], w \in left[k] : e < w
    BY <2>1, LeftIsAbove
  <2>4. S \in SUBSET (0..B) /\ AreValues(S) /\ IsFiniteSet(S) /\ Cardinality(S) \in Nat
    <3>1. S \in SUBSET (0..B)
      OBVIOUS
    <3> QED
      BY <3>1, ValuesFinite
  <2>5. CASE \E u \in left[k] : u < r[k + 1] /\ (\A w \in left[k] : u <= w) /\ left[k + 1] = left[k] \ {u}
    <3>1. PICK u \in left[k] : u < r[k + 1] /\ left[k + 1] = left[k] \ {u}
      BY <2>5
    <3>2. Cardinality(M \ left[k]) \in Nat /\ Cardinality(M \ left[k + 1]) = Cardinality(M \ left[k]) + 1
      <4>1. M \ left[k + 1] = (M \ left[k]) \cup {u} /\ u \notin M \ left[k] /\ M \ left[k] \in SUBSET (0..B)
        BY <2>3, <3>1
      <4>2. IsFiniteSet(M \ left[k]) /\ Cardinality(M \ left[k]) \in Nat
        BY <4>1, ValuesFinite
      <4> QED
        BY <4>1, <4>2, FS_AddElement
    <3>3. CASE S = {}
      <4>1. Cardinality(S) = 0
        BY <3>3, FS_EmptySet
      <4> QED
        BY <3>2, <4>1
    <3>4. CASE S # {}
      <4>1. PICK m \in S : IsLargest(m, S)
        BY <2>4, <3>4, LargestValue
      <4> DEFINE R == S \ {m}
      <4>2. ExplainedBy(R, r, k)
        <5>1. k \in Nat /\ R = S \ {m} /\ AreValues(S)
          BY <2>1, <2>4
        <5> HIDE DEF R
        <5> QED
          BY <2>2, <4>1, <5>1, OneLessExplained
      <4>3. Cardinality(R) <= Cardinality(M \ left[k])
        BY <4>2
      <4>4. Cardinality(R) = Cardinality(S) - 1
        BY <2>4, <4>1, FS_RemoveElement DEF IsLargest
      <4> QED
        BY <2>4, <3>2, <4>3, <4>4
    <3> QED
      BY <3>3, <3>4
  <2>6. CASE (\A w \in left[k] : r[k + 1] <= w) /\ left[k + 1] = left[k]
    <3>1. S \subseteq M \ left[k]
      <4>1. SUFFICES ASSUME NEW v \in S PROVE v \notin left[k]
        OBVIOUS
      <4>2. Cardinality(UpFrom(S, v)) <= Above(r, k + 1, v)
        BY <2>2, <4>1 DEF ExplainedBy
      <4>3. Cardinality(UpFrom(S, v)) \in Nat \ {0}
        <5>1. PICK m \in S : IsLargest(m, S)
          BY <2>4, <4>1, LargestValue
        <5> QED
          BY <2>4, <4>1, <5>1, WithoutLargest
      <4>4. Above(r, k + 1, v) \in Nat
        <5>1. k + 1 \in Nat
          BY <2>1
        <5> QED
          BY <5>1, AboveStep
      <4>5. Above(r, k + 1, v) # 0 /\ v \in Nat
        BY <2>4, <4>1, <4>2, <4>3, <4>4
      <4>6. v < r[k + 1] /\ r[k + 1] \in Nat
        BY <2>1, <4>5, LastIsHighest DEF AreAscending
      <4> QED
        BY <2>6, <4>5, <4>6
    <3>2. IsFiniteSet(M \ left[k])
      BY ValuesFinite
    <3> QED
      BY <2>6, <3>1, <3>2, FS_Subset
  <2> QED
    BY <2>1, <2>5, <2>6 DEF TakesSmallest
<1>3. T = 0..N
  <2> HIDE DEF T
  <2>1. T \in SUBSET (0..N)
    BY DEF T
  <2> QED
    BY <1>1, <1>2, <2>1, BoundedInduction
<1> QED
  BY <1>3

-----------------------------------------------------------------------------
(* The runs of values, and the first of them.                              *)

\* Runs of values: none empty, one above the other.
AreRuns(runs) ==
  /\ runs \in Seq(Nat \X Nat)
  /\ \A k \in 1..Len(runs) : runs[k][1] <= runs[k][2]
  /\ \A j, k \in 1..Len(runs) : j < k => runs[j][2] < runs[k][1]

\* A value of the k-th run.
InRun(w, runs, k) == runs[k][1] <= w /\ w <= runs[k][2]

\* What the runs hold.
LEMMA RunValues ==
  ASSUME NEW runs, AreRuns(runs)
  PROVE  /\ Len(runs) \in Nat /\ \A k \in 1..Len(runs) : runs[k][1] \in Nat /\ runs[k][2] \in Nat
         /\ \A w : w \in ValuesOf(runs) <=> (w \in Nat /\ \E k \in 1..Len(runs) : InRun(w, runs, k))
<1>1. Len(runs) \in Nat /\ DOMAIN runs = 1..Len(runs)
  BY DEF AreRuns
<1>2. \A k \in 1..Len(runs) : runs[k][1] \in Nat /\ runs[k][2] \in Nat
  <2>1. SUFFICES ASSUME NEW k \in 1..Len(runs) PROVE runs[k][1] \in Nat /\ runs[k][2] \in Nat
    OBVIOUS
  <2>2. runs[k] \in Nat \X Nat
    BY <2>1 DEF AreRuns
  <2> QED
    BY <2>2
<1>3. ASSUME NEW w, w \in ValuesOf(runs) PROVE w \in Nat /\ \E k \in 1..Len(runs) : InRun(w, runs, k)
  <2>1. PICK k \in 1..Len(runs) : w \in runs[k][1]..runs[k][2]
    BY <1>1, <1>3 DEF ValuesOf
  <2>2. w \in Nat /\ InRun(w, runs, k)
    BY <1>2, <2>1 DEF InRun
  <2> QED
    BY <2>2
<1>4. ASSUME NEW w \in Nat, NEW k \in 1..Len(runs), InRun(w, runs, k) PROVE w \in ValuesOf(runs)
  <2>1. w \in runs[k][1]..runs[k][2]
    BY <1>2, <1>4 DEF InRun
  <2> QED
    BY <1>1, <2>1 DEF ValuesOf
<1> QED
  BY <1>1, <1>2, <1>3, <1>4

\* The first value of the first run is the smallest of all.
LEMMA FirstIsSmallest ==
  ASSUME NEW runs, AreRuns(runs), runs # <<>>
  PROVE  /\ Len(runs) \in Nat \ {0} /\ runs[1][1] \in Nat
         /\ runs[1][1] \in ValuesOf(runs) /\ \A w \in ValuesOf(runs) : runs[1][1] <= w
<1>1. Len(runs) \in Nat \ {0}
  BY DEF AreRuns
<1>2. \A k \in 1..Len(runs) : runs[k][1] \in Nat /\ runs[k][2] \in Nat
  BY RunValues
<1>3. InRun(runs[1][1], runs, 1) /\ 1 \in 1..Len(runs) /\ runs[1][1] \in Nat /\ runs[1][2] \in Nat
  BY <1>1, <1>2 DEF AreRuns, InRun
<1>4. runs[1][1] \in ValuesOf(runs)
  BY <1>3, RunValues
<1>5. ASSUME NEW w \in ValuesOf(runs) PROVE runs[1][1] <= w
  <2>1. PICK k \in 1..Len(runs) : w \in Nat /\ InRun(w, runs, k)
    BY RunValues
  <2>2. runs[1][1] <= runs[k][1]
    <3>1. CASE k = 1
      BY <1>3, <3>1
    <3>2. CASE k # 1
      <4>1. runs[1][2] < runs[k][1] /\ runs[1][1] <= runs[1][2]
        BY <1>3, <3>2 DEF AreRuns
      <4> QED
        BY <1>2, <1>3, <4>1
    <3> QED
      BY <3>1, <3>2
  <2> QED
    BY <1>2, <1>3, <2>1, <2>2 DEF InRun
<1> QED
  BY <1>1, <1>3, <1>4, <1>5

\* A refusal above the smallest value takes it, and any other takes nothing.
LEMMA TakeFirstTakes ==
  ASSUME NEW runs, AreRuns(runs), NEW refusal \in Nat
  PROVE  /\ AreRuns(TakeFirst(runs, refusal))
         /\ \/ \E u \in ValuesOf(runs) :
                 /\ u < refusal /\ \A w \in ValuesOf(runs) : u <= w
                 /\ ValuesOf(TakeFirst(runs, refusal)) = ValuesOf(runs) \ {u}
            \/ /\ \A w \in ValuesOf(runs) : refusal <= w
               /\ ValuesOf(TakeFirst(runs, refusal)) = ValuesOf(runs)
<1> DEFINE taken == TakeFirst(runs, refusal)
           u == runs[1][1]
           n == Len(runs)
<1>1. n \in Nat /\ \A k \in 1..n : runs[k][1] \in Nat /\ runs[k][2] \in Nat /\ runs[k] \in Nat \X Nat
  <2>1. \A k \in 1..n : runs[k] \in Nat \X Nat
    BY DEF AreRuns
  <2> QED
    BY <2>1, RunValues
<1>2. CASE runs = <<>>
  <2>1. taken = runs
    BY <1>2 DEF TakeFirst
  <2>2. ValuesOf(runs) = {}
    <3>1. n = 0
      BY <1>2
    <3>2. \A w : w \notin ValuesOf(runs)
      BY <3>1, RunValues
    <3> QED
      BY <3>2
  <2> QED
    BY <2>1, <2>2
<1>3. CASE runs # <<>> /\ u >= refusal
  <2>1. taken = runs
    BY <1>3 DEF TakeFirst
  <2>2. u \in Nat /\ \A w \in ValuesOf(runs) : u <= w
    BY <1>3, FirstIsSmallest
  <2>3. ASSUME NEW w \in ValuesOf(runs) PROVE refusal <= w
    <3>1. w \in Nat /\ u <= w
      BY <2>2, RunValues
    <3> QED
      BY <1>3, <2>2, <3>1
  <2> QED
    BY <2>1, <2>3
<1>4. CASE runs # <<>> /\ ~(u >= refusal)
  <2>1. n \in Nat \ {0} /\ u \in Nat /\ u \in ValuesOf(runs) /\ \A w \in ValuesOf(runs) : u <= w
    BY <1>4, FirstIsSmallest
  <2>2. u < refusal
    BY <1>4, <2>1
  <2>3. AreRuns(taken) /\ ValuesOf(taken) = ValuesOf(runs) \ {u}
    <3>1. CASE u = runs[1][2]
      <4>1. taken = Tail(runs)
        BY <1>4, <3>1 DEF TakeFirst
      <4>2. /\ taken \in Seq(Nat \X Nat) /\ Len(taken) = n - 1
            /\ \A k \in 1..(n - 1) : taken[k] = runs[k + 1]
        BY <1>4, <2>1, <4>1 DEF AreRuns
      <4>3. AreRuns(taken)
        <5>1. ASSUME NEW k \in 1..(n - 1) PROVE taken[k] = runs[k + 1] /\ k + 1 \in 1..n
          BY <2>1, <4>2
        <5>2. \A k \in 1..(n - 1) : taken[k][1] <= taken[k][2]
          BY <5>1 DEF AreRuns
        <5>3. ASSUME NEW j \in 1..(n - 1), NEW k \in 1..(n - 1), j < k PROVE taken[j][2] < taken[k][1]
          <6>1. j + 1 < k + 1
            BY <5>3
          <6>2. runs[j + 1][2] < runs[k + 1][1]
            BY <5>1, <6>1 DEF AreRuns
          <6> QED
            BY <5>1, <6>2
        <5> QED
          BY <4>2, <5>2, <5>3 DEF AreRuns
      <4>4. ASSUME NEW w PROVE w \in ValuesOf(taken) <=> (w \in ValuesOf(runs) /\ w # u)
        <5>1. ASSUME w \in ValuesOf(taken) PROVE w \in ValuesOf(runs) /\ w # u
          <6>1. PICK k \in 1..(n - 1) : w \in Nat /\ InRun(w, taken, k)
            BY <4>2, <4>3, <5>1, RunValues
          <6>2. k + 1 \in 1..n /\ 1 \in 1..n /\ taken[k] = runs[k + 1]
            BY <2>1, <4>2
          <6>3. InRun(w, runs, k + 1)
            BY <6>1, <6>2 DEF InRun
          <6>4. runs[1][2] < runs[k + 1][1]
            BY <2>1, <6>2 DEF AreRuns
          <6>5. w # u
            BY <1>1, <3>1, <6>1, <6>2, <6>3, <6>4 DEF InRun
          <6> QED
            BY <6>1, <6>2, <6>3, <6>5, RunValues
        <5>2. ASSUME w \in ValuesOf(runs), w # u PROVE w \in ValuesOf(taken)
          <6>1. PICK k \in 1..n : w \in Nat /\ InRun(w, runs, k)
            BY <5>2, RunValues
          <6>2. k # 1
            BY <1>1, <2>1, <3>1, <5>2, <6>1 DEF InRun
          <6>3. k - 1 \in 1..(n - 1) /\ (k - 1) + 1 = k
            BY <2>1, <6>2
          <6>4. taken[k - 1] = runs[k]
            BY <4>2, <6>3
          <6>5. InRun(w, taken, k - 1)
            BY <6>1, <6>4 DEF InRun
          <6> QED
            BY <4>2, <4>3, <6>1, <6>3, <6>5, RunValues
        <5> QED
          BY <5>1, <5>2
      <4> QED
        BY <4>3, <4>4
    <3>2. CASE u # runs[1][2]
      <4>1. taken = [runs EXCEPT ![1] = <<u + 1, runs[1][2]>>]
        BY <1>4, <3>2 DEF TakeFirst
      <4>2. u < runs[1][2] /\ runs[1][2] \in Nat /\ 1 \in 1..n
        BY <1>1, <2>1, <3>2 DEF AreRuns
      <4>3. /\ taken \in Seq(Nat \X Nat) /\ Len(taken) = n
            /\ taken[1] = <<u + 1, runs[1][2]>> /\ \A k \in 1..n : k # 1 => taken[k] = runs[k]
        BY <2>1, <4>1, <4>2, ExceptSeq DEF AreRuns
      <4>4. /\ taken[1][1] = u + 1 /\ taken[1][2] = runs[1][2]
            /\ \A k \in 1..n : taken[k][2] = runs[k][2] /\ (k # 1 => taken[k][1] = runs[k][1])
        BY <4>3
      <4>5. AreRuns(taken)
        <5>1. \A k \in 1..n : taken[k][1] <= taken[k][2]
          BY <1>1, <2>1, <4>2, <4>4 DEF AreRuns
        <5>2. ASSUME NEW j \in 1..n, NEW k \in 1..n, j < k PROVE taken[j][2] < taken[k][1]
          <6>1. runs[j][2] < runs[k][1]
            BY <5>2 DEF AreRuns
          <6>2. k # 1
            <7>1. j \in Nat /\ j >= 1 /\ k \in Nat
              <8> HIDE DEF n
              <8> QED
                BY <1>1, <5>2
            <7> QED
              BY <5>2, <7>1
          <6> QED
            BY <4>4, <6>1, <6>2
        <5> QED
          BY <4>3, <5>1, <5>2 DEF AreRuns
      <4>6. ASSUME NEW w PROVE w \in ValuesOf(taken) <=> (w \in ValuesOf(runs) /\ w # u)
        <5>1. ASSUME NEW k \in 1..n, w \in Nat PROVE InRun(w, taken, k) <=> (InRun(w, runs, k) /\ w # u)
          <6>1. CASE k = 1
            BY <2>1, <4>2, <4>4, <5>1, <6>1 DEF InRun
          <6>2. CASE k # 1
            <7>1. runs[1][2] < runs[k][1] /\ runs[k][1] \in Nat
              BY <1>1, <4>2, <6>2 DEF AreRuns
            <7> QED
              BY <1>1, <2>1, <4>2, <4>4, <5>1, <6>2, <7>1 DEF InRun
          <6> QED
            BY <6>1, <6>2
        <5>2. w \in ValuesOf(taken) <=> (w \in Nat /\ \E k \in 1..n : InRun(w, taken, k))
          BY <4>3, <4>5, RunValues
        <5>3. w \in ValuesOf(runs) <=> (w \in Nat /\ \E k \in 1..n : InRun(w, runs, k))
          BY RunValues
        <5> QED
          BY <5>1, <5>2, <5>3
      <4> QED
        BY <4>5, <4>6
    <3> QED
      BY <3>1, <3>2
  <2> QED
    BY <2>1, <2>2, <2>3
<1> QED
  BY <1>2, <1>3, <1>4

-----------------------------------------------------------------------------
(* The missing values: one pass over the present ones.                     *)

\* A run of the pass over the values below v.
IsBelow(f, present, m) ==
  f = [v \in 0..m |->
        IF v = 0 THEN [runs |-> <<>>, following |-> 0]
        ELSE IF v - 1 \notin present THEN f[v - 1]
        ELSE [runs |-> IF v - 1 > f[v - 1].following
                       THEN Append(f[v - 1].runs, <<f[v - 1].following, v - 2>>) ELSE f[v - 1].runs,
              following |-> v]]

\* The pass can be run over any set of values.
LEMMA BelowRuns ==
  ASSUME NEW present
  PROVE  \E f : IsBelow(f, present, MaxValue + 1) /\ RunsBelow(present) = f[MaxValue + 1]
<1> DEFINE T == {m \in Nat : \E f : IsBelow(f, present, m)}
<1>1. 0 \in T
  <2>1. IsBelow([v \in 0..0 |-> [runs |-> <<>>, following |-> 0]], present, 0)
    BY DEF IsBelow
  <2> QED
    BY <2>1
<1>2. ASSUME NEW m \in T PROVE m + 1 \in T
  <2>1. PICK f : IsBelow(f, present, m)
    OBVIOUS
  <2> DEFINE last == IF m \notin present THEN f[m]
                     ELSE [runs |-> IF m > f[m].following THEN Append(f[m].runs, <<f[m].following, m - 1>>) ELSE f[m].runs,
                           following |-> m + 1]
             g == [v \in 0..(m + 1) |-> IF v = m + 1 THEN last ELSE f[v]]
  <2>2. \A v \in 0..(m + 1) :
          g[v] = IF v = 0 THEN [runs |-> <<>>, following |-> 0]
                 ELSE IF v - 1 \notin present THEN g[v - 1]
                 ELSE [runs |-> IF v - 1 > g[v - 1].following
                                THEN Append(g[v - 1].runs, <<g[v - 1].following, v - 2>>) ELSE g[v - 1].runs,
                       following |-> v]
    <3>1. SUFFICES ASSUME NEW v \in 0..(m + 1)
                   PROVE  g[v] = IF v = 0 THEN [runs |-> <<>>, following |-> 0]
                                 ELSE IF v - 1 \notin present THEN g[v - 1]
                                 ELSE [runs |-> IF v - 1 > g[v - 1].following
                                                THEN Append(g[v - 1].runs, <<g[v - 1].following, v - 2>>) ELSE g[v - 1].runs,
                                       following |-> v]
      OBVIOUS
    <3>2. CASE v = m + 1
      <4>1. v # 0 /\ v - 1 = m /\ v - 2 = m - 1 /\ g[v - 1] = f[m] /\ g[v] = last
        BY <3>2
      <4> QED
        BY <3>2, <4>1
    <3>3. CASE v # m + 1
      <4>1. v \in 0..m /\ g[v] = f[v] /\ (v # 0 => g[v - 1] = f[v - 1])
        BY <3>1, <3>3
      <4> HIDE DEF g
      <4>2. f[v] = IF v = 0 THEN [runs |-> <<>>, following |-> 0]
                   ELSE IF v - 1 \notin present THEN f[v - 1]
                   ELSE [runs |-> IF v - 1 > f[v - 1].following
                                  THEN Append(f[v - 1].runs, <<f[v - 1].following, v - 2>>) ELSE f[v - 1].runs,
                         following |-> v]
        BY <2>1, <4>1 DEF IsBelow
      <4> QED
        BY <4>1, <4>2
    <3> QED
      BY <3>2, <3>3
  <2>3. IsBelow(g, present, m + 1)
    <3>1. g = [v \in 0..(m + 1) |-> g[v]]
      OBVIOUS
    <3> HIDE DEF g
    <3> QED
      BY <2>2, <3>1 DEF IsBelow
  <2> QED
    BY <2>3
<1>3. T = Nat
  <2> HIDE DEF T
  <2>1. T \in SUBSET Nat
    BY DEF T
  <2> QED
    BY <1>1, <1>2, <2>1, NaturalInduction
<1>4. \E f : IsBelow(f, present, MaxValue + 1)
  <2>1. MaxValue + 1 \in Nat
    BY AccountingAssumption
  <2> QED
    BY <1>3, <2>1
<1> DEFINE below == CHOOSE f : IsBelow(f, present, MaxValue + 1)
<1>5. IsBelow(below, present, MaxValue + 1)
  BY <1>4
<1>6. RunsBelow(present) = below[MaxValue + 1]
  BY DEF RunsBelow, IsBelow
<1> QED
  BY <1>5, <1>6

\* What the pass keeps: the missing values it has passed, as runs, and the value that should follow the last present one.
PassedTo(acc, present, v) ==
  /\ AreRuns(acc.runs) /\ \A k \in 1..Len(acc.runs) : acc.runs[k][2] < acc.following
  /\ acc.following \in 0..v /\ (acc.following # 0 => acc.following - 1 \in present)
  /\ \A w \in Nat : acc.following <= w /\ w < v => w \notin present
  /\ \A w : w \in ValuesOf(acc.runs) <=> (w \in Nat /\ w \notin present /\ w < acc.following)

\* A run above the others keeps them in order.
LEMMA RunsAppend ==
  ASSUME NEW runs, AreRuns(runs), NEW a \in Nat, NEW b \in Nat, a <= b, \A k \in 1..Len(runs) : runs[k][2] < a
  PROVE  LET longer == Append(runs, <<a, b>>) IN
         /\ AreRuns(longer) /\ Len(longer) = Len(runs) + 1
         /\ \A k \in 1..Len(runs) : longer[k] = runs[k]
         /\ longer[Len(runs) + 1] = <<a, b>>
         /\ \A w : w \in ValuesOf(longer) <=> (w \in ValuesOf(runs) \/ (w \in Nat /\ a <= w /\ w <= b))
<1> DEFINE longer == Append(runs, <<a, b>>)
           n == Len(runs)
<1>1. n \in Nat /\ \A k \in 1..n : runs[k][1] \in Nat /\ runs[k][2] \in Nat
  BY RunValues
<1>2. /\ longer \in Seq(Nat \X Nat) /\ Len(longer) = n + 1
      /\ \A k \in 1..n : longer[k] = runs[k]
      /\ longer[n + 1] = <<a, b>>
  <2>1. runs \in Seq(Nat \X Nat) /\ <<a, b>> \in Nat \X Nat
    BY DEF AreRuns
  <2> QED
    BY <2>1
<1> HIDE DEF longer
<1>3. longer[n + 1][1] = a /\ longer[n + 1][2] = b
  BY <1>2
<1>4. AreRuns(longer)
  <2>1. ASSUME NEW k \in 1..(n + 1) PROVE longer[k][1] <= longer[k][2]
    <3>1. CASE k = n + 1
      BY <1>3, <3>1
    <3>2. CASE k # n + 1
      <4>1. k \in 1..n
        BY <1>1, <3>2
      <4> QED
        BY <1>2, <4>1 DEF AreRuns
    <3> QED
      BY <3>1, <3>2
  <2>2. ASSUME NEW j \in 1..(n + 1), NEW k \in 1..(n + 1), j < k PROVE longer[j][2] < longer[k][1]
    <3>1. j \in 1..n /\ longer[j] = runs[j]
      <4>1. j \in 1..n
        <5> HIDE DEF n
        <5> QED
          BY <1>1, <2>2
      <4> QED
        BY <1>2, <4>1
    <3>2. CASE k = n + 1
      BY <1>3, <3>1, <3>2
    <3>3. CASE k # n + 1
      <4>1. k \in 1..n /\ longer[k] = runs[k]
        BY <1>1, <1>2, <3>3
      <4> QED
        BY <2>2, <3>1, <4>1 DEF AreRuns
    <3> QED
      BY <3>2, <3>3
  <2> QED
    BY <1>2, <2>1, <2>2 DEF AreRuns
<1>5. ASSUME NEW w PROVE w \in ValuesOf(longer) <=> (w \in ValuesOf(runs) \/ (w \in Nat /\ a <= w /\ w <= b))
  <2>1. w \in ValuesOf(longer) <=> (w \in Nat /\ \E k \in 1..(n + 1) : InRun(w, longer, k))
    BY <1>2, <1>4, RunValues
  <2>2. w \in ValuesOf(runs) <=> (w \in Nat /\ \E k \in 1..n : InRun(w, runs, k))
    BY RunValues
  <2>3. \A k \in 1..n : InRun(w, longer, k) <=> InRun(w, runs, k)
    BY <1>2 DEF InRun
  <2>4. InRun(w, longer, n + 1) <=> (a <= w /\ w <= b)
    BY <1>3 DEF InRun
  <2>5. \A k : k \in 1..(n + 1) <=> (k \in 1..n \/ k = n + 1)
    <3>1. \A i \in Nat : \A k : k \in 1..(i + 1) <=> (k \in 1..i \/ k = i + 1)
      OBVIOUS
    <3> HIDE DEF n
    <3> QED
      BY <1>1, <3>1
  <2>6. (\E k \in 1..(n + 1) : InRun(w, longer, k)) <=> ((\E k \in 1..n : InRun(w, runs, k)) \/ (a <= w /\ w <= b))
    BY <2>3, <2>4, <2>5
  <2> QED
    BY <2>1, <2>2, <2>6
<1> QED
  BY <1>2, <1>4, <1>5 DEF longer

\* A present value closes the run of the missing ones before it, if there are any.
LEMMA PassStep ==
  ASSUME NEW acc, NEW present, NEW v \in Nat, PassedTo(acc, present, v), v \in present
  PROVE  PassedTo([runs |-> IF v > acc.following THEN Append(acc.runs, <<acc.following, v - 1>>) ELSE acc.runs,
                   following |-> v + 1], present, v + 1)
<1> DEFINE a == acc.following
           runs == acc.runs
           n == Len(runs)
           next == IF v > a THEN Append(runs, <<a, v - 1>>) ELSE runs
<1>1. /\ AreRuns(runs) /\ a \in 0..v /\ \A k \in 1..n : runs[k][2] < a
      /\ \A w \in Nat : a <= w /\ w < v => w \notin present
      /\ \A w : w \in ValuesOf(runs) <=> (w \in Nat /\ w \notin present /\ w < a)
  BY DEF PassedTo
<1>2. n \in Nat /\ \A k \in 1..n : runs[k][2] \in Nat
  BY <1>1, RunValues
<1> HIDE DEF a, runs
<1>3. /\ AreRuns(next) /\ \A k \in 1..Len(next) : next[k][2] < v + 1
      /\ \A w : w \in ValuesOf(next) <=> (w \in Nat /\ w \notin present /\ w < v + 1)
  <2>1. CASE v > a
    <3>1. next = Append(runs, <<a, v - 1>>) /\ a \in Nat /\ v - 1 \in Nat /\ a <= v - 1
      BY <1>1, <2>1
    <3> HIDE DEF next
    <3>2. /\ AreRuns(next) /\ Len(next) = n + 1 /\ \A k \in 1..n : next[k] = runs[k]
          /\ next[n + 1] = <<a, v - 1>>
          /\ \A w : w \in ValuesOf(next) <=> (w \in ValuesOf(runs) \/ (w \in Nat /\ a <= w /\ w <= v - 1))
      BY <1>1, <3>1, RunsAppend
    <3>3. ASSUME NEW k \in 1..Len(next) PROVE next[k][2] < v + 1
      <4>1. CASE k = n + 1
        BY <3>2, <4>1
      <4>2. CASE k # n + 1
        <5>1. k \in 1..n
          BY <1>2, <3>2, <4>2
        <5>2. next[k] = runs[k] /\ runs[k][2] < a /\ runs[k][2] \in Nat
          BY <1>1, <1>2, <3>2, <5>1
        <5> QED
          BY <1>1, <5>2
      <4> QED
        BY <4>1, <4>2
    <3>4. ASSUME NEW w \in Nat PROVE w \in ValuesOf(next) <=> (w \notin present /\ w < v + 1)
      <4>1. w \in ValuesOf(next) <=> ((w \notin present /\ w < a) \/ (a <= w /\ w <= v - 1))
        BY <1>1, <3>2
      <4>2. CASE w < a
        BY <1>1, <4>1, <4>2
      <4>3. CASE a <= w /\ w < v
        BY <1>1, <4>1, <4>3
      <4>4. CASE w = v
        BY <1>1, <4>1, <4>4
      <4>5. CASE w > v
        BY <1>1, <4>1, <4>5
      <4> QED
        BY <1>1, <4>2, <4>3, <4>4, <4>5
    <3>5. \A w : w \in ValuesOf(next) => w \in Nat
      BY <1>1, <3>2
    <3> QED
      BY <3>2, <3>3, <3>4, <3>5
  <2>2. CASE ~(v > a)
    <3>1. next = runs /\ a = v
      BY <1>1, <2>2
    <3>2. \A k \in 1..n : runs[k][2] < v + 1
      BY <1>1, <1>2, <3>1
    <3>3. \A w \in Nat : w \notin present => (w < v + 1 <=> w < a)
      BY <3>1
    <3> QED
      BY <1>1, <3>1, <3>2, <3>3
  <2> QED
    BY <2>1, <2>2
<1> HIDE DEF next
<1>4. \A acc2 : acc2.runs = next /\ acc2.following = v + 1 => PassedTo(acc2, present, v + 1)
  <2>1. \A w \in Nat : ~(v + 1 <= w /\ w < v + 1)
    OBVIOUS
  <2>2. v + 1 \in 0..(v + 1) /\ (v + 1) - 1 \in present
    OBVIOUS
  <2> QED
    BY <1>3, <2>1, <2>2 DEF PassedTo
<1> QED
  BY <1>4 DEF next, a, runs

\* The runs of the missing values.
LEMMA MissingAreRuns ==
  ASSUME NEW present, present \subseteq 0..MaxValue
  PROVE  /\ AreRuns(RunsBelow(present).runs)
         /\ ValuesOf(RunsBelow(present).runs) = {v \in 0..MaxValue : v \notin present /\ \E p \in present : v < p}
<1> DEFINE N == MaxValue + 1
<1>1. N \in Nat /\ MaxValue \in Nat
  BY AccountingAssumption
<1>2. PICK below : IsBelow(below, present, N) /\ RunsBelow(present) = below[N]
  BY BelowRuns
<1> DEFINE T == {v \in 0..N : PassedTo(below[v], present, v)}
<1>3. 0 \in T
  <2>1. below[0] = [runs |-> <<>>, following |-> 0]
    BY <1>1, <1>2 DEF IsBelow
  <2>2. AreRuns(<<>>) /\ Len(<<>>) = 0
    BY DEF AreRuns
  <2>3. \A w : w \notin ValuesOf(<<>>)
    BY <2>2, RunValues
  <2>4. below[0].runs = <<>> /\ below[0].following = 0
    BY <2>1
  <2>5. PassedTo(below[0], present, 0)
    BY <2>2, <2>3, <2>4 DEF PassedTo
  <2> QED
    BY <1>1, <2>5
<1>4. ASSUME NEW v \in T, v < N PROVE v + 1 \in T
  <2>1. v \in Nat /\ v + 1 \in 1..N /\ v + 1 \in 0..N /\ PassedTo(below[v], present, v)
    BY <1>1, <1>4
  <2>2. CASE v \notin present
    <3>1. below[v + 1] = below[v]
      <4>1. (v + 1) - 1 = v /\ v + 1 # 0
        BY <2>1
      <4> QED
        BY <1>2, <2>1, <2>2, <4>1 DEF IsBelow
    <3>2. below[v].following \in 0..(v + 1)
      BY <2>1 DEF PassedTo
    <3>3. \A w \in Nat : below[v].following <= w /\ w < v + 1 => w \notin present
      BY <2>1, <2>2 DEF PassedTo
    <3>4. PassedTo(below[v], present, v + 1)
      BY <2>1, <3>2, <3>3 DEF PassedTo
    <3> QED
      BY <2>1, <3>1, <3>4
  <2>3. CASE v \in present
    <3>1. below[v + 1] = [runs |-> IF v > below[v].following THEN Append(below[v].runs, <<below[v].following, v - 1>>)
                                   ELSE below[v].runs,
                          following |-> v + 1]
      <4>1. (v + 1) - 1 = v /\ v + 1 # 0 /\ (v + 1) - 2 = v - 1
        BY <2>1
      <4> QED
        BY <1>2, <2>1, <2>3, <4>1 DEF IsBelow
    <3>2. PassedTo(below[v + 1], present, v + 1)
      BY <2>1, <2>3, <3>1, PassStep
    <3> QED
      BY <2>1, <3>2
  <2> QED
    BY <2>2, <2>3
<1>5. T = 0..N
  <2> HIDE DEF T
  <2>1. T \in SUBSET (0..N)
    BY DEF T
  <2> QED
    BY <1>1, <1>3, <1>4, <2>1, BoundedInduction
<1>6. PassedTo(below[N], present, N)
  <2>1. N \in T
    BY <1>1, <1>5
  <2> QED
    BY <2>1
<1> DEFINE runs == RunsBelow(present).runs
           a == RunsBelow(present).following
<1>7. /\ AreRuns(runs) /\ a \in 0..N /\ (a # 0 => a - 1 \in present)
      /\ \A w \in Nat : a <= w /\ w < N => w \notin present
      /\ \A w : w \in ValuesOf(runs) <=> (w \in Nat /\ w \notin present /\ w < a)
  BY <1>2, <1>6 DEF PassedTo
<1> HIDE DEF runs, a
<1>8. ASSUME NEW w, w \in ValuesOf(runs) PROVE w \in 0..MaxValue /\ w \notin present /\ \E p \in present : w < p
  <2>1. w \in Nat /\ w \notin present /\ w < a
    BY <1>7, <1>8
  <2>2. a # 0 /\ a - 1 \in present /\ w # a - 1
    BY <1>7, <2>1
  <2>3. w < a - 1 /\ a - 1 <= MaxValue
    BY <1>1, <1>7, <2>1, <2>2
  <2> QED
    BY <1>1, <1>7, <2>1, <2>2, <2>3
<1>9. ASSUME NEW w \in 0..MaxValue, w \notin present, NEW p \in present, w < p PROVE w \in ValuesOf(runs)
  <2>1. p \in Nat /\ p < N
    BY <1>1
  <2>2. ~(a <= p)
    BY <1>7, <2>1
  <2>3. w < a
    BY <1>1, <1>7, <1>9, <2>1, <2>2
  <2> QED
    BY <1>7, <1>9, <2>3
<1>10. ValuesOf(runs) = {v \in 0..MaxValue : v \notin present /\ \E p \in present : v < p}
  BY <1>8, <1>9
<1> QED
  BY <1>7, <1>10 DEF runs

-----------------------------------------------------------------------------
(* The refusals in turn, over the ledger.                                  *)

\* What is left after each of n refusals.
IsLeft(left, runs, refusals, n) ==
  left = [k \in 0..n |-> IF k = 0 THEN runs ELSE TakeFirst(left[k - 1], refusals[k])]

\* The refusals can be taken in turn from any list of them.
LEMMA LeftRuns ==
  ASSUME NEW runs, NEW refusals, Len(refusals) \in Nat
  PROVE  \E left : IsLeft(left, runs, refusals, Len(refusals)) /\ TakeAll(runs, refusals) = left[Len(refusals)]
<1> DEFINE T == {m \in Nat : \E left : IsLeft(left, runs, refusals, m)}
<1>1. 0 \in T
  <2>1. IsLeft([k \in 0..0 |-> runs], runs, refusals, 0)
    BY DEF IsLeft
  <2> QED
    BY <2>1
<1>2. ASSUME NEW m \in T PROVE m + 1 \in T
  <2>1. PICK left : IsLeft(left, runs, refusals, m)
    OBVIOUS
  <2> DEFINE g == [k \in 0..(m + 1) |-> IF k = m + 1 THEN TakeFirst(left[m], refusals[m + 1]) ELSE left[k]]
  <2>2. \A k \in 0..(m + 1) : g[k] = IF k = 0 THEN runs ELSE TakeFirst(g[k - 1], refusals[k])
    BY <2>1 DEF IsLeft
  <2>3. IsLeft(g, runs, refusals, m + 1)
    BY <2>2 DEF IsLeft
  <2> QED
    BY <2>3
<1>3. T = Nat
  <2> HIDE DEF T
  <2>1. T \in SUBSET Nat
    BY DEF T
  <2> QED
    BY <1>1, <1>2, <2>1, NaturalInduction
<1>4. \E left : IsLeft(left, runs, refusals, Len(refusals))
  BY <1>3
<1> DEFINE last == CHOOSE left : IsLeft(left, runs, refusals, Len(refusals))
<1>5. IsLeft(last, runs, refusals, Len(refusals))
  BY <1>4
<1>6. TakeAll(runs, refusals) = last[Len(refusals)]
  BY DEF TakeAll, IsLeft
<1> QED
  BY <1>5, <1>6

\* Refusal after refusal, each takes the smallest value left below its own.
LEMMA LeftTakesSmallest ==
  ASSUME NEW runs, AreRuns(runs), NEW N \in Nat, NEW r \in [1..N -> Nat], NEW left, IsLeft(left, runs, r, N)
  PROVE  /\ TakesSmallest([k \in 0..N |-> ValuesOf(left[k])], ValuesOf(runs), r, N)
         /\ AreRuns(left[N])
<1> DEFINE T == {k \in 0..N : AreRuns(left[k])}
<1>1. left[0] = runs /\ \A k \in 1..N : left[k] = TakeFirst(left[k - 1], r[k])
  BY DEF IsLeft
<1>2. 0 \in T
  BY <1>1
<1>3. ASSUME NEW k \in T, k < N PROVE k + 1 \in T
  <2>1. k + 1 \in 1..N /\ k + 1 \in 0..N /\ (k + 1) - 1 = k /\ r[k + 1] \in Nat /\ AreRuns(left[k])
    BY <1>3
  <2>2. left[k + 1] = TakeFirst(left[k], r[k + 1])
    BY <1>1, <2>1
  <2>3. AreRuns(left[k + 1])
    BY <2>1, <2>2, TakeFirstTakes
  <2> QED
    BY <2>1, <2>3
<1>4. T = 0..N
  <2> HIDE DEF T
  <2>1. T \in SUBSET (0..N)
    BY DEF T
  <2> QED
    BY <1>2, <1>3, <2>1, BoundedInduction
<1> DEFINE values == [k \in 0..N |-> ValuesOf(left[k])]
<1>5. values[0] = ValuesOf(runs)
  BY <1>1
<1>6. ASSUME NEW k \in 1..N
      PROVE  \/ \E u \in values[k - 1] : u < r[k] /\ (\A w \in values[k - 1] : u <= w) /\ values[k] = values[k - 1] \ {u}
             \/ (\A w \in values[k - 1] : r[k] <= w) /\ values[k] = values[k - 1]
  <2>1. k - 1 \in 0..N /\ k \in 0..N /\ r[k] \in Nat
    OBVIOUS
  <2>2. AreRuns(left[k - 1]) /\ left[k] = TakeFirst(left[k - 1], r[k])
    BY <1>1, <1>4, <2>1
  <2>3. values[k - 1] = ValuesOf(left[k - 1]) /\ values[k] = ValuesOf(left[k])
    BY <2>1
  <2> HIDE DEF values
  <2> DEFINE before == left[k - 1]
             after == TakeFirst(before, r[k])
  <2>4. \/ \E u \in ValuesOf(before) : u < r[k] /\ (\A w \in ValuesOf(before) : u <= w) /\ ValuesOf(after) = ValuesOf(before) \ {u}
        \/ (\A w \in ValuesOf(before) : r[k] <= w) /\ ValuesOf(after) = ValuesOf(before)
    <3>1. AreRuns(before) /\ r[k] \in Nat
      BY <2>1, <2>2
    <3> HIDE DEF before
    <3> QED
      BY <3>1, TakeFirstTakes
  <2>5. values[k - 1] = ValuesOf(before) /\ values[k] = ValuesOf(after)
    BY <2>2, <2>3
  <2> HIDE DEF before, after
  <2> QED
    BY <2>4, <2>5
<1> HIDE DEF values
<1>8. AreRuns(left[N])
  <2>1. N \in T
    <3> HIDE DEF T
    <3> QED
      BY <1>4
  <2> QED
    BY <2>1
<1>7. TakesSmallest(values, ValuesOf(runs), r, N)
  BY <1>5, <1>6 DEF TakesSmallest
<1> QED
  BY <1>7, <1>8 DEF values

\* A sequence of events whose values are below the bound.
LedgerOK(events) ==
  /\ Len(events) \in Nat /\ DOMAIN events = 1..Len(events)
  /\ \A n \in DOMAIN events : events[n].sseq \in 0..MaxValue

\* Its values are below the bound, and its refusals finitely many.
LEMMA LedgerFacts ==
  ASSUME NEW events, LedgerOK(events)
  PROVE  /\ \A n \in DOMAIN events : events[n].sseq \in 0..MaxValue
         /\ Present(events) \subseteq 0..MaxValue
         /\ IsFiniteSet(Refusing(events)) /\ Refusing(events) \subseteq DOMAIN events /\ Cardinality(Refusing(events)) \in Nat
<1>2. \A n \in DOMAIN events : events[n].sseq \in 0..MaxValue
  BY DEF LedgerOK
<1>3. DOMAIN events = 1..Len(events) /\ Len(events) \in Nat
  BY DEF LedgerOK
<1>4. IsFiniteSet(DOMAIN events) /\ Refusing(events) \in SUBSET DOMAIN events
  BY <1>3, FS_Interval DEF Refusing
<1>5. IsFiniteSet(Refusing(events))
  BY <1>4, FS_Subset
<1>6. Present(events) \subseteq 0..MaxValue
  BY <1>2 DEF Present, Range
<1> QED
  BY <1>2, <1>4, <1>5, <1>6, FS_CardinalityType

\* How many refusals have a value up to v grows with v, from none to all.
LEMMA UpToGrows ==
  ASSUME NEW events, LedgerOK(events)
  PROVE  /\ \A v : RefusalsUpTo(events, v) \in 0..Cardinality(Refusing(events))
         /\ \A v, w \in Int : v <= w => RefusalsUpTo(events, v) <= RefusalsUpTo(events, w)
         /\ RefusalsUpTo(events, -1) = 0 /\ RefusalsUpTo(events, MaxValue) = Cardinality(Refusing(events))
<1> DEFINE Upto(v) == {n \in Refusing(events) : events[n].sseq <= v}
<1>1. /\ \A n \in Refusing(events) : events[n].sseq \in 0..MaxValue
      /\ IsFiniteSet(Refusing(events)) /\ Cardinality(Refusing(events)) \in Nat
  BY LedgerFacts
<1>2. ASSUME NEW v PROVE IsFiniteSet(Upto(v)) /\ Cardinality(Upto(v)) \in 0..Cardinality(Refusing(events))
  <2>1. Upto(v) \in SUBSET Refusing(events)
    OBVIOUS
  <2> HIDE DEF Upto
  <2>2. IsFiniteSet(Upto(v)) /\ Cardinality(Upto(v)) <= Cardinality(Refusing(events))
    BY <1>1, <2>1, FS_Subset
  <2>3. Cardinality(Upto(v)) \in Nat
    BY <2>2, FS_CardinalityType
  <2> QED
    BY <1>1, <2>2, <2>3
<1>3. ASSUME NEW v \in Int, NEW w \in Int, v <= w PROVE Cardinality(Upto(v)) <= Cardinality(Upto(w))
  <2>1. Upto(v) \in SUBSET Upto(w)
    BY <1>1, <1>3
  <2> HIDE DEF Upto
  <2> QED
    BY <1>2, <2>1, FS_Subset
<1>4. Upto(-1) = {} /\ Upto(MaxValue) = Refusing(events)
  BY <1>1, AccountingAssumption
<1>5. \A v : RefusalsUpTo(events, v) = Cardinality(Upto(v))
  BY DEF RefusalsUpTo
<1> HIDE DEF Upto
<1> QED
  BY <1>2, <1>3, <1>4, <1>5, FS_EmptySet

\* The k-th refusal: fewer than k lie below it, and at least k up to it.
LEMMA RefusalAt ==
  ASSUME NEW events, LedgerOK(events), NEW k \in 1..Cardinality(Refusing(events))
  PROVE  Refusals(events)[k] \in 0..MaxValue /\ RefusalsUpTo(events, Refusals(events)[k] - 1) < k /\ k <= RefusalsUpTo(events, Refusals(events)[k])
<1> DEFINE T == {v \in 0..MaxValue : k <= RefusalsUpTo(events, v)}
<1>1. MaxValue \in T /\ T \in SUBSET Nat
  BY LedgerFacts, UpToGrows, AccountingAssumption
<1>2. PICK v \in T : \A w \in T : v <= w
  <2> HIDE DEF T
  <2> QED
    BY <1>1, LeastNumber
<1>3. RefusalsUpTo(events, v - 1) < k
  <2>1. CASE v = 0
    <3>1. v - 1 = -1
      BY <2>1
    <3> QED
      BY <3>1, UpToGrows
  <2>2. CASE v # 0
    <3>1. v - 1 \in 0..MaxValue /\ ~(v <= v - 1)
      BY <1>2, <2>2, AccountingAssumption
    <3>2. ~(k <= RefusalsUpTo(events, v - 1))
      BY <1>2, <3>1
    <3>3. RefusalsUpTo(events, v - 1) \in Nat
      BY UpToGrows, LedgerFacts
    <3> QED
      BY <3>2, <3>3
  <2> QED
    BY <2>1, <2>2
<1>4. \E w \in 0..MaxValue : RefusalsUpTo(events, w - 1) < k /\ k <= RefusalsUpTo(events, w)
  BY <1>2, <1>3
<1>5. Refusals(events)[k] = CHOOSE w \in 0..MaxValue : RefusalsUpTo(events, w - 1) < k /\ k <= RefusalsUpTo(events, w)
  BY DEF Refusals
<1> QED
  BY <1>4, <1>5

\* The refusals are sorted ascending.
LEMMA RefusalsAscend ==
  ASSUME NEW events, LedgerOK(events)
  PROVE  AreAscending(Refusals(events), Cardinality(Refusing(events))) /\ Len(Refusals(events)) = Cardinality(Refusing(events))
<1> DEFINE N == Cardinality(Refusing(events))
<1>1. N \in Nat /\ MaxValue \in Nat
  BY LedgerFacts, AccountingAssumption
<1>2. Refusals(events) \in [1..N -> Nat]
  <2>1. Refusals(events) = [k \in 1..N |-> Refusals(events)[k]]
    BY DEF Refusals
  <2>2. \A k \in 1..N : Refusals(events)[k] \in Nat
    BY RefusalAt
  <2> QED
    BY <2>1, <2>2
<1>3. ASSUME NEW i \in 1..N, NEW k \in 1..N, i <= k PROVE Refusals(events)[i] <= Refusals(events)[k]
  <2> DEFINE x == Refusals(events)[i]
             y == Refusals(events)[k]
  <2>1. /\ x \in 0..MaxValue /\ RefusalsUpTo(events, x - 1) < i /\ y \in 0..MaxValue /\ k <= RefusalsUpTo(events, y)
    BY RefusalAt
  <2> HIDE DEF x, y
  <2>2. RefusalsUpTo(events, x - 1) \in Nat /\ RefusalsUpTo(events, y) \in Nat
    BY UpToGrows, <1>1
  <2>3. ASSUME y <= x - 1 PROVE FALSE
    <3>1. RefusalsUpTo(events, y) <= RefusalsUpTo(events, x - 1)
      BY <1>1, <2>1, <2>3, UpToGrows
    <3> QED
      BY <1>1, <1>3, <2>1, <2>2, <3>1
  <2>4. x <= y
    BY <1>1, <2>1, <2>3
  <2> QED
    BY <2>4 DEF x, y
<1>4. Len(Refusals(events)) = N
  <2>1. DOMAIN Refusals(events) = 1..N
    BY <1>2
  <2>2. Refusals(events) \in Seq(Nat)
    BY <1>1, <1>2
  <2> QED
    BY <1>1, <2>1, <2>2
<1> QED
  BY <1>2, <1>3, <1>4 DEF AreAscending

\* RefusalsFrom counts the refusals that lie above a value in the sorted list.
LEMMA AboveAll ==
  ASSUME NEW events, LedgerOK(events), NEW v \in 0..MaxValue
  PROVE  Above(Refusals(events), Cardinality(Refusing(events)), v) = RefusalsFrom(events, v)
<1> DEFINE N == Cardinality(Refusing(events))
           c == RefusalsUpTo(events, v)
<1>1. N \in Nat /\ c \in 0..N /\ MaxValue \in Nat /\ IsFiniteSet(Refusing(events))
  BY LedgerFacts, UpToGrows, AccountingAssumption
<1>2. ASSUME NEW k \in 1..N PROVE Refusals(events)[k] > v <=> k > c
  <2> DEFINE x == Refusals(events)[k]
  <2>1. x \in 0..MaxValue /\ RefusalsUpTo(events, x - 1) < k /\ k <= RefusalsUpTo(events, x)
    BY RefusalAt
  <2> HIDE DEF x
  <2>2. RefusalsUpTo(events, x - 1) \in Nat /\ RefusalsUpTo(events, x) \in Nat
    BY UpToGrows, <1>1
  <2>3. CASE x <= v
    <3>1. RefusalsUpTo(events, x) <= c
      BY <1>1, <2>1, <2>3, UpToGrows
    <3>2. ~(x > v) /\ ~(k > c)
      BY <1>1, <2>1, <2>2, <2>3, <3>1
    <3> QED
      BY <3>2 DEF x
  <2>4. CASE ~(x <= v)
    <3>1. v <= x - 1 /\ x - 1 \in Int /\ v \in Int
      BY <1>1, <2>1, <2>4
    <3>2. c <= RefusalsUpTo(events, x - 1)
      BY <3>1, UpToGrows
    <3>3. x > v /\ k > c
      BY <1>1, <2>1, <2>2, <2>4, <3>2
    <3> QED
      BY <3>3 DEF x
  <2> QED
    BY <2>3, <2>4
<1>3. Above(Refusals(events), N, v) = N - c
  <2>1. {k \in 1..N : Refusals(events)[k] > v} = {k \in 1..N : k > c}
    BY <1>2
  <2> HIDE DEF N, c
  <2>2. {k \in 1..N : k > c} = (c + 1)..N
    BY <1>1
  <2>3. Cardinality((c + 1)..N) = N - c
    <3>1. c + 1 \in Int /\ N \in Int
      BY <1>1
    <3>2. Cardinality((c + 1)..N) = IF c + 1 > N THEN 0 ELSE N - (c + 1) + 1
      BY <3>1, FS_Interval
    <3> QED
      BY <1>1, <3>2
  <2> QED
    BY <2>1, <2>2, <2>3 DEF Above
<1>4. RefusalsFrom(events, v) = N - c
  <2> DEFINE Low == {n \in Refusing(events) : events[n].sseq <= v}
             High == {n \in Refusing(events) : events[n].sseq > v}
  <2>1. High = Refusing(events) \ Low /\ Refusing(events) \cap Low = Low
    BY LedgerFacts, <1>1
  <2>2. Cardinality(Refusing(events) \ Low) = Cardinality(Refusing(events)) - Cardinality(Refusing(events) \cap Low)
    BY <1>1, FS_Difference
  <2> QED
    BY <2>1, <2>2 DEF RefusalsFrom, RefusalsUpTo
<1> QED
  BY <1>3, <1>4

\* Of every ledger: the refusals account for as many of the missing values as they can, and for no others.
LEMMA LedgerAccounted ==
  ASSUME NEW events, LedgerOK(events)
  PROVE  ExplainsTheMost(events) /\ ExplainsOnlyRefused(events) /\ AreRuns(UnaccountedRuns(events))
<1> DEFINE N == Cardinality(Refusing(events))
<1>1. N \in Nat /\ MaxValue \in Nat /\ AreAscending(Refusals(events), N) /\ Len(Refusals(events)) = N /\ Refusals(events) \in [1..N -> Nat]
  BY LedgerFacts, AccountingAssumption, RefusalsAscend DEF AreAscending
<1>2. AreRuns(MissingRuns(events)) /\ ValuesOf(MissingRuns(events)) = Missing(events) /\ Missing(events) \in SUBSET (0..MaxValue)
  BY LedgerFacts, MissingAreRuns DEF MissingRuns, Missing
<1>3. PICK left : IsLeft(left, MissingRuns(events), Refusals(events), N) /\ UnaccountedRuns(events) = left[N]
  BY <1>1, LeftRuns DEF UnaccountedRuns
<1> DEFINE values == [k \in 0..N |-> ValuesOf(left[k])]
<1>4. TakesSmallest(values, Missing(events), Refusals(events), N) /\ AreRuns(left[N])
  BY <1>1, <1>2, <1>3, LeftTakesSmallest
<1>5. N \in 0..N /\ values[N] = Unaccounted(events)
  BY <1>1, <1>3 DEF Unaccounted
<1> HIDE DEF values, N
<1>6. Unaccounted(events) \subseteq Missing(events)
  BY <1>1, <1>2, <1>4, <1>5, LeftIsAbove
<1>7. ExplainedBy(Missing(events) \ Unaccounted(events), Refusals(events), N)
  BY <1>1, <1>2, <1>4, <1>5, TakenExplained
<1>8. \A S \in SUBSET Missing(events) : ExplainedBy(S, Refusals(events), N) => Cardinality(S) <= Cardinality(Missing(events) \ Unaccounted(events))
  BY <1>1, <1>2, <1>4, <1>5, TakenMost
<1>9. ASSUME NEW S \in SUBSET Missing(events) PROVE Explainable(events, S) <=> ExplainedBy(S, Refusals(events), N)
  <2>1. \A v \in S : Above(Refusals(events), N, v) = RefusalsFrom(events, v)
    BY <1>2, AboveAll DEF N
  <2> QED
    BY <2>1 DEF Explainable, ExplainedBy, UpFrom
<1>10. ExplainsTheMost(events)
  BY <1>8, <1>9 DEF ExplainsTheMost
<1>11. ExplainsOnlyRefused(events)
  <2>1. Missing(events) \ Unaccounted(events) \in SUBSET Missing(events)
    OBVIOUS
  <2> QED
    BY <1>6, <1>7, <1>9, <2>1 DEF ExplainsOnlyRefused
<1> QED
  BY <1>3, <1>4, <1>10, <1>11

\* The sealed events of SignerLedger.
LEMMA SealedEventsOK == ledger \in Seq(SealedEvents) => LedgerOK(ledger)
<1> SUFFICES ASSUME ledger \in Seq(SealedEvents) PROVE LedgerOK(ledger)
  OBVIOUS
<1>1. \A n \in DOMAIN ledger : ledger[n] \in SealedEvents
  OBVIOUS
<1>2. \A n \in DOMAIN ledger : ledger[n].sseq \in 0..MaxValue
  BY <1>1 DEF SealedEvents
<1> QED
  BY <1>2 DEF LedgerOK

\* Whatever is sealed of one key and session, in any order, the refusals in it explain as many missing values as any
\* assignment of them to lower values could, and none that no refusal lies above: unaccounted_signer_seq reports no
\* honest refusal as a suppressed event, and no suppressed event as refused.
THEOREM AccountingCorrect == LedgerSpec => []AccountsForRefusals
<1> DEFINE Inv == ledger \in Seq(SealedEvents)
<1>1. LedgerInit => Inv
  BY DEF LedgerInit
<1>2. Inv /\ [LedgerNext]_ledger => Inv'
  BY DEF LedgerNext
<1>3. Inv => AccountsForRefusals
  BY SealedEventsOK, LedgerAccounted DEF AccountsForRefusals
<1> QED
  BY <1>1, <1>2, <1>3, PTL DEF LedgerSpec

-----------------------------------------------------------------------------
(* A sealed chain: no false alarm, and no missing value passed over. *)

\* A set of which no more is left without some of its elements never had them.
LEMMA NothingTaken ==
  ASSUME NEW S, IsFiniteSet(S), NEW T \in SUBSET S, Cardinality(S) <= Cardinality(S \ T)
  PROVE  T = {}
<1>1. Cardinality(S) \in Nat /\ IsFiniteSet(S \ T) /\ S \ T \in SUBSET S
  BY FS_CardinalityType, FS_Subset
<1>2. Cardinality(S \ T) <= Cardinality(S) /\ Cardinality(S \ T) \in Nat
  BY <1>1, FS_Subset, FS_CardinalityType
<1>3. S \ T = S
  BY <1>1, <1>2, FS_Subset
<1> QED
  BY <1>3

\* No gap is reported exactly when the refusals can explain every missing value.
LEMMA GapsReported ==
  ASSUME NEW s, LedgerOK(EventsOf(s))
  PROVE  GapIssues(s) = {} <=> Explainable(EventsOf(s), Missing(EventsOf(s)))
<1>1. PICK events : events = EventsOf(s) /\ LedgerOK(events)
  OBVIOUS
<1> DEFINE left == UnaccountedRuns(events)
           missing == Missing(events)
           un == Unaccounted(events)
<1>2. AreRuns(left) /\ un = ValuesOf(left)
  BY <1>1, LedgerAccounted DEF Unaccounted
<1>3. un \in SUBSET missing /\ Explainable(events, missing \ un)
  BY <1>1, LedgerAccounted DEF ExplainsOnlyRefused
<1>4. Explainable(events, missing) => Cardinality(missing) <= Cardinality(missing \ un)
  BY <1>1, LedgerAccounted DEF ExplainsTheMost
<1>5. IsFiniteSet(missing)
  <2>1. missing \in SUBSET (0..MaxValue) /\ IsFiniteSet(0..MaxValue)
    BY AccountingAssumption, FS_Interval DEF Missing
  <2> HIDE DEF missing
  <2> QED
    BY <2>1, FS_Subset
<1>6. GapIssues(s) = {} <=> left = <<>>
  <2>1. left \in Seq(Nat \X Nat) /\ GapIssues(s) = {<<0, "signer-seq-gap">> : run \in Range(left)}
    BY <1>1, <1>2 DEF GapIssues, AreRuns
  <2> HIDE DEF left
  <2>2. GapIssues(s) = {} <=> DOMAIN left = {}
    BY <2>1 DEF Range
  <2>3. DOMAIN left = {} <=> left = <<>>
    BY <2>1
  <2> QED
    BY <2>2, <2>3
<1>7. left = <<>> <=> un = {}
  <2> HIDE DEF left, un
  <2>1. CASE left = <<>>
    BY <1>2, <2>1, RunValues
  <2>2. CASE left # <<>>
    BY <1>2, <2>2, FirstIsSmallest
  <2> QED
    BY <2>1, <2>2
<1>8. un = {} <=> Explainable(events, missing)
  <2> HIDE DEF un, missing
  <2>1. CASE un = {}
    <3>1. missing \ un = missing
      BY <2>1
    <3> QED
      BY <1>3, <2>1, <3>1
  <2>2. ASSUME Explainable(events, missing) PROVE un = {}
    BY <1>3, <1>4, <1>5, <2>2, NothingTaken
  <2> QED
    BY <2>1, <2>2
<1> QED
  BY <1>1, <1>6, <1>7, <1>8

\* The values of a sealed chain are below the bound.
LEMMA SealedLedger ==
  ASSUME ChainInv
  PROVE  LedgerOK(EventsOf(sealed))
<1>1. Chain(sealed, SignaturesOf(sealed)) /\ Len(sealed) \in Nat /\ DOMAIN sealed = 1..Len(sealed)
  BY SealedChain, SeqLength DEF ChainInv, SealedWell
<1>2. \A n \in 1..Len(sealed) : sealed[n].event \in Events
  BY <1>1 DEF Chain, WellMade
<1>3. \A n \in 1..Len(sealed) : sealed[n].event.sseq \in 0..MaxValue
  BY <1>2, VerifyAssumption
<1>4. DOMAIN EventsOf(sealed) = 1..Len(sealed) /\ Len(EventsOf(sealed)) = Len(sealed)
  <2>1. DOMAIN EventsOf(sealed) = 1..Len(sealed)
    BY <1>1 DEF EventsOf
  <2>2. EventsOf(sealed) \in Seq(Events)
    BY <1>1, <1>2 DEF EventsOf
  <2> QED
    BY <1>1, <2>1, <2>2
<1>5. \A n \in 1..Len(sealed) : EventsOf(sealed)[n] = sealed[n].event
  BY <1>1 DEF EventsOf
<1> QED
  BY <1>1, <1>3, <1>4, <1>5 DEF LedgerOK

\* HonestChainVerifies: of whatever a conforming host seals, verify_chain finds nothing, countersignatures required and
\* its own digest anchored, exactly when the refusals sealed in it can explain every value missing from it.
THEOREM HonestChainCorrect == Spec => []HonestChainVerifies
<1>1. ASSUME ChainInv PROVE HonestChainVerifies
  <2> SUFFICES ASSUME alterations <= 0
               PROVE  OkAgainst(records, Digest(sealed), TRUE) <=> Explainable(EventsOf(sealed), Missing(EventsOf(sealed)))
    BY DEF HonestChainVerifies
  <2>1. records = sealed /\ Passed(sealed, TRUE).issues = {}
    BY <1>1, SealedPasses DEF ChainInv
  <2>2. Ok(sealed, TRUE) <=> GapIssues(sealed) = {}
    BY <2>1, OkIsBoth
  <2>3. GapIssues(sealed) = {} <=> Explainable(EventsOf(sealed), Missing(EventsOf(sealed)))
    BY <1>1, SealedLedger, GapsReported
  <2> QED
    BY <2>1, <2>2, <2>3 DEF OkAgainst
<1> QED
  BY <1>1, ChainInvCorrect, PTL
===============================================================================
