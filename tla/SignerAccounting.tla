--------------------------- MODULE SignerAccounting ---------------------------
(***************************************************************************)
(* unaccounted_signer_seq (verify.py): which signer_seq values of one key  *)
(* and session the ledger neither holds nor explains.  A refused event     *)
(* leaves its value out of the ledger; a sealed refusal (an `aborted`      *)
(* outcome, host-rejected or host-unavailable, of no sealed attempt)       *)
(* explains one value below its own.  The code keeps the missing values as *)
(* ascending runs and takes from the first.  `events` are the sealed       *)
(* events of one key and session, in chain order.                          *)
(***************************************************************************)
EXTENDS Integers, Sequences, FiniteSets, Functions

CONSTANT
  MaxValue  \* bound: the largest signer_seq

ASSUME AccountingAssumption == MaxValue \in Nat

-----------------------------------------------------------------------------
(* What the code computes.                                                 *)

Present(events) == {e.sseq : e \in Range(events)}

\* _missing_runs: one pass over the values of a set in ascending order, with the value that should follow.
RunsBelow(present) ==
  LET below[v \in 0..(MaxValue + 1)] ==  \* after the values below v
        IF v = 0 THEN [runs |-> <<>>, following |-> 0]
        ELSE IF v - 1 \notin present THEN below[v - 1]
        ELSE [runs |-> IF v - 1 > below[v - 1].following
                       THEN Append(below[v - 1].runs, <<below[v - 1].following, v - 2>>) ELSE below[v - 1].runs,
              following |-> v]
  IN below[MaxValue + 1]

MissingRuns(events) == RunsBelow(Present(events)).runs

\* An attempt of the same operation was sealed before it.
Correlated(events, n) == \E m \in 1..(n - 1) : events[m].id = events[n].id /\ events[m].outcome = "attempted"

Refuses(events, n) == events[n].outcome = "aborted" /\ events[n].refusing /\ ~Correlated(events, n)

Refusing(events) == {n \in DOMAIN events : Refuses(events, n)}

\* How many refusals have a value up to v.
RefusalsUpTo(events, v) == Cardinality({n \in Refusing(events) : events[n].sseq <= v})

\* The refusals from the largest value down.
RefusalsDescending(events) ==
  [k \in 1..Cardinality(Refusing(events)) |->
     CHOOSE v \in 0..MaxValue : LET above(w) == Cardinality(Refusing(events)) - RefusalsUpTo(events, w)
                                IN above(v) < k /\ k <= above(v - 1)]

\* The values of the refusals, ascending; a value sealed twice counts twice.
Refusals(events) ==
  [k \in 1..Cardinality(Refusing(events)) |->
     CHOOSE v \in 0..MaxValue : RefusalsUpTo(events, v - 1) < k /\ k <= RefusalsUpTo(events, v)]

\* A refusal takes the first value of the first run, if that is below its own.
TakeFirst(runs, refusal) ==
  IF runs = <<>> \/ runs[1][1] >= refusal THEN runs
  ELSE IF runs[1][1] = runs[1][2] THEN Tail(runs)
  ELSE [runs EXCEPT ![1] = <<runs[1][1] + 1, runs[1][2]>>]

\* Every refusal in turn, from a list of them.
TakeAll(runs, refusals) ==
  LET left[k \in 0..Len(refusals)] == IF k = 0 THEN runs ELSE TakeFirst(left[k - 1], refusals[k])
  IN left[Len(refusals)]

UnaccountedRuns(events) == TakeAll(MissingRuns(events), Refusals(events))

-----------------------------------------------------------------------------
(* What it stands for.                                                     *)

Missing(events) == {v \in 0..MaxValue : v \notin Present(events) /\ \E p \in Present(events) : v < p}

ValuesOf(runs) == UNION {runs[k][1]..runs[k][2] : k \in DOMAIN runs}

Unaccounted(events) == ValuesOf(UnaccountedRuns(events))

RefusalsFrom(events, v) == Cardinality({n \in Refusing(events) : events[n].sseq > v})

-----------------------------------------------------------------------------
(* What it is to account for.                                              *)

\* A group of missing values can be explained together exactly when, for each v in it, enough refusals
\* lie above the values from v up.
Explainable(events, S) ==
  \A v \in S : Cardinality({w \in S : w >= v}) <= RefusalsFrom(events, v)

\* Taking the smallest value first explains as many missing values as any other assignment of refusals
\* to smaller values could, so no honest refusal is ever reported as a suppressed event for the order.
ExplainsTheMost(events) ==
  \A S \in SUBSET Missing(events) :
    Explainable(events, S) => Cardinality(S) <= Cardinality(Missing(events) \ Unaccounted(events))

\* And it explains no value no refusal lies above: what is explained could be.
ExplainsOnlyRefused(events) ==
  Unaccounted(events) \subseteq Missing(events) /\ Explainable(events, Missing(events) \ Unaccounted(events))
===============================================================================
