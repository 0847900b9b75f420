------------------------------- MODULE AuditLog -------------------------------
(***************************************************************************)
(* What an audit host promises of a partition, without locks, writes in    *)
(* flight or restarts: one append-only log in which every operation has at *)
(* most one attempt and one terminal outcome, in that order, no event      *)
(* twice, and nobody is told an event is recorded that is not.             *)
(***************************************************************************)
EXTENDS AuditEvents

VARIABLES
  log,   \* the events recorded, in order
  told   \* the events whose tools were told they are recorded

logVars == <<log, told>>

Recorded == Range(log)

\* An attempt's id is new to the log, and its operation has not concluded.
AttemptAdmissible(e) ==
  /\ ~\E f \in Recorded : IsAttempt(f) /\ f.id = e.id
  /\ ~\E f \in Recorded : SameOperation(f, e)

\* An outcome is its operation's only one, and only a refusal goes without an attempt.
OutcomeAdmissible(e) ==
  /\ ~\E f \in Recorded : SameOperation(f, e) /\ ~IsAttempt(f)
  /\ e.outcome = "aborted" \/ \E f \in Recorded : SameOperation(f, e) /\ IsAttempt(f)

Admissible(e) == IF IsAttempt(e) THEN AttemptAdmissible(e) ELSE OutcomeAdmissible(e)

Record(e) ==
  /\ Admissible(e)
  /\ log' = Append(log, e)
  /\ told' \in {told, told \union {e}}

Tell(e) ==
  /\ e \in Recorded
  /\ told' = told \union {e}
  /\ UNCHANGED log

Init == log = <<>> /\ told = {}

Next == \E e \in Events : Record(e) \/ Tell(e)

Spec == Init /\ [][Next]_logVars
=============================================================================
