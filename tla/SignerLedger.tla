----------------------------- MODULE SignerLedger -----------------------------
(***************************************************************************)
(* The accounting taken alone: the sealed events of one key and session    *)
(* (SignerAccounting), built one event at a time, in any order and with    *)
(* any values, whether or not a host would seal them.                      *)
(***************************************************************************)
EXTENDS SignerAccounting

CONSTANTS
  Ids,         \* operation ids
  MaxSealed    \* bound: the events sealed

ASSUME LedgerAssumption == MaxSealed \in Nat

VARIABLE ledger  \* the sealed events, in chain order

\* `refusing`: the reason is one of _REFUSAL_REASONS.
SealedEvents == [id: Ids, sseq: 0..MaxValue, outcome: {"attempted", "success", "aborted"}, refusing: BOOLEAN]

LedgerInit == ledger = <<>>

LedgerNext ==
  /\ Len(ledger) < MaxSealed
  /\ \E e \in SealedEvents : (e.refusing => e.outcome = "aborted") /\ ledger' = Append(ledger, e)

LedgerSpec == LedgerInit /\ [][LedgerNext]_ledger

-----------------------------------------------------------------------------
(* Properties.                                                             *)

\* The sealed refusals account for as many missing values as any assignment of them to smaller values could, and
\* for no others (unaccounted_signer_seq).
AccountsForRefusals == ExplainsTheMost(ledger) /\ ExplainsOnlyRefused(ledger)

===============================================================================
