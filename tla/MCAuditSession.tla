---------------------------- MODULE MCAuditSession ----------------------------
(***************************************************************************)
(* Two concurrent actions of one call, over a durable host.                *)
(***************************************************************************)
EXTENDS AuditSession

\* Everything two actions may emit: an attempt, and one of the three outcomes.
CallEvents ==
  [session: {"s1"}, id: {"a", "b"}, outcome: Outcomes, key: {"k1"}, sseq: 0..MaxSignerSeq,
   sig: {"verifies"}, wellformed: {TRUE}, body: {0}]

\* The host is driven by the call alone.
NoArrivals == {}
=============================================================================
