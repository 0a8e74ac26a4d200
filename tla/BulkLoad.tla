----------------------------- MODULE BulkLoad ------------------------------
(***************************************************************************)
(* What a source-to-target load promises, whatever strategy executes it:   *)
(* rows reach the target in batches, no row of the source is written       *)
(* twice, and the load ends in one verdict: it returned a row count that   *)
(* does not exceed what was written, or it raised.  A batch may still land *)
(* after the verdict.                                                      *)
(***************************************************************************)
EXTENDS Naturals, FiniteSets

CONSTANT Row

VARIABLES
  written,   \* how many copies of each source row the target holds
  verdict,   \* "none", "returned" or "raised"
  reported   \* the row count returned

vars == <<written, verdict, reported>>

Landed == {r \in Row : written[r] > 0}

Init ==
  /\ written = [r \in Row |-> 0]
  /\ verdict = "none"
  /\ reported = 0

Land(batch) ==
  /\ batch \cap Landed = {}
  /\ written' = [r \in Row |-> IF r \in batch THEN 1 ELSE written[r]]
  /\ UNCHANGED <<verdict, reported>>

Return(n) ==
  /\ verdict = "none"
  /\ n <= Cardinality(Landed)
  /\ verdict' = "returned" /\ reported' = n
  /\ UNCHANGED written

Raise ==
  /\ verdict = "none"
  /\ verdict' = "raised"
  /\ UNCHANGED <<written, reported>>

Next ==
  \/ \E batch \in SUBSET Row : Land(batch)
  \/ \E n \in 0 .. Cardinality(Row) : Return(n)
  \/ Raise

Spec == Init /\ [][Next]_vars
=============================================================================
