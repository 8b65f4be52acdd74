-------------------------- MODULE ExecutorContract --------------------------
(***************************************************************************)
(* What an executor promises of one attempt: the report it returns is true *)
(* of what it did outside, and what may have happened is never offered for *)
(* a retry.                                                                *)
(*   src/src/domain/execution/executor-contract.ts                         *)
(***************************************************************************)
VARIABLES
  report,  \* the outcome returned, "none" while the attempt runs
  retry,   \* retryAllowed of that outcome
  touched  \* the attempt changed something outside

Reports == {"succeeded", "failed", "blocked", "not_executed", "ambiguous"}

Init == report = "none" /\ retry = FALSE /\ touched = FALSE

Act == report = "none" /\ touched' = TRUE /\ UNCHANGED <<report, retry>>

\* The last call of an attempt may itself act.  validateExecutorResult refuses
\* an ambiguous result that may be retried and a live one "not executed".
Return(r) ==
  /\ report = "none" /\ report' = r
  /\ touched' \in {touched, TRUE}
  /\ r = "succeeded" => touched'
  /\ r \in {"failed", "blocked", "not_executed"} => ~touched'
  /\ retry' \in {FALSE, r = "failed"}

\* Another attempt, on another approval.
Again ==
  report # "none" /\ report' = "none" /\ retry' = FALSE /\ touched' = FALSE

Next == Act \/ Again \/ \E r \in Reports : Return(r)

Spec == Init /\ [][Next]_<<report, retry, touched>>
=============================================================================
