-------------------------- MODULE EngineRefinement --------------------------
(***************************************************************************)
(* The pipeline of Engine keeps the promise of AtomicApply: the mapping    *)
(* from calls to Cloudflare to changes made as one step.                   *)
(***************************************************************************)
EXTENDS Engine

Awaited(t) == pc[t] \in Applying

\* What an observer who waits for the ends of changes sees: while one is under way the
\* account is still the one it observed, and nothing is said of it.
Seen == IF \E t \in Tasks : pc[t] \in Running
        THEN start[CHOOSE t \in Tasks : pc[t] \in Running] ELSE account
Outcomes == [t \in Tasks |-> IF Awaited(t) THEN "asked" ELSE pc[t]]
Lists    == [t \in Tasks |-> IF Awaited(t) THEN {} ELSE left[t]]
Unheards == [t \in Tasks |-> IF Awaited(t) THEN {} ELSE unsure[t]]

Promise == INSTANCE AtomicApply WITH
  account <- Seen, outcome <- Outcomes, listed <- Lists, unheard <- Unheards

\* To its user a change is one step: all of it, or nothing but what it lists and what the
\* code never lists (Unlisted, in Planner), however its calls, rollbacks and crashes fall
\* ("Changes to one account are serialised",
\* executor.rs:1019, and the outcomes of executor.rs:187-213).
Implements == Promise!Spec
=============================================================================
