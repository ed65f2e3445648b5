---------------------------- MODULE AtomicApply ----------------------------
(***************************************************************************)
(* What Engine::apply (crates/core/src/engine/executor.rs) promises to     *)
(* whoever waits for it: a change that was asked for is made as a whole,   *)
(* or refused, or taken back but for what its outcome lists; changes are   *)
(* made one after another; and a change that dies half-way is the one way  *)
(* an account is left in a state nobody asked for, with every login that   *)
(* should be there in front of its route all the same.                     *)
(***************************************************************************)
CONSTANTS
  Tasks, Keys, None,
  Accounts, AllIntents,  \* what an account may be, and what may be asked for
  Reached(_, _, _),      \* intent, account before and after: the change is there
  Exposed(_, _, _, _),   \* intent, account before and after, route: it lacks its login
  Changes(_, _),         \* accounts before and after: the things that differ
  Unlisted(_)            \* account before: the things that may differ unsaid

VARIABLES
  account,  \* what Cloudflare holds
  intent,   \* what each change asks for
  outcome,  \* how it ended
  listed,   \* the leftovers its outcome lists
  unheard   \* what a call whose answer was lost may have changed

vars == <<account, intent, outcome, listed, unheard>>

Init ==
  /\ account \in Accounts
  /\ intent = [t \in Tasks |-> None]
  /\ outcome = [t \in Tasks |-> "idle"]
  /\ listed = [t \in Tasks |-> {}]
  /\ unheard = [t \in Tasks |-> {}]

Ends(t, how) ==
  /\ outcome[t] = "asked"
  /\ outcome' = [outcome EXCEPT ![t] = how]
  /\ \A u \in Tasks \ {t} : listed'[u] = listed[u] /\ unheard'[u] = unheard[u]
  /\ UNCHANGED intent

Sheltered(t) ==
  listed'[t] = {} /\ unheard'[t] = {} =>
    \A k \in Keys : ~Exposed(intent[t], account, account', k)

Ask(t) ==
  /\ outcome[t] = "idle"
  /\ outcome' = [outcome EXCEPT ![t] = "asked"]
  /\ \E i \in AllIntents : intent' = [intent EXCEPT ![t] = i]
  /\ UNCHANGED <<account, listed, unheard>>

Refuse(t) == Ends(t, "refused") /\ UNCHANGED <<account, listed, unheard>>

\* Outcome::Applied.
Apply(t) ==
  /\ Ends(t, "applied")
  /\ Reached(intent[t], account, account')
  /\ Sheltered(t)
  /\ UNCHANGED <<listed, unheard>>

\* Outcome::RolledBack, or PartiallyApplied with its leftovers.
TakeBack(t) ==
  /\ Ends(t, IF listed'[t] = {} THEN "rolledBack" ELSE "partly")
  /\ Changes(account, account') \subseteq listed'[t] \cup unheard'[t] \cup Unlisted(account)
  /\ Sheltered(t)

\* The process dies with every change asked of it, at most one of which has begun.
Die ==
  /\ outcome' # outcome
  /\ \A t \in Tasks : outcome'[t] # outcome[t] => outcome[t] = "asked" /\ outcome'[t] = "dead"
  /\ account' = account \/ \E t \in Tasks : outcome'[t] # outcome[t] /\ Sheltered(t)
  /\ \A t \in Tasks : outcome'[t] = outcome[t] =>
       listed'[t] = listed[t] /\ unheard'[t] = unheard[t]
  /\ UNCHANGED intent

Next ==
  \/ \E t \in Tasks : Ask(t) \/ Refuse(t) \/ Apply(t) \/ TakeBack(t)
  \/ Die

Spec == Init /\ [][Next]_vars
=============================================================================
