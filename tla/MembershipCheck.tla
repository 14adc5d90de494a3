-------------------------- MODULE MembershipCheck --------------------------
(***************************************************************************)
(* What the agent's checks promise the handlers: CheckTenantIdExist,       *)
(* CheckNamespaceIsolation and CheckNamespaceFromClassifier all ask        *)
(* whether an item is in a list that an upstream service keeps and         *)
(* changes.  There is no cache here, no call and no buffer, only what an   *)
(* answer may mean:                                                        *)
(*  - an item is admitted only if the upstream has listed it since this    *)
(*    process started (it need not be listed any more);                    *)
(*  - it is denied only if it was missing from the list at some moment     *)
(*    while it was being asked for;                                        *)
(*  - and, where the code does not do better, the exceptions Stray and     *)
(*    Misread.                                                             *)
(* TenantManagerClient and ControlPlaneClient implement this module; the   *)
(* controller's module is built on it.                                     *)
(***************************************************************************)


CONSTANTS Callers,     \* the goroutines serving requests
          Items,       \* what can be asked for: tenants, or namespaces
          StrayItems,  \* the items that may be admitted though never listed
          Nil

VARIABLES listed,   \* the items the upstream lists now
          ever,     \* those it has listed since this process started
          state,    \* how far each caller's check is
          item,     \* what it asks for
          absent    \* the items missing at some moment of its check

vars == <<listed, ever, state, item, absent>>

Answers == {"allowed", "strayed", "denied", "failed"}

TypeOK ==
  /\ listed \in SUBSET Items
  /\ ever \in SUBSET Items
  /\ state \in [Callers -> {"idle", "asking"} \cup Answers]
  /\ item \in [Callers -> Items \cup {Nil}]
  /\ absent \in [Callers -> SUBSET Items]

Init ==
  /\ listed \in SUBSET Items
  /\ ever = listed
  /\ state = [c \in Callers |-> "idle"]
  /\ item = [c \in Callers |-> Nil]
  /\ absent = [c \in Callers |-> {}]

-----------------------------------------------------------------------------

Asking(c) == state[c] = "asking"
Busy == {c \in Callers : state[c] # "idle"}

\* The upstream's list changes, under every check that is going on.
Publish ==
  /\ listed' \in SUBSET Items
  /\ ever' = ever \cup listed'
  /\ absent' = [c \in Callers |-> IF c \in Busy
                                  THEN absent[c] \cup (Items \ listed')
                                  ELSE absent[c]]
  /\ UNCHANGED <<state, item>>

Ask(c, i) ==
  /\ state[c] = "idle"
  /\ state' = [state EXCEPT ![c] = "asking"]
  /\ item' = [item EXCEPT ![c] = i]
  /\ absent' = [absent EXCEPT ![c] = Items \ listed]
  /\ UNCHANGED <<listed, ever>>

Answer(c, answer) ==
  /\ Asking(c)
  /\ state' = [state EXCEPT ![c] = answer]
  /\ UNCHANGED <<listed, ever, item, absent>>

Allow(c) == item[c] \in ever /\ Answer(c, "allowed")
Deny(c) == item[c] \in absent[c] /\ Answer(c, "denied")
Fail(c) == Answer(c, "failed")

\* Admitted without the upstream's word for it.
Stray(c) == item[c] \in StrayItems /\ Answer(c, "strayed")

\* What S go by is not the upstream's answer: its bytes were overwritten
\* before they were parsed, or there was no answer and an old one stands in.
Misread(S) ==
  /\ absent' = [c \in Callers |-> IF c \in S THEN Items ELSE absent[c]]
  /\ UNCHANGED <<listed, ever, state, item>>

Return(c) ==
  /\ state[c] \in Answers
  /\ state' = [state EXCEPT ![c] = "idle"]
  /\ item' = [item EXCEPT ![c] = Nil]
  /\ absent' = [absent EXCEPT ![c] = {}]
  /\ UNCHANGED <<listed, ever>>

\* A new process knows the list of this moment and no other.
Restart ==
  /\ ever' = listed
  /\ state' = [c \in Callers |-> "idle"]
  /\ item' = [c \in Callers |-> Nil]
  /\ absent' = [c \in Callers |-> {}]
  /\ UNCHANGED listed

\* What goes on behind the checks.
Upstream ==
  \/ \E c \in Callers : Allow(c) \/ Deny(c) \/ Fail(c) \/ Stray(c)
  \/ \E S \in SUBSET {c \in Callers : Asking(c)} : Misread(S)
  \/ Publish

Next ==
  \/ \E c \in Callers : (\E i \in Items : Ask(c, i)) \/ Return(c)
  \/ Upstream
  \/ Restart

Spec == Init /\ [][Next]_vars
=============================================================================
