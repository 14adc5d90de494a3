------------------------------ MODULE Exchange ------------------------------
(***************************************************************************)
(* What Forwarder.DoRequest promises those who call it: one exchange with  *)
(* dbaas-aggregator, which ends in one answer or in an error.              *)
(*  - An answer is one the aggregator came to for this request.            *)
(*  - An error says nothing: the aggregator may have come to an answer,    *)
(*    may still do so, or never.                                           *)
(*  - The aggregator may run one request several times, and come to        *)
(*    another answer each time, also when the exchange is already over.    *)
(* Forwarder implements this module, with attempts and timeouts; the       *)
(* handlers and the API version service are built on it.                   *)
(***************************************************************************)

CONSTANTS Callers,  \* the goroutines that call DoRequest
          Answers,  \* what the aggregator may answer
          Nil

VARIABLES exState,  \* how far a caller's exchange is
          reached,  \* the answers the aggregator has come to for its request
          answer    \* what DoRequest returned

vars == <<exState, reached, answer>>

TypeOK ==
  /\ exState \in [Callers -> {"idle", "asked", "answered", "failed"}]
  /\ reached \in [Callers -> SUBSET Answers]
  /\ answer \in [Callers -> Answers \cup {Nil}]

Init ==
  /\ exState = [c \in Callers |-> "idle"]
  /\ reached = [c \in Callers |-> {}]
  /\ answer = [c \in Callers |-> Nil]

-----------------------------------------------------------------------------

Ask(c) ==
  /\ exState[c] = "idle"
  /\ exState' = [exState EXCEPT ![c] = "asked"]
  /\ UNCHANGED <<reached, answer>>

\* The aggregator runs the request, perhaps once more, perhaps too late.
Run(c, a) ==
  /\ exState[c] # "idle"
  /\ reached' = [reached EXCEPT ![c] = @ \cup {a}]
  /\ UNCHANGED <<exState, answer>>

Answered(c, a) ==
  /\ exState[c] = "asked"
  /\ a \in reached[c]
  /\ exState' = [exState EXCEPT ![c] = "answered"]
  /\ answer' = [answer EXCEPT ![c] = a]
  /\ UNCHANGED reached

Fail(c) ==
  /\ exState[c] = "asked"
  /\ exState' = [exState EXCEPT ![c] = "failed"]
  /\ UNCHANGED <<reached, answer>>

\* The caller is done with what DoRequest returned.
Return(c) ==
  /\ exState[c] \in {"answered", "failed"}
  /\ exState' = [exState EXCEPT ![c] = "idle"]
  /\ reached' = [reached EXCEPT ![c] = {}]
  /\ answer' = [answer EXCEPT ![c] = Nil]

\* The process starts again: its exchanges are lost.
Restart ==
  /\ exState' = [c \in Callers |-> "idle"]
  /\ reached' = [c \in Callers |-> {}]
  /\ answer' = [c \in Callers |-> Nil]

Next ==
  \/ \E c \in Callers :
        \/ Ask(c)
        \/ \E a \in Answers : Run(c, a) \/ Answered(c, a)
        \/ Fail(c)
        \/ Return(c)
  \/ Restart

Spec == Init /\ [][Next]_vars
=============================================================================
