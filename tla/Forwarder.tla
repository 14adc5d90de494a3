----------------------------- MODULE Forwarder -----------------------------
(***************************************************************************)
(* The client of dbaas-aggregator (service/forwarder.go).  DoRequest       *)
(* builds a request, credentials and all, and hands it to fasthttp's       *)
(* client, which may send it again, as it is, when an attempt ended        *)
(* without a response.  Neither the forwarder nor the client can take an   *)
(* attempt back: the aggregator may run it when nobody waits for it any    *)
(* more.                                                                   *)
(***************************************************************************)
EXTENDS Naturals

CONSTANTS Callers,       \* the goroutines that call DoRequest
          Attempts,      \* how often the client sends a request, at most
          Codes,         \* what the aggregator answers to a request it accepts
          Unauthorized,  \* and to one with credentials it does not
          Nil

VARIABLES fwPc,      \* where a caller is in DoRequest
          attempt,   \* the number of the attempt it waits for
          header,    \* the credentials in the request
          wire,      \* wire[c][a]: the aggregator's answer to attempt a
          fwAnswer   \* what DoRequest returned

fwVars == <<fwPc, attempt, header, wire, fwAnswer>>

FwAnswers == Codes \cup {Unauthorized}

FwInit ==
  /\ fwPc = [c \in Callers |-> "idle"]
  /\ attempt = [c \in Callers |-> 0]
  /\ header = [c \in Callers |-> Nil]
  /\ wire = [c \in Callers |-> [a \in 1..Attempts |-> Nil]]
  /\ fwAnswer = [c \in Callers |-> Nil]

-----------------------------------------------------------------------------

\* The request is built with these credentials, and sent.
DoRequest(c, credentials) ==
  /\ fwPc[c] = "idle"
  /\ fwPc' = [fwPc EXCEPT ![c] = "sent"]
  /\ attempt' = [attempt EXCEPT ![c] = 1]
  /\ header' = [header EXCEPT ![c] = credentials]
  /\ UNCHANGED <<wire, fwAnswer>>

\* The aggregator goes by these credentials when it takes up an attempt: the
\* one that is waited for, or one that was given up before.
AggregatorRuns(c, a, credentials, code) ==
  /\ a \in 1..attempt[c]
  /\ wire[c][a] = Nil
  /\ wire' = [wire EXCEPT ![c][a] =
                IF header[c] = credentials THEN code ELSE Unauthorized]
  /\ UNCHANGED <<fwPc, attempt, header, fwAnswer>>

ResponseArrives(c) ==
  /\ fwPc[c] = "sent"
  /\ wire[c][attempt[c]] # Nil
  /\ fwPc' = [fwPc EXCEPT ![c] = "answered"]
  /\ fwAnswer' = [fwAnswer EXCEPT ![c] = wire[c][attempt[c]]]
  /\ UNCHANGED <<attempt, header, wire>>

AttemptEnds(c) ==
  /\ fwPc[c] = "sent"
  /\ fwPc' = [fwPc EXCEPT ![c] = "broken"]
  /\ UNCHANGED <<attempt, header, wire, fwAnswer>>

\* ReadTimeout or WriteTimeout; one that is not positive is none at all.
TimesOut(c, timeout) == timeout > 0 /\ AttemptEnds(c)

\* The connection cannot be had, or is closed, before or after the aggregator
\* has run the request.
ConnectionBreaks(c) == AttemptEnds(c)

\* Mutant: a request is sent again for as long as it takes.
SendsAgainForever(c) ==
  /\ fwPc[c] = "broken"
  /\ fwPc' = [fwPc EXCEPT ![c] = "sent"]
  /\ attempt' = [attempt EXCEPT ![c] = @ + 1]
  /\ UNCHANGED <<header, wire, fwAnswer>>

SendsAgain(c) ==
  /\ fwPc[c] = "broken"
  /\ attempt[c] < Attempts
  /\ fwPc' = [fwPc EXCEPT ![c] = "sent"]
  /\ attempt' = [attempt EXCEPT ![c] = @ + 1]
  /\ UNCHANGED <<header, wire, fwAnswer>>

\* Mutant: the error is dropped, and the empty response has fasthttp's status
\* code of one that was never filled.
GivesUpUnnoticed(c) ==
  /\ fwPc[c] = "broken"
  /\ fwPc' = [fwPc EXCEPT ![c] = "answered"]
  /\ \E code \in Codes : fwAnswer' = [fwAnswer EXCEPT ![c] = code]
  /\ UNCHANGED <<attempt, header, wire>>

\* The client returns an error, and so does DoRequest.
GivesUp(c) ==
  /\ fwPc[c] = "broken"
  /\ fwPc' = [fwPc EXCEPT ![c] = "failed"]
  /\ UNCHANGED <<attempt, header, wire, fwAnswer>>

\* The caller has used what DoRequest returned and released it.
ReleaseResponse(c) ==
  /\ fwPc[c] \in {"answered", "failed"}
  /\ fwPc' = [fwPc EXCEPT ![c] = "idle"]
  /\ attempt' = [attempt EXCEPT ![c] = 0]
  /\ header' = [header EXCEPT ![c] = Nil]
  /\ wire' = [wire EXCEPT ![c] = [a \in 1..Attempts |-> Nil]]
  /\ fwAnswer' = [fwAnswer EXCEPT ![c] = Nil]

\* The process is gone, and with it what it waited for.
FwDies ==
  /\ fwPc' = [c \in Callers |-> "idle"]
  /\ attempt' = [c \in Callers |-> 0]
  /\ header' = [c \in Callers |-> Nil]
  /\ wire' = [c \in Callers |-> [a \in 1..Attempts |-> Nil]]
  /\ fwAnswer' = [c \in Callers |-> Nil]

\* What happens whether or not the aggregator does anything.
Goes(c, timeout) ==
  \/ ResponseArrives(c)
  \/ TimesOut(c, timeout)
  \/ SendsAgain(c)
  \/ GivesUp(c)
  \/ ReleaseResponse(c)
=============================================================================
