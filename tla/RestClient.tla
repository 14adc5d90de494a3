----------------------------- MODULE RestClient -----------------------------
(***************************************************************************)
(* The REST client the agent asks control-plane and tenant-manager with    *)
(* (client/rest_client.go), as its callers see it.  DoRequest sends one    *)
(* request and waits, without any timeout, for the response.               *)
(*                                                                         *)
(* DoRequest returns response.Body(), a slice of the response's buffer,    *)
(* and its deferred ReleaseResponse hands that buffer back to fasthttp's   *)
(* pool: from then on any other response of the process may be read into   *)
(* the bytes the caller is still parsing.  Return and ForeignRead say what *)
(* a caller can observe of it; BodyPool shows how it comes about.          *)
(***************************************************************************)
EXTENDS Naturals

CONSTANTS Callers,        \* the goroutines that call DoRequest
          Bodies,         \* the bodies the caller's upstream answers with
          ForeignBodies,  \* what the caller makes of some other response's bytes
          Nil             \* the body of a call that failed

VARIABLES rcPc,      \* rcPc[c]: where c is in DoRequest
          rcResp,    \* rcResp[c]: status code and body, as c finds them now
          rcReused   \* rcReused[c]: the body changed after DoRequest returned it

rcVars == <<rcPc, rcResp, rcReused>>

StatusOK == 200
StatusError == 500

\* What DoRequest returns beside an error: return nil, 0, err.
NoResponse == [code |-> 0, body |-> Nil]

Responses == [code : {0, StatusOK, StatusError},
              body : Bodies \cup ForeignBodies \cup {Nil}]

RcTypeOK ==
  /\ rcPc \in [Callers -> {"idle", "sent", "answered", "returned"}]
  /\ rcResp \in [Callers -> Responses]
  /\ rcReused \in [Callers -> BOOLEAN]

RcInit ==
  /\ rcPc = [c \in Callers |-> "idle"]
  /\ rcResp = [c \in Callers |-> NoResponse]
  /\ rcReused = [c \in Callers |-> FALSE]

-----------------------------------------------------------------------------

\* The request is built and on its way.
Send(c) ==
  /\ rcPc[c] = "idle"
  /\ rcPc' = [rcPc EXCEPT ![c] = "sent"]
  /\ rcResp' = [rcResp EXCEPT ![c] = NoResponse]
  /\ UNCHANGED rcReused

\* No M2M token, or the context cannot be serialized: nothing is sent.
BuildFails(c) ==
  /\ rcPc[c] = "idle"
  /\ rcPc' = [rcPc EXCEPT ![c] = "returned"]
  /\ rcResp' = [rcResp EXCEPT ![c] = NoResponse]
  /\ UNCHANGED rcReused

\* The upstream answers; the answer is still to be read.
Answer(c, code, body) ==
  /\ rcPc[c] = "sent"
  /\ rcPc' = [rcPc EXCEPT ![c] = "answered"]
  /\ rcResp' = [rcResp EXCEPT ![c] = [code |-> code, body |-> body]]
  /\ UNCHANGED rcReused

\* Do reports a transport error, before or after the upstream has answered.
ConnectionFails(c) ==
  /\ rcPc[c] \in {"sent", "answered"}
  /\ rcPc' = [rcPc EXCEPT ![c] = "returned"]
  /\ rcResp' = [rcResp EXCEPT ![c] = NoResponse]
  /\ UNCHANGED rcReused

\* The callers whose bytes are back in the pool.
Exposed == {c \in Callers : rcPc[c] = "returned" /\ rcResp[c].body # Nil}

\* S lose their bytes to a response with this body.
Overwritten(S, body) ==
  [c \in Callers |-> IF c \in S THEN [code |-> rcResp[c].code, body |-> body]
                                ELSE rcResp[c]]

\* The response is read, into a buffer that S may still be parsing, and
\* DoRequest returns a slice of it and releases it.
Return(c, S) ==
  /\ rcPc[c] = "answered"
  /\ S \subseteq Exposed
  /\ rcPc' = [rcPc EXCEPT ![c] = "returned"]
  /\ rcResp' = Overwritten(S, rcResp[c].body)
  /\ rcReused' = [d \in Callers |-> rcReused[d] \/ d \in S]

\* The response of some other request of the process, one this client does
\* not carry, is read into a buffer that S are still parsing.
ForeignRead(S, body) ==
  /\ S \subseteq Exposed
  /\ rcResp' = Overwritten(S, body)
  /\ rcReused' = [d \in Callers |-> rcReused[d] \/ d \in S]
  /\ UNCHANGED rcPc

\* The caller has parsed the body and drops the slice.
Done(c) ==
  /\ rcPc[c] = "returned"
  /\ rcPc' = [rcPc EXCEPT ![c] = "idle"]
  /\ rcResp' = [rcResp EXCEPT ![c] = NoResponse]
  /\ UNCHANGED rcReused

\* The check that made the call is over, and what became of it forgotten.
Forget(c) ==
  /\ rcPc[c] = "idle"
  /\ rcReused' = [rcReused EXCEPT ![c] = FALSE]
  /\ UNCHANGED <<rcPc, rcResp>>

\* The process starts again: its calls are lost.
RcRestart ==
  /\ rcPc' = [c \in Callers |-> "idle"]
  /\ rcResp' = [c \in Callers |-> NoResponse]
  /\ rcReused' = [c \in Callers |-> FALSE]

-----------------------------------------------------------------------------

RcNext ==
  \/ \E c \in Callers :
        \/ Send(c)
        \/ BuildFails(c)
        \/ \E code \in {StatusOK, StatusError}, body \in Bodies :
              Answer(c, code, body)
        \/ ConnectionFails(c)
        \/ \E S \in SUBSET Exposed : Return(c, S)
        \/ Done(c)
        \/ Forget(c)
  \/ \E S \in SUBSET Exposed, body \in ForeignBodies : ForeignRead(S, body)
  \/ RcRestart

RcSpec == RcInit /\ [][RcNext]_rcVars
=============================================================================
