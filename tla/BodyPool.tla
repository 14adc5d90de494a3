------------------------------ MODULE BodyPool ------------------------------
(***************************************************************************)
(* The buffers that response bodies are read into.  fasthttp keeps one     *)
(* pool of them for the whole process: ReleaseResponse puts the body's     *)
(* buffer back, and the next response may be read into it.                 *)
(*                                                                         *)
(* The agent reads responses in two places.                                *)
(*  - RestClient.DoRequest (client/rest_client.go) returns a slice of the  *)
(*    body, and its deferred release comes before the caller parses it.    *)
(*  - A handler (controller/dba_controller.go) answers with the body of    *)
(*    the forwarder's response, and its deferred release comes before      *)
(*    fasthttp writes that answer to the client; RespondWithBytes          *)
(*    (controller/controller_utils.go) takes a copy.                       *)
(***************************************************************************)
CONSTANTS Callers,    \* the goroutines inside RestClient.DoRequest
          Handlers,   \* the goroutines that forward to dbaas-aggregator
          Buffers,    \* the pool's buffers; one it allocates is one not used yet
          Bodies,     \* what control-plane and tenant-manager answer with
          FwdBodies,  \* what dbaas-aggregator answers with
          Nil

ASSUME PoolAssumption == Nil \notin Buffers \cup Bodies \cup FwdBodies

VARIABLES pool,      \* the buffers that are free
          content,   \* what each buffer holds
          callPc, wire, slice,  \* a call: its progress, its answer, what it returned
          reused,    \* its slice has been written to since
          fwdPc, fwdWire, held, \* a forward: its progress, its answer, its buffer
          copied,    \* the copy RespondWithBytes made
          delivered  \* the body the client was sent

poolVars == <<pool, content>>
callVars == <<callPc, wire, slice, reused>>
fwdVars == <<fwdPc, fwdWire, held, copied, delivered>>
vars == <<poolVars, callVars, fwdVars>>

Init ==
  /\ pool = Buffers
  /\ content = [b \in Buffers |-> Nil]
  /\ callPc = [c \in Callers |-> "idle"]
  /\ wire = [c \in Callers |-> Nil]
  /\ slice = [c \in Callers |-> Nil]
  /\ reused = [c \in Callers |-> FALSE]
  /\ fwdPc = [h \in Handlers |-> "idle"]
  /\ fwdWire = [h \in Handlers |-> Nil]
  /\ held = [h \in Handlers |-> Nil]
  /\ copied = [h \in Handlers |-> Nil]
  /\ delivered = [h \in Handlers |-> Nil]

\* The calls whose slice is of buffer b.
Readers(b) == {c \in Callers : callPc[c] = "returned" /\ slice[c] = b}

-----------------------------------------------------------------------------
\* RestClient.DoRequest

Send(c) ==
  /\ callPc[c] = "idle"
  /\ callPc' = [callPc EXCEPT ![c] = "sent"]
  /\ UNCHANGED <<poolVars, wire, slice, reused, fwdVars>>

Answer(c, body) ==
  /\ callPc[c] = "sent"
  /\ callPc' = [callPc EXCEPT ![c] = "answered"]
  /\ wire' = [wire EXCEPT ![c] = body]
  /\ UNCHANGED <<poolVars, slice, reused, fwdVars>>

\* Building the request or Do has failed: return nil, 0, err.
Fail(c) ==
  /\ callPc[c] \in {"idle", "sent", "answered"}
  /\ callPc' = [callPc EXCEPT ![c] = "returned"]
  /\ wire' = [wire EXCEPT ![c] = Nil]
  /\ UNCHANGED <<poolVars, slice, reused, fwdVars>>

\* Mutant: the response is handed back before the answer has been read.
ReturnUnread(c, b) ==
  /\ callPc[c] = "answered"
  /\ b \in pool
  /\ callPc' = [callPc EXCEPT ![c] = "returned"]
  /\ slice' = [slice EXCEPT ![c] = b]
  /\ UNCHANGED <<poolVars, wire, reused, fwdVars>>

\* The answer is read into a free buffer, which is free again by the time
\* DoRequest has returned a slice of it.
Return(c, b) ==
  /\ callPc[c] = "answered"
  /\ b \in pool
  /\ content' = [content EXCEPT ![b] = wire[c]]
  /\ callPc' = [callPc EXCEPT ![c] = "returned"]
  /\ slice' = [slice EXCEPT ![c] = b]
  /\ reused' = [d \in Callers |-> reused[d] \/ d \in Readers(b)]
  /\ UNCHANGED <<pool, wire, fwdVars>>

\* The caller has parsed the slice.
Done(c) ==
  /\ callPc[c] = "returned"
  /\ callPc' = [callPc EXCEPT ![c] = "idle"]
  /\ wire' = [wire EXCEPT ![c] = Nil]
  /\ slice' = [slice EXCEPT ![c] = Nil]
  /\ UNCHANGED <<poolVars, reused, fwdVars>>

\* The check that made the call is over.
Forget(c) ==
  /\ callPc[c] = "idle"
  /\ reused' = [reused EXCEPT ![c] = FALSE]
  /\ UNCHANGED <<poolVars, callPc, wire, slice, fwdVars>>

-----------------------------------------------------------------------------
\* A handler and Forwarder.DoRequest

Forward(h) ==
  /\ fwdPc[h] = "idle"
  /\ fwdPc' = [fwdPc EXCEPT ![h] = "sent"]
  /\ UNCHANGED <<poolVars, callVars, fwdWire, held, copied, delivered>>

FwdAnswer(h, body) ==
  /\ fwdPc[h] = "sent"
  /\ fwdPc' = [fwdPc EXCEPT ![h] = "answered"]
  /\ fwdWire' = [fwdWire EXCEPT ![h] = body]
  /\ UNCHANGED <<poolVars, callVars, held, copied, delivered>>

\* The client gets the handler's own error message, and nothing is read.
FwdFails(h) ==
  /\ fwdPc[h] \in {"sent", "answered"}
  /\ fwdPc' = [fwdPc EXCEPT ![h] = "idle"]
  /\ fwdWire' = [fwdWire EXCEPT ![h] = Nil]
  /\ UNCHANGED <<poolVars, callVars, held, copied, delivered>>

\* Mutant: the forwarder releases the response as the REST client does.
FwdReadReleased(h, b) ==
  /\ fwdPc[h] = "answered"
  /\ b \in pool
  /\ content' = [content EXCEPT ![b] = fwdWire[h]]
  /\ fwdPc' = [fwdPc EXCEPT ![h] = "read"]
  /\ held' = [held EXCEPT ![h] = b]
  /\ reused' = [d \in Callers |-> reused[d] \/ d \in Readers(b)]
  /\ UNCHANGED <<pool, callPc, wire, slice, fwdWire, copied, delivered>>

FwdRead(h, b) ==
  /\ fwdPc[h] = "answered"
  /\ b \in pool
  /\ pool' = pool \ {b}
  /\ content' = [content EXCEPT ![b] = fwdWire[h]]
  /\ fwdPc' = [fwdPc EXCEPT ![h] = "read"]
  /\ held' = [held EXCEPT ![h] = b]
  /\ reused' = [d \in Callers |-> reused[d] \/ d \in Readers(b)]
  /\ UNCHANGED <<callPc, wire, slice, fwdWire, copied, delivered>>

\* returnDbaasResponse: the answer is set from the response's body.
RespondWithBytes(h) ==
  /\ fwdPc[h] = "read"
  /\ fwdPc' = [fwdPc EXCEPT ![h] = "responded"]
  /\ copied' = [copied EXCEPT ![h] = content[held[h]]]
  /\ UNCHANGED <<poolVars, callVars, fwdWire, held, delivered>>

\* defer fasthttp.ReleaseResponse(resp), as the handler returns.
Release(h) ==
  /\ fwdPc[h] = "responded"
  /\ fwdPc' = [fwdPc EXCEPT ![h] = "released"]
  /\ pool' = pool \cup {held[h]}
  /\ UNCHANGED <<content, callVars, fwdWire, held, copied, delivered>>

\* Mutant: the answer is the response's body itself, not a copy.
BodyUncopied(h) == content[held[h]]

\* What fiber's Send was given, as it is when the server writes it.
BodyToWrite(h) == copied[h]

WriteResponse(h) ==
  /\ fwdPc[h] = "released"
  /\ fwdPc' = [fwdPc EXCEPT ![h] = "written"]
  /\ delivered' = [delivered EXCEPT ![h] = BodyToWrite(h)]
  /\ UNCHANGED <<poolVars, callVars, fwdWire, held, copied>>

\* The goroutine takes the next request.
NextRequest(h) ==
  /\ fwdPc[h] = "written"
  /\ fwdPc' = [fwdPc EXCEPT ![h] = "idle"]
  /\ fwdWire' = [fwdWire EXCEPT ![h] = Nil]
  /\ held' = [held EXCEPT ![h] = Nil]
  /\ copied' = [copied EXCEPT ![h] = Nil]
  /\ delivered' = [delivered EXCEPT ![h] = Nil]
  /\ UNCHANGED <<poolVars, callVars>>

-----------------------------------------------------------------------------

Calling(c) ==
  \/ Send(c)
  \/ \E body \in Bodies : Answer(c, body)
  \/ Fail(c)
  \/ \E b \in Buffers : Return(c, b)
  \/ Done(c)
  \/ Forget(c)

Forwarding(h) ==
  \/ Forward(h)
  \/ \E body \in FwdBodies : FwdAnswer(h, body)
  \/ FwdFails(h)
  \/ \E b \in Buffers : FwdRead(h, b)
  \/ RespondWithBytes(h) \/ Release(h) \/ WriteResponse(h)
  \/ NextRequest(h)

Next == (\E c \in Callers : Calling(c)) \/ (\E h \in Handlers : Forwarding(h))

Spec == Init /\ [][Next]_vars

-----------------------------------------------------------------------------

Holding(h) == fwdPc[h] \in {"read", "responded"}

TypeOK ==
  /\ pool \in SUBSET Buffers
  /\ content \in [Buffers -> Bodies \cup FwdBodies \cup {Nil}]
  /\ callPc \in [Callers -> {"idle", "sent", "answered", "returned"}]
  /\ wire \in [Callers -> Bodies \cup {Nil}]
  /\ slice \in [Callers -> Buffers \cup {Nil}]
  /\ reused \in [Callers -> BOOLEAN]
  /\ fwdPc \in [Handlers -> {"idle", "sent", "answered", "read", "responded",
                             "released", "written"}]
  /\ fwdWire \in [Handlers -> FwdBodies \cup {Nil}]
  /\ held \in [Handlers -> Buffers \cup {Nil}]
  /\ copied \in [Handlers -> FwdBodies \cup {Nil}]
  /\ delivered \in [Handlers -> FwdBodies \cup {Nil}]
  /\ \A h \in Handlers : Holding(h) => held[h] \in Buffers \ pool

\* The client is sent exactly what dbaas-aggregator answered to its own
\* request, although the buffer of that answer is handed back, and may have
\* been read into again, before the server writes: RespondWithBytes' copy.
AnswerIsAggregators ==
  \A h \in Handlers : fwdPc[h] = "written" => delivered[h] = fwdWire[h]

\* DoRequest's caller finds the body the upstream answered with, as
\* TestDoRequest_GetResponse expects, for as long as it parses it.
RestBodyIsUpstreams ==
  \A c \in Callers : callPc[c] = "returned" /\ slice[c] # Nil =>
     content[slice[c]] = wire[c]

\* The calls are those of RestClient: a slice changes only after it has been
\* returned, only by a response that was read meanwhile, and reused tells so.
RC == INSTANCE RestClient WITH
  ForeignBodies <- FwdBodies,
  rcPc <- callPc,
  rcResp <- [c \in Callers |->
     LET body == IF callPc[c] = "answered" THEN wire[c]
                 ELSE IF callPc[c] = "returned" /\ slice[c] # Nil
                      THEN content[slice[c]]
                 ELSE Nil
     IN  [code |-> IF body = Nil THEN 0 ELSE 200, body |-> body]],
  rcReused <- reused
CallsAreRestClients == RC!RcSpec
=============================================================================
