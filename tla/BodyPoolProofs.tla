--------------------------- MODULE BodyPoolProofs ---------------------------
(***************************************************************************)
(* For any number of calls, handlers and buffers: the answer a client is   *)
(* sent is dbaas-aggregator's, and the calls are those of RestClient.      *)
(***************************************************************************)
EXTENDS BodyPool, TLAPS

\* No two handlers read into one buffer.
HeldApart ==
  \A g, h \in Handlers : g # h /\ Holding(g) /\ Holding(h) => held[g] # held[h]

\* What a handler has read is still there, and what it has copied is that.
ReadIsWire ==
  \A h \in Handlers : fwdPc[h] = "read" => content[held[h]] = fwdWire[h]

CopyIsWire ==
  \A h \in Handlers :
     fwdPc[h] \in {"responded", "released"} => copied[h] = fwdWire[h]

\* AnswerIsAggregators holds by the copy, the copy by what the buffer held
\* when it was made, and that by nobody else having the buffer.
IInv == TypeOK /\ HeldApart /\ ReadIsWire /\ CopyIsWire /\ AnswerIsAggregators

\* At the start nothing has been read.
LEMMA InitIInv == Init => IInv
  BY PoolAssumption
  DEF Init, IInv, TypeOK, Holding, HeldApart, ReadIsWire, CopyIsWire,
      AnswerIsAggregators

\* The REST client's calls write only into buffers that no handler holds.
LEMMA CallingKeepsIInv ==
  ASSUME IInv, NEW c \in Callers, Calling(c)
  PROVE  IInv'
<1> USE PoolAssumption
    DEF IInv, TypeOK, Holding, HeldApart, ReadIsWire, CopyIsWire,
        AnswerIsAggregators, poolVars, callVars, fwdVars, Readers
<1>1. CASE Send(c)
  BY <1>1 DEF Send
<1>2. ASSUME NEW body \in Bodies, Answer(c, body) PROVE IInv'
  BY <1>2 DEF Answer
<1>3. CASE Fail(c)
  BY <1>3 DEF Fail
<1>4. ASSUME NEW b \in Buffers, Return(c, b) PROVE IInv'
  <2>1. TypeOK'
    BY <1>4 DEF Return
  <2>2. ReadIsWire'
    BY <1>4 DEF Return
  <2>3. HeldApart' /\ CopyIsWire' /\ AnswerIsAggregators'
    BY <1>4 DEF Return
  <2> QED BY <2>1, <2>2, <2>3
<1>5. CASE Done(c)
  BY <1>5 DEF Done
<1>6. CASE Forget(c)
  BY <1>6 DEF Forget
<1> QED BY <1>1, <1>2, <1>3, <1>4, <1>5, <1>6 DEF Calling

\* A handler's steps concern its own buffer, which it takes from the pool.
LEMMA ForwardingKeepsIInv ==
  ASSUME IInv, NEW h \in Handlers, Forwarding(h)
  PROVE  IInv'
<1> USE PoolAssumption
    DEF IInv, TypeOK, Holding, HeldApart, ReadIsWire, CopyIsWire,
        AnswerIsAggregators, poolVars, callVars, fwdVars, Readers
<1>1. CASE Forward(h)
  BY <1>1 DEF Forward
<1>2. ASSUME NEW body \in FwdBodies, FwdAnswer(h, body) PROVE IInv'
  BY <1>2 DEF FwdAnswer
<1>3. CASE FwdFails(h)
  BY <1>3 DEF FwdFails
<1>4. ASSUME NEW b \in Buffers, FwdRead(h, b) PROVE IInv'
  <2>1. TypeOK'
    BY <1>4 DEF FwdRead
  <2>2. HeldApart'
    BY <1>4 DEF FwdRead
  <2>3. ReadIsWire'
    BY <1>4 DEF FwdRead
  <2>4. CopyIsWire' /\ AnswerIsAggregators'
    BY <1>4 DEF FwdRead
  <2> QED BY <2>1, <2>2, <2>3, <2>4
<1>5. CASE RespondWithBytes(h)
  BY <1>5 DEF RespondWithBytes
<1>6. CASE Release(h)
  BY <1>6 DEF Release
<1>7. CASE WriteResponse(h)
  BY <1>7 DEF WriteResponse, BodyToWrite
<1>8. CASE NextRequest(h)
  BY <1>8 DEF NextRequest
<1> QED BY <1>1, <1>2, <1>3, <1>4, <1>5, <1>6, <1>7, <1>8 DEF Forwarding

\* The invariant and its parts, for the whole specification.
LEMMA IInvHolds == Spec => []IInv
<1>1. Init => IInv
  BY InitIInv
<1>2. IInv /\ [Next]_vars => IInv'
  <2> SUFFICES ASSUME IInv, [Next]_vars PROVE IInv'
    OBVIOUS
  <2>1. CASE UNCHANGED vars
    BY <2>1 DEF IInv, TypeOK, Holding, HeldApart, ReadIsWire, CopyIsWire,
                AnswerIsAggregators, vars, poolVars, callVars, fwdVars
  <2>2. ASSUME NEW c \in Callers, Calling(c) PROVE IInv'
    BY <2>2, CallingKeepsIInv
  <2>3. ASSUME NEW h \in Handlers, Forwarding(h) PROVE IInv'
    BY <2>3, ForwardingKeepsIInv
  <2> QED BY <2>1, <2>2, <2>3 DEF Next
<1> QED BY <1>1, <1>2, PTL DEF Spec

\* Every variable of the pool, the calls and the handlers keeps its type, and
\* a buffer a handler holds is out of the pool until it releases it.
THEOREM BodyPoolTypeCorrect == Spec => []TypeOK
  BY IInvHolds, PTL DEF IInv

\* The client of the agent is sent what dbaas-aggregator answered, however
\* often the answer's buffer is read into again before the server writes:
\* what RespondWithBytes' copy is for.
THEOREM ClientsGetAggregatorsAnswer == Spec => []AnswerIsAggregators
  BY IInvHolds, PTL DEF IInv

-----------------------------------------------------------------------------
(***************************************************************************)
(* BodyPool implements RestClient.                                         *)
(***************************************************************************)

\* What a call has been answered with is there, until it is read into the
\* slice that is returned, and what is read into that later is there, too.
SInv ==
  /\ \A c \in Callers :
        /\ callPc[c] # "returned" => slice[c] = Nil
        /\ callPc[c] = "answered" => wire[c] # Nil
        /\ slice[c] # Nil => content[slice[c]] # Nil
  /\ \A h \in Handlers : fwdPc[h] = "answered" => fwdWire[h] # Nil

LEMMA CallingKeepsSInv ==
  ASSUME TypeOK, SInv, NEW c \in Callers, Calling(c)
  PROVE  SInv'
<1> USE PoolAssumption DEF TypeOK, SInv, poolVars, callVars, fwdVars
<1>1. CASE Send(c)
  BY <1>1 DEF Send
<1>2. ASSUME NEW body \in Bodies, Answer(c, body) PROVE SInv'
  BY <1>2 DEF Answer
<1>3. CASE Fail(c)
  BY <1>3 DEF Fail
<1>4. ASSUME NEW b \in Buffers, Return(c, b) PROVE SInv'
  BY <1>4 DEF Return
<1>5. CASE Done(c)
  BY <1>5 DEF Done
<1>6. CASE Forget(c)
  BY <1>6 DEF Forget
<1> QED BY <1>1, <1>2, <1>3, <1>4, <1>5, <1>6 DEF Calling

LEMMA ForwardingKeepsSInv ==
  ASSUME TypeOK, SInv, NEW h \in Handlers, Forwarding(h)
  PROVE  SInv'
<1> USE PoolAssumption DEF TypeOK, SInv, poolVars, callVars, fwdVars
<1>1. CASE Forward(h) \/ FwdFails(h) \/ NextRequest(h)
  BY <1>1 DEF Forward, FwdFails, NextRequest
<1>2. ASSUME NEW body \in FwdBodies, FwdAnswer(h, body) PROVE SInv'
  BY <1>2 DEF FwdAnswer
<1>3. ASSUME NEW b \in Buffers, FwdRead(h, b) PROVE SInv'
  BY <1>3 DEF FwdRead
<1>4. CASE RespondWithBytes(h) \/ Release(h) \/ WriteResponse(h)
  BY <1>4 DEF RespondWithBytes, Release, WriteResponse
<1> QED BY <1>1, <1>2, <1>3, <1>4 DEF Forwarding

LEMMA SInvHolds == Spec => []SInv
<1>1. Init => SInv
  BY DEF Init, SInv
<1>2. IInv /\ SInv /\ [Next]_vars => SInv'
  <2> SUFFICES ASSUME IInv, SInv, [Next]_vars PROVE SInv'
    OBVIOUS
  <2>1. CASE UNCHANGED vars
    BY <2>1 DEF SInv, vars, poolVars, callVars, fwdVars
  <2>2. ASSUME NEW c \in Callers, Calling(c) PROVE SInv'
    BY <2>2, CallingKeepsSInv DEF IInv
  <2>3. ASSUME NEW h \in Handlers, Forwarding(h) PROVE SInv'
    BY <2>3, ForwardingKeepsSInv DEF IInv
  <2> QED BY <2>1, <2>2, <2>3 DEF Next
<1> QED BY <1>1, <1>2, IInvHolds, PTL DEF Spec

\* What a caller finds of its response: what the instance RC puts for rcResp.
BodyOf(c) ==
  IF callPc[c] = "answered" THEN wire[c]
  ELSE IF callPc[c] = "returned" /\ slice[c] # Nil THEN content[slice[c]]
  ELSE Nil
RespOf(c) ==
  LET body == BodyOf(c)
  IN  [code |-> IF body = Nil THEN 0 ELSE 200, body |-> body]
respOf == [c \in Callers |-> RespOf(c)]

\* A step that leaves a call and its slice's bytes alone is not seen by it.
LEMMA RespUnchanged ==
  ASSUME NEW c \in Callers,
         callPc'[c] = callPc[c], wire'[c] = wire[c], slice'[c] = slice[c],
         slice[c] # Nil => content'[slice[c]] = content[slice[c]]
  PROVE  RespOf(c)' = RespOf(c)
BY DEF RespOf, BodyOf

\* The steps of a call that read nothing: it is answered resp, or with nothing.
LEMMA OneCallsStep ==
  ASSUME TypeOK, NEW c \in Callers, NEW resp,
         content' = content,
         \A d \in Callers \ {c} :
            callPc'[d] = callPc[d] /\ wire'[d] = wire[d] /\ slice'[d] = slice[d],
         RespOf(c)' = resp
  PROVE  respOf' = [respOf EXCEPT ![c] = resp]
<1>1. \A d \in Callers \ {c} : RespOf(d)' = RespOf(d)
  BY RespUnchanged
<1> QED BY <1>1 DEF respOf

\* A response is read into buffer b: its readers lose their bytes, and no call
\* but c notices.
LEMMA ReadOverwrites ==
  ASSUME TypeOK, SInv, NEW b \in Buffers, NEW body \in Bodies \cup FwdBodies,
         content' = [content EXCEPT ![b] = body],
         NEW d \in Callers,
         callPc'[d] = callPc[d] /\ wire'[d] = wire[d] /\ slice'[d] = slice[d]
  PROVE  RespOf(d)' = IF d \in Readers(b)
                      THEN [code |-> respOf[d].code, body |-> body] ELSE RespOf(d)
<1>1. CASE d \in Readers(b)
  <2>1. callPc[d] = "returned" /\ slice[d] = b /\ b # Nil /\ body # Nil
    BY <1>1, PoolAssumption DEF Readers
  <2>2. BodyOf(d)' = body /\ BodyOf(d) = content[b] /\ content[b] # Nil
    BY <2>1 DEF BodyOf, TypeOK, SInv
  <2> QED BY <1>1, <2>1, <2>2 DEF respOf, RespOf
<1>2. CASE d \notin Readers(b)
  <2>1. BodyOf(d)' = BodyOf(d)
    BY <1>2 DEF BodyOf, Readers, TypeOK
  <2> QED BY <1>2, <2>1 DEF RespOf
<1> QED BY <1>1, <1>2

\* Those whose slices are of a buffer have something to lose.
LEMMA ReadersAreExposed ==
  ASSUME SInv, NEW b \in Buffers
  PROVE  Readers(b) \in SUBSET RC!Exposed
<1>1. ASSUME NEW d \in Readers(b) PROVE d \in RC!Exposed
  <2>1. d \in Callers /\ callPc[d] = "returned" /\ slice[d] = b /\ b # Nil
    BY PoolAssumption DEF Readers
  <2>2. content[b] # Nil
    BY <2>1 DEF SInv
  <2> QED BY <2>1, <2>2 DEF RC!Exposed
<1> QED BY <1>1

LEMMA InitMaps == Init => RC!RcInit
  BY DEF Init, RC!RcInit, RC!NoResponse

\* Every step of a call but the reading of its answer.
LEMMA CallMaps ==
  ASSUME TypeOK, SInv, NEW c \in Callers,
         \/ Send(c) \/ Fail(c) \/ Done(c) \/ Forget(c)
         \/ \E body \in Bodies : Answer(c, body)
  PROVE  \/ RC!Send(c) \/ RC!BuildFails(c) \/ RC!ConnectionFails(c)
         \/ RC!Done(c) \/ RC!Forget(c)
         \/ \E body \in Bodies : RC!Answer(c, RC!StatusOK, body)
<1> USE DEF TypeOK, poolVars, callVars, fwdVars
<1>0. /\ content' = content
      /\ \A d \in Callers \ {c} :
            callPc'[d] = callPc[d] /\ wire'[d] = wire[d] /\ slice'[d] = slice[d]
  BY DEF Send, Fail, Done, Forget, Answer
<1>1. CASE Send(c) \/ Done(c)
  <2>1. RespOf(c)' = RC!NoResponse
    BY <1>1 DEF Send, Done, RespOf, BodyOf, RC!NoResponse
  <2>2. respOf' = [respOf EXCEPT ![c] = RC!NoResponse]
    BY <1>0, <2>1, OneCallsStep
  <2> QED BY <1>1, <2>2
          DEF Send, Done, RC!Send, RC!Done, respOf, RespOf, BodyOf
<1>2. CASE Fail(c)
  <2>1. RespOf(c)' = RC!NoResponse
    BY <1>2 DEF Fail, RespOf, BodyOf, SInv, RC!NoResponse
  <2>2. respOf' = [respOf EXCEPT ![c] = RC!NoResponse]
    BY <1>0, <2>1, OneCallsStep
  <2> QED BY <1>2, <2>2
          DEF Fail, RC!BuildFails, RC!ConnectionFails, respOf, RespOf, BodyOf
<1>3. ASSUME NEW body \in Bodies, Answer(c, body)
      PROVE  RC!Answer(c, RC!StatusOK, body)
  <2>1. RespOf(c)' = [code |-> RC!StatusOK, body |-> body]
    BY <1>3, PoolAssumption DEF Answer, RespOf, BodyOf, RC!StatusOK
  <2>2. respOf' = [respOf EXCEPT ![c] = [code |-> RC!StatusOK, body |-> body]]
    BY <1>0, <2>1, OneCallsStep
  <2> QED BY <1>3, <2>2 DEF Answer, RC!Answer, respOf, RespOf, BodyOf
<1>4. CASE Forget(c)
  <2>1. respOf' = respOf
    BY <1>4 DEF Forget, respOf, RespOf, BodyOf
  <2> QED BY <1>4, <2>1 DEF Forget, RC!Forget, respOf, RespOf, BodyOf
<1> QED BY <1>1, <1>2, <1>3, <1>4

\* The answer of a call is read into a buffer that others may be parsing.
LEMMA ReturnMaps ==
  ASSUME TypeOK, SInv, NEW c \in Callers, NEW b \in Buffers, Return(c, b),
         NEW S \in SUBSET RC!Exposed, S = Readers(b)
  PROVE  RC!Return(c, S)
<1>1. /\ callPc[c] = "answered" /\ wire[c] \in Bodies /\ b # Nil /\ wire[c] # Nil
      /\ callPc'[c] = "returned" /\ slice'[c] = b /\ content'[b] = wire[c]
      /\ c \notin Readers(b)
      /\ \A d \in Callers \ {c} :
            callPc'[d] = callPc[d] /\ wire'[d] = wire[d] /\ slice'[d] = slice[d]
  BY PoolAssumption DEF Return, TypeOK, SInv, Readers
<1>2. RespOf(c)' = RespOf(c) /\ respOf[c].body = wire[c]
  BY <1>1 DEF respOf, RespOf, BodyOf
<1>3. \A d \in Callers :
         RespOf(d)' = IF d \in Readers(b)
                      THEN [code |-> respOf[d].code, body |-> wire[c]] ELSE RespOf(d)
  BY <1>1, <1>2, ReadOverwrites DEF Return
<1>4. respOf' = [d \in Callers |->
                   IF d \in Readers(b)
                   THEN [code |-> respOf[d].code, body |-> respOf[c].body]
                   ELSE respOf[d]]
  BY <1>2, <1>3 DEF respOf
<1> QED BY <1>4
        DEF Return, RC!Return, RC!Overwritten, respOf, RespOf, BodyOf

\* A handler reads dbaas-aggregator's answer: to the calls, a foreign one.
LEMMA ForeignReadMaps ==
  ASSUME TypeOK, SInv, NEW h \in Handlers, NEW b \in Buffers, FwdRead(h, b),
         NEW S \in SUBSET RC!Exposed, S = Readers(b),
         NEW body \in FwdBodies, body = fwdWire[h]
  PROVE  RC!ForeignRead(S, body)
<1>1. /\ content' = [content EXCEPT ![b] = fwdWire[h]]
      /\ UNCHANGED <<callPc, wire, slice>>
  BY DEF FwdRead, TypeOK, SInv
<1>2. \A d \in Callers :
         RespOf(d)' = IF d \in Readers(b)
                      THEN [code |-> respOf[d].code, body |-> fwdWire[h]] ELSE RespOf(d)
  BY <1>1, ReadOverwrites
<1>3. respOf' = [d \in Callers |->
                   IF d \in Readers(b)
                   THEN [code |-> respOf[d].code, body |-> fwdWire[h]]
                   ELSE respOf[d]]
  BY <1>2 DEF respOf
<1> QED BY <1>3
        DEF FwdRead, RC!ForeignRead, RC!Overwritten, respOf, RespOf, BodyOf

LEMMA StepMaps == IInv /\ SInv /\ [Next]_vars => [RC!RcNext]_RC!rcVars
<1> SUFFICES ASSUME IInv, SInv, [Next]_vars PROVE [RC!RcNext]_RC!rcVars
  OBVIOUS
<1>0. TypeOK
  BY DEF IInv
<1>1. ASSUME NEW c \in Callers, Calling(c) PROVE RC!RcNext
  <2>1. CASE \E b \in Buffers : Return(c, b)
    <3>1. PICK b \in Buffers : Return(c, b)
      BY <2>1
    <3>2. PICK S \in SUBSET RC!Exposed : S = Readers(b)
      BY ReadersAreExposed
    <3>3. RC!Return(c, S)
      BY <1>0, <3>1, <3>2, ReturnMaps
    <3> QED BY <3>3 DEF RC!RcNext
  <2>2. CASE ~ \E b \in Buffers : Return(c, b)
    <3>1. \/ RC!Send(c) \/ RC!BuildFails(c) \/ RC!ConnectionFails(c)
          \/ RC!Done(c) \/ RC!Forget(c)
          \/ \E body \in Bodies : RC!Answer(c, RC!StatusOK, body)
      BY <1>0, <1>1, <2>2, CallMaps DEF Calling
    <3> QED BY <3>1 DEF RC!RcNext
  <2> QED BY <2>1, <2>2
<1>2. ASSUME NEW h \in Handlers, Forwarding(h) PROVE [RC!RcNext]_RC!rcVars
  <2>1. CASE \E b \in Buffers : FwdRead(h, b)
    <3>1. PICK b \in Buffers : FwdRead(h, b)
      BY <2>1
    <3>2. PICK S \in SUBSET RC!Exposed : S = Readers(b)
      BY ReadersAreExposed
    <3>3. PICK body \in FwdBodies : body = fwdWire[h]
      BY <1>0, <3>1 DEF FwdRead, TypeOK, SInv
    <3>4. RC!ForeignRead(S, body)
      BY <1>0, <3>1, <3>2, <3>3, ForeignReadMaps
    <3> QED BY <3>4 DEF RC!RcNext
  <2>2. CASE ~ \E b \in Buffers : FwdRead(h, b)
    <3>1. UNCHANGED <<content, callPc, wire, slice, reused>>
      BY <1>2, <2>2
      DEF Forwarding, Forward, FwdAnswer, FwdFails, RespondWithBytes, Release,
          WriteResponse, NextRequest, poolVars, callVars
    <3> QED BY <3>1 DEF RC!rcVars
  <2> QED BY <2>1, <2>2
<1>3. CASE UNCHANGED vars
  BY <1>3 DEF vars, poolVars, callVars, RC!rcVars
<1> QED BY <1>1, <1>2, <1>3 DEF Next

\* DoRequest's callers see of the pool what RestClient says, and no more: the
\* bytes of a slice change only after it has been returned, only by a response
\* that is read meanwhile, and then the call is marked as reused.  What is
\* proved of the clients from RestClient's steps stands on this.
THEOREM PoolKeepsRestClientsPromise == Spec => CallsAreRestClients
<1>1. Init => RC!RcInit
  BY InitMaps
<1>2. IInv /\ SInv /\ [Next]_vars => [RC!RcNext]_RC!rcVars
  BY StepMaps
<1> QED BY <1>1, <1>2, IInvHolds, SInvHolds, PTL
        DEF Spec, CallsAreRestClients, RC!RcSpec
=============================================================================
