---------------------------- MODULE ServerProofs ----------------------------
(***************************************************************************)
(* Theorems about Server.                                                  *)
(***************************************************************************)
EXTENDS Server, TLAPS

\* Nothing runs ahead of what it follows: the mounted secret of the accepted
\* one, the loaded configuration of the mounted one, and both of the start.
SecretsFollow ==
  /\ base <= loaded
  /\ loaded <= mounted
  /\ mounted <= accepted

\* The credentials are there from where initConfiguration reads them until the
\* process ends, and a later read finds no earlier version.
CredentialsFollow ==
  /\ serverPc \in {"down", "booted", "watched"} => username = Nil
  /\ serverPc \in {"down", "booted", "watched", "named"} => password = Nil
  /\ serverPc = "named" => username # Nil
  /\ serverPc \in {"credentialled", "configured", "serving"} => password # Nil
  /\ username # Nil => base <= username /\ username <= loaded
  /\ password # Nil => username # Nil /\ username <= password /\ password <= loaded

\* Only a serving process has attempts under way, and all of them carry its
\* credentials.
AttemptsCarryCredentials ==
  \A c \in Callers :
     /\ attempt[c] # 0 => /\ serverPc = "serving"
                          /\ header[c] = <<username, password>>
     /\ fwPc[c] = "idle" <=> attempt[c] = 0
     /\ fwAnswer[c] # Nil => fwPc[c] = "answered"
     /\ \A a \in 1..Attempts : wire[c][a] # Nil => a <= attempt[c]

RefusalsAreOfOldCredentials ==
  \A c \in Callers :
     /\ \A a \in 1..Attempts : wire[c][a] = Unauthorized => base < accepted
     /\ fwAnswer[c] = Unauthorized => base < accepted

IInv ==
  /\ TypeOK
  /\ SecretsFollow
  /\ CredentialsFollow
  /\ AttemptsCarryCredentials
  /\ RefusalsAreOfOldCredentials

-----------------------------------------------------------------------------

\* A time.Duration stays within its bits.
LEMMA WrapType ==
  ASSUME NEW n \in Int
  PROVE  Wrap(n) \in Durations
<1>1. n + Limit \in Int /\ 2 * Limit \in Nat \ {0}
  BY ServerAssumption
<1>2. (n + Limit) % (2 * Limit) \in 0..(2 * Limit - 1)
  <2>1. ASSUME NEW a \in Int, NEW b \in Nat \ {0}
        PROVE  a % b \in 0..(b - 1)
    BY <2>1
  <2> QED
    BY <1>1, <2>1
<1> QED
  BY <1>2, ServerAssumption DEF Wrap, Durations

\* The configured timeout is a number of seconds.
LEMMA ConfiguredSecType ==
  ASSUME NEW env \in Timeouts
  PROVE  ConfiguredSec(env) \in Int
BY ServerAssumption DEF ConfiguredSec

LEMMA InitEstablishes == Init => IInv
<1> SUFFICES ASSUME Init PROVE IInv
  OBVIOUS
<1>1. TypeOK
  <2>1. 0 \in Versions /\ 0 \in Durations
    BY ServerAssumption DEF Versions, Durations
  <2>2. 0 \in 0..Attempts
    BY ServerAssumption
  <2> QED
    BY <2>1, <2>2 DEF Init, FW!FwInit, TypeOK
<1> USE ServerAssumption DEF Init, FW!FwInit
<1>2. SecretsFollow /\ CredentialsFollow
  BY DEF SecretsFollow, CredentialsFollow
<1>3. AttemptsCarryCredentials
  BY DEF AttemptsCarryCredentials
<1>4. RefusalsAreOfOldCredentials
  BY DEF RefusalsAreOfOldCredentials
<1> QED
  BY <1>1, <1>2, <1>3, <1>4 DEF IInv

-----------------------------------------------------------------------------

\* The steps of the process and of the secrets that leave the forwarder alone.
Quiet ==
  \/ Boot \/ StartWatcher \/ ReadsUsername \/ ReadsPassword
  \/ InitConfiguration \/ StartServer \/ Rotate \/ Mount \/ Reload

LEMMA QuietStepType ==
  ASSUME TypeOK, Quiet
  PROVE  TypeOK'
<1> USE DEF TypeOK, Versions, fwVars, secretVars, configVars
<1>1. CASE Boot
  BY <1>1 DEF Boot
<1>2. CASE StartWatcher
  BY <1>2 DEF StartWatcher
<1>3. CASE ReadsUsername
  BY <1>3 DEF ReadsUsername
<1>4. CASE ReadsPassword
  BY <1>4 DEF ReadsPassword
<1>5. CASE InitConfiguration
  <2>1. Wrap(ConfiguredSec(timeoutEnv) * Second) \in Durations
    BY WrapType, ConfiguredSecType, ServerAssumption
  <2> QED
    BY <1>5, <2>1 DEF InitConfiguration
<1>6. CASE StartServer
  BY <1>6 DEF StartServer
<1>7. CASE Rotate
  BY <1>7, ServerAssumption DEF Rotate
<1>8. CASE Mount
  BY <1>8, ServerAssumption DEF Mount
<1>9. CASE Reload
  BY <1>9 DEF Reload
<1> QED
  BY <1>1, <1>2, <1>3, <1>4, <1>5, <1>6, <1>7, <1>8, <1>9 DEF Quiet

LEMMA QuietStep ==
  ASSUME IInv, Quiet
  PROVE  IInv'
<1>1. TypeOK'
  BY QuietStepType DEF IInv
<1> USE DEF fwVars, secretVars, configVars
<1>2. SecretsFollow'
  <2> USE DEF IInv, TypeOK, Versions, SecretsFollow
  <2>1. CASE Boot \/ StartWatcher
    BY <2>1, ServerAssumption DEF Boot, StartWatcher
  <2>2. CASE ReadsUsername \/ ReadsPassword \/ InitConfiguration \/ StartServer
    BY <2>2 DEF ReadsUsername, ReadsPassword, InitConfiguration, StartServer
  <2>3. CASE Rotate \/ Mount \/ Reload
    BY <2>3, ServerAssumption DEF Rotate, Mount, Reload
  <2> QED
    BY <2>1, <2>2, <2>3 DEF Quiet
<1>3. CredentialsFollow'
  <2> USE ServerAssumption DEF IInv, TypeOK, Versions, SecretsFollow, CredentialsFollow
  <2>1. CASE Boot \/ StartWatcher
    BY <2>1 DEF Boot, StartWatcher
  <2>2. CASE ReadsUsername
    BY <2>2 DEF ReadsUsername
  <2>3. CASE ReadsPassword
    BY <2>3 DEF ReadsPassword
  <2>4. CASE InitConfiguration \/ StartServer
    BY <2>4 DEF InitConfiguration, StartServer
  <2>5. CASE Rotate \/ Mount
    BY <2>5 DEF Rotate, Mount
  <2>6. CASE Reload
    BY <2>6 DEF Reload
  <2> QED
    BY <2>1, <2>2, <2>3, <2>4, <2>5, <2>6 DEF Quiet
<1>4. AttemptsCarryCredentials'
  <2> USE DEF IInv, AttemptsCarryCredentials
  <2>1. CASE Boot \/ StartWatcher \/ ReadsUsername \/ ReadsPassword
    BY <2>1 DEF Boot, StartWatcher, ReadsUsername, ReadsPassword
  <2>2. CASE InitConfiguration \/ StartServer
    BY <2>2 DEF InitConfiguration, StartServer
  <2>3. CASE Rotate \/ Mount \/ Reload
    BY <2>3 DEF Rotate, Mount, Reload
  <2> QED
    BY <2>1, <2>2, <2>3 DEF Quiet
<1>5. RefusalsAreOfOldCredentials'
  <2> USE DEF RefusalsAreOfOldCredentials
  <2>0. RefusalsAreOfOldCredentials /\ AttemptsCarryCredentials /\ TypeOK
    BY DEF IInv
  <2>1. CASE Boot
    \* nothing is under way in a process that is down
    <3>1. \A c \in Callers :
             /\ fwAnswer[c] = Nil
             /\ \A a \in 1..Attempts : wire[c][a] = Nil
      <4>1. \A c \in Callers : attempt[c] = 0 /\ fwPc[c] = "idle"
        BY <2>0, <2>1 DEF Boot, AttemptsCarryCredentials
      <4>2. \A a \in 1..Attempts : ~(a <= 0)
        BY ServerAssumption
      <4> QED
        BY <2>0, <4>1, <4>2 DEF AttemptsCarryCredentials
    <3>2. Unauthorized # Nil
      BY ServerAssumption
    <3>3. wire' = wire /\ fwAnswer' = fwAnswer
      BY <2>1 DEF Boot
    <3>4. ASSUME NEW c \in Callers, NEW a \in 1..Attempts
          PROVE  wire[c][a] # Unauthorized
      BY <3>1, <3>2
    <3>5. ASSUME NEW c \in Callers
          PROVE  fwAnswer[c] # Unauthorized
      BY <3>1, <3>2
    <3> QED
      BY <3>3, <3>4, <3>5
  <2>2. CASE StartWatcher \/ ReadsUsername \/ ReadsPassword
    BY <2>0, <2>2 DEF StartWatcher, ReadsUsername, ReadsPassword
  <2>3. CASE InitConfiguration \/ StartServer \/ Mount \/ Reload
    BY <2>0, <2>3 DEF InitConfiguration, StartServer, Mount, Reload
  <2>4. CASE Rotate
    BY <2>0, <2>4, ServerAssumption DEF Rotate, TypeOK, Versions
  <2> QED
    BY <2>1, <2>2, <2>3, <2>4 DEF Quiet
<1> QED
  BY <1>1, <1>2, <1>3, <1>4, <1>5 DEF IInv

-----------------------------------------------------------------------------

\* The steps of an exchange leave the process and the secrets alone.
LEMMA ExchangeStepLeavesServer ==
  ASSUME NEW c \in Callers, IInv, unchangedByForwards' = unchangedByForwards
  PROVE  SecretsFollow' /\ CredentialsFollow'
BY DEF IInv, SecretsFollow, CredentialsFollow, unchangedByForwards, secretVars,
       configVars

LEMMA ForwardsStep ==
  ASSUME NEW c \in Callers, IInv, Forwards(c)
  PROVE  IInv'
<1> USE DEF Forwards, FW!DoRequest
<1>1. SecretsFollow' /\ CredentialsFollow'
  BY ExchangeStepLeavesServer
<1>2. username \in Versions /\ password \in Versions
  BY DEF IInv, TypeOK, CredentialsFollow
<1> USE DEF unchangedByForwards, secretVars, configVars
<1>3. TypeOK'
  BY <1>2, ServerAssumption DEF IInv, TypeOK
<1>4. AttemptsCarryCredentials'
  BY ServerAssumption DEF IInv, TypeOK, AttemptsCarryCredentials
<1>5. RefusalsAreOfOldCredentials'
  BY DEF IInv, RefusalsAreOfOldCredentials
<1> QED
  BY <1>1, <1>3, <1>4, <1>5 DEF IInv

\* The one step where the credentials meet what the aggregator goes by.
LEMMA AggregatorStep ==
  ASSUME NEW c \in Callers, IInv, Aggregator(c)
  PROVE  IInv'
<1>0. PICK a \in 1..Attempts, code \in Codes :
         FW!AggregatorRuns(c, a, <<accepted, accepted>>, code)
  BY DEF Aggregator
<1>1. unchangedByForwards' = unchangedByForwards
  BY DEF Aggregator
<1>2. SecretsFollow' /\ CredentialsFollow'
  BY <1>1, ExchangeStepLeavesServer
<1> DEFINE judged == IF header[c] = <<accepted, accepted>> THEN code ELSE Unauthorized
<1>3. /\ wire' = [wire EXCEPT ![c] = [wire[c] EXCEPT ![a] = judged]]
      /\ fwPc' = fwPc /\ attempt' = attempt /\ header' = header
      /\ fwAnswer' = fwAnswer
      /\ a <= attempt[c] /\ attempt[c] # 0
  BY <1>0 DEF FW!AggregatorRuns, IInv, TypeOK
<1>4. judged \in FW!FwAnswers
  BY DEF FW!FwAnswers
<1> HIDE DEF judged
<1> USE DEF unchangedByForwards, secretVars, configVars
<1>5. TypeOK'
  <2>1. wire' \in [Callers -> [1..Attempts -> FW!FwAnswers \cup {Nil}]]
    BY <1>3, <1>4 DEF IInv, TypeOK
  <2> QED
    BY <1>1, <1>3, <2>1 DEF IInv, TypeOK
<1>6. AttemptsCarryCredentials'
  <2> SUFFICES ASSUME NEW d \in Callers, NEW b \in 1..Attempts,
                      wire'[d][b] # Nil
               PROVE  b <= attempt[d]
    BY <1>1, <1>3 DEF IInv, AttemptsCarryCredentials
  <2>1. CASE d = c /\ b = a
    BY <2>1, <1>3
  <2>2. CASE ~(d = c /\ b = a)
    BY <2>2, <1>3 DEF IInv, TypeOK, AttemptsCarryCredentials
  <2> QED
    BY <2>1, <2>2
<1>7. judged = Unauthorized => base < accepted
  <2> SUFFICES ASSUME judged = Unauthorized PROVE base < accepted
    OBVIOUS
  <2>1. header[c] # <<accepted, accepted>>
    BY ServerAssumption DEF judged
  <2>2. header[c] = <<username, password>> /\ password # Nil
    BY <1>3 DEF IInv, AttemptsCarryCredentials, CredentialsFollow
  <2>3. username # accepted \/ password # accepted
    BY <2>1, <2>2
  <2> QED
    BY <2>2, <2>3, ServerAssumption
    DEF IInv, TypeOK, Versions, CredentialsFollow, SecretsFollow
<1>8. RefusalsAreOfOldCredentials'
  <2> SUFFICES ASSUME NEW d \in Callers, NEW b \in 1..Attempts,
                      wire'[d][b] = Unauthorized
               PROVE  base < accepted
    BY <1>1, <1>3 DEF IInv, RefusalsAreOfOldCredentials
  <2>1. CASE d = c /\ b = a
    BY <2>1, <1>3, <1>7 DEF IInv, TypeOK
  <2>2. CASE ~(d = c /\ b = a)
    BY <2>2, <1>3 DEF IInv, TypeOK, RefusalsAreOfOldCredentials
  <2> QED
    BY <2>1, <2>2
<1> QED
  BY <1>2, <1>5, <1>6, <1>8 DEF IInv

\* An attempt ends without a response.
LEMMA AttemptEndsStep ==
  ASSUME NEW c \in Callers, IInv, FW!AttemptEnds(c),
         unchangedByForwards' = unchangedByForwards
  PROVE  IInv'
<1>1. SecretsFollow' /\ CredentialsFollow'
  BY ExchangeStepLeavesServer
<1> USE DEF FW!AttemptEnds, unchangedByForwards, secretVars, configVars
<1>2. TypeOK'
  BY DEF IInv, TypeOK
<1>3. AttemptsCarryCredentials'
  BY ServerAssumption DEF IInv, TypeOK, AttemptsCarryCredentials
<1>4. RefusalsAreOfOldCredentials'
  BY DEF IInv, RefusalsAreOfOldCredentials
<1> QED
  BY <1>1, <1>2, <1>3, <1>4 DEF IInv

LEMMA GoesStep ==
  ASSUME NEW c \in Callers, IInv, Goes(c)
  PROVE  IInv'
<1>0. unchangedByForwards' = unchangedByForwards
  BY DEF Goes
<1>1. SecretsFollow' /\ CredentialsFollow'
  BY <1>0, ExchangeStepLeavesServer
<1> USE DEF unchangedByForwards, secretVars, configVars
<1>2. CASE FW!ResponseArrives(c)
  <2>1. attempt[c] \in 1..Attempts
    BY <1>2, ServerAssumption
    DEF FW!ResponseArrives, IInv, TypeOK, AttemptsCarryCredentials
  <2>2. TypeOK'
    BY <1>0, <1>2, <2>1 DEF FW!ResponseArrives, IInv, TypeOK
  <2>3. AttemptsCarryCredentials'
    BY <1>0, <1>2 DEF FW!ResponseArrives, IInv, TypeOK, AttemptsCarryCredentials
  <2>4. RefusalsAreOfOldCredentials'
    BY <1>0, <1>2, <2>1
    DEF FW!ResponseArrives, IInv, TypeOK, RefusalsAreOfOldCredentials
  <2> QED
    BY <1>1, <2>2, <2>3, <2>4 DEF IInv
<1>3. CASE FW!TimesOut(c, requestTimeout)
  BY <1>0, <1>3, AttemptEndsStep DEF FW!TimesOut
<1>4. CASE FW!SendsAgain(c)
  <2>1. attempt[c] \in Nat /\ attempt[c] # 0 /\ attempt[c] + 1 \in 0..Attempts
    BY <1>4, ServerAssumption
    DEF FW!SendsAgain, IInv, TypeOK, AttemptsCarryCredentials
  <2>2. TypeOK'
    BY <1>0, <1>4, <2>1 DEF FW!SendsAgain, IInv, TypeOK
  <2>3. AttemptsCarryCredentials'
    <3>1. ASSUME NEW b \in 1..Attempts, wire[c][b] # Nil
          PROVE  b <= attempt[c] + 1
      BY <2>1, <3>1, ServerAssumption DEF IInv, AttemptsCarryCredentials
    <3> QED
      BY <1>0, <1>4, <2>1, <3>1
      DEF FW!SendsAgain, IInv, TypeOK, AttemptsCarryCredentials
  <2>4. RefusalsAreOfOldCredentials'
    BY <1>0, <1>4 DEF FW!SendsAgain, IInv, RefusalsAreOfOldCredentials
  <2> QED
    BY <1>1, <2>2, <2>3, <2>4 DEF IInv
<1>5. CASE FW!GivesUp(c)
  <2>1. TypeOK'
    BY <1>0, <1>5 DEF FW!GivesUp, IInv, TypeOK
  <2>2. AttemptsCarryCredentials'
    BY <1>0, <1>5 DEF FW!GivesUp, IInv, TypeOK, AttemptsCarryCredentials
  <2>3. RefusalsAreOfOldCredentials'
    BY <1>0, <1>5 DEF FW!GivesUp, IInv, RefusalsAreOfOldCredentials
  <2> QED
    BY <1>1, <2>1, <2>2, <2>3 DEF IInv
<1>6. CASE FW!ReleaseResponse(c)
  <2>1. TypeOK'
    BY <1>0, <1>6, ServerAssumption DEF FW!ReleaseResponse, IInv, TypeOK
  <2>2. AttemptsCarryCredentials'
    BY <1>0, <1>6 DEF FW!ReleaseResponse, IInv, TypeOK, AttemptsCarryCredentials
  <2>3. RefusalsAreOfOldCredentials'
    BY <1>0, <1>6, ServerAssumption
    DEF FW!ReleaseResponse, IInv, TypeOK, RefusalsAreOfOldCredentials
  <2> QED
    BY <1>1, <2>1, <2>2, <2>3 DEF IInv
<1> QED
  BY <1>2, <1>3, <1>4, <1>5, <1>6 DEF Goes, FW!Goes

LEMMA DiesStep ==
  ASSUME IInv, Dies
  PROVE  IInv'
<1> USE DEF Dies, FW!FwDies
<1>1. TypeOK'
  <2>1. 0 \in Durations /\ 0 \in 0..Attempts
    BY ServerAssumption DEF Durations
  <2> QED
    BY <2>1 DEF IInv, TypeOK
<1>2. SecretsFollow'
  BY DEF IInv, SecretsFollow
<1>3. CredentialsFollow'
  BY DEF CredentialsFollow
<1>4. AttemptsCarryCredentials'
  BY DEF AttemptsCarryCredentials
<1>5. RefusalsAreOfOldCredentials'
  BY ServerAssumption DEF RefusalsAreOfOldCredentials
<1> QED
  BY <1>1, <1>2, <1>3, <1>4, <1>5 DEF IInv

LEMMA StepPreserves == IInv /\ [Next]_vars => IInv'
<1> SUFFICES ASSUME IInv, [Next]_vars PROVE IInv'
  OBVIOUS
<1>1. CASE Quiet
  BY <1>1, QuietStep
<1>2. CASE Dies
  BY <1>2, DiesStep
<1>3. ASSUME NEW c \in Callers, Forwards(c) PROVE IInv'
  BY <1>3, ForwardsStep
<1>4. ASSUME NEW c \in Callers, Aggregator(c) PROVE IInv'
  BY <1>4, AggregatorStep
<1>5. ASSUME NEW c \in Callers, ConnectionBreaks(c) PROVE IInv'
  BY <1>5, AttemptEndsStep DEF ConnectionBreaks, FW!ConnectionBreaks
<1>6. ASSUME NEW c \in Callers, Goes(c) PROVE IInv'
  BY <1>6, GoesStep
<1>7. CASE UNCHANGED vars
  BY <1>7 DEF vars, secretVars, configVars, fwVars, IInv, TypeOK, SecretsFollow,
              CredentialsFollow, AttemptsCarryCredentials,
              RefusalsAreOfOldCredentials
<1> QED
  BY <1>1, <1>2, <1>3, <1>4, <1>5, <1>6, <1>7 DEF Next, Quiet

LEMMA Invariance == Spec => []IInv
<1> QED
  BY InitEstablishes, StepPreserves, PTL DEF Spec

\* Whatever rotations, reloads, deaths and repetitions, the process and its
\* exchanges keep their types; in particular no configured number of seconds
\* leaves the range of a time.Duration.
THEOREM ServerTypeCorrect == Spec => []TypeOK
<1>1. IInv => TypeOK
  BY DEF IInv
<1> QED
  BY <1>1, Invariance, PTL

\* The pair of credentials is of versions between the process's start and the
\* mounted secret, in this order, wherever reloads fall.
THEOREM CredentialsAreOfThisProcess == Spec => []CredentialsAreRecent
<1>1. IInv => CredentialsAreRecent
  BY ServerAssumption
  DEF IInv, TypeOK, Versions, SecretsFollow, CredentialsFollow, CredentialsAreRecent
<1> QED
  BY <1>1, Invariance, PTL

\* dbaas-aggregator refuses the agent only if its credentials were rotated
\* after the secret was mounted that the process started with.
THEOREM RefusalsMeanRotation == Spec => []RefusedOnlyAfterRotation
<1>1. IInv => RefusedOnlyAfterRotation
  BY DEF IInv, RefusalsAreOfOldCredentials, RefusedOnlyAfterRotation
<1> QED
  BY <1>1, Invariance, PTL

-----------------------------------------------------------------------------

\* The abstract state of an exchange: what the instance EX puts for it.
exStateOf == [c \in Callers |-> IF fwPc[c] \in {"sent", "broken"} THEN "asked"
                                                                 ELSE fwPc[c]]
reachedOf == [c \in Callers |-> {wire[c][a] : a \in 1..Attempts} \ {Nil}]

LEMMA ExchangeInit == Init => EX!Init
<1> SUFFICES ASSUME Init PROVE EX!Init
  OBVIOUS
<1>1. \A c \in Callers : {wire[c][a] : a \in 1..Attempts} \ {Nil} = {}
  BY DEF Init, FW!FwInit
<1> QED
  BY <1>1 DEF Init, FW!FwInit, EX!Init

\* What leaves the exchanges alone is a step of none of them.
LEMMA ExchangeStutters ==
  ASSUME UNCHANGED fwVars
  PROVE  UNCHANGED EX!vars
BY DEF fwVars, EX!vars

LEMMA ForwardsIsAsk ==
  ASSUME NEW c \in Callers, IInv, Forwards(c)
  PROVE  EX!Ask(c)
<1> USE DEF Forwards, FW!DoRequest
<1>1. exStateOf[c] = "idle" /\ exStateOf' = [exStateOf EXCEPT ![c] = "asked"]
  BY DEF IInv, TypeOK, exStateOf
<1>2. reachedOf' = reachedOf /\ fwAnswer' = fwAnswer
  BY DEF reachedOf
<1> QED
  BY <1>1, <1>2 DEF EX!Ask, exStateOf, reachedOf

\* The aggregator takes up an attempt, perhaps one that was given up.
LEMMA AggregatorIsRun ==
  ASSUME NEW c \in Callers, IInv, Aggregator(c)
  PROVE  \E x \in FW!FwAnswers : EX!Run(c, x)
<1>0. PICK a \in 1..Attempts, code \in Codes :
         FW!AggregatorRuns(c, a, <<accepted, accepted>>, code)
  BY DEF Aggregator
<1> DEFINE x == IF header[c] = <<accepted, accepted>> THEN code ELSE Unauthorized
<1>1. /\ wire' = [wire EXCEPT ![c] = [wire[c] EXCEPT ![a] = x]]
      /\ wire[c][a] = Nil
      /\ fwPc' = fwPc /\ fwAnswer' = fwAnswer
      /\ fwPc[c] # "idle"
  BY <1>0 DEF FW!AggregatorRuns, IInv, TypeOK, AttemptsCarryCredentials
<1>2. x \in FW!FwAnswers /\ x # Nil
  BY ServerAssumption DEF FW!FwAnswers
<1> HIDE DEF x
<1>3. exStateOf[c] # "idle" /\ exStateOf' = exStateOf
  BY <1>1 DEF exStateOf
<1>4. reachedOf' = [reachedOf EXCEPT ![c] = @ \cup {x}]
  <2>1. wire'[c] = [wire[c] EXCEPT ![a] = x]
    BY <1>1 DEF IInv, TypeOK
  <2>2. \A d \in Callers : d # c => wire'[d] = wire[d]
    BY <1>1 DEF IInv, TypeOK
  <2>3. {wire'[c][b] : b \in 1..Attempts} \ {Nil}
           = ({wire[c][b] : b \in 1..Attempts} \ {Nil}) \cup {x}
    <3>1. wire'[c][a] = x /\ \A b \in 1..Attempts : b # a => wire'[c][b] = wire[c][b]
      BY <2>1 DEF IInv, TypeOK
    <3> QED
      BY <1>1, <1>2, <3>1
  <2>4. \A d \in Callers :
           reachedOf'[d] = IF d = c THEN reachedOf[c] \cup {x} ELSE reachedOf[d]
    BY <2>2, <2>3 DEF reachedOf
  <2> QED
    BY <2>4 DEF reachedOf
<1> QED
  BY <1>1, <1>2, <1>3, <1>4 DEF EX!Run, exStateOf, reachedOf

LEMMA AttemptEndsStutters ==
  ASSUME NEW c \in Callers, IInv, FW!AttemptEnds(c)
  PROVE  UNCHANGED EX!vars
<1> USE DEF FW!AttemptEnds
<1>1. exStateOf' = exStateOf
  BY DEF IInv, TypeOK, exStateOf
<1>2. reachedOf' = reachedOf /\ fwAnswer' = fwAnswer
  BY DEF reachedOf
<1> QED
  BY <1>1, <1>2 DEF EX!vars, exStateOf, reachedOf

LEMMA GoesIsExchange ==
  ASSUME NEW c \in Callers, IInv, Goes(c)
  PROVE  EX!Next \/ UNCHANGED EX!vars
<1>1. CASE FW!ResponseArrives(c)
  <2> USE DEF FW!ResponseArrives
  <2> DEFINE x == wire[c][attempt[c]]
  <2>1. attempt[c] \in 1..Attempts
    BY <1>1, ServerAssumption DEF IInv, TypeOK, AttemptsCarryCredentials
  <2>2. x \in FW!FwAnswers /\ x \in reachedOf[c]
    <3>1. wire[c] \in [1..Attempts -> FW!FwAnswers \cup {Nil}]
      BY DEF IInv, TypeOK
    <3>2. x # Nil
      BY <1>1
    <3>3. x \in {wire[c][a] : a \in 1..Attempts}
      BY <2>1
    <3> QED
      BY <2>1, <3>1, <3>2, <3>3 DEF reachedOf
  <2>3. exStateOf[c] = "asked" /\ exStateOf' = [exStateOf EXCEPT ![c] = "answered"]
    BY <1>1 DEF IInv, TypeOK, exStateOf
  <2>4. reachedOf' = reachedOf /\ fwAnswer' = [fwAnswer EXCEPT ![c] = x]
    BY <1>1 DEF reachedOf
  <2>5. PICK y \in FW!FwAnswers : y = x
    BY <2>2
  <2> HIDE DEF x
  <2>6. EX!Answered(c, y)
    BY <2>2, <2>3, <2>4, <2>5 DEF EX!Answered, exStateOf, reachedOf
  <2> QED
    BY <2>6 DEF EX!Next
<1>2. CASE FW!TimesOut(c, requestTimeout)
  BY <1>2, AttemptEndsStutters DEF FW!TimesOut
<1>3. CASE FW!SendsAgain(c)
  <2>1. exStateOf' = exStateOf
    BY <1>3 DEF FW!SendsAgain, IInv, TypeOK, exStateOf
  <2>2. reachedOf' = reachedOf /\ fwAnswer' = fwAnswer
    BY <1>3 DEF FW!SendsAgain, reachedOf
  <2> QED
    BY <2>1, <2>2 DEF EX!vars, exStateOf, reachedOf
<1>4. CASE FW!GivesUp(c)
  <2>1. exStateOf[c] = "asked" /\ exStateOf' = [exStateOf EXCEPT ![c] = "failed"]
    BY <1>4 DEF FW!GivesUp, IInv, TypeOK, exStateOf
  <2>2. reachedOf' = reachedOf /\ fwAnswer' = fwAnswer
    BY <1>4 DEF FW!GivesUp, reachedOf
  <2>3. EX!Fail(c)
    BY <2>1, <2>2 DEF EX!Fail, exStateOf, reachedOf
  <2> QED
    BY <2>3 DEF EX!Next
<1>5. CASE FW!ReleaseResponse(c)
  <2> USE DEF FW!ReleaseResponse
  <2>1. /\ exStateOf[c] \in {"answered", "failed"}
        /\ exStateOf' = [exStateOf EXCEPT ![c] = "idle"]
    BY <1>5 DEF IInv, TypeOK, exStateOf
  <2>2. reachedOf' = [reachedOf EXCEPT ![c] = {}]
    <3>1. {wire'[c][a] : a \in 1..Attempts} \ {Nil} = {}
      BY <1>5 DEF IInv, TypeOK
    <3>2. \A d \in Callers : d # c => wire'[d] = wire[d]
      BY <1>5 DEF IInv, TypeOK
    <3> QED
      BY <3>1, <3>2 DEF reachedOf
  <2>3. EX!Return(c)
    BY <1>5, <2>1, <2>2 DEF EX!Return, exStateOf, reachedOf
  <2> QED
    BY <2>3 DEF EX!Next
<1> QED
  BY <1>1, <1>2, <1>3, <1>4, <1>5 DEF Goes, FW!Goes

LEMMA DiesIsRestart ==
  ASSUME Dies
  PROVE  EX!Restart
<1> USE DEF Dies, FW!FwDies
<1>1. \A c \in Callers : {wire'[c][a] : a \in 1..Attempts} \ {Nil} = {}
  OBVIOUS
<1> QED
  BY <1>1 DEF EX!Restart

LEMMA StepIsExchange == IInv /\ [Next]_vars => [EX!Next]_EX!vars
<1> SUFFICES ASSUME IInv, [Next]_vars PROVE EX!Next \/ UNCHANGED EX!vars
  OBVIOUS
<1>1. CASE Quiet
  <2>1. UNCHANGED fwVars
    BY <1>1 DEF Quiet, Boot, StartWatcher, ReadsUsername, ReadsPassword,
                InitConfiguration, StartServer, Rotate, Mount, Reload
  <2> QED
    BY <2>1, ExchangeStutters
<1>2. CASE Dies
  BY <1>2, DiesIsRestart DEF EX!Next
<1>3. ASSUME NEW c \in Callers, Forwards(c) PROVE EX!Next
  BY <1>3, ForwardsIsAsk DEF EX!Next
<1>4. ASSUME NEW c \in Callers, Aggregator(c) PROVE EX!Next
  BY <1>4, AggregatorIsRun DEF EX!Next
<1>5. ASSUME NEW c \in Callers, ConnectionBreaks(c) PROVE UNCHANGED EX!vars
  BY <1>5, AttemptEndsStutters DEF ConnectionBreaks, FW!ConnectionBreaks
<1>6. ASSUME NEW c \in Callers, Goes(c) PROVE EX!Next \/ UNCHANGED EX!vars
  BY <1>6, GoesIsExchange
<1>7. CASE UNCHANGED vars
  BY <1>7, ExchangeStutters DEF vars
<1> QED
  BY <1>1, <1>2, <1>3, <1>4, <1>5, <1>6, <1>7 DEF Next, Quiet

\* DoRequest, with its attempts, its timeouts and its client that may send a
\* request again, is one exchange of Exchange for those who call it.
THEOREM ForwarderImplementsExchange == Spec => ExchangesKeepThePromise
<1> QED
  BY Invariance, ExchangeInit, StepIsExchange, PTL
  DEF Spec, ExchangesKeepThePromise, EX!Spec
=============================================================================
