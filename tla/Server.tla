------------------------------- MODULE Server -------------------------------
(***************************************************************************)
(* The life of the process (lib/server.go): it loads its configuration,    *)
(* starts the watcher of the mounted secrets, reads the credentials of     *)
(* dbaas-aggregator and the timeout, once, builds the forwarder with them, *)
(* and serves until it dies.  All the while the credentials may be         *)
(* rotated: the aggregator goes by the newest, the mounted secret follows  *)
(* some time later, and the loaded configuration after that.               *)
(*                                                                         *)
(* Credentials are named by the version of the secret.  A name and a       *)
(* password of different versions do not match.                            *)
(***************************************************************************)
EXTENDS Naturals, Integers

CONSTANTS Callers, Attempts, Codes, Unauthorized, Nil,  \* see Forwarder
          MaxVersion,  \* bound: how often the credentials are rotated
          Limit,       \* 2^63, where a time.Duration overflows
          Second,      \* time.Second
          DefaultSec,  \* the timeout when none is configured, in seconds
          NotANumber,  \* a configured timeout that Atoi refuses
          Timeouts     \* what may be configured as dbaas.request.timeout.sec

VARIABLES accepted,    \* the version of the credentials the aggregator goes by
          mounted,     \* the version of the secret in the pod's file system
          loaded,      \* the version in the loaded configuration
          base,        \* the version that was mounted when the process started
          watching,    \* the watcher of the secrets runs
          timeoutEnv,  \* the configured timeout
          serverPc,    \* how far RunServer is
          username, password,  \* what the forwarder's credentials are from
          requestTimeout,      \* the forwarder's timeout, a time.Duration
          fwPc, attempt, header, wire, fwAnswer

FW == INSTANCE Forwarder

secretVars == <<accepted, mounted, loaded, base, watching>>
configVars == <<serverPc, username, password, requestTimeout>>
fwVars == <<fwPc, attempt, header, wire, fwAnswer>>
vars == <<secretVars, configVars, timeoutEnv, fwVars>>

Versions == 0..MaxVersion
Durations == -Limit..(Limit - 1)

ASSUME ServerAssumption ==
  /\ Attempts \in Nat \ {0}
  /\ Unauthorized \notin Codes
  /\ Nil \notin Int \cup Codes \cup {Unauthorized}
  /\ MaxVersion \in Nat
  /\ Limit \in Nat \ {0} /\ Second \in Nat \ {0} /\ DefaultSec \in Nat \ {0}
  /\ DefaultSec * Second < Limit
  /\ NotANumber \notin Int
  /\ Timeouts \subseteq Int \cup {NotANumber}

Init ==
  /\ accepted = 0 /\ mounted = 0 /\ loaded = 0 /\ base = 0
  /\ watching = FALSE
  /\ timeoutEnv \in Timeouts
  /\ serverPc = "down"
  /\ username = Nil /\ password = Nil
  /\ requestTimeout = 0
  /\ FW!FwInit

-----------------------------------------------------------------------------

\* Mutant: a process goes by a configuration from before it started.
BootWithoutLoading ==
  /\ serverPc = "down"
  /\ serverPc' = "booted"
  /\ base' = mounted
  /\ UNCHANGED <<accepted, mounted, loaded, watching, username, password,
                 requestTimeout, timeoutEnv, fwVars>>

\* init(): the configuration is loaded, the mounted secrets with it.
Boot ==
  /\ serverPc = "down"
  /\ serverPc' = "booted"
  /\ base' = mounted
  /\ loaded' = mounted
  /\ UNCHANGED <<accepted, mounted, watching, username, password,
                 requestTimeout, timeoutEnv, fwVars>>

\* podsecrets.StartWatcher; without a watcher the server goes on.
StartWatcher ==
  /\ serverPc = "booted"
  /\ serverPc' = "watched"
  /\ watching' \in BOOLEAN
  /\ UNCHANGED <<accepted, mounted, loaded, base, username, password,
                 requestTimeout, timeoutEnv, fwVars>>

\* initConfiguration, which the watcher's reload may fall into.
ReadsUsername ==
  /\ serverPc = "watched"
  /\ serverPc' = "named"
  /\ username' = loaded
  /\ UNCHANGED <<secretVars, password, requestTimeout, timeoutEnv, fwVars>>

\* Mutant: the password is the one the package was initialised with.
ReadsPasswordOnce ==
  /\ serverPc = "named"
  /\ serverPc' = "credentialled"
  /\ password' = base
  /\ UNCHANGED <<secretVars, username, requestTimeout, timeoutEnv, fwVars>>

ReadsPassword ==
  /\ serverPc = "named"
  /\ serverPc' = "credentialled"
  /\ password' = loaded
  /\ UNCHANGED <<secretVars, username, requestTimeout, timeoutEnv, fwVars>>

\* The product of two time.Durations.
Wrap(n) == ((n + Limit) % (2 * Limit)) - Limit

\* Mutant: Atoi's result is used although it failed.
ConfiguredSecUnchecked(env) == IF env = NotANumber THEN 0 ELSE env

\* httpRequestTimeoutSec
ConfiguredSec(env) == IF env = NotANumber THEN DefaultSec ELSE env

\* The rest of initConfiguration: the services, and the forwarder with its
\* client, whose timeouts are the configured one.
InitConfiguration ==
  /\ serverPc = "credentialled"
  /\ serverPc' = "configured"
  /\ requestTimeout' = Wrap(ConfiguredSec(timeoutEnv) * Second)
  /\ UNCHANGED <<secretVars, username, password, timeoutEnv, fwVars>>

\* The routes are there and the server listens.
StartServer ==
  /\ serverPc = "configured"
  /\ serverPc' = "serving"
  /\ UNCHANGED <<secretVars, username, password, requestTimeout, timeoutEnv,
                 fwVars>>

\* The process ends: a secret that is not there (MustString), an application
\* that cannot be built (Process), or any other reason.
Dies ==
  /\ serverPc # "down"
  /\ serverPc' = "down"
  /\ watching' = FALSE
  /\ username' = Nil /\ password' = Nil /\ requestTimeout' = 0
  /\ FW!FwDies
  /\ UNCHANGED <<accepted, mounted, loaded, base, timeoutEnv>>

-----------------------------------------------------------------------------

Rotate ==
  /\ accepted < MaxVersion
  /\ accepted' = accepted + 1
  /\ UNCHANGED <<mounted, loaded, base, watching, configVars, timeoutEnv, fwVars>>

\* The mounted secret is replaced as a whole, by a version that is there.
Mount ==
  /\ mounted < accepted
  /\ mounted' \in (mounted + 1)..accepted
  /\ UNCHANGED <<accepted, loaded, base, watching, configVars, timeoutEnv, fwVars>>

Reload ==
  /\ watching
  /\ loaded # mounted
  /\ loaded' = mounted
  /\ UNCHANGED <<accepted, mounted, base, watching, configVars, timeoutEnv, fwVars>>

-----------------------------------------------------------------------------

unchangedByForwards == <<secretVars, configVars, timeoutEnv>>

\* A handler forwards a request, with the credentials of NewForwarder.
Forwards(c) ==
  /\ serverPc = "serving"
  /\ FW!DoRequest(c, <<username, password>>)
  /\ UNCHANGED unchangedByForwards

Aggregator(c) ==
  /\ \E a \in 1..Attempts, code \in Codes :
        FW!AggregatorRuns(c, a, <<accepted, accepted>>, code)
  /\ UNCHANGED unchangedByForwards

ConnectionBreaks(c) ==
  /\ FW!ConnectionBreaks(c)
  /\ UNCHANGED unchangedByForwards

Goes(c) ==
  /\ FW!Goes(c, requestTimeout)
  /\ UNCHANGED unchangedByForwards

Next ==
  \/ Boot \/ StartWatcher \/ ReadsUsername \/ ReadsPassword
  \/ InitConfiguration \/ StartServer \/ Dies
  \/ Rotate \/ Mount \/ Reload
  \/ \E c \in Callers :
        Forwards(c) \/ Aggregator(c) \/ ConnectionBreaks(c) \/ Goes(c)

Spec == Init /\ [][Next]_vars

\* A goroutine that has a response, an error or a timeout goes on; the
\* aggregator and the network owe nothing.
FairSpec == Spec /\ \A c \in Callers : WF_vars(Goes(c))

-----------------------------------------------------------------------------

TypeOK ==
  /\ accepted \in Versions /\ mounted \in Versions /\ loaded \in Versions
  /\ base \in Versions
  /\ watching \in BOOLEAN
  /\ timeoutEnv \in Timeouts
  /\ serverPc \in {"down", "booted", "watched", "named", "credentialled",
                   "configured", "serving"}
  /\ username \in Versions \cup {Nil} /\ password \in Versions \cup {Nil}
  /\ requestTimeout \in Durations
  /\ fwPc \in [Callers -> {"idle", "sent", "broken", "answered", "failed"}]
  /\ attempt \in [Callers -> 0..Attempts]
  /\ header \in [Callers -> ((Versions \cup {Nil}) \X (Versions \cup {Nil})) \cup {Nil}]
  /\ wire \in [Callers -> [1..Attempts -> FW!FwAnswers \cup {Nil}]]
  /\ fwAnswer \in [Callers -> FW!FwAnswers \cup {Nil}]

\* The pair of credentials may be torn, a name of one version and a password
\* of a later one, when a reload falls between the two reads of
\* initConfiguration; but it is never older than the process and never ahead
\* of the mounted secret, and the password is never the older one.
CredentialsAreRecent ==
  password # Nil => /\ base <= username
                    /\ username <= password
                    /\ password <= mounted

\* dbaas-aggregator refuses the agent's credentials (401, also after any
\* number of attempts) only if they were rotated since the secret was mounted
\* that the process started with: however reloads fall into the
\* configuration, credentials left alone are good.
RefusedOnlyAfterRotation ==
  \A c \in Callers : fwAnswer[c] = Unauthorized => base < accepted

\* A timeout that is one: not a number, which means the default, or positive
\* and short enough for a time.Duration.
SoundTimeout ==
  timeoutEnv = NotANumber
    \/ (timeoutEnv > 0 /\ timeoutEnv * Second < Limit)

\* A request that is forwarded comes back, whatever dbaas-aggregator and the
\* network do and however often the client sends it again; unless the
\* configured timeout is none.
ExchangesEnd == SoundTimeout => \A c \in Callers : []<>(fwPc[c] = "idle")

\* An exchange is one of Exchange: several attempts, but one answer, and one
\* the aggregator came to for this request; abandoned attempts may be run at
\* any time, also when the caller has long been told of a failure.
EX == INSTANCE Exchange WITH
  Answers <- FW!FwAnswers,
  exState <- [c \in Callers |-> IF fwPc[c] \in {"sent", "broken"} THEN "asked"
                                                                 ELSE fwPc[c]],
  reached <- [c \in Callers |-> {wire[c][a] : a \in 1..Attempts} \ {Nil}],
  answer <- fwAnswer

ExchangesKeepThePromise == EX!Spec
=============================================================================
