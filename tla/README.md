# dbaas-agent in TLA+

A model of `src/dbaas-agent-service`: a proxy in front of dbaas-aggregator that
checks each request's tenant and namespace with two upstream services before it
forwards it. The modules are checked with TLC on small instances, and eight more
hold proofs for TLAPS. Paths below are relative to `src/dbaas-agent-service`.

    tlc -workers 2 -config tenants.cfg MCTenantManagerClient
    tlapm BodyPoolProofs.tla

## The system

One process. fasthttp serves every request in a goroutine of its own; one more
goroutine, `BackgroundCleanJob`, clears the tenant cache every two minutes.
Nothing is persisted, and nothing is locked.

    client --HTTP--> handler (controller) --HTTP, timeouts--> dbaas-aggregator
                       |
                       v
                     checks (service/security_service.go)
                       |                       |
            tenant-manager client      control-plane client
            tenantListCache            compositeStructureCache
                       \                       /
                        REST client, no timeouts --> tenant-manager, control-plane

| Component | State | Operations | Must hold |
|---|---|---|---|
| REST client, `client/rest_client.go` | the response of a call, in fasthttp's pool of buffers | `DoRequest` | the caller gets the upstream's answer (it may not: finding 1) |
| Tenant check, `CheckTenantId*` over `client/tenant_manager_client.go` | `tenantListCache`, a slice | `CheckTenantIdExist`, `GetTenantsList`, `GetTenantsFromCache`, `CleanCacheJob` | nobody is admitted who was never listed; nobody is denied who was listed all along; deleted tenants are forgotten |
| Namespace checks, `CheckNamespace*` over `client/control_plane_client.go` | `compositeStructureCache`, a pointer | `CheckNamespaceIsolation`, `CheckNamespaceFromClassifier`, `GetCompositeStructure*` | an old structure decides only if there is no answer, and only if it is this process's |
| Handlers, `controller/dba_controller.go`, `controller/health.go` | the request being served | eight handlers over the routes of `lib/server.go` | what is forwarded was authorised; the client learns the truth; no panic on a proper body |
| Response copies, `controller/controller_utils.go` | the bytes between two buffers | `RespondWithBytes` | the client gets the aggregator's bytes |
| Forwarder, `service/forwarder.go` | credentials, an HTTP client | `DoRequest` | one answer, and the aggregator's to this request; every exchange ends |
| API versions, `service/api_version_service_impl.go` | none | `GetApiVersion`, `getDbaasSpecs`, `findCommonMajors` | the answer is what both sides support |
| Lifecycle, `lib/server.go` | configuration, read once | `init`, `RunServer`, `initConfiguration`, `BackgroundCleanJob` | the cleaner runs for ever; a restart keeps nothing; credentials that are not rotated are good |
| Token and role helpers | none | `GetTokenFromRequest`, `CheckAnyRoleMatched` | called by no handler |

What is hard to test here: unsynchronised caches shared by goroutines; buffers
given back before they are read; answers stored out of order; caches that are
stale, torn or never invalidated; calls that never return; an aggregator that
ran a request, perhaps twice or too late, and was not heard; credentials read
once and in two steps while a watcher reloads them; a timeout that overflows;
JSON of any shape, type-asserted. `PROJECT.json` lists each hazard with its line and the properties that cover it.

## The modules

| Module | What it is |
|---|---|
| `RestClient` | `DoRequest` as its callers see it: an answer that may still change after it was returned |
| `BodyPool` | the pool of buffers below it, and the handlers' copies; implements `RestClient` |
| `MembershipCheck` | what a check promises: no cache, no call, only what an answer may mean |
| `TenantManagerClient` | the tenant check and its cache, on `RestClient`; implements `MembershipCheck` |
| `ControlPlaneClient` | the namespace checks and their cache, on `RestClient`; implements `MembershipCheck` |
| `Requests` | the shapes of requests, and what the code makes of their fields |
| `Exchange` | what `Forwarder.DoRequest` promises: one exchange with dbaas-aggregator, one answer or an error |
| `Forwarder` | `DoRequest` below that: header, attempts, timeouts, broken connections |
| `Server` | the life of the process, its configuration and credentials, over `Forwarder`; implements `Exchange` |
| `ApiVersion` | the API version service, over `Exchange` |
| `Controller` | the handlers, over two instances of `MembershipCheck` and one of `Exchange` |
| `MC...` | constants for TLC |
| `BodyPoolProofs`, `TenantManagerClientProofs`, `ControlPlaneClientProofs`, `ServerProofs`, `ControllerProofs`, `ApiVersionProofs` | theorems and their proofs |
| `TenantManagerClientRefinement`, `ControlPlaneClientRefinement` | the proofs, on top of those, that the checks implement `MembershipCheck` |

The refinements, from the bottom:

    BodyPool => RestClient          Server (over Forwarder) => Exchange
                  |  RC!                                          |  EX!, AG!
                  v                                               v
    TenantManagerClient => MembershipCheck            ApiVersion, Controller
    ControlPlaneClient  => MembershipCheck --- TM!, CP! --> Controller

Each detailed module is checked in full with its races, and what is built on it is
checked against its promise alone. Every arrow `=>` is a property of a run and a
theorem.

### Correspondence

**RestClient.** `rcPc` is where a goroutine is in `DoRequest`: `Send`/`BuildFails`
are `constructRequest`, `ConnectionFails` is `Do` reporting an error, `Return` is
the `return` with the deferred release. `rcResp` is the status code (copied) and
the body (not copied: what its bytes are *now*). `Return(c, S)` and `ForeignRead`
overwrite the bytes of a set `S` of callers that have returned and not yet
parsed; that is all of the pool that a caller can observe. `rcReused` records it
for the properties, and no guard reads it.

**BodyPool.** `content[b]` are the bytes of buffer `b`, `pool` the free ones.
`Return` reads the answer into a free buffer which is free again at once
(`rest_client.go:50,56`). `FwdRead`, `RespondWithBytes`, `Release` and
`WriteResponse` are the handler's: `Forwarder.DoRequest` keeps the buffer, the
body is copied, the deferred release runs, and then fiber writes.

**TenantManagerClient.** Lists are named by the version of tenant-manager's list
they came from. A slice is a pointer and a length, `LoadPtr`/`LoadLen` and
`StorePtr`/`StoreLen` go in either order (`words` says which are left) and
interleave with everything: unsynchronised access is undefined in Go's memory
model, and this is what a 64-bit build does. `Hit`, `Strays` and `Miss` are the
branches of `CheckTenantIdExist`, with `Strays` for a loop that leaves its
array (a length from a longer list): it may find anything, or the process may
die (`Restart`). `GetTenantsListFails`/`Parses`, `StorePtr`, `StoreLen` and
`Decides` are `GetTenantsList` and what follows. `CleanCacheJob` begins the
cleaner's assignment; the cleaner is not atomic either.

**ControlPlaneClient.** The two checks are the same code but for their messages
and are one model. `Exempt` is the early exit, `CheckNamespace` the call,
`StoresAndDecides` an answer, `FallsBack` and `NothingToFallBackOn` what happens
without one. The cache is one pointer, so a store is one step.

**Requests, Controller.** A request has a route, the tenant of its context, a path
namespace and a body out of the shapes that `body["classifier"]` and the fields
read from it can have. `TenantFromBody`, `GetNamespaceFromClassifier` and
`GetServiceName` are pure and say which of them panic. `Stages` gives each
handler's order and `stage[c]` the place a goroutine has come to; a stage passes,
refuses, panics or waits for a check. `HandleGetOrCreateDatabaseV3` and so on are
named after the handlers, and `ForwardHandler` stands for its seven routes.
Registration's special cases are `skipped` in `CheckTenantId` and the 404 in
`ForwardReturns`. The tenant check is `MembershipCheck` with `StrayItems <- Tenants`, which is the
interface that `TenantManagerClient` implements: any tenant may be let through by a
torn copy. `strayed` records whose tenant was, for `ForwardedIsAuthorised`, and no
guard reads it. `Forward` begins an exchange (`AG!Ask`); `AggregatorRuns` may
happen at any time after it, also when `ForwardFails` has already ended it.

**Exchange, Forwarder.** `Exchange!reached[c]` are the answers the aggregator has
come to for a caller's request, of which `Answered` takes one. In `Forwarder`,
`wire[c][a]` is the answer to attempt `a`, and nothing takes an attempt back:
`AggregatorRuns` may serve one that was given up. `TimesOut` and
`ConnectionBreaks` end an attempt, `SendsAgain` and `GivesUp` are what fasthttp's
`Do` then does. Which requests it sends again (idempotent ones, or any on a
connection that was closed while idle) is the library's business: here it may
send any again, up to `Attempts` times, or none.

**Server.** `serverPc` follows `init` (`Boot`), `RunServer` (`StartWatcher`) and
`initConfiguration`, whose two reads of the credentials are two steps because the
watcher's `Reload` runs beside them; `InitConfiguration` is the rest. Credentials
are named by the version of the secret: `accepted` is the aggregator's,
`mounted` the one in the file system, `loaded` the one in the configuration. A
name and a password are accepted if both are of the accepted version. `Wrap` is the product
`time.Duration(sec)*time.Second` modulo 2^64. `Dies` is `MustString` panicking,
`Process` failing, or the process killed, at any step. The two secrets are files of
one mounted secret, which the kubelet replaces as a whole (`Mount`).

**ApiVersion.** `Merged` is the nested loop, `MergedInfo` its body,
`FindCommonMajors` the two loops of `findCommonMajors`: each appends a list of one
or none per round; `IsCommonPart` is the reference definition, in
sets. A minor may be `Missing` (a nil pointer); `DereferencesMissing` says when the loop
meets one, and no property says it again. `Merges` does not look at `answer[c].code`, as the code does not.
`Upgrade` changes the aggregator's list while a caller asks, and `seen[c]` collects the lists it
had meanwhile. The result's `major` is the agent's, as `GetApiVersion` has it,
even if `supportedMajors` no longer contains it; no document says otherwise, and
`IsCommonPart` states it.

## The runs

| Run | Instance | Shows | Distinct states |
|---|---|---|---|
| `tenants` | 2 requests, 1 tenant, 1 change of the list | `AdmittedWasListed`, `DeniedWasAbsent`, `KeepsThePromise` | 309 000 |
| `tenants_live` | 1 request, 2 tenants, 2 changes | `DeletedTenantForgotten` | 38 000 |
| `tenants_torn` | as `tenants` | violates `QuiescentCacheIsWhole` | |
| `composite` | 2 checks, 2 changes of the structure | `AdmittedWasMember`, `AnsweredVerdictIsFresh`, `StepsBackOnlyUnderOverlap`, `KeepsThePromise` | 258 000 |
| `composite_empty` | as `composite` | violates `OnlyThePlatformIsAdmitted` | |
| `bodypool` | 2 calls, 2 forwards, 3 buffers | `AnswerIsAggregators`, `CallsAreRestClients` | 437 000 |
| `bodypool_reuse` | as `bodypool` | violates `RestBodyIsUpstreams` | |
| `controller` | 1 request at a time, every route, 20-odd bodies | `ForwardedIsAuthorised`, `AnswerTellsTheOutcome`, `WellFormedNeverPanics`, `HangsOnlyInAChecksCall` | 452 000 |
| `controller_null`, `controller_query` | as `controller` | violate `NullClassifierIsAnswered`, `QueryReachesAggregator` | |
| `server` | 1 goroutine, 3 attempts, 3 rotations, 8 timeouts | `CredentialsAreRecent`, `RefusedOnlyAfterRotation`, `ExchangesEnd`, `ExchangesKeepThePromise` | 187 000 |
| `apiversion` | 1 request, lists of up to 2 of 4 specifications on either side | `AnswersTheCommonPart`, `NothingTwice` | 491 000 |

Every module with runs also has its `TypeOK` checked.

**Bounds.** A race over a cache needs two goroutines and the cleaner, and a torn
list needs two lists of different length: `OneChange` has both orders of an
empty list and one with a tenant. `MaxVersion` bounds the changes of an
upstream's list; a cache that steps back needs a second change, so `composite`
and `tenants_live` have two. Three buffers let one be held, one be parsed and one
be free; with two, a forward and a call already contend. The controller's
requests share nothing but the checks, which are other modules' subject, so one
goroutine stands for each; the lists change freely while it runs.
Bodies in `MCController` are a good classifier and all that differ from it in one
field, an absent and a null classifier, no body and an unreadable one.

`server`: a torn pair of credentials needs one rotation between two reads, a pair
that is good again after another needs two, and a third leaves room for one more
behind them (`MaxVersion`). With three attempts (`Attempts`) the answer to the second can be overtaken
both by an earlier attempt's late run and by a later attempt. Durations are scaled:
`Limit` is 16 for 2^63 and `Second` is 2, so that the timeouts contain every kind:
not a number, negative, 0, sound, overflowing to a negative one, to 0 and to a
short one. Goroutines share nothing in the forwarder but the credentials, which do
not change while it serves; the proofs are for any number of them. `apiversion`:
the agent's specifications and the aggregator's agree and differ in root, major,
minor, and supported majors, with duplicates and missing minors; `MaxReplies` bounds
the aggregator's replies in one exchange and `MaxLists` the lists it has during
one, two of each being enough for a reply that is not of the latest list.

**Fairness.** `TenantManagerClient!FairSpec` has weak fairness for the cleaner
alone: its ticker never stops and `CleanCacheJob` waits for nobody. No request
needs to make progress for `DeletedTenantForgotten`, and none is assumed to.
`Controller!FairSpec` has it for each handler's steps (goroutines are scheduled)
including `Forwarding`, that is, the exchange with the aggregator ends: the
forwarder's client has read and write timeouts (`service/forwarder.go:35-36`; the
default is 600 s, and a configured value of 0 would void the assumption). There is
none for tenant-manager and control-plane, because the REST client sets no
timeout; that is what `HangsOnlyInAChecksCall` is about.
`Server!FairSpec` has weak fairness for `Goes(c)`: a response that is there is read,
a timer that is set goes off, an attempt that has ended is repeated or given up, a
caller releases its response. It has none for the aggregator, for the network, for
rotations, or for the process coming up. `ExchangesEnd` is stated for timeouts that are
sound (`SoundTimeout`), and without that premise it does not hold: 0 and the
overflows leave no timer. It is what `Controller!FairSpec` assumes of `Forwarding`.
`CHECK_DEADLOCK` is on everywhere.

## What the runs found

1. `DoRequest` returns bytes it has already released (`client/rest_client.go:56`).
2. Unsynchronised assignments tear `tenantListCache` until the next one
   (`client/tenant_manager_client.go:50`, `:59`).
3. control-plane's own answer, when it is the structure without fields, admits the
   empty namespace (`service/security_service.go:95`). `OnlyThePlatformIsAdmitted`
   leaves out fallbacks and overwritten bytes, which could do the same.
4. A classifier of null panics instead of being answered
   (`service/security_service.go:113`).
5. The list route drops its documented query (`controller/dba_controller.go:404`).

What still holds in spite of 1 and 2 is the more interesting part.
`AdmittedWasListed` holds although slices tear and bytes are overwritten: a loop
that stays within its array only ever meets tenants of a list that existed. The
one way around it is `Strays`, a loop beyond the array, which the model keeps
apart as an outcome of its own and of which the property says when it can happen:
only if two lists since the process started differ in length (one from
overwritten bytes, which is empty, counts as such a list). `ForwardedIsAuthorised` has the
same exception for the tenant of a request. `DeniedWasAbsent` holds but for overwritten bytes,
which is said in its statement. `AnsweredVerdictIsFresh` and
`StepsBackOnlyUnderOverlap` have the same exception.

## What is proved

The proofs are for any number of goroutines, buffers, tenants, namespaces,
attempts and versions, and lists of any length; they use only the assumptions named
in the modules (`PoolAssumption`, `TmAssumption`, `CpAssumption`, `ServerAssumption`,
`RequestsAssumption`, `ControllerAssumption`, `ApiVersionAssumption`,
`MergedAssumption`), which say that the special values are different from the
ordinary ones (the last one that no merge is), that histories are functions of the
versions, that lists are finite sequences of specifications and that bounds are
numbers. The strengthened invariants were checked with TLC, on the instances of the
runs, before they were proved.

**BodyPoolProofs**: `BodyPoolTypeCorrect`, `ClientsGetAggregatorsAnswer`,
`PoolKeepsRestClientsPromise`.
`AnswerIsAggregators` speaks of the moment of writing only, so `IInv` follows the
bytes: a buffer that is held is held by one handler (`HeldApart`; that it is not in
the pool is part of `TypeOK`), it holds what the aggregator answered while it is
held (`ReadIsWire`), and the copy does so afterwards (`CopyIsWire`). `HeldApart` is
why no other read can disturb `ReadIsWire`: a read takes its buffer from the pool.
The refinement needs `SInv` besides: a slice there is belongs to a call that has
returned, and its buffer has content. A read into a buffer, by a call or by a
forward, overwrites what all of its readers see, and `ReadersAreExposed` shows that
these are calls which have returned and not yet parsed: `RestClient` lets exactly
those change (`ReturnMaps`, `ForeignReadMaps`).

**TenantManagerClientProofs**: `TenantsTypeCorrect`, `AdmittedTenantsWereListed`.
The invariant has to say where lists come from: every list named anywhere (the cache,
a copy, an answer, a parsed list) is from `tmBase..tmVersion` or is `Blank`
(`ListsAreRecent`), and a check under way has a tenant to ask for
(`ChecksAreUnderWay`), so that `Blank`'s empty id never matches. Of lengths it says only that each is
nil's or that of such a list (`LengthsAreRecent`), and nothing of which list a length
belongs to, so tearing cannot disturb it: a copy that lets the loop out of its
array has the pointer of one list and the length of a longer one (`LongerList`).

**TenantManagerClientRefinement**: `DeniedTenantsWereAbsent`,
`TenantCheckKeepsThePromise`. A denial comes of the request's own call, so `YInv`
says of a check whose bytes nobody has overwritten that what it parses or has
parsed is no older than itself (`AnswerIsYoung`) and that a denial rests on a list
of its time (`DenialIsFresh`). The cache does not occur in `YInv`, torn or not:
`Miss` throws away what it copied and asks. In the refinement a check that loads, asks and stores is
"asking"; `Hit`, `Decides` and `Strays` are the abstract answers, a change of
tenant-manager's list is a `Change`, and overwritten bytes are the abstract `Misread`,
which lets any tenant count as absent from then on.

**ControlPlaneClientProofs**: `NamespacesTypeCorrect`,
`AdmittedNamespacesWereMembers`, `AnsweredVerdictsAreFresh`,
`CacheStepsBackOnlyUnderOverlap`. `StructuresAreRecent` is `ListsAreRecent` again.
Freshness needs more: an answer whose bytes nobody has written over is at least as
young as its check (`AnswersAreYoung`), which rests on the call belonging to the
check that made it (`CallsAreChecks`: outside of "asking" there is no call and no
body), and on a fallback saying that it is one (`ChecksAreUnderWay`). With
`AnswersAreYoung` the action property is one step of arithmetic.

**ControlPlaneClientRefinement**: `NamespaceChecksKeepThePromise`. `SInv` says that
only a check that asks has misread an answer or fallen back. To get no answer
(`GetCompositeStructureFails`) is a `Misread`, and what `FallsBack` then decides an
`Answer`; the empty namespace that finding 3 admits is an abstract "strayed", the
one outcome that promises nothing; a check that is `Exempt` does not begin. Every
verdict by a structure maps by one lemma, `VerdictMaps`, wherever the structure
comes from.

**ServerProofs**: `ServerTypeCorrect`, `CredentialsAreOfThisProcess`,
`RefusalsMeanRotation`, `ForwarderImplementsExchange`. A refusal is about the
moment an attempt is run, long after the credentials were read, so the invariant carries
them along: the secret's versions follow each other (`SecretsFollow`), the
credentials lie between the process's first version and the loaded one
(`CredentialsFollow`), a header's credentials are the process's
(`AttemptsCarryCredentials`), and a refusal already means a rotation
(`RefusalsAreOfOldCredentials`). If there was none, all versions between `base`
and `accepted` are one, a torn pair is not torn, and the aggregator takes it. The refinement maps every step of
`Server` to a step of `Exchange` or to a stutter, under the type invariant; no
further invariant is needed, because `reached` is read off `wire`.

**ControllerProofs**: `ControllerTypeCorrect`, `OnlyTheAuthorisedIsForwarded`,
`AnswersAreTrue`, `OnlyTheMalformedPanics`. The properties speak of the end of a
handler, the invariant of every stage before it: `Established(c, name)` is what a
request that has passed a stage is known by, and `PassedIsEstablished` says that
all of the stages behind `stage[c]` are. It survives other requests and changes of the
lists because the sets it speaks of only grow (`strayed` too, while a handler runs). A check under way is the stage's
own (`AsksForItsStage`), and what the check has admitted it had reason to
(`AdmittedHasReason`), which is all that is used of `MembershipCheck`.
`PassedByRoute` says which stages lie behind "forward" on each route, and
`BodyHasBeenRead` that a body is looked at only after it was read, which is what
keeps an unreadable one from panicking. The step of each action is a lemma, on
top of one for each way a stage can end (`PassStep`, `RefuseStep`, `PanicStep`,
`WaitStep`).

**ApiVersionProofs**: `ApiVersionTypeCorrect`, `AnswersAreTheCommonPart`,
`NothingIsListedTwice`. Three layers. First, what
`FlattenSeq` returns: it is a recursive function, and the library's induction
theorems take a predicate as a parameter, which cannot be instantiated here.
Induction over the length is done on a *set* of numbers instead: `NatIsInductive`
says that a set with 0 and the successors of its members is all of `Nat`, and
follows from `LeastNat`, that is, from `WFMin` and the well-foundedness of `<`. So
the recursive function exists (`FlattenExists`), the result has what any of the
sequences has (`FlattenSeqHasAll`), and if none is longer than one, it has them in
their order (`FlattenSeqKeepsOrder`). Second, a loop in a loop that appends what it
finds (`LoopFinds`), of which `findCommonMajors` and the merge are two instances
(`CommonMajors`, `ListsMerge`): the merge of two lists is their common part
(`MergedIsCommonPart`) and names nothing twice if neither list does
(`MergedIsDistinct`). Third, the service: while a caller asks, the aggregator's
list is one of those it has seen and a reply to it is one of those or an error's
(`AskingIsSound`), and the answer it gets is one of the replies of its own exchange
(`ExchangeIsSound`).

Only model-checked: `DeletedTenantForgotten`, `HangsOnlyInAChecksCall` and
`ExchangesEnd`, because liveness under fairness is out of the prover's reach. Every
other property of the passing runs is the statement of a theorem.

## What is left out

- Bodies as bytes. An overwritten body is another upstream's answer, `Garbage` or
  `Blank`; a mixture of two is one of the last two.
- A `null` for a list from tenant-manager, which would parse into no list at all.
- The capacity of a slice, which nothing reads.
- fiber's routing, middleware, metrics, logging and swagger.
- `GetTokenFromRequest`, `ValidateToken`, `CheckAnyRoleMatched`, `withRolePrefix`,
  `HandleSimpleGet`, `LoadConfigParameter`: nothing calls them.
- `HandleProbes` answers 200 and touches no state.
- Of the configuration: addresses, TLS, the default security policy (nothing reads
  it), metrics, tracing, route registration. `server` has the timeout and the
  credentials; the isolation flag is in the modules that read it.
- The error of `NewApiVersionService`, dropped at `lib/server.go:100`: what a nil
  service does is up to the actuator's library.
- `domain/dto.go` and `docs/` are declarations and generated text, `testutils/` is
  for the unit tests, and the Helm charts have nothing that runs in the agent.
- Other replicas: they share no state with this one.

## Plan

Done: `RestClient`, `TenantManagerClient`, `ControlPlaneClient`, `BodyPool`,
`MembershipCheck`, `Requests`, `Controller`; then `Exchange`, `Forwarder`,
`Server`, `ApiVersion`, with `Controller` put on `Exchange`; and the proofs of every
safety property, action property and refinement that the runs check. Every part of
the agent that keeps state or decides anything is modelled. What is left:

1. The abstract modules' own consequences, proved once: of `MembershipCheck`, that
   whoever is allowed was listed and whoever is denied was absent; of `Exchange`,
   that an answer is one of those reached. With the refinements, they then hold of
   every implementation.
2. The invariants that the liveness properties rest on: an exchange under a sound
   timeout is never without a step of `Goes`, a handler that waits for a check waits
   for a call that the check has made.
3. `Requests`: `TenantFromBody`, `GetNamespaceFromClassifier` and `GetServiceName`
   against the shape a body has on the wire.
