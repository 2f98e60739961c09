# TLA+ models of the VPSnet MCP server

This directory holds specifications of `vpsnet-mcp`, the Model Context Protocol
server of the VPSnet hosting platform, the TLC configurations that check them on
small instances, and TLAPS proofs of what matters most for every value of their
constants. `PROJECT.json` links every definition to the source lines it models,
every run to its properties, and every property to a mutated definition that
breaks it. Paths below are relative to the repository (`src/` there is
`src/src/` in `PROJECT.json`).

## 1. The system

The server is one Node.js process that exposes tools to an AI client. It exists
in two profiles:

* **stdio** (`src/index.ts`): one customer, one API key, all tools;
* **hosted HTTP** (`src/http-server.ts`): many customers served by one process,
  each request with its OAuth token, the catalogue cut down by scopes.

A tool call is a JavaScript async function: it runs atomically up to its next
`await`, so calls interleave there and nowhere else. State is kept in memory
only, and only by a few tools; everything durable is behind the VPSnet API, which
is not in the repository. That makes the hard part of this code what happens
*between* awaits: a second call, a cancelled client, an answer that is lost or
late, an expired quote, token or upload, a restart.

### 1.1 Inventory

| component | code | state it keeps | operations | hard behaviour | what makes it correct |
|---|---|---|---|---|---|
| Paid service orders | `index.ts` 3220-3455 | `serviceOrderQuotes`, `serviceOrderQuotesInFlight` | quote, confirm, replay | concurrent calls of one key, lost answers, restart, capacity | one charge per key, of exactly what was acknowledged; truthful outcomes |
| File upload | `service-files.ts` 175-402 | one upload's offset, token, attempts | create, chunk, refresh, abort, complete | late chunks, changing source, cancellation, expiry | published files are whole; a cancelled upload stays unpublished; bounded retries |
| File download | `service-files.ts` 404-502 | a partial file | mint, transfer, publish, clean up | concurrent downloads, other programs, crash | never a partial or unapproved file under the final name |
| File operations | `service-files.ts` 62-175, 503-593 | delay and deadline of a wait | call, poll | busy answers, cancellation, deadline | truthful end; the wait is kept; polls are paced |
| Recipe validation and saving | `index.ts` 1092-1288, 1543-1827; `custom-project-contract.ts` 344-404 | the polled validation | validate, poll, resume, save | moving tags, expiring validations, resumed calls | only validated documents are saved |
| Hosted server and authorization | `http-server.ts`, `request-context.ts`, `remote-policy.ts`, `scope-catalog.ts` | a context per request | authenticate, register, call | interleaved customers, expiry, revocation, scopes that change | the own token, unexpired, within its grant; nothing beyond the consent page |
| API client | `api.ts`, `auth-failure.ts`, `api-path.ts`, `api-configuration.ts` | none | `apiRequest`, error classification | gateway answers, timeouts, requests that arrive late | a change that may have happened is never told as a read to retry |
| Tool catalogue and annotations | `index.ts`, `remote-policy.ts` | none | register, fill in or compute annotations | a late answer repeated because an annotation says so | annotations say what a tool does; what they call repeatable is |
| Events and inspections | `index.ts` 560-660, 1000-1074 | attempts of a loop | poll until done | failed polls | bounded; a repeat finds the queued work |
| Server restore | `index.ts` 5683-5870, `file-restore-contract.ts` | none (drift checks) | price, confirm | data that changes between price and confirmation | charged when acknowledged, once per key |
| Service rescue | `index.ts` 662-832, `service-rescue-contract.ts` | none | status, enter, exit | status read before the POST | at most one effect per key |
| VM sessions | `remote-tools.ts`, `temp-vm-contract.ts` | none (leases in the backend) | bootstrap, command, extend | channel switch, operation keys | at most one effect per key |
| Remote orders, purchase readiness | `remote-orders.ts`, `service-readiness.ts` | none | quote, confirm, follow-up | repeats of a payment | acknowledged, once per key, under a scope that charges |
| Application management | `index.ts`, `application-contract.ts` | none | install, lifecycle, routes, restore, adoption | late and repeated requests | as the catalogue; allowlisted answers |
| Certificates | `index.ts`, `certificate-contract.ts` | none | orders, actions, allowlists | an answer that does not fit the contract | a change told as failed is not made twice |
| Networking, DNS, domains, account, billing | `networking-tools.ts`, `index.ts` | none | single requests | late and repeated requests | as the catalogue |
| Release information | `update-info.ts` | a 5-minute cache | read | stale cache | - |
| Contexts, schemas, results | `read-only-context.ts`, `tool-schema.ts`, `tool-result.ts` | none | data | - | - |
| Scripts, tests | `scripts/`, `test/` | - | - | - | - |

The components meet in three places. Every tool calls `apiRequest`, which takes
its credentials from the request's context (hosted) or the configuration (stdio).
File tools end in `settleOperation`, which polls the operation a changing request
started. Registration (`installRemotePolicy`) decides which tools a hosted request
sees, and checks the scope again when one is called.

The hazards of this code, each at its line and with the properties that watch it
(or the reason why none does yet), are in `PROJECT.json`, "hazards".

## 2. The modules

| module | models | run |
|---|---|---|
| `ApprovedPurchase` | what an order promises the customer: abstract, no process, no messages | (refined) |
| `OrderService` | the `order_service` tool, the order API around it | |
| `MCOrderService` | `OrderService` on a small instance, each behaviour under one numbering of its calls and values | `order_service` |
| `FileUpload` | `uploadServiceFile` | `file_upload`, `file_upload_failed` |
| `AtomicSave` | what a download promises whoever uses the destination: abstract | (refined) |
| `FileDownload` | `downloadServiceFile`, `publishDownload` | `file_download`, `file_download_saved` |
| `SettleOperation` | `settleOperation` | `settle_operation`, `settle_operation_lost` |
| `RecipeSave` | validating, resuming and saving a recipe | `recipe_save`, `recipe_save_replay` |
| `ScopeRules` | the scopes: which passes for which when a tool is called, what the consent page says each includes and charges | |
| `RemoteAccess` | authentication, request contexts, registration, expiry | |
| `MCRemoteAccess` | `RemoteAccess` with five tools of the catalogue and its scope table | `remote_access` |
| `ToolRows` | what the catalogue records of a tool | |
| `ServiceTools`, `ApplicationTools`, `CertificateTools`, `DomainTools`, `HostingTools`, `NetworkingTools`, `HostedTools` | the catalogue: a row for every tool but those of `OrderService` and `RecipeSave` | |
| `ToolPolicy` | the scope each tool requires, annotations and registration per profile | |
| `CatalogueRules` | what the properties of `ToolUse` need of a single tool | |
| `CatalogueFacts` | that every tool of this repository keeps those rules | evaluated in `remote_access` |
| `ToolUse` | one tool call after another: policy, request, API, answer, repetition | |
| `MCToolUse` | `ToolUse` with the whole catalogue and policy | `tool_use` |
| `MCToolRepeat` | `ToolUse` with two tools that charge and draw a key when they are given none | `tool_use_repeated` |
| `*Proofs` | the theorems about the module they name | |

In every module an action is the code between two awaits. Definitions named
`X_Something` directly before `X` are plausible slips of the same code; no
specification uses them, they only show that a property can fail.

### OrderService

`serviceOrderQuotes` is the Map of the same name (one record per key:
configuration, total, confirmation), `serviceOrderQuotesInFlight` the Set. Each
call has a program counter and an HTTP exchange. A call arrives with any
combination of arguments; `Handle` is the code up to the first await and has one
disjunct per early return (`RefuseChanged`, `RefuseUnavailable`,
`RefuseIncomplete`, `RefuseTotal`, `ReplayQuote`, `RefusePending`,
`RefuseCapacity`) and one per request or promise (`SendQuote`,
`SendConfirmation`, `JoinConfirmation`). `Resume` is the code after an await.
`QuoteThrows` and `ConfirmationThrows` are the client giving up, at any time and
also while the API is still at work. `Restart` empties both tables and loses every
call under way. The API actions (external) issue one quote per key, let quotes
expire, and charge, reject or fail a confirmation *after* the client may have gone.

The refinement mapping takes the acknowledged (key, configuration, total) triples
of all calls to `approvals`, and the charges to `ledger`: `ApprovedPurchases` says
that money only moves for an acknowledged triple, once per key, whatever the
interleaving. The API's own idempotency is *not* assumed for this: a second
confirmation would charge again in the model. Only that a key has one quote, and
that a token is needed to confirm, is.

### FileUpload

One upload; sizes count chunks, a chunk's bytes are the version of the source
they were read from. `Tool` has one action per answer that can come back at each
await: create, chunk (accepted, cancelled, timed out, out of order, token refused,
busy, failed, thrown), refresh, abort, completion and its polls. `Environment`
cancels, changes or truncates the source, delivers a chunk the tool gave up on,
and expires or completes the upload on the server. `attempts` and `refreshed` are
the two budgets of the loop.

### FileDownload

Several calls with one `localPath`. Each has a partial file of its own; `target`
is the destination, shared with the other calls and with any other program
(`OtherProgram`). Publishing is `Rename` with `overwrite` and `Link`, `Unlink`
without, as in `publishDownload`; `CleanUp` is the catch block with its unlink,
which may fail as well. `Cancel` and `TimerFires` raise the abort signal at any
time, `Crash` kills the process.

`AtomicSave` leaves out the partial file, the stream and the crash: the name goes to
a finished file in one step (`Save`), once per call and without approval only when it is
free, and success is only told (`Tell`) of a file that was put there. In the
refinement mapping `told` is the set of calls whose result is `success`; the other
variables keep their names. `Rename` and `Link` are the steps that save; every other
step of the code is a `Tell`, an interference of another program, or nothing. The
reverse of `Tell` is not promised: that a call that saved says so is what
`NothingSavedIsTrue` asks and the code does not keep (section 6).

### SettleOperation

Time is counted in ticks, `Second` of them in a second: the code takes any
`retry_after` above zero for a pause, fractions of a second included
(`service-files.ts` 158-159), and a timer waits a millisecond at least, which is the
finest a tick can stand for. `Answered` or `Accepted` is the first answer, `Wake` the end of
a sleep, `Polled`, `PollBusy`, `PollGoesOn`, `PollEnds`, `PollFails` the
answers of a poll. The delay grows from one second to five, follows `retry_after` up to 30
seconds, and the last pause is cut to the time left. `shortest` is a history
variable: the shortest pause the API has named, or a second.

### RecipeSave

A tag resolves to one of `Images` when the API validates a document. `Decide` is
the shared decision on what the last answer said of the validation (save,
pending, invalid, unresolved); `Fetched` is the resume by `validation_id`, which must find the very
document it was given; an answer that does not say until when it is good counts as expired. `Pinned` is the rule that drops a resolved document longer
than 262144 characters.

### RemoteAccess

`Arrive`, `Introspected`, `BodyRead`, `CallApi`, `ApiAnswers` are the awaits of
one HTTP request; several are in flight. A context is built once per request from
the introspection and never changes. `Revoke`, `Regrant` and `Tick` happen
between any two steps. The tools and the scope each requires, with the
connection's order scopes and without, are constants (`Tools`, `Permissions`,
`OrderPermissions`), and which scope passes for which is `hasScope` of `ScopeRules`, the
code's. `MCRemoteAccess` takes five tools of the catalogue for the run: one that reads,
one that changes, one that charges, one either order scope passes for, and one the
hosted server does not have.

### The catalogue, ToolPolicy and ToolUse

Most tools of this server keep nothing: a handler builds a request, sends it, and
passes on the answer. What can go wrong with them is not in one handler but
between a handler, the annotations and scopes attached to it elsewhere, and a
client that acts on those. Four layers model this.

* A **row** (`ToolRows`) says of one tool: how `apiRequest` is told to treat a
  page that is not the API's (`reads`), whether an Idempotency-Key is sent, whether
  the schema asks for a literal acknowledgement, whether a status, options or a
  quote are requested first, how the answer is passed on, whether the call polls,
  and what the registration states as annotations. What the API's route does
  (`change`, `settles`, `pays`) is external: it is taken from the comments of
  `remote-policy.ts`, the tools' descriptions and
  `test/fixtures/tool-contracts/impact-policy.json`. The catalogue modules follow
  the sections of `index.ts`, `networking-tools.ts`, `service-files.ts`,
  `remote-tools.ts` and `remote-orders.ts`; each definition holds the tools
  registered in the lines it names.
* **ScopeRules** is what decides about scopes: `hasScope` of `remote-policy.ts`, and
  from `scope-catalog.ts` what a scope implies and which charge (`implies`, `billing`),
  with `ShownScopes`, what a customer's consent page named. **ToolPolicy** is the rest of
  `remote-policy.ts`: the permission table of both hosted profiles, `installToolTitles`
  (`LocalHints`) and `installRemotePolicy` (`RemoteHints`, `HostedRow`). `manage_application`
  and the other aggregate tools are hidden from a hosted list but still callable, and
  are callable here.
* **ToolUse** runs calls against a catalogue and a policy given as constants.
  `Choose` is the client, with or without key and acknowledgement where the schema
  leaves them open; `Regrant` is the customer changing scopes before the call
  arrives, within its profile; `Refuse` and `Dispatch` are the policy's check (`Registered`,
  `Permitted`); `LookPasses`,
  `LookFails` the request some handlers make first. The request of an attempt has a
  `fate` of its own: the API carries it out, turns it away, or gets to it only after
  the caller has been told something else (`Apply`, `TurnAway`). `PassOn`,
  `Follow`, `Misfit`, `PassRefusal`, `Gateway`, `Thrown` are the answers, `Poll*`
  the loop of `runApplicationInspection` and `wait_for_event`. `Repeat` is a
  client that calls again because a key, an annotation or the answer itself says
  that it may.
* **CatalogueRules** names what the properties need of one tool's row, annotations and
  scope (`PageHarmless`, `RepeatHarmless`, `ImpactListed`, `ConsentFits`, `ChargeListed`).
  `CatalogueFacts` assumes them of every tool under every profile; they are
  statements about finite tables, which TLC evaluates.

## 3. What the runs check

| run | instance | shows |
|---|---|---|
| `order_service` | 3 calls, 2 keys, 2 configurations, 2 totals, capacity 1, fairness | the safety properties, the capacity among them, and the refinement of `ApprovedPurchase`; every call is answered |
| `file_upload` | up to 2 chunks, 2 versions, both planes, 2 attempts | whole, truthful, bounded, ending uploads |
| `file_upload_failed` | 1 chunk, API plane | **violation** of `FailedTransferAborted`, see section 6 |
| `file_download` | 2 calls, 1 piece | whole files, clean ends, termination, the refinement of `AtomicSave` |
| `file_download_saved` | 1 call | **violation** of `NothingSavedIsTrue` |
| `settle_operation` | waits 0, 1, 3, 30 s; `retry_after` a quarter, 7, 40 s; requests up to 3 s; 4 ticks a second | truthful ends, the wait kept, paced polls |
| `settle_operation_lost` | one wait | **violation** of `OperationNotLost` |
| `recipe_save` | 2 calls, 1 key, 2 validation ids, 3 images (1 oversize), 1 poll, fairness | what is saved was validated; pending can be resumed; each call ends |
| `recipe_save_replay` | 2 calls, 1 key | **violation** of `ReplayIsExact` |
| `remote_access` | 2 requests, 2 tokens, 2 grants, 5 tools, clock to 1 | own, fresh, unrevoked tokens within their grant; the whole catalogue keeps its rules |
| `tool_use` | every tool under every profile that has it, 6 connections, 2 attempts, 2 polls, fairness | what a call did was disclosed, consented to, truthfully answered and, outside `OpenRepeats`, made once; each call is answered |
| `tool_use_repeated` | `request_restore` and `invoke_function` on the local server, 2 attempts | **violation** of `IdempotentAppliesOnce` |

**Bounds.** Three order calls on one key are the least in which one call quotes,
one confirms and one interferes; the second key contends for the capacity, which is
the only thing two keys share, and two configurations and totals make *changed*
possible. A quote, its confirmation and both again after a restart take four calls on a
key: that case, and every other number and capacity, is the theorems'. Two chunks are the
least with a first, a last and an out-of-order one; `MaxAttempts` is 2 in the run
and 3 in the code, the proofs hold for every number. Two downloads, one piece:
empty, whole and cut-off files exist, and two calls race for one name. The waits
include zero, one shorter and one longer than a growing delay, the pauses one of a
fraction of a second and one above the cap of 30. Two recipe calls are a save and its resumption or replay. Two
HTTP requests of one or two tokens are what is needed to confuse contexts. In
`tool_use` the catalogue is the code's own, whole. Its connections are the local
server, and a hosted one with only reading scopes, with all, with all and both
order scopes, with orders of domains beside one reading scope, and with the legacy file
scope alone; between those
of one profile the customer changes scopes before a call arrives. Two attempts are the least
in which a late request meets its own repetition; a third only repeats the second,
as what is told of an attempt depends on its own request and on whether the key was
applied. Two polls are one that goes on and a last one (15 in the code); the
proofs hold for every number of both.
Calls and keys are interchangeable in `OrderService`, and configurations and totals are
only compared within a key, so any behaviour can be renumbered, once and for its whole
length, so that each of them is used in order; `MCOrderService` looks at those only
(`Canonical`). Unlike TLC's symmetry, which may change the numbering from state to state,
this is sound for liveness. `remote_access` checks invariants only and uses TLC's
symmetry of requests and tokens, which are compared and nothing else.

**Deadlock** is checked in `order_service`, `recipe_save*`,
`remote_access` and `tool_use*`, where the environment can always move (a restart, a moving
tag, a changed grant, another call); the three modules of file calls stop when the calls are
done, and their configurations say so.

**Fairness.** Nothing is assumed of callers, clients, other programs, or of the
API's goodwill.
* `OrderService`: `WF_vars(Resume(c))`. The event loop resumes an answered call,
  and `apiRequest`'s timer (`api.ts` 127-145) turns a missing answer into an exception.
* `FileUpload`: `WF_vars(Tool)`. Each await of the tool is a request with a timer,
  a sleep or a local read, so some outcome arrives; which one is not said.
* `FileDownload`: the timer fires, and a step of the tool is owed except while
  data is awaited; there it is owed only once the signal is raised. Data itself
  is never owed, so `DownloadEnds` rests on the timer.
* `RecipeSave`: `WF_vars(ToolStep(c))`, as for orders.
* `ToolUse`: `WF_vars(ServerStep)`. Every request has `apiRequest`'s timer, every loop
  a limit, so the server always has a next step of its own; nothing is assumed of
  the API or the work it queues.
* `RemoteAccess`, `SettleOperation`: safety only. `WaitKept` and `PollsPaced` are the bounds
  that liveness would leave open.

Every property of a passing run has a mutant in `PROJECT.json` that breaks it.

## 4. What is proved

The `*Proofs` modules prove, for every value of the constants allowed by the
named assumptions, all safety properties of the passing runs and both refinements, of
`ApprovedPurchase` and of `AtomicSave`. The assumptions are those the modules state: the
capacity and limits are naturals, calls and keys are finite sets (orders count them), and
`None`, `Other`, `Tagged` are not ordinary values.

| module | inductive invariant | why the properties alone are not inductive |
|---|---|---|
| `OrderServiceProofs` | `TypeOK`, `CallRecords`, `OneQuoteRequestPerKey`, `QuotesGenuine`, `ConfirmationsApproved`, `UnconfirmedQuotes`, `OneConfirmationPerKey`, `OutcomesGenuine`, `OneOutcomePerKey` | after a restart the Map is empty, and that no second confirmation is sent follows from the API having issued the key's only quote (`QuotesGenuine`); that a stored outcome is the API's from the exchange it came with (`OutcomesGenuine`) |
| `FileUploadProofs` | `TypeOK`, `OffsetArrived`, `Lifecycle`, `SendsCounted` and the reports | `offset` never exceeds what arrived, although chunks also arrive late; sends are bounded by a sum of both budgets |
| `FileDownloadProofs` | `TypeOK`, `Progress`, `Answers`, `NeverPartial`, `NothingLeftBehind` | what a call may publish depends on where it is; that nothing is told before the end (`Answers`) makes each step one of `AtomicSave` |
| `SettleOperationProofs` | `TypeOK`, `Paced`, `Unanswered`, `EndTruthful`, `WaitKept`, `PollsPaced` | each poll but the last is preceded by a pause no shorter than the shortest named so far, or a second (`Paced`); that a pause grows or is named later never makes it shorter than that |
| `RecipeSaveProofs` | `TypeOK`, `SentValidated`, `FollowersFollow`, `ControlOK` | what a call knows of a validation must stay true: the API keeps the document and a successful end (`Kept`) |
| `RemoteAccessProofs` | `TypeOK`, `AllSound`, `Authenticated` and the properties | a context is that of its own request, and a request that arrived after a revocation never gets one |
| `ScopeRulesProofs` | none: operators without state | |
| `ToolUseProofs` | `TypeOK`, `Control`, `Once`, `Passed` and the properties | what was sent of an earlier attempt says why the client repeated it (`Once`), and each attempt was let through under the scopes it had then (`Passed`) |

**Catalogue.** `ToolUseProofs` is about every catalogue and every policy. What a
property needs of them is a named premise of its theorem: `PagesHarmless`,
`RepeatsHarmless`, `ImpactsListed`, `ScopesFit`. They say of single tools what can be read
off a table; the theorems say that this is enough, for any number of attempts, late
requests, failed answers and changed scopes. For this repository's tables the
premises are the assumptions of `CatalogueFacts`, which TLC evaluates in `remote_access`
(tlapm cannot compute with a table of some hundred rows); `CatalogueSafe` draws the
conclusion: under the code's own constants (`ThisCatalogue`) all four properties hold for
any scopes and any number of attempts and polls (`RepeatsApplyOnce` with the tools it leaves
out, section 5).

**Scopes.** `ScopeRulesProofs` needs no premise, the tables are expanded in the
proofs. `ConsentIsExact`: for every set of scopes the call check lets through exactly what
the consent page named, although the two are written down in different files. From it:
scopes together allow no more than each alone (`ScopesDoNotCombine`), taking scopes away
never opens anything (`NarrowingTakesAway`), reading scopes only read
(`ReadingOnlyReads`), and what charges or orders is granted by name (`ChargesAreGranted`,
`OrdersAreGranted`). `RemoteAccessProofs` cites them for `NoWiderThanGranted`, so that
one holds for any tools and any scope each requires.

**Refinement.** Each `Implements` maps initial states to initial states and every step
to a step of the abstract specification or a stutter. For `AtomicSave` the steps that do
not touch the destination, `saved` or an answer are dealt with at once (`QuietSteps`); a
step that saves needs that the partial file is whole when the size was announced and
that the call has not saved before (`SaveStep`). The action property
`QuoteMeansUnconfirmed` follows from the invariant of the orders.

**Bounded work.** Liveness under fairness is out of the proof system's reach,
but most of it is an argument about a measure, and that is proved for every value of the
constants: each step of the tool lowers it, and nothing another call, the client, the API
or the clock does raises it.

| theorem | measure |
|---|---|
| `OrderServiceProofs!CallsAreBounded` | at most 3 steps of a call: start, shared outcome, answer |
| `FileUploadProofs!UploadIsBounded` | lexicographic: chunks left to hash and to send, then both retry budgets and the place in the code; only an accepted chunk refills the budgets |
| `FileDownloadProofs!DownloadIsBounded` | at most `Size + 7` steps |
| `SettleOperationProofs!WaitIsBounded` | at most `2 * wait + 2` steps, the wait in ticks: a pause and a poll for each millisecond at the worst, if the API asks for such pauses |
| `RecipeSaveProofs!CallsAreBounded` | at most `2 * MaxPolls + 5` steps |
| `ToolUseProofs!CallsAreBounded` | at most `MaxPolls + 4` steps of the server |

What remains for liveness is that a step is always possible. For the orders that is
where a deadlock could hide, as one call awaits the promise of another:
`NobodyWaitsInVain` states it without ENABLED, as the invariant that the promise a call
awaits is settled or is the one of a living call whose own request, which has a
timer, settles it. A restart loses both together.

**Model-checked only**: `EveryCallAnswered`, `UploadEnds`, `DownloadEnds`, and
`CallEnds` of `RecipeSave` and of `ToolUse`. They are liveness under fairness, which needs
ENABLED, out of the proof system's reach; the measures above are the part of them that
is proved. So is induction over data out of reach, hence no theorem is about what
a recursive definition computes. The modules have none.

## 5. Assumed and left out

* **The API** is external. It is assumed honest (an answer is about the request it
  answers; a chunk's HTTP 200 means stored), never prompt: it may do its work
  after the client has gone, and may lose any answer.
* **OrderService**: a configuration stands for its SHA-256. Prices and
  schemas are data.
* **FileUpload**: a request other than a chunk takes effect, if at all, when it
  ends, so a late completion is covered by the server moving on its own
  (`ServerMoves`), not by a late message.
* **FileDownload**: the random names of partial files do not collide.
* **RecipeSave**: the process does not die in the middle; it keeps nothing, so
  a restart is a call that never ends followed by new ones.
* **RemoteAccess**: disconnecting clients are left out; the run has five tools, the
  proofs any. The full table is in `ToolPolicy`.
* **ToolUse**: the API stores what a key did and answers a repetition from it. One
  call is under way at a time, with all its attempts, and the profile stays that of the
  connection while its scopes change; what two calls of different
  tools do to each other is the API's. The client is one that believes
  the server's instructions, annotations and answers; one that repeats whatever it
  likes would break any property of this kind. Two sets of exceptions are stated with
  the model, because the code has them: `OpenRepeats`, nine tools that
  `RepeatsApplyOnce` leaves out when they are called without a key. Four are listed as
  idempotent although such a call is a new one (`request_restore` draws a fresh key per
  call, `index.ts` 5787; `create_function` and `invoke_function` of the local server;
  `manage_free_certificate`, which takes no key), against `IdempotentAppliesOnce` (section
  6); five are file changes whose poll can answer that a read may be retried. The other
  is `OwnWork`, `cancel_vm_operation`, which any `vm:` scope lets a
  connection call on its own session's operations.

### Not modelled

* Schemas and the shapes of answers (`tool-schema.ts`, the field allowlists of
  `application-contract.ts`, `certificate-contract.ts`, `temp-vm-contract.ts`,
  `dns-zone-contract.ts`, `file-restore-contract.ts`): data without order of steps.
  That an answer may not fit is modelled (`Misfit`).
* The comparison of totals in `request_restore` (the API refuses a moved price
  itself; the handler's check only explains it) and the decision table of rescue.
* VM channels, leases and bootstrap; `purchaseReadiness`; path and host checks of
  `api.ts`; recipe drafts.
* Release information, read-only context, static texts, scripts and tests: a cache
  of an advisory feed, constants, and tools that are run by hand.

## 6. Findings

| run | what the model shows |
|---|---|
| `file_upload_failed` | A chunk request, refresh or source read that *throws* leaves `uploadServiceFile` through its `finally` block without `abortUpload`; the tool's description says that a failed transfer is aborted so its slot is freed (`service-files.ts` 569). |
| `file_download_saved` | `link` succeeds, `unlink` of the partial file fails: a call cancelled meanwhile is answered "nothing was saved" (`service-files.ts` 497) though the destination holds the file. |
| `settle_operation_lost` | One failed poll ends the wait without the `operationId`; the descriptions promise the final answer or that id (`service-files.ts` 69). When that poll met a gateway's page, the answer of a file change is that a read-only request can be retried. |
| `tool_use_repeated` | `invoke_function` and `request_restore`, which charge, are annotated `idempotentHint: true` (`index.ts` 6243, 5757; a test asserts it), yet draw a fresh key for each call without one (6252, 5787): a client that believes the annotation and repeats a call whose answer was lost has it carried out twice. |
| `recipe_save_replay` | Repeating a save under its key after a tag moved sends another document; the schema calls it the key of this exact request (`index.ts` 1654). |

Smaller observations, without a run of their own:

* `exit_service_rescue` is listed as idempotent and takes a stable key, but reads the
  status before it sends the key: a repetition after a lost answer finds no session
  and is told `serviceRescueSessionNotCurrent`, not the first answer (`index.ts`
  795-815). A status read that fails is told the same way.
* `wait_for_event` ends on any answer outside 2xx with `timed_out: false`
  (`index.ts` 633), although its description speaks of the end of the action.
* A gateway's page in answer to a GET that also reconciles (`get_hostname`,
  `list_snapshots`) is told as a read-only request that can be retried. What they
  repair settles, so `AnswersTruthful` holds.
* A `retry_after` above 30 seconds is cut to 30, the last pause of a wait to what is left of
  it, and one of a few milliseconds is taken at its word (`service-files.ts` 152, 158-159).
* Refitted answers drop `retry_guidance`; `outcome_unknown` survives only where the
  refit copies flags.
* `set_auto_renew` is listed as destructive while the `disable_*_auto_renew` tools of
  `networking-tools.ts` are not; paid networking tools state `destructiveHint: false`
  and rely on their acknowledgement of the charge.

## 7. Next

Proofs: an abstract statement of what saving a recipe promises (one document,
validated, per call) that `RecipeSave` implements; the end of an upload
(`PollSucceeded`, `SettleEnds`) related to `SettleOperation`; a stronger
`CatalogueSafe` that lets the profile of a connection change with its grant.

Models: a `Restore` module that relates the total the customer saw, the one the quote
named and the one charged, refining the same abstract promise as
`ApprovedPurchase`; the rescue decision table with a second actor; leases and channels of
`remote-tools.ts`; the composition of `ToolUse` with `OrderService` by
outcome. Pure rules against reference definitions: `purchaseReadiness`, the field
allowlists, the update cache.
