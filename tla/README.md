# Verification of the Lenso entitlements plugin

TLA+ models of the entitlement service in this repository, TLC runs over small
instances of them, and TLAPS proofs for all instances.  Paths are relative to
the repository; `P` is `crates/lenso-entitlements-postgres-plugin/src/lib.rs`
and `SQL` its `migrations/001_create_entitlements.sql`.

## 1. Inventory

| Component | State | Operations | Talks to |
|---|---|---|---|
| PostgreSQL plugin, `P` | the two tables of `SQL`: `entitlement_scopes` (a `policy_revision` per scope) and `entitlement_grants` (limit, expiry, revocation per scope, subject and feature) | `put_grant`, `revoke_grant`, `resolve_entitlement`, `list_grants` | a connection pool; callers through the two capabilities |
| Its lifecycle, `P` 609-641, 718-740 | `Rc<RefCell<Option<PreparedEntitlements>>>` | `activate` (secret, connect to a schema that is set up), `deactivate` (take, close the pool) | the Secrets capability, the host |
| Its configuration and validators, `P` 36-102, 688-716 | allow lists, schema, secret reference | `EntitlementsConfig::new`, `validate_config`; the rules of names, dimensions and references that every handler applies | |
| Schema operator, `operator.rs`, `schema.rs` | none | runs the migrations from the command line | `lenso-postgres-kit` |
| Capability contracts, `crates/lenso-capability-entitlements*` | none | requests, replies and errors (`contract.rs`) with their JSON, endpoints, result types of a provider, clients (`generated.rs`) | host kernel |
| Target plugins, outside the repository | the facts they go by | `resolve_entitlement` through `EntitlementsClient` | the resolve capability |
| Admin agent tools plugin | none | three tools over the admin capability | the admin capability |
| Build and release | none | CI, crate releases | |

What is hard here is not the amount of code but what interleaves in it.  Every
`await` of a handler lets any other call run; several hosts may share one
database; a future may be dropped, a connection lost or a host killed at each
of them; a COMMIT may succeed and its acknowledgement be lost; two clocks judge
expiry; and callers are told to rely on a per-scope revision number across all
that.  What makes each component correct:

* **Mutations and queries.**  Calls look as if they happened one at a time; a
  material change and the scope's revision change together; while a scope is at the
  revision a reply names, what a mutation said stands, and of what a resolve said only
  the expiry of its grant makes an end; a retried put changes
  nothing; no failure leaves half a mutation; no deadlock, no lost caller.
* **Listing.**  A page shows one state of its scope; a walk by cursor skips no
  grant that was there throughout, repeats none, and ends; a page and a resolve
  agree on what is active.
* **Lifecycle.**  No call is served by a half-made activation, and none works on
  the database after `deactivate` has returned; `deactivate` returns.
* **Contracts, adapter, targets.**  A domain error stays a domain error and a runtime
  failure a runtime failure through every conversion; nobody is told of a grant, a
  limit or a denial that is not so; what an agent leaves out is not made up for;
  arguments that the contract refuses are refused.
* **Configuration and validators.**  A secret reference is a path of named segments;
  what one handler accepts the others accept, under any configuration that validates.

The hazards, each with its line and the properties that would catch it, are in
`PROJECT.json`.

## 2. Modules

    GrantTables            the tables' rows and the SQL expressions over them
      EntitlementService   what callers are promised: atomic calls, no database
      GrantTransactions    put, revoke and resolve, await by await   ==> EntitlementService
        GrantTransactionsProofs    the invariant, the safety properties and the refinement
        MCGrantTransactions
        GrantTimes           created_at and updated_at beside the transactions
          GrantTimesProofs
          MCGrantTimes
      GrantListing         list_grants and a paging client, over EntitlementService
        GrantListingProofs
        MCGrantListing
      CapabilityEndpoint   the generated contracts: messages, domain errors, outcomes on either lane
        CapabilityEndpointProofs   what every conversion keeps, for the two modules below
        AgentTools         the agent tools, with EntitlementService as their provider
          AgentToolsProofs
          MCAgentTools
        TargetQueries      target plugins that resolve, beside admins, over EntitlementService
          TargetQueriesProofs
          MCTargetQueries
    PluginLifecycle        activate, deactivate, and calls that captured the pool
      PluginLifecycleProofs
      MCPluginLifecycle
    Validation             configurations, names, references, and what each handler takes from whom
      ValidationProofs
      MCValidation

**GrantTables.**  A key is a subject and feature, a scope a kind and id.  Time is
an integer number of ticks, `TicksPerMicro` of which make a PostgreSQL
microsecond, so an RFC 3339 instant can be finer than what `timestamptz` keeps.

**GrantTransactions.**  A caller slot is one request future together with the
database session it holds.

| Model | Code |
|---|---|
| `revision`, `grants` | the committed rows of the two tables |
| `scopeOwner`, `grantOwner` | PostgreSQL row locks, those of uncommitted inserts included |
| `pc` | the await at which the handler is suspended |
| `tx` | its locals (`revision`, `grant_id`, the located scope), `transaction_timestamp()`, and the rows written and not yet committed |
| `PutGrant`, `RevokeGrant`, `ResolveEntitlement` | the handler up to its first await: allow list, validation, host clock |
| `Begin` | `pool().begin()`, or the pool's connection for the resolve |
| `EnsureScope` `LockScope` `LockGrant` `UpdateGrant` `InsertGrant` `Advance` `Commit` | the statements of `put_grant`, `P` 420-520 |
| `Locate` `LockScope` `MarkRevoked` `Advance` `Commit` | the statements of `revoke_grant`, `P` 540-603 |
| `Resolve` | the one statement of `resolve_entitlement`, `P` 329-373 |
| `Fail` | an error, a dropped future or a crash at any await: rollback, which is taken to be over at once |
| `Commit`, second disjunct | the acknowledgement is lost |

A statement runs at READ COMMITTED: it sees the committed rows, and its own,
when it runs, or when the row lock it waited for is granted.  A statement that
waits is one that is not enabled.  Two limits of PostgreSQL are written out: a
unique-index insert waits for an uncommitted duplicate, and the `bigint`
revision cannot pass `MaxRevision`.  Rows are never deleted in this code.
Left out is that a caller may give up before the rollback of its transaction, or a COMMIT
already sent, has been through.  For the others it is as if the failure were told later; what that caller
does next would meet its own old transaction as it meets those of others.

**GrantTimes** adds the columns `created_at` and `updated_at` (`SQL` 18-19) to
`GrantTransactions`, whose actions it takes as they are: a row gets its times from the
`transaction_timestamp()` of the transaction that commits it.  That instant is fixed before
the transaction waits for its scope's lock, so changes of a row may carry times in another
order than they were made in: a put that waited behind the one that created the grant
leaves `updated_at` before `created_at`.  Of a revocation this is not so, because who revokes
a grant has its id from a reply: the insert was committed before the revocation began.
The module also says how long a fact is so.  `resolve_entitlement` judges `expires_at` (`P` 330) and
leaves it out of its response, so that a fact ends with no further revision; `until` is a history of
the expiry that a call's resolve went by.  `FactsStandUntilExpiry` is what the revision is worth to
a target then: while it is the scope's, the fact is so until that expiry and a denial from there on.

**EntitlementService** has no locks, no statements and no tables: a call that was
opened takes effect in one step, or not at all, and its reply is of that step.
A call that ends in a runtime failure may have done either.  A put there has no check of its
expiry, so that nothing in the refinement speaks of a put whose expiry passes while it waits.
`ImplementsService` is the refinement; the mapping is at the end of the
properties of `GrantTransactions`.  A scope without a row is a scope at
revision 0.

**GrantListing** puts `list_grants` and a client that follows `next_cursor` beside
`EntitlementService` instead of the full transactions: the refinement says that
what a snapshot can see of the tables is the service's `policy` and `facts`.
The snapshot is taken at the first query, after `transaction_timestamp()` has
been fixed; rows are read from it if the transaction is REPEATABLE READ.  Ids
are numbers, which stand for the order of their texts; a fresh id is any unused
one, as `random_id` gives it.  `past` and `steady` are history the code does not
keep: the scope's grants at each revision, and the grants that matched,
unchanged, since a walk began.

**PluginLifecycle** abstracts what a call does in a transaction to acquiring and
releasing a connection.

| Model | Code |
|---|---|
| `state` | `self.state`: the pool new calls are handed, or `None` |
| `pool` | each activation's pool: not yet opened, open, closed |
| `host` | where `activate` or `deactivate` is suspended, and whether the plugin is active |
| `closing` | the handle `deactivate` took out of `self.state`, whose pool it waits for |
| `stage`, `held` | where a call stands, and the clone of the handle that `prepared()` gave it |
| `schema`, `Setup` | the schema the operator sets up from the command line |
| `Activate` `ResolveSecret` `Prepare` `PrepareFails` | `activate`, its two awaits and its errors, `P` 608-633, 718-740 |
| `Deactivate` `Closed` | `deactivate`: the state is taken and the pool closed to new acquires in one poll, then `close()` is awaited, `P` 635-641 |

A handler captures the handle when it is called (`prepared()`, before the future
is first polled), so any number of lifecycle steps fit between `Call` and
`Acquire`.  The host is assumed to activate only an inactive plugin and to
deactivate only an active one; it is not assumed to hold calls back.  A dropped call
(`"returning"`) keeps its connection until what is left of its transaction has been rolled
back, and `close()` waits for that too.  `EntitlementsOperator::upgrade` is no action: there is
one migration, and `setup` has applied it.

**CapabilityEndpoint** is the algebra of both contracts: what a message and a domain error are,
how they are written as JSON and read back, perhaps by another version of the contract, and
what becomes of an outcome on the way from a provider to a caller.

| Model | Code (`GA`, `GE`: the `generated.rs` of the admin and the resolve contract) |
|---|---|
| `*Request`, `*Response`, `*Error`, `AdminOperations`, `ResolveOperations` | the members, variants and operations of both `contract.rs` |
| `Encode`, `Decode` | derived `Serialize`; `deserialize_required`: every member is required, nullable ones too, further ones are passed over |
| `EncodeError`, `DecodeError` | `Serialize` and `Deserialize` of the errors, `GA` 264-411, `GE` 93-140 |
| `IntoResult`, `Lowered` | the four result types a provider's method may have, folded into one, `GA` 434-519, `GE` 149-176 |
| `Native`, `PortableError`, `PortableResponse` | the endpoint, and the JSON of the portable lane |
| `Invoked` | the client: runtime failures and domain errors in one error type |

Who names an error that it has a variant for writes a string; who passes one on without having a
variant for it writes an object, which is read as unknown even where there is a variant
(`ErrorsFor`, its `named`).  A code is a member of a set, the payload and further members of an unknown error are one
value, and `scope`, `key` and `id` stand for the texts that make them up.

**AgentTools** puts the tools plugin between agents and `EntitlementService`.

| Model | Code (`A` is `crates/lenso-entitlements-admin-agent-tools-plugin/src/lib.rs`) |
|---|---|
| `stage`, `call` | the await at which `execute` is suspended, and its tool and arguments |
| `Execution` | the execution classes of `tool_definitions`, `A` 93-120 |
| `ExecuteUnknown`, `Execute`, `Arguments` | `execute` up to its call: the tool's name, `decode`, `A` 38-88, 141-144; arguments as the schema has them, with a member left out, or with one too many |
| `Invoke`, `Carried` | the request made of the arguments reaches the provider, over either lane |
| `Provide` `Answer` `AnswerList` `Refuse` | the provider behind the capability |
| `Reply`, `Tell`, `MapError` | the client's outcome and what the agent is told of it, `A` 46-86, 146-202; an unknown error is told without its code, `A` 170, 178, 187 |
| `Unavailable`, `GiveUp` | the kernel has no provider; the deadline passes or the host cancels |

`meant`, `effect` and `alone` are history: what the provider answered, how often it changed
the tables for the call, and which calls had no given-up call beside them.  The agent host
is outside the repository; assumed of it is what the classes are for, that an exclusive tool
runs by itself.  That ends with the host's interest in a call, not with the provider's work
on it, so a call that was given up may still take effect beside the next one.  A listing is
here one read of its scope's revision: its pages are `GrantListing`'s.

**TargetQueries** puts callers of `resolve_entitlement` beside admins, over the same service.

| Model | Code |
|---|---|
| `stage` | where a target's call of `EntitlementsClient`, `GE` 269-293, stands |
| `ResolveEntitlement` `Provide` `Answer` | the call reaches the provider and is served by the service's resolve |
| `Refuse`, `Unavailable`, `GiveUp` | refused by the provider's allow list, rules or version; no provider; deadline |
| `Answer`, its `left` | the answer, whole, or as another version may write it, without one of its members |
| `Return`, `told` | what the client returns: a fact or an error |

`meant`, `at` and `past` are history: what the provider answered, the instant it judged expiry
at, and each scope's grants at each of its revisions, against which a fact is judged.

**Validation** is about texts.  The rules of `P` 688-716 tell bytes apart only by class
(alphanumeric, `_` or `-`; dot; colon; slash; any other), so a text is a sequence of classes.
`Offer` is `EntitlementsConfig::new`, `Install` the plugin's `validate_config`; the four handlers
appear up to the point where they turn to the tables, and a put that passes may leave the
texts of its grant behind.  Configurations come and go over the grants, as a schema is kept from one
plugin instance to the next.  That the configuration may change and the grants stay is
assumed of operators; that an id is 42 bytes of hex and prefix is `random_id`'s.  `Names`,
`PathsDownTo` and `Paths` are the property's own definition of a path, built up and not parsed.

## 3. Runs

| Run | Instance | Shows |
|---|---|---|
| contention | 3 requests, 1 scope, 1 key, 2 ids, 2 instants, revisions to 3 | all safety properties and the refinement while three transactions contend for one row; none waits for one who waits |
| expiry | 2 requests, expiries in the middle of and on a microsecond, 5 instants, host clock up to 2 ticks late, limits 0 and 5, on `GrantTimes` | time, limits, microseconds, the times of the rows, and what becomes of a fact as time goes on and grants are changed |
| scopes | 2 requests, 2 scopes, 2 keys, 3 ids | locks and revisions of one scope say nothing of the other |
| liveness | 3 requests, pool of 2 connections | every admitted call comes back |
| pages | 1 client, 1 mutating caller, 3 keys, pages of 1 and 2, revisions to 4 | snapshot, cursor and page limit; each further page is asked for with less left to list |
| page_expiry | the same with 2 keys and a grant that expires | status filters, and agreement with the resolve |
| walk_ends | pages of 1 under fairness | a walk ends though the scope keeps changing |
| lifecycle | 3 calls, 3 activations, pool of 2 connections, under fairness | a call starts to work only under the activation whose pool it holds, none works once `deactivate` has returned, and it does return though calls queue for the pool, are dropped and keep coming |
| agent_tools | 2 tool calls at once, 1 scope, 1 key, revisions to 3, one error code of a later version | what an agent is told is what came of its call, and what came of it is what it asked for, on either lane |
| tool_arguments | the same | a disagreement, below |
| target_queries | 1 target, 1 admin, 1 key with a limit or an expiry, 4 instants, revisions to 3 | a fact is so at the revision it names; nothing else is taken for one |
| validation | texts of up to 4 bytes, every reference of up to 5, 3 callers of which one is invalid, 1 stored grant | references, and rules of four handlers over one table |

*Why the bounds are enough.*  Two transactions can be between any two of
each other's statements, and a third can commit between them; the protocol has one
lock per scope and one per grant, so a cycle or a stale read needs no more than
two of either.  `MaxRevision` is the `bigint` limit as well as the bound: at 3 a
grant can be put, revoked and put again, and the overflow error is reached.  Two
ids over one key let a faulty insert store a second row of it.  `MaxClock` and the
expiries give an instant before, at and after expiry.  For the listing, three
grants give pages with a predecessor and a successor, with fresh ids on either
side of the cursor, and four revisions let a grant be revoked or changed after all
three are in.  `PageCap` (200 in the code) is 2, with limits of 0 and 3 refused on
either side of it.  Three activations let a call outlive the one it captured and
the next; with more calls than connections some are waiting when the pool closes.  Callers, ids and keys are symmetric where nothing orders them; the
liveness runs use no symmetry.

Two tool calls give a running and a given-up call, or two running ones; with one
code that this version does not know, as a string, as an object, or as an object without
a code, and with known codes both as a string and as the object that a version without the variant
makes of them when it passes them on, every form `Deserialize` tells apart occurs.  One target and one admin let any number of
mutations fall between a target's question, its answer and its return; a second target would
share nothing with the first but the service.  Texts of four bytes hold a segment of two dots between
or beside slashes and words, which is the longest pattern any rule looks for, and a fifth byte is
one too many; `MaxBytes` is 256 in the code.  The rules look at each text by itself, so that one stored
grant of every shape is enough.

*A disagreement.*  The contract's source denies unknown members of a request
(`crates/lenso-capability-entitlements-admin/src/contract.rs` 23), and each tool publishes an input schema
with `"additionalProperties": false`.  The generated request types, which `decode` reads the
arguments into, ignore such members.  In run `tool_arguments` a put with a further member is
carried out: `FurtherMembersChangeNothing` is violated.  Whether an agent host validates
arguments against the schema first is not decided in this repository.

*Fairness.*  `GrantTransactions!FairSpec` assumes strong fairness of a caller's next
statement: the executor polls a ready future, PostgreSQL runs what it is sent, its lock
queue grants a row that keeps coming free, and the pool hands out connections in order.
`Fail` is never assumed to happen.  `GrantListing!FairSpec` assumes weak fairness only, as
no statement of the listing waits for a lock.  `PluginLifecycle!FairSpec` assumes that
`close()` is polled, and strong fairness of a call's next step: a waiter gets a connection
that keeps coming back, and a call that has one comes to its end, which is what run `liveness`
shows of the transactions.  Dropping a call is never assumed.  None of them assumes that anyone calls.

Each property of each run has a fault in `PROJECT.json` that breaks it: a definition
commented *Fault* next to the one it would replace, such as a SELECT without FOR UPDATE.

## 4. Proofs

`GrantTransactionsProofs` proves, for any number of callers, scopes, keys, ids and
connections, from the two named assumptions on the constants (that the markers are not
values, that limits and expiries are integers, and the like):

* `Inductive`: `IInv` always holds.  The safety properties are not inductive: that an insert meets
  no row of its key depends on nobody else inserting one, hence on who holds the scope's
  lock, hence on which awaits hold which locks.  `IInv` says, for each caller, that its request
  fits its await (`RequestInv`), that past the scope lock it knows the scope's current
  revision (`ScopeInv`), that the row it has written is a material change and nobody else's
  (`GrantInv`), that this row is what was asked for (`TargetInv`); and that locks belong to
  transactions at the awaits that take them (`LockInv`).
* `Typing`, `UniqueGrants`, `ScopesAreUsed`, `LockOrder`: the state invariants of the runs.
* `NoWaitingInTurn`: only a scope's row is ever waited for, only at the awaits that ask for it, and by `LockInv` whoever
  holds one is past those, or at `lock_scope` for the very row it has inserted.
* `MutationsAdvanceRevision`: only `Commit` writes the tables, and `IInv` before it says that what
  it publishes is either nothing or one material change with the next revision.
* `MutationsHold`: a second induction, over `IInv`, on the replies callers hold:
  a commit in the scope of a reply moves the revision past the one it names, and a commit
  elsewhere leaves its rows alone.

Its second part proves `Implements`: `GrantTransactions` implements `EntitlementService`.
Action by action, under `IInv`, a step of a handler is a step of the service or changes nothing the
service has.  The entries map to `Ask` and `Refuse`, `Begin` to `Open`, an error to `Abandon`.
The heart is the commit, the one instant a mutation takes effect at (`CommitMaps`): `TargetInv` says
that the row it publishes, or the unchanged one it leaves, is the one asked for, `GrantInv` that this is
the key's own row or that the key has none, `ScopeInv` that the revision is the current one.  A resolve
(`ResolveMaps`) needs `NoEmptyScope`: a scope without a row has no grant, so its revision reads as 0.

`GrantTimesProofs` proves `TimesHold`, an invariant beside `IInv` for the same instances: a stored grant
was created in the past, and a call at work on revoking one knew it as stored when it was made and,
once begun, began no earlier than the grant was created.  It is what `RevocationFollowsCreation` lacks to be inductive:
only a commit writes times, and what a revocation's commit writes is the instant it began.
`RevocationsFollow` is the property.  For a put there is no such invariant, as said above.
`FactsStand` states `FactsStandUntilExpiry`.  It goes by the replies of the second induction above: while
the revision is the one a fact names, nobody has committed in its scope, so that the grant found is as it was,
revoked or not and with the same limit, and `UntilInv` adds that its expiry is the one kept in `until`.  That no
other row of the key is in force is `OneGrantPerKey`; after a denial, time makes no grant active.

`GrantListingProofs` proves, for any number of clients, scopes, keys and filters and any finite set of ids, that
its own `IInv` holds, beside whatever the service does.  The service's part is that a step changes a scope's grants
together with its revision or not at all (`ScopeSteps`), so that `past` has the tables of every revision.  A lister's
part is `ReadInv` (what the transaction has read is its scope at one revision), `WalkInv` (all that was listed is at
or before the cursor), `PageInv` and `StandingInv` (a grant that stands is listed once the cursor has passed it).  Under
it are lemmas on `ORDER BY ... LIMIT n + 1` over a finite set of numbers: the first n of the first n + 1 are the first n
(`PageOfRows`), the extra row tells whether there is a next page (`OneRowMore`), and the cursor parts what a page holds from
what it leaves (`PagesAndCursors`).  `PagesAreOneRevision`, `NoneListedTwice`, `StandingGrantsListed` and `StatusesHold` follow, and `WalksMoveOn`: each
further page is asked for with fewer ids beyond the cursor, and there are finitely many.
Assumed of the constants: ids are finitely many, and what a put asks for fits the columns.

`ValidationProofs` proves, for every length limit, page limit, text and list of callers, that a validated
configuration and the texts of stored grants stay valid (`Inductive`), and from it `Reach`: the id
that `random_id` makes is a name and a cursor, the rules a put applies imply each rule the others apply, and
each list has a caller.  `RandomId` being no longer than a name may be is an assumption on the constants, with
42 and 256 in the code.

It also proves `PathsAccepted`, which states `ReferencesArePaths`: the six tests `validate_secret_reference`
makes of the whole text admit the names joined by slashes, and nothing else.  `RuleOfBytes` says each test
of the bytes at their places.  One direction is then an induction over the joins: a join of two accepted texts
has no slash at an end, none beside another, and no segment that is only dots.  The other takes
an accepted text apart at its last slash: what follows is a name, and what precedes is accepted
and shorter.  No prover here instantiates a theorem of the library on an operator, so induction is by sets: a set of naturals
with 0 and every successor is all of them, or it would lack a least one (`NaturalsByStep`); and that
`PathsDownTo` is the function its equation describes is proved from initial pieces that exist and agree
(`LaddersExist`, `LaddersAgree`, `PathsAreRecursive`).

`CapabilityEndpointProofs` holds the lemmas on the contracts' conversions: whatever type a consumer reads an
outcome as, it is the outcome that was sent; a response, a refusal or a failure arrives as one, a refusal at the
client with the code it was sent with, in a variant of its own only if it was named all the way; a message that is not all there is a failure and never a refusal.  Assumed of the constants: a code is told
apart from a code left out, and one this version does not know is not one it knows.

`AgentToolsProofs` proves, for any tools, agents' arguments and provider's state, the four properties of the adapter, from an `IInv` on
each call: it carries the members its tool takes (`CallInv`); what the provider has is what the agent said (`PhaseInv`); a running
mutation runs alone but for calls the host has given up (`ExclusionInv`); the tables were changed for it as often as its
response says, and never after a refusal (`EffectInv`); the answer on its way, and the result the agent gets, say the same
(`AnswerInv`, `ResultInv`); and no answer to a call that had no given-up one beside it is superseded on its way
(`CurrentInv`).  A rejection is told with its kind where its code was named and is known (`ToldOf`), and as `execution_failed` otherwise.
`RejectionsReachAgents`, `EffectsAreTold`, `ResultsStayCurrent` and `GrantsComeAsSaid`
follow with the endpoint's lemmas.

`TargetQueriesProofs` proves `FactsReachTargets` and `FactsAreAnswers`: what a target holds to be so was so, and was an answer to
its question.  `IInv` keeps the history of the service beside it: every revision of every
scope with its grants (`ServiceInv`, `PastInv`); a question, its answer on either side of the lane and what the target
was told name a revision in that history (`QueryInv`, `ResponseInv`, `AnswerInv`, `ToldInv`).  History only grows
(`HistoryGrows`), so a fact that held stays one (`FactsStay`), whatever any number of admins do in between.
Both modules assume that what a put asks for fits the columns.

`PluginLifecycleProofs` proves, for any number of calls, activations and connections, that its own
`IInv` holds: the one open pool is the one in `self.state`, and the connections that are out are of that pool
or of the one that is being closed, so that `deactivate`, which waits for the one it took, waits for all.  `QuietAfterDeactivate` and `NoLateStart` follow.

Only model-checked: `EveryCallReturns`, `EveryWalkEnds` and `DeactivationEnds`, which are liveness and beyond
the prover.  What they rest on, fairness apart, is proved for every instance: `NobodyWaitsInTurn`, `PagesMoveOn`
and `StartsOnItsActivation`, by which no connection of a closed pool goes out again.

## 5. Not modelled, and the plan

Next: the other variants behind the liveness properties, as action properties.  A transaction that has its scope's row
is so many statements from its commit, and no step of another takes it back; a closed pool's
connections only become fewer.

Left out for good: the wording of errors; the spelling of codes, members and numbers in JSON; the
generated descriptor constants and wiring macros, which hold no state; the catalog operation, which is constant;
the work of the migrations and what makes a schema name acceptable, which are a library's outside the repository;
the `created_at` of a scope, which nothing reads; build and release.
