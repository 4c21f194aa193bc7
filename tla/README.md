# quota-controller: TLA+ models, checks and proofs

The quota-controller caps how many objects of an exported kcp resource each
consumer workspace may hold. Its promise is requirement R1 of the design:
"Strict — the limit may never be exceeded, even momentarily." This directory
models the code that has to keep that promise, checks the models with TLC, and
proves the most important results with TLAPS for every value of the constants.

File names below are relative to the repository's root.

## 1. Inventory of the system

| Component | State it keeps | Operations | Talks to |
|---|---|---|---|
| Reservation arithmetic, `internal/accounting/accounting.go` | none; a status is `confirmed` and a list of reservations `(key, expiresAt)` | `Used`, `Reserve`, `Sweep`, `FoldConfirmed` | called inside `Store.Apply` |
| Store, `internal/quota/store.go` | the `QuotaUsage` objects (ledgers) in the quota-ctrl workspace, through an uncached client | `Reserve`, `Apply`: get or create, mutate, compare and swap, retry | apiserver |
| Names, `internal/quota/objectkey.go`, `internal/identity/key.go` | none | `ObjectKey`, `UsageKey.ObjectName` | webhook and reconciler must agree on keys |
| Creation validator, `internal/webhook/creation_validator.go` | none of its own; many requests at once, two replicas or more | `Handle` | registry, store |
| Limit registry, `internal/registry/registry.go` | limit per governed resource | `Set`, `Delete`, `LimitFor` | one copy in each webhook replica |
| Usage reconciler, `internal/controller/usage_reconciler.go` | none of its own; informer cache and work queue of its set | `ReconcileCluster`, `SweepAll` | store, informer |
| Accounting manager, `cmd/controller/accounting.go` | `sets`, `refs`, `starting` under a mutex; a sub-manager and a watcher or retry goroutine per governed export | `Ensure`, `Remove`, `start`, `retryStart` | called by the controller's reconcile function |
| ConsumptionQuota reconciler, `internal/controller/consumptionquota_controller.go` | finalizer and `status.identityHash` of the quotas | `Reconcile`, `handleDeletion` | registry, installer |
| Webhook installer, `internal/controller/webhook_installer.go` | one shared ValidatingWebhookConfiguration per provider workspace | `Reconcile`, `Remove` | apiserver |
| Registry watcher, `cmd/webhook/registry_watcher.go` | `known`: quota to registry entry | `Reconcile`, `remember`, `forget`, `PopulateRegistry`, readiness | registry |
| Dispatch, `cmd/webhook/dispatch.go` | cache of validators | `ServeHTTP` | creation validator |
| kcp lookups, `internal/kcp` | none | endpoint slices, kinds, URLs | accounting manager, watcher |
| Processes, `cmd/controller/main.go`, `cmd/webhook/main.go` | flags, clients | start-up, reconcile function | everything |

How they interact on the main path: a `CREATE` of a governed object reaches a
webhook replica, which reads the limit, and through `Store.Apply` adds a
reservation to the consumer's ledger if `confirmed + live reservations < limit`.
The apiserver then persists the object, or not. The informer of the accounting
manager reports it some time later, and the usage reconciler recounts: in one
write it sets `confirmed` to the number of objects it listed and drops the
reservations of the objects in the list. A ticker drops expired reservations.

What is hard about it:

* *Interleaving.* Any number of requests on any replica, one reconcile worker
  and the sweeper read, compute and write the same ledger without a lock.
* *Staleness.* The recount works from an informer cache that lags behind the
  store, and its list is taken before the compare-and-swap loop; so is the limit.
* *Failure.* Calls fail, answers are lost, the controller crashes and lists afresh.
* *Time.* Reservations expire by clocks that differ and by times that storage
  rounds down to a second.
* *Lifecycle.* Sets stop by themselves and are started again, from a retry
  goroutine or a reconcile, while quotas are created, edited and deleted; starting
  takes long and happens outside the lock.
* *Start-up.* A webhook replica fills its registry from lists of its own while its informer
  already reconciles, and must not answer before it knows every quota.

What makes each component correct: the store loses no update (`DraftFresh`,
`ApplyIsAtomic`); a reservation has the two fates the design names (`TwoFates`);
an object is always counted and a named one not twice (`Covered`,
`NoDoubleCount`, `OneReservationPerKey`); the limit holds (`NoOvershoot`, `GrantWithinLimit`,
`SlotWithinLimit`, `ImplementsStrictQuota`); everything settles (`ConvergesUnlessEmptied`,
`ExpiredSwept`, `EveryRequestAnswered`); an export has one running set exactly while a quota
references it (`SingleWriter`, `RegisteredIsAlive`, `OneStarter`, `RefsMatchSpecs`,
`TeardownWhenUnreferenced`), and a start that did not come about is tried again (`StartNotLost`,
`Recovered`); a quota the controller is done with is complete, its
webhook entry is guarded by a finalizer, its siblings' entries are left alone, and its own stays unless a
removal takes it (`Reconciled`, `EntryGuarded`, `OwnEntryOnly`, `EnforcedButForRemovals`, `Settles`); a replica's
registry follows the quotas (`Mirrored`), also where they move (`MoveFollowed`), and a replica becomes ready (`Opens`) and then knows every quota that was there before (`ReadyKnows`). The hazards behind them, each with its
line, are listed in `PROJECT.json`.

## 2. Modules

| Module | What it is |
|---|---|
| `Accounting` | `internal/accounting` as operators on a status |
| `QuotaLedger` | one ledger and everything that writes it, with the consumer's objects, the informer, crashes and the clock |
| `AtomicLedger` | what `Store.Apply` promises: each update is one step on the current status |
| `StrictQuota` | what the project promises: slots taken one at a time below the limit, and freed |
| `LedgerRefinement` | `QuotaLedger` seen through these two specifications (`ApplyIsAtomic`, `ImplementsStrictQuota`) |
| `QuotaLedgerProofs` | theorems about `QuotaLedger` |
| `LedgerRefinementProofs` | theorems about `LedgerRefinement`: the two implementations, and the two uniqueness properties |
| `AccountingManager` | lifecycle of the sets of informers |
| `ProviderPolicy` | the quotas of a provider workspace, their reconciler and the shared webhook configuration |
| `RegistryWatcher` | the limit registry of one webhook replica: informer worker, start-up population, readiness |
| `AccountingManagerProofs`, `ProviderPolicyProofs`, `RegistryWatcherProofs` | theorems about these three modules |
| `MCQuotaLedger`, `MCAccountingManager`, `MCProviderPolicy`, `MCRegistryWatcher` | instances for TLC |

Operators marked "Mutant" in their comments (`LandUnchecked`, `TornDownEarly`, ...) are plausible bugs: no
specification uses them. `PROJECT.json` pairs each property with one of them, and
putting it in the place of the definition it precedes makes that property fail.

### QuotaLedger and the code

* A *request* is one call of `Handle`; it stands also for the object it creates.
  `Name` gives the object's key, which several requests may share (a create that is
  retried, or a name used again); `RequestKey` is what the webhook reserves under, the UID
  for `generateName`.
* `ledger` is the stored `QuotaUsage`: does it exist, its resourceVersion, its
  status. It is empty and absent at first, as `Apply` creates it.
* `pc[p]` is where a process is in `Apply`: `"get"`, `"create"` (GET said NotFound),
  `"write"` (a status was computed and differs; it is in `draft` with the
  resourceVersion it was read at). A request goes on to `"allowed"`, and then the
  apiserver persists it or not; every refusal is `"rejected"`.
* `Grant`, `AdmitAgain` and `Deny` are the outcomes of `accounting.Reserve`; `Fold`,
  `FoldUnchanged` of the recount; `SweepExpired`, `SweepUnchanged` of the sweep. GET (or
  CREATE) and the computation are one step: nothing but the process itself sees
  what it has read, and the write, which is a step of its own, only lands if
  the ledger has not changed since.
* `Write`, `Conflict`, `GiveUp` and `LoseReply` are the outcomes of the status update.
* `store`, `events`, `cache`, `queue` and `work` are the consumer's objects, the watch
  (in order, late), the informer's cache, the work queue and the item the single
  worker is on with the list it took. `Crash` loses everything but the ledger and
  the objects; `Restart` lists afresh, and so hears nothing of what was deleted meanwhile.
* `now` is the slowest clock; a process reads any time in `Clock`, up to `MaxSkew` later.
* `folded` is history: the objects the stored `confirmed` stands for.
* `Tick` lets time pass, but not beyond `MaxLatency` after the decision on a request
  that is still pending. That is the design's own condition on the TTL (7.4, "TTL must
  exceed worst-case admit→observe latency") and the only place where the model limits how
  slow anything is. With `BoundedOutage = FALSE` it does not apply while the
  controller is down.

The reservations are a set: nothing in the code reads their order, and two equal
entries cannot arise (`Accounting` says why).

### AccountingManager and the code

* `refs`, `sets`, `starting` are the maps of the code; an empty set of references is
  its nil entry. `spec` is what each quota names, `queue` the reconcile queue, `worker`
  the one reconcile worker (controller-runtime runs one unless told otherwise, and
  the code does not tell it).
* An *instance* is one `accountingSet` with its goroutine: `"running"` (in
  `subMgr.Start`), `"stopped"` (returned, before the lock), then the retry: `"waiting"` in
  the backoff, `"starting"` in `startFn`, `"registered"` between registration and return. When
  the goroutine ends, the identity is free to be used again.
* What happens in one critical section of `a.mu` is one action. `start` is
  three: entered, failed or registered, returned.
* The version is part of the governed export and not of the key, as in
  `accountingKey`. An export that is no longer served makes its set stop.
* A retry's delay is at least five seconds; `Woken` says that this outlasts the moment
  between another start's registration of its set and its return.

### ProviderPolicy and the code

* `cq` is what the apiserver stores of each quota: its spec (what it governs), `status.identityHash`,
  its finalizer, whether it is being deleted. `view` is the informer's copy that
  `r.Get` and the second `Get` of the reconcile function return; `vwc` and `vwcView` are the same for the
  entries of the webhook configuration, which the cluster's client also reads through a
  cache. The `APIExport` is read directly, and so from `assigned`. An update of a copy that is not
  current is a `Conflict`; the deletion of the configuration has no condition.
* `worker` is the one reconcile worker of the controller: where it is in the reconcile
  function and the copy `obj` it works on. `Begin` reads the quota and branches as `Reconcile` does:
  `Finalize`; `Resolve`, `Stamp`, `Install`; or `Teardown`, `DropFinalizer`. Each ends in `"reget"`, the second
  `Get`, where `Account` calls `acct.Remove` or `acct.Ensure`; or in `Requeue` when a call fails.
* `Install` may send an entry that the cached copy already holds, or skip it: `CreateOrUpdate` compares
  with the stored copy, which the apiserver may have completed with defaults (match policy, selectors, rule scope).
* `Answered` lets the answer of a write that was applied get lost; `Fault` is a call that
  fails without effect. `Restart` replaces the process.
* `lost` is history: the entries that a `Remove` has taken away and no `Install` has put back.
* `accounted` is what the accounting manager was last told; what it does about it is
  `AccountingManager`, whose `Take`, `Remove` and `Ensure...` are this module's `Account` seen from inside.
* Caches hold what was stored at some moment and move forward to what is stored now; an
  informer may skip what lies in between as well. A copy counts as current when it equals what is
  stored; one that is older than two changes that cancel out would be refused by the apiserver, which
  only adds a requeue.

### RegistryWatcher and the code

* `cq` is what is stored of each quota: gone (deleted, or being deleted, which `Reconcile` treats
  alike), pending (no identity yet) or active with the registry key
  `ref` it governs and its limit. `view` and `queue` are the replica's informer and work queue.
* `limits` is the registry, `known` the watcher's map. `remember` and `forget` change `known` under
  `w.mu` and the registry under its own lock after that, so `Remember` and `Forget` leave the
  registry call in `worker` for `Apply`; `Seed` and `SeedLimit` are the same two halves in the
  population.
* `pop` is `PopulateRegistry`: `Poll` resolves one client for each shard advertised at that moment,
  `List` reads one shard, `Seed` and `SeedLimit` remember what is active in it, `ListFails` is a failed
  list, after which the next poll begins again, and `Populated` closes `initialized`. `listed` is what
  the population last read of each quota, the copy it works from.
* `Served` is a request's path through the replica: the dispatcher refuses while `Ready` does not
  hold, then `LimitFor` finds the limit or the validator refuses.
* `Restart` begins with nothing, as after a crash or when the population ran into its time-out; it counts
  as a fault.

## 3. Runs

| Run | Expected | What it checks |
|---|---|---|
| `Strict` | pass | `StrictInv`, `Covered`, `NoOvershoot`, `NoDoubleCount`, `GrantWithinLimit`, `ImplementsStrictQuota`: three creates, one by `generateName`; limits 0 and 1 on the replicas; a crash; a failed or unanswered call; skewed clocks; a second of two ticks; the TTL exactly as long as `TTLCovers` asks |
| `Ledger` | pass | `TypeOK`, `DraftFresh`, `Bookkeeping`, `ConfirmedIsCount`, `OneReservationPerKey`, `TwoFates`, `SlotWithinLimit`, `ApplyIsAtomic`: no hypotheses; two requests share a name and the name is used again, the TTL is too short, outages are not bounded; a crash and a failed or unanswered call; one limit of 2, as limits that differ are `Strict`'s and the theorem's |
| `Liveness` | pass | `ConvergesUnlessEmptied`, `ExpiredSwept`, `EveryRequestAnswered` under `FairSpec`, with a crash of the controller and a failed or unanswered call; the first leaves out only the case of `Stuck` |
| `Lifecycle` | pass | `TypeOK`, `SingleWriter`, `RegisteredIsAlive`, `OneStarter`, `RefsMatchSpecs`, `TeardownWhenUnreferenced`, `StartNotLost`: two quotas, two exports, edits, deletes, two self-stops, a failed start, a withdrawal |
| `Recovery` | pass | `Recovered` under `FairSpec`: two quotas over two versions of one export, created and moved, two self-stops, two failed starts |
| `Policy` | pass | `TypeOK`, `Reconciled`, `EnforcedButForRemovals`, `OwnEntryOnly`, `EntryGuarded`, `Settles` under `FairSpec`: two quotas, two exports; one quota is created, moved between an export of its own and the other's, deleted, created again; a failed or unanswered call and a restart |
| `Registry` | pass | `TypeOK`, `Mirrored`, `MoveFollowed`, `ReadyKnows`, `Opens` under `FairSpec`: two quotas on two shards, one edited or moved, the other also created and deleted, during start-up and after it; shards that appear late; a failed list or a restart |
| `Recreate` | violation | `NoOvershoot` when a name is deleted and created again while the informer lags |
| `Stuck` | violation | `ConfirmedConverges` when the last object is deleted while the controller is down |
| `Leak` | violation | `NoUnreferencedSet` when the last quota goes while a retry is in `startFn` |
| `SharedEntry` | violation | `Enforced` when one of two quotas for an export is deleted |
| `Orphan` | violation | `NoOrphan` when a quota is deleted while its webhook is being installed |

The violation runs are disagreements between the code and what its comments or
design say; `PROJECT.json` quotes both under "findings". `Recreate` also shows that the strict promise
needs `DistinctKeys`. More are known and have no run of their own; most
are found by changing the constants or the properties of a run:

* `Strict` with `BoundedOutage = FALSE` violates `NoOvershoot`: with the controller down for longer than the
  TTL an admitted object loses its reservation before it is confirmed, where the design (line 507)
  says "No overshoot."
* Two requests of one name, the first failing downstream, make `NoOvershoot` fail: a create
  that is retried is admitted on its old reservation, whose expiry `Reserve` does not renew.
* `Recovery` with a version that may be withdrawn violates `Recovered`: the key leaves the version
  out (`accounting.go:133`), so a quota that has moved to another version keeps the set of the old one,
  and its retries start that version again for ever.
* `Recovery` with deletions violates it too: a retry gives way to an `Ensure` in flight
  (`accounting.go:411`), that start fails, and its quota is deleted before it is tried again. This is the
  first exception of `StartNotLost`, which fails without it.
* The second one: `retryStart` holds its key in `starting` from the return of `start`, which has registered the
  set, until it has the lock again (`accounting.go:419-422`). When the last quota goes in between, `Remove` cancels
  the set; an `Ensure` for a new quota then finds the key in `starting` and starts nothing, and the retry
  ends content. `StartNotLost` fails without this exception too.
* A quota that is deleted and created again while the cached webhook configuration still shows its old
  entry. Where `CreateOrUpdate` finds nothing to change (`webhook_installer.go:104`) it writes nothing, the
  quota counts as done and is not enforced: `Enforced` then fails with one quota and no fault, while
  `EnforcedButForRemovals` holds, as the entry is one that a `Remove` took. Where the apiserver has defaulted fields that
  `buildWebhookEntry` leaves unset, the entry differs, the update is sent, and the stale copy is refused. The model allows
  both, so this case is a possibility of the model and not established of the program.
* When a limit is edited between the population's list and its write to the registry, the old limit
  is written last and stays (`registry_watcher.go:173`): this is the second alternative of `Mirrored`, which
  fails without it.
* Two quotas that govern one ref share a registry entry: forgetting one removes the limit of the other
  (`registry_watcher.go:123`), whose requests are then refused. `Mirrored` and `ReadyKnows` exclude it
  by their hypothesis `OwnRefs`, as does `MoveFollowed`.
* A quota whose spec moves to another export leaves the webhook entry and the registry entry of the
  old one behind (`webhook_installer.go:82`, `registry_watcher.go:109`); `NoOrphan` fails in that way too.
  The entry at its new place is there (`MoveFollowed`, `Reconciled`).
* Accounting is removed as soon as the second `Get` shows a deletion timestamp (`main.go:236-237`), when the reconcile
  before it saw none and has just installed the webhook.

*Bounds.* Three requests are the fewest with which one object can be folded, one
admitted and one competing for the slot; the interesting limits are then 0, 1 and 2.
`MaxTime` and `TTL` are chosen so that a reservation made at the start can expire
(`Strict`: at 4, which a clock one tick ahead reads at 3) and one can be made after that.
`Liveness` has one crash and one fault, two requests and one limit. One fault and one crash at any step cover every place where a call can fail; a second of
two ticks makes the rounding show. For the manager, two quotas are what sharing and
moving take, three instances allow an old, a current and a waiting one at once, and two
self-stops let a retry meet the next stop. `MaxFailures` bounds faults, `MaxEdits` creations and
edits. For `ProviderPolicy`, three creations or edits let one quota be created, deleted and created
again, or moved, while another holds an entry of its own beside it. For `RegistryWatcher`, two shards
are what a population that is through with one and not the other takes; one edit lets a quota move, or be
deleted and created again, around one list (a deletion needs none), and one fault makes the population start
over. With two edits the invariants hold as well, over 4.2 million states; the liveness property then takes too
long for a run. In `Strict` the requests that differ in nothing else are symmetric, in `Lifecycle`
the instances; no run with liveness uses symmetry.

*Deadlock* checking is off in every run: requests are finite, the clock and the faults
are bounded, so a quiet state in which nothing is left to do is legitimate. That
nothing gets stuck too early is what the liveness properties say.

*Fairness.* `QuotaLedger` assumes that the informer delivers, that the worker and the
sweeper are scheduled and the ticker keeps ticking, that a crashed controller is restarted (a
Deployment), and that the goroutine of a request that has entered `Apply` goes on. Nothing
is assumed of the consumer, the clock, the network or crashes. No strong fairness is
needed: each conflict is caused by a write that lands, and there are finitely many.
`AccountingManager` assumes that every queued quota gets its turn (the work queue is first
in, first out; strong fairness, as the worker is busy in between), that starts return,
that the watcher and retry goroutines are scheduled, and that a set stops once it is cancelled
or its resource is gone. No start is required to fail and no quota to be touched.
`ProviderPolicy` assumes that the caches catch up, that every queued quota gets its turn (strong
fairness, as above), and that a reconcile goes on; nothing of the provider, and not that kcp
ever assigns an identity. `RegistryWatcher` assumes the same of the informer and its worker, and that
the population goes on; no list has to fail, no shard to be advertised.

## 4. Proofs

Every safety invariant and every action property that a passing run checks is proved, for any sets of
requests, limits, quotas, exports, refs and shards, any clock skew and TTL, and any
number of faults, crashes and restarts.

| Module | Theorem | Property | Needs |
|---|---|---|---|
| `QuotaLedgerProofs` | `TypeCorrect` | `TypeOK` | |
| | `NoLostUpdate` | `DraftFresh` | |
| | `ConfirmedCorrect` | `ConfirmedIsCount` | |
| | `ReservationFates` | `TwoFates` | |
| | `SlotsWithinLimit` | `SlotWithinLimit` | |
| | `BookkeepingCorrect` | `Bookkeeping` | |
| | `StrictInvariant` | `StrictInv` | `StrictHypotheses` |
| | `AlwaysCovered` | `Covered` | `StrictHypotheses` |
| | `LimitNeverExceeded` | `NoOvershoot` | `StrictHypotheses` |
| | `GrantsWithinLimit` | `GrantWithinLimit` | `StrictHypotheses` |
| `LedgerRefinementProofs` | `DraftsComputedCorrect` | (`DraftsComputed`) | |
| | `AtomicRefinement` | `ApplyIsAtomic` | |
| | `ReservationsUnique` | `OneReservationPerKey` | |
| | `CountedOnce` | `NoDoubleCount` | `DistinctKeys` |
| | `StrictRefinement` | `ImplementsStrictQuota` | `StrictHypotheses` |
| `AccountingManagerProofs` | `ManagerInvariant` | (`Inv`) | |
| | `ManagerTypeCorrect` | `TypeOK` | |
| | `RegistryIsAlive` | `RegisteredIsAlive` | |
| | `OneWriterPerExport` | `SingleWriter` | |
| | `OneStarterPerKey` | `OneStarter` | |
| | `RefsAreExact` | `RefsMatchSpecs` | |
| | `TeardownAtLastReference` | `TeardownWhenUnreferenced` | |
| | `StartsAreNotLost` | `StartNotLost` | |
| `ProviderPolicyProofs` | `PolicyInvariant` | (`Inv`) | |
| | `PolicyTypeCorrect` | `TypeOK` | |
| | `QuotasAreReconciled` | `Reconciled` | |
| | `UpdatesOwnEntryOnly` | `OwnEntryOnly` | |
| | `EntriesAreGuarded` | `EntryGuarded` | |
| | `EnforcementLasts` | `EnforcedButForRemovals` | in it: `NamesTell` |
| `RegistryWatcherProofs` | `WatcherTypeCorrect` | `TypeOK` | |
| | `RegistryMirrors` | `Mirrored` | in it: `OwnRefs` |
| | `RegistryFollowsMoves` | `MoveFollowed` | in it: `OwnRefs` |
| | `ReadyReplicaKnows` | `ReadyKnows` | in it: `OwnRefs` |

*Assumptions.* Those of the constants (`AccountingAssumption`, `LedgerAssumption`, `ManagerAssumption`,
`PolicyAssumption`, `RegistryAssumption`): finitely many requests, bounds that are natural numbers, at
least one limit, `None` apart from everything else. `HighestLimitAssumption` says that among the limits
one is the highest, which `ImplementsStrictQuota` needs to name it; a limit is an `int32`
(`consumptionquota_types.go:30`). `StrictHypotheses` are what the deployment has to guarantee: no two
requests name one object (`DistinctKeys`), the TTL covers latency, skew and the second lost in
storing (`TTLCovers`), and a controller outage is part of the latency (`BoundedOutage`).
`OwnRefs` (no two quotas govern one registry key; a quota may move between keys of its own) and `NamesTell` (two
exports with one entry name have one rule) are antecedents of the properties themselves. Section 3 says what
happens without the first; without the second two quotas overwrite each other's entry, as its name leaves out the
group and the tail of a long resource name (`webhook_installer.go:220-235`).

*The ledger.* `TypeOK` and `Bookkeeping` are inductive as they stand. `DraftFresh` is the
heart of compare and swap: a draft with the current resourceVersion relates to the current
status as a grant, a fold or a sweep does, so that the effect of a write that lands is known
(`LandedStatus`, `LandedParts`) although it was computed earlier; `ConfirmedIsCount`, `TwoFates` and
`SlotWithinLimit` follow. `NoOvershoot` is not inductive: a state may satisfy it with objects
that nothing counts. `StrictInv` adds what is missing: each charged object (live, or admitted) is in
`folded` or has a reservation whose expiry lies beyond the latency of its request; the latency of
whatever is pending has not run out; a reservation belongs to a request that has been decided; and
the charged objects are within a limit. `HeldIsFirm` turns the second half of that into a
reservation live for every clock, which gives `Covered`; `ChargedCounted` maps distinct
charged objects to distinct things counted, so that charged objects are never more than
`confirmed` plus the live reservations; `LandingWithinLimit` uses this at the moment a
grant lands; `FoldKeeps` shows that a recount drops no live object from `folded`, which is
where `Bookkeeping` (a recount never knows less than the one before) is needed.

*The refinements.* `DraftFresh` leaves open which call computed a draft and when, and an abstract step
needs both: a `Grant` names its request and its time. `DraftsComputed` adds them, and is inductive
because a landed write changes the resourceVersion, so that every other draft becomes stale
(`StableComputed`). With it each write that lands is one `AtomicLedger` step at the draft's own time, each
tick a tick, and every other step a stutter. `OneReservationPerKey` comes from the same invariant: a
grant that lands found no live reservation of its key in the very status it is added to. For
`StrictQuota` the abstract state is the set of charged objects; `ChargedStep` shows that each
step adds one request at most or drops one at most, and `StrictInv` that it adds one only below the
highest limit.

*The accounting manager.* `RegisteredIsAlive` is not inductive: a start registers its set over
whatever is registered. The invariant adds why nothing is. A key in `starting` is held by the worker or
by one retry, and by one of them only (`HeldOnce`), and under a key whose start has yet to
register nothing is registered (`NothingRegistered`), since the only way to get there is to find the
entry empty under the lock. `SingleWriter` and `OneStarter` follow. `RefsMatchSpecs` is proved on top of it; the
proof did not need its guard that the worker is elsewhere, so the property was strengthened and
now holds of a quota whose `Ensure` is still in flight as well. `StartNotLost` compares a state with the next, and
needs `Followed` of the first: while the worker is in `Ensure` its own reference counts, so that
the set registered for it is still there or, if it has stopped, waited for by its retry. `NextNotStranded` then goes through the
steps that give up one way to start a referenced set, and finds the other way each of them leaves, or one of the
two exceptions. The theorem has no hypothesis.

*The provider workspace.* `Inv` says what each call of a reconcile may count on (`Ready`) and what
an old copy of a quota still tells (`CopyTells`): a finalizer seen on a quota that was not being deleted
is still there, because nobody but this worker takes it away. That gives `EntryGuarded`. `Reconciled`
needs `Progress`, one quota at a time: a quota without an event to come is complete and accounted for as the
informer has it, or the informer is `Behind`, that is, it has yet to show a write of the controller that
nobody takes back. `EnforcedButForRemovals` needs two more: what is installed, together with what a `Remove` took
away (`vwc \cup lost`), only grows, and an old copy of the configuration shows nothing outside it
(`OnlyGrows`); and what `Progress` says of accounting holds of the webhook entry (`Entering`). It is the part of
`Enforced` that the code keeps: a quota is not enforced only if a `Remove` took its very entry, as in the
`SharedEntry` run.
The proofs found two overlapping arms in a `CASE`
of the model, where the code has a chain of early returns; it is now a chain as well.

*The registry watcher.* `Mirrored` needs to know what both writers hold: the call the reconcile has left
to make (`worker`), the quotas the population has listed and not yet remembered (`Unseeded`), and
that an unknown quota has no entry; `InSync` says so for each quota, and is kept because no
quota writes another's entry (`OwnRefs`). For a quota that moves the entry of its old ref stays, and `InSync` is
lost; `Following` is what remains: only a reconcile that finds the quota gone deletes an entry, and any event
that brings it back is reconciled after that. `ReadyKnows` needs that a quota that is never deleted has an entry
under the ref it was listed with from the moment its shard has been worked through (`NeverForgotten`). `Shape` collects what
of the state's form both use.

*Only model-checked:* liveness, which is out of the prover's reach: `ConvergesUnlessEmptied`, `ExpiredSwept`,
`EveryRequestAnswered`, `Recovered`, `Settles`, `Opens`. The properties of the violation runs are not
theorems, as they do not hold. `ImplementsStrictQuota` and `ApplyIsAtomic` are safety only: the abstract
specifications have no fairness.

## 5. What is left out

* One consumer, one resource, one ledger: ledgers are independent objects, and the code never
  reads two of them for one decision. (`SweepAll` stops at the first failing ledger of its
  list; see the hazards.)
* The wiring of processes (flags, clients, caches), and the dispatcher's cache of validators: a
  validator has no state, so which one answers makes no difference.
* The informer's periodic resync in `RegistryWatcher`: it would repair what is wrong ten hours later.
* `ProviderPolicy` and `RegistryWatcher` in one module: a replica that does not know a quota refuses
  its requests, so a resource is open only when the webhook entry is missing, which is `Enforced`.
* A cancelled set that is still shutting down while its successor runs: its context is cancelled before
  the successor starts, so all it can still do is land an update it has sent, and that only
  if nothing was written since.
* An update that the apiserver applies only after its caller has given up: `LoseReply` applies it before. For a
  request the two come to the same, as it does nothing more. For the worker, a late recount lands only if nothing was
  written since, so only when the recount repeated in between found nothing to write.
* `Remember` and `Forget` read the cached quota and update `known` in one step; the code reads just before it takes
  `w.mu`. One quota is reconciled by one worker at a time, and any change in between queues it again.
* Leader election: one controller at a time. The chart runs one replica. A process that lost its
  lease without noticing could recount from an old list; the hazards list it.
* The controller's own limit registry (`Reg.Set`, `Reg.Delete`): nothing in that process reads it.
* `int32` overflow of counts: `confirmed` is the length of a list of objects in memory.

## 6. Plan

Done: `Accounting`, `QuotaLedger` with its two abstract specifications, `AccountingManager`,
`ProviderPolicy`, `RegistryWatcher`; a theorem for every safety invariant and action
property of the runs, and for both refinements. Next, in this order:

1. What a sweep over several ledgers does when one of them fails (`usage_reconciler.go:69`).
2. The hand-over between two controllers, one of which does not know that its lease is over.
3. Registry entries that two quotas share (`registry_watcher.go:123`): which of the two loses its limit, and for
   how long.
