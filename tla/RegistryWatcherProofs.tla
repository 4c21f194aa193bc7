------------------------ MODULE RegistryWatcherProofs ------------------------
(* Theorems about RegistryWatcher, for every value of its constants.          *)
EXTENDS RegistryWatcher, TLAPS

\* Each copy of a quota is one of its own states, and what the two writers hold is
\* one of its refs; the population has listed only shards it resolved, and is
\* through with all of them once it is done.
Shape ==
    /\ TypeOK
    /\ \A c \in CQs : /\ {cq[c], view[c], listed[c]} \subseteq Quotas(c) \cup {Gone, Pending}
                      /\ known[c] \in Names[c] \cup {None}
    /\ worker # Idle => worker.ref \in Names[worker.cq]
    /\ pop.todo \subseteq pop.urls
    /\ pop.pc = "poll" => pop = Polling
    /\ pop.pc = "done" => pop.todo = {} /\ pop.items = {} /\ pop.cur = None

\* The population has listed c and is not through with remembering it.
Unseeded(c) == c \in pop.items \/ pop.cur = c

\* The registry says of c what q says, or what the population last listed.
Says(c, q) ==
    \A r \in Names[c] : \/ limits[r] = Entry(q)
                        \/ Active(listed[c]) /\ limits[r] = listed[c].limit

\* A quota that was taken and not seen to change is in the registry as the
\* informer has it; the call that is still to come will say so; and one that is
\* not known is not there.
InSync(c) ==
    /\ c \notin queue /\ worker.cq # c /\ ~Unseeded(c) /\ view[c] # Pending => Says(c, view[c])
    /\ worker.cq = c /\ c \notin queue => view[c] # Pending /\ worker.limit = Entry(view[c])
    /\ worker.cq = c /\ known[c] = None => worker.limit = None
    /\ known[c] = None /\ worker.cq # c /\ ~Unseeded(c) => Says(c, Gone)

\* A quota that may move has an entry under the ref the informer shows, and the
\* call that is still to come will make it.
HasEntry(q, c) == limits[q.ref] = q.limit \/ (Active(listed[c]) /\ limits[q.ref] # None)

Following(c) ==
    /\ c \notin queue /\ worker.cq # c /\ Active(view[c]) => HasEntry(view[c], c)
    /\ c \notin queue /\ worker.cq = c /\ Active(view[c]) =>
         worker.ref = view[c].ref /\ worker.limit = view[c].limit

\* A quota that is never deleted is never forgotten, and the ref that was listed
\* has an entry from the moment the quota's shard has been worked through.
NeverForgotten(c) ==
    /\ cq[c] \in Quotas(c)
    /\ c \in queue => Active(view[c])
    /\ worker.cq = c => worker.limit # None
    /\ Shard[c] \in pop.urls \ pop.todo /\ ~Unseeded(c) =>
         Active(listed[c]) /\ limits[listed[c].ref] # None

\* The inductive invariant, where no quotas share a ref.
MirrorInv ==
    /\ \A c \in CQs : Following(c)
    /\ \A c \in CQs : (\E r \in Refs : Names[c] = {r}) => InSync(c)
    /\ \A c \in CQs \ Deletable : NeverForgotten(c)
-----------------------------------------------------------------------------
(* Quotas and the state the actions share.                                    *)

\* What a copy of a quota can be: one with a ref of its own and a limit, or none.
LEMMA QuotaFacts ==
    ASSUME NEW c \in CQs
    PROVE  /\ \A q \in Quotas(c) : /\ Active(q) /\ q \notin {Gone, Pending} /\ q \in AnyQuota
                                   /\ q.ref \in Names[c] /\ q.ref \in Refs /\ q.limit \in Limits
                                   /\ q.ref # None /\ q.limit # None /\ Entry(q) = q.limit
           /\ \A q \in {Gone, Pending} : ~Active(q) /\ Entry(q) = None /\ q \in AnyQuota
           /\ Gone # Pending
BY RegistryAssumption DEF Quotas, Quota, Active, Gone, Pending, AnyQuota, Entry

\* The shape of the first state.
LEMMA InitShape == Init => Shape
<1>. SUFFICES ASSUME Init PROVE Shape
  OBVIOUS
<1>1. \A c \in CQs : cq[c] \in Quotas(c) \cup {Gone}
  BY DEF Init
<1>2. cq \in [CQs -> AnyQuota] /\ Gone \in AnyQuota
  <2>1. DOMAIN cq = CQs /\ cq = [c \in CQs |-> cq[c]]
    BY DEF Init
  <2>. QED BY <1>1, <2>1, QuotaFacts DEF AnyQuota
<1>. QED BY <1>1, <1>2, RegistryAssumption DEF Init, Shape, TypeOK, Polling, Idle

\* Every action keeps the copies of a quota among its own states.
LEMMA NextCopies ==
    Shape /\ [Next]_vars =>
      /\ cq' \in [CQs -> AnyQuota] /\ view' \in [CQs -> AnyQuota] /\ listed' \in [CQs -> AnyQuota]
      /\ \A c \in CQs : {cq'[c], view'[c], listed'[c]} \subseteq Quotas(c) \cup {Gone, Pending}
<1>. DEFINE Copies == /\ cq \in [CQs -> AnyQuota] /\ view \in [CQs -> AnyQuota]
                      /\ listed \in [CQs -> AnyQuota]
                      /\ \A c \in CQs : {cq[c], view[c], listed[c]} \subseteq Quotas(c) \cup {Gone, Pending}
<1>. SUFFICES ASSUME Shape, [Next]_vars PROVE Copies'
  OBVIOUS
<1>0. Copies /\ \A c \in CQs : Quotas(c) \cup {Gone, Pending} \subseteq AnyQuota
  BY QuotaFacts DEF Shape, TypeOK
<1>1. ASSUME NEW c \in CQs, Create(c) \/ Stamp(c) \/ Edit(c) \/ Delete(c) PROVE Copies'
  <2>1. PICK q \in Quotas(c) \cup {Gone, Pending} : cq' = [cq EXCEPT ![c] = q]
    BY <1>1 DEF Create, Stamp, Edit, Delete
  <2>2. UNCHANGED <<view, listed>>
    BY <1>1 DEF Create, Stamp, Edit, Delete, memory
  <2>. QED BY <1>0, <2>1, <2>2
<1>2. ASSUME NEW c \in CQs, Sync(c) PROVE Copies'
  BY <1>0, <1>2 DEF Sync
<1>3. CASE Restart
  BY <1>0, <1>3 DEF Restart
<1>4. ASSUME NEW s \in Shards, List(s) PROVE Copies'
  BY <1>0, <1>4 DEF List
<1>5. CASE UNCHANGED <<cq, view, listed>>
  BY <1>0, <1>5
<1>6. CASE Populate
  BY <1>4, <1>5, <1>6 DEF Populate, Poll, Seed, SeedLimit, Populated
<1>7. ASSUME NEW c \in CQs, Reconcile(c) PROVE Copies'
  BY <1>5, <1>7 DEF Reconcile, Remember, Forget, Skip
<1>. QED
  BY <1>1, <1>2, <1>3, <1>5, <1>6, <1>7 DEF Next, Advertise, Apply, ListFails, memory, vars

\* Every action keeps the shape of the state.
LEMMA NextShape == Shape /\ [Next]_vars => Shape'
<1>. SUFFICES ASSUME Shape, [Next]_vars PROVE Shape'
  OBVIOUS
<1>. DEFINE Counts == edits \in 0 .. MaxEdits /\ faults \in 0 .. MaxFaults
            Mirror == /\ queue \subseteq CQs
                      /\ limits \in [Refs -> Limits \cup {None}]
                      /\ known \in [CQs -> Refs \cup {None}]
                      /\ \A c \in CQs : known[c] \in Names[c] \cup {None}
                      /\ \/ worker = Idle
                         \/ /\ worker \in [op : {"set", "delete"}, cq : CQs, ref : Refs,
                                           limit : Limits \cup {None}]
                            /\ worker.ref \in Names[worker.cq]
            Population ==
              /\ pop \in [pc : {"poll", "list", "done"}, urls : SUBSET Shards, todo : SUBSET Shards,
                          items : SUBSET CQs, cur : CQs \cup {None}]
              /\ advertised \subseteq Shards /\ pop.urls \subseteq advertised
              /\ \A c \in pop.items \cup ({pop.cur} \ {None}) :
                   Active(listed[c]) /\ Shard[c] \in pop.urls \ pop.todo
              /\ pop.todo \subseteq pop.urls
              /\ pop.pc = "poll" => pop = Polling
              /\ pop.pc = "done" => pop.todo = {} /\ pop.items = {} /\ pop.cur = None
<1>0. /\ Counts /\ Mirror /\ Population
      /\ \A c \in CQs : {cq[c], view[c], listed[c]} \subseteq Quotas(c) \cup {Gone, Pending}
      /\ None \notin CQs \cup Refs \cup Limits /\ MaxEdits \in Nat /\ MaxFaults \in Nat
      /\ \A c \in CQs : Names[c] \subseteq Refs /\ Shard[c] \in Shards
  BY RegistryAssumption DEF Shape, TypeOK
<1>1. Counts'
  <2>1. \/ UNCHANGED <<edits, faults>>
        \/ edits < MaxEdits /\ edits' = edits + 1 /\ UNCHANGED faults
        \/ faults < MaxFaults /\ faults' = faults + 1 /\ UNCHANGED edits
    BY DEF Next, Create, Stamp, Edit, Delete, Advertise, Sync, Restart, Reconcile, Remember, Forget,
           Skip, Apply, Populate, Poll, List, Seed, SeedLimit, Populated, ListFails, memory, vars
  <2>. QED BY <1>0, <2>1
<1>2. Mirror'
  <2>1. ASSUME NEW c \in CQs, Remember(c) PROVE Mirror'
    <3>1. view[c].ref \in Names[c] /\ view[c].limit \in Limits
      BY <1>0, <2>1, QuotaFacts DEF Remember
    <3>. QED BY <1>0, <2>1, <3>1 DEF Remember, GovernedRef, Take
  <2>2. ASSUME NEW c \in CQs, Forget(c) PROVE Mirror'
    BY <1>0, <2>2 DEF Forget, Take, Deletion
  <2>3. ASSUME NEW c \in CQs, Skip(c) \/ Sync(c) PROVE Mirror'
    BY <1>0, <2>3 DEF Skip, Take, Sync
  <2>4. CASE Restart
    BY <1>0, <2>4 DEF Restart
  <2>5. CASE Apply
    BY <1>0, <2>5 DEF Apply
  <2>6. ASSUME NEW c \in CQs, Seed(c) PROVE Mirror'
    <3>1. listed[c].ref \in Names[c]
      BY <1>0, <2>6, QuotaFacts DEF Seed
    <3>. QED BY <1>0, <2>6, <3>1 DEF Seed
  <2>7. CASE SeedLimit
    <3>1. pop.cur \in CQs /\ listed[pop.cur].limit \in Limits
      BY <1>0, <2>7, QuotaFacts DEF SeedLimit
    <3>. QED BY <1>0, <2>7, <3>1 DEF SeedLimit
  <2>8. CASE UNCHANGED <<queue, limits, known, worker>>
    BY <1>0, <2>8
  <2>. QED
    BY <2>1, <2>2, <2>3, <2>4, <2>5, <2>6, <2>7, <2>8
    DEF Next, Create, Stamp, Edit, Delete, Advertise, Reconcile, Populate, Poll, List, Populated,
        ListFails, memory, vars
<1>3. Population'
  <2>1. CASE Poll
    <3>0. pop = Polling
      BY <1>0, <2>1 DEF Poll
    <3>1. /\ pop'.pc = "list" /\ pop'.urls = advertised /\ pop'.todo = advertised
          /\ pop'.items = {} /\ pop'.cur = None /\ UNCHANGED <<advertised, listed>>
          /\ pop' \in [pc : {"poll", "list", "done"}, urls : SUBSET Shards, todo : SUBSET Shards,
                       items : SUBSET CQs, cur : CQs \cup {None}]
      BY <1>0, <2>1, <3>0 DEF Poll, VirtualWorkspaceURLs, Polling
    <3>. QED BY <1>0, <3>1
  <2>2. ASSUME NEW s \in Shards, List(s) PROVE Population'
    <3>1. /\ pop.pc = "list" /\ pop.items = {} /\ pop.cur = None /\ s \in pop.urls
          /\ pop' = [pop EXCEPT !.todo = @ \ {s}, !.items = Items(s)]
          /\ Items(s) \subseteq CQs /\ \A c \in Items(s) : Shard[c] = s /\ Active(listed'[c])
          /\ UNCHANGED advertised
      BY <1>0, <2>2 DEF List, Listing, Items
    <3>2. /\ pop'.pc = "list" /\ pop'.urls = pop.urls /\ pop'.todo = pop.todo \ {s}
          /\ pop'.items = Items(s) /\ pop'.cur = None
          /\ pop' \in [pc : {"poll", "list", "done"}, urls : SUBSET Shards, todo : SUBSET Shards,
                       items : SUBSET CQs, cur : CQs \cup {None}]
      BY <1>0, <3>1
    <3>. QED BY <1>0, <3>1, <3>2
  <2>3. CASE ListFails \/ Restart
    BY <1>0, <2>3 DEF ListFails, StartedOver, Polling, Restart
  <2>4. ASSUME NEW c \in CQs, Seed(c) PROVE Population'
    <3>1. pop.pc = "list" /\ UNCHANGED <<advertised, listed>>
      BY <1>0, <2>4 DEF Seed, Polling
    <3>2. /\ pop'.pc = "list" /\ pop'.urls = pop.urls /\ pop'.todo = pop.todo
          /\ pop'.items = pop.items \ {c} /\ pop'.cur = c
          /\ pop' \in [pc : {"poll", "list", "done"}, urls : SUBSET Shards, todo : SUBSET Shards,
                       items : SUBSET CQs, cur : CQs \cup {None}]
      BY <1>0, <2>4, <3>1 DEF Seed
    <3>3. c \in pop.items
      BY <2>4 DEF Seed
    <3>. QED BY <1>0, <3>1, <3>2, <3>3
  <2>5. CASE SeedLimit
    <3>1. pop.pc = "list" /\ UNCHANGED <<advertised, listed>>
      BY <1>0, <2>5 DEF SeedLimit, Polling
    <3>2. /\ pop'.pc = "list" /\ pop'.urls = pop.urls /\ pop'.todo = pop.todo
          /\ pop'.items = pop.items /\ pop'.cur = None
          /\ pop' \in [pc : {"poll", "list", "done"}, urls : SUBSET Shards, todo : SUBSET Shards,
                       items : SUBSET CQs, cur : CQs \cup {None}]
      BY <1>0, <2>5, <3>1 DEF SeedLimit
    <3>. QED BY <1>0, <3>1, <3>2
  <2>6. CASE Populated
    BY <1>0, <2>6 DEF Populated, Listing, ListedAll
  <2>7. ASSUME NEW s \in Shards, Advertise(s) PROVE Population'
    BY <1>0, <2>7 DEF Advertise, memory
  <2>8. CASE UNCHANGED <<advertised, pop, listed>>
    BY <1>0, <2>8
  <2>. QED
    BY <2>1, <2>2, <2>3, <2>4, <2>5, <2>6, <2>7, <2>8
    DEF Next, Create, Stamp, Edit, Delete, Sync, Reconcile, Remember, Forget, Skip, Apply, Populate,
        memory, vars
<1>. QED BY <1>1, <1>2, <1>3, NextCopies DEF Shape, TypeOK
-----------------------------------------------------------------------------
(* The mirror.                                                                *)

\* What the registry calls write: the worker's, or the population's, one ref; the
\* entry of another quota stays (registry.go, Set and Delete).
LEMMA OtherRefs ==
    ASSUME OwnRefs, Shape, NEW c \in CQs, NEW d \in CQs, c # d
    PROVE  /\ Names[c] \cap Names[d] = {}
           /\ worker # Idle /\ worker.cq = d => \A r \in Names[c] : worker.ref # r
           /\ d \in pop.items \/ pop.cur = d => \A r \in Names[c] : listed[d].ref # r
<1>1. Names[c] \cap Names[d] = {}
  BY DEF OwnRefs
<1>2. d \in pop.items \/ pop.cur = d => listed[d].ref \in Names[d]
  <2>1. d # None
    BY RegistryAssumption
  <2>. QED BY <2>1, QuotaFacts DEF Shape, TypeOK
<1>. QED BY <1>1, <1>2 DEF Shape

\* Each step keeps c, which governs r only, in sync: its own event queues it, its reconcile leaves a call
\* that says what the informer had, and a listing is seeded before the next one
\* (registry_watcher.go:61-125, 158-195).
LEMMA NextInSync ==
    ASSUME OwnRefs, Shape, [Next]_vars, NEW c \in CQs, NEW r \in Refs, Names[c] = {r}, InSync(c)
    PROVE  InSync(c)'
<1>0. /\ limits \in [Refs -> Limits \cup {None}] /\ known \in [CQs -> Refs \cup {None}]
      /\ view \in [CQs -> AnyQuota] /\ cq \in [CQs -> AnyQuota] /\ listed \in [CQs -> AnyQuota]
      /\ {cq[c], view[c], listed[c]} \subseteq Quotas(c) \cup {Gone, Pending}
      /\ queue \subseteq CQs /\ c # None /\ Idle.cq = None
      /\ worker # Idle => worker.cq \in CQs /\ worker.ref \in Refs /\ worker.ref \in Names[worker.cq]
      /\ pop \in [pc : {"poll", "list", "done"}, urls : SUBSET advertised, todo : SUBSET Shards,
                  items : SUBSET CQs, cur : CQs \cup {None}]
      /\ \A d \in pop.items \cup ({pop.cur} \ {None}) : Active(listed[d])
  BY RegistryAssumption DEF Shape, TypeOK, Idle
<1>1. CASE /\ UNCHANGED <<limits, known, view, queue, worker>>
           /\ listed'[c] = listed[c] /\ (Unseeded(c) => Unseeded(c)')
  BY <1>1 DEF InSync, Says
<1>2. CASE /\ \A q \in {view[c], Gone} : Says(c, q) => Says(c, q)'
           /\ UNCHANGED <<view, worker>> /\ known'[c] = known[c]
           /\ (c \in queue <=> c \in queue') /\ (Unseeded(c) <=> Unseeded(c)')
  BY <1>2 DEF InSync
<1>3. ASSUME NEW d \in CQs, Sync(d) PROVE InSync(c)'
  <2>1. CASE d = c
    BY <1>0, <1>3, <2>1 DEF Sync, InSync, Says, Unseeded
  <2>2. CASE d # c
    <3>1. view'[c] = view[c] /\ (c \in queue' <=> c \in queue)
      BY <1>0, <1>3, <2>2 DEF Sync
    <3>. QED BY <1>3, <3>1 DEF Sync, InSync, Says, Unseeded
  <2>. QED BY <2>1, <2>2
<1>4. CASE Restart
  BY <1>0, <1>4, RegistryAssumption, QuotaFacts DEF Restart, InSync, Says
<1>5. ASSUME NEW d \in CQs, d # c, Reconcile(d) PROVE InSync(c)'
  <2>1. /\ UNCHANGED <<limits, view, pop, listed>> /\ known'[c] = known[c]
        /\ (c \in queue' <=> c \in queue) /\ worker.cq # c /\ worker'.cq # c
    BY <1>0, <1>5 DEF Reconcile, Remember, Forget, Skip, Take, Deletion
  <2>. QED BY <2>1 DEF InSync, Says, Unseeded
<1>6. CASE Remember(c)
  BY <1>0, <1>6, QuotaFacts DEF Remember, GovernedRef, Take, InSync, Entry
<1>7. CASE Forget(c)
  <2>1. CASE known[c] = None
    BY <1>0, <1>7, <2>1 DEF Forget, Take, Deletion, InSync, Says, Unseeded
  <2>2. CASE known[c] # None
    <3>1. /\ worker'.cq = c /\ worker'.limit = None /\ view'[c] = Gone
          /\ known'[c] = None
      BY <1>0, <1>7, <2>2 DEF Forget, Deletion
    <3>. QED BY <3>1, QuotaFacts DEF InSync
  <2>. QED BY <2>1, <2>2
<1>8. CASE Skip(c)
  BY <1>0, <1>8, QuotaFacts DEF Skip, Take, InSync, Says, Unseeded
<1>9. CASE Apply
  <2>1. CASE worker.cq = c
    <3>1. limits'[r] = worker.limit /\ worker'.cq # c /\ worker.ref = r
      BY <1>0, <1>9, <2>1 DEF Apply
    <3>. QED BY <1>0, <1>9, <2>1, <3>1, QuotaFacts DEF Apply, InSync, Says, Unseeded
  <2>2. CASE worker.cq # c
    <3>1. limits'[r] = limits[r] /\ worker'.cq # c
      BY <1>0, <1>9, <2>2, OtherRefs DEF Apply
    <3>. QED BY <1>9, <2>2, <3>1 DEF Apply, InSync, Says, Unseeded
  <2>. QED BY <2>1, <2>2
<1>10. ASSUME NEW s \in Shards, List(s) PROVE InSync(c)'
  <2>1. /\ pop.items = {} /\ pop.cur = None /\ UNCHANGED <<limits, known, view, queue, worker>>
        /\ pop'.items = Items(s)
        /\ listed' = [d \in CQs |-> IF d \in Items(s) THEN cq[d] ELSE listed[d]]
    BY <1>0, <1>10 DEF List, Listing
  <2>2. CASE c \in Items(s)
    BY <2>1, <2>2 DEF InSync, Unseeded
  <2>3. CASE c \notin Items(s)
    BY <1>0, <1>1, <2>1, <2>3 DEF Unseeded
  <2>. QED BY <2>2, <2>3
<1>11. ASSUME NEW d \in CQs, Seed(d) PROVE InSync(c)'
  <2>1. pop'.items = pop.items \ {d} /\ pop'.cur = d /\ pop.cur = None /\ d \in pop.items
        /\ UNCHANGED <<limits, view, queue, worker, listed>>
        /\ known' = [known EXCEPT ![d] = listed[d].ref]
    BY <1>0, <1>11 DEF Seed
  <2>2. CASE d = c
    <3>1. known'[c] # None
      BY <1>0, <2>1, <2>2, QuotaFacts DEF Shape
    <3>. QED BY <2>1, <2>2, <3>1 DEF InSync, Unseeded
  <2>3. CASE d # c
    <3>1. known'[c] = known[c] /\ (Unseeded(c)' <=> Unseeded(c))
      BY <1>0, <2>1, <2>3 DEF Unseeded
    <3>. QED BY <2>1, <3>1 DEF InSync, Says
  <2>. QED BY <2>2, <2>3
<1>12. CASE SeedLimit
  <2>1. /\ pop.cur \in CQs /\ pop'.items = pop.items /\ pop'.cur = None
        /\ UNCHANGED <<known, view, queue, worker, listed>>
        /\ limits' = [limits EXCEPT ![listed[pop.cur].ref] = listed[pop.cur].limit]
    BY <1>0, <1>12 DEF SeedLimit
  <2>2. CASE pop.cur = c
    <3>1. Active(listed[c]) /\ listed[c].ref = r
      BY <1>0, <2>2, QuotaFacts
    <3>2. limits'[r] = listed[c].limit /\ Active(listed'[c]) /\ listed'[c] = listed[c]
      BY <1>0, <2>1, <2>2, <3>1
    <3>. QED BY <2>1, <3>2 DEF InSync, Says
  <2>3. CASE pop.cur # c
    <3>1. listed[pop.cur].ref # r
      <4>1. \A q \in Names[c] : listed[pop.cur].ref # q
        BY <1>0, <2>1, <2>3, OtherRefs
      <4>. QED BY <4>1
    <3>2. limits'[r] = limits[r]
      BY <2>1, <3>1
    <3>3. Unseeded(c)' <=> Unseeded(c)
      BY <2>1, <2>3, RegistryAssumption DEF Unseeded
    <3>. QED BY <2>1, <3>2, <3>3 DEF InSync, Says
  <2>. QED BY <2>2, <2>3
<1>13. CASE ListFails \/ Poll \/ Populated
  <2>1. Unseeded(c) => Unseeded(c)'
    BY <1>0, <1>13
    DEF ListFails, Listing, Poll, Populated, Unseeded, Shape, Polling
  <2>. QED BY <1>1, <1>13, <2>1 DEF ListFails, Poll, Populated
<1>14. CASE UNCHANGED <<limits, known, view, queue, worker, listed, pop>>
  BY <1>1, <1>14 DEF Unseeded
<1>15. ASSUME NEW d \in CQs, Reconcile(d) PROVE InSync(c)'
  BY <1>5, <1>6, <1>7, <1>8, <1>15 DEF Reconcile
<1>. QED
  BY <1>3, <1>4, <1>9, <1>10, <1>11, <1>12, <1>13, <1>14, <1>15
  DEF Next, Create, Stamp, Edit, Delete, Advertise, Populate, memory, vars

\* Each step keeps the ref that c governs in the registry: only a reconcile that
\* finds c gone deletes, and a later event of c is reconciled after it
\* (registry_watcher.go:61-125).
LEMMA NextFollowing ==
    ASSUME OwnRefs, Shape, [Next]_vars, NEW c \in CQs, Following(c)
    PROVE  Following(c)'
<1>0. /\ limits \in [Refs -> Limits \cup {None}] /\ view \in [CQs -> AnyQuota]
      /\ {view[c], listed[c]} \subseteq Quotas(c) \cup {Gone, Pending}
      /\ queue \subseteq CQs /\ c # None /\ Idle.cq = None
      /\ worker # Idle => worker.cq \in CQs
      /\ pop.cur \in CQs \cup {None}
  BY RegistryAssumption DEF Shape, TypeOK, Idle
<1>v. Active(view[c]) => view[c].ref \in Names[c] /\ view[c].ref \in Refs /\ view[c].limit # None
  BY <1>0, QuotaFacts
<1>1. CASE /\ UNCHANGED <<view, worker>> /\ (c \in queue <=> c \in queue')
           /\ Active(view[c]) => limits'[view[c].ref] = limits[view[c].ref]
           /\ Active(listed[c]) => Active(listed'[c])
  BY <1>1 DEF Following, HasEntry
<1>2. ASSUME NEW d \in CQs, Sync(d) PROVE Following(c)'
  <2>1. CASE d = c
    BY <1>2, <2>1 DEF Sync, Following
  <2>2. CASE d # c
    <3>1. view'[c] = view[c] /\ (c \in queue' <=> c \in queue) /\ UNCHANGED <<limits, worker, listed>>
      BY <1>0, <1>2, <2>2 DEF Sync
    <3>. QED BY <3>1 DEF Following, HasEntry
  <2>. QED BY <2>1, <2>2
<1>3. CASE Restart
  BY <1>3, QuotaFacts DEF Restart, Following
<1>4. ASSUME NEW d \in CQs, d # c, Reconcile(d) PROVE Following(c)'
  <2>1. /\ UNCHANGED <<limits, view, listed>>
        /\ (c \in queue' <=> c \in queue) /\ worker.cq # c /\ worker'.cq # c
    BY <1>0, <1>4 DEF Reconcile, Remember, Forget, Skip, Take, Deletion
  <2>. QED BY <2>1 DEF Following, HasEntry
<1>5. CASE Remember(c)
  BY <1>0, <1>5 DEF Remember, GovernedRef, Following
<1>6. CASE Forget(c) \/ Skip(c)
  <2>1. ~Active(view'[c])
    BY <1>6, QuotaFacts DEF Forget, Skip
  <2>. QED BY <2>1 DEF Following
<1>7. CASE Apply
  <2>1. UNCHANGED <<view, queue, listed>> /\ worker'.cq # c
        /\ limits' = [limits EXCEPT ![worker.ref] = worker.limit]
    BY <1>0, <1>7 DEF Apply
  <2>2. CASE worker.cq = c
    BY <1>0, <1>v, <2>1, <2>2 DEF Following, HasEntry
  <2>3. CASE worker.cq # c
    <3>1. Active(view[c]) => worker.ref # view[c].ref
      BY <1>0, <1>v, <1>7, <2>3, OtherRefs DEF Apply
    <3>2. Active(view[c]) => limits'[view[c].ref] = limits[view[c].ref]
      BY <1>0, <1>v, <2>1, <3>1
    <3>. QED BY <2>1, <2>3, <3>2 DEF Following, HasEntry
  <2>. QED BY <2>2, <2>3
<1>8. CASE SeedLimit
  <2>1. /\ pop.cur \in CQs /\ UNCHANGED <<view, queue, worker, listed>>
        /\ limits' = [limits EXCEPT ![listed[pop.cur].ref] = listed[pop.cur].limit]
    BY <1>0, <1>8 DEF SeedLimit
  <2>2. CASE pop.cur = c
    <3>1. Active(listed[c]) /\ listed[c].limit # None
      <4>1. Active(listed[c])
        BY <1>0, <2>2, RegistryAssumption DEF Shape, TypeOK
      <4>. QED BY <1>0, <4>1, QuotaFacts
    <3>2. Active(view[c]) => \/ limits'[view[c].ref] = limits[view[c].ref]
                            \/ limits'[view[c].ref] # None
      BY <1>0, <1>v, <2>1, <2>2, <3>1
    <3>3. Active(view[c]) /\ HasEntry(view[c], c) => HasEntry(view[c], c)'
      BY <1>v, <2>1, <3>1, <3>2 DEF HasEntry
    <3>. QED BY <2>1, <3>3 DEF Following
  <2>3. CASE pop.cur # c
    <3>1. Active(view[c]) => listed[pop.cur].ref # view[c].ref
      BY <1>v, <2>1, <2>3, OtherRefs
    <3>2. Active(view[c]) => limits'[view[c].ref] = limits[view[c].ref]
      BY <1>0, <1>v, <2>1, <3>1
    <3>. QED BY <1>1, <2>1, <3>2
  <2>. QED BY <2>2, <2>3
<1>9. ASSUME NEW s \in Shards, List(s) PROVE Following(c)'
  <2>1. /\ UNCHANGED <<limits, view, queue, worker>>
        /\ listed' = [d \in CQs |-> IF d \in Items(s) THEN cq[d] ELSE listed[d]]
    BY <1>9 DEF List
  <2>2. Active(listed[c]) => Active(listed'[c])
    BY <2>1 DEF Items
  <2>. QED BY <1>1, <2>1, <2>2
<1>10. CASE UNCHANGED <<limits, view, queue, worker, listed>>
  BY <1>1, <1>10
<1>11. ASSUME NEW d \in CQs, Reconcile(d) PROVE Following(c)'
  BY <1>4, <1>5, <1>6, <1>11 DEF Reconcile
<1>. QED
  BY <1>2, <1>3, <1>7, <1>8, <1>9, <1>10, <1>11
  DEF Next, Create, Stamp, Edit, Delete, Advertise, Populate, Poll, Seed, Populated, ListFails, memory, vars

\* A quota that is never deleted stays active, is never forgotten, and keeps the
\* entry that listing its shard gave it (registry_watcher.go:70-78, 161-179).
LEMMA NextNeverForgotten ==
    ASSUME OwnRefs, Shape, [Next]_vars, NEW c \in CQs \ Deletable, NeverForgotten(c)
    PROVE  NeverForgotten(c)'
<1>0. /\ limits \in [Refs -> Limits \cup {None}] /\ known \in [CQs -> Refs \cup {None}]
      /\ view \in [CQs -> AnyQuota] /\ cq \in [CQs -> AnyQuota] /\ listed \in [CQs -> AnyQuota]
      /\ view[c] \in Quotas(c) \cup {Gone, Pending} /\ cq[c] \in Quotas(c)
      /\ \A d \in CQs : listed[d] \in Quotas(d) \cup {Gone, Pending}
      /\ queue \subseteq CQs /\ c \in CQs /\ c # None /\ Idle.cq = None
      /\ worker # Idle => worker.cq \in CQs /\ worker.ref \in Refs /\ worker.ref \in Names[worker.cq]
      /\ pop \in [pc : {"poll", "list", "done"}, urls : SUBSET advertised, todo : SUBSET Shards,
                  items : SUBSET CQs, cur : CQs \cup {None}]
      /\ \A d \in pop.items \cup ({pop.cur} \ {None}) : Active(listed[d])
  BY RegistryAssumption DEF Shape, TypeOK, Idle, NeverForgotten
<1>. DEFINE Stored == cq[c] \in Quotas(c)
            Taken == (c \in queue => Active(view[c])) /\ (worker.cq = c => worker.limit # None)
            Listed == Active(listed[c]) /\ limits[listed[c].ref] # None
            Mirror == Shard[c] \in pop.urls \ pop.todo /\ ~Unseeded(c) => Listed
<1>1. Stored /\ Taken /\ Mirror /\ (Stored' /\ Taken' /\ Mirror' => NeverForgotten(c)')
  BY DEF NeverForgotten
<1>. HIDE DEF Stored, Taken, Mirror
<1>2. Stored'
  <2>1. ASSUME NEW d \in CQs, Create(d) \/ Stamp(d) \/ Edit(d) \/ Delete(d) PROVE Stored'
    BY <1>0, <2>1, QuotaFacts DEF Create, Stamp, Edit, Delete, Stored
  <2>. QED
    BY <1>0, <2>1
    DEF Stored, Next, Sync, Restart, Reconcile, Remember, Forget, Skip, Apply, Advertise, Populate,
        Poll, List, Seed, SeedLimit, Populated, ListFails, vars
<1>3. Taken'
  <2>1. ASSUME NEW d \in CQs, Sync(d) PROVE Taken'
    BY <1>0, <1>1, <2>1, QuotaFacts DEF Sync, Taken
  <2>2. ASSUME NEW d \in CQs, Remember(d) PROVE Taken'
    BY <1>0, <1>1, <2>2, QuotaFacts DEF Remember, Take, Taken
  <2>3. ASSUME NEW d \in CQs, Forget(d) PROVE Taken'
    <3>1. d # c
      BY <1>1, <2>3, QuotaFacts DEF Forget, Take, Taken
    <3>. QED BY <1>0, <1>1, <2>3, <3>1 DEF Forget, Take, Deletion, Taken
  <2>4. ASSUME NEW d \in CQs, Skip(d) PROVE Taken'
    BY <1>0, <1>1, <2>4 DEF Skip, Take, Taken
  <2>5. CASE Restart \/ Apply
    BY <1>0, <1>1, <2>5 DEF Restart, Apply, Taken
  <2>6. CASE UNCHANGED <<view, queue, worker>>
    BY <1>1, <2>6 DEF Taken
  <2>. QED
    BY <2>1, <2>2, <2>3, <2>4, <2>5, <2>6
    DEF Next, Create, Stamp, Edit, Delete, Reconcile, Advertise, Populate, Poll, List, Seed,
        SeedLimit, Populated, ListFails, memory, vars
<1>c. Active(listed[c]) => /\ listed[c].ref \in Names[c] /\ listed[c].ref \in Refs
                           /\ listed[c].limit # None
  BY <1>0, QuotaFacts
<1>4. Mirror'
  <2>1. CASE Apply
    <3>1. Active(listed[c]) => \/ limits'[listed[c].ref] = limits[listed[c].ref]
                              \/ limits'[listed[c].ref] # None
      <4>1. CASE worker.cq = c
        BY <1>0, <1>1, <1>c, <2>1, <4>1 DEF Apply, Taken
      <4>2. CASE worker.cq # c
        <5>1. Active(listed[c]) => worker.ref # listed[c].ref
          BY <1>0, <1>c, <2>1, <4>2, OtherRefs DEF Apply
        <5>. QED BY <1>0, <1>c, <2>1, <5>1 DEF Apply
      <4>. QED BY <4>1, <4>2
    <3>. QED BY <1>1, <2>1, <3>1 DEF Apply, Mirror, Listed, Unseeded
  <2>2. CASE Poll \/ Restart \/ ListFails
    <3>1. pop'.urls = pop'.todo
      <4>1. CASE Poll
        BY <1>0, <4>1 DEF Poll
      <4>2. CASE Restart \/ ListFails
        BY <4>2 DEF Restart, ListFails, StartedOver, Polling
      <4>. QED BY <2>2, <4>1, <4>2
    <3>. QED BY <3>1 DEF Mirror
  <2>3. ASSUME NEW s \in Shards, List(s) PROVE Mirror'
    <3>1. /\ pop'.urls = pop.urls /\ pop'.todo = pop.todo \ {s} /\ pop'.items = Items(s)
          /\ pop.items = {} /\ pop.cur = None /\ UNCHANGED limits
          /\ listed' = [d \in CQs |-> IF d \in Items(s) THEN cq[d] ELSE listed[d]]
      BY <1>0, <2>3 DEF List, Listing
    <3>2. CASE Shard[c] = s
      BY <1>0, <3>1, <3>2, QuotaFacts DEF Items, Mirror, Unseeded
    <3>3. CASE Shard[c] # s
      <4>1. listed'[c] = listed[c]
        BY <1>0, <3>1, <3>3 DEF Items
      <4>. QED BY <1>0, <1>1, <3>1, <3>3, <4>1 DEF Mirror, Listed, Unseeded
    <3>. QED BY <3>2, <3>3
  <2>4. ASSUME NEW d \in CQs, Seed(d) PROVE Mirror'
    <3>1. /\ pop'.urls = pop.urls /\ pop'.todo = pop.todo /\ pop'.items = pop.items \ {d}
          /\ pop'.cur = d /\ pop.cur = None /\ UNCHANGED <<limits, listed>>
      BY <1>0, <2>4 DEF Seed
    <3>. QED BY <1>0, <1>1, <3>1 DEF Mirror, Listed, Unseeded
  <2>5. CASE SeedLimit
    <3>1. /\ pop.cur \in CQs /\ pop'.urls = pop.urls /\ pop'.todo = pop.todo
          /\ pop'.items = pop.items /\ pop'.cur = None /\ UNCHANGED listed
          /\ limits' = [limits EXCEPT ![listed[pop.cur].ref] = listed[pop.cur].limit]
      BY <1>0, <2>5 DEF SeedLimit
    <3>2. CASE pop.cur = c
      <4>1. Active(listed[c])
        BY <1>0, <3>2
      <4>2. limits'[listed[c].ref] # None
        BY <1>0, <1>c, <3>1, <3>2, <4>1
      <4>. QED BY <3>1, <4>1, <4>2 DEF Mirror, Listed
    <3>3. CASE pop.cur # c
      <4>1. Active(listed[c]) => listed[pop.cur].ref # listed[c].ref
        BY <1>c, <3>1, <3>3, OtherRefs
      <4>2. Active(listed[c]) => limits'[listed[c].ref] = limits[listed[c].ref]
        BY <1>0, <1>c, <3>1, <4>1
      <4>. QED BY <1>1, <3>1, <3>3, <4>2 DEF Mirror, Listed, Unseeded
    <3>. QED BY <3>2, <3>3
  <2>6. CASE Populated
    BY <1>0, <1>1, <2>6 DEF Populated, Mirror, Listed, Unseeded
  <2>7. CASE UNCHANGED <<limits, pop, listed>>
    BY <1>1, <2>7 DEF Mirror, Listed, Unseeded
  <2>. QED
    BY <2>1, <2>2, <2>3, <2>4, <2>5, <2>6, <2>7
    DEF Next, Create, Stamp, Edit, Delete, Sync, Reconcile, Remember, Forget, Skip, Advertise,
        Populate, memory, vars
<1>. QED BY <1>1, <1>2, <1>3, <1>4

\* Nothing is known, remembered or registered when a replica starts.
LEMMA InitMirror ==
    ASSUME OwnRefs, Init
    PROVE  MirrorInv
<1>0. \A c \in CQs : Following(c)
  BY QuotaFacts DEF Init, Following
<1>1. \A c \in CQs : InSync(c)
  BY RegistryAssumption, QuotaFacts DEF Init, InSync, Says, Idle
<1>2. ASSUME NEW c \in CQs \ Deletable PROVE NeverForgotten(c)
  BY <1>2, RegistryAssumption DEF Init, NeverForgotten, Idle, Polling
<1>. QED BY <1>0, <1>1, <1>2 DEF MirrorInv
-----------------------------------------------------------------------------
(* The theorems.                                                              *)

\* The shape of the state holds in every reachable state.
THEOREM ShapeInvariant == Spec => []Shape
BY InitShape, NextShape, PTL DEF Spec

\* Every reachable state is well typed, for any number of quotas, refs and shards:
\* what the population holds is active and of a shard it has listed.
THEOREM WatcherTypeCorrect == Spec => []TypeOK
<1>1. Shape => TypeOK
  BY DEF Shape
<1>. QED BY <1>1, ShapeInvariant, PTL

\* The inductive invariant of the mirror, for quotas that do not share refs.
THEOREM MirrorInvariant == ASSUME OwnRefs PROVE Spec => []MirrorInv
<1>1. Init => MirrorInv
  BY InitMirror
<1>2. Shape /\ MirrorInv /\ [Next]_vars => MirrorInv'
  <2>. SUFFICES ASSUME Shape, MirrorInv, [Next]_vars PROVE MirrorInv'
    OBVIOUS
  <2>1. ASSUME NEW c \in CQs PROVE Following(c)'
    BY NextFollowing DEF MirrorInv
  <2>2. ASSUME NEW c \in CQs, NEW r \in Refs, Names[c] = {r} PROVE InSync(c)'
    BY <2>2, NextInSync DEF MirrorInv
  <2>3. ASSUME NEW c \in CQs \ Deletable PROVE NeverForgotten(c)'
    BY NextNeverForgotten DEF MirrorInv
  <2>. QED BY <2>1, <2>2, <2>3 DEF MirrorInv
<1>. QED BY <1>1, <1>2, ShapeInvariant, PTL DEF Spec

\* Once a quota is caught up with, its registry entry is what it says or what the
\* population last listed of it, whatever the two writers' order
\* (registry_watcher.go:41-42, 101-125).
THEOREM RegistryMirrors == Spec => []Mirrored
<1>1. ASSUME OwnRefs PROVE Shape /\ MirrorInv => Mirrored
  <2>. SUFFICES ASSUME Shape, MirrorInv, NEW c \in CQs, CaughtUp(c), cq[c] # Pending,
                       NEW r \in Refs, Names[c] = {r}
                PROVE  \/ limits[r] = Entry(cq[c])
                       \/ Active(listed[c]) /\ limits[r] = listed[c].limit
    BY DEF Mirrored
  <2>1. InSync(c) /\ view[c] = cq[c] /\ c \notin queue /\ worker.cq # c /\ ~Unseeded(c)
    BY DEF MirrorInv, CaughtUp, Unseeded
  <2>. QED BY <2>1 DEF InSync, Says
<1>2. CASE OwnRefs
  BY <1>1, <1>2, ShapeInvariant, MirrorInvariant, PTL
<1>3. CASE ~OwnRefs
  <2>1. Mirrored
    BY <1>3 DEF Mirrored
  <2>. QED BY <2>1, PTL
<1>. QED BY <1>2, <1>3

\* Once a quota is caught up with, the ref it governs now has an entry, wherever it
\* moved from, and it is the quota's limit unless the population ever listed the
\* quota (registry_watcher.go:101-112).
THEOREM RegistryFollowsMoves == Spec => []MoveFollowed
<1>1. ASSUME OwnRefs PROVE MirrorInv => MoveFollowed
  BY DEF MirrorInv, MoveFollowed, CaughtUp, Following, HasEntry
<1>2. CASE OwnRefs
  BY <1>1, <1>2, MirrorInvariant, PTL
<1>3. CASE ~OwnRefs
  <2>1. MoveFollowed
    BY <1>3 DEF MoveFollowed
  <2>. QED BY <2>1, PTL
<1>. QED BY <1>2, <1>3

\* A ready replica knows a limit for every quota that was there before it started,
\* on each shard it found (cmd/webhook/main.go:153-155).
THEOREM ReadyReplicaKnows == Spec => []ReadyKnows
<1>1. ASSUME OwnRefs PROVE Shape /\ MirrorInv => ReadyKnows
  <2>. SUFFICES ASSUME Shape, MirrorInv, Ready, NEW c \in CQs \ Deletable,
                       Shard[c] \in pop.urls
                PROVE  Active(listed[c]) /\ Served(listed[c].ref) # {}
    BY DEF ReadyKnows
  <2>1. pop.todo = {} /\ ~Unseeded(c)
    BY RegistryAssumption DEF Ready, Shape, Unseeded
  <2>2. Active(listed[c]) /\ limits[listed[c].ref] # None
    BY <2>1 DEF MirrorInv, NeverForgotten
  <2>. QED BY <2>2 DEF Served
<1>2. CASE OwnRefs
  BY <1>1, <1>2, ShapeInvariant, MirrorInvariant, PTL
<1>3. CASE ~OwnRefs
  <2>1. ReadyKnows
    BY <1>3 DEF ReadyKnows
  <2>. QED BY <2>1, PTL
<1>. QED BY <1>2, <1>3
=============================================================================
