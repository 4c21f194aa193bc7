--------------------------- MODULE ProviderPolicy ---------------------------
(* The controller's side of a provider workspace: the ConsumptionQuota           *)
(* reconciler, the webhook installer and the reconcile function around them      *)
(* (internal/controller, cmd/controller/main.go).  One worker handles the        *)
(* quotas of the workspace; it reads quotas and the shared webhook configuration *)
(* from caches that lag behind the apiserver, and writes to the apiserver, which *)
(* refuses an update of a copy that is not current.                              *)
(*                                                                               *)
(* A copy counts as current when it equals what is stored: a copy older than     *)
(* two changes that cancel out is refused by the apiserver and accepted here,    *)
(* which only skips one requeue.                                                 *)
EXTENDS Naturals, FiniteSets

CONSTANTS
    CQs,         \* ConsumptionQuotas of the workspace
    Governed,    \* what a spec may govern: APIExport, group, version and resource
    Resource,    \* governed -> the resource name that an entry's name starts with
    Rule,        \* governed -> the group and resource that an entry matches
    Identity,    \* governed -> identity hash of its APIExport
    Names,       \* CQ -> what its spec may govern
    Deletable,   \* CQs that may be deleted
    None,
    MaxEdits, MaxFaults, MaxRestarts    \* bounds of the model

Identities == {Identity[g] : g \in Governed}

ASSUME PolicyAssumption ==
    /\ Names \in [CQs -> SUBSET Governed]
    /\ Deletable \subseteq CQs
    /\ None \notin Governed \cup Identities \cup CQs
    /\ MaxEdits \in Nat /\ MaxFaults \in Nat /\ MaxRestarts \in Nat

VARIABLES
    cq,         \* the stored quotas: spec, status.identityHash, finalizer, deletion
    view,       \* the informer's copies of them
    vwc,        \* entries of the stored webhook configuration; none: it does not exist
    vwcView,    \* the cached copy of them
    assigned,   \* governed exports that kcp has given an identity
    queue,      \* quotas waiting to be reconciled
    worker,     \* the reconcile worker: where it is, the quota, its copy of it
    accounted,  \* CQ -> what the accounting manager was last told to account for
    lost,       \* history: entries a Remove took away and no Install has put back
    edits, faults, restarts

vars == <<cq, view, vwc, vwcView, assigned, queue, worker, accounted, lost,
          edits, faults, restarts>>
memory == <<view, vwcView, queue, worker, accounted>>
bounds == <<edits, faults, restarts>>

Absent == [spec |-> None, id |-> None, finalizer |-> FALSE, deleting |-> FALSE]
Idle   == [pc |-> "idle", cq |-> None, obj |-> Absent]

\* The name has the resource and the identity, the entry the group as well; the
\* version is in neither.
EntryName(g, id) == <<Resource[g], id>>
Entry(g, id)     == [name |-> EntryName(g, id), rule |-> <<Rule[g], id>>]

Init ==
    /\ cq = [c \in CQs |-> Absent]
    /\ view = cq
    /\ vwc = {} /\ vwcView = {}
    /\ assigned \in SUBSET Governed
    /\ queue = {}
    /\ worker = Idle
    /\ accounted = [c \in CQs |-> None]
    /\ lost = {}
    /\ edits = 0 /\ faults = 0 /\ restarts = 0
-----------------------------------------------------------------------------
(* The provider, kcp, and the caches.                                         *)

\* A quota is created, or its spec changed.
Edit(c) ==
    /\ edits < MaxEdits /\ edits' = edits + 1
    /\ ~cq[c].deleting
    /\ \E g \in Names[c] \ {cq[c].spec} : cq' = [cq EXCEPT ![c].spec = g]
    /\ UNCHANGED <<vwc, assigned, lost, memory, faults, restarts>>

Delete(c) ==
    /\ c \in Deletable /\ cq[c].spec # None /\ ~cq[c].deleting
    /\ cq' = [cq EXCEPT ![c] = IF @.finalizer THEN [@ EXCEPT !.deleting = TRUE] ELSE Absent]
    /\ UNCHANGED <<vwc, assigned, lost, memory, bounds>>

Assign(g) ==
    /\ g \notin assigned /\ assigned' = assigned \cup {g}
    /\ UNCHANGED <<cq, vwc, memory, lost, bounds>>

Sync(c) ==
    /\ view[c] # cq[c]
    /\ view' = [view EXCEPT ![c] = cq[c]]
    /\ queue' = queue \cup {c}
    /\ UNCHANGED <<cq, vwc, vwcView, assigned, lost, worker, accounted, bounds>>

SyncVWC ==
    /\ vwcView # vwc /\ vwcView' = vwc
    /\ UNCHANGED <<cq, vwc, view, assigned, lost, queue, worker, accounted, bounds>>

\* The controller process is replaced: only what is stored survives.
Restart ==
    /\ restarts < MaxRestarts /\ restarts' = restarts + 1
    /\ view' = cq /\ vwcView' = vwc
    /\ queue' = {c \in CQs : cq[c].spec # None}
    /\ worker' = Idle
    /\ accounted' = [c \in CQs |-> None]
    /\ UNCHANGED <<cq, vwc, assigned, lost, edits, faults>>
-----------------------------------------------------------------------------
(* One reconcile.                                                             *)

GoTo(pc, obj) == worker' = [worker EXCEPT !.pc = pc, !.obj = obj]

\* Reconcile returns an error: the quota is queued again.
Requeue == worker' = Idle /\ queue' = queue \cup {worker.cq}

\* A write that has been applied is answered, or its answer is lost.
Answered(pc, obj) ==
    \/ GoTo(pc, obj) /\ UNCHANGED <<queue, faults>>
    \/ faults < MaxFaults /\ faults' = faults + 1 /\ Requeue

\* Mutant: the webhook is installed before there is a finalizer.
FirstCallUnguarded(q) ==
    IF q = Absent THEN "reget" ELSE IF q.deleting THEN "teardown" ELSE "resolve"

FirstCall(q) ==
    IF q = Absent       THEN "reget"
    ELSE IF q.deleting  THEN "teardown"
    ELSE IF q.finalizer THEN "resolve"
    ELSE "finalize"

Begin(c) ==
    /\ worker = Idle /\ c \in queue
    /\ queue' = queue \ {c}
    /\ worker' = [cq |-> c, obj |-> view[c], pc |-> FirstCall(view[c])]
    /\ UNCHANGED <<cq, view, vwc, vwcView, assigned, lost, accounted, bounds>>

\* The copies that a write is conditional on.
Current == worker.obj = cq[worker.cq]

\* Mutant: the update is not conditional on the resourceVersion.
CurrentUnchecked == TRUE

CurrentVWC == vwcView = vwc

\* The finalizer is written, and the reconcile ends.
Finalize ==
    /\ worker.pc = "finalize" /\ Current
    /\ cq' = [cq EXCEPT ![worker.cq].finalizer = TRUE]
    /\ Answered("reget", worker.obj)
    /\ UNCHANGED <<view, vwc, vwcView, assigned, lost, accounted, edits, restarts>>

\* The APIExport is read directly; without an identity the quota waits.
Resolve ==
    /\ worker.pc = "resolve"
    /\ LET g == worker.obj.spec IN
         \/ g \notin assigned /\ GoTo("reget", worker.obj) /\ queue' = queue \cup {worker.cq}
         \/ /\ g \in assigned
            /\ GoTo(IF worker.obj.id = Identity[g] THEN "install" ELSE "stamp", worker.obj)
            /\ UNCHANGED queue
    /\ UNCHANGED <<cq, view, vwc, vwcView, assigned, lost, accounted, bounds>>

Stamp ==
    /\ worker.pc = "stamp" /\ Current
    /\ LET stamped == [worker.obj EXCEPT !.id = Identity[worker.obj.spec]] IN
         /\ cq' = [cq EXCEPT ![worker.cq] = stamped]
         /\ Answered("install", stamped)
    /\ UNCHANGED <<view, vwc, vwcView, assigned, lost, accounted, edits, restarts>>

\* CreateOrUpdate on the cached configuration: the entry of this name is replaced
\* or added. Whether an entry that is already there is sent again depends on the
\* fields the apiserver defaulted in the stored copy, which the code leaves unset:
\* both may happen.
Upserted ==
    LET new == Entry(worker.obj.spec, worker.obj.id) IN
      {e \in vwcView : e.name # new.name} \cup {new}

Install ==
    /\ worker.pc = "install"
    /\ \/ Upserted = vwcView /\ GoTo("reget", worker.obj) /\ UNCHANGED <<vwc, queue, faults>>
       \/ CurrentVWC /\ vwc' = Upserted /\ Answered("reget", worker.obj)
    /\ lost' = lost \ vwc'
    /\ UNCHANGED <<cq, view, vwcView, assigned, accounted, edits, restarts>>

\* Remove on the cached configuration: without it there is nothing to do; it is
\* deleted, on no condition, when no other entry is seen; else it is updated.
Remaining == {e \in vwcView : e.name # EntryName(worker.obj.spec, worker.obj.id)}

Teardown ==
    /\ worker.pc = "teardown"
    /\ LET next == IF worker.obj.finalizer THEN "dropFinalizer" ELSE "reget" IN
         \/ vwcView = {} /\ GoTo(next, worker.obj) /\ UNCHANGED <<vwc, queue, faults, lost>>
         \/ /\ vwcView # {} /\ (Remaining = {} \/ CurrentVWC)
            /\ vwc' = Remaining /\ lost' = (lost \cup vwc) \ vwc'
            /\ Answered(next, worker.obj)
    /\ UNCHANGED <<cq, view, vwcView, assigned, accounted, edits, restarts>>

DropFinalizer ==
    /\ worker.pc = "dropFinalizer" /\ Current
    /\ cq' = [cq EXCEPT ![worker.cq] = Absent]
    /\ Answered("reget", worker.obj)
    /\ UNCHANGED <<view, vwc, vwcView, assigned, lost, accounted, edits, restarts>>

\* An update of a copy that is not current, or a create of what exists already.
Refused ==
    \/ worker.pc \in {"finalize", "stamp", "dropFinalizer"} /\ ~Current
    \/ worker.pc = "install" /\ ~CurrentVWC
    \/ worker.pc = "teardown" /\ Remaining # {} /\ ~CurrentVWC

\* Mutant: a conflict is retried at once with the copy at hand.
ConflictInPlace == Refused /\ UNCHANGED vars

Conflict ==
    /\ Refused
    /\ Requeue
    /\ UNCHANGED <<cq, view, vwc, vwcView, assigned, lost, accounted, bounds>>

\* Any other error of a call, before it had an effect.
Fault ==
    /\ worker.pc \notin {"idle", "reget"}
    /\ faults < MaxFaults /\ faults' = faults + 1
    /\ Requeue
    /\ UNCHANGED <<cq, view, vwc, vwcView, assigned, lost, accounted, edits, restarts>>

\* Mutant: a quota that is not found any more keeps its accounting.
GoneIfDeleting(obj) == obj # Absent /\ obj.deleting

Gone(obj) == obj = Absent \/ obj.deleting

\* Mutant: accounting starts without an identity.
ResolvedAlways(obj) == TRUE

Resolved(obj) == obj.id # None

\* The quota is read again, from the cache, and accounting started or stopped.
Account ==
    /\ worker.pc = "reget"
    /\ LET c == worker.cq  obj == view[c] IN
         accounted' = [accounted EXCEPT ![c] = IF Gone(obj) THEN None
                                               ELSE IF ~Resolved(obj) THEN @
                                               ELSE <<obj.spec, obj.id>>]
    /\ worker' = Idle
    /\ UNCHANGED <<cq, view, vwc, vwcView, assigned, lost, queue, bounds>>

\* acct.Ensure fails, and rolls its reference back.
AccountFails ==
    /\ worker.pc = "reget"
    /\ ~Gone(view[worker.cq]) /\ Resolved(view[worker.cq])
    /\ faults < MaxFaults /\ faults' = faults + 1
    /\ accounted' = [accounted EXCEPT ![worker.cq] = None]
    /\ Requeue
    /\ UNCHANGED <<cq, view, vwc, vwcView, assigned, lost, edits, restarts>>
-----------------------------------------------------------------------------
Reconcile ==
    \/ Finalize \/ Resolve \/ Stamp \/ Install
    \/ Teardown \/ DropFinalizer \/ Conflict
    \/ Account \/ AccountFails

Next ==
    \/ \E c \in CQs : Edit(c) \/ Delete(c) \/ Sync(c) \/ Begin(c)
    \/ \E g \in Governed : Assign(g)
    \/ SyncVWC \/ Restart
    \/ Reconcile \/ Fault

Spec == Init /\ [][Next]_vars

\* The caches catch up, the worker runs, and the work queue is first in, first
\* out.  Nothing is assumed of the provider, nor that kcp assigns an identity.
Fairness ==
    /\ \A c \in CQs : WF_vars(Sync(c)) /\ SF_vars(Begin(c))
    /\ WF_vars(SyncVWC)
    /\ WF_vars(Reconcile)

FairSpec == Spec /\ Fairness
-----------------------------------------------------------------------------
Quotas == [spec : Governed \cup {None}, id : Identities \cup {None},
           finalizer : BOOLEAN, deleting : BOOLEAN]

\* The shape of every variable.  An entry's identity is never empty, and a
\* quota is being deleted only while its finalizer is there.
TypeOK ==
    /\ cq \in [CQs -> Quotas] /\ view \in [CQs -> Quotas]
    /\ vwc \cup vwcView \cup lost \subseteq {Entry(g, id) : g \in Governed, id \in Identities}
    /\ assigned \subseteq Governed
    /\ queue \subseteq CQs
    /\ worker \in [pc : {"idle", "finalize", "resolve", "stamp", "install",
                         "teardown", "dropFinalizer", "reget"},
                   cq : CQs \cup {None}, obj : Quotas]
    /\ worker.pc = "idle" <=> worker = Idle
    /\ accounted \in [CQs -> (Governed \X Identities) \cup {None}]
    /\ \A c \in CQs : cq[c].deleting => cq[c].finalizer
    /\ edits \in 0 .. MaxEdits /\ faults \in 0 .. MaxFaults /\ restarts \in 0 .. MaxRestarts

\* The controller has seen all there is to see of c and is done with it.
CaughtUp(c) == view[c] = cq[c] /\ c \notin queue /\ worker.cq # c

\* Reconcile leaves a quota complete (consumptionquota_controller.go:53-60, main.go:221-250):
\* once the controller has caught up, a quota has its finalizer, the identity of
\* what it governs now, and is accounted for; and a quota that is gone is not.
Reconciled ==
    \A c \in CQs : CaughtUp(c) =>
        IF cq[c].spec = None
        THEN accounted[c] = None
        ELSE /\ cq[c].finalizer /\ ~cq[c].deleting
             /\ cq[c].id = Identity[cq[c].spec]
             /\ accounted[c] = <<cq[c].spec, cq[c].id>>

\* Read-modify-write of the shared configuration (webhook_installer.go:37-41): an update
\* made for one quota changes the entry of that quota's name and no other,
\* however old the copy it was computed from.
OwnEntryOnly ==
    [][vwc' # {} => \A e \in (vwc' \ vwc) \cup (vwc \ vwc') :
                       e.name = EntryName(worker.obj.spec, worker.obj.id)]_vars

\* The finalizer comes before the webhook (consumptionquota_controller.go:76-84): when
\* an entry is added, its quota cannot disappear without a teardown.
EntryGuarded == [][vwc' \ vwc # {} => cq[worker.cq].finalizer]_vars

\* Remove preserves "all other (foreign) entries" (webhook_installer.go:130-132): a quota
\* the controller is done with is enforced, whatever happened to other quotas.
Enforced ==
    \A c \in CQs : CaughtUp(c) /\ cq[c].spec # None => Entry(cq[c].spec, cq[c].id) \in vwc

\* No two entries have one name: the group and the tail of a long resource name,
\* which the name leaves out, do not matter.
NamesTell ==
    \A g, h \in Governed : EntryName(g, Identity[g]) = EntryName(h, Identity[h])
                             => Rule[g] = Rule[h]

\* Reconcile's upsert preserves "all other (foreign) entries" (webhook_installer.go:79-81):
\* a quota the controller is done with is enforced, through shared entries, stale
\* copies, conflicts, lost answers and restarts, unless a Remove has taken away that
\* very entry and no Install has put it back.
EnforcedButForRemovals ==
    NamesTell => \A c \in CQs : CaughtUp(c) /\ cq[c].spec # None
                                  => Entry(cq[c].spec, cq[c].id) \in vwc \cup lost

\* Deletion "removes the webhook contribution" before it gives up the finalizer
\* (consumptionquota_controller.go:126-127; main.go:221-226 counts on it): when no quota is
\* left, nothing is sent to the webhook any more, which would refuse it.
NoOrphan == (\A c \in CQs : cq[c].spec = None) => vwc = {}

\* Conflicts and stale reads end: the controller catches up with every quota
\* that is gone or whose export has an identity, deletions included.
Settles == <>[](\A c \in CQs : cq[c].spec \in assigned \cup {None} => CaughtUp(c))
=============================================================================
