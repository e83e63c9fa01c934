---------------------------- MODULE KubeReconcile ----------------------------
(***************************************************************************)
(* The bindings of one Kubernetes cluster and the k8s grants they stand     *)
(* for: the gateway's reconciler (pkg/server/kube.go), the plan it makes    *)
(* (pkg/kube/binding.go), the agent's operations and its own sweep          *)
(* (pkg/agent/kube.go, pkg/kube/client.go).  A reconcile reads the agent's  *)
(* connection, then waits for the cluster's lock, then reads the grants,    *)
(* lists the bindings and applies the plan operation by operation, while    *)
(* grants change, time passes, the sweep deletes and the connection drops.  *)
(* The agent runs each operation on a goroutine and under a context of its  *)
(* own: one whose connection is gone may still take effect.  A grant has    *)
(* one scope; a binding is its grant's expiry at the time it was applied.   *)
(***************************************************************************)
EXTENDS Naturals, FiniteSets

CONSTANTS
    Scopes,       \* the grants, each with its one binding
    Reconcilers,  \* goroutines: Loop and the background ones
    Loop,
    KubeTime,     \* bound of the clock; KubeTime + 1 stands for "never"
    MaxChanges,   \* bound of the grant changes
    MaxDrops,     \* bound of the agent's reconnects
    MaxFaults     \* bound of the failures of the store and of the cluster's API

Nobody == "nobody"

ASSUME KubeAssumption ==
    /\ {KubeTime, MaxChanges, MaxDrops, MaxFaults} \subseteq Nat
    /\ Loop \in Reconcilers /\ Nobody \notin Reconcilers

VARIABLES
    minute,    \* the clock
    granted,   \* permissions: a grant's expiry; 0 without one
    bound,     \* the cluster's bindings: an expiry; 0 without one
    kconn,     \* the agent's connection; 0 while there is none
    marked,    \* AgentConnection.Kubernetes of the registered connection
    announce,  \* connections whose announcement is on its way
    recon,     \* each reconcile
    klock,     \* who holds the cluster's lock
    adrift,    \* operations at the agent that no reconcile waits for any more
    sweep,     \* the expired bindings the agent's sweep still has to delete
    changes, drops, faults,
    \* what the properties remember, of each reconcile
    since,     \* the grants that ended or changed, or were swept, since it read them
    astray     \* the grants it missed, and the bindings an operation adrift wrote since

surroundings == <<minute, granted, kconn, marked, announce, sweep, changes, drops>>
kubeVars == <<surroundings, bound, recon, klock, adrift, faults, since, astray>>

Ends == 0 .. KubeTime + 1
NoPlan == [create |-> {}, update |-> {}, delete |-> {}]
NoOp == [scope |-> "none", end |-> 0]
Idle == [pc |-> "idle", conn |-> 0, want |-> [g \in Scopes |-> 0], plan |-> NoPlan, op |-> NoOp, failed |-> FALSE]

\* A reconcile under way: the connection it took, what it read and what of its
\* plan is left.
ReconcilePcs == {"idle", "conn", "lock", "grants", "list", "apply", "sent", "landed", "finish"}
Operations == [scope : Scopes, end : Ends]
Plans == [create : SUBSET Scopes, update : SUBSET Scopes, delete : SUBSET Scopes]
Reconciles ==
    [pc : ReconcilePcs, conn : 0 .. MaxDrops + 1, want : [Scopes -> Ends], plan : Plans,
     op : Operations \cup {NoOp}, failed : BOOLEAN]

KubeTypeOK ==
    /\ minute \in 0 .. KubeTime /\ drops \in 0 .. MaxDrops
    /\ granted \in [Scopes -> Ends] /\ bound \in [Scopes -> Ends]
    /\ kconn \in 0 .. MaxDrops + 1 /\ marked \in BOOLEAN /\ announce \subseteq 1 .. MaxDrops + 1
    /\ recon \in [Reconcilers -> Reconciles]
    /\ klock \in Reconcilers \cup {Nobody}
    /\ adrift \subseteq Operations
    /\ sweep \subseteq Scopes
    /\ since \in [Reconcilers -> SUBSET Scopes] /\ astray \in [Reconcilers -> SUBSET Scopes]

KubeInit ==
    /\ minute = 0
    /\ granted \in [Scopes -> {0, KubeTime}] /\ bound \in [Scopes -> {0, KubeTime + 1}]
    /\ kconn = 0 /\ marked = FALSE /\ announce = {}
    /\ recon = [r \in Reconcilers |-> Idle]
    /\ klock = Nobody
    /\ adrift = {} /\ sweep = {} /\ changes = 0 /\ drops = 0 /\ faults = 0
    /\ since = [r \in Reconcilers |-> {}] /\ astray = [r \in Reconcilers |-> {}]

ExpiredAt(end, t) == end <= t
\* What the store lists: grants that have not run out.
ListMachinePermissions == [g \in Scopes |-> IF ExpiredAt(granted[g], minute) THEN 0 ELSE granted[g]]
Since(gs) == since' = [r \in Reconcilers |-> since[r] \cup gs]
Go(r, l) == recon' = [recon EXCEPT ![r].pc = l]
Fault == faults < MaxFaults /\ faults' = faults + 1

-----------------------------------------------------------------------------
\* The surroundings

\* Time passes; grants run out.
KubeTick ==
    /\ minute < KubeTime
    /\ minute' = minute + 1
    /\ Since({g \in Scopes : granted[g] = minute + 1})
    /\ UNCHANGED <<granted, bound, kconn, marked, announce, recon, klock, adrift, sweep, changes, drops, faults, astray>>

\* reconcileKubeAsync: a goroutine of its own, of which the model has few; a
\* reconcile more that ends before it does anything changes nothing.
reconcileKubeAsync(as) ==
    \/ \E r \in Reconcilers \ {Loop} : as[r].pc = "idle" /\ recon' = [as EXCEPT ![r].pc = "conn"]
    \/ recon' = as

\* A k8s grant is made, extended, cut short or revoked, and KubeGrantChanged
\* called.
KubeGrantChanged(g, end) ==
    /\ changes < MaxChanges /\ end # granted[g]
    /\ changes' = changes + 1
    /\ granted' = [granted EXCEPT ![g] = end]
    /\ Since({g})
    /\ reconcileKubeAsync(recon)
    /\ UNCHANGED <<minute, bound, kconn, marked, announce, klock, adrift, sweep, drops, faults, astray>>

\* The agent connects; it is not known as an in-cluster agent before it says
\* so (announceKubernetes).
agentConnects ==
    /\ kconn = 0
    /\ kconn' = drops + 1 /\ marked' = FALSE
    /\ announce' = announce \cup {drops + 1}
    /\ UNCHANGED <<minute, granted, bound, recon, klock, adrift, sweep, changes, drops, faults, since, astray>>

agentDisconnects ==
    /\ kconn # 0 /\ drops < MaxDrops
    /\ kconn' = 0 /\ drops' = drops + 1
    /\ UNCHANGED <<minute, granted, bound, marked, announce, recon, klock, adrift, sweep, changes, faults, since, astray>>

\* markKubernetes marks whatever connection is registered, not the one that
\* announced, and reconciles.
markKubernetes(k) ==
    /\ k \in announce
    /\ announce' = announce \ {k}
    /\ marked' = (marked \/ kconn # 0)
    /\ reconcileKubeAsync(recon)
    /\ UNCHANGED <<minute, granted, bound, kconn, klock, adrift, sweep, changes, drops, faults, since, astray>>

-----------------------------------------------------------------------------
\* ReconcileKube

\* runKubeReconcileLoop: a tick.
runKubeReconcileLoop ==
    /\ recon[Loop].pc = "idle" /\ kconn # 0 /\ marked
    /\ Go(Loop, "conn")
    /\ UNCHANGED <<surroundings, bound, klock, adrift, faults, since, astray>>

\* kubeAgent: the connection is taken before the lock.
kubeAgent(r) ==
    /\ recon[r].pc = "conn"
    /\ recon' = [recon EXCEPT ![r] = IF kconn # 0 /\ marked
                                 THEN [Idle EXCEPT !.pc = "lock", !.conn = kconn] ELSE Idle]
    /\ UNCHANGED <<surroundings, bound, klock, adrift, faults, since, astray>>

\* Mutant: the lock is not waited for.
lock_None(r) == TRUE

\* kubeLocks.lock: one reconcile of the cluster at a time.
lock(r) == klock = Nobody

lockCluster(r) ==
    /\ recon[r].pc = "lock" /\ lock(r)
    /\ klock' = r /\ Go(r, "grants")
    /\ UNCHANGED <<surroundings, bound, adrift, faults, since, astray>>

\* The reconcile ends with an error.
Fails(r) == recon' = [recon EXCEPT ![r].pc = "finish", ![r].failed = TRUE]

\* desiredKubeBindings.  A grant whose user cannot be read is left out, as if
\* it were not there.
desiredKubeBindings(r) ==
    /\ recon[r].pc = "grants"
    /\ \/ \E missed \in SUBSET Scopes :
            /\ IF missed = {} THEN UNCHANGED faults ELSE Fault
            /\ recon' = [recon EXCEPT
                 ![r].want = [g \in Scopes |-> IF g \in missed THEN 0 ELSE ListMachinePermissions[g]],
                 ![r].pc = "list"]
            /\ astray' = [astray EXCEPT ![r] = missed]
       \/ Fault /\ Fails(r) /\ UNCHANGED astray
    /\ since' = [since EXCEPT ![r] = {}]
    /\ UNCHANGED <<surroundings, bound, klock, adrift>>

\* Mutant: only what has expired is deleted, not what was revoked.
Diff_NoDelete(want, have) ==
    LET wanted == {g \in Scopes : ~ExpiredAt(want[g], minute)}
    IN [create |-> {g \in wanted : have[g] = 0},
        update |-> {g \in wanted : have[g] \notin {0, want[g]}},
        delete |-> {g \in Scopes \ wanted : have[g] # 0 /\ ExpiredAt(have[g], minute)}]

\* Diff: what is wanted and unexpired is created or updated, what is there and
\* not wanted is deleted.
Diff(want, have) ==
    LET wanted == {g \in Scopes : ~ExpiredAt(want[g], minute)}
    IN [create |-> {g \in wanted : have[g] = 0},
        update |-> {g \in wanted : have[g] \notin {0, want[g]}},
        delete |-> {g \in Scopes \ wanted : have[g] # 0}]

\* kubeOp opens its channel, and hears of the outcome, only over the connection
\* the reconcile was started with.
Reaches(r) == kconn = recon[r].conn

\* The bindings are listed and the plan is made.  An error ends the reconcile.
listBindings(r) ==
    /\ recon[r].pc = "list"
    /\ \/ /\ Reaches(r) /\ UNCHANGED faults
          /\ recon' = [recon EXCEPT ![r].plan = Diff(recon[r].want, bound), ![r].pc = "apply"]
       \/ ~Reaches(r) /\ Fails(r) /\ UNCHANGED faults
       \/ Reaches(r) /\ Fault /\ Fails(r)
    /\ UNCHANGED <<surroundings, bound, klock, adrift, since, astray>>

\* The operations of the plan in the order creations, updates, deletions.
Kind(plan) == IF plan.create # {} THEN "create" ELSE IF plan.update # {} THEN "update" ELSE "delete"

\* One of them is sent to the agent; one that cannot be is reported, and the
\* next goes on.
applyOne(r, g) ==
    LET kind == Kind(recon[r].plan)
        end  == IF kind = "delete" THEN 0 ELSE recon[r].want[g]
    IN /\ recon[r].pc = "apply" /\ g \in recon[r].plan[kind]
       /\ recon' = [recon EXCEPT
            ![r].plan[kind] = @ \ {g}, ![r].op = [scope |-> g, end |-> end],
            ![r].failed = @ \/ ~Reaches(r), ![r].pc = IF Reaches(r) THEN "sent" ELSE "apply"]
       /\ UNCHANGED <<surroundings, bound, klock, adrift, faults, since, astray>>

\* Client.Apply creates or replaces, Client.Delete does not mind a binding that
\* is gone.
Written(op) == bound' = [bound EXCEPT ![op.scope] = op.end]

\* The agent (handleKube): the operation takes effect, or the cluster refuses it.
runKubeOp(r) ==
    /\ recon[r].pc = "sent"
    /\ \/ Written(recon[r].op) /\ Go(r, "landed") /\ UNCHANGED faults
       \/ /\ Fault /\ UNCHANGED bound
          /\ recon' = [recon EXCEPT ![r].pc = "apply", ![r].failed = TRUE]
    /\ UNCHANGED <<surroundings, klock, adrift, since, astray>>

opAnswered(r) ==
    /\ recon[r].pc = "landed" /\ Reaches(r)
    /\ Go(r, "apply")
    /\ UNCHANGED <<surroundings, bound, klock, adrift, faults, since, astray>>

\* The connection ended before the answer came: an error, and an operation not
\* yet done goes on without the gateway.
opLost(r) ==
    /\ recon[r].pc \in {"sent", "landed"} /\ ~Reaches(r)
    /\ recon' = [recon EXCEPT ![r].pc = "apply", ![r].failed = TRUE]
    /\ adrift' = IF recon[r].pc = "sent" THEN adrift \cup {recon[r].op} ELSE adrift
    /\ UNCHANGED <<surroundings, bound, klock, faults, since, astray>>

planDone(r) ==
    /\ recon[r].pc = "apply" /\ recon[r].plan = NoPlan
    /\ Go(r, "finish")
    /\ UNCHANGED <<surroundings, bound, klock, adrift, faults, since, astray>>

\* The deferred unlock.
unlockCluster(r) ==
    /\ recon[r].pc = "finish"
    /\ klock' = Nobody
    /\ recon' = [recon EXCEPT ![r] = Idle]
    /\ UNCHANGED <<surroundings, bound, adrift, faults, since, astray>>

-----------------------------------------------------------------------------
\* The agent on its own

\* An operation adrift takes effect, or fails or runs out of its minute.
adriftEnds(op) ==
    /\ op \in adrift
    /\ adrift' = adrift \ {op}
    /\ \/ Written(op) /\ astray' = [r \in Reconcilers |-> astray[r] \cup {op.scope}]
       \/ UNCHANGED <<bound, astray>>
    /\ UNCHANGED <<surroundings, recon, klock, faults, since>>

\* sweepKube lists the bindings and picks the expired ones,
sweepKube ==
    /\ sweep = {}
    /\ sweep' = {g \in Scopes : bound[g] # 0 /\ ExpiredAt(bound[g], minute)}
    /\ sweep' # {}
    /\ UNCHANGED <<minute, granted, bound, kconn, marked, announce, recon, klock, adrift, changes, drops, faults, since, astray>>

\* ... and deletes them one by one, by name, whatever they say by then.
sweepDelete(g) ==
    /\ g \in sweep
    /\ sweep' = sweep \ {g}
    /\ bound' = [bound EXCEPT ![g] = 0]
    /\ Since({g})
    /\ UNCHANGED <<minute, granted, kconn, marked, announce, recon, klock, adrift, changes, drops, faults, astray>>

-----------------------------------------------------------------------------
ReconcileSteps(r) ==
    \/ kubeAgent(r) \/ lockCluster(r) \/ desiredKubeBindings(r) \/ listBindings(r)
    \/ (\E g \in Scopes : applyOne(r, g)) \/ runKubeOp(r) \/ opAnswered(r) \/ opLost(r)
    \/ planDone(r) \/ unlockCluster(r)

KubeNext ==
    \/ KubeTick \/ agentConnects \/ agentDisconnects \/ runKubeReconcileLoop \/ sweepKube
    \/ \E g \in Scopes : sweepDelete(g) \/ \E end \in Ends : KubeGrantChanged(g, end)
    \/ \E k \in announce : markKubernetes(k)
    \/ \E op \in adrift : adriftEnds(op)
    \/ \E r \in Reconcilers : ReconcileSteps(r)

KubeSpec == KubeInit /\ [][KubeNext]_kubeVars

-----------------------------------------------------------------------------
\* Properties

InSync(g) == bound[g] = ListMachinePermissions[g]

\* "brings a cluster's Orion Belt bindings in line with its active k8s grants"
\* (kube.go:111): a reconcile that ends without an error leaves every binding
\* as its grant says, but for grants that changed or ran out since it read them
\* and bindings the agent's sweep deleted since.
BroughtInLine ==
    \A r \in Reconcilers :
        recon[r].pc = "finish" /\ ~recon[r].failed => \A g \in Scopes \ since[r] : InSync(g)

\* What holds of that: no other reconcile interferes, also one that has lost
\* its connection and goes on; only a grant whose user could not be read, and
\* an operation that was under way when its connection ended and takes effect
\* after all, are missed (kube.go:115-159, agent/kube.go:102-133).
ReconciledIsInSync ==
    \A r \in Reconcilers :
        recon[r].pc = "finish" /\ ~recon[r].failed => \A g \in Scopes \ (since[r] \cup astray[r]) : InSync(g)

\* Once grants stop changing, connections stop dropping and the store and the
\* cluster stop failing, the cluster ends up in line with the grants for good:
\* what an interrupted reconcile, a late operation, a user that could not be
\* read, or a sweep that deleted an extended grant's binding left behind is
\* repaired by the loop (kube.go:216-245, agent/kube.go:153-179).
KubeConverges == <>[](\A g \in Scopes : InSync(g))

\* Reconciling is sound: what a reconcile reports as done is done.
ReconcileIsSound == KubeTypeOK /\ ReconciledIsInSync
===============================================================================
