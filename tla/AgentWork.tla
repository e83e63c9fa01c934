----------------------------- MODULE AgentWork -----------------------------
(***************************************************************************)
(* The agent's remote management: the `work` tracker that a drain stops    *)
(* and waits for, undrain, and the binary update that drains before it     *)
(* swaps the executable (pkg/agent/manage.go).                             *)
(*                                                                         *)
(* Every section under work.mu, every wait of the drain goroutine and every *)
(* file operation of an update is one action; control commands arrive on   *)
(* goroutines of their own, so any of them may interleave.                 *)
(***************************************************************************)
EXTENDS Naturals, FiniteSets

CONSTANTS
    Work,         \* sessions, tunnels and kubectl relays, each begun once
    DrainCmds,    \* orion:drain commands
    Updates,      \* orion:update commands; each drains once, under its name
    None,
    MaxUndrains   \* bound: orion:undrain commands

Drains == DrainCmds \cup Updates

ASSUME WorkAssumption ==
    /\ DrainCmds \cap Updates = {}
    /\ None \notin Drains
    /\ MaxUndrains \in Nat

VARIABLES
    draining,  \* work.draining
    status,    \* what became of each piece of work
    cut,       \* work whose channel a drain's timeout closed
    idle,      \* work.idle: the drain that made the channel, or None
    woken,     \* drains whose idle channel is closed
    waiter,    \* the goroutine of each drain
    left,      \* its snapshot of what to close after the timeout
    found,     \* history: what was running when the drain began
    undrains,  \* undrain commands so far
    update,    \* where each update is
    fd,        \* the file an update's open descriptor refers to
    staged,    \* content of <exe>.new, or None
    exe        \* content of the agent's executable

drainVars == <<draining, status, cut, idle, woken, waiter, left, found, undrains>>
updateVars == <<update, fd, staged, exe>>
vars == <<drainVars, updateVars>>

\* A file is identified by the update whose bytes it holds, all of them or not.
Content == [from : Updates \cup {None}, whole : BOOLEAN]

ASSUME ContentAssumption == None \notin Content

TypeOK ==
    /\ draining \in BOOLEAN
    /\ status \in [Work -> {"new", "running", "ended", "refused"}]
    /\ cut \subseteq Work
    /\ idle \in Drains \cup {None}
    /\ woken \subseteq Drains
    /\ waiter \in [Drains -> {"none", "waiting", "closing", "done"}]
    /\ left \in [Drains -> SUBSET Work]
    /\ found \in [Drains -> SUBSET Work]
    /\ undrains \in 0..MaxUndrains
    /\ update \in [Updates -> {"none", "writing", "aborted", "staged", "draining",
                               "swapped", "failed"}]
    /\ fd \in [Updates -> {"none", "new", "exe"}]
    /\ staged \in Content \cup {None}
    /\ exe \in Content

\* work.active
Active == {w \in Work : status[w] = "running"}

Init ==
    /\ draining = FALSE
    /\ status = [w \in Work |-> "new"]
    /\ cut = {}
    /\ idle = None
    /\ woken = {}
    /\ waiter = [d \in Drains |-> "none"]
    /\ left = [d \in Drains |-> {}]
    /\ found = [d \in Drains |-> {}]
    /\ undrains = 0
    /\ update = [u \in Updates |-> "none"]
    /\ fd = [u \in Updates |-> "none"]
    /\ staged = None
    /\ exe = [from |-> None, whole |-> TRUE]

----------------------------------------------------------------------------
\* The work tracker.

\* begin: registers the work, or refuses it while draining.
Begin(w) ==
    /\ status[w] = "new"
    /\ status' = [status EXCEPT ![w] = IF draining THEN "refused" ELSE "running"]
    /\ UNCHANGED <<draining, cut, idle, woken, waiter, left, found, undrains, updateVars>>

\* The drain's idle channel is closed when the last running work ends.
LastOne(w) == draining /\ Active = {w} /\ idle # None

\* The function begin returned, run when the work is over: by itself, or
\* because its channel was closed.
End(w) ==
    /\ status[w] = "running"
    /\ status' = [status EXCEPT ![w] = "ended"]
    /\ IF LastOne(w)
       THEN woken' = woken \cup {idle} /\ idle' = None
       ELSE UNCHANGED <<woken, idle>>
    /\ UNCHANGED <<draining, cut, waiter, left, found, undrains, updateVars>>

\* drain, up to the return: with nothing running it is done at once, else a
\* goroutine waits on a channel of its own, which replaces any earlier one.
StartDrain(d) ==
    /\ waiter[d] = "none"
    /\ draining' = TRUE
    /\ found' = [found EXCEPT ![d] = Active]
    /\ IF Active = {}
       THEN waiter' = [waiter EXCEPT ![d] = "done"] /\ UNCHANGED idle
       ELSE waiter' = [waiter EXCEPT ![d] = "waiting"] /\ idle' = d
    /\ UNCHANGED <<status, cut, woken, left, undrains>>

\* The drain goroutine sees its idle channel closed.
Idle(d) ==
    /\ waiter[d] = "waiting"
    /\ d \in woken
    /\ waiter' = [waiter EXCEPT ![d] = "done"]
    /\ UNCHANGED <<draining, status, cut, idle, woken, left, found, undrains, updateVars>>

\* Its timer fires first: it takes what is running under the lock ...
Timeout(d) ==
    /\ waiter[d] = "waiting"
    /\ waiter' = [waiter EXCEPT ![d] = "closing"]
    /\ left' = [left EXCEPT ![d] = Active]
    /\ UNCHANGED <<draining, status, cut, idle, woken, found, undrains, updateVars>>

\* ... and closes it after.
CloseLeft(d) ==
    /\ waiter[d] = "closing"
    /\ waiter' = [waiter EXCEPT ![d] = "done"]
    /\ cut' = cut \cup left[d]
    /\ UNCHANGED <<draining, status, idle, woken, left, found, undrains, updateVars>>

\* undrain: accept new work again, forgetting the drain's channel.
EndDrain ==
    /\ draining' = FALSE
    /\ idle' = None

DrainCommand(d) == StartDrain(d) /\ UNCHANGED updateVars

UndrainCommand ==
    /\ undrains < MaxUndrains
    /\ undrains' = undrains + 1
    /\ EndDrain
    /\ UNCHANGED <<status, cut, woken, waiter, left, found, updateVars>>

----------------------------------------------------------------------------
\* Updates.

\* stageUpdate once the download's SHA-256 matched: <exe>.new is created or,
\* if another update left one there, truncated.
Stage(u) ==
    /\ update[u] = "none"
    /\ update' = [update EXCEPT ![u] = "writing"]
    /\ fd' = [fd EXCEPT ![u] = "new"]
    /\ staged' = [from |-> u, whole |-> FALSE]
    /\ UNCHANGED <<exe, drainVars>>

\* The write and sync end, on whatever name the file has by then.  A second
\* writer of the same file may leave the two downloads mixed.
Write(u) ==
    LET file == IF fd[u] = "exe" THEN exe ELSE staged
        whole == IF file # None /\ file.from = u THEN {TRUE} ELSE BOOLEAN
    IN
    /\ update[u] = "writing"
    /\ update' = [update EXCEPT ![u] = "staged"]
    /\ fd' = [fd EXCEPT ![u] = "none"]
    /\ \E ok \in whole : LET new == [from |-> u, whole |-> ok] IN
         \/ fd[u] = "new" /\ staged' = new /\ UNCHANGED exe
         \/ fd[u] = "exe" /\ exe' = new /\ UNCHANGED staged
         \/ fd[u] = "none" /\ UNCHANGED <<staged, exe>>
    /\ UNCHANGED drainVars

\* What has the staged file open when it is removed writes to no name.
Removed == [v \in Updates |-> IF fd[v] = "new" THEN "none" ELSE fd[v]]

\* The write or sync fails (a full disk): <exe>.new is removed, by its name,
\* and the command is refused before any drain.
WriteFails(u) ==
    /\ update[u] = "writing"
    /\ update' = [update EXCEPT ![u] = "aborted"]
    /\ staged' = None
    /\ fd' = [Removed EXCEPT ![u] = "none"]
    /\ UNCHANGED <<exe, drainVars>>

\* Mutant: the update does not wait for the drain.
DrainDone_NoWait(u) == TRUE

\* <-a.drain(drainTimeout): the drain of the update has closed its channel.
DrainDone(u) == waiter[u] = "done"

\* Mutant: the install is launched without waiting for the staging.
UpdateDrain_Early(u) ==
    /\ update[u] \in {"writing", "staged"}
    /\ update' = [update EXCEPT ![u] = "draining"]
    /\ StartDrain(u)
    /\ UNCHANGED <<fd, staged, exe>>

\* installUpdate starts by draining.
UpdateDrain(u) ==
    /\ update[u] = "staged"
    /\ update' = [update EXCEPT ![u] = "draining"]
    /\ StartDrain(u)
    /\ UNCHANGED <<fd, staged, exe>>

\* Drained: rename <exe>.new over the executable and restart.  Descriptors
\* still open on the file follow it.
Swap(u) ==
    /\ update[u] = "draining"
    /\ DrainDone(u)
    /\ staged # None
    /\ update' = [update EXCEPT ![u] = "swapped"]
    /\ exe' = staged
    /\ staged' = None
    /\ fd' = [v \in Updates |-> IF fd[v] = "new" THEN "exe" ELSE fd[v]]
    /\ UNCHANGED drainVars

\* The rename fails (the file is gone, or the filesystem refuses): remove
\* the staged file and take sessions again.
SwapFails(u) ==
    /\ update[u] = "draining"
    /\ DrainDone(u)
    /\ update' = [update EXCEPT ![u] = "failed"]
    /\ staged' = None
    /\ fd' = Removed
    /\ EndDrain
    /\ UNCHANGED <<exe, status, cut, woken, waiter, left, found, undrains>>

----------------------------------------------------------------------------

WorkStep == \E w \in Work : Begin(w) \/ End(w)

DrainStep(d) == Idle(d) \/ Timeout(d) \/ CloseLeft(d)

UpdateStep(u) == Stage(u) \/ Write(u) \/ WriteFails(u) \/ UpdateDrain(u) \/ Swap(u) \/ SwapFails(u)

Next ==
    \/ WorkStep
    \/ \E d \in DrainCmds : DrainCommand(d)
    \/ \E d \in Drains : DrainStep(d)
    \/ UndrainCommand
    \/ \E u \in Updates : UpdateStep(u)

Spec == Init /\ [][Next]_vars

----------------------------------------------------------------------------
\* Properties.

\* "let running ones finish": a drain that times out closes only work that
\* was running when it began, never a session taken since.
DrainCutsOnlyWhatItFound ==
    \A d \in Drains : left[d] \subseteq found[d]

\* Which holds while no undrain, and no failed update, ends the drain early.
UndisturbedDrainCutsFound ==
    (undrains = 0 /\ \A v \in Updates : update[v] # "failed")
        => DrainCutsOnlyWhatItFound

\* "a channel closed once running work has finished": the channel of the last
\* drain is never left waiting with nothing running.
IdleDrainIsWoken == idle # None => draining /\ Active # {}

\* Without an undrain, an update swaps the executable and restarts only when
\* every session has ended or had its channel closed by the drain.
SwapAfterWorkIsOver ==
    (undrains = 0 /\ \A v \in Updates : update[v] # "failed")
        => \A u \in Updates : update[u] = "swapped" => Active \subseteq cut

\* "checks its SHA-256 ... puts the new one in place and restarts": the
\* executable an update restarts into is the one that update verified, as
\* long as no other update shares its <exe>.new.
LoneUpdateIsVerified ==
    [][\A u \in Updates :
         (/\ update[u] = "draining" /\ update'[u] = "swapped"
          /\ \A v \in Updates \ {u} : update[v] = "none")
            => exe' = [from |-> u, whole |-> TRUE]]_vars

\* An operator's drain is orderly: undisturbed it cuts only what it found, its
\* waiters are woken, and an update restarts the agent after it and not before
\* (Agent.drain, installUpdate).
DrainIsOrderly ==
    TypeOK /\ UndisturbedDrainCutsFound /\ IdleDrainIsWoken /\ SwapAfterWorkIsOver
=============================================================================
