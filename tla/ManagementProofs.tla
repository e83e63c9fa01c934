-------------------------- MODULE ManagementProofs ---------------------------
(***************************************************************************)
(* Drains and updates of an agent, plugin settings, answers from a chat,   *)
(* notifications, the directory of machines and accounts, and the flags of *)
(* unusual sessions, proved for any number of each.                        *)
(***************************************************************************)
EXTENDS AgentWork, PluginConfig, ChatOps, Notifications, Directory, Anomalies, SequenceTheorems,
        FiniteSetTheorems, WellFoundedInduction, TLAPS

(**** Drains and updates ****)

\* While no drain is ended early, nothing begins after a drain: what runs was
\* found by it, and once it is done, cut or over.
Undisturbed == undrains = 0 /\ \A v \in Updates : update[v] # "failed"
DrainHolds(d) ==
    /\ waiter[d] # "none" \/ d \in woken => draining
    /\ waiter[d] # "none" => Active \subseteq found[d]
    /\ d \in woken => Active = {}
    /\ waiter[d] = "closing" => Active \subseteq left[d]
    /\ waiter[d] = "done" => Active \subseteq cut
    /\ left[d] \subseteq found[d]
    /\ waiter[d] = "none" => left[d] = {}
DrainsHold == Undisturbed => \A d \in Drains : DrainHolds(d)

\* An update swaps after its own drain.
SwappedIsDrained == \A u \in Updates : update[u] = "swapped" => waiter[u] = "done"

\* An update alone has <exe>.new to itself.
LoneStaged ==
    \A u \in Updates : (\A v \in Updates \ {u} : update[v] = "none") =>
        /\ update[u] = "writing" => fd[u] = "new" /\ staged = [from |-> u, whole |-> FALSE]
        /\ update[u] \in {"staged", "draining"} => staged = [from |-> u, whole |-> TRUE]

WorkInv == TypeOK /\ IdleDrainIsWoken /\ DrainsHold /\ SwappedIsDrained /\ LoneStaged

\* Every step keeps the invariant.
LEMMA WorkStepKeeps ==
    ASSUME WorkInv
    PROVE  [Next]_vars => WorkInv'
<1> USE WorkAssumption DEF WorkInv, drainVars, updateVars
<1>1. ASSUME NEW w \in Work, Begin(w)
      PROVE  WorkInv'
  BY <1>1 DEF Begin, TypeOK, IdleDrainIsWoken, DrainsHold, SwappedIsDrained, LoneStaged, Active,
     DrainHolds, Undisturbed
<1>2. ASSUME NEW w \in Work, End(w)
      PROVE  WorkInv'
  BY <1>2 DEF End, TypeOK, IdleDrainIsWoken, DrainsHold, SwappedIsDrained, LoneStaged, Active,
     DrainHolds, Undisturbed, LastOne
<1>3. ASSUME NEW d \in DrainCmds, DrainCommand(d)
      PROVE  WorkInv'
  BY <1>3 DEF DrainCommand, TypeOK, IdleDrainIsWoken, DrainsHold, SwappedIsDrained, LoneStaged,
     Active, DrainHolds, Undisturbed, StartDrain, Drains
<1>4. ASSUME NEW d \in Drains, Idle(d)
      PROVE  WorkInv'
  BY <1>4 DEF Idle, TypeOK, IdleDrainIsWoken, DrainsHold, SwappedIsDrained, LoneStaged, Active,
     DrainHolds, Undisturbed
<1>5. ASSUME NEW d \in Drains, Timeout(d)
      PROVE  WorkInv'
  BY <1>5 DEF Timeout, TypeOK, IdleDrainIsWoken, DrainsHold, SwappedIsDrained, LoneStaged, Active,
     DrainHolds, Undisturbed
<1>6. ASSUME NEW d \in Drains, CloseLeft(d)
      PROVE  WorkInv'
  BY <1>6 DEF CloseLeft, TypeOK, IdleDrainIsWoken, DrainsHold, SwappedIsDrained, LoneStaged, Active,
     DrainHolds, Undisturbed
<1>7. ASSUME UndrainCommand
      PROVE  WorkInv'
  <2> USE <1>7 DEF UndrainCommand
  <2>1. TypeOK'
    <3>1. draining' = FALSE /\ idle' = None
      BY DEF EndDrain
    <3>2. undrains' \in 0 .. MaxUndrains
      BY DEF TypeOK
    <3>3. draining' \in BOOLEAN
      BY <3>1
    <3>4. QED
      BY <3>1, <3>2, <3>3 DEF TypeOK
  <2>2. IdleDrainIsWoken'
    BY DEF IdleDrainIsWoken, TypeOK, Active, EndDrain
  <2>3. DrainsHold'
    BY DEF DrainsHold, TypeOK, IdleDrainIsWoken, DrainHolds, Undisturbed, Active, EndDrain
  <2>4. SwappedIsDrained'
    BY DEF SwappedIsDrained, TypeOK, EndDrain
  <2>5. LoneStaged'
    BY DEF LoneStaged, TypeOK, EndDrain
  <2>6. QED
    BY <2>1, <2>2, <2>3, <2>4, <2>5
<1>8. ASSUME NEW u \in Updates, Stage(u)
      PROVE  WorkInv'
  <2> USE <1>8 DEF Stage
  <2>1. TypeOK'
    BY DEF TypeOK, Content
  <2>2. IdleDrainIsWoken'
    BY DEF IdleDrainIsWoken, TypeOK, Active, Content
  <2>3. DrainsHold'
    BY DEF DrainsHold, TypeOK, IdleDrainIsWoken, DrainHolds, Undisturbed, Active, Content
  <2>4. SwappedIsDrained'
    BY DEF SwappedIsDrained, TypeOK, Content
  <2>5. LoneStaged'
    BY DEF LoneStaged, TypeOK, Content
  <2>6. QED
    BY <2>1, <2>2, <2>3, <2>4, <2>5
<1>9. ASSUME NEW u \in Updates, Write(u)
      PROVE  WorkInv'
  <2> USE <1>9 DEF Write
  <2>1. TypeOK'
    <3>1. PICK ok \in BOOLEAN :
            LET new == [from |-> u, whole |-> ok] IN
            \/ fd[u] = "new" /\ staged' = new /\ UNCHANGED exe
            \/ fd[u] = "exe" /\ exe' = new /\ UNCHANGED staged
            \/ fd[u] = "none" /\ UNCHANGED <<staged, exe>>
      OBVIOUS
    <3>2. [from |-> u, whole |-> ok] \in Content
      BY DEF Content
    <3>3. staged' \in Content \cup {None} /\ exe' \in Content
      BY <3>1, <3>2 DEF TypeOK
    <3>4. update' \in [Updates -> {"none", "writing", "aborted", "staged", "draining", "swapped", "failed"}]
          /\ fd' \in [Updates -> {"none", "new", "exe"}]
      BY DEF TypeOK
    <3>5. QED
      BY <3>3, <3>4 DEF TypeOK
  <2>2. IdleDrainIsWoken'
    BY DEF IdleDrainIsWoken, TypeOK, Active, Content
  <2>3. DrainsHold'
    BY DEF DrainsHold, TypeOK, IdleDrainIsWoken, DrainHolds, Undisturbed, Active, Content
  <2>4. SwappedIsDrained'
    BY DEF SwappedIsDrained, TypeOK, Content
  <2>5. LoneStaged'
    <3>1. ASSUME NEW v \in Updates, \A x \in Updates \ {v} : update'[x] = "none"
          PROVE  v = u /\ \A x \in Updates \ {u} : update[x] = "none"
      BY <3>1 DEF TypeOK
    <3>2. ASSUME \A x \in Updates \ {u} : update[x] = "none"
          PROVE  staged' = [from |-> u, whole |-> TRUE]
      <4>1. fd[u] = "new" /\ staged = [from |-> u, whole |-> FALSE]
        BY <3>2 DEF LoneStaged
      <4>2. staged.from = u /\ (IF fd[u] = "exe" THEN exe ELSE staged) = staged
        BY <4>1
      <4>3. [from |-> u, whole |-> FALSE] \in Content
        BY DEF Content
      <4>4. staged # None
        BY <4>1, <4>3, ContentAssumption
      <4>5. QED
        BY <4>1, <4>2, <4>4
    <3>3. update'[u] = "staged"
      BY DEF TypeOK
    <3>4. QED
      BY <3>1, <3>2, <3>3 DEF LoneStaged
  <2>6. QED
    BY <2>1, <2>2, <2>3, <2>4, <2>5
<1>10. ASSUME NEW u \in Updates, WriteFails(u)
      PROVE  WorkInv'
  BY <1>10 DEF WriteFails, TypeOK, IdleDrainIsWoken, DrainsHold, SwappedIsDrained, LoneStaged,
     Active, DrainHolds, Undisturbed, Removed
<1>11. ASSUME NEW u \in Updates, UpdateDrain(u)
      PROVE  WorkInv'
  BY <1>11 DEF UpdateDrain, TypeOK, IdleDrainIsWoken, DrainsHold, SwappedIsDrained, LoneStaged,
     Active, DrainHolds, Undisturbed, StartDrain, Drains
<1>12. ASSUME NEW u \in Updates, Swap(u)
      PROVE  WorkInv'
  BY <1>12 DEF Swap, TypeOK, IdleDrainIsWoken, DrainsHold, SwappedIsDrained, LoneStaged, Active,
     DrainHolds, Undisturbed, DrainDone, Drains
<1>13. ASSUME NEW u \in Updates, SwapFails(u)
      PROVE  WorkInv'
  BY <1>13 DEF SwapFails, TypeOK, IdleDrainIsWoken, DrainsHold, SwappedIsDrained, LoneStaged,
     Active, DrainHolds, Undisturbed, EndDrain, Removed
<1>14. UNCHANGED vars => WorkInv'
  BY DEF vars, TypeOK, IdleDrainIsWoken, DrainsHold, SwappedIsDrained, LoneStaged, Active,
     DrainHolds, Undisturbed
<1>15. QED
  BY <1>1, <1>2, <1>3, <1>4, <1>5, <1>6, <1>7, <1>8, <1>9, <1>10, <1>11, <1>12, <1>13,
     <1>14 DEF Next, WorkStep, DrainStep, UpdateStep
\* The invariant holds of every drain and update.
THEOREM WorkInvariant == Spec => []WorkInv
<1>1. Init => WorkInv
  <2> SUFFICES ASSUME Init PROVE WorkInv
    OBVIOUS
  <2> USE WorkAssumption DEF Init
  <2>1. exe \in Content /\ draining \in BOOLEAN
    BY DEF Content
  <2>2. TypeOK
    BY <2>1 DEF TypeOK
  <2>3. IdleDrainIsWoken /\ SwappedIsDrained /\ LoneStaged
    BY DEF IdleDrainIsWoken, SwappedIsDrained, LoneStaged
  <2>4. DrainsHold
    BY DEF DrainsHold, DrainHolds, Active
  <2>5. QED
    BY <2>2, <2>3, <2>4 DEF WorkInv
<1>2. QED
  BY <1>1, WorkStepKeeps, PTL DEF Spec

\* DrainIsOrderly: for any work, drains and updates that overlap
\* (manage.go:31-118, 213-263).
THEOREM DrainsAreOrderly == Spec => []DrainIsOrderly
<1>1. WorkInv => DrainIsOrderly
  BY DEF WorkInv, DrainIsOrderly, UndisturbedDrainCutsFound, DrainCutsOnlyWhatItFound,
     SwapAfterWorkIsOver,
     DrainsHold, DrainHolds, Undisturbed, SwappedIsDrained, Drains
<1>2. QED
  BY <1>1, WorkInvariant, PTL

\* LoneUpdateIsVerified: an update that has <exe>.new to itself restarts into
\* the bytes it verified (manage.go:188-263).
THEOREM LoneUpdatesAreVerified == Spec => LoneUpdateIsVerified
<1>1. ASSUME WorkInv, [Next]_vars
      PROVE  [\A u \in Updates : (/\ update[u] = "draining" /\ update'[u] = "swapped"
                                  /\ \A v \in Updates \ {u} : update[v] = "none")
                                    => exe' = [from |-> u, whole |-> TRUE]]_vars
  <2> SUFFICES ASSUME Next, NEW u \in Updates, update[u] = "draining", update'[u] = "swapped",
                      \A v \in Updates \ {u} : update[v] = "none"
               PROVE  exe' = [from |-> u, whole |-> TRUE]
    BY <1>1
  <2>1. staged = [from |-> u, whole |-> TRUE]
    BY <1>1 DEF WorkInv, LoneStaged
  <2>2. \A v \in Updates : Swap(v) => v = u
    BY DEF Swap
  <2>3. \/ Swap(u)
        \/ \E v \in Updates : Stage(v) \/ Write(v) \/ WriteFails(v) \/ UpdateDrain(v) \/ SwapFails(v)
        \/ UNCHANGED update
    BY <2>2 DEF Next, WorkStep, DrainStep, UpdateStep, Begin, End, DrainCommand, Idle, Timeout,
       CloseLeft, UndrainCommand, updateVars
  <2>4. ASSUME NEW v \in Updates,
          Stage(v) \/ Write(v) \/ WriteFails(v) \/ UpdateDrain(v) \/ SwapFails(v)
        PROVE  FALSE
    <3>1. update \in [Updates -> {"none", "writing", "aborted", "staged", "draining", "swapped", "failed"}]
      BY <1>1 DEF WorkInv, TypeOK
    <3>2. QED
      BY <2>4, <3>1 DEF Stage, Write, WriteFails, UpdateDrain, SwapFails
  <2>5. Swap(u)
    BY <2>3, <2>4
  <2>6. QED
    BY <2>1, <2>5 DEF Swap
<1>2. QED
  BY <1>1, WorkInvariant, PTL DEF Spec, LoneUpdateIsVerified

(**** Plugin settings ****)

\* Nothing went wrong so far: then at most one call is in flight.
Calm == ~troubled /\ ~mixed

\* The record, the row and the plugin's credential agree; without a row the
\* record is empty.
RowIsRecord(st, m) == st.cfg = m.cfg /\ (~st.stored => st.cfg = EmptyConfig)
LiveIsRecord(m, l) == m.configured /\ m.cfg.key # NoKey => l.key = m.cfg.key

\* Where a call is in writing them one after another.
CallIsAlong(x, st, m, l) ==
    /\ x.at \in {"get", "put", "configure"} => RowIsRecord(st, m) /\ LiveIsRecord(m, l)
    /\ x.at = "put" => x.cfg = st.cfg
    /\ x.at \in {"get", "put"} => x.enabled = m.enabled
    /\ x.at = "record" => (x.ok /\ x.cfg.key # NoKey => l.key = x.cfg.key)
    /\ x.at \in {"enable", "store"} => m.cfg = x.cfg /\ LiveIsRecord(m, l)
    /\ x.at = "store" => x.enabled = m.enabled

Agreement ==
    Calm => /\ \A a, b \in Admins : InFlight(a) /\ InFlight(b) => a = b
            /\ \A a \in Admins : CallIsAlong(edit[a], setting, mgr, live)
            /\ (\A a \in Admins : ~InFlight(a)) =>
                  /\ RowIsRecord(setting, mgr) /\ LiveIsRecord(mgr, live)
                  /\ setting.stored => setting.enabled = mgr.enabled

\* No mask is stored, in use, or being written.
NoMaskAbout ==
    Calm /\ ~outdated =>
        /\ ~IsMask(setting.cfg.key) /\ ~IsMask(live.key)
        /\ \A a \in Admins : InFlight(a) => ~IsMask(edit[a].cfg.key)

SettingsInv == SettingsTypeOK /\ Agreement /\ NoMaskAbout

\* Masked values are values; what is typed, and no value at all, is no mask.
LEMMA ValueFacts ==
    /\ NoKey \in Values /\ Stars \in Values /\ ~IsMask(NoKey) /\ MaskSecretValue(NoKey) = NoKey
    /\ \A s \in Secrets : <<s, 0>> \in Values /\ ~IsMask(<<s, 0>>)
    /\ \A v \in Values : MaskSecretValue(v) \in Values
<1>1. NoKey \in Values /\ Stars \in Values /\ ~IsMask(NoKey) /\ MaskSecretValue(NoKey) = NoKey
  BY SettingAssumption DEF Values, IsMask, MaskSecretValue
<1>2. ASSUME NEW s \in Secrets PROVE <<s, 0>> \in Values /\ ~IsMask(<<s, 0>>)
  BY SettingAssumption DEF Values, IsMask
<1>3. ASSUME NEW v \in Values PROVE MaskSecretValue(v) \in Values
  <2>1. CASE v \in {NoKey, Stars}
    BY <1>1, <2>1 DEF MaskSecretValue
  <2>2. CASE v \notin {NoKey, Stars}
    <3>1. PICK s \in Secrets, d \in 0 .. 2 : v = <<s, d>>
      BY <2>2 DEF Values
    <3>2. v[1] = s /\ v[2] = d
      BY <3>1
    <3>3. CASE s \in Short \/ d = 2
      BY <1>1, <2>2, <3>2, <3>3 DEF MaskSecretValue
    <3>4. CASE ~(s \in Short \/ d = 2)
      <4>1. MaskSecretValue(v) = <<s, d + 1>> /\ d + 1 \in 0 .. 2
        BY <2>2, <3>2, <3>4 DEF MaskSecretValue
      <4>2. <<s, d + 1>> \in Values
        BY <4>1 DEF Values
      <4>3. QED
        BY <4>1, <4>2
    <3>5. QED
      BY <3>3, <3>4
  <2>3. QED
    BY <2>1, <2>2
<1>4. QED
  BY <1>1, <1>2, <1>3

\* A page shows a config; a config submitted as shown is the stored one, no
\* mask, and one submitted otherwise is kept as it is.
LEMMA ConfigFacts ==
    ASSUME NEW new \in Configs, NEW old \in Configs
    PROVE  /\ redactConfig(old) \in Configs /\ ReconcileConfig(new, old) \in Configs
           /\ ReconcileConfig(new, old).key \in {new.key, old.key}
           /\ new.key = redactConfig(old).key /\ ~IsMask(old.key)
              => ~IsMask(ReconcileConfig(new, old).key)
<1>1. new.key \in Values /\ old.key \in Values /\ MaskSecretValue(old.key) \in Values
  BY ValueFacts DEF Configs
<1> DEFINE x == MaskSecretValue(old.key)
           y == [old EXCEPT !.key = x]
           z == [new EXCEPT !.key = old.key]
<1>2. redactConfig(old) = IF kind = "audit" THEN old ELSE y
  BY DEF redactConfig
<1>3. ReconcileConfig(new, old) = IF kind # "audit" /\ old.key # NoKey /\ new.key = x THEN z ELSE new
  BY DEF ReconcileConfig
<1>4. old.key = NoKey => x = NoKey
  BY ValueFacts
<1> HIDE DEF x
<1>5. y \in Configs /\ y.key = x /\ z \in Configs /\ z.key = old.key
  BY <1>1 DEF Configs, x
<1> HIDE DEF y, z
<1>6. redactConfig(old) \in Configs /\ ReconcileConfig(new, old) \in Configs
      /\ ReconcileConfig(new, old).key \in {new.key, old.key}
  BY <1>2, <1>3, <1>5
<1>7. ASSUME new.key = redactConfig(old).key, ~IsMask(old.key)
      PROVE  ~IsMask(ReconcileConfig(new, old).key)
  BY <1>2, <1>3, <1>4, <1>5, <1>7
<1>8. QED
  BY <1>6, <1>7

\* A plugin that accepts a config works with its credential; it never has
\* another than the one it had or is given.
LEMMA InitializeFacts ==
    ASSUME kind \in Kinds, NEW now \in Configs, NEW cfg \in Configs, NEW r \in Initialize(now, cfg)
    PROVE  /\ r.ok \in BOOLEAN /\ r.live \in Configs /\ r.live.key \in {now.key, cfg.key}
           /\ r.ok /\ cfg.key # NoKey => r.live.key = cfg.key
<1>1. /\ Kept(now).ok = FALSE /\ Kept(now).live = now
      /\ Took(cfg).ok = TRUE /\ Took(cfg).live = cfg
  BY DEF Kept, Took
<1>2. CASE kind # "email"
  <2>1. r = Kept(now) \/ r = Took(cfg)
    BY <1>2 DEF Initialize, InitAudit, InitSlack, InitWebhook, InitChatops, Kinds
  <2>2. QED
    BY <1>1, <2>1
<1>3. CASE kind = "email"
  <2>1. r \in InitEmail(now, cfg)
    BY <1>3 DEF Initialize
  <2> DEFINE k == IF cfg.key = NoKey THEN now.key ELSE cfg.key
             t == now.to \cup cfg.to
             l == [key |-> k, to |-> t]
             e == [ok |-> t # {}, live |-> l]
  <2>2. r = Kept(now) \/ r = e
    BY <2>1 DEF InitEmail
  <2>3. k \in Values /\ k \in {now.key, cfg.key} /\ t \in SUBSET Addresses
    BY DEF Configs
  <2>4. l \in Configs /\ l.key = k
    BY <2>3 DEF Configs
  <2>5. e.ok \in BOOLEAN /\ e.live = l
    OBVIOUS
  <2>6. cfg.key # NoKey => k = cfg.key
    OBVIOUS
  <2> HIDE DEF k, t, l, e
  <2>7. QED
    BY <1>1, <2>2, <2>3, <2>4, <2>5, <2>6
<1>4. QED
  BY <1>2, <1>3

\* In calm, a call in flight is alone.
LEMMA CallAlone ==
    ASSUME SettingsInv, Calm, NEW a \in Admins, InFlight(a)
    PROVE  /\ \A b \in Admins : b # a => ~InFlight(b)
           /\ CallIsAlong(edit[a], setting, mgr, live)
  BY DEF SettingsInv, Agreement

\* One call moves.
LEMMA EditMoves ==
    ASSUME SettingsInv, NEW a \in Admins, NEW y \in Edits, edit' = [edit EXCEPT ![a] = y],
           UNCHANGED <<kind, seed>>, setting' \in Rows, live' \in Configs,
           mgr' \in [enabled : BOOLEAN, configured : BOOLEAN, cfg : Configs],
           troubled' \in BOOLEAN, mixed' \in BOOLEAN, outdated' \in BOOLEAN,
           troubled => troubled', mixed => mixed', outdated => outdated',
           Calm' =>
             /\ y.at \notin {"idle", "page"} \/ ~UNCHANGED <<setting, mgr, live>>
                  => \A b \in Admins : b # a => ~InFlight(b)
             /\ CallIsAlong(y, setting', mgr', live')
             /\ y.at \in {"idle", "page"} /\ (\A b \in Admins : b # a => ~InFlight(b)) =>
                  /\ RowIsRecord(setting', mgr') /\ LiveIsRecord(mgr', live')
                  /\ setting'.stored => setting'.enabled = mgr'.enabled
             /\ ~outdated' => /\ ~IsMask(setting'.cfg.key) /\ ~IsMask(live'.key)
                              /\ y.at \notin {"idle", "page"} => ~IsMask(y.cfg.key)
    PROVE  SettingsInv'
<1>1. edit' \in [Admins -> Edits] /\ edit'[a] = y /\ \A b \in Admins : b # a => edit'[b] = edit[b]
  BY DEF SettingsInv, SettingsTypeOK
<1>2. SettingsTypeOK'
  BY <1>1 DEF SettingsInv, SettingsTypeOK
<1>3. Calm' => Calm
  BY DEF Calm
<1>4. InFlight(a)' <=> y.at \notin {"idle", "page"}
  BY <1>1 DEF InFlight
<1>5. \A b \in Admins : b # a => (InFlight(b)' <=> InFlight(b))
  BY <1>1 DEF InFlight
<1>6. ASSUME Calm' PROVE \A b, c \in Admins : InFlight(b)' /\ InFlight(c)' => b = c
  <2>1. \A b, c \in Admins : InFlight(b) /\ InFlight(c) => b = c
    BY <1>3, <1>6 DEF SettingsInv, Agreement
  <2>2. InFlight(a)' => \A b \in Admins : b # a => ~InFlight(b)
    BY <1>4, <1>6
  <2>3. QED
    BY <1>5, <2>1, <2>2
<1>7. ASSUME Calm', NEW b \in Admins PROVE CallIsAlong(edit'[b], setting', mgr', live')
  <2>1. CASE b = a
    BY <1>1, <1>7, <2>1
  <2>2. CASE b # a /\ InFlight(b)
    <3>1. setting' = setting /\ mgr' = mgr /\ live' = live
      BY <1>7, <2>2
    <3>2. CallIsAlong(edit[b], setting, mgr, live)
      BY <1>3, <1>7 DEF SettingsInv, Agreement
    <3>3. QED
      BY <1>1, <2>2, <3>1, <3>2
  <2>3. CASE b # a /\ ~InFlight(b)
    BY <1>1, <2>3 DEF InFlight, CallIsAlong
  <2>4. QED
    BY <2>1, <2>2, <2>3
<1>8. ASSUME Calm', \A b \in Admins : ~InFlight(b)'
      PROVE  /\ RowIsRecord(setting', mgr') /\ LiveIsRecord(mgr', live')
             /\ setting'.stored => setting'.enabled = mgr'.enabled
  BY <1>4, <1>5, <1>8
<1>9. Agreement'
  BY <1>6, <1>7, <1>8 DEF Agreement
<1>10. ASSUME Calm', ~outdated', NEW b \in Admins, InFlight(b)' PROVE ~IsMask(edit'[b].cfg.key)
  <2>1. CASE b = a
    BY <1>1, <1>4, <1>10, <2>1
  <2>2. CASE b # a
    BY <1>1, <1>3, <1>5, <1>10, <2>2 DEF SettingsInv, NoMaskAbout
  <2>3. QED
    BY <2>1, <2>2
<1>11. NoMaskAbout'
  BY <1>10 DEF NoMaskAbout
<1>12. QED
  BY <1>2, <1>9, <1>11 DEF SettingsInv

\* What is known of the state before a step.
LEMMA SettingFacts ==
    ASSUME SettingsInv
    PROVE  /\ kind \in Kinds /\ seed \in Seeds /\ setting \in Rows /\ setting.cfg \in Configs
           /\ mgr \in [enabled : BOOLEAN, configured : BOOLEAN, cfg : Configs]
           /\ mgr.cfg \in Configs /\ mgr.enabled \in BOOLEAN
           /\ live \in Configs /\ edit \in [Admins -> Edits]
           /\ \A a \in Admins : edit[a] \in Edits /\ edit[a].cfg \in Configs
                                /\ edit[a].enabled \in BOOLEAN /\ edit[a].ok \in BOOLEAN
           /\ troubled \in BOOLEAN /\ mixed \in BOOLEAN /\ outdated \in BOOLEAN
           /\ EmptyConfig \in Configs /\ EmptyConfig.key = NoKey
           /\ NoChange \in Edits /\ NoChange.at = "idle" /\ NoChange.cfg = EmptyConfig
<1>1. EmptyConfig \in Configs /\ EmptyConfig.key = NoKey
  BY ValueFacts DEF EmptyConfig, Configs
<1>2. NoChange \in Edits /\ NoChange.at = "idle" /\ NoChange.cfg = EmptyConfig
  BY <1>1 DEF NoChange, Edits
<1>3. edit \in [Admins -> Edits] /\ setting \in Rows
      /\ mgr \in [enabled : BOOLEAN, configured : BOOLEAN, cfg : Configs]
  BY DEF SettingsInv, SettingsTypeOK
<1>4. \A a \in Admins : edit[a] \in Edits /\ edit[a].cfg \in Configs
                        /\ edit[a].enabled \in BOOLEAN /\ edit[a].ok \in BOOLEAN
  BY <1>3 DEF Edits
<1>5. setting.cfg \in Configs /\ mgr.cfg \in Configs /\ mgr.enabled \in BOOLEAN
  BY <1>3 DEF Rows
<1>6. QED
  BY <1>1, <1>2, <1>3, <1>4, <1>5 DEF SettingsInv, SettingsTypeOK

\* In calm and with no call in flight, everything agrees.
LEMMA CalmAgrees ==
    ASSUME SettingsInv, Calm, \A a \in Admins : ~InFlight(a)
    PROVE  /\ RowIsRecord(setting, mgr) /\ LiveIsRecord(mgr, live)
           /\ setting.stored => setting.enabled = mgr.enabled
  BY DEF SettingsInv, Agreement

\* In calm, while every page submitted was fresh, nothing is a mask.
LEMMA CalmUnmasked ==
    ASSUME SettingsInv, Calm, ~outdated
    PROVE  /\ ~IsMask(setting.cfg.key) /\ ~IsMask(live.key)
           /\ \A a \in Admins : InFlight(a) => ~IsMask(edit[a].cfg.key)
  BY DEF SettingsInv, NoMaskAbout

\* A call that has begun in calm is alone, and found everything in agreement.
LEMMA EditBegins ==
    ASSUME SettingsInv, NEW a \in Admins, ~InFlight(a), BeginEdit(a)
    PROVE  /\ mixed' \in BOOLEAN /\ (mixed => mixed')
           /\ ~troubled /\ ~mixed' => /\ \A b \in Admins : ~InFlight(b)
                                      /\ Calm /\ RowIsRecord(setting, mgr)
                                      /\ LiveIsRecord(mgr, live)
<1>1. mixed' = (mixed \/ \E b \in Admins \ {a} : InFlight(b)) /\ mixed \in BOOLEAN
  BY SettingFacts DEF BeginEdit
<1>2. ASSUME ~troubled, ~mixed'
      PROVE  /\ \A b \in Admins : ~InFlight(b)
             /\ Calm /\ RowIsRecord(setting, mgr) /\ LiveIsRecord(mgr, live)
  <2>1. Calm /\ \A b \in Admins : ~InFlight(b)
    BY <1>1, <1>2 DEF Calm
  <2>2. QED
    BY <2>1, CalmAgrees
<1>3. QED
  BY <1>1, <1>2

\* What the seed writes when there is no row: one row, or none.
LEMMA SeedFacts ==
    ASSUME seed \in Seeds
    PROVE  /\ SeedRows \subseteq Rows
           /\ \A r, q \in SeedRows : r = q
           /\ \A r \in SeedRows : r.stored = TRUE /\ ~IsMask(r.cfg.key) /\ r.cfg \in Configs
                                  /\ r.enabled = TRUE
<1>1. CASE seed = {}
  BY <1>1 DEF SeedRows
<1>2. CASE seed # {}
  <2>1. PICK s \in Secrets \ Short : seed = {[key |-> <<s, 0>>, to |-> Addresses]}
    BY <1>2 DEF Seeds
  <2> DEFINE k == <<s, 0>>
             c == [key |-> k, to |-> Addresses]
             r == [stored |-> TRUE, enabled |-> TRUE, cfg |-> c]
  <2>2. k \in Values /\ ~IsMask(k)
    BY ValueFacts
  <2>3. SeedRows = {r}
    BY <2>1 DEF SeedRows
  <2> HIDE DEF k
  <2>4. c \in Configs /\ c.key = k
    BY <2>2 DEF Configs
  <2> HIDE DEF c
  <2>5. r \in Rows /\ r.stored = TRUE /\ r.cfg = c /\ r.enabled = TRUE
    BY <2>4 DEF Rows
  <2> HIDE DEF r
  <2>6. QED
    BY <2>2, <2>3, <2>4, <2>5
<1>3. QED
  BY <1>1, <1>2

\* A restart that lists the settings and interrupts no call ends in agreement.
LEMMA RestartAgrees ==
    ASSUME SettingsInv, restart
    PROVE  SettingsInv'
<1>1. PICK listed \in BOOLEAN, wrote \in BOOLEAN :
        LET listedRows == IF listed /\ setting.stored THEN {setting} ELSE {}
            seeds == IF listedRows = {} /\ wrote THEN SeedRows ELSE {}
        IN /\ Loaded(listedRows \cup seeds)
           /\ setting' = IF seeds = {} THEN setting ELSE CHOOSE s \in seeds : TRUE
           /\ troubled' = (troubled \/ ~listed \/ ~wrote \/ \E a \in Admins : InFlight(a))
  BY DEF restart
<1> DEFINE listedRows == IF listed /\ setting.stored THEN {setting} ELSE {}
           seeds == IF listedRows = {} /\ wrote THEN SeedRows ELSE {}
           all == listedRows \cup seeds
<1>2. /\ edit' = [a \in Admins |-> NoChange] /\ UNCHANGED <<kind, seed, mixed, outdated>>
      /\ Loaded(all)
      /\ setting' = IF seeds = {} THEN setting ELSE CHOOSE s \in seeds : TRUE
      /\ troubled' = (troubled \/ ~listed \/ ~wrote \/ \E a \in Admins : InFlight(a))
  BY <1>1 DEF restart
<1>3. \A a \in Admins : edit'[a] = NoChange
  BY <1>2
<1>4. edit' \in [Admins -> Edits]
  BY <1>2, SettingFacts
<1>5. all \subseteq Rows /\ \A one \in all : one.cfg \in Configs /\ one.enabled \in BOOLEAN
  BY SettingFacts, SeedFacts DEF Rows
<1>6. setting' \in Rows /\ (seeds # {} => setting' \in seeds)
  BY <1>2, SettingFacts, SeedFacts
<1>7. /\ troubled' \in BOOLEAN
      /\ ~troubled' => ~troubled /\ listed /\ wrote /\ \A a \in Admins : ~InFlight(a)
  BY <1>2, SettingFacts
<1>8. CASE all = {}
  <2>1. live' = EmptyConfig /\ mgr' = [enabled |-> TRUE, configured |-> FALSE, cfg |-> EmptyConfig]
    BY <1>2, <1>8 DEF Loaded
  <2>2. mgr' \in [enabled : BOOLEAN, configured : BOOLEAN, cfg : Configs] /\ live' \in Configs
        /\ mgr'.configured = FALSE /\ mgr'.cfg = EmptyConfig
    BY <2>1, SettingFacts
  <2>3. ASSUME Calm'
        PROVE  ~setting'.stored /\ setting' = setting /\ setting.cfg = EmptyConfig
    <3>1. Calm /\ listed /\ wrote /\ \A a \in Admins : ~InFlight(a)
      BY <1>2, <1>7, <2>3 DEF Calm
    <3>2. ~setting.stored /\ setting' = setting
      BY <1>2, <1>8, <3>1
    <3>3. QED
      BY <3>1, <3>2, CalmAgrees DEF RowIsRecord
  <2>4. QED
    BY <1>2, <1>3, <1>4, <1>6, <1>7, <2>1, <2>2, <2>3, SettingFacts, ValueFacts
       DEF SettingsInv, SettingsTypeOK, Agreement, NoMaskAbout, InFlight, CallIsAlong, RowIsRecord,
           LiveIsRecord
<1>9. CASE all # {}
  <2>1. PICK one \in all : \E r \in Initialize(EmptyConfig, one.cfg) :
           live' = r.live /\ mgr' = [enabled |-> one.enabled, configured |-> r.ok, cfg |-> one.cfg]
    BY <1>2, <1>9 DEF Loaded
  <2>2. PICK r \in Initialize(EmptyConfig, one.cfg) :
           live' = r.live /\ mgr' = [enabled |-> one.enabled, configured |-> r.ok, cfg |-> one.cfg]
    BY <2>1
  <2>3. /\ r.ok \in BOOLEAN /\ r.live \in Configs /\ r.live.key \in {NoKey, one.cfg.key}
        /\ r.ok /\ one.cfg.key # NoKey => r.live.key = one.cfg.key
    BY <1>5, SettingFacts, InitializeFacts
  <2>4. mgr' \in [enabled : BOOLEAN, configured : BOOLEAN, cfg : Configs]
        /\ mgr'.enabled = one.enabled /\ mgr'.configured = r.ok /\ mgr'.cfg = one.cfg
    BY <1>5, <2>2, <2>3
  <2>5. ASSUME Calm'
        PROVE  setting' = one /\ setting'.stored = TRUE /\ (~outdated => ~IsMask(one.cfg.key))
    <3>1. Calm /\ listed /\ wrote
      BY <1>2, <1>7, <2>5 DEF Calm
    <3>2. CASE setting.stored
      <4>1. listedRows = {setting} /\ seeds = {}
        BY <3>1, <3>2
      <4>2. setting' = setting /\ one = setting
        BY <1>2, <2>1, <4>1
      <4>3. setting.stored = TRUE
        BY <3>2, SettingFacts DEF Rows
      <4>4. QED
        BY <3>1, <4>2, <4>3, CalmUnmasked
    <3>3. CASE ~setting.stored
      <4>1. listedRows = {} /\ seeds = SeedRows
        BY <3>1, <3>3
      <4>2. one \in SeedRows /\ setting' \in SeedRows
        BY <1>6, <2>1, <4>1
      <4>3. QED
        BY <4>2, SeedFacts, SettingFacts
    <3>4. QED
      BY <3>2, <3>3
  <2>6. LiveIsRecord(mgr', live')
    BY <2>2, <2>3, <2>4 DEF LiveIsRecord
  <2>7. SettingsTypeOK'
    BY <1>2, <1>4, <1>6, <1>7, <2>2, <2>3, <2>4, SettingFacts DEF SettingsTypeOK
  <2>8. \A a \in Admins : ~InFlight(a)' /\ CallIsAlong(edit'[a], setting', mgr', live')
    BY <1>3, SettingFacts DEF InFlight, CallIsAlong
  <2>9. Calm' => RowIsRecord(setting', mgr') /\ setting'.enabled = mgr'.enabled
    BY <2>4, <2>5 DEF RowIsRecord
  <2>10. Agreement'
    BY <2>6, <2>8, <2>9 DEF Agreement
  <2>11. Calm' /\ ~outdated' => ~IsMask(setting'.cfg.key) /\ ~IsMask(live'.key)
    BY <1>2, <2>2, <2>3, <2>5, ValueFacts
  <2>12. NoMaskAbout'
    BY <2>8, <2>11 DEF NoMaskAbout
  <2>13. QED
    BY <2>7, <2>10, <2>12 DEF SettingsInv
<1>10. QED
  BY <1>8, <1>9

\* Every step keeps the settings in agreement.
LEMMA SettingsStep ==
    ASSUME SettingsInv, [SettingsNext]_settingVars
    PROVE  SettingsInv'
<1>1. ASSUME NEW a \in Admins, listPlugins(a) PROVE SettingsInv'
  <2> DEFINE y == [at |-> "page", enabled |-> mgr.enabled, cfg |-> redactConfig(mgr.cfg), ok |-> FALSE]
  <2>1. edit' = [edit EXCEPT ![a] = y] /\ ~InFlight(a)
        /\ UNCHANGED <<kind, seed, setting, mgr, live, troubled, mixed, outdated>>
    BY <1>1 DEF listPlugins, InFlight
  <2>2. redactConfig(mgr.cfg) \in Configs
    BY SettingFacts, ConfigFacts
  <2>3. y \in Edits /\ y.at = "page"
    BY <2>2, SettingFacts DEF Edits
  <2> HIDE DEF y
  <2>4. CallIsAlong(y, setting, mgr, live)
    BY <2>3 DEF CallIsAlong
  <2>5. Calm' => Calm
    BY <2>1 DEF Calm
  <2>6. QED
    BY <2>1, <2>3, <2>4, <2>5, SettingFacts, CalmAgrees, CalmUnmasked, EditMoves
<1>2. ASSUME NEW a \in Admins, updatePluginConfig(a) PROVE SettingsInv'
  <2>1. /\ edit[a].at = "page" /\ BeginEdit(a) /\ ~InFlight(a)
        /\ outdated' = (outdated \/ edit[a].cfg # redactConfig(mgr.cfg))
        /\ UNCHANGED <<kind, seed, setting, mgr, live>>
    BY <1>2 DEF updatePluginConfig, InFlight
  <2>2. PICK key \in {edit[a].cfg.key} \cup {<<s, 0>> : s \in Secrets}, to \in SUBSET Addresses,
             on \in BOOLEAN : Submit(a, [key |-> key, to |-> to], on)
    BY <1>2 DEF updatePluginConfig
  <2> DEFINE new == [key |-> key, to |-> to]
  <2>3. key \in Values
    BY <2>2, SettingFacts, ValueFacts DEF Configs
  <2>4. new \in Configs /\ new.key = key
    BY <2>3 DEF Configs
  <2>5. PICK readable \in BOOLEAN :
          /\ edit' = [edit EXCEPT ![a] = [at |-> "configure", enabled |-> on, ok |-> FALSE,
                cfg |-> IF readable /\ setting.stored THEN ReconcileConfig(new, setting.cfg) ELSE new]]
          /\ troubled' = (troubled \/ ~readable)
    BY <2>2 DEF Submit
  <2> HIDE DEF new
  <2> DEFINE cfg == IF readable /\ setting.stored THEN ReconcileConfig(new, setting.cfg) ELSE new
             y == [at |-> "configure", enabled |-> on, ok |-> FALSE, cfg |-> cfg]
  <2>6. cfg \in Configs
    BY <2>4, SettingFacts, ConfigFacts
  <2>7. edit' = [edit EXCEPT ![a] = y]
    BY <2>5
  <2>8. ASSUME Calm', ~outdated' PROVE ~IsMask(cfg.key)
    <3>1. ~troubled /\ readable /\ ~mixed' /\ edit[a].cfg = redactConfig(mgr.cfg) /\ ~outdated
      BY <2>1, <2>5, <2>8 DEF Calm
    <3>2. setting.cfg = mgr.cfg /\ (~setting.stored => setting.cfg = EmptyConfig) /\ Calm
      BY <2>1, <3>1, EditBegins DEF RowIsRecord
    <3>3. ~IsMask(setting.cfg.key)
      BY <3>1, <3>2, CalmUnmasked
    <3>4. CASE key \in {<<s, 0>> : s \in Secrets}
      <4>1. ~IsMask(key)
        BY <3>4, ValueFacts
      <4>2. cfg.key \in {key, setting.cfg.key}
        BY <2>4, SettingFacts, ConfigFacts
      <4>3. QED
        BY <3>3, <4>1, <4>2
    <3>5. CASE key = redactConfig(setting.cfg).key
      <4>1. CASE setting.stored
        BY <2>4, <3>1, <3>3, <3>5, <4>1, SettingFacts, ConfigFacts
      <4>2. CASE ~setting.stored
        <5>1. setting.cfg.key = NoKey
          BY <3>2, <4>2, SettingFacts
        <5>2. redactConfig(setting.cfg).key = NoKey
          BY <5>1, SettingFacts, ValueFacts DEF redactConfig, Configs
        <5>3. QED
          BY <2>4, <3>5, <4>2, <5>2, ValueFacts
      <4>3. QED
        BY <4>1, <4>2
    <3>6. QED
      BY <2>2, <3>1, <3>2, <3>4, <3>5
  <2> HIDE DEF cfg
  <2>9. y \in Edits /\ y.at = "configure" /\ y.cfg = cfg
    BY <2>6 DEF Edits
  <2> HIDE DEF y
  <2>10. /\ troubled' \in BOOLEAN /\ outdated' \in BOOLEAN
         /\ (troubled => troubled') /\ (outdated => outdated')
    BY <2>1, <2>5, SettingFacts
  <2>11. Calm' => ~troubled /\ ~mixed'
    BY <2>10 DEF Calm
  <2>12. Calm' => CallIsAlong(y, setting, mgr, live)
    BY <2>1, <2>9, <2>11, EditBegins DEF CallIsAlong
  <2>13. Calm' /\ ~outdated' => ~IsMask(setting.cfg.key) /\ ~IsMask(live.key)
    BY <2>1, <2>10, <2>11, EditBegins, CalmUnmasked
  <2>14. QED
    BY <2>1, <2>7, <2>8, <2>9, <2>10, <2>11, <2>12, <2>13, SettingFacts, EditBegins, EditMoves
<1>3. ASSUME NEW a \in Admins, configure(a) PROVE SettingsInv'
  <2>1. /\ edit[a].at = "configure" /\ InFlight(a)
        /\ UNCHANGED <<kind, seed, setting, mgr, troubled, mixed, outdated>>
    BY <1>3 DEF configure, InFlight
  <2>2. PICK r \in Initialize(live, edit[a].cfg) :
          live' = r.live /\ edit' = [edit EXCEPT ![a].at = "record", ![a].ok = r.ok]
    BY <1>3 DEF configure
  <2>3. /\ r.ok \in BOOLEAN /\ r.live \in Configs /\ r.live.key \in {live.key, edit[a].cfg.key}
        /\ r.ok /\ edit[a].cfg.key # NoKey => r.live.key = edit[a].cfg.key
    BY SettingFacts, InitializeFacts
  <2> DEFINE o == r.ok
             y == [edit[a] EXCEPT !.at = "record", !.ok = o]
  <2> HIDE DEF o
  <2>4. edit' = [edit EXCEPT ![a] = y]
    BY <2>2, SettingFacts DEF Edits, o
  <2>5. y \in Edits /\ y.at = "record" /\ y.cfg = edit[a].cfg /\ y.ok = o
    BY <2>3, SettingFacts DEF Edits, o
  <2> HIDE DEF y
  <2>6. Calm' => Calm
    BY <2>1 DEF Calm
  <2>7. CallIsAlong(y, setting, mgr, live')
    BY <2>2, <2>3, <2>5 DEF CallIsAlong, o
  <2>8. Calm' /\ ~outdated' => /\ ~IsMask(setting.cfg.key) /\ ~IsMask(live'.key)
                               /\ ~IsMask(y.cfg.key)
    BY <2>1, <2>2, <2>3, <2>5, <2>6, CalmUnmasked
  <2>9. live' \in Configs
    BY <2>2, <2>3
  <2>10. Calm' => \A b \in Admins : b # a => ~InFlight(b)
    BY <2>1, <2>6, CallAlone
  <2>11. QED
    BY <2>1, <2>4, <2>5, <2>7, <2>8, <2>9, <2>10, SettingFacts, EditMoves
<1>4. ASSUME NEW a \in Admins, recordConfig(a) PROVE SettingsInv'
  <2>1. /\ edit[a].at = "record" /\ InFlight(a)
        /\ UNCHANGED <<kind, seed, setting, live, troubled, mixed, outdated>>
    BY <1>4 DEF recordConfig, InFlight
  <2> DEFINE m == [mgr EXCEPT !.cfg = edit[a].cfg, !.configured = edit[a].ok]
             y == [edit[a] EXCEPT !.at = "enable"]
  <2>2. mgr' = m /\ edit' = [edit EXCEPT ![a] = y]
    BY <1>4, SettingFacts DEF recordConfig, Edits
  <2>3. /\ m \in [enabled : BOOLEAN, configured : BOOLEAN, cfg : Configs]
        /\ m.cfg = edit[a].cfg /\ m.configured = edit[a].ok
    BY SettingFacts
  <2>4. y \in Edits /\ y.at = "enable" /\ y.cfg = edit[a].cfg
    BY SettingFacts DEF Edits
  <2> HIDE DEF m, y
  <2>5. Calm' => Calm
    BY <2>1 DEF Calm
  <2>6. Calm => CallIsAlong(y, setting, mgr', live)
    BY <2>1, <2>2, <2>3, <2>4, CallAlone DEF CallIsAlong, LiveIsRecord
  <2>7. Calm' /\ ~outdated' => /\ ~IsMask(setting.cfg.key) /\ ~IsMask(live.key)
                               /\ ~IsMask(y.cfg.key)
    BY <2>1, <2>4, <2>5, CalmUnmasked
  <2>8. QED
    BY <2>1, <2>2, <2>3, <2>4, <2>5, <2>6, <2>7, SettingFacts, CallAlone, EditMoves
<1>5. ASSUME NEW a \in Admins, enable(a) PROVE SettingsInv'
  <2>1. /\ edit[a].at = "enable" /\ InFlight(a)
        /\ UNCHANGED <<kind, seed, setting, live, troubled, mixed, outdated>>
    BY <1>5 DEF enable, InFlight
  <2> DEFINE m == [mgr EXCEPT !.enabled = edit[a].enabled]
             y == [edit[a] EXCEPT !.at = "store"]
  <2>2. mgr' = m /\ edit' = [edit EXCEPT ![a] = y]
    BY <1>5, SettingFacts DEF enable, SetEnabled, Edits
  <2>3. /\ m \in [enabled : BOOLEAN, configured : BOOLEAN, cfg : Configs]
        /\ m.cfg = mgr.cfg /\ m.configured = mgr.configured /\ m.enabled = edit[a].enabled
    BY SettingFacts
  <2>4. y \in Edits /\ y.at = "store" /\ y.cfg = edit[a].cfg /\ y.enabled = edit[a].enabled
    BY SettingFacts DEF Edits
  <2> HIDE DEF m, y
  <2>5. Calm' => Calm
    BY <2>1 DEF Calm
  <2>6. Calm => CallIsAlong(y, setting, mgr', live)
    BY <2>1, <2>2, <2>3, <2>4, CallAlone DEF CallIsAlong, LiveIsRecord
  <2>7. Calm' /\ ~outdated' => /\ ~IsMask(setting.cfg.key) /\ ~IsMask(live.key)
                               /\ ~IsMask(y.cfg.key)
    BY <2>1, <2>4, <2>5, CalmUnmasked
  <2>8. QED
    BY <2>1, <2>2, <2>3, <2>4, <2>5, <2>6, <2>7, SettingFacts, CallAlone, EditMoves
<1>6. ASSUME NEW a \in Admins, NEW on \in BOOLEAN, setPluginEnabled(a, on) PROVE SettingsInv'
  <2>1. /\ ~InFlight(a) /\ BeginEdit(a)
        /\ UNCHANGED <<kind, seed, setting, live, troubled, outdated>>
    BY <1>6 DEF setPluginEnabled, InFlight
  <2> DEFINE m == [mgr EXCEPT !.enabled = on]
             y == [NoChange EXCEPT !.at = "get", !.enabled = on]
  <2>2. mgr' = m /\ edit' = [edit EXCEPT ![a] = y]
    BY <1>6 DEF setPluginEnabled, SetEnabled
  <2>3. /\ m \in [enabled : BOOLEAN, configured : BOOLEAN, cfg : Configs]
        /\ m.cfg = mgr.cfg /\ m.configured = mgr.configured /\ m.enabled = on
    BY SettingFacts
  <2>4. y \in Edits /\ y.at = "get" /\ y.cfg = EmptyConfig /\ y.enabled = on
    BY SettingFacts DEF Edits, NoChange
  <2> HIDE DEF m, y
  <2>5. Calm' => ~troubled /\ ~mixed'
    BY <2>1 DEF Calm
  <2>6. Calm' => CallIsAlong(y, setting, mgr', live)
    BY <2>1, <2>2, <2>3, <2>4, <2>5, EditBegins DEF CallIsAlong, LiveIsRecord, RowIsRecord
  <2>7. Calm' /\ ~outdated' => /\ ~IsMask(setting.cfg.key) /\ ~IsMask(live.key)
                               /\ ~IsMask(y.cfg.key)
    BY <2>1, <2>4, <2>5, EditBegins, CalmUnmasked, SettingFacts, ValueFacts
  <2>8. QED
    BY <2>1, <2>2, <2>3, <2>4, <2>5, <2>6, <2>7, SettingFacts, EditBegins, EditMoves
<1>7. ASSUME NEW a \in Admins, getSetting(a) PROVE SettingsInv'
  <2>1. /\ edit[a].at = "get" /\ InFlight(a)
        /\ UNCHANGED <<kind, seed, setting, mgr, live, mixed, outdated>>
    BY <1>7 DEF getSetting, InFlight
  <2>2. PICK readable \in BOOLEAN :
          /\ edit' = [edit EXCEPT ![a].at = "put",
                ![a].cfg = IF readable /\ setting.stored THEN setting.cfg ELSE EmptyConfig]
          /\ troubled' = (troubled \/ ~readable)
    BY <1>7 DEF getSetting
  <2> DEFINE cfg == IF readable /\ setting.stored THEN setting.cfg ELSE EmptyConfig
             y == [edit[a] EXCEPT !.at = "put", !.cfg = cfg]
  <2>3. cfg \in Configs
    BY SettingFacts
  <2>4. edit' = [edit EXCEPT ![a] = y]
    BY <2>2, SettingFacts DEF Edits
  <2>5. y \in Edits /\ y.at = "put" /\ y.cfg = cfg /\ y.enabled = edit[a].enabled
    <3> HIDE DEF cfg
    <3> QED
      BY <2>3, SettingFacts DEF Edits
  <2> HIDE DEF y
  <2>6. /\ troubled' \in BOOLEAN /\ (troubled => troubled') /\ (Calm' => Calm /\ readable)
    BY <2>1, <2>2, SettingFacts DEF Calm
  <2>7. ASSUME Calm' PROVE CallIsAlong(y, setting, mgr, live) /\ cfg = setting.cfg
    <3>1. CallIsAlong(edit[a], setting, mgr, live)
      BY <2>1, <2>6, <2>7, CallAlone
    <3>2. cfg = setting.cfg
      BY <2>1, <2>6, <2>7, <3>1 DEF CallIsAlong, RowIsRecord
    <3>3. QED
      BY <2>1, <2>5, <3>1, <3>2 DEF CallIsAlong
  <2>8. Calm' /\ ~outdated' => /\ ~IsMask(setting.cfg.key) /\ ~IsMask(live.key)
                               /\ ~IsMask(y.cfg.key)
    BY <2>1, <2>5, <2>6, <2>7, CalmUnmasked
  <2>9. QED
    BY <2>1, <2>4, <2>5, <2>6, <2>7, <2>8, SettingFacts, CallAlone, EditMoves
<1>8. ASSUME NEW a \in Admins, upsertPluginSetting(a) PROVE SettingsInv'
  <2>1. /\ edit[a].at \in {"store", "put"} /\ InFlight(a) /\ edit' = [edit EXCEPT ![a] = NoChange]
        /\ UNCHANGED <<kind, seed, mgr, live, mixed, outdated>>
    BY <1>8 DEF upsertPluginSetting, InFlight
  <2>2. CallIsAlong(NoChange, setting', mgr, live)
    BY SettingFacts DEF CallIsAlong
  <2>3. CASE troubled' = TRUE /\ UNCHANGED setting
    BY <2>1, <2>2, <2>3, SettingFacts, EditMoves DEF Calm
  <2> DEFINE st == [stored |-> TRUE, enabled |-> edit[a].enabled, cfg |-> edit[a].cfg]
  <2>4. ASSUME setting' = st, UNCHANGED troubled PROVE SettingsInv'
    <3>1. /\ st \in Rows /\ st.cfg = edit[a].cfg /\ st.enabled = edit[a].enabled
          /\ st.stored = TRUE
      BY SettingFacts DEF Rows
    <3> HIDE DEF st
    <3>2. Calm' => Calm
      BY <2>1, <2>4 DEF Calm
    <3>3. ASSUME Calm
          PROVE  /\ RowIsRecord(setting', mgr) /\ LiveIsRecord(mgr, live)
                 /\ setting'.stored => setting'.enabled = mgr.enabled
      <4>1. CallIsAlong(edit[a], setting, mgr, live)
        BY <2>1, <3>3, CallAlone
      <4>2. edit[a].cfg = mgr.cfg /\ LiveIsRecord(mgr, live) /\ edit[a].enabled = mgr.enabled
        BY <2>1, <4>1 DEF CallIsAlong, RowIsRecord
      <4>3. QED
        BY <2>4, <3>1, <4>2 DEF RowIsRecord
    <3>4. Calm' /\ ~outdated' => ~IsMask(setting'.cfg.key) /\ ~IsMask(live.key)
      BY <2>1, <2>4, <3>1, <3>2, CalmUnmasked
    <3>5. QED
      BY <2>1, <2>2, <2>4, <3>1, <3>2, <3>3, <3>4, SettingFacts, CallAlone, EditMoves
  <2>5. QED
    BY <1>8, <2>3, <2>4 DEF upsertPluginSetting
<1>9. ASSUME restart PROVE SettingsInv'
  BY <1>9, RestartAgrees
<1>10. ASSUME UNCHANGED settingVars PROVE SettingsInv'
  BY <1>10 DEF settingVars, SettingsInv, SettingsTypeOK, Agreement, NoMaskAbout, Calm, InFlight,
     CallIsAlong,
     RowIsRecord, LiveIsRecord
<1>11. QED
  BY <1>1, <1>2, <1>3, <1>4, <1>5, <1>6, <1>7, <1>8, <1>9, <1>10 DEF SettingsNext

\* PluginSettingsHold: whoever edits the settings in whatever order
\* (plugins.go, updatePluginConfig and setPluginEnabled).
THEOREM PluginSettingsStayTrue == SettingsSpec => []PluginSettingsHold
<1>1. SettingsInit => SettingsInv
  <2> SUFFICES ASSUME SettingsInit PROVE SettingsInv
    OBVIOUS
  <2>1. EmptyConfig \in Configs /\ EmptyConfig.key = NoKey
    BY ValueFacts DEF EmptyConfig, Configs
  <2>2. NoChange \in Edits /\ NoChange.at = "idle"
    BY <2>1 DEF NoChange, Edits
  <2>3. seed \in Seeds /\ kind \in Kinds
    BY DEF SettingsInit
  <2> DEFINE e == [stored |-> FALSE, enabled |-> FALSE, cfg |-> EmptyConfig]
  <2>4. setting \in {e} \cup SeedRows
    BY DEF SettingsInit
  <2>5. e \in Rows /\ e.stored = FALSE /\ e.cfg = EmptyConfig
    BY <2>1 DEF Rows
  <2> HIDE DEF e
  <2>6. /\ setting \in Rows /\ ~IsMask(setting.cfg.key) /\ setting.cfg \in Configs
        /\ (~setting.stored => setting.cfg = EmptyConfig)
        /\ (setting.stored => setting.enabled = TRUE) /\ setting.stored \in BOOLEAN
    BY <2>1, <2>3, <2>4, <2>5, SeedFacts, ValueFacts DEF Rows
  <2>7. /\ mgr \in [enabled : {TRUE}, configured : {setting.stored}, cfg : {setting.cfg}]
        /\ live = setting.cfg
    BY DEF SettingsInit
  <2>8. /\ mgr \in [enabled : BOOLEAN, configured : BOOLEAN, cfg : Configs]
        /\ mgr.enabled = TRUE /\ mgr.cfg = setting.cfg
    BY <2>6, <2>7
  <2>9. edit = [a \in Admins |-> NoChange]
    BY DEF SettingsInit
  <2>10. edit \in [Admins -> Edits] /\ \A a \in Admins : edit[a] = NoChange
    BY <2>2, <2>9
  <2>11. troubled \in BOOLEAN /\ mixed \in BOOLEAN /\ outdated \in BOOLEAN
    BY DEF SettingsInit
  <2>12. SettingsTypeOK
    BY <2>3, <2>6, <2>7, <2>8, <2>10, <2>11 DEF SettingsTypeOK
  <2>13. \A a \in Admins : ~InFlight(a) /\ CallIsAlong(edit[a], setting, mgr, live)
    BY <2>2, <2>10 DEF InFlight, CallIsAlong
  <2>14. /\ RowIsRecord(setting, mgr) /\ LiveIsRecord(mgr, live)
         /\ setting.stored => setting.enabled = mgr.enabled
    BY <2>6, <2>7, <2>8 DEF RowIsRecord, LiveIsRecord
  <2>15. QED
    BY <2>6, <2>7, <2>12, <2>13, <2>14 DEF SettingsInv, Agreement, NoMaskAbout
<1>2. SettingsSpec => []SettingsInv
  BY <1>1, SettingsStep, PTL DEF SettingsSpec
<1>3. SettingsInv => PluginSettingsHold
  BY DEF SettingsInv, Agreement, NoMaskAbout, Calm, RowIsRecord, LiveIsRecord, PluginSettingsHold,
     SettingsAgree, MaskIsNeverKept
<1>4. QED
  BY <1>2, <1>3, PTL

(**** Answers from a chat ****)

\* What a click may count on, given the request, its grant and whether calls
\* have crossed: its approval, its grant or its refusal stands.
Stands(x, st, g, cr) ==
    /\ x.at = "grant" => x.action = "approve" /\ (cr \/ st = "approved")
    /\ (x.at = "ok" /\ x.action = "approve") \/ x.said = "approve" => g /\ (cr \/ st = "approved")
    /\ (x.at = "ok" /\ x.action = "deny") \/ x.said = "deny" => cr \/ (st = "rejected" /\ ~g)

ChatInv ==
    /\ ChatTypeOK
    /\ \A c \in Clicks : Stands(click[c], requestStatus, chatGrant, crossed)
    /\ chatGrant => crossed \/ requestStatus = "approved"

\* The rest of the state has its types.
PostingTypeOK ==
    /\ clock \in 0 .. ChatTime /\ secretNo \in 0 .. 1
    /\ chatOn \subseteq Platforms /\ posting \subseteq chatOn

\* A click moves on and leaves the request as it is.
LEMMA ClickMoves ==
    ASSUME ChatInv, NEW c \in Clicks, NEW y \in ClickStates, click' = [click EXCEPT ![c] = y],
           UNCHANGED <<clock, chatOn, secretNo, posting, requestStatus, chatGrant, crossed>>,
           gaveUp' \subseteq Clicks, Stands(y, requestStatus, chatGrant, crossed)
    PROVE  ChatInv'
<1>1. click' \in [Clicks -> ClickStates]
      /\ \A d \in Clicks : click'[d] = IF d = c THEN y ELSE click[d]
  BY DEF ChatInv, ChatTypeOK
<1>2. ChatTypeOK'
  BY <1>1 DEF ChatInv, ChatTypeOK
<1>3. \A d \in Clicks : Stands(click'[d], requestStatus, chatGrant, crossed)
  BY <1>1 DEF ChatInv
<1>4. QED
  BY <1>2, <1>3 DEF ChatInv

\* A click changes the request or its grant: who counted on it can no longer,
\* unless the calls have crossed.
LEMMA ClickWrites ==
    ASSUME ChatInv, NEW c \in Clicks, NEW y \in ClickStates, click' = [click EXCEPT ![c] = y],
           UNCHANGED <<clock, chatOn, secretNo, posting, gaveUp>>,
           requestStatus' \in {"pending", "approved", "rejected"}, chatGrant' \in BOOLEAN,
           crossed' \in BOOLEAN, Stands(y, requestStatus', chatGrant', crossed'),
           chatGrant' => crossed' \/ requestStatus' = "approved",
           \/ crossed'
           \/ ~crossed /\ requestStatus = "pending" /\ ~chatGrant'
           \/ ~crossed /\ requestStatus = "approved" /\ requestStatus' = "approved",
           chatGrant => chatGrant'
    PROVE  ChatInv'
<1>1. click' \in [Clicks -> ClickStates]
      /\ \A d \in Clicks : click'[d] = IF d = c THEN y ELSE click[d]
  BY DEF ChatInv, ChatTypeOK
<1>2. ChatTypeOK'
  BY <1>1 DEF ChatInv, ChatTypeOK
<1>3. ASSUME NEW d \in Clicks, d # c PROVE Stands(click[d], requestStatus', chatGrant', crossed')
  <2>1. Stands(click[d], requestStatus, chatGrant, crossed)
    BY DEF ChatInv
  <2>2. click[d].at = "grant" => click[d].action = "approve"
    BY <2>1 DEF Stands
  <2>3. QED
    BY <2>1, <2>2 DEF Stands
<1>4. \A d \in Clicks : Stands(click'[d], requestStatus', chatGrant', crossed')
  BY <1>1, <1>3
<1>5. QED
  BY <1>2, <1>4 DEF ChatInv

\* Every step keeps what the clicks count on.
LEMMA ChatStep ==
    ASSUME ChatInv, [ChatNext]_chatVars
    PROVE  ChatInv'
<1>0. /\ click \in [Clicks -> ClickStates] /\ gaveUp \subseteq Clicks
      /\ requestStatus \in {"pending", "approved", "rejected"} /\ chatGrant \in BOOLEAN
      /\ crossed \in BOOLEAN /\ clock \in 0 .. ChatTime /\ secretNo \in 0 .. 1
  BY DEF ChatInv, ChatTypeOK
<1>1. ASSUME chatTick \/ rotateSecret \/ (\E p \in Platforms : OnHook(p)) \/ UNCHANGED chatVars
      PROVE  ChatInv'
  <2>1. UNCHANGED <<chatOn, requestStatus, chatGrant, click, gaveUp, crossed>>
    BY <1>1 DEF chatTick, rotateSecret, OnHook, chatVars
  <2>2. PostingTypeOK'
    BY <1>0, <1>1, ChatAssumption DEF PostingTypeOK, ChatInv, ChatTypeOK, chatTick, rotateSecret,
       OnHook, chatVars
  <2>3. QED
    BY <2>1, <2>2 DEF ChatInv, ChatTypeOK, PostingTypeOK
<1>2. ASSUME NEW c \in Clicks, NEW p, NEW action \in {"approve", "deny"}, pressButton(c, p, action)
      PROVE  ChatInv'
  <2> DEFINE y == [click[c] EXCEPT !.at = "read", !.action = action]
  <2>1. click' = [click EXCEPT ![c] = y] /\ click[c].at = "idle"
        /\ UNCHANGED <<clock, chatOn, secretNo, posting, requestStatus, chatGrant, gaveUp, crossed>>
    BY <1>0, <1>2 DEF pressButton, ClickStates
  <2>2. y \in ClickStates /\ y.at = "read" /\ y.said = click[c].said
    BY <1>0 DEF ClickStates
  <2> HIDE DEF y
  <2>3. Stands(y, requestStatus, chatGrant, crossed)
    BY <2>2 DEF ChatInv, Stands
  <2>4. QED
    BY <1>0, <2>1, <2>2, <2>3, ClickMoves
<1>3. ASSUME NEW c \in Clicks, NEW p, NEW action \in {"approve", "deny"},
        handleMagicLink(c, p, action)
      PROVE  ChatInv'
  <2> DEFINE y == IF verifyMagicLink(p) THEN [at |-> "read", action |-> action, said |-> "nothing"]
                  ELSE [at |-> "over", action |-> action, said |-> "refused"]
  <2>1. click' = [click EXCEPT ![c] = y]
        /\ UNCHANGED <<clock, chatOn, secretNo, posting, requestStatus, chatGrant, gaveUp, crossed>>
    BY <1>3 DEF handleMagicLink
  <2>2. y \in ClickStates /\ y.at \in {"read", "over"} /\ y.said \in {"nothing", "refused"}
    BY <1>3 DEF ClickStates
  <2> HIDE DEF y
  <2>3. Stands(y, requestStatus, chatGrant, crossed)
    BY <2>2 DEF Stands
  <2>4. QED
    BY <1>0, <2>1, <2>2, <2>3, ClickMoves
<1>4. ASSUME NEW c \in Clicks, NEW from, NEW to \in {"write", "error"}, ClickAt(c, from, to),
             UNCHANGED <<clock, chatOn, secretNo, posting, requestStatus, chatGrant, gaveUp, crossed>>
      PROVE  ChatInv'
  <2> DEFINE y == [click[c] EXCEPT !.at = to]
  <2>1. click' = [click EXCEPT ![c] = y]
    BY <1>0, <1>4 DEF ClickAt, ClickStates
  <2>2. y \in ClickStates /\ y.at = to /\ y.said = click[c].said
    BY <1>0, <1>4 DEF ClickStates
  <2> HIDE DEF y
  <2>3. Stands(y, requestStatus, chatGrant, crossed)
    BY <1>4, <2>2 DEF ChatInv, Stands
  <2>4. QED
    BY <1>0, <1>4, <2>1, <2>2, <2>3, ClickMoves
<1>5. ASSUME NEW c \in Clicks, writeRequest(c) PROVE ChatInv'
  <2>1. CASE ClickAt(c, "write", "error") /\ UNCHANGED <<requestStatus, crossed>>
    BY <1>4, <1>5, <2>1 DEF writeRequest
  <2>2. ASSUME ClickAt(c, "write", IF click[c].action = "approve" THEN "grant" ELSE "ok"),
               requestStatus' = IF click[c].action = "approve" THEN "approved" ELSE "rejected",
               crossed' = (crossed \/ requestStatus # "pending")
        PROVE  ChatInv'
    <3> DEFINE y == [click[c] EXCEPT !.at = IF click[c].action = "approve" THEN "grant" ELSE "ok"]
    <3>1. click' = [click EXCEPT ![c] = y] /\ click[c].at = "write"
      BY <1>0, <2>2 DEF ClickAt, ClickStates
    <3>2. y \in ClickStates /\ y.action = click[c].action /\ y.said = click[c].said
          /\ y.at = (IF click[c].action = "approve" THEN "grant" ELSE "ok")
          /\ click[c].action \in {"approve", "deny"}
      BY <1>0 DEF ClickStates
    <3> HIDE DEF y
    <3>3. Stands(click[c], requestStatus, chatGrant, crossed)
      BY DEF ChatInv
    <3>4. UNCHANGED <<clock, chatOn, secretNo, posting, chatGrant, gaveUp>>
      BY <1>5 DEF writeRequest
    <3>5. crossed' \in BOOLEAN /\ (crossed' <=> crossed \/ requestStatus # "pending")
      BY <2>2
    <3>6. chatGrant => crossed \/ requestStatus = "approved"
      BY DEF ChatInv
    <3>7. Stands(y, requestStatus', chatGrant', crossed')
      BY <2>2, <3>2, <3>3, <3>4, <3>5, <3>6 DEF Stands
    <3>8. requestStatus' \in {"pending", "approved", "rejected"} /\ chatGrant' \in BOOLEAN
      BY <1>0, <2>2, <3>4
    <3>9. QED
      BY <1>0, <3>1, <3>2, <3>4, <3>5, <3>6, <3>7, <3>8, ClickWrites
  <2>3. QED
    BY <1>5, <2>1, <2>2 DEF writeRequest
<1>6. ASSUME NEW c \in Clicks, grantRequest(c) PROVE ChatInv'
  <2>1. CASE ClickAt(c, "grant", "error") /\ UNCHANGED chatGrant
    BY <1>4, <1>6, <2>1 DEF grantRequest
  <2>2. ASSUME ClickAt(c, "grant", "ok"), chatGrant' = TRUE PROVE ChatInv'
    <3> DEFINE y == [click[c] EXCEPT !.at = "ok"]
    <3>1. click' = [click EXCEPT ![c] = y] /\ click[c].at = "grant"
      BY <1>0, <2>2 DEF ClickAt, ClickStates
    <3>2. y \in ClickStates /\ y.action = click[c].action /\ y.said = click[c].said /\ y.at = "ok"
      BY <1>0 DEF ClickStates
    <3> HIDE DEF y
    <3>3. UNCHANGED <<clock, chatOn, secretNo, posting, requestStatus, gaveUp, crossed>>
      BY <1>6 DEF grantRequest
    <3>4. Stands(click[c], requestStatus, chatGrant, crossed)
      BY DEF ChatInv
    <3>5. click[c].action = "approve" /\ (crossed \/ requestStatus = "approved")
      BY <3>1, <3>4 DEF Stands
    <3>6. Stands(y, requestStatus', chatGrant', crossed')
      BY <2>2, <3>2, <3>3, <3>4, <3>5 DEF Stands
    <3>7. QED
      BY <1>0, <2>2, <3>1, <3>2, <3>3, <3>5, <3>6, ClickWrites
  <2>3. QED
    BY <1>6, <2>1, <2>2 DEF grantRequest
<1>7. ASSUME NEW c \in Clicks, giveUp(c) PROVE ChatInv'
  <2> DEFINE y == [click[c] EXCEPT !.said = "failed"]
  <2>1. click' = [click EXCEPT ![c] = y] /\ gaveUp' \subseteq Clicks
        /\ UNCHANGED <<clock, chatOn, secretNo, posting, requestStatus, chatGrant, crossed>>
    BY <1>0, <1>7 DEF giveUp, ClickStates
  <2>2. y \in ClickStates /\ y.at = click[c].at /\ y.action = click[c].action /\ y.said = "failed"
    BY <1>0 DEF ClickStates
  <2> HIDE DEF y
  <2>3. Stands(y, requestStatus, chatGrant, crossed)
    BY <2>2 DEF ChatInv, Stands
  <2>4. QED
    BY <2>1, <2>2, <2>3, ClickMoves
<1>8. ASSUME NEW c \in Clicks, say(c) PROVE ChatInv'
  <2> DEFINE y == [click[c] EXCEPT !.at = "over",
                                   !.said = IF resolveAction(c) THEN click[c].action ELSE "failed"]
  <2>1. click' = [click EXCEPT ![c] = y]
        /\ UNCHANGED <<clock, chatOn, secretNo, posting, requestStatus, chatGrant, gaveUp, crossed>>
    BY <1>0, <1>8 DEF say, ClickStates
  <2>2. y \in ClickStates /\ y.at = "over"
        /\ (y.said = "failed" \/ (click[c].at = "ok" /\ y.said = click[c].action))
    BY <1>0 DEF ClickStates, resolveAction
  <2> HIDE DEF y
  <2>3. Stands(y, requestStatus, chatGrant, crossed)
    BY <1>0, <2>2 DEF ChatInv, Stands, ClickStates
  <2>4. QED
    BY <1>0, <2>1, <2>2, <2>3, ClickMoves
<1>9. ASSUME NEW c \in Clicks, readRequest(c) PROVE ChatInv'
  BY <1>4, <1>9 DEF readRequest
<1>10. QED
  BY <1>1, <1>2, <1>3, <1>5, <1>6, <1>7, <1>8, <1>9
     DEF ChatNext, handleSlackInteraction, handleDiscordComponent

\* ChatIsSound: what the channel is told stands, for any number of clicks
\* (chatops.go, resolveAction).
THEOREM ChatStaysSound == ChatSpec => []ChatIsSound
<1>1. ChatInit => ChatInv
  <2> SUFFICES ASSUME ChatInit PROVE ChatInv
    OBVIOUS
  <2> DEFINE x == [at |-> "idle", action |-> "approve", said |-> "nothing"]
  <2>1. x \in ClickStates /\ x.at = "idle" /\ x.said = "nothing"
    BY DEF ClickStates
  <2>2. click = [c \in Clicks |-> x]
    BY DEF ChatInit
  <2> HIDE DEF x
  <2>3. requestStatus = "pending" /\ chatGrant = FALSE /\ gaveUp = {} /\ crossed = FALSE
        /\ clock = 0 /\ secretNo = 0 /\ posting = chatOn
    BY DEF ChatInit
  <2>4. chatOn \subseteq Platforms
    BY DEF ChatInit, Platforms
  <2>5. ChatTypeOK
    <3>1. clock \in 0 .. ChatTime /\ secretNo \in 0 .. 1
      BY <2>3, ChatAssumption
    <3>2. chatGrant \in BOOLEAN /\ crossed \in BOOLEAN
      BY <2>3
    <3>3. click \in [Clicks -> ClickStates]
      BY <2>1, <2>2
    <3>4. QED
      BY <2>3, <2>4, <3>1, <3>2, <3>3 DEF ChatTypeOK
  <2>6. \A c \in Clicks : Stands(click[c], requestStatus, chatGrant, crossed)
    BY <2>1, <2>2 DEF Stands
  <2>7. QED
    BY <2>3, <2>5, <2>6 DEF ChatInv
<1>2. ChatSpec => []ChatInv
  BY <1>1, ChatStep, PTL DEF ChatSpec
<1>3. ChatInv => ChatIsSound
  BY DEF ChatInv, Stands, ChatIsSound, ChatTellsTheTruth
<1>4. QED
  BY <1>2, <1>3, PTL

(**** Notifications ****)

\* A policy that limits the channels allows those it imposes (Normalize).
Normalized(p) == p.allowed # {} => \A e \in Events : p.mandatory[e] \subseteq p.allowed

\* Under policy p, preferences c say what will happen if they are the ones that count;
\* and they leave nothing out of what happens with preferences pr.
Honest(p, c) == \A ch \in Channels, e \in Events : Deliver(p, c, ch, e) <=> Allows(c, ch, e)
Covers(p, c, pr) == \A ch \in Channels, e \in Events : Deliver(p, pr, ch, e) => Allows(c, ch, e)

PrefsInv ==
    /\ policy \in Policies /\ Normalized(policy) /\ prefs \in Prefs
    /\ saving # <<>> => saving[1] \in Prefs /\ Honest(saving[2], saving[1])
    /\ shownPrefs # <<>> => Honest(policy, shownPrefs[1]) /\ Covers(policy, shownPrefs[1], prefs)

\* A delivery under a mandate is on its way, stored, or has lost a store call.
DeliveriesInv ==
    /\ dlv \in [Deliveries -> DeliveryStates]
    /\ inbox \subseteq Deliveries /\ imposed \subseteq Deliveries /\ denied \subseteq Deliveries
    /\ \A d \in imposed : /\ dlv[d].at # "idle" /\ IsMandatory(policy, "in_app", dlv[d].event)
                          /\ dlv[d].at = "over" => d \in inbox \cup denied

\* Not crowded, a poll that is to create the notice is alone and finds none.
PollsInv ==
    /\ notices \in Seq(Notices) /\ crowded \in BOOLEAN
    /\ polls \in [Pollers -> {"idle", "create", "over"}]
    /\ ~crowded => /\ \A i, j \in OpenNotices : i = j
                   /\ \A p, q \in Pollers : polls[p] = "create" /\ polls[q] = "create" => p = q
                   /\ \A p \in Pollers : polls[p] = "create" => OpenNotices = {}

\* Preferences clamped to a policy say what will happen under it, and cover what happens
\* with the preferences they were made from.
LEMMA ClampIsHonest ==
    ASSUME NEW p \in Policies, Normalized(p), NEW pr \in Prefs
    PROVE  ClampPrefs(p, pr) \in Prefs /\ Honest(p, ClampPrefs(p, pr)) /\ Covers(p, ClampPrefs(p, pr), pr)
<1> DEFINE carried(ch) == MandatoryEventsForChannel(p, ch) # {}
           on == {ch \in Channels : IF ch \in pr.on THEN ChannelAllowed(p, ch) \/ carried(ch) ELSE carried(ch)}
           ev == IF pr.events = {} THEN {}
                 ELSE pr.events \cup UNION {MandatoryEventsForChannel(p, ch) : ch \in Channels}
           c == [on |-> on, events |-> ev]
<1>1. ClampPrefs(p, pr) = c
  BY DEF ClampPrefs
<1>2. on \in SUBSET Channels /\ ev \in SUBSET Events
  BY DEF MandatoryEventsForChannel, Prefs
<1>3. \A ch \in Channels : carried(ch) => ch \in on /\ ChannelAllowed(p, ch)
  <2>1. \A ch \in Channels : carried(ch) => ch \in on
    OBVIOUS
  <2>2. ASSUME NEW ch \in Channels, carried(ch) PROVE ChannelAllowed(p, ch)
    <3>1. PICK e \in Events : ch \in p.mandatory[e]
      BY <2>2 DEF MandatoryEventsForChannel, IsMandatory
    <3>2. QED
      BY <3>1 DEF Normalized, ChannelAllowed
  <2>3. QED
    BY <2>1, <2>2
<1>4. \A ch \in on : ChannelAllowed(p, ch)
  BY <1>3
<1>5. \A ch \in Channels, e \in Events : IsMandatory(p, ch, e) => ch \in on /\ (ev = {} \/ e \in ev)
  BY <1>3 DEF MandatoryEventsForChannel
<1>9. \A ch \in Channels : ch \in pr.on /\ ChannelAllowed(p, ch) => ch \in on
  OBVIOUS
<1>10. pr.events \subseteq ev /\ (pr.events = {} => ev = {})
  OBVIOUS
<1> HIDE DEF on, ev
<1>6. c \in Prefs /\ c.on = on /\ c.events = ev
  BY <1>2 DEF Prefs
<1> HIDE DEF c
<1>7. Honest(p, c)
  BY <1>4, <1>5, <1>6 DEF Honest, Deliver, Allows
<1>11. Covers(p, c, pr)
  BY <1>5, <1>6, <1>9, <1>10 DEF Covers, Deliver, Allows
<1>8. QED
  BY <1>1, <1>6, <1>7, <1>11

\* What the administrator saves is normalized.
LEMMA NormalizeNormalizes ==
    ASSUME NEW p \in Policies
    PROVE  Normalize(p) \in Policies /\ Normalized(Normalize(p))
<1> DEFINE a == IF p.allowed = {} THEN {} ELSE p.allowed \cup UNION {p.mandatory[e] : e \in Events}
           n == [p EXCEPT !.allowed = a]
<1>1. Normalize(p) = n
  BY DEF Normalize, Policies
<1>2. a \in SUBSET Channels /\ (a # {} => \A e \in Events : p.mandatory[e] \subseteq a)
  BY DEF Policies
<1> HIDE DEF a
<1>3. n \in Policies /\ n.allowed = a /\ n.mandatory = p.mandatory
  BY <1>2 DEF Policies
<1>4. QED
  BY <1>1, <1>2, <1>3 DEF Normalized

\* What is stored and shown stays honest.
LEMMA PrefsStep ==
    ASSUME PrefsInv, [PrefsNext \/ NoticesNext]_notifyVars
    PROVE  PrefsInv'
<1>1. CASE putNotificationPolicy
  <2>1. PICK p \in Policies : policy' = Normalize(p)
    BY <1>1 DEF putNotificationPolicy
  <2>2. policy' \in Policies /\ Normalized(policy')
    BY <2>1, NormalizeNormalizes
  <2>3. shownPrefs' = <<>> /\ UNCHANGED <<prefs, saving>>
    BY <1>1 DEF putNotificationPolicy
  <2>4. QED
    BY <2>2, <2>3 DEF PrefsInv
<1>2. CASE getNotificationPrefs
  <2>1. Honest(policy, ClampPrefs(policy, prefs)) /\ Covers(policy, ClampPrefs(policy, prefs), prefs)
    BY ClampIsHonest DEF PrefsInv
  <2>2. shownPrefs' = <<ClampPrefs(policy, prefs)>> /\ UNCHANGED <<policy, prefs, saving>>
    BY <1>2 DEF getNotificationPrefs
  <2>3. shownPrefs'[1] = ClampPrefs(policy, prefs)
    BY <2>2
  <2>4. QED
    BY <2>1, <2>2, <2>3 DEF PrefsInv
<1>3. CASE putNotificationPrefs
  <2>1. PICK pr \in Prefs : saving' = <<ClampPrefs(policy, pr), policy>>
    BY <1>3 DEF putNotificationPrefs
  <2>2. ClampPrefs(policy, pr) \in Prefs /\ Honest(policy, ClampPrefs(policy, pr))
    BY ClampIsHonest DEF PrefsInv
  <2>3. saving'[1] = ClampPrefs(policy, pr) /\ saving'[2] = policy
    BY <2>1
  <2>4. UNCHANGED <<policy, prefs, shownPrefs>>
    BY <1>3 DEF putNotificationPrefs
  <2>5. QED
    BY <2>2, <2>3, <2>4 DEF PrefsInv
<1>4. CASE UpsertNotificationPrefs
  <2>1. saving # <<>> /\ saving' = <<>> /\ UNCHANGED policy
    BY <1>4 DEF UpsertNotificationPrefs
  <2>2. saving[1] \in Prefs /\ Honest(saving[2], saving[1])
    BY <2>1 DEF PrefsInv
  <2>3. CASE UNCHANGED <<prefs, shownPrefs>>
    BY <2>1, <2>3 DEF PrefsInv
  <2>4. CASE prefs' = saving[1] /\ shownPrefs' = IF saving[2] = policy THEN <<saving[1]>> ELSE <<>>
    <3>1. shownPrefs' # <<>> => saving[2] = policy /\ shownPrefs'[1] = saving[1]
      BY <2>4
    <3>2. shownPrefs' # <<>> => Covers(policy, shownPrefs'[1], prefs')
      BY <2>2, <2>4, <3>1 DEF Honest, Covers
    <3>3. QED
      BY <2>1, <2>2, <2>4, <3>1, <3>2 DEF PrefsInv
  <2>5. QED
    BY <1>4, <2>3, <2>4 DEF UpsertNotificationPrefs
<1>5. CASE \/ \E d \in Deliveries : deliverNotification(d) \/ readPolicy(d) \/ CreateNotification(d)
           \/ NoticesNext \/ UNCHANGED notifyVars
  <2>1. UNCHANGED <<policy, prefs, saving, shownPrefs>>
    BY <1>5 DEF deliverNotification, readPolicy, CreateNotification, NoticesNext, pollNotices,
       createNotice, pollAgain, otherNotice, MarkAllNotificationsRead, MarkNotificationRead,
       notifyVars, prefVars
  <2>2. QED
    BY <2>1 DEF PrefsInv
<1>6. QED
  BY <1>1, <1>2, <1>3, <1>4, <1>5 DEF PrefsNext

\* A delivery moves on.
LEMMA DeliveryMoves ==
    ASSUME DeliveriesInv, NEW d \in Deliveries, NEW y \in DeliveryStates, UNCHANGED policy,
           dlv' = [dlv EXCEPT ![d] = y], inbox' \subseteq Deliveries, denied' \subseteq Deliveries,
           inbox \subseteq inbox', denied \subseteq denied',
           imposed' \subseteq imposed \cup {d},
           d \in imposed' => /\ y.at # "idle" /\ IsMandatory(policy, "in_app", y.event)
                             /\ y.at = "over" => d \in inbox' \cup denied'
    PROVE  DeliveriesInv'
<1>1. dlv' \in [Deliveries -> DeliveryStates] /\ dlv'[d] = y
      /\ \A q \in Deliveries : q # d => dlv'[q] = dlv[q]
  BY DEF DeliveriesInv
<1>2. QED
  BY <1>1 DEF DeliveriesInv

\* The deliveries under a mandate are not lost.
LEMMA DeliveriesStep ==
    ASSUME DeliveriesInv, PrefsInv, [PrefsNext \/ NoticesNext]_notifyVars
    PROVE  DeliveriesInv'
<1>0. /\ dlv \in [Deliveries -> DeliveryStates] /\ prefs \in Prefs
      /\ inbox \subseteq Deliveries /\ imposed \subseteq Deliveries /\ denied \subseteq Deliveries
  BY DEF DeliveriesInv, PrefsInv
<1>1. CASE putNotificationPolicy
  <2>1. /\ imposed' = {d \in imposed : IsMandatory(policy', "in_app", dlv[d].event)}
        /\ UNCHANGED <<dlv, inbox, denied>>
    BY <1>1 DEF putNotificationPolicy
  <2>2. QED
    BY <1>0, <2>1 DEF DeliveriesInv
<1>2. ASSUME NEW d \in Deliveries, deliverNotification(d) PROVE DeliveriesInv'
  <2>1. PICK e \in Events, pr \in {prefs, DefaultNotificationPrefs} :
          /\ dlv' = [dlv EXCEPT ![d] = [at |-> "policy", event |-> e, prefs |-> pr]]
          /\ imposed' = IF IsMandatory(policy, "in_app", e) THEN imposed \cup {d} ELSE imposed
    BY <1>2 DEF deliverNotification
  <2>2. UNCHANGED <<policy, inbox, denied>> /\ dlv[d].at = "idle"
    BY <1>2 DEF deliverNotification
  <2>3. pr \in Prefs
    BY <1>0, <2>1 DEF DefaultNotificationPrefs, Prefs, Channels
  <2> DEFINE y == [at |-> "policy", event |-> e, prefs |-> pr]
  <2>4. y \in DeliveryStates /\ y.at = "policy" /\ y.event = e
    BY <2>3 DEF DeliveryStates
  <2>5. dlv' = [dlv EXCEPT ![d] = y]
    BY <2>1
  <2> HIDE DEF y
  <2>6. d \in imposed' => IsMandatory(policy, "in_app", e)
    BY <2>1, <2>2 DEF DeliveriesInv
  <2>7. QED
    BY <1>0, <2>1, <2>2, <2>4, <2>5, <2>6, DeliveryMoves
<1>3. ASSUME NEW d \in Deliveries, readPolicy(d) PROVE DeliveriesInv'
  <2>1. PICK failed \in BOOLEAN :
          LET p == IF failed THEN DefaultNotificationPolicy ELSE policy
          IN /\ dlv' = [dlv EXCEPT ![d].at =
                          IF Deliver(p, dlv[d].prefs, "in_app", dlv[d].event) THEN "create" ELSE "over"]
             /\ denied' = IF failed THEN denied \cup {d} ELSE denied
    BY <1>3 DEF readPolicy
  <2> DEFINE p == IF failed THEN DefaultNotificationPolicy ELSE policy
             to == IF Deliver(p, dlv[d].prefs, "in_app", dlv[d].event) THEN "create" ELSE "over"
             y == [dlv[d] EXCEPT !.at = to]
  <2>2. UNCHANGED <<policy, inbox, imposed>>
    BY <1>3 DEF readPolicy
  <2>3. /\ to \in {"create", "over"}
        /\ (~failed /\ IsMandatory(policy, "in_app", dlv[d].event) => to = "create")
    BY DEF Deliver
  <2>4. dlv' = [dlv EXCEPT ![d].at = to] /\ denied' = IF failed THEN denied \cup {d} ELSE denied
    BY <2>1
  <2> HIDE DEF p, to
  <2>5. dlv' = [dlv EXCEPT ![d] = y] /\ y \in DeliveryStates /\ y.at = to /\ y.event = dlv[d].event
    BY <1>0, <2>3, <2>4 DEF DeliveryStates
  <2> HIDE DEF y
  <2>6. d \in imposed => IsMandatory(policy, "in_app", dlv[d].event)
    BY DEF DeliveriesInv
  <2>7. QED
    BY <1>0, <2>2, <2>3, <2>4, <2>5, <2>6, DeliveryMoves
<1>4. ASSUME NEW d \in Deliveries, CreateNotification(d) PROVE DeliveriesInv'
  <2> DEFINE y == [dlv[d] EXCEPT !.at = "over"]
  <2>1. /\ dlv' = [dlv EXCEPT ![d] = y] /\ UNCHANGED <<policy, imposed>>
        /\ \/ inbox' = inbox \cup {d} /\ UNCHANGED denied
           \/ denied' = denied \cup {d} /\ UNCHANGED inbox
    BY <1>0, <1>4 DEF CreateNotification, DeliveryStates
  <2>2. y \in DeliveryStates /\ y.at = "over" /\ y.event = dlv[d].event
    BY <1>0 DEF DeliveryStates
  <2> HIDE DEF y
  <2>3. d \in imposed => IsMandatory(policy, "in_app", dlv[d].event)
    BY DEF DeliveriesInv
  <2>4. QED
    BY <1>0, <2>1, <2>2, <2>3, DeliveryMoves
<1>5. CASE \/ getNotificationPrefs \/ putNotificationPrefs \/ UpsertNotificationPrefs
           \/ NoticesNext \/ UNCHANGED notifyVars
  <2>1. UNCHANGED <<policy, dlv, inbox, imposed, denied>>
    BY <1>5 DEF getNotificationPrefs, putNotificationPrefs, UpsertNotificationPrefs, NoticesNext,
       pollNotices, createNotice, pollAgain, otherNotice, MarkAllNotificationsRead,
       MarkNotificationRead, notifyVars, prefVars
  <2>2. QED
    BY <2>1 DEF DeliveriesInv
<1>6. QED
  BY <1>1, <1>2, <1>3, <1>4, <1>5 DEF PrefsNext

\* A notification put in front moves the others by one.
LEMMA PutInFront ==
    ASSUME notices \in Seq(Notices), NEW n \in Notices, notices' = <<n>> \o notices
    PROVE  /\ notices' \in Seq(Notices)
           /\ \A i \in OpenNotices' : (i = 1 /\ IsOpenNotice(n)) \/ (i - 1 \in OpenNotices /\ i \in Nat)
<1>1. <<n>> \in Seq(Notices) /\ Len(<<n>>) = 1 /\ <<n>>[1] = n
  OBVIOUS
<1>2. notices' \in Seq(Notices)
  BY <1>1
<1>3. /\ Len(notices') = 1 + Len(notices) /\ Len(notices) \in Nat
      /\ \A i \in 1..Len(notices') : notices'[i] = IF i <= 1 THEN <<n>>[i] ELSE notices[i - 1]
  BY <1>1
<1>4. DOMAIN notices = 1..Len(notices) /\ DOMAIN notices' = 1..Len(notices')
  BY <1>2
<1>5. ASSUME NEW i \in OpenNotices'
      PROVE  (i = 1 /\ IsOpenNotice(n)) \/ (i - 1 \in OpenNotices /\ i \in Nat)
  <2>1. i \in 1..Len(notices') /\ IsOpenNotice(notices'[i])
    BY <1>4, <1>5 DEF OpenNotices
  <2>2. CASE i <= 1
    <3>1. i = 1 /\ notices'[i] = n
      BY <1>1, <1>3, <2>1, <2>2
    <3>2. QED
      BY <2>1, <3>1
  <2>3. CASE ~(i <= 1)
    <3>1. i - 1 \in 1..Len(notices) /\ notices'[i] = notices[i - 1] /\ i \in Nat
      BY <1>3, <2>1, <2>3
    <3>2. QED
      BY <1>4, <2>1, <3>1 DEF OpenNotices
  <2>4. QED
    BY <2>2, <2>3
<1>6. QED
  BY <1>2, <1>5

\* Notices that are only read leave no new one open.
LEMMA NoticesAreRead ==
    ASSUME PollsInv, notices' \in Seq(Notices), OpenNotices' \subseteq OpenNotices,
           UNCHANGED <<polls, crowded>>
    PROVE  PollsInv'
BY DEF PollsInv

\* The notice is created once.
LEMMA PollsStep ==
    ASSUME PollsInv, [PrefsNext \/ NoticesNext]_notifyVars
    PROVE  PollsInv'
<1>0. /\ notices \in Seq(Notices) /\ crowded \in BOOLEAN
      /\ polls \in [Pollers -> {"idle", "create", "over"}]
  BY DEF PollsInv
<1>1. ASSUME NEW p \in Pollers, pollNotices(p) PROVE PollsInv'
  <2>1. /\ polls' = [polls EXCEPT ![p] = IF HasUnreadNotice THEN "over" ELSE "create"]
        /\ crowded' = (crowded \/ OpenNotices \cap DOMAIN Page # OpenNotices
                               \/ (~HasUnreadNotice /\ \E q \in Pollers : polls[q] = "create"))
        /\ UNCHANGED notices /\ OpenNotices' = OpenNotices
    BY <1>1 DEF pollNotices, OpenNotices
  <2>2. crowded' \in BOOLEAN
    BY <2>1
  <2>3. polls' \in [Pollers -> {"idle", "create", "over"}]
    BY <1>0, <2>1
  <2>4. ASSUME ~crowded', ~HasUnreadNotice
        PROVE  OpenNotices = {} /\ \A q \in Pollers : polls[q] # "create"
    <3>1. OpenNotices \cap DOMAIN Page = OpenNotices /\ \A q \in Pollers : polls[q] # "create"
      BY <2>1, <2>4
    <3>2. \A i \in DOMAIN Page : Page[i] = notices[i]
      <4> DEFINE n == IF Len(notices) < NoticePage THEN Len(notices) ELSE NoticePage
      <4>1. n \in Nat /\ n <= Len(notices) /\ Len(notices) \in Nat
        BY <1>0, NotifyAssumption
      <4> HIDE DEF n
      <4>2. /\ DOMAIN SubSeq(notices, 1, n) = 1..n
            /\ \A i \in 1..n : SubSeq(notices, 1, n)[i] = notices[i]
        BY <1>0, <4>1
      <4>3. QED
        BY <4>2 DEF Page, n
    <3>3. \A i \in OpenNotices : i \in DOMAIN Page /\ IsOpenNotice(Page[i])
      BY <3>1, <3>2 DEF OpenNotices
    <3>4. QED
      BY <2>4, <3>1, <3>3 DEF HasUnreadNotice
  <2>5. CASE HasUnreadNotice
    <3>1. \A q \in Pollers : polls'[q] = "create" => polls[q] = "create"
      BY <1>0, <2>1, <2>5
    <3>2. ~crowded' => ~crowded
      BY <2>1
    <3>3. QED
      BY <1>0, <2>1, <2>2, <2>3, <3>1, <3>2 DEF PollsInv
  <2>6. CASE ~HasUnreadNotice
    <3>1. \A q \in Pollers : polls'[q] = "create" => polls[q] = "create" \/ q = p
      BY <1>0, <2>1, <2>6
    <3>2. ~crowded' => OpenNotices = {} /\ \A q \in Pollers : polls'[q] = "create" => q = p
      BY <2>4, <2>6, <3>1
    <3>3. QED
      BY <1>0, <2>1, <2>2, <2>3, <3>2 DEF PollsInv
  <2>7. QED
    BY <2>5, <2>6
<1>2. ASSUME NEW p \in Pollers, createNotice(p) PROVE PollsInv'
  <2> DEFINE n == [fault |-> TRUE, unread |-> TRUE]
  <2>1. /\ polls[p] = "create" /\ polls' = [polls EXCEPT ![p] = "over"] /\ UNCHANGED crowded
        /\ notices' = <<n>> \o notices \/ UNCHANGED notices
    BY <1>2 DEF createNotice
  <2>2. /\ polls' \in [Pollers -> {"idle", "create", "over"}]
        /\ \A q \in Pollers : polls'[q] = "create" => polls[q] = "create" /\ q # p
    BY <1>0, <2>1
  <2>3. ~crowded => OpenNotices = {} /\ \A q \in Pollers : polls'[q] # "create"
    BY <2>1, <2>2 DEF PollsInv
  <2>4. notices' \in Seq(Notices) /\ (~crowded => \A i, j \in OpenNotices' : i = j)
    <3>1. CASE UNCHANGED notices
      BY <1>0, <2>3, <3>1 DEF OpenNotices
    <3>2. CASE notices' = <<n>> \o notices
      <4>1. n \in Notices
        BY DEF Notices
      <4> HIDE DEF n
      <4>2. QED
        BY <1>0, <2>3, <3>2, <4>1, PutInFront
    <3>3. QED
      BY <2>1, <3>1, <3>2
  <2>5. QED
    BY <1>0, <2>1, <2>2, <2>3, <2>4 DEF PollsInv
<1>3. ASSUME NEW p \in Pollers, pollAgain(p) PROVE PollsInv'
  <2>1. /\ polls' = [polls EXCEPT ![p] = "idle"] /\ UNCHANGED <<notices, crowded>>
        /\ OpenNotices' = OpenNotices
    BY <1>3 DEF pollAgain, OpenNotices
  <2>2. /\ polls' \in [Pollers -> {"idle", "create", "over"}]
        /\ \A q \in Pollers : polls'[q] = "create" => polls[q] = "create"
    BY <1>0, <2>1
  <2>3. QED
    BY <2>1, <2>2 DEF PollsInv
<1>4. CASE otherNotice
  <2> DEFINE n == [fault |-> FALSE, unread |-> TRUE]
  <2>1. notices' = <<n>> \o notices /\ UNCHANGED <<polls, crowded>>
    BY <1>4 DEF otherNotice
  <2>2. n \in Notices /\ ~IsOpenNotice(n)
    BY DEF Notices, IsOpenNotice
  <2> HIDE DEF n
  <2>3. notices' \in Seq(Notices) /\ \A i \in OpenNotices' : i - 1 \in OpenNotices /\ i \in Nat
    BY <1>0, <2>1, <2>2, PutInFront
  <2>4. ~crowded => /\ \A i, j \in OpenNotices' : i = j
                    /\ \A q \in Pollers : polls[q] = "create" => OpenNotices' = {}
    <3>1. ASSUME ~crowded, NEW i \in OpenNotices', NEW j \in OpenNotices' PROVE i = j
      <4>1. i - 1 = j - 1
        BY <2>3, <3>1 DEF PollsInv
      <4>2. QED
        BY <2>3, <4>1
    <3>2. ~crowded => \A q \in Pollers : polls[q] = "create" => OpenNotices = {}
      BY DEF PollsInv
    <3>3. QED
      BY <2>3, <3>1, <3>2
  <2>5. QED
    BY <2>1, <2>3, <2>4 DEF PollsInv
<1>5. ASSUME NEW i \in DOMAIN notices, MarkNotificationRead(i) PROVE PollsInv'
  <2>1. notices' = [notices EXCEPT ![i].unread = FALSE] /\ UNCHANGED <<polls, crowded>>
    BY <1>5 DEF MarkNotificationRead
  <2>2. DOMAIN notices = 1..Len(notices) /\ \A j \in DOMAIN notices : notices[j] \in Notices
    BY <1>0
  <2> DEFINE y == [notices[i] EXCEPT !.unread = FALSE]
  <2>3. notices' = [notices EXCEPT ![i] = y] /\ y \in Notices /\ ~IsOpenNotice(y)
    BY <2>1, <2>2 DEF Notices, IsOpenNotice
  <2> HIDE DEF y
  <2>4. /\ notices' \in Seq(Notices) /\ DOMAIN notices' = DOMAIN notices
        /\ \A j \in DOMAIN notices : notices'[j] = IF j = i THEN y ELSE notices[j]
    BY <1>0, <2>3
  <2>5. OpenNotices' \subseteq OpenNotices
    BY <2>3, <2>4 DEF OpenNotices
  <2>6. QED
    BY <2>1, <2>4, <2>5, NoticesAreRead
<1>6. CASE MarkAllNotificationsRead
  <2>1. /\ notices' = [i \in DOMAIN notices |-> [notices[i] EXCEPT !.unread = FALSE]]
        /\ UNCHANGED <<polls, crowded>>
    BY <1>6 DEF MarkAllNotificationsRead
  <2>2. /\ DOMAIN notices = 1..Len(notices) /\ Len(notices) \in Nat
        /\ \A j \in DOMAIN notices : notices[j] \in Notices
    BY <1>0
  <2>3. \A j \in DOMAIN notices : [notices[j] EXCEPT !.unread = FALSE] \in Notices
                                  /\ ~IsOpenNotice([notices[j] EXCEPT !.unread = FALSE])
    BY <2>2 DEF Notices, IsOpenNotice
  <2>4. DOMAIN notices' = DOMAIN notices /\ notices' \in [1..Len(notices) -> Notices]
        /\ \A j \in DOMAIN notices : ~IsOpenNotice(notices'[j])
    BY <2>1, <2>2, <2>3
  <2>5. notices' \in Seq(Notices)
    BY <2>2, <2>4, SeqDef
  <2>6. OpenNotices' = {}
    BY <2>4 DEF OpenNotices
  <2>7. QED
    BY <2>1, <2>5, <2>6, NoticesAreRead
<1>7. CASE PrefsNext \/ UNCHANGED notifyVars
  <2>1. UNCHANGED <<notices, polls, crowded>>
    BY <1>7 DEF PrefsNext, putNotificationPolicy, getNotificationPrefs, putNotificationPrefs,
       UpsertNotificationPrefs, deliverNotification, readPolicy, CreateNotification, noticeVars,
       notifyVars
  <2>2. OpenNotices' = OpenNotices
    BY <2>1 DEF OpenNotices
  <2>3. QED
    BY <2>1, <2>2 DEF PollsInv
<1>8. QED
  BY <1>1, <1>2, <1>3, <1>4, <1>5, <1>6, <1>7 DEF NoticesNext

\* All three hold at first.
LEMMA NotifyStart ==
    ASSUME NotifyInit
    PROVE  PrefsInv /\ DeliveriesInv /\ PollsInv
<1>1. DefaultNotificationPrefs \in Prefs
  BY DEF DefaultNotificationPrefs, Prefs, Channels
<1>2. DefaultNotificationPolicy \in Policies /\ Normalized(DefaultNotificationPolicy)
  BY DEF DefaultNotificationPolicy, Policies, Normalized
<1>3. PrefsInv
  BY <1>1, <1>2 DEF NotifyInit, PrefsInv
<1>4. DeliveriesInv
  <2> DEFINE y == [at |-> "idle", event |-> CHOOSE e \in Events : TRUE, prefs |-> DefaultNotificationPrefs]
  <2>1. (CHOOSE e \in Events : TRUE) \in Events
    BY NotifyAssumption
  <2>2. y \in DeliveryStates
    BY <1>1, <2>1 DEF DeliveryStates
  <2>3. dlv = [d \in Deliveries |-> y] /\ inbox = {} /\ imposed = {} /\ denied = {}
    BY DEF NotifyInit
  <2> HIDE DEF y
  <2>4. QED
    BY <2>2, <2>3 DEF DeliveriesInv
<1>5. PollsInv
  <2>1. notices = <<>> /\ polls = [p \in Pollers |-> "idle"] /\ crowded = FALSE
    BY DEF NotifyInit
  <2>2. OpenNotices = {}
    BY <2>1 DEF OpenNotices
  <2>3. notices \in Seq(Notices)
    BY <2>1
  <2>4. polls \in [Pollers -> {"idle", "create", "over"}] /\ \A p \in Pollers : polls[p] # "create"
    BY <2>1
  <2>5. crowded \in BOOLEAN
    BY <2>1
  <2>6. QED
    BY <2>2, <2>3, <2>4, <2>5 DEF PollsInv
<1>6. QED
  BY <1>3, <1>4, <1>5

\* For any number of users' deliveries, administrators' lists, event types and any page
\* length: a mandatory notification is stored unless a store call failed, nothing is
\* delivered that the user's settings do not show, a saved setting is shown as it will be
\* applied, and the unread notice is one unless lists overlapped
\* (pkg/api/notifications.go, pkg/common/notification_policy.go).
THEOREM NoticesStayHonest == NotifySpec => []NoticesAreHonest
<1> DEFINE Inv == PrefsInv /\ DeliveriesInv /\ PollsInv
<1>1. NotifyInit => Inv
  BY NotifyStart
<1>2. Inv /\ [PrefsNext \/ NoticesNext]_notifyVars => Inv'
  BY PrefsStep, DeliveriesStep, PollsStep
<1>3. Inv => NoticesAreHonest
  <2> SUFFICES ASSUME PrefsInv, DeliveriesInv, PollsInv PROVE NoticesAreHonest
    OBVIOUS
  <2>1. NotifyTypeOK
    BY DEF PrefsInv, DeliveriesInv, PollsInv, NotifyTypeOK
  <2>2. MandateIsHonoured
    BY DEF DeliveriesInv, MandateIsHonoured
  <2>3. DeliveredIsShown
    BY DEF PrefsInv, Honest, Covers, DeliveredIsShown
  <2>4. OneUnreadNotice
    <3>1. SUFFICES ASSUME ~crowded PROVE Cardinality(OpenNotices) <= 1
      BY DEF OneUnreadNotice
    <3>2. CASE OpenNotices = {}
      BY <3>2, FS_EmptySet
    <3>3. ASSUME NEW i \in OpenNotices PROVE Cardinality(OpenNotices) <= 1
      <4>1. OpenNotices = {i}
        BY <3>1, <3>3 DEF PollsInv
      <4>2. QED
        BY <4>1, FS_Singleton
    <3>4. QED
      BY <3>2, <3>3
  <2>5. QED
    BY <2>1, <2>2, <2>3, <2>4 DEF NoticesAreHonest
<1> HIDE DEF Inv
<1>4. QED
  BY <1>1, <1>2, <1>3, PTL DEF NotifySpec

(**** Machines, agents and accounts ****)

\* The enrolment e has created its row.
Created(e) == enrol[e] \notin {"idle", "absent", "user"} /\ (~sshCA => enrol[e] = "enrolled")

\* A record of the machine, as every reader and writer has it.
Known(r) == r \in Machine /\ Created(r.id)

\* Its agent_id is the account its enrolment created, if no request changed it.
Own(r) == (~sshCA /\ r.id \notin Creations /\ r.id \notin handSet) => r.agentID = r.id

\* The machine's row and the records read from it.
RecordsInv ==
    /\ sshCA \in BOOLEAN /\ agentUsers \subseteq Enrolments
    /\ enrol \in [Enrolments -> {"idle", "absent", "user", "row", "undo", "enrolled", "over"}]
    /\ editing \in [Editors -> EditStates] /\ del \in [Deleting -> DeleteStates]
    /\ link \in LinkStates
    /\ \A x, y \in machines : x = y
    /\ \A x \in machines : Known(x)
    /\ \A d \in Editors : editing[d].at = "read" => Known(editing[d].of)
    /\ \A d \in Deleting : del[d].at \notin {"idle", "over"} => Known(del[d].of)
    /\ link.at # "off" => Known(link.of)
    /\ \A e \in agentUsers : ~sshCA /\ e \notin Creations /\ enrol[e] \notin {"idle", "absent"}

\* The accounts that the row and the records written back name.
AgentsInv ==
    /\ handSet \subseteq Enrolments
    /\ \A x \in machines : Own(x)
    /\ \A d \in Deleting : del[d].at \notin {"idle", "over"} => Own(del[d].of)
    /\ link.at # "off" => Own(link.of)

\* The tags a record holds of the machine last edited.
Fresh(r) == r.id = acked.of => r.tags = acked.tags

\* As long as nobody held a record when the last edit was written, all have its tags.
TagsInv ==
    /\ acked.of = Nobody \/ (acked.of \in Enrolments /\ Created(acked.of))
    /\ \A d \in Editors : editing[d].at = "read" /\ editing[d].want # NoTags
          => editing[d].of.tags = editing[d].want
    /\ stale = {} =>
          /\ \A x \in machines : Fresh(x)
          /\ \A d \in Editors : editing[d].at = "read" /\ editing[d].want = NoTags
                => Fresh(editing[d].of)
          /\ \A d \in Deleters : del[d].at = "read" => Fresh(del[d].of)
          /\ link.at # "off" => Fresh(link.of)

\* Between the list and the delete the sessions are those listed and late ones.
RowsInv ==
    /\ rows \subseteq DirSessions /\ copied \subseteq DirSessions
    /\ dropped \subseteq copied \cup lateRows
    /\ \A d \in Deleters : /\ del[d].at = "listed" => rows \subseteq del[d].seen \cup lateRows
                           /\ del[d].at = "audited" => rows \subseteq copied \cup lateRows

\* One anonymous account, made under the lock by who found no account.
PeopleInv ==
    /\ people \subseteq Person
    /\ account \in [Accounting -> {"idle", "absent", "locked", "empty", "over"}]
    /\ firstLock \in Accounting \cup {Nobody}
    /\ \A a \in Accounting : account[a] \in {"locked", "empty"} => firstLock = a
    /\ \A a \in Accounting : account[a] = "empty" => \A p \in people : ~p.anonymous
    /\ \A p, q \in people : p.anonymous /\ q.anonymous => p = q

DirInv == RecordsInv /\ AgentsInv /\ FailedEnrolmentLeavesNothing /\ TagsInv /\ RowsInv /\ PeopleInv

\* An enrolment's step leaves the created ones created, and so the records known.
LEMMA KnownStays ==
    ASSUME RecordsInv, UNCHANGED sshCA, \A i \in Enrolments : Created(i) => Created(i)'
    PROVE  \A r : Known(r) => Known(r)'
BY DEF Known, Machine

\* What an enrolment does to its own state.
LEMMA EnrolmentMoves ==
    ASSUME RecordsInv, NEW e \in Enrolments, EnrolSteps(e)
    PROVE  /\ enrol' \in [Enrolments -> {"idle", "absent", "user", "row", "undo", "enrolled", "over"}]
           /\ \A i \in Enrolments : i # e => enrol'[i] = enrol[i]
           /\ UNCHANGED <<sshCA, editing, del, link>>
           /\ \A i \in Enrolments : Created(i) => Created(i)'
<1> USE DEF RecordsInv, EnrolSteps
<1>1. CASE lookup(e)
  BY <1>1 DEF lookup, Created
<1>2. CASE createAgentUser(e)
  BY <1>2 DEF createAgentUser, Created
<1>3. CASE createRow(e)
  BY <1>3 DEF createRow, Created
<1>4. CASE issueHostCert(e)
  BY <1>4 DEF issueHostCert, Created
<1>5. CASE undo(e)
  BY <1>5 DEF undo, Created
<1>6. QED
  BY <1>1, <1>2, <1>3, <1>4, <1>5

\* An edit makes a record of the same machine.
LEMMA EditedKeeps ==
    ASSUME NEW r \in Machine, NEW w \in TagValues \cup {NoTags}, NEW n \in Edited(r, w)
    PROVE  /\ n \in Machine /\ n.id = r.id
           /\ n.tags = IF w = NoTags THEN r.tags ELSE w
BY DirectoryAssumption DEF Edited, Machine

\* Writing back a known record keeps one row of the same machine.
LEMMA RowIsUpdated ==
    ASSUME RecordsInv, NEW r, Known(r), UpdateMachine(r) \/ UNCHANGED machines
    PROVE  /\ \A x, y \in machines' : x = y
           /\ \A x \in machines' : Known(x) /\ (x = r \/ x \in machines)
           /\ \A x \in machines : \E y \in machines' : x.id = y.id
           /\ \A x \in machines' : \E y \in machines : x.id = y.id
BY DEF RecordsInv, UpdateMachine

\* The enrolments keep the records consistent.
LEMMA EnrolmentRecords ==
    ASSUME RecordsInv, NEW e \in Enrolments, EnrolSteps(e)
    PROVE  RecordsInv'
<1>0. /\ enrol' \in [Enrolments -> {"idle", "absent", "user", "row", "undo", "enrolled", "over"}]
      /\ \A i \in Enrolments : i # e => enrol'[i] = enrol[i]
      /\ UNCHANGED <<sshCA, editing, del, link>>
      /\ \A r : Known(r) => Known(r)'
  BY EnrolmentMoves, KnownStays
<1>1. ASSUME agentUsers' \subseteq Enrolments, \A x, y \in machines' : x = y,
        \A x \in machines' : Known(x)',
             \A i \in agentUsers' : ~sshCA /\ i \notin Creations /\ enrol'[i] \notin {"idle", "absent"}
      PROVE  RecordsInv'
  BY <1>0, <1>1 DEF RecordsInv
<1> USE DEF RecordsInv
<1>2. CASE lookup(e)
  BY <1>0, <1>1, <1>2 DEF lookup
<1>3. CASE createAgentUser(e)
  BY <1>0, <1>1, <1>3 DEF createAgentUser
<1>4. CASE createRow(e)
  <2>1. UNCHANGED agentUsers /\ enrol'[e] \notin {"idle", "absent", "user"}
    BY <1>4 DEF createRow
  <2>2. CASE UNCHANGED machines
    BY <1>0, <1>1, <2>1, <2>2
  <2>3. CASE CreateMachine(e) /\ enrol' = [enrol EXCEPT ![e] =
                IF sshCA /\ e \notin Creations THEN "row" ELSE "enrolled"]
    <3>1. PICK on \in BOOLEAN, a \in Enrolments \cup {Nobody} :
             machines' = {[id |-> e, tags |-> NoTags, active |-> on, agentID |-> a]}
      BY <2>3, DirectoryAssumption DEF CreateMachine
    <3> DEFINE y == [id |-> e, tags |-> NoTags, active |-> on, agentID |-> a]
    <3>4. y \in Machine /\ y.id = e
      BY DEF Machine
    <3>5. PICK z : machines' = {z} /\ z \in Machine /\ z.id = e
      BY <3>1, <3>4
    <3>6. Created(e)'
      BY <2>3, <1>0 DEF Created
    <3>7. Known(z)'
      BY <1>0, <3>5, <3>6 DEF Known
    <3>8. QED
      BY <1>0, <1>1, <2>1, <3>5, <3>7
  <2>4. QED
    BY <1>4, <2>2, <2>3 DEF createRow
<1>5. CASE issueHostCert(e)
  BY <1>0, <1>1, <1>5 DEF issueHostCert
<1>6. CASE undo(e)
  <2>1. /\ machines' \subseteq machines /\ agentUsers' \subseteq agentUsers
        /\ agentUsers \ {e} \subseteq agentUsers'
        /\ enrol'[e] = "over"
    BY <1>6 DEF undo, DeleteMachine
  <2>2. QED
    BY <1>0, <1>1, <2>1
<1>7. QED
  BY <1>2, <1>3, <1>4, <1>5, <1>6 DEF EnrolSteps

\* The edits and deletes keep them,
LEMMA ManagerRecords ==
    ASSUME RecordsInv, rows \subseteq DirSessions,
           \/ \E d \in Editors : updateMachine(d)
           \/ \E d \in Deleting : deleteMachine(d) \/ runAgentDelete(d)
    PROVE  RecordsInv'
<1>0. UNCHANGED <<sshCA, enrol>> /\ \A r : Known(r) <=> Known(r)'
  BY DEF updateMachine, deleteMachine, runAgentDelete, Known, Created
<1>1. ASSUME NEW d \in Editors, updateMachine(d) PROVE RecordsInv'
  <2>0. editing[d] \in EditStates /\ UNCHANGED <<agentUsers, del, link>>
    BY <1>1 DEF RecordsInv, updateMachine
  <2>1. CASE readForEdit(d)
    <3>1. PICK r \in machines, w \in TagValues \cup {NoTags} : \E n \in Edited(r, w) :
             editing' = [editing EXCEPT ![d] = [at |-> "read", of |-> n, want |-> w]]
      BY <2>1 DEF readForEdit
    <3>a. PICK n \in Edited(r, w) :
             editing' = [editing EXCEPT ![d] = [at |-> "read", of |-> n, want |-> w]]
      BY <3>1
    <3> DEFINE y == [at |-> "read", of |-> n, want |-> w]
    <3>2. Known(r) /\ UNCHANGED machines
      BY <2>1 DEF RecordsInv, readForEdit
    <3>b. Known(n)
      BY <3>2, <3>a, EditedKeeps DEF Known
    <3>3. y \in EditStates /\ y.of = n
      BY <3>b DEF EditStates, Known
    <3> HIDE DEF y
    <3>4. editing' \in [Editors -> EditStates] /\ editing'[d] = y /\ \A c \in Editors : c # d => editing'[c] = editing[c]
      BY <3>a, <3>3 DEF RecordsInv, y
    <3>5. QED
      BY <1>0, <2>0, <3>2, <3>b, <3>3, <3>4 DEF RecordsInv
  <2>2. CASE writeEdit(d)
    <3> DEFINE n == editing[d].of
               y == [NoEdit EXCEPT !.at = "over"]
    <3>2. Known(n)
      BY <2>0, <2>2 DEF RecordsInv, writeEdit
    <3>3. UpdateMachine(n) \/ UNCHANGED machines
      BY <2>2 DEF writeEdit
    <3>4. y \in EditStates /\ y.at = "over"
      BY DEF NoEdit, EditStates
    <3>5. editing' = [editing EXCEPT ![d] = y]
      BY <2>2 DEF writeEdit
    <3> HIDE DEF n, y
    <3>6. editing' \in [Editors -> EditStates] /\ editing'[d] = y /\ \A c \in Editors : c # d => editing'[c] = editing[c]
      BY <3>4, <3>5 DEF RecordsInv
    <3>7. (\A x, z \in machines' : x = z) /\ \A x \in machines' : Known(x)
      BY <3>2, <3>3, RowIsUpdated
    <3>8. QED
      BY <1>0, <2>0, <3>4, <3>6, <3>7 DEF RecordsInv
  <2>3. QED
    BY <1>1, <2>1, <2>2 DEF updateMachine
<1>2. ASSUME NEW d \in Deleting, deleteMachine(d) \/ runAgentDelete(d) PROVE RecordsInv'
  <2>0. del[d] \in DeleteStates /\ UNCHANGED <<editing, link>>
    BY <1>2 DEF RecordsInv, deleteMachine, runAgentDelete, readForDelete, archive, listSessions,
       writeAudit,
       deleteRow, deleteAgentUser, commandDelete
  <2>1. ASSUME agentUsers' \subseteq agentUsers,
               \A x, y \in machines' : x = y, \A x \in machines' : Known(x),
               \E y \in DeleteStates : /\ del' = [del EXCEPT ![d] = y]
                                       /\ y.at \notin {"idle", "over"} => Known(y.of)
        PROVE  RecordsInv'
    <3>1. PICK y \in DeleteStates : /\ del' = [del EXCEPT ![d] = y]
                                    /\ y.at \notin {"idle", "over"} => Known(y.of)
      BY <2>1
    <3>2. del' \in [Deleting -> DeleteStates] /\ del'[d] = y /\ \A c \in Deleting : c # d => del'[c] = del[c]
      BY <3>1 DEF RecordsInv
    <3>3. QED
      BY <1>0, <2>0, <2>1, <3>1, <3>2 DEF RecordsInv
  <2> DEFINE over == [NoDelete EXCEPT !.at = "over"]
  <2>2. over \in DeleteStates /\ over.at = "over" /\ doneDeleting(d) = [del EXCEPT ![d] = over]
    BY DEF NoDelete, DeleteStates, doneDeleting
  <2> HIDE DEF over
  <2>3. CASE readForDelete(d)
    <3>1. PICK r \in machines : del' = [del EXCEPT ![d] = [at |-> "read", of |-> r, seen |-> {}]]
      BY <2>3 DEF readForDelete
    <3> DEFINE y == [at |-> "read", of |-> r, seen |-> {}]
    <3>2. Known(r) /\ UNCHANGED <<machines, agentUsers>>
      BY <2>3 DEF RecordsInv, readForDelete
    <3>3. y \in DeleteStates /\ y.of = r
      BY <3>2 DEF DeleteStates, Known
    <3>4. QED
      BY <2>1, <3>1, <3>2, <3>3 DEF RecordsInv
  <2>4. CASE archive(d)
    <3> DEFINE n == [del[d].of EXCEPT !.active = FALSE]
    <3>1. Known(del[d].of)
      BY <2>4 DEF RecordsInv, archive
    <3>2. n \in Machine /\ n.id = del[d].of.id /\ n.agentID = del[d].of.agentID
      BY <3>1 DEF Machine, Known
    <3>3. UpdateMachine(n) \/ UNCHANGED machines
      BY <2>4 DEF archive
    <3> HIDE DEF n
    <3>4. Known(n)
      BY <3>1, <3>2 DEF Known
    <3>5. (\A x, z \in machines' : x = z) /\ \A x \in machines' : Known(x)
      BY <3>3, <3>4, RowIsUpdated
    <3>6. QED
      BY <2>1, <2>2, <2>4, <3>5 DEF archive
  <2>5. CASE listSessions(d) \/ writeAudit(d)
    <3>1. Known(del[d].of) /\ UNCHANGED <<machines, agentUsers>>
      BY <2>5 DEF RecordsInv, listSessions, writeAudit
    <3>2. \E y \in DeleteStates : del' = [del EXCEPT ![d] = y] /\ (y.at \notin {"idle", "over"} => Known(y.of))
      <4>1. CASE del' = doneDeleting(d)
        BY <2>2, <4>1
      <4>2. CASE /\ del' = [del EXCEPT ![d].at = "listed", ![d].seen = ListMachineSessions]
                 /\ listSessions(d)
        <5> DEFINE y == [del[d] EXCEPT !.at = "listed", !.seen = rows]
        <5>1. y \in DeleteStates /\ y.of = del[d].of
          BY <2>0 DEF DeleteStates
        <5>2. del' = [del EXCEPT ![d] = y]
          BY <2>0, <4>2 DEF ListMachineSessions, DeleteStates, RecordsInv
        <5>3. QED
          BY <3>1, <5>1, <5>2
      <4>3. CASE del' = [del EXCEPT ![d].at = "audited"]
        <5> DEFINE y == [del[d] EXCEPT !.at = "audited"]
        <5>1. del' = [del EXCEPT ![d] = y] /\ y \in DeleteStates /\ y.of = del[d].of
          BY <2>0, <4>3 DEF DeleteStates, RecordsInv
        <5>2. QED
          BY <3>1, <5>1
      <4>4. QED
        BY <2>5, <4>1, <4>2, <4>3 DEF listSessions, writeAudit
    <3>3. QED
      BY <2>1, <3>1, <3>2 DEF RecordsInv
  <2>6. CASE deleteRow(d) \/ commandDelete(d)
    <3>1. Known(del[d].of) /\ UNCHANGED agentUsers /\ machines' \subseteq machines
      BY <2>6 DEF RecordsInv, deleteRow, commandDelete, DeleteMachine
    <3>2. \E y \in DeleteStates : del' = [del EXCEPT ![d] = y] /\ (y.at \notin {"idle", "over"} => Known(y.of))
      <4>1. CASE del' = doneDeleting(d)
        BY <2>2, <4>1
      <4>2. CASE del' = [del EXCEPT ![d] = [@ EXCEPT !.at = "deleted", !.seen = {}]]
        <5> DEFINE y == [del[d] EXCEPT !.at = "deleted", !.seen = {}]
        <5>1. del' = [del EXCEPT ![d] = y] /\ y \in DeleteStates /\ y.of = del[d].of
          BY <2>0, <4>2 DEF DeleteStates, RecordsInv
        <5>2. QED
          BY <3>1, <5>1
      <4>3. QED
        BY <2>6, <4>1, <4>2 DEF deleteRow, commandDelete, afterDelete
    <3>3. QED
      BY <2>1, <3>1, <3>2 DEF RecordsInv
  <2>7. CASE deleteAgentUser(d)
    <3>1. Known(del[d].of) /\ UNCHANGED machines /\ del' = doneDeleting(d)
          /\ agentUsers' \subseteq agentUsers
          /\ agentUsers \ {del[d].of.agentID} \subseteq agentUsers'
      BY <2>7 DEF RecordsInv, deleteAgentUser
    <3>2. QED
      BY <2>1, <2>2, <3>1 DEF RecordsInv
  <2>8. QED
    BY <1>2, <2>3, <2>4, <2>5, <2>6, <2>7 DEF deleteMachine, runAgentDelete
<1>3. QED
  BY <1>1, <1>2

\* ... and so does the agent's connection.
LEMMA LinkRecords ==
    ASSUME RecordsInv, handleAgentConnection
    PROVE  RecordsInv'
<1>0. UNCHANGED <<sshCA, agentUsers, enrol, editing, del>> /\ \A r : Known(r) <=> Known(r)'
  BY DEF handleAgentConnection, Known, Created
<1>1. ASSUME \A x, y \in machines' : x = y, \A x \in machines' : Known(x), link' \in LinkStates,
             link'.at # "off" => Known(link'.of)
      PROVE  RecordsInv'
  BY <1>0, <1>1 DEF RecordsInv
<1>2. CASE agentAuthenticates
  <2>1. PICK r \in machines : link' = [at |-> "loaded", of |-> r]
    BY <1>2 DEF agentAuthenticates
  <2>2. Known(r) /\ UNCHANGED machines
    BY <1>2 DEF agentAuthenticates, RecordsInv
  <2>3. link' \in LinkStates /\ link'.of = r
    BY <2>1, <2>2 DEF LinkStates, Known
  <2>4. QED
    BY <1>1, <2>2, <2>3 DEF RecordsInv
<1>3. CASE agentConnects
  <2> DEFINE n == [link.of EXCEPT !.active = TRUE]
  <2>1. Known(link.of)
    BY <1>3 DEF RecordsInv, agentConnects
  <2>2. n \in Machine /\ n.id = link.of.id /\ n.agentID = link.of.agentID
    BY <2>1 DEF Machine, Known
  <2>3. link' = [at |-> "on", of |-> n]
    BY <1>3 DEF agentConnects
  <2> HIDE DEF n
  <2>4. Known(n) /\ link' \in LinkStates /\ link'.of = n
    BY <2>1, <2>2, <2>3 DEF Known, LinkStates
  <2>5. UpdateMachine(n) \/ UNCHANGED machines
    BY <1>3, <2>4 DEF agentConnects
  <2>6. QED
    BY <1>1, <2>4, <2>5, RowIsUpdated
<1>4. CASE agentDisconnects
  <2> DEFINE n == [link.of EXCEPT !.active = FALSE]
  <2>1. Known(link.of)
    BY <1>4 DEF RecordsInv, agentDisconnects
  <2>2. n \in Machine /\ n.id = link.of.id /\ n.agentID = link.of.agentID
    BY <2>1 DEF Machine, Known
  <2>3. UpdateMachine(n) \/ UNCHANGED machines
    BY <1>4 DEF agentDisconnects
  <2> HIDE DEF n
  <2>4. Known(n)
    BY <2>1, <2>2 DEF Known
  <2>5. link' \in LinkStates /\ link'.at = "off"
    BY <1>4 DEF agentDisconnects, LinkStates
  <2>6. QED
    BY <1>1, <2>3, <2>4, <2>5, RowIsUpdated
<1>5. QED
  BY <1>2, <1>3, <1>4 DEF handleAgentConnection

\* Every step keeps the records.
LEMMA RecordsStep ==
    ASSUME RecordsInv, rows \subseteq DirSessions, [MachinesNext \/ AccountsNext]_dirVars
    PROVE  RecordsInv'
<1>1. ASSUME NEW e \in Enrolments,
             registerAgent(e) \/ generateAgentInstallScript(e) \/ runAgentRegister(e) \/ createMachine(e)
      PROVE  RecordsInv'
  BY <1>1, EnrolmentRecords DEF registerAgent, generateAgentInstallScript, runAgentRegister,
     createMachine
<1>2. CASE \/ \E d \in Editors : updateMachine(d)
           \/ \E d \in Deleting : deleteMachine(d) \/ runAgentDelete(d)
  BY <1>2, ManagerRecords
<1>3. CASE handleAgentConnection
  BY <1>3, LinkRecords
<1>4. CASE AccountsNext \/ UNCHANGED dirVars \/ \E s \in DirSessions : openSession(s)
  <2>1. UNCHANGED <<sshCA, machines, agentUsers, enrol, editing, del, link>>
    BY <1>4 DEF AccountsNext, registerClient, createUser, runUserCreate, runSetup, deleteUser,
       runUserDelete, DeleteUser, dirVars, machineVars, openSession
  <2>2. QED
    BY <2>1 DEF RecordsInv, Known, Created
<1>5. QED
  BY <1>1, <1>2, <1>3, <1>4 DEF MachinesNext

\* Every step keeps the accounts of machines no request has moved.
LEMMA AgentsStep ==
    ASSUME RecordsInv, AgentsInv, [MachinesNext \/ AccountsNext]_dirVars
    PROVE  AgentsInv'
<1>1. ASSUME NEW e \in Enrolments,
             registerAgent(e) \/ generateAgentInstallScript(e) \/ runAgentRegister(e) \/ createMachine(e)
      PROVE  AgentsInv'
  <2>1. EnrolSteps(e)
    BY <1>1 DEF registerAgent, generateAgentInstallScript, runAgentRegister, createMachine
  <2>2. UNCHANGED <<sshCA, handSet, del, link>>
    BY <2>1 DEF EnrolSteps
  <2>3. \A x \in machines' : x \in machines \/ Own(x)
    BY <2>1 DEF EnrolSteps, lookup, createAgentUser, createRow, issueHostCert, undo, CreateMachine,
       DeleteMachine, Own
  <2>4. QED
    BY <2>2, <2>3 DEF AgentsInv, Own
<1>2. ASSUME NEW d \in Editors, updateMachine(d) PROVE AgentsInv'
  <2>0. UNCHANGED <<sshCA, del, link>>
    BY <1>2 DEF updateMachine
  <2>1. CASE UNCHANGED <<machines, handSet>>
    BY <2>0, <2>1 DEF AgentsInv, Own
  <2>2. CASE writeEdit(d) /\ ~UNCHANGED <<machines, handSet>>
    <3> DEFINE n == editing[d].of
    <3>1. Known(n) /\ UpdateMachine(n)
          /\ handSet' = handSet \cup {x.id : x \in {y \in {z \in machines : z.id = n.id} :
                                                       y.agentID # n.agentID}}
      BY <2>2 DEF RecordsInv, writeEdit
    <3> HIDE DEF n
    <3>2. handSet \subseteq handSet' /\ handSet' \subseteq Enrolments
      BY <3>1 DEF AgentsInv, Known, Machine
    <3>3. \A x \in machines' : Own(x)'
      BY <2>0, <3>1, <3>2 DEF UpdateMachine, AgentsInv, Own
    <3>4. QED
      BY <2>0, <3>2, <3>3 DEF AgentsInv, Own
  <2>3. QED
    BY <1>2, <2>1, <2>2 DEF updateMachine, readForEdit
<1>3. ASSUME NEW d \in Deleting, deleteMachine(d) \/ runAgentDelete(d) PROVE AgentsInv'
  <2>0. UNCHANGED <<sshCA, handSet, link>> /\ del \in [Deleting -> DeleteStates]
    BY <1>3 DEF RecordsInv, deleteMachine, runAgentDelete, readForDelete, archive, listSessions,
       writeAudit, deleteRow, deleteAgentUser, commandDelete
  <2>1. \A c \in Deleting : c # d => del'[c] = del[c]
    BY <1>3, <2>0 DEF deleteMachine, runAgentDelete, readForDelete, archive, listSessions,
       writeAudit, deleteRow, deleteAgentUser, commandDelete, doneDeleting, afterDelete
  <2>2. del'[d].at \notin {"idle", "over"} =>
          del'[d].of \in machines \/ (del'[d].of = del[d].of /\ del[d].at \notin {"idle", "over"})
    <3> USE <2>0 DEF doneDeleting, NoDelete, DeleteStates
    <3>1. CASE readForDelete(d)
      BY <3>1 DEF readForDelete
    <3>2. CASE listSessions(d) \/ writeAudit(d)
      BY <3>2 DEF listSessions, writeAudit
    <3>3. CASE deleteRow(d) \/ commandDelete(d)
      BY <3>3 DEF deleteRow, commandDelete, afterDelete
    <3>4. CASE archive(d) \/ deleteAgentUser(d)
      BY <3>4 DEF archive, deleteAgentUser
    <3>5. QED
      BY <1>3, <3>1, <3>2, <3>3, <3>4 DEF deleteMachine, runAgentDelete
  <2>3. \A x \in machines' : x \in machines \/ Own(x)
    <3>1. CASE archive(d)
      <4> DEFINE n == [del[d].of EXCEPT !.active = FALSE]
      <4>1. Known(del[d].of) /\ Own(del[d].of)
        BY <3>1 DEF RecordsInv, AgentsInv, archive
      <4>2. n.id = del[d].of.id /\ n.agentID = del[d].of.agentID
        BY <4>1 DEF Machine, Known
      <4>3. UpdateMachine(n) \/ UNCHANGED machines
        BY <3>1 DEF archive
      <4> HIDE DEF n
      <4>4. QED
        BY <4>1, <4>2, <4>3 DEF UpdateMachine, Own
    <3>2. CASE ~archive(d)
      BY <1>3, <3>2 DEF deleteMachine, runAgentDelete, readForDelete, listSessions, writeAudit,
         deleteRow, deleteAgentUser, commandDelete, DeleteMachine
    <3>3. QED
      BY <3>1, <3>2
  <2>4. QED
    BY <2>0, <2>1, <2>2, <2>3 DEF AgentsInv, Own
<1>4. CASE handleAgentConnection
  <2>0. UNCHANGED <<sshCA, handSet, del>>
    BY <1>4 DEF handleAgentConnection
  <2>1. CASE agentAuthenticates
    <3>1. PICK r \in machines : link' = [at |-> "loaded", of |-> r]
      BY <2>1 DEF agentAuthenticates
    <3>2. UNCHANGED machines /\ link'.of = r
      BY <2>1, <3>1 DEF agentAuthenticates
    <3>3. QED
      BY <2>0, <3>2 DEF AgentsInv, Own
  <2>2. CASE agentConnects
    <3> DEFINE n == [link.of EXCEPT !.active = TRUE]
    <3>1. Known(link.of) /\ Own(link.of) /\ link'.of = n
      BY <2>2 DEF RecordsInv, AgentsInv, agentConnects
    <3>2. n.id = link.of.id /\ n.agentID = link.of.agentID
      BY <3>1 DEF Machine, Known
    <3> HIDE DEF n
    <3>3. \A x \in machines' : x \in machines \/ x = n
      BY <2>2, <3>1 DEF agentConnects, UpdateMachine
    <3>4. QED
      BY <2>0, <3>1, <3>2, <3>3 DEF AgentsInv, Own
  <2>3. CASE agentDisconnects
    <3> DEFINE n == [link.of EXCEPT !.active = FALSE]
    <3>1. Known(link.of) /\ Own(link.of) /\ link'.at = "off"
      BY <2>3 DEF RecordsInv, AgentsInv, agentDisconnects
    <3>2. n.id = link.of.id /\ n.agentID = link.of.agentID
      BY <3>1 DEF Machine, Known
    <3>3. UpdateMachine(n) \/ UNCHANGED machines
      BY <2>3 DEF agentDisconnects
    <3> HIDE DEF n
    <3>4. \A x \in machines' : x \in machines \/ x = n
      BY <3>3 DEF UpdateMachine
    <3>5. QED
      BY <2>0, <3>1, <3>2, <3>4 DEF AgentsInv, Own
  <2>4. QED
    BY <1>4, <2>1, <2>2, <2>3 DEF handleAgentConnection
<1>5. CASE AccountsNext \/ UNCHANGED dirVars \/ \E s \in DirSessions : openSession(s)
  <2>1. UNCHANGED <<sshCA, machines, del, link, handSet>>
    BY <1>5 DEF AccountsNext, registerClient, createUser, runUserCreate, runSetup, deleteUser,
       runUserDelete, DeleteUser, dirVars, machineVars, openSession
  <2>2. QED
    BY <2>1 DEF AgentsInv, Own
<1>6. QED
  BY <1>1, <1>2, <1>3, <1>4, <1>5 DEF MachinesNext

\* A row written back belongs to the same agent user.
LEMMA SameAgent ==
    ASSUME RecordsInv, AgentsInv', FailedEnrolmentLeavesNothing, handSet \subseteq handSet',
           UNCHANGED <<sshCA, enrol, agentUsers, failedUndo>>,
           \A x \in machines : \E y \in machines' : x.id = y.id,
           \A x \in machines' : \E y \in machines : x.id = y.id,
           \A d \in Deleting : del[d].at = "deleted" => del'[d] = del[d]
    PROVE  FailedEnrolmentLeavesNothing'
<1>1. \A x \in machines' : Own(x)'
  BY DEF AgentsInv
<1>2. \A x \in machines' : enrol[x.id] = "over" => x.id \in failedUndo
  BY DEF FailedEnrolmentLeavesNothing
<1>3. \A u \in agentUsers : ~sshCA /\ u \notin Creations
  BY DEF RecordsInv
<1>4. ASSUME NEW u \in agentUsers \ (failedUndo \cup handSet'), NEW x \in machines, x.id = u
      PROVE  \E y \in machines' : y.id = u /\ y.agentID = u
  BY <1>1, <1>3, <1>4 DEF Own
<1>5. QED
  BY <1>2, <1>4 DEF FailedEnrolmentLeavesNothing

\* An enrolment cleans up after itself.
LEMMA EnrolmentCleansUp ==
    ASSUME RecordsInv, FailedEnrolmentLeavesNothing, NEW e \in Enrolments, EnrolSteps(e)
    PROVE  FailedEnrolmentLeavesNothing'
<1>0. /\ \A i \in Enrolments : i # e => enrol'[i] = enrol[i]
      /\ UNCHANGED <<sshCA, del, handSet>>
  BY EnrolmentMoves DEF EnrolSteps
<1>1. /\ \A x \in machines : x.id \in Enrolments /\ Created(x.id)
      /\ agentUsers \subseteq Enrolments
      /\ enrol \in [Enrolments -> {"idle", "absent", "user", "row", "undo", "enrolled", "over"}]
      /\ \A i \in agentUsers : ~sshCA /\ i \notin Creations /\ enrol[i] \notin {"idle", "absent"}
  BY DEF RecordsInv, Known, Machine
<1> USE DEF FailedEnrolmentLeavesNothing, Created
<1>2. CASE lookup(e)
  BY <1>0, <1>1, <1>2 DEF lookup
<1>3. CASE createAgentUser(e)
  BY <1>0, <1>1, <1>3 DEF createAgentUser
<1>4. CASE createRow(e)
  <2>1. CASE /\ enrol' = [enrol EXCEPT ![e] = IF @ = "user" THEN "undo" ELSE "over"]
             /\ UNCHANGED machines
    <3>1. UNCHANGED <<agentUsers, failedUndo>> /\ enrol[e] \in {"user", "absent"}
      BY <1>4 DEF createRow
    <3>2. QED
      BY <1>0, <1>1, <2>1, <3>1
  <2>2. CASE CreateMachine(e) /\ enrol' = [enrol EXCEPT ![e] =
                IF sshCA /\ e \notin Creations THEN "row" ELSE "enrolled"]
    <3>1. machines = {} /\ UNCHANGED <<agentUsers, failedUndo>> /\ enrol'[e] # "over"
      BY <1>1, <1>4, <2>2 DEF createRow, CreateMachine
    <3>2. PICK z : machines' = {z} /\ z.id = e /\ (e \in agentUsers => z.agentID = e)
      <4>1. PICK on, a : /\ machines' = {[id |-> e, tags |-> NoTags, active |-> on, agentID |-> a]}
                         /\ e \in Creations \/ a = (IF sshCA THEN Nobody ELSE e)
        BY <2>2 DEF CreateMachine
      <4>2. e \in agentUsers => a = e
        BY <1>1, <4>1
      <4>3. QED
        BY <4>1, <4>2
    <3>3. QED
      BY <1>0, <1>1, <3>1, <3>2
  <2>3. QED
    BY <1>4, <2>1, <2>2 DEF createRow
<1>5. CASE issueHostCert(e)
  BY <1>0, <1>1, <1>5 DEF issueHostCert
<1>6. CASE undo(e)
  BY <1>0, <1>1, <1>6 DEF undo, DeleteMachine
<1>7. QED
  BY <1>2, <1>3, <1>4, <1>5, <1>6 DEF EnrolSteps

\* A delete removes one machine and then its agent user.
LEMMA DeleteCleansUp ==
    ASSUME RecordsInv, AgentsInv, AgentsInv', FailedEnrolmentLeavesNothing, NEW d \in Deleting,
           deleteMachine(d) \/ runAgentDelete(d)
    PROVE  FailedEnrolmentLeavesNothing'
<1>0. UNCHANGED <<sshCA, enrol, handSet>> /\ del \in [Deleting -> DeleteStates]
  BY DEF RecordsInv, deleteMachine, runAgentDelete
<1>1. CASE readForDelete(d) \/ listSessions(d) \/ writeAudit(d)
  <2>1. UNCHANGED <<machines, agentUsers, failedUndo>> /\ del[d].at # "deleted"
        /\ \A c \in Deleting : c # d => del'[c] = del[c]
    BY <1>0, <1>1 DEF readForDelete, listSessions, writeAudit, doneDeleting
  <2>2. QED
    BY <1>0, <2>1, SameAgent DEF RecordsInv
<1>2. CASE archive(d)
  <2> DEFINE n == [del[d].of EXCEPT !.active = FALSE]
  <2>1. Known(del[d].of)
    BY <1>2 DEF RecordsInv, archive
  <2>2. n \in Machine /\ n.id = del[d].of.id /\ n.agentID = del[d].of.agentID
    BY <2>1 DEF Machine, Known
  <2>3. UpdateMachine(n) \/ UNCHANGED machines
    BY <1>2 DEF archive
  <2> HIDE DEF n
  <2>4. Known(n)
    BY <2>1, <2>2 DEF Known
  <2>5. UNCHANGED <<agentUsers, failedUndo>> /\ del[d].at # "deleted" /\ \A c \in Deleting : c # d => del'[c] = del[c]
    BY <1>0, <1>2 DEF archive, doneDeleting
  <2>6. QED
    BY <1>0, <2>3, <2>4, <2>5, RowIsUpdated, SameAgent
<1>3. CASE deleteRow(d) \/ commandDelete(d)
  <2>0. /\ UNCHANGED <<agentUsers, failedUndo>> /\ del[d].at # "deleted"
        /\ \A c \in Deleting : c # d => del'[c] = del[c]
        /\ machines' \subseteq machines
    BY <1>0, <1>3 DEF deleteRow, commandDelete, afterDelete, doneDeleting, DeleteMachine
  <2>1. CASE UNCHANGED machines
    BY <1>0, <2>0, <2>1, SameAgent DEF RecordsInv
  <2>2. CASE DeleteMachine(del[d].of.id) /\ afterDelete(d) /\ machines' # machines
    <3>1. PICK x \in machines : x.id = del[d].of.id
      BY <2>2 DEF DeleteMachine
    <3>2. machines = {x} /\ Own(del[d].of)
      BY <1>3, <3>1 DEF RecordsInv, AgentsInv, deleteRow, commandDelete
    <3>3. del[d].of.agentID # Nobody => del'[d].at = "deleted" /\ del'[d].of.agentID = del[d].of.agentID
      BY <1>0, <2>2, <3>1 DEF afterDelete, DeleteStates
    <3>4. \A u \in agentUsers \ handSet : u # Nobody /\ (x.id = u => del[d].of.agentID = u)
      BY <3>1, <3>2, DirectoryAssumption DEF RecordsInv, Own
    <3>5. QED
      BY <1>0, <2>0, <3>2, <3>3, <3>4 DEF FailedEnrolmentLeavesNothing
  <2>3. QED
    BY <1>3, <2>1, <2>2 DEF deleteRow, commandDelete
<1>4. CASE deleteAgentUser(d)
  <2>1. \A c \in Deleting : c # d => del'[c] = del[c]
    BY <1>0, <1>4 DEF deleteAgentUser, doneDeleting
  <2>2. /\ UNCHANGED machines /\ agentUsers' \subseteq agentUsers
        /\ failedUndo \subseteq failedUndo'
        /\ del[d].of.agentID \notin agentUsers' \ failedUndo'
    BY <1>4 DEF deleteAgentUser
  <2>3. QED
    BY <1>0, <2>1, <2>2 DEF FailedEnrolmentLeavesNothing
<1>5. QED
  BY <1>1, <1>2, <1>3, <1>4 DEF deleteMachine, runAgentDelete

\* Whatever is left of an enrolment or a machine is on its way out.
LEMMA UsersStep ==
    ASSUME RecordsInv, AgentsInv, AgentsInv', FailedEnrolmentLeavesNothing,
           [MachinesNext \/ AccountsNext]_dirVars
    PROVE  FailedEnrolmentLeavesNothing'
<1>1. ASSUME NEW e \in Enrolments,
             registerAgent(e) \/ generateAgentInstallScript(e) \/ runAgentRegister(e) \/ createMachine(e)
      PROVE  FailedEnrolmentLeavesNothing'
  BY <1>1, EnrolmentCleansUp DEF registerAgent, generateAgentInstallScript, runAgentRegister,
     createMachine
<1>2. ASSUME NEW d \in Editors, updateMachine(d) PROVE FailedEnrolmentLeavesNothing'
  <2>0. UNCHANGED <<sshCA, enrol, agentUsers, failedUndo, del>>
    BY <1>2 DEF updateMachine
  <2>1. CASE UNCHANGED <<machines, handSet>>
    BY <2>0, <2>1, SameAgent DEF RecordsInv
  <2>2. CASE writeEdit(d)
    <3> DEFINE n == editing[d].of
    <3>1. Known(n) /\ handSet \subseteq handSet'
      BY <2>2 DEF RecordsInv, writeEdit
    <3>2. UpdateMachine(n) \/ UNCHANGED machines
      BY <2>2 DEF writeEdit
    <3> HIDE DEF n
    <3>3. QED
      BY <2>0, <3>1, <3>2, RowIsUpdated, SameAgent
  <2>3. QED
    BY <1>2, <2>1, <2>2 DEF updateMachine, readForEdit
<1>3. ASSUME NEW d \in Deleting,
        deleteMachine(d) \/ runAgentDelete(d) PROVE FailedEnrolmentLeavesNothing'
  BY <1>3, DeleteCleansUp
<1>4. CASE handleAgentConnection
  <2>0. UNCHANGED <<sshCA, enrol, agentUsers, failedUndo, handSet, del>>
    BY <1>4 DEF handleAgentConnection
  <2>1. CASE UNCHANGED machines
    BY <2>0, <2>1, SameAgent DEF RecordsInv
  <2>2. CASE agentConnects \/ agentDisconnects
    <3>1. PICK on \in BOOLEAN : UpdateMachine([link.of EXCEPT !.active = on]) \/ UNCHANGED machines
      <4>1. CASE agentDisconnects
        BY <4>1 DEF agentDisconnects
      <4>2. CASE agentConnects
        <5>1. link'.of = [link.of EXCEPT !.active = TRUE]
          BY <4>2 DEF agentConnects
        <5>2. QED
          BY <4>2, <5>1 DEF agentConnects
      <4>3. QED
        BY <2>2, <4>1, <4>2
    <3> DEFINE n == [link.of EXCEPT !.active = on]
    <3>2. Known(link.of)
      BY <2>2 DEF RecordsInv, agentConnects, agentDisconnects
    <3>3. n \in Machine /\ n.id = link.of.id /\ n.agentID = link.of.agentID
      BY <3>2 DEF Machine, Known
    <3> HIDE DEF n
    <3>4. Known(n)
      BY <3>2, <3>3 DEF Known
    <3>5. QED
      BY <2>0, <3>1, <3>4, RowIsUpdated, SameAgent DEF n
  <2>3. QED
    BY <1>4, <2>1, <2>2 DEF handleAgentConnection, agentAuthenticates
<1>5. CASE AccountsNext \/ UNCHANGED dirVars \/ \E s \in DirSessions : openSession(s)
  <2>1. UNCHANGED <<sshCA, machines, agentUsers, enrol, del, failedUndo, handSet>>
    BY <1>5 DEF AccountsNext, registerClient, createUser, runUserCreate, runSetup, deleteUser,
       runUserDelete, DeleteUser, dirVars, machineVars, openSession
  <2>2. QED
    BY <2>1 DEF FailedEnrolmentLeavesNothing
<1>6. QED
  BY <1>1, <1>2, <1>3, <1>4, <1>5 DEF MachinesNext

\* Every step keeps the tags of the last edit, or has a holder to blame.
LEMMA TagsStep ==
    ASSUME RecordsInv, TagsInv, [MachinesNext \/ AccountsNext]_dirVars
    PROVE  TagsInv'
<1>1. ASSUME NEW e \in Enrolments,
             registerAgent(e) \/ generateAgentInstallScript(e) \/ runAgentRegister(e) \/ createMachine(e)
      PROVE  TagsInv'
  <2>1. EnrolSteps(e)
    BY <1>1 DEF registerAgent, generateAgentInstallScript, runAgentRegister, createMachine
  <2>2. UNCHANGED <<editing, del, link, acked, stale>> /\ \A i \in Enrolments : Created(i) => Created(i)'
    BY <2>1, EnrolmentMoves DEF EnrolSteps
  <2>3. \A x \in machines' : x \in machines \/ (x.id = e /\ ~Created(e))
    BY <2>1 DEF EnrolSteps, lookup, createAgentUser, createRow, issueHostCert, undo, CreateMachine,
       DeleteMachine, Created
  <2>4. QED
    BY <2>2, <2>3, DirectoryAssumption DEF TagsInv, Fresh
<1>2. ASSUME NEW d \in Editors, updateMachine(d) PROVE TagsInv'
  <2>0. UNCHANGED <<sshCA, enrol, del, link>> /\ editing \in [Editors -> EditStates]
        /\ \A i : Created(i)' <=> Created(i)
    BY <1>2 DEF updateMachine, RecordsInv, Created
  <2>1. CASE readForEdit(d)
    <3>0. PICK r \in machines, w \in TagValues \cup {NoTags} : \E n \in Edited(r, w) :
             editing' = [editing EXCEPT ![d] = [at |-> "read", of |-> n, want |-> w]]
      BY <2>1 DEF readForEdit
    <3>a. PICK n \in Edited(r, w) :
             editing' = [editing EXCEPT ![d] = [at |-> "read", of |-> n, want |-> w]]
      BY <3>0
    <3>b. r \in Machine
      BY DEF RecordsInv, Known
    <3>1. /\ editing' = [editing EXCEPT ![d] = [at |-> "read", of |-> n, want |-> w]]
          /\ n.id = r.id /\ n.tags = IF w = NoTags THEN r.tags ELSE w
      BY <3>a, <3>b, EditedKeeps
    <3>2. UNCHANGED <<machines, acked, stale>> /\ editing'[d].of = n /\ editing'[d].want = w
          /\ \A c \in Editors : c # d => editing'[c] = editing[c]
      BY <2>0, <2>1, <3>1 DEF readForEdit
    <3>3. QED
      BY <2>0, <3>1, <3>2 DEF TagsInv, Fresh
  <2>2. CASE writeEdit(d)
    <3> DEFINE n == editing[d].of
               w == editing[d].want
    <3>1. /\ Known(n) /\ w \in TagValues \cup {NoTags} /\ editing[d].at = "read"
          /\ editing'[d].at = "over" /\ \A c \in Editors : c # d => editing'[c] = editing[c]
      BY <2>0, <2>2 DEF RecordsInv, writeEdit, EditStates, NoEdit
    <3>2. w # NoTags => n.tags = w
      BY <3>1 DEF TagsInv
    <3>3. \/ UNCHANGED <<machines, acked, stale>>
          \/ /\ UpdateMachine(n)
             /\ IF (\E x \in machines : x.id = n.id) /\ w # NoTags
                THEN acked' = [of |-> n.id, tags |-> w] /\ stale' = Holders \ {d}
                ELSE UNCHANGED <<acked, stale>>
      BY <2>2 DEF writeEdit
    <3> HIDE DEF w, n
    <3>4. CASE UNCHANGED <<machines, acked, stale>>
      BY <2>0, <3>1, <3>4 DEF TagsInv, Fresh
    <3>5. CASE UpdateMachine(n) /\ UNCHANGED <<acked, stale>> /\ (w = NoTags \/ UNCHANGED machines)
      <4>1. \A x \in machines' : x \in machines \/ (x = n /\ w = NoTags)
        BY <3>5 DEF UpdateMachine
      <4>2. stale = {} /\ w = NoTags => Fresh(n)
        BY <3>1 DEF TagsInv, n, w
      <4>3. QED
        BY <2>0, <3>1, <3>2, <3>5, <4>1, <4>2 DEF TagsInv, Fresh
    <3>6. CASE /\ UpdateMachine(n) /\ \E x \in machines : x.id = n.id
               /\ w # NoTags /\ acked' = [of |-> n.id, tags |-> w] /\ stale' = Holders \ {d}
      <4>1. machines' = {n} /\ n.tags = w
        BY <3>2, <3>6 DEF UpdateMachine
      <4>2. acked'.of = n.id /\ acked'.tags = w /\ n.id \in Enrolments /\ Created(n.id)
        BY <3>1, <3>6 DEF Known, Machine
      <4>3. ASSUME stale' = {}
            PROVE  /\ \A c \in Editors : editing'[c].at # "read"
                   /\ \A c \in Deleters : del'[c].at # "read"
                   /\ link'.at = "off"
        BY <2>0, <3>1, <3>6, <4>3, DirectoryAssumption DEF Holders
      <4>4. QED
        BY <2>0, <3>1, <3>2, <4>1, <4>2, <4>3 DEF TagsInv, Fresh
    <3>7. QED
      BY <3>2, <3>3, <3>4, <3>5, <3>6 DEF UpdateMachine
  <2>3. QED
    BY <1>2, <2>1, <2>2 DEF updateMachine
<1>3. ASSUME NEW d \in Deleting, deleteMachine(d) \/ runAgentDelete(d) PROVE TagsInv'
  <2>0. /\ UNCHANGED <<sshCA, enrol, editing, link, acked, stale>>
        /\ del \in [Deleting -> DeleteStates]
        /\ \A i : Created(i)' <=> Created(i)
    BY <1>3 DEF deleteMachine, runAgentDelete, readForDelete, archive, listSessions, writeAudit,
       deleteRow, deleteAgentUser, commandDelete, RecordsInv, Created
  <2>1. \A c \in Deleting : c # d => del'[c] = del[c]
    BY <1>3, <2>0 DEF deleteMachine, runAgentDelete, readForDelete, archive, listSessions,
       writeAudit,
       deleteRow, deleteAgentUser, commandDelete, doneDeleting, afterDelete
  <2>2. CASE readForDelete(d)
    <3>1. PICK r \in machines : del' = [del EXCEPT ![d] = [at |-> "read", of |-> r, seen |-> {}]]
      BY <2>2 DEF readForDelete
    <3>2. UNCHANGED machines /\ del'[d].of = r
      BY <2>0, <2>2, <3>1 DEF readForDelete
    <3>3. QED
      BY <2>0, <2>1, <3>2 DEF TagsInv, Fresh, Deleting
  <2>3. CASE archive(d) /\ d \in Deleters
    <3> DEFINE n == [del[d].of EXCEPT !.active = FALSE]
    <3>1. Known(del[d].of) /\ del[d].at = "read" /\ del'[d].at = "over"
      BY <2>0, <2>3 DEF RecordsInv, archive, doneDeleting, NoDelete
    <3>2. n.id = del[d].of.id /\ n.tags = del[d].of.tags
      BY <3>1 DEF Machine, Known
    <3>3. UpdateMachine(n) \/ UNCHANGED machines
      BY <2>3 DEF archive
    <3> HIDE DEF n
    <3>4. \A x \in machines' : x \in machines \/ x = n
      BY <3>3 DEF UpdateMachine
    <3>5. QED
      BY <2>0, <2>1, <2>3, <3>1, <3>2, <3>4 DEF TagsInv, Fresh, Deleting
  <2>4. CASE listSessions(d) \/ writeAudit(d) \/ deleteRow(d) \/ deleteAgentUser(d) \/ commandDelete(d)
    <3>1. machines' \subseteq machines
      BY <2>4 DEF listSessions, writeAudit, deleteRow, deleteAgentUser, commandDelete, DeleteMachine
    <3>2. del'[d].at # "read"
      BY <2>0, <2>4 DEF listSessions, writeAudit, deleteRow, deleteAgentUser, commandDelete,
         afterDelete,
         doneDeleting, NoDelete, DeleteStates
    <3>3. QED
      BY <2>0, <2>1, <3>1, <3>2 DEF TagsInv, Fresh, Deleting
  <2>5. QED
    BY <1>3, <2>2, <2>3, <2>4 DEF deleteMachine, runAgentDelete
<1>4. CASE handleAgentConnection
  <2>0. UNCHANGED <<sshCA, enrol, editing, del, acked, stale>> /\ \A i : Created(i)' <=> Created(i)
    BY <1>4 DEF handleAgentConnection, Created
  <2>1. CASE agentAuthenticates
    <3>1. PICK r \in machines : link' = [at |-> "loaded", of |-> r]
      BY <2>1 DEF agentAuthenticates
    <3>2. UNCHANGED machines /\ link'.of = r
      BY <2>1, <3>1 DEF agentAuthenticates
    <3>3. QED
      BY <2>0, <3>2 DEF TagsInv, Fresh
  <2>2. CASE agentConnects
    <3> DEFINE n == [link.of EXCEPT !.active = TRUE]
    <3>1. Known(link.of) /\ link.at # "off"
      BY <2>2 DEF RecordsInv, agentConnects
    <3>2. n.id = link.of.id /\ n.tags = link.of.tags
      BY <3>1 DEF Machine, Known
    <3>3. link'.of = n
      BY <2>2 DEF agentConnects
    <3> HIDE DEF n
    <3>4. \A x \in machines' : x \in machines \/ x = n
      BY <2>2, <3>3 DEF agentConnects, UpdateMachine
    <3>5. QED
      BY <2>0, <3>1, <3>2, <3>3, <3>4 DEF TagsInv, Fresh
  <2>3. CASE agentDisconnects
    <3> DEFINE n == [link.of EXCEPT !.active = FALSE]
    <3>1. Known(link.of) /\ link.at # "off" /\ link'.at = "off"
      BY <2>3 DEF RecordsInv, agentDisconnects
    <3>2. n.id = link.of.id /\ n.tags = link.of.tags
      BY <3>1 DEF Machine, Known
    <3>3. UpdateMachine(n) \/ UNCHANGED machines
      BY <2>3 DEF agentDisconnects
    <3> HIDE DEF n
    <3>4. \A x \in machines' : x \in machines \/ x = n
      BY <3>3 DEF UpdateMachine
    <3>5. QED
      BY <2>0, <3>1, <3>2, <3>4 DEF TagsInv, Fresh
  <2>4. QED
    BY <1>4, <2>1, <2>2, <2>3 DEF handleAgentConnection
<1>5. CASE AccountsNext \/ UNCHANGED dirVars \/ \E s \in DirSessions : openSession(s)
  <2>1. UNCHANGED <<sshCA, machines, enrol, editing, del, link, acked, stale>>
    BY <1>5 DEF AccountsNext, registerClient, createUser, runUserCreate, runSetup, deleteUser,
       runUserDelete, DeleteUser, dirVars, machineVars, openSession
  <2>2. QED
    BY <2>1 DEF TagsInv, Fresh, Created
<1>6. QED
  BY <1>1, <1>2, <1>3, <1>4, <1>5 DEF MachinesNext

\* Every step keeps the sessions in the audit entry, or they are late.
LEMMA RowsStep ==
    ASSUME RecordsInv, RowsInv, [MachinesNext \/ AccountsNext]_dirVars
    PROVE  RowsInv'
<1>0. del \in [Deleting -> DeleteStates] /\ Deleters \subseteq Deleting
  BY DEF RecordsInv, Deleting
<1>1. ASSUME NEW e \in Enrolments,
             registerAgent(e) \/ generateAgentInstallScript(e) \/ runAgentRegister(e) \/ createMachine(e)
      PROVE  RowsInv'
  <2>1. rows' \subseteq rows /\ UNCHANGED <<del, copied, dropped, lateRows>>
    BY <1>1 DEF registerAgent, generateAgentInstallScript, runAgentRegister, createMachine,
       EnrolSteps,
       lookup, createAgentUser, createRow, issueHostCert, undo, DeleteMachine
  <2>2. QED
    BY <2>1 DEF RowsInv
<1>2. ASSUME NEW d \in Deleting, deleteMachine(d) \/ runAgentDelete(d) PROVE RowsInv'
  <2>0. UNCHANGED lateRows
    BY <1>2 DEF deleteMachine, runAgentDelete
  <2>1. \A c \in Deleting : c # d => del'[c] = del[c]
    BY <1>0, <1>2 DEF deleteMachine, runAgentDelete, readForDelete, archive, listSessions,
       writeAudit,
       deleteRow, deleteAgentUser, commandDelete, doneDeleting, afterDelete
  <2>2. CASE readForDelete(d) \/ archive(d) \/ deleteAgentUser(d)
    <3>1. UNCHANGED <<rows, copied, dropped>> /\ del'[d].at \notin {"listed", "audited"}
      BY <1>0, <2>2 DEF readForDelete, archive, deleteAgentUser, doneDeleting, NoDelete
    <3>2. QED
      BY <1>0, <2>0, <2>1, <3>1 DEF RowsInv
  <2>3. CASE listSessions(d)
    <3>1. UNCHANGED <<rows, copied, dropped>>
      BY <2>3 DEF listSessions
    <3>2. \/ del'[d].at = "listed" /\ del'[d].seen = rows
          \/ del'[d].at = "over"
      BY <1>0, <2>3 DEF listSessions, doneDeleting, NoDelete, ListMachineSessions, DeleteStates
    <3>3. QED
      BY <1>0, <2>0, <2>1, <3>1, <3>2 DEF RowsInv
  <2>4. CASE writeAudit(d)
    <3>1. UNCHANGED <<rows, dropped>> /\ del[d].at = "listed" /\ del[d] \in DeleteStates
      BY <1>0, <2>4 DEF writeAudit
    <3>2. \/ del'[d].at = "audited" /\ copied' = copied \cup del[d].seen
          \/ del'[d].at = "over" /\ copied' = copied
      BY <1>0, <2>4 DEF writeAudit, doneDeleting, NoDelete, DeleteStates
    <3>3. del[d].seen \subseteq DirSessions
      BY <3>1 DEF DeleteStates
    <3>4. QED
      BY <1>0, <2>0, <2>1, <3>1, <3>2, <3>3 DEF RowsInv
  <2>5. CASE (deleteRow(d) /\ d \in Deleters) \/ commandDelete(d)
    <3>1. UNCHANGED copied /\ rows' \subseteq rows /\ del'[d].at \notin {"listed", "audited"}
      BY <1>0, <2>5 DEF deleteRow, commandDelete, DeleteMachine, afterDelete, doneDeleting,
         NoDelete, DeleteStates
    <3>2. dropped' \subseteq copied \cup lateRows
      BY <2>5 DEF deleteRow, commandDelete, RowsInv
    <3>3. QED
      BY <1>0, <2>0, <2>1, <3>1, <3>2 DEF RowsInv
  <2>6. QED
    BY <1>2, <2>2, <2>3, <2>4, <2>5 DEF deleteMachine, runAgentDelete
<1>3. ASSUME NEW s \in DirSessions, openSession(s) PROVE RowsInv'
  BY <1>3 DEF openSession, RowsInv
<1>4. CASE AccountsNext \/ UNCHANGED dirVars \/ handleAgentConnection \/ \E d \in Editors : updateMachine(d)
  <2>1. UNCHANGED <<del, rows, copied, dropped, lateRows>>
    BY <1>4 DEF AccountsNext, registerClient, createUser, runUserCreate, runSetup, deleteUser,
       runUserDelete, DeleteUser, dirVars, machineVars, handleAgentConnection, updateMachine
  <2>2. QED
    BY <2>1 DEF RowsInv
<1>5. QED
  BY <1>1, <1>2, <1>3, <1>4 DEF MachinesNext

\* Every step keeps the anonymous account the only one.
LEMMA PeopleStep ==
    ASSUME PeopleInv, [MachinesNext \/ AccountsNext]_dirVars
    PROVE  PeopleInv'
<1>1. ASSUME NEW a \in Accounting, CreateFirstUser(a) PROVE PeopleInv'
  <2>1. CASE account[a] = "idle" /\ UNCHANGED people /\ firstLock = Nobody /\ firstLock' = a
             /\ account' = [account EXCEPT ![a] = "locked"]
    BY <2>1, DirectoryAssumption DEF PeopleInv
  <2>2. CASE account[a] = "locked" /\ people = {} /\ account' = [account EXCEPT ![a] = "empty"]
             /\ UNCHANGED <<people, firstLock>>
    BY <2>2 DEF PeopleInv
  <2>3. CASE account[a] = "locked" /\ account' = [account EXCEPT ![a] = "over"]
             /\ firstLock' = Nobody /\ UNCHANGED people
    BY <2>3 DEF PeopleInv
  <2>4. CASE /\ account[a] = "empty" /\ account' = [account EXCEPT ![a] = "over"]
             /\ firstLock' = Nobody
             /\ (Insert(a, TRUE, TRUE) \/ UNCHANGED people)
    <3>1. /\ account' \in [Accounting -> {"idle", "absent", "locked", "empty", "over"}]
          /\ firstLock' \in Accounting \cup {Nobody}
          /\ \A b \in Accounting : account'[b] \notin {"locked", "empty"}
      BY <2>4 DEF PeopleInv
    <3> DEFINE y == [id |-> a, anonymous |-> TRUE, admin |-> TRUE]
    <3>2. y \in Person
      BY DEF Person
    <3>3. people' = people \cup {y} \/ people' = people
      BY <2>4 DEF Insert
    <3> HIDE DEF y
    <3>4. \A p \in people : ~p.anonymous
      BY <2>4 DEF PeopleInv
    <3>5. QED
      BY <3>1, <3>2, <3>3, <3>4 DEF PeopleInv
  <2>5. QED
    BY <1>1, <2>1, <2>2, <2>3, <2>4 DEF CreateFirstUser, lockFirstUser
<1>2. ASSUME NEW a \in Accounting, NEW adm \in BOOLEAN, CreateUser(a, adm),
        account[a] \notin {"locked", "empty"}
      PROVE  PeopleInv'
  <2> DEFINE y == [id |-> a, anonymous |-> FALSE, admin |-> adm]
  <2>1. y \in Person /\ ~y.anonymous
    BY DEF Person
  <2>2. people' = people \cup {y} \/ people' = people
    BY <1>2 DEF CreateUser, Insert
  <2> HIDE DEF y
  <2>3. account' = [account EXCEPT ![a] = "over"] /\ UNCHANGED firstLock
    BY <1>2 DEF CreateUser
  <2>4. QED
    BY <1>2, <2>1, <2>2, <2>3 DEF PeopleInv
<1>3. ASSUME NEW a \in Accounting, NEW to \in {"absent", "over"}, account[a] = "idle",
             account' = [account EXCEPT ![a] = to], UNCHANGED <<people, firstLock>>
      PROVE  PeopleInv'
  BY <1>3 DEF PeopleInv
<1>4. ASSUME NEW a \in Accounting, registerClient(a) PROVE PeopleInv'
  BY <1>1, <1>2, <1>3, <1>4 DEF registerClient, lookupPerson
<1>5. ASSUME NEW a \in Accounting, createUser(a) \/ runUserCreate(a) PROVE PeopleInv'
  BY <1>2, <1>3, <1>5 DEF createUser, runUserCreate, lookupPerson
<1>6. ASSUME NEW a \in Accounting, runSetup(a) PROVE PeopleInv'
  <2>1. CASE account[a] = "absent" /\ CreateUser(a, TRUE)
    BY <1>2, <2>1
  <2>2. CASE /\ account[a] = "idle"
             /\ account' = [account EXCEPT ![a] = IF \E p \in people : p.admin THEN "over" ELSE "absent"]
             /\ UNCHANGED <<people, firstLock>>
    BY <1>3, <2>2
  <2>3. QED
    BY <1>6, <2>1, <2>2 DEF runSetup
<1>7. ASSUME NEW p \in people, deleteUser(p) \/ runUserDelete(p) PROVE PeopleInv'
  BY <1>7 DEF deleteUser, runUserDelete, DeleteUser, PeopleInv
<1>8. CASE MachinesNext \/ UNCHANGED dirVars
  <2>1. UNCHANGED accountVars
    BY <1>8 DEF MachinesNext, registerAgent, generateAgentInstallScript, runAgentRegister,
       createMachine,
       EnrolSteps, updateMachine, deleteMachine, runAgentDelete, handleAgentConnection, openSession,
       dirVars
  <2>2. QED
    BY <2>1 DEF accountVars, PeopleInv
<1>9. QED
  BY <1>4, <1>5, <1>6, <1>7, <1>8 DEF AccountsNext

\* Of a set whose members are equal there is at most one.
LEMMA AtMostOne ==
    ASSUME NEW S, \A x, y \in S : x = y
    PROVE  Cardinality(S) <= 1
<1>1. CASE S = {}
  BY <1>1, FS_EmptySet
<1>2. ASSUME NEW x \in S PROVE Cardinality(S) <= 1
  <2>1. S = {x}
    BY <1>2
  <2>2. QED
    BY <2>1, FS_Singleton
<1>3. QED
  BY <1>1, <1>2

\* For any number of handlers, sessions and tags: one anonymous account, no remains of a
\* failed enrolment, no edit lost but to a holder of an older record, and no session
\* deleted by the API that is not in its audit entry or late (registerAgent,
\* updateMachine, deleteMachine, handleAgentConnection, CreateFirstUser).
THEOREM DirectoryStaysConsistent == DirectorySpec => []DirectoryIsConsistent
<1>1. DirectoryInit => DirInv
  <2> SUFFICES ASSUME DirectoryInit PROVE DirInv
    OBVIOUS
  <2>1. /\ NoEdit \in EditStates /\ NoEdit.at = "idle" /\ NoDelete \in DeleteStates
        /\ NoDelete.at = "idle"
    BY DEF NoEdit, NoDelete, EditStates, DeleteStates
  <2>2. link \in LinkStates /\ link.at = "off"
    BY DEF DirectoryInit, LinkStates
  <2>3. RecordsInv
    BY <2>1, <2>2 DEF DirectoryInit, RecordsInv
  <2>4. FailedEnrolmentLeavesNothing
    BY DEF DirectoryInit, FailedEnrolmentLeavesNothing
  <2>5. acked.of = Nobody
    BY DEF DirectoryInit
  <2>6. TagsInv
    BY <2>1, <2>2, <2>5 DEF DirectoryInit, TagsInv, Deleting
  <2>7. RowsInv
    BY <2>1 DEF DirectoryInit, RowsInv, Deleting
  <2>8. PeopleInv
    BY DEF DirectoryInit, PeopleInv
  <2>9. AgentsInv
    BY <2>1, <2>2 DEF DirectoryInit, AgentsInv
  <2>10. QED
    BY <2>3, <2>4, <2>6, <2>7, <2>8, <2>9 DEF DirInv
<1>2. DirInv /\ [MachinesNext \/ AccountsNext]_dirVars => DirInv'
  <2> SUFFICES ASSUME DirInv, [MachinesNext \/ AccountsNext]_dirVars PROVE DirInv'
    OBVIOUS
  <2>1. RecordsInv /\ AgentsInv /\ FailedEnrolmentLeavesNothing /\ TagsInv /\ RowsInv /\ PeopleInv
        /\ rows \subseteq DirSessions
    BY DEF DirInv, RowsInv
  <2>2. QED
    BY <2>1, RecordsStep, AgentsStep, UsersStep, TagsStep, RowsStep, PeopleStep DEF DirInv
<1>3. DirInv => DirectoryIsConsistent
  <2> SUFFICES ASSUME DirInv PROVE DirectoryIsConsistent
    OBVIOUS
  <2>1. machines \subseteq Machine /\ Cardinality(machines) <= 1
    BY AtMostOne DEF DirInv, RecordsInv, Known
  <2>2. DirectoryTypeOK
    BY <2>1 DEF DirInv, RecordsInv, AgentsInv, RowsInv, PeopleInv, DirectoryTypeOK
  <2>3. BootstrapOnce
    <3>1. \A x, y \in {p \in people : p.anonymous} : x = y
      BY DEF DirInv, PeopleInv
    <3>2. QED
      BY <3>1, AtMostOne DEF BootstrapOnce
  <2>4. EditLostOnlyToHolder
    BY DEF DirInv, TagsInv, Fresh, EditLostOnlyToHolder
  <2>5. SessionsKeptUnlessLate
    BY DEF DirInv, RowsInv, SessionsKeptUnlessLate
  <2>6. QED
    BY <2>2, <2>3, <2>4, <2>5 DEF DirInv, DirectoryIsConsistent
<1>4. QED
  BY <1>1, <1>2, <1>3, PTL DEF DirectorySpec

(**** Flags of unusual sessions ****)

\* Another session on the same machine wrote its row between the two reads.
Overlapped(s) == \E p \in between[s] \ (preceding[s] \cup {s}) : login[p].on = login[s].on

\* Two sessions start within the tolerance of each other, around the clock.
CloseTo(s, p) ==
    \E d \in 0 .. HourTolerance :
       \/ (login[p].hour + d) % DayHours = login[s].hour
       \/ (login[s].hour + d) % DayHours = login[p].hour

\* The sessions close by are those beyond the limit of the list.
FewClose(s) ==
    Cardinality({p \in between[s] \ {s} : CloseTo(s, p)})
       <= IF Cardinality(between[s]) > HistoryLimit
          THEN Cardinality(between[s]) - HistoryLimit ELSE 0

\* Start times tell the sessions apart.
TimesInv ==
    /\ \A s \in history : login[s].at # "new"
    /\ \A s \in Logins : login[s].at # "new" => startTime[s] < instant
    /\ \A s, r \in Logins : login[s].at # "new" /\ login[r].at # "new" /\ startTime[s] = startTime[r] => s = r

\* A flag is raised with the history it is judged by, and written later.
JudgedOK(s) ==
    /\ login[s].at \in {"new", "started", "written"} => flags[s] = {} /\ pending[s] = {}
    /\ login[s].at \in {"detected", "checked"} /\ First(s) =>
          "first_time_access" \in flags[s] \cup pending[s] \/ Overlapped(s)
    /\ login[s].at = "checked" => pending[s] = {}
    /\ "off_hours" \in flags[s] \cup pending[s] => FewClose(s)

FlagsInv == AnomaliesTypeOK /\ TimesInv /\ \A s \in Logins : JudgedOK(s)

\* A set of naturals that is not empty has a least member.
LEMMA LeastMember ==
    ASSUME NEW T, T \subseteq Nat, T # {}
    PROVE  \E x \in T : \A y \in T : x <= y
<1> DEFINE R == OpToRel(<, Nat)
<1>1. \E x \in T : \A y \in T : ~ (<<y, x>> \in R)
  BY NatLessThanWellFounded, WFMin
<1>2. \A x, y \in Nat : y < x => <<y, x>> \in R
  BY DEF OpToRel
<1> HIDE DEF R
<1>3. PICK x \in T : \A y \in T : ~ (<<y, x>> \in R)
  BY <1>1
<1>4. \A y \in T : ~ (y < x)
  BY <1>2, <1>3
<1>5. \A y \in T : x <= y
  BY <1>4
<1>6. QED
  BY <1>5

\* The list of the newest sessions has them all, or as many as the limit.
LEMMA ListIsFull ==
    ASSUME AnomaliesTypeOK, TimesInv
    PROVE  /\ IsFiniteSet(history) /\ ListUserSessions \subseteq history
           /\ ListUserSessions = history \/ Cardinality(ListUserSessions) >= HistoryLimit
<1>1. IsFiniteSet(history) /\ ListUserSessions \subseteq history
  BY AnomalyAssumption, FS_Subset DEF AnomaliesTypeOK, ListUserSessions
<1>2. ASSUME ListUserSessions # history
      PROVE  Cardinality(ListUserSessions) >= HistoryLimit
  <2> DEFINE old == history \ ListUserSessions
             ages == {instant - startTime[s] : s \in old}
  <2>1. /\ old # {} /\ old \subseteq Logins /\ \A s \in old : startTime[s] \in Nat /\ startTime[s] < instant
        /\ instant \in Nat
    BY <1>1, <1>2 DEF AnomaliesTypeOK, TimesInv
  <2>2. ages \subseteq Nat /\ ages # {}
    BY <2>1
  <2>3. PICK a \in ages : \A b \in ages : a <= b
    BY <2>2, LeastMember
  <2>4. PICK m \in old : a = instant - startTime[m]
    BY <2>3
  <2>5. \A s \in old : startTime[s] <= startTime[m]
    BY <2>1, <2>3, <2>4
  <2>6. Newer(m) \subseteq ListUserSessions
    BY <2>1, <2>5 DEF Newer, AnomaliesTypeOK
  <2>7. m \in history /\ ~(Cardinality(Newer(m)) < HistoryLimit)
    BY <2>4 DEF ListUserSessions
  <2>8. IsFiniteSet(ListUserSessions)
    BY <1>1, FS_Subset
  <2>9. /\ Cardinality(Newer(m)) <= Cardinality(ListUserSessions) /\ IsFiniteSet(Newer(m))
    BY <2>6, <2>8, FS_Subset
  <2>10. Cardinality(Newer(m)) \in Nat /\ Cardinality(ListUserSessions) \in Nat
    BY <2>8, <2>9, FS_CardinalityType
  <2>11. QED
    BY <2>7, <2>9, <2>10, AnomalyAssumption
<1>3. QED
  BY <1>1, <1>2

\* Going around the clock.
LEMMA AroundTheClock ==
    ASSUME NEW h \in Hour, NEW g \in Hour, NEW d \in 0 .. HourTolerance
    PROVE  /\ (h + d) % DayHours = g => g = (h + d + DayHours) % DayHours
           /\ (g + d) % DayHours = h => g = (h + (-d) + DayHours) % DayHours
<1>0. /\ DayHours \in Nat /\ DayHours > 0 /\ d \in Nat /\ d < DayHours
      /\ h \in Nat /\ h < DayHours /\ g \in Nat /\ g < DayHours
  BY AnomalyAssumption DEF Hour
<1>1. \A x \in Nat : x < DayHours => x % DayHours = x
  BY <1>0
<1>2. \A x \in Nat : DayHours <= x /\ x < 2 * DayHours => x % DayHours = x - DayHours
  BY <1>0
<1>3. \A x \in Nat : 2 * DayHours <= x /\ x < 3 * DayHours => x % DayHours = x - 2 * DayHours
  BY <1>0
<1>4. (h + d) % DayHours = g => g = (h + d + DayHours) % DayHours
  <2>1. CASE h + d < DayHours
    <3>1. (h + d) % DayHours = h + d
      BY <1>0, <1>1, <2>1
    <3>2. (h + d + DayHours) % DayHours = h + d
      BY <1>0, <1>2, <2>1
    <3>3. QED
      BY <3>1, <3>2
  <2>2. CASE ~(h + d < DayHours)
    <3>1. (h + d) % DayHours = h + d - DayHours
      BY <1>0, <1>2, <2>2
    <3>2. (h + d + DayHours) % DayHours = h + d - DayHours
      BY <1>0, <1>3, <2>2
    <3>3. QED
      BY <3>1, <3>2
  <2>3. QED
    BY <2>1, <2>2
<1>5. (g + d) % DayHours = h => g = (h + (-d) + DayHours) % DayHours
  <2>1. CASE g + d < DayHours
    <3>1. (g + d) % DayHours = g + d
      BY <1>0, <1>1, <2>1
    <3>2. (g + DayHours) % DayHours = g
      BY <1>0, <1>2
    <3>3. h = g + d => h + (-d) + DayHours = g + DayHours
      BY <1>0
    <3>4. QED
      BY <3>1, <3>2, <3>3
  <2>2. CASE ~(g + d < DayHours)
    <3>1. (g + d) % DayHours = g + d - DayHours
      BY <1>0, <1>2, <2>2
    <3>2. h = g + d - DayHours => h + (-d) + DayHours = g
      BY <1>0
    <3>3. QED
      BY <1>0, <1>1, <3>1, <3>2
  <2>3. QED
    BY <2>1, <2>2
<1>6. QED
  BY <1>4, <1>5

\* One session moves on; the others' machines, hours and flags stay.
LEMMA LoginMoves ==
    ASSUME AnomaliesTypeOK, NEW s \in Logins,
           NEW to \in {"new", "started", "written", "detected", "checked", "failed"}, Go(s, to)
    PROVE  /\ login' \in [Logins -> LoginStates] /\ login'[s].at = to
           /\ \A p \in Logins : login'[p].on = login[p].on /\ login'[p].hour = login[p].hour
           /\ \A p \in Logins : p # s => login'[p] = login[p]
BY DEF AnomaliesTypeOK, LoginStates, Go

\* What was judged before stays as it was.
LEMMA JudgementStays ==
    ASSUME AnomaliesTypeOK, NEW r \in Logins,
           \A p \in Logins : login'[p].on = login[p].on /\ login'[p].hour = login[p].hour,
           flags'[r] = flags[r], pending'[r] = pending[r],
           preceding'[r] = preceding[r], between'[r] = between[r]
    PROVE  (First(r)' <=> First(r)) /\ (Overlapped(r)' <=> Overlapped(r)) /\ (FewClose(r)' <=> FewClose(r))
<1>1. preceding[r] \subseteq Logins /\ between[r] \subseteq Logins
  BY DEF AnomaliesTypeOK
<1>2. {p \in between[r] \ {r} : CloseTo(r, p)}' = {p \in between[r] \ {r} : CloseTo(r, p)}
  BY <1>1 DEF CloseTo
<1>3. QED
  BY <1>1, <1>2 DEF First, Overlapped, FewClose

\* A session flagged as off hours is close to none that the check read.
LEMMA OffHoursAreFar ==
    ASSUME AnomaliesTypeOK, NEW s \in Logins, NEW past, past \subseteq Logins, offHours(s, past)
    PROVE  \A p \in past : ~CloseTo(s, p)
<1> SUFFICES ASSUME NEW p \in past, NEW d \in 0 .. HourTolerance,
                    \/ (login[p].hour + d) % DayHours = login[s].hour
                    \/ (login[s].hour + d) % DayHours = login[p].hour
             PROVE  FALSE
  BY DEF CloseTo
<1>1. login[p].hour \in Hour /\ login[s].hour \in Hour
  BY DEF AnomaliesTypeOK, LoginStates
<1>2. d \in -HourTolerance .. HourTolerance /\ -d \in -HourTolerance .. HourTolerance
  BY AnomalyAssumption
<1>3. /\ login[p].hour # (login[s].hour + d + DayHours) % DayHours
      /\ login[p].hour # (login[s].hour + (-d) + DayHours) % DayHours
  BY <1>2 DEF offHours
<1>4. QED
  BY <1>1, <1>3, AroundTheClock

\* The history read decides both flags.
LEMMA HistoryDecides ==
    ASSUME AnomaliesTypeOK, TimesInv, NEW s \in Logins
    PROVE  /\ Raised(s, Past(s)) \in SUBSET Kind
           /\ First(s) => \/ "first_time_access" \in Raised(s, Past(s))
                          \/ \E p \in history \ (preceding[s] \cup {s}) : login[p].on = login[s].on
           /\ "off_hours" \in Raised(s, Past(s)) =>
                 Cardinality({p \in history \ {s} : CloseTo(s, p)})
                    <= IF Cardinality(history) > HistoryLimit
                       THEN Cardinality(history) - HistoryLimit ELSE 0
<1>0. /\ IsFiniteSet(history) /\ ListUserSessions \subseteq history /\ history \subseteq Logins
      /\ ListUserSessions = history \/ Cardinality(ListUserSessions) >= HistoryLimit
  BY ListIsFull DEF AnomaliesTypeOK
<1>1. Raised(s, Past(s)) \in SUBSET Kind
  BY DEF Raised, Kind
<1>2. ASSUME First(s)
      PROVE  \/ "first_time_access" \in Raised(s, Past(s))
             \/ \E p \in history \ (preceding[s] \cup {s}) : login[p].on = login[s].on
  BY <1>0, <1>2 DEF First, Raised, firstAccess, Past
<1>3. ASSUME "off_hours" \in Raised(s, Past(s))
      PROVE  Cardinality({p \in history \ {s} : CloseTo(s, p)})
                    <= IF Cardinality(history) > HistoryLimit
                       THEN Cardinality(history) - HistoryLimit ELSE 0
  <2> DEFINE near == {p \in history \ {s} : CloseTo(s, p)}
             kept == ListUserSessions
  <2>1. offHours(s, Past(s)) /\ Past(s) \subseteq Logins
    BY <1>0, <1>3 DEF Raised, Past
  <2>2. \A p \in Past(s) : ~CloseTo(s, p)
    BY <2>1, OffHoursAreFar
  <2>3. near \subseteq history \ kept
    BY <2>2 DEF Past
  <2>4. /\ IsFiniteSet(history \ kept)
        /\ Cardinality(history \ kept) = Cardinality(history) - Cardinality(history \cap kept)
    BY <1>0, FS_Difference
  <2>5. history \cap kept = kept /\ IsFiniteSet(kept)
    BY <1>0, FS_Subset
  <2>6. IsFiniteSet(near) /\ Cardinality(near) <= Cardinality(history \ kept)
    BY <2>3, <2>4, FS_Subset
  <2>7. Cardinality(near) \in Nat /\ Cardinality(kept) \in Nat /\ Cardinality(history) \in Nat
    BY <1>0, <2>5, <2>6, FS_CardinalityType
  <2>8. Cardinality(kept) <= Cardinality(history)
    BY <1>0, FS_Subset
  <2> HIDE DEF near, kept
  <2>9. Cardinality(near) <= Cardinality(history) - Cardinality(kept)
    BY <2>4, <2>5, <2>6
  <2>10. kept = history \/ Cardinality(kept) >= HistoryLimit
    BY <1>0 DEF kept
  <2>11. Cardinality(near) <= IF Cardinality(history) > HistoryLimit
                              THEN Cardinality(history) - HistoryLimit ELSE 0
    BY <2>7, <2>8, <2>9, <2>10, AnomalyAssumption
  <2>12. QED
    BY <2>11 DEF near
<1>4. QED
  BY <1>1, <1>2, <1>3

\* Each step keeps the times and the judgements.
LEMMA FlagsStep ==
    ASSUME FlagsInv, [AnomaliesNext]_anomalyVars
    PROVE  FlagsInv'
<1>0. AnomaliesTypeOK /\ TimesInv /\ \A s \in Logins : JudgedOK(s)
  BY DEF FlagsInv
<1>1. ASSUME NEW s \in Logins, startLogin(s) PROVE FlagsInv'
  <2>1. Go(s, "started") /\ login[s].at = "new" /\ startTime' = [startTime EXCEPT ![s] = instant]
        /\ instant' = instant + 1 /\ UNCHANGED <<history, flags, pending, preceding, between>>
    BY <1>1 DEF startLogin
  <2>2. /\ login' \in [Logins -> LoginStates] /\ login'[s].at = "started"
        /\ \A p \in Logins : login'[p].on = login[p].on /\ login'[p].hour = login[p].hour
        /\ \A p \in Logins : p # s => login'[p] = login[p]
    BY <1>0, <2>1, LoginMoves
  <2>3. AnomaliesTypeOK'
    <3>1. startTime' \in [Logins -> Nat] /\ instant' \in Nat
      BY <1>0, <2>1 DEF AnomaliesTypeOK
    <3>2. QED
      BY <1>0, <2>1, <2>2, <3>1 DEF AnomaliesTypeOK
  <2>4. TimesInv'
    BY <1>0, <2>1, <2>2 DEF AnomaliesTypeOK, TimesInv
  <2>5. \A r \in Logins : JudgedOK(r)'
    BY <1>0, <2>1, <2>2, JudgementStays DEF JudgedOK
  <2>6. QED
    BY <2>3, <2>4, <2>5 DEF FlagsInv
<1>2. ASSUME NEW s \in Logins, createSession(s) PROVE FlagsInv'
  <2>1. /\ login[s].at = "started" /\ UNCHANGED <<startTime, instant, flags, pending, between>>
        /\ \/ Go(s, "written") /\ history' = history \cup {s} /\ preceding' = [preceding EXCEPT ![s] = history]
           \/ Go(s, "failed") /\ UNCHANGED <<history, preceding>>
    BY <1>2 DEF createSession
  <2>2. PICK to \in {"written", "failed"} : Go(s, to)
    BY <2>1
  <2>3. /\ login' \in [Logins -> LoginStates] /\ login'[s].at = to
        /\ \A p \in Logins : login'[p].on = login[p].on /\ login'[p].hour = login[p].hour
        /\ \A p \in Logins : p # s => login'[p] = login[p]
    BY <1>0, <2>2, LoginMoves
  <2>4. AnomaliesTypeOK'
    BY <1>0, <2>1, <2>3 DEF AnomaliesTypeOK
  <2>5. TimesInv'
    BY <1>0, <2>1, <2>3 DEF AnomaliesTypeOK, TimesInv
  <2>6. ASSUME NEW r \in Logins, r # s PROVE JudgedOK(r)'
    <3>1. preceding'[r] = preceding[r]
      BY <1>0, <2>1, <2>6 DEF AnomaliesTypeOK
    <3>2. QED
      BY <1>0, <2>1, <2>3, <2>6, <3>1, JudgementStays DEF JudgedOK
  <2>7. JudgedOK(s)'
    <3>1. flags'[s] = {} /\ pending'[s] = {}
      BY <1>0, <2>1 DEF JudgedOK
    <3>2. QED
      BY <2>3, <3>1 DEF JudgedOK
  <2>8. QED
    BY <2>4, <2>5, <2>6, <2>7 DEF FlagsInv
<1>3. ASSUME NEW s \in Logins, Detect(s) PROVE FlagsInv'
  <2>0. login[s].at = "written" /\ UNCHANGED <<startTime, instant, history, flags, preceding>>
        /\ flags[s] = {} /\ pending[s] = {}
    BY <1>0, <1>3 DEF Detect, JudgedOK
  <2>1. CASE Go(s, "failed") /\ UNCHANGED <<pending, between>>
    <3>1. /\ login' \in [Logins -> LoginStates] /\ login'[s].at = "failed"
          /\ \A p \in Logins : login'[p].on = login[p].on /\ login'[p].hour = login[p].hour
          /\ \A p \in Logins : p # s => login'[p] = login[p]
      BY <1>0, <2>1, LoginMoves
    <3>2. AnomaliesTypeOK' /\ TimesInv'
      BY <1>0, <2>0, <2>1, <3>1 DEF AnomaliesTypeOK, TimesInv
    <3>3. \A r \in Logins : JudgedOK(r)'
      BY <1>0, <2>0, <2>1, <3>1, JudgementStays DEF JudgedOK
    <3>4. QED
      BY <3>2, <3>3 DEF FlagsInv
  <2>2. CASE /\ Go(s, "detected") /\ pending' = [pending EXCEPT ![s] = Raised(s, Past(s))]
             /\ between' = [between EXCEPT ![s] = history]
    <3>1. /\ login' \in [Logins -> LoginStates] /\ login'[s].at = "detected"
          /\ \A p \in Logins : login'[p].on = login[p].on /\ login'[p].hour = login[p].hour
          /\ \A p \in Logins : p # s => login'[p] = login[p]
      BY <1>0, <2>2, LoginMoves
    <3>2. /\ Raised(s, Past(s)) \in SUBSET Kind /\ history \subseteq Logins
          /\ preceding[s] \subseteq Logins
      BY <1>0, HistoryDecides DEF AnomaliesTypeOK
    <3>3. AnomaliesTypeOK' /\ TimesInv'
      <4>1. pending' \in [Logins -> SUBSET Kind]
        BY <1>0, <2>2, <3>2 DEF AnomaliesTypeOK
      <4>2. between' \in [Logins -> SUBSET Logins]
        BY <1>0, <2>2, <3>2 DEF AnomaliesTypeOK
      <4>3. AnomaliesTypeOK'
        BY <1>0, <2>0, <3>1, <4>1, <4>2 DEF AnomaliesTypeOK
      <4>4. TimesInv'
        <5>1. \A r \in Logins : login'[r].at = "new" <=> login[r].at = "new"
          BY <2>0, <3>1
        <5>2. QED
          BY <1>0, <2>0, <5>1 DEF AnomaliesTypeOK, TimesInv
      <4>5. QED
        BY <4>3, <4>4
    <3>4. between'[s] = history /\ pending'[s] = Raised(s, Past(s))
          /\ \A r \in Logins : r # s => between'[r] = between[r] /\ pending'[r] = pending[r]
      BY <1>0, <2>2 DEF AnomaliesTypeOK
    <3>5. ASSUME NEW r \in Logins, r # s PROVE JudgedOK(r)'
      BY <1>0, <2>0, <3>1, <3>4, <3>5, JudgementStays DEF JudgedOK
    <3>6. JudgedOK(s)'
      <4>1. First(s)' => "first_time_access" \in pending'[s] \/ Overlapped(s)'
        <5>1. First(s)' <=> First(s)
          BY <2>0, <3>1, <3>2 DEF First
        <5>2. Overlapped(s)' <=> \E p \in history \ (preceding[s] \cup {s}) : login[p].on = login[s].on
          BY <2>0, <3>1, <3>2, <3>4 DEF Overlapped
        <5>3. QED
          BY <1>0, <3>4, <5>1, <5>2, HistoryDecides
      <4>2. "off_hours" \in pending'[s] => FewClose(s)'
        <5>1. {p \in between[s] \ {s} : CloseTo(s, p)}' = {p \in history \ {s} : CloseTo(s, p)}
          BY <3>1, <3>2, <3>4 DEF CloseTo
        <5>2. QED
          BY <1>0, <3>4, <5>1, HistoryDecides DEF FewClose
      <4>3. QED
        BY <2>0, <3>1, <4>1, <4>2 DEF JudgedOK
    <3>7. QED
      BY <3>3, <3>5, <3>6 DEF FlagsInv
  <2>3. QED
    BY <1>3, <2>1, <2>2 DEF Detect
<1>4. ASSUME NEW s \in Logins, Record(s) PROVE FlagsInv'
  <2>0. login[s].at = "detected" /\ UNCHANGED <<startTime, instant, history, preceding, between>>
    BY <1>4 DEF Record
  <2>1. CASE \E to \in {"checked", "failed"} : Go(s, to) /\ UNCHANGED <<flags, pending>>
                                               /\ (to = "checked" => pending[s] = {})
    <3>1. PICK to \in {"checked", "failed"} : Go(s, to) /\ UNCHANGED <<flags, pending>>
                                              /\ (to = "checked" => pending[s] = {})
      BY <2>1
    <3>2. /\ login' \in [Logins -> LoginStates] /\ login'[s].at = to
          /\ \A p \in Logins : login'[p].on = login[p].on /\ login'[p].hour = login[p].hour
          /\ \A p \in Logins : p # s => login'[p] = login[p]
      BY <1>0, <3>1, LoginMoves
    <3>3. AnomaliesTypeOK' /\ TimesInv'
      <4>1. AnomaliesTypeOK'
        BY <1>0, <2>0, <3>1, <3>2 DEF AnomaliesTypeOK
      <4>2. TimesInv'
        <5>1. \A r \in Logins : login'[r].at = "new" <=> login[r].at = "new"
          BY <2>0, <3>1, <3>2
        <5>2. QED
          BY <1>0, <2>0, <5>1 DEF AnomaliesTypeOK, TimesInv
      <4>3. QED
        BY <4>1, <4>2
    <3>4. \A r \in Logins : JudgedOK(r)'
      BY <1>0, <2>0, <3>1, <3>2, JudgementStays DEF JudgedOK
    <3>5. QED
      BY <3>3, <3>4 DEF FlagsInv
  <2>2. CASE \E k \in pending[s] : /\ flags' = [flags EXCEPT ![s] = @ \cup {k}]
                                   /\ pending' = [pending EXCEPT ![s] = @ \ {k}]
                                   /\ UNCHANGED login
    <3>1. PICK k \in pending[s] : /\ flags' = [flags EXCEPT ![s] = @ \cup {k}]
                                  /\ pending' = [pending EXCEPT ![s] = @ \ {k}]
                                  /\ UNCHANGED login
      BY <2>2
    <3>2. AnomaliesTypeOK' /\ TimesInv'
      BY <1>0, <2>0, <3>1 DEF AnomaliesTypeOK, TimesInv
    <3>3. \A r \in Logins : /\ flags'[r] \cup pending'[r] = flags[r] \cup pending[r]
                            /\ r # s => flags'[r] = flags[r] /\ pending'[r] = pending[r]
      BY <1>0, <3>1 DEF AnomaliesTypeOK
    <3>4. \A r \in Logins : (First(r)' <=> First(r)) /\ (Overlapped(r)' <=> Overlapped(r))
                            /\ (FewClose(r)' <=> FewClose(r))
      BY <2>0, <3>1 DEF First, Overlapped, FewClose, CloseTo
    <3>5. \A r \in Logins : JudgedOK(r)'
      BY <1>0, <2>0, <3>1, <3>3, <3>4 DEF JudgedOK
    <3>6. QED
      BY <3>2, <3>5 DEF FlagsInv
  <2>3. QED
    BY <1>4, <2>1, <2>2 DEF Record
<1>5. CASE UNCHANGED anomalyVars
  <2>1. AnomaliesTypeOK' /\ TimesInv'
    BY <1>0, <1>5 DEF anomalyVars, AnomaliesTypeOK, TimesInv
  <2>2. \A r \in Logins : /\ First(r)' <=> First(r)
                          /\ Overlapped(r)' <=> Overlapped(r)
                          /\ FewClose(r)' <=> FewClose(r)
    BY <1>5 DEF anomalyVars, First, Overlapped, FewClose, CloseTo
  <2>3. \A r \in Logins : JudgedOK(r)'
    BY <1>0, <1>5, <2>2 DEF anomalyVars, JudgedOK
  <2>4. QED
    BY <2>1, <2>3 DEF FlagsInv
<1>6. QED
  BY <1>1, <1>2, <1>3, <1>4, <1>5 DEF AnomaliesNext, Check

\* For any number of sessions, any history limit and any length of the day: the first
\* session on a sensitive machine is flagged unless another one overlapped it, and off hours
\* only with no session close by among those read (anomaly.Detect, ListUserSessions).
THEOREM FlagsStayTrustworthy == AnomaliesSpec => []FlagsCanBeTrusted
<1>1. AnomaliesInit => FlagsInv
  <2> SUFFICES ASSUME AnomaliesInit PROVE FlagsInv
    OBVIOUS
  <2>1. login \in [Logins -> LoginStates] /\ \A s \in Logins : login[s].at = "new"
    BY DEF AnomaliesInit, LoginStates
  <2>2. AnomaliesTypeOK /\ TimesInv
    BY <2>1 DEF AnomaliesInit, AnomaliesTypeOK, TimesInv
  <2>3. \A s \in Logins : JudgedOK(s)
    BY <2>1 DEF AnomaliesInit, JudgedOK
  <2>4. QED
    BY <2>2, <2>3 DEF FlagsInv
<1>2. FlagsInv /\ [AnomaliesNext]_anomalyVars => FlagsInv'
  BY FlagsStep
<1>3. FlagsInv => FlagsCanBeTrusted
  <2> SUFFICES ASSUME FlagsInv PROVE FlagsCanBeTrusted
    OBVIOUS
  <2>1. FirstFlaggedUnlessOverlap
    BY DEF FlagsInv, JudgedOK, Overlapped, FirstFlaggedUnlessOverlap
  <2>2. OffHoursIsFar
    <3>1. ASSUME NEW s \in Logins, "off_hours" \in flags[s]
          PROVE  FewClose(s)
      BY <3>1 DEF FlagsInv, JudgedOK
    <3>2. QED
      BY <3>1 DEF FewClose, CloseTo, OffHoursIsFar
  <2>3. QED
    BY <2>1, <2>2 DEF FlagsInv, FlagsCanBeTrusted
<1>4. QED
  BY <1>1, <1>2, <1>3, PTL DEF AnomaliesSpec

==============================================================================
