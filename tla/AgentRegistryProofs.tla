------------------------ MODULE AgentRegistryProofs ------------------------
(***************************************************************************)
(* Proofs about AgentRegistry, for any number of connections, any finite    *)
(* set of machines, and any number of drops and admin requests.             *)
(***************************************************************************)
EXTENDS AgentRegistry, FiniteSetTheorems, TLAPS

\* A handler between Dial and its last write holds a record; the connection
\* it replaced was of the same machine, lost its slot for good, and is past
\* its own registration.
HandlerOK(c) ==
    /\ handler[c] \in {"dialed", "registered", "activate", "serving", "unregistered", "deactivate"}
          => held[c] \in Row
    /\ previous[c] # None =>
          /\ MachineOf[previous[c]] = MachineOf[c]
          /\ agents[MachineOf[c]] # previous[c]
          /\ handler[previous[c]] \notin {"idle", "dialed"}

\* An admin request that will write a row is an edit, one that will close a
\* connection or delete a machine is a disconnect.
AdminOK ==
    \A step \in admin :
        /\ step.op = "write" => edits > 0
        /\ step.op \in {"close", "delete"} => disconnects > 0

\* Without drops, disconnects and edits, connections are closed only by the
\* one that took their slot; so every handler that ends finds itself replaced,
\* nobody deactivates a row, and a row stays active once it is.
ReplacementsOnly ==
    drops = 0 /\ disconnects = 0 /\ edits = 0 =>
        \A c \in Conns :
            /\ handler[c] \notin {"unregistered", "deactivate"}
            /\ handler[c] = "dialed" => c \in open
            /\ Attached(c) /\ agents[MachineOf[c]] = c => c \in open
            /\ Attached(c) => agents[MachineOf[c]] # None
            /\ handler[c] = "serving" /\ db[MachineOf[c]] # None => db[MachineOf[c]].active

RegistryInv ==
    /\ RegistryTypeOK
    /\ RegistryHoldsLiveHandlers
    /\ ReplacedIsBeingClosed
    /\ ActiveRowHasOwner
    /\ \A c \in Conns : HandlerOK(c)
    /\ AdminOK
    /\ ReplacementsOnly

\* A count of registered machines is at most the number of machines.
LEMMA CountIsBounded ==
    ASSUME NEW S \in SUBSET Machines
    PROVE  Cardinality(S) \in 0 .. Cardinality(Machines)
  BY RegistryAssumption, FS_Subset, FS_CardinalityType

\* A record with is_active set either way is a record.
LEMMA RowWithActive ==
    ASSUME NEW row \in Row, NEW b \in BOOLEAN
    PROVE  /\ [row EXCEPT !.active = b] \in Row
           /\ [row EXCEPT !.active = b].active = b
  BY DEF Row

\* A connection that comes in takes nothing from anyone yet.
LEMMA DialKeeps ==
    ASSUME NEW c \in Conns, Dial(c), RegistryInv
    PROVE  RegistryInv'
<1> USE RegistryAssumption DEF RegistryInv, RegistryTypeOK, HandlerState, Dial
<1>1. RegistryTypeOK'
  BY DEF AdminStep, Row
<1>2. RegistryHoldsLiveHandlers' /\ ReplacedIsBeingClosed' /\ (\A e \in Conns : HandlerOK(e))'
  BY DEF RegistryHoldsLiveHandlers, ReplacedIsBeingClosed, HandlerOK, Attached, AdminStep, Row
<1>3. ActiveRowHasOwner' /\ AdminOK' /\ ReplacementsOnly'
  BY DEF ActiveRowHasOwner, AdminOK, ReplacementsOnly, RegistryHoldsLiveHandlers, HandlerOK, Attached, Row
<1>4. QED
  BY <1>1, <1>2, <1>3

\* The slot changes hands: the loser is attached and will be closed by c.
LEMMA RegisterKeeps ==
    ASSUME NEW c \in Conns, Register(c), RegistryInv
    PROVE  RegistryInv'
<1> USE RegistryAssumption DEF RegistryInv, RegistryTypeOK, HandlerState, Register, CountWith
<1>1. RegistryTypeOK'
  BY CountIsBounded DEF AdminStep, Registered
<1>2. RegistryHoldsLiveHandlers' /\ ReplacedIsBeingClosed' /\ (\A e \in Conns : HandlerOK(e))'
  BY DEF RegistryHoldsLiveHandlers, ReplacedIsBeingClosed, HandlerOK, Attached, AdminStep, Row
<1>3. ActiveRowHasOwner' /\ AdminOK' /\ ReplacementsOnly'
  BY DEF ActiveRowHasOwner, AdminOK, ReplacementsOnly, RegistryHoldsLiveHandlers, HandlerOK, Attached, Row
<1>4. QED
  BY <1>1, <1>2, <1>3

\* What is closed has lost its slot before, so no registered connection is.
LEMMA ClosePreviousKeeps ==
    ASSUME NEW c \in Conns, ClosePrevious(c), RegistryInv
    PROVE  RegistryInv'
<1> USE RegistryAssumption DEF RegistryInv, RegistryTypeOK, HandlerState, ClosePrevious, Publish
<1>1. RegistryTypeOK'
  BY FS_CardinalityType
<1>2. RegistryHoldsLiveHandlers' /\ ReplacedIsBeingClosed' /\ (\A e \in Conns : HandlerOK(e))'
  BY DEF RegistryHoldsLiveHandlers, ReplacedIsBeingClosed, HandlerOK, Attached, AdminStep, Row
<1>3. ActiveRowHasOwner' /\ AdminOK' /\ ReplacementsOnly'
  BY DEF ActiveRowHasOwner, AdminOK, ReplacementsOnly, RegistryHoldsLiveHandlers, HandlerOK, Attached, Row
<1>4. QED
  BY <1>1, <1>2, <1>3

\* A row that becomes active has its writer as owner.
LEMMA ActivateKeeps ==
    ASSUME NEW c \in Conns, Activate(c), RegistryInv
    PROVE  RegistryInv'
<1> USE RegistryAssumption DEF RegistryInv, RegistryTypeOK, HandlerState, Activate, UpdateMachine
<1>0. /\ [held[c] EXCEPT !.active = TRUE] \in Row
      /\ [held[c] EXCEPT !.active = TRUE].active = TRUE
  BY RowWithActive DEF HandlerOK
<1>1. RegistryTypeOK'
  BY <1>0 DEF HandlerOK
<1>2. RegistryHoldsLiveHandlers' /\ ReplacedIsBeingClosed' /\ (\A e \in Conns : HandlerOK(e))'
  BY <1>0 DEF RegistryHoldsLiveHandlers, ReplacedIsBeingClosed, HandlerOK, Attached, AdminStep
<1>3. ActiveRowHasOwner' /\ AdminOK' /\ ReplacementsOnly'
  BY <1>0 DEF ActiveRowHasOwner, AdminOK, ReplacementsOnly, RegistryHoldsLiveHandlers, HandlerOK, Attached
<1>4. QED
  BY <1>1, <1>2, <1>3

\* A handler leaves: if it is not the current one, the current one owns the row.
LEMMA UnregisterKeeps ==
    ASSUME NEW c \in Conns, Unregister(c), RegistryInv
    PROVE  RegistryInv'
<1> USE RegistryAssumption DEF RegistryInv, RegistryTypeOK, HandlerState, Unregister, Current
<1>1. RegistryTypeOK'
  BY CountIsBounded DEF AdminStep, Registered
<1>2. RegistryHoldsLiveHandlers' /\ ReplacedIsBeingClosed' /\ (\A e \in Conns : HandlerOK(e))'
  BY DEF RegistryHoldsLiveHandlers, ReplacedIsBeingClosed, HandlerOK, Attached, AdminStep, Row
<1>3. ActiveRowHasOwner' /\ AdminOK' /\ ReplacementsOnly'
  BY DEF ActiveRowHasOwner, AdminOK, ReplacementsOnly, RegistryHoldsLiveHandlers, HandlerOK, Attached, Row
<1>4. QED
  BY <1>1, <1>2, <1>3

\* Only a handler that was replaced returns without writing the row.
LEMMA PublishLeftKeeps ==
    ASSUME NEW c \in Conns, PublishLeft(c), RegistryInv
    PROVE  RegistryInv'
<1> USE RegistryAssumption DEF RegistryInv, RegistryTypeOK, HandlerState, PublishLeft, Publish
<1>1. RegistryTypeOK'
  BY FS_CardinalityType
<1>2. RegistryHoldsLiveHandlers' /\ ReplacedIsBeingClosed' /\ (\A e \in Conns : HandlerOK(e))'
  BY DEF RegistryHoldsLiveHandlers, ReplacedIsBeingClosed, HandlerOK, Attached, AdminStep, Row
<1>3. ActiveRowHasOwner' /\ AdminOK' /\ ReplacementsOnly'
  BY DEF ActiveRowHasOwner, AdminOK, ReplacementsOnly, RegistryHoldsLiveHandlers, HandlerOK, Attached, Row
<1>4. QED
  BY <1>1, <1>2, <1>3

\* An owner that goes leaves the row inactive.
LEMMA DeactivateKeeps ==
    ASSUME NEW c \in Conns, Deactivate(c), RegistryInv
    PROVE  RegistryInv'
<1> USE RegistryAssumption DEF RegistryInv, RegistryTypeOK, HandlerState, Deactivate, UpdateMachine
<1>0. /\ [held[c] EXCEPT !.active = FALSE] \in Row
      /\ [held[c] EXCEPT !.active = FALSE].active = FALSE
  BY RowWithActive DEF HandlerOK
<1>1. RegistryTypeOK'
  BY <1>0 DEF HandlerOK
<1>2. RegistryHoldsLiveHandlers' /\ ReplacedIsBeingClosed' /\ (\A e \in Conns : HandlerOK(e))'
  BY <1>0 DEF RegistryHoldsLiveHandlers, ReplacedIsBeingClosed, HandlerOK, Attached, AdminStep
<1>3. ActiveRowHasOwner' /\ AdminOK' /\ ReplacementsOnly'
  BY <1>0 DEF ActiveRowHasOwner, AdminOK, ReplacementsOnly, RegistryHoldsLiveHandlers, HandlerOK, Attached
<1>4. QED
  BY <1>1, <1>2, <1>3

\* A connection breaks; its handler has yet to find out.
LEMMA DropKeeps ==
    ASSUME NEW c \in Conns, Drop(c), RegistryInv
    PROVE  RegistryInv'
<1> USE RegistryAssumption DEF RegistryInv, RegistryTypeOK, HandlerState, Drop
<1>1. RegistryTypeOK'
  BY DEF AdminStep, Row
<1>2. RegistryHoldsLiveHandlers' /\ ReplacedIsBeingClosed' /\ (\A e \in Conns : HandlerOK(e))'
  BY DEF RegistryHoldsLiveHandlers, ReplacedIsBeingClosed, HandlerOK, Attached, AdminStep, Row
<1>3. ActiveRowHasOwner' /\ AdminOK' /\ ReplacementsOnly'
  BY DEF ActiveRowHasOwner, AdminOK, ReplacementsOnly, RegistryHoldsLiveHandlers, HandlerOK, Attached, Row
<1>4. QED
  BY <1>1, <1>2, <1>3

\* An edit is counted when it is begun.
LEMMA AdminReadKeeps ==
    ASSUME NEW m \in Machines, NEW active \in BOOLEAN, NEW changes \in BOOLEAN,
           AdminRead(m, active, changes), RegistryInv
    PROVE  RegistryInv'
<1> USE RegistryAssumption DEF RegistryInv, RegistryTypeOK, HandlerState, AdminRead
<1>1. RegistryTypeOK'
  BY DEF AdminStep, Row
<1>2. RegistryHoldsLiveHandlers' /\ ReplacedIsBeingClosed' /\ (\A e \in Conns : HandlerOK(e))'
  BY DEF RegistryHoldsLiveHandlers, ReplacedIsBeingClosed, HandlerOK, Attached, AdminStep, Row
<1>3. ActiveRowHasOwner' /\ AdminOK' /\ ReplacementsOnly'
  BY DEF ActiveRowHasOwner, AdminOK, ReplacementsOnly, RegistryHoldsLiveHandlers, HandlerOK, Attached, Row
<1>4. QED
  BY <1>1, <1>2, <1>3

\* The connection that is unregistered will be closed by the request.
LEMMA AdminDisconnectKeeps ==
    ASSUME NEW m \in Machines, NEW delete \in BOOLEAN, AdminDisconnect(m, delete), RegistryInv
    PROVE  RegistryInv'
<1> USE RegistryAssumption DEF RegistryInv, RegistryTypeOK, HandlerState, AdminDisconnect
<1>1. RegistryTypeOK'
  BY CountIsBounded DEF AdminStep, Registered
<1>2. RegistryHoldsLiveHandlers' /\ ReplacedIsBeingClosed' /\ (\A e \in Conns : HandlerOK(e))'
  <2>1. RegistryHoldsLiveHandlers' /\ (\A e \in Conns : HandlerOK(e))'
    BY DEF RegistryHoldsLiveHandlers, HandlerOK, Attached
  <2>2. ASSUME NEW e \in open', Attached(e)', (agents[MachineOf[e]] # e)'
        PROVE  \/ (\E d \in Conns : handler[d] = "registered" /\ previous[d] = e)'
               \/ (\E step \in admin : step.op = "close" /\ step.conn = e)'
    <3>1. CASE agents[m] = e
      <4>1. [op |-> "close", machine |-> m, conn |-> e, delete |-> delete,
             count |-> Cardinality(Registered \ {m})] \in admin'
        BY <2>2, <3>1
      <4>2. QED
        BY <4>1
    <3>2. CASE agents[m] # e
      BY <2>2, <3>2 DEF ReplacedIsBeingClosed, Attached
    <3>3. QED
      BY <3>1, <3>2
  <2>3. QED
    BY <2>1, <2>2 DEF ReplacedIsBeingClosed
<1>3. ActiveRowHasOwner' /\ AdminOK' /\ ReplacementsOnly'
  BY DEF ActiveRowHasOwner, AdminOK, ReplacementsOnly, RegistryHoldsLiveHandlers, HandlerOK, Attached, Row
<1>4. QED
  BY <1>1, <1>2, <1>3

\* A row is written by an edit, after which nothing is claimed of rows.
LEMMA AdminWriteKeeps ==
    ASSUME NEW step \in admin, AdminWrite(step), RegistryInv
    PROVE  RegistryInv'
<1> USE RegistryAssumption DEF RegistryInv, RegistryTypeOK, HandlerState, AdminWrite, UpdateMachine
<1>1. RegistryTypeOK'
  BY DEF AdminStep, Row
<1>2. RegistryHoldsLiveHandlers' /\ ReplacedIsBeingClosed' /\ (\A e \in Conns : HandlerOK(e))'
  BY DEF RegistryHoldsLiveHandlers, ReplacedIsBeingClosed, HandlerOK, Attached, AdminStep, Row
<1>3. ActiveRowHasOwner' /\ AdminOK' /\ ReplacementsOnly'
  BY DEF ActiveRowHasOwner, AdminOK, ReplacementsOnly, RegistryHoldsLiveHandlers, HandlerOK, Attached, Row
<1>4. QED
  BY <1>1, <1>2, <1>3

\* The request's close is what its connection was waiting for.
LEMMA AdminCloseKeeps ==
    ASSUME NEW step \in admin, AdminClose(step), RegistryInv
    PROVE  RegistryInv'
<1> USE RegistryAssumption DEF RegistryInv, RegistryTypeOK, HandlerState, AdminClose
<1>1. RegistryTypeOK'
  BY DEF AdminStep, Row
<1>2. RegistryHoldsLiveHandlers' /\ ReplacedIsBeingClosed' /\ (\A e \in Conns : HandlerOK(e))'
  BY DEF RegistryHoldsLiveHandlers, ReplacedIsBeingClosed, HandlerOK, Attached, AdminStep, Row
<1>3. ActiveRowHasOwner' /\ AdminOK' /\ ReplacementsOnly'
  BY DEF ActiveRowHasOwner, AdminOK, ReplacementsOnly, RegistryHoldsLiveHandlers, HandlerOK, Attached, Row
<1>4. QED
  BY <1>1, <1>2, <1>3

\* A deleted row is no longer active.
LEMMA AdminDeleteKeeps ==
    ASSUME NEW step \in admin, AdminDelete(step), RegistryInv
    PROVE  RegistryInv'
<1> USE RegistryAssumption DEF RegistryInv, RegistryTypeOK, HandlerState, AdminDelete
<1>1. RegistryTypeOK'
  BY DEF AdminStep, Row
<1>2. RegistryHoldsLiveHandlers' /\ ReplacedIsBeingClosed' /\ (\A e \in Conns : HandlerOK(e))'
  BY DEF RegistryHoldsLiveHandlers, ReplacedIsBeingClosed, HandlerOK, Attached, AdminStep, Row
<1>3. ActiveRowHasOwner' /\ AdminOK' /\ ReplacementsOnly'
  BY DEF ActiveRowHasOwner, AdminOK, ReplacementsOnly, RegistryHoldsLiveHandlers, HandlerOK, Attached, Row
<1>4. QED
  BY <1>1, <1>2, <1>3

\* handleAgentConnection, DisconnectAgent and the machine endpoints keep
\* RegistryInv, in whatever order their critical sections, row writes and
\* closes come.
THEOREM RegistryInvariant == RegistrySpec => []RegistryInv
<1>1. RegistryInit => RegistryInv
  <2> SUFFICES ASSUME RegistryInit PROVE RegistryInv
    OBVIOUS
  <2> USE RegistryAssumption DEF RegistryInit
  <2>1. RegistryTypeOK
    BY FS_CardinalityType DEF RegistryTypeOK, Row, HandlerState
  <2>2. QED
    BY <2>1 DEF RegistryInv, RegistryHoldsLiveHandlers, ReplacedIsBeingClosed, ActiveRowHasOwner,
       HandlerOK, AdminOK, ReplacementsOnly, Attached
<1>2. RegistryInv /\ [RegistryNext]_registryVars => RegistryInv'
  <2> SUFFICES ASSUME RegistryInv, [RegistryNext]_registryVars
               PROVE  RegistryInv'
    OBVIOUS
  <2>1. CASE UNCHANGED registryVars
    BY <2>1 DEF registryVars, RegistryInv, RegistryTypeOK, RegistryHoldsLiveHandlers, ReplacedIsBeingClosed,
       ActiveRowHasOwner, HandlerOK, AdminOK, ReplacementsOnly, Attached
  <2>2. ASSUME NEW c \in Conns, Dial(c) \/ HandlerStep(c) \/ Drop(c)
        PROVE  RegistryInv'
    BY <2>2, DialKeeps, RegisterKeeps, ClosePreviousKeeps, ActivateKeeps, UnregisterKeeps,
       PublishLeftKeeps, DeactivateKeeps, DropKeeps DEF HandlerStep
  <2>3. CASE AdminStart
    BY <2>3, AdminReadKeeps, AdminDisconnectKeeps DEF AdminStart
  <2>4. CASE AdminContinue
    BY <2>4, AdminWriteKeeps, AdminCloseKeeps, AdminDeleteKeeps DEF AdminContinue
  <2>5. QED
    BY <2>1, <2>2, <2>3, <2>4 DEF RegistryNext
<1>3. QED
  BY <1>1, <1>2, PTL DEF RegistrySpec

\* Whoever reaches an agent through the registry reaches a handler that is
\* still at work, and a connection that lost its slot is closed or about to
\* be, for any number of reconnections and admin requests.
THEOREM RegistryStaysSound == RegistrySpec => []RegistryIsSound
<1>1. RegistryInv => RegistryIsSound
  BY DEF RegistryInv, RegistryIsSound
<1>2. QED
  BY <1>1, RegistryInvariant, PTL

\* A machine's row is active only while a handler will still write it, and a
\* machine whose connection merely replaced another keeps an active row.
THEOREM RowsFollowRegistry == RegistrySpec => []RowFollowsRegistry
<1>1. RegistryInv => RowFollowsRegistry
  BY DEF RegistryInv, RowFollowsRegistry, ReplacementKeepsActive, ServedMachineIsActive,
     ReplacementsOnly
<1>2. QED
  BY <1>1, RegistryInvariant, PTL
=============================================================================
