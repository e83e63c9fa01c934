------------------------------ MODULE ExecPipe ------------------------------
(***************************************************************************)
(* One command run through the gateway: `osh machine command`, with or     *)
(* without a terminal, and the two directions of `ocp`.  The command's     *)
(* output goes through the pipes of the agent, the SSH channel from the    *)
(* agent to the gateway and the one from the gateway to the client.        *)
(*                                                                         *)
(* Data is counted in units.  Standard output and standard error share the *)
(* receive window of the agent's channel, and only a read gives it back.   *)
(***************************************************************************)
EXTENDS Integers

CONSTANTS
    OutUnits,   \* the most a command writes on standard output
    ErrUnits,   \* the most a command writes on standard error
    InUnits,    \* the size of an uploaded file
    PipeSize,   \* what a pipe of the operating system holds
    Window      \* the receive window of an SSH channel

ASSUME UnitsAssumption == {OutUnits, ErrUnits, InUnits, PipeSize, Window} \subseteq Nat

Kinds == {"command", "tty", "upload", "download"}
Fds == {"out", "err"}
NoStatus == -1

VARIABLES
    kind,       \* what the client runs
    cmd,        \* the command: "new", "running", "exited"; its exit code
    wrote,      \* what the command has written, by descriptor
    fed,        \* the units of input that reached the command
    pipe,       \* what is in the agent's pipes
    runner,      \* where the agent is
    window,     \* what the agent may still send
    unread,     \* what the gateway has received and not read, by descriptor
    eof,        \* the agent's channel has ended
    gw,         \* where the gateway's handler is
    forwarded,  \* the exit status the gateway's goroutine forwarded
    statuses,   \* exit-status requests the agent has sent
    stopping,   \* the gateway is shutting down
    cut,        \* the client's channel was closed, or its connection lost
    got,        \* the units of output the client has
    status,     \* the exit status the client has
    result      \* how the client ended

execVars == <<kind, cmd, wrote, fed, pipe, runner, window, unread, eof, gw,
              forwarded, statuses, stopping, cut, got, status, result>>

ExecTypeOK ==
    /\ kind \in Kinds
    /\ cmd.at \in {"new", "running", "exited"} /\ cmd.code \in {0, 1}
    /\ wrote.out \in 0 .. OutUnits /\ wrote.err \in 0 .. ErrUnits /\ fed \in 0 .. InUnits
    /\ \A f \in Fds : pipe[f] \in 0 .. PipeSize /\ unread[f] \in 0 .. Window
    /\ runner \in {"idle", "asked", "copying", "failing", "waited", "failed", "acked",
                  "done", "gone"}
    /\ window \in 0 .. Window /\ eof \in BOOLEAN /\ stopping \in BOOLEAN /\ cut \in BOOLEAN
    /\ gw \in {"asking", "copying", "waiting", "over"}
    /\ forwarded \in {NoStatus, 0, 1} /\ status \in {NoStatus, 0, 1} /\ statuses \in 0 .. 2
    /\ got \in 0 .. OutUnits + 1 /\ result \in {"none", "ok", "failed"}

ExecInit ==
    /\ kind \in Kinds
    /\ cmd = [at |-> "new", code |-> 0] /\ fed = 0
    /\ wrote = [f \in Fds |-> 0] /\ pipe = [f \in Fds |-> 0] /\ unread = [f \in Fds |-> 0]
    /\ runner = "idle" /\ window = Window /\ eof = FALSE
    /\ gw = "asking" /\ forwarded = NoStatus /\ statuses = 0
    /\ stopping = FALSE /\ cut = FALSE
    /\ got = 0 /\ status = NoStatus /\ result = "none"

commandVars == <<cmd, wrote, fed>>
agentVars == <<commandVars, pipe, runner, statuses>>
channelVars == <<window, unread, eof>>
faultVars == <<kind, stopping, cut>>
clientVars == <<got, status, result>>

\* The status reaches a client that is still connected; a later one
\* replaces an earlier one.
Tell(n) == status' = IF cut THEN status ELSE n

-----------------------------------------------------------------------------
(* The gateway asks the agent to run the command. *)

execRequest ==
    /\ gw = "asking"
    /\ \/ /\ runner = "idle" /\ ~eof
          /\ runner' = "asked" /\ gw' = "copying"
          /\ UNCHANGED status
       \/ /\ gw' = "over" /\ Tell(1) /\ UNCHANGED runner     \* refused, or lost
    /\ UNCHANGED <<commandVars, pipe, statuses, channelVars, faultVars, forwarded, got, result>>

-----------------------------------------------------------------------------
(* The agent and the command. *)

startCommand ==
    /\ runner = "asked"
    /\ runner' = "copying" /\ cmd' = [cmd EXCEPT !.at = "running"]
    /\ UNCHANGED <<wrote, fed, pipe, statuses, channelVars, gw, forwarded, faultVars, clientVars>>

\* The account is unknown, or a pipe or the process cannot be made.
cannotStart ==
    /\ runner = "asked" /\ runner' = "failing"
    /\ UNCHANGED <<commandVars, pipe, statuses, channelVars, gw, forwarded, faultVars, clientVars>>

\* The message why, which takes a unit of the window.
failExec ==
    /\ runner = "failing" /\ window > 0
    /\ runner' = "failed"
    /\ window' = window - 1 /\ unread' = [unread EXCEPT !.out = @ + 1]
    /\ UNCHANGED <<commandVars, pipe, statuses, eof, gw, forwarded, faultVars, clientVars>>

\* On a terminal both descriptors are the terminal.
Stream(f) == IF kind = "tty" THEN "out" ELSE f

commandWrites(f) ==
    /\ cmd.at = "running"
    /\ wrote[f] < (IF f = "out" THEN OutUnits ELSE ErrUnits)
    /\ kind = "tty" => f = "out"
    /\ pipe[Stream(f)] < PipeSize
    /\ wrote' = [wrote EXCEPT ![f] = @ + 1]
    /\ pipe' = [pipe EXCEPT ![Stream(f)] = @ + 1]
    /\ UNCHANGED <<cmd, fed, runner, statuses, channelVars, gw, forwarded, faultVars, clientVars>>

\* A unit of the uploaded file goes through the gateway and the agent.
commandReads ==
    /\ kind = "upload" /\ cmd.at = "running" /\ fed < InUnits
    /\ gw = "copying" /\ runner = "copying" /\ ~cut
    /\ fed' = fed + 1
    /\ UNCHANGED <<cmd, wrote, pipe, runner, statuses, channelVars, gw, forwarded, faultVars,
                   clientVars>>

\* scp succeeds only with the whole file.
commandExits(code) ==
    /\ cmd.at = "running"
    /\ (code = 0 /\ kind = "upload") => fed = InUnits
    /\ (code = 0 /\ kind = "download") => wrote.out = OutUnits
    /\ cmd' = [at |-> "exited", code |-> code]
    /\ UNCHANGED <<wrote, fed, pipe, runner, statuses, channelVars, gw, forwarded, faultVars,
                   clientVars>>

\* One copy for each descriptor, through the same window.
agentCopies(f) ==
    /\ runner = "copying" /\ pipe[f] > 0 /\ window > 0
    /\ pipe' = [pipe EXCEPT ![f] = @ - 1]
    /\ window' = window - 1 /\ unread' = [unread EXCEPT ![f] = @ + 1]
    /\ UNCHANGED <<commandVars, runner, statuses, eof, gw, forwarded, faultVars, clientVars>>

\* Mutant: Wait closes the pipes as soon as the command has exited.
waitCommand_Early ==
    /\ runner = "copying" /\ cmd.at = "exited"
    /\ runner' = "waited" /\ pipe' = [f \in Fds |-> 0]
    /\ UNCHANGED <<commandVars, statuses, channelVars, gw, forwarded, faultVars, clientVars>>

\* Both pipes are empty before Wait closes them.
waitCommand ==
    /\ runner = "copying" /\ cmd.at = "exited"
    /\ \A f \in Fds : pipe[f] = 0
    /\ runner' = "waited"
    /\ UNCHANGED <<commandVars, pipe, statuses, channelVars, gw, forwarded, faultVars, clientVars>>

\* The gateway's goroutine forwards the status as it comes, while output may
\* still be unread, and its acknowledgement lets the agent go on.
sendStatus ==
    /\ runner \in {"waited", "failed"}
    /\ runner' = "acked" /\ statuses' = statuses + 1
    /\ forwarded' = IF runner = "failed" THEN 1 ELSE cmd.code
    /\ Tell(forwarded')
    /\ UNCHANGED <<commandVars, pipe, channelVars, gw, faultVars, got, result>>

\* Mutant: the agent does not end its side of the channel.
closeWrite_Never ==
    /\ runner = "acked" /\ runner' = "done" /\ eof' = eof
    /\ UNCHANGED <<commandVars, pipe, statuses, window, unread, gw, forwarded, faultVars, clientVars>>

\* The end of the agent's output, after the status was acknowledged.
closeWrite ==
    /\ runner = "acked" /\ runner' = "done" /\ eof' = TRUE
    /\ UNCHANGED <<commandVars, pipe, statuses, window, unread, gw, forwarded, faultVars, clientVars>>

-----------------------------------------------------------------------------
(* The gateway.  It reads standard output only. *)

proxyOutput ==
    /\ gw = "copying" /\ unread.out > 0 /\ ~cut
    /\ unread' = [unread EXCEPT !.out = @ - 1] /\ window' = window + 1
    /\ got' = got + 1
    /\ UNCHANGED <<agentVars, eof, gw, forwarded, faultVars, status, result>>

\* The copy ends with the agent's output, or with a write to a client that
\* is gone.
proxyEnds ==
    /\ gw = "copying"
    /\ IF cut THEN unread.out > 0 \/ eof ELSE unread.out = 0 /\ eof
    /\ gw' = "waiting"
    /\ UNCHANGED <<agentVars, channelVars, forwarded, faultVars, clientVars>>

\* The status has been forwarded, the gateway stops, or five seconds pass.
statusWaited ==
    /\ gw = "waiting"
    /\ \/ (forwarded # NoStatus \/ stopping) /\ UNCHANGED status
       \/ forwarded = NoStatus /\ Tell(1)
    /\ gw' = "over"
    /\ UNCHANGED <<agentVars, channelVars, forwarded, faultVars, got, result>>

-----------------------------------------------------------------------------
(* The client. *)

\* A download reads the header first and gives up without one.
noHeader ==
    /\ kind = "download" /\ result = "none" /\ got = 0
    /\ cut \/ gw \in {"waiting", "over"}
    /\ result' = "failed"
    /\ UNCHANGED <<agentVars, channelVars, gw, forwarded, faultVars, got, status>>

\* Wait returns when the channel is closed; only status 0 is a success.
clientWait ==
    /\ result = "none" /\ (cut \/ gw = "over")
    /\ kind = "download" => got > 0
    /\ result' = IF status = 0 THEN "ok" ELSE "failed"
    /\ UNCHANGED <<agentVars, channelVars, gw, forwarded, faultVars, got, status>>

-----------------------------------------------------------------------------
(* What goes wrong. *)

agentLost ==
    /\ ~eof /\ eof' = TRUE /\ runner' = "gone"
    /\ UNCHANGED <<commandVars, pipe, statuses, window, unread, gw, forwarded, faultVars, clientVars>>

clientLost ==
    /\ ~cut /\ cut' = TRUE
    /\ UNCHANGED <<agentVars, channelVars, gw, forwarded, kind, stopping, clientVars>>

\* Shutdown ends a session by closing both its channels.
shutdown ==
    /\ ~stopping /\ stopping' = TRUE /\ cut' = TRUE
    /\ eof' = TRUE /\ runner' = IF eof THEN runner ELSE "gone"
    /\ UNCHANGED <<commandVars, pipe, statuses, window, unread, gw, forwarded, kind, clientVars>>

AgentSteps ==
    startCommand \/ cannotStart \/ failExec \/ waitCommand \/ sendStatus \/ closeWrite

ExecNext ==
    \/ execRequest \/ AgentSteps
    \/ \E f \in Fds : commandWrites(f) \/ agentCopies(f)
    \/ \E code \in {0, 1} : commandExits(code)
    \/ commandReads
    \/ proxyOutput \/ proxyEnds \/ statusWaited \/ noHeader \/ clientWait
    \/ agentLost \/ clientLost \/ shutdown

\* Copies and handlers run; the command, the faults and the operator need not.
ExecFairness ==
    /\ WF_execVars(execRequest) /\ WF_execVars(AgentSteps)
    /\ \A f \in Fds : WF_execVars(agentCopies(f))
    /\ WF_execVars(proxyOutput) /\ WF_execVars(proxyEnds) /\ WF_execVars(statusWaited)
    /\ WF_execVars(noHeader \/ clientWait)

ExecSpec == ExecInit /\ [][ExecNext]_execVars /\ ExecFairness

-----------------------------------------------------------------------------
(* The client reports success only with everything the command wrote, or   *)
(* with the whole file, unless its connection was lost or the gateway      *)
(* stopped: the status is forwarded while output is still on its way.  And *)
(* the agent sends one exit status, since a second would close a Go        *)
(* channel of the gateway twice, which panics.                             *)
SuccessIsWhole ==
    /\ (result = "ok" /\ ~cut) =>
          /\ cmd = [at |-> "exited", code |-> 0] /\ got = wrote.out
          /\ kind = "upload" => fed = InUnits
    /\ statuses <= 1

(* A command that has exited, and wrote less on standard error than the    *)
(* window of the channel, lets its client return.                          *)
ExecFinishes ==
    (cmd.at = "exited" /\ wrote.err < Window) ~> result # "none"

(* What the comment of proxyConnection says: it returns once the agent's   *)
(* output has ended, as OpenSSH ends a session when the command exits.     *)
ExecEndsWithCommand == (cmd.at = "exited") ~> result # "none"

(* A command's result can be relied on.                                    *)
ExecIsSound == ExecTypeOK /\ SuccessIsWhole
=============================================================================
