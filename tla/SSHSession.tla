----------------------------- MODULE SSHSession -----------------------------
(***************************************************************************)
(* One session channel of the built-in SSH server: the request loop of     *)
(* internal/secure_shell/session.go, the goroutine that runs the handler   *)
(* of core/secure_shell/server.go and then calls Exit(0), and the          *)
(* goroutine that applies window sizes.  They share the session fields,    *)
(* the channel winch (capacity 1) and the SSH channel.  Signals and breaks *)
(* are in SSHSignals.                                                      *)
(***************************************************************************)
EXTENDS Naturals

CONSTANT MaxReq         \* bound: requests the client sends on the channel

ASSUME MaxReqAssumption == MaxReq \in Nat

VARIABLES
    reqs,       \* the request channel: "open", or "closed" by the client
    sent,       \* requests sent so far
    loop,       \* handleRequests: "recv", "winch" (sending a size), "ended"
    handled,    \* sess.handled
    rawCmd,     \* sess.rawCmd: "none" or a command
    env,        \* how many variables sess.env holds
    pty,        \* sess.pty # nil
    win,        \* sess.pty.Window, as the loop last wrote it
    reads,      \* what an unlocked read of that window may find in one of its fields
    winch,      \* sess.winch: "nil", "open", "closed"
    size,       \* the size winch holds, 0 when it is empty
    hpc,        \* where the handler goroutine is
    ptyReq,     \* the handler's copy of the window, taken by sess.Pty()
    sizer,      \* the goroutine that ranges over winch
    tty,        \* the size of the shell's terminal
    exited,     \* sess.exited
    closed,     \* the server has closed the SSH channel
    status,     \* the exit status the client was sent, or "none"
    outcome     \* history: how the command ended, or "none"

loopVars == <<handled, rawCmd, env, pty, win, reads>>
winchVars == <<winch, size>>
shellVars == <<ptyReq, sizer, tty>>
handlerVars == <<hpc, shellVars, exited, closed, status, outcome>>
vars == <<reqs, sent, loop, loopVars, winchVars, handlerVars>>

\* A window is known by the request that brought it.  Its two numbers are two
\* words of memory, so a copy may have them from different requests.
Window == [width : 0..MaxReq, height : 0..MaxReq]
Whole(n) == [width |-> n, height |-> n]

\* The error of cmd.Run: nil, that of a command that ended with a status or a
\* signal, or another one, such as that of a command that could not be started.
Outcome == {"ok", "failed", "unstarted"}

HandlerAt == {"none", "start", "run", "copy", "leave", "exit0", "done"}

TypeOK ==
    /\ reqs \in {"open", "closed"}
    /\ sent \in 0..MaxReq
    /\ loop \in {"recv", "winch", "ended"}
    /\ handled \in BOOLEAN
    /\ rawCmd \in {"none", "command"}
    /\ env \in 0..sent
    /\ pty \in BOOLEAN
    /\ win \in 0..sent
    /\ reads \in SUBSET (1..sent)
    /\ winch \in {"nil", "open", "closed"}
    /\ size \in 0..sent
    /\ hpc \in HandlerAt
    /\ ptyReq \in Window
    /\ sizer \in {"none", "on", "ended"}
    /\ tty \in Window
    /\ exited \in BOOLEAN
    /\ closed \in BOOLEAN
    /\ status \in {"none", "0", "1"}
    /\ outcome \in Outcome \cup {"none"}

Init ==
    /\ reqs = "open"
    /\ sent = 0
    /\ loop = "recv"
    /\ handled = FALSE
    /\ rawCmd = "none"
    /\ env = 0
    /\ pty = FALSE
    /\ win = 0
    /\ reads = {}
    /\ winch = "nil"
    /\ size = 0
    /\ hpc = "none"
    /\ ptyReq = Whole(0)
    /\ sizer = "none"
    /\ tty = Whole(0)
    /\ exited = FALSE
    /\ closed = FALSE
    /\ status = "none"
    /\ outcome = "none"

-----------------------------------------------------------------------------
(* handleRequests *)

\* The loop takes the next request of the client.
Receive ==
    /\ loop = "recv" /\ reqs = "open"
    /\ sent < MaxReq
    /\ sent' = sent + 1

\* shell carries no command, exec carries one; the handler goroutine starts.
ShellOrExec(cmd) ==
    /\ Receive
    /\ ~handled
    /\ rawCmd' = cmd
    /\ handled' = TRUE
    /\ hpc' = "start"
    /\ UNCHANGED <<reqs, loop, env, pty, win, reads, winchVars, shellVars, exited, closed,
                   status, outcome>>

\* Seeded bug: env is accepted at any time.
EnvAlways ==
    /\ Receive
    /\ env' = env + 1
    /\ UNCHANGED <<reqs, loop, handled, rawCmd, pty, win, reads, winchVars, handlerVars>>

Env ==
    /\ Receive
    /\ ~handled
    /\ env' = env + 1
    /\ UNCHANGED <<reqs, loop, handled, rawCmd, pty, win, reads, winchVars, handlerVars>>

\* The channel is made with room for one size, and the first size is put in it.
PtyReq ==
    /\ Receive
    /\ ~handled /\ ~pty
    /\ pty' = TRUE
    /\ win' = sent' /\ reads' = {sent'}
    /\ winch' = "open" /\ size' = sent'
    /\ UNCHANGED <<reqs, loop, handled, rawCmd, env, handlerVars>>

\* The window is written without a lock, and then sent.  Once the handler runs
\* nothing orders this write and its read: the read may find each field old or new.
WindowChange ==
    /\ Receive
    /\ pty
    /\ win' = sent'
    /\ reads' = IF handled THEN reads \cup {sent'} ELSE {sent'}
    /\ loop' = "winch"
    /\ UNCHANGED <<reqs, handled, rawCmd, env, pty, winchVars, handlerVars>>

\* A request that is refused: shell, exec or env once handled, a second pty-req,
\* window-change without a pty, a subsystem (none is registered, and the default
\* one is looked up and then refused too), a payload that does not parse, a
\* callback that says no; or one that changes nothing (auth-agent-req).
Refused ==
    /\ Receive
    /\ UNCHANGED <<reqs, loop, loopVars, winchVars, handlerVars>>

\* sess.winch <- win blocks while the channel is full.
SendSize ==
    /\ loop = "winch" /\ winch = "open" /\ size = 0
    /\ size' = win
    /\ loop' = "recv"
    /\ UNCHANGED <<reqs, sent, loopVars, winch, handlerVars>>

\* Seeded bug: the loop is left to itself once the handler has returned.
LoopEndsBeforeHandler ==
    /\ loop = "recv" /\ reqs = "closed" /\ hpc \in {"none", "start", "run", "copy"}
    /\ loop' = "ended"
    /\ winch' = IF pty THEN "closed" ELSE winch
    /\ UNCHANGED <<reqs, sent, loopVars, size, handlerVars>>

\* The range over reqs ends and the deferred close of winch runs; a size it
\* still holds can be received.
LoopEnds ==
    /\ loop = "recv" /\ reqs = "closed"
    /\ loop' = "ended"
    /\ winch' = IF pty THEN "closed" ELSE winch
    /\ UNCHANGED <<reqs, sent, loopVars, size, handlerVars>>

-----------------------------------------------------------------------------
(* The handler goroutine *)

\* Session.Exit: at most one exit-status, on a channel neither side has closed,
\* and then the channel is closed.
Exit(code) ==
    /\ exited' = TRUE
    /\ status' = IF ~exited /\ ~closed /\ reqs = "open" THEN code ELSE status
    /\ closed' = (closed \/ ~exited)

\* Seeded bug: a failing set-up only returns, and leaves the status to the
\* Exit(0) that follows the handler.
SetupFailsSilently ==
    /\ hpc = "start"
    /\ hpc' = "leave"
    /\ UNCHANGED <<reqs, sent, loop, loopVars, winchVars, shellVars, exited, closed, status,
                   outcome>>

\* The user lookup, the pty, the missing command or the stdin pipe fails.
SetupFails ==
    /\ hpc = "start"
    /\ Exit("1")
    /\ hpc' = "leave"
    /\ UNCHANGED <<reqs, sent, loop, loopVars, winchVars, shellVars, outcome>>

\* sess.Pty() copies the window, field by field and without a lock.
CopyWindow == \E w, h \in reads : ptyReq' = [width |-> w, height |-> h]

\* Seeded bug: the terminal is created with the size the handler has copied.
StartShellSized ==
    /\ hpc = "start" /\ pty
    /\ CopyWindow
    /\ sizer' = "on"
    /\ tty' = ptyReq'
    /\ hpc' = "copy"
    /\ UNCHANGED <<reqs, sent, loop, loopVars, winchVars, exited, closed, status, outcome>>

\* A shell starts on the pty, whose size is left to the goroutine that reads winch.
StartShell ==
    /\ hpc = "start" /\ pty
    /\ CopyWindow
    /\ sizer' = "on"
    /\ hpc' = "copy"
    /\ UNCHANGED <<reqs, sent, loop, loopVars, winchVars, tty, exited, closed, status, outcome>>

StartCommand ==
    /\ hpc = "start" /\ ~pty /\ rawCmd # "none"
    /\ hpc' = "run"
    /\ UNCHANGED <<reqs, sent, loop, loopVars, winchVars, shellVars, exited, closed, status,
                   outcome>>

\* The shell ends; no exit status is sent for it.
ShellEnds ==
    /\ hpc = "copy"
    /\ hpc' = "leave"
    /\ UNCHANGED <<reqs, sent, loop, loopVars, winchVars, shellVars, exited, closed, status,
                   outcome>>

\* The status or 128 plus the signal of a command that ended with one; an error
\* of another kind is 0 here, like none.
CommandExitCode(err) == IF err = "failed" THEN "1" ELSE "0"

\* cmd.Run returns.  Its error is assigned to a variable of the inner scope, so
\* commandExitCode is given the nil error of StdinPipe, whatever the outcome.
CommandEnds(o) ==
    /\ hpc = "run"
    /\ outcome' = o
    /\ Exit(CommandExitCode("ok"))
    /\ hpc' = "leave"
    /\ UNCHANGED <<reqs, sent, loop, loopVars, winchVars, shellVars>>

\* The deferred sess.Close() of the handler.
HandlerReturns ==
    /\ hpc = "leave"
    /\ closed' = TRUE
    /\ hpc' = "exit0"
    /\ UNCHANGED <<reqs, sent, loop, loopVars, winchVars, shellVars, exited, status, outcome>>

\* sess.Exit(0) after the handler.
FinalExit ==
    /\ hpc = "exit0"
    /\ Exit("0")
    /\ hpc' = "done"
    /\ UNCHANGED <<reqs, sent, loop, loopVars, winchVars, shellVars, outcome>>

\* for win := range winCh.  Nobody else sets the size of the terminal, so
\* receiving a size and setting it are one step.
Resize ==
    /\ sizer = "on"
    /\ \/ size # 0 /\ tty' = Whole(size) /\ size' = 0 /\ UNCHANGED sizer
       \/ size = 0 /\ winch = "closed" /\ sizer' = "ended" /\ UNCHANGED <<size, tty>>
    /\ UNCHANGED <<reqs, sent, loop, loopVars, winch, hpc, ptyReq, exited, closed, status, outcome>>

-----------------------------------------------------------------------------

\* The client closes its side: when it likes, or in answer to the server's close.
ClientCloses ==
    /\ reqs = "open"
    /\ reqs' = "closed"
    /\ UNCHANGED <<sent, loop, loopVars, winchVars, handlerVars>>

Loop == SendSize \/ LoopEnds

Requests ==
    \/ \E cmd \in {"none", "command"} : ShellOrExec(cmd)
    \/ Env \/ PtyReq \/ WindowChange \/ Refused

Handler ==
    \/ SetupFails \/ StartShell \/ StartCommand
    \/ HandlerReturns \/ FinalExit

CommandOrShellEnds == ShellEnds \/ \E o \in Outcome : CommandEnds(o)

Next == Requests \/ Loop \/ Handler \/ CommandOrShellEnds \/ Resize \/ ClientCloses

Spec == Init /\ [][Next]_vars

\* Goroutines that can run do, and a channel the server closed is closed by the
\* client or by the end of its connection.  A command may run for ever.
Fairness ==
    /\ WF_vars(Loop)
    /\ WF_vars(Handler)
    /\ WF_vars(Resize)
    /\ WF_vars(closed /\ ClientCloses)

FairSpec == Spec /\ Fairness

-----------------------------------------------------------------------------
(* Properties *)

\* The loop never sends on a closed or nil winch, which would panic or hang.
SendIsSafe == loop = "winch" => winch = "open"

\* The terminal only ever has a size the client asked for, with both numbers of
\* one request, although sess.pty.Window can be copied half written; and no size
\* is passed over: whenever winch is empty and the loop has nothing to put in it,
\* the terminal has the last size asked for, as it has when the resizing ends.
TerminalFollows ==
    /\ \E n \in 0..win : tty = Whole(n)
    /\ loop # "winch" /\ size # 0 => size = win
    /\ loop # "winch" /\ size = 0 /\ sizer # "none" => tty = Whole(win)

\* The send of a window size is safe and the terminal gets its sizes whole and
\* to the last, wherever the handler, the loop and the resizing goroutine are.
SessionInv == TypeOK /\ SendIsSafe /\ TerminalFollows

\* Of what the handler goroutine reads without a lock (the command, the
\* environment, the pty), all that is still written once it runs is the window in
\* the pty, and only by a window change that also goes through winch; no second
\* handler is started.
HandlerInputsStable ==
    [][hpc # "none" =>
          /\ UNCHANGED <<rawCmd, env, pty, handled>>
          /\ win' # win => loop' = "winch"
          /\ hpc' # hpc => hpc' \notin {"none", "start"}]_vars

\* A client still there when the server closes its channel was told the exit
\* status first, unless a shell was run, and a set-up that failed is not covered
\* up by the final Exit(0).
StatusBeforeClose ==
    [][~closed /\ closed' /\ reqs = "open" /\ sizer = "none" =>
          /\ status' # "none"
          /\ outcome' = "none" => status' = "1"]_vars

\* A session whose handler is done, or whose client has left while a shell ran,
\* comes to an end: the resizing goroutine leaves its range and the loop returns.
\* The one exception is a window change after a handler that never started the
\* reader of winch: that loop sleeps in its send for ever.
SessionEnds ==
    (hpc = "done" \/ (sizer = "on" /\ reqs = "closed")) ~>
        \/ loop = "ended" /\ sizer # "on"
        \/ loop = "winch" /\ sizer = "none"

\* What the handler tells the client ("Command exited with error"): a command
\* that failed is not reported with exit status 0.
StatusAsReported == outcome \in Outcome \ {"ok"} => status # "0"
=============================================================================
