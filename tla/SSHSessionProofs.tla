-------------------------- MODULE SSHSessionProofs --------------------------
(***************************************************************************)
(* The safety of one SSH session, for any number of requests: the request  *)
(* loop never sends on a channel that is closed or nil, the terminal has   *)
(* the sizes that were asked for, the handler's inputs but the window      *)
(* stand still, and the status is sent before the channel closes.          *)
(***************************************************************************)
EXTENDS SSHSession, TLAPS

\* The loop makes winch with the pty and closes it when it ends.
WinchOwned ==
    /\ pty => winch # "nil" /\ win \in reads
    /\ winch = "nil" => win = 0 /\ size = 0 /\ sizer = "none"
    /\ winch = "closed" => loop = "ended"
    /\ sizer = "ended" => winch = "closed"
    /\ sizer = "none" /\ pty => size # 0
    /\ size <= win

\* How far the handler is, and what it has left behind on its way.
HandlerOrder ==
    /\ hpc # "none" => handled
    /\ hpc = "copy" => sizer # "none"
    /\ hpc = "leave" => closed \/ sizer # "none"
    /\ hpc \in {"exit0", "done"} => closed
    /\ exited => closed

\* The inductive invariant.
Inv == SessionInv /\ WinchOwned /\ HandlerOrder

LEMMA InitInv == Init => Inv
<1> SUFFICES ASSUME Init PROVE Inv
  OBVIOUS
<1>1. /\ sent \in 0..MaxReq /\ env \in 0..sent /\ win \in 0..sent /\ size \in 0..sent
      /\ reads \in SUBSET (1..sent)
      /\ ptyReq \in Window /\ tty \in Window
  BY MaxReqAssumption DEF Init, Window, Whole
<1>2. TypeOK
  BY <1>1, Zenon DEF Init, TypeOK, HandlerAt
<1>3. SendIsSafe /\ WinchOwned /\ HandlerOrder
  BY DEF Init, SendIsSafe, WinchOwned, HandlerOrder
<1>4. TerminalFollows
  BY DEF Init, TerminalFollows
<1> QED
  BY <1>2, <1>3, <1>4 DEF Inv, SessionInv

LEMMA NextInv == Inv /\ [Next]_vars => Inv'
<1> SUFFICES ASSUME Inv, [Next]_vars PROVE Inv'
  OBVIOUS
<1> USE MaxReqAssumption
    DEF Inv, SessionInv, TypeOK, SendIsSafe, WinchOwned, HandlerOrder, HandlerAt,
        loopVars, winchVars, shellVars, handlerVars, TerminalFollows, Window, Whole
<1>1. ASSUME NEW cmd \in {"none", "command"}, ShellOrExec(cmd) PROVE Inv'
  BY <1>1 DEF ShellOrExec, Receive
<1>2. CASE Env
  BY <1>2 DEF Env, Receive
<1>3. CASE PtyReq
  BY <1>3 DEF PtyReq, Receive
<1>4. CASE WindowChange
  BY <1>4 DEF WindowChange, Receive
<1>5. CASE Refused
  BY <1>5 DEF Refused, Receive
<1>6. CASE SendSize
  BY <1>6 DEF SendSize
<1>7. CASE LoopEnds
  BY <1>7 DEF LoopEnds
<1>8. CASE SetupFails
  <2>1. /\ hpc' = "leave" /\ exited' = TRUE /\ closed' \in BOOLEAN /\ status' \in {"none", "0", "1"}
        /\ UNCHANGED <<reqs, sent, loop, loopVars, winchVars, shellVars, outcome>>
    BY <1>8 DEF SetupFails, Exit
  <2>2. closed'
    BY <1>8 DEF SetupFails, Exit
  <2>3. TypeOK'
    BY <2>1
  <2>4. SendIsSafe' /\ WinchOwned' /\ TerminalFollows'
    BY <2>1
  <2>5. HandlerOrder'
    <3>1. hpc # "none"
      BY <1>8 DEF SetupFails
    <3> QED BY <2>1, <2>2, <3>1
  <2> QED BY <2>3, <2>4, <2>5
<1>9. CASE StartShell
  BY <1>9 DEF StartShell, CopyWindow
<1>10. CASE StartCommand
  BY <1>10 DEF StartCommand
<1>11. CASE HandlerReturns
  BY <1>11 DEF HandlerReturns
<1>12. CASE FinalExit
  BY <1>12 DEF FinalExit, Exit
<1>13. CASE ShellEnds
  BY <1>13 DEF ShellEnds
<1>14. ASSUME NEW o \in Outcome, CommandEnds(o) PROVE Inv'
  <2>1. /\ hpc = "run" /\ hpc' = "leave" /\ outcome' \in Outcome /\ exited' = TRUE
        /\ status' \in {"none", "0", "1"}
        /\ UNCHANGED <<reqs, sent, loop, loopVars, winchVars, shellVars>>
    BY <1>14 DEF CommandEnds, CommandExitCode, Exit
  <2>2. closed' = TRUE
    BY <1>14 DEF CommandEnds, Exit
  <2>3. TypeOK'
    BY <2>1, <2>2
  <2>4. SendIsSafe' /\ WinchOwned' /\ TerminalFollows'
    BY <2>1
  <2>5. HandlerOrder'
    BY <2>1, <2>2
  <2> QED BY <2>3, <2>4, <2>5
<1>15. CASE Resize
  <2>1. UNCHANGED <<reqs, sent, loop, loopVars, winch, hpc, ptyReq, exited, closed, status, outcome>>
    BY <1>15 DEF Resize
  <2>2. CASE size # 0 /\ tty' = Whole(size) /\ size' = 0 /\ UNCHANGED sizer
    <3>1. TypeOK'
      BY <2>1, <2>2
    <3>2. SendIsSafe' /\ WinchOwned' /\ HandlerOrder'
      BY <1>15, <2>1, <2>2 DEF Resize
    <3>3. TerminalFollows'
      <4>1. size \in 0..win'
        BY <2>1
      <4>2. loop' # "winch" => tty' = Whole(win')
        BY <2>1, <2>2
      <4> QED BY <2>1, <2>2, <4>1, <4>2
    <3> QED BY <3>1, <3>2, <3>3
  <2>3. CASE size = 0 /\ winch = "closed" /\ sizer' = "ended" /\ UNCHANGED <<size, tty>>
    <3>1. TypeOK'
      BY <2>1, <2>3
    <3>2. SendIsSafe' /\ WinchOwned' /\ HandlerOrder'
      BY <1>15, <2>1, <2>3 DEF Resize
    <3>3. TerminalFollows'
      BY <1>15, <2>1, <2>3 DEF Resize
    <3> QED BY <3>1, <3>2, <3>3
  <2> QED BY <1>15, <2>2, <2>3 DEF Resize
<1>16. CASE ClientCloses
  BY <1>16 DEF ClientCloses
<1>17. CASE UNCHANGED vars
  BY <1>17 DEF vars
<1> QED
  BY <1>1, <1>2, <1>3, <1>4, <1>5, <1>6, <1>7, <1>8, <1>9, <1>10, <1>11, <1>12, <1>13, <1>14,
     <1>15, <1>16, <1>17
     DEF Next, Requests, Loop, Handler, CommandOrShellEnds

LEMMA InvAlways == Spec => []Inv
  BY InitInv, NextInv, PTL DEF Spec

\* The send of a window size never panics on a closed channel and never hangs on
\* a nil one, and the terminal gets the sizes whole and to the last, wherever
\* handler, loop and resizing goroutine are.
THEOREM SendsAreSafe == Spec => []SessionInv
  BY InvAlways, PTL DEF Inv

\* Of what the handler goroutine reads without a lock, only the window in the pty
\* is written under it, by a window change that also goes through winch.
THEOREM InputsStandStill == Spec => HandlerInputsStable
<1> DEFINE Stable == hpc # "none" =>
                       /\ UNCHANGED <<rawCmd, env, pty, handled>>
                       /\ win' # win => loop' = "winch"
                       /\ hpc' # hpc => hpc' \notin {"none", "start"}
<1>1. Inv /\ [Next]_vars => [Stable]_vars
  <2> SUFFICES ASSUME Inv, Next, hpc # "none" PROVE Stable
    OBVIOUS
  <2>1. handled
    BY DEF Inv, HandlerOrder
  <2>2. CASE Requests
    BY <2>1, <2>2 DEF Requests, ShellOrExec, Env, PtyReq, WindowChange, Refused, Receive,
                      loopVars, handlerVars
  <2>3. CASE Loop \/ Resize \/ ClientCloses
    BY <2>3 DEF Loop, SendSize, LoopEnds, Resize, ClientCloses, loopVars, handlerVars
  <2>4. CASE Handler
    BY <2>4 DEF Handler, SetupFails, StartShell, StartCommand, HandlerReturns, FinalExit, loopVars
  <2>5. CASE CommandOrShellEnds
    BY <2>5 DEF CommandOrShellEnds, ShellEnds, CommandEnds, loopVars
  <2> QED BY <2>2, <2>3, <2>4, <2>5 DEF Next
<1> QED
  BY <1>1, InvAlways, PTL DEF Spec, HandlerInputsStable

\* A client that is there is told the status before its channel is closed,
\* unless a shell was run, and is told 1 when the set-up failed.
THEOREM StatusComesFirst == Spec => StatusBeforeClose
<1> DEFINE First == ~closed /\ closed' /\ reqs = "open" /\ sizer = "none" =>
                      /\ status' # "none"
                      /\ outcome' = "none" => status' = "1"
<1>1. Inv /\ [Next]_vars => [First]_vars
  <2> SUFFICES ASSUME Inv, Next, ~closed, closed', reqs = "open", sizer = "none"
               PROVE  status' # "none" /\ (outcome' = "none" => status' = "1")
    OBVIOUS
  <2>1. ~exited /\ hpc # "leave" /\ hpc # "exit0"
    BY DEF Inv, HandlerOrder
  <2>2. CASE SetupFails
    BY <2>1, <2>2 DEF SetupFails, Exit
  <2>3. ASSUME NEW o \in Outcome, CommandEnds(o)
        PROVE  status' # "none" /\ (outcome' = "none" => status' = "1")
    BY <2>1, <2>3 DEF CommandEnds, CommandExitCode, Outcome, Exit
  <2>4. CASE HandlerReturns \/ FinalExit
    BY <2>1, <2>4 DEF HandlerReturns, FinalExit
  <2>5. CASE StartShell \/ StartCommand \/ ShellEnds
    BY <2>5 DEF StartShell, StartCommand, ShellEnds
  <2>6. CASE Requests
    BY <2>6 DEF Requests, ShellOrExec, Env, PtyReq, WindowChange, Refused, handlerVars
  <2>7. CASE Loop \/ Resize \/ ClientCloses
    BY <2>7 DEF Loop, SendSize, LoopEnds, Resize, ClientCloses, handlerVars
  <2> QED
    BY <2>2, <2>3, <2>4, <2>5, <2>6, <2>7 DEF Next, Handler, CommandOrShellEnds
<1> QED
  BY <1>1, InvAlways, PTL DEF Spec, StatusBeforeClose
=============================================================================
