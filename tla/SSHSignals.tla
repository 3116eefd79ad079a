----------------------------- MODULE SSHSignals -----------------------------
(***************************************************************************)
(* Signals and breaks of an SSH session (internal/secure_shell/session.go):*)
(* the request loop that takes them from the client, the handler that      *)
(* registers and unregisters its channels with Signals and Break and ends  *)
(* with Exit, the goroutines that Signals starts to send what was buffered *)
(* and the receiver at the other end of the channels.  The loop sends with *)
(* the session mutex held; the flushing goroutines send without it.        *)
(*                                                                         *)
(* Signals are numbered in the order the client sent them.                 *)
(***************************************************************************)
EXTENDS Naturals, SequencesExt

CONSTANTS
    MaxSig,       \* bound: signals the client sends
    MaxBreak,     \* bound: breaks the client sends
    MaxCalls,     \* bound: calls of Signals by the handler
    BufSize,      \* maxSigBufSize
    Drain         \* whether the receiver reads until Exit has returned

ASSUME SignalsAssumption ==
    /\ {MaxSig, MaxBreak, MaxCalls, BufSize} \subseteq Nat
    /\ Drain \in BOOLEAN

VARIABLES
    loop,      \* the request loop: "recv", or sending: "sig", "brk"
    mu,        \* the session mutex is held (by the loop, which alone blocks under it)
    last,      \* signals received so far
    breaks,    \* breaks received so far
    sigCh,     \* sess.sigCh # nil
    breakCh,   \* sess.breakCh # nil
    sigBuf,    \* sess.sigBuf
    began,     \* began[i]: how long sigBuf was when the i-th call of Signals started a
               \* goroutine that has yet to read it, 0 if there is none
    flush,     \* flush[i]: what the goroutine of the i-th call of Signals has to send
    calls,     \* calls of Signals so far
    got,       \* the signals the receiver got, in order
    reading,   \* the receiver still reads
    hpc,       \* the handler: "run", "unregister", "exit", "done"
    live,      \* history: signals that arrived while a channel was registered
    dropped    \* history: signals that found the buffer full

vars == <<loop, mu, last, breaks, sigCh, breakCh, sigBuf, began, flush, calls, got, reading,
          hpc, live, dropped>>

Signal == 1..MaxSig
Garbage == 0        \* what the memory behind an unlocked read of the buffer may hold
Sent == Signal \cup {Garbage}
Call == 1..MaxCalls

TypeOK ==
    /\ loop \in {"recv", "sig", "brk"}
    /\ mu = (loop # "recv")
    /\ last \in 0..MaxSig
    /\ breaks \in 0..MaxBreak
    /\ sigCh \in BOOLEAN /\ breakCh \in BOOLEAN
    /\ sigBuf \in Seq(Signal) /\ Len(sigBuf) <= BufSize
    /\ began \in [Call -> 0..Len(sigBuf)]
    /\ flush \in [Call -> Seq(Sent)]
    /\ calls \in 0..MaxCalls
    /\ got \in Seq(Sent)
    /\ reading \in BOOLEAN
    /\ hpc \in {"run", "unregister", "exit", "done"}
    /\ live \in SUBSET Signal /\ dropped \in SUBSET Signal

Init ==
    /\ loop = "recv"
    /\ mu = FALSE
    /\ last = 0
    /\ breaks = 0
    /\ sigCh = FALSE /\ breakCh = FALSE
    /\ sigBuf = <<>>
    /\ began = [i \in Call |-> 0]
    /\ flush = [i \in Call |-> <<>>]
    /\ calls = 0
    /\ got = <<>>
    /\ reading = TRUE
    /\ hpc = "run"
    /\ live = {} /\ dropped = {}

-----------------------------------------------------------------------------
(* The request loop *)

Buffer(s) ==
    /\ sigBuf' = IF Len(sigBuf) < BufSize THEN Append(sigBuf, s) ELSE sigBuf
    /\ dropped' = IF Len(sigBuf) < BufSize THEN dropped ELSE dropped \cup {s}

\* A signal request: sent on sigCh with the mutex held, or buffered.
SignalRequest ==
    /\ loop = "recv" /\ ~mu
    /\ last < MaxSig
    /\ last' = last + 1
    /\ IF sigCh
       THEN /\ loop' = "sig" /\ mu' = TRUE
            /\ live' = live \cup {last'}
            /\ UNCHANGED <<sigBuf, dropped>>
       ELSE /\ Buffer(last')
            /\ UNCHANGED <<loop, mu, live>>
    /\ UNCHANGED <<breaks, sigCh, breakCh, began, flush, calls, got, reading, hpc>>

\* A break request: sent with the mutex held, or refused.
BreakRequest ==
    /\ loop = "recv" /\ ~mu
    /\ breaks < MaxBreak
    /\ breaks' = breaks + 1
    /\ IF breakCh THEN loop' = "brk" /\ mu' = TRUE ELSE UNCHANGED <<loop, mu>>
    /\ UNCHANGED <<last, sigCh, breakCh, sigBuf, began, flush, calls, got, reading, hpc, live, dropped>>

\* Seeded bug: the loop gives up at once when the receiver is not ready.
SendTries ==
    /\ loop # "recv" /\ reading
    /\ \E sig \in {got, Append(got, last)} : got' = IF loop = "sig" THEN sig ELSE got
    /\ loop' = "recv" /\ mu' = FALSE
    /\ UNCHANGED <<last, breaks, sigCh, breakCh, sigBuf, began, flush, calls, reading, hpc, live, dropped>>

\* Seeded bug: the mutex is not released after a break.
SendKeepsMutex ==
    /\ loop # "recv" /\ reading
    /\ got' = IF loop = "sig" THEN Append(got, last) ELSE got
    /\ loop' = "recv" /\ mu' = (loop = "brk")
    /\ UNCHANGED <<last, breaks, sigCh, breakCh, sigBuf, began, flush, calls, reading, hpc, live, dropped>>

\* The receiver takes what the loop sends, and the loop releases the mutex.
Send ==
    /\ loop # "recv" /\ reading
    /\ got' = IF loop = "sig" THEN Append(got, last) ELSE got
    /\ loop' = "recv" /\ mu' = FALSE
    /\ UNCHANGED <<last, breaks, sigCh, breakCh, sigBuf, began, flush, calls, reading, hpc, live, dropped>>

-----------------------------------------------------------------------------
(* The handler *)

\* Seeded bug: the buffered signals are sent only by the first registration, and
\* a buffer filled after Signals(nil) is never flushed.
SignalsOnce(on) ==
    /\ hpc = "run" /\ ~mu
    /\ calls < MaxCalls
    /\ calls' = calls + 1
    /\ sigCh' = on
    /\ began' = IF calls = 0 THEN [began EXCEPT ![calls'] = Len(sigBuf)] ELSE began
    /\ UNCHANGED <<loop, mu, last, breaks, breakCh, sigBuf, flush, got, reading, hpc, live, dropped>>

\* Signals(c), or Signals(nil) when on is FALSE.  In both cases a goroutine is
\* started for a buffer that is not empty, and the buffer is kept.
Signals(on) ==
    /\ hpc = "run" /\ ~mu
    /\ calls < MaxCalls
    /\ calls' = calls + 1
    /\ sigCh' = on
    /\ began' = [began EXCEPT ![calls'] = Len(sigBuf)]
    /\ UNCHANGED <<loop, mu, last, breaks, breakCh, sigBuf, flush, got, reading, hpc, live, dropped>>

\* The goroutine of the i-th call evaluates its range over sess.sigBuf, without
\* the mutex.  It finds what was there when it was started; of what was appended
\* since it may find any part, and a length that is ahead of the memory it
\* belongs to.
ReadBuffer(i) ==
    /\ began[i] > 0
    /\ \E n \in began[i]..Len(sigBuf) : \E k \in began[i]..n :
          flush' = [flush EXCEPT ![i] = [j \in 1..n |-> IF j <= k THEN sigBuf[j] ELSE Garbage]]
    /\ began' = [began EXCEPT ![i] = 0]
    /\ UNCHANGED <<loop, mu, last, breaks, sigCh, breakCh, sigBuf, calls, got, reading, hpc, live, dropped>>

Break(on) ==
    /\ hpc = "run" /\ ~mu
    /\ breakCh' = on
    /\ UNCHANGED <<loop, mu, last, breaks, sigCh, sigBuf, began, flush, calls, got, reading, hpc, live, dropped>>

\* The goroutine of the i-th call sends its next signal on the channel that is
\* registered now.
Flush(i) ==
    /\ flush[i] # <<>> /\ sigCh /\ reading
    /\ got' = Append(got, Head(flush[i]))
    /\ flush' = [flush EXCEPT ![i] = Tail(@)]
    /\ UNCHANGED <<loop, mu, last, breaks, sigCh, breakCh, sigBuf, began, calls, reading, hpc, live, dropped>>

\* sigCh is nil when the goroutine reaches its send: it blocks for ever.
FlushSticks(i) ==
    /\ flush[i] # <<>> /\ ~sigCh
    /\ flush' = [flush EXCEPT ![i] = <<>>]
    /\ UNCHANGED <<loop, mu, last, breaks, sigCh, breakCh, sigBuf, began, calls, got, reading, hpc, live, dropped>>

\* The handler has finished its work and unregisters its channel.
Finish ==
    /\ hpc = "run"
    /\ hpc' = "unregister"
    /\ reading' = Drain
    /\ UNCHANGED <<loop, mu, last, breaks, sigCh, breakCh, sigBuf, began, flush, calls, got, live, dropped>>

\* The handler's last Signals(nil) and Break(nil), which need the mutex.
Unregister ==
    /\ hpc = "unregister" /\ ~mu
    /\ sigCh' = FALSE /\ breakCh' = FALSE
    /\ hpc' = "exit"
    /\ UNCHANGED <<loop, mu, last, breaks, sigBuf, began, flush, calls, got, reading, live, dropped>>

\* Exit(0) after the handler, which needs the mutex too.
Exit ==
    /\ hpc = "exit" /\ ~mu
    /\ hpc' = "done"
    /\ reading' = FALSE
    /\ UNCHANGED <<loop, mu, last, breaks, sigCh, breakCh, sigBuf, began, flush, calls, got, live, dropped>>

-----------------------------------------------------------------------------

Next ==
    \/ SignalRequest \/ BreakRequest \/ Send
    \/ \E on \in BOOLEAN : Signals(on) \/ Break(on)
    \/ \E i \in Call : ReadBuffer(i) \/ Flush(i) \/ FlushSticks(i)
    \/ Finish \/ Unregister \/ Exit

Spec == Init /\ [][Next]_vars

\* Goroutines that can run do; a mutex that is free infinitely often is obtained
\* (sync.Mutex does not starve a waiter).
Fairness ==
    /\ WF_vars(Send)
    /\ \A i \in Call : WF_vars(ReadBuffer(i)) /\ SF_vars(Flush(i))
    /\ SF_vars(Unregister)
    /\ SF_vars(Exit)

FairSpec == Spec /\ Fairness

-----------------------------------------------------------------------------
(* Properties *)

\* No signal disappears: each one was received, is buffered, is in the hands of
\* the loop, or arrived when the buffer already held its maximum; the buffer
\* keeps the oldest ones.
NothingLost ==
    /\ 1..last \subseteq Range(got) \cup Range(sigBuf) \cup dropped
                         \cup (IF loop = "sig" THEN {last} ELSE {})
    /\ dropped # {} => Len(sigBuf) = BufSize

\* The signals that arrived while a channel was registered are received in the
\* order they were sent, each once, whatever the flushing goroutines put between.
LiveInOrder ==
    \A i, j \in DOMAIN got : i < j /\ {got[i], got[j]} \subseteq live => got[i] < got[j]

\* A handler that calls Signals once receives each signal at most once and
\* nothing the client did not send, although the buffer is read without the
\* mutex: it takes a second call for the loop to append under that read and the
\* goroutine still to find a channel.
OnceIsExact ==
    calls <= 1 => Garbage \notin Range(got) /\ IsInjective(got)

\* Every signal is accounted for, the live ones in order, with a buffer that
\* keeps to its limit and a mutex that is held exactly while the loop sends.
SignalsInv == TypeOK /\ NothingLost /\ LiveInOrder /\ OnceIsExact

\* A handler whose receiver reads to the end always gets through its last
\* Signals(nil) and Exit, although the loop sends with the mutex held.
HandlerFinishes == (hpc = "unregister") ~> (hpc = "done")

\* What was buffered reaches a channel that stays registered.
BufferedArrives ==
    \A s \in Signal :
        (s \in Range(sigBuf) /\ sigCh) ~> (s \in Range(got) \/ ~sigCh)
=============================================================================
