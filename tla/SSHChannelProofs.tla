-------------------------- MODULE SSHChannelProofs --------------------------
(***************************************************************************)
(* The parts of the SSH package beside a session: its signals, for any     *)
(* number of them and any buffer size, the forwarding map, for any number  *)
(* of connections, forwardings and addresses, and the proxied sockets.     *)
(***************************************************************************)
EXTENDS SSHSignals, ForwardedTCP, SSHProxy, SequenceTheorems, TLAPS

-----------------------------------------------------------------------------
(* The forwarding map *)

\* A request that has a listener to store is alone in knowing it, and one that
\* closes a listener has found it in the map.
HandlersKnow ==
    \A c \in Conn :
        /\ handler[c].do = "store" =>
              /\ handler[c].f \in Fwd /\ owner[handler[c].f] = c
              /\ acceptor[handler[c].f] = "none"
        /\ handler[c].do = "close" => handler[c].f \in cancelled

\* A forwarding has goroutines once it was asked for, and keeps its address.
Asked ==
    \A f \in Fwd :
        /\ owner[f] = None => acceptor[f] = "none" /\ watcher[f].do = "idle"
        /\ owner[f] # None => addr[f] \in Addr

\* What the map holds is a listener of that address, and so is what a watcher
\* has taken from it after its connection ended.
KeysRight ==
    /\ \A a \in Addr : forwards[a] # None =>
          addr[forwards[a]] = a /\ owner[forwards[a]] # None
    /\ \A f \in Fwd : watcher[f].do = "close" =>
          /\ watcher[f].f \in Fwd /\ owner[watcher[f].f] # None
          /\ addr[watcher[f].f] = addr[f] /\ owner[f] \in done

\* The inductive invariant.
MapInv == ForwardInv /\ HandlersKnow /\ Asked /\ KeysRight

LEMMA InitMapInv == ForwardInit => MapInv
  BY ForwardAssumption
     DEF ForwardInit, MapInv, ForwardInv, ForwardTypeOK, ClosedForCause, MapIsRight, HandlersKnow,
         Asked, KeysRight, Idle, Addr

LEMMA NextMapInv == MapInv /\ [ForwardNext]_forwardVars => MapInv'
<1> SUFFICES ASSUME MapInv, [ForwardNext]_forwardVars PROVE MapInv'
  OBVIOUS
<1> USE ForwardAssumption
    DEF MapInv, ForwardInv, ForwardTypeOK, ClosedForCause, MapIsRight, HandlersKnow, Asked, KeysRight,
        Idle, Closing, mapVars
<1>1. ASSUME NEW c \in Conn, NEW f \in Fwd, NEW a \in Addr, Listen(c, f, a) PROVE MapInv'
  BY <1>1 DEF Listen
<1>2. ASSUME NEW c \in Conn, Store(c) PROVE MapInv'
  <2>1. ForwardTypeOK'
    <3>1. handler[c].f \in Fwd /\ addr[handler[c].f] \in Addr
      <4>1. handler[c].f \in Fwd /\ owner[handler[c].f] = c
        BY <1>2 DEF Store
      <4>2. owner[handler[c].f] # None
        BY <4>1
      <4> QED BY <4>1, <4>2
    <3>2. {forwards[addr[handler[c].f]]} \ {None} \subseteq Fwd
      BY <3>1
    <3>3. strays' \subseteq Fwd
      BY <1>2, <3>2 DEF Store
    <3> QED BY <1>2, <3>1, <3>3 DEF Store
  <2>2. ClosedForCause'
    BY <1>2 DEF Store
  <2>3. MapIsRight'
    BY <1>2 DEF Store
  <2>4. HandlersKnow'
    BY <1>2 DEF Store
  <2>5. Asked'
    BY <1>2 DEF Store
  <2>6. KeysRight'
    BY <1>2 DEF Store
  <2> QED BY <2>1, <2>2, <2>3, <2>4, <2>5, <2>6
<1>3. ASSUME NEW c \in Conn, NEW a \in Addr, Cancel(c, a) PROVE MapInv'
  <2>1. ForwardTypeOK'
    <3>1. forwards[a] \in Fwd
      BY <1>3 DEF Cancel
    <3>2. cancelled' \subseteq Fwd
      BY <1>3, <3>1 DEF Cancel
    <3> QED BY <1>3, <3>1, <3>2 DEF Cancel
  <2>2. ClosedForCause'
    BY <1>3 DEF Cancel
  <2>3. MapIsRight'
    BY <1>3 DEF Cancel
  <2>4. HandlersKnow'
    BY <1>3 DEF Cancel
  <2>5. Asked'
    BY <1>3 DEF Cancel
  <2>6. KeysRight'
    BY <1>3 DEF Cancel
  <2> QED BY <2>1, <2>2, <2>3, <2>4, <2>5, <2>6
<1>4. ASSUME NEW c \in Conn, CancelCloses(c) PROVE MapInv'
  <2>1. ForwardTypeOK'
    BY <1>4 DEF CancelCloses
  <2>2. ClosedForCause'
    BY <1>4 DEF CancelCloses
  <2>3. MapIsRight'
    BY <1>4 DEF CancelCloses
  <2>4. HandlersKnow'
    BY <1>4 DEF CancelCloses
  <2>5. Asked'
    BY <1>4 DEF CancelCloses
  <2>6. KeysRight'
    BY <1>4 DEF CancelCloses
  <2> QED BY <2>1, <2>2, <2>3, <2>4, <2>5, <2>6
<1>5. ASSUME NEW c \in Conn, ConnEnds(c) PROVE MapInv'
  BY <1>5 DEF ConnEnds
<1>6. ASSUME NEW f \in Fwd, Look(f) PROVE MapInv'
  BY <1>6 DEF Look
<1>7. ASSUME NEW f \in Fwd, CloseFound(f) PROVE MapInv'
  <2>1. ForwardTypeOK'
    BY <1>7 DEF CloseFound
  <2>2. ClosedForCause'
    BY <1>7 DEF CloseFound
  <2>3. MapIsRight'
    BY <1>7 DEF CloseFound
  <2>4. HandlersKnow'
    BY <1>7 DEF CloseFound
  <2>5. Asked'
    BY <1>7 DEF CloseFound
  <2>6. KeysRight'
    BY <1>7 DEF CloseFound
  <2> QED BY <2>1, <2>2, <2>3, <2>4, <2>5, <2>6
<1>8. ASSUME NEW f \in Fwd, AcceptClosed(f) PROVE MapInv'
  BY <1>8 DEF AcceptClosed
<1>9. ASSUME NEW f \in Fwd, AcceptFails(f) PROVE MapInv'
  BY <1>9 DEF AcceptFails
<1>10. ASSUME NEW f \in Fwd, Delete(f) PROVE MapInv'
  <2>1. ForwardTypeOK'
    <3>1. addr[f] \in Addr
      BY <1>10 DEF Delete
    <3>2. {forwards[addr[f]]} \ {f, None} \subseteq Fwd
      BY <3>1
    <3>3. strays' \subseteq Fwd
      BY <1>10, <3>2 DEF Delete
    <3> QED BY <1>10, <3>1, <3>3 DEF Delete
  <2>2. ClosedForCause'
    BY <1>10 DEF Delete
  <2>3. MapIsRight'
    BY <1>10 DEF Delete
  <2>4. HandlersKnow'
    BY <1>10 DEF Delete
  <2>5. Asked'
    BY <1>10 DEF Delete
  <2>6. KeysRight'
    BY <1>10 DEF Delete
  <2> QED BY <2>1, <2>2, <2>3, <2>4, <2>5, <2>6
<1>11. CASE UNCHANGED forwardVars
  BY <1>11 DEF forwardVars
<1> QED
  BY <1>1, <1>2, <1>3, <1>4, <1>5, <1>6, <1>7, <1>8, <1>9, <1>10, <1>11
     DEF ForwardNext, Handles, Runs

\* What the map and the listeners agree on, for any number of forwardings of any
\* addresses by any number of connections.
THEOREM ForwardsAgree == ForwardSpec => []ForwardInv
<1>1. MapInv => ForwardInv
  BY DEF MapInv
<1> QED BY InitMapInv, NextMapInv, <1>1, PTL DEF ForwardSpec

-----------------------------------------------------------------------------
(* Signals *)

\* Signals are numbered as they come, and the one the loop is about to send is
\* the last and has not been received.
Numbered ==
    /\ live \subseteq 1..last /\ dropped \subseteq 1..last
    /\ Range(got) \subseteq 0..last /\ Range(sigBuf) \subseteq 1..last
    /\ loop = "sig" => last \in live /\ last \notin Range(got)

\* What was buffered was not sent by the loop, and the flushing goroutines send
\* nothing but what was buffered.
BufferedApart ==
    /\ Range(sigBuf) \cap live = {}
    /\ \A i \in Call : Range(flush[i]) \subseteq 0..last /\ Range(flush[i]) \cap live = {}

\* While the handler has called Signals once and its channel is registered, the
\* buffer stands still, and its goroutine has what was not received yet.
OneCall ==
    /\ IsInjective(sigBuf)
    /\ loop = "sig" => sigCh
    /\ calls = 0 => got = <<>> /\ ~sigCh
    /\ \A i \in Call :
          /\ i > calls => began[i] = 0 /\ flush[i] = <<>>
          /\ began[i] > 0 => flush[i] = <<>>
          /\ calls = 1 /\ sigCh =>
                /\ began[i] > 0 => began[i] = Len(sigBuf) /\ Range(got) \cap Range(sigBuf) = {}
                /\ Garbage \notin Range(flush[i]) /\ IsInjective(flush[i])
                /\ Range(flush[i]) \cap Range(got) = {}

\* The inductive invariant.
SigInv == SignalsInv /\ Numbered /\ BufferedApart /\ OneCall

\* Appending adds one element.
LEMMA RangeAppend ==
    ASSUME NEW S, NEW s \in Seq(S), NEW x \in S
    PROVE  Append(s, x) \in Seq(S) /\ Range(Append(s, x)) = Range(s) \cup {x}
<1>1. /\ Append(s, x) \in Seq(S)
      /\ Len(Append(s, x)) = Len(s) + 1
      /\ \A i \in 1..Len(s) : Append(s, x)[i] = s[i]
      /\ Append(s, x)[Len(s) + 1] = x
  BY AppendProperties
<1>2. DOMAIN s = 1..Len(s) /\ DOMAIN Append(s, x) = 1..Len(s) + 1 /\ Len(s) \in Nat
  BY <1>1, LenProperties
<1> QED
  BY <1>1, <1>2 DEF Range

\* The head and the tail of a sequence are of its elements.
LEMMA RangeTail ==
    ASSUME NEW S, NEW s \in Seq(S), s # <<>>
    PROVE  /\ Head(s) \in Range(s) /\ Head(s) \in S
           /\ Tail(s) \in Seq(S) /\ Range(Tail(s)) \subseteq Range(s)
<1>1. /\ Head(s) \in S /\ Head(s) = s[1]
      /\ Tail(s) \in Seq(S) /\ Len(Tail(s)) = Len(s) - 1
      /\ \A i \in 1..Len(Tail(s)) : Tail(s)[i] = s[i + 1]
      /\ Len(s) \in Nat /\ DOMAIN s = 1..Len(s) /\ Len(s) # 0
  BY HeadTailProperties, LenProperties, EmptySeq
<1>2. DOMAIN Tail(s) = 1..Len(s) - 1
  BY <1>1, LenProperties
<1> QED
  BY <1>1, <1>2 DEF Range

\* Appending something new keeps a sequence free of repetitions, and so does
\* taking its tail, which no longer has the head.
LEMMA InjectiveAppend ==
    ASSUME NEW S, NEW s \in Seq(S), NEW x \in S, IsInjective(s), x \notin Range(s)
    PROVE  IsInjective(Append(s, x))
<1>1. /\ Append(s, x) \in Seq(S)
      /\ Len(Append(s, x)) = Len(s) + 1
      /\ \A i \in 1..Len(s) : Append(s, x)[i] = s[i]
      /\ Append(s, x)[Len(s) + 1] = x
  BY AppendProperties
<1>2. DOMAIN s = 1..Len(s) /\ DOMAIN Append(s, x) = 1..Len(s) + 1 /\ Len(s) \in Nat
  BY <1>1, LenProperties
<1> QED
  BY <1>1, <1>2 DEF IsInjective, Range

LEMMA InjectiveTail ==
    ASSUME NEW S, NEW s \in Seq(S), s # <<>>, IsInjective(s)
    PROVE  IsInjective(Tail(s)) /\ Head(s) \notin Range(Tail(s))
<1>1. /\ Head(s) = s[1]
      /\ Tail(s) \in Seq(S) /\ Len(Tail(s)) = Len(s) - 1
      /\ \A i \in 1..Len(Tail(s)) : Tail(s)[i] = s[i + 1]
      /\ Len(s) \in Nat /\ DOMAIN s = 1..Len(s) /\ Len(s) # 0
  BY HeadTailProperties, LenProperties, EmptySeq
<1>2. DOMAIN Tail(s) = 1..Len(s) - 1
  BY <1>1, LenProperties
<1> QED
  BY <1>1, <1>2 DEF IsInjective, Range

LEMMA InitSigInv == Init => SigInv
<1> SUFFICES ASSUME Init PROVE SigInv
  OBVIOUS
<1>1. Range(<<>>) = {} /\ DOMAIN <<>> = {}
  BY DEF Range
<1>2. TypeOK
  <2>1. /\ last \in 0..MaxSig /\ breaks \in 0..MaxBreak /\ calls \in 0..MaxCalls
        /\ sigBuf \in Seq(Signal) /\ Len(sigBuf) <= BufSize /\ got \in Seq(Sent)
        /\ flush \in [Call -> Seq(Sent)] /\ began \in [Call -> 0..Len(sigBuf)]
    BY SignalsAssumption DEF Init
  <2>2. mu = (loop # "recv")
    BY DEF Init
  <2> QED BY <2>1, <2>2, Zenon DEF Init, TypeOK
<1>3. NothingLost /\ LiveInOrder /\ OnceIsExact
  BY <1>1 DEF Init, NothingLost, LiveInOrder, OnceIsExact, IsInjective
<1>4. Numbered /\ BufferedApart
  BY <1>1 DEF Init, Numbered, BufferedApart
<1>5. OneCall
  BY <1>1 DEF Init, OneCall, IsInjective
<1> QED
  BY <1>2, <1>3, <1>4, <1>5 DEF SigInv, SignalsInv

\* The steps of the request loop.
LEMMA LoopStep == ASSUME SigInv, SignalRequest \/ BreakRequest \/ Send PROVE SigInv'
<1> USE SignalsAssumption DEF Signal, Sent, Garbage
<1>0. TypeOK /\ NothingLost /\ LiveInOrder /\ OnceIsExact /\ Numbered /\ BufferedApart /\ OneCall
  BY DEF SigInv, SignalsInv
<1>1. CASE SignalRequest /\ sigCh
  <2>1. /\ loop = "recv" /\ loop' = "sig" /\ last' = last + 1 /\ live' = live \cup {last + 1}
        /\ last \in Nat /\ last < MaxSig /\ sigCh
        /\ UNCHANGED <<breaks, sigCh, breakCh, sigBuf, began, flush, calls, got, reading, hpc, dropped>>
    BY <1>0, <1>1 DEF SignalRequest, TypeOK
  <2>2. mu' = (loop' # "recv")
    BY <1>1 DEF SignalRequest
  <2>3. TypeOK'
    BY <1>0, <2>1, <2>2 DEF TypeOK
  <2>4. NothingLost'
    BY <1>0, <2>1 DEF NothingLost
  <2>5. LiveInOrder'
    BY <1>0, <2>1 DEF LiveInOrder, Numbered, Range
  <2>6. Numbered' /\ BufferedApart'
    BY <1>0, <2>1 DEF Numbered, BufferedApart
  <2>7. OnceIsExact' /\ OneCall'
    BY <1>0, <2>1 DEF OnceIsExact, OneCall
  <2> QED BY <2>3, <2>4, <2>5, <2>6, <2>7 DEF SigInv, SignalsInv
<1>2. CASE SignalRequest /\ ~sigCh
  <2>1. /\ loop = "recv" /\ last' = last + 1 /\ Buffer(last + 1)
        /\ last \in Nat /\ last < MaxSig /\ ~sigCh
        /\ UNCHANGED <<loop, mu, breaks, sigCh, breakCh, began, flush, calls, got, reading, hpc, live>>
    BY <1>0, <1>2 DEF SignalRequest, TypeOK
  <2>a. LiveInOrder' /\ OnceIsExact'
    BY <1>0, <2>1 DEF LiveInOrder, OnceIsExact
  <2>2. CASE Len(sigBuf) < BufSize
    <3>0. sigBuf \in Seq(1..MaxSig) /\ last + 1 \in 1..MaxSig
      BY <1>0, <2>1 DEF TypeOK
    <3>a. /\ sigBuf' = Append(sigBuf, last + 1) /\ dropped' = dropped
      BY <2>1, <2>2 DEF Buffer
    <3>b. /\ sigBuf' \in Seq(1..MaxSig) /\ Len(sigBuf') = Len(sigBuf) + 1
      BY <3>0, <3>a, AppendProperties
    <3>c. Range(sigBuf') = Range(sigBuf) \cup {last + 1}
      BY <3>0, <3>a, RangeAppend
    <3>1. /\ sigBuf' = Append(sigBuf, last + 1) /\ dropped' = dropped
          /\ sigBuf' \in Seq(1..MaxSig) /\ Range(sigBuf') = Range(sigBuf) \cup {last + 1}
          /\ Len(sigBuf') = Len(sigBuf) + 1
      BY <3>a, <3>b, <3>c
    <3>2. TypeOK'
      <4>1. began' \in [Call -> 0..Len(sigBuf')]
        BY <1>0, <2>1, <3>0, <3>1, LenProperties DEF TypeOK
      <4> QED BY <1>0, <2>1, <2>2, <3>1, <4>1 DEF TypeOK
    <3>3. NothingLost'
      BY <1>0, <2>1, <2>2, <3>1 DEF TypeOK, NothingLost
    <3>5. Numbered'
      <4>1. \A T : T \subseteq 1..last => T \subseteq 1..(last + 1)
        BY <2>1
      <4>2. Range(sigBuf') \subseteq 1..(last + 1) /\ Range(got) \subseteq 0..(last + 1)
        BY <1>0, <3>c, <4>1, <2>1 DEF Numbered
      <4>3. live \subseteq 1..(last + 1) /\ dropped \subseteq 1..(last + 1)
        BY <1>0, <4>1 DEF Numbered
      <4> QED BY <2>1, <3>a, <4>2, <4>3 DEF Numbered, Range
    <3>6. BufferedApart'
      <4>1. last + 1 \notin live
        BY <1>0, <2>1 DEF Numbered
      <4> QED BY <1>0, <2>1, <3>c, <4>1 DEF BufferedApart
    <3>7. OneCall'
      <4>1. last + 1 \notin Range(sigBuf)
        BY <1>0, <2>1 DEF Numbered
      <4>2. IsInjective(sigBuf')
        BY <1>0, <3>0, <3>a, <4>1, InjectiveAppend DEF OneCall
      <4> QED BY <1>0, <2>1, <4>2 DEF OneCall
    <3> QED BY <2>a, <3>2, <3>3, <3>5, <3>6, <3>7 DEF SigInv, SignalsInv
  <2>3. CASE Len(sigBuf) >= BufSize
    <3>1. sigBuf' = sigBuf /\ dropped' = dropped \cup {last + 1} /\ Len(sigBuf) = BufSize
      BY <1>0, <2>1, <2>3 DEF TypeOK, Buffer
    <3>2. TypeOK'
      BY <1>0, <2>1, <3>1 DEF TypeOK
    <3>3. NothingLost'
      BY <1>0, <2>1, <3>1 DEF NothingLost
    <3>5. Numbered' /\ BufferedApart'
      BY <1>0, <2>1, <3>1 DEF Numbered, BufferedApart
    <3>6. OneCall'
      BY <1>0, <2>1, <3>1 DEF OneCall
    <3> QED BY <2>a, <3>2, <3>3, <3>5, <3>6 DEF SigInv, SignalsInv
  <2> QED BY <1>0, <2>2, <2>3 DEF TypeOK
<1>3. CASE BreakRequest
  <2>1. /\ loop = "recv" /\ loop' \in {"recv", "brk"}
        /\ breaks' \in 0..MaxBreak
        /\ UNCHANGED <<last, sigCh, breakCh, sigBuf, began, flush, calls, got, reading, hpc, live,
                       dropped>>
    BY <1>0, <1>3 DEF BreakRequest, TypeOK
  <2>2. mu' = (loop' # "recv")
    BY <1>0, <1>3 DEF BreakRequest, TypeOK
  <2>3. TypeOK'
    BY <1>0, <2>1, <2>2 DEF TypeOK
  <2>4. NothingLost' /\ LiveInOrder' /\ Numbered' /\ BufferedApart'
    BY <1>0, <2>1 DEF NothingLost, LiveInOrder, Numbered, BufferedApart
  <2>5. OnceIsExact' /\ OneCall'
    BY <1>0, <2>1 DEF OnceIsExact, OneCall
  <2> QED BY <2>3, <2>4, <2>5 DEF SigInv, SignalsInv
<1>4. CASE Send /\ loop = "brk"
  <2>1. /\ loop' = "recv" /\ mu' = FALSE
        /\ UNCHANGED <<last, breaks, sigCh, breakCh, sigBuf, began, flush, calls, got, reading, hpc,
                       live, dropped>>
    BY <1>4 DEF Send
  <2>2. mu' = (loop' # "recv")
    BY <2>1
  <2>3. TypeOK'
    BY <1>0, <2>1, <2>2 DEF TypeOK
  <2>4. NothingLost' /\ LiveInOrder' /\ Numbered' /\ BufferedApart'
    BY <1>0, <1>4, <2>1 DEF NothingLost, LiveInOrder, Numbered, BufferedApart
  <2>5. OnceIsExact' /\ OneCall'
    BY <1>0, <2>1 DEF OnceIsExact, OneCall
  <2> QED BY <2>3, <2>4, <2>5 DEF SigInv, SignalsInv
<1>5. CASE Send /\ loop = "sig"
  <2>1. /\ loop' = "recv" /\ mu' = FALSE /\ got' = Append(got, last)
        /\ UNCHANGED <<last, breaks, sigCh, breakCh, sigBuf, began, flush, calls, reading, hpc, live,
                       dropped>>
    BY <1>5 DEF Send
  <2>2. mu' = (loop' # "recv") /\ last \in 1..MaxSig /\ last \in Sent
    BY <1>0, <1>5, <2>1 DEF Numbered, TypeOK
  <2>a. got \in Seq(Sent)
    BY <1>0 DEF TypeOK
  <2>b. got' \in Seq(Sent)
    BY <2>1, <2>2, <2>a, AppendProperties
  <2>c. Range(got') = Range(got) \cup {last}
    <3> HIDE DEF Sent
    <3> QED BY <2>1, <2>2, <2>a, RangeAppend
  <2>3. /\ got' \in Seq(Sent) /\ Range(got') = Range(got) \cup {last}
    BY <2>b, <2>c
  <2>4. TypeOK'
    BY <1>0, <2>1, <2>2, <2>3 DEF TypeOK
  <2>5. NothingLost'
    BY <1>0, <1>5, <2>1, <2>3 DEF NothingLost
  <2>6. LiveInOrder'
    <3>1. /\ DOMAIN got = 1..Len(got) /\ DOMAIN got' = 1..Len(got) + 1 /\ Len(got) \in Nat
          /\ \A i \in 1..Len(got) : got'[i] = got[i]
          /\ got'[Len(got) + 1] = last
      <4> HIDE DEF Sent
      <4> QED BY <2>1, <2>2, <2>a, <2>b, AppendProperties, LenProperties
    <3>2. \A i \in 1..Len(got) : got[i] \in 0..last /\ got[i] # last
      BY <1>0, <1>5, <3>1 DEF Numbered, Range
    <3> QED BY <1>0, <2>1, <2>2, <3>1, <3>2 DEF LiveInOrder
  <2>7. Numbered' /\ BufferedApart'
    BY <1>0, <1>5, <2>1, <2>2, <2>3 DEF Numbered, BufferedApart
  <2>8. OnceIsExact'
    <3>1. last \notin Range(got)
      BY <1>0, <1>5 DEF Numbered
    <3>2. IsInjective(got) => IsInjective(got')
      <4> HIDE DEF Sent
      <4> QED BY <2>1, <2>2, <2>a, <3>1, InjectiveAppend
    <3> QED BY <1>0, <2>1, <2>2, <2>3, <3>2 DEF OnceIsExact
  <2>9. OneCall'
    <3>1. last \in live /\ last \notin Range(sigBuf) /\ \A i \in Call : last \notin Range(flush[i])
      BY <1>0, <1>5 DEF Numbered, BufferedApart
    <3>2. calls # 0
      BY <1>0, <1>5 DEF OneCall
    <3> QED BY <1>0, <2>1, <2>3, <3>1, <3>2 DEF OneCall
  <2> QED BY <2>4, <2>5, <2>6, <2>7, <2>8, <2>9 DEF SigInv, SignalsInv
<1> QED
  BY <1>0, <1>1, <1>2, <1>3, <1>4, <1>5 DEF Send, TypeOK

\* The handler's calls and the end of the session.
LEMMA HandlerStep ==
    ASSUME SigInv,
           \/ \E on \in BOOLEAN : Signals(on) \/ Break(on)
           \/ Finish \/ Unregister \/ Exit
    PROVE  SigInv'
<1> USE SignalsAssumption DEF Signal, Sent, Garbage
<1>0. TypeOK /\ NothingLost /\ LiveInOrder /\ OnceIsExact /\ Numbered /\ BufferedApart /\ OneCall
  BY DEF SigInv, SignalsInv
<1>1. ASSUME NEW on \in BOOLEAN, Signals(on) PROVE SigInv'
  <2>1. /\ calls' = calls + 1 /\ calls' \in Call /\ sigCh' = on
        /\ began' = [began EXCEPT ![calls'] = Len(sigBuf)]
        /\ UNCHANGED <<loop, mu, last, breaks, breakCh, sigBuf, flush, got, reading, hpc, live, dropped>>
    BY <1>0, <1>1 DEF Signals, TypeOK, Call
  <2>2. /\ began' \in [Call -> 0..Len(sigBuf)] /\ Len(sigBuf) \in Nat
        /\ \A i \in Call : began'[i] = IF i = calls' THEN Len(sigBuf) ELSE began[i]
    BY <1>0, <2>1, LenProperties DEF TypeOK
  <2>3. TypeOK'
    BY <1>0, <2>1, <2>2 DEF TypeOK, Call
  <2>4. NothingLost' /\ LiveInOrder' /\ Numbered' /\ BufferedApart'
    BY <1>0, <2>1 DEF NothingLost, LiveInOrder, Numbered, BufferedApart
  <2>e. \A i \in Call : i > calls => flush[i] = <<>>
    BY <1>0 DEF OneCall
  <2>5. OnceIsExact' /\ OneCall'
    <3>0. calls \in Nat /\ ~mu /\ loop = "recv"
      <4>1. mu = (loop # "recv") /\ ~mu
        BY <1>0, <1>1, Zenon DEF TypeOK, Signals
      <4>2. calls \in Nat
        BY <1>0 DEF TypeOK
      <4> QED BY <4>1, <4>2, Zenon
    <3>1. calls \in Nat /\ loop = "recv" /\ Range(<<>>) = {} /\ IsInjective(<<>>)
      BY <3>0 DEF Range, IsInjective
    <3>2. OnceIsExact'
      BY <1>0, <2>1, <3>1 DEF OnceIsExact
    <3>3. CASE calls = 0
      <4>1. \A i \in Call : flush[i] = <<>>
        BY <1>0, <3>3 DEF OneCall, Call
      <4>2. got = <<>> /\ Range(got) = {} /\ calls' = 1
        BY <1>0, <2>1, <3>1, <3>3 DEF OneCall
      <4>3. \A i \in Call : i > calls' => began'[i] = 0
        BY <1>0, <2>1, <2>2, <3>3 DEF OneCall, Call
      <4>4. \A i \in Call : began'[i] > 0 => began'[i] = Len(sigBuf)
        BY <1>0, <2>1, <2>2, <3>3 DEF OneCall, Call
      <4> QED BY <1>0, <2>1, <3>1, <3>2, <4>1, <4>2, <4>3, <4>4 DEF OneCall
    <3>4. CASE calls > 0
      <4>1. \A i \in Call : i > calls' => began'[i] = 0 /\ flush'[i] = <<>>
        BY <1>0, <2>1, <2>2, <3>1 DEF OneCall, Call
      <4>2. \A i \in Call : began'[i] > 0 => flush'[i] = <<>>
        BY <1>0, <2>1, <2>2, <2>e, <3>1 DEF OneCall, Call
      <4> QED BY <1>0, <2>1, <3>1, <3>2, <3>4, <4>1, <4>2 DEF OneCall
    <3> QED BY <3>1, <3>3, <3>4
  <2> QED BY <2>3, <2>4, <2>5 DEF SigInv, SignalsInv
<1>2. ASSUME NEW on \in BOOLEAN, Break(on) PROVE SigInv'
  <2>1. /\ breakCh' = on
        /\ UNCHANGED <<loop, mu, last, breaks, sigCh, sigBuf, began, flush, calls, got, reading, hpc,
                       live, dropped>>
    BY <1>2 DEF Break
  <2>2. TypeOK'
    BY <1>0, <2>1 DEF TypeOK
  <2>3. NothingLost' /\ LiveInOrder' /\ Numbered' /\ BufferedApart'
    BY <1>0, <2>1 DEF NothingLost, LiveInOrder, Numbered, BufferedApart
  <2>4. OnceIsExact' /\ OneCall'
    BY <1>0, <2>1 DEF OnceIsExact, OneCall
  <2> QED BY <2>2, <2>3, <2>4 DEF SigInv, SignalsInv
<1>3. CASE Finish \/ Unregister \/ Exit
  <2>1. /\ UNCHANGED <<loop, mu, last, breaks, sigBuf, began, flush, calls, got, live, dropped>>
        /\ hpc' \in {"unregister", "exit", "done"}
        /\ sigCh' \in BOOLEAN /\ breakCh' \in BOOLEAN /\ reading' \in BOOLEAN
    BY <1>0, <1>3, Zenon DEF Finish, Unregister, Exit, TypeOK
  <2>2. TypeOK'
    BY <1>0, <2>1 DEF TypeOK
  <2>3. NothingLost' /\ LiveInOrder' /\ Numbered' /\ BufferedApart'
    BY <1>0, <2>1 DEF NothingLost, LiveInOrder, Numbered, BufferedApart
  <2>4. OnceIsExact'
    BY <1>0, <2>1 DEF OnceIsExact
  <2>5. (sigCh' => sigCh) /\ (loop = "sig" => sigCh' = sigCh)
    <3>1. mu = (loop # "recv")
      BY <1>0 DEF TypeOK
    <3>2. CASE Finish \/ Exit
      BY <3>2 DEF Finish, Exit
    <3>3. CASE Unregister
      <4>1. ~mu /\ sigCh' = FALSE
        BY <3>3, Zenon DEF Unregister
      <4> QED BY <3>1, <4>1, Zenon
    <3> QED BY <1>3, <3>2, <3>3, Zenon
  <2>6. OneCall'
    BY <1>0, <2>1, <2>5 DEF OneCall
  <2> QED BY <2>2, <2>3, <2>4, <2>6 DEF SigInv, SignalsInv
<1> QED
  BY <1>1, <1>2, <1>3

\* The goroutines that send what was buffered.
LEMMA FlushStep ==
    ASSUME SigInv, NEW i \in Call, ReadBuffer(i) \/ Flush(i) \/ FlushSticks(i)
    PROVE  SigInv'
<1> USE SignalsAssumption DEF Signal, Sent, Garbage
<1>0. TypeOK /\ NothingLost /\ LiveInOrder /\ OnceIsExact /\ Numbered /\ BufferedApart /\ OneCall
  BY DEF SigInv, SignalsInv
<1>a. /\ began \in [Call -> 0..Len(sigBuf)] /\ flush \in [Call -> Seq(Sent)] /\ got \in Seq(Sent)
      /\ Len(sigBuf) \in Nat /\ DOMAIN sigBuf = 1..Len(sigBuf)
      /\ \A j \in 1..Len(sigBuf) : sigBuf[j] \in 1..MaxSig
  BY <1>0, LenProperties, ElementOfSeq DEF TypeOK
<1>b. Range(<<>>) = {} /\ IsInjective(<<>>)
  BY DEF Range, IsInjective
<1>1. CASE ReadBuffer(i)
  <2>1. PICK n \in began[i]..Len(sigBuf) : \E k \in began[i]..n :
          flush' = [flush EXCEPT ![i] = [j \in 1..n |-> IF j <= k THEN sigBuf[j] ELSE Garbage]]
    BY <1>1 DEF ReadBuffer
  <2>2. PICK k \in began[i]..n :
          flush' = [flush EXCEPT ![i] = [j \in 1..n |-> IF j <= k THEN sigBuf[j] ELSE Garbage]]
    BY <2>1
  <2> DEFINE b == [j \in 1..n |-> IF j <= k THEN sigBuf[j] ELSE Garbage]
  <2>3. /\ began' = [began EXCEPT ![i] = 0] /\ began[i] > 0
        /\ UNCHANGED <<loop, mu, last, breaks, sigCh, breakCh, sigBuf, calls, got, reading, hpc, live,
                       dropped>>
    BY <1>1 DEF ReadBuffer
  <2>4. n \in Nat /\ k \in Nat /\ n <= Len(sigBuf) /\ began[i] \in Nat /\ began[i] <= k /\ k <= n
    BY <1>a
  <2>5. b \in Seq(Sent)
    <3>1. b \in [1..n -> Sent]
      BY <1>a, <2>4
    <3> QED BY <2>4, <3>1, SeqDef
  <2>6. DOMAIN b = 1..n /\ \A j \in 1..n : b[j] = IF j <= k THEN sigBuf[j] ELSE Garbage
    OBVIOUS
  <2>7. Range(b) \subseteq Range(sigBuf) \cup {Garbage}
    <3>1. \A j \in 1..n : b[j] = Garbage \/ (j \in DOMAIN sigBuf /\ b[j] = sigBuf[j])
      BY <1>a, <2>4, <2>6
    <3> HIDE DEF b
    <3> QED BY <2>6, <3>1 DEF Range
  <2>8. /\ flush' \in [Call -> Seq(Sent)] /\ began' \in [Call -> 0..Len(sigBuf)]
        /\ \A c \in Call : flush'[c] = IF c = i THEN b ELSE flush[c]
        /\ \A c \in Call : began'[c] = IF c = i THEN 0 ELSE began[c]
    BY <1>a, <2>2, <2>3, <2>5
  <2>9. calls = 1 /\ sigCh => Range(b) \subseteq Range(sigBuf) /\ IsInjective(b)
    <3> SUFFICES ASSUME calls = 1 /\ sigCh PROVE Range(b) \subseteq Range(sigBuf) /\ IsInjective(b)
      OBVIOUS
    <3>1. k = Len(sigBuf) /\ n = Len(sigBuf)
      BY <1>0, <2>3, <2>4 DEF OneCall
    <3>2. \A j \in 1..n : b[j] = sigBuf[j]
      BY <2>6, <3>1
    <3> HIDE DEF b
    <3> QED BY <1>0, <1>a, <2>6, <3>1, <3>2 DEF OneCall, IsInjective, Range
  <2> HIDE DEF b
  <2>10. TypeOK'
    BY <1>0, <2>3, <2>8 DEF TypeOK
  <2>11. NothingLost' /\ LiveInOrder' /\ OnceIsExact' /\ Numbered'
    BY <1>0, <2>3 DEF NothingLost, LiveInOrder, OnceIsExact, Numbered
  <2>12. BufferedApart'
    <3>1. Range(b) \subseteq 0..last /\ Range(b) \cap live = {}
      <4>1. last \in Nat /\ live \subseteq 1..last /\ Range(sigBuf) \subseteq 1..last
            /\ Range(sigBuf) \cap live = {}
        BY <1>0 DEF TypeOK, Numbered, BufferedApart
      <4> QED BY <2>7, <4>1
    <3> QED BY <1>0, <2>3, <2>8, <3>1 DEF BufferedApart
  <2>13. OneCall'
    <3>1. Garbage \notin Range(sigBuf)
      BY <1>0 DEF Numbered
    <3>2. i <= calls
      BY <1>0, <2>3 DEF OneCall, TypeOK, Call
    <3>3. calls = 1 /\ sigCh => Range(got) \cap Range(sigBuf) = {}
      BY <1>0, <2>3 DEF OneCall
    <3> QED BY <1>0, <2>3, <2>8, <2>9, <3>1, <3>2, <3>3 DEF OneCall, TypeOK, Call
  <2> QED BY <2>10, <2>11, <2>12, <2>13 DEF SigInv, SignalsInv
<1>2. CASE Flush(i)
  <2> DEFINE s == Head(flush[i])
  <2>1. /\ got' = Append(got, s) /\ flush' = [flush EXCEPT ![i] = Tail(flush[i])]
        /\ sigCh
        /\ UNCHANGED <<loop, mu, last, breaks, sigCh, breakCh, sigBuf, began, calls, reading, hpc,
                       live, dropped>>
    BY <1>2 DEF Flush
  <2>2. flush[i] \in Seq(Sent) /\ flush[i] # <<>>
    BY <1>a, <1>2 DEF Flush
  <2>3. /\ s \in Range(flush[i]) /\ s \in Sent
        /\ Tail(flush[i]) \in Seq(Sent) /\ Range(Tail(flush[i])) \subseteq Range(flush[i])
    <3> HIDE DEF Sent
    <3> QED BY <2>2, RangeTail
  <2>t. IsInjective(flush[i]) => IsInjective(Tail(flush[i])) /\ s \notin Range(Tail(flush[i]))
    <3> HIDE DEF Sent
    <3> QED BY <2>2, InjectiveTail
  <2>4. s \in 0..last /\ s \notin live
    BY <1>0, <2>3 DEF BufferedApart
  <2> HIDE DEF s
  <2>5. got' \in Seq(Sent) /\ Range(got') = Range(got) \cup {s}
    <3> HIDE DEF Sent
    <3>1. Append(got, s) \in Seq(Sent) /\ Range(Append(got, s)) = Range(got) \cup {s}
      BY <1>a, <2>3, RangeAppend
    <3> QED BY <2>1, <3>1
  <2>6. /\ flush' \in [Call -> Seq(Sent)]
        /\ \A k \in Call : flush'[k] = IF k = i THEN Tail(flush[i]) ELSE flush[k]
        /\ \A k \in Call : Range(flush'[k]) \subseteq Range(flush[k])
    <3>2. \A k \in Call : flush'[k] = IF k = i THEN Tail(flush[i]) ELSE flush[k]
      BY <1>a, <2>1
    <3>3. flush' \in [Call -> Seq(Sent)]
      BY <1>a, <2>1, <2>3
    <3> QED BY <2>3, <3>2, <3>3
  <2>7. TypeOK'
    BY <1>0, <2>1, <2>5, <2>6 DEF TypeOK
  <2>8. NothingLost'
    BY <1>0, <2>1, <2>5 DEF NothingLost
  <2>9. LiveInOrder'
    <3>1. /\ DOMAIN got = 1..Len(got) /\ DOMAIN got' = 1..Len(got) + 1 /\ Len(got) \in Nat
          /\ \A k \in 1..Len(got) : got'[k] = got[k]
          /\ got'[Len(got) + 1] = s
      <4> HIDE DEF Sent
      <4> QED BY <1>a, <2>1, <2>3, AppendProperties, LenProperties
    <3> QED BY <1>0, <2>1, <2>4, <3>1 DEF LiveInOrder
  <2>10. Numbered'
    <3>1. loop = "sig" => s # last
      BY <1>0, <2>4 DEF Numbered
    <3> QED BY <1>0, <2>1, <2>4, <2>5, <3>1 DEF Numbered
  <2>11. BufferedApart'
    BY <1>0, <2>1, <2>6 DEF BufferedApart
  <2>12. calls # 0 /\ i <= calls /\ calls \in Nat
    BY <1>0, <2>1, <2>2 DEF OneCall, TypeOK, Call
  <2>13. OnceIsExact'
    <3> SUFFICES ASSUME calls = 1 PROVE Garbage \notin Range(got') /\ IsInjective(got')
      BY <2>1, <2>12 DEF OnceIsExact
    <3>1. s # Garbage /\ s \notin Range(got)
      BY <1>0, <2>1, <2>3 DEF OneCall
    <3>2. IsInjective(got) /\ Garbage \notin Range(got)
      BY <1>0 DEF OnceIsExact
    <3>3. IsInjective(Append(got, s))
      <4> HIDE DEF Sent
      <4> QED BY <1>a, <2>3, <3>1, <3>2, InjectiveAppend
    <3> QED BY <2>1, <2>5, <3>1, <3>2, <3>3
  <2>14. OneCall'
    <3>1. \A k \in Call : k > calls => began'[k] = 0 /\ flush'[k] = <<>>
      <4>1. \A k \in Call : k > calls => k # i
        BY <2>12 DEF Call
      <4> QED BY <1>0, <2>1, <2>6, <4>1 DEF OneCall
    <3>f. \A k \in Call : began'[k] > 0 => flush'[k] = <<>>
      <4>1. \A k \in Call : began[k] > 0 => k # i
        BY <1>0, <2>2 DEF OneCall
      <4> QED BY <1>0, <2>1, <2>6, <4>1 DEF OneCall
    <3>2. ASSUME NEW k \in Call, calls = 1
          PROVE  /\ began[k] > 0 => began[k] = Len(sigBuf) /\ Range(got') \cap Range(sigBuf) = {}
                 /\ Garbage \notin Range(flush'[k]) /\ IsInjective(flush'[k])
                 /\ Range(flush'[k]) \cap Range(got') = {}
      <4>1. CASE k = i
        <5>1. IsInjective(flush[i]) /\ Garbage \notin Range(flush[i]) /\ Range(flush[i]) \cap Range(got) = {}
          BY <1>0, <2>1, <3>2 DEF OneCall
        <5>2. began[i] = 0
          BY <1>0, <1>a, <2>2 DEF OneCall
        <5>3. flush'[k] = Tail(flush[i]) /\ Range(flush'[k]) \subseteq Range(flush[i])
          BY <2>3, <2>6, <4>1
        <5>4. s \notin Range(flush'[k]) /\ IsInjective(flush'[k])
          BY <2>t, <5>1, <5>3
        <5> QED BY <2>5, <4>1, <5>1, <5>2, <5>3, <5>4
      <4>2. CASE k # i
        <5>1. k > calls
          BY <2>12, <3>2, <4>2 DEF Call
        <5>2. began[k] = 0 /\ flush'[k] = <<>>
          BY <1>0, <2>6, <4>2, <5>1 DEF OneCall
        <5> QED BY <1>b, <5>2
      <4> QED BY <4>1, <4>2
    <3> QED BY <1>0, <2>1, <2>12, <3>1, <3>2, <3>f DEF OneCall
  <2> QED BY <2>7, <2>8, <2>9, <2>10, <2>11, <2>13, <2>14 DEF SigInv, SignalsInv
<1>3. CASE FlushSticks(i)
  <2>1. /\ flush' = [flush EXCEPT ![i] = <<>>] /\ ~sigCh
        /\ UNCHANGED <<loop, mu, last, breaks, sigCh, breakCh, sigBuf, began, calls, got, reading, hpc,
                       live, dropped>>
    BY <1>3 DEF FlushSticks
  <2>2. /\ flush' \in [Call -> Seq(Sent)]
        /\ \A k \in Call : flush'[k] = <<>> \/ flush'[k] = flush[k]
    BY <1>a, <2>1
  <2>4. TypeOK'
    BY <1>0, <2>1, <2>2 DEF TypeOK
  <2>5. NothingLost' /\ LiveInOrder' /\ OnceIsExact' /\ Numbered'
    BY <1>0, <2>1 DEF NothingLost, LiveInOrder, OnceIsExact, Numbered
  <2>6. BufferedApart'
    BY <1>0, <1>b, <2>1, <2>2 DEF BufferedApart
  <2>7. OneCall'
    BY <1>0, <2>1, <2>2 DEF OneCall
  <2> QED BY <2>4, <2>5, <2>6, <2>7 DEF SigInv, SignalsInv
<1> QED
  BY <1>1, <1>2, <1>3

LEMMA NextSigInv == SigInv /\ [Next]_vars => SigInv'
<1>1. ASSUME SigInv, UNCHANGED vars PROVE SigInv'
  BY <1>1 DEF vars, SigInv, SignalsInv, TypeOK, NothingLost, LiveInOrder, OnceIsExact, Numbered,
              BufferedApart, OneCall
<1> QED
  BY <1>1, LoopStep, HandlerStep, FlushStep DEF Next

\* No signal is lost or overtaken on its way to the handler, for any number of
\* signals, breaks and registrations and any size of the buffer, and one call of
\* Signals brings each at most once.
THEOREM SignalsAccounted == Spec => []SignalsInv
<1>1. SigInv => SignalsInv
  BY DEF SigInv
<1> QED BY InitSigInv, NextSigInv, <1>1, PTL DEF Spec

-----------------------------------------------------------------------------
(* Proxied sockets *)

\* What a pipe has at each stage: a socket from the start, copiers together
\* with the channel, and no copier of the agent's that closes anything.
Staged ==
    \A p \in Pipe :
        /\ via[p] = "none" => sock[p] = "none" /\ chan[p] = "none"
        /\ via[p] # "none" => sock[p] # "none"
        /\ chan[p] = "none" => sock[p] # "closed" /\ out[p] = "none" /\ in[p] = "none"
        /\ chan[p] \in {"open", "eof"} => "none" \notin {out[p], in[p]}
        /\ out[p] = "none" <=> in[p] = "none"
        /\ via[p] = "agent" => "closing" \notin {out[p], in[p]}

\* The inductive invariant.
PipesInv == ProxyInv /\ Staged

LEMMA InitPipesInv == ProxyInit => PipesInv
  BY DEF ProxyInit, PipesInv, ProxyInv, ProxyTypeOK, ProxyWatched, ProxyPatient, Staged, EndState, Copier

LEMMA NextPipesInv == PipesInv /\ [ProxyNext]_proxyVars => PipesInv'
<1> SUFFICES ASSUME PipesInv, [ProxyNext]_proxyVars PROVE PipesInv'
  OBVIOUS
<1> USE DEF PipesInv, ProxyInv, ProxyTypeOK, ProxyWatched, ProxyPatient, Staged, EndState, Copier, Via
<1>1. ASSUME NEW p \in Pipe, NEW v \in Via, NewSocket(p, v) PROVE PipesInv'
  BY <1>1 DEF NewSocket
<1>2. ASSUME NEW p \in Pipe, OpenChannel(p) \/ OpenChannelFails(p) PROVE PipesInv'
  BY <1>2 DEF OpenChannel, OpenChannelFails, Waiting
<1>3. ASSUME NEW p \in Pipe, CopyEnds(p) \/ WriteFails(p) PROVE PipesInv'
  BY <1>3 DEF CopyEnds, WriteFails
<1>4. ASSUME NEW p \in Pipe, CloseSocket(p) PROVE PipesInv'
  BY <1>4 DEF CloseSocket, CopierGoes
<1>5. ASSUME NEW p \in Pipe, CloseChannel(p) PROVE PipesInv'
  BY <1>5 DEF CloseChannel, CopierGoes
<1>6. ASSUME NEW p \in Pipe, HalfClose(p) PROVE PipesInv'
  BY <1>6 DEF HalfClose, CopierGoes
<1>7. ASSUME NEW p \in Pipe, CloseAfterBoth(p) PROVE PipesInv'
  BY <1>7 DEF CloseAfterBoth
<1>8. ASSUME NEW p \in Pipe, PeerEnds(p) PROVE PipesInv'
  BY <1>8 DEF PeerEnds
<1>9. ASSUME NEW p \in Pipe, Reap(p) PROVE PipesInv'
  BY <1>9 DEF Reap
<1>10. ASSUME NEW l \in Link, LinkEnds(l) PROVE PipesInv'
  BY <1>10 DEF LinkEnds
<1>11. CASE UNCHANGED proxyVars
  BY <1>11 DEF proxyVars
<1> QED
  BY <1>1, <1>2, <1>3, <1>4, <1>5, <1>6, <1>7, <1>8, <1>9, <1>10, <1>11 DEF ProxyNext, Proxies

\* However the copiers of any number of sockets, their peers and the SSH
\* connections interleave: what is open has a goroutine that will close it, and
\* nothing is closed that both peers still use.
THEOREM ProxiesAreWatched == ProxySpec => []ProxyInv
<1>1. PipesInv => ProxyInv
  BY DEF PipesInv
<1> QED BY InitPipesInv, NextPipesInv, <1>1, PTL DEF ProxySpec
=============================================================================
